--------------------------- MODULE ShoppingProofs ---------------------------
(***************************************************************************)
(* Theorems about Shopping for any sets of requests, users, sessions and   *)
(* products, and any quantities.                                           *)
(***************************************************************************)
EXTENDS Shopping, SequenceTheorems, WellFoundedInduction, TLAPS

-----------------------------------------------------------------------------
(***************************************************************************)
(* The list of a session: finding, appending and taking out.               *)
(***************************************************************************)

\* Sets of naturals have a least element.
LEMMA LeastNat ==
  ASSUME NEW T \in SUBSET Nat, T # {}
  PROVE  Min(T) \in T /\ \A n \in T : Min(T) <= n
  <1>1. PICK n \in T : \A m \in T : ~ (<<m, n>> \in OpToRel(<, Nat))
    BY NatLessThanWellFounded, WFMin
  <1>2. ASSUME NEW m \in T
        PROVE  ~ (m < n)
    <2>1. m \in Nat /\ n \in Nat
      OBVIOUS
    <2>2. m < n => <<m, n>> \in OpToRel(<, Nat)
      BY <2>1, Zenon DEF OpToRel
    <2>3. QED
      BY <1>1, <2>2, Zenon
  <1>3. \A m \in T : n <= m
    BY <1>2
  <1>4. QED
    BY <1>3 DEF Min

\* ArrIndex returns a position of the item, or 0 when there is none.
LEMMA FoundInList ==
  ASSUME NEW S, NEW l \in Seq(S), NEW e, NEW f, f = ArrIndex(l, e)
  PROVE  /\ f \in Nat
         /\ f # 0 => f \in DOMAIN l /\ l[f] = e
         /\ f = 0 => e \notin ToSet(l)
  <1> DEFINE I == {i \in 1..Len(l) : l[i] = e}
  <1>1. f = IF I # {} THEN Min(I) ELSE 0
    BY DEF ArrIndex, SelectInSeq
  <1>2. I \in SUBSET Nat /\ DOMAIN l = 1..Len(l) /\ Len(l) \in Nat
    BY LenProperties
  <1>3. CASE I = {}
    BY <1>1, <1>2, <1>3 DEF ToSet
  <1>4. CASE I # {}
    <2>1. Min(I) \in I
      BY <1>2, <1>4, LeastNat
    <2>2. QED
      BY <1>1, <1>2, <1>4, <2>1
  <1>5. QED
    BY <1>3, <1>4

\* ToSet is the elements, and an element has a position.
LEMMA ToSetOfSeq ==
  ASSUME NEW S, NEW l \in Seq(S)
  PROVE  /\ ToSet(l) \subseteq S
         /\ \A i \in 1..Len(l) : l[i] \in ToSet(l)
         /\ \A e \in ToSet(l) : \E i \in 1..Len(l) : l[i] = e
  BY LenProperties, ElementOfSeq DEF ToSet

LEMMA ToSetEmpty == ToSet(<<>>) = {}
  BY DEF ToSet

Distinct(l) == \A i, j \in DOMAIN l : i # j => l[i] # l[j]

\* Appending adds the element, and repeats none that is new.
LEMMA AppendToList ==
  ASSUME NEW S, NEW l \in Seq(S), NEW e \in S
  PROVE  /\ Append(l, e) \in Seq(S)
         /\ ToSet(Append(l, e)) = ToSet(l) \cup {e}
         /\ Distinct(l) /\ e \notin ToSet(l) => Distinct(Append(l, e))
  <1> DEFINE a == Append(l, e)
  <1>1. /\ a \in Seq(S) /\ Len(a) = Len(l) + 1
        /\ \A i \in 1..Len(l) : a[i] = l[i]
        /\ a[Len(l) + 1] = e
    BY AppendProperties
  <1>2. DOMAIN a = 1..(Len(l) + 1) /\ DOMAIN l = 1..Len(l) /\ Len(l) \in Nat
    BY <1>1, LenProperties
  <1>3. 1..(Len(l) + 1) = 1..Len(l) \cup {Len(l) + 1}
    BY <1>2
  <1> HIDE DEF a
  <1>4. ToSet(a) = ToSet(l) \cup {e}
    BY <1>1, <1>2, <1>3 DEF ToSet
  <1>5. ASSUME Distinct(l), e \notin ToSet(l)
        PROVE  Distinct(a)
    BY <1>1, <1>2, <1>3, <1>5 DEF Distinct, ToSet
  <1>6. QED
    BY <1>1, <1>4, <1>5 DEF a

\* RemoveAt takes out one element, keeps all others and their order.
LEMMA RemoveFromList ==
  ASSUME NEW S, NEW l \in Seq(S), NEW k \in 1..Len(l)
  PROVE  /\ RemoveAt(l, k) \in Seq(S)
         /\ ToSet(RemoveAt(l, k)) \subseteq ToSet(l)
         /\ ToSet(l) \subseteq ToSet(RemoveAt(l, k)) \cup {l[k]}
         /\ Distinct(l) => Distinct(RemoveAt(l, k))
         /\ Distinct(l) => l[k] \notin ToSet(RemoveAt(l, k))
  <1> DEFINE n == Len(l)
             a == SubSeq(l, 1, k - 1)
             b == SubSeq(l, k + 1, n)
             c == RemoveAt(l, k)
  <1>1. n \in Nat /\ k \in Int /\ DOMAIN l = 1..n /\ \A i \in 1..n : l[i] \in S
    BY LenProperties, ElementOfSeq
  <1>2. /\ a \in Seq(S) /\ Len(a) = k - 1
        /\ \A i \in 1..(k - 1) : a[i] = l[i]
    <2>1. \A i \in 1..(k - 1) : l[i] \in S
      BY <1>1
    <2>2. k - 1 \in Int /\ 1 \in Int /\ k - 1 - 1 + 1 = k - 1
      BY <1>1
    <2>3. /\ SubSeq(l, 1, k - 1) \in Seq(S)
          /\ Len(SubSeq(l, 1, k - 1)) = IF 1 <= k - 1 THEN k - 1 - 1 + 1 ELSE 0
          /\ \A i \in 1..(k - 1 - 1 + 1) : SubSeq(l, 1, k - 1)[i] = l[1 + i - 1]
      BY <2>1, <2>2, SubSeqProperties
    <2>4. QED
      BY <1>1, <2>2, <2>3
  <1>3. /\ b \in Seq(S) /\ Len(b) = n - k
        /\ \A i \in 1..(n - k) : b[i] = l[k + i]
    <2>1. \A i \in (k + 1)..n : l[i] \in S
      BY <1>1
    <2>2. k + 1 \in Int /\ n \in Int /\ n - (k + 1) + 1 = n - k
      BY <1>1
    <2>3. /\ SubSeq(l, k + 1, n) \in Seq(S)
          /\ Len(SubSeq(l, k + 1, n)) = IF k + 1 <= n THEN n - (k + 1) + 1 ELSE 0
          /\ \A i \in 1..(n - (k + 1) + 1) : SubSeq(l, k + 1, n)[i] = l[k + 1 + i - 1]
      BY <2>1, <2>2, SubSeqProperties
    <2>4. QED
      BY <1>1, <2>2, <2>3
  <1>4. c = a \o b
    BY DEF RemoveAt
  <1> HIDE DEF a, b
  <1>5. /\ c \in Seq(S) /\ Len(c) = n - 1
        /\ \A i \in 1..(n - 1) : c[i] = IF i <= k - 1 THEN a[i] ELSE b[i - (k - 1)]
    <2> HIDE DEF c, n
    <2>1. /\ a \o b \in Seq(S)
          /\ Len(a \o b) = Len(a) + Len(b)
          /\ \A i \in 1..(Len(a) + Len(b)) :
               (a \o b)[i] = IF i <= Len(a) THEN a[i] ELSE b[i - Len(a)]
      BY <1>2, <1>3, ConcatProperties, Zenon
    <2>2. Len(a) + Len(b) = n - 1
      BY <1>1, <1>2, <1>3 DEF n
    <2>3. QED
      BY <1>2, <1>4, <2>1, <2>2
  <1> HIDE DEF c, n
  <1>6. \A i \in 1..(n - 1) : c[i] = IF i < k THEN l[i] ELSE l[i + 1]
    BY <1>1, <1>2, <1>3, <1>5 DEF n
  <1>7. DOMAIN c = 1..(n - 1)
    BY <1>5, LenProperties
  <1>8. ToSet(c) \subseteq ToSet(l)
    BY <1>1, <1>6, <1>7 DEF ToSet, n
  <1>9. ASSUME NEW e \in ToSet(l), e # l[k]
        PROVE  e \in ToSet(c)
    <2>1. PICK i \in 1..n : l[i] = e
      BY <1>1, <1>9 DEF ToSet
    <2>2. CASE i < k
      BY <1>1, <1>6, <1>7, <2>1, <2>2 DEF ToSet, n
    <2>3. CASE i > k
      <3>1. i - 1 \in 1..(n - 1) /\ ~ (i - 1 < k) /\ i - 1 + 1 = i
        BY <1>1, <2>3 DEF n
      <3>2. c[i - 1] = e
        BY <1>6, <2>1, <3>1
      <3>3. QED
        BY <1>7, <3>1, <3>2 DEF ToSet
    <2>4. QED
      BY <1>1, <1>9, <2>1, <2>2, <2>3
  <1>10. ASSUME Distinct(l)
         PROVE  Distinct(c) /\ l[k] \notin ToSet(c)
    <2>1. \A i \in 1..(n - 1) :
            \E j \in 1..n : c[i] = l[j] /\ j # k /\ j = IF i < k THEN i ELSE i + 1
      BY <1>1, <1>6 DEF n
    <2>2. l[k] \notin ToSet(c)
      BY <1>1, <1>7, <1>10, <2>1 DEF Distinct, ToSet, n
    <2>3. ASSUME NEW i \in 1..(n - 1), NEW j \in 1..(n - 1), i # j
          PROVE  c[i] # c[j]
      <3>1. PICK x \in 1..n : c[i] = l[x] /\ x = IF i < k THEN i ELSE i + 1
        BY <2>1
      <3>2. PICK y \in 1..n : c[j] = l[y] /\ y = IF j < k THEN j ELSE j + 1
        BY <2>1
      <3>3. x # y
        BY <1>1, <2>3, <3>1, <3>2
      <3>4. QED
        BY <1>1, <1>10, <3>1, <3>2, <3>3 DEF Distinct
    <2>4. QED
      BY <1>7, <2>2, <2>3 DEF Distinct
  <1>11. QED
    BY <1>5, <1>8, <1>9, <1>10 DEF c

-----------------------------------------------------------------------------
(***************************************************************************)
(* The inductive invariant.  WishlistIsExact and WhatIsHeldExpires speak   *)
(* of stores; that they last depends on where each request is, and on what *)
(* it may assume of the document it writes to.                             *)
(***************************************************************************)

\* What a request in progress has been asked, and of whom.  Who has a cookie had a document.
Fits(r) ==
  /\ pc[r] \in Open <=> asked[r] # NoRequest
  /\ asked[r] # NoRequest =>
       /\ Known(Owner(r))
       /\ IF Ask(r).op = "signin"
          THEN Owner(r) \in Sessions /\ Ask(r).user \in Users
          ELSE Item(r) \in Products /\ Ask(r).user = Owner(r)
  /\ pc[r] \in {"create", "add"} => Ask(r).op = "add"
  /\ pc[r] \in {"append", "check"} => Ask(r).op = "wish"
  /\ pc[r] = "pop" => Ask(r).op = "unwish" /\ index[r] # 0
  /\ pc[r] \in {"check", "pop"} => Owner(r) \in Sessions
  /\ pc[r] \in {"reading", "loading"} => Ask(r).op = "signin"

RequestsFit == \A r \in Requests : Fits(r)

\* OnlyStocked, product by product.
Stocked ==
  /\ \A s \in Sessions, p \in Products : cart[s][p] # Absent => p \in stock
  /\ \A s \in Sessions : ToSet(list[s]) \subseteq stock
  /\ \A u \in Users : wishes[u] \subseteq stock

\* The stock has been looked at before an item is created or appended, and what a copier
\* carries comes from a session.
StockLookedAt ==
  \A r \in Requests :
    /\ pc[r] \in {"create", "append", "check"} => Item(r) \in stock
    /\ copied[r].wishlist \subseteq stock

\* While a session is copied, an item to hand over is where the next command looks for it:
\* still in the session, or read and not written yet, or in the user's store.
HandedOver(r) ==
  /\ pc[r] = "loading" => left[r] \subseteq Found(copied[r])
  /\ \A p \in Products :
       /\ <<"cart", p>> \in owed[r] =>
            /\ pc[r] = "reading" =>
                 IF "cart" \in left[r] THEN cart[Owner(r)][p] # Absent
                                       ELSE copied[r].cart[p] # Absent
            /\ pc[r] = "loading" =>
                 IF "cart" \in left[r] THEN copied[r].cart[p] # Absent
                                       ELSE cart[Ask(r).user][p] # Absent
       /\ <<"wishlist", p>> \in owed[r] =>
            /\ pc[r] = "reading" =>
                 p \in IF "wishlist" \in left[r] THEN ToSet(list[Owner(r)])
                                                 ELSE copied[r].wishlist
            /\ pc[r] = "loading" =>
                 p \in IF "wishlist" \in left[r] THEN copied[r].wishlist
                                                 ELSE wishes[Ask(r).user]

NothingIsLost == \A r \in Requests : HandedOver(r)

IInv ==
  /\ TypeOK /\ RequestsFit
  /\ WhatIsHeldExpires /\ WishlistIsExact
  /\ Stocked /\ StockLookedAt
  /\ NothingIsLost

LEMMA StockedIsOnlyStocked ==
  ASSUME TypeOK
  PROVE  Stocked <=> OnlyStocked
  <1>1. \A s \in Sessions : ToSet(list[s]) \subseteq Products
    BY ToSetOfSeq DEF TypeOK
  <1>2. ASSUME Stocked PROVE OnlyStocked
    BY <1>2 DEF Stocked, OnlyStocked, InSession, Parts
  <1>3. ASSUME OnlyStocked PROVE Stocked
    <2>1. ASSUME NEW s \in Sessions, NEW p \in Products, cart[s][p] # Absent
          PROVE  p \in stock
      <3>1. <<"cart", p>> \in InSession(s)
        BY <2>1 DEF InSession
      <3>2. <<"cart", p>> \in Parts \X stock
        BY <1>3, <3>1 DEF OnlyStocked
      <3>3. QED
        BY <3>2
    <2>2. ASSUME NEW s \in Sessions, NEW p \in ToSet(list[s])
          PROVE  p \in stock
      <3>1. <<"wishlist", p>> \in InSession(s)
        BY <2>2 DEF InSession
      <3>2. <<"wishlist", p>> \in Parts \X stock
        BY <1>3, <3>1 DEF OnlyStocked
      <3>3. QED
        BY <3>2
    <2>3. QED
      BY <1>3, <2>1, <2>2 DEF OnlyStocked, Stocked
  <1>4. QED
    BY <1>2, <1>3

LEMMA InitEstablishes == Init => IInv
  <1> SUFFICES ASSUME Init PROVE IInv
    OBVIOUS
  <1> USE DEF Init, Empty, Nothing
  <1>1. TypeOK
    BY EmptySeq
    DEF TypeOK, Quantity, Open, Answers, Parts, Items, Owners
  <1>2. RequestsFit
    BY DEF RequestsFit, Fits, Open
  <1>3. WhatIsHeldExpires
    BY DEF WhatIsHeldExpires, Owners
  <1>4. WishlistIsExact
    BY EmptySeq DEF WishlistIsExact, Between
  <1>5. Stocked /\ StockLookedAt
    BY ToSetEmpty DEF Stocked, StockLookedAt, Owners
  <1>6. NothingIsLost
    BY DEF NothingIsLost, HandedOver
  <1>7. QED
    BY <1>1, <1>2, <1>3, <1>4, <1>5, <1>6 DEF IInv

-----------------------------------------------------------------------------
(***************************************************************************)
(* The course of a request.                                                *)
(***************************************************************************)
USE DEF stores, copier

\* A request in progress is about an owner, and a document that its client has a key of.
LEMMA OpenRequest ==
  ASSUME TypeOK, RequestsFit, NEW r \in Requests, pc[r] \in Open
  PROVE  /\ asked[r] # NoRequest /\ asked[r] \in Asking
         /\ Owner(r) \in Owners /\ Ask(r).user \in Owners /\ Ask(r).qty \in Int
         /\ Owner(r) \in Sessions => Owner(r) \notin Users
         /\ Owner(r) \in Sessions /\ ~NoDocument(Owner(r)) => life[Owner(r)] = "live"
         /\ Fits(r)
  <1>1. asked[r] # NoRequest /\ asked[r] \in Asking /\ Fits(r)
    BY DEF TypeOK, RequestsFit, Fits
  <1>2. QED
    BY <1>1, ShoppingAssumption DEF Fits, Asking, Owner, Ask, Known, NoDocument

\* What a step does not touch stays in place: the other requests ...
SameRequest(x) ==
  /\ pc'[x] = pc[x] /\ asked'[x] = asked[x] /\ index'[x] = index[x]
  /\ copied'[x] = copied[x] /\ left'[x] = left[x]

LEMMA OthersFit ==
  ASSUME TypeOK, RequestsFit, NEW x \in Requests, SameRequest(x),
         \A s \in Sessions : life[s] \in {"live", "gone"} => life'[s] \in {"live", "gone"}
  PROVE  Fits(x)'
  BY DEF RequestsFit, Fits, SameRequest, Known, Owner, Item, Ask, TypeOK, Asking, Owners, Open

\* ... and the items that a sign-in has to hand over.
StoresKeep(x) ==
  \A p \in Products :
    /\ <<"cart", p>> \in owed'[x] =>
         \A o \in {Owner(x), Ask(x).user} : cart[o][p] # Absent => cart'[o][p] # Absent
    /\ <<"wishlist", p>> \in owed'[x] =>
         /\ p \in ToSet(list[Owner(x)]) => p \in ToSet(list'[Owner(x)])
         /\ p \in wishes[Ask(x).user] => p \in wishes'[Ask(x).user]

\* A step after which no store misses what is owed.
LEMMA OthersHandOver ==
  ASSUME NothingIsLost, NEW r \in Requests,
         pc'[r] \in {"reading", "loading"} => HandedOver(r)',
         \A x \in Requests \ {r} :
           /\ SameRequest(x) /\ owed'[x] \subseteq owed[x]
           /\ pc[x] \in {"reading", "loading"} => StoresKeep(x)
  PROVE  NothingIsLost'
  <1>1. HandedOver(r)'
    BY DEF HandedOver
  <1>2. ASSUME NEW x \in Requests \ {r}
        PROVE  HandedOver(x)'
    BY DEF NothingIsLost, HandedOver, SameRequest, StoresKeep, Owner, Ask, Found
  <1>3. QED
    BY <1>1, <1>2 DEF NothingIsLost

\* A step that changes no store: it is answered, or goes to a stage that it may go to.
LEMMA ReadStepKeeps ==
  ASSUME IInv, NEW r \in Requests, NEW to,
         pc[r] \in Open, Goto(r, to), ReadStep,
         \/ to \in Answers
         \/ to = "create" /\ Ask(r).op = "add" /\ Item(r) \in stock
         \/ to = "add" /\ Ask(r).op = "add"
         \/ to = "append" /\ Ask(r).op = "wish" /\ Item(r) \in stock
         \/ /\ to = "check" /\ Ask(r).op = "wish" /\ Owner(r) \in Sessions
            /\ Item(r) \in stock /\ Item(r) \notin ToSet(list[Owner(r)])
  PROVE  IInv'
  <1> USE DEF Goto, ReadStep, CartStep
  <1> USE IInv DEF IInv
  <1>1. /\ asked[r] # NoRequest /\ Fits(r)
        /\ to \in Open \cup Answers /\ to \notin {"reading", "loading", "pop"}
    BY OpenRequest DEF Open, Answers
  <1>2. \A x \in Requests \ {r} : SameRequest(x)
    BY DEF SameRequest
  <1>3. TypeOK'
    BY <1>1 DEF TypeOK
  <1>4. RequestsFit'
    <2>1. Fits(r)'
      BY <1>1 DEF Fits, TypeOK, Open, Answers, Owner, Item, Ask, Known
    <2>2. QED
      BY <1>2, <2>1, OthersFit DEF RequestsFit
  <1>5. WhatIsHeldExpires' /\ Stocked'
    BY DEF WhatIsHeldExpires, Stocked
  <1>6. WishlistIsExact'
    BY <1>1, <1>2 DEF WishlistIsExact, Between, SameRequest, Owner, Item, TypeOK, Answers
  <1>7. StockLookedAt'
    BY <1>1 DEF StockLookedAt, TypeOK, Item, Answers
  <1>8. NothingIsLost'
    <2>1. \A x \in Requests : owed'[x] = owed[x] /\ StoresKeep(x)
      BY DEF StoresKeep
    <2>2. pc'[r] \notin {"reading", "loading"}
      BY <1>1 DEF TypeOK
    <2>3. QED
      BY <1>2, <2>1, <2>2, OthersHandOver
  <1>9. QED
    BY <1>3, <1>4, <1>5, <1>6, <1>7, <1>8

\* A release takes the item from those who would have to hand it over, and nothing else.
LEMMA ReleaseShrinks ==
  ASSUME TypeOK, NEW o, NEW i, Release(o, i)
  PROVE  /\ owed' \in [Requests -> SUBSET Items]
         /\ \A x \in Requests : owed'[x] \subseteq owed[x]
         /\ \A x \in Requests :
              asked[x] # NoRequest /\ o \in {Owner(x), Ask(x).user} => i \notin owed'[x]
  <1>1. /\ owed \in [Requests -> SUBSET Items]
        /\ owed' = [x \in Requests |->
             IF asked[x] # NoRequest /\ o \in {Owner(x), Ask(x).user}
             THEN owed[x] \ {i} ELSE owed[x]]
    BY DEF TypeOK, Release, Owner, Ask
  <1>2. \A x \in Requests :
          owed'[x] = IF asked[x] # NoRequest /\ o \in {Owner(x), Ask(x).user}
                     THEN owed[x] \ {i} ELSE owed[x]
    BY <1>1
  <1>3. QED
    BY <1>1, <1>2

-----------------------------------------------------------------------------
(***************************************************************************)
(* Carts.                                                                  *)
(***************************************************************************)

\* A write of one item: of a quantity, where there may be one, or of a removal, which
\* releases the sign-ins that would hand the item over.
LEMMA PutKeeps ==
  ASSUME IInv, NEW r \in Requests, NEW q \in Quantity,
         pc[r] \in Open, Ask(r).op # "signin",
         Goto(r, "ok"), Put(r, q), CartStep,
         Owner(r) \in Sessions => life[Owner(r)] = "live" /\ (q = Absent \/ Item(r) \in stock),
         \/ q # Absent /\ UNCHANGED owed
         \/ Release(Owner(r), <<"cart", Item(r)>>)
  PROVE  IInv'
  <1> USE DEF Goto, CartStep
  <1> USE IInv DEF IInv
  <1>1. /\ asked[r] # NoRequest /\ Fits(r) /\ asked[r] \in Asking
        /\ Owner(r) \in Owners /\ Item(r) \in Products /\ Ask(r).user = Owner(r)
    BY OpenRequest DEF Fits
  <1>2. \A x \in Requests \ {r} : SameRequest(x)
    BY DEF SameRequest
  <1>3. pc'[r] = "ok" /\ asked'[r] = NoRequest /\ pc' \in [Requests -> Open \cup Answers \cup {"idle", "lost"}]
    BY DEF TypeOK, Answers
  <1>4. \A o \in Owners, p \in Products :
          cart'[o][p] = IF o = Owner(r) /\ p = Item(r) THEN q ELSE cart[o][p]
    BY <1>1 DEF Put, TypeOK
  <1>5. TypeOK'
    <2>1. cart' \in [Owners -> [Products -> Quantity]]
      BY <1>1 DEF Put, TypeOK
    <2>2. owed' \in [Requests -> SUBSET Items]
      BY ReleaseShrinks DEF TypeOK
    <2>3. QED
      BY <1>3, <2>1, <2>2 DEF TypeOK, Answers
  <1>6. RequestsFit'
    <2>1. Fits(r)'
      BY <1>3 DEF Fits, Open
    <2>2. QED
      BY <1>2, <2>1, OthersFit DEF RequestsFit
  <1>7. WhatIsHeldExpires'
    BY <1>1 DEF WhatIsHeldExpires, Put, TypeOK, Owners
  <1>8. Stocked'
    BY <1>1, <1>4 DEF Stocked, Owners
  <1>9. WishlistIsExact'
    BY <1>2, <1>3 DEF WishlistIsExact, Between, SameRequest, Owner, Item
  <1>10. StockLookedAt'
    BY <1>2, <1>3 DEF StockLookedAt, SameRequest, Item
  <1>11. NothingIsLost'
    <2>1. ASSUME NEW x \in Requests \ {r}
          PROVE  /\ owed'[x] \subseteq owed[x]
                 /\ pc[x] \in {"reading", "loading"} => StoresKeep(x)
      <3>1. owed'[x] \subseteq owed[x]
        BY ReleaseShrinks
      <3>2. ASSUME pc[x] \in {"reading", "loading"}
            PROVE  StoresKeep(x)
        <4>1. asked[x] # NoRequest /\ Owner(x) \in Owners /\ Ask(x).user \in Owners
          BY <3>2, OpenRequest DEF Open
        <4>2. ASSUME NEW p \in Products, <<"cart", p>> \in owed'[x],
                     NEW o \in {Owner(x), Ask(x).user}, cart[o][p] # Absent
              PROVE  cart'[o][p] # Absent
          <5>1. CASE q # Absent
            BY <1>4, <4>1, <4>2, <5>1
          <5>2. CASE Release(Owner(r), <<"cart", Item(r)>>)
            <6>1. ~ (o = Owner(r) /\ p = Item(r))
              BY <4>1, <4>2, <5>2, ReleaseShrinks
            <6>2. QED
              BY <1>4, <4>1, <4>2, <6>1
          <5>3. QED
            BY <5>1, <5>2
        <4>3. QED
          BY <4>2 DEF StoresKeep
      <3>3. QED
        BY <3>1, <3>2
    <2>2. QED
      BY <1>2, <1>3, <2>1, OthersHandOver
  <1>12. QED
    BY <1>5, <1>6, <1>7, <1>8, <1>9, <1>10, <1>11

\* Each command of a request about a cart is one or the other.
LEMMA CartKeepsInvariant ==
  ASSUME IInv, NEW r \in Requests, CartRequest(r)
  PROVE  IInv'
  <1> USE ShoppingAssumption DEF At, Open, Answers
  <1>1. TypeOK /\ RequestsFit /\ Fits(r) /\ WhatIsHeldExpires /\ Stocked /\ StockLookedAt
    BY DEF IInv, RequestsFit
  <1>2. CASE CheckStockForCart(r)
    BY <1>2, ReadStepKeeps DEF CheckStockForCart, RequireInStock, Ask
  <1>3. CASE CreateWithoutDocument(r)
    BY <1>3, ReadStepKeeps DEF CreateWithoutDocument
  <1>4. CASE DeleteMissing(r)
    BY <1>4, ReadStepKeeps DEF DeleteMissing, Removing
  <1>5. CASE CreateItem(r)
    <2>1. /\ Ask(r).op = "add" /\ pc[r] \in Open
          /\ Owner(r) \in Sessions => life[Owner(r)] = "live"
          /\ Item(r) \in stock
          /\ Ask(r).qty \in Quantity \ {Absent}
      BY <1>1, <1>5, OpenRequest DEF CreateItem, Fits, StockLookedAt, Quantity
    <2>2. CASE Held(r) = Absent
      BY <1>5, <2>1, <2>2, PutKeeps DEF CreateItem
    <2>3. CASE Held(r) # Absent
      BY <1>5, <2>1, <2>3, ReadStepKeeps DEF CreateItem, ReadStep, CartStep
    <2>4. QED
      BY <2>2, <2>3
  <1>6. ASSUME pc[r] \in Open, Ask(r).op # "signin", Held(r) # Absent
        PROVE  /\ Held(r) \in Int
               /\ Owner(r) \in Sessions => life[Owner(r)] = "live" /\ Item(r) \in stock
    <2>1. Owner(r) \in Owners /\ Item(r) \in Products
      BY <1>1, <1>6, OpenRequest DEF Fits
    <2>2. Held(r) \in Quantity
      BY <1>1, <2>1 DEF Held, TypeOK
    <2>3. Owner(r) \in Sessions => life[Owner(r)] = "live"
      BY <1>1, <1>6, <2>1 DEF WhatIsHeldExpires, Held, Empty
    <2>4. QED
      BY <1>1, <1>6, <2>1, <2>2, <2>3 DEF Quantity, Stocked, Held
  <1>7. CASE AddQuantity(r)
    <2>1. pc[r] \in Open /\ Ask(r).op # "signin" /\ Ask(r).qty \in Int
      BY <1>1, <1>7, OpenRequest DEF AddQuantity, Fits
    <2>2. CASE Held(r) # Absent
      <3>1. Held(r) + Ask(r).qty \in Quantity \ {Absent}
        BY <1>6, <2>1, <2>2 DEF Quantity
      <3>2. QED
        BY <1>6, <1>7, <2>1, <2>2, <3>1, PutKeeps DEF AddQuantity
    <2>3. CASE Held(r) = Absent /\ Owner(r) \in Users
      BY <1>7, <2>1, <2>3, PutKeeps DEF AddQuantity, Quantity
    <2>4. CASE Held(r) = Absent /\ Owner(r) \notin Users
      BY <1>7, <2>1, <2>4, ReadStepKeeps DEF AddQuantity, ReadStep, CartStep
    <2>5. QED
      BY <2>2, <2>3, <2>4
  <1>8. CASE DeleteItem(r)
    <2>1. pc[r] \in Open /\ Ask(r).op # "signin" /\ Absent \in Quantity
      BY <1>8 DEF DeleteItem, Removing, Ask, Quantity
    <2>2. QED
      BY <1>6, <1>8, <2>1, PutKeeps DEF DeleteItem
  <1>9. CASE UpdateUserQty(r)
    <2>1. /\ pc[r] \in Open /\ Ask(r).op # "signin" /\ Ask(r).qty \in Quantity \ {Absent}
          /\ Owner(r) \notin Sessions
      BY <1>1, <1>9, OpenRequest DEF UpdateUserQty, Ask, Quantity
    <2>2. CASE Held(r) = Absent
      BY <1>9, <2>1, <2>2, PutKeeps DEF UpdateUserQty
    <2>3. CASE Held(r) # Absent
      BY <1>9, <2>1, <2>3, ReadStepKeeps DEF UpdateUserQty, ReadStep, CartStep
    <2>4. QED
      BY <2>2, <2>3
  <1>10. CASE UpdateSessionQty(r)
    <2>1. pc[r] \in Open /\ Ask(r).op # "signin" /\ Ask(r).qty \in Quantity \ {Absent}
      BY <1>1, <1>10, OpenRequest DEF UpdateSessionQty, Ask, Quantity
    <2>2. CASE Held(r) # Absent
      BY <1>6, <1>10, <2>1, <2>2, PutKeeps DEF UpdateSessionQty
    <2>3. CASE Held(r) = Absent
      BY <1>10, <2>1, <2>3, ReadStepKeeps DEF UpdateSessionQty, ReadStep, CartStep
    <2>4. QED
      BY <2>2, <2>3
  <1>11. QED
    BY <1>2, <1>3, <1>4, <1>5, <1>7, <1>8, <1>9, <1>10 DEF CartRequest

-----------------------------------------------------------------------------
(***************************************************************************)
(* Wishlists.                                                              *)
(***************************************************************************)

\* A user's wishlist gets an item that was in stock, or loses one that is released.
LEMMA UserWishKeeps ==
  ASSUME IInv, NEW r \in Requests, AppendForUser(r) \/ RemoveForUser(r)
  PROVE  IInv'
  <1> DEFINE o == Owner(r)
             p == Item(r)
             w == IF AppendForUser(r) THEN wishes[o] \cup {p} ELSE wishes[o] \ {p}
  <1> USE DEF Goto, WishStep
  <1> USE IInv DEF IInv
  <1>1. /\ asked[r] # NoRequest /\ Fits(r) /\ pc[r] \in Open
        /\ o \in Users /\ o \in Owners /\ o \notin Sessions /\ p \in Products
    BY OpenRequest DEF Fits, AppendForUser, RemoveForUser, At, Open, Ask
  <1>2. /\ wishes' = [wishes EXCEPT ![o] = w]
        /\ UNCHANGED <<cart, list, life, stock, copied, left, index, raced>>
        /\ IF AppendForUser(r) THEN UNCHANGED owed ELSE Release(o, <<"wishlist", p>>)
        /\ \E to \in {"ok", "refused"} : Goto(r, to)
    BY DEF AppendForUser, RemoveForUser
  <1>3. AppendForUser(r) => p \in stock
    BY DEF AppendForUser, At, StockLookedAt
  <1> HIDE DEF w, o, p
  <1>4. /\ pc'[r] \in {"ok", "refused"} /\ asked'[r] = NoRequest
        /\ pc' \in [Requests -> Open \cup Answers \cup {"idle", "lost"}]
        /\ asked' \in [Requests -> Asking \cup {NoRequest}]
        /\ \A x \in Requests \ {r} : SameRequest(x)
    BY <1>2 DEF TypeOK, Answers, SameRequest
  <1>5. TypeOK'
    <2>1. owed' \in [Requests -> SUBSET Items]
      <3>1. CASE Release(o, <<"wishlist", p>>)
        BY <3>1, ReleaseShrinks
      <3>2. QED
        BY <1>2, <3>1 DEF TypeOK
    <2>2. w \in SUBSET Products
      BY <1>1 DEF w, TypeOK
    <2>3. wishes' \in [Users -> SUBSET Products]
      BY <1>2, <2>2 DEF TypeOK
    <2>4. QED
      BY <1>2, <1>4, <2>1, <2>3 DEF TypeOK
  <1>6. RequestsFit'
    <2>1. Fits(r)'
      BY <1>4 DEF Fits, Open
    <2>2. QED
      BY <1>2, <1>4, <2>1, OthersFit DEF RequestsFit
  <1>7. WhatIsHeldExpires'
    BY <1>2 DEF WhatIsHeldExpires
  <1>8. Stocked'
    BY <1>1, <1>2, <1>3 DEF Stocked, w, TypeOK
  <1>9. WishlistIsExact'
    BY <1>2, <1>4 DEF WishlistIsExact, Between, SameRequest, Owner, Item
  <1>10. StockLookedAt'
    BY <1>2, <1>4 DEF StockLookedAt, SameRequest, Item
  <1>11. NothingIsLost'
    <2>1. ASSUME NEW x \in Requests \ {r}
          PROVE  /\ owed'[x] \subseteq owed[x]
                 /\ pc[x] \in {"reading", "loading"} => StoresKeep(x)
      <3>1. owed'[x] \subseteq owed[x]
        <4>1. CASE Release(o, <<"wishlist", p>>)
          BY <4>1, ReleaseShrinks
        <4>2. QED
          BY <1>2, <4>1
      <3>2. ASSUME pc[x] \in {"reading", "loading"}
            PROVE  StoresKeep(x)
        <4>1. asked[x] # NoRequest /\ Ask(x).user \in Users
          BY <3>2, OpenRequest DEF Open, Fits
        <4>2. ASSUME NEW q \in Products, <<"wishlist", q>> \in owed'[x],
                     q \in wishes[Ask(x).user]
              PROVE  q \in wishes'[Ask(x).user]
          <5>1. CASE AppendForUser(r)
            BY <1>1, <1>2, <4>1, <4>2, <5>1 DEF w, TypeOK
          <5>2. CASE ~AppendForUser(r)
            <6>1. ~ (Ask(x).user = o /\ q = p)
              BY <1>2, <4>1, <4>2, <5>2, ReleaseShrinks
            <6>2. QED
              BY <1>1, <1>2, <4>1, <4>2, <5>2, <6>1 DEF w, TypeOK
          <5>3. QED
            BY <5>1, <5>2
        <4>3. QED
          BY <1>2, <4>2 DEF StoresKeep
      <3>3. QED
        BY <3>1, <3>2
    <2>2. QED
      BY <1>4, <2>1, OthersHandOver
  <1>12. QED
    BY <1>5, <1>6, <1>7, <1>8, <1>9, <1>10, <1>11

\* A change of the list of a session, by the one request that is between its two commands
\* or by one that marks a race.
LEMMA ListStepKeeps ==
  ASSUME IInv, NEW r \in Requests, NEW o, NEW m, NEW e,
         o = Owner(r), o \in Sessions, life[o] = "live",
         pc[r] \in {"check", "pop"}, Goto(r, "ok"), MarkRaces(r),
         index' = [index EXCEPT ![r] = e], e \in Nat,
         UNCHANGED wishes, WishStep,
         m \in Seq(Products), ToSet(m) \subseteq stock,
         list' = [list EXCEPT ![o] = m],
         o \notin raced => Distinct(m),
         owed' \in [Requests -> SUBSET Items],
         \A x \in Requests : owed'[x] \subseteq owed[x],
         \A x \in Requests, q \in ToSet(list[o]) :
            asked[x] # NoRequest /\ Owner(x) = o /\ <<"wishlist", q>> \in owed'[x]
              => q \in ToSet(m)
  PROVE  IInv'
  <1> USE DEF Goto, WishStep
  <1> USE IInv DEF IInv
  <1>1. /\ asked[r] # NoRequest /\ Fits(r) /\ pc[r] \in Open
        /\ pc'[r] = "ok" /\ asked'[r] = NoRequest
        /\ pc' \in [Requests -> Open \cup Answers \cup {"idle", "lost"}]
        /\ asked' \in [Requests -> Asking \cup {NoRequest}]
        /\ \A x \in Requests \ {r} : SameRequest(x)
    BY OpenRequest DEF Open, TypeOK, Answers, SameRequest
  <1>2. /\ list' \in [Sessions -> Seq(Products)]
        /\ list'[o] = m
        /\ \A s \in Sessions \ {o} : list'[s] = list[s]
    BY DEF TypeOK
  <1>3. TypeOK'
    <2>1. raced' \subseteq Sessions
      BY DEF MarkRaces, TypeOK
    <2>2. index' \in [Requests -> Nat]
      BY DEF TypeOK
    <2>3. QED
      BY <1>1, <1>2, <2>1, <2>2 DEF TypeOK
  <1>4. RequestsFit'
    <2>1. Fits(r)'
      BY <1>1 DEF Fits, Open
    <2>2. QED
      BY <1>1, <2>1, OthersFit DEF RequestsFit
  <1>5. WhatIsHeldExpires'
    BY <1>2 DEF WhatIsHeldExpires
  <1>6. Stocked'
    BY <1>2 DEF Stocked
  <1>7. WishlistIsExact'
    <2> SUFFICES ASSUME NEW s \in Sessions, s \notin raced'
                 PROVE  /\ Distinct(list'[s])
                        /\ \A x \in Requests : Between(x, s)' /\ life[s] = "live" =>
                             IF pc'[x] = "pop"
                             THEN index'[x] \in DOMAIN list'[s] /\ list'[s][index'[x]] = Item(x)'
                             ELSE Item(x)' \notin ToSet(list'[s])
      BY DEF WishlistIsExact, Distinct
    <2>1. s \notin raced /\ (s = o => \A x \in Requests \ {r} : ~Between(x, s))
      BY DEF MarkRaces
    <2>2. ~Between(r, s)' /\ \A x \in Requests \ {r} : Between(x, s)' <=> Between(x, s)
      BY <1>1 DEF Between, SameRequest, Owner
    <2>3. CASE s = o
      BY <1>2, <2>1, <2>2, <2>3
    <2>4. CASE s # o
      BY <1>1, <1>2, <2>1, <2>2, <2>4 DEF WishlistIsExact, Distinct, SameRequest, Item
    <2>5. QED
      BY <2>3, <2>4
  <1>8. StockLookedAt'
    BY <1>1 DEF StockLookedAt, SameRequest, Item
  <1>9. NothingIsLost'
    <2>1. ASSUME NEW x \in Requests \ {r}, pc[x] \in {"reading", "loading"}
          PROVE  StoresKeep(x)
      <3>1. asked[x] # NoRequest /\ Owner(x) \in Sessions
        BY <2>1, OpenRequest DEF Open, Fits
      <3>2. ASSUME NEW q \in Products, <<"wishlist", q>> \in owed'[x],
                   q \in ToSet(list[Owner(x)])
            PROVE  q \in ToSet(list'[Owner(x)])
        BY <1>2, <3>1, <3>2
      <3>3. QED
        BY <3>2 DEF StoresKeep
    <2>2. QED
      BY <1>1, <2>1, OthersHandOver
  <1>10. QED
    BY <1>3, <1>4, <1>5, <1>6, <1>7, <1>8, <1>9

LEMMA AppendKeeps ==
  ASSUME IInv, NEW r \in Requests, AppendForSession(r)
  PROVE  IInv'
  <1> DEFINE o == Owner(r)
             m == Append(list[o], Item(r))
  <1>1. /\ asked[r] # NoRequest /\ Fits(r) /\ o \in Sessions /\ life[o] = "live"
        /\ Item(r) \in Products /\ Item(r) \in stock
    BY OpenRequest DEF IInv, AppendForSession, Fits, StockLookedAt, Open
  <1>2. /\ list[o] \in Seq(Products) /\ list' = [list EXCEPT ![o] = m]
        /\ index \in [Requests -> Nat] /\ owed \in [Requests -> SUBSET Items]
    BY <1>1 DEF IInv, TypeOK, AppendForSession
  <1>3. /\ m \in Seq(Products) /\ ToSet(m) = ToSet(list[o]) \cup {Item(r)}
        /\ Distinct(list[o]) /\ Item(r) \notin ToSet(list[o]) => Distinct(m)
    BY <1>1, <1>2, AppendToList
  <1>4. o \notin raced => Distinct(list[o]) /\ Item(r) \notin ToSet(list[o])
    BY <1>1 DEF IInv, WishlistIsExact, Distinct, AppendForSession, Between
  <1>5. ToSet(m) \subseteq stock
    BY <1>1, <1>3 DEF IInv, Stocked
  <1>6. /\ index' = [index EXCEPT ![r] = index[r]] /\ index[r] \in Nat
        /\ owed' = owed
    BY <1>2 DEF AppendForSession
  <1>7. /\ pc[r] \in {"check", "pop"} /\ Goto(r, "ok") /\ MarkRaces(r)
        /\ UNCHANGED wishes /\ WishStep
    BY DEF AppendForSession
  <1> HIDE DEF m, o
  <1>8. QED
    BY <1>1, <1>2, <1>3, <1>4, <1>5, <1>6, <1>7, ListStepKeeps DEF o

LEMMA PopKeeps ==
  ASSUME IInv, NEW r \in Requests, PopForSession(r)
  PROVE  IInv'
  <1> DEFINE o == Owner(r)
             l == list[o]
             i == IF index[r] <= Len(l) THEN index[r] ELSE Len(l)
             m == IF l = <<>> THEN l ELSE RemoveAt(l, i)
  <1>1. /\ asked[r] # NoRequest /\ Fits(r) /\ o \in Sessions /\ life[o] = "live"
        /\ index[r] # 0
    BY OpenRequest DEF IInv, PopForSession, Fits, Open
  <1>2. /\ l \in Seq(Products) /\ list' = [list EXCEPT ![o] = m]
        /\ index \in [Requests -> Nat] /\ owed \in [Requests -> SUBSET Items]
    BY <1>1 DEF IInv, TypeOK, PopForSession
  <1>3. o \notin raced => Distinct(l)
    BY <1>1 DEF IInv, WishlistIsExact, Distinct
  <1>4. /\ pc[r] \in {"check", "pop"} /\ Goto(r, "ok") /\ MarkRaces(r)
        /\ index' = [index EXCEPT ![r] = 0]
        /\ UNCHANGED wishes /\ WishStep
    BY DEF PopForSession
  <1>5. IF l = <<>> THEN UNCHANGED owed ELSE Release(o, <<"wishlist", l[i]>>)
    BY DEF PopForSession
  <1>6. ToSet(l) \subseteq stock
    BY <1>1 DEF IInv, Stocked
  <1>7. CASE l = <<>>
    <2>1. m = l /\ owed' = owed
      BY <1>5, <1>7
    <2> HIDE DEF m, l, o, i
    <2>2. QED
      BY <1>1, <1>2, <1>3, <1>4, <1>6, <2>1, ListStepKeeps DEF o, l
  <1>8. CASE l # <<>>
    <2>1. i \in 1..Len(l)
      BY <1>1, <1>2, <1>8, EmptySeq
    <2>2. m = RemoveAt(l, i) /\ Release(o, <<"wishlist", l[i]>>)
      BY <1>5, <1>8
    <2> HIDE DEF i, l, m, o
    <2>3. /\ m \in Seq(Products) /\ ToSet(m) \subseteq ToSet(l)
          /\ ToSet(l) \subseteq ToSet(m) \cup {l[i]}
          /\ Distinct(l) => Distinct(m)
      BY <1>2, <2>1, <2>2, RemoveFromList
    <2>4. /\ owed' \in [Requests -> SUBSET Items]
          /\ \A x \in Requests : owed'[x] \subseteq owed[x]
          /\ \A x \in Requests : asked[x] # NoRequest /\ Owner(x) = o
               => <<"wishlist", l[i]>> \notin owed'[x]
      BY <2>2, ReleaseShrinks DEF IInv
    <2>5. \A x \in Requests, q \in ToSet(list[o]) :
            asked[x] # NoRequest /\ Owner(x) = o /\ <<"wishlist", q>> \in owed'[x]
              => q \in ToSet(m)
      BY <2>3, <2>4 DEF l
    <2>6. QED
      BY <1>1, <1>2, <1>3, <1>4, <1>6, <2>3, <2>4, <2>5, ListStepKeeps DEF o
  <1>9. QED
    BY <1>7, <1>8

\* The position that a removal has found is that of its item.
LEMMA FindKeeps ==
  ASSUME IInv, NEW r \in Requests, FindIndex(r)
  PROVE  IInv'
  <1> DEFINE o == Owner(r)
             f == ArrIndex(list[o], Item(r))
  <1> USE DEF Goto, WishStep
  <1> USE IInv DEF IInv
  <1>1. /\ asked[r] # NoRequest /\ Fits(r) /\ pc[r] = "begun" /\ Ask(r).op = "unwish"
        /\ o \in Sessions /\ list[o] \in Seq(Products)
    BY OpenRequest DEF FindIndex, At, Open, Ask, TypeOK
  <1>2. /\ f \in Nat
        /\ f # 0 => f \in DOMAIN list[o] /\ list[o][f] = Item(r)
    BY <1>1, FoundInList
  <1>3. /\ pc' = [pc EXCEPT ![r] = IF f = 0 THEN "refused" ELSE "pop"]
        /\ asked' = [asked EXCEPT ![r] = IF f = 0 THEN NoRequest ELSE asked[r]]
        /\ index' = [index EXCEPT ![r] = f]
        /\ UNCHANGED <<cart, life, stock, copied, left, wishes, list, raced, owed>>
    BY DEF FindIndex, Answers
  <1> HIDE DEF f
  <1>4. \A x \in Requests \ {r} : SameRequest(x)
    BY <1>3 DEF SameRequest
  <1>5. TypeOK'
    BY <1>2, <1>3 DEF TypeOK, Open, Answers
  <1>6. RequestsFit'
    <2>1. Fits(r)'
      BY <1>1, <1>2, <1>3 DEF Fits, TypeOK, Open, Owner, Item, Ask, Known
    <2>2. QED
      BY <1>3, <1>4, <2>1, OthersFit DEF RequestsFit
  <1>7. WhatIsHeldExpires' /\ Stocked'
    BY <1>3 DEF WhatIsHeldExpires, Stocked
  <1>8. WishlistIsExact'
    <2> SUFFICES ASSUME NEW s \in Sessions, s \notin raced, NEW x \in Requests,
                        Between(x, s)', life[s] = "live"
                 PROVE  IF pc'[x] = "pop"
                        THEN index'[x] \in DOMAIN list[s] /\ list[s][index'[x]] = Item(x)'
                        ELSE Item(x)' \notin ToSet(list[s])
      BY <1>3 DEF WishlistIsExact
    <2>1. CASE x = r
      BY <1>2, <1>3, <2>1 DEF Between, Owner, Item, TypeOK
    <2>2. CASE x # r
      BY <1>4, <2>2 DEF WishlistIsExact, Between, SameRequest, Owner, Item
    <2>3. QED
      BY <2>1, <2>2
  <1>9. StockLookedAt'
    BY <1>3, <1>4 DEF StockLookedAt, TypeOK, SameRequest, Item
  <1>10. NothingIsLost'
    <2>1. \A x \in Requests : owed'[x] = owed[x] /\ StoresKeep(x)
      BY <1>3 DEF StoresKeep
    <2>2. pc'[r] \notin {"reading", "loading"}
      BY <1>3 DEF TypeOK
    <2>3. QED
      BY <1>4, <2>1, <2>2, OthersHandOver
  <1>11. QED
    BY <1>5, <1>6, <1>7, <1>8, <1>9, <1>10

LEMMA WishlistKeepsInvariant ==
  ASSUME IInv, NEW r \in Requests, WishlistRequest(r)
  PROVE  IInv'
  <1> USE DEF At, Open, Answers
  <1>1. TypeOK /\ RequestsFit /\ Fits(r) /\ StockLookedAt
    BY DEF IInv, RequestsFit
  <1>2. CASE CheckStockForWishlist(r)
    BY <1>2, ReadStepKeeps DEF CheckStockForWishlist, RequireInStock, Ask
  <1>3. CASE CheckExists(r)
    BY <1>1, <1>3, ReadStepKeeps DEF CheckExists, StockLookedAt, Ask
  <1>4. CASE WishlistWithoutDocument(r)
    BY <1>4, ReadStepKeeps DEF WishlistWithoutDocument
  <1>5. QED
    BY <1>2, <1>3, <1>4, UserWishKeeps, AppendKeeps, FindKeeps, PopKeeps DEF WishlistRequest

-----------------------------------------------------------------------------
(***************************************************************************)
(* Signing in.                                                             *)
(***************************************************************************)

\* The shape of a sign-in's step: the request goes from one stage to another, or is answered.
LEMMA SignInStepKeeps ==
  ASSUME IInv, NEW r \in Requests, NEW to,
         pc[r] \in Open, Ask(r).op = "signin",
         to \in {"reading", "loading", "ok"}, Goto(r, to),
         UNCHANGED <<list, life, stock, index, raced>>
  PROVE  /\ RequestsFit' /\ WishlistIsExact'
         /\ pc' \in [Requests -> Open \cup Answers \cup {"idle", "lost"}]
         /\ asked' \in [Requests -> Asking \cup {NoRequest}]
         /\ pc'[r] = to
         /\ to # "ok" => asked'[r] = asked[r]
  <1> USE DEF Goto
  <1> USE IInv DEF IInv
  <1>1. asked[r] # NoRequest /\ Fits(r)
    BY OpenRequest
  <1>2. \A x \in Requests \ {r} :
          pc'[x] = pc[x] /\ asked'[x] = asked[x] /\ index'[x] = index[x]
    OBVIOUS
  <1>3. /\ pc' \in [Requests -> Open \cup Answers \cup {"idle", "lost"}]
        /\ asked' \in [Requests -> Asking \cup {NoRequest}]
        /\ pc'[r] = to
        /\ to # "ok" => asked'[r] = asked[r]
    BY DEF TypeOK, Open, Answers
  <1>4. RequestsFit'
    <2>1. Fits(r)'
      BY <1>1, <1>3 DEF Fits, TypeOK, Open, Answers, Owner, Item, Ask, Known
    <2>2. ASSUME NEW x \in Requests \ {r}
          PROVE  Fits(x)'
      BY <1>2 DEF RequestsFit, Fits, Known, Owner, Item, Ask
    <2>3. QED
      BY <2>1, <2>2 DEF RequestsFit
  <1>5. WishlistIsExact'
    BY <1>2, <1>3 DEF WishlistIsExact, Between, Owner, Item
  <1>6. QED
    BY <1>3, <1>4, <1>5

LEMMA StartKeeps ==
  ASSUME IInv, NEW r \in Requests, StartCopy(r)
  PROVE  IInv'
  <1> USE IInv DEF IInv
  <1>1. /\ pc[r] \in Open /\ Ask(r).op = "signin" /\ Goto(r, "reading")
        /\ left' = [left EXCEPT ![r] = Parts]
        /\ owed' = [owed EXCEPT ![r] = InSession(Owner(r))]
        /\ UNCHANGED <<cart, wishes, list, life, stock, index, raced, copied>>
    BY DEF StartCopy, At, Open, Ask
  <1>2. /\ RequestsFit' /\ WishlistIsExact'
        /\ pc' \in [Requests -> Open \cup Answers \cup {"idle", "lost"}]
        /\ asked' \in [Requests -> Asking \cup {NoRequest}]
        /\ pc'[r] = "reading" /\ asked'[r] = asked[r]
    BY <1>1, SignInStepKeeps
  <1>3. Owner(r) \in Sessions /\ ToSet(list[Owner(r)]) \subseteq Products
    <2>1. Owner(r) \in Sessions
      BY <1>1, OpenRequest DEF Fits
    <2>2. QED
      BY <2>1, ToSetOfSeq DEF TypeOK
  <1>4. InSession(Owner(r)) \in SUBSET Items
    BY <1>3 DEF InSession, Items, Parts
  <1>5. TypeOK'
    <2>1. left' \in [Requests -> SUBSET Parts] /\ owed' \in [Requests -> SUBSET Items]
      BY <1>1, <1>4 DEF TypeOK
    <2>2. QED
      BY <1>1, <1>2, <2>1 DEF TypeOK
  <1>6. WhatIsHeldExpires' /\ Stocked'
    BY <1>1 DEF WhatIsHeldExpires, Stocked
  <1>7. \A x \in Requests \ {r} : SameRequest(x) /\ owed'[x] = owed[x]
    BY <1>1 DEF SameRequest, Goto
  <1>8. StockLookedAt'
    BY <1>1, <1>2, <1>7 DEF StockLookedAt, SameRequest, Item
  <1>9. NothingIsLost'
    <2>1. \A x \in Requests : StoresKeep(x)
      BY <1>1 DEF StoresKeep
    <2>2. HandedOver(r)'
      <3>1. left'[r] = Parts /\ owed'[r] = InSession(Owner(r))
        BY <1>1 DEF TypeOK
      <3>2. \A p \in Products :
              /\ <<"cart", p>> \in InSession(Owner(r)) => cart[Owner(r)][p] # Absent
              /\ <<"wishlist", p>> \in InSession(Owner(r)) => p \in ToSet(list[Owner(r)])
        BY DEF InSession
      <3>3. QED
        BY <1>1, <1>2, <3>1, <3>2 DEF HandedOver, Parts, Owner
    <2>3. QED
      BY <1>7, <2>1, <2>2, OthersHandOver
  <1>10. QED
    BY <1>2, <1>5, <1>6, <1>8, <1>9

\* The copy after one of the two reads.
LEMMA CopyAfterRead ==
  ASSUME TypeOK, NEW r \in Requests, NEW x \in Parts, NEW o \in Sessions, NEW c,
         c = [copied[r] EXCEPT ![x] = IF x = "cart" THEN cart[o] ELSE ToSet(list[o])]
  PROVE  /\ c \in [cart : [Products -> Quantity], wishlist : SUBSET Products]
         /\ c.cart = IF x = "cart" THEN cart[o] ELSE copied[r].cart
         /\ c.wishlist = IF x = "cart" THEN copied[r].wishlist ELSE ToSet(list[o])
  <1>1. /\ copied[r] \in [cart : [Products -> Quantity], wishlist : SUBSET Products]
        /\ cart[o] \in [Products -> Quantity]
        /\ ToSet(list[o]) \in SUBSET Products
    BY ToSetOfSeq DEF TypeOK, Owners
  <1>2. CASE x = "cart"
    BY <1>1, <1>2
  <1>3. CASE x = "wishlist"
    BY <1>1, <1>3
  <1>4. QED
    BY <1>2, <1>3 DEF Parts

\* What is not empty is to be loaded.
LEMMA FoundParts ==
  ASSUME NEW c \in [cart : [Products -> Quantity], wishlist : SUBSET Products]
  PROVE  /\ Found(c) \subseteq Parts
         /\ \A p \in Products : c.cart[p] # Absent => "cart" \in Found(c)
         /\ \A p \in c.wishlist : "wishlist" \in Found(c)
  BY DEF Found, Parts, Nothing, Empty

\* Answering forgets the copy.
LEMMA AnswerKeeps ==
  ASSUME TypeOK, NEW r \in Requests, SignedIn(r)
  PROVE  /\ left' \in [Requests -> SUBSET Parts]
         /\ owed' \in [Requests -> SUBSET Items]
         /\ copied' \in [Requests -> [cart : [Products -> Quantity], wishlist : SUBSET Products]]
         /\ copied'[r].wishlist = {}
         /\ \A x \in Requests \ {r} :
              /\ pc'[x] = pc[x] /\ asked'[x] = asked[x] /\ copied'[x] = copied[x]
              /\ left'[x] = left[x] /\ owed'[x] = owed[x]
  BY DEF SignedIn, Goto, TypeOK, Nothing, Empty, Quantity

LEMMA RetrieveKeeps ==
  ASSUME IInv, NEW r \in Requests, NEW x \in Parts, Retrieve(r, x)
  PROVE  IInv'
  <1> DEFINE o == Owner(r)
             c == [copied[r] EXCEPT ![x] = IF x = "cart" THEN cart[o] ELSE ToSet(list[o])]
  <1> USE IInv DEF IInv
  <1>1. /\ pc[r] = "reading" /\ x \in left[r]
        /\ UNCHANGED <<cart, wishes, list, life, stock, index, raced>>
    BY DEF Retrieve
  <1>2. /\ pc[r] \in Open /\ Ask(r).op = "signin" /\ o \in Sessions
        /\ asked[r] # NoRequest /\ Ask(r).user \in Users
    BY <1>1, OpenRequest DEF Open, Fits
  <1>3. /\ c \in [cart : [Products -> Quantity], wishlist : SUBSET Products]
        /\ c.cart = IF x = "cart" THEN cart[o] ELSE copied[r].cart
        /\ c.wishlist = IF x = "cart" THEN copied[r].wishlist ELSE ToSet(list[o])
    BY <1>2, CopyAfterRead
  <1>4. IF left[r] = {x} /\ LoadIfAny(c) = {}
        THEN SignedIn(r)
        ELSE /\ copied' = [copied EXCEPT ![r] = c]
             /\ left' = [left EXCEPT ![r] = IF @ = {x} THEN LoadIfAny(c) ELSE @ \ {x}]
             /\ Goto(r, IF left[r] = {x} THEN "loading" ELSE "reading")
             /\ UNCHANGED owed
    BY DEF Retrieve
  <1>5. c.wishlist \subseteq stock
    BY <1>2, <1>3 DEF Stocked, StockLookedAt
  <1> HIDE DEF c
  <1>6. WhatIsHeldExpires' /\ Stocked'
    BY <1>1 DEF WhatIsHeldExpires, Stocked
  <1>7. \A y \in Requests : owed'[y] \subseteq owed[y] => StoresKeep(y)
    BY <1>1 DEF StoresKeep
  <1>8. CASE SignedIn(r)
    <2>1. /\ RequestsFit' /\ WishlistIsExact'
          /\ pc' \in [Requests -> Open \cup Answers \cup {"idle", "lost"}]
          /\ asked' \in [Requests -> Asking \cup {NoRequest}]
          /\ pc'[r] = "ok"
      BY <1>1, <1>2, <1>8, SignInStepKeeps DEF SignedIn
    <2>2. TypeOK'
      BY <1>1, <1>8, <2>1, AnswerKeeps DEF TypeOK
    <2>3. \A y \in Requests \ {r} : SameRequest(y) /\ owed'[y] = owed[y]
      BY <1>1, <1>8, AnswerKeeps DEF SameRequest
    <2>4. StockLookedAt'
      BY <1>1, <1>8, <2>1, <2>3, AnswerKeeps DEF StockLookedAt, SameRequest, Item
    <2>5. NothingIsLost'
      BY <1>7, <2>1, <2>3, OthersHandOver
    <2>6. QED
      BY <1>6, <2>1, <2>2, <2>4, <2>5
  <1>9. CASE ~SignedIn(r)
    <2> DEFINE to == IF left[r] = {x} THEN "loading" ELSE "reading"
               l  == IF left[r] = {x} THEN Found(c) ELSE left[r] \ {x}
    <2>1. /\ copied' = [copied EXCEPT ![r] = c] /\ left' = [left EXCEPT ![r] = l]
          /\ Goto(r, to) /\ UNCHANGED owed
      BY <1>4, <1>9 DEF LoadIfAny
    <2>2. /\ RequestsFit' /\ WishlistIsExact'
          /\ pc' \in [Requests -> Open \cup Answers \cup {"idle", "lost"}]
          /\ asked' \in [Requests -> Asking \cup {NoRequest}]
          /\ pc'[r] = to /\ asked'[r] = asked[r]
      BY <1>1, <1>2, <2>1, SignInStepKeeps
    <2>3. left'[r] = l /\ copied'[r] = c /\ owed'[r] = owed[r]
      BY <2>1 DEF TypeOK
    <2>4. TypeOK'
      <3>1. l \in SUBSET Parts
        BY <1>3, FoundParts DEF TypeOK
      <3>2. QED
        BY <1>1, <1>3, <2>1, <2>2, <3>1 DEF TypeOK
    <2>5. \A y \in Requests \ {r} : SameRequest(y) /\ owed'[y] = owed[y]
      BY <1>1, <2>1 DEF SameRequest, Goto
    <2>6. StockLookedAt'
      BY <1>1, <1>5, <2>2, <2>3, <2>5 DEF StockLookedAt, SameRequest, Item
    <2>7. HandedOver(r)'
      <3>1. ASSUME NEW p \in Products, <<"cart", p>> \in owed[r]
            PROVE  IF "cart" \in left[r] /\ x # "cart" THEN cart[o][p] # Absent
                                                       ELSE c.cart[p] # Absent
        <4>1. IF "cart" \in left[r] THEN cart[o][p] # Absent ELSE copied[r].cart[p] # Absent
          BY <1>1, <3>1 DEF NothingIsLost, HandedOver
        <4>2. QED
          BY <1>1, <1>3, <4>1 DEF Parts
      <3>2. ASSUME NEW p \in Products, <<"wishlist", p>> \in owed[r]
            PROVE  IF "wishlist" \in left[r] /\ x # "wishlist" THEN p \in ToSet(list[o])
                                                               ELSE p \in c.wishlist
        <4>1. p \in IF "wishlist" \in left[r] THEN ToSet(list[o]) ELSE copied[r].wishlist
          BY <1>1, <3>2 DEF NothingIsLost, HandedOver
        <4>2. QED
          BY <1>1, <1>3, <4>1 DEF Parts
      <3>3. Owner(r)' = o
        BY <2>2 DEF Owner
      <3>4. CASE left[r] = {x}
        <4>1. to = "loading" /\ l = Found(c)
          BY <3>4
        <4>2. /\ \A p \in Products : <<"cart", p>> \in owed[r] => c.cart[p] # Absent
              /\ \A p \in Products : <<"wishlist", p>> \in owed[r] => p \in c.wishlist
          BY <3>1, <3>2, <3>4
        <4>3. Found(copied[r])' = Found(c)
          BY <2>3 DEF Found, Nothing, Empty
        <4>4. QED
          BY <1>3, <2>2, <2>3, <4>1, <4>2, <4>3, FoundParts DEF HandedOver
      <3>5. CASE left[r] # {x}
        <4>1. to = "reading" /\ l = left[r] \ {x}
          BY <3>5
        <4>2. QED
          BY <1>1, <2>2, <2>3, <3>1, <3>2, <3>3, <4>1 DEF HandedOver
      <3>6. QED
        BY <3>4, <3>5
    <2>8. NothingIsLost'
      BY <1>7, <2>5, <2>7, OthersHandOver
    <2>9. QED
      BY <1>6, <2>2, <2>4, <2>6, <2>8
  <1>10. QED
    BY <1>8, <1>9

\* A load only adds to the user's stores, and adds all of its part of the copy.
LEMMA LoadGrows ==
  ASSUME IInv, NEW r \in Requests, NEW x \in Parts, Load(r, x)
  PROVE  /\ pc[r] = "loading" /\ Ask(r).op = "signin"
         /\ cart' \in [Owners -> [Products -> Quantity]]
         /\ wishes' \in [Users -> SUBSET Products]
         /\ \A s \in Sessions : cart'[s] = cart[s]
         /\ \A o \in Owners, p \in Products : cart[o][p] # Absent => cart'[o][p] # Absent
         /\ \A u \in Users : wishes[u] \subseteq wishes'[u] /\ wishes'[u] \subseteq wishes[u] \cup copied[r].wishlist
         /\ Ask(r).user \in Users
         /\ x = "cart" => \A p \in Products :
              copied[r].cart[p] # Absent => cart'[Ask(r).user][p] # Absent
         /\ x = "wishlist" => copied[r].wishlist \subseteq wishes'[Ask(r).user]
  <1> DEFINE u == Ask(r).user
  <1> USE IInv DEF IInv
  <1>1. /\ pc[r] = "loading" /\ Ask(r).op = "signin" /\ u \in Users /\ u \in Owners
        /\ u \notin Sessions
    BY OpenRequest, ShoppingAssumption DEF Load, Open, Fits
  <1>2. copied[r] \in [cart : [Products -> Quantity], wishlist : SUBSET Products]
    BY DEF TypeOK
  <1> HIDE DEF u
  <1>3. CASE x = "cart"
    <2>1. cart' = [cart EXCEPT ![u] = Merge(cart[u], copied[r].cart)] /\ wishes' = wishes
      BY <1>1, <1>3 DEF Load, u, TypeOK
    <2>2. Merge(cart[u], copied[r].cart) \in [Products -> Quantity]
      BY <1>1, <1>2 DEF Merge, TypeOK
    <2>3. /\ cart' \in [Owners -> [Products -> Quantity]]
          /\ \A o \in Owners \ {u} : cart'[o] = cart[o]
          /\ cart'[u] = Merge(cart[u], copied[r].cart)
      BY <1>1, <2>1, <2>2 DEF TypeOK
    <2>4. \A p \in Products :
            /\ cart[u][p] # Absent => cart'[u][p] # Absent
            /\ copied[r].cart[p] # Absent => cart'[u][p] # Absent
      BY <2>3 DEF Merge
    <2>5. QED
      BY <1>1, <1>3, <2>1, <2>3, <2>4 DEF TypeOK, Owners, u
  <1>4. CASE x = "wishlist"
    <2>1. wishes' = [wishes EXCEPT ![u] = wishes[u] \cup copied[r].wishlist] /\ cart' = cart
      BY <1>1, <1>4 DEF Load, u, TypeOK
    <2>2. QED
      BY <1>1, <1>2, <1>4, <2>1 DEF TypeOK, u
  <1>5. QED
    BY <1>3, <1>4 DEF Parts

LEMMA LoadKeeps ==
  ASSUME IInv, NEW r \in Requests, NEW x \in Parts, Load(r, x)
  PROVE  IInv'
  <1> USE IInv DEF IInv
  <1>1. /\ pc[r] = "loading" /\ Ask(r).op = "signin" /\ x \in left[r]
        /\ UNCHANGED <<list, life, stock, index, raced>>
        /\ IF left[r] = {x}
           THEN SignedIn(r)
           ELSE left' = [left EXCEPT ![r] = @ \ {x}] /\ UNCHANGED <<pc, asked, copied, owed>>
    BY LoadGrows DEF Load
  <1>2. pc[r] \in Open
    BY <1>1 DEF Open
  <1>3. /\ WhatIsHeldExpires' /\ Stocked'
        /\ cart' \in [Owners -> [Products -> Quantity]]
        /\ wishes' \in [Users -> SUBSET Products]
    BY <1>1, LoadGrows DEF WhatIsHeldExpires, Stocked, StockLookedAt
  <1>4. ASSUME NEW y \in Requests, pc[y] \in {"reading", "loading"}
        PROVE  StoresKeep(y)
    <2>1. Owner(y) \in Owners /\ Ask(y).user \in Owners /\ Ask(y).user \in Users
      BY <1>4, OpenRequest DEF Open, Fits
    <2>2. QED
      BY <1>1, <2>1, LoadGrows DEF StoresKeep
  <1>5. CASE left[r] = {x}
    <2>1. SignedIn(r)
      BY <1>1, <1>5
    <2>2. /\ RequestsFit' /\ WishlistIsExact'
          /\ pc' \in [Requests -> Open \cup Answers \cup {"idle", "lost"}]
          /\ asked' \in [Requests -> Asking \cup {NoRequest}]
          /\ pc'[r] = "ok"
      BY <1>1, <1>2, <2>1, SignInStepKeeps DEF SignedIn
    <2>3. TypeOK'
      BY <1>1, <1>3, <2>1, <2>2, AnswerKeeps DEF TypeOK
    <2>4. \A y \in Requests \ {r} : SameRequest(y) /\ owed'[y] = owed[y]
      BY <1>1, <2>1, AnswerKeeps DEF SameRequest
    <2>5. StockLookedAt'
      BY <1>1, <2>1, <2>2, <2>4, AnswerKeeps DEF StockLookedAt, SameRequest, Item
    <2>6. NothingIsLost'
      BY <1>4, <2>2, <2>4, OthersHandOver
    <2>7. QED
      BY <1>3, <2>2, <2>3, <2>5, <2>6
  <1>6. CASE left[r] # {x}
    <2>1. left' = [left EXCEPT ![r] = @ \ {x}] /\ UNCHANGED <<pc, asked, copied, owed>>
      BY <1>1, <1>6
    <2>2. TypeOK'
      BY <1>1, <1>3, <2>1 DEF TypeOK
    <2>3. RequestsFit' /\ WishlistIsExact' /\ StockLookedAt'
      BY <1>1, <2>1
      DEF RequestsFit, Fits, Known, Owner, Item, Ask, WishlistIsExact, Between, StockLookedAt
    <2>4. \A y \in Requests \ {r} : SameRequest(y) /\ owed'[y] = owed[y]
      BY <1>1, <2>1 DEF SameRequest
    <2>5. HandedOver(r)'
      <3>1. left'[r] = left[r] \ {x}
        BY <2>1 DEF TypeOK
      <3>2. StoresKeep(r)
        BY <1>1, <1>4
      <3>3. left'[r] \subseteq Found(copied[r])'
        <4>1. Found(copied[r])' = Found(copied[r])
          BY <2>1 DEF Found, Nothing, Empty
        <4>2. left[r] \subseteq Found(copied[r])
          BY <1>1 DEF NothingIsLost, HandedOver
        <4>3. QED
          BY <3>1, <4>1, <4>2
      <3>4. QED
        BY <1>1, <2>1, <3>1, <3>2, <3>3, LoadGrows
        DEF NothingIsLost, HandedOver, StoresKeep, Ask, Parts
    <2>6. NothingIsLost'
      BY <1>4, <2>4, <2>5, OthersHandOver
    <2>7. QED
      BY <1>3, <2>2, <2>3, <2>6
  <1>7. QED
    BY <1>5, <1>6

LEMMA SignInKeepsInvariant ==
  ASSUME IInv, NEW r \in Requests, SignIn(r)
  PROVE  IInv'
  <1>1. CASE SignInRefused(r)
    BY <1>1, ReadStepKeeps DEF SignInRefused, At, Open, Answers
  <1>2. QED
    BY <1>1, StartKeeps, RetrieveKeeps, LoadKeeps DEF SignIn

-----------------------------------------------------------------------------
(***************************************************************************)
(* Arrivals, sessions and crashes.                                         *)
(***************************************************************************)

\* What clients ask is of the type, and of the owner that it changes.
LEMMA ArrivalIsWellFormed ==
  ASSUME NEW r \in Requests, Arrive(r)
  PROVE  \E a \in Asking :
           /\ Begin(r, a)
           /\ IF a.op = "signin"
              THEN a.owner \in Sessions /\ a.user \in Users
              ELSE a.item \in Products /\ a.user = a.owner
  <1> USE ShoppingAssumption DEF Asking, Owners
  <1>1. ASSUME NEW o \in Owners, NEW p \in Products, NEW n \in AddQty,
               Begin(r, [op |-> "add", owner |-> o, user |-> o, item |-> p, qty |-> n])
        PROVE  \E a \in Asking : Begin(r, a) /\ a.item \in Products /\ a.user = a.owner /\ a.op # "signin"
    BY <1>1
  <1>2. ASSUME NEW o \in Owners, NEW p \in Products, NEW n \in SetQty,
               Begin(r, [op |-> "set", owner |-> o, user |-> o, item |-> p, qty |-> n])
        PROVE  \E a \in Asking : Begin(r, a) /\ a.item \in Products /\ a.user = a.owner /\ a.op # "signin"
    BY <1>2
  <1>3. ASSUME NEW o \in Owners, NEW p \in Products, NEW op \in {"remove", "wish", "unwish"},
               Begin(r, [op |-> op, owner |-> o, user |-> o, item |-> p, qty |-> 0])
        PROVE  \E a \in Asking : Begin(r, a) /\ a.item \in Products /\ a.user = a.owner /\ a.op # "signin"
    BY <1>3
  <1>4. ASSUME NEW s \in Sessions, NEW u \in Users,
               Begin(r, [op |-> "signin", owner |-> s, user |-> u, item |-> Absent, qty |-> 0])
        PROVE  \E a \in Asking : Begin(r, a) /\ a.owner \in Sessions /\ a.user \in Users /\ a.op = "signin"
    BY <1>4
  <1>5. QED
    BY <1>1, <1>2, <1>3, <1>4 DEF Arrive

LEMMA ArrivalKeepsInvariant ==
  ASSUME IInv, NEW r \in Requests, Arrive(r)
  PROVE  IInv'
  <1> USE IInv DEF IInv
  <1>1. PICK a \in Asking :
          /\ Begin(r, a)
          /\ IF a.op = "signin"
             THEN a.owner \in Sessions /\ a.user \in Users
             ELSE a.item \in Products /\ a.user = a.owner
    BY ArrivalIsWellFormed
  <1>2. /\ pc[r] = "idle" /\ Known(a.owner)
        /\ pc' = [pc EXCEPT ![r] = "begun"] /\ asked' = [asked EXCEPT ![r] = a]
        /\ UNCHANGED <<cart, wishes, list, life, stock, index, copied, left, owed, raced>>
    BY <1>1 DEF Begin
  <1>3. /\ pc'[r] = "begun" /\ asked'[r] = a /\ a # NoRequest
        /\ \A x \in Requests \ {r} : SameRequest(x)
    BY <1>2, NoRequestAssumption DEF TypeOK, SameRequest
  <1>4. TypeOK'
    BY <1>1, <1>2 DEF TypeOK, Open
  <1>5. RequestsFit'
    <2>1. Fits(r)'
      BY <1>1, <1>2, <1>3 DEF Fits, Open, Known, Owner, Item, Ask
    <2>2. QED
      BY <1>2, <1>3, <2>1, OthersFit DEF RequestsFit
  <1>6. WhatIsHeldExpires' /\ Stocked'
    BY <1>2 DEF WhatIsHeldExpires, Stocked
  <1>7. WishlistIsExact'
    BY <1>2, <1>3 DEF WishlistIsExact, Between, SameRequest, Owner, Item
  <1>8. StockLookedAt'
    BY <1>2, <1>3 DEF StockLookedAt, SameRequest, Item
  <1>9. NothingIsLost'
    <2>1. \A x \in Requests : owed'[x] = owed[x] /\ StoresKeep(x)
      BY <1>2 DEF StoresKeep
    <2>2. QED
      BY <1>3, <2>1, OthersHandOver
  <1>10. QED
    BY <1>4, <1>5, <1>6, <1>7, <1>8, <1>9

LEMMA SameStoresHandOver ==
  ASSUME NothingIsLost,
         UNCHANGED <<cart, wishes, list, pc, asked, copied, left, owed>>
  PROVE  NothingIsLost'
  <1> SUFFICES ASSUME NEW x \in Requests
               PROVE  HandedOver(x)'
    BY DEF NothingIsLost
  <1>1. HandedOver(x) /\ Found(copied[x])' = Found(copied[x])
    BY DEF NothingIsLost, Found, Nothing, Empty
  <1>2. QED
    BY <1>1 DEF HandedOver, Owner, Ask

\* A new document holds nothing, and nobody has its key before it expires one day.
LEMMA CreationKeepsInvariant ==
  ASSUME IInv, NEW s \in Sessions, CreateSession(s) \/ SetExpiry(s)
  PROVE  IInv'
  <1> USE IInv DEF IInv
  <1>1. /\ life[s] \in {"none", "made"}
        /\ \E to \in {"made", "live"} : life' = [life EXCEPT ![s] = to]
        /\ UNCHANGED <<cart, wishes, list, stock, pc, asked, index, copied, left, owed, raced>>
    BY DEF CreateSession, SetExpiry
  <1>2. /\ life' \in [Sessions -> {"none", "made", "live", "gone"}]
        /\ \A t \in Sessions \ {s} : life'[t] = life[t]
    BY <1>1 DEF TypeOK
  <1>3. TypeOK'
    BY <1>1, <1>2 DEF TypeOK
  <1>4. \A x \in Requests : SameRequest(x)
    BY <1>1 DEF SameRequest
  <1>5. RequestsFit'
    BY <1>1, <1>2, <1>4, OthersFit DEF RequestsFit
  <1>6. WhatIsHeldExpires'
    BY <1>1, <1>2 DEF WhatIsHeldExpires
  <1>7. \A x \in Requests : ~Between(x, s)
    BY <1>1 DEF RequestsFit, Fits, Between, Open, Known
  <1>8. WishlistIsExact'
    BY <1>1, <1>2, <1>7 DEF WishlistIsExact, Between, Owner, Item
  <1>9. Stocked' /\ StockLookedAt'
    BY <1>1 DEF Stocked, StockLookedAt, Item
  <1>10. NothingIsLost'
    BY <1>1, SameStoresHandOver
  <1>11. QED
    BY <1>3, <1>5, <1>6, <1>8, <1>9, <1>10

\* Whatever a sign-in had to hand over is gone with the document.
LEMMA ExpiryKeepsInvariant ==
  ASSUME IInv, NEW s \in Sessions, SessionExpires(s)
  PROVE  IInv'
  <1> USE IInv DEF IInv
  <1>1. /\ life[s] = "live"
        /\ life' = [life EXCEPT ![s] = "gone"]
        /\ cart' = [cart EXCEPT ![s] = Empty]
        /\ list' = [list EXCEPT ![s] = <<>>]
        /\ owed' = [r \in Requests |->
             IF asked[r] # NoRequest /\ asked[r].owner = s THEN {} ELSE owed[r]]
        /\ UNCHANGED <<wishes, stock, pc, asked, index, copied, left, raced>>
    BY DEF SessionExpires
  <1>2. s \in Owners /\ s \notin Users
    BY ShoppingAssumption DEF Owners
  <1>3. /\ life' \in [Sessions -> {"none", "made", "live", "gone"}]
        /\ life'[s] = "gone" /\ \A t \in Sessions \ {s} : life'[t] = life[t]
    BY <1>1 DEF TypeOK
  <1>4. /\ cart' \in [Owners -> [Products -> Quantity]]
        /\ cart'[s] = Empty /\ \A o \in Owners \ {s} : cart'[o] = cart[o]
    BY <1>1, <1>2 DEF TypeOK, Empty, Quantity
  <1>5. /\ list' \in [Sessions -> Seq(Products)]
        /\ list'[s] = <<>> /\ \A t \in Sessions \ {s} : list'[t] = list[t]
    BY <1>1, EmptySeq DEF TypeOK
  <1>6. TypeOK'
    BY <1>1, <1>3, <1>4, <1>5 DEF TypeOK
  <1>7. \A x \in Requests : SameRequest(x)
    BY <1>1 DEF SameRequest
  <1>8. RequestsFit'
    BY <1>1, <1>3, <1>7, OthersFit DEF RequestsFit
  <1>9. WhatIsHeldExpires'
    BY <1>3, <1>4, <1>5 DEF WhatIsHeldExpires, Owners
  <1>10. WishlistIsExact'
    <2> SUFFICES ASSUME NEW t \in Sessions, t \notin raced
                 PROVE  /\ Distinct(list'[t])
                        /\ \A x \in Requests : Between(x, t) /\ life'[t] = "live" =>
                             IF pc[x] = "pop"
                             THEN index[x] \in DOMAIN list'[t] /\ list'[t][index[x]] = Item(x)
                             ELSE Item(x) \notin ToSet(list'[t])
      BY <1>1 DEF WishlistIsExact, Distinct, Between, Owner, Item
    <2>1. CASE t = s
      BY <1>3, <1>5, <2>1, EmptySeq DEF Distinct
    <2>2. CASE t # s
      BY <1>3, <1>5, <2>2 DEF WishlistIsExact, Distinct
    <2>3. QED
      BY <2>1, <2>2
  <1>11. Stocked' /\ StockLookedAt'
    BY <1>1, <1>4, <1>5, ToSetEmpty DEF Stocked, StockLookedAt, Item, Owners, Empty
  <1>12. NothingIsLost'
    <2> SUFFICES ASSUME NEW x \in Requests
                 PROVE  HandedOver(x)'
      BY DEF NothingIsLost
    <2>1. HandedOver(x) /\ Found(copied[x])' = Found(copied[x])
      BY <1>1 DEF NothingIsLost, Found, Nothing, Empty
    <2>2. CASE pc[x] \in {"reading", "loading"} /\ Owner(x) = s
      <3>1. owed'[x] = {}
        BY <1>1, <2>2, OpenRequest DEF Open, Owner
      <3>2. QED
        BY <1>1, <2>1, <3>1 DEF HandedOver
    <2>3. CASE pc[x] \in {"reading", "loading"} /\ Owner(x) # s
      <3>1. /\ owed'[x] = owed[x]
            /\ Owner(x) \in Sessions /\ Owner(x) \in Owners
            /\ Ask(x).user \in Owners \ {s}
        BY <1>1, <1>2, <2>3, OpenRequest DEF Open, Owner, Ask, Fits
      <3>2. QED
        BY <1>1, <1>4, <1>5, <2>1, <2>3, <3>1 DEF HandedOver, Owner, Ask
    <2>4. CASE pc[x] \notin {"reading", "loading"}
      BY <1>1, <2>4 DEF HandedOver
    <2>5. QED
      BY <2>2, <2>3, <2>4
  <1>13. QED
    BY <1>6, <1>8, <1>9, <1>10, <1>11, <1>12

LEMMA CrashKeepsInvariant ==
  ASSUME IInv, Crash
  PROVE  IInv'
  <1> USE IInv DEF IInv
  <1>1. /\ pc' = [r \in Requests |-> IF pc[r] \in Open THEN "lost" ELSE pc[r]]
        /\ left' = [r \in Requests |-> {}]
        /\ copied' = [r \in Requests |-> Nothing]
        /\ index' = [r \in Requests |-> 0]
        /\ asked' = [r \in Requests |-> NoRequest]
        /\ owed' = [r \in Requests |-> {}]
        /\ UNCHANGED <<cart, wishes, list, life, stock, raced>>
    BY DEF Crash
  <1>2. \A r \in Requests : pc'[r] \notin Open
    BY <1>1 DEF Open
  <1>3. TypeOK'
    BY <1>1 DEF TypeOK, Nothing, Empty, Quantity
  <1>4. RequestsFit'
    BY <1>1, <1>2 DEF RequestsFit, Fits, Open
  <1>5. WhatIsHeldExpires' /\ Stocked'
    BY <1>1 DEF WhatIsHeldExpires, Stocked
  <1>6. WishlistIsExact'
    BY <1>1, <1>2 DEF WishlistIsExact, Between, Open
  <1>7. StockLookedAt'
    BY <1>1, <1>2 DEF StockLookedAt, Open, Nothing
  <1>8. NothingIsLost'
    BY <1>1, <1>2 DEF NothingIsLost, HandedOver, Open
  <1>9. QED
    BY <1>3, <1>4, <1>5, <1>6, <1>7, <1>8

LEMMA StutterKeepsInvariant ==
  ASSUME IInv, UNCHANGED vars
  PROVE  IInv'
  <1> USE DEF vars, IInv
  <1>1. TypeOK' /\ WhatIsHeldExpires' /\ Stocked'
    BY DEF TypeOK, WhatIsHeldExpires, Stocked
  <1>2. RequestsFit' /\ WishlistIsExact' /\ StockLookedAt'
    BY DEF RequestsFit, Fits, Known, Owner, Item, Ask, WishlistIsExact, Between, StockLookedAt
  <1>3. NothingIsLost'
    BY SameStoresHandOver
  <1>4. QED
    BY <1>1, <1>2, <1>3

-----------------------------------------------------------------------------
(***************************************************************************)
(* What always holds.                                                      *)
(***************************************************************************)

\* The invariant is inductive, so every reachable state has it.
THEOREM Invariance == Spec => []IInv
  <1>1. IInv /\ [Next]_vars => IInv'
    BY CrashKeepsInvariant, ArrivalKeepsInvariant, CartKeepsInvariant,
       WishlistKeepsInvariant, SignInKeepsInvariant, CreationKeepsInvariant,
       ExpiryKeepsInvariant, StutterKeepsInvariant DEF Next
  <1>2. QED
    BY <1>1, InitEstablishes, PTL DEF Spec

\* Every field of every store and request is of its type: a cart holds whole numbers, also
\* after HINCRBY of what somebody else has put there.
THEOREM TypeCorrect == Spec => []TypeOK
  <1>1. IInv => TypeOK
    BY DEF IInv
  <1>2. QED
    BY <1>1, Invariance, PTL

\* Check and append, and find and pop, are exact as long as nobody comes in between.
THEOREM WishlistExact == Spec => []WishlistIsExact
  <1>1. IInv => WishlistIsExact
    BY DEF IInv
  <1>2. QED
    BY <1>1, Invariance, PTL

\* Nothing but what was in stock gets into a session or a wishlist, by any way.
THEOREM StockRespected == Spec => []OnlyStocked
  <1>1. IInv => OnlyStocked
    BY StockedIsOnlyStocked DEF IInv
  <1>2. QED
    BY <1>1, Invariance, PTL

\* A document that will not expire, or has expired, is empty.
THEOREM Expiry == Spec => []WhatIsHeldExpires
  <1>1. IInv => WhatIsHeldExpires
    BY DEF IInv
  <1>2. QED
    BY <1>1, Invariance, PTL

-----------------------------------------------------------------------------
(***************************************************************************)
(* Signing in is complete.                                                 *)
(***************************************************************************)

RequestStep(r) == Arrive(r) \/ CartRequest(r) \/ WishlistRequest(r) \/ SignIn(r)

\* A step of one request leaves the progress of all others as it is.
LEMMA OneRequestSteps ==
  ASSUME NEW r \in Requests, RequestStep(r), NEW x \in Requests \ {r}, TypeOK
  PROVE  /\ pc'[x] = pc[x] /\ asked'[x] = asked[x]
         /\ copied'[x] = copied[x] /\ left'[x] = left[x]
  <1> USE DEF TypeOK, Goto, ReadStep, CartStep, WishStep
  <1>1. CASE Arrive(r)
    BY <1>1, ArrivalIsWellFormed DEF Begin
  <1>2. CASE CartRequest(r)
    BY <1>2 DEF CartRequest, CheckStockForCart, RequireInStock, CreateItem,
                CreateWithoutDocument, AddQuantity, DeleteItem, DeleteMissing,
                UpdateUserQty, UpdateSessionQty
  <1>3. CASE WishlistRequest(r)
    BY <1>3 DEF WishlistRequest, CheckStockForWishlist, RequireInStock, AppendForUser,
                RemoveForUser, CheckExists, AppendForSession, FindIndex, PopForSession,
                WishlistWithoutDocument
  <1>4. CASE SignIn(r)
    <2>1. CASE SignInRefused(r) \/ StartCopy(r)
      BY <2>1 DEF SignInRefused, StartCopy
    <2>2. ASSUME NEW y \in Parts, Retrieve(r, y)
          PROVE  /\ pc'[x] = pc[x] /\ asked'[x] = asked[x]
                 /\ copied'[x] = copied[x] /\ left'[x] = left[x]
      <3>1. CASE SignedIn(r)
        BY <3>1, AnswerKeeps
      <3>2. CASE ~SignedIn(r)
        BY <2>2, <3>2 DEF Retrieve
      <3>3. QED
        BY <3>1, <3>2
    <2>3. ASSUME NEW y \in Parts, Load(r, y)
          PROVE  /\ pc'[x] = pc[x] /\ asked'[x] = asked[x]
                 /\ copied'[x] = copied[x] /\ left'[x] = left[x]
      BY <2>3, AnswerKeeps DEF Load
    <2>4. QED
      BY <1>4, <2>1, <2>2, <2>3 DEF SignIn
  <1>5. QED
    BY <1>1, <1>2, <1>3, <1>4 DEF RequestStep

\* Only its own last read or load answers a request that copies.
LEMMA AnsweredByCopier ==
  ASSUME IInv, [Next]_vars, NEW r \in Requests,
         pc[r] \in {"reading", "loading"}, pc'[r] = "ok"
  PROVE  \E x \in Parts : Retrieve(r, x) \/ Load(r, x)
  <1> USE DEF Answers
  <1>1. TypeOK /\ Ask(r).op = "signin"
    BY OpenRequest DEF IInv, Open, Fits
  <1>2. CASE Crash
    BY <1>2 DEF Crash, Open
  <1>3. ASSUME NEW y \in Requests, RequestStep(y)
        PROVE  \E x \in Parts : Retrieve(r, x) \/ Load(r, x)
    <2>1. CASE y # r
      BY <1>1, <1>3, <2>1, OneRequestSteps
    <2>2. CASE y = r
      <3>1. ~Arrive(r)
        BY ArrivalIsWellFormed DEF Begin
      <3>2. ~CartRequest(r)
        BY <1>1
        DEF CartRequest, CheckStockForCart, CreateItem, CreateWithoutDocument, AddQuantity,
            DeleteItem, DeleteMissing, Removing, UpdateUserQty, UpdateSessionQty, At
      <3>3. ~WishlistRequest(r)
        BY <1>1
        DEF WishlistRequest, CheckStockForWishlist, AppendForUser, RemoveForUser, CheckExists,
            AppendForSession, FindIndex, PopForSession, WishlistWithoutDocument, At
      <3>4. ~SignInRefused(r) /\ ~StartCopy(r)
        BY DEF SignInRefused, StartCopy, At
      <3>5. QED
        BY <1>3, <2>2, <3>1, <3>2, <3>3, <3>4 DEF RequestStep, SignIn
    <2>3. QED
      BY <2>1, <2>2
  <1>4. ASSUME NEW s \in Sessions, CreateSession(s) \/ SetExpiry(s) \/ SessionExpires(s)
        PROVE  FALSE
    BY <1>4 DEF CreateSession, SetExpiry, SessionExpires
  <1>5. QED
    BY <1>2, <1>3, <1>4 DEF Next, RequestStep, vars

\* When signing in is answered, the user has what the session held when the copy began and
\* nobody has removed since: no read is missed, and no load runs before its read.
THEOREM SignInComplete == Spec => SignInIsComplete
  <1>1. IInv /\ [Next]_vars =>
          [\A r \in Requests : pc[r] \in {"reading", "loading"} /\ pc'[r] = "ok" =>
             owed[r] \subseteq InUserStore'[Ask(r).user]]_vars
    <2> SUFFICES ASSUME IInv, [Next]_vars, NEW r \in Requests,
                        pc[r] \in {"reading", "loading"}, pc'[r] = "ok"
                 PROVE  owed[r] \subseteq InUserStore'[Ask(r).user]
      OBVIOUS
    <2> DEFINE u == Ask(r).user
    <2>1. /\ TypeOK /\ HandedOver(r) /\ u \in Users /\ Owner(r) \in Sessions
          /\ owed[r] \subseteq Items
      BY OpenRequest DEF IInv, NothingIsLost, Open, Fits, TypeOK
    <2>2. ASSUME NEW x \in Parts, Retrieve(r, x)
          PROVE  owed[r] = {}
      <3> DEFINE c == [copied[r] EXCEPT ![x] =
                         IF x = "cart" THEN cart[Owner(r)] ELSE ToSet(list[Owner(r)])]
      <3>1. /\ pc[r] = "reading" /\ left[r] = {x} /\ Found(c) = {}
        BY <2>1, <2>2 DEF Retrieve, Goto, TypeOK, LoadIfAny
      <3>2. /\ c \in [cart : [Products -> Quantity], wishlist : SUBSET Products]
            /\ c.cart = IF x = "cart" THEN cart[Owner(r)] ELSE copied[r].cart
            /\ c.wishlist = IF x = "cart" THEN copied[r].wishlist ELSE ToSet(list[Owner(r)])
        BY <2>1, CopyAfterRead
      <3> HIDE DEF c
      <3>3. \A p \in Products : c.cart[p] = Absent /\ p \notin c.wishlist
        BY <3>1, <3>2, FoundParts
      <3>4. ASSUME NEW p \in Products, <<"cart", p>> \in owed[r]
            PROVE  FALSE
        <4>1. IF x = "cart" THEN cart[Owner(r)][p] # Absent ELSE copied[r].cart[p] # Absent
          BY <2>1, <3>1, <3>4 DEF HandedOver
        <4>2. QED
          BY <3>2, <3>3, <4>1
      <3>5. ASSUME NEW p \in Products, <<"wishlist", p>> \in owed[r]
            PROVE  FALSE
        <4>1. p \in IF x = "wishlist" THEN ToSet(list[Owner(r)]) ELSE copied[r].wishlist
          BY <2>1, <3>1, <3>5 DEF HandedOver
        <4>2. QED
          BY <3>2, <3>3, <4>1 DEF Parts
      <3>6. QED
        BY <2>1, <3>4, <3>5 DEF Items, Parts
    <2>3. ASSUME NEW x \in Parts, Load(r, x)
          PROVE  owed[r] \subseteq InUserStore'[u]
      <3>1. pc[r] = "loading" /\ left[r] = {x}
        BY <2>3 DEF Load
      <3>2. /\ \A p \in Products : <<"cart", p>> \in owed[r] => cart'[u][p] # Absent
            /\ \A p \in Products : <<"wishlist", p>> \in owed[r] => p \in wishes'[u]
        <4>1. ASSUME NEW p \in Products, <<"cart", p>> \in owed[r]
              PROVE  cart'[u][p] # Absent
          <5>1. IF x = "cart" THEN copied[r].cart[p] # Absent ELSE cart[u][p] # Absent
            BY <2>1, <3>1, <4>1 DEF HandedOver
          <5>2. QED
            BY <2>1, <2>3, <5>1, LoadGrows DEF Owners
        <4>2. ASSUME NEW p \in Products, <<"wishlist", p>> \in owed[r]
              PROVE  p \in wishes'[u]
          <5>1. p \in IF x = "wishlist" THEN copied[r].wishlist ELSE wishes[u]
            BY <2>1, <3>1, <4>2 DEF HandedOver
          <5>2. QED
            BY <2>1, <2>3, <5>1, LoadGrows DEF Parts
        <4>3. QED
          BY <4>1, <4>2
      <3>3. InUserStore'[u] =
              {<<"cart", p>> : p \in {q \in Products : cart'[u][q] # Absent}}
                \cup {<<"wishlist", p>> : p \in wishes'[u]}
        BY <2>1 DEF InUserStore
      <3>4. QED
        BY <2>1, <3>2, <3>3 DEF Items, Parts
    <2>4. QED
      BY <2>2, <2>3, AnsweredByCopier
  <1>2. QED
    BY <1>1, Invariance, PTL DEF Spec, SignInIsComplete

-----------------------------------------------------------------------------
(***************************************************************************)
(* The managers keep CartContract: the command that decides the answer is  *)
(* the one that has the effect, and every other command leaves cart,       *)
(* questions and answers as they are.                                      *)
(***************************************************************************)

LEMMA OutcomeStays ==
  ASSUME NEW x \in Requests,
         pc'[x] = pc[x], copied'[x] = copied[x], left'[x] = left[x]
  PROVE  Outcome(x)' = Outcome(x)
  <1>1. Found(copied[x])' = Found(copied[x])
    BY DEF Found, Nothing, Empty
  <1>2. QED
    BY <1>1 DEF Outcome

\* Until it merges, a request in progress has no outcome.
LEMMA PendingBefore ==
  ASSUME NEW r \in Requests, pc[r] \in Open \cup {"idle"},
         pc[r] # "loading" \/ "cart" \in left[r]
  PROVE  Outcome(r) = "pending"
  BY DEF Outcome, Open, Answers

\* Going to an answer is answering.
LEMMA AnswerRefines ==
  ASSUME TypeOK, NEW r \in Requests, RequestStep(r), NEW to \in Answers, Goto(r, to),
         NEW from, Outcome(r) \in from
  PROVE  Contract!Answer(r, from, IF to = "ok" THEN "yes" ELSE "no")
  <1>1. pc'[r] = to
    BY DEF Goto, TypeOK
  <1>2. Outcome(r)' = IF to = "ok" THEN "yes" ELSE "no"
    BY <1>1 DEF Outcome, Answers
  <1>3. \A x \in Requests \ {r} : Outcome(x)' = Outcome(x)
    BY OneRequestSteps, OutcomeStays
  <1>4. [x \in Requests |-> Outcome(x)]'
          = [[x \in Requests |-> Outcome(x)] EXCEPT ![r] = IF to = "ok" THEN "yes" ELSE "no"]
    BY <1>2, <1>3
  <1>5. asked' = [asked EXCEPT ![r] = NoRequest]
    BY DEF Goto
  <1>6. QED
    BY <1>4, <1>5 DEF Contract!Answer

\* Going on is nothing to the contract, and neither is a step that does not even go on.
LEMMA OnTheWayRefines ==
  ASSUME TypeOK, NEW r \in Requests, RequestStep(r), UNCHANGED <<cart, asked>>,
         Outcome(r)' = Outcome(r)
  PROVE  UNCHANGED Contract!vars
  <1>1. \A x \in Requests : Outcome(x)' = Outcome(x)
    BY OneRequestSteps, OutcomeStays
  <1>2. QED
    BY <1>1 DEF Contract!vars

LEMMA GoingOn ==
  ASSUME TypeOK, NEW r \in Requests, NEW to \in Open \ {"loading"}, Goto(r, to),
         pc[r] \in Open \ {"loading"}
  PROVE  UNCHANGED asked /\ Outcome(r)' = Outcome(r)
  <1>1. asked' = asked /\ pc'[r] = to
    BY DEF Goto, TypeOK, Open, Answers
  <1>2. QED
    BY <1>1 DEF Outcome, Open, Answers

\* A question that is refused, or fails, has changed no cart.
LEMMA RefusalRefines ==
  ASSUME IInv, NEW r \in Requests, RequestStep(r), NEW to \in {"refused", "error"},
         pc[r] \in Open \ {"loading"}, Goto(r, to), UNCHANGED cart
  PROVE  Contract!Next
  <1>1. Contract!Answer(r, {"pending"}, "no")
    BY AnswerRefines, PendingBefore DEF IInv, Answers
  <1>2. Contract!Refuse(r)
    BY <1>1, OpenRequest DEF IInv, Contract!Refuse
  <1>3. QED
    BY <1>2 DEF Contract!Next

LEMMA CartRefines ==
  ASSUME IInv, NEW r \in Requests, CartRequest(r)
  PROVE  [Contract!Next]_Contract!vars
  <1> USE DEF Open, ReadStep, CartStep
  <1>1. TypeOK /\ RequestStep(r) /\ RequestsFit
    BY DEF IInv, RequestStep
  <1>2. ASSUME NEW to \in Open \ {"loading"}, Goto(r, to), pc[r] \in Open \ {"loading"},
               UNCHANGED cart
        PROVE  UNCHANGED Contract!vars
    BY <1>1, <1>2, GoingOn, OnTheWayRefines
  <1>3. ASSUME pc[r] \in Open \ {"loading"}, Goto(r, "ok")
        PROVE  asked[r] # NoRequest /\ Contract!Answer(r, {"pending"}, "yes") /\ Fits(r)
    BY <1>1, <1>3, OpenRequest, AnswerRefines, PendingBefore DEF Answers
  <1>4. ASSUME NEW q, Put(r, q)
        PROVE  Contract!Put(r, q)
    BY <1>4 DEF Put, Owner, Item, Contract!Put
  <1>5. Contract!Held(r) = Held(r)
    BY DEF Held, Owner, Item, Contract!Held
  <1>6. CASE CheckStockForCart(r)
    BY <1>1, <1>2, <1>6, RefusalRefines DEF CheckStockForCart, RequireInStock, At
  <1>7. CASE CreateWithoutDocument(r)
    BY <1>1, <1>7, RefusalRefines DEF CreateWithoutDocument
  <1>8. CASE DeleteMissing(r)
    BY <1>1, <1>8, RefusalRefines DEF DeleteMissing, Removing, At
  <1>9. CASE CreateItem(r)
    <2>1. CASE Held(r) = Absent
      <3>1. Contract!Add(r)
        BY <1>3, <1>4, <1>5, <1>9, <2>1 DEF CreateItem, Contract!Add, Fits, Ask
      <3>2. QED
        BY <3>1 DEF Contract!Next
    <2>2. CASE Held(r) # Absent
      BY <1>2, <1>9, <2>2 DEF CreateItem
    <2>3. QED
      BY <2>1, <2>2
  <1>10. CASE AddQuantity(r)
    <2>1. CASE Held(r) = Absent /\ Owner(r) \notin Users
      BY <1>1, <1>10, <2>1, RefusalRefines DEF AddQuantity
    <2>2. CASE Held(r) # Absent \/ Owner(r) \in Users
      <3>1. Goto(r, "ok") /\ Put(r, IF Held(r) = Absent THEN Ask(r).qty ELSE Held(r) + Ask(r).qty)
        BY <1>10, <2>2 DEF AddQuantity
      <3>2. Contract!Add(r)
        BY <1>3, <1>4, <1>5, <1>10, <3>1 DEF AddQuantity, Contract!Add, Fits, Ask
      <3>3. QED
        BY <3>2 DEF Contract!Next
    <2>3. QED
      BY <2>1, <2>2
  <1>11. CASE DeleteItem(r)
    <2>1. Contract!Remove(r)
      BY <1>3, <1>4, <1>5, <1>11 DEF DeleteItem, Removing, At, Ask, Contract!Remove
    <2>2. QED
      BY <2>1 DEF Contract!Next
  <1>12. ASSUME At(r, "begun", "set"), Ask(r).qty # 0, Goto(r, "ok"), Put(r, Ask(r).qty)
         PROVE  Contract!Next
    <2>1. Contract!Set(r)
      BY <1>3, <1>4, <1>12 DEF At, Ask, Contract!Set
    <2>2. QED
      BY <2>1 DEF Contract!Next
  <1>13. CASE UpdateUserQty(r)
    <2>1. CASE Held(r) = Absent
      BY <1>12, <1>13, <2>1 DEF UpdateUserQty
    <2>2. CASE Held(r) # Absent
      BY <1>1, <1>13, <2>2, RefusalRefines DEF UpdateUserQty, At
    <2>3. QED
      BY <2>1, <2>2
  <1>14. CASE UpdateSessionQty(r)
    <2>1. CASE Held(r) # Absent
      BY <1>12, <1>14, <2>1 DEF UpdateSessionQty
    <2>2. CASE Held(r) = Absent
      BY <1>1, <1>14, <2>2, RefusalRefines DEF UpdateSessionQty, At
    <2>3. QED
      BY <2>1, <2>2
  <1>15. QED
    BY <1>6, <1>7, <1>8, <1>9, <1>10, <1>11, <1>13, <1>14 DEF CartRequest

LEMMA WishlistRefines ==
  ASSUME IInv, NEW r \in Requests, WishlistRequest(r)
  PROVE  [Contract!Next]_Contract!vars
  <1> USE DEF Open, ReadStep, CartStep, WishStep
  <1>1. TypeOK /\ RequestStep(r) /\ RequestsFit
    BY DEF IInv, RequestStep
  <1>2. ASSUME NEW to \in Open \ {"loading"}, Goto(r, to), pc[r] \in Open \ {"loading"},
               UNCHANGED cart
        PROVE  UNCHANGED Contract!vars
    BY <1>1, <1>2, GoingOn, OnTheWayRefines
  <1>3. ASSUME pc[r] \in Open \ {"loading"}, Goto(r, "ok"), UNCHANGED cart,
               Ask(r).op \in {"wish", "unwish"}
        PROVE  Contract!Next
    <2>1. asked[r] # NoRequest /\ Contract!Answer(r, {"pending"}, "yes")
      BY <1>1, <1>3, OpenRequest, AnswerRefines, PendingBefore DEF Answers
    <2>2. Contract!Wish(r)
      BY <1>3, <2>1 DEF Contract!Wish, Ask
    <2>3. QED
      BY <2>2 DEF Contract!Next
  <1>4. Fits(r)
    BY <1>1 DEF RequestsFit
  <1>5. CASE CheckStockForWishlist(r)
    BY <1>1, <1>2, <1>5, RefusalRefines DEF CheckStockForWishlist, RequireInStock, At
  <1>6. CASE AppendForUser(r)
    BY <1>1, <1>3, <1>6, RefusalRefines DEF AppendForUser, At, Ask
  <1>7. CASE RemoveForUser(r)
    BY <1>1, <1>3, <1>7, RefusalRefines DEF RemoveForUser, At, Ask
  <1>8. CASE CheckExists(r)
    BY <1>1, <1>2, <1>8, RefusalRefines DEF CheckExists, At
  <1>9. CASE AppendForSession(r)
    BY <1>3, <1>4, <1>9 DEF AppendForSession, Fits
  <1>10. CASE FindIndex(r)
    BY <1>1, <1>2, <1>10, RefusalRefines DEF FindIndex, At
  <1>11. CASE PopForSession(r)
    BY <1>3, <1>4, <1>11 DEF PopForSession, Fits
  <1>12. CASE WishlistWithoutDocument(r)
    BY <1>1, <1>12, RefusalRefines DEF WishlistWithoutDocument, At
  <1>13. QED
    BY <1>5, <1>6, <1>7, <1>8, <1>9, <1>10, <1>11, <1>12 DEF WishlistRequest

\* While loading, the outcome says whether the cart has been written.
LEMMA LoadingOutcome ==
  ASSUME NEW r \in Requests, pc[r] = "loading"
  PROVE  Outcome(r) = IF "cart" \in Found(copied[r]) \ left[r] THEN "merged" ELSE "pending"
  BY DEF Outcome, Answers

LEMMA RetrieveRefines ==
  ASSUME IInv, NEW r \in Requests, NEW x \in Parts, Retrieve(r, x)
  PROVE  [Contract!Next]_Contract!vars
  <1>1. /\ TypeOK /\ RequestStep(r) /\ asked[r] # NoRequest
        /\ pc[r] = "reading" /\ asked[r].op = "signin" /\ cart' = cart
    BY OpenRequest DEF IInv, RequestStep, SignIn, Retrieve, Open, Fits, Ask
  <1>2. Outcome(r) = "pending"
    BY <1>1, PendingBefore DEF Open
  <1>3. CASE SignedIn(r)
    <2>1. Contract!Answer(r, {"pending", "merged"}, "yes")
      BY <1>1, <1>2, <1>3, AnswerRefines DEF SignedIn, Answers
    <2>2. Contract!SignedIn(r)
      BY <1>1, <2>1 DEF Contract!SignedIn
    <2>3. QED
      BY <2>2 DEF Contract!Next
  <1>4. CASE ~SignedIn(r)
    <2>1. PICK c : /\ copied' = [copied EXCEPT ![r] = c]
                   /\ left' = [left EXCEPT ![r] = IF @ = {x} THEN Found(c) ELSE @ \ {x}]
                   /\ Goto(r, IF left[r] = {x} THEN "loading" ELSE "reading")
      BY <1>4 DEF Retrieve, LoadIfAny
    <2>2. CASE left[r] # {x}
      BY <1>1, <2>1, <2>2, GoingOn, OnTheWayRefines DEF Open
    <2>3. CASE left[r] = {x}
      <3>1. /\ pc'[r] = "loading" /\ asked' = asked
            /\ copied'[r] = c /\ left'[r] = Found(c)
        BY <1>1, <2>1, <2>3 DEF TypeOK, Goto, Answers
      <3>2. Found(copied[r])' = Found(c)
        BY <3>1 DEF Found, Nothing, Empty
      <3>3. Outcome(r)' = "pending"
        BY <3>1, <3>2 DEF Outcome, Answers
      <3>4. QED
        BY <1>1, <1>2, <3>1, <3>3, OnTheWayRefines
    <2>4. QED
      BY <2>2, <2>3
  <1>5. QED
    BY <1>3, <1>4

LEMMA LoadRefines ==
  ASSUME IInv, NEW r \in Requests, NEW x \in Parts, Load(r, x)
  PROVE  [Contract!Next]_Contract!vars
  <1> DEFINE u == asked[r].user
  <1>1. /\ TypeOK /\ RequestStep(r) /\ asked[r] # NoRequest /\ x \in left[r]
        /\ pc[r] = "loading" /\ asked[r].op = "signin" /\ u \in Owners
        /\ left[r] \subseteq Found(copied[r])
    BY OpenRequest
    DEF IInv, RequestStep, SignIn, Load, Open, Fits, Ask, NothingIsLost, HandedOver
  <1>2. Outcome(r) = IF "cart" \in Found(copied[r]) \ left[r] THEN "merged" ELSE "pending"
    BY <1>1, LoadingOutcome
  <1>3. left[r] = {x} => SignedIn(r)
    BY DEF Load
  <1>4. left[r] # {x} => left'[r] = left[r] \ {x} /\ UNCHANGED <<pc, asked, copied>>
    BY <1>1 DEF Load, TypeOK
  <1>5. Found(copied[r])' = Found(copied[r]) \/ left[r] = {x}
    BY <1>4 DEF Found, Nothing, Empty
  <1>6. CASE x = "cart"
    <2>1. cart' = [cart EXCEPT ![u] = Merge(cart[u], copied[r].cart)]
      BY <1>6 DEF Load, Ask
    <2>2. /\ cart' = [cart EXCEPT ![u] = cart'[u]]
          /\ \A p \in Products : cart[u][p] # Absent => cart'[u][p] # Absent
      BY <1>1, <2>1, LoadGrows DEF TypeOK
    <2>3. Outcome(r) = "pending"
      BY <1>1, <1>2, <1>6
    <2>4. \E to \in {"merged", "yes"} : Contract!Answer(r, {"pending"}, to)
      <3>1. CASE left[r] = {x}
        <4>1. Contract!Answer(r, {"pending"}, "yes")
          BY <1>1, <1>3, <2>3, <3>1, AnswerRefines DEF SignedIn, Answers
        <4>2. QED
          BY <4>1
      <3>2. CASE left[r] # {x}
        <4>1. Outcome(r)' = "merged"
          <5>1. "cart" \in Found(copied[r])' /\ "cart" \notin left'[r] /\ pc'[r] = "loading"
            BY <1>1, <1>4, <1>5, <1>6, <3>2
          <5>2. QED
            BY <5>1 DEF Outcome, Answers
        <4>2. \A y \in Requests \ {r} : Outcome(y)' = Outcome(y)
          BY <1>1, OneRequestSteps, OutcomeStays
        <4>3. [y \in Requests |-> Outcome(y)]'
                = [[y \in Requests |-> Outcome(y)] EXCEPT ![r] = "merged"]
          BY <4>1, <4>2
        <4>4. asked' = [asked EXCEPT ![r] = asked[r]]
          BY <1>1, <1>4, <3>2 DEF TypeOK
        <4>5. Contract!Answer(r, {"pending"}, "merged")
          BY <2>3, <4>3, <4>4 DEF Contract!Answer
        <4>6. QED
          BY <4>5
      <3>3. QED
        BY <3>1, <3>2
    <2>5. Contract!Merge(r)
      BY <1>1, <2>2, <2>4 DEF Contract!Merge
    <2>6. QED
      BY <2>5 DEF Contract!Next
  <1>7. CASE x = "wishlist"
    <2>1. cart' = cart
      BY <1>7 DEF Load
    <2>2. CASE left[r] = {x}
      <3>1. Contract!Answer(r, {"pending", "merged"}, "yes")
        BY <1>1, <1>2, <1>3, <2>2, AnswerRefines DEF SignedIn, Answers
      <3>2. Contract!SignedIn(r)
        BY <1>1, <2>1, <3>1 DEF Contract!SignedIn
      <3>3. QED
        BY <3>2 DEF Contract!Next
    <2>3. CASE left[r] # {x}
      <3>1. "cart" \in left'[r] <=> "cart" \in left[r]
        BY <1>4, <1>7, <2>3
      <3>2. Outcome(r)' = Outcome(r)
        BY <1>1, <1>2, <1>4, <1>5, <2>3, <3>1 DEF Outcome, Answers
      <3>3. QED
        BY <1>1, <1>4, <2>1, <2>3, <3>2, OnTheWayRefines
    <2>4. QED
      BY <2>2, <2>3
  <1>8. QED
    BY <1>6, <1>7 DEF Parts

LEMMA SignInRefines ==
  ASSUME IInv, NEW r \in Requests, SignIn(r)
  PROVE  [Contract!Next]_Contract!vars
  <1>1. CASE SignInRefused(r)
    <2>1. Contract!Next
      BY <1>1, RefusalRefines DEF SignInRefused, At, Open, RequestStep, ReadStep
    <2>2. QED
      BY <2>1
  <1>2. CASE StartCopy(r)
    BY <1>2, GoingOn, OnTheWayRefines DEF IInv, StartCopy, At, Open, RequestStep
  <1>3. QED
    BY <1>1, <1>2, RetrieveRefines, LoadRefines DEF SignIn

LEMMA ArrivalRefines ==
  ASSUME IInv, NEW r \in Requests, Arrive(r)
  PROVE  [Contract!Next]_Contract!vars
  <1>1. PICK a \in Asking : Begin(r, a)
    BY ArrivalIsWellFormed
  <1>2. /\ TypeOK /\ RequestStep(r) /\ cart' = cart
        /\ pc[r] = "idle" /\ pc'[r] = "begun"
        /\ asked[r] = NoRequest
        /\ asked' = [asked EXCEPT ![r] = a] /\ asked'[r] = a
    BY <1>1 DEF IInv, RequestStep, Begin, TypeOK, RequestsFit, Fits, Open
  <1>3. Outcome(r) = "pending" /\ Outcome(r)' = "pending"
    BY <1>2 DEF Outcome, Answers
  <1>4. \A x \in Requests : Outcome(x)' = Outcome(x)
    BY <1>2, <1>3, OneRequestSteps, OutcomeStays
  <1>5. Contract!Ask(r)
    BY <1>2, <1>3, <1>4 DEF Contract!Ask, Asking
  <1>6. QED
    BY <1>5 DEF Contract!Next

LEMMA SessionRefines ==
  ASSUME IInv, NEW s \in Sessions, CreateSession(s) \/ SetExpiry(s) \/ SessionExpires(s)
  PROVE  [Contract!Next]_Contract!vars
  <1>1. UNCHANGED <<pc, asked, copied, left>>
    BY DEF CreateSession, SetExpiry, SessionExpires
  <1>2. \A x \in Requests : Outcome(x)' = Outcome(x)
    BY <1>1, OutcomeStays
  <1>3. CASE SessionExpires(s)
    <2>1. Contract!Forget(s)
      BY <1>1, <1>2, <1>3 DEF SessionExpires, Contract!Forget, Empty
    <2>2. QED
      BY <2>1 DEF Contract!Next
  <1>4. CASE ~SessionExpires(s)
    BY <1>1, <1>2, <1>4 DEF CreateSession, SetExpiry, Contract!vars
  <1>5. QED
    BY <1>3, <1>4

LEMMA CrashRefines ==
  ASSUME IInv, Crash
  PROVE  [Contract!Next]_Contract!vars
  <1>1. /\ pc' = [r \in Requests |-> IF pc[r] \in Open THEN "lost" ELSE pc[r]]
        /\ asked' = [r \in Requests |-> NoRequest] /\ cart' = cart
    BY DEF Crash
  <1>2. ASSUME NEW x \in Requests
        PROVE  Outcome(x)' = IF asked[x] # NoRequest /\ Outcome(x) \in {"pending", "merged"}
                             THEN "lost" ELSE Outcome(x)
    <2>1. /\ pc[x] \in Open <=> asked[x] # NoRequest
          /\ pc[x] \in Open \cup Answers \cup {"idle", "lost"}
      BY DEF IInv, RequestsFit, Fits, TypeOK
    <2>2. CASE pc[x] \in Open
      <3>1. Outcome(x) \in {"pending", "merged"}
        BY <2>2 DEF Outcome, Open, Answers
      <3>2. Outcome(x)' = "lost"
        BY <1>1, <2>2 DEF Outcome
      <3>3. QED
        BY <2>1, <2>2, <3>1, <3>2
    <2>3. CASE pc[x] \notin Open
      <3>1. Outcome(x)' = Outcome(x)
        BY <1>1, <2>3 DEF Outcome, Open
      <3>2. QED
        BY <2>1, <2>3, <3>1
    <2>4. QED
      BY <2>2, <2>3
  <1>3. [r \in Requests |-> Outcome(r)]' = [r \in Requests |->
           IF asked[r] # NoRequest /\ Outcome(r) \in {"pending", "merged"}
           THEN "lost" ELSE Outcome(r)]
    BY <1>2
  <1>4. Contract!Crash
    BY <1>1, <1>3 DEF Contract!Crash
  <1>5. QED
    BY <1>4 DEF Contract!Next

LEMMA InitRefines == Init => Contract!Init
  BY DEF Init, Empty, Contract!Init, Outcome, Answers

\* Every behaviour of the managers is one that CartContract allows, for any quantities:
\* each request about a cart takes effect at one instant, or not at all.
THEOREM Refinement == Spec => KeepsCartContract
  <1>1. IInv /\ [Next]_vars => [Contract!Next]_Contract!vars
    <2> SUFFICES ASSUME IInv, [Next]_vars
                 PROVE  [Contract!Next]_Contract!vars
      OBVIOUS
    <2>1. CASE UNCHANGED vars
      <3>1. \A x \in Requests : Outcome(x)' = Outcome(x)
        BY <2>1, OutcomeStays DEF vars
      <3>2. QED
        BY <2>1, <3>1 DEF vars, Contract!vars
    <2>2. QED
      BY <2>1, CrashRefines, ArrivalRefines, CartRefines, WishlistRefines, SignInRefines,
         SessionRefines DEF Next
  <1>2. QED
    BY <1>1, InitRefines, Invariance, PTL DEF Spec, KeepsCartContract, Contract!Spec

-----------------------------------------------------------------------------
(***************************************************************************)
(* What has been put into a cart or a user's wishlist stays there.         *)
(***************************************************************************)

\* An item leaves a cart with a request to remove it, or with the session whose cart it is ...
CartItemsStay ==
  \A o \in Owners, p \in Products :
    cart[o][p] # Absent /\ cart'[o][p] = Absent =>
      \/ \E r \in Requests : DeleteItem(r) /\ Owner(r) = o /\ Item(r) = p
      \/ o \in Sessions /\ SessionExpires(o)

\* ... and a user's wishlist with a request to remove it.
WishesStay ==
  \A u \in Users, p \in Products :
    p \in wishes[u] /\ p \notin wishes'[u] =>
      \E r \in Requests : RemoveForUser(r) /\ Owner(r) = u /\ Item(r) = p

\* A number that is put in leaves no item out, and other items alone.
LEMMA PutKeepsItems ==
  ASSUME TypeOK, NEW r \in Requests, Owner(r) \in Owners, NEW q, q # Absent, Put(r, q)
  PROVE  \A o \in Owners, p \in Products : cart[o][p] # Absent => cart'[o][p] # Absent
  <1>1. Owner(r) \in Owners /\ cart' = [cart EXCEPT ![Owner(r)] = [cart[Owner(r)] EXCEPT ![Item(r)] = q]]
    BY DEF Put, TypeOK
  <1>2. QED
    BY <1>1 DEF TypeOK

LEMMA RequestKeepsItems ==
  ASSUME IInv, NEW r \in Requests, RequestStep(r)
  PROVE  CartItemsStay /\ WishesStay
  <1>1. TypeOK /\ Absent \notin Int
    BY ShoppingAssumption DEF IInv
  <1>2. CASE Arrive(r)
    BY <1>2, ArrivalIsWellFormed DEF Begin, CartItemsStay, WishesStay
  <1>3. CASE CartRequest(r)
    <2>1. pc[r] \in Open /\ wishes' = wishes
      BY <1>3
      DEF CartRequest, CheckStockForCart, RequireInStock, CreateItem, CreateWithoutDocument,
          AddQuantity, DeleteItem, DeleteMissing, Removing, UpdateUserQty, UpdateSessionQty,
          At, ReadStep, CartStep, Open
    <2>2. /\ Owner(r) \in Owners /\ Ask(r).qty \in Int
          /\ Ask(r).op # "signin" => Item(r) \in Products
      BY <1>1, <2>1, OpenRequest DEF IInv, Fits
    <2>3. Held(r) \in Quantity
      <3>1. Fits(r)
        BY <1>1, <2>1, OpenRequest DEF IInv
      <3>2. Ask(r).op # "signin"
        BY <1>3, <3>1
        DEF Fits, CartRequest, CheckStockForCart, CreateItem, CreateWithoutDocument,
            AddQuantity, DeleteItem, DeleteMissing, Removing, UpdateUserQty, UpdateSessionQty,
            At, Ask
      <3>3. QED
        BY <1>1, <2>2, <3>2 DEF TypeOK, Held
    <2>4. CASE DeleteItem(r)
      <3>1. cart' = [cart EXCEPT ![Owner(r)] = [cart[Owner(r)] EXCEPT ![Item(r)] = Absent]]
        BY <1>1, <2>2, <2>4 DEF DeleteItem, Put, TypeOK
      <3>2. \A o \in Owners, p \in Products :
              cart'[o][p] # cart[o][p] => Owner(r) = o /\ Item(r) = p
        BY <1>1, <2>2, <3>1 DEF TypeOK
      <3>3. QED
        BY <2>1, <2>4, <3>2 DEF CartItemsStay, WishesStay
    <2>5. CASE ~DeleteItem(r)
      <3>1. cart' = cart \/ \E q \in Int : Put(r, q)
        BY <1>3, <2>2, <2>3, <2>5
        DEF CartRequest, CheckStockForCart, RequireInStock, CreateItem, CreateWithoutDocument,
            AddQuantity, DeleteMissing, UpdateUserQty, UpdateSessionQty, ReadStep, Quantity
      <3>2. QED
        BY <1>1, <2>1, <2>2, <3>1, PutKeepsItems DEF CartItemsStay, WishesStay
    <2>6. QED
      BY <2>4, <2>5
  <1>4. CASE WishlistRequest(r)
    <2>1. cart' = cart
      BY <1>4
      DEF WishlistRequest, CheckStockForWishlist, RequireInStock, AppendForUser, RemoveForUser,
          CheckExists, AppendForSession, FindIndex, PopForSession, WishlistWithoutDocument,
          ReadStep, WishStep
    <2>2. CASE AppendForUser(r)
      <3>1. \A u \in Users : wishes[u] \subseteq wishes'[u]
        BY <1>1, <2>2 DEF AppendForUser, TypeOK
      <3>2. QED
        BY <2>1, <3>1 DEF CartItemsStay, WishesStay
    <2>3. CASE RemoveForUser(r)
      <3>1. wishes' = [wishes EXCEPT ![Owner(r)] = wishes[Owner(r)] \ {Item(r)}]
        BY <1>1, <2>3 DEF RemoveForUser, TypeOK
      <3>2. \A u \in Users, p \in Products :
              p \in wishes[u] /\ p \notin wishes'[u] => Owner(r) = u /\ Item(r) = p
        BY <1>1, <3>1 DEF TypeOK
      <3>3. QED
        BY <2>1, <2>3, <3>2 DEF CartItemsStay, WishesStay
    <2>4. CASE ~AppendForUser(r) /\ ~RemoveForUser(r)
      <3>1. wishes' = wishes
        BY <1>4, <2>4
        DEF WishlistRequest, CheckStockForWishlist, RequireInStock, CheckExists,
            AppendForSession, FindIndex, PopForSession, WishlistWithoutDocument,
            ReadStep, CartStep, WishStep
      <3>2. QED
        BY <2>1, <3>1 DEF CartItemsStay, WishesStay
    <2>5. QED
      BY <2>2, <2>3, <2>4
  <1>5. CASE SignIn(r)
    <2>1. CASE SignInRefused(r) \/ StartCopy(r) \/ \E x \in Parts : Retrieve(r, x)
      <3>1. UNCHANGED <<cart, wishes>>
        BY <2>1 DEF SignInRefused, StartCopy, Retrieve, ReadStep, CartStep
      <3>2. QED
        BY <3>1 DEF CartItemsStay, WishesStay
    <2>2. ASSUME NEW x \in Parts, Load(r, x)
          PROVE  CartItemsStay /\ WishesStay
      BY <2>2, LoadGrows DEF CartItemsStay, WishesStay
    <2>3. QED
      BY <1>5, <2>1, <2>2 DEF SignIn
  <1>6. QED
    BY <1>2, <1>3, <1>4, <1>5 DEF RequestStep

\* Neither adding nor setting, signing in, a crash or an overlap of requests takes an item
\* out of a cart or of a user's wishlist: only removing it does, and the end of a session.
THEOREM ItemsStay == Spec => [][CartItemsStay /\ WishesStay]_vars
  <1>1. IInv /\ [Next]_vars => [CartItemsStay /\ WishesStay]_vars
    <2> SUFFICES ASSUME IInv, [Next]_vars
                 PROVE  CartItemsStay /\ WishesStay
      OBVIOUS
    <2>1. CASE Crash \/ UNCHANGED vars \/ \E s \in Sessions : CreateSession(s) \/ SetExpiry(s)
      BY <2>1 DEF Crash, vars, CreateSession, SetExpiry, CartItemsStay, WishesStay
    <2>2. ASSUME NEW s \in Sessions, SessionExpires(s)
          PROVE  CartItemsStay /\ WishesStay
      BY <2>2 DEF SessionExpires, IInv, TypeOK, CartItemsStay, WishesStay
    <2>3. QED
      BY <2>1, <2>2, RequestKeepsItems DEF Next, RequestStep
  <1>2. QED
    BY <1>1, Invariance, PTL DEF Spec
=============================================================================
