------------------------------ MODULE Shopping ------------------------------
(***************************************************************************)
(* ShoppingService over the four managers of carts and wishlists, and      *)
(* SessionCopier, which signing in calls.  Everything is in Redis: a hash  *)
(* and a set for each user, one JSON document for each session.            *)
(*                                                                         *)
(* Each step is one command to Redis, or one query of the products in      *)
(* stock: requests interleave between any two commands of a method.        *)
(* A request for a user goes to UserCartManager and UserWishlistManager,   *)
(* one for a session to CartSessionManager and WishlistSessionManager.     *)
(***************************************************************************)
EXTENDS Integers, Sequences, SequencesExt

CONSTANTS
  Requests, Users, Sessions, Products,
  AddQty,     \* quantities clients add
  SetQty,     \* quantities clients set
  Absent,     \* no such field
  NoRequest

ASSUME ShoppingAssumption ==
  /\ Users \cap Sessions = {}
  /\ AddQty \subseteq Nat \ {0}
  /\ SetQty \subseteq Int
  /\ Absent \notin Int

Owners == Users \cup Sessions

VARIABLES
  cart,       \* users:<id>:cart, and $.cart of sessions:<key>
  wishes,     \* users:<id>:wishlist
  list,       \* $.wishlist of sessions:<key>
  life,       \* the document sessions:<key>
  stock,      \* products the catalogue has in stock at one time or another
  pc,         \* progress of each request
  asked,      \* what it asks for, until it is answered
  index,      \* the position ARRINDEX returned
  copied,     \* what SessionCopier has read
  left,       \* commands of its current gather still to run
  raced,      \* history: sessions whose wishlist changed between two commands of a request
  owed        \* history: items a sign-in has to hand over

stores   == <<cart, wishes, list, life>>
copier   == <<copied, left, owed>>
vars     == <<stores, stock, pc, asked, index, copier, raced>>

Parts    == {"cart", "wishlist"}
Items    == Parts \X Products
Open     == {"begun", "create", "add", "append", "check", "pop", "reading", "loading"}
Answers  == {"ok", "refused", "error"}
Asking   == [op : {"add", "remove", "set", "wish", "unwish", "signin"}, owner : Owners,
             user : Owners, item : Products \cup {Absent}, qty : Int]

ASSUME NoRequestAssumption == NoRequest \notin Asking

Quantity == Int \cup {Absent}
Empty    == [p \in Products |-> Absent]
Nothing  == [cart |-> Empty, wishlist |-> {}]

TypeOK ==
  /\ cart \in [Owners -> [Products -> Quantity]]
  /\ wishes \in [Users -> SUBSET Products]
  /\ list \in [Sessions -> Seq(Products)]
  /\ life \in [Sessions -> {"none", "made", "live", "gone"}]
  /\ stock \subseteq Products
  /\ pc \in [Requests -> Open \cup Answers \cup {"idle", "lost"}]
  /\ asked \in [Requests -> Asking \cup {NoRequest}]
  /\ index \in [Requests -> Nat]
  /\ copied \in [Requests -> [cart : [Products -> Quantity], wishlist : SUBSET Products]]
  /\ left \in [Requests -> SUBSET Parts]
  /\ raced \subseteq Sessions
  /\ owed \in [Requests -> SUBSET Items]

Init ==
  /\ cart    = [o \in Owners |-> Empty]
  /\ wishes  = [u \in Users |-> {}]
  /\ list    = [s \in Sessions |-> <<>>]
  /\ life    = [s \in Sessions |-> "none"]
  /\ stock \in SUBSET Products
  /\ pc      = [r \in Requests |-> "idle"]
  /\ asked   = [r \in Requests |-> NoRequest]
  /\ index   = [r \in Requests |-> 0]
  /\ copied  = [r \in Requests |-> Nothing]
  /\ left    = [r \in Requests |-> {}]
  /\ raced   = {}
  /\ owed    = [r \in Requests |-> {}]

-----------------------------------------------------------------------------
\* Sessions.

\* RedisSessionCreator: JSON.SET of the document, then EXPIRE.  The client has no cookie yet.
CreateSession(s) ==
  /\ life[s] = "none"
  /\ life' = [life EXCEPT ![s] = "made"]
  /\ UNCHANGED <<cart, wishes, list, stock, pc, asked, index, copier, raced>>

SetExpiry(s) ==
  /\ life[s] = "made"
  /\ life' = [life EXCEPT ![s] = "live"]
  /\ UNCHANGED <<cart, wishes, list, stock, pc, asked, index, copier, raced>>

\* Nothing renews the expiry: the document goes though the client's cookie is renewed.
SessionExpires(s) ==
  /\ life[s] = "live"
  /\ life' = [life EXCEPT ![s] = "gone"]
  /\ cart' = [cart EXCEPT ![s] = Empty]
  /\ list' = [list EXCEPT ![s] = <<>>]
  /\ owed' = [r \in Requests |->
                IF asked[r] # NoRequest /\ asked[r].owner = s THEN {} ELSE owed[r]]
  /\ UNCHANGED <<wishes, stock, pc, asked, index, copied, left, raced>>

-----------------------------------------------------------------------------
\* The course of a request.

Ask(r)    == asked[r]
Owner(r)  == asked[r].owner
Item(r)   == asked[r].item

\* A client with the cookie of a session, whose document may be gone, or a user.
Known(o)   == o \in Sessions => life[o] \in {"live", "gone"}
NoDocument(o) == o \in Sessions /\ life[o] = "gone"

Begin(r, a) ==
  /\ pc[r] = "idle"
  /\ Known(a.owner)
  /\ pc' = [pc EXCEPT ![r] = "begun"]
  /\ asked' = [asked EXCEPT ![r] = a]
  /\ UNCHANGED <<stores, stock, index, copier, raced>>

At(r, stage, op) == pc[r] = stage /\ asked[r].op = op

Goto(r, to) ==
  /\ pc' = [pc EXCEPT ![r] = to]
  /\ asked' = [asked EXCEPT ![r] = IF to \in Answers THEN NoRequest ELSE @]

\* Steps of a request that change no wishlist, and steps that change no store at all.
CartStep == UNCHANGED <<wishes, list, life, stock, index, copied, left, raced>>
ReadStep == CartStep /\ UNCHANGED <<cart, owed>>
WishStep == UNCHANGED <<cart, life, stock, copied, left>>

\* Whoever takes an item out releases the sign-ins that would have to hand it over.
Release(o, i) ==
  owed' = [r \in Requests |->
             IF asked[r] # NoRequest /\ o \in {asked[r].owner, asked[r].user}
             THEN owed[r] \ {i} ELSE owed[r]]

\* _require_product_in_stock, the first thing that adding to a cart or wishlist does.
\* The catalogue changes at any time: the answer may be no for every product.
RequireInStock(r, to) ==
  /\ \/ Item(r) \in stock /\ Goto(r, to)
     \/ Goto(r, "refused")
  /\ ReadStep

-----------------------------------------------------------------------------
\* Carts.

Put(r, q)  == cart' = [cart EXCEPT ![Owner(r)][Item(r)] = q]
Held(r)    == cart[Owner(r)][Item(r)]

CheckStockForCart(r) == At(r, "begun", "add") /\ RequireInStock(r, "create")

\* Mutant: the quantity is added before the item is created.
AddThenCreate(r) ==
  /\ pc[r] = "create"
  /\ ~NoDocument(Owner(r))
  /\ Goto(r, IF Held(r) = Absent THEN "ok" ELSE "add")
  /\ Put(r, IF Held(r) = Absent THEN Ask(r).qty ELSE Held(r) + Ask(r).qty)
  /\ UNCHANGED owed /\ CartStep

\* create: HSETNX, or JSON.SET ... NX, of an item that is not in the cart ...
CreateItem(r) ==
  /\ pc[r] = "create"
  /\ ~NoDocument(Owner(r))
  /\ IF Held(r) = Absent
     THEN Goto(r, "ok") /\ Put(r, Ask(r).qty)
     ELSE Goto(r, "add") /\ UNCHANGED cart
  /\ UNCHANGED owed /\ CartStep

\* Mutant: the document is created when it is missing, as a hash would be, without expiry.
RecreateDocument(r) ==
  /\ pc[r] = "create" /\ NoDocument(Owner(r))
  /\ Goto(r, "ok") /\ Put(r, Ask(r).qty)
  /\ life' = [life EXCEPT ![Owner(r)] = "made"]
  /\ UNCHANGED <<wishes, list, stock, index, copied, left, raced, owed>>

\* ... which Redis refuses under a path of a document that is not there.
CreateWithoutDocument(r) ==
  /\ pc[r] = "create" /\ NoDocument(Owner(r))
  /\ Goto(r, "error") /\ ReadStep

\* add_quantity: HINCRBY creates a field that has gone since; JSON.NUMINCRBY returns an
\* empty list, on which the code fails.
AddQuantity(r) ==
  /\ pc[r] = "add"
  /\ IF Held(r) = Absent
     THEN IF Owner(r) \in Users
          THEN Goto(r, "ok") /\ Put(r, Ask(r).qty)
          ELSE Goto(r, "error") /\ UNCHANGED cart
     ELSE Goto(r, "ok") /\ Put(r, Held(r) + Ask(r).qty)
  /\ UNCHANGED owed /\ CartStep

Removing(r) ==
  \/ At(r, "begun", "remove")
  \/ At(r, "begun", "set") /\ Ask(r).qty = 0

\* delete_by_id, also of cart_update_qty with quantity 0.
DeleteItem(r) ==
  /\ Removing(r)
  /\ Held(r) # Absent
  /\ Goto(r, "ok") /\ Put(r, Absent)
  /\ Release(Owner(r), <<"cart", Item(r)>>)
  /\ CartStep

DeleteMissing(r) ==
  /\ Removing(r)
  /\ Held(r) = Absent
  /\ Goto(r, "refused") /\ ReadStep

\* Mutant: HSET, whose reply counts the fields that are new.
UpdateAnyUserQty(r) ==
  /\ At(r, "begun", "set") /\ Ask(r).qty # 0
  /\ Owner(r) \in Users
  /\ Goto(r, IF Held(r) = Absent THEN "ok" ELSE "refused")
  /\ Put(r, Ask(r).qty)
  /\ UNCHANGED owed /\ CartStep

\* update_qty_by_id of a user is HSETNX: it creates what is not there ...
UpdateUserQty(r) ==
  /\ At(r, "begun", "set") /\ Ask(r).qty # 0
  /\ Owner(r) \in Users
  /\ IF Held(r) = Absent
     THEN Goto(r, "ok") /\ Put(r, Ask(r).qty)
     ELSE Goto(r, "refused") /\ UNCHANGED cart
  /\ UNCHANGED owed /\ CartStep

\* Mutant: JSON.SET without XX.
UpdateOrCreateQty(r) ==
  /\ At(r, "begun", "set") /\ Ask(r).qty # 0
  /\ Owner(r) \in Sessions /\ ~NoDocument(Owner(r))
  /\ Goto(r, "ok") /\ Put(r, Ask(r).qty)
  /\ UNCHANGED owed /\ CartStep

\* ... that of a session JSON.SET ... XX, which answers nothing when the document is gone.
UpdateSessionQty(r) ==
  /\ At(r, "begun", "set") /\ Ask(r).qty # 0
  /\ Owner(r) \in Sessions
  /\ IF Held(r) # Absent
     THEN Goto(r, "ok") /\ Put(r, Ask(r).qty)
     ELSE Goto(r, "refused") /\ UNCHANGED cart
  /\ UNCHANGED owed /\ CartStep

-----------------------------------------------------------------------------
\* Wishlists.

CheckStockForWishlist(r) == At(r, "begun", "wish") /\ RequireInStock(r, "append")

\* SADD and SREM tell whether they changed the set.
AppendForUser(r) ==
  /\ At(r, "append", "wish") /\ Owner(r) \in Users
  /\ Goto(r, IF Item(r) \in wishes[Owner(r)] THEN "refused" ELSE "ok")
  /\ wishes' = [wishes EXCEPT ![Owner(r)] = @ \cup {Item(r)}]
  /\ UNCHANGED <<list, index, raced, owed>> /\ WishStep

RemoveForUser(r) ==
  /\ At(r, "begun", "unwish") /\ Owner(r) \in Users
  /\ Goto(r, IF Item(r) \in wishes[Owner(r)] THEN "ok" ELSE "refused")
  /\ wishes' = [wishes EXCEPT ![Owner(r)] = @ \ {Item(r)}]
  /\ Release(Owner(r), <<"wishlist", Item(r)>>)
  /\ UNCHANGED <<list, index, raced>> /\ WishStep

\* A request that has asked for a position in the list of s and not yet used the answer.
Between(r, s) == pc[r] \in {"check", "pop"} /\ Owner(r) = s

MarkRaces(r) ==
  raced' = raced \cup {s \in {Owner(r)} : \E x \in Requests \ {r} : Between(x, s)}

\* Mutant: the list is not looked at.
NeverCheck(r) ==
  /\ At(r, "append", "wish") /\ Owner(r) \in Sessions
  /\ ~NoDocument(Owner(r))
  /\ Goto(r, "check")
  /\ ReadStep

\* check_exists is a command of its own: JSON.ARRINDEX ...
CheckExists(r) ==
  /\ At(r, "append", "wish") /\ Owner(r) \in Sessions
  /\ ~NoDocument(Owner(r))
  /\ Goto(r, IF Item(r) \in ToSet(list[Owner(r)]) THEN "refused" ELSE "check")
  /\ ReadStep

\* ... then JSON.ARRAPPEND, whatever has become of the list.
AppendForSession(r) ==
  /\ pc[r] = "check" /\ ~NoDocument(Owner(r))
  /\ Goto(r, "ok")
  /\ list' = [list EXCEPT ![Owner(r)] = Append(@, Item(r))]
  /\ MarkRaces(r)
  /\ UNCHANGED <<wishes, index, owed>> /\ WishStep

\* The first position of an item in a list, 0 when it is in none.
ArrIndex(l, e) == SelectInSeq(l, LAMBDA p : p = e)

\* Mutant: the position as Redis counts it, with -1 for none.
FindRedisIndex(r) ==
  /\ At(r, "begun", "unwish") /\ Owner(r) \in Sessions
  /\ ~NoDocument(Owner(r))
  /\ LET found == ArrIndex(list[Owner(r)], Item(r)) IN
       /\ Goto(r, IF found = 0 THEN "refused" ELSE "pop")
       /\ index' = [index EXCEPT ![r] = found - 1]
  /\ UNCHANGED <<wishes, list, raced, owed>> /\ WishStep

\* remove: JSON.ARRINDEX ...
FindIndex(r) ==
  /\ At(r, "begun", "unwish") /\ Owner(r) \in Sessions
  /\ ~NoDocument(Owner(r))
  /\ LET found == ArrIndex(list[Owner(r)], Item(r)) IN
       /\ Goto(r, IF found = 0 THEN "refused" ELSE "pop")
       /\ index' = [index EXCEPT ![r] = found]
  /\ UNCHANGED <<wishes, list, raced, owed>> /\ WishStep

\* ... then JSON.ARRPOP of that position; Redis rounds one beyond the end down.
PopForSession(r) ==
  /\ pc[r] = "pop" /\ ~NoDocument(Owner(r))
  /\ Goto(r, "ok")
  /\ index' = [index EXCEPT ![r] = 0]
  /\ LET l == list[Owner(r)]
         i == IF index[r] <= Len(l) THEN index[r] ELSE Len(l)
     IN /\ list' = [list EXCEPT ![Owner(r)] = IF l = <<>> THEN l ELSE RemoveAt(l, i)]
        /\ IF l = <<>> THEN UNCHANGED owed ELSE Release(Owner(r), <<"wishlist", l[i]>>)
  /\ MarkRaces(r)
  /\ UNCHANGED wishes /\ WishStep

\* Every command on the wishlist of a session needs the document.
WishlistWithoutDocument(r) ==
  /\ \/ At(r, "append", "wish") \/ At(r, "begun", "unwish") \/ pc[r] \in {"check", "pop"}
  /\ NoDocument(Owner(r))
  /\ Goto(r, "error") /\ ReadStep

-----------------------------------------------------------------------------
\* Signing in: the user is read and the password compared, then the session is copied.

SignInRefused(r) ==
  /\ At(r, "begun", "signin")
  /\ Goto(r, "error") /\ ReadStep

InSession(s) ==
  {<<"cart", p>> : p \in {q \in Products : cart[s][q] # Absent}}
    \cup {<<"wishlist", p>> : p \in ToSet(list[s])}

StartCopy(r) ==
  /\ At(r, "begun", "signin")
  /\ Goto(r, "reading")
  /\ left' = [left EXCEPT ![r] = Parts]
  /\ owed' = [owed EXCEPT ![r] = InSession(Owner(r))]
  /\ UNCHANGED <<stores, stock, index, copied, raced>>

\* The parts that there is something to load of.
Found(c) == {x \in Parts : c[x] # Nothing[x]}

\* Mutant: cart_data and wishlist_data.
LoadIfBoth(c) == IF Found(c) = Parts THEN Parts ELSE {}

LoadIfAny(c) == Found(c)

\* The sign-in is answered, and forgotten.
SignedIn(r) ==
  /\ Goto(r, "ok")
  /\ left'   = [left EXCEPT ![r] = {}]
  /\ copied' = [copied EXCEPT ![r] = Nothing]
  /\ owed'   = [owed EXCEPT ![r] = {}]

\* The two JSON.GET of the first gather, in any order.
Retrieve(r, x) ==
  /\ pc[r] = "reading" /\ x \in left[r]
  /\ LET c == [copied[r] EXCEPT ![x] =
                 IF x = "cart" THEN cart[Owner(r)] ELSE ToSet(list[Owner(r)])]
     IN IF left[r] = {x} /\ LoadIfAny(c) = {}
        THEN SignedIn(r)
        ELSE /\ copied' = [copied EXCEPT ![r] = c]
             /\ left' = [left EXCEPT ![r] = IF @ = {x} THEN LoadIfAny(c) ELSE @ \ {x}]
             /\ Goto(r, IF left[r] = {x} THEN "loading" ELSE "reading")
             /\ UNCHANGED owed
  /\ UNCHANGED <<stores, stock, index, raced>>

\* Mutant: the hash is replaced.
Replace(old, new) == new

Merge(old, new) == [p \in Products |-> IF new[p] = Absent THEN old[p] ELSE new[p]]

\* The HSET and SADD of the second gather; the session keeps what it has.
Load(r, x) ==
  /\ pc[r] = "loading" /\ x \in left[r]
  /\ LET u == Ask(r).user IN
       IF x = "cart"
       THEN cart' = [cart EXCEPT ![u] = Merge(@, copied[r].cart)] /\ UNCHANGED wishes
       ELSE wishes' = [wishes EXCEPT ![u] = @ \cup copied[r].wishlist] /\ UNCHANGED cart
  /\ IF left[r] = {x}
     THEN SignedIn(r)
     ELSE left' = [left EXCEPT ![r] = @ \ {x}] /\ UNCHANGED <<pc, asked, copied, owed>>
  /\ UNCHANGED <<list, life, stock, index, raced>>

-----------------------------------------------------------------------------
\* The server dies: requests end where they are, Redis keeps what it has.
Crash ==
  /\ \E r \in Requests : pc[r] \in Open
  /\ pc' = [r \in Requests |-> IF pc[r] \in Open THEN "lost" ELSE pc[r]]
  /\ left' = [r \in Requests |-> {}]
  /\ copied' = [r \in Requests |-> Nothing]
  /\ index' = [r \in Requests |-> 0]
  /\ asked' = [r \in Requests |-> NoRequest]
  /\ owed' = [r \in Requests |-> {}]
  /\ UNCHANGED <<stores, stock, raced>>

Arrive(r) ==
  \/ \E o \in Owners, p \in Products :
       \/ \E n \in AddQty :
            Begin(r, [op |-> "add", owner |-> o, user |-> o, item |-> p, qty |-> n])
       \/ \E n \in SetQty :
            Begin(r, [op |-> "set", owner |-> o, user |-> o, item |-> p, qty |-> n])
       \/ \E op \in {"remove", "wish", "unwish"} :
            Begin(r, [op |-> op, owner |-> o, user |-> o, item |-> p, qty |-> 0])
  \/ \E s \in Sessions, u \in Users :
       Begin(r, [op |-> "signin", owner |-> s, user |-> u, item |-> Absent, qty |-> 0])

CartRequest(r) ==
  \/ CheckStockForCart(r) \/ CreateItem(r) \/ CreateWithoutDocument(r) \/ AddQuantity(r)
  \/ DeleteItem(r) \/ DeleteMissing(r)
  \/ UpdateUserQty(r) \/ UpdateSessionQty(r)

WishlistRequest(r) ==
  \/ CheckStockForWishlist(r) \/ AppendForUser(r) \/ RemoveForUser(r)
  \/ CheckExists(r) \/ AppendForSession(r) \/ FindIndex(r) \/ PopForSession(r)
  \/ WishlistWithoutDocument(r)

SignIn(r) ==
  \/ SignInRefused(r) \/ StartCopy(r)
  \/ \E x \in Parts : Retrieve(r, x) \/ Load(r, x)

Next ==
  \/ Crash
  \/ \E r \in Requests : Arrive(r) \/ CartRequest(r) \/ WishlistRequest(r) \/ SignIn(r)
  \/ \E s \in Sessions : CreateSession(s) \/ SetExpiry(s) \/ SessionExpires(s)

Spec == Init /\ [][Next]_vars

-----------------------------------------------------------------------------
\* Each request about a cart is answered yes and has its effect once, at one instant, or
\* has none: retrying AlreadyExistsError with add_quantity neither doubles nor loses a
\* quantity.  Signing in takes nothing out of the user's cart.
Outcome(r) ==
  IF pc[r] = "ok" THEN "yes"
  ELSE IF pc[r] = "lost" THEN "lost"
  ELSE IF pc[r] \in Answers THEN "no"
  ELSE IF pc[r] = "loading" /\ "cart" \in Found(copied[r]) \ left[r] THEN "merged"
  ELSE "pending"

Contract == INSTANCE CartContract WITH outcome <- [r \in Requests |-> Outcome(r)]

KeepsCartContract == Contract!Spec

\* The session's wishlist is a list looked at by one command and changed by the next.  As
\* long as no request changes it between two commands of another, no product is in it
\* twice, what a request is about to append is not in it, and what it is about to pop is
\* the product it is to remove.
WishlistIsExact ==
  \A s \in Sessions \ raced :
    /\ \A i, j \in DOMAIN list[s] : i # j => list[s][i] # list[s][j]
    /\ \A r \in Requests : Between(r, s) /\ life[s] = "live" =>
         IF pc[r] = "pop"
         THEN index[r] \in DOMAIN list[s] /\ list[s][index[r]] = Item(r)
         ELSE Item(r) \notin ToSet(list[s])

\* Only what has been in stock gets into a session or a wishlist, although quantities can
\* be set, and sessions copied, without looking at the stock.
OnlyStocked ==
  /\ \A s \in Sessions : InSession(s) \subseteq Parts \X stock
  /\ \A u \in Users : wishes[u] \subseteq stock

\* A document without expiry, or one that has expired, holds nothing: no late command of a
\* client that still has the cookie brings a session back, for it would never go again.
WhatIsHeldExpires ==
  \A s \in Sessions : life[s] # "live" => cart[s] = Empty /\ list[s] = <<>>

InUserStore ==
  [u \in Users |->
    {<<"cart", p>> : p \in {q \in Products : cart[u][q] # Absent}}
      \cup {<<"wishlist", p>> : p \in wishes[u]}]

\* When signing in is answered, the user has all that the session held when the copy began
\* and that nobody has removed since, wherever the removal came in between.
SignInIsComplete ==
  [][\A r \in Requests : pc[r] \in {"reading", "loading"} /\ pc'[r] = "ok" =>
       owed[r] \subseteq InUserStore'[Ask(r).user]]_vars
=============================================================================
