-------------------------- MODULE CalculationProofs --------------------------
(***************************************************************************)
(* Theorems about what keeps no state: the prices of Pricing, for every    *)
(* price and discount, and the pages of Listing, for every length and size.*)
(***************************************************************************)
EXTENDS Pricing, Listing, TLAPS

-----------------------------------------------------------------------------
\* Tables of tiers.

IsTable(tiers) == tiers \subseteq [upTo : Nat, gives : Nat]

\* A table has a first row for whatever it covers.
HasFirst(tiers) == \A n \in Nat : Covering(tiers, n) # {} =>
  \E t \in Covering(tiers, n) : \A u \in Covering(tiers, n) : t.upTo <= u.upTo

\* A dearer row gives less.
Falling(tiers, above) ==
  \A t, u \in tiers : above <= t.gives /\ (t.upTo <= u.upTo => u.gives <= t.gives)

\* A dearer row gives more.
Rising(tiers, above) ==
  \A t, u \in tiers : t.gives <= above /\ (t.upTo <= u.upTo => t.gives <= u.gives)

LEMMA UsTable == IsTable(UsTiers) /\ HasFirst(UsTiers) /\ Falling(UsTiers, 20)
  BY DEF IsTable, HasFirst, Falling, Covering, UsTiers, UpTo

LEMMA TrTable == IsTable(TrTiers) /\ HasFirst(TrTiers) /\ Falling(TrTiers, 21)
  BY DEF IsTable, HasFirst, Falling, Covering, TrTiers, UpTo

LEMMA ArTable == IsTable(ArTiers) /\ HasFirst(ArTiers) /\ Rising(ArTiers, 1400)
  BY DEF IsTable, HasFirst, Rising, Covering, ArTiers, UpTo

\* What Tier returns.
LEMMA TierIsFirst ==
  ASSUME NEW tiers, HasFirst(tiers), NEW above, NEW n \in Nat, Covering(tiers, n) # {}
  PROVE  \E t \in Covering(tiers, n) :
           /\ Tier(tiers, above, n) = t.gives
           /\ \A u \in Covering(tiers, n) : t.upTo <= u.upTo
  <1> DEFINE first == CHOOSE t \in Covering(tiers, n) : \A u \in Covering(tiers, n) : t.upTo <= u.upTo
  <1>1. first \in Covering(tiers, n) /\ \A u \in Covering(tiers, n) : first.upTo <= u.upTo
    BY DEF HasFirst
  <1>2. Tier(tiers, above, n) = first.gives
    BY DEF Tier
  <1> HIDE DEF first
  <1>3. QED
    BY <1>1, <1>2

LEMMA TierInNat ==
  ASSUME NEW tiers, IsTable(tiers), HasFirst(tiers), NEW above \in Nat, NEW n \in Nat
  PROVE  Tier(tiers, above, n) \in Nat
  <1>1. CASE Covering(tiers, n) = {}
    BY <1>1 DEF Tier
  <1>2. CASE Covering(tiers, n) # {}
    <2>1. PICK t \in Covering(tiers, n) : Tier(tiers, above, n) = t.gives
      BY <1>2, TierIsFirst
    <2>2. QED
      BY <2>1 DEF Covering, IsTable
  <1>3. QED
    BY <1>1, <1>2

LEMMA TierFalls ==
  ASSUME NEW tiers, NEW above \in Nat, IsTable(tiers), HasFirst(tiers), Falling(tiers, above),
         NEW p \in Nat, NEW q \in Nat, p <= q
  PROVE  Tier(tiers, above, q) <= Tier(tiers, above, p)
  <1>1. Covering(tiers, q) \subseteq Covering(tiers, p)
    BY DEF Covering, IsTable
  <1>2. CASE Covering(tiers, p) = {}
    <2>1. Tier(tiers, above, p) = above /\ Tier(tiers, above, q) = above
      BY <1>1, <1>2 DEF Tier
    <2>2. QED
      BY <2>1
  <1>3. CASE Covering(tiers, p) # {}
    <2>1. PICK t \in Covering(tiers, p) : /\ Tier(tiers, above, p) = t.gives
                                         /\ \A u \in Covering(tiers, p) : t.upTo <= u.upTo
      BY <1>3, TierIsFirst
    <2>2. t \in tiers /\ t.gives \in Nat
      BY <2>1 DEF Covering, IsTable
    <2>3. CASE Covering(tiers, q) = {}
      <3>1. Tier(tiers, above, q) = above
        BY <2>3 DEF Tier
      <3>2. QED
        BY <2>1, <2>2, <3>1 DEF Falling
    <2>4. CASE Covering(tiers, q) # {}
      <3>1. PICK u \in Covering(tiers, q) : Tier(tiers, above, q) = u.gives
        BY <2>4, TierIsFirst
      <3>2. u \in tiers /\ t.upTo <= u.upTo
        BY <1>1, <2>1, <3>1 DEF Covering
      <3>3. QED
        BY <2>1, <2>2, <3>1, <3>2 DEF Falling
    <2>5. QED
      BY <2>3, <2>4
  <1>4. QED
    BY <1>2, <1>3

LEMMA TierRises ==
  ASSUME NEW tiers, NEW above \in Nat, IsTable(tiers), HasFirst(tiers), Rising(tiers, above),
         NEW p \in Nat, NEW q \in Nat, p <= q
  PROVE  Tier(tiers, above, p) <= Tier(tiers, above, q)
  <1>1. Covering(tiers, q) \subseteq Covering(tiers, p)
    BY DEF Covering, IsTable
  <1>2. CASE Covering(tiers, p) = {}
    <2>1. Tier(tiers, above, p) = above /\ Tier(tiers, above, q) = above
      BY <1>1, <1>2 DEF Tier
    <2>2. QED
      BY <2>1
  <1>3. CASE Covering(tiers, p) # {}
    <2>1. PICK t \in Covering(tiers, p) : /\ Tier(tiers, above, p) = t.gives
                                         /\ \A u \in Covering(tiers, p) : t.upTo <= u.upTo
      BY <1>3, TierIsFirst
    <2>2. t \in tiers /\ t.gives \in Nat
      BY <2>1 DEF Covering, IsTable
    <2>3. CASE Covering(tiers, q) = {}
      <3>1. Tier(tiers, above, q) = above
        BY <2>3 DEF Tier
      <3>2. QED
        BY <2>1, <2>2, <3>1 DEF Rising
    <2>4. CASE Covering(tiers, q) # {}
      <3>1. PICK u \in Covering(tiers, q) : Tier(tiers, above, q) = u.gives
        BY <2>4, TierIsFirst
      <3>2. u \in tiers /\ t.upTo <= u.upTo
        BY <1>1, <2>1, <3>1 DEF Covering
      <3>3. QED
        BY <2>1, <2>2, <3>1, <3>2 DEF Rising
    <2>5. QED
      BY <2>3, <2>4
  <1>4. QED
    BY <1>2, <1>3

-----------------------------------------------------------------------------
\* Rounding.

\* x is off y by so much at most.
Near(x, y, error) == y - error <= x /\ x <= y + error

\* round() is off by half a unit at most, and rises with what it rounds.
LEMMA HalfEvenIsNear ==
  ASSUME NEW n \in Int, NEW d \in Nat \ {0}
  PROVE  /\ RoundHalfEven(n, d) \in Int
         /\ Near(2 * (d * RoundHalfEven(n, d)), 2 * n, d)
  <1> DEFINE q == n \div d
             r == n % d
  <1>1. q \in Int /\ r \in 0 .. (d - 1) /\ n = d * q + r
    OBVIOUS
  <1>2. RoundHalfEven(n, d) = IF 2 * r > d \/ (2 * r = d /\ q % 2 = 1) THEN q + 1 ELSE q
    BY DEF RoundHalfEven
  <1> HIDE DEF q, r
  <1>3. d * (q + 1) = d * q + d /\ d * q \in Int
    BY <1>1
  <1>4. QED
    BY <1>1, <1>2, <1>3 DEF Near

LEMMA HalfEvenRises ==
  ASSUME NEW n \in Int, NEW m \in Int, n <= m
  PROVE  RoundHalfEven(n, 10) <= RoundHalfEven(m, 10)
  BY DEF RoundHalfEven

-----------------------------------------------------------------------------
\* The calculators.

LEMMA UsCostRises ==
  ASSUME NEW p \in Nat, NEW q \in Nat, p <= q, NEW withGp \in BOOLEAN
  PROVE  UsCost(p, withGp) \in Nat /\ UsCost(q, withGp) \in Nat /\ UsCost(p, withGp) <= UsCost(q, withGp)
  <1>1. UsCost(p, withGp) \in Nat /\ UsCost(q, withGp) \in Nat
    BY DEF UsCost, RoundHalfEven
  <1>2. RoundHalfEven(p * 73, 10) <= RoundHalfEven(q * 73, 10)
    BY HalfEvenRises
  <1>3. RoundHalfEven(p * 73, 10) \in Int /\ RoundHalfEven(q * 73, 10) \in Int
    BY HalfEvenIsNear
  <1>4. QED
    BY <1>1, <1>2, <1>3 DEF UsCost

\* The dearer a game is on the American store, the smaller is what the shop adds.
THEOREM UsMarkupFalls ==
  ASSUME NEW p \in Nat, NEW q \in Nat, p <= q, NEW withGp \in BOOLEAN
  PROVE  Tier(UsTiers, 20, UsCost(q, withGp)) <= Tier(UsTiers, 20, UsCost(p, withGp))
  BY UsCostRises, TierFalls, UsTable

\* And on the Turkish one.
THEOREM TrMarkupFalls ==
  ASSUME NEW p \in Nat, NEW q \in Nat, p <= q
  PROVE  Tier(TrTiers, 21, q) <= Tier(TrTiers, 21, p)
  BY TierFalls, TrTable

\* On the Argentinian one, the dearer a game is the dearer it is sold.
THEOREM ArPriceRises ==
  ASSUME NEW p \in Nat, NEW q \in Nat, p <= q
  PROVE  CalcForAr(p)[1] <= CalcForAr(q)[1]
  <1>1. Tier(ArTiers, 1400, p) <= Tier(ArTiers, 1400, q)
    BY TierRises, ArTable
  <1>2. Tier(ArTiers, 1400, p) \in Nat /\ Tier(ArTiers, 1400, q) \in Nat
    BY TierInNat, ArTable
  <1>3. QED
    BY <1>1, <1>2 DEF CalcForAr

\* What the American tiers give.
LEMMA UsPercents ==
  ASSUME NEW n \in Nat
  PROVE  Tier(UsTiers, 20, n) =
           IF n <= 2990 THEN 120 ELSE IF n <= 4990 THEN 70 ELSE IF n <= 8990 THEN 40 ELSE
           IF n <= 12990 THEN 35 ELSE IF n <= 19990 THEN 28 ELSE IF n <= 29990 THEN 25 ELSE
           IF n <= 34990 THEN 23 ELSE IF n <= 39990 THEN 22 ELSE IF n <= 49990 THEN 21 ELSE 20
  <1>1. CASE n > 49990
    <2>1. Covering(UsTiers, n) = {}
      BY <1>1 DEF Covering, UsTiers, UpTo
    <2>2. QED
      BY <1>1, <2>1 DEF Tier
  <1>2. CASE n <= 49990
    <2>1. UpTo(49990, 21) \in Covering(UsTiers, n)
      BY <1>2 DEF Covering, UsTiers, UpTo
    <2>2. PICK t \in Covering(UsTiers, n) :
            /\ Tier(UsTiers, 20, n) = t.gives
            /\ \A u \in Covering(UsTiers, n) : t.upTo <= u.upTo
      BY <2>1, UsTable, TierIsFirst
    <2>3. t \in UsTiers /\ n <= t.upTo /\ \A u \in UsTiers : n <= u.upTo => t.upTo <= u.upTo
      BY <2>2 DEF Covering
    <2>4. <<t.upTo, t.gives>> \in
            {<<2990, 120>>, <<4990, 70>>, <<8990, 40>>, <<12990, 35>>, <<19990, 28>>,
             <<29990, 25>>, <<34990, 23>>, <<39990, 22>>, <<49990, 21>>}
      BY <2>3 DEF UsTiers, UpTo
    <2>5. \A limit \in {2990, 4990, 8990, 12990, 19990, 29990, 34990, 39990} :
             n <= limit => t.upTo <= limit
      BY <2>3 DEF UsTiers, UpTo
    <2>6. QED
      BY <1>2, <2>2, <2>3, <2>4, <2>5
  <1>3. QED
    BY <1>1, <1>2

\* Where a limit is passed a dearer game becomes cheaper than a less dear one was, by 5/22 at
\* most, as at the first limit.
THEOREM UsPriceFallsLittle ==
  ASSUME NEW p \in Nat, NEW q \in Nat, p <= q, NEW withGp \in BOOLEAN
  PROVE  22 * CalcForUs(q, withGp)[1] >= 17 * CalcForUs(p, withGp)[1]
  <1> DEFINE cp == UsCost(p, withGp)
             cq == UsCost(q, withGp)
  <1>1. cp \in Nat /\ cq \in Nat /\ cp <= cq
    BY UsCostRises
  <1>2. /\ CalcForUs(p, withGp)[1] = cp * (100 + Tier(UsTiers, 20, cp))
        /\ CalcForUs(q, withGp)[1] = cq * (100 + Tier(UsTiers, 20, cq))
    BY DEF CalcForUs, WithPercent
  <1> HIDE DEF cp, cq
  <1>3. 22 * (cq * (100 + Tier(UsTiers, 20, cq))) >= 17 * (cp * (100 + Tier(UsTiers, 20, cp)))
    BY <1>1, UsPercents
  <1>4. QED
    BY <1>2, <1>3

-----------------------------------------------------------------------------
\* Prices and totals of orders.

\* The discount on the base price that is stored gives back the price that was computed.
THEOREM DiscountGivesPriceBack ==
  ASSUME NEW num \in Nat, NEW den \in Nat \ {0}, NEW discount \in 0 .. 99
  PROVE  LET base == BasePrice(<<num, den>>, discount)
         IN DiscountedPrice(base[1], discount) * den = num * (100 * base[2])
  <1>1. (num * 100 * (100 - discount)) * den = num * (100 * (den * (100 - discount)))
    OBVIOUS
  <1>2. QED
    BY <1>1 DEF BasePrice, DiscountedPrice

\* A gift is charged what a client is shown, to half a kopeck, as long as the deal lasts; and
\* the base price after it, when the client is still shown the discounted one.
THEOREM GiftIsChargedAsShown ==
  ASSUME NEW base \in Nat, NEW discount \in 0 .. 100, NEW dealOver \in BOOLEAN,
         NEW charged \in TotalPrice(base, discount, dealOver)
  PROVE  /\ ~dealOver => Near(2 * (100 * charged), 2 * DiscountedPrice(base, discount), 100)
         /\ dealOver   => charged = base
  <1>1. CASE dealOver
    BY <1>1 DEF TotalPrice, RoundHalfUp
  <1>2. CASE ~dealOver
    <2> DEFINE left == base * (100 - discount)
    <2>1. left \in Nat
      OBVIOUS
    <2>2. charged = RoundHalfUp(left, 100) \/ (left % 100 = 50 /\ charged = left \div 100)
      BY <1>2 DEF TotalPrice
    <2>3. DiscountedPrice(base, discount) = left
      BY DEF DiscountedPrice
    <2> HIDE DEF left
    <2>4. QED
      BY <1>2, <2>1, <2>2, <2>3 DEF RoundHalfUp, Near
  <1>3. QED
    BY <1>1, <1>2

LEMMA ProductIsInt ==
  ASSUME NEW m \in Int, NEW n \in Int
  PROVE  m * n \in Int
  OBVIOUS

LEMMA ErrorScales ==
  ASSUME NEW x \in Int, NEW y \in Int, NEW error \in Nat, NEW quantity \in Nat, Near(x, y, error)
  PROVE  Near(x * quantity, y * quantity, error * quantity)
  <1>1. (y + error - x) * quantity \in Nat /\ (x - y + error) * quantity \in Nat
    BY DEF Near
  <1>2. /\ (y + error - x) * quantity = y * quantity + error * quantity - x * quantity
        /\ (x - y + error) * quantity = x * quantity - y * quantity + error * quantity
    OBVIOUS
  <1>3. x * quantity \in Int /\ y * quantity \in Int /\ error * quantity \in Int
    BY ProductIsInt
  <1> DEFINE a == x * quantity
             b == y * quantity
             c == error * quantity
  <1>4. b + c - a \in Nat /\ a - b + c \in Nat /\ a \in Int /\ b \in Int /\ c \in Int
    BY <1>1, <1>2, <1>3
  <1> HIDE DEF a, b, c
  <1>5. Near(a, b, c)
    BY <1>4 DEF Near
  <1>6. QED
    BY <1>5 DEF a, b, c

\* total stands for the price of all copies, copies for what is shown of them.
LEMMA ErrorsAddUp ==
  ASSUME NEW total \in Int, NEW copies \in Int, NEW bill \in Int, NEW quantity \in Nat,
         Near(2 * (10000 * bill), 2 * total, 10000),
         Near(20000 * copies, 2 * total, 10000 * quantity)
  PROVE  Near(2 * bill, 2 * copies, quantity + 1)
  BY DEF Near

\* The bill for some copies of a product is what the client counts up from the price shown,
\* to half a rouble for each copy and one more half.
THEOREM BillIsNearShown ==
  ASSUME NEW base \in Nat, NEW discount \in 0 .. 100, NEW quantity \in Nat
  PROVE  Near(2 * Bill(DiscountedPrice(base, discount) * quantity), 2 * (quantity * Shown(base, discount)),
              quantity + 1)
  <1>1. DiscountedPrice(base, discount) \in Nat
    BY DEF DiscountedPrice
  <1>2. SUFFICES ASSUME NEW price \in Nat
                 PROVE  Near(2 * RoundHalfEven(price * quantity, 10000),
                             2 * (quantity * RoundHalfEven(price, 10000)), quantity + 1)
    BY <1>1 DEF Bill, Shown, Rouble
  <1> DEFINE shown == RoundHalfEven(price, 10000)
             bill  == RoundHalfEven(price * quantity, 10000)
  <1>3. price * quantity \in Int
    BY ProductIsInt
  <1>4. shown \in Int /\ Near(2 * (10000 * shown), 2 * price, 10000)
    BY HalfEvenIsNear
  <1>5. bill \in Int /\ Near(2 * (10000 * bill), 2 * (price * quantity), 10000)
    BY <1>3, HalfEvenIsNear
  <1> HIDE DEF shown, bill
  <1>6. quantity * shown \in Int
    BY <1>4, ProductIsInt
  <1>7. Near((2 * (10000 * shown)) * quantity, (2 * price) * quantity, 10000 * quantity)
    BY <1>4, ErrorScales
  <1>8. (2 * (10000 * shown)) * quantity = 20000 * (quantity * shown) /\ (2 * price) * quantity = 2 * (price * quantity)
    BY <1>4
  <1>9. Near(2 * bill, 2 * (quantity * shown), quantity + 1)
    BY <1>3, <1>5, <1>6, <1>7, <1>8, ErrorsAddUp
  <1>10. QED
    BY <1>9 DEF shown, bill

-----------------------------------------------------------------------------
\* Pages.

\* Every record is on exactly one page, and that is one of those announced: the first page
\* is 1 and the last one last_page.
THEOREM PagesPartition ==
  ASSUME NEW total \in Nat, NEW size \in Nat \ {0}, NEW i \in 1 .. total
  PROVE  \E num \in 1 .. LastPage(total, size) :
           /\ OnPage(i, size, num)
           /\ \A other \in Nat \ {0} : OnPage(i, size, other) => other = num
  <1> DEFINE num == ((i - 1) \div size) + 1
             rest == (i - 1) % size
  <1>1. num \in Nat \ {0} /\ rest \in 0 .. (size - 1) /\ i - 1 = size * (num - 1) + rest
    OBVIOUS
  <1>2. LastPage(total, size) \in Nat /\ total <= size * LastPage(total, size)
    <2> DEFINE last == (total + size - 1) \div size
               over == (total + size - 1) % size
    <2>1. last \in Nat /\ over \in 0 .. (size - 1) /\ total + size - 1 = size * last + over
      OBVIOUS
    <2> HIDE DEF last, over
    <2>2. last \in Nat /\ total <= size * last
      BY <2>1
    <2>3. QED
      BY <2>2 DEF LastPage, last
  <1> HIDE DEF num, rest
  <1>3. num <= LastPage(total, size)
    BY <1>1, <1>2
  <1>4. OnPage(i, size, num)
    BY <1>1 DEF OnPage, Offset
  <1>5. ASSUME NEW other \in Nat \ {0}, OnPage(i, size, other)
        PROVE  other = num
    BY <1>1, <1>5 DEF OnPage, Offset
  <1>6. QED
    BY <1>1, <1>2, <1>3, <1>4, <1>5

\* A page holds the records that are on it, in their order, and no more than page_size: the
\* check of PaginatedResponse never fails.
THEOREM PageHoldsItsRecords ==
  ASSUME NEW S, NEW list \in Seq(S), NEW size \in Nat \ {0}, NEW num \in Nat \ {0}
  PROVE  /\ Len(Slice(list, size, num)) <= size
         /\ \A i \in 1 .. Len(list) : OnPage(i, size, num) =>
              /\ i - Offset(size, num) \in 1 .. Len(Slice(list, size, num))
              /\ Slice(list, size, num)[i - Offset(size, num)] = list[i]
  <1> DEFINE off == Offset(size, num)
             end == IF off + size < Len(list) THEN off + size ELSE Len(list)
  <1>1. off \in Nat /\ Len(list) \in Nat
    BY DEF Offset
  <1>2. Slice(list, size, num) = SubSeq(list, off + 1, end)
    BY DEF Slice
  <1>3. \A i : OnPage(i, size, num) <=> off < i /\ i <= off + size
    BY DEF OnPage
  <1> HIDE DEF off
  <1>4. Len(SubSeq(list, off + 1, end)) = IF off + 1 <= end THEN end - off ELSE 0
    BY <1>1
  <1>5. \A k \in 1 .. (end - off) : SubSeq(list, off + 1, end)[k] = list[off + k]
    BY <1>1
  <1>6. Len(SubSeq(list, off + 1, end)) <= size
    BY <1>1, <1>4
  <1>7. ASSUME NEW i \in 1 .. Len(list), OnPage(i, size, num)
        PROVE  /\ i - off \in 1 .. Len(SubSeq(list, off + 1, end))
               /\ SubSeq(list, off + 1, end)[i - off] = list[i]
    <2>1. i - off \in 1 .. (end - off) /\ off + 1 <= end
      BY <1>1, <1>3, <1>7
    <2>2. off + (i - off) = i
      BY <1>1
    <2>3. QED
      BY <1>4, <1>5, <2>1, <2>2
  <1>8. QED
    BY <1>2, <1>6, <1>7 DEF off
=============================================================================
