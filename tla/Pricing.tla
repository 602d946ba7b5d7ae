------------------------------- MODULE Pricing -------------------------------
(***************************************************************************)
(* What a product costs: XboxPriceCalculator, the base price that is       *)
(* stored, the discount, what a client is shown and what an order is       *)
(* charged.                                                                *)
(*                                                                         *)
(* Decimals are integers here, of a unit that each definition names, or    *)
(* fractions <<numerator, denominator>>.                                   *)
(***************************************************************************)
EXTENDS Integers, Sequences, SequencesExt

\* round and quantize; ties go to the even neighbour, or up.
RoundHalfEven(n, d) ==
  LET q == n \div d
      r == n % d
  IN IF 2 * r > d \/ (2 * r = d /\ q % 2 = 1) THEN q + 1 ELSE q

RoundHalfUp(n, d) == (2 * n + d) \div (2 * d)

-----------------------------------------------------------------------------
\* Tiers: a price takes the first row whose limit it does not exceed.

Covering(tiers, n) == {t \in tiers : n <= t.upTo}

Tier(tiers, above, n) ==
  IF Covering(tiers, n) = {} THEN above
  ELSE (CHOOSE t \in Covering(tiers, n) : \A u \in Covering(tiers, n) : t.upTo <= u.upTo).gives

UpTo(limit, value) == [upTo |-> limit, gives |-> value]

\* _calc_for_us: limits in mills of what the account costs, percents.
UsTiers ==
  {UpTo(2990, 120), UpTo(4990, 70),  UpTo(8990, 40),  UpTo(12990, 35), UpTo(19990, 28),
   UpTo(29990, 25), UpTo(34990, 23), UpTo(39990, 22), UpTo(49990, 21)}

\* _calc_for_tr: limits in cents of the price, percents.
TrTiers ==
  {UpTo(99, 200),  UpTo(199, 150),  UpTo(299, 80),   UpTo(499, 65),   UpTo(799, 55),  UpTo(999, 40),
   UpTo(1299, 35), UpTo(1599, 32), UpTo(1999, 28), UpTo(2499, 25), UpTo(2999, 24)}

\* _calc_for_ar: limits in cents of the price, and cents to add.
ArTiers == {UpTo(20, 340), UpTo(200, 500), UpTo(500, 700), UpTo(1500, 1000), UpTo(2500, 1200)}

\* _add_percent; the result is in hundredths of the unit of n.
WithPercent(n, percent) == n * (100 + percent)

-----------------------------------------------------------------------------
\* XboxPriceCalculator, of a price in cents; the result is a fraction of a cent.

UsCost(price, withGp) == RoundHalfEven(price * 73, 10) + (IF withGp THEN 1000 ELSE 0)

CalcForUs(price, withGp) ==
  LET cost == UsCost(price, withGp) IN <<WithPercent(cost, Tier(UsTiers, 20, cost)), 1000>>

CalcForTr(price) == <<WithPercent(price, Tier(TrTiers, 21, price)), 100>>

CalcForAr(price) ==
  <<(IF price > 20 THEN price * 17 ELSE 0) + 11 * Tier(ArTiers, 1400, price), 11>>

\* Only the calculation for the United States knows of game pass; the others are told of it
\* as well, by save_parsed_products, and raise TypeError.
CalcForRegion(region, price, withGp) ==
  CASE region = "us" -> CalcForUs(price, withGp)
    [] region = "tr" -> CalcForTr(price)
    [] region = "ar" -> CalcForAr(price)

\* save_parsed_products, create_product: a price that a discount is part of.  There is none
\* for a discount of 100, which is a division by zero.
BasePrice(price, discount) == <<price[1] * 100, price[2] * (100 - discount)>>

-----------------------------------------------------------------------------
\* Prices and totals of orders.  A base price is taken to be whole kopecks (the column has no
\* scale); a discounted one, and all totals, are in hundredths of a kopeck.

Rouble == 10000

\* calc_discounted_price, whatever has become of the deal.
DiscountedPrice(base, discount) == base * (100 - discount)

\* What the client reads: RoundedDecimal.
Shown(base, discount) == RoundHalfEven(DiscountedPrice(base, discount), Rouble)

\* total_price, of a gift, in kopecks, looks at the deal.  The discount is divided as a
\* float, which is exact for quarters only: else a half may be taken for less.
TotalPrice(base, discount, dealOver) ==
  LET left == base * (100 - (IF dealOver THEN 0 ELSE discount))
  IN {RoundHalfUp(left, 100)}
       \cup IF ~dealOver /\ discount % 25 # 0 /\ left % 100 = 50 THEN {left \div 100} ELSE {}

\* InAppOrder.total, of items with a price and a quantity.
InAppTotal(items) == FoldLeft(LAMBDA sum, item : sum + item.price * item.quantity, 0, items)

\* SteamTopUpOrder.total.
TopUpTotal(amount, fee) == WithPercent(amount, fee)

\* The fee is the one that administrators have set, or the default.
TopUpFee(current, default) == IF current = {} THEN default ELSE CHOOSE fee \in current : TRUE

\* create_bill is told of whole roubles.
Bill(total) == RoundHalfEven(total, Rouble)
=============================================================================
