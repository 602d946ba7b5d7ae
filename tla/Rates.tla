------------------------------- MODULE Rates -------------------------------
(***************************************************************************)
(* CurrencyConverter, with its rates in Redis, and the prices in roubles   *)
(* of the products of Catalogue, in PostgreSQL, that are computed from     *)
(* them.                                                                   *)
(*                                                                         *)
(* Only proportions matter, so all amounts are logarithms: to multiply     *)
(* with a rate is to add it.  A currency that prices are converted from    *)
(* stands for all; a rate of it to roubles and one to another currency for *)
(* all rates.                                                              *)
(***************************************************************************)
EXTENDS Catalogue

CONSTANTS
  Setters,    \* requests of administrators to set_exchange_rate
  NewRates,   \* the rates they set
  NoRate, NoPrice

ASSUME RatesAssumption ==
  /\ NewRates \subseteq Int
  /\ NoRate \notin Int /\ NoPrice \notin Int

Targets == {"rub", "other"}

VARIABLES
  rate,     \* hash exchange_rates
  price,    \* base_price of the product's price, or NoPrice
  quote,    \* what a script has converted and not yet committed
  setting,  \* progress of a request: "idle", "write", "scale", "done"
  asks,     \* what it sets
  old,      \* the rate it has read
  worth,    \* history: what the price was worth in its currency when it was last set
  skewed    \* history: products whose price need not follow the rate

rateRequests == <<setting, asks, old>>
ratesVars    == <<rate, price, quote, rateRequests, worth, skewed>>

RatesTypeOK ==
  /\ rate \in [Targets -> Int \cup {NoRate}]
  /\ price \in [Products -> Int \cup {NoPrice}]
  /\ quote \in [Scripts -> [Products -> Int \cup {NoRate}]]
  /\ setting \in [Setters -> {"idle", "write", "scale", "done"}]
  /\ asks \in [Setters -> [to : Targets, new : Int] \cup {NoRate}]
  /\ old \in [Setters -> Int \cup {NoRate}]
  /\ worth \in [Products -> Int]
  /\ skewed \subseteq Products

NoQuotes == [p \in Products |-> NoRate]

\* Prices have been computed: the rate to roubles is set, another one need not be.
RatesInit ==
  /\ rate    = [to \in Targets |-> IF to = "rub" THEN 0 ELSE NoRate]
  /\ price   = [p \in Products |-> IF p \in Created THEN 0 ELSE NoPrice]
  /\ quote   = [s \in Scripts |-> NoQuotes]
  /\ setting = [q \in Setters |-> "idle"]
  /\ asks    = [q \in Setters |-> NoRate]
  /\ old     = [q \in Setters |-> NoRate]
  /\ worth   = [p \in Products |-> 0]
  /\ skewed  = {}

Priced    == {p \in Products : price[p] # NoPrice}
Quoted(s) == {p \in Products : quote[s][p] # NoRate}

\* Requests that have written the rate to Redis and not yet the prices to PostgreSQL.
Unsettled == {q \in Setters : setting[q] = "scale"}

-----------------------------------------------------------------------------
\* convert_price, of a parsed price; without a rate the script fails.
Convert(s, p) ==
  /\ rate["rub"] # NoRate
  /\ quote' = [quote EXCEPT ![s][p] = rate["rub"]]
  /\ skewed' = IF Unsettled # {} THEN skewed \cup {p} ELSE skewed
  /\ UNCHANGED <<rate, price, rateRequests, worth>>

\* The rows of new products' prices, when the script commits; the sale is worth 0 in its currency.
InsertPrices(s, new) ==
  /\ price' = [p \in Products |-> IF p \in new THEN quote[s][p] ELSE price[p]]
  /\ worth' = [p \in Products |-> IF p \in new THEN 0 ELSE worth[p]]
  /\ quote' = [quote EXCEPT ![s] = NoQuotes]
  /\ UNCHANGED <<rate, rateRequests, skewed>>

ForgetQuotes(s) ==
  /\ quote' = [quote EXCEPT ![s] = NoQuotes]
  /\ UNCHANGED <<rate, price, rateRequests, worth, skewed>>

\* Prices go with their products.
DropPrices(gone) ==
  /\ price' = [p \in Products |-> IF p \in gone THEN NoPrice ELSE price[p]]
  /\ UNCHANGED <<rate, quote, rateRequests, worth, skewed>>

\* An administrator's price is in roubles, and from now on worth what that is today.
SetPrice(p, value) ==
  /\ price' = [price EXCEPT ![p] = value]
  /\ worth' = [worth EXCEPT ![p] = IF rate["rub"] = NoRate THEN value ELSE value - rate["rub"]]
  /\ skewed' = IF Unsettled # {} \/ rate["rub"] = NoRate THEN skewed \cup {p}
               ELSE IF \E s \in Scripts : p \in Quoted(s) THEN skewed ELSE skewed \ {p}
  /\ UNCHANGED <<rate, quote, rateRequests>>

\* update_prices: add_percent_for_products.
AddPercent(chosen, change) ==
  /\ LET scaled == Priced \cap chosen
     IN /\ price' = [p \in Products |-> IF p \in scaled THEN price[p] + change ELSE price[p]]
        /\ worth' = [p \in Products |-> IF p \in scaled THEN worth[p] + change ELSE worth[p]]
  /\ UNCHANGED <<rate, quote, rateRequests, skewed>>

-----------------------------------------------------------------------------
\* set_exchange_rate.

Advance(q, from, to) == setting[q] = from /\ setting' = [setting EXCEPT ![q] = to]

ReadOldRate(q) ==
  /\ Advance(q, "idle", "write")
  /\ \E to \in Targets, new \in NewRates :
       /\ asks' = [asks EXCEPT ![q] = [to |-> to, new |-> new]]
       /\ old' = [old EXCEPT ![q] = rate[to]]
  /\ UNCHANGED <<rate, price, quote, worth, skewed>>

\* What is being converted or set at the same time need not agree with the new rate.
WriteRate(q) ==
  /\ Advance(q, "write", IF old[q] = NoRate THEN "done" ELSE "scale")
  /\ rate' = [rate EXCEPT ![asks[q].to] = asks[q].new]
  /\ skewed' = IF old[q] = rate[asks[q].to] /\ Unsettled = {}
               THEN skewed \cup UNION {Quoted(s) : s \in Scripts}
               ELSE Products
  /\ UNCHANGED <<price, quote, asks, old, worth>>

\* Mutant: new_rate and old_rate are swapped.
Descale(value, q) == value - asks[q].new + old[q]

Rescale(value, q) == value + asks[q].new - old[q]

\* update_all_with_rate, which does not ask what the rate is to.
ScalePrices(q) ==
  /\ Advance(q, "scale", "done")
  /\ price' = [p \in Products |-> IF p \in Priced THEN Rescale(price[p], q) ELSE NoPrice]
  /\ skewed' = IF asks[q].to = "rub" THEN skewed ELSE Products
  /\ UNCHANGED <<rate, quote, asks, old, worth>>

\* The request fails at any of its commands.
SettingFails(q) ==
  /\ setting[q] \in {"write", "scale"}
  /\ setting' = [setting EXCEPT ![q] = "done"]
  /\ skewed' = IF setting[q] = "scale" THEN Products ELSE skewed
  /\ UNCHANGED <<rate, price, quote, asks, old, worth>>

\* The server dies with all such requests.
RatesCrash ==
  /\ setting' = [q \in Setters |-> IF setting[q] \in {"write", "scale"} THEN "done" ELSE setting[q]]
  /\ skewed' = IF Unsettled # {} THEN Products ELSE skewed
  /\ UNCHANGED <<rate, price, quote, asks, old, worth>>

SetterStep(q) == ReadOldRate(q) \/ WriteRate(q) \/ ScalePrices(q) \/ SettingFails(q)

-----------------------------------------------------------------------------
\* A price that comes from another currency follows its rate: unless a change of the rate
\* met a conversion or another change half way, failed half way, or was to another currency,
\* the price is what it was worth, at the current rate.
PricesFollowRate ==
  Unsettled = {} =>
    \A p \in Priced \ skewed : rate["rub"] # NoRate /\ price[p] = worth[p] + rate["rub"]
=============================================================================
