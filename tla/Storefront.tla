----------------------------- MODULE Storefront -----------------------------
(***************************************************************************)
(* The catalogue with its prices and the cache in front of it: scripts     *)
(* convert what they save, prices come and go with products, a cached      *)
(* response says which products there are.                                 *)
(*                                                                         *)
(* Who acts in a behaviour, and on which products, is chosen from Casts,   *)
(* which bounds what TLC explores: each loop goes on for ever, any other   *)
(* actor acts once.  The clock, the end of deals and the orders are there  *)
(* for those they matter to.                                               *)
(***************************************************************************)
EXTENDS Rates, ResponseCache

CONSTANTS
  Casts,      \* sets of products, loops, scripts, edits, setters and readers
  Values      \* prices that administrators set, and changes of all prices

\* What a response can say: which products there are.
ASSUME StorefrontAssumption == SUBSET Products \subseteq Contents /\ Values \subseteq Int

VARIABLES
  cast,
  lastSeen    \* history: when each product was in the catalogue for the last time

storefrontVars == <<catalogueVars, ratesVars, cacheVars, cast, lastSeen>>

TypeOK ==
  /\ CatalogueTypeOK /\ RatesTypeOK /\ CacheTypeOK
  /\ cast \in Casts
  /\ lastSeen \in [Products -> Int]

Init ==
  /\ CatalogueInit /\ RatesInit /\ CacheInit(Created)
  /\ cast \in Casts /\ (cast \cap Readers = {} => entry = NoEntry)
  /\ lastSeen = [p \in Products |-> 0]

\* What every step that changes the catalogue leaves behind.
Watch == lastSeen' = [p \in Products |-> IF Present(p) THEN now ELSE lastSeen[p]]

CatalogueStep == Watch /\ UNCHANGED <<cacheVars, cast>>
RatesStep     == UNCHANGED <<catalogueVars, cacheVars, cast, lastSeen>>
CacheStep     == UNCHANGED <<catalogueVars, ratesVars, cast, lastSeen>>

-----------------------------------------------------------------------------
\* Scripts.

Start(s) ==
  /\ s \in cast
  /\ (BeginScript(s) /\ Range(todo'[s]) \subseteq cast) \/ BeginSweep(s)
  /\ UNCHANGED ratesVars /\ CatalogueStep

\* Each item is converted, then saved.
ConvertItem(s, p) ==
  /\ state[s] = "save" /\ todo[s] # <<>> /\ p = Head(todo[s])
  /\ quote[s][p] = NoRate
  /\ Convert(s, p)
  /\ RatesStep

Save(s, p) ==
  /\ quote[s][p] # NoRate
  /\ SaveItem(s, p)
  /\ UNCHANGED ratesVars /\ CatalogueStep

Detail(s, p) == (SaveDetails(s, p) \/ SweepRow(s, p)) /\ UNCHANGED ratesVars /\ CatalogueStep

SaveSome(s) == \E p \in Products : ConvertItem(s, p) \/ Save(s, p) \/ Detail(s, p)

CommitScript(s) ==
  /\ Commit(s)
  /\ InsertPrices(s, {p \in Written(s) : ~Present(p)})
  /\ CatalogueStep

GiveUp(s) ==
  /\ ScriptFails(s) \/ Abort(s)
  /\ ForgetQuotes(s)
  /\ CatalogueStep

-----------------------------------------------------------------------------
\* Loops.

Sweep(j) == j \in cast /\ JobStep(j) /\ UNCHANGED ratesVars /\ CatalogueStep

\* Prices are deleted with their products, ON DELETE CASCADE.
CommitSweep(j) ==
  /\ Commit(j)
  /\ DropPrices({p \in Written(j) : image[j][p] = NoRow})
  /\ CatalogueStep

LoopDies(j) == Abort(j) /\ UNCHANGED ratesVars /\ CatalogueStep

-----------------------------------------------------------------------------
\* Administrators.

Create(e, p) ==
  /\ {e, p} \subseteq cast /\ CreateProduct(e, p)
  /\ \E value \in Values : SetPrice(p, value)
  /\ CatalogueStep

Update(e, p) ==
  /\ {e, p} \subseteq cast /\ UpdateProduct(e, p)
  /\ UNCHANGED ratesVars \/ \E value \in Values : SetPrice(p, value)
  /\ CatalogueStep

Delete(e, p) ==
  /\ {e, p} \subseteq cast /\ DeleteProduct(e, p)
  /\ DropPrices({p})
  /\ CatalogueStep

\* update_prices, for some platforms.
UpdatePrices(e) ==
  /\ e \in cast /\ EditPrices(e)
  /\ \E chosen \in {Xbox, Products \ Xbox, Products}, change \in Values : AddPercent(chosen, change)
  /\ CatalogueStep

SetExchangeRate(q) == q \in cast /\ SetterStep(q) /\ RatesStep

-----------------------------------------------------------------------------
\* Clients and the rest of the world.

Read(r) == r \in cast /\ ReaderStep(r) /\ CacheStep

\* list_products.
List(r) ==
  /\ Compute(r, {p \in Products : Present(p)})
  /\ CacheStep

PassTime ==
  /\ cast \cap Readers # {}
  /\ Tick
  /\ Watch
  /\ UNCHANGED <<catalogueVars, ratesVars, cast>>

OrderOrEnd(p) ==
  /\ p \in cast
  /\ \/ Clean \in cast /\ (OrderRefers(p) \/ OrderGoes(p))
     \/ Reset \in cast /\ DealEnds(p)
  /\ UNCHANGED ratesVars
  /\ CatalogueStep

ServerRestarts == Restart /\ RatesCrash /\ CacheCrash /\ Watch /\ UNCHANGED cast

Next ==
  \/ \E s \in Scripts :
       Start(s) \/ SaveSome(s) \/ CommitScript(s) \/ GiveUp(s)
  \/ \E j \in Jobs : Sweep(j) \/ CommitSweep(j) \/ LoopDies(j)
  \/ \E e \in Edits : UpdatePrices(e) \/ \E p \in Products : Create(e, p) \/ Update(e, p) \/ Delete(e, p)
  \/ \E q \in Setters : SetExchangeRate(q)
  \/ \E r \in Readers : Read(r) \/ List(r)
  \/ \E p \in Products : OrderOrEnd(p)
  \/ PassTime \/ ServerRestarts

\* The event loop runs the loops; a script gets its answers from Redis and PostgreSQL, which
\* breaks deadlocks.
Fairness ==
  /\ \A j \in Jobs : WF_storefrontVars(Sweep(j) \/ CommitSweep(j) \/ LoopDies(j))
  /\ \A s \in Scripts : WF_storefrontVars(CommitScript(s) \/ GiveUp(s) \/ SaveSome(s))

Spec == Init /\ [][Next]_storefrontVars /\ Fairness

-----------------------------------------------------------------------------
\* Once it has expired, a parsed product goes or is on sale again, as long as both loops live.
ExpiredGoesHere == \A p \in Products :
  Jobs \subseteq cast /\ Expired(p) ~> ~Expired(p) \/ \E j \in Jobs : state[j] = "dead"

\* What a client shows, while it may, is in the catalogue, or was there not long ago: a
\* product that is deleted, by whomever, disappears from what clients show.
ShownIsRecent ==
  \A r \in Readers : shown[r] # NoEntry /\ now < shown[r].until =>
    \A p \in shown[r].content : Present(p) \/ now < lastSeen[p] + MaxAge(shown[r])
=============================================================================
