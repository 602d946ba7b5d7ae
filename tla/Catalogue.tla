----------------------------- MODULE Catalogue -----------------------------
(***************************************************************************)
(* The table product: ProductsService and ProductsRepository on one side,  *)
(* the two loops of BackgroundJobs on the other.                           *)
(*                                                                         *)
(* Whatever writes several rows in one transaction takes the rows one by   *)
(* one and keeps them until it ends: save_parsed_products does it with one *)
(* statement for each game, the loops and update_from_rows within a single *)
(* statement that looks at a row again once it has it.  A cycle of waiting *)
(* transactions ends when PostgreSQL fails one of them.                    *)
(*                                                                         *)
(* A product stands for its unique fields; of its row only what decides    *)
(* its fate is kept.                                                       *)
(***************************************************************************)
EXTENDS Integers, Sequences, FiniteSets, SequencesExt

CONSTANTS
  Products,
  Xbox,       \* those the Xbox parser finds; the others are for the PSN parser
  Created,    \* those that administrators have created before
  Scripts,    \* runs of save_parsed_products, of update_from_rows or of one reset
  Edits,      \* requests of administrators
  Reset, Clean,   \* the loops reset_expired_discount and delete_expired_sales
  MaxRestarts,    \* bound on restarts of the server
  NoRow

Jobs         == {Reset, Clean}
Transactions == Scripts \cup Jobs

\* orig_url is set for what was parsed; deal_until is a time that comes or has come.
Row == [parsed : BOOLEAN, discount : {0, 1}, deal : {"none", "running", "over"}]

\* The rows that a transaction has taken.
Images == UNION {[rows -> Row \cup {NoRow}] : rows \in SUBSET Products}

ASSUME CatalogueAssumption ==
  /\ IsFiniteSet(Products)
  /\ Xbox \subseteq Products /\ Created \subseteq Products
  /\ Reset # Clean /\ Jobs \cap Scripts = {}
  /\ NoRow \notin Row
  /\ MaxRestarts \in Nat

VARIABLES
  product,     \* the committed rows
  referenced,  \* products that some order refers to
  state,       \* "idle", "save" or "details" or "sweep" while open, then "done", or "dead" for a loop
  todo,        \* rows a transaction has still to take, in its order
  image,       \* rows it has taken, as it will leave them
  edited,      \* requests of administrators that are over
  restarts,
  manual       \* history: products an administrator has created and none has deleted

transaction   == <<state, todo, image>>
catalogueVars == <<product, referenced, transaction, edited, restarts, manual>>

Written(t)  == DOMAIN image[t]
Open        == {"save", "details", "sweep"}
Present(p)  == product[p] # NoRow
Unlocked(p) == \A t \in Transactions : p \notin Written(t)

CatalogueTypeOK ==
  /\ product \in [Products -> Row \cup {NoRow}]
  /\ referenced \subseteq Products
  /\ state \in [Transactions -> Open \cup {"idle", "done", "dead"}]
  /\ todo \in [Transactions -> Seq(Products)]
  /\ image \in [Transactions -> Images]
  /\ edited \subseteq Edits
  /\ restarts \in 0 .. MaxRestarts
  /\ manual \subseteq Products

Nothing == [p \in {} |-> NoRow]

CatalogueInit ==
  /\ product    = [p \in Products |->
       IF p \in Created THEN [parsed |-> FALSE, discount |-> 0, deal |-> "none"] ELSE NoRow]
  /\ referenced = {}
  /\ state      = [t \in Transactions |-> "idle"]
  /\ todo       = [t \in Transactions |-> <<>>]
  /\ image      = [t \in Transactions |-> Nothing]
  /\ edited     = {}
  /\ restarts   = 0
  /\ manual     = Created

-----------------------------------------------------------------------------
\* Transactions.

Begin(t, kind, rows) ==
  /\ state[t] = "idle"
  /\ state' = [state EXCEPT ![t] = kind]
  /\ todo' = [todo EXCEPT ![t] = rows]
  /\ UNCHANGED <<product, referenced, image, edited, restarts, manual>>

\* End of a transaction, with or without its writes.
Leave(t, to) ==
  /\ state' = [state EXCEPT ![t] = to]
  /\ todo'  = [todo EXCEPT ![t] = <<>>]
  /\ image' = [image EXCEPT ![t] = Nothing]
  /\ UNCHANGED <<referenced, edited, restarts, manual>>

Holder(t, u) == state[t] \in Open /\ todo[t] # <<>> /\ u # t /\ Head(todo[t]) \in Written(u)
Waiting(t)   == \E u \in Transactions : Holder(t, u)

\* A cycle of transactions each of which waits for a row that the next one has.
Deadlocked(t) ==
  /\ Waiting(t)
  /\ \E ring \in SUBSET Transactions :
       /\ t \in ring
       /\ \A x \in ring : \E u \in ring : Holder(x, u)

\* The next row is taken and, unless new is Skip, left as new when the transaction commits.
Take(t, kind, p) ==
  /\ state[t] = kind /\ todo[t] # <<>> /\ p = Head(todo[t])
  /\ ~Waiting(t)
  /\ todo' = [todo EXCEPT ![t] = Tail(@)]
  /\ UNCHANGED <<product, referenced, state, edited, restarts, manual>>

WriteRow(t, p, row) ==
  image' = [image EXCEPT ![t] = [x \in Written(t) \cup {p} |-> IF x = p THEN row ELSE @[x]]]

-----------------------------------------------------------------------------
\* The scripts: save_parsed_products and update_from_rows.

BeginScript(s) ==
  \E kind \in {"save", "details"}, rows \in SUBSET Products \ {{}} :
    /\ kind = "details" => rows \cap Xbox = {}
    /\ \E order \in SetToSeqs(rows) : Begin(s, kind, order)

\* A sale as it is parsed; the page of a PSN sale tells its end only later.
Parsed(p) ==
  [parsed : {TRUE}, discount : {1}, deal : IF p \in Xbox THEN {"none", "running"} ELSE {"none"}]

InsertRow(s, p) ==
  /\ ~Present(p)
  /\ \E row \in Parsed(p) : WriteRow(s, p, row)

\* Mutant: discounts add up.
AddDiscounts(old, new) == [old EXCEPT !.discount = @ + new.discount, !.deal = new.deal]

\* Mutant: all columns are updated.
OverwriteRow(old, new) == new

\* save_on_conflict_update_discount sets the discount and its end, nothing else.
UpsertRow(old, new) == [old EXCEPT !.discount = new.discount, !.deal = new.deal]

UpdateDiscount(s, p) ==
  /\ Present(p) /\ p \in Xbox
  /\ \E row \in Parsed(p) : WriteRow(s, p, UpsertRow(product[p], row))

\* save_ignore_conflict leaves the row, and does not take it.
IgnoreConflict(s, p) ==
  /\ Present(p) /\ p \notin Xbox
  /\ UNCHANGED image

SaveItem(s, p) ==
  /\ Take(s, "save", p)
  /\ InsertRow(s, p) \/ UpdateDiscount(s, p) \/ IgnoreConflict(s, p)

\* update_from_rows; a page without a date makes the deal end yesterday.
SaveDetails(s, p) ==
  /\ Take(s, "details", p)
  /\ IF Present(p) /\ product[p].parsed
     THEN \E deal \in {"running", "over"} : WriteRow(s, p, [product[p] EXCEPT !.deal = deal])
     ELSE UNCHANGED image

\* The process is killed, or one of its statements fails.
ScriptFails(s) ==
  /\ state[s] \in Open
  /\ Leave(s, "done")
  /\ UNCHANGED product

-----------------------------------------------------------------------------
\* The loops.  One iteration is one statement in a transaction of its own; the script that
\* fetches details ends with a reset as well, which ends after one.

\* Mutant: the clean-up wants an end of the deal, which the reset has just removed.
MatchesEnd(j, row) ==
  /\ row # NoRow
  /\ IF j = Clean THEN row.parsed /\ row.discount = 0 /\ row.deal # "none" ELSE row.deal = "over"

Matches(j, row) ==
  /\ row # NoRow
  /\ IF j = Clean THEN row.parsed /\ row.discount = 0 ELSE row.deal = "over"

BeginSweep(j) ==
  \E order \in SetToSeqs({p \in Products : Matches(j, product[p])}) : Begin(j, "sweep", order)

\* Mutant: rows are written by the ids selected before.
MatchedBefore(j, row) == row # NoRow

StillMatches(j, row) == Matches(j, row)

Swept(j, row) == IF j = Clean THEN NoRow ELSE [row EXCEPT !.discount = 0, !.deal = "none"]

SweepRow(j, p) ==
  /\ Take(j, "sweep", p)
  /\ IF StillMatches(j, product[p]) THEN WriteRow(j, p, Swept(j, product[p])) ELSE UNCHANGED image

\* Rows that may not be deleted: the whole statement fails, and with it the loop.
Restricted(t) == {p \in Written(t) : image[t][p] = NoRow} \cap referenced

SweepFails(j) ==
  /\ state[j] = "sweep" /\ todo[j] = <<>>
  /\ Restricted(j) # {}
  /\ Leave(j, "dead")
  /\ UNCHANGED product

-----------------------------------------------------------------------------
\* The end of a transaction of either kind.

Commit(t) ==
  /\ state[t] \in Open /\ todo[t] = <<>>
  /\ Restricted(t) = {}
  /\ product' = [p \in Products |-> IF p \in Written(t) THEN image[t][p] ELSE product[p]]
  /\ Leave(t, IF t \in Jobs THEN "idle" ELSE "done")

Abort(t) ==
  /\ Deadlocked(t)
  /\ Leave(t, IF t \in Jobs THEN "dead" ELSE "done")
  /\ UNCHANGED product

\* The server dies and is started again; the scripts are processes of their own.
Restart ==
  /\ restarts < MaxRestarts
  /\ restarts' = restarts + 1
  /\ state' = [t \in Transactions |-> IF t \in Jobs THEN "idle" ELSE state[t]]
  /\ todo'  = [t \in Transactions |-> IF t \in Jobs THEN <<>> ELSE todo[t]]
  /\ image' = [t \in Transactions |-> IF t \in Jobs THEN Nothing ELSE image[t]]
  /\ UNCHANGED <<product, referenced, edited, manual>>

-----------------------------------------------------------------------------
\* Administrators write one row, in one transaction.

Edit(e, p, row) ==
  /\ e \in Edits \ edited
  /\ edited' = edited \cup {e}
  /\ Unlocked(p)
  /\ product' = [product EXCEPT ![p] = row]
  /\ UNCHANGED <<referenced, transaction, restarts>>

CreateProduct(e, p) ==
  /\ ~Present(p)
  /\ \E discount \in {0, 1}, deal \in {"none", "running"} :
       Edit(e, p, [parsed |-> FALSE, discount |-> discount, deal |-> deal])
  /\ manual' = manual \cup {p}

\* An end of the deal, if given, lies in the future.
UpdateProduct(e, p) ==
  /\ Present(p)
  /\ \E discount \in {0, 1}, deal \in {product[p].deal, "running"} :
       Edit(e, p, [product[p] EXCEPT !.discount = discount, !.deal = deal])
  /\ UNCHANGED manual

DeleteProduct(e, p) ==
  /\ Present(p) /\ p \notin referenced
  /\ Edit(e, p, NoRow)
  /\ manual' = manual \ {p}

\* update_prices reads ids of products and leaves their rows alone.
EditPrices(e) ==
  /\ e \in Edits \ edited
  /\ edited' = edited \cup {e}
  /\ UNCHANGED <<product, referenced, transaction, restarts, manual>>

-----------------------------------------------------------------------------
\* Orders come, for products that nobody is deleting, and are deleted; time passes.

OrderRefers(p) ==
  /\ Present(p) /\ p \notin referenced
  /\ \A t \in Transactions : p \in Written(t) => image[t][p] # NoRow
  /\ referenced' = referenced \cup {p}
  /\ UNCHANGED <<product, transaction, edited, restarts, manual>>

OrderGoes(p) ==
  /\ p \in referenced
  /\ referenced' = referenced \ {p}
  /\ UNCHANGED <<product, transaction, edited, restarts, manual>>

DealEnds(p) ==
  /\ Present(p) /\ product[p].deal = "running"
  /\ product' = [product EXCEPT ![p].deal = "over"]
  /\ UNCHANGED <<referenced, transaction, edited, restarts, manual>>

-----------------------------------------------------------------------------
ScriptStep(s) ==
  \/ BeginScript(s) \/ ScriptFails(s)
  \/ BeginSweep(s)
  \/ \E p \in Products : SaveItem(s, p) \/ SaveDetails(s, p) \/ SweepRow(s, p)

JobStep(j) ==
  \/ BeginSweep(j) \/ SweepFails(j)
  \/ \E p \in Products : SweepRow(j, p)

EditStep ==
  \E e \in Edits :
    \/ EditPrices(e)
    \/ \E p \in Products : CreateProduct(e, p) \/ UpdateProduct(e, p) \/ DeleteProduct(e, p)

CatalogueNext ==
  \/ \E s \in Scripts : ScriptStep(s)
  \/ \E j \in Jobs : JobStep(j)
  \/ \E t \in Transactions : Commit(t) \/ Abort(t)
  \/ EditStep \/ Restart
  \/ \E p \in Products : OrderRefers(p) \/ OrderGoes(p) \/ DealEnds(p)

\* The event loop runs the jobs, PostgreSQL answers and breaks deadlocks; nothing forces a
\* script to start, an administrator to write or an order to come.
CatalogueFairness ==
  /\ \A j \in Jobs : WF_catalogueVars(JobStep(j))
  /\ \A t \in Transactions : WF_catalogueVars(Commit(t)) /\ WF_catalogueVars(Abort(t))
  /\ \A s \in Scripts :
       WF_catalogueVars(\E p \in Products : SaveItem(s, p) \/ SaveDetails(s, p) \/ SweepRow(s, p))

CatalogueSpec == CatalogueInit /\ [][CatalogueNext]_catalogueVars /\ CatalogueFairness

-----------------------------------------------------------------------------
\* A product that an administrator has created stays until an administrator deletes it:
\* although a parser may find it on sale, its discount then end and be reset, and the daily
\* clean-up deletes what has no discount.
ManualStays == \A p \in manual : Present(p)

\* No reset or clean-up takes away a discount that is still running, or a product with one:
\* however often scripts and administrators renew a deal while its statement waits for the row.
OnSale(p) == Present(p) /\ product[p].discount > 0 /\ product[p].deal # "over"

RunningDealsAreKept ==
  [][\A t \in Transactions : state[t] = "sweep" /\ Commit(t) => \A p \in Products : OnSale(p) => product'[p] = product[p]]_catalogueVars

\* A parsed product whose deal is over, or that has no discount, and that no order needs.
Expired(p) ==
  /\ Present(p) /\ product[p].parsed
  /\ product[p].deal = "over" \/ product[p].discount = 0
  /\ p \notin referenced

\* It goes, or is on sale again: the clean-up runs "once per day".
ExpiredIsDeleted == \A p \in Products : Expired(p) ~> ~Expired(p)
=============================================================================
