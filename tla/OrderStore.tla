----------------------------- MODULE OrderStore -----------------------------
(***************************************************************************)
(* The table base_order as the services reach it through a unit of work.   *)
(*                                                                         *)
(* An order is known by its id; which of the three categories it has never *)
(* changes (orders/models.py, polymorphic_on category), so the categories  *)
(* are constant sets of orders.  A webhook is one notification the payment *)
(* system may send about one order: a pair <<order, tag>>.                 *)
(*                                                                         *)
(* PostgreSQL runs these transactions at READ COMMITTED.  The only one     *)
(* that waits for the outside between its first write and its end is the   *)
(* webhook's, so it is the only one whose row lock and uncommitted image   *)
(* are state; an INSERT before its commit is invisible to everybody else.  *)
(***************************************************************************)
EXTENDS Naturals

CONSTANTS
  InAppOrders, TopUpOrders, GiftOrders,  \* order ids, by OrderCategory
  Tags, Webhooks,                        \* notifications, a tag apart for one order
  None,                                  \* no lock holder; bill_id IS NULL
  Faults                                 \* what may go wrong, of FaultKinds

Orders      == InAppOrders \cup TopUpOrders \cup GiftOrders
SteamOrders == TopUpOrders \cup GiftOrders

FaultKinds  == {"steam", "bill", "commit", "telegram", "mail", "crash"}

\* None is no webhook; an order has one category.
ASSUME StoreAssumption ==
  /\ Webhooks \subseteq Orders \X Tags
  /\ None \notin Webhooks
  /\ InAppOrders \cap SteamOrders = {}
  /\ TopUpOrders \cap GiftOrders = {}
  /\ Faults \subseteq FaultKinds

OrderStatus == {"PENDING", "COMPLETED", "FAILED"}

\* ABSENT: the row was never committed; DELETED: it was, and has been deleted.
\* The code sees no row in both cases, the properties tell them apart.
RowStatus   == OrderStatus \cup {"ABSENT", "DELETED"}
Row         == [status : RowStatus, bill : Webhooks \cup {None}]
Nothing     == [status |-> "ABSENT", bill |-> None]

VARIABLES
  row,    \* committed row of each order
  lock,   \* the webhook whose transaction has updated the row, or None
  tx      \* the row as the webhook's open transaction has written it

storeVars == <<row, lock, tx>>

StoreTypeOK ==
  /\ row  \in [Orders -> Row]
  /\ lock \in [Orders -> Webhooks \cup {None}]
  /\ tx   \in [Webhooks -> Row]

StoreInit ==
  /\ row  = [o \in Orders |-> Nothing]
  /\ lock = [o \in Orders |-> None]
  /\ tx   = [w \in Webhooks |-> Nothing]

InTable(o) == row[o].status \in OrderStatus
Free(o)    == lock[o] = None

\* repository.create and flush, made visible by the commit of its unit of work.
InsertRow(o) ==
  /\ row' = [row EXCEPT ![o] = [status |-> "PENDING", bill |-> None]]
  /\ UNCHANGED <<lock, tx>>

\* A unit of work of one UPDATE of the status column (no check of the old one).
SetRow(o, s) ==
  /\ row' = [row EXCEPT ![o].status = s]
  /\ UNCHANGED <<lock, tx>>

\* A unit of work of one DELETE.
DropRow(o) ==
  /\ row' = [row EXCEPT ![o] = [status |-> "DELETED", bill |-> None]]
  /\ UNCHANGED <<lock, tx>>

\* Mutant: check_is_pending left out of the UPDATE.
CheckExists(o) == InTable(o)

\* The condition check_is_pending adds to the UPDATE, looked at when the row lock is free.
CheckPending(o) == row[o].status = "PENDING"

\* Mutant: the order is marked in a unit of work of its own.
WritePaidAtOnce(w, o) ==
  /\ row' = [row EXCEPT ![o] = [status |-> "COMPLETED", bill |-> w]]
  /\ UNCHANGED <<lock, tx>>

\* UPDATE of status and bill_id inside w's unit of work: takes the row lock.
WritePaid(w, o) ==
  /\ lock' = [lock EXCEPT ![o] = w]
  /\ tx'   = [tx EXCEPT ![w] = [status |-> "COMPLETED", bill |-> w]]
  /\ UNCHANGED row

\* Mutant: a status that is none of the enumeration.
WriteOtherStatus(w, s) ==
  /\ tx' = [tx EXCEPT ![w].status = "CANCELLED"]
  /\ UNCHANGED <<row, lock>>

\* UPDATE of the status by the transaction that holds the lock already.
WriteStatus(w, s) ==
  /\ tx' = [tx EXCEPT ![w].status = s]
  /\ UNCHANGED <<row, lock>>

\* Unit of work left normally: the write becomes visible and the lock goes.
Commit(w, o) ==
  /\ row'  = [row EXCEPT ![o] = tx[w]]
  /\ lock' = [lock EXCEPT ![o] = None]
  /\ tx'   = [tx EXCEPT ![w] = Nothing]

\* Mutant: an exception leaves the unit of work through the commit.
RollbackCommits(w, o) == Commit(w, o)

\* Mutant: the session of a failed unit of work is never closed.
RollbackLeaks(w, o) == UNCHANGED storeVars

\* Unit of work left by an exception, any exception.
Rollback(w, o) ==
  /\ lock' = [lock EXCEPT ![o] = None]
  /\ tx'   = [tx EXCEPT ![w] = Nothing]
  /\ UNCHANGED row

\* The connections of a dead process: PostgreSQL rolls back what they had open.
DropConnections ==
  /\ lock' = [o \in Orders |-> None]
  /\ tx'   = [w \in Webhooks |-> Nothing]
  /\ UNCHANGED row
=============================================================================
