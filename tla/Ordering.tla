------------------------------ MODULE Ordering ------------------------------
(***************************************************************************)
(* OrdersService: placing an order of each category, and what an           *)
(* administrator does to one.                                              *)
(*                                                                         *)
(* A Steam order is first made at the NSGifts API, which names it; every   *)
(* order is inserted and billed inside one unit of work, and the payment   *)
(* link is handed to the client after that unit of work has ended.  Which  *)
(* product, price and discount were found is left to one choice: the order *)
(* is refused or it goes on.                                               *)
(***************************************************************************)
EXTENDS OrderStore

VARIABLES
  stage,     \* how far the request that places each order has come
  reserved,  \* orders that exist at NSGifts
  billed,    \* orders with a bill at the payment system
  reopened   \* orders an administrator has put back to PENDING (history)

orderingVars == <<stage, reserved, billed, reopened>>

Placing == {"requested", "reserved", "inserted", "billed", "placed"}
Stage   == Placing \cup {"new", "linked", "rejected", "crashed"}

OrderingTypeOK ==
  /\ stage \in [Orders -> Stage]
  /\ reserved \subseteq SteamOrders
  /\ billed \subseteq Orders
  /\ reopened \subseteq Orders

OrderingInit ==
  /\ stage = [o \in Orders |-> "new"]
  /\ reserved = {}
  /\ billed = {}
  /\ reopened = {}

MoveOrder(o, from, to) ==
  /\ stage[o] = from
  /\ stage' = [stage EXCEPT ![o] = to]

RequestOrder(o) ==
  /\ MoveOrder(o, "new", "requested")
  /\ UNCHANGED <<storeVars, reserved, billed, reopened>>

\* Product missing, out of stock, unpriced or not a gift; deposit too small: an
\* exception before anything was created anywhere.
RejectOrder(o) ==
  /\ MoveOrder(o, "requested", "rejected")
  /\ UNCHANGED <<storeVars, reserved, billed, reopened>>

\* create_top_up_order (before the unit of work) or create_gift_order (inside it).
ReserveAtSteam(o) ==
  /\ o \in SteamOrders
  /\ MoveOrder(o, "requested", "reserved")
  /\ reserved' = reserved \cup {o}
  /\ UNCHANGED <<storeVars, billed, reopened>>

\* The call to NSGifts raised; it may have made the order all the same.
ReserveFails(o) ==
  /\ "steam" \in Faults
  /\ o \in SteamOrders
  /\ MoveOrder(o, "requested", "rejected")
  /\ reserved' \in {reserved, reserved \cup {o}}
  /\ UNCHANGED <<storeVars, billed, reopened>>

\* create_with_items / create_with_id: flushed, not committed, seen by nobody else.
InsertOrder(o) ==
  /\ MoveOrder(o, IF o \in SteamOrders THEN "reserved" ELSE "requested", "inserted")
  /\ UNCHANGED <<storeVars, reserved, billed, reopened>>

\* Mutant: the bill waits until the order can be read.
CreateBillOfVisible(o) ==
  /\ InTable(o)
  /\ MoveOrder(o, "inserted", "billed")
  /\ billed' = billed \cup {o}
  /\ UNCHANGED <<storeVars, reserved, reopened>>

CreateBill(o) ==
  /\ MoveOrder(o, "inserted", "billed")
  /\ billed' = billed \cup {o}
  /\ UNCHANGED <<storeVars, reserved, reopened>>

\* PaymentFailedError, a timeout, an answer that is not JSON: the insert is rolled back,
\* and the payment system may hold the bill all the same.
CreateBillFails(o) ==
  /\ "bill" \in Faults
  /\ MoveOrder(o, "inserted", "rejected")
  /\ billed' \in {billed, billed \cup {o}}
  /\ UNCHANGED <<storeVars, reserved, reopened>>

CommitOrder(o) ==
  /\ MoveOrder(o, "billed", "placed")
  /\ InsertRow(o)
  /\ UNCHANGED <<reserved, billed, reopened>>

\* Mutant: __aexit__ swallows the error of the commit.
CommitOrderFailsSilently(o) ==
  /\ "commit" \in Faults
  /\ MoveOrder(o, "billed", "placed")
  /\ UNCHANGED <<storeVars, reserved, billed, reopened>>

CommitOrderFails(o) ==
  /\ "commit" \in Faults
  /\ MoveOrder(o, "billed", "rejected")
  /\ UNCHANGED <<storeVars, reserved, billed, reopened>>

\* The response with payment_url.
ReturnLink(o) ==
  /\ MoveOrder(o, "placed", "linked")
  /\ UNCHANGED <<storeVars, reserved, billed, reopened>>

PlacingStep(o) ==
  \/ RejectOrder(o)      \/ ReserveAtSteam(o)  \/ ReserveFails(o)
  \/ InsertOrder(o)      \/ CreateBill(o)      \/ CreateBillFails(o)
  \/ CommitOrder(o)      \/ CommitOrderFails(o) \/ ReturnLink(o)

\* PATCH /orders/update: any status over any other, after the row lock is free.
AdminUpdatesOrder(o, s) ==
  /\ InTable(o)
  /\ Free(o)
  /\ SetRow(o, s)
  /\ reopened' = IF s = "PENDING" /\ ~CheckPending(o) THEN reopened \cup {o} ELSE reopened
  /\ UNCHANGED <<stage, reserved, billed>>

AdminDeletesOrder(o) ==
  /\ InTable(o)
  /\ Free(o)
  /\ DropRow(o)
  /\ UNCHANGED orderingVars

OrderingStep(o) ==
  \/ RequestOrder(o)
  \/ PlacingStep(o)
  \/ \E s \in OrderStatus : AdminUpdatesOrder(o, s)
  \/ AdminDeletesOrder(o)

\* The requests the process was serving when it died.
OrderingCrash ==
  /\ stage' = [o \in Orders |-> IF stage[o] \in Placing THEN "crashed" ELSE stage[o]]
  /\ UNCHANGED <<reserved, billed, reopened>>
=============================================================================
