--------------------------- MODULE OrderLifecycle ---------------------------
(***************************************************************************)
(* What the shop promises about an order, whatever its handlers do in      *)
(* between: it is paid only once it is on record, goods are bought at      *)
(* Steam only for a paid order that is still PENDING, and a payment turns  *)
(* PENDING into COMPLETED once those goods were bought.  Only an           *)
(* administrator changes a status in any other way.                        *)
(***************************************************************************)
CONSTANTS Orders, SteamOrders

VARIABLES
  status,   \* ABSENT, one of Status, or DELETED
  paid,     \* orders whose buyer has paid
  bought,   \* orders whose goods were bought at Steam
  settled   \* orders on record as completed by a payment

vars == <<status, paid, bought, settled>>

Status == {"PENDING", "COMPLETED", "FAILED"}

Init ==
  /\ status = [o \in Orders |-> "ABSENT"]
  /\ paid = {}
  /\ bought = {}
  /\ settled = {}

Place(o) ==
  /\ status[o] = "ABSENT"
  /\ status' = [status EXCEPT ![o] = "PENDING"]
  /\ UNCHANGED <<paid, bought, settled>>

Pay(o) ==
  /\ status[o] # "ABSENT"
  /\ paid' = paid \cup {o}
  /\ UNCHANGED <<status, bought, settled>>

Buy(o) ==
  /\ status[o] = "PENDING"
  /\ o \in SteamOrders \cap paid
  /\ bought' = bought \cup {o}
  /\ UNCHANGED <<status, paid, settled>>

Complete(o) ==
  /\ status[o] = "PENDING"
  /\ o \in paid
  /\ o \in SteamOrders => o \in bought
  /\ status' = [status EXCEPT ![o] = "COMPLETED"]
  /\ settled' = settled \cup {o}
  /\ UNCHANGED <<paid, bought>>

Administer(o, s) ==
  /\ status[o] \in Status
  /\ status' = [status EXCEPT ![o] = s]
  /\ UNCHANGED <<paid, bought, settled>>

Delete(o) ==
  /\ status[o] \in Status
  /\ status' = [status EXCEPT ![o] = "DELETED"]
  /\ settled' = settled \ {o}
  /\ UNCHANGED <<paid, bought>>

Next ==
  \E o \in Orders :
    \/ Place(o) \/ Pay(o) \/ Buy(o) \/ Complete(o) \/ Delete(o)
    \/ \E s \in Status : Administer(o, s)

Spec == Init /\ [][Next]_vars
=============================================================================
