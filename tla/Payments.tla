------------------------------ MODULE Payments ------------------------------
(***************************************************************************)
(* PaymentsService.process_payment, run by the webhook of the payment      *)
(* system, one action per await of the handler.                            *)
(*                                                                         *)
(* Everything from the first UPDATE to the Telegram message happens inside *)
(* one unit of work: the row lock is held while NSGifts is being paid, the *)
(* confirmation mail is handed to a task of its own before the commit, and *)
(* an exception after that still rolls the database back.                  *)
(***************************************************************************)
EXTENDS OrderStore

CONSTANT
  NoEmail   \* orders of a signed-in user who left the e-mail field empty

\* Both Steam forms demand an e-mail (CreateSteamOrderBaseDTO.customer_email).
ASSUME NoEmailAssumption == NoEmail \subseteq InAppOrders

VARIABLES
  pc,        \* progress of the handler of each webhook
  success,   \* webhooks whose Status is SUCCESS
  charged,   \* webhooks whose pay_order request NSGifts has accepted
  mail       \* the confirmation mail of each webhook

paymentVars == <<pc, success, charged, mail>>

OrderOf(w) == w[1]

Open    == {"marked", "charged", "fulfilled", "notifying", "settling", "failing"}
Ended   == {"answered", "ignored", "refused", "failed", "asserted", "crashed"}
Running == Open \cup {"received"}

PaymentTypeOK ==
  /\ pc \in [Webhooks -> Running \cup Ended \cup {"idle"}]
  /\ success \subseteq Webhooks
  /\ charged \subseteq Webhooks
  /\ mail \in [Webhooks -> {"none", "spawned", "sent", "dropped"}]

PaymentInit ==
  /\ pc = [w \in Webhooks |-> "idle"]
  /\ success = {}
  /\ charged = {}
  /\ mail = [w \in Webhooks |-> "none"]

Goto(w, from, to) ==
  /\ pc[w] = from
  /\ pc' = [pc EXCEPT ![w] = to]

\* A request with a valid signature reaches paypalych_webhook.
Receive(w, isSuccess) ==
  /\ Goto(w, "idle", "received")
  /\ success' = IF isSuccess THEN success \cup {w} ELSE success
  /\ UNCHANGED <<storeVars, charged, mail>>

\* Mutant: any Status counts as success.
AnyStatus(w) == TRUE

IsSuccess(w) == w \in success

\* Any other Status: logged and answered 200, nothing is written.
IgnoreUnsuccessful(w) ==
  /\ ~IsSuccess(w)
  /\ Goto(w, "received", "ignored")
  /\ UNCHANGED <<storeVars, success, charged, mail>>

\* _mark_order_as_paid.  The UPDATE waits for the row lock, then looks at the status again.
MarkOrderAsPaid(w) ==
  /\ IsSuccess(w)
  /\ Free(OrderOf(w))
  /\ CheckPending(OrderOf(w))
  /\ Goto(w, "received", "marked")
  /\ WritePaid(w, OrderOf(w))
  /\ UNCHANGED <<success, charged, mail>>

\* Mutant: the UPDATE skips a locked row.
RefuseLocked(w) ==
  /\ IsSuccess(w)
  /\ ~(Free(OrderOf(w)) /\ CheckPending(OrderOf(w)))
  /\ Goto(w, "received", "refused")
  /\ UNCHANGED <<storeVars, success, charged, mail>>

\* The same UPDATE matched no row: ActionForbiddenError.
RefuseNotPending(w) ==
  /\ IsSuccess(w)
  /\ Free(OrderOf(w))
  /\ ~CheckPending(OrderOf(w))
  /\ Goto(w, "received", "refused")
  /\ UNCHANGED <<storeVars, success, charged, mail>>

\* get_customer_tg_by_id finds the row this transaction has just updated.
ReadCustomer(w) ==
  /\ OrderOf(w) \in InAppOrders
  /\ Goto(w, "marked", "fulfilled")
  /\ UNCHANGED <<storeVars, success, charged, mail>>

\* NSGifts accepts the pay_order (top_up_complete, pay_gift_order) ...
SteamCharges(w) ==
  /\ OrderOf(w) \in SteamOrders
  /\ Goto(w, "marked", "charged")
  /\ charged' = charged \cup {w}
  /\ UNCHANGED <<storeVars, success, mail>>

\* ... and its answer arrives.
SteamAnswers(w) ==
  /\ Goto(w, "charged", "fulfilled")
  /\ UNCHANGED <<storeVars, success, charged, mail>>

\* Mutant: an error of NSGifts is swallowed.
SteamFailsSilently(w) ==
  /\ "steam" \in Faults
  /\ OrderOf(w) \in SteamOrders
  /\ Goto(w, "marked", "fulfilled") \/ Goto(w, "charged", "fulfilled")
  /\ UNCHANGED <<storeVars, success, charged, mail>>

\* The call raises before or after it took effect; the handler writes FAILED.
SteamFails(w) ==
  /\ "steam" \in Faults
  /\ OrderOf(w) \in SteamOrders
  /\ Goto(w, "marked", "failing") \/ Goto(w, "charged", "failing")
  /\ WriteStatus(w, "FAILED")
  /\ UNCHANGED <<success, charged, mail>>

\* raise ServiceError inside the unit of work.
RaiseServiceError(w) ==
  /\ Goto(w, "failing", "failed")
  /\ Rollback(w, OrderOf(w))
  /\ UNCHANGED <<success, charged, mail>>

\* Mutant: the mail task is started before NSGifts is paid.
SpawnMailFirst(w) ==
  /\ OrderOf(w) \notin NoEmail
  /\ Goto(w, "fulfilled", "notifying") \/ (Goto(w, "marked", "marked") /\ mail[w] = "none")
  /\ mail' = [mail EXCEPT ![w] = "spawned"]
  /\ UNCHANGED <<storeVars, success, charged>>

\* asyncio.create_task(send_mail(...)), with order.client_email at hand.
SpawnMail(w) ==
  /\ OrderOf(w) \notin NoEmail
  /\ Goto(w, "fulfilled", "notifying")
  /\ mail' = [mail EXCEPT ![w] = "spawned"]
  /\ UNCHANGED <<storeVars, success, charged>>

\* order.client_email of an order without customer_email: UPDATE ... RETURNING did
\* not load the user, so the assertion in client_email fails.
UserNotLoaded(w) ==
  /\ OrderOf(w) \in NoEmail
  /\ Goto(w, "fulfilled", "asserted")
  /\ Rollback(w, OrderOf(w))
  /\ UNCHANGED <<success, charged, mail>>

NotifyAdmin(w) ==
  /\ Goto(w, "notifying", "settling")
  /\ UNCHANGED <<storeVars, success, charged, mail>>

\* tg_client.send_msg raised: outside the try, inside the unit of work.
NotifyAdminFails(w) ==
  /\ "telegram" \in Faults
  /\ Goto(w, "notifying", "failed")
  /\ Rollback(w, OrderOf(w))
  /\ UNCHANGED <<success, charged, mail>>

\* Mutant: the unit of work ends without a commit.
SettleUncommitted(w) ==
  /\ Goto(w, "settling", "answered")
  /\ Rollback(w, OrderOf(w))
  /\ UNCHANGED <<success, charged, mail>>

Settle(w) ==
  /\ Goto(w, "settling", "answered")
  /\ Commit(w, OrderOf(w))
  /\ UNCHANGED <<success, charged, mail>>

SettleFails(w) ==
  /\ "commit" \in Faults
  /\ Goto(w, "settling", "failed")
  /\ Rollback(w, OrderOf(w))
  /\ UNCHANGED <<success, charged, mail>>

\* The mail task, which nobody awaits.
SendMail(w) ==
  /\ mail[w] = "spawned"
  /\ mail' = [mail EXCEPT ![w] = "sent"]
  /\ UNCHANGED <<storeVars, pc, success, charged>>

SendMailFails(w) ==
  /\ "mail" \in Faults
  /\ mail[w] = "spawned"
  /\ mail' = [mail EXCEPT ![w] = "dropped"]
  /\ UNCHANGED <<storeVars, pc, success, charged>>

\* The part of the handler whose every step is bounded: httpx gives up after five
\* seconds unless it is told timeout=None, as pay_gift_order tells it.
BoundedStep(w) ==
  \/ IgnoreUnsuccessful(w) \/ MarkOrderAsPaid(w) \/ RefuseNotPending(w)
  \/ ReadCustomer(w)       \/ RaiseServiceError(w)
  \/ SpawnMail(w)          \/ UserNotLoaded(w)
  \/ NotifyAdmin(w)        \/ NotifyAdminFails(w)
  \/ Settle(w)             \/ SettleFails(w)

PayAtSteam(w) == SteamCharges(w) \/ SteamAnswers(w) \/ SteamFails(w)

MailStep(w) == SendMail(w) \/ SendMailFails(w)

HandlerStep(w) == BoundedStep(w) \/ PayAtSteam(w) \/ MailStep(w)

PaymentCrash ==
  /\ pc' = [w \in Webhooks |-> IF pc[w] \in Running THEN "crashed" ELSE pc[w]]
  /\ mail' = [w \in Webhooks |-> IF mail[w] = "spawned" THEN "dropped" ELSE mail[w]]
  /\ DropConnections
  /\ UNCHANGED <<success, charged>>
=============================================================================
