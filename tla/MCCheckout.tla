----------------------------- MODULE MCCheckout -----------------------------
(***************************************************************************)
(* Small instances of Checkout.  Orders share nothing but the process, so  *)
(* what is hard is many notifications of one order: Several gives it all   *)
(* the tags, and one to the order of the other kind.                       *)
(***************************************************************************)
EXTENDS Checkout, TLC

CONSTANTS t, n   \* a tag, and an order that is notified of with this tag only

AllWebhooks == Orders \X Tags
Several     == {w \in Orders \X Tags : w[1] = n => w[2] = t}

\* Notifications of one order are interchangeable.
TagSymmetry == Permutations(Tags)
=============================================================================
