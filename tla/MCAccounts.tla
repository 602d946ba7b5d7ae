----------------------------- MODULE MCAccounts -----------------------------
(***************************************************************************)
(* A small instance of Accounts.  Requests are interchangeable until they  *)
(* choose what to do, and so are the e-mail addresses.                     *)
(***************************************************************************)
EXTENDS Accounts, TLC

RequestSymmetry == Permutations(Requests) \cup Permutations(Emails)
=============================================================================
