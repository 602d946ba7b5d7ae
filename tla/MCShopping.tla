----------------------------- MODULE MCShopping -----------------------------
(***************************************************************************)
(* A small instance of Shopping.  Requests are interchangeable until they  *)
(* choose what to do, and so are the products.  What is priced, listed and *)
(* answered keeps no state: see Samples, evaluated with this module.       *)
(***************************************************************************)
EXTENDS Shopping, Samples

RequestSymmetry == Permutations(Requests) \cup Permutations(Products)
=============================================================================
