-------------------------- MODULE MCThreadContext --------------------------
(* A small instance of ThreadContext.  Requests are interchangeable. *)
EXTENDS ThreadContext, TLC

Symmetry == Permutations(Request)
=============================================================================
