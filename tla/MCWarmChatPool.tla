--------------------------- MODULE MCWarmChatPool ---------------------------
(* A small instance of WarmChatPool. *)
EXTENDS WarmChatPool, TLC

Symmetry == Permutations(Request) \union Permutations(Chat)
=============================================================================
