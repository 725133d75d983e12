--------------------------- MODULE MCAccountSlots ---------------------------
(* Model checking of AccountSlots: two slots and four requests, so that two *)
(* slots with equal or different start times coexist, a release finds two  *)
(* waiters, and a sweep can take one slot or both.  With MaxAge 0 a slot   *)
(* is stale one tick after its grant; two ticks let a slot that was granted *)
(* by a sweep be swept in turn.  An idle request finds at most three       *)
(* objects referenced by the others, and the map lists one of those.       *)
EXTENDS AccountSlots
=============================================================================
