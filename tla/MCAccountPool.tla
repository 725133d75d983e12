--------------------------- MODULE MCAccountPool ---------------------------
(***************************************************************************)
(* Three accounts, of which one is in the environment and comes and goes;   *)
(* cooldowns of two units of time and a cache that lasts for one, so that a *)
(* cooldown can run beside a valid cache and outlive it, and one that is    *)
(* set again differs from the one before.                                  *)
(***************************************************************************)
EXTENDS AccountPool

CONSTANTS a1, a2, a3

MCAccount == {a1, a2, a3}
MCEnv == {a1}
=============================================================================
