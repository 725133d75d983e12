----------------------- MODULE MCAccountCreation -----------------------
(* Two callers, two registrations that can run at a time, one crash or one  *)
(* context closed.  Callers cannot start a third registration, so that the  *)
(* system may stop.                                                        *)
EXTENDS AccountCreation
=============================================================================
