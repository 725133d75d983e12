------------------------ MODULE MCPageLifecycle ------------------------
(* One account whose mutex four operations want: those of two callers, a    *)
(* reset, and the initialisation that an earlier reset left behind.  Two    *)
(* browsers can be open on the profile at a time.                          *)
EXTENDS PageLifecycle
=============================================================================
