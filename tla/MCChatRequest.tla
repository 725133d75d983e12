--------------------------- MODULE MCChatRequest ---------------------------
(***************************************************************************)
(* Two requests of one session, two accounts with two chats each, and one   *)
(* retry: enough for a request to wait for a lock, to rotate and run out of *)
(* accounts, to lose its chat to another account, and to meet the other on  *)
(* each of the two resources.  A chat nothing refers to can be created      *)
(* again, so the two per account do not run out.                           *)
(***************************************************************************)
EXTENDS ChatRequest

CONSTANTS a1, a2, c1, c2, d1, d2

MCAccount == {a1, a2}
MCChat == {c1, c2, d1, d2}
MCHome == [c \in MCChat |-> IF c \in {c1, c2} THEN a1 ELSE a2]
=============================================================================
