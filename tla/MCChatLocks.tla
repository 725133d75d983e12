---------------------------- MODULE MCChatLocks ----------------------------
(* Model checking of ChatLocks: three requests, so that a release finds a  *)
(* queue of two and a waiter in the middle of a line can give up; two      *)
(* chats, so that the map holds entries of different ages.  Each request   *)
(* captures at most one object and each chat has at most one entry, and a  *)
(* captured object is a map entry, so three objects leave a fresh one for  *)
(* every acquire.                                                          *)
EXTENDS ChatLocks
=============================================================================
