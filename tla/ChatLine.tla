------------------------------ MODULE ChatLine ------------------------------
(***************************************************************************)
(* What acquireChatLock promises: the requests of one Qwen chat form a      *)
(* line.  The head of the line holds the chat; the others are served in     *)
(* the order they came, unless they give up.  There is no registry, no      *)
(* lock object and no closure here: this is the specification that         *)
(* ChatLocks implements.                                                   *)
(***************************************************************************)
EXTENDS Naturals, Sequences, SequencesExt

CONSTANTS Request, Chat

VARIABLE line    \* line[c]: the holder of chat c followed by its waiters

LineInit == line = [c \in Chat |-> <<>>]

InLine(r) == \E c \in Chat : r \in ToSet(line[c])

(* A request joins at the end, and holds the chat at once if it is alone. *)
Join(r, c) ==
  /\ ~InLine(r)
  /\ line' = [line EXCEPT ![c] = Append(@, r)]

(* The holder leaves and the next in line holds the chat in the same step. *)
Leave(c) ==
  /\ line[c] # <<>>
  /\ line' = [line EXCEPT ![c] = Tail(@)]

(* A waiter gives up: it timed out or its client went away. *)
GiveUp(c, i) ==
  /\ i \in 2 .. Len(line[c])
  /\ line' = [line EXCEPT ![c] = RemoveAt(@, i)]

LineNext ==
  \E c \in Chat :
    \/ \E r \in Request : Join(r, c)
    \/ Leave(c)
    \/ \E i \in DOMAIN line[c] : GiveUp(c, i)

LineSpec == LineInit /\ [][LineNext]_line
=============================================================================
