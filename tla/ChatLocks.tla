------------------------------ MODULE ChatLocks ------------------------------
(***************************************************************************)
(* acquireChatLock of src/routes/chat/account.ts: one Mutex per Qwen chat,  *)
(* created when a request asks for it and dropped from the map when its     *)
(* last user leaves.  (acquirePersonalizationLock is the same code keyed    *)
(* by account.)                                                            *)
(*                                                                         *)
(* Mutex objects have identities here, because that is where the design     *)
(* could go wrong: a request keeps the object it found in a closure, while  *)
(* the map may meanwhile forget that object and hold another one for the    *)
(* same chat.  Two objects for one chat would be two holders.  An object    *)
(* nobody reaches is garbage and its identity may be allocated again.       *)
(*                                                                         *)
(* Every action is one turn of the event loop: acquire runs synchronously   *)
(* up to its answer or its promise, and a release runs to its end.          *)
(***************************************************************************)
EXTENDS Mutex

CONSTANTS
  Request,   \* callers; a caller asks for one chat at a time
  Chat,      \* chat ids
  Object,    \* identities of Mutex objects
  NoObject,  \* the map has no entry, or the caller holds no closure
  NoChat     \* the caller asks for no chat

ASSUME ChatLocksAssumption ==
  /\ NoObject \notin Object
  /\ NoChat \notin Chat

VARIABLES
  chatLocks,  \* chatLocks[c]: the map's entry for chat c
  heap,       \* heap[o]: the fields of Mutex object o
  phase,      \* phase[r]: where request r is in acquireChatLock
  captured,   \* captured[r]: the object r's closure refers to
  chat        \* chat[r]: the chatId r's closure refers to

vars == <<chatLocks, heap, phase, captured, chat>>

TypeOK ==
  /\ chatLocks \in [Chat -> Object \union {NoObject}]
  /\ heap \in [Object -> MutexState(Request)]
  /\ phase \in [Request -> {"idle", "waiting", "holding"}]
  /\ captured \in [Request -> Object \union {NoObject}]
  /\ chat \in [Request -> Chat \union {NoChat}]

Init ==
  /\ chatLocks = [c \in Chat |-> NoObject]
  /\ heap = [o \in Object |-> NewMutex]
  /\ phase = [r \in Request |-> "idle"]
  /\ captured = [r \in Request |-> NoObject]
  /\ chat = [r \in Request |-> NoChat]

-----------------------------------------------------------------------------
(* Reachability of objects *)

Reachable(o) == \/ \E c \in Chat : chatLocks[c] = o
                \/ \E r \in Request : captured[r] = o

(* The object acquireChatLock(c) works on: the one in the map, or a new one *)
(* that it puts there.                                                     *)
Resolves(c, o) ==
  IF chatLocks[c] = NoObject THEN ~Reachable(o) ELSE o = chatLocks[c]

Fields(c, o) == IF chatLocks[c] = NoObject THEN NewMutex ELSE heap[o]

-----------------------------------------------------------------------------
(* acquireChatLock *)

Enter(r, c, o, next) ==
  /\ phase' = [phase EXCEPT ![r] = next]
  /\ captured' = [captured EXCEPT ![r] = o]
  /\ chat' = [chat EXCEPT ![r] = c]

Leaves(r) ==
  /\ captured' = [captured EXCEPT ![r] = NoObject]
  /\ chat' = [chat EXCEPT ![r] = NoChat]

AcquireFree(r, c, o) ==
  /\ phase[r] = "idle"
  /\ Resolves(c, o)
  /\ ~Fields(c, o).locked
  /\ chatLocks' = [chatLocks EXCEPT ![c] = o]
  /\ heap' = [heap EXCEPT ![o] = Lock(Fields(c, o))]
  /\ Enter(r, c, o, "holding")

AcquireQueued(r, c, o) ==
  /\ phase[r] = "idle"
  /\ Resolves(c, o)
  /\ Fields(c, o).locked
  /\ heap' = [heap EXCEPT ![o] = Enqueue(@, r)]
  /\ Enter(r, c, o, "waiting")
  /\ UNCHANGED chatLocks

(* The signal was aborted before the call: throwIfAborted rejects, after   *)
(* the map entry was created.                                              *)
AcquireAborted(r, c, o) ==
  /\ phase[r] = "idle"
  /\ Resolves(c, o)
  /\ chatLocks' = [chatLocks EXCEPT ![c] = o]
  /\ heap' = [heap EXCEPT ![o] = Fields(c, o)]
  /\ UNCHANGED <<phase, captured, chat>>

(* The waiter's timer fires, or its signal aborts, while it waits. *)
WaiterGivesUp(r) ==
  /\ phase[r] = "waiting"
  /\ \E i \in 1 .. Len(heap[captured[r]].queue) :
       /\ heap[captured[r]].queue[i] = r
       /\ heap' = [heap EXCEPT ![captured[r]] = Withdraw(@, i)]
  /\ phase' = [phase EXCEPT ![r] = "idle"]
  /\ Leaves(r)
  /\ UNCHANGED chatLocks

-----------------------------------------------------------------------------
(* The function acquireChatLock returns *)

(* Mutant of DropsEntry: the entry goes although somebody waits. *)
DropsAlways(m) == TRUE

(* Whether the map forgets the mutex, whose state after release is m. *)
DropsEntry(m) == IsIdle(m)

ReleaseChat(r) ==
  LET o == captured[r]
      left == Release(heap[o])
  IN  /\ phase[r] = "holding"
      /\ heap' = [heap EXCEPT ![o] = left]
      /\ phase' = [p \in Request |->
                     IF p = r THEN "idle"
                     ELSE IF p \in Woken(heap[o]) /\ phase[p] = "waiting"
                          THEN "holding"
                          ELSE phase[p]]
      /\ chatLocks' = IF DropsEntry(left)
                      THEN [chatLocks EXCEPT ![chat[r]] = NoObject]
                      ELSE chatLocks
      /\ Leaves(r)

-----------------------------------------------------------------------------

RequestStep(r) ==
  \/ \E c \in Chat, o \in Object : AcquireFree(r, c, o)
  \/ \E c \in Chat, o \in Object : AcquireQueued(r, c, o)
  \/ \E c \in Chat, o \in Object : AcquireAborted(r, c, o)
  \/ WaiterGivesUp(r)
  \/ ReleaseChat(r)

Next == \E r \in Request : RequestStep(r)

Spec == Init /\ [][Next]_vars

(* Every holder releases: index.ts does so when the stream completes, when *)
(* it fails, and in its outer catch.  Giving up and asking are not fair.   *)
FairSpec == Spec /\ \A r \in Request : WF_vars(ReleaseChat(r))

-----------------------------------------------------------------------------
(* Properties *)

(* A chat has at most one holder, whichever Mutex objects its requests     *)
(* found: the map never forgets an object that somebody holds or waits on. *)
MutualExclusion ==
  \A r, s \in Request :
    phase[r] = "holding" /\ phase[s] = "holding" /\ chat[r] = chat[s] => r = s

(* The parts of the inductive invariant. *)

(* Whoever is inside acquireChatLock, or holds the lock, works on the      *)
(* object the map has for its chat, and one object serves one chat.        *)
ClosuresAgreeWithMap ==
  /\ \A r \in Request :
       IF phase[r] = "idle"
       THEN captured[r] = NoObject /\ chat[r] = NoChat
       ELSE /\ chat[r] \in Chat
            /\ captured[r] \in Object
            /\ chatLocks[chat[r]] = captured[r]
  /\ \A c, d \in Chat :
       chatLocks[c] = chatLocks[d] /\ chatLocks[c] # NoObject => c = d

(* A queue holds each of its waiters once, and every waiter is in the      *)
(* queue of the object it captured.                                        *)
QueuesAreTheWaiters ==
  /\ \A o \in Object : \A i \in 1 .. Len(heap[o].queue) :
       /\ phase[heap[o].queue[i]] = "waiting"
       /\ captured[heap[o].queue[i]] = o
  /\ \A o \in Object : \A i, j \in 1 .. Len(heap[o].queue) :
       heap[o].queue[i] = heap[o].queue[j] => i = j
  /\ \A r \in Request : phase[r] = "waiting" =>
       \E i \in 1 .. Len(heap[captured[r]].queue) :
         heap[captured[r]].queue[i] = r

(* A mutex is locked exactly while one request holds it, and only a locked *)
(* mutex has waiters: no lock is lost and none is held twice.              *)
LockedIffHeld ==
  /\ \A o \in Object :
       heap[o].locked <=> \E r \in Request : phase[r] = "holding" /\ captured[r] = o
  /\ \A r, s \in Request :
       phase[r] = "holding" /\ phase[s] = "holding" /\ captured[r] = captured[s]
         => r = s
  /\ \A o \in Object : ~heap[o].locked => heap[o].queue = <<>>

(* The inductive invariant: no closure works on an object the map forgot,  *)
(* no waiter is dropped, no lock is orphaned.                              *)
IInv ==
  /\ TypeOK
  /\ ClosuresAgreeWithMap
  /\ QueuesAreTheWaiters
  /\ LockedIffHeld

(* The refinement mapping: the line of a chat is its holder followed by    *)
(* the waiters of the object the map has for it.                           *)
Holders(c) == {r \in Request : phase[r] = "holding" /\ chat[r] = c}

LineOf(c) ==
  IF Holders(c) = {} THEN <<>>
  ELSE <<CHOOSE r \in Request : r \in Holders(c)>> \o heap[chatLocks[c]].queue

Line == INSTANCE ChatLine WITH line <- [c \in Chat |-> LineOf(c)]

(* The lock table behaves as one first-come first-served line per chat,    *)
(* through creation and removal of the map's entries.                      *)
ImplementsChatLine == Line!LineSpec

(* Nobody is forgotten in a queue: a waiter ends up with the lock, or has  *)
(* given up, as long as holders release.                                   *)
EveryWaiterIsServed ==
  \A r \in Request : phase[r] = "waiting" ~> phase[r] # "waiting"
=============================================================================
