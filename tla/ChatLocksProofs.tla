--------------------------- MODULE ChatLocksProofs ---------------------------
(***************************************************************************)
(* Proofs about ChatLocks, for any number of requests, chats and Mutex     *)
(* objects.  The inductive invariant IInv is stated in ChatLocks, where a  *)
(* run checks it too.                                                      *)
(***************************************************************************)
EXTENDS ChatLocks, QueueLemmas

-----------------------------------------------------------------------------
(* The operations of a mutex *)

LEMMA NewMutexType ==
  ASSUME NEW S
  PROVE  /\ NewMutex \in MutexState(S)
         /\ ~NewMutex.locked
         /\ NewMutex.queue = <<>>
BY DEF NewMutex, MutexState

LEMMA LockProperties ==
  ASSUME NEW S, NEW m \in MutexState(S)
  PROVE  /\ Lock(m) \in MutexState(S)
         /\ Lock(m).locked
         /\ Lock(m).queue = m.queue
BY DEF Lock, MutexState

LEMMA EnqueueProperties ==
  ASSUME NEW S, NEW m \in MutexState(S), NEW r \in S
  PROVE  /\ Enqueue(m, r) \in MutexState(S)
         /\ Enqueue(m, r).locked = m.locked
         /\ Enqueue(m, r).queue = Append(m.queue, r)
BY DEF Enqueue, MutexState

LEMMA WithdrawProperties ==
  ASSUME NEW S, NEW m \in MutexState(S), NoDuplicates(m.queue),
         NEW i \in 1 .. Len(m.queue)
  PROVE  /\ Withdraw(m, i) \in MutexState(S)
         /\ Withdraw(m, i).locked = m.locked
         /\ IsWithout(Withdraw(m, i).queue, m.queue, m.queue[i])
<1>1. m.queue \in Seq(S)
  BY DEF MutexState
<1>2. RemoveAt(m.queue, i) \in Seq(S)
  BY <1>1, RemoveAtProperties
<1>3. IsWithout(RemoveAt(m.queue, i), m.queue, m.queue[i])
  BY <1>1, RemoveAtIsWithout
<1>4. Withdraw(m, i) = [m EXCEPT !.queue = RemoveAt(m.queue, i)]
  BY DEF Withdraw
<1> QED BY <1>2, <1>3, <1>4 DEF MutexState

(* A release frees a lock nobody waits for, and otherwise hands it, still  *)
(* locked, to the head of the queue.                                       *)
LEMMA ReleaseProperties ==
  ASSUME NEW S, NEW m \in MutexState(S), NoDuplicates(m.queue)
  PROVE  /\ Release(m) \in MutexState(S)
         /\ m.queue = <<>> =>
              /\ ~Release(m).locked
              /\ Release(m).queue = <<>>
              /\ Woken(m) = {}
         /\ m.queue # <<>> =>
              /\ Release(m).locked = m.locked
              /\ Release(m).queue = Tail(m.queue)
              /\ Woken(m) = {m.queue[1]}
<1>1. m.queue \in Seq(S) /\ m.locked \in BOOLEAN
  BY DEF MutexState
<1>2. CASE m.queue = <<>>
  <2>1. Release(m) = [m EXCEPT !.locked = FALSE]
    BY <1>2 DEF Release
  <2>2. Release(m).queue = <<>> /\ ~Release(m).locked /\ Release(m) \in MutexState(S)
    BY <1>2, <2>1 DEF MutexState
  <2>3. Woken(m) = {}
    BY <1>2, <2>2 DEF Woken, ToSet
  <2> QED BY <1>2, <2>2, <2>3
<1>3. CASE m.queue # <<>>
  <2>1. Release(m) = [m EXCEPT !.queue = Tail(@)]
    BY <1>3 DEF Release
  <2>2. /\ Tail(m.queue) \in Seq(S)
        /\ Len(m.queue) \in Nat \ {0}
        /\ Len(Tail(m.queue)) = Len(m.queue) - 1
        /\ \A j \in 1 .. Len(Tail(m.queue)) : Tail(m.queue)[j] = m.queue[j + 1]
    BY <1>1, <1>3, TailProperties
  <2>3. /\ Release(m).queue = Tail(m.queue)
        /\ Release(m).locked = m.locked
        /\ Release(m) \in MutexState(S)
    BY <2>1, <2>2 DEF MutexState
  <2>4. Woken(m) = {m.queue[1]}
    BY <1>1, <1>3, <2>3, ServedIsHead DEF Woken
  <2> QED BY <1>3, <2>3, <2>4
<1> QED BY <1>2, <1>3

-----------------------------------------------------------------------------
(* What IInv says about one object and one request *)

LEMMA ObjectFacts ==
  ASSUME IInv, NEW o \in Object
  PROVE  /\ heap[o] \in MutexState(Request)
         /\ heap[o].locked \in BOOLEAN
         /\ heap[o].queue \in Seq(Request)
         /\ NoDuplicates(heap[o].queue)
         /\ ~heap[o].locked => heap[o].queue = <<>>
<1>1. heap[o] \in MutexState(Request)
  BY DEF IInv, TypeOK
<1>2. NoDuplicates(heap[o].queue)
  BY DEF IInv, QueuesAreTheWaiters, NoDuplicates
<1>3. ~heap[o].locked => heap[o].queue = <<>>
  BY DEF IInv, LockedIffHeld
<1> QED BY <1>1, <1>2, <1>3 DEF MutexState

LEMMA BusyFacts ==
  ASSUME IInv, NEW r \in Request, phase[r] # "idle"
  PROVE  /\ captured[r] \in Object
         /\ chat[r] \in Chat
         /\ chatLocks[chat[r]] = captured[r]
         /\ heap[captured[r]].locked
<1>1. /\ captured[r] \in Object /\ chat[r] \in Chat
      /\ chatLocks[chat[r]] = captured[r]
  BY DEF IInv, ClosuresAgreeWithMap
<1>2. CASE phase[r] = "holding"
  BY <1>1, <1>2 DEF IInv, LockedIffHeld
<1>3. CASE phase[r] = "waiting"
  <2>1. \E i \in 1 .. Len(heap[captured[r]].queue) :
          heap[captured[r]].queue[i] = r
    BY <1>3 DEF IInv, QueuesAreTheWaiters
  <2>2. heap[captured[r]].queue # <<>>
    BY <2>1
  <2> QED BY <1>1, <2>2, ObjectFacts
<1>4. phase[r] \in {"waiting", "holding"}
  BY DEF IInv, TypeOK
<1> QED BY <1>1, <1>2, <1>3, <1>4

(* An object that is not locked is in nobody's closure: it is safe to lock *)
(* it, to drop it, or to allocate it again.                                *)
LEMMA UnlockedIsUncaptured ==
  ASSUME IInv, NEW o \in Object, ~heap[o].locked, NEW r \in Request
  PROVE  captured[r] # o
<1>1. CASE phase[r] = "idle"
  BY <1>1, ChatLocksAssumption DEF IInv, ClosuresAgreeWithMap
<1>2. CASE phase[r] # "idle"
  BY <1>2, BusyFacts
<1> QED BY <1>1, <1>2

(* What acquireChatLock works on. *)
LEMMA ResolvesFacts ==
  ASSUME IInv, NEW c \in Chat, NEW o \in Object, Resolves(c, o)
  PROVE  /\ Fields(c, o) \in MutexState(Request)
         /\ chatLocks[c] \in {NoObject, o}
         /\ \A d \in Chat : chatLocks[d] = o => d = c
         /\ Fields(c, o).locked => chatLocks[c] = o /\ Fields(c, o) = heap[o]
         /\ ~Fields(c, o).locked => Fields(c, o).queue = <<>>
         /\ ~Fields(c, o).locked => \A r \in Request : captured[r] # o
<1>1. CASE chatLocks[c] = NoObject
  <2>1. ~Reachable(o) /\ Fields(c, o) = NewMutex
    BY <1>1 DEF Resolves, Fields
  <2>2. /\ \A d \in Chat : chatLocks[d] # o
        /\ \A r \in Request : captured[r] # o
    BY <2>1 DEF Reachable
  <2> QED BY <1>1, <2>1, <2>2, NewMutexType
<1>2. CASE chatLocks[c] # NoObject
  <2>1. o = chatLocks[c] /\ Fields(c, o) = heap[o]
    BY <1>2 DEF Resolves, Fields
  <2>2. \A d \in Chat : chatLocks[d] = o => d = c
    BY <1>2, <2>1 DEF IInv, ClosuresAgreeWithMap
  <2> QED BY <2>1, <2>2, ObjectFacts, UnlockedIsUncaptured
<1> QED BY <1>1, <1>2

-----------------------------------------------------------------------------
(* The inductive invariant *)

LEMMA InitInv == Init => IInv
<1> SUFFICES ASSUME Init PROVE IInv
  OBVIOUS
<1> USE ChatLocksAssumption DEF Init
<1>1. TypeOK
  BY NewMutexType DEF TypeOK
<1>2. ClosuresAgreeWithMap
  BY DEF ClosuresAgreeWithMap
<1>3. QueuesAreTheWaiters
  BY DEF QueuesAreTheWaiters, NewMutex
<1>4. LockedIffHeld
  BY DEF LockedIffHeld, NewMutex
<1> QED BY <1>1, <1>2, <1>3, <1>4 DEF IInv

LEMMA AcquireFreeInv ==
  ASSUME IInv, NEW r \in Request, NEW c \in Chat, NEW o \in Object,
         AcquireFree(r, c, o)
  PROVE  IInv'
<1>1. /\ TypeOK /\ ClosuresAgreeWithMap /\ QueuesAreTheWaiters /\ LockedIffHeld
      /\ phase[r] = "idle" /\ Resolves(c, o) /\ ~Fields(c, o).locked
  BY DEF IInv, AcquireFree
<1>2. /\ chatLocks[c] \in {NoObject, o}
      /\ \A d \in Chat : chatLocks[d] = o => d = c
      /\ \A p \in Request : captured[p] # o
  BY <1>1, ResolvesFacts
<1>3. PICK m \in MutexState(Request) :
        m.locked /\ m.queue = <<>> /\ heap' = [heap EXCEPT ![o] = m]
  <2>1. Fields(c, o) \in MutexState(Request) /\ Fields(c, o).queue = <<>>
    BY <1>1, ResolvesFacts
  <2>2. /\ Lock(Fields(c, o)) \in MutexState(Request)
        /\ Lock(Fields(c, o)).locked
        /\ Lock(Fields(c, o)).queue = <<>>
    BY <2>1, LockProperties
  <2>3. heap' = [heap EXCEPT ![o] = Lock(Fields(c, o))]
    BY DEF AcquireFree
  <2> QED BY <2>2, <2>3, Zenon
<1>4. /\ chatLocks' = [chatLocks EXCEPT ![c] = o]
      /\ phase' = [phase EXCEPT ![r] = "holding"]
      /\ captured' = [captured EXCEPT ![r] = o]
      /\ chat' = [chat EXCEPT ![r] = c]
  BY DEF AcquireFree, Enter
<1>5. TypeOK'
  BY <1>1, <1>3, <1>4 DEF TypeOK
<1>6. ClosuresAgreeWithMap'
  BY <1>1, <1>2, <1>4, ChatLocksAssumption DEF TypeOK, ClosuresAgreeWithMap
<1>7. QueuesAreTheWaiters'
  BY <1>1, <1>2, <1>3, <1>4, BusyFacts DEF TypeOK, QueuesAreTheWaiters
<1>8. LockedIffHeld'
  BY <1>1, <1>2, <1>3, <1>4 DEF TypeOK, LockedIffHeld
<1> QED BY <1>5, <1>6, <1>7, <1>8 DEF IInv

LEMMA AcquireQueuedInv ==
  ASSUME IInv, NEW r \in Request, NEW c \in Chat, NEW o \in Object,
         AcquireQueued(r, c, o)
  PROVE  IInv'
<1>1. /\ TypeOK /\ ClosuresAgreeWithMap /\ QueuesAreTheWaiters /\ LockedIffHeld
      /\ phase[r] = "idle" /\ Resolves(c, o) /\ Fields(c, o).locked
  BY DEF IInv, AcquireQueued
<1>2. chatLocks[c] = o /\ heap[o].locked
  BY <1>1, ResolvesFacts
<1>3. \A j \in 1 .. Len(heap[o].queue) : heap[o].queue[j] # r
  BY <1>1 DEF QueuesAreTheWaiters
<1> DEFINE q == heap[o].queue
           m == heap'[o]
<1>4. heap' = [heap EXCEPT ![o] = Enqueue(@, r)]
  BY DEF AcquireQueued
<1>5. /\ m \in MutexState(Request)
      /\ m.locked = heap[o].locked
      /\ m.queue = Append(q, r)
  BY <1>1, <1>4, ObjectFacts, EnqueueProperties DEF TypeOK
<1>6. /\ Len(q) \in Nat
      /\ Len(m.queue) = Len(q) + 1
      /\ \A j \in 1 .. Len(q) : m.queue[j] = q[j]
      /\ m.queue[Len(q) + 1] = r
      /\ NoDuplicates(m.queue)
  BY <1>3, <1>5, ObjectFacts, AppendNoDuplicates
<1>7. heap' = [heap EXCEPT ![o] = m]
  BY <1>1, <1>4 DEF TypeOK
<1>8. /\ chatLocks' = chatLocks
      /\ phase' = [phase EXCEPT ![r] = "waiting"]
      /\ captured' = [captured EXCEPT ![r] = o]
      /\ chat' = [chat EXCEPT ![r] = c]
  BY DEF AcquireQueued, Enter
<1> HIDE DEF m, q
<1>9. TypeOK'
  BY <1>1, <1>5, <1>7, <1>8 DEF TypeOK
<1>10. ClosuresAgreeWithMap'
  BY <1>1, <1>2, <1>8 DEF TypeOK, ClosuresAgreeWithMap
<1>11. QueuesAreTheWaiters'
  <2>1. ASSUME NEW x \in Object, NEW i \in 1 .. Len(heap'[x].queue)
        PROVE  phase'[heap'[x].queue[i]] = "waiting" /\ captured'[heap'[x].queue[i]] = x
    BY <1>1, <1>6, <1>7, <1>8, <2>1, ObjectFacts DEF TypeOK, QueuesAreTheWaiters, q
  <2>2. ASSUME NEW x \in Object, NEW i \in 1 .. Len(heap'[x].queue),
               NEW j \in 1 .. Len(heap'[x].queue), heap'[x].queue[i] = heap'[x].queue[j]
        PROVE  i = j
    BY <1>1, <1>6, <1>7, <2>2 DEF TypeOK, QueuesAreTheWaiters, NoDuplicates
  <2>3. ASSUME NEW p \in Request, phase'[p] = "waiting"
        PROVE  \E i \in 1 .. Len(heap'[captured'[p]].queue) :
                 heap'[captured'[p]].queue[i] = p
    BY <1>1, <1>6, <1>7, <1>8, <2>3, BusyFacts DEF TypeOK, QueuesAreTheWaiters, q
  <2> QED BY <2>1, <2>2, <2>3 DEF QueuesAreTheWaiters
<1>12. LockedIffHeld'
  BY <1>1, <1>2, <1>5, <1>7, <1>8 DEF TypeOK, LockedIffHeld
<1> QED BY <1>9, <1>10, <1>11, <1>12 DEF IInv

LEMMA AcquireAbortedInv ==
  ASSUME IInv, NEW r \in Request, NEW c \in Chat, NEW o \in Object,
         AcquireAborted(r, c, o)
  PROVE  IInv'
<1>1. /\ TypeOK /\ ClosuresAgreeWithMap /\ QueuesAreTheWaiters /\ LockedIffHeld
      /\ Resolves(c, o)
      /\ chatLocks' = [chatLocks EXCEPT ![c] = o]
      /\ heap' = [heap EXCEPT ![o] = Fields(c, o)]
      /\ UNCHANGED <<phase, captured, chat>>
  BY DEF IInv, AcquireAborted
<1>2. CASE Fields(c, o).locked
  <2>1. chatLocks' = chatLocks /\ heap' = heap
    BY <1>1, <1>2, ResolvesFacts DEF TypeOK
  <2> QED BY <1>1, <2>1
          DEF IInv, TypeOK, ClosuresAgreeWithMap, QueuesAreTheWaiters, LockedIffHeld
<1>3. CASE ~Fields(c, o).locked
  <2>1. /\ chatLocks[c] \in {NoObject, o}
        /\ \A d \in Chat : chatLocks[d] = o => d = c
        /\ \A p \in Request : captured[p] # o
    BY <1>1, <1>3, ResolvesFacts
  <2>2. PICK m \in MutexState(Request) :
          ~m.locked /\ m.queue = <<>> /\ heap' = [heap EXCEPT ![o] = m]
    <3>1. Fields(c, o) \in MutexState(Request) /\ Fields(c, o).queue = <<>>
      BY <1>1, <1>3, ResolvesFacts
    <3> QED BY <1>1, <1>3, <3>1, Zenon
  <2>3. TypeOK'
    BY <1>1, <2>2 DEF TypeOK
  <2>4. ClosuresAgreeWithMap'
    BY <1>1, <2>1, ChatLocksAssumption DEF TypeOK, ClosuresAgreeWithMap
  <2>5. QueuesAreTheWaiters'
    BY <1>1, <2>1, <2>2, BusyFacts DEF TypeOK, QueuesAreTheWaiters
  <2>6. LockedIffHeld'
    BY <1>1, <2>1, <2>2 DEF TypeOK, LockedIffHeld
  <2> QED BY <2>3, <2>4, <2>5, <2>6 DEF IInv
<1> QED BY <1>2, <1>3

LEMMA WaiterGivesUpInv ==
  ASSUME IInv, NEW r \in Request, WaiterGivesUp(r)
  PROVE  IInv'
<1>1. /\ TypeOK /\ ClosuresAgreeWithMap /\ QueuesAreTheWaiters /\ LockedIffHeld
      /\ phase[r] = "waiting"
  BY DEF IInv, WaiterGivesUp
<1>2. PICK o \in Object : o = captured[r] /\ chatLocks[chat[r]] = o /\ heap[o].locked
  BY <1>1, BusyFacts
<1>3. PICK q \in Seq(Request) : q = heap[o].queue /\ NoDuplicates(q)
  BY ObjectFacts
<1>4. PICK i \in 1 .. Len(q) :
        q[i] = r /\ heap' = [heap EXCEPT ![o] = Withdraw(heap[o], i)]
  BY <1>2, <1>3 DEF WaiterGivesUp
<1>5. PICK m \in MutexState(Request) :
        /\ m = Withdraw(heap[o], i)
        /\ m.locked = heap[o].locked
        /\ IsWithout(m.queue, q, r)
  BY <1>3, <1>4, ObjectFacts, WithdrawProperties
<1>6. /\ NoDuplicates(m.queue)
      /\ \A j \in 1 .. Len(m.queue) :
           m.queue[j] # r /\ \E k \in 1 .. Len(q) : q[k] = m.queue[j]
      /\ \A j \in 1 .. Len(q) : q[j] # r => \E k \in 1 .. Len(m.queue) : m.queue[k] = q[j]
  BY <1>5 DEF IsWithout
<1>7. heap' = [heap EXCEPT ![o] = m]
  BY <1>4, <1>5
<1>8. /\ chatLocks' = chatLocks
      /\ phase' = [phase EXCEPT ![r] = "idle"]
      /\ captured' = [captured EXCEPT ![r] = NoObject]
      /\ chat' = [chat EXCEPT ![r] = NoChat]
  BY DEF WaiterGivesUp, Leaves
<1>9. TypeOK'
  BY <1>1, <1>2, <1>5, <1>7, <1>8 DEF TypeOK
<1>10. ClosuresAgreeWithMap'
  BY <1>1, <1>8 DEF TypeOK, ClosuresAgreeWithMap
<1>11. QueuesAreTheWaiters'
  <2>1. ASSUME NEW x \in Object, NEW j \in 1 .. Len(heap'[x].queue)
        PROVE  phase'[heap'[x].queue[j]] = "waiting" /\ captured'[heap'[x].queue[j]] = x
    <3>1. CASE x = o
      <4>1. heap'[x].queue = m.queue
        BY <1>1, <1>7, <3>1 DEF TypeOK
      <4>2. PICK k \in 1 .. Len(q) : m.queue[j] = q[k] /\ q[k] # r
        BY <1>6, <4>1
      <4>3. phase[q[k]] = "waiting" /\ captured[q[k]] = o /\ q[k] \in Request
        BY <1>1, <1>3 DEF QueuesAreTheWaiters
      <4> QED BY <1>1, <1>8, <3>1, <4>1, <4>2, <4>3 DEF TypeOK
    <3>2. CASE x # o
      <4>1. heap'[x].queue = heap[x].queue
        BY <1>1, <1>7, <3>2 DEF TypeOK
      <4>2. /\ phase[heap[x].queue[j]] = "waiting" /\ captured[heap[x].queue[j]] = x
            /\ heap[x].queue[j] \in Request
        BY <1>1, <4>1, ObjectFacts DEF QueuesAreTheWaiters
      <4> QED BY <1>1, <1>2, <1>8, <3>2, <4>1, <4>2 DEF TypeOK
    <3> QED BY <3>1, <3>2
  <2>2. ASSUME NEW x \in Object, NEW i1 \in 1 .. Len(heap'[x].queue),
               NEW j \in 1 .. Len(heap'[x].queue), heap'[x].queue[i1] = heap'[x].queue[j]
        PROVE  i1 = j
    BY <1>1, <1>6, <1>7, <2>2 DEF TypeOK, QueuesAreTheWaiters, NoDuplicates
  <2>3. ASSUME NEW p \in Request, phase'[p] = "waiting"
        PROVE  \E j \in 1 .. Len(heap'[captured'[p]].queue) :
                 heap'[captured'[p]].queue[j] = p
    <3>1. p # r /\ phase[p] = "waiting" /\ captured'[p] = captured[p]
      BY <1>1, <1>8, <2>3 DEF TypeOK
    <3>2. PICK j \in 1 .. Len(heap[captured[p]].queue) : heap[captured[p]].queue[j] = p
      BY <1>1, <3>1 DEF QueuesAreTheWaiters
    <3>3. captured[p] \in Object
      BY <3>1, BusyFacts
    <3>4. CASE captured[p] = o
      <4>1. PICK k \in 1 .. Len(m.queue) : m.queue[k] = p
        BY <1>3, <1>6, <3>1, <3>2, <3>4
      <4>2. heap'[captured'[p]] = m
        BY <1>1, <1>2, <1>7, <3>1, <3>4 DEF TypeOK
      <4> QED BY <4>1, <4>2
    <3>5. CASE captured[p] # o
      <4>1. heap'[captured'[p]] = heap[captured[p]]
        BY <1>1, <1>7, <3>1, <3>3, <3>5 DEF TypeOK
      <4> QED BY <3>2, <4>1
    <3> QED BY <3>4, <3>5
  <2> QED BY <2>1, <2>2, <2>3 DEF QueuesAreTheWaiters
<1>12. LockedIffHeld'
  <2>1. /\ \A x \in Object : heap'[x].locked = heap[x].locked
        /\ \A x \in Object : x # o => heap'[x].queue = heap[x].queue
    BY <1>1, <1>2, <1>5, <1>7 DEF TypeOK
  <2>2. \A p \in Request : /\ phase'[p] = "holding" <=> phase[p] = "holding"
                           /\ phase[p] = "holding" => captured'[p] = captured[p]
    BY <1>1, <1>8 DEF TypeOK
  <2> QED BY <1>1, <1>2, <2>1, <2>2 DEF LockedIffHeld
<1> QED BY <1>9, <1>10, <1>11, <1>12 DEF IInv

LEMMA ReleaseChatInv ==
  ASSUME IInv, NEW r \in Request, ReleaseChat(r)
  PROVE  IInv'
<1>1. /\ TypeOK /\ ClosuresAgreeWithMap /\ QueuesAreTheWaiters /\ LockedIffHeld
      /\ phase[r] = "holding"
  BY DEF IInv, ReleaseChat
<1>2. PICK o \in Object : /\ o = captured[r] /\ chat[r] \in Chat
                         /\ chatLocks[chat[r]] = o /\ heap[o].locked
  BY <1>1, BusyFacts
<1>3. PICK q \in Seq(Request) : q = heap[o].queue /\ NoDuplicates(q)
  BY ObjectFacts
<1>4. PICK m \in MutexState(Request) : m = Release(heap[o])
  BY <1>3, ObjectFacts, ReleaseProperties
<1>5. /\ heap' = [heap EXCEPT ![o] = m]
      /\ phase' = [p \in Request |->
                     IF p = r THEN "idle"
                     ELSE IF p \in Woken(heap[o]) /\ phase[p] = "waiting"
                          THEN "holding"
                          ELSE phase[p]]
      /\ chatLocks' = IF DropsEntry(m)
                      THEN [chatLocks EXCEPT ![chat[r]] = NoObject]
                      ELSE chatLocks
      /\ captured' = [captured EXCEPT ![r] = NoObject]
      /\ chat' = [chat EXCEPT ![r] = NoChat]
  BY <1>2, <1>4 DEF ReleaseChat, Leaves
<1>6. \A p \in Request : p # r /\ phase[p] = "holding" => captured[p] # o
  BY <1>1, <1>2 DEF LockedIffHeld
<1>7. TypeOK'
  BY <1>1, <1>2, <1>5 DEF TypeOK
\* Nobody waits: the lock becomes free and the map forgets the object.
<1>8. CASE q = <<>>
  <2>1. ~m.locked /\ m.queue = <<>> /\ Woken(heap[o]) = {}
    BY <1>3, <1>4, <1>8, ObjectFacts, ReleaseProperties
  <2>2. chatLocks' = [chatLocks EXCEPT ![chat[r]] = NoObject]
    BY <1>5, <2>1 DEF DropsEntry, IsIdle
  <2>3. phase' = [phase EXCEPT ![r] = "idle"]
    BY <1>1, <1>5, <2>1 DEF TypeOK
  <2>4. \A p \in Request : p # r => captured[p] # o
    <3>1. ASSUME NEW p \in Request, p # r, captured[p] = o PROVE FALSE
      <4>1. CASE phase[p] = "waiting"
        <5>1. \E i \in 1 .. Len(heap[captured[p]].queue) : heap[captured[p]].queue[i] = p
          BY <1>1, <4>1 DEF QueuesAreTheWaiters
        <5>2. \E i \in 1 .. Len(q) : q[i] = p
          BY <1>3, <3>1, <5>1
        <5> QED BY <1>8, <5>2
      <4>2. CASE phase[p] = "holding"
        BY <1>6, <3>1, <4>2
      <4>3. CASE phase[p] = "idle"
        BY <1>1, <3>1, <4>3, ChatLocksAssumption DEF ClosuresAgreeWithMap
      <4> QED BY <1>1, <3>1, <4>1, <4>2, <4>3 DEF TypeOK
    <3> QED BY <3>1
  <2>5. ClosuresAgreeWithMap'
    <3>1. ASSUME NEW p \in Request
          PROVE  IF phase'[p] = "idle"
                 THEN captured'[p] = NoObject /\ chat'[p] = NoChat
                 ELSE /\ chat'[p] \in Chat
                      /\ captured'[p] \in Object
                      /\ chatLocks'[chat'[p]] = captured'[p]
      <4>1. CASE p = r
        BY <1>1, <1>5, <2>3, <4>1 DEF TypeOK
      <4>2. CASE p # r
        <5>1. chat[p] # chat[r] \/ phase[p] = "idle"
          BY <1>1, <1>2, <2>4, <4>2 DEF ClosuresAgreeWithMap
        <5> QED BY <1>1, <1>5, <2>2, <2>3, <4>2, <5>1 DEF TypeOK, ClosuresAgreeWithMap
      <4> QED BY <4>1, <4>2
    <3>2. ASSUME NEW c \in Chat, NEW d \in Chat,
                 chatLocks'[c] = chatLocks'[d], chatLocks'[c] # NoObject
          PROVE  c = d
      BY <1>1, <2>2, <3>2 DEF TypeOK, ClosuresAgreeWithMap
    <3> QED BY <3>1, <3>2 DEF ClosuresAgreeWithMap
  <2>6. QueuesAreTheWaiters'
    BY <1>1, <1>2, <1>5, <2>1, <2>3, <2>4, BusyFacts, ObjectFacts
       DEF TypeOK, QueuesAreTheWaiters
  <2>7. LockedIffHeld'
    BY <1>1, <1>2, <1>5, <2>1, <2>3, <2>4, ChatLocksAssumption DEF TypeOK, LockedIffHeld
  <2> QED BY <1>7, <2>5, <2>6, <2>7 DEF IInv
\* The head of the queue holds the lock, which was never free meanwhile.
<1>9. CASE q # <<>>
  <2>1. PICK w \in Request : w = q[1]
    BY <1>9, TailProperties
  <2>2. m.locked /\ m.queue = Tail(q) /\ Woken(heap[o]) = {w}
    BY <1>2, <1>3, <1>4, <1>9, <2>1, ObjectFacts, ReleaseProperties
  <2>3. IsWithout(Tail(q), q, w)
    BY <1>3, <1>9, <2>1, TailIsWithout
  <2>4. /\ NoDuplicates(m.queue)
        /\ \A j \in 1 .. Len(m.queue) :
             m.queue[j] # w /\ \E k \in 1 .. Len(q) : q[k] = m.queue[j]
        /\ \A j \in 1 .. Len(q) : q[j] # w => \E k \in 1 .. Len(m.queue) : m.queue[k] = q[j]
    BY <2>2, <2>3 DEF IsWithout
  <2>5. 1 \in 1 .. Len(q)
    BY <1>9
  <2>6. phase[w] = "waiting" /\ captured[w] = o /\ w # r
    BY <1>1, <1>3, <2>1, <2>5 DEF QueuesAreTheWaiters
  <2>7. chatLocks' = chatLocks
    BY <1>5, <2>2 DEF DropsEntry, IsIdle
  <2>8. phase' = [phase EXCEPT ![r] = "idle", ![w] = "holding"]
    BY <1>1, <1>5, <2>2, <2>6 DEF TypeOK
  <2>9. ClosuresAgreeWithMap'
    BY <1>1, <1>5, <2>6, <2>7, <2>8 DEF TypeOK, ClosuresAgreeWithMap
  <2>10. QueuesAreTheWaiters'
    <3>1. ASSUME NEW x \in Object, NEW j \in 1 .. Len(heap'[x].queue)
          PROVE  /\ phase'[heap'[x].queue[j]] = "waiting"
                 /\ captured'[heap'[x].queue[j]] = x
      <4>1. CASE x = o
        <5>1. heap'[x].queue = m.queue
          BY <1>1, <1>5, <4>1 DEF TypeOK
        <5>2. PICK k \in 1 .. Len(q) : q[k] = m.queue[j] /\ q[k] # w
          BY <2>4, <5>1
        <5>3. phase[q[k]] = "waiting" /\ captured[q[k]] = o /\ q[k] \in Request
          BY <1>1, <1>3 DEF QueuesAreTheWaiters
        <5> QED BY <1>1, <1>5, <2>8, <4>1, <5>1, <5>2, <5>3 DEF TypeOK
      <4>2. CASE x # o
        <5>1. heap'[x].queue = heap[x].queue
          BY <1>1, <1>5, <4>2 DEF TypeOK
        <5>2. /\ phase[heap[x].queue[j]] = "waiting" /\ captured[heap[x].queue[j]] = x
              /\ heap[x].queue[j] \in Request
          BY <1>1, <5>1, ObjectFacts DEF QueuesAreTheWaiters
        <5> QED BY <1>1, <1>2, <1>5, <2>6, <2>8, <4>2, <5>1, <5>2 DEF TypeOK
      <4> QED BY <4>1, <4>2
    <3>2. ASSUME NEW x \in Object, NEW i \in 1 .. Len(heap'[x].queue),
                 NEW j \in 1 .. Len(heap'[x].queue),
                 heap'[x].queue[i] = heap'[x].queue[j]
          PROVE  i = j
      BY <1>1, <1>5, <2>4, <3>2 DEF TypeOK, QueuesAreTheWaiters, NoDuplicates
    <3>3. ASSUME NEW p \in Request, phase'[p] = "waiting"
          PROVE  \E j \in 1 .. Len(heap'[captured'[p]].queue) :
                   heap'[captured'[p]].queue[j] = p
      <4>1. p # r /\ p # w /\ phase[p] = "waiting" /\ captured'[p] = captured[p]
        BY <1>1, <1>5, <2>8, <3>3 DEF TypeOK
      <4>2. PICK j \in 1 .. Len(heap[captured[p]].queue) : heap[captured[p]].queue[j] = p
        BY <1>1, <4>1 DEF QueuesAreTheWaiters
      <4>3. captured[p] \in Object
        BY <4>1, BusyFacts
      <4>4. CASE captured[p] = o
        <5>1. PICK k \in 1 .. Len(m.queue) : m.queue[k] = p
          BY <1>3, <2>4, <4>1, <4>2, <4>4
        <5>2. heap'[captured'[p]] = m
          BY <1>1, <1>5, <4>1, <4>4 DEF TypeOK
        <5> QED BY <5>1, <5>2
      <4>5. CASE captured[p] # o
        <5>1. heap'[captured'[p]] = heap[captured[p]]
          BY <1>1, <1>5, <4>1, <4>3, <4>5 DEF TypeOK
        <5> QED BY <4>2, <5>1
      <4> QED BY <4>4, <4>5
    <3> QED BY <3>1, <3>2, <3>3 DEF QueuesAreTheWaiters
  <2>11. LockedIffHeld'
    <3>1. ASSUME NEW x \in Object
          PROVE  heap'[x].locked <=>
                   \E p \in Request : phase'[p] = "holding" /\ captured'[p] = x
      <4>1. CASE x = o
        BY <1>1, <1>5, <2>2, <2>6, <2>8, <4>1 DEF TypeOK
      <4>2. CASE x # o
        BY <1>1, <1>2, <1>5, <2>6, <2>8, <4>2, ChatLocksAssumption DEF TypeOK, LockedIffHeld
      <4> QED BY <4>1, <4>2
    <3>2. ASSUME NEW p \in Request, NEW s \in Request, phase'[p] = "holding",
                 phase'[s] = "holding", captured'[p] = captured'[s]
          PROVE  p = s
      BY <1>1, <1>2, <1>5, <1>6, <2>6, <2>8, <3>2 DEF TypeOK, LockedIffHeld
    <3>3. ASSUME NEW x \in Object, ~heap'[x].locked PROVE heap'[x].queue = <<>>
      BY <1>1, <1>5, <2>2, <3>3 DEF TypeOK, LockedIffHeld
    <3> QED BY <3>1, <3>2, <3>3 DEF LockedIffHeld
  <2> QED BY <1>7, <2>9, <2>10, <2>11 DEF IInv
<1> QED BY <1>8, <1>9

LEMMA StutterInv ==
  ASSUME IInv, UNCHANGED vars
  PROVE  IInv'
BY DEF IInv, vars, TypeOK, ClosuresAgreeWithMap, QueuesAreTheWaiters, LockedIffHeld

LEMMA NextInv ==
  ASSUME IInv, [Next]_vars
  PROVE  IInv'
<1>1. CASE UNCHANGED vars
  BY <1>1, StutterInv
<1>2. CASE Next
  <2>1. PICK r \in Request : RequestStep(r)
    BY <1>2 DEF Next
  <2>2. CASE \E c \in Chat, o \in Object : AcquireFree(r, c, o)
    BY <2>2, AcquireFreeInv
  <2>3. CASE \E c \in Chat, o \in Object : AcquireQueued(r, c, o)
    BY <2>3, AcquireQueuedInv
  <2>4. CASE \E c \in Chat, o \in Object : AcquireAborted(r, c, o)
    BY <2>4, AcquireAbortedInv
  <2>5. CASE WaiterGivesUp(r)
    BY <2>5, WaiterGivesUpInv
  <2>6. CASE ReleaseChat(r)
    BY <2>6, ReleaseChatInv
  <2> QED BY <2>1, <2>2, <2>3, <2>4, <2>5, <2>6 DEF RequestStep
<1> QED BY <1>1, <1>2

(* The invariant holds of every behaviour: every closure works on the      *)
(* object the map has, queues and waiters agree, no lock is lost.          *)
THEOREM InvariantHolds == Spec => []IInv
<1>1. IInv /\ [Next]_vars => IInv'
  BY NextInv
<1> QED BY InitInv, <1>1, PTL DEF Spec

(* Every variable keeps its type. *)
THEOREM TypeCorrect == Spec => []TypeOK
<1>1. IInv => TypeOK
  BY DEF IInv
<1> QED BY InvariantHolds, <1>1, PTL

(* acquireChatLock gives a chat to one request at a time, however the map's *)
(* entries come and go: because holders of one chat captured one object,   *)
(* and an object has one holder.                                           *)
THEOREM MutualExclusionHolds == Spec => []MutualExclusion
<1>1. ASSUME IInv PROVE MutualExclusion
  <2>1. SUFFICES ASSUME NEW r \in Request, NEW s \in Request,
                        phase[r] = "holding", phase[s] = "holding", chat[r] = chat[s]
                 PROVE  r = s
    BY DEF MutualExclusion
  <2>2. captured[r] = captured[s]
    BY <1>1, <2>1 DEF IInv, ClosuresAgreeWithMap
  <2> QED BY <1>1, <2>1, <2>2 DEF IInv, LockedIffHeld
<1> QED BY InvariantHolds, <1>1, PTL

-----------------------------------------------------------------------------
(* ChatLocks implements ChatLine: what the mapping makes of a state *)

Holds(r, c) == phase[r] = "holding" /\ chat[r] = c

(* The line of a chat is its holder and the queue of the object it         *)
(* captured; without a holder nobody is in the line.                       *)
LinesOfHolders ==
  \A c \in Chat :
    /\ (\A r \in Request : ~Holds(r, c)) => LineOf(c) = <<>>
    /\ \A r \in Request : Holds(r, c) =>
         LineOf(c) = <<r>> \o heap[captured[r]].queue

Lines == [c \in Chat |-> LineOf(c)]

LEMMA LinesAreOfHolders == IInv => LinesOfHolders
<1> SUFFICES ASSUME IInv, NEW c \in Chat
             PROVE  /\ (\A r \in Request : ~Holds(r, c)) => LineOf(c) = <<>>
                    /\ \A r \in Request : Holds(r, c) =>
                         LineOf(c) = <<r>> \o heap[captured[r]].queue
  BY DEF LinesOfHolders
<1>1. ASSUME \A r \in Request : ~Holds(r, c) PROVE LineOf(c) = <<>>
  <2>1. Holders(c) = {}
    BY <1>1 DEF Holders, Holds
  <2> QED BY <2>1 DEF LineOf
<1>2. ASSUME NEW r \in Request, Holds(r, c)
      PROVE  LineOf(c) = <<r>> \o heap[captured[r]].queue
  <2>1. chatLocks[c] = captured[r]
    BY <1>2, BusyFacts DEF Holds
  <2>2. \A s \in Request : Holds(s, c) => s = r
    <3>1. SUFFICES ASSUME NEW s \in Request, Holds(s, c) PROVE s = r
      OBVIOUS
    <3>2. chatLocks[c] = captured[s]
      BY <3>1, BusyFacts DEF Holds
    <3> QED BY <1>2, <2>1, <3>1, <3>2 DEF IInv, LockedIffHeld, Holds
  <2>3. Holders(c) = {r}
    BY <1>2, <2>2 DEF Holders, Holds
  <2>4. (CHOOSE s \in Request : s \in {r}) = r
    OBVIOUS
  <2> QED BY <2>1, <2>3, <2>4 DEF LineOf
<1> QED BY <1>1, <1>2

LEMMA LinesAreOfHoldersNext == IInv' => LinesOfHolders'
BY LinesAreOfHolders, PTL

(* Nobody is in a line before it asks. *)
LEMMA IdleIsInNoLine ==
  ASSUME IInv, NEW r \in Request, phase[r] = "idle", NEW c \in Chat
  PROVE  r \notin ToSet(LineOf(c))
<1>1. CASE \A h \in Request : ~Holds(h, c)
  <2>1. LineOf(c) = <<>>
    BY <1>1, LinesAreOfHolders DEF LinesOfHolders
  <2> QED BY <2>1 DEF ToSet
<1>2. CASE \E h \in Request : Holds(h, c)
  <2>1. PICK h \in Request : Holds(h, c)
    BY <1>2
  <2>2. captured[h] \in Object /\ phase[h] = "holding"
    BY <2>1, BusyFacts DEF Holds
  <2>3. PICK q \in Seq(Request) : q = heap[captured[h]].queue
    BY <2>2, ObjectFacts
  <2>4. PICK a : a = <<h>> \o q
    OBVIOUS
  <2>5. /\ a \in Seq(Request) /\ Len(a) = Len(q) + 1 /\ a[1] = h
        /\ \A j \in 1 .. Len(q) : a[j + 1] = q[j]
    BY <2>4, LineProperties
  <2>6. LineOf(c) = a
    BY <2>1, <2>3, <2>4, LinesAreOfHolders DEF LinesOfHolders
  <2>7. \A j \in 1 .. Len(q) : phase[q[j]] = "waiting"
    BY <2>2, <2>3 DEF IInv, QueuesAreTheWaiters
  <2>8. ASSUME NEW k \in 1 .. Len(a), a[k] = r PROVE FALSE
    <3>1. CASE k = 1
      BY <2>2, <2>5, <2>8, <3>1
    <3>2. CASE k # 1
      <4>1. k - 1 \in 1 .. Len(q) /\ k = (k - 1) + 1
        BY <2>5, <3>2
      <4> QED BY <2>5, <2>7, <2>8, <4>1
    <3> QED BY <3>1, <3>2
  <2>9. r \in ToSet(a) <=> \E k \in 1 .. Len(a) : a[k] = r
    BY <2>5, ToSetMembers
  <2> QED BY <2>6, <2>8, <2>9
<1> QED BY <1>1, <1>2

(* A step that leaves a chat its holder, and the holder its queue, leaves  *)
(* the chat its line.                                                      *)
KeepsLine(d) ==
  \A p \in Request :
    /\ Holds(p, d)' <=> Holds(p, d)
    /\ Holds(p, d) => heap'[captured'[p]].queue = heap[captured[p]].queue

LEMMA LineFrame ==
  ASSUME LinesOfHolders, LinesOfHolders', NEW d \in Chat, KeepsLine(d)
  PROVE  LineOf(d)' = LineOf(d)
<1>1. CASE \A p \in Request : ~Holds(p, d)
  <2>1. LineOf(d) = <<>>
    BY <1>1 DEF LinesOfHolders
  <2>2. \A p \in Request : ~Holds(p, d)'
    BY <1>1 DEF KeepsLine
  <2>3. LineOf(d)' = <<>>
    BY <2>2 DEF LinesOfHolders
  <2> QED BY <2>1, <2>3
<1>2. CASE \E p \in Request : Holds(p, d)
  <2>1. PICK p \in Request : Holds(p, d)
    BY <1>2
  <2>2. Holds(p, d)' /\ heap'[captured'[p]].queue = heap[captured[p]].queue
    BY <2>1 DEF KeepsLine
  <2>3. LineOf(d) = <<p>> \o heap[captured[p]].queue
    BY <2>1 DEF LinesOfHolders
  <2>4. LineOf(d)' = <<p>> \o heap'[captured'[p]].queue
    BY <2>2 DEF LinesOfHolders
  <2> QED BY <2>2, <2>3, <2>4
<1> QED BY <1>1, <1>2

LEMMA OneLineChanges ==
  ASSUME IInv, IInv', NEW c \in Chat, \A d \in Chat \ {c} : KeepsLine(d),
         NEW w, LineOf(c)' = w
  PROVE  Lines' = [Lines EXCEPT ![c] = w]
<1>1. LinesOfHolders /\ LinesOfHolders'
  BY LinesAreOfHolders, LinesAreOfHoldersNext
<1>2. \A d \in Chat \ {c} : LineOf(d)' = LineOf(d)
  BY <1>1, LineFrame
<1> QED BY <1>2 DEF Lines

LEMMA NoLineChanges ==
  ASSUME IInv, IInv', \A d \in Chat : KeepsLine(d)
  PROVE  Lines' = Lines
<1>1. LinesOfHolders /\ LinesOfHolders'
  BY LinesAreOfHolders, LinesAreOfHoldersNext
<1>2. \A d \in Chat : LineOf(d)' = LineOf(d)
  BY <1>1, LineFrame
<1> QED BY <1>2 DEF Lines

-----------------------------------------------------------------------------
(* The steps of ChatLocks as steps of ChatLine *)

(* Whoever captured the object of a chat asks for that chat. *)
LEMMA ObjectServesOneChat ==
  ASSUME IInv, NEW p \in Request, NEW c \in Chat, chatLocks[c] # NoObject,
         captured[p] = chatLocks[c]
  PROVE  chat[p] = c
<1>1. phase[p] # "idle"
  BY DEF IInv, ClosuresAgreeWithMap
<1>2. chat[p] \in Chat /\ chatLocks[chat[p]] = captured[p]
  BY <1>1, BusyFacts
<1> QED BY <1>2 DEF IInv, ClosuresAgreeWithMap

(* A request that joins the line of c makes c's line one longer. *)
LEMMA JoinsLine ==
  ASSUME IInv, IInv', NEW r \in Request, NEW c \in Chat, phase[r] = "idle",
         \A d \in Chat \ {c} : KeepsLine(d), LineOf(c)' = Append(LineOf(c), r)
  PROVE  Line!Join(r, c)
<1>1. Lines' = [Lines EXCEPT ![c] = Append(LineOf(c), r)]
  BY OneLineChanges
<1>2. Lines[c] = LineOf(c)
  BY DEF Lines
<1>3. Lines' = [Lines EXCEPT ![c] = Append(Lines[c], r)]
  BY <1>1, <1>2
<1>4. \A d \in Chat : r \notin ToSet(LineOf(d))
  BY IdleIsInNoLine
<1>5. \A d \in Chat : r \notin Line!ToSet(Lines[d])
  BY <1>4 DEF Lines, ToSet, Line!ToSet
<1> QED BY <1>3, <1>5 DEF Line!Join, Line!InLine, Lines

LEMMA AcquireFreeJoins ==
  ASSUME IInv, NEW r \in Request, NEW c \in Chat, NEW o \in Object,
         AcquireFree(r, c, o)
  PROVE  Line!Join(r, c)
<1>1. IInv' /\ LinesOfHolders /\ LinesOfHolders'
  BY AcquireFreeInv, LinesAreOfHolders, LinesAreOfHoldersNext
<1>2. /\ TypeOK /\ phase[r] = "idle" /\ Resolves(c, o) /\ ~Fields(c, o).locked
      /\ phase' = [phase EXCEPT ![r] = "holding"]
      /\ captured' = [captured EXCEPT ![r] = o]
      /\ chat' = [chat EXCEPT ![r] = c]
      /\ heap' = [heap EXCEPT ![o] = Lock(Fields(c, o))]
  BY DEF IInv, AcquireFree, Enter
<1>3. /\ chatLocks[c] \in {NoObject, o}
      /\ \A p \in Request : captured[p] # o
      /\ Fields(c, o) \in MutexState(Request) /\ Fields(c, o).queue = <<>>
  BY <1>2, ResolvesFacts
<1>4. heap'[o].queue = <<>>
  BY <1>2, <1>3, LockProperties DEF TypeOK
\* Nobody holds c: its object is new, or unlocked.
<1>5. \A p \in Request : ~Holds(p, c)
  <2>1. SUFFICES ASSUME NEW p \in Request, Holds(p, c) PROVE FALSE
    OBVIOUS
  <2>2. chatLocks[c] = captured[p] /\ captured[p] \in Object
    BY <2>1, BusyFacts DEF Holds
  <2> QED BY <1>3, <2>2, ChatLocksAssumption
<1>6. LineOf(c) = <<>>
  BY <1>1, <1>5 DEF LinesOfHolders
<1>7. Holds(r, c)' /\ captured'[r] = o
  BY <1>2 DEF TypeOK, Holds
<1>8. LineOf(c)' = <<r>> \o <<>>
  BY <1>1, <1>4, <1>7 DEF LinesOfHolders
<1>9. <<r>> \o <<>> = Append(<<>>, r)
  OBVIOUS
<1>10. ASSUME NEW d \in Chat \ {c} PROVE KeepsLine(d)
  <2>1. ASSUME NEW p \in Request
        PROVE  /\ Holds(p, d)' <=> Holds(p, d)
               /\ Holds(p, d) => heap'[captured'[p]].queue = heap[captured[p]].queue
    <3>1. CASE p = r
      BY <1>2, <3>1 DEF TypeOK, Holds
    <3>2. CASE p # r
      <4>1. Holds(p, d)' <=> Holds(p, d)
        BY <1>2, <3>2 DEF TypeOK, Holds
      <4>2. Holds(p, d) => captured[p] \in Object
        BY BusyFacts DEF Holds
      <4> QED BY <1>2, <1>3, <3>2, <4>1, <4>2 DEF TypeOK
    <3> QED BY <3>1, <3>2
  <2> QED BY <2>1 DEF KeepsLine
<1> QED BY <1>1, <1>2, <1>6, <1>8, <1>9, <1>10, JoinsLine

LEMMA AcquireQueuedJoins ==
  ASSUME IInv, NEW r \in Request, NEW c \in Chat, NEW o \in Object,
         AcquireQueued(r, c, o)
  PROVE  Line!Join(r, c)
<1>1. IInv' /\ LinesOfHolders /\ LinesOfHolders'
  BY AcquireQueuedInv, LinesAreOfHolders, LinesAreOfHoldersNext
<1>2. /\ TypeOK /\ phase[r] = "idle" /\ Resolves(c, o) /\ Fields(c, o).locked
      /\ phase' = [phase EXCEPT ![r] = "waiting"]
      /\ captured' = [captured EXCEPT ![r] = o]
      /\ chat' = [chat EXCEPT ![r] = c]
      /\ heap' = [heap EXCEPT ![o] = Enqueue(@, r)]
  BY DEF IInv, AcquireQueued, Enter
<1>3. chatLocks[c] = o /\ heap[o].locked
  BY <1>2, ResolvesFacts
<1>4. PICK q \in Seq(Request) : q = heap[o].queue
  BY ObjectFacts
<1>5. heap'[o].queue = Append(q, r)
  BY <1>2, <1>4, ObjectFacts, EnqueueProperties DEF TypeOK
<1>6. PICK h \in Request : phase[h] = "holding" /\ captured[h] = o
  BY <1>3 DEF IInv, LockedIffHeld
<1>7. Holds(h, c) /\ h # r
  BY <1>2, <1>3, <1>6, ObjectServesOneChat, ChatLocksAssumption DEF Holds
<1>8. LineOf(c) = <<h>> \o q
  BY <1>1, <1>4, <1>6, <1>7 DEF LinesOfHolders
<1>9. Holds(h, c)' /\ captured'[h] = o
  BY <1>2, <1>6, <1>7 DEF TypeOK, Holds
<1>10. LineOf(c)' = <<h>> \o Append(q, r)
  BY <1>1, <1>5, <1>9 DEF LinesOfHolders
<1>11. <<h>> \o Append(q, r) = Append(<<h>> \o q, r)
  BY LineJoined
<1>12. ASSUME NEW d \in Chat \ {c} PROVE KeepsLine(d)
  <2>1. ASSUME NEW p \in Request
        PROVE  /\ Holds(p, d)' <=> Holds(p, d)
               /\ Holds(p, d) => heap'[captured'[p]].queue = heap[captured[p]].queue
    <3>1. CASE p = r
      BY <1>2, <3>1 DEF TypeOK, Holds
    <3>2. CASE p # r
      <4>1. Holds(p, d)' <=> Holds(p, d)
        BY <1>2, <3>2 DEF TypeOK, Holds
      <4>2. Holds(p, d) => captured[p] \in Object /\ captured[p] # o
        BY <1>3, BusyFacts, ObjectServesOneChat, ChatLocksAssumption DEF Holds
      <4> QED BY <1>2, <3>2, <4>1, <4>2 DEF TypeOK
    <3> QED BY <3>1, <3>2
  <2> QED BY <2>1 DEF KeepsLine
<1> QED BY <1>1, <1>2, <1>8, <1>10, <1>11, <1>12, JoinsLine

(* An aborted call leaves every line as it is. *)
LEMMA AcquireAbortedStutters ==
  ASSUME IInv, NEW r \in Request, NEW c \in Chat, NEW o \in Object,
         AcquireAborted(r, c, o)
  PROVE  Lines' = Lines
<1>1. IInv'
  BY AcquireAbortedInv
<1>2. /\ TypeOK /\ Resolves(c, o)
      /\ heap' = [heap EXCEPT ![o] = Fields(c, o)]
      /\ UNCHANGED <<phase, captured, chat>>
  BY DEF IInv, AcquireAborted
<1>3. ASSUME NEW p \in Request, NEW d \in Chat, Holds(p, d)
      PROVE  heap'[captured'[p]].queue = heap[captured[p]].queue
  <2>1. captured[p] \in Object
    BY <1>3, BusyFacts DEF Holds
  <2>2. CASE Fields(c, o).locked
    BY <1>2, <2>1, <2>2, ResolvesFacts DEF TypeOK
  <2>3. CASE ~Fields(c, o).locked
    BY <1>2, <2>1, <2>3, ResolvesFacts DEF TypeOK
  <2> QED BY <2>2, <2>3
<1>4. \A d \in Chat : KeepsLine(d)
  BY <1>2, <1>3 DEF KeepsLine, Holds
<1> QED BY <1>1, <1>4, NoLineChanges

LEMMA WaiterGivesUpLeavesLine ==
  ASSUME IInv, NEW r \in Request, WaiterGivesUp(r)
  PROVE  Line!LineNext
<1>1. IInv' /\ LinesOfHolders /\ LinesOfHolders'
  BY WaiterGivesUpInv, LinesAreOfHolders, LinesAreOfHoldersNext
<1>2. /\ TypeOK /\ phase[r] = "waiting"
      /\ phase' = [phase EXCEPT ![r] = "idle"]
      /\ captured' = [captured EXCEPT ![r] = NoObject]
      /\ chat' = [chat EXCEPT ![r] = NoChat]
  BY DEF IInv, WaiterGivesUp, Leaves
<1>3. PICK c \in Chat, o \in Object :
        c = chat[r] /\ o = captured[r] /\ chatLocks[c] = o /\ heap[o].locked
  BY <1>2, BusyFacts
<1>4. PICK q \in Seq(Request) : q = heap[o].queue
  BY ObjectFacts
<1>5. PICK i \in 1 .. Len(q) :
        q[i] = r /\ heap' = [heap EXCEPT ![o] = Withdraw(heap[o], i)]
  BY <1>3, <1>4 DEF WaiterGivesUp
<1>6. heap'[o].queue = RemoveAt(q, i)
  BY <1>2, <1>4, <1>5 DEF TypeOK, MutexState, Withdraw
<1>7. PICK h \in Request : phase[h] = "holding" /\ captured[h] = o
  BY <1>3 DEF IInv, LockedIffHeld
<1>8. Holds(h, c) /\ h # r
  BY <1>2, <1>3, <1>7, ObjectServesOneChat, ChatLocksAssumption DEF Holds
<1>9. LineOf(c) = <<h>> \o q
  BY <1>1, <1>4, <1>7, <1>8 DEF LinesOfHolders
<1>10. Holds(h, c)' /\ captured'[h] = o
  BY <1>2, <1>7, <1>8 DEF TypeOK, Holds
<1>11. LineOf(c)' = <<h>> \o RemoveAt(q, i)
  BY <1>1, <1>6, <1>10 DEF LinesOfHolders
<1>12. <<h>> \o RemoveAt(q, i) = RemoveAt(<<h>> \o q, i + 1)
  BY LineWithdrawn
<1>13. ASSUME NEW d \in Chat \ {c} PROVE KeepsLine(d)
  <2>1. ASSUME NEW p \in Request
        PROVE  /\ Holds(p, d)' <=> Holds(p, d)
               /\ Holds(p, d) => heap'[captured'[p]].queue = heap[captured[p]].queue
    <3>1. CASE p = r
      BY <1>2, <3>1 DEF TypeOK, Holds
    <3>2. CASE p # r
      <4>1. Holds(p, d)' <=> Holds(p, d)
        BY <1>2, <3>2 DEF TypeOK, Holds
      <4>2. Holds(p, d) => captured[p] \in Object /\ captured[p] # o
        BY <1>3, BusyFacts, ObjectServesOneChat, ChatLocksAssumption DEF Holds
      <4> QED BY <1>2, <1>5, <3>2, <4>1, <4>2 DEF TypeOK
    <3> QED BY <3>1, <3>2
  <2> QED BY <2>1 DEF KeepsLine
<1>14. PICK a : a = <<h>> \o q
  OBVIOUS
<1>15. Lines[c] = a /\ Len(a) = Len(q) + 1
  BY <1>9, <1>14, LineProperties DEF Lines
<1>16. LineOf(c)' = RemoveAt(Lines[c], i + 1)
  BY <1>11, <1>12, <1>14, <1>15
<1>17. Lines' = [Lines EXCEPT ![c] = RemoveAt(Lines[c], i + 1)]
  BY <1>1, <1>13, <1>16, OneLineChanges
<1>18. i + 1 \in 2 .. Len(Lines[c]) /\ i + 1 \in DOMAIN Lines[c]
  <2>1. a \in Seq(Request)
    BY <1>14, LineProperties
  <2> QED BY <1>15, <2>1
<1>19. Lines' = [Lines EXCEPT ![c] = Line!RemoveAt(Lines[c], i + 1)]
  BY <1>17 DEF RemoveAt, Line!RemoveAt
<1>20. Line!GiveUp(c, i + 1)
  BY <1>18, <1>19 DEF Line!GiveUp, Lines
<1>21. \E k \in DOMAIN Lines[c] : Line!GiveUp(c, k)
  BY <1>18, <1>20
<1> QED BY <1>21 DEF Line!LineNext, Lines

LEMMA ReleaseChatServesLine ==
  ASSUME IInv, NEW r \in Request, ReleaseChat(r)
  PROVE  Line!LineNext
<1>1. IInv' /\ LinesOfHolders /\ LinesOfHolders'
  BY ReleaseChatInv, LinesAreOfHolders, LinesAreOfHoldersNext
<1>2. TypeOK /\ phase[r] = "holding"
  BY DEF IInv, ReleaseChat
<1>3. PICK c \in Chat, o \in Object :
        c = chat[r] /\ o = captured[r] /\ chatLocks[c] = o /\ heap[o].locked
  BY <1>2, BusyFacts
<1>4. PICK q \in Seq(Request) : q = heap[o].queue /\ NoDuplicates(q)
  BY ObjectFacts
<1>5. PICK m \in MutexState(Request) : m = Release(heap[o])
  BY <1>4, ObjectFacts, ReleaseProperties
<1>6. /\ heap' = [heap EXCEPT ![o] = m]
      /\ phase' = [p \in Request |->
                     IF p = r THEN "idle"
                     ELSE IF p \in Woken(heap[o]) /\ phase[p] = "waiting"
                          THEN "holding"
                          ELSE phase[p]]
      /\ captured' = [captured EXCEPT ![r] = NoObject]
      /\ chat' = [chat EXCEPT ![r] = NoChat]
  BY <1>3, <1>5 DEF ReleaseChat, Leaves
<1>7. Holds(r, c) /\ LineOf(c) = <<r>> \o q
  BY <1>1, <1>2, <1>3, <1>4 DEF LinesOfHolders, Holds
<1>8. \A p \in Request : p # r => ~Holds(p, c)
  <2>1. SUFFICES ASSUME NEW p \in Request, p # r, Holds(p, c) PROVE FALSE
    OBVIOUS
  <2>2. captured[p] = o
    BY <1>3, <2>1, BusyFacts DEF Holds
  <2> QED BY <1>2, <1>3, <2>1, <2>2 DEF IInv, LockedIffHeld, Holds
\* The waiters of another chat are not woken.
<1>9. \A p \in Woken(heap[o]) : p \in Request => chat[p] = c /\ p # r
  <2>1. CASE q = <<>>
    BY <1>4, <2>1, ObjectFacts, ReleaseProperties
  <2>2. CASE q # <<>>
    <3>0. 1 \in 1 .. Len(q)
      BY <2>2
    <3>1. Woken(heap[o]) = {q[1]}
      BY <1>4, <2>2, ObjectFacts, ReleaseProperties
    <3>2. phase[q[1]] = "waiting" /\ captured[q[1]] = o
      BY <1>4, <3>0 DEF IInv, QueuesAreTheWaiters
    <3> QED BY <1>2, <1>3, <3>1, <3>2, ObjectServesOneChat, ChatLocksAssumption
  <2> QED BY <2>1, <2>2
<1>10. ASSUME NEW d \in Chat \ {c} PROVE KeepsLine(d)
  <2>1. ASSUME NEW p \in Request
        PROVE  /\ Holds(p, d)' <=> Holds(p, d)
               /\ Holds(p, d) => heap'[captured'[p]].queue = heap[captured[p]].queue
    <3>1. CASE p = r
      BY <1>2, <1>3, <1>6, <3>1 DEF TypeOK, Holds
    <3>2. CASE p # r
      <4>1. Holds(p, d)' <=> Holds(p, d)
        BY <1>2, <1>6, <1>9, <3>2 DEF TypeOK, Holds
      <4>2. Holds(p, d) => captured[p] \in Object /\ captured[p] # o
        BY <1>3, BusyFacts, ObjectServesOneChat, ChatLocksAssumption DEF Holds
      <4> QED BY <1>2, <1>6, <3>2, <4>1, <4>2 DEF TypeOK
    <3> QED BY <3>1, <3>2
  <2> QED BY <2>1 DEF KeepsLine
\* Without waiters the line ends, and otherwise its second is now first.
<1>11. LineOf(c)' = q
  <2>1. CASE q = <<>>
    <3>1. Woken(heap[o]) = {}
      BY <1>4, <2>1, ObjectFacts, ReleaseProperties
    <3>2. \A p \in Request : ~Holds(p, c)'
      BY <1>2, <1>6, <1>8, <3>1, ChatLocksAssumption DEF TypeOK, Holds
    <3> QED BY <1>1, <2>1, <3>2 DEF LinesOfHolders
  <2>2. CASE q # <<>>
    <3>1. PICK w \in Request : w = q[1]
      BY <2>2, TailProperties
    <3>2. Woken(heap[o]) = {w} /\ m.queue = Tail(q)
      BY <1>4, <1>5, <2>2, <3>1, ObjectFacts, ReleaseProperties
    <3>3. 1 \in 1 .. Len(q)
      BY <2>2
    <3>4. phase[w] = "waiting" /\ captured[w] = o
      BY <1>4, <3>1, <3>3 DEF IInv, QueuesAreTheWaiters
    <3>5. chat[w] = c /\ w # r
      BY <1>9, <3>2
    <3>6. Holds(w, c)' /\ captured'[w] = o /\ heap'[o].queue = Tail(q)
      BY <1>2, <1>6, <3>2, <3>4, <3>5 DEF TypeOK, Holds
    <3>7. LineOf(c)' = <<w>> \o Tail(q)
      BY <1>1, <3>6 DEF LinesOfHolders
    <3> QED BY <2>2, <3>1, <3>7, LineHandedOver
  <2> QED BY <2>1, <2>2
<1>12. Lines' = [Lines EXCEPT ![c] = q]
  BY <1>1, <1>10, <1>11, OneLineChanges
<1>13. PICK a : a = <<r>> \o q
  OBVIOUS
<1>14. a # <<>> /\ Tail(a) = q
  BY <1>13, LineServed
<1>15. Lines[c] = a
  BY <1>7, <1>13 DEF Lines
<1>16. Lines' = [Lines EXCEPT ![c] = Tail(Lines[c])] /\ Lines[c] # <<>>
  BY <1>12, <1>14, <1>15
<1>17. Line!Leave(c)
  BY <1>16 DEF Line!Leave, Lines
<1> QED BY <1>17 DEF Line!LineNext

(* The lock table behaves as one first-come first-served line per chat: a  *)
(* call joins the end of its chat's line, the holder's release serves the  *)
(* line, a waiter that gives up leaves it, and creating, dropping and      *)
(* reallocating Mutex objects never shows.                                 *)
THEOREM ImplementsLine == Spec => ImplementsChatLine
<1>1. ASSUME Init PROVE Line!LineInit
  <2>1. \A c \in Chat : Holders(c) = {}
    BY <1>1 DEF Init, Holders
  <2>2. \A c \in Chat : LineOf(c) = <<>>
    BY <2>1 DEF LineOf
  <2> QED BY <2>2 DEF Line!LineInit
<1>2. ASSUME IInv, [Next]_vars PROVE [Line!LineNext]_Lines
  <2>1. CASE UNCHANGED vars
    BY <2>1 DEF vars, Lines, LineOf, Holders
  <2>2. CASE Next
    <3>1. PICK r \in Request : RequestStep(r)
      BY <2>2 DEF Next
    <3>2. CASE \E c \in Chat, o \in Object : AcquireFree(r, c, o)
      <4>1. \E c \in Chat : Line!Join(r, c)
        BY <1>2, <3>2, AcquireFreeJoins
      <4> QED BY <4>1 DEF Line!LineNext
    <3>3. CASE \E c \in Chat, o \in Object : AcquireQueued(r, c, o)
      <4>1. \E c \in Chat : Line!Join(r, c)
        BY <1>2, <3>3, AcquireQueuedJoins
      <4> QED BY <4>1 DEF Line!LineNext
    <3>4. CASE \E c \in Chat, o \in Object : AcquireAborted(r, c, o)
      BY <1>2, <3>4, AcquireAbortedStutters
    <3>5. CASE WaiterGivesUp(r)
      BY <1>2, <3>5, WaiterGivesUpLeavesLine
    <3>6. CASE ReleaseChat(r)
      BY <1>2, <3>6, ReleaseChatServesLine
    <3> QED BY <3>1, <3>2, <3>3, <3>4, <3>5, <3>6 DEF RequestStep
  <2> QED BY <1>2, <2>1, <2>2
<1>3. IInv /\ [Next]_vars => [Line!LineNext]_([c \in Chat |-> LineOf(c)])
  BY <1>2 DEF Lines
<1> QED BY InvariantHolds, <1>1, <1>3, PTL DEF Spec, ImplementsChatLine, Line!LineSpec
=============================================================================
