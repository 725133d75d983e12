---------------------------- MODULE AccountSlots ----------------------------
(***************************************************************************)
(* src/core/account-concurrency.ts: at most MaxConcurrent requests use an   *)
(* account at a time, the others wait in a queue; together with its only    *)
(* caller, tryCreateStreamWithRetry of src/routes/chat/account.ts, which    *)
(* also gives the slot back when the client disconnects.                   *)
(*                                                                         *)
(* What is delicate here:                                                  *)
(*   - the usage map forgets an account's state object when it is empty,    *)
(*     while release closures keep a reference to the object they used;     *)
(*   - a slot is identified by its start time alone, and release looks it   *)
(*     up with indexOf;                                                    *)
(*   - a timer takes slots away from holders it thinks are stuck, and       *)
(*     those holders release later all the same.                           *)
(*                                                                         *)
(* An action is one turn of the event loop.  Object identities work as in   *)
(* ChatLocks: an object nobody references may be allocated again.  Time is  *)
(* a clock that only moves forward, MaxTime bounds it.                     *)
(***************************************************************************)
EXTENDS Naturals, Sequences, FiniteSets, SequencesExt

CONSTANTS
  Request, Account,
  Object,         \* identities of AccountUsage objects
  None,           \* no object, no account
  MaxConcurrent,  \* config.accountRequests.maxConcurrent
  MaxAge,         \* maxAgeMs: a slot older than this is stale
  MaxTime         \* bound of the clock

ASSUME AccountSlotsAssumption ==
  /\ None \notin Object /\ None \notin Account
  /\ MaxConcurrent \in Nat \ {0}
  /\ MaxAge \in Nat /\ MaxTime \in Nat

VARIABLES
  usage,   \* usage[a]: the map's entry for account a
  heap,    \* heap[o]: the fields of AccountUsage object o
  phase,   \* phase[r]: where request r is in tryCreateStreamWithRetry
  slot,    \* slot[r]: what the closures of request r captured, until they
           \* are used: a second call returns at once
  now      \* Date.now()

vars == <<usage, heap, phase, slot, now>>

AccountUsage ==
  [active : Nat, starts : Seq(0 .. MaxTime), waiting : Seq(Request)]

Capture ==
  [account : Account \union {None}, object : Object \union {None},
   start : 0 .. MaxTime]

NoCapture == [account |-> None, object |-> None, start |-> 0]

(* A request is "running" from the grant of its slot to the release of it, *)
(* and "lingering" when its slot was given back by the abort listener while *)
(* its upstream call has not ended yet.                                    *)
Phase == {"idle", "waiting", "running", "lingering"}

TypeOK ==
  /\ usage \in [Account -> Object \union {None}]
  /\ heap \in [Object -> AccountUsage]
  /\ phase \in [Request -> Phase]
  /\ slot \in [Request -> Capture]
  /\ now \in 0 .. MaxTime

-----------------------------------------------------------------------------
(* Operations on an AccountUsage object *)

NewUsage == [active |-> 0, starts |-> <<>>, waiting |-> <<>>]

(* grant, as seen by the object *)
Grant(u) == [u EXCEPT !.active = @ + 1, !.starts = Append(@, now)]

(* Mutants of ServeNext: nobody is woken; the newest waiter is served. *)
ServeNobody(u) == u
ServeNewest(u) ==
  IF u.waiting = <<>> THEN u ELSE Grant([u EXCEPT !.waiting = Front(@)])

(* waiting.shift()?.(): the head of the queue, if any, is granted a slot. *)
ServeNext(u) ==
  IF u.waiting = <<>> THEN u
  ELSE Grant([u EXCEPT !.waiting = Tail(@)])

IsEmpty(u) == u.active = 0 /\ u.waiting = <<>>

Minus(n, d) == IF n > d THEN n - d ELSE 0

(* The first half of the closure grant returns: give the slot back.  The   *)
(* code takes the first of several equal start times, which are adjacent   *)
(* and leave the same sequence whichever goes.                             *)
GiveBack(u, start) ==
  LET idx == CHOOSE i \in 1 .. Len(u.starts) : u.starts[i] = start
  IN  [u EXCEPT !.starts = RemoveAt(@, idx), !.active = Minus(@, 1)]

HasStart(u, start) == \E i \in 1 .. Len(u.starts) : u.starts[i] = start

(* starts is ascending, as Date.now() is appended, so the stale ones are a *)
(* prefix of it and the ones the sweep keeps are the rest.                 *)
StaleCount(u) ==
  Cardinality({i \in 1 .. Len(u.starts) : now - u.starts[i] > MaxAge})

ServedBySweep(u) ==
  IF StaleCount(u) < Len(u.waiting) THEN StaleCount(u) ELSE Len(u.waiting)

(* One object after sweepStaleAccountSlots: the stale slots are gone and as *)
(* many waiters are granted new ones.                                      *)
Swept(u) ==
  [active  |-> Minus(u.active, StaleCount(u)) + ServedBySweep(u),
   starts  |-> SubSeq(u.starts, StaleCount(u) + 1, Len(u.starts))
               \o [i \in 1 .. ServedBySweep(u) |-> now],
   waiting |-> SubSeq(u.waiting, ServedBySweep(u) + 1, Len(u.waiting))]

-----------------------------------------------------------------------------

Init ==
  /\ usage = [a \in Account |-> None]
  /\ heap = [o \in Object |-> NewUsage]
  /\ phase = [r \in Request |-> "idle"]
  /\ slot = [r \in Request |-> NoCapture]
  /\ now = 0

Reachable(o) == \/ \E a \in Account : usage[a] = o
                \/ \E r \in Request : slot[r].object = o

(* The object an acquire for account a works on: the map's, or a new one,   *)
(* and which of the free identities it gets makes no difference.           *)
Resolves(a, o) ==
  IF usage[a] = None
  THEN ~Reachable(o) /\ o = CHOOSE x \in Object : ~Reachable(x)
  ELSE o = usage[a]

Fields(a, o) == IF usage[a] = None THEN NewUsage ELSE heap[o]

(* The requests in Served, taken off the queue, hold slots from now on. *)
Wake(Served, p, s) ==
  /\ phase' = [r \in Request |-> IF r \in Served THEN "running" ELSE p[r]]
  /\ slot' = [r \in Request |->
                IF r \in Served THEN [s[r] EXCEPT !.start = now] ELSE s[r]]

(* Mutant of Prune: the queue is not looked at, nor other holders. *)
PruneAlways(a, u) == usage' = [usage EXCEPT ![a] = None]

(* prune: the map forgets account a when object state u is empty. *)
Prune(a, u) ==
  usage' = IF IsEmpty(u) THEN [usage EXCEPT ![a] = None] ELSE usage

AcquireFree(r, a, o) ==
  /\ phase[r] = "idle"
  /\ Resolves(a, o)
  /\ Fields(a, o).active < MaxConcurrent
  /\ usage' = [usage EXCEPT ![a] = o]
  /\ heap' = [heap EXCEPT ![o] = Grant(Fields(a, o))]
  /\ phase' = [phase EXCEPT ![r] = "running"]
  /\ slot' = [slot EXCEPT ![r] = [account |-> a, object |-> o, start |-> now]]
  /\ UNCHANGED now

AcquireQueued(r, a, o) ==
  /\ phase[r] = "idle"
  /\ Resolves(a, o)
  /\ Fields(a, o).active >= MaxConcurrent
  /\ heap' = [heap EXCEPT ![o].waiting = Append(@, r)]
  /\ phase' = [phase EXCEPT ![r] = "waiting"]
  /\ slot' = [slot EXCEPT ![r] = [account |-> a, object |-> o, start |-> now]]
  /\ UNCHANGED <<usage, now>>

(* The waiter's timer fires, or its signal aborts. *)
WaiterGivesUp(r) ==
  LET u == heap[slot[r].object] IN
  /\ phase[r] = "waiting"
  /\ \E i \in 1 .. Len(u.waiting) :
       /\ u.waiting[i] = r
       /\ heap' = [heap EXCEPT ![slot[r].object].waiting = RemoveAt(@, i)]
       /\ Prune(slot[r].account, [u EXCEPT !.waiting = RemoveAt(@, i)])
  /\ phase' = [phase EXCEPT ![r] = "idle"]
  /\ slot' = [slot EXCEPT ![r] = NoCapture]
  /\ UNCHANGED now

-----------------------------------------------------------------------------
(* The closure grant returns *)

(* idx # -1: the sweep has not taken the slot away. *)
StillHeld(r) == HasStart(heap[slot[r].object], slot[r].start)

(* Called the first time; p and s are the phases and captures as the caller *)
(* leaves them.                                                            *)
ReleaseSlot(r, p, s) ==
  LET o == slot[r].object
      left == GiveBack(heap[o], slot[r].start)
  IN  IF StillHeld(r)
      THEN /\ heap' = [heap EXCEPT ![o] = ServeNext(left)]
           /\ Wake(ToSet(left.waiting) \ ToSet(ServeNext(left).waiting), p, s)
           /\ Prune(slot[r].account, ServeNext(left))
      ELSE /\ phase' = p
           /\ slot' = s
           /\ UNCHANGED <<usage, heap>>

(* The request is over: its stream completed, or creating it failed. *)
Complete(r) ==
  /\ phase[r] = "running"
  /\ ReleaseSlot(r, [phase EXCEPT ![r] = "idle"], [slot EXCEPT ![r] = NoCapture])
  /\ UNCHANGED now

(* The client disconnects: the abort listener gives the slot back at once. *)
ClientAborts(r) ==
  /\ phase[r] = "running"
  /\ ReleaseSlot(r, [phase EXCEPT ![r] = "lingering"], [slot EXCEPT ![r] = NoCapture])
  /\ UNCHANGED now

(* The aborted request notices; its own release finds `released` set. *)
LingererEnds(r) ==
  /\ phase[r] = "lingering"
  /\ phase' = [phase EXCEPT ![r] = "idle"]
  /\ UNCHANGED <<usage, heap, slot, now>>

-----------------------------------------------------------------------------
(* Time *)

Listed(o) == \E a \in Account : usage[a] = o

(* sweepStaleAccountSlots, run by a timer. *)
Sweep ==
  /\ \E a \in Account : usage[a] # None /\ StaleCount(heap[usage[a]]) > 0
  /\ heap' = [o \in Object |-> IF Listed(o) THEN Swept(heap[o]) ELSE heap[o]]
  /\ usage' = [a \in Account |->
                 IF usage[a] # None /\ IsEmpty(Swept(heap[usage[a]])) THEN None
                 ELSE usage[a]]
  /\ Wake({r \in Request :
             /\ phase[r] = "waiting"
             /\ \E i \in 1 .. ServedBySweep(heap[slot[r].object]) :
                  heap[slot[r].object].waiting[i] = r},
          phase, slot)
  /\ UNCHANGED now

Tick ==
  /\ now < MaxTime
  /\ now' = now + 1
  /\ UNCHANGED <<usage, heap, phase, slot>>

Next ==
  \/ \E r \in Request, a \in Account, o \in Object :
       AcquireFree(r, a, o) \/ AcquireQueued(r, a, o)
  \/ \E r \in Request :
       WaiterGivesUp(r) \/ Complete(r) \/ ClientAborts(r) \/ LingererEnds(r)
  \/ Sweep
  \/ Tick

Spec == Init /\ [][Next]_vars

(* Every request that got a slot comes to an end; waiting is bounded by a   *)
(* timer in the code, but no fairness is asked of it.                      *)
FairSpec == Spec /\ \A r \in Request : WF_vars(Complete(r))

-----------------------------------------------------------------------------
(* Properties *)

(* The slot of a running request is still its own: no sweep took it. *)
Holds(r) == phase[r] = "running" /\ StillHeld(r)

(* At most MaxConcurrent requests hold slots of one account, over all the   *)
(* objects the map had for it: a late release by a holder whose slot was   *)
(* swept neither frees a slot of its successors nor makes the map forget   *)
(* the object that they use.                                               *)
CapacityRespected ==
  \A a \in Account :
    Cardinality({r \in Request : Holds(r) /\ slot[r].account = a}) <= MaxConcurrent

(* The parts of the inductive invariant. *)

(* active counts the starts, starts are in order of time, and nobody waits *)
(* while a slot is free: no wake-up is lost.                               *)
CountsAgree ==
  \A o \in Object :
    /\ heap[o].active = Len(heap[o].starts)
    /\ heap[o].active <= MaxConcurrent
    /\ heap[o].waiting # <<>> => heap[o].active = MaxConcurrent
    /\ \A i \in 1 .. Len(heap[o].starts) : heap[o].starts[i] <= now
    /\ \A i, j \in 1 .. Len(heap[o].starts) :
         i <= j => heap[o].starts[i] <= heap[o].starts[j]

(* The map lists exactly the objects in use, each for one account, and     *)
(* whoever captured a listed object captured its account.                  *)
MapListsBusyObjects ==
  /\ \A o \in Object : Listed(o) <=> ~IsEmpty(heap[o])
  /\ \A a, b \in Account : usage[a] = usage[b] /\ usage[a] # None => a = b
  /\ \A r \in Request, a \in Account :
       slot[r].object = usage[a] /\ usage[a] # None => slot[r].account = a

(* Whoever waits or runs captured an object, and the queues hold exactly    *)
(* the waiting requests, each once.                                        *)
QueuesAreTheWaiters ==
  /\ \A r \in Request :
       IF phase[r] \in {"idle", "lingering"} THEN slot[r] = NoCapture
       ELSE slot[r].account \in Account /\ slot[r].object \in Object
  /\ \A o \in Object : \A i \in 1 .. Len(heap[o].waiting) :
       /\ phase[heap[o].waiting[i]] = "waiting"
       /\ slot[heap[o].waiting[i]].object = o
  /\ \A o \in Object : \A i, j \in 1 .. Len(heap[o].waiting) :
       heap[o].waiting[i] = heap[o].waiting[j] => i = j
  /\ \A r \in Request : phase[r] = "waiting" =>
       \E i \in 1 .. Len(heap[slot[r].object].waiting) :
         heap[slot[r].object].waiting[i] = r

(* The inductive invariant. *)
IInv ==
  /\ TypeOK
  /\ CountsAgree
  /\ MapListsBusyObjects
  /\ QueuesAreTheWaiters

Before(r, s) ==
  /\ phase[r] = "waiting" /\ phase[s] = "waiting"
  /\ slot[r].object = slot[s].object
  /\ \E i, j \in 1 .. Len(heap[slot[r].object].waiting) :
       /\ i < j
       /\ heap[slot[r].object].waiting[i] = r
       /\ heap[slot[r].object].waiting[j] = s

(* First come, first served, also when the sweep serves several at once:   *)
(* nobody is granted a slot while an earlier waiter goes on waiting, and no *)
(* newcomer is while anybody waits for the account.                        *)
NoOvertaking ==
  [][\A r, s \in Request :
       phase'[s] = "running" /\ phase'[r] = "waiting" =>
         /\ ~Before(r, s)
         /\ (phase[s] = "idle" /\ phase[r] = "waiting"
              => slot'[s].account # slot[r].account)]_vars

(* Nobody is forgotten in a queue: a waiter gets a slot, or has given up,   *)
(* as long as requests come to an end.                                     *)
EveryWaiterIsServed ==
  \A r \in Request : phase[r] = "waiting" ~> phase[r] # "waiting"
=============================================================================
