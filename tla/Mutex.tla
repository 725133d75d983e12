------------------------------- MODULE Mutex -------------------------------
(***************************************************************************)
(* The Mutex class of src/core/mutex.ts as operators on its two fields:    *)
(* `locked` and `queue`, the waiters in arrival order.  Waiters are the     *)
(* callers themselves; the promise, timer and abort listener of a waiter    *)
(* are the caller's own state and belong to the modules that use a mutex.   *)
(* A caller never waits twice at once, so it occurs at most once in a       *)
(* queue.                                                                   *)
(*                                                                         *)
(* There is no owner field: ownership is the possession of an unused        *)
(* release closure.  A release hands the lock over without unlocking, so    *)
(* nobody who arrives between the release and the waiter's continuation     *)
(* can take it.                                                             *)
(***************************************************************************)
EXTENDS Naturals, Sequences, SequencesExt

MutexState(Caller) == [locked : BOOLEAN, queue : Seq(Caller)]

NewMutex == [locked |-> FALSE, queue |-> <<>>]

Lock(m) == [m EXCEPT !.locked = TRUE]

(* The caller's waiter is pushed behind those already there. *)
Enqueue(m, caller) == [m EXCEPT !.queue = Append(@, caller)]

(* removeWaiter: what a timeout and an abort do before they reject. *)
Withdraw(m, i) == [m EXCEPT !.queue = RemoveAt(@, i)]

(* Mutants of Release: the newest waiter is served first; the lock is *)
(* freed although somebody waits. *)
ReleaseLIFO(m) ==
  IF m.queue = <<>> THEN [m EXCEPT !.locked = FALSE]
                    ELSE [m EXCEPT !.queue = Front(@)]

ReleaseUnlocks(m) == [m EXCEPT !.locked = FALSE]

(* release: the first waiter leaves the queue and the lock stays taken, or *)
(* the lock becomes free.                                                  *)
Release(m) ==
  IF m.queue = <<>> THEN [m EXCEPT !.locked = FALSE]
                    ELSE [m EXCEPT !.queue = Tail(@)]

(* Who a release hands the lock to: whoever it took off the queue. *)
Woken(m) == ToSet(m.queue) \ ToSet(Release(m).queue)

IsIdle(m) == ~m.locked /\ m.queue = <<>>
=============================================================================
