---------------------------- MODULE PageProofs ----------------------------
(***************************************************************************)
(* Proofs about the pages of the accounts.                                  *)
(*                                                                         *)
(* About PageLifecycle, for any number of accounts, callers, browsers and   *)
(* resets: work in a browser is not cut short, what stays open has a         *)
(* validated session, and headers are of the profile that is on disk.      *)
(* Everything that changes the maps works under the account's mutex, except  *)
(* reopening and looking up a page, which only change pages.  So most of    *)
(* the proof is that the mutex has one holder wherever operations begin,    *)
(* end, give up, run out of time and go on without their reset.            *)
(*                                                                         *)
(* About PageStream, for any number of streams: the page has one owner, and *)
(* while every stream lasts as long as its answer, an answer goes to the     *)
(* client whose prompt it answers.                                         *)
(***************************************************************************)
EXTENDS PageLifecycle, PageStream, QueueLemmas

-----------------------------------------------------------------------------
(* The inductive invariant of the browsers *)

Working == {"entered", "setup", "validate", "capture", "navigate", "closing"}

(* A task whose local variables are x holds the mutex of account a, or      *)
(* waits for it.                                                           *)
HoldsIn(x, a) == x.acct = a /\ x.at \in Working
WaitsIn(x, a) == x.acct = a /\ x.at = "waits"

(* m is the mutex of account a while the tasks are ts.                      *)
MutexIs(m, ts, a) ==
  /\ m \in MutexState(Tasks) /\ NoDuplicates(m.queue)
  /\ \A t \in Tasks : t \in ToSet(m.queue) <=> WaitsIn(ts[t], a)
  /\ \A s, t \in Tasks : HoldsIn(ts[s], a) /\ HoldsIn(ts[t], a) => s = t
  /\ m.locked <=> \E t \in Tasks : HoldsIn(ts[t], a)
  /\ ~m.locked => m.queue = <<>>

(* What an operation may be at each of its awaits.                          *)
TaskIs(t, x) ==
  /\ x \in TaskState
  /\ x.at \in Working \cup {"waits", "inits", "awaits", "newPage", "dismiss"} =>
       x.acct \in Accounts
  /\ x.at \in {"setup", "validate"} => x.op = "init"
  /\ x.op = "reset" => t = "resetter"
  /\ t = "resetter" => x.op \in {"none", "reset", "close"}
  /\ t = "resetInit" => x.op \in {"none", "init"}

TasksOK(m, ts) ==
  /\ ts \in [Tasks -> TaskState] /\ \A t \in Tasks : TaskIs(t, ts[t])
  /\ m \in [Accounts -> MutexState(Tasks)] /\ \A a \in Accounts : MutexIs(m[a], ts, a)

(* x is the initialisation that has registered browser c of account a and   *)
(* will validate or close it.                                              *)
Answers(x, a, c) ==
  HoldsIn(x, a) /\ x.op = "init" /\ x.at \in {"validate", "closing"} /\ x.ctx = c

(* A registered browser that is open is validated, or it has just been      *)
(* registered under the mutex.                                             *)
WholeOK(a) ==
  contexts[a] \in Open(a) /\ browsers[a][contexts[a]] # "valid" =>
    \E t \in Tasks : Answers(tasks[t], a, contexts[a])

MapsTyped ==
  /\ contexts \in [Accounts -> Context \cup {None}]
  /\ pages \in [Accounts -> [ctx : Context \cup {None}, closed : BOOLEAN]]
  /\ DOMAIN browsers = Accounts
  /\ \A a \in Accounts :
       /\ Open(a) \subseteq Context
       /\ \A c \in Open(a) : browsers[a][c] \in {"new", "valid"}

(* The resetter has deleted the profile that this reset is about, or will    *)
(* not do so any more.                                                     *)
Past(x) == x.at \in {"inits", "awaits", "ended"} \/ x.op = "close"

(* Every deletion of a profile is that of a scheduled reset.                *)
ResetsOK ==
  /\ resets \in Seq(Accounts)
  /\ profile \in [Accounts -> Nat \ {0}] /\ headers \in [Accounts -> Nat]
  /\ \A a \in Accounts : headers[a] \in {None, profile[a]}
  /\ scheduled \in 0 .. MaxResets /\ crashes \in Nat
  /\ tasks["resetter"] # Idle => resets # <<>>
  /\ \A a \in Accounts :
       profile[a] + Len(resets) <=
         scheduled + 1 + (IF Past(tasks["resetter"]) THEN 1 ELSE 0)

IInv ==
  /\ TasksOK(mutex, tasks)
  /\ MapsTyped
  /\ ResetsOK
  /\ \A a \in Accounts : WholeOK(a)

-----------------------------------------------------------------------------
(* The mutex of an account *)

LEMMA SameMutex ==
  ASSUME NEW m, NEW ts, NEW us, NEW a, MutexIs(m, ts, a),
         \A t \in Tasks : /\ HoldsIn(us[t], a) <=> HoldsIn(ts[t], a)
                          /\ WaitsIn(us[t], a) <=> WaitsIn(ts[t], a)
  PROVE  MutexIs(m, us, a)
BY DEF MutexIs

LEMMA TakenMutex ==
  ASSUME NEW m, NEW ts, NEW us, NEW a, MutexIs(m, ts, a), NEW t \in Tasks,
         ~m.locked, HoldsIn(us[t], a), ~WaitsIn(us[t], a), ~WaitsIn(ts[t], a),
         \A s \in Tasks \ {t} : /\ HoldsIn(us[s], a) <=> HoldsIn(ts[s], a)
                                /\ WaitsIn(us[s], a) <=> WaitsIn(ts[s], a)
  PROVE  MutexIs(Lock(m), us, a)
<1>1. Lock(m) \in MutexState(Tasks) /\ Lock(m).locked /\ Lock(m).queue = m.queue
  BY DEF MutexIs, MutexState, Lock
<1>2. PICK n : n = Lock(m)
  OBVIOUS
<1> QED BY <1>1, <1>2 DEF MutexIs

LEMMA QueuedMutex ==
  ASSUME NEW m, NEW ts, NEW us, NEW a, MutexIs(m, ts, a), NEW t \in Tasks,
         m.locked, WaitsIn(us[t], a), ~HoldsIn(us[t], a),
         ~WaitsIn(ts[t], a), ~HoldsIn(ts[t], a),
         \A s \in Tasks \ {t} : /\ HoldsIn(us[s], a) <=> HoldsIn(ts[s], a)
                                /\ WaitsIn(us[s], a) <=> WaitsIn(ts[s], a)
  PROVE  MutexIs(Enqueue(m, t), us, a)
<1>1. m.queue \in Seq(Tasks) /\ NoDuplicates(m.queue) /\ t \notin ToSet(m.queue)
  BY DEF MutexIs, MutexState
<1>2. PICK q : q = Append(m.queue, t)
  OBVIOUS
<1>3. q \in Seq(Tasks) /\ NoDuplicates(q) /\ ToSet(q) = ToSet(m.queue) \union {t}
  BY <1>1, <1>2, AppendMembers
<1>4. PICK n : n = Enqueue(m, t)
  OBVIOUS
<1>5. n \in MutexState(Tasks) /\ n.locked /\ n.queue = q
  BY <1>2, <1>3, <1>4 DEF MutexIs, MutexState, Enqueue
<1>6. \A s \in Tasks : s \in ToSet(n.queue) <=> WaitsIn(us[s], a)
  BY <1>3, <1>5 DEF MutexIs
<1>7. \A s, r \in Tasks : HoldsIn(us[s], a) /\ HoldsIn(us[r], a) => s = r
  BY DEF MutexIs
<1>8. \E s \in Tasks : HoldsIn(us[s], a)
  BY DEF MutexIs
<1>9. MutexIs(n, us, a)
  BY <1>3, <1>5, <1>6, <1>7, <1>8 DEF MutexIs
<1> QED BY <1>4, <1>9

(* Release wakes the first waiter, if there is one.                         *)
LEMMA WokenIsFirst ==
  ASSUME NEW m \in MutexState(Tasks), NoDuplicates(m.queue)
  PROVE  /\ Release(m) \in MutexState(Tasks) /\ NoDuplicates(Release(m).queue)
         /\ m.queue = <<>> =>
              Woken(m) = {} /\ Release(m) = [m EXCEPT !.locked = FALSE]
         /\ m.queue # <<>> =>
              /\ Head(m.queue) \in Tasks /\ Woken(m) = {Head(m.queue)}
              /\ Head(m.queue) \in ToSet(m.queue)
              /\ Release(m).locked = m.locked
              /\ ToSet(Release(m).queue) = ToSet(m.queue) \ {Head(m.queue)}
<1>1. CASE m.queue = <<>>
  <2>1. Release(m) = [m EXCEPT !.locked = FALSE]
    BY <1>1 DEF Release
  <2>2. Release(m) \in MutexState(Tasks) /\ Release(m).queue = m.queue
    BY <2>1 DEF MutexState
  <2>3. Woken(m) = {}
    BY <2>2 DEF Woken
  <2> QED BY <1>1, <2>1, <2>2, <2>3
<1>2. CASE m.queue # <<>>
  <2>1. PICK q \in Seq(Tasks) : q = m.queue
    BY DEF MutexState
  <2>2. PICK w : w = Tail(q)
    OBVIOUS
  <2>3. /\ w \in Seq(Tasks) /\ NoDuplicates(w) /\ Head(q) \in Tasks
        /\ Head(q) \in ToSet(q) /\ ToSet(w) = ToSet(q) \ {Head(q)}
    BY <1>2, <2>1, <2>2, TailMembers
  <2>4. Release(m) = [m EXCEPT !.queue = w]
    BY <1>2, <2>1, <2>2 DEF Release
  <2>5. Release(m) \in MutexState(Tasks) /\ Release(m).queue = w /\ Release(m).locked = m.locked
    BY <2>3, <2>4 DEF MutexState
  <2>6. Woken(m) = {Head(q)}
    BY <2>1, <2>3, <2>5 DEF Woken
  <2> QED BY <1>2, <2>1, <2>3, <2>5, <2>6
<1> QED BY <1>1, <1>2

LEMMA ReleasedMutex ==
  ASSUME NEW m, NEW ts, NEW us, NEW a, MutexIs(m, ts, a), NEW t \in Tasks,
         HoldsIn(ts[t], a), ~HoldsIn(us[t], a), ~WaitsIn(us[t], a),
         \A s \in Tasks \ {t} :
           /\ s \in Woken(m) => HoldsIn(us[s], a) /\ ~WaitsIn(us[s], a)
           /\ s \notin Woken(m) => /\ HoldsIn(us[s], a) <=> HoldsIn(ts[s], a)
                                   /\ WaitsIn(us[s], a) <=> WaitsIn(ts[s], a)
  PROVE  MutexIs(Release(m), us, a)
<1>1. /\ m \in MutexState(Tasks) /\ NoDuplicates(m.queue) /\ m.locked
      /\ t \notin ToSet(m.queue)
  BY DEF MutexIs, HoldsIn, WaitsIn, Working
<1>2. \A s \in Tasks \ {t} : ~HoldsIn(ts[s], a)
  BY DEF MutexIs
<1>3. CASE m.queue = <<>>
  <2>1. PICK n : n = Release(m)
    OBVIOUS
  <2>2. /\ n \in MutexState(Tasks) /\ Woken(m) = {} /\ n = [m EXCEPT !.locked = FALSE]
    BY <1>1, <1>3, <2>1, WokenIsFirst
  <2>3. ~n.locked /\ n.queue = <<>>
    BY <1>1, <1>3, <2>2 DEF MutexState
  <2>4. \A s \in Tasks : ~HoldsIn(us[s], a) /\ ~WaitsIn(us[s], a)
    BY <1>2, <1>3, <2>2 DEF MutexIs, ToSet
  <2>5. ToSet(n.queue) = {} /\ NoDuplicates(n.queue)
    BY <2>3 DEF ToSet, NoDuplicates
  <2>6. MutexIs(n, us, a)
    BY <2>2, <2>3, <2>4, <2>5 DEF MutexIs
  <2> QED BY <2>1, <2>6
<1>4. CASE m.queue # <<>>
  <2>1. PICK n : n = Release(m)
    OBVIOUS
  <2>2. PICK h \in Tasks : h = Head(m.queue)
    BY <1>1, <1>4, WokenIsFirst
  <2>3. /\ n \in MutexState(Tasks) /\ NoDuplicates(n.queue) /\ Woken(m) = {h}
        /\ h \in ToSet(m.queue) /\ n.locked /\ ToSet(n.queue) = ToSet(m.queue) \ {h}
    BY <1>1, <1>4, <2>1, <2>2, WokenIsFirst
  <2>4. h # t /\ HoldsIn(us[h], a) /\ ~WaitsIn(us[h], a)
    BY <1>1, <2>3
  <2>5. \A s \in Tasks \ {h} : ~HoldsIn(us[s], a)
    BY <1>2, <2>3
  <2>6. \A s \in Tasks : s \in ToSet(n.queue) <=> WaitsIn(us[s], a)
    BY <1>1, <2>3, <2>4 DEF MutexIs
  <2>7. MutexIs(n, us, a)
    BY <2>3, <2>4, <2>5, <2>6 DEF MutexIs
  <2> QED BY <2>1, <2>7
<1> QED BY <1>3, <1>4

(* A waiter that gives up. *)
LEMMA WithdrawnMutex ==
  ASSUME NEW m, NEW ts, NEW us, NEW a, MutexIs(m, ts, a), NEW t \in Tasks,
         WaitsIn(ts[t], a), ~HoldsIn(us[t], a), ~WaitsIn(us[t], a),
         \A s \in Tasks \ {t} : /\ HoldsIn(us[s], a) <=> HoldsIn(ts[s], a)
                                /\ WaitsIn(us[s], a) <=> WaitsIn(ts[s], a)
  PROVE  MutexIs(Withdraw(m, CHOOSE i \in 1 .. Len(m.queue) : m.queue[i] = t), us, a)
<1>1. PICK q \in Seq(Tasks) : q = m.queue
  BY DEF MutexIs, MutexState
<1>2. NoDuplicates(q) /\ t \in ToSet(q)
  BY <1>1 DEF MutexIs
<1>3. PICK i : i = CHOOSE j \in 1 .. Len(q) : q[j] = t
  OBVIOUS
<1>4. i \in 1 .. Len(q) /\ q[i] = t
  <2>1. \E j \in 1 .. Len(q) : q[j] = t
    BY <1>2, ToSetMembers
  <2> QED BY <1>3, <2>1
<1>5. PICK w : w = RemoveAt(q, i)
  OBVIOUS
<1>6. w \in Seq(Tasks) /\ NoDuplicates(w) /\ ToSet(w) = ToSet(q) \ {t}
  <2>1. RemoveFirst(q, t) = w
    BY <1>2, <1>4, <1>5, RemoveFirstMember
  <2> QED BY <1>2, <2>1, RemoveFirstMembers
<1>7. PICK n : n = Withdraw(m, i)
  OBVIOUS
<1>8. n = [m EXCEPT !.queue = w]
  BY <1>1, <1>5, <1>7 DEF Withdraw
<1>9. n \in MutexState(Tasks) /\ n.queue = w /\ n.locked = m.locked
  BY <1>6, <1>8 DEF MutexIs, MutexState
<1>10. ~HoldsIn(ts[t], a) /\ m.locked
  <2>1. ~HoldsIn(ts[t], a)
    BY DEF HoldsIn, WaitsIn, Working
  <2>2. m.queue # <<>>
    BY <1>1, <1>2 DEF ToSet
  <2> QED BY <2>1, <2>2 DEF MutexIs
<1>11. \A s \in Tasks : s \in ToSet(w) <=> WaitsIn(us[s], a)
  BY <1>1, <1>6 DEF MutexIs
<1>12. \A s \in Tasks : HoldsIn(us[s], a) <=> HoldsIn(ts[s], a)
  BY <1>10
<1>13. MutexIs(n, us, a)
  BY <1>6, <1>9, <1>10, <1>11, <1>12 DEF MutexIs
<1> QED BY <1>1, <1>3, <1>7, <1>13
-----------------------------------------------------------------------------
(* What a step does to the tasks: besides its own, those it wakes.          *)

Busy == Working \cup {"waits"}

OthersGoOn(t) ==
  \A s \in Tasks \ {t} :
    \/ tasks'[s] = tasks[s]
    \/ tasks[s].at = "waits" /\ tasks'[s] = [tasks[s] EXCEPT !.at = "entered"]

Moved(t) == TasksOK(mutex, tasks)' /\ OthersGoOn(t)

LEMMA TasksKnown ==
  /\ "resetter" \in Tasks /\ "resetInit" \in Tasks /\ Callers \subseteq Tasks
  /\ \A t \in Callers : t # "resetter" /\ t # "resetInit"
BY BrowserAssumption DEF Tasks

LEMMA ContextsKnown ==
  Context \subseteq Nat /\ None \notin Context /\ None \in Nat
BY BrowserAssumption DEF Context, None

(* A task that reaches another await with or without the mutex, *)
LEMMA Quiet ==
  ASSUME NEW m, NEW ts, NEW us, TasksOK(m, ts), NEW t \in Tasks, NEW x, TaskIs(t, x),
         us = [ts EXCEPT ![t] = x],
         \/ x.at \in Working /\ ts[t].at \in Working /\ x.acct = ts[t].acct
         \/ x.at \notin Busy /\ ts[t].at \notin Busy
  PROVE  TasksOK(m, us)
<1>1. us \in [Tasks -> TaskState] /\ us[t] = x /\ \A s \in Tasks \ {t} : us[s] = ts[s]
  BY DEF TasksOK, TaskIs
<1>2. \A s \in Tasks : TaskIs(s, us[s])
  BY <1>1 DEF TasksOK
<1>3. ASSUME NEW a \in Accounts
      PROVE  MutexIs(m[a], us, a)
  <2>1. MutexIs(m[a], ts, a)
    BY DEF TasksOK
  <2>2. \A s \in Tasks : /\ HoldsIn(us[s], a) <=> HoldsIn(ts[s], a)
                         /\ WaitsIn(us[s], a) <=> WaitsIn(ts[s], a)
    BY <1>1 DEF HoldsIn, WaitsIn, Busy, Working
  <2> QED BY <2>1, <2>2, SameMutex
<1> QED BY <1>1, <1>2, <1>3 DEF TasksOK

LEMMA QuietMoves ==
  ASSUME TasksOK(mutex, tasks), NEW t \in Tasks, NEW x, TaskIs(t, x),
         tasks' = [tasks EXCEPT ![t] = x], UNCHANGED mutex,
         \/ x.at \in Working /\ tasks[t].at \in Working /\ x.acct = tasks[t].acct
         \/ x.at \notin Busy /\ tasks[t].at \notin Busy
  PROVE  Moved(t) /\ tasks'[t] = x
<1>1. DOMAIN tasks = Tasks
  BY DEF TasksOK
<1>2. TasksOK(mutex, tasks')
  BY Quiet
<1> QED BY <1>1, <1>2 DEF Moved, OthersGoOn

LEMMA ReachesMoves ==
  ASSUME TasksOK(mutex, tasks), NEW t \in Tasks, NEW at \in {"capture", "navigate", "closing"},
         tasks[t].at \in Working, Reaches(t, at), UNCHANGED mutex
  PROVE  Moved(t)
<1>1. PICK x : x = [tasks[t] EXCEPT !.at = at]
  OBVIOUS
<1>2. TaskIs(t, tasks[t])
  BY DEF TasksOK
<1>3. TaskIs(t, x) /\ x.at = at /\ x.acct = tasks[t].acct
  BY <1>1, <1>2 DEF TaskIs, TaskState, Working
<1>4. tasks' = [tasks EXCEPT ![t] = x]
  BY <1>1 DEF Reaches
<1> QED BY <1>3, <1>4, QuietMoves DEF Working

(* that takes the mutex or queues for it, *)
LEMMA Taken ==
  ASSUME NEW m, NEW ts, NEW us, TasksOK(m, ts), NEW t \in Tasks, NEW x, TaskIs(t, x),
         NEW a \in Accounts, x.acct = a, x.at = "entered", ts[t].at \notin Busy,
         us = [ts EXCEPT ![t] = x], ~m[a].locked
  PROVE  TasksOK([m EXCEPT ![a] = Lock(@)], us)
<1>1. us \in [Tasks -> TaskState] /\ us[t] = x /\ \A s \in Tasks \ {t} : us[s] = ts[s]
  BY DEF TasksOK, TaskIs
<1>2. \A s \in Tasks : TaskIs(s, us[s])
  BY <1>1 DEF TasksOK
<1>3. PICK n : n = [m EXCEPT ![a] = Lock(@)]
  OBVIOUS
<1>4. DOMAIN n = Accounts /\ n[a] = Lock(m[a]) /\ \A b \in Accounts \ {a} : n[b] = m[b]
  BY <1>3 DEF TasksOK
<1>5. ASSUME NEW b \in Accounts
      PROVE  MutexIs(n[b], us, b)
  <2>1. MutexIs(m[b], ts, b)
    BY DEF TasksOK
  <2>2. CASE b = a
    <3>1. HoldsIn(us[t], a) /\ ~WaitsIn(us[t], a) /\ ~WaitsIn(ts[t], a)
      BY <1>1 DEF HoldsIn, WaitsIn, Working, Busy
    <3>2. /\ MutexIs(m[a], ts, a)
          /\ \A s \in Tasks \ {t} : /\ HoldsIn(us[s], a) <=> HoldsIn(ts[s], a)
                                    /\ WaitsIn(us[s], a) <=> WaitsIn(ts[s], a)
      BY <1>1, <2>1, <2>2
    <3>3. MutexIs(Lock(m[a]), us, a)
      BY <3>1, <3>2, TakenMutex, Zenon
    <3> QED BY <1>4, <2>2, <3>3
  <2>3. CASE b # a
    <3>1. \A s \in Tasks : /\ HoldsIn(us[s], b) <=> HoldsIn(ts[s], b)
                           /\ WaitsIn(us[s], b) <=> WaitsIn(ts[s], b)
      BY <1>1, <2>3 DEF HoldsIn, WaitsIn, Busy, Working
    <3> QED BY <1>4, <2>1, <2>3, <3>1, SameMutex
  <2> QED BY <2>2, <2>3
<1>6. n \in [Accounts -> MutexState(Tasks)]
  BY <1>3, <1>4, <1>5 DEF MutexIs, TasksOK
<1> QED BY <1>1, <1>2, <1>3, <1>5, <1>6 DEF TasksOK

LEMMA Queued ==
  ASSUME NEW m, NEW ts, NEW us, TasksOK(m, ts), NEW t \in Tasks, NEW x, TaskIs(t, x),
         NEW a \in Accounts, x.acct = a, x.at = "waits", ts[t].at \notin Busy,
         us = [ts EXCEPT ![t] = x], m[a].locked
  PROVE  TasksOK([m EXCEPT ![a] = Enqueue(@, t)], us)
<1>1. us \in [Tasks -> TaskState] /\ us[t] = x /\ \A s \in Tasks \ {t} : us[s] = ts[s]
  BY DEF TasksOK, TaskIs
<1>2. \A s \in Tasks : TaskIs(s, us[s])
  BY <1>1 DEF TasksOK
<1>3. PICK n : n = [m EXCEPT ![a] = Enqueue(@, t)]
  OBVIOUS
<1>4. DOMAIN n = Accounts /\ n[a] = Enqueue(m[a], t) /\ \A b \in Accounts \ {a} : n[b] = m[b]
  BY <1>3 DEF TasksOK
<1>5. ASSUME NEW b \in Accounts
      PROVE  MutexIs(n[b], us, b)
  <2>1. MutexIs(m[b], ts, b)
    BY DEF TasksOK
  <2>2. CASE b = a
    <3>1. /\ WaitsIn(us[t], a) /\ ~HoldsIn(us[t], a)
          /\ ~WaitsIn(ts[t], a) /\ ~HoldsIn(ts[t], a)
      BY <1>1 DEF HoldsIn, WaitsIn, Working, Busy
    <3>2. MutexIs(m[a], ts, a) /\ \A s \in Tasks \ {t} : us[s] = ts[s]
      BY <1>1, <2>1, <2>2
    <3>3. MutexIs(Enqueue(m[a], t), us, a)
      BY <3>1, <3>2, QueuedMutex
    <3> QED BY <1>4, <2>2, <3>3
  <2>3. CASE b # a
    <3>1. \A s \in Tasks : /\ HoldsIn(us[s], b) <=> HoldsIn(ts[s], b)
                           /\ WaitsIn(us[s], b) <=> WaitsIn(ts[s], b)
      BY <1>1, <2>3 DEF HoldsIn, WaitsIn, Busy, Working
    <3> QED BY <1>4, <2>1, <2>3, <3>1, SameMutex
  <2> QED BY <2>2, <2>3
<1>6. n \in [Accounts -> MutexState(Tasks)]
  BY <1>3, <1>4, <1>5 DEF MutexIs, TasksOK
<1> QED BY <1>1, <1>2, <1>3, <1>5, <1>6 DEF TasksOK

LEMMA AcquiresMoves ==
  ASSUME TasksOK(mutex, tasks), NEW t \in Tasks, NEW x, TaskIs(t, x), x.acct \in Accounts,
         tasks[t].at \notin Busy, Acquires(t, x)
  PROVE  /\ Moved(t)
         /\ tasks'[t] \in {[x EXCEPT !.at = "waits"], [x EXCEPT !.at = "entered"]}
<1>0. DOMAIN tasks = Tasks
  BY DEF TasksOK
<1>1. PICK a \in Accounts : a = x.acct
  OBVIOUS
<1>2. CASE mutex[a].locked
  <2>1. PICK y : y = [x EXCEPT !.at = "waits"]
    OBVIOUS
  <2>2. TaskIs(t, y) /\ y.at = "waits" /\ y.acct = a
    BY <1>1, <2>1 DEF TaskIs, TaskState, Working
  <2>3. mutex' = [mutex EXCEPT ![a] = Enqueue(@, t)] /\ tasks' = [tasks EXCEPT ![t] = y]
    BY <1>1, <1>2, <2>1 DEF Acquires
  <2>4. TasksOK(mutex', tasks')
    BY <1>2, <2>2, <2>3, Queued
  <2> QED BY <1>0, <2>1, <2>3, <2>4 DEF Moved, OthersGoOn
<1>3. CASE ~mutex[a].locked
  <2>1. PICK y : y = [x EXCEPT !.at = "entered"]
    OBVIOUS
  <2>2. TaskIs(t, y) /\ y.at = "entered" /\ y.acct = a
    BY <1>1, <2>1 DEF TaskIs, TaskState, Working
  <2>3. mutex' = [mutex EXCEPT ![a] = Lock(@)] /\ tasks' = [tasks EXCEPT ![t] = y]
    BY <1>1, <1>3, <2>1 DEF Acquires
  <2>4. TasksOK(mutex', tasks')
    BY <1>3, <2>2, <2>3, Taken
  <2> QED BY <1>0, <2>1, <2>3, <2>4 DEF Moved, OthersGoOn
<1> QED BY <1>2, <1>3

(* gives it back, *)
LEMMA ReleasesMoves ==
  ASSUME TasksOK(mutex, tasks), NEW t \in Tasks, tasks[t].at \in Working,
         NEW x, TaskIs(t, x), x.at \notin Busy, Releases(t, x)
  PROVE  Moved(t) /\ tasks'[t] = x
<1>1. DOMAIN tasks = Tasks /\ DOMAIN mutex = Accounts
  BY DEF TasksOK
<1>2. PICK a \in Accounts : a = tasks[t].acct
  BY DEF TasksOK, TaskIs
<1>3. PICK w : w = Woken(mutex[a])
  OBVIOUS
<1>4. MutexIs(mutex[a], tasks, a) /\ HoldsIn(tasks[t], a)
  BY <1>2 DEF TasksOK, HoldsIn
<1>5. \A s \in w : s \in Tasks /\ WaitsIn(tasks[s], a)
  <2>1. /\ mutex[a].queue = <<>> => w = {}
        /\ mutex[a].queue # <<>> =>
             w = {Head(mutex[a].queue)} /\ Head(mutex[a].queue) \in ToSet(mutex[a].queue)
             /\ Head(mutex[a].queue) \in Tasks
    BY <1>3, <1>4, WokenIsFirst DEF MutexIs
  <2> QED BY <1>4, <2>1 DEF MutexIs
<1>6. /\ mutex' = [mutex EXCEPT ![a] = Release(@)]
      /\ DOMAIN tasks' = Tasks /\ tasks'[t] = x
      /\ \A s \in Tasks \ {t} :
           tasks'[s] = IF s \in w THEN [tasks[s] EXCEPT !.at = "entered"] ELSE tasks[s]
  BY <1>2, <1>3 DEF Releases
<1>7. \A s \in Tasks : TaskIs(s, tasks'[s])
  <2>1. ASSUME NEW s \in Tasks \ {t}, s \in w
        PROVE  TaskIs(s, tasks'[s])
    <3>1. TaskIs(s, tasks[s]) /\ tasks[s].at = "waits"
      BY <1>5, <2>1 DEF TasksOK, WaitsIn
    <3>2. tasks'[s] = [tasks[s] EXCEPT !.at = "entered"]
      BY <1>6, <2>1
    <3> QED BY <3>1, <3>2 DEF TaskIs, TaskState, Working
  <2> QED BY <1>6, <2>1 DEF TasksOK
<1>8. OthersGoOn(t)
  BY <1>5, <1>6 DEF OthersGoOn, WaitsIn
<1>9. \A s \in w \ {t} : HoldsIn(tasks'[s], a) /\ ~WaitsIn(tasks'[s], a)
  <2>1. ASSUME NEW s \in w \ {t}
        PROVE  HoldsIn(tasks'[s], a) /\ ~WaitsIn(tasks'[s], a)
    <3>1. TaskIs(s, tasks[s]) /\ WaitsIn(tasks[s], a) /\ s \in Tasks
      BY <1>5 DEF TasksOK
    <3>2. tasks'[s] = [tasks[s] EXCEPT !.at = "entered"]
      BY <1>6, <3>1
    <3> QED BY <3>1, <3>2 DEF TaskIs, TaskState, HoldsIn, WaitsIn, Working
  <2> QED BY <2>1
<1>10. ~HoldsIn(tasks'[t], a) /\ ~WaitsIn(tasks'[t], a)
  BY <1>6 DEF HoldsIn, WaitsIn, Busy
<1>11. MutexIs(mutex'[a], tasks', a)
  <2>1. MutexIs(Release(mutex[a]), tasks', a)
    BY <1>3, <1>4, <1>6, <1>9, <1>10, ReleasedMutex
  <2> QED BY <1>1, <1>6, <2>1
<1>12. ASSUME NEW b \in Accounts, b # a
       PROVE  MutexIs(mutex'[b], tasks', b)
  <2>1. MutexIs(mutex[b], tasks, b) /\ mutex'[b] = mutex[b]
    BY <1>1, <1>6, <1>12 DEF TasksOK
  <2>2. \A s \in Tasks : /\ HoldsIn(tasks'[s], b) <=> HoldsIn(tasks[s], b)
                         /\ WaitsIn(tasks'[s], b) <=> WaitsIn(tasks[s], b)
    <3>1. ASSUME NEW s \in w \ {t}
          PROVE  /\ HoldsIn(tasks'[s], b) <=> HoldsIn(tasks[s], b)
                 /\ WaitsIn(tasks'[s], b) <=> WaitsIn(tasks[s], b)
      BY <1>5, <1>9, <1>12 DEF HoldsIn, WaitsIn
    <3>2. /\ HoldsIn(tasks'[t], b) <=> HoldsIn(tasks[t], b)
          /\ WaitsIn(tasks'[t], b) <=> WaitsIn(tasks[t], b)
      BY <1>2, <1>6, <1>12 DEF HoldsIn, WaitsIn, Busy
    <3> QED BY <1>6, <3>1, <3>2
  <2> QED BY <2>1, <2>2, SameMutex
<1>13. TasksOK(mutex', tasks')
  <2>1. mutex' \in [Accounts -> MutexState(Tasks)]
    BY <1>6, <1>11, <1>12 DEF TasksOK, MutexIs
  <2>2. tasks' \in [Tasks -> TaskState]
    BY <1>7 DEF TaskIs, Releases
  <2> QED BY <1>7, <1>11, <1>12, <2>1, <2>2 DEF TasksOK
<1> QED BY <1>6, <1>8, <1>13 DEF Moved

(* or gives up to wait for it. *)
LEMMA AfterIs ==
  ASSUME NEW t \in Tasks, TaskIs(t, tasks[t]), NEW ok \in BOOLEAN
  PROVE  /\ TaskIs(t, After(t, ok)) /\ After(t, ok).at \in {"idle", "failed", "next", "ended"}
         /\ t = "resetter" => After(t, ok) = [Idle EXCEPT !.at = "ended"]
<1>1. CASE t = "resetInit"
  <2>1. After(t, ok) = [Idle EXCEPT !.at = IF ok THEN "idle" ELSE "failed"]
    BY <1>1 DEF After, TaskIs
  <2> QED BY <1>1, <2>1 DEF Idle, TaskIs, TaskState, Working
<1>2. CASE t # "resetInit" /\ ok /\ tasks[t].op = "closeAll" /\ tasks[t].todo # {}
  <2>1. After(t, ok) = [tasks[t] EXCEPT !.at = "next", !.acct = NoAccount, !.ctx = None]
    BY <1>2 DEF After, TaskIs
  <2> QED BY <1>2, <2>1 DEF TaskIs, TaskState, Working
<1>3. CASE /\ t # "resetInit" /\ ~(ok /\ tasks[t].op = "closeAll" /\ tasks[t].todo # {})
           /\ t = "resetter"
  <2>1. After(t, ok) = [Idle EXCEPT !.at = "ended"]
    BY <1>3 DEF After
  <2> QED BY <1>3, <2>1 DEF Idle, TaskIs, TaskState, Working
<1>4. CASE /\ t # "resetInit" /\ ~(ok /\ tasks[t].op = "closeAll" /\ tasks[t].todo # {})
           /\ t # "resetter"
  <2>1. After(t, ok) = Idle
    BY <1>4 DEF After
  <2> QED BY <1>4, <2>1 DEF Idle, TaskIs, TaskState, Working
<1> QED BY <1>1, <1>2, <1>3, <1>4

LEMMA EndsMoves ==
  ASSUME TasksOK(mutex, tasks), NEW t \in Tasks, tasks[t].at \in Working, NEW ok \in BOOLEAN,
         Releases(t, After(t, ok))
  PROVE  Moved(t) /\ tasks'[t] = After(t, ok)
<1>1. TaskIs(t, After(t, ok)) /\ After(t, ok).at \notin Busy
  BY AfterIs DEF TasksOK, Busy, Working
<1> QED BY <1>1, ReleasesMoves

LEMMA GivesUpMoves ==
  ASSUME TasksOK(mutex, tasks), NEW t \in Tasks, GivesUp(t)
  PROVE  Moved(t) /\ tasks'[t] = After(t, FALSE)
<1>1. DOMAIN tasks = Tasks /\ DOMAIN mutex = Accounts /\ tasks[t].at = "waits"
  BY DEF TasksOK, GivesUp
<1>2. PICK a \in Accounts : a = tasks[t].acct
  BY <1>1 DEF TasksOK, TaskIs
<1>3. PICK x : x = After(t, FALSE)
  OBVIOUS
<1>4. TaskIs(t, x) /\ x.at \notin Busy
  BY <1>3, AfterIs DEF TasksOK, Busy, Working
<1>5. PICK n : n = Withdraw(mutex[a], CHOOSE i \in 1 .. Len(mutex[a].queue) :
                                         mutex[a].queue[i] = t)
  OBVIOUS
<1>6. mutex' = [mutex EXCEPT ![a] = n] /\ tasks' = [tasks EXCEPT ![t] = x]
  BY <1>2, <1>3, <1>5 DEF GivesUp
<1>7. tasks'[t] = x /\ \A s \in Tasks \ {t} : tasks'[s] = tasks[s]
  BY <1>1, <1>6
<1>8. ASSUME NEW b \in Accounts
      PROVE  MutexIs(mutex'[b], tasks', b)
  <2>1. MutexIs(mutex[b], tasks, b)
    BY DEF TasksOK
  <2>2. CASE b = a
    <3>1. WaitsIn(tasks[t], a) /\ ~HoldsIn(tasks'[t], a) /\ ~WaitsIn(tasks'[t], a)
      BY <1>1, <1>2, <1>4, <1>7 DEF WaitsIn, HoldsIn, Busy
    <3>2. /\ MutexIs(mutex[a], tasks, a)
          /\ \A s \in Tasks \ {t} : /\ HoldsIn(tasks'[s], a) <=> HoldsIn(tasks[s], a)
                                    /\ WaitsIn(tasks'[s], a) <=> WaitsIn(tasks[s], a)
      BY <1>7, <2>1, <2>2
    <3>3. MutexIs(Withdraw(mutex[a], CHOOSE i \in 1 .. Len(mutex[a].queue) :
                                       mutex[a].queue[i] = t), tasks', a)
      BY <3>1, <3>2, WithdrawnMutex, Zenon
    <3> QED BY <1>1, <1>5, <1>6, <2>2, <3>3
  <2>3. CASE b # a
    <3>1. \A s \in Tasks : /\ HoldsIn(tasks'[s], b) <=> HoldsIn(tasks[s], b)
                           /\ WaitsIn(tasks'[s], b) <=> WaitsIn(tasks[s], b)
      BY <1>1, <1>2, <1>4, <1>7, <2>3 DEF WaitsIn, HoldsIn, Busy
    <3> QED BY <1>1, <1>6, <2>1, <2>3, <3>1, SameMutex
  <2> QED BY <2>2, <2>3
<1>9. TasksOK(mutex', tasks')
  <2>1. tasks' \in [Tasks -> TaskState]
    BY <1>4, <1>6 DEF TasksOK, TaskIs
  <2>2. mutex' \in [Accounts -> MutexState(Tasks)]
    BY <1>6, <1>8 DEF TasksOK, MutexIs
  <2> QED BY <1>4, <1>7, <1>8, <2>1, <2>2 DEF TasksOK
<1> QED BY <1>3, <1>7, <1>9 DEF Moved, OthersGoOn
-----------------------------------------------------------------------------
(* Every action keeps the tasks and the mutexes. *)

(* The number of a browser that is launched is free.                        *)
LEMMA LaunchedIsFree ==
  ASSUME NEW a \in Accounts, Free(a) # {}
  PROVE  /\ Min(Free(a)) \in Context /\ Min(Free(a)) \notin Open(a)
         /\ Min(Free(a)) # contexts[a]
<1>1. Free(a) \in SUBSET Nat
  BY ContextsKnown DEF Free
<1>2. Min(Free(a)) \in Free(a)
  BY <1>1, LeastNumber
<1> QED BY <1>2 DEF Free

LEMMA InitStepMoves ==
  ASSUME TasksOK(mutex, tasks), NEW t \in Tasks, InitStep(t)
  PROVE  Moved(t)
<1>0. TaskIs(t, tasks[t])
  BY DEF TasksOK
<1>1. CASE InitFinds(t)
  <2>1. tasks[t].at \in Working /\ Releases(t, After(t, TRUE))
    BY <1>1 DEF InitFinds, At, Working
  <2> QED BY <2>1, EndsMoves
<1>2. CASE Launches(t)
  <2>1. PICK a \in Accounts : a = tasks[t].acct
    BY <1>0, <1>2 DEF TaskIs, Launches, At, Working
  <2>2. PICK c \in Context : c = Min(Free(a))
    BY <1>2, <2>1, LaunchedIsFree DEF Launches
  <2>3. PICK x : x = [tasks[t] EXCEPT !.at = "setup", !.ctx = c]
    OBVIOUS
  <2>4. /\ tasks[t].op = "init" /\ tasks[t].at = "entered" /\ UNCHANGED mutex
        /\ tasks' = [tasks EXCEPT ![t] = x]
    BY <1>2, <2>1, <2>2, <2>3 DEF Launches, At
  <2>5. TaskIs(t, x) /\ x.at = "setup" /\ x.acct = tasks[t].acct
    BY <1>0, <2>1, <2>3, <2>4 DEF TaskIs, TaskState, Working
  <2> QED BY <2>4, <2>5, QuietMoves DEF Working
<1>3. CASE LaunchFails(t)
  <2>1. tasks[t].at \in Working /\ Releases(t, After(t, FALSE))
    BY <1>3 DEF LaunchFails, At, Working
  <2> QED BY <2>1, EndsMoves
<1>4. CASE Registers(t)
  <2>1. PICK x : x = [tasks[t] EXCEPT !.at = "validate"]
    OBVIOUS
  <2>2. /\ tasks[t].at = "setup" /\ tasks[t].op = "init" /\ UNCHANGED mutex
        /\ tasks' = [tasks EXCEPT ![t] = x]
    BY <1>4, <2>1 DEF Registers, At, Reaches
  <2>3. TaskIs(t, x) /\ x.at = "validate" /\ x.acct = tasks[t].acct
    BY <1>0, <2>1, <2>2 DEF TaskIs, TaskState, Working
  <2> QED BY <2>2, <2>3, QuietMoves DEF Working
<1>5. CASE Validates(t) \/ InitFails(t)
  <2>1. /\ tasks[t].at \in Working /\ UNCHANGED mutex
        /\ Reaches(t, "capture") \/ Reaches(t, "closing")
    BY <1>5 DEF Validates, InitFails, At, Working
  <2> QED BY <2>1, ReachesMoves
<1> QED BY <1>1, <1>2, <1>3, <1>4, <1>5 DEF InitStep

LEMMA ClosedMoves ==
  ASSUME TasksOK(mutex, tasks), NEW t \in Tasks, Closed(t)
  PROVE  Moved(t)
<1>0. TaskIs(t, tasks[t]) /\ tasks[t].at = "closing" /\ tasks[t].at \in Working
  BY DEF TasksOK, Closed, Working
<1>1. CASE \E ok \in BOOLEAN : Releases(t, After(t, ok))
  BY <1>0, <1>1, EndsMoves
<1>2. CASE tasks[t].op = "reset" /\ ResetLets(t)
  <2>1. PICK x : x = [tasks[t] EXCEPT !.at = "inits", !.ctx = None]
    OBVIOUS
  <2>2. TaskIs(t, x) /\ x.at \notin Busy
    BY <1>0, <1>2, <2>1 DEF TaskIs, TaskState, Working, Busy
  <2>3. Releases(t, x) \/ Releases(t, After(t, FALSE))
    BY <1>2, <2>1 DEF ResetLets
  <2> QED BY <1>0, <2>2, <2>3, ReleasesMoves, EndsMoves
<1>3. \/ \E ok \in BOOLEAN : Releases(t, After(t, ok))
      \/ tasks[t].op = "reset" /\ ResetLets(t)
  <2>1. (tasks[t].op # "init") \in BOOLEAN
    OBVIOUS
  <2> QED BY <2>1 DEF Closed
<1> QED BY <1>1, <1>2, <1>3

LEMMA StepMoves ==
  ASSUME TasksOK(mutex, tasks), MapsTyped, NEW t \in Tasks, Step(t)
  PROVE  Moved(t)
<1>0. TaskIs(t, tasks[t])
  BY DEF TasksOK
<1>1. CASE InitStep(t)
  BY <1>1, InitStepMoves
<1>2. CASE Captures(t)
  <2>1. tasks[t].at \in Working /\ Releases(t, After(t, TRUE))
    BY <1>2 DEF Captures, Working
  <2> QED BY <2>1, EndsMoves
<1>3. CASE Enters(t) \/ Refreshes(t)
  <2>1. /\ tasks[t].at \in Working /\ UNCHANGED mutex
        /\ \E at \in {"capture", "navigate", "closing"} : Reaches(t, at)
    BY <1>3 DEF Enters, Refreshes, At, Working
  <2> QED BY <2>1, ReachesMoves
<1>4. CASE KeepsAlive(t)
  <2>1. /\ tasks[t].at \in Working
        /\ \/ UNCHANGED mutex /\ Reaches(t, "navigate")
           \/ \E ok \in BOOLEAN : Releases(t, After(t, ok))
    BY <1>4 DEF KeepsAlive, At, Working
  <2> QED BY <2>1, ReachesMoves, EndsMoves
<1>5. CASE StartsClosing(t)
  <2>1. PICK x : x = [tasks[t] EXCEPT !.at = "closing", !.ctx = contexts[tasks[t].acct]]
    OBVIOUS
  <2>2. /\ tasks[t].at = "entered" /\ UNCHANGED mutex /\ tasks' = [tasks EXCEPT ![t] = x]
        /\ contexts[tasks[t].acct] \in Context \cup {None}
    BY <1>0, <1>5, <2>1 DEF StartsClosing, TaskIs, Working, MapsTyped
  <2>3. TaskIs(t, x) /\ x.at = "closing" /\ x.acct = tasks[t].acct
    BY <1>0, <2>1, <2>2 DEF TaskIs, TaskState, Working
  <2> QED BY <2>2, <2>3, QuietMoves DEF Working
<1>6. CASE Closed(t)
  BY <1>6, ClosedMoves
<1>7. CASE ClosesNext(t)
  <2>1. /\ tasks[t].op = "closeAll" /\ tasks[t].at = "next"
        /\ \E a \in tasks[t].todo :
             Acquires(t, [tasks[t] EXCEPT !.acct = a, !.todo = @ \ {a}])
    BY <1>7 DEF ClosesNext, At
  <2>2. PICK a \in tasks[t].todo : Acquires(t, [tasks[t] EXCEPT !.acct = a, !.todo = @ \ {a}])
    BY <2>1
  <2>3. PICK x : x = [tasks[t] EXCEPT !.acct = a, !.todo = @ \ {a}]
    OBVIOUS
  <2>4. TaskIs(t, x) /\ x.acct \in Accounts /\ tasks[t].at \notin Busy
    BY <1>0, <2>1, <2>3 DEF TaskIs, TaskState, Working, Busy
  <2> QED BY <2>2, <2>3, <2>4, AcquiresMoves
<1>8. CASE Reopens(t)
  <2>1. PICK x : x \in {Idle, [tasks[t] EXCEPT !.at = "dismiss"]} /\ tasks' = [tasks EXCEPT ![t] = x]
    BY <1>8 DEF Reopens, Reaches
  <2>2. tasks[t].at \in {"newPage", "dismiss"} /\ UNCHANGED mutex
    BY <1>8 DEF Reopens
  <2>3. TaskIs(t, x) /\ x.at \notin Busy
    BY <1>0, <2>1, <2>2 DEF TaskIs, TaskState, Working, Busy, Idle
  <2> QED BY <2>1, <2>2, <2>3, QuietMoves DEF Busy, Working
<1> QED BY <1>1, <1>2, <1>3, <1>4, <1>5, <1>6, <1>7, <1>8 DEF Step

LEMMA BeginsMoves ==
  ASSUME TasksOK(mutex, tasks), MapsTyped, NEW t \in Callers, NEW a \in Accounts, Begins(t, a)
  PROVE  Moved(t)
<1>1. /\ t \in Tasks /\ t # "resetter" /\ t # "resetInit"
      /\ tasks[t] = Idle /\ tasks[t].at \notin Busy
  BY TasksKnown DEF Begins, Idle, Busy, Working
<1>2. CASE \E op \in {"init", "refresh", "headers", "keepAlive", "close"} :
             Acquires(t, Task(op, a))
  <2>1. PICK op \in {"init", "refresh", "headers", "keepAlive", "close"} :
          Acquires(t, Task(op, a))
    BY <1>2
  <2>2. TaskIs(t, Task(op, a)) /\ Task(op, a).acct \in Accounts
    BY <1>1 DEF TaskIs, TaskState, Task, Idle, Op, Working
  <2> QED BY <1>1, <2>1, <2>2, AcquiresMoves
<1>3. CASE BeginsReopen(t, a)
  <2>1. PICK x : x = [Task("reopen", a) EXCEPT !.at = "newPage", !.ctx = contexts[a]]
    OBVIOUS
  <2>2. tasks' = [tasks EXCEPT ![t] = x] /\ UNCHANGED mutex /\ contexts[a] \in Context \cup {None}
    BY <1>3, <2>1 DEF BeginsReopen, MapsTyped
  <2>3. TaskIs(t, x) /\ x.at \notin Busy
    BY <1>1, <2>1, <2>2 DEF TaskIs, TaskState, Task, Idle, Op, Working, Busy
  <2> QED BY <1>1, <2>2, <2>3, QuietMoves
<1>4. \/ \E op \in {"init", "refresh", "headers", "keepAlive", "close"} :
           Acquires(t, Task(op, a))
      \/ BeginsReopen(t, a)
  BY DEF Begins, BeginsInit, BeginsRefresh, BeginsHeaders, BeginsKeepAlive, BeginsIdleClose,
         BeginsClose
<1> QED BY <1>2, <1>3, <1>4

LEMMA BeginsCloseAllMoves ==
  ASSUME TasksOK(mutex, tasks), NEW t \in Callers, BeginsCloseAll(t)
  PROVE  Moved(t)
<1>1. t \in Tasks /\ t # "resetter" /\ t # "resetInit" /\ tasks[t] = Idle
  BY TasksKnown DEF BeginsCloseAll
<1>2. PICK known \in SUBSET Accounts :
        tasks' = [tasks EXCEPT ![t] = [Idle EXCEPT !.op = "closeAll", !.at = "next",
                                                   !.todo = known]]
  BY DEF BeginsCloseAll
<1>3. PICK x : x = [Idle EXCEPT !.op = "closeAll", !.at = "next", !.todo = known]
  OBVIOUS
<1>4. TaskIs(t, x) /\ x.at \notin Busy /\ tasks[t].at \notin Busy
  <2>1. x = [op |-> "closeAll", at |-> "next", acct |-> NoAccount, ctx |-> None,
             todo |-> known]
    BY <1>3 DEF Idle
  <2>2. x \in TaskState
    BY <2>1 DEF TaskState, Op
  <2> QED BY <1>1, <2>1, <2>2 DEF TaskIs, Idle, Working, Busy
<1>5. tasks' = [tasks EXCEPT ![t] = x] /\ UNCHANGED mutex
  BY <1>2, <1>3 DEF BeginsCloseAll
<1> QED BY <1>1, <1>4, <1>5, QuietMoves
(* The chain of resets.  Only ResetInits changes two tasks: the reset, which *)
(* has no mutex, and the initialisation, which asks for one.               *)
LEMMA ResetMoves ==
  ASSUME TasksOK(mutex, tasks), ResetsOK, BeginsReset \/ ResetAwaits \/ ResetEnds
  PROVE  Moved("resetter") /\ tasks["resetter"].at \notin Busy
<1> DEFINE r == "resetter"
<1>0. r \in Tasks /\ r # "resetInit" /\ TaskIs(r, tasks[r])
  BY TasksKnown DEF TasksOK
<1>1. tasks[r].at \in {"idle", "ended", "awaits"} /\ tasks[r].at \notin Busy
  BY DEF BeginsReset, ResetAwaits, ResetEnds, At, Idle, Busy, Working
<1>2. CASE UNCHANGED mutex /\ \E at \in {"idle", "ended"} :
             tasks' = [tasks EXCEPT ![r] = [Idle EXCEPT !.at = at]]
  <2>1. PICK at \in {"idle", "ended"} : tasks' = [tasks EXCEPT ![r] = [Idle EXCEPT !.at = at]]
    BY <1>2
  <2>2. PICK x : x = [Idle EXCEPT !.at = at]
    OBVIOUS
  <2>3. TaskIs(r, x) /\ x.at \notin Busy
    BY <1>0, <2>2 DEF TaskIs, TaskState, Idle, Busy, Working
  <2> QED BY <1>0, <1>1, <1>2, <2>1, <2>2, <2>3, QuietMoves
<1>3. CASE \E op \in {"reset", "close"}, a \in Accounts : Acquires(r, Task(op, a))
  <2>1. PICK op \in {"reset", "close"}, a \in Accounts : Acquires(r, Task(op, a))
    BY <1>3
  <2>2. TaskIs(r, Task(op, a)) /\ Task(op, a).acct \in Accounts
    BY <1>0 DEF TaskIs, TaskState, Task, Idle, Op, Working
  <2> QED BY <1>0, <1>1, <2>1, <2>2, AcquiresMoves
<1>4. CASE BeginsReset
  <2>1. CASE ClosingAll
    <3>1. tasks' = [tasks EXCEPT ![r] = [Idle EXCEPT !.at = "ended"]]
      BY <1>4, <2>1 DEF BeginsReset
    <3> QED BY <1>2, <1>4, <2>1, <3>1 DEF BeginsReset
  <2>2. CASE ~ClosingAll
    <3>1. Head(resets) \in Accounts
      BY <1>4 DEF BeginsReset, ResetsOK
    <3> QED BY <1>3, <1>4, <2>2, <3>1 DEF BeginsReset
  <2> QED BY <2>1, <2>2
<1>5. CASE ResetAwaits
  <2>1. CASE tasks["resetInit"] = Idle
    BY <1>2, <1>5, <2>1 DEF ResetAwaits
  <2>2. CASE tasks["resetInit"] # Idle
    <3>1. tasks[r].acct \in Accounts
      BY <1>0, <1>5 DEF ResetAwaits, At, TaskIs
    <3> QED BY <1>3, <1>5, <2>2, <3>1 DEF ResetAwaits
  <2> QED BY <2>1, <2>2
<1>6. CASE ResetEnds
  <2>1. [Idle EXCEPT !.at = "idle"] = Idle
    BY DEF Idle
  <2> QED BY <1>2, <1>6, <2>1 DEF ResetEnds
<1> QED BY <1>4, <1>5, <1>6

LEMMA ResetInitsMoves ==
  ASSUME TasksOK(mutex, tasks), ResetInits
  PROVE  /\ TasksOK(mutex, tasks)'
         /\ tasks["resetter"].at = "inits" /\ tasks'["resetter"].at = "awaits"
         /\ tasks["resetInit"].at \in {"idle", "failed"}
         /\ \A s \in Tasks \ {"resetter", "resetInit"} : tasks'[s] = tasks[s]
<1> DEFINE r == "resetter"
           i == "resetInit"
<1>0. /\ r \in Tasks /\ i \in Tasks /\ r # i /\ DOMAIN tasks = Tasks
      /\ TaskIs(r, tasks[r]) /\ TaskIs(i, tasks[i])
  BY TasksKnown DEF TasksOK
<1>1. PICK a \in Accounts : a = tasks[r].acct
  BY <1>0 DEF ResetInits, At, TaskIs
<1>2. PICK x : x = [tasks[r] EXCEPT !.at = "awaits"]
  OBVIOUS
<1>3. PICK waiting : waiting = [tasks EXCEPT ![r] = x]
  OBVIOUS
<1>4. /\ tasks[r].op = "reset" /\ tasks[r].at = "inits" /\ tasks[i].at \in {"idle", "failed"}
      /\ waiting = [tasks EXCEPT ![r].at = "awaits"]
  BY <1>2, <1>3 DEF ResetInits, At
<1>5. TaskIs(r, x) /\ x.at = "awaits" /\ x.at \notin Busy /\ tasks[r].at \notin Busy
  BY <1>0, <1>1, <1>2, <1>4 DEF TaskIs, TaskState, Busy, Working
<1>6. TasksOK(mutex, waiting)
  BY <1>0, <1>3, <1>5, Quiet
<1>7. /\ waiting[r] = x /\ waiting[i] = tasks[i] /\ waiting[i].at \notin Busy
      /\ DOMAIN waiting = Tasks /\ \A s \in Tasks \ {r} : waiting[s] = tasks[s]
  BY <1>0, <1>3, <1>4 DEF Busy, Working
<1>8. CASE HasPage(a)
  <2>1. UNCHANGED mutex /\ tasks' = [waiting EXCEPT ![i] = Idle]
    BY <1>1, <1>4, <1>8 DEF ResetInits
  <2>2. TaskIs(i, Idle) /\ Idle.at \notin Busy
    BY <1>0 DEF TaskIs, TaskState, Idle, Busy, Working
  <2>3. TasksOK(mutex, tasks')
    BY <1>0, <1>6, <1>7, <2>1, <2>2, Quiet
  <2> QED BY <1>0, <1>4, <1>5, <1>7, <2>1, <2>3
<1>9. CASE ~HasPage(a) /\ mutex[a].locked
  <2>1. PICK y : y = [Task("init", a) EXCEPT !.at = "waits"]
    OBVIOUS
  <2>2. mutex' = [mutex EXCEPT ![a] = Enqueue(@, i)] /\ tasks' = [waiting EXCEPT ![i] = y]
    BY <1>1, <1>4, <1>9, <2>1 DEF ResetInits
  <2>3. TaskIs(i, y) /\ y.at = "waits" /\ y.acct = a
    BY <1>0, <2>1 DEF TaskIs, TaskState, Task, Idle, Op, Working
  <2>4. TasksOK(mutex', tasks')
    BY <1>0, <1>6, <1>7, <1>9, <2>2, <2>3, Queued
  <2> QED BY <1>0, <1>4, <1>5, <1>7, <2>2, <2>4
<1>10. CASE ~HasPage(a) /\ ~mutex[a].locked
  <2>1. PICK y : y = [Task("init", a) EXCEPT !.at = "entered"]
    OBVIOUS
  <2>2. mutex' = [mutex EXCEPT ![a] = Lock(@)] /\ tasks' = [waiting EXCEPT ![i] = y]
    BY <1>1, <1>4, <1>10, <2>1 DEF ResetInits
  <2>3. TaskIs(i, y) /\ y.at = "entered" /\ y.acct = a
    BY <1>0, <2>1 DEF TaskIs, TaskState, Task, Idle, Op, Working
  <2>4. TasksOK(mutex', tasks')
    BY <1>0, <1>6, <1>7, <1>10, <2>2, <2>3, Taken
  <2> QED BY <1>0, <1>4, <1>5, <1>7, <2>2, <2>4
<1> QED BY <1>8, <1>9, <1>10

(* What happens on an account without an operation. *)
Outside(a) == Schedule(a) \/ LooksUp(a) \/ BrowserCrashes(a) \/ PageCloses(a)

LEMMA TasksKept ==
  ASSUME IInv, Next
  PROVE  TasksOK(mutex, tasks)'
<1>0. TasksOK(mutex, tasks) /\ MapsTyped /\ ResetsOK
  BY DEF IInv
<1>1. CASE \E t \in Tasks : Step(t) \/ GivesUp(t)
  BY <1>0, <1>1, StepMoves, GivesUpMoves DEF Moved
<1>2. CASE \E t \in Callers : BeginsCloseAll(t) \/ \E a \in Accounts : Begins(t, a)
  BY <1>0, <1>2, BeginsMoves, BeginsCloseAllMoves DEF Moved
<1>3. CASE ResetStep
  BY <1>0, <1>3, ResetMoves, ResetInitsMoves DEF ResetStep, Moved
<1>4. CASE \E a \in Accounts : Outside(a)
  <2>1. UNCHANGED <<mutex, tasks>>
    BY <1>4 DEF Outside, Schedule, LooksUp, BrowserCrashes, PageCloses
  <2> QED BY <1>0, <2>1
<1> QED BY <1>1, <1>2, <1>3, <1>4 DEF Next, Outside

-----------------------------------------------------------------------------
(* The maps and the browsers *)

LEMMA SameMaps ==
  ASSUME MapsTyped, UNCHANGED <<contexts, pages, browsers>>
  PROVE  MapsTyped'
BY DEF MapsTyped, Open

LEMMA PagesChange ==
  ASSUME MapsTyped, UNCHANGED <<contexts, browsers>>, NEW a \in Accounts,
         NEW p \in [ctx : Context \cup {None}, closed : BOOLEAN],
         pages' = [pages EXCEPT ![a] = p]
  PROVE  MapsTyped'
BY DEF MapsTyped, Open

(* Launching, registering and validating a browser, *)
LEMMA LaunchBrowsers ==
  ASSUME MapsTyped, NEW t \in Tasks, Launches(t), NEW a \in Accounts, a = tasks[t].acct
  PROVE  /\ DOMAIN browsers' = Accounts
         /\ \A b \in Accounts \ {a} : browsers'[b] = browsers[b]
         /\ \A c \in Open(a) : c \in Open(a)' /\ browsers'[a][c] = browsers[a][c]
         /\ \E c \in Context : /\ c # contexts[a] /\ c \notin Open(a) /\ browsers'[a][c] = "new"
                               /\ Open(a)' = Open(a) \cup {c}
<1>1. PICK c \in Context : c = Min(Free(a)) /\ c \notin Open(a) /\ c # contexts[a]
  BY LaunchedIsFree DEF Launches
<1>2. PICK f : f = [d \in Open(a) \cup {c} |-> IF d = c THEN "new" ELSE browsers[a][d]]
  OBVIOUS
<1>3. browsers' = [browsers EXCEPT ![a] = f]
  BY <1>1, <1>2 DEF Launches
<1>4. /\ DOMAIN f = Open(a) \cup {c} /\ f[c] = "new"
      /\ \A d \in Open(a) : f[d] = browsers[a][d]
  BY <1>1, <1>2
<1> QED BY <1>1, <1>3, <1>4 DEF MapsTyped, Open

LEMMA InitStepMaps ==
  ASSUME TasksOK(mutex, tasks), MapsTyped, NEW t \in Tasks, InitStep(t)
  PROVE  MapsTyped'
<1>1. CASE InitFinds(t) \/ LaunchFails(t) \/ InitFails(t)
  BY <1>1, SameMaps DEF InitFinds, LaunchFails, InitFails, maps
<1>2. PICK a : a = tasks[t].acct
  OBVIOUS
<1>3. CASE Launches(t) \/ Registers(t) \/ Validates(t)
  <2>0. a \in Accounts
    BY <1>2, <1>3 DEF TasksOK, TaskIs, Launches, Registers, Validates, At, Working
  <2>1. CASE Launches(t)
    <3>1. UNCHANGED <<contexts, pages>>
      BY <2>1 DEF Launches, maps
    <3>2. /\ DOMAIN browsers' = Accounts
          /\ \A b \in Accounts \ {a} : browsers'[b] = browsers[b]
          /\ \A c \in Open(a) : browsers'[a][c] = browsers[a][c]
      BY <1>2, <2>0, <2>1, LaunchBrowsers
    <3>3. PICK c \in Context : browsers'[a][c] = "new" /\ Open(a)' = Open(a) \cup {c}
      BY <1>2, <2>0, <2>1, LaunchBrowsers
    <3>4. \A b \in Accounts \ {a} : Open(b)' = Open(b)
      BY <3>2 DEF Open
    <3> QED BY <2>0, <3>1, <3>2, <3>3, <3>4 DEF MapsTyped
  <2>2. CASE Registers(t)
    <3>1. PICK c \in Context : /\ contexts' = [contexts EXCEPT ![a] = c] /\ UNCHANGED browsers
                               /\ pages' = [pages EXCEPT ![a] = [ctx |-> c, closed |-> FALSE]]
      BY <1>2, <2>0, <2>2 DEF Registers, MapsTyped
    <3> QED BY <2>0, <3>1 DEF MapsTyped, Open
  <2>3. CASE Validates(t)
    <3>1. PICK c \in Open(a) : /\ browsers' = [browsers EXCEPT ![a][c] = "valid"]
                               /\ UNCHANGED <<contexts, pages>>
      BY <1>2, <2>0, <2>3 DEF Validates, maps
    <3>2. PICK f : f = [browsers[a] EXCEPT ![c] = "valid"]
      OBVIOUS
    <3>3. /\ browsers' = [browsers EXCEPT ![a] = f] /\ DOMAIN f = Open(a)
          /\ \A d \in Open(a) : f[d] \in {"new", "valid"}
      BY <2>0, <3>1, <3>2 DEF Open, MapsTyped
    <3> QED BY <2>0, <3>1, <3>3 DEF MapsTyped, Open
  <2> QED BY <1>3, <2>1, <2>2, <2>3
<1> QED BY <1>1, <1>3 DEF InitStep

(* closing one, also by a crash, *)
LEMMA ClosesBrowser ==
  ASSUME MapsTyped, NEW a \in Accounts, NEW c, Closes(a, c)
  PROVE  /\ DOMAIN browsers' = Accounts
         /\ \A b \in Accounts \ {a} : browsers'[b] = browsers[b]
         /\ Open(a)' = Open(a) \ {c}
         /\ \A d \in Open(a)' : browsers'[a][d] = browsers[a][d]
<1>1. PICK f : f = [d \in Open(a) \ {c} |-> browsers[a][d]]
  OBVIOUS
<1>2. browsers' = [browsers EXCEPT ![a] = f]
  BY <1>1 DEF Closes, Open, MapsTyped
<1> QED BY <1>1, <1>2 DEF MapsTyped, Open

LEMMA ClosesMaps ==
  ASSUME MapsTyped, NEW a \in Accounts, NEW c, Closes(a, c),
         Cleanup(a) \/ UNCHANGED <<contexts, pages>>
  PROVE  MapsTyped'
<1>1. /\ contexts' \in [Accounts -> Context \cup {None}]
      /\ pages' \in [Accounts -> [ctx : Context \cup {None}, closed : BOOLEAN]]
  <2>1. CASE Cleanup(a)
    <3>1. PICK p \in [ctx : Context \cup {None}, closed : BOOLEAN] : p = NoPage
      BY DEF NoPage
    <3> QED BY <2>1, <3>1 DEF MapsTyped, Cleanup
  <2> QED BY <2>1 DEF MapsTyped
<1>2. /\ DOMAIN browsers' = Accounts
      /\ \A b \in Accounts \ {a} : browsers'[b] = browsers[b]
      /\ Open(a)' = Open(a) \ {c}
      /\ \A d \in Open(a)' : browsers'[a][d] = browsers[a][d]
  BY ClosesBrowser
<1>3. \A b \in Accounts \ {a} : Open(b)' = Open(b)
  BY <1>2 DEF Open
<1> QED BY <1>1, <1>2, <1>3 DEF MapsTyped

(* and everything else. *)
LEMMA MapsKept ==
  ASSUME IInv, Next
  PROVE  MapsTyped'
<1>0. TasksOK(mutex, tasks) /\ MapsTyped /\ NoPage \in [ctx : Context \cup {None}, closed : BOOLEAN]
  BY DEF IInv, NoPage
<1>1. ASSUME NEW t \in Tasks, Step(t) \/ GivesUp(t)
      PROVE  MapsTyped'
  <2>0. TaskIs(t, tasks[t])
    BY <1>0 DEF TasksOK
  <2>1. CASE InitStep(t)
    BY <1>0, <2>1, InitStepMaps
  <2>2. CASE \/ Captures(t) \/ Enters(t) \/ Refreshes(t) \/ KeepsAlive(t) \/ StartsClosing(t)
             \/ ClosesNext(t) \/ GivesUp(t)
    BY <1>0, <2>2, SameMaps
       DEF Captures, Enters, Refreshes, KeepsAlive, StartsClosing, ClosesNext, GivesUp, maps
  <2>3. CASE Closed(t)
    <3>1. tasks[t].acct \in Accounts
      BY <2>0, <2>3 DEF TaskIs, Closed, Working
    <3> QED BY <1>0, <2>3, <3>1, ClosesMaps DEF Closed, CleanupOf
  <2>4. CASE Reopens(t)
    <3>1. UNCHANGED <<contexts, browsers>> /\ tasks[t].acct \in Accounts
      BY <2>0, <2>4 DEF Reopens, TaskIs
    <3>2. tasks[t].ctx \in Context \cup {None}
      BY <2>0 DEF TaskIs, TaskState
    <3>3. \/ UNCHANGED pages
          \/ pages' = [pages EXCEPT ![tasks[t].acct] = [ctx |-> tasks[t].ctx, closed |-> FALSE]]
      BY <2>4 DEF Reopens
    <3> QED BY <1>0, <3>1, <3>2, <3>3, SameMaps, PagesChange
  <2> QED BY <1>1, <2>1, <2>2, <2>3, <2>4 DEF Step
<1>2. ASSUME NEW t \in Callers, NEW a \in Accounts, Begins(t, a)
      PROVE  MapsTyped'
  <2>1. CASE UNCHANGED maps
    BY <1>0, <1>2, <2>1, SameMaps DEF Begins, maps
  <2>2. CASE BeginsReopen(t, a)
    BY <1>0, <1>2, <2>2, PagesChange DEF Begins, BeginsReopen
  <2> QED BY <1>2, <2>1, <2>2 DEF Begins
<1>3. CASE ResetStep \/ \E t \in Callers : BeginsCloseAll(t)
  BY <1>0, <1>3, SameMaps
     DEF ResetStep, BeginsReset, ResetInits, ResetAwaits, ResetEnds, BeginsCloseAll, maps
<1>4. ASSUME NEW a \in Accounts, Outside(a)
      PROVE  MapsTyped'
  <2>1. CASE Schedule(a)
    BY <1>0, <2>1, SameMaps DEF Schedule, maps
  <2>2. CASE LooksUp(a)
    BY <1>0, <2>2, PagesChange DEF LooksUp
  <2>3. CASE BrowserCrashes(a)
    BY <1>0, <2>3, ClosesMaps DEF BrowserCrashes, maps
  <2>4. CASE PageCloses(a)
    <3>1. PICK p : p = [pages[a] EXCEPT !.closed = TRUE]
      OBVIOUS
    <3>2. pages[a] \in [ctx : Context \cup {None}, closed : BOOLEAN]
      BY <1>0 DEF MapsTyped
    <3>3. p \in [ctx : Context \cup {None}, closed : BOOLEAN]
      BY <3>1, <3>2
    <3>4. pages' = [pages EXCEPT ![a] = p] /\ UNCHANGED <<contexts, browsers>>
      BY <2>4, <3>1 DEF PageCloses
    <3> QED BY <1>0, <3>3, <3>4, PagesChange
  <2> QED BY <1>4, <2>1, <2>2, <2>3, <2>4 DEF Outside
<1> QED BY <1>1, <1>2, <1>3, <1>4 DEF Next, Outside

-----------------------------------------------------------------------------
(* Resets, profiles and headers *)

(* A task that steps or gives up has begun.                                 *)
LEMMA NotIdle ==
  ASSUME NEW t \in Tasks, Step(t) \/ GivesUp(t)
  PROVE  tasks[t] # Idle
<1>1. Idle.op = "none" /\ Idle.at = "idle"
  BY DEF Idle
<1>2. CASE InitStep(t) \/ Refreshes(t) \/ KeepsAlive(t) \/ ClosesNext(t)
  BY <1>1, <1>2 DEF InitStep, InitFinds, Launches, LaunchFails, Registers, Validates,
                    InitFails, Refreshes, KeepsAlive, ClosesNext, At
<1>3. CASE Captures(t) \/ Enters(t) \/ StartsClosing(t) \/ Closed(t) \/ Reopens(t) \/ GivesUp(t)
  BY <1>1, <1>3 DEF Captures, Enters, StartsClosing, Closed, Reopens, GivesUp
<1> QED BY <1>2, <1>3 DEF Step

(* A reset that closed its account has deleted the profile, or, after its    *)
(* time was over, is at its end.                                           *)
LEMMA ClosedEnds ==
  ASSUME TasksOK(mutex, tasks), Closed("resetter")
  PROVE  Past(tasks'["resetter"])
<1> DEFINE r == "resetter"
<1>0. r \in Tasks /\ TaskIs(r, tasks[r]) /\ tasks[r].at = "closing" /\ tasks[r].at \in Working
  BY TasksKnown DEF TasksOK, Closed, Working
<1>1. CASE \E ok \in BOOLEAN : Releases(r, After(r, ok))
  <2>1. tasks'[r] = [Idle EXCEPT !.at = "ended"]
    BY <1>0, <1>1, EndsMoves, AfterIs
  <2> QED BY <2>1 DEF Past, Idle
<1>2. CASE Releases(r, [tasks[r] EXCEPT !.at = "inits", !.ctx = None])
  <2>1. PICK x : x = [tasks[r] EXCEPT !.at = "inits", !.ctx = None]
    OBVIOUS
  <2>2. tasks'[r] = x /\ x.at = "inits"
    BY <1>0, <1>2, <2>1 DEF Releases, TaskIs, TaskState
  <2> QED BY <2>2 DEF Past
<1>3. (tasks[r].op # "init") \in BOOLEAN
  OBVIOUS
<1> QED BY <1>1, <1>2, <1>3 DEF Closed, ResetLets


(* The resetter never goes back behind the deletion of the profile, whether  *)
(* others step *)
LEMMA ResetterGoesOn ==
  ASSUME TasksOK(mutex, tasks), NEW t \in Tasks \ {"resetter"}, OthersGoOn(t)
  PROVE  /\ tasks["resetter"] = Idle => tasks'["resetter"] = Idle
         /\ Past(tasks["resetter"]) => Past(tasks'["resetter"])
<1> DEFINE r == "resetter"
<1>0. r \in Tasks /\ TaskIs(r, tasks[r])
  BY TasksKnown DEF TasksOK
<1>1. \/ tasks'[r] = tasks[r]
      \/ tasks[r].at = "waits" /\ tasks'[r] = [tasks[r] EXCEPT !.at = "entered"]
  BY <1>0 DEF OthersGoOn
<1>2. CASE tasks[r].at = "waits" /\ tasks'[r] = [tasks[r] EXCEPT !.at = "entered"]
  <2>1. tasks'[r].op = tasks[r].op
    BY <1>0, <1>2 DEF TaskIs, TaskState
  <2> QED BY <1>2, <2>1 DEF Past, Idle
<1> QED BY <1>1, <1>2

(* or itself. *)
LEMMA ResetterSteps ==
  ASSUME TasksOK(mutex, tasks), MapsTyped, NEW t \in Tasks, Step(t) \/ GivesUp(t)
  PROVE  /\ tasks["resetter"] = Idle => tasks'["resetter"] = Idle
         /\ Past(tasks["resetter"]) => Past(tasks'["resetter"])
<1> DEFINE r == "resetter"
<1>0. r \in Tasks /\ r # "resetInit" /\ TaskIs(r, tasks[r])
  BY TasksKnown DEF TasksOK
<1>1. CASE t # r
  BY <1>1, StepMoves, GivesUpMoves, ResetterGoesOn DEF Moved
<1>2. CASE t = r
  <2>1. CASE \E ok \in BOOLEAN : tasks'[r] = After(r, ok)
    <3>1. tasks'[r] = [Idle EXCEPT !.at = "ended"]
      BY <1>0, <2>1, AfterIs
    <3>2. Past(tasks'[r])
      BY <3>1 DEF Past, Idle
    <3> QED BY <1>2, <3>2, NotIdle
  <2>2. CASE StartsClosing(r)
    <3>1. tasks[r].at = "entered" /\ tasks'[r].op = tasks[r].op
      BY <1>0, <2>2 DEF StartsClosing, TaskIs, TaskState, TasksOK
    <3> QED BY <3>1 DEF Past, Idle
  <2>3. CASE Closed(r)
    <3>1. Past(tasks'[r]) /\ tasks[r].at = "closing"
      BY <1>0, <2>3, ClosedEnds DEF Closed
    <3> QED BY <3>1 DEF Idle
  <2>4. CASE Captures(r)
    <3>1. tasks[r].at \in Working /\ Releases(r, After(r, TRUE))
      BY <2>4 DEF Captures, Working
    <3>2. tasks'[r] = After(r, TRUE)
      BY <1>0, <3>1, EndsMoves
    <3> QED BY <2>1, <3>2
  <2>5. CASE GivesUp(r)
    BY <1>0, <2>1, <2>5, GivesUpMoves
  <2>6. ~(InitStep(r) \/ Enters(r) \/ Refreshes(r) \/ KeepsAlive(r) \/ ClosesNext(r) \/ Reopens(r))
    BY <1>0 DEF TaskIs, InitStep, InitFinds, Launches, LaunchFails, Registers, Validates,
                InitFails, Enters, Refreshes, KeepsAlive, ClosesNext, Reopens, At
  <2> QED BY <1>2, <2>2, <2>3, <2>4, <2>5, <2>6 DEF Step
<1> QED BY <1>1, <1>2

(* A step that deletes no profile and begins no chain of resets. *)
LEMMA QuietResets ==
  ASSUME ResetsOK, UNCHANGED <<profile, resets, scheduled>>, crashes' \in Nat,
         \/ UNCHANGED headers
         \/ \E a \in Accounts : \E h \in {None, profile[a]} :
              headers' = [headers EXCEPT ![a] = h],
         tasks'["resetter"] = Idle \/ resets # <<>>,
         Past(tasks["resetter"]) => Past(tasks'["resetter"])
  PROVE  ResetsOK'
<1>1. headers' \in [Accounts -> Nat] /\ \A a \in Accounts : headers'[a] \in {None, profile[a]}
  BY ContextsKnown DEF ResetsOK
<1>2. Len(resets) \in Nat /\ scheduled \in Nat /\ \A a \in Accounts : profile[a] \in Nat
  BY DEF ResetsOK
<1>3. ASSUME NEW a \in Accounts
      PROVE  profile[a] + Len(resets) <=
               scheduled + 1 + (IF Past(tasks'["resetter"]) THEN 1 ELSE 0)
  <2>1. profile[a] + Len(resets) <=
          scheduled + 1 + (IF Past(tasks["resetter"]) THEN 1 ELSE 0)
    BY DEF ResetsOK
  <2> QED BY <1>2, <2>1
<1> QED BY <1>1, <1>3 DEF ResetsOK

LEMMA ClosedResets ==
  ASSUME TasksOK(mutex, tasks), MapsTyped, ResetsOK, NEW t \in Tasks, Closed(t)
  PROVE  ResetsOK'
<1> DEFINE r == "resetter"
<1>0. /\ r \in Tasks /\ TaskIs(t, tasks[t]) /\ tasks[t].at = "closing"
      /\ UNCHANGED <<resets, scheduled, crashes>>
  BY TasksKnown DEF TasksOK, Closed, bounds
<1>1. PICK a \in Accounts : a = tasks[t].acct
  BY <1>0 DEF TaskIs, Working
<1>2. headers' = [headers EXCEPT ![a] = None]
  BY <1>1 DEF Closed, CleanupOf, Cleanup
<1>3. /\ tasks[r] = Idle => tasks'[r] = Idle
      /\ Past(tasks[r]) => Past(tasks'[r])
  BY ResetterSteps DEF Step
<1>4. CASE tasks[t].op # "reset"
  <2>1. UNCHANGED profile
    BY <1>4 DEF Closed
  <2>2. tasks'[r] = Idle \/ resets # <<>>
    BY <1>3 DEF ResetsOK
  <2> QED BY <1>0, <1>2, <1>3, <2>1, <2>2, QuietResets DEF ResetsOK
<1>5. CASE tasks[t].op = "reset"
  <2>1. t = r /\ tasks[r].op = "reset" /\ tasks[r].at = "closing"
    BY <1>0, <1>5 DEF TaskIs
  <2>2. ~Past(tasks[r]) /\ tasks[r] # Idle
    BY <2>1 DEF Past, Idle
  <2>3. Past(tasks'[r])
    BY <2>1, ClosedEnds
  <2>4. profile' = [profile EXCEPT ![a] = @ + 1]
    BY <1>1, <1>5 DEF Closed
  <2>5. profile' \in [Accounts -> Nat \ {0}]
    BY <1>1, <2>4 DEF ResetsOK
  <2>6. headers' \in [Accounts -> Nat] /\ \A b \in Accounts : headers'[b] \in {None, profile'[b]}
    BY <1>1, <1>2, <2>4, ContextsKnown DEF ResetsOK
  <2>7. ASSUME NEW b \in Accounts
        PROVE  profile'[b] + Len(resets') <= scheduled' + 1 + 1
    <3>1. profile[b] + Len(resets) <= scheduled + 1 + 0
      BY <2>2 DEF ResetsOK
    <3>2. profile'[b] \in {profile[b], profile[b] + 1}
      BY <1>1, <2>4 DEF ResetsOK
    <3>3. Len(resets) \in Nat /\ scheduled \in Nat /\ profile[b] \in Nat
      BY DEF ResetsOK
    <3> QED BY <1>0, <3>1, <3>2, <3>3
  <2>8. resets # <<>>
    BY <2>2 DEF ResetsOK
  <2> QED BY <1>0, <2>3, <2>5, <2>6, <2>7, <2>8 DEF ResetsOK
<1> QED BY <1>4, <1>5

LEMMA StepResets ==
  ASSUME TasksOK(mutex, tasks), MapsTyped, ResetsOK, NEW t \in Tasks, Step(t) \/ GivesUp(t)
  PROVE  ResetsOK'
<1> DEFINE r == "resetter"
<1>1. CASE Closed(t)
  BY <1>1, ClosedResets
<1>2. CASE Captures(t)
  <2>1. /\ UNCHANGED <<profile, resets, scheduled, crashes>>
        /\ \/ UNCHANGED headers
           \/ headers' = [headers EXCEPT ![tasks[t].acct] = profile[tasks[t].acct]]
    BY <1>2 DEF Captures, bounds
  <2>2. tasks[t].acct \in Accounts
    BY <1>2 DEF TasksOK, TaskIs, Captures, Working
  <2>3. /\ tasks'[r] = Idle \/ resets # <<>>
        /\ Past(tasks[r]) => Past(tasks'[r])
    BY ResetterSteps DEF ResetsOK
  <2> QED BY <2>1, <2>2, <2>3, QuietResets DEF ResetsOK
<1>3. CASE ~Closed(t) /\ ~Captures(t)
  <2>1. UNCHANGED <<headers, profile, resets, scheduled, crashes>>
    BY <1>3 DEF Step, InitStep, InitFinds, Launches, LaunchFails, Registers, Validates, InitFails,
           Enters, Refreshes, KeepsAlive, StartsClosing, ClosesNext, Reopens, GivesUp, maps, bounds
  <2>2. /\ tasks'[r] = Idle \/ resets # <<>>
        /\ Past(tasks[r]) => Past(tasks'[r])
    BY ResetterSteps DEF ResetsOK
  <2> QED BY <2>1, <2>2, QuietResets DEF ResetsOK
<1> QED BY <1>1, <1>2, <1>3

LEMMA BeginsResets ==
  ASSUME TasksOK(mutex, tasks), MapsTyped, ResetsOK, NEW t \in Callers,
         BeginsCloseAll(t) \/ \E a \in Accounts : Begins(t, a)
  PROVE  ResetsOK'
<1> DEFINE r == "resetter"
<1>1. t \in Tasks \ {r} /\ OthersGoOn(t)
  BY TasksKnown, BeginsMoves, BeginsCloseAllMoves DEF Moved
<1>2. /\ tasks'[r] = Idle \/ resets # <<>>
      /\ Past(tasks[r]) => Past(tasks'[r])
  BY <1>1, ResetterGoesOn DEF ResetsOK
<1>3. UNCHANGED <<headers, profile, resets, scheduled, crashes>>
  BY DEF BeginsCloseAll, Begins, BeginsReopen, maps, bounds
<1> QED BY <1>2, <1>3, QuietResets DEF ResetsOK

LEMMA ResetStepResets ==
  ASSUME TasksOK(mutex, tasks), ResetsOK, ResetStep
  PROVE  ResetsOK'
<1> DEFINE r == "resetter"
<1>0. r \in Tasks /\ r # "resetInit" /\ TaskIs(r, tasks[r]) /\ DOMAIN tasks = Tasks
  BY TasksKnown DEF TasksOK
<1>1. CASE BeginsReset \/ ResetInits \/ ResetAwaits
  <2>1. UNCHANGED <<headers, profile, resets, scheduled, crashes>>
    BY <1>1 DEF BeginsReset, ResetInits, ResetAwaits, maps, bounds
  <2>2. resets # <<>>
    <3>1. CASE BeginsReset
      BY <3>1 DEF BeginsReset
    <3>2. CASE ResetInits \/ ResetAwaits
      BY <3>2 DEF ResetInits, ResetAwaits, At, ResetsOK, Idle
    <3> QED BY <1>1, <3>1, <3>2
  <2>3. Past(tasks[r]) => Past(tasks'[r])
    <3>1. CASE BeginsReset
      BY <3>1 DEF BeginsReset, Past, Idle
    <3>2. CASE ResetInits
      BY <3>2, ResetInitsMoves DEF Past
    <3>3. CASE ResetAwaits /\ tasks["resetInit"] = Idle
      BY <1>0, <3>3 DEF ResetAwaits, Past, Idle
    <3>4. CASE ResetAwaits /\ tasks["resetInit"] # Idle
      <4>1. PICK a : a = tasks[r].acct
        OBVIOUS
      <4>2. Acquires(r, Task("close", a)) /\ a \in Accounts /\ tasks[r].at \notin Busy
        BY <1>0, <3>4, <4>1 DEF ResetAwaits, At, TaskIs, Busy, Working
      <4>3. TaskIs(r, Task("close", a)) /\ Task("close", a).acct \in Accounts
        BY <1>0, <4>2 DEF TaskIs, TaskState, Task, Idle, Op, Working
      <4>4. tasks'[r] \in {[Task("close", a) EXCEPT !.at = "waits"],
                           [Task("close", a) EXCEPT !.at = "entered"]}
        BY <1>0, <4>2, <4>3, AcquiresMoves
      <4> QED BY <4>4 DEF Past, Task, Idle
    <3> QED BY <1>1, <3>1, <3>2, <3>3, <3>4
  <2> QED BY <2>1, <2>2, <2>3, QuietResets DEF ResetsOK
<1>2. CASE ResetEnds
  <2>1. /\ tasks[r].at = "ended" /\ tasks'[r] = Idle /\ resets' = Tail(resets)
        /\ UNCHANGED <<headers, profile, scheduled, crashes>>
    BY <1>0, <1>2 DEF ResetEnds, maps, bounds
  <2>2. Past(tasks[r]) /\ ~Past(tasks'[r]) /\ tasks[r] # Idle
    BY <2>1 DEF Past, Idle
  <2>3. resets \in Seq(Accounts) /\ resets # <<>>
    BY <2>2 DEF ResetsOK
  <2>4. resets' \in Seq(Accounts) /\ Len(resets') = Len(resets) - 1 /\ Len(resets) \in Nat
    BY <2>1, <2>3
  <2>5. \A a \in Accounts : profile[a] + Len(resets') <= scheduled + 1
    <3>1. \A a \in Accounts : profile[a] \in Nat /\ profile[a] + Len(resets) <= scheduled + 1 + 1
      BY <2>2 DEF ResetsOK
    <3>2. scheduled \in Nat
      BY DEF ResetsOK
    <3> QED BY <2>4, <3>1, <3>2
  <2>6. scheduled \in Nat
    BY DEF ResetsOK
  <2> QED BY <2>1, <2>2, <2>4, <2>5, <2>6 DEF ResetsOK
<1> QED BY <1>1, <1>2 DEF ResetStep

LEMMA ResetsKept ==
  ASSUME IInv, Next
  PROVE  ResetsOK'
<1>0. TasksOK(mutex, tasks) /\ MapsTyped /\ ResetsOK
  BY DEF IInv
<1>1. CASE \E t \in Tasks : Step(t) \/ GivesUp(t)
  BY <1>0, <1>1, StepResets
<1>2. CASE \E t \in Callers : BeginsCloseAll(t) \/ \E a \in Accounts : Begins(t, a)
  BY <1>0, <1>2, BeginsResets
<1>3. CASE ResetStep
  BY <1>0, <1>3, ResetStepResets
<1>4. ASSUME NEW a \in Accounts, Outside(a)
      PROVE  ResetsOK'
  <2>1. CASE Schedule(a)
    <3>1. /\ resets' = Append(resets, a) /\ scheduled' = scheduled + 1 /\ scheduled < MaxResets
          /\ UNCHANGED <<headers, profile, tasks, crashes>>
      BY <2>1 DEF Schedule, maps
    <3>2. resets \in Seq(Accounts) /\ scheduled \in 0 .. MaxResets /\ MaxResets \in Nat
      BY <1>0, BrowserAssumption DEF ResetsOK
    <3>3. /\ resets' \in Seq(Accounts) /\ resets' # <<>> /\ Len(resets) \in Nat
          /\ Len(resets') = Len(resets) + 1 /\ scheduled' \in 0 .. MaxResets
      BY <3>1, <3>2
    <3>4. ASSUME NEW b \in Accounts
          PROVE  profile'[b] + Len(resets') <=
                   scheduled' + 1 + (IF Past(tasks'["resetter"]) THEN 1 ELSE 0)
      <4>1. profile[b] + Len(resets) <=
              scheduled + 1 + (IF Past(tasks["resetter"]) THEN 1 ELSE 0)
        BY <1>0 DEF ResetsOK
      <4>2. profile[b] \in Nat
        BY <1>0 DEF ResetsOK
      <4> QED BY <3>1, <3>2, <3>3, <4>1, <4>2
    <3> QED BY <1>0, <3>1, <3>3, <3>4 DEF ResetsOK
  <2>2. CASE LooksUp(a) \/ BrowserCrashes(a) \/ PageCloses(a)
    <3>1. UNCHANGED <<headers, profile, resets, scheduled, tasks>> /\ crashes' \in Nat
      BY <1>0, <2>2 DEF LooksUp, BrowserCrashes, PageCloses, maps, bounds, ResetsOK
    <3>2. tasks'["resetter"] = Idle \/ resets # <<>>
      BY <1>0, <3>1 DEF ResetsOK
    <3> QED BY <1>0, <3>1, <3>2, QuietResets
  <2> QED BY <1>4, <2>1, <2>2 DEF Outside
<1> QED BY <1>1, <1>2, <1>3, <1>4 DEF Next, Outside

-----------------------------------------------------------------------------
(* Registered browsers are validated or answered for *)

LEMMA WholeKept ==
  ASSUME NEW a \in Accounts, WholeOK(a), contexts'[a] = contexts[a],
         contexts[a] \in Open(a)' =>
           contexts[a] \in Open(a) /\ browsers'[a][contexts[a]] = browsers[a][contexts[a]],
         \A s \in Tasks : Answers(tasks[s], a, contexts[a]) => Answers(tasks'[s], a, contexts[a])
  PROVE  WholeOK(a)'
BY DEF WholeOK

(* A task that steps leaves the others at their initialisation. *)
LEMMA OthersAnswer ==
  ASSUME NEW t \in Tasks, OthersGoOn(t), NEW a, NEW c, NEW s \in Tasks \ {t},
         Answers(tasks[s], a, c)
  PROVE  Answers(tasks'[s], a, c)
<1>1. tasks[s].at # "waits"
  BY DEF Answers
<1> QED BY <1>1 DEF OthersGoOn

LEMMA InitStepWhole ==
  ASSUME TasksOK(mutex, tasks), MapsTyped, NEW t \in Tasks, InitStep(t),
         NEW a \in Accounts, a = tasks[t].acct, WholeOK(a)
  PROVE  WholeOK(a)'
<1>0. OthersGoOn(t) /\ TaskIs(t, tasks[t]) /\ DOMAIN tasks = Tasks
  BY InitStepMoves DEF Moved, TasksOK
<1>1. \A s \in Tasks \ {t} :
        Answers(tasks[s], a, contexts[a]) => Answers(tasks'[s], a, contexts[a])
  BY <1>0, OthersAnswer
<1>2. CASE InitFinds(t) \/ LaunchFails(t)
  <2>1. ~Answers(tasks[t], a, contexts[a])
    BY <1>2 DEF InitFinds, LaunchFails, At, Answers
  <2>2. UNCHANGED <<contexts, browsers>>
    BY <1>2 DEF InitFinds, LaunchFails, maps
  <2> QED BY <1>1, <2>1, <2>2, WholeKept DEF Open
<1>3. CASE Launches(t)
  <2>1. ~Answers(tasks[t], a, contexts[a]) /\ UNCHANGED contexts
    BY <1>3 DEF Launches, At, Answers, maps
  <2>2. contexts[a] \in Open(a)' =>
          contexts[a] \in Open(a) /\ browsers'[a][contexts[a]] = browsers[a][contexts[a]]
    BY <1>3, LaunchBrowsers
  <2> QED BY <1>1, <2>1, <2>2, WholeKept
<1>4. CASE Registers(t)
  <2>1. /\ tasks[t].op = "init" /\ contexts'[a] = tasks[t].ctx
        /\ tasks' = [tasks EXCEPT ![t].at = "validate"]
    BY <1>4 DEF Registers, At, Reaches, MapsTyped
  <2>2. tasks'[t] = [tasks[t] EXCEPT !.at = "validate"]
    BY <1>0, <2>1
  <2>3. Answers(tasks'[t], a, contexts'[a])
    BY <1>0, <2>1, <2>2 DEF Answers, HoldsIn, Working, TaskIs, TaskState
  <2> QED BY <2>3 DEF WholeOK
<1>5. CASE Validates(t)
  <2>1. PICK c \in Open(a) : /\ c = tasks[t].ctx /\ UNCHANGED contexts
                             /\ browsers' = [browsers EXCEPT ![a][c] = "valid"]
    BY <1>5 DEF Validates, maps
  <2>2. /\ Open(a)' = Open(a) /\ browsers'[a][c] = "valid"
        /\ \A d \in Open(a) \ {c} : browsers'[a][d] = browsers[a][d]
    BY <2>1 DEF Open, MapsTyped
  <2>3. HoldsIn(tasks[t], a)
    BY <1>5 DEF Validates, At, HoldsIn, Working
  <2>4. \A s \in Tasks : HoldsIn(tasks[s], a) => s = t
    BY <2>3 DEF TasksOK, MutexIs
  <2>5. \A s \in Tasks : Answers(tasks[s], a, contexts[a]) => contexts[a] = c
    BY <2>1, <2>4 DEF Answers
  <2> QED BY <2>1, <2>2, <2>5 DEF WholeOK
<1>6. CASE InitFails(t)
  <2>1. UNCHANGED <<contexts, browsers>> /\ tasks' = [tasks EXCEPT ![t].at = "closing"]
    BY <1>6 DEF InitFails, Reaches, maps
  <2>2. tasks'[t] = [tasks[t] EXCEPT !.at = "closing"]
    BY <1>0, <2>1
  <2>3. Answers(tasks[t], a, contexts[a]) => Answers(tasks'[t], a, contexts[a])
    BY <1>0, <2>2 DEF Answers, HoldsIn, Working, TaskIs, TaskState
  <2> QED BY <1>1, <2>1, <2>3, WholeKept DEF Open
<1> QED BY <1>2, <1>3, <1>4, <1>5, <1>6 DEF InitStep

LEMMA StepWhole ==
  ASSUME TasksOK(mutex, tasks), MapsTyped, NEW t \in Tasks, Step(t) \/ GivesUp(t),
         NEW a \in Accounts, a = tasks[t].acct, WholeOK(a)
  PROVE  WholeOK(a)'
<1>0. OthersGoOn(t)
  BY StepMoves, GivesUpMoves DEF Moved
<1>1. CASE InitStep(t)
  BY <1>1, InitStepWhole
<1>2. CASE Closed(t)
  <2>1. contexts'[a] = None
    BY <1>2 DEF Closed, CleanupOf, Cleanup, MapsTyped
  <2>2. MapsTyped'
    BY <1>2, ClosesMaps DEF Closed, CleanupOf
  <2> QED BY <2>1, <2>2, ContextsKnown DEF WholeOK, MapsTyped
<1>3. CASE ~InitStep(t) /\ ~Closed(t)
  <2>1. UNCHANGED <<contexts, browsers>>
    BY <1>3 DEF Step, Captures, Enters, Refreshes, KeepsAlive, StartsClosing, ClosesNext,
                Reopens, GivesUp, maps
  <2>2. ~Answers(tasks[t], a, contexts[a])
    BY <1>3 DEF Step, Captures, Enters, Refreshes, KeepsAlive, StartsClosing, ClosesNext,
                Reopens, GivesUp, At, Answers
  <2>3. \A s \in Tasks : Answers(tasks[s], a, contexts[a]) => Answers(tasks'[s], a, contexts[a])
    BY <1>0, <2>2, OthersAnswer
  <2> QED BY <2>1, <2>3, WholeKept DEF Open
<1> QED BY <1>1, <1>2, <1>3

(* The step of a task is on its own account only. *)
LEMMA OtherAccounts ==
  ASSUME TasksOK(mutex, tasks), MapsTyped, NEW t \in Tasks, Step(t) \/ GivesUp(t),
         NEW a \in Accounts, a # tasks[t].acct
  PROVE  contexts'[a] = contexts[a] /\ browsers'[a] = browsers[a]
<1>0. TaskIs(t, tasks[t])
  BY DEF TasksOK
<1>1. CASE InitStep(t)
  <2>1. CASE InitFinds(t) \/ LaunchFails(t) \/ InitFails(t)
    BY <2>1 DEF InitFinds, LaunchFails, InitFails, maps
  <2>2. CASE Launches(t)
    <3>1. tasks[t].acct \in Accounts /\ UNCHANGED contexts
      BY <1>0, <2>2 DEF TaskIs, Launches, At, Working, maps
    <3> QED BY <2>2, <3>1, LaunchBrowsers
  <2>3. CASE Registers(t) \/ Validates(t)
    BY <2>3 DEF Registers, Validates, maps, MapsTyped
  <2> QED BY <1>1, <2>1, <2>2, <2>3 DEF InitStep
<1>2. CASE Closed(t)
  BY <1>2 DEF Closed, Closes, CleanupOf, Cleanup, MapsTyped
<1>3. CASE ~InitStep(t) /\ ~Closed(t)
  BY <1>3 DEF Step, Captures, Enters, Refreshes, KeepsAlive, StartsClosing, ClosesNext,
              Reopens, GivesUp, maps
<1> QED BY <1>1, <1>2, <1>3

LEMMA AllKeptWhole ==
  ASSUME IInv, Next, NEW a \in Accounts
  PROVE  WholeOK(a)'
<1>0. TasksOK(mutex, tasks) /\ MapsTyped /\ ResetsOK /\ WholeOK(a)
  BY DEF IInv
<1>1. ASSUME NEW t \in Tasks, Step(t) \/ GivesUp(t)
      PROVE  WholeOK(a)'
  <2>1. CASE a = tasks[t].acct
    BY <1>0, <1>1, <2>1, StepWhole
  <2>2. CASE a # tasks[t].acct
    <3>1. contexts'[a] = contexts[a] /\ browsers'[a] = browsers[a]
      BY <1>0, <1>1, <2>2, OtherAccounts
    <3>2. ~Answers(tasks[t], a, contexts[a])
      BY <2>2 DEF Answers, HoldsIn
    <3>3. OthersGoOn(t)
      BY <1>0, <1>1, StepMoves, GivesUpMoves DEF Moved
    <3>4. \A s \in Tasks : Answers(tasks[s], a, contexts[a]) => Answers(tasks'[s], a, contexts[a])
      BY <3>2, <3>3, OthersAnswer
    <3> QED BY <1>0, <3>1, <3>4, WholeKept DEF Open
  <2> QED BY <2>1, <2>2
<1>2. ASSUME NEW t \in Callers, BeginsCloseAll(t) \/ \E b \in Accounts : Begins(t, b)
      PROVE  WholeOK(a)'
  <2>1. t \in Tasks /\ OthersGoOn(t)
    BY <1>0, <1>2, TasksKnown, BeginsMoves, BeginsCloseAllMoves DEF Moved
  <2>2. UNCHANGED <<contexts, browsers>> /\ tasks[t] = Idle
    BY <1>2 DEF BeginsCloseAll, Begins, BeginsReopen, maps
  <2>3. \A s \in Tasks : Answers(tasks[s], a, contexts[a]) => Answers(tasks'[s], a, contexts[a])
    BY <2>1, <2>2, OthersAnswer DEF Answers, Idle
  <2> QED BY <1>0, <2>2, <2>3, WholeKept DEF Open
<1>3. CASE ResetStep
  <2>1. UNCHANGED <<contexts, browsers>>
    BY <1>3 DEF ResetStep, BeginsReset, ResetInits, ResetAwaits, ResetEnds, maps
  <2>2. \A s \in Tasks : Answers(tasks[s], a, contexts[a]) => Answers(tasks'[s], a, contexts[a])
    <3>1. CASE ResetInits
      BY <1>0, <3>1, ResetInitsMoves DEF Answers
    <3>2. CASE BeginsReset \/ ResetAwaits \/ ResetEnds
      <4>1. OthersGoOn("resetter") /\ tasks["resetter"].at \notin Busy
        BY <1>0, <3>2, ResetMoves DEF Moved
      <4>2. ~Answers(tasks["resetter"], a, contexts[a])
        BY <4>1 DEF Answers, HoldsIn, Busy
      <4> QED BY <4>1, <4>2, TasksKnown, OthersAnswer
    <3> QED BY <1>3, <3>1, <3>2 DEF ResetStep
  <2> QED BY <1>0, <2>1, <2>2, WholeKept DEF Open
<1>4. ASSUME NEW b \in Accounts, Outside(b)
      PROVE  WholeOK(a)'
  <2>1. UNCHANGED <<contexts, tasks>>
    BY <1>4 DEF Outside, Schedule, LooksUp, BrowserCrashes, PageCloses, maps
  <2>2. CASE BrowserCrashes(b)
    <3>1. PICK c : Closes(b, c)
      BY <2>2 DEF BrowserCrashes
    <3>2. contexts[a] \in Open(a)' =>
            contexts[a] \in Open(a) /\ browsers'[a][contexts[a]] = browsers[a][contexts[a]]
      <4>1. CASE a = b
        BY <1>0, <3>1, <4>1, ClosesBrowser
      <4>2. CASE a # b
        BY <1>0, <3>1, <4>2, ClosesBrowser DEF Open
      <4> QED BY <4>1, <4>2
    <3> QED BY <1>0, <2>1, <3>2, WholeKept
  <2>3. CASE UNCHANGED browsers
    BY <1>0, <2>1, <2>3, WholeKept DEF Open
  <2> QED BY <1>4, <2>2, <2>3 DEF Outside, Schedule, LooksUp, PageCloses
<1> QED BY <1>1, <1>2, <1>3, <1>4 DEF Next, Outside

-----------------------------------------------------------------------------
(* The theorems about browsers *)

LEMMA InitIsFine ==
  ASSUME Init
  PROVE  IInv
<1>1. \A t \in Tasks : tasks[t] = Idle /\ TaskIs(t, Idle)
  BY DEF Init, Idle, TaskIs, TaskState, Working
<1>2. NewMutex \in MutexState(Tasks) /\ ~NewMutex.locked /\ NewMutex.queue = <<>>
  BY DEF NewMutex, MutexState
<1>3. ToSet(<<>>) = {} /\ NoDuplicates(<<>>)
  BY DEF ToSet, NoDuplicates
<1>4. \A a \in Accounts : MutexIs(mutex[a], tasks, a)
  <2>1. \A a : ~HoldsIn(Idle, a) /\ ~WaitsIn(Idle, a)
    BY DEF HoldsIn, WaitsIn, Idle, Working
  <2> QED BY <1>1, <1>2, <1>3, <2>1 DEF Init, MutexIs
<1>5. TasksOK(mutex, tasks)
  BY <1>1, <1>2, <1>4 DEF Init, TasksOK, TaskIs
<1>6. MapsTyped
  BY DEF Init, MapsTyped, NoPage, Open
<1>7. ResetsOK
  <2>1. tasks["resetter"] = Idle /\ ~Past(tasks["resetter"])
    BY <1>1, TasksKnown DEF Past, Idle
  <2>2. MaxResets \in Nat
    BY BrowserAssumption
  <2> QED BY <2>1, <2>2, ContextsKnown DEF Init, ResetsOK
<1>8. \A a \in Accounts : WholeOK(a)
  BY DEF Init, WholeOK, Open
<1> QED BY <1>5, <1>6, <1>7, <1>8 DEF IInv

LEMMA InvariantKept ==
  ASSUME IInv, [Next]_vars
  PROVE  IInv'
<1>1. CASE Next
  BY <1>1, TasksKept, MapsKept, ResetsKept, AllKeptWhole DEF IInv
<1>2. CASE UNCHANGED vars
  BY <1>2 DEF vars, maps, bounds, IInv, TasksOK, MutexIs, MapsTyped, Open, ResetsOK, WholeOK
<1> QED BY <1>1, <1>2

(* The mutexes have one holder each, the maps have their types, every        *)
(* deletion of a profile is that of a scheduled reset, and registered        *)
(* browsers are validated or answered for, whatever the callers begin, give  *)
(* up and leave behind.                                                    *)
THEOREM LifecycleInvariant == Spec => []IInv
<1> QED BY InitIsFine, InvariantKept, PTL DEF Spec

(* Whoever holds an account's mutex is the only one, and nobody does when    *)
(* the mutex is free.                                                      *)
LEMMA OneHolder ==
  ASSUME IInv, NEW a \in Accounts
  PROVE  Cardinality({t \in Tasks : Holds(t, a)}) = (IF mutex[a].locked THEN 1 ELSE 0)
<1>1. MutexIs(mutex[a], tasks, a) /\ \A t : Holds(t, a) <=> HoldsIn(tasks[t], a)
  BY DEF IInv, TasksOK, Holds, HoldsIn, Working
<1>2. CASE mutex[a].locked
  <2>1. PICK t \in Tasks : HoldsIn(tasks[t], a)
    BY <1>1, <1>2 DEF MutexIs
  <2>2. {s \in Tasks : Holds(s, a)} = {t}
    BY <1>1, <2>1 DEF MutexIs
  <2>3. Cardinality({t}) = 1
    BY FS_Singleton
  <2> QED BY <1>2, <2>2, <2>3
<1>3. CASE ~mutex[a].locked
  <2>1. {s \in Tasks : Holds(s, a)} = {}
    BY <1>1, <1>3 DEF MutexIs
  <2>2. Cardinality({}) = 0
    BY FS_EmptySet
  <2> QED BY <1>3, <2>1, <2>2
<1> QED BY <1>2, <1>3

LEMMA LifecycleTypes ==
  ASSUME IInv
  PROVE  TypeOK
<1>1. mutex \in [Accounts -> MutexState(Tasks)] /\ tasks \in [Tasks -> TaskState]
  BY DEF IInv, TasksOK
<1>2. \A a \in Accounts :
        Open(a) \subseteq Context /\ Range(browsers[a]) \subseteq {"new", "valid"}
  BY DEF IInv, MapsTyped, Range, Open
<1>3. \A a \in Accounts : profile[a] \in 1 .. (MaxResets + 1)
  <2>1. ASSUME NEW a \in Accounts
        PROVE  profile[a] \in 1 .. (MaxResets + 1)
    <3>1. /\ profile[a] \in Nat \ {0} /\ resets \in Seq(Accounts) /\ scheduled \in 0 .. MaxResets
          /\ profile[a] + Len(resets) <=
               scheduled + 1 + (IF Past(tasks["resetter"]) THEN 1 ELSE 0)
      BY DEF IInv, ResetsOK
    <3>2. Past(tasks["resetter"]) => resets # <<>>
      BY DEF IInv, ResetsOK, Past, Idle
    <3>3. Len(resets) \in Nat /\ (resets # <<>> => Len(resets) >= 1)
      BY <3>1
    <3> QED BY <3>1, <3>2, <3>3, BrowserAssumption
  <2> QED BY <2>1
<1>4. profile \in [Accounts -> 1 .. (MaxResets + 1)]
  BY <1>3 DEF IInv, ResetsOK
<1>5. headers \in [Accounts -> 0 .. (MaxResets + 1)]
  <2>1. \A a \in Accounts : headers[a] \in 0 .. (MaxResets + 1)
    BY <1>3, BrowserAssumption DEF IInv, ResetsOK, None
  <2> QED BY <2>1 DEF IInv, ResetsOK
<1>6. ASSUME NEW a \in Accounts
      PROVE  ToSet(mutex[a].queue) =
               {t \in Tasks : tasks[t].acct = a /\ tasks[t].at = "waits"}
  <2>1. MutexIs(mutex[a], tasks, a)
    BY DEF IInv, TasksOK
  <2>2. PICK q \in Seq(Tasks) : q = mutex[a].queue
    BY <1>1 DEF MutexState
  <2>3. \A t \in ToSet(q) : t \in Tasks
    BY ToSetMembers
  <2> QED BY <2>1, <2>2, <2>3 DEF MutexIs, WaitsIn
<1> QED BY <1>1, <1>2, <1>4, <1>5, <1>6, OneHolder DEF TypeOK, IInv, MapsTyped, ResetsOK

(* Whenever nobody has an account's mutex, its registered browser has a      *)
(* validated session or has crashed: what a failed initialisation registered *)
(* is never left behind.                                                   *)
THEOREM WholeWhenIdle == Spec => []IdleAccountsAreWhole
<1>1. ASSUME IInv
      PROVE  IdleAccountsAreWhole
  <2>1. ASSUME NEW a \in Accounts, IsIdle(mutex[a]), contexts[a] \in Open(a)
        PROVE  browsers[a][contexts[a]] = "valid"
    <3>1. \A t \in Tasks : ~HoldsIn(tasks[t], a)
      BY <1>1, <2>1 DEF IInv, TasksOK, MutexIs, IsIdle
    <3>2. WholeOK(a)
      BY <1>1 DEF IInv
    <3> QED BY <2>1, <3>1, <3>2 DEF WholeOK, Answers
  <2> QED BY <1>1, <2>1, LifecycleTypes DEF IdleAccountsAreWhole
<1> QED BY <1>1, LifecycleInvariant, PTL

(* The headers that requests are sent with were never captured from a        *)
(* profile that a reset has deleted since.                                 *)
THEOREM HeadersFollowResets == Spec => []HeadersAreOfTheProfile
<1>1. IInv => HeadersAreOfTheProfile
  BY DEF IInv, ResetsOK, HeadersAreOfTheProfile
<1> QED BY <1>1, LifecycleInvariant, PTL

(* Only the holder of the mutex closes a browser, besides a crash. *)
LEMMA OnlyTheHolderCloses ==
  ASSUME IInv, Next, NEW a \in Accounts, NEW c \in Open(a), c \notin Open(a)',
         crashes' = crashes
  PROVE  \E t \in Tasks : HoldsIn(tasks[t], a) /\ tasks[t].at = "closing"
<1>0. TasksOK(mutex, tasks) /\ MapsTyped /\ crashes \in Nat
  BY DEF IInv, ResetsOK
<1>1. CASE UNCHANGED browsers
  BY <1>1 DEF Open
<1>2. ASSUME NEW t \in Tasks, Step(t) \/ GivesUp(t)
      PROVE  \E s \in Tasks : HoldsIn(tasks[s], a) /\ tasks[s].at = "closing"
  <2>0. TaskIs(t, tasks[t])
    BY <1>0 DEF TasksOK
  <2>1. CASE a # tasks[t].acct
    BY <1>0, <1>2, <2>1, OtherAccounts DEF Open
  <2>2. CASE a = tasks[t].acct /\ Closed(t)
    BY <2>2 DEF Closed, HoldsIn, Working
  <2>3. CASE a = tasks[t].acct /\ Launches(t)
    BY <1>0, <2>3, LaunchBrowsers
  <2>4. CASE a = tasks[t].acct /\ Validates(t)
    <3>1. PICK d \in Open(a) : browsers' = [browsers EXCEPT ![a][d] = "valid"]
      BY <2>4 DEF Validates
    <3> QED BY <1>0, <3>1 DEF Open, MapsTyped
  <2>5. CASE ~Closed(t) /\ ~Launches(t) /\ ~Validates(t)
    BY <1>1, <1>2, <2>5
       DEF Step, InitStep, InitFinds, LaunchFails, Registers, InitFails, Captures, Enters,
           Refreshes, KeepsAlive, StartsClosing, ClosesNext, Reopens, GivesUp
  <2> QED BY <2>1, <2>2, <2>3, <2>4, <2>5
<1>3. CASE \E t \in Callers : BeginsCloseAll(t) \/ \E b \in Accounts : Begins(t, b)
  BY <1>1, <1>3 DEF BeginsCloseAll, Begins
<1>4. CASE ResetStep
  BY <1>1, <1>4 DEF ResetStep, BeginsReset, ResetInits, ResetAwaits, ResetEnds
<1>5. CASE \E b \in Accounts : Outside(b)
  BY <1>0, <1>1, <1>5 DEF Outside, Schedule, LooksUp, BrowserCrashes, PageCloses
<1> QED BY <1>2, <1>3, <1>4, <1>5 DEF Next, Outside

(* Neither the idle closing, nor a reset that ran out of time, nor closing   *)
(* everything takes a browser away from under a task that works in it.      *)
THEOREM NothingCutsWorkShort == Spec => WorkIsNotCutShort
<1> DEFINE Step1 == \A a \in Accounts : \A c \in Open(a) \ DOMAIN browsers'[a] :
             \/ crashes' # crashes
             \/ \A t \in Tasks : Holds(t, a) /\ c \in {tasks[t].ctx, contexts[a]} =>
                  tasks[t].at = "closing"
<1>1. ASSUME IInv, [Next]_vars
      PROVE  [Step1]_vars
  <2>1. ASSUME Next, NEW a \in Accounts, NEW c \in Open(a) \ DOMAIN browsers'[a],
               crashes' = crashes, NEW t \in Tasks, Holds(t, a)
        PROVE  tasks[t].at = "closing"
    <3>1. PICK s \in Tasks : HoldsIn(tasks[s], a) /\ tasks[s].at = "closing"
      BY <1>1, <2>1, OnlyTheHolderCloses DEF Open
    <3>2. HoldsIn(tasks[t], a)
      BY <2>1 DEF Holds, HoldsIn, Working
    <3>3. s = t
      BY <1>1, <3>1, <3>2 DEF IInv, TasksOK, MutexIs
    <3> QED BY <3>1, <3>3
  <2> QED BY <1>1, <2>1
<1>2. [][Step1]_vars => WorkIsNotCutShort
  BY PTL DEF WorkIsNotCutShort
<1> HIDE DEF Step1
<1> QED BY <1>1, <1>2, LifecycleInvariant, PTL DEF Spec

-----------------------------------------------------------------------------
(* Streams on a page.                                                      *)
(*                                                                         *)
(* From here on the theorems are about PageStream, whose variables are      *)
(* others: the streams that share the page of an account.                  *)

(* The inductive invariant of the streams *)

(* Stream r is between its first look at the page and its last.             *)
Works(r) == local[r].pc \in Script \union {"poll"} /\ ~local[r].aborted

(* Where stream r stands in the line of the page, and when it began.        *)
PlaceOK(r) ==
  /\ Works(r) => IsHead(r)
  /\ local[r].pc \in {"idle"} \union Over \/ local[r].aborted => r \notin ToSet(line)
  /\ IsAt(r, "idle") => local[r].attempts = 0
  /\ local[r].pc \notin {"poll"} \union Over => local[r].got = {}
  /\ IsAt(r, "failed") => local[r].got = {}

(* No stream ended before its answer did. *)
Patient == \A q \in Stream : ~local[q].aborted /\ ~IsAt(q, "closed")

(* What the page has to do with a stream that found it clean: what is on    *)
(* the page or on its way is the stream's own.                             *)
CleanPageOf(r) ==
  /\ IsAt(r, "send") => page.text = r
  /\ local[r].pc \in {"fill", "send"} /\ local[r].initial = 0 =>
       page.messages = <<>> /\ page.pending = NoStream
  /\ IsAt(r, "poll") /\ local[r].initial = 0 =>
       /\ \A i \in 1 .. Len(page.messages) : page.messages[i] = r
       /\ page.pending \in {NoStream, r}
  /\ local[r].initial = 0 => local[r].got \subseteq {r}

(* A prompt without an answer on an empty page is of the stream that waits  *)
(* for the answer.                                                         *)
PromptIsAwaited ==
  page.messages = <<>> /\ page.pending # NoStream => IsAt(page.pending, "poll")

StreamsInv ==
  /\ StreamTypeOK
  /\ \A r \in Stream : PlaceOK(r)
  /\ Patient => PromptIsAwaited /\ \A r \in Stream : CleanPageOf(r)
StreamPC == {"idle", "wait", "poll"} \union Script \union Over

-----------------------------------------------------------------------------
(* The line of the page *)

LEMMA OnceInLine ==
  ASSUME NEW q \in Seq(Stream)
  PROVE  IsInjective(q) <=> NoDuplicates(q)
BY DEF IsInjective, NoDuplicates

(* What a step of stream r does to the places of the others: nothing.       *)
LineKept(r) ==
  /\ line' \in Seq(Stream) /\ IsInjective(line')
  /\ \A p \in Stream \ {r} :
       /\ IsHead(p) => IsHead(p)'
       /\ p \in ToSet(line') <=> p \in ToSet(line)

LEMMA LineStays ==
  ASSUME StreamTypeOK, UNCHANGED line, NEW r \in Stream
  PROVE  LineKept(r)
BY DEF StreamTypeOK, LineKept, IsHead

LEMMA LineLeft ==
  ASSUME StreamTypeOK, NEW r \in Stream, line' = Without(r)
  PROVE  LineKept(r) /\ r \notin ToSet(line')
<1>1. line \in Seq(Stream) /\ NoDuplicates(line)
  BY OnceInLine DEF StreamTypeOK
<1>2. /\ line' \in Seq(Stream) /\ NoDuplicates(line')
      /\ ToSet(line') = ToSet(line) \ {r}
  BY <1>1, RemoveFirstMembers DEF Without
<1>3. ASSUME NEW p \in Stream \ {r}, IsHead(p)
      PROVE  IsHead(p)'
  BY <1>1, <1>3, FirstStaysFirst DEF Without, IsHead
<1> QED BY <1>2, <1>3, OnceInLine DEF LineKept

LEMMA LineJoinedBy ==
  ASSUME StreamTypeOK, NEW r \in Stream, r \notin ToSet(line), line' = Append(line, r)
  PROVE  LineKept(r) /\ (line = <<>> => IsHead(r)')
<1>1. line \in Seq(Stream) /\ NoDuplicates(line)
  BY OnceInLine DEF StreamTypeOK
<1>2. /\ line' \in Seq(Stream) /\ NoDuplicates(line')
      /\ ToSet(line') = ToSet(line) \union {r}
  BY <1>1, AppendMembers
<1>3. /\ line' # <<>>
      /\ line # <<>> => Head(line') = Head(line)
      /\ line = <<>> => Head(line') = r
  BY <1>1, AppendKeepsFirst
<1> QED BY <1>2, <1>3, OnceInLine DEF LineKept, IsHead

(* The head of the line is in it.                                          *)
LEMMA HeadIsInLine ==
  ASSUME StreamTypeOK, NEW r, IsHead(r)
  PROVE  r \in ToSet(line)
<1>1. line \in Seq(Stream) /\ NoDuplicates(line) /\ line # <<>> /\ Head(line) = r
  BY OnceInLine DEF StreamTypeOK, IsHead
<1> QED BY <1>1, TailMembers

(* The streams that are not r keep their variables.                         *)
OthersKept(r) ==
  /\ local' \in [Stream -> Local]
  /\ \A p \in Stream \ {r} : local'[p] = local[p]

LEMMA GoesToOutcome ==
  ASSUME StreamTypeOK, NEW r \in Stream, NEW pc \in StreamPC, GoesTo(r, pc)
  PROVE  /\ OthersKept(r)
         /\ local'[r].pc = pc /\ local'[r].attempts = local[r].attempts
         /\ local'[r].initial = local[r].initial
         /\ local'[r].aborted = local[r].aborted /\ local'[r].got = local[r].got
<1>1. local \in [Stream -> Local]
  BY DEF StreamTypeOK
<1>2. local[r] \in Local
  BY <1>1
<1>3. PICK m : m = [local[r] EXCEPT !.pc = pc]
  OBVIOUS
<1>4. /\ m \in Local /\ m.pc = pc /\ m.attempts = local[r].attempts
      /\ m.initial = local[r].initial /\ m.aborted = local[r].aborted
      /\ m.got = local[r].got
  BY <1>2, <1>3 DEF Local, StreamPC
<1>5. local' = [local EXCEPT ![r] = m]
  BY <1>3 DEF GoesTo
<1> QED BY <1>1, <1>4, <1>5 DEF OthersKept

-----------------------------------------------------------------------------
(* Places are kept *)

Places == StreamTypeOK /\ \A r \in Stream : PlaceOK(r)

LEMMA PlacesOfAll ==
  ASSUME Places, NEW r \in Stream, LineKept(r), OthersKept(r), PlaceOK(r)', page' \in Page
  PROVE  Places'
<1>1. ASSUME NEW p \in Stream \ {r}
      PROVE  PlaceOK(p)'
  <2>1. PlaceOK(p) /\ local'[p] = local[p]
    BY DEF Places, OthersKept
  <2>2. (IsHead(p) => IsHead(p)') /\ (p \in ToSet(line') <=> p \in ToSet(line))
    BY DEF LineKept
  <2> QED BY <2>1, <2>2 DEF PlaceOK, Works, IsAt
<1>2. StreamTypeOK'
  BY DEF StreamTypeOK, LineKept, OthersKept
<1> QED BY <1>1, <1>2 DEF Places

(* A step of a stream that works goes to another step of its work,          *)
LEMMA WorkGoesOn ==
  ASSUME Places, NEW r \in Stream, NEW pc \in Script \union {"poll"},
         local[r].pc \in Script, GoesTo(r, pc), UNCHANGED line, page' \in Page
  PROVE  Places'
<1>1. /\ OthersKept(r)
      /\ local'[r].pc = pc /\ local'[r].aborted = local[r].aborted
      /\ local'[r].got = local[r].got
  BY GoesToOutcome DEF Places, StreamPC
<1>2. PlaceOK(r)
  BY DEF Places
<1>3. pc \notin {"idle", "wait"} \union Over
  BY DEF Script, Over
<1>4. local[r].pc \notin {"idle", "wait", "poll"} \union Over
  BY DEF Script, Over
<1>5. PlaceOK(r)'
  BY <1>1, <1>2, <1>3, <1>4 DEF PlaceOK, Works, IsAt, IsHead, Over
<1>6. LineKept(r)
  BY LineStays DEF Places
<1> QED BY <1>1, <1>5, <1>6, PlacesOfAll

(* or the stream is over, or gives up waiting.                             *)
LEMMA WorkEnds ==
  ASSUME Places, NEW r \in Stream, NEW pc \in Over, GoesTo(r, pc), line' = Without(r),
         UNCHANGED page, pc = "failed" => local[r].got = {}
  PROVE  Places'
<1>1. /\ OthersKept(r) /\ local'[r].pc = pc /\ local'[r].got = local[r].got
  BY GoesToOutcome DEF Places, StreamPC
<1>2. LineKept(r) /\ r \notin ToSet(line')
  BY LineLeft DEF Places
<1>3. pc \notin Script \union {"poll", "idle"}
  BY DEF Over, Script
<1>4. PlaceOK(r)'
  BY <1>1, <1>2, <1>3 DEF PlaceOK, Works, IsAt
<1>5. page' \in Page
  BY DEF Places, StreamTypeOK
<1> QED BY <1>1, <1>2, <1>4, <1>5, PlacesOfAll

LEMMA BlankIsPage ==
  Blank \in Page
<1>1. <<>> \in Seq(Stream)
  OBVIOUS
<1> QED BY <1>1 DEF Blank, Page

LEMMA SubmittedIsPage ==
  ASSUME page \in Page
  PROVE  Submitted \in Page
BY DEF Submitted, Page

LEMMA LastIsStream ==
  ASSUME NEW q \in Seq(Stream), Len(q) > 0
  PROVE  Last(q) = q[Len(q)] /\ Len(q) \in 1 .. Len(q) /\ Last(q) \in Stream
BY DEF Last

LEMMA StartsPlaces ==
  ASSUME Places, NEW r \in Stream, Starts(r)
  PROVE  Places'
<1>1. PlaceOK(r) /\ page' \in Page /\ local \in [Stream -> Local]
  BY DEF Places, StreamTypeOK, Starts
<1>2. local[r].pc \in {"idle", "failed"} /\ local[r].attempts \in {0, 1}
      /\ r \notin ToSet(line) /\ local[r].got = {}
  <2>1. local[r].attempts \in 0 .. 2
    BY <1>1 DEF Local
  <2> QED BY <1>1, <2>1 DEF Starts, PlaceOK, IsAt, Over
<1>3. CASE local[r].aborted
  <2>1. GoesTo(r, "closed") /\ UNCHANGED line
    BY <1>3 DEF Starts
  <2>2. /\ OthersKept(r) /\ local'[r].pc = "closed" /\ local'[r].got = {}
    BY <1>2, <2>1, GoesToOutcome DEF Places, StreamPC, Over
  <2>3. LineKept(r)
    BY <2>1, LineStays DEF Places
  <2>4. PlaceOK(r)'
    BY <1>2, <2>1, <2>2 DEF PlaceOK, Works, IsAt, Script
  <2> QED BY <1>1, <2>2, <2>3, <2>4, PlacesOfAll
<1>4. CASE ~local[r].aborted
  <2>1. PICK pc : pc = IF line = <<>> THEN "count" ELSE "wait"
    OBVIOUS
  <2>2. PICK m : m = [local[r] EXCEPT !.pc = pc, !.attempts = @ + 1]
    OBVIOUS
  <2>3. local' = [local EXCEPT ![r] = m] /\ line' = Append(line, r)
    BY <1>4, <2>1, <2>2 DEF Starts
  <2>4. /\ m \in Local /\ m.pc = pc /\ ~m.aborted /\ m.got = {}
    <3>1. local[r] \in Local
      BY <1>1
    <3>2. pc \in {"idle", "wait", "poll"} \union Script \union Over
      BY <2>1 DEF Script
    <3>3. local[r].attempts + 1 \in 0 .. 2
      BY <1>2
    <3> QED BY <1>2, <1>4, <2>2, <3>1, <3>2, <3>3 DEF Local
  <2>5. OthersKept(r) /\ local'[r] = m
    BY <1>1, <2>3, <2>4 DEF OthersKept
  <2>6. LineKept(r) /\ (line = <<>> => IsHead(r)')
    BY <1>2, <2>3, LineJoinedBy DEF Places
  <2>7. PlaceOK(r)'
    BY <2>1, <2>4, <2>5, <2>6 DEF PlaceOK, Works, IsAt, Script, Over
  <2> QED BY <1>1, <2>5, <2>6, <2>7, PlacesOfAll
<1> QED BY <1>3, <1>4

LEMMA GrantedPlaces ==
  ASSUME Places, NEW r \in Stream, Granted(r)
  PROVE  Places'
<1>1. PlaceOK(r) /\ page' \in Page
  BY DEF Places, StreamTypeOK, Granted
<1>2. /\ OthersKept(r) /\ local'[r].pc = "count" /\ local'[r].got = local[r].got
      /\ local'[r].aborted = local[r].aborted
  BY GoesToOutcome DEF Granted, Places, StreamPC, Script
<1>3. LineKept(r)
  BY LineStays DEF Places, Granted
<1>4. local[r].got = {} /\ IsHead(r)' /\ r \in ToSet(line) /\ UNCHANGED line
  BY <1>1, HeadIsInLine DEF PlaceOK, Granted, IsAt, Over, IsHead, Places
<1>5. PlaceOK(r)'
  BY <1>1, <1>2, <1>4 DEF PlaceOK, Works, IsAt, Over, Script
<1> QED BY <1>1, <1>2, <1>3, <1>5, PlacesOfAll

LEMMA ReceivesPlaces ==
  ASSUME Places, NEW r \in Stream, IsAt(r, "poll"), HasNewMessage(r), UNCHANGED page,
         NEW pc \in {"poll", "done"},
         local' = [local EXCEPT ![r].got = @ \union {Last(page.messages)}, ![r].pc = pc],
         \/ pc = "poll" /\ UNCHANGED line
         \/ pc = "done" /\ line' = Without(r)
  PROVE  Places' /\ local'[r].pc = pc
<1>1. PlaceOK(r) /\ page' \in Page /\ page \in Page /\ local \in [Stream -> Local]
  BY DEF Places, StreamTypeOK
<1>2. Last(page.messages) \in Stream
  <2>1. page.messages \in Seq(Stream) /\ local[r].initial \in Nat
    BY <1>1 DEF Page, Local
  <2>2. Len(page.messages) > 0
    BY <2>1 DEF HasNewMessage
  <2> QED BY <2>1, <2>2, LastIsStream
<1>3. PICK m : m = [local[r] EXCEPT !.got = @ \union {Last(page.messages)}, !.pc = pc]
  OBVIOUS
<1>4. m \in Local /\ m.pc = pc /\ m.aborted = local[r].aborted
  <2>1. local[r] \in Local
    BY <1>1
  <2>2. local[r].got \union {Last(page.messages)} \in SUBSET Stream
    BY <1>2, <2>1 DEF Local
  <2>3. pc \in {"idle", "wait", "poll"} \union Script \union Over
    BY DEF Over
  <2> QED BY <1>3, <2>1, <2>2, <2>3 DEF Local
<1>5. OthersKept(r) /\ local'[r] = m
  BY <1>1, <1>3, <1>4 DEF OthersKept
<1>6. CASE pc = "poll" /\ UNCHANGED line
  <2>1. LineKept(r)
    BY <1>6, LineStays DEF Places
  <2>2. PlaceOK(r)'
    BY <1>1, <1>4, <1>5, <1>6 DEF PlaceOK, Works, IsAt, Over, Script, IsHead
  <2> QED BY <1>1, <1>4, <1>5, <2>1, <2>2, PlacesOfAll
<1>7. CASE pc = "done" /\ line' = Without(r)
  <2>1. LineKept(r) /\ r \notin ToSet(line')
    BY <1>7, LineLeft DEF Places
  <2>2. PlaceOK(r)'
    BY <1>4, <1>5, <1>7, <2>1 DEF PlaceOK, Works, IsAt, Over, Script
  <2> QED BY <1>1, <1>4, <1>5, <2>1, <2>2, PlacesOfAll
<1> QED BY <1>6, <1>7

LEMMA CountInitialPlaces ==
  ASSUME Places, NEW r \in Stream, CountInitial(r)
  PROVE  /\ Places' /\ OthersKept(r)
         /\ local'[r] = [local[r] EXCEPT !.pc = "fill", !.initial = Len(page.messages)]
<1>1. PlaceOK(r) /\ page' \in Page /\ page \in Page /\ local \in [Stream -> Local]
  BY DEF Places, StreamTypeOK, CountInitial
<1>2. PICK m : m = [local[r] EXCEPT !.pc = "fill", !.initial = Len(page.messages)]
  OBVIOUS
<1>3. m \in Local /\ m.pc = "fill" /\ m.aborted = local[r].aborted /\ m.got = local[r].got
  <2>1. local[r] \in Local /\ page.messages \in Seq(Stream)
    BY <1>1 DEF Page
  <2>2. Len(page.messages) \in Nat
    BY <2>1
  <2> QED BY <1>2, <2>1, <2>2 DEF Local, Script
<1>4. local' = [local EXCEPT ![r] = m]
  BY <1>2 DEF CountInitial
<1>5. OthersKept(r) /\ local'[r] = m
  BY <1>1, <1>3, <1>4 DEF OthersKept
<1>6. LineKept(r)
  BY LineStays DEF Places, CountInitial
<1>7. PlaceOK(r)'
  BY <1>1, <1>3, <1>5 DEF PlaceOK, Works, IsAt, Over, Script, IsHead, CountInitial
<1> QED BY <1>1, <1>2, <1>5, <1>6, <1>7, PlacesOfAll

LEMMA AbortsPlaces ==
  ASSUME Places, NEW r \in Stream, Aborts(r)
  PROVE  Places' /\ local'[r].aborted
<1>1. PlaceOK(r) /\ page \in Page /\ local \in [Stream -> Local]
  BY DEF Places, StreamTypeOK
<1>2. page' \in Page
  BY <1>1 DEF Aborts, Page
<1>3. PICK pc : pc = IF IsAt(r, "wait") THEN "closed" ELSE local[r].pc
  OBVIOUS
<1>4. PICK m : m = [local[r] EXCEPT !.aborted = TRUE, !.pc = pc]
  OBVIOUS
<1>5. m \in Local /\ m.pc = pc /\ m.aborted /\ m.got = local[r].got
  <2>1. local[r] \in Local
    BY <1>1
  <2>2. pc \in {"idle", "wait", "poll"} \union Script \union Over
    BY <1>3, <2>1 DEF Local, Over
  <2> QED BY <1>4, <2>1, <2>2 DEF Local
<1>6. local' = [local EXCEPT ![r] = m]
  BY <1>3, <1>4 DEF Aborts, IsAt
<1>7. OthersKept(r) /\ local'[r] = m
  BY <1>1, <1>5, <1>6 DEF OthersKept
<1>8. LineKept(r) /\ r \notin ToSet(line')
  BY LineLeft DEF Places, Aborts
<1>9. local[r].pc \notin {"idle"} \union Over
  BY DEF Aborts
<1>10. PlaceOK(r)'
  BY <1>1, <1>3, <1>5, <1>7, <1>8, <1>9 DEF PlaceOK, Works, IsAt, Over
<1> QED BY <1>2, <1>5, <1>7, <1>8, <1>10, PlacesOfAll

(* What the page does by itself.                                           *)
LEMMA PageStepPlaces ==
  ASSUME Places, page' \in Page, UNCHANGED <<line, local>>
  PROVE  Places'
BY DEF Places, StreamTypeOK, PlaceOK, Works, IsAt, IsHead

LEMMA AnswerStartsOutcome ==
  ASSUME StreamTypeOK, AnswerStarts
  PROVE  /\ page' \in Page
         /\ Len(page'.messages) = Len(page.messages) + 1
         /\ \A i \in 1 .. Len(page.messages) : page'.messages[i] = page.messages[i]
         /\ page'.messages[Len(page.messages) + 1] = page.pending
         /\ page'.pending = NoStream /\ page'.text = page.text
<1>1. page \in Page /\ page.pending \in Stream
  BY DEF StreamTypeOK, AnswerStarts, Page
<1>2. page.messages \in Seq(Stream)
  BY <1>1 DEF Page
<1>3. PICK q : q = Append(page.messages, page.pending)
  OBVIOUS
<1>4. /\ q \in Seq(Stream) /\ Len(q) = Len(page.messages) + 1
      /\ \A i \in 1 .. Len(page.messages) : q[i] = page.messages[i]
      /\ q[Len(page.messages) + 1] = page.pending
  BY <1>1, <1>2, <1>3
<1>5. page' = [page EXCEPT !.messages = q, !.pending = NoStream, !.generating = TRUE]
  BY <1>3 DEF AnswerStarts
<1>6. /\ page' \in Page /\ page'.messages = q /\ page'.pending = NoStream
      /\ page'.text = page.text
  BY <1>1, <1>4, <1>5 DEF Page
<1> QED BY <1>4, <1>6

(* An action of the script that is one of these keeps the places.           *)
LEMMA ScriptStepPlaces ==
  ASSUME Places, NEW r \in Stream, ScriptStep(r)
  PROVE  Places'
<1>1. page \in Page
  BY DEF Places, StreamTypeOK
<1>2. CASE Count(r)
  <2>1. PICK pc \in {"click", "focus"} : GoesTo(r, pc)
    BY <1>2 DEF Count
  <2>2. local[r].pc \in Script /\ pc \in Script \union {"poll"}
    BY <1>2 DEF Count, IsAt, Script
  <2> QED BY <1>1, <1>2, <2>1, <2>2, WorkGoesOn DEF Count
<1>3. CASE Click(r)
  <2>1. local[r].pc \in Script /\ "recheck" \in Script \union {"poll"}
    BY <1>3 DEF Click, IsAt, Script
  <2>2. page' \in Page
    BY <1>1, <1>3, BlankIsPage DEF Click
  <2> QED BY <1>3, <2>1, <2>2, WorkGoesOn DEF Click
<1>4. CASE Recheck(r)
  <2>1. PICK pc \in {"goto", "focus"} : GoesTo(r, pc)
    BY <1>4 DEF Recheck
  <2>2. local[r].pc \in Script /\ pc \in Script \union {"poll"}
    BY <1>4 DEF Recheck, IsAt, Script
  <2> QED BY <1>1, <1>4, <2>1, <2>2, WorkGoesOn DEF Recheck
<1>5. CASE Goto(r)
  <2>1. local[r].pc \in Script /\ "focus" \in Script \union {"poll"}
    BY <1>5 DEF Goto, IsAt, Script
  <2>2. page' \in Page
    BY <1>1, <1>5, BlankIsPage DEF Goto
  <2> QED BY <1>5, <2>1, <2>2, WorkGoesOn DEF Goto
<1>6. CASE Focus(r)
  <2>1. local[r].pc \in Script /\ "initial" \in Script \union {"poll"}
    BY <1>6 DEF Focus, IsAt, Script
  <2> QED BY <1>1, <1>6, <2>1, WorkGoesOn DEF Focus
<1>7. CASE CountInitial(r)
  BY <1>7, CountInitialPlaces
<1>8. CASE Fill(r)
  <2>1. local[r].pc \in Script /\ "send" \in Script \union {"poll"}
    BY <1>8 DEF Fill, IsAt, Script
  <2>2. page' \in Page
    BY <1>1, <1>8 DEF Fill, Page
  <2> QED BY <1>8, <2>1, <2>2, WorkGoesOn DEF Fill
<1>9. CASE Send(r)
  <2>1. local[r].pc \in Script /\ "poll" \in Script \union {"poll"}
    BY <1>9 DEF Send, IsAt, Script
  <2>2. page' \in Page
    BY <1>1, <1>9, SubmittedIsPage DEF Send
  <2> QED BY <1>9, <2>1, <2>2, WorkGoesOn DEF Send
<1>10. CASE Fails(r)
  <2>1. "failed" \in Over /\ local[r].pc \notin {"poll"} \union Over
    BY <1>10 DEF Fails, Over
  <2>2. local[r].got = {}
    BY <2>1 DEF Places, PlaceOK
  <2>3. GoesTo(r, "failed") /\ line' = Without(r) /\ UNCHANGED page
    BY <1>10 DEF Fails, SafeReleaseLock
  <2> QED BY <2>1, <2>2, <2>3, WorkEnds
<1> QED BY <1>2, <1>3, <1>4, <1>5, <1>6, <1>7, <1>8, <1>9, <1>10 DEF ScriptStep

LEMMA PlacesKept ==
  ASSUME Places, [StreamNext]_streamVars
  PROVE  Places'
<1>1. page \in Page
  BY DEF Places, StreamTypeOK
<1>2. ASSUME NEW r \in Stream, Starts(r)
      PROVE  Places'
  BY <1>2, StartsPlaces
<1>3. ASSUME NEW r \in Stream, Granted(r)
      PROVE  Places'
  BY <1>3, GrantedPlaces
<1>4. ASSUME NEW r \in Stream, WaitTimesOut(r)
      PROVE  Places'
  <2>1. "failed" \in Over /\ local[r].pc \notin {"poll"} \union Over
    BY <1>4 DEF WaitTimesOut, Over, IsAt
  <2>2. local[r].got = {}
    BY <2>1 DEF Places, PlaceOK
  <2> QED BY <1>4, <2>1, <2>2, WorkEnds DEF WaitTimesOut
<1>5. ASSUME NEW r \in Stream, ScriptStep(r)
      PROVE  Places'
  BY <1>5, ScriptStepPlaces
<1>6. ASSUME NEW r \in Stream, Emits(r)
      PROVE  Places'
  <2>1. local' = [local EXCEPT ![r].got = @ \union {Last(page.messages)}, ![r].pc = "poll"]
    BY <1>6 DEF Emits, IsAt, Places, StreamTypeOK, Local
  <2> QED BY <1>6, <2>1, ReceivesPlaces DEF Emits
<1>7. ASSUME NEW r \in Stream, Completes(r)
      PROVE  Places'
  BY <1>7, ReceivesPlaces DEF Completes, SafeReleaseLock
<1>8. ASSUME NEW r \in Stream, ClosesEarly(r) \/ FailsFast(r) \/ Cancelled(r)
      PROVE  Places'
  <2>1. GoesTo(r, "closed") /\ line' = Without(r) /\ UNCHANGED page
    BY <1>8 DEF ClosesEarly, FailsFast, Cancelled, Stops, SafeReleaseLock
  <2>2. "closed" \in Over
    BY DEF Over
  <2> QED BY <2>1, <2>2, WorkEnds
<1>9. ASSUME NEW r \in Stream, Aborts(r)
      PROVE  Places'
  BY <1>9, AbortsPlaces
<1>10. CASE AnswerStarts
  BY <1>10, AnswerStartsOutcome, PageStepPlaces DEF AnswerStarts, Places
<1>11. CASE UrlChanges
  <2>1. page' \in Page
    BY <1>1, <1>11 DEF UrlChanges, Page
  <2> QED BY <1>11, <2>1, PageStepPlaces DEF UrlChanges
<1>12. CASE AnswerEnds
  <2>1. page' \in Page
    BY <1>1, <1>12 DEF AnswerEnds, Page
  <2> QED BY <1>12, <2>1, PageStepPlaces DEF AnswerEnds
<1>13. CASE UNCHANGED streamVars
  BY <1>1, <1>13, PageStepPlaces DEF streamVars
<1> QED BY <1>2, <1>3, <1>4, <1>5, <1>6, <1>7, <1>8, <1>9, <1>10, <1>11, <1>12, <1>13
        DEF StreamNext

-----------------------------------------------------------------------------
(* What is on the page stays with the stream that found it clean *)

Clean == PromptIsAwaited /\ \A r \in Stream : CleanPageOf(r)

(* A stream that ended early has done so for good.                          *)
LEMMA PatientBefore ==
  ASSUME NEW r \in Stream, OthersKept(r), ~IsAt(r, "closed"),
         local[r].aborted => local'[r].aborted, Patient'
  PROVE  Patient
<1>1. ASSUME NEW q \in Stream \ {r}
      PROVE  ~local[q].aborted /\ ~IsAt(q, "closed")
  BY DEF Patient, OthersKept, IsAt
<1>2. ~local[r].aborted
  BY DEF Patient
<1> QED BY <1>1, <1>2 DEF Patient

(* Only a stream that works changes the page, and then no other works.      *)
LEMMA CleanOfAll ==
  ASSUME Places, Patient, Clean, NEW r \in Stream, OthersKept(r),
         UNCHANGED page \/ Works(r), CleanPageOf(r)', PromptIsAwaited'
  PROVE  Clean'
<1>1. ASSUME NEW p \in Stream \ {r}
      PROVE  CleanPageOf(p)'
  <2>1. CleanPageOf(p) /\ local'[p] = local[p]
    BY DEF Clean, OthersKept
  <2>2. CASE UNCHANGED page
    BY <2>1, <2>2 DEF CleanPageOf, IsAt
  <2>3. CASE Works(r)
    <3>1. IsHead(r) /\ (Works(p) => IsHead(p))
      BY <2>3 DEF Places, PlaceOK
    <3>2. ~Works(p) /\ ~local[p].aborted
      BY <3>1 DEF IsHead, Patient
    <3>3. local[p].pc \notin {"fill", "send", "poll"}
      BY <3>2 DEF Works, Script
    <3> QED BY <2>1, <3>3 DEF CleanPageOf, IsAt
  <2> QED BY <2>2, <2>3
<1> QED BY <1>1 DEF Clean

(* A step that neither prepares the prompt nor waits for the answer; the    *)
(* page is as it was, or reset.                                            *)
LEMMA QuietStepClean ==
  ASSUME Places, Patient => Clean, Patient', NEW r \in Stream,
         NEW pc \in StreamPC \ {"fill", "send", "poll"}, GoesTo(r, pc),
         local[r].pc \notin {"poll", "closed"},
         UNCHANGED page \/ (local[r].pc \in Script /\ page' = Blank)
  PROVE  Clean'
<1>1. /\ OthersKept(r) /\ local'[r].pc = pc /\ local'[r].initial = local[r].initial
      /\ local'[r].aborted = local[r].aborted /\ local'[r].got = local[r].got
  BY GoesToOutcome DEF Places
<1>2. Patient
  BY <1>1, PatientBefore DEF IsAt
<1>3. CleanPageOf(r) /\ PromptIsAwaited /\ page \in Page
  BY <1>2 DEF Clean, Places, StreamTypeOK
<1>4. CleanPageOf(r)'
  BY <1>1, <1>3 DEF CleanPageOf, IsAt
<1>5. PromptIsAwaited'
  <2>1. CASE UNCHANGED page
    <3>1. ASSUME page.messages = <<>>, page.pending # NoStream
          PROVE  IsAt(page.pending, "poll")'
      <4>1. IsAt(page.pending, "poll") /\ page.pending \in Stream
        BY <1>3, <3>1 DEF PromptIsAwaited, Page
      <4> QED BY <1>1, <2>1, <4>1 DEF IsAt, OthersKept
    <3> QED BY <2>1, <3>1 DEF PromptIsAwaited, IsAt
  <2>2. CASE page' = Blank
    BY <2>2 DEF PromptIsAwaited, Blank
  <2> QED BY <2>1, <2>2
<1>6. UNCHANGED page \/ Works(r)
  BY <1>2 DEF Works, Patient
<1> QED BY <1>1, <1>2, <1>3, <1>4, <1>5, <1>6, CleanOfAll

LEMMA StartsClean ==
  ASSUME Places, Patient => Clean, Patient', NEW r \in Stream, Starts(r)
  PROVE  Clean'
<1>1. /\ local[r].pc \in {"idle", "failed"} /\ UNCHANGED page
      /\ local \in [Stream -> Local] /\ PlaceOK(r) /\ page \in Page
  BY DEF Starts, IsAt, Places, StreamTypeOK
<1>2. ~local[r].aborted
  <2>1. SUFFICES ASSUME local[r].aborted
                 PROVE  FALSE
    OBVIOUS
  <2>2. GoesTo(r, "closed")
    BY <2>1 DEF Starts
  <2>3. local'[r].pc = "closed"
    BY <2>2, GoesToOutcome DEF Places, StreamPC, Over
  <2> QED BY <2>3 DEF Patient, IsAt
<1>3. PICK pc : pc = IF line = <<>> THEN "count" ELSE "wait"
  OBVIOUS
<1>4. local' = [local EXCEPT ![r].pc = pc, ![r].attempts = @ + 1]
  BY <1>2, <1>3 DEF Starts
<1>5. local'[r].pc \in {"count", "wait"} /\ local'[r].initial = local[r].initial
      /\ local'[r].aborted = local[r].aborted /\ local'[r].got = local[r].got
  BY <1>1, <1>3, <1>4 DEF Local
<1>6. OthersKept(r)
  <2>1. local' \in [Stream -> Local]
    BY StartsPlaces DEF Places, StreamTypeOK
  <2> QED BY <1>1, <1>4, <2>1 DEF OthersKept
<1>7. Patient
  BY <1>1, <1>5, <1>6, PatientBefore DEF IsAt
<1>8. CleanPageOf(r) /\ PromptIsAwaited
  BY <1>7 DEF Clean
<1>9. CleanPageOf(r)'
  BY <1>1, <1>5, <1>8 DEF CleanPageOf, IsAt
<1>10. PromptIsAwaited'
  <2>1. ASSUME page.messages = <<>>, page.pending # NoStream
        PROVE  IsAt(page.pending, "poll")'
    <3>1. IsAt(page.pending, "poll") /\ page.pending \in Stream
      BY <1>1, <1>8, <2>1 DEF PromptIsAwaited, Page
    <3> QED BY <1>1, <1>6, <3>1 DEF IsAt, OthersKept
  <2> QED BY <1>1, <2>1 DEF PromptIsAwaited, IsAt
<1> QED BY <1>1, <1>6, <1>7, <1>8, <1>9, <1>10, CleanOfAll

(* An empty page on which nothing is awaited has no prompt under way.       *)
LEMMA EmptyPageIsQuiet ==
  ASSUME Places, Patient, Clean, NEW r \in Stream, local[r].pc \in Script,
         page.messages = <<>>
  PROVE  page.pending = NoStream
<1>1. SUFFICES ASSUME page.pending # NoStream
               PROVE  FALSE
  OBVIOUS
<1>2. PICK p : p = page.pending
  OBVIOUS
<1>3. IsAt(p, "poll") /\ p \in Stream
  BY <1>1, <1>2 DEF Clean, PromptIsAwaited, Places, StreamTypeOK, Page
<1>4. Works(r) /\ Works(p)
  BY <1>3 DEF Works, Patient, IsAt
<1>5. IsHead(r) /\ IsHead(p)
  BY <1>3, <1>4 DEF Places, PlaceOK
<1>6. p = r
  BY <1>5 DEF IsHead
<1> QED BY <1>3, <1>6 DEF IsAt, Script

LEMMA CountInitialClean ==
  ASSUME Places, Patient => Clean, Patient', NEW r \in Stream, CountInitial(r)
  PROVE  Clean'
<1>1. /\ OthersKept(r) /\ UNCHANGED page /\ IsAt(r, "initial")
      /\ local'[r] = [local[r] EXCEPT !.pc = "fill", !.initial = Len(page.messages)]
  BY CountInitialPlaces DEF CountInitial
<1>2. local[r] \in Local /\ page \in Page
  BY DEF Places, StreamTypeOK
<1>3. /\ local'[r].pc = "fill" /\ local'[r].initial = Len(page.messages)
      /\ local'[r].aborted = local[r].aborted /\ local'[r].got = local[r].got
  BY <1>1, <1>2 DEF Local
<1>4. Patient
  BY <1>1, <1>3, PatientBefore DEF IsAt
<1>5. local[r].got = {}
  <2>1. local[r].pc \notin {"poll"} \union Over
    BY <1>1 DEF IsAt, Over
  <2> QED BY <2>1 DEF Places, PlaceOK
<1>6. Len(page.messages) = 0 => page.messages = <<>> /\ page.pending = NoStream
  <2>1. page.messages \in Seq(Stream)
    BY <1>2 DEF Page
  <2>2. local[r].pc \in Script
    BY <1>1 DEF IsAt, Script
  <2> QED BY <1>4, <2>1, <2>2, EmptyPageIsQuiet
<1>7. CleanPageOf(r)'
  BY <1>1, <1>3, <1>5, <1>6 DEF CleanPageOf, IsAt
<1>8. PromptIsAwaited'
  <2>1. ASSUME page.messages = <<>>, page.pending # NoStream
        PROVE  FALSE
    <3>1. local[r].pc \in Script
      BY <1>1 DEF IsAt, Script
    <3> QED BY <1>4, <2>1, <3>1, EmptyPageIsQuiet
  <2> QED BY <1>1, <2>1 DEF PromptIsAwaited
<1> QED BY <1>1, <1>4, <1>7, <1>8, CleanOfAll

LEMMA FillClean ==
  ASSUME Places, Patient => Clean, Patient', NEW r \in Stream, Fill(r)
  PROVE  Clean'
<1>1. /\ GoesTo(r, "send") /\ page' = [page EXCEPT !.text = r] /\ IsAt(r, "fill")
      /\ page \in Page
  BY DEF Fill, Places, StreamTypeOK
<1>2. "send" \in StreamPC
  BY DEF StreamPC, Script
<1>3. /\ OthersKept(r) /\ local'[r].pc = "send" /\ local'[r].initial = local[r].initial
      /\ local'[r].aborted = local[r].aborted /\ local'[r].got = local[r].got
  BY <1>1, <1>2, GoesToOutcome DEF Places
<1>4. Patient
  BY <1>1, <1>3, PatientBefore DEF IsAt
<1>5. /\ page'.messages = page.messages /\ page'.pending = page.pending /\ page'.text = r
  BY <1>1 DEF Page
<1>6. CleanPageOf(r)'
  BY <1>1, <1>3, <1>4, <1>5 DEF Clean, CleanPageOf, IsAt
<1>7. Works(r) /\ local[r].pc \in Script
  BY <1>1, <1>4 DEF Works, IsAt, Script, Patient
<1>8. PromptIsAwaited'
  BY <1>4, <1>5, <1>7, EmptyPageIsQuiet DEF PromptIsAwaited
<1> QED BY <1>3, <1>4, <1>6, <1>7, <1>8, CleanOfAll

LEMMA SendClean ==
  ASSUME Places, Patient => Clean, Patient', NEW r \in Stream, Send(r)
  PROVE  Clean'
<1>1. /\ GoesTo(r, "poll") /\ page' \in {page, Submitted} /\ IsAt(r, "send")
      /\ page \in Page
  BY DEF Send, Places, StreamTypeOK
<1>2. "poll" \in StreamPC
  BY DEF StreamPC
<1>3. /\ OthersKept(r) /\ local'[r].pc = "poll" /\ local'[r].initial = local[r].initial
      /\ local'[r].aborted = local[r].aborted /\ local'[r].got = local[r].got
  BY <1>1, <1>2, GoesToOutcome DEF Places
<1>4. Patient
  BY <1>1, <1>3, PatientBefore DEF IsAt
<1>5. CleanPageOf(r) /\ page.text = r
  BY <1>1, <1>4 DEF Clean, CleanPageOf
<1>6. Works(r) /\ local[r].pc \in Script
  BY <1>1, <1>4 DEF Works, IsAt, Script, Patient
<1>7. page'.messages = page.messages /\ page'.pending \in {page.pending, r}
  BY <1>1, <1>5 DEF Submitted, Page
<1>8. CleanPageOf(r)'
  <2>1. local[r].initial = 0 => page.messages = <<>> /\ page.pending = NoStream
    BY <1>1, <1>5 DEF CleanPageOf, IsAt
  <2>2. ASSUME local[r].initial = 0
        PROVE  /\ \A i \in 1 .. Len(page'.messages) : page'.messages[i] = r
               /\ page'.pending \in {NoStream, r}
    <3>1. page'.messages = <<>> /\ Len(page'.messages) = 0
      BY <1>7, <2>1, <2>2
    <3> QED BY <1>7, <2>1, <2>2, <3>1
  <2> QED BY <1>3, <1>5, <2>2 DEF CleanPageOf, IsAt
<1>9. PromptIsAwaited'
  <2>1. page.messages = <<>> => page.pending = NoStream
    BY <1>4, <1>6, EmptyPageIsQuiet
  <2> QED BY <1>3, <1>7, <2>1 DEF PromptIsAwaited, IsAt
<1> QED BY <1>3, <1>4, <1>6, <1>8, <1>9, CleanOfAll

LEMMA ReceivesClean ==
  ASSUME Places, Patient => Clean, Patient', NEW r \in Stream,
         IsAt(r, "poll"), HasNewMessage(r), UNCHANGED page,
         NEW pc \in {"poll", "done"},
         local' = [local EXCEPT ![r].got = @ \union {Last(page.messages)}, ![r].pc = pc],
         \/ pc = "poll" /\ UNCHANGED line
         \/ pc = "done" /\ line' = Without(r)
  PROVE  Clean'
<1>1. local \in [Stream -> Local] /\ page \in Page /\ local' \in [Stream -> Local]
  BY ReceivesPlaces DEF Places, StreamTypeOK
<1>2. /\ local'[r].pc = pc /\ local'[r].initial = local[r].initial
      /\ local'[r].aborted = local[r].aborted
      /\ local'[r].got = local[r].got \union {Last(page.messages)}
  BY <1>1 DEF Local
<1>3. OthersKept(r)
  BY <1>1 DEF OthersKept
<1>4. Patient
  BY <1>2, <1>3, PatientBefore DEF IsAt
<1>5. CleanPageOf(r)
  BY <1>4 DEF Clean
<1>6. page.messages \in Seq(Stream) /\ Len(page.messages) > 0
  <2>1. page.messages \in Seq(Stream) /\ local[r].initial \in Nat
    BY <1>1 DEF Page, Local
  <2> QED BY <2>1 DEF HasNewMessage
<1>7. local[r].initial = 0 => Last(page.messages) = r
  <2>1. Last(page.messages) = page.messages[Len(page.messages)]
        /\ Len(page.messages) \in 1 .. Len(page.messages)
    BY <1>6, LastIsStream
  <2> QED BY <1>5, <2>1 DEF CleanPageOf
<1>8. CleanPageOf(r)'
  BY <1>2, <1>5, <1>7 DEF CleanPageOf, IsAt
<1>9. PromptIsAwaited'
  BY <1>6 DEF PromptIsAwaited
<1> QED BY <1>3, <1>4, <1>8, <1>9, CleanOfAll

(* The answer that starts is of the stream that waits.                      *)
LEMMA AnswerStartsClean ==
  ASSUME Places, Patient => Clean, Patient', AnswerStarts
  PROVE  Clean'
<1>1. UNCHANGED local /\ page \in Page /\ page.pending # NoStream
  BY DEF AnswerStarts, Places, StreamTypeOK
<1>2. Patient /\ Clean
  BY <1>1 DEF Patient, IsAt
<1>3. /\ Len(page'.messages) = Len(page.messages) + 1
      /\ \A i \in 1 .. Len(page.messages) : page'.messages[i] = page.messages[i]
      /\ page'.messages[Len(page.messages) + 1] = page.pending
      /\ page'.pending = NoStream /\ page'.text = page.text
  BY AnswerStartsOutcome DEF Places
<1>4. ASSUME NEW r \in Stream
      PROVE  CleanPageOf(r)'
  <2>1. CleanPageOf(r)
    BY <1>2 DEF Clean
  <2>2. ASSUME IsAt(r, "poll"), local[r].initial = 0
        PROVE  \A i \in 1 .. Len(page'.messages) : page'.messages[i] = r
    <3>1. /\ \A i \in 1 .. Len(page.messages) : page.messages[i] = r
          /\ page.pending = r
      BY <1>1, <2>1, <2>2 DEF CleanPageOf
    <3>2. Len(page.messages) \in Nat
      BY <1>1 DEF Page
    <3> QED BY <1>3, <3>1, <3>2
  <2> QED BY <1>1, <1>3, <2>1, <2>2 DEF CleanPageOf, IsAt
<1>5. PromptIsAwaited'
  BY <1>3 DEF PromptIsAwaited
<1> QED BY <1>4, <1>5 DEF Clean

(* The other steps of the page leave messages and prompts alone.            *)
LEMMA PageStepClean ==
  ASSUME Patient => Clean, Patient', UNCHANGED local,
         page'.messages = page.messages, page'.pending = page.pending,
         page'.text = page.text
  PROVE  Clean'
BY DEF Patient, Clean, CleanPageOf, PromptIsAwaited, IsAt

LEMMA ScriptStepClean ==
  ASSUME Places, Patient => Clean, Patient', NEW r \in Stream, ScriptStep(r)
  PROVE  Clean'
<1>1. {"click", "recheck", "goto", "focus", "initial", "failed"}
        \subseteq StreamPC \ {"fill", "send", "poll"}
  BY DEF StreamPC, Script, Over
<1>2. CASE Count(r)
  <2>1. PICK pc \in {"click", "focus"} : GoesTo(r, pc)
    BY <1>2 DEF Count
  <2>2. local[r].pc \notin {"poll", "closed"} /\ UNCHANGED page
    BY <1>2 DEF Count, IsAt
  <2> QED BY <1>1, <2>1, <2>2, QuietStepClean
<1>3. CASE Click(r)
  <2>1. local[r].pc \notin {"poll", "closed"} /\ local[r].pc \in Script
    BY <1>3 DEF Click, IsAt, Script
  <2> QED BY <1>1, <1>3, <2>1, QuietStepClean DEF Click
<1>4. CASE Recheck(r)
  <2>1. PICK pc \in {"goto", "focus"} : GoesTo(r, pc)
    BY <1>4 DEF Recheck
  <2>2. local[r].pc \notin {"poll", "closed"} /\ UNCHANGED page
    BY <1>4 DEF Recheck, IsAt
  <2> QED BY <1>1, <2>1, <2>2, QuietStepClean
<1>5. CASE Goto(r)
  <2>1. local[r].pc \notin {"poll", "closed"} /\ local[r].pc \in Script
    BY <1>5 DEF Goto, IsAt, Script
  <2> QED BY <1>1, <1>5, <2>1, QuietStepClean DEF Goto
<1>6. CASE Focus(r)
  <2>1. local[r].pc \notin {"poll", "closed"} /\ UNCHANGED page
    BY <1>6 DEF Focus, IsAt
  <2> QED BY <1>1, <1>6, <2>1, QuietStepClean DEF Focus
<1>7. CASE CountInitial(r)
  BY <1>7, CountInitialClean
<1>8. CASE Fill(r)
  BY <1>8, FillClean
<1>9. CASE Send(r)
  BY <1>9, SendClean
<1>10. CASE Fails(r)
  <2>1. local[r].pc \notin {"poll", "closed"} /\ UNCHANGED page
    BY <1>10 DEF Fails
  <2> QED BY <1>1, <1>10, <2>1, QuietStepClean DEF Fails
<1> QED BY <1>2, <1>3, <1>4, <1>5, <1>6, <1>7, <1>8, <1>9, <1>10 DEF ScriptStep

LEMMA CleanKept ==
  ASSUME Places, Patient => Clean, Patient', [StreamNext]_streamVars
  PROVE  Clean'
<1>1. page \in Page
  BY DEF Places, StreamTypeOK
<1>2. ASSUME NEW r \in Stream, Starts(r)
      PROVE  Clean'
  BY <1>2, StartsClean
<1>3. ASSUME NEW r \in Stream, Granted(r) \/ WaitTimesOut(r)
      PROVE  Clean'
  <2>1. PICK pc \in {"count", "failed"} : GoesTo(r, pc)
    BY <1>3 DEF Granted, WaitTimesOut
  <2>2. local[r].pc \notin {"poll", "closed"} /\ UNCHANGED page
    BY <1>3 DEF Granted, WaitTimesOut, IsAt
  <2>3. pc \in StreamPC \ {"fill", "send", "poll"}
    BY DEF StreamPC, Script, Over
  <2> QED BY <2>1, <2>2, <2>3, QuietStepClean
<1>4. ASSUME NEW r \in Stream, ScriptStep(r)
      PROVE  Clean'
  BY <1>4, ScriptStepClean
<1>5. ASSUME NEW r \in Stream, Emits(r)
      PROVE  Clean'
  <2>1. local' = [local EXCEPT ![r].got = @ \union {Last(page.messages)}, ![r].pc = "poll"]
    BY <1>5 DEF Emits, IsAt, Places, StreamTypeOK, Local
  <2> QED BY <1>5, <2>1, ReceivesClean DEF Emits
<1>6. ASSUME NEW r \in Stream, Completes(r)
      PROVE  Clean'
  BY <1>6, ReceivesClean DEF Completes, SafeReleaseLock
<1>7. ASSUME NEW r \in Stream, ClosesEarly(r) \/ FailsFast(r) \/ Cancelled(r)
      PROVE  FALSE
  <2>1. GoesTo(r, "closed")
    BY <1>7 DEF ClosesEarly, FailsFast, Cancelled, Stops
  <2>2. "closed" \in StreamPC
    BY DEF StreamPC, Over
  <2>3. local'[r].pc = "closed"
    BY <2>1, <2>2, GoesToOutcome DEF Places
  <2> QED BY <2>3 DEF Patient, IsAt
<1>8. ASSUME NEW r \in Stream, Aborts(r)
      PROVE  FALSE
  BY <1>8, AbortsPlaces DEF Patient
<1>9. CASE AnswerStarts
  BY <1>9, AnswerStartsClean
<1>10. CASE UrlChanges \/ AnswerEnds \/ UNCHANGED streamVars
  <2>1. /\ UNCHANGED local /\ page'.messages = page.messages
        /\ page'.pending = page.pending /\ page'.text = page.text
    BY <1>1, <1>10 DEF UrlChanges, AnswerEnds, streamVars, Page
  <2> QED BY <2>1, PageStepClean
<1> QED BY <1>2, <1>3, <1>4, <1>5, <1>6, <1>7, <1>8, <1>9, <1>10 DEF StreamNext

-----------------------------------------------------------------------------
(* The theorems about streams *)

LEMMA InvariantInit ==
  ASSUME StreamInit
  PROVE  StreamsInv
<1>1. line = <<>> /\ <<>> \in Seq(Stream) /\ IsInjective(<<>>) /\ ToSet(<<>>) = {}
  BY DEF StreamInit, IsInjective, ToSet
<1>2. PICK l : l = [pc |-> "idle", attempts |-> 0, initial |-> 0,
                    aborted |-> FALSE, got |-> {}]
  OBVIOUS
<1>3. l \in Local /\ l.pc = "idle" /\ l.attempts = 0 /\ ~l.aborted /\ l.got = {}
  BY <1>2 DEF Local
<1>4. local = [r \in Stream |-> l]
  BY <1>2 DEF StreamInit
<1>5. StreamTypeOK
  BY <1>1, <1>3, <1>4, BlankIsPage DEF StreamTypeOK, StreamInit
<1>6. ASSUME NEW r \in Stream
      PROVE  PlaceOK(r)
  BY <1>1, <1>3, <1>4 DEF PlaceOK, Works, IsAt, Script
<1>7. ASSUME NEW r \in Stream
      PROVE  CleanPageOf(r)
  BY <1>3, <1>4 DEF CleanPageOf, IsAt
<1>8. PromptIsAwaited
  BY DEF PromptIsAwaited, StreamInit, Blank
<1> QED BY <1>5, <1>6, <1>7, <1>8 DEF StreamsInv

(* In every reachable state the line of the page and the streams agree, and *)
(* as long as no stream ended before its answer, what is on the page of a   *)
(* stream that found it clean is its own.                                  *)
THEOREM PageInvariant == StreamSpec => []StreamsInv
<1>1. StreamInit => StreamsInv
  BY InvariantInit
<1>2. StreamsInv /\ [StreamNext]_streamVars => StreamsInv'
  <2>1. SUFFICES ASSUME StreamsInv, [StreamNext]_streamVars
                 PROVE  StreamsInv'
    OBVIOUS
  <2>2. Places /\ (Patient => Clean)
    BY <2>1 DEF StreamsInv, Places, Clean
  <2>3. Places'
    BY <2>1, <2>2, PlacesKept
  <2>4. Patient' => Clean'
    BY <2>1, <2>2, CleanKept
  <2> QED BY <2>3, <2>4 DEF StreamsInv, Places, Clean
<1> QED BY <1>1, <1>2, PTL DEF StreamSpec

(* The page mutex: among the streams that are not aborted, one works on the *)
(* page, and it holds the mutex; who is over or aborted holds nothing.      *)
THEOREM PageOwned == StreamSpec => []PageHasOneOwner
<1>1. StreamsInv => PageHasOneOwner
  BY DEF StreamsInv, PlaceOK, Works, PageHasOneOwner
<1> QED BY <1>1, PageInvariant, PTL

(* A page stream that found the page clean delivers its own answer only,    *)
(* while no stream ends before its answer does.                            *)
THEOREM AnswersStayOwn == StreamSpec => []AnswersAreOwn
<1>1. StreamsInv => AnswersAreOwn
  BY DEF StreamsInv, Patient, CleanPageOf, AnswersAreOwn
<1> QED BY <1>1, PageInvariant, PTL
=============================================================================
