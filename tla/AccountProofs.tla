--------------------------- MODULE AccountProofs ---------------------------
(***************************************************************************)
(* Proofs about the accounts: which one a request gets, and how many get it. *)
(*                                                                         *)
(* About AccountSlots: at most MaxConcurrent requests hold slots of an      *)
(* account, and nobody is overtaken.  Why: the map lists exactly the objects *)
(* in use, so all the requests that hold slots of an account share one       *)
(* object; and each of them has a start of its own there, a seat, although a *)
(* start time may occur several times and a release takes whichever comes    *)
(* first.                                                                  *)
(*                                                                         *)
(* About AccountPool: choices honour the cooldowns that were stored, erase   *)
(* none that runs, and rotate.  Why: memory never forgets a cooldown before  *)
(* the table and the copy of it that may still be read, except where a write *)
(* failed; and the index is only ever moved past the account that it chose.  *)
(***************************************************************************)
EXTENDS AccountSlots, AccountPool, QueueLemmas, FiniteSetTheorems

-----------------------------------------------------------------------------
(* The parts of the invariant of the slots: of an object's fields u at a time t, *)

Counts(u, t) ==
  /\ u \in AccountUsage
  /\ u.active = Len(u.starts) /\ u.active <= MaxConcurrent
  /\ \A i \in 1 .. Len(u.starts) : u.starts[i] <= t
  /\ \A i, j \in 1 .. Len(u.starts) : i <= j => u.starts[i] <= u.starts[j]
  /\ NoDuplicates(u.waiting)

UsageOK(u, t) == Counts(u, t) /\ (u.waiting # <<>> => u.active = MaxConcurrent)

(* and of phases ph, captures sl and objects h. *)
CapturesOK(ph, sl) ==
  \A r \in Request :
    IF ph[r] \in {"idle", "lingering"} THEN sl[r] = NoCapture
    ELSE sl[r].account \in Account /\ sl[r].object \in Object

WaitersOK(ph, sl, h) ==
  \A o \in Object, r \in Request :
    r \in ToSet(h[o].waiting) <=> ph[r] = "waiting" /\ sl[r].object = o

Parts ==
  /\ TypeOK
  /\ \A o \in Object : UsageOK(heap[o], now)
  /\ MapListsBusyObjects
  /\ CapturesOK(phase, slot)
  /\ WaitersOK(phase, slot, heap)

LEMMA Types ==
  /\ None \notin Object /\ None \notin Account
  /\ MaxConcurrent \in Nat \ {0} /\ MaxAge \in Nat /\ MaxTime \in Nat
  BY AccountSlotsAssumption

LEMMA UsageTypes ==
  ASSUME NEW u \in AccountUsage
  PROVE  /\ u.active \in Nat /\ Len(u.starts) \in Nat
         /\ u.starts \in Seq(0 .. MaxTime) /\ u.waiting \in Seq(Request)
         /\ \A i \in 1 .. Len(u.starts) : u.starts[i] \in 0 .. MaxTime /\ u.starts[i] \in Nat
         /\ \A i \in 1 .. Len(u.waiting) : u.waiting[i] \in Request
  <1>1. u.active \in Nat /\ u.starts \in Seq(0 .. MaxTime) /\ u.waiting \in Seq(Request)
    BY DEF AccountUsage
  <1>2. \A i \in 1 .. Len(u.starts) : u.starts[i] \in 0 .. MaxTime
    BY <1>1, ElementOfSeq
  <1>3. \A i \in 1 .. Len(u.waiting) : u.waiting[i] \in Request
    BY <1>1, ElementOfSeq
  <1>4. QED
    BY <1>1, <1>2, <1>3, Types

(* The invariant and its parts say the same of the queues. *)
LEMMA InvariantParts == IInv <=> Parts
  <1>1. ASSUME TypeOK
        PROVE  (CountsAgree /\ QueuesAreTheWaiters)
                 <=> /\ \A o \in Object : UsageOK(heap[o], now)
                     /\ CapturesOK(phase, slot) /\ WaitersOK(phase, slot, heap)
    <2>1. \A o \in Object : heap[o] \in AccountUsage /\ heap[o].waiting \in Seq(Request)
      BY <1>1 DEF TypeOK, AccountUsage
    <2>2. CountsAgree /\ QueuesAreTheWaiters => \A o \in Object : UsageOK(heap[o], now)
      BY <2>1 DEF CountsAgree, QueuesAreTheWaiters, UsageOK, Counts, NoDuplicates
    <2>3. QueuesAreTheWaiters => CapturesOK(phase, slot)
      BY DEF QueuesAreTheWaiters, CapturesOK
    <2>4. QueuesAreTheWaiters => WaitersOK(phase, slot, heap)
      <3>1. SUFFICES ASSUME QueuesAreTheWaiters, NEW o \in Object, NEW r \in Request
                     PROVE  r \in ToSet(heap[o].waiting)
                              <=> phase[r] = "waiting" /\ slot[r].object = o
        BY DEF WaitersOK
      <3>2. PICK q \in Seq(Request) : q = heap[o].waiting
        BY <2>1
      <3>3. r \in ToSet(q) <=> \E i \in 1 .. Len(q) : q[i] = r
        BY ToSetMembers
      <3>4. ASSUME NEW i \in 1 .. Len(q), q[i] = r
            PROVE  phase[r] = "waiting" /\ slot[r].object = o
        BY <3>1, <3>2, <3>4 DEF QueuesAreTheWaiters
      <3>5. ASSUME phase[r] = "waiting", slot[r].object = o
            PROVE  \E i \in 1 .. Len(q) : q[i] = r
        BY <3>1, <3>2, <3>5 DEF QueuesAreTheWaiters
      <3>6. QED
        BY <3>2, <3>3, <3>4, <3>5
    <2>5. CapturesOK(phase, slot) /\ WaitersOK(phase, slot, heap)
            /\ (\A o \in Object : UsageOK(heap[o], now))
            => QueuesAreTheWaiters
      <3>1. SUFFICES ASSUME CapturesOK(phase, slot), WaitersOK(phase, slot, heap),
                            \A o \in Object : UsageOK(heap[o], now)
                     PROVE  QueuesAreTheWaiters
        OBVIOUS
      <3>2. ASSUME NEW o \in Object, NEW i \in 1 .. Len(heap[o].waiting)
            PROVE  phase[heap[o].waiting[i]] = "waiting" /\ slot[heap[o].waiting[i]].object = o
        <4>1. PICK q \in Seq(Request) : q = heap[o].waiting
          BY <2>1
        <4>2. q[i] \in Request /\ q[i] \in ToSet(q)
          BY <3>2, <4>1, ToSetMembers
        <4>3. QED
          BY <3>1, <4>1, <4>2 DEF WaitersOK
      <3>3. ASSUME NEW r \in Request, phase[r] = "waiting"
            PROVE  \E i \in 1 .. Len(heap[slot[r].object].waiting) :
                     heap[slot[r].object].waiting[i] = r
        <4>1. PICK o \in Object : o = slot[r].object
          BY <3>1, <3>3 DEF CapturesOK
        <4>2. PICK q \in Seq(Request) : q = heap[o].waiting
          BY <2>1
        <4>3. r \in ToSet(q)
          BY <3>1, <3>3, <4>1, <4>2 DEF WaitersOK
        <4>4. \E i \in 1 .. Len(q) : q[i] = r
          BY <4>3, ToSetMembers
        <4>5. QED
          BY <4>1, <4>2, <4>4
      <3>4. \A o \in Object : NoDuplicates(heap[o].waiting)
        BY <3>1 DEF UsageOK, Counts
      <3>5. QED
        BY <3>1, <3>2, <3>3, <3>4 DEF QueuesAreTheWaiters, CapturesOK, NoDuplicates
    <2>6. (\A o \in Object : UsageOK(heap[o], now)) => CountsAgree
      BY DEF UsageOK, Counts, CountsAgree
    <2>7. QED
      BY <2>2, <2>3, <2>4, <2>5, <2>6
  <1>2. QED
    BY <1>1 DEF IInv, Parts

-----------------------------------------------------------------------------
(* What the operations do to the fields of an object *)

(* A grant takes a slot. *)
LEMMA GrantCounts ==
  ASSUME now \in 0 .. MaxTime, NEW u, Counts(u, now), u.active < MaxConcurrent
  PROVE  /\ Counts(Grant(u), now)
         /\ Grant(u).active = u.active + 1
         /\ Grant(u).starts = Append(u.starts, now)
         /\ Grant(u).waiting = u.waiting
  <1>1. PICK g : g = Grant(u)
    OBVIOUS
  <1>2. u \in AccountUsage /\ u.active \in Nat /\ now \in Nat /\ MaxConcurrent \in Nat
    BY Types, UsageTypes DEF Counts
  <1>3. PICK n \in Nat : n = Len(u.starts)
    BY <1>2, UsageTypes
  <1>0. PICK T : T = 0 .. MaxTime
    OBVIOUS
  <1>4. PICK st \in Seq(T) : st = u.starts
    BY <1>0, <1>2, UsageTypes
  <1>5. \A i \in 1 .. n : st[i] \in Nat /\ st[i] <= now
    BY <1>2, <1>3, <1>4, UsageTypes DEF Counts
  <1>6. PICK more \in Seq(T) : more = Append(st, now)
    <2>1. PICK e \in T : e = now
      BY <1>0
    <2>2. Append(st, e) \in Seq(T)
      OBVIOUS
    <2>3. QED
      BY <2>1, <2>2, Zenon
  <1>7. Len(more) = n + 1 /\ more[n + 1] = now /\ \A i \in 1 .. n : more[i] = st[i]
    BY <1>3, <1>4, <1>6
  <1>8. g = [u EXCEPT !.active = u.active + 1, !.starts = more]
    BY <1>1, <1>4, <1>6 DEF Grant
  <1>9. /\ g \in AccountUsage /\ g.active = u.active + 1
        /\ g.starts = more /\ g.waiting = u.waiting
    <2>1. AccountUsage = [active : Nat, starts : Seq(T), waiting : Seq(Request)]
      BY <1>0 DEF AccountUsage
    <2>2. u \in [active : Nat, starts : Seq(T), waiting : Seq(Request)]
      BY <1>2, <2>1
    <2>3. PICK m \in Nat : m = u.active + 1
      BY <1>2
    <2>4. g = [u EXCEPT !.active = m, !.starts = more]
      BY <1>8, <2>3
    <2>5. /\ g \in [active : Nat, starts : Seq(T), waiting : Seq(Request)]
          /\ g.active = m /\ g.starts = more /\ g.waiting = u.waiting
      BY <2>2, <2>4
    <2>6. QED
      BY <2>1, <2>3, <2>5
  <1>10. g.active = Len(g.starts) /\ g.active <= MaxConcurrent
    BY <1>2, <1>3, <1>7, <1>9 DEF Counts
  <1>11. \A i \in 1 .. n + 1 : more[i] <= now
    BY <1>2, <1>3, <1>5, <1>7
  <1>12. \A i, j \in 1 .. n + 1 : i <= j => more[i] <= more[j]
    <2>1. \A i, j \in 1 .. n : i <= j => st[i] <= st[j]
      BY <1>3, <1>4 DEF Counts
    <2>2. ASSUME NEW i \in 1 .. n + 1, NEW j \in 1 .. n + 1, i <= j
          PROVE  more[i] <= more[j]
      <3>1. CASE j = n + 1
        BY <1>7, <1>11, <3>1
      <3>2. CASE j # n + 1
        <4>1. i \in 1 .. n /\ j \in 1 .. n
          BY <1>3, <2>2, <3>2
        <4>2. QED
          BY <1>7, <2>1, <2>2, <4>1
      <3>3. QED
        BY <3>1, <3>2
    <2>3. QED
      BY <2>2
  <1>13. Counts(g, now)
    BY <1>7, <1>9, <1>10, <1>11, <1>12 DEF Counts
  <1>14. QED
    BY <1>1, <1>4, <1>6, <1>9, <1>13

(* A release gives one of the slots with its start time back. *)
LEMMA GiveBackCounts ==
  ASSUME NEW u, NEW t \in Nat, Counts(u, t), NEW start, HasStart(u, start)
  PROVE  /\ Counts(GiveBack(u, start), t)
         /\ GiveBack(u, start).active = u.active - 1 /\ u.active \in Nat \ {0}
         /\ GiveBack(u, start).waiting = u.waiting
         /\ \E i \in 1 .. Len(u.starts) :
              u.starts[i] = start /\ GiveBack(u, start).starts = RemoveAt(u.starts, i)
  <1>1. PICK g : g = GiveBack(u, start)
    OBVIOUS
  <1>2. u \in AccountUsage /\ u.active \in Nat /\ MaxConcurrent \in Nat
    BY Types, UsageTypes DEF Counts
  <1>3. PICK n \in Nat : n = Len(u.starts)
    BY <1>2, UsageTypes
  <1>0. PICK T : T = 0 .. MaxTime
    OBVIOUS
  <1>4. PICK st \in Seq(T) : st = u.starts
    BY <1>0, <1>2, UsageTypes
  <1>5. PICK k \in 1 .. n :
          k = (CHOOSE i \in 1 .. Len(u.starts) : u.starts[i] = start) /\ st[k] = start
    BY <1>3, <1>4 DEF HasStart
  <1>6. PICK less \in Seq(T) :
          /\ less = RemoveAt(st, k) /\ Len(less) = n - 1
          /\ \A j \in 1 .. n - 1 : less[j] = IF j < k THEN st[j] ELSE st[j + 1]
    <2>1. n = Len(st) /\ k \in 1 .. Len(st)
      BY <1>3, <1>4
    <2>2. /\ RemoveAt(st, k) \in Seq(T)
          /\ Len(RemoveAt(st, k)) = Len(st) - 1
          /\ \A j \in 1 .. Len(st) - 1 :
               RemoveAt(st, k)[j] = IF j < k THEN st[j] ELSE st[j + 1]
      BY <2>1, RemoveAtProperties
    <2>3. QED
      BY <2>1, <2>2
  <1>7. u.active = n /\ n - 1 \in Nat /\ Minus(u.active, 1) = n - 1
    BY <1>3, <1>5 DEF Counts, Minus
  <1>8. g = [u EXCEPT !.starts = less, !.active = n - 1]
    BY <1>1, <1>4, <1>5, <1>6, <1>7 DEF GiveBack
  <1>9. /\ g \in AccountUsage /\ g.active = n - 1
        /\ g.starts = less /\ g.waiting = u.waiting
    <2>1. AccountUsage = [active : Nat, starts : Seq(T), waiting : Seq(Request)]
      BY <1>0 DEF AccountUsage
    <2>2. QED
      BY <1>2, <1>7, <1>8, <2>1
  <1>10. \A i \in 1 .. n : st[i] \in Nat /\ st[i] <= t
    BY <1>2, <1>3, <1>4, UsageTypes DEF Counts
  <1>11. \A i, j \in 1 .. n : i <= j => st[i] <= st[j]
    BY <1>3, <1>4 DEF Counts
  <1>12. ASSUME NEW i \in 1 .. n - 1
         PROVE  \E a \in 1 .. n : a = (IF i < k THEN i ELSE i + 1) /\ less[i] = st[a]
    <2>1. i \in 1 .. n /\ i + 1 \in 1 .. n
      OBVIOUS
    <2>2. QED
      BY <1>6, <2>1
  <1>13. /\ \A i \in 1 .. n - 1 : less[i] <= t
         /\ \A i, j \in 1 .. n - 1 : i <= j => less[i] <= less[j]
    <2>1. ASSUME NEW i \in 1 .. n - 1, NEW j \in 1 .. n - 1, i <= j
          PROVE  less[i] <= t /\ less[i] <= less[j]
      <3>1. PICK a \in 1 .. n : a = (IF i < k THEN i ELSE i + 1) /\ less[i] = st[a]
        BY <1>12
      <3>2. PICK b \in 1 .. n : b = (IF j < k THEN j ELSE j + 1) /\ less[j] = st[b]
        BY <1>12
      <3>3. a <= b
        BY <2>1, <3>1, <3>2
      <3>4. QED
        BY <1>10, <1>11, <3>1, <3>2, <3>3
    <2>2. \A i \in 1 .. n - 1 : i <= i
      OBVIOUS
    <2>3. QED
      BY <2>1, <2>2
  <1>14. Counts(g, t)
    BY <1>2, <1>6, <1>7, <1>9, <1>13 DEF Counts
  <1>15. k \in 1 .. Len(u.starts) /\ u.starts[k] = start /\ g.starts = RemoveAt(u.starts, k)
    BY <1>3, <1>4, <1>5, <1>6, <1>9
  <1>16. u.active \in Nat \ {0} /\ g.active = u.active - 1
    BY <1>5, <1>7, <1>9
  <1>17. QED
    BY <1>1, <1>9, <1>14, <1>15, <1>16

(* A free slot goes to the head of the queue. *)
LEMMA ServeNextOK ==
  ASSUME now \in 0 .. MaxTime, NEW u, Counts(u, now), u.active < MaxConcurrent,
         u.waiting # <<>> => u.active + 1 = MaxConcurrent
  PROVE  /\ UsageOK(ServeNext(u), now)
         /\ u.waiting = <<>> => ServeNext(u) = u
         /\ u.waiting # <<>> =>
              /\ ServeNext(u).starts = Append(u.starts, now)
              /\ ServeNext(u).waiting = Tail(u.waiting)
  <1>1. CASE u.waiting = <<>>
    BY <1>1 DEF ServeNext, UsageOK
  <1>2. CASE u.waiting # <<>>
    <2>1. u \in AccountUsage /\ u.waiting \in Seq(Request)
      BY UsageTypes DEF Counts
    <2>2. PICK q \in Seq(Request) : q = Tail(u.waiting) /\ NoDuplicates(q)
      BY <1>2, <2>1, TailMembers DEF Counts
    <2>3. PICK w : w = [u EXCEPT !.waiting = q]
      OBVIOUS
    <2>4. /\ w \in AccountUsage /\ w.active = u.active
          /\ w.starts = u.starts /\ w.waiting = q
      BY <2>1, <2>3 DEF AccountUsage
    <2>5. Counts(w, now) /\ w.active < MaxConcurrent
      BY <2>2, <2>4 DEF Counts
    <2>6. /\ Counts(Grant(w), now) /\ Grant(w).active = w.active + 1
          /\ Grant(w).starts = Append(w.starts, now) /\ Grant(w).waiting = w.waiting
      BY <2>5, GrantCounts
    <2>7. ServeNext(u) = Grant(w)
      BY <1>2, <2>2, <2>3 DEF ServeNext
    <2>8. QED
      BY <1>2, <2>2, <2>4, <2>6, <2>7 DEF UsageOK
  <1>3. QED
    BY <1>1, <1>2

(* The stale slots are a prefix: as many as are counted, those that come    *)
(* first.                                                                  *)
LEMMA StalePrefix ==
  ASSUME now \in 0 .. MaxTime, NEW u, Counts(u, now)
  PROVE  /\ StaleCount(u) \in 0 .. Len(u.starts)
         /\ \A i \in 1 .. Len(u.starts) : now - u.starts[i] > MaxAge <=> i <= StaleCount(u)
  <1>1. u \in AccountUsage /\ now \in Nat /\ MaxAge \in Nat
    BY Types DEF Counts
  <1>2. PICK n \in Nat : n = Len(u.starts)
    BY <1>1, UsageTypes
  <1>3. PICK st \in Seq(0 .. MaxTime) : st = u.starts
    BY <1>1, UsageTypes
  <1>4. /\ \A i \in 1 .. n : st[i] \in Nat /\ st[i] <= now
        /\ \A i, j \in 1 .. n : i <= j => st[i] <= st[j]
    BY <1>1, <1>2, <1>3, UsageTypes DEF Counts
  <1>5. PICK D \in SUBSET (1 .. n) : D = {i \in 1 .. n : now - st[i] > MaxAge}
    OBVIOUS
  <1>6. IsFiniteSet(1 .. n) /\ Cardinality(1 .. n) = n
    <2>1. 1 \in Int /\ n \in Int
      OBVIOUS
    <2>2. IsFiniteSet(1 .. n) /\ Cardinality(1 .. n) = IF 1 > n THEN 0 ELSE n - 1 + 1
      BY <2>1, FS_Interval
    <2>3. QED
      BY <2>2
  <1>7. IsFiniteSet(D) /\ Cardinality(D) <= n /\ Cardinality(D) \in Nat
    BY <1>6, FS_Subset, FS_CardinalityType
  <1>8. PICK c \in 0 .. n : c = Cardinality(D)
    BY <1>7
  <1>9. ASSUME NEW i \in D PROVE i <= c
    <2>1. 1 .. i \subseteq D
      BY <1>1, <1>4, <1>5
    <2>2. IsFiniteSet(1 .. i) /\ Cardinality(1 .. i) = i
      <3>1. i \in Int /\ 1 \in Int /\ 1 <= i
        BY <1>5
      <3>2. QED
        BY <3>1, FS_Interval
    <2>3. Cardinality(1 .. i) <= Cardinality(D)
      BY <1>7, <2>1, FS_Subset
    <2>4. QED
      BY <1>8, <2>2, <2>3
  <1>10. D = 1 .. c
    <2>1. IsFiniteSet(1 .. c) /\ Cardinality(1 .. c) = c
      <3>1. c \in Int /\ 1 \in Int /\ 0 <= c
        OBVIOUS
      <3>2. IsFiniteSet(1 .. c) /\ Cardinality(1 .. c) = IF 1 > c THEN 0 ELSE c - 1 + 1
        BY <3>1, FS_Interval
      <3>3. QED
        BY <3>1, <3>2
    <2>2. D \in SUBSET (1 .. c)
      BY <1>5, <1>9
    <2>3. QED
      BY <1>8, <2>1, <2>2, FS_Subset
  <1>11. StaleCount(u) = c
    BY <1>2, <1>3, <1>5, <1>8 DEF StaleCount
  <1>12. QED
    BY <1>2, <1>3, <1>5, <1>10, <1>11

(* n copies of a time *)
LEMMA Copies ==
  ASSUME NEW T, NEW e \in T, NEW k \in Nat
  PROVE  /\ [i \in 1 .. k |-> e] \in Seq(T)
         /\ Len([i \in 1 .. k |-> e]) = k
         /\ \A i \in 1 .. k : [j \in 1 .. k |-> e][i] = e
  OBVIOUS

(* The sweep takes the stale slots and serves as many waiters. *)
LEMMA SweptOK ==
  ASSUME now \in 0 .. MaxTime, NEW u, UsageOK(u, now)
  PROVE  /\ UsageOK(Swept(u), now)
         /\ ServedBySweep(u) \in 0 .. Len(u.waiting)
         /\ Swept(u).waiting = SubSeq(u.waiting, ServedBySweep(u) + 1, Len(u.waiting))
         /\ Swept(u).starts = SubSeq(u.starts, StaleCount(u) + 1, Len(u.starts))
                                \o [i \in 1 .. ServedBySweep(u) |-> now]
  <1>0. PICK T : T = 0 .. MaxTime
    OBVIOUS
  <1>1. /\ u \in AccountUsage /\ Counts(u, now) /\ now \in T /\ now \in Nat
        /\ MaxConcurrent \in Nat /\ u.waiting \in Seq(Request) /\ Len(u.waiting) \in Nat
    BY <1>0, Types, UsageTypes DEF UsageOK, Counts
  <1>2. PICK l \in Nat : l = Len(u.starts)
    BY <1>1, UsageTypes
  <1>3. PICK st \in Seq(T) : st = u.starts
    BY <1>0, <1>1, UsageTypes
  <1>4. PICK n \in 0 .. l : n = StaleCount(u)
    BY <1>1, <1>2, StalePrefix
  <1>5. PICK k \in 0 .. Len(u.waiting) : k = ServedBySweep(u) /\ k <= n
    BY <1>1, <1>4 DEF ServedBySweep
  <1>6. PICK rest \in Seq(T) :
          /\ rest = SubSeq(st, n + 1, Len(st)) /\ Len(rest) = l - n
          /\ \A j \in 1 .. l - n : rest[j] = st[n + j]
    <2>1. n \in 0 .. Len(st) /\ Len(st) = l
      BY <1>2, <1>3
    <2>2. /\ SubSeq(st, n + 1, Len(st)) \in Seq(T)
          /\ Len(SubSeq(st, n + 1, Len(st))) = Len(st) - n
          /\ \A j \in 1 .. Len(st) - n : SubSeq(st, n + 1, Len(st))[j] = st[n + j]
      BY <2>1, SuffixProperties
    <2>3. QED
      BY <2>1, <2>2
  <1>7. PICK e \in T : e = now
    BY <1>1
  <1>8. PICK fresh \in Seq(T) :
          /\ fresh = [i \in 1 .. k |-> e] /\ Len(fresh) = k /\ \A i \in 1 .. k : fresh[i] = e
    <2>1. PICK f : f = [i \in 1 .. k |-> e]
      OBVIOUS
    <2>2. k \in Nat
      BY <1>1
    <2>3. f \in Seq(T) /\ Len(f) = k /\ \A i \in 1 .. k : f[i] = e
      BY <2>1, <2>2, Copies
    <2>4. QED
      BY <2>1, <2>3
  <1>9. PICK w \in Seq(T) :
          /\ w = rest \o fresh /\ Len(w) = (l - n) + k
          /\ \A i \in 1 .. (l - n) + k : w[i] = IF i <= l - n THEN st[n + i] ELSE e
    <2>1. /\ rest \o fresh \in Seq(T)
          /\ Len(rest \o fresh) = (l - n) + k
          /\ \A i \in 1 .. (l - n) + k :
               (rest \o fresh)[i] = IF i <= l - n THEN rest[i] ELSE fresh[i - (l - n)]
      <3>1. /\ rest \o fresh \in Seq(T)
            /\ Len(rest \o fresh) = Len(rest) + Len(fresh)
            /\ \A i \in 1 .. Len(rest) + Len(fresh) :
                 (rest \o fresh)[i] = IF i <= Len(rest) THEN rest[i] ELSE fresh[i - Len(rest)]
        BY ConcatProperties
      <3>2. Len(rest) = l - n /\ Len(fresh) = k
        BY <1>6, <1>8
      <3>3. QED
        BY <3>1, <3>2
    <2>2. ASSUME NEW i \in 1 .. (l - n) + k
          PROVE  (rest \o fresh)[i] = IF i <= l - n THEN st[n + i] ELSE e
      <3>1. CASE i <= l - n
        BY <1>6, <2>1, <3>1
      <3>2. CASE ~(i <= l - n)
        <4>1. i - (l - n) \in 1 .. k
          BY <3>2
        <4>2. QED
          BY <1>8, <2>1, <3>2, <4>1
      <3>3. QED
        BY <3>1, <3>2
    <2>3. QED
      BY <2>1, <2>2
  <1>10. PICK q \in Seq(Request) :
          /\ q = SubSeq(u.waiting, k + 1, Len(u.waiting)) /\ Len(q) = Len(u.waiting) - k
          /\ NoDuplicates(q)
    <2>1. NoDuplicates(u.waiting)
      BY <1>1 DEF Counts
    <2>2. QED
      BY <1>1, <2>1, SuffixProperties
  <1>11. PICK s : s = Swept(u)
    OBVIOUS
  <1>12. u.active = l /\ l <= MaxConcurrent /\ Minus(u.active, n) = l - n
    BY <1>1, <1>2 DEF Counts, Minus
  <1>13. s = [active |-> (l - n) + k, starts |-> w, waiting |-> q]
    BY <1>3, <1>4, <1>5, <1>6, <1>7, <1>8, <1>9, <1>10, <1>11, <1>12 DEF Swept
  <1>14. s \in AccountUsage /\ s.active = (l - n) + k /\ s.starts = w /\ s.waiting = q
    <2>1. AccountUsage = [active : Nat, starts : Seq(T), waiting : Seq(Request)]
      BY <1>0 DEF AccountUsage
    <2>2. (l - n) + k \in Nat
      OBVIOUS
    <2>3. QED
      BY <1>13, <2>1, <2>2
  <1>15. /\ \A i \in 1 .. l : st[i] \in Nat /\ st[i] <= now
         /\ \A i, j \in 1 .. l : i <= j => st[i] <= st[j]
    BY <1>1, <1>2, <1>3, UsageTypes DEF Counts
  <1>16. ASSUME NEW i \in 1 .. (l - n) + k
         PROVE  w[i] <= now /\ \A j \in 1 .. (l - n) + k : i <= j => w[i] <= w[j]
    <2>1. CASE i > l - n
      <3>1. \A j \in 1 .. (l - n) + k : i <= j => w[j] = e
        BY <1>9, <2>1
      <3>2. i <= i /\ e <= e /\ e = now
        BY <1>1, <1>7
      <3>3. QED
        BY <3>1, <3>2
    <2>2. CASE i <= l - n
      <3>1. n + i \in 1 .. l /\ w[i] = st[n + i]
        <4>1. n + i \in 1 .. l
          BY <2>2
        <4>2. w[i] = IF i <= l - n THEN st[n + i] ELSE e
          BY <1>9
        <4>3. QED
          BY <2>2, <4>1, <4>2
      <3>2. ASSUME NEW j \in 1 .. (l - n) + k, i <= j PROVE w[i] <= w[j]
        <4>1. CASE j <= l - n
          <5>1. n + j \in 1 .. l /\ w[j] = st[n + j] /\ n + i <= n + j
            <6>1. n + j \in 1 .. l /\ n + i <= n + j
              BY <3>2, <4>1
            <6>2. w[j] = IF j <= l - n THEN st[n + j] ELSE e
              BY <1>9
            <6>3. QED
              BY <4>1, <6>1, <6>2
          <5>2. QED
            BY <1>15, <3>1, <5>1
        <4>2. CASE j > l - n
          BY <1>7, <1>9, <1>15, <3>1, <4>2
        <4>3. QED
          BY <4>1, <4>2
      <3>3. QED
        BY <1>15, <3>1, <3>2
    <2>3. QED
      BY <2>1, <2>2
  <1>17. Counts(s, now)
    <2>1. (l - n) + k <= MaxConcurrent
      BY <1>1, <1>5, <1>12
    <2>2. QED
      BY <1>9, <1>10, <1>14, <1>16, <2>1 DEF Counts
  <1>18. s.waiting # <<>> => s.active = MaxConcurrent
    <2>1. ASSUME s.waiting # <<>> PROVE s.active = MaxConcurrent
      <3>1. Len(q) # 0
        BY <1>14, <2>1
      <3>2. k < Len(u.waiting)
        BY <1>1, <1>10, <3>1
      <3>3. k = n
        BY <1>1, <1>4, <1>5, <3>2 DEF ServedBySweep
      <3>4. u.waiting # <<>>
        BY <1>1, <3>2
      <3>5. l = MaxConcurrent
        BY <1>12, <3>4 DEF UsageOK
      <3>6. QED
        BY <1>14, <3>3, <3>5
    <2>2. QED
      BY <2>1
  <1>19. QED
    <2>1. UsageOK(s, now)
      BY <1>17, <1>18 DEF UsageOK
    <2>2. s.waiting = SubSeq(u.waiting, ServedBySweep(u) + 1, Len(u.waiting))
      BY <1>5, <1>10, <1>14
    <2>3. s.starts = SubSeq(u.starts, StaleCount(u) + 1, Len(u.starts))
                       \o [i \in 1 .. ServedBySweep(u) |-> now]
      BY <1>3, <1>4, <1>5, <1>6, <1>7, <1>8, <1>9, <1>14
    <2>4. QED
      BY <1>5, <1>11, <2>1, <2>2, <2>3

-----------------------------------------------------------------------------
(* Steps on one object *)

(* Account a's object o gets the fields u, and the map keeps or forgets it; *)
(* whoever has something captured that it had not before captured o.       *)
ObjectStep(a, o, u) ==
  /\ UNCHANGED now
  /\ usage[a] = o \/ (usage[a] = None /\ ~Reachable(o))
  /\ heap' = [heap EXCEPT ![o] = u]
  /\ usage' = [usage EXCEPT ![a] = IF IsEmpty(u) THEN None ELSE o]
  /\ phase' \in [Request -> Phase] /\ slot' \in [Request -> Capture]
  /\ CapturesOK(phase', slot')
  /\ \A r \in Request : slot'[r].object \in Object =>
       \/ slot'[r].object = slot[r].object /\ slot'[r].account = slot[r].account
       \/ slot'[r].object = o /\ slot'[r].account = a
  /\ \A r \in Request :
       r \in ToSet(u.waiting) <=> phase'[r] = "waiting" /\ slot'[r].object = o
  /\ \A r \in Request, x \in Object : x # o =>
       (phase'[r] = "waiting" /\ slot'[r].object = x
          <=> phase[r] = "waiting" /\ slot[r].object = x)

LEMMA OneObject ==
  ASSUME Parts, NEW a \in Account, NEW o \in Object, NEW u, UsageOK(u, now),
         ObjectStep(a, o, u)
  PROVE  Parts'
  <1>0. /\ UNCHANGED now
        /\ usage[a] = o \/ (usage[a] = None /\ ~Reachable(o))
        /\ heap' = [heap EXCEPT ![o] = u]
        /\ usage' = [usage EXCEPT ![a] = IF IsEmpty(u) THEN None ELSE o]
        /\ phase' \in [Request -> Phase] /\ slot' \in [Request -> Capture]
        /\ CapturesOK(phase', slot')
        /\ \A r \in Request : slot'[r].object \in Object =>
             \/ slot'[r].object = slot[r].object /\ slot'[r].account = slot[r].account
             \/ slot'[r].object = o /\ slot'[r].account = a
        /\ \A r \in Request :
             r \in ToSet(u.waiting) <=> phase'[r] = "waiting" /\ slot'[r].object = o
        /\ \A r \in Request, x \in Object : x # o =>
             (phase'[r] = "waiting" /\ slot'[r].object = x
                <=> phase[r] = "waiting" /\ slot[r].object = x)
    BY DEF ObjectStep
  <1>1. /\ usage \in [Account -> Object \union {None}] /\ heap \in [Object -> AccountUsage]
        /\ phase \in [Request -> Phase] /\ slot \in [Request -> Capture]
        /\ now \in 0 .. MaxTime /\ None \notin Object
    BY <1>0, Types DEF Parts, TypeOK
  <1>2. u \in AccountUsage
    BY <1>0 DEF UsageOK, Counts
  <1>3. TypeOK'
    BY <1>0, <1>1, <1>2 DEF TypeOK
  <1>4. heap'[o] = u /\ \A x \in Object : x # o => heap'[x] = heap[x]
    BY <1>0, <1>1
  <1>5. \A x \in Object : UsageOK(heap'[x], now')
    BY <1>0, <1>4 DEF Parts
  <1>6. WaitersOK(phase', slot', heap')
    BY <1>0, <1>4 DEF Parts, WaitersOK
  <1>7. /\ \A x \in Object : (\E b \in Account : usage[b] = x) <=> ~IsEmpty(heap[x])
        /\ \A b, c \in Account : usage[b] = usage[c] /\ usage[b] # None => b = c
        /\ \A r \in Request, b \in Account :
             slot[r].object = usage[b] /\ usage[b] # None => slot[r].account = b
    BY <1>0 DEF Parts, MapListsBusyObjects, Listed
  <1>8. /\ usage'[a] = IF IsEmpty(u) THEN None ELSE o
        /\ \A b \in Account : b # a => usage'[b] = usage[b]
    BY <1>0, <1>1
  <1>9. \A b \in Account : b # a => usage[b] # o
    BY <1>0, <1>1, <1>7 DEF Reachable
  <1>10. ASSUME NEW x \in Object
         PROVE  (\E b \in Account : usage'[b] = x) <=> ~IsEmpty(heap'[x])
    <2>1. CASE x = o
      BY <1>0, <1>1, <1>4, <1>8, <1>9, <2>1
    <2>2. CASE x # o
      <3>1. usage[a] # x /\ usage'[a] # x
        BY <1>0, <1>1, <1>8, <2>2
      <3>2. (\E b \in Account : usage'[b] = x) <=> (\E b \in Account : usage[b] = x)
        BY <1>0, <1>8, <3>1
      <3>3. QED
        BY <1>0, <1>4, <1>7, <2>2, <3>2
    <2>3. QED
      BY <1>0, <2>1, <2>2
  <1>11. ASSUME NEW b \in Account, NEW c \in Account, usage'[b] = usage'[c], usage'[b] # None
         PROVE  b = c
    BY <1>0, <1>7, <1>8, <1>9, <1>11
  <1>12. ASSUME NEW r \in Request, NEW b \in Account,
                slot'[r].object = usage'[b], usage'[b] # None
         PROVE  slot'[r].account = b
    <2>1. slot'[r].object \in Object
      BY <1>0, <1>3, <1>12 DEF TypeOK
    <2>2. CASE slot'[r].object = o /\ slot'[r].account = a
      BY <1>0, <1>8, <1>9, <1>12, <2>2
    <2>3. CASE slot'[r].object = slot[r].object /\ slot'[r].account = slot[r].account
      <3>1. CASE b # a
        BY <1>0, <1>7, <1>8, <1>12, <2>3, <3>1
      <3>2. CASE b = a
        <4>1. slot[r].object = o
          BY <1>0, <1>8, <1>12, <2>3, <3>2
        <4>2. usage[a] = o
          BY <1>0, <4>1 DEF Reachable
        <4>3. QED
          BY <1>0, <1>1, <1>7, <2>3, <3>2, <4>1, <4>2
      <3>3. QED
        BY <1>0, <3>1, <3>2
    <2>4. QED
      BY <1>0, <2>1, <2>2, <2>3
  <1>13. MapListsBusyObjects'
    BY <1>0, <1>10, <1>11, <1>12 DEF MapListsBusyObjects, Listed
  <1>14. QED
    BY <1>0, <1>3, <1>5, <1>6, <1>13 DEF Parts

(* No object changes: a request that did not wait has nothing captured any *)
(* more.                                                                   *)
LEMMA NoObject ==
  ASSUME Parts, UNCHANGED <<usage, heap, now>>,
         NEW r \in Request, phase[r] # "waiting", NEW ph \in {"idle", "lingering"},
         phase' = [phase EXCEPT ![r] = ph], slot' = [slot EXCEPT ![r] = NoCapture]
  PROVE  Parts'
  <1>1. /\ phase \in [Request -> Phase] /\ slot \in [Request -> Capture]
        /\ 0 \in 0 .. MaxTime /\ None \notin Object
        /\ usage \in [Account -> Object \union {None}]
    BY Types DEF Parts, TypeOK
  <1>2. NoCapture \in Capture /\ NoCapture.object = None /\ ph \in Phase /\ ph # "waiting"
    BY <1>1 DEF NoCapture, Capture, Phase
  <1>3. TypeOK'
    BY <1>1, <1>2 DEF Parts, TypeOK
  <1>4. /\ phase'[r] = ph /\ slot'[r] = NoCapture
        /\ \A s \in Request : s # r => phase'[s] = phase[s] /\ slot'[s] = slot[s]
    BY <1>1
  <1>5. CapturesOK(phase', slot')
    BY <1>4 DEF Parts, CapturesOK
  <1>6. WaitersOK(phase', slot', heap')
    BY <1>2, <1>4 DEF Parts, WaitersOK
  <1>7. MapListsBusyObjects'
    BY <1>1, <1>2, <1>4 DEF Parts, MapListsBusyObjects, Listed, IsEmpty
  <1>8. QED
    BY <1>3, <1>5, <1>6, <1>7 DEF Parts

(* An object that is not in use is as good as a new one. *)
LEMMA FieldsAreKept ==
  ASSUME Parts, NEW a \in Account, NEW o \in Object, Resolves(a, o)
  PROVE  /\ Fields(a, o) = heap[o]
         /\ usage[a] = o \/ (usage[a] = None /\ ~Reachable(o))
  <1>1. CASE usage[a] # None
    BY <1>1 DEF Resolves, Fields
  <1>2. CASE usage[a] = None
    <2>1. ~Reachable(o)
      BY <1>2 DEF Resolves
    <2>2. IsEmpty(heap[o])
      BY <2>1 DEF Parts, MapListsBusyObjects, Listed, Reachable
    <2>3. heap[o] \in AccountUsage /\ heap[o].active = Len(heap[o].starts)
      BY DEF Parts, UsageOK, Counts
    <2>4. heap[o].starts = <<>>
      <3>1. Len(heap[o].starts) = 0 /\ heap[o].starts \in Seq(0 .. MaxTime)
        BY <2>2, <2>3, UsageTypes DEF IsEmpty
      <3>2. QED
        BY <3>1, EmptySeq
    <2>5. heap[o] = NewUsage
      BY <2>2, <2>3, <2>4 DEF IsEmpty, NewUsage, AccountUsage
    <2>6. QED
      BY <1>2, <2>1, <2>5 DEF Fields
  <1>3. QED
    BY <1>1, <1>2

(* Whoever waits, or holds a slot, captured the object that the map lists. *)
LEMMA CapturedIsListed ==
  ASSUME Parts, NEW r \in Request,
         phase[r] = "waiting" \/ (phase[r] = "running" /\ StillHeld(r))
  PROVE  /\ slot[r].object \in Object /\ slot[r].account \in Account
         /\ usage[slot[r].account] = slot[r].object
         /\ UsageOK(heap[slot[r].object], now)
         /\ ~IsEmpty(heap[slot[r].object])
  <1>1. PICK o \in Object : o = slot[r].object
    BY DEF Parts, CapturesOK
  <1>2. slot[r].account \in Account
    BY DEF Parts, CapturesOK
  <1>3. UsageOK(heap[o], now) /\ heap[o] \in AccountUsage
    BY DEF Parts, UsageOK, Counts
  <1>4. ~IsEmpty(heap[o])
    <2>1. CASE phase[r] = "waiting"
      <3>1. PICK q \in Seq(Request) : q = heap[o].waiting
        BY <1>3, UsageTypes
      <3>2. r \in ToSet(q)
        BY <1>1, <2>1, <3>1 DEF Parts, WaitersOK
      <3>3. q # <<>>
        BY <3>2, ToSetMembers
      <3>4. QED
        BY <3>1, <3>3 DEF IsEmpty
    <2>2. CASE phase[r] = "running" /\ StillHeld(r)
      <3>1. Len(heap[o].starts) # 0 /\ Len(heap[o].starts) \in Nat
        BY <1>1, <1>3, <2>2, UsageTypes DEF StillHeld, HasStart
      <3>2. QED
        BY <1>3, <3>1 DEF UsageOK, Counts, IsEmpty
    <2>3. QED
      BY <2>1, <2>2
  <1>5. PICK b \in Account : usage[b] = o
    BY <1>4 DEF Parts, MapListsBusyObjects, Listed
  <1>6. slot[r].account = b
    BY <1>1, <1>5, Types DEF Parts, MapListsBusyObjects
  <1>7. QED
    BY <1>1, <1>2, <1>3, <1>4, <1>5, <1>6

LEMMA AcquireFreeInv ==
  ASSUME Parts, NEW r \in Request, NEW a \in Account, NEW o \in Object, AcquireFree(r, a, o)
  PROVE  Parts'
  <1>1. Resolves(a, o) /\ phase[r] = "idle" /\ UNCHANGED now
    BY DEF AcquireFree
  <1>2. Fields(a, o) = heap[o] /\ (usage[a] = o \/ (usage[a] = None /\ ~Reachable(o)))
    BY <1>1, FieldsAreKept
  <1>3. /\ UsageOK(heap[o], now) /\ Counts(heap[o], now) /\ now \in 0 .. MaxTime
        /\ heap[o].active < MaxConcurrent
    BY <1>2 DEF Parts, TypeOK, UsageOK, AcquireFree
  <1>4. /\ heap[o].active \in Nat /\ MaxConcurrent \in Nat /\ heap[o].waiting = <<>>
        /\ phase \in [Request -> Phase] /\ slot \in [Request -> Capture]
    BY <1>3, UsageTypes, Types DEF UsageOK, Counts, Parts, TypeOK
  <1>5. PICK u : u = Grant(heap[o])
    OBVIOUS
  <1>6. /\ Counts(u, now) /\ u.active = heap[o].active + 1
        /\ u.waiting = heap[o].waiting
    BY <1>3, <1>5, GrantCounts
  <1>7. UsageOK(u, now) /\ ~IsEmpty(u)
    BY <1>4, <1>6 DEF UsageOK, IsEmpty
  <1>8. heap' = [heap EXCEPT ![o] = u] /\ usage' = [usage EXCEPT ![a] = IF IsEmpty(u) THEN None ELSE o]
    BY <1>2, <1>5, <1>7 DEF AcquireFree
  <1>9. PICK c \in Capture : c = [account |-> a, object |-> o, start |-> now]
    BY <1>3 DEF Capture
  <1>10. phase' = [phase EXCEPT ![r] = "running"] /\ slot' = [slot EXCEPT ![r] = c]
    BY <1>9 DEF AcquireFree
  <1>11. phase' \in [Request -> Phase] /\ slot' \in [Request -> Capture]
    BY <1>4, <1>10 DEF Phase
  <1>12. /\ phase'[r] = "running" /\ slot'[r].object = o /\ slot'[r].account = a
         /\ \A s \in Request : s # r => phase'[s] = phase[s] /\ slot'[s] = slot[s]
    BY <1>4, <1>9, <1>10
  <1>13. CapturesOK(phase', slot')
    BY <1>12 DEF Parts, CapturesOK
  <1>14. \A s \in Request :
           s \in ToSet(u.waiting) <=> phase'[s] = "waiting" /\ slot'[s].object = o
    BY <1>1, <1>6, <1>12 DEF Parts, WaitersOK
  <1>15. \A s \in Request, x \in Object : x # o =>
           (phase'[s] = "waiting" /\ slot'[s].object = x
              <=> phase[s] = "waiting" /\ slot[s].object = x)
    BY <1>1, <1>12
  <1>16. QED
    <2>1. ObjectStep(a, o, u)
      BY <1>1, <1>2, <1>7, <1>8, <1>11, <1>12, <1>13, <1>14, <1>15, Zenon DEF ObjectStep
    <2>2. QED
      BY <1>7, <2>1, OneObject

LEMMA AcquireQueuedInv ==
  ASSUME Parts, NEW r \in Request, NEW a \in Account, NEW o \in Object, AcquireQueued(r, a, o)
  PROVE  Parts'
  <1>1. Resolves(a, o) /\ phase[r] = "idle" /\ UNCHANGED now
    BY DEF AcquireQueued
  <1>2. Fields(a, o) = heap[o]
    BY <1>1, FieldsAreKept
  <1>3. /\ UsageOK(heap[o], now) /\ Counts(heap[o], now) /\ now \in 0 .. MaxTime
        /\ heap[o].active >= MaxConcurrent
    BY <1>2 DEF Parts, TypeOK, UsageOK, AcquireQueued
  <1>4. /\ heap[o] \in AccountUsage /\ heap[o].active \in Nat /\ MaxConcurrent \in Nat \ {0}
        /\ heap[o].waiting \in Seq(Request)
        /\ phase \in [Request -> Phase] /\ slot \in [Request -> Capture]
        /\ usage \in [Account -> Object \union {None}]
    BY <1>3, UsageTypes, Types DEF UsageOK, Counts, Parts, TypeOK
  <1>5. heap[o].active = MaxConcurrent
    BY <1>3, <1>4 DEF Counts
  <1>6. usage[a] = o
    <2>1. CASE usage[a] = None
      BY <1>2, <1>4, <1>5, <2>1 DEF Fields, NewUsage
    <2>2. QED
      BY <1>1, <2>1 DEF Resolves
  <1>7. r \notin ToSet(heap[o].waiting)
    BY <1>1 DEF Parts, WaitersOK
  <1>8. PICK q \in Seq(Request) :
          /\ q = Append(heap[o].waiting, r) /\ NoDuplicates(q)
          /\ ToSet(q) = ToSet(heap[o].waiting) \union {r}
    BY <1>3, <1>4, <1>7, AppendMembers DEF Counts
  <1>9. PICK u : u = [heap[o] EXCEPT !.waiting = q]
    OBVIOUS
  <1>10. /\ u \in AccountUsage /\ u.active = heap[o].active
         /\ u.starts = heap[o].starts /\ u.waiting = q
    BY <1>4, <1>9 DEF AccountUsage
  <1>11. UsageOK(u, now) /\ ~IsEmpty(u)
    BY <1>3, <1>4, <1>5, <1>8, <1>10 DEF UsageOK, Counts, IsEmpty
  <1>12. heap' = [heap EXCEPT ![o] = u]
    BY <1>4, <1>8, <1>9 DEF AcquireQueued
  <1>13. usage' = [usage EXCEPT ![a] = IF IsEmpty(u) THEN None ELSE o]
    BY <1>4, <1>6, <1>11 DEF AcquireQueued
  <1>14. PICK c \in Capture : c = [account |-> a, object |-> o, start |-> now]
    BY <1>3 DEF Capture
  <1>15. phase' = [phase EXCEPT ![r] = "waiting"] /\ slot' = [slot EXCEPT ![r] = c]
    BY <1>14 DEF AcquireQueued
  <1>16. phase' \in [Request -> Phase] /\ slot' \in [Request -> Capture]
    BY <1>4, <1>15 DEF Phase
  <1>17. /\ phase'[r] = "waiting" /\ slot'[r].object = o /\ slot'[r].account = a
         /\ \A s \in Request : s # r => phase'[s] = phase[s] /\ slot'[s] = slot[s]
    BY <1>4, <1>14, <1>15
  <1>18. CapturesOK(phase', slot')
    BY <1>17 DEF Parts, CapturesOK
  <1>19. \A s \in Request :
           s \in ToSet(u.waiting) <=> phase'[s] = "waiting" /\ slot'[s].object = o
    BY <1>8, <1>10, <1>17 DEF Parts, WaitersOK
  <1>20. \A s \in Request, x \in Object : x # o =>
           (phase'[s] = "waiting" /\ slot'[s].object = x
              <=> phase[s] = "waiting" /\ slot[s].object = x)
    BY <1>1, <1>17
  <1>21. QED
    <2>1. ObjectStep(a, o, u)
      BY <1>1, <1>6, <1>11, <1>12, <1>13, <1>16, <1>17, <1>18, <1>19, <1>20, Zenon DEF ObjectStep
    <2>2. QED
      BY <1>11, <2>1, OneObject

(* A queue without a member *)
LEMMA Withdrawn ==
  ASSUME NEW q \in Seq(Request), NoDuplicates(q), NEW i \in 1 .. Len(q)
  PROVE  /\ RemoveAt(q, i) \in Seq(Request) /\ NoDuplicates(RemoveAt(q, i))
         /\ ToSet(RemoveAt(q, i)) = ToSet(q) \ {q[i]}
  <1>1. PICK w : w = RemoveAt(q, i)
    OBVIOUS
  <1>2. w \in Seq(Request)
    BY <1>1, RemoveAtProperties
  <1>3. IsWithout(w, q, q[i])
    BY <1>1, RemoveAtIsWithout
  <1>4. ASSUME NEW x PROVE x \in ToSet(w) <=> x \in ToSet(q) /\ x # q[i]
    <2>1. x \in ToSet(w) <=> \E k \in 1 .. Len(w) : w[k] = x
      BY <1>2, ToSetMembers
    <2>2. x \in ToSet(q) <=> \E k \in 1 .. Len(q) : q[k] = x
      BY ToSetMembers
    <2>3. QED
      BY <1>3, <2>1, <2>2 DEF IsWithout
  <1>5. QED
    BY <1>1, <1>2, <1>3, <1>4 DEF IsWithout

LEMMA WaiterGivesUpInv ==
  ASSUME Parts, NEW r \in Request, WaiterGivesUp(r)
  PROVE  Parts'
  <1>1. phase[r] = "waiting" /\ UNCHANGED now
    BY DEF WaiterGivesUp
  <1>2. PICK o \in Object, a \in Account :
          /\ o = slot[r].object /\ a = slot[r].account /\ usage[a] = o
          /\ UsageOK(heap[o], now)
    BY <1>1, CapturedIsListed
  <1>3. /\ Counts(heap[o], now) /\ heap[o] \in AccountUsage
        /\ heap[o].waiting \in Seq(Request) /\ heap[o].active \in Nat
        /\ phase \in [Request -> Phase] /\ slot \in [Request -> Capture]
        /\ usage \in [Account -> Object \union {None}] /\ 0 \in 0 .. MaxTime
    BY <1>2, UsageTypes, Types DEF UsageOK, Counts, Parts, TypeOK
  <1>4. PICK i \in 1 .. Len(heap[o].waiting) :
          /\ heap[o].waiting[i] = r
          /\ heap' = [heap EXCEPT ![o].waiting = RemoveAt(@, i)]
          /\ Prune(a, [heap[o] EXCEPT !.waiting = RemoveAt(@, i)])
    BY <1>2, Zenon DEF WaiterGivesUp
  <1>5. PICK q \in Seq(Request) :
          /\ q = RemoveAt(heap[o].waiting, i) /\ NoDuplicates(q)
          /\ ToSet(q) = ToSet(heap[o].waiting) \ {r}
    BY <1>3, <1>4, Withdrawn DEF Counts
  <1>6. PICK u : u = [heap[o] EXCEPT !.waiting = q]
    OBVIOUS
  <1>7. /\ u \in AccountUsage /\ u.active = heap[o].active
        /\ u.starts = heap[o].starts /\ u.waiting = q
    BY <1>3, <1>6 DEF AccountUsage
  <1>8. heap[o].waiting # <<>>
    BY <1>3, <1>4
  <1>9. UsageOK(u, now)
    BY <1>2, <1>5, <1>7, <1>8 DEF UsageOK, Counts
  <1>10. heap' = [heap EXCEPT ![o] = u]
    BY <1>4, <1>5, <1>6
  <1>11. usage' = [usage EXCEPT ![a] = IF IsEmpty(u) THEN None ELSE o]
    <2>1. Prune(a, u)
      BY <1>4, <1>5, <1>6
    <2>2. QED
      BY <1>2, <1>3, <2>1 DEF Prune
  <1>12. phase' = [phase EXCEPT ![r] = "idle"] /\ slot' = [slot EXCEPT ![r] = NoCapture]
    BY DEF WaiterGivesUp
  <1>13. NoCapture \in Capture /\ NoCapture.object = None
    BY <1>3 DEF NoCapture, Capture
  <1>14. phase' \in [Request -> Phase] /\ slot' \in [Request -> Capture]
    BY <1>3, <1>12, <1>13 DEF Phase
  <1>15. /\ phase'[r] = "idle" /\ slot'[r] = NoCapture
         /\ \A s \in Request : s # r => phase'[s] = phase[s] /\ slot'[s] = slot[s]
    BY <1>3, <1>12
  <1>16. CapturesOK(phase', slot')
    BY <1>15 DEF Parts, CapturesOK
  <1>17. \A s \in Request : slot'[s].object \in Object =>
           slot'[s].object = slot[s].object /\ slot'[s].account = slot[s].account
    BY <1>13, <1>15, Types
  <1>18. \A s \in Request :
           s \in ToSet(u.waiting) <=> phase'[s] = "waiting" /\ slot'[s].object = o
    BY <1>5, <1>7, <1>15 DEF Parts, WaitersOK
  <1>19. \A s \in Request, x \in Object : x # o =>
           (phase'[s] = "waiting" /\ slot'[s].object = x
              <=> phase[s] = "waiting" /\ slot[s].object = x)
    BY <1>2, <1>15
  <1>20. QED
    <2>1. ObjectStep(a, o, u)
      BY <1>1, <1>2, <1>9, <1>10, <1>11, <1>14, <1>16, <1>17, <1>18, <1>19, Zenon DEF ObjectStep
    <2>2. QED
      BY <1>9, <2>1, OneObject

-----------------------------------------------------------------------------
(* A release of a slot that the sweep has not taken: o's fields become u,   *)
(* the slot goes back and, if anybody waits, to the head of the queue: W   *)
(* are those who are served.                                               *)
Handover(r, ph, o, a, less, u, W) ==
  /\ o = slot[r].object /\ a = slot[r].account /\ usage[a] = o
  /\ less = GiveBack(heap[o], slot[r].start)
  /\ less.waiting = heap[o].waiting
  /\ UsageOK(u, now)
  /\ \/ heap[o].waiting = <<>> /\ W = {} /\ u = less
     \/ /\ heap[o].waiting # <<>> /\ W = {heap[o].waiting[1]}
        /\ u.starts = Append(less.starts, now)
  /\ W = ToSet(heap[o].waiting) \ ToSet(u.waiting)
  /\ ToSet(u.waiting) \subseteq ToSet(heap[o].waiting)
  /\ \A s \in W : phase[s] = "waiting" /\ slot[s].object = o /\ s # r
  /\ heap' = [heap EXCEPT ![o] = u]
  /\ usage' = [usage EXCEPT ![a] = IF IsEmpty(u) THEN None ELSE o]
  /\ phase' \in [Request -> Phase] /\ slot' \in [Request -> Capture]
  /\ phase'[r] = ph /\ slot'[r] = NoCapture
  /\ \A s \in Request : s # r /\ s \notin W => phase'[s] = phase[s] /\ slot'[s] = slot[s]
  /\ \A s \in W : /\ phase'[s] = "running" /\ slot'[s].start = now
                  /\ slot'[s].object = o /\ slot'[s].account = slot[s].account

LEMMA ReleaseHandsOver ==
  ASSUME Parts, NEW r \in Request, phase[r] = "running", StillHeld(r),
         NEW ph \in {"idle", "lingering"},
         ReleaseSlot(r, [phase EXCEPT ![r] = ph], [slot EXCEPT ![r] = NoCapture])
  PROVE  \E o \in Object, a \in Account, less \in AccountUsage, u \in AccountUsage,
            W \in SUBSET Request : Handover(r, ph, o, a, less, u, W)
  <1>1. PICK o \in Object, a \in Account :
          /\ o = slot[r].object /\ a = slot[r].account /\ usage[a] = o
          /\ UsageOK(heap[o], now)
    BY CapturedIsListed
  <1>2. /\ phase \in [Request -> Phase] /\ slot \in [Request -> Capture]
        /\ heap \in [Object -> AccountUsage] /\ now \in 0 .. MaxTime /\ now \in Nat
        /\ usage \in [Account -> Object \union {None}] /\ 0 \in 0 .. MaxTime
        /\ MaxConcurrent \in Nat
    BY Types DEF Parts, TypeOK
  <1>3. Counts(heap[o], now) /\ heap[o] \in AccountUsage /\ heap[o].waiting \in Seq(Request)
    BY <1>1, UsageTypes DEF UsageOK, Counts
  <1>4. HasStart(heap[o], slot[r].start)
    BY <1>1 DEF StillHeld
  <1>5. PICK less : less = GiveBack(heap[o], slot[r].start)
    OBVIOUS
  <1>6. /\ Counts(less, now) /\ less.active = heap[o].active - 1
        /\ heap[o].active \in Nat \ {0} /\ less.waiting = heap[o].waiting
    BY <1>2, <1>3, <1>4, <1>5, GiveBackCounts
  <1>7. less \in AccountUsage /\ less.active \in Nat
    BY <1>6, UsageTypes DEF Counts
  <1>8. less.active < MaxConcurrent
    BY <1>2, <1>3, <1>6 DEF Counts
  <1>9. less.waiting # <<>> => less.active + 1 = MaxConcurrent
    BY <1>1, <1>6 DEF UsageOK
  <1>10. PICK u : u = ServeNext(less)
    OBVIOUS
  <1>11. /\ UsageOK(u, now)
         /\ less.waiting = <<>> => u = less
         /\ less.waiting # <<>> =>
              u.starts = Append(less.starts, now) /\ u.waiting = Tail(less.waiting)
    BY <1>2, <1>6, <1>8, <1>9, <1>10, ServeNextOK
  <1>12. u \in AccountUsage
    BY <1>11 DEF UsageOK, Counts
  <1>13. PICK q \in Seq(Request) : q = heap[o].waiting /\ NoDuplicates(q)
    BY <1>3 DEF Counts
  <1>14. PICK W : W = ToSet(q) \ ToSet(u.waiting)
    OBVIOUS
  <1>15. \A s \in ToSet(q) : s \in Request
    <2>1. \A s \in ToSet(q) : \E i \in 1 .. Len(q) : q[i] = s
      BY ToSetMembers
    <2>2. QED
      BY <2>1
  <1>16. W \in SUBSET Request
    BY <1>14, <1>15
  <1>17. /\ ToSet(u.waiting) \subseteq ToSet(q)
         /\ \/ q = <<>> /\ W = {} /\ u = less
            \/ q # <<>> /\ W = {q[1]} /\ u.starts = Append(less.starts, now)
    <2>1. CASE q = <<>>
      BY <1>6, <1>11, <1>13, <1>14, <2>1
    <2>2. CASE q # <<>>
      <3>1. u.waiting = Tail(q) /\ u.starts = Append(less.starts, now)
        BY <1>6, <1>11, <1>13, <2>2
      <3>2. ToSet(q) \ ToSet(Tail(q)) = {q[1]}
        BY <1>13, <2>2, ServedIsHead
      <3>3. ToSet(Tail(q)) = ToSet(q) \ {Head(q)}
        BY <1>13, <2>2, TailMembers
      <3>4. QED
        BY <1>14, <2>2, <3>1, <3>2, <3>3
    <2>3. QED
      BY <2>1, <2>2
  <1>18. \A s \in W : s \in Request /\ phase[s] = "waiting" /\ slot[s].object = o /\ s # r
    <2>1. \A s \in ToSet(q) : phase[s] = "waiting" /\ slot[s].object = o
      BY <1>13, <1>15 DEF Parts, WaitersOK
    <2>2. QED
      BY <1>14, <1>15, <2>1
  <1>19. /\ heap' = [heap EXCEPT ![o] = u]
         /\ Wake(W, [phase EXCEPT ![r] = ph], [slot EXCEPT ![r] = NoCapture])
         /\ Prune(a, u)
    <2>1. W = ToSet(less.waiting) \ ToSet(ServeNext(less).waiting)
      BY <1>6, <1>10, <1>13, <1>14
    <2>2. QED
      BY <1>1, <1>5, <1>10, <2>1, Zenon DEF ReleaseSlot
  <1>20. usage' = [usage EXCEPT ![a] = IF IsEmpty(u) THEN None ELSE o]
    BY <1>1, <1>2, <1>19 DEF Prune
  <1>21. PICK p2 \in [Request -> Phase] : p2 = [phase EXCEPT ![r] = ph]
    BY <1>2 DEF Phase
  <1>22. NoCapture \in Capture
    BY <1>2 DEF NoCapture, Capture
  <1>23. PICK s2 \in [Request -> Capture] : s2 = [slot EXCEPT ![r] = NoCapture]
    BY <1>2, <1>22
  <1>24. /\ p2[r] = ph /\ s2[r] = NoCapture
         /\ \A s \in Request : s # r => p2[s] = phase[s] /\ s2[s] = slot[s]
    BY <1>2, <1>21, <1>23
  <1>25. /\ phase' = [s \in Request |-> IF s \in W THEN "running" ELSE p2[s]]
         /\ slot' = [s \in Request |-> IF s \in W THEN [s2[s] EXCEPT !.start = now] ELSE s2[s]]
    BY <1>19, <1>21, <1>23 DEF Wake
  <1>26. ASSUME NEW s \in Request
         PROVE  /\ [s2[s] EXCEPT !.start = now] \in Capture
                /\ [s2[s] EXCEPT !.start = now].start = now
                /\ [s2[s] EXCEPT !.start = now].object = s2[s].object
                /\ [s2[s] EXCEPT !.start = now].account = s2[s].account
    <2>1. s2[s] \in Capture
      BY <1>23
    <2>2. QED
      BY <1>2, <2>1 DEF Capture
  <1>27. phase' \in [Request -> Phase] /\ slot' \in [Request -> Capture]
    BY <1>25, <1>26 DEF Phase
  <1>28. /\ phase'[r] = ph /\ slot'[r] = NoCapture
         /\ \A s \in Request : s # r /\ s \notin W => phase'[s] = phase[s] /\ slot'[s] = slot[s]
    BY <1>18, <1>24, <1>25
  <1>29. \A s \in W : /\ phase'[s] = "running" /\ slot'[s].start = now
                      /\ slot'[s].object = o /\ slot'[s].account = slot[s].account
    BY <1>18, <1>24, <1>25, <1>26
  <1>30. Handover(r, ph, o, a, less, u, W)
    BY <1>1, <1>5, <1>6, <1>11, <1>13, <1>14, <1>17, <1>18, <1>19, <1>20, <1>27, <1>28, <1>29
       DEF Handover
  <1>31. QED
    BY <1>7, <1>12, <1>16, <1>30

LEMMA ReleaseInv ==
  ASSUME Parts, NEW r \in Request, phase[r] = "running", UNCHANGED now,
         NEW ph \in {"idle", "lingering"},
         ReleaseSlot(r, [phase EXCEPT ![r] = ph], [slot EXCEPT ![r] = NoCapture])
  PROVE  Parts'
  <1>1. CASE ~StillHeld(r)
    <2>1. /\ UNCHANGED <<usage, heap, now>>
          /\ phase' = [phase EXCEPT ![r] = ph] /\ slot' = [slot EXCEPT ![r] = NoCapture]
      BY <1>1 DEF ReleaseSlot
    <2>2. phase[r] # "waiting"
      OBVIOUS
    <2>3. QED
      BY <2>1, <2>2, NoObject
  <1>2. CASE StillHeld(r)
    <2>1. PICK o \in Object, a \in Account, less \in AccountUsage, u \in AccountUsage,
               W \in SUBSET Request : Handover(r, ph, o, a, less, u, W)
      BY <1>2, ReleaseHandsOver
    <2>2. /\ usage[a] = o /\ UsageOK(u, now) /\ slot[r].object = o
          /\ W = ToSet(heap[o].waiting) \ ToSet(u.waiting)
          /\ ToSet(u.waiting) \subseteq ToSet(heap[o].waiting)
          /\ \A s \in W : phase[s] = "waiting" /\ slot[s].object = o /\ s # r
          /\ heap' = [heap EXCEPT ![o] = u]
          /\ usage' = [usage EXCEPT ![a] = IF IsEmpty(u) THEN None ELSE o]
          /\ phase' \in [Request -> Phase] /\ slot' \in [Request -> Capture]
      BY <2>1 DEF Handover
    <2>3. /\ phase'[r] = ph /\ slot'[r] = NoCapture
          /\ \A s \in Request : s # r /\ s \notin W => phase'[s] = phase[s] /\ slot'[s] = slot[s]
          /\ \A s \in W : /\ phase'[s] = "running" /\ slot'[s].object = o
                          /\ slot'[s].account = slot[s].account
      BY <2>1 DEF Handover
    <2>4. CapturesOK(phase, slot) /\ WaitersOK(phase, slot, heap)
      BY DEF Parts
    <2>5. NoCapture.object = None /\ None \notin Object
      BY Types DEF NoCapture
    <2>6. CapturesOK(phase', slot')
      <3>1. ASSUME NEW s \in W
            PROVE  /\ phase'[s] \notin {"idle", "lingering"}
                   /\ slot'[s].account \in Account /\ slot'[s].object \in Object
        BY <2>2, <2>3, <2>4 DEF CapturesOK
      <3>2. QED
        BY <2>3, <2>4, <3>1 DEF CapturesOK
    <2>7. \A s \in Request : slot'[s].object \in Object =>
            slot'[s].object = slot[s].object /\ slot'[s].account = slot[s].account
      BY <2>2, <2>3, <2>5
    <2>8. \A s \in Request :
            s \in ToSet(u.waiting) <=> phase'[s] = "waiting" /\ slot'[s].object = o
      <3>1. \A s \in Request :
              s \in ToSet(heap[o].waiting) <=> phase[s] = "waiting" /\ slot[s].object = o
        BY <2>4 DEF WaitersOK
      <3>2. QED
        BY <2>2, <2>3, <3>1
    <2>9. \A s \in Request, x \in Object : x # o =>
            (phase'[s] = "waiting" /\ slot'[s].object = x
               <=> phase[s] = "waiting" /\ slot[s].object = x)
      BY <2>2, <2>3
    <2>10. ObjectStep(a, o, u)
      BY <2>2, <2>6, <2>7, <2>8, <2>9 DEF ObjectStep
    <2>11. QED
      BY <2>2, <2>10, OneObject
  <1>3. QED
    BY <1>1, <1>2

LEMMA LingererEndsInv ==
  ASSUME Parts, NEW r \in Request, LingererEnds(r)
  PROVE  Parts'
  <1>1. /\ phase[r] = "lingering" /\ phase' = [phase EXCEPT ![r] = "idle"]
        /\ UNCHANGED <<usage, heap, slot, now>>
    BY DEF LingererEnds
  <1>2. slot \in [Request -> Capture] /\ slot[r] = NoCapture
    BY <1>1 DEF Parts, TypeOK, CapturesOK
  <1>3. slot' = [slot EXCEPT ![r] = NoCapture]
    BY <1>1, <1>2
  <1>4. QED
    BY <1>1, <1>3, NoObject

LEMMA TickInv ==
  ASSUME Parts, Tick
  PROVE  Parts'
  <1>1. UNCHANGED <<usage, heap, phase, slot>> /\ now' = now + 1 /\ now < MaxTime
    BY DEF Tick
  <1>2. now \in 0 .. MaxTime /\ now \in Nat /\ MaxTime \in Nat
    BY Types DEF Parts, TypeOK
  <1>3. TypeOK'
    BY <1>1, <1>2 DEF Parts, TypeOK
  <1>4. ASSUME NEW o \in Object PROVE UsageOK(heap'[o], now')
    <2>1. UsageOK(heap[o], now) /\ Counts(heap[o], now) /\ heap[o] \in AccountUsage
      BY DEF Parts, UsageOK, Counts
    <2>2. PICK u : u = heap[o]
      OBVIOUS
    <2>3. \A i \in 1 .. Len(u.starts) : u.starts[i] \in Nat
      BY <2>1, <2>2, UsageTypes
    <2>4. \A i \in 1 .. Len(u.starts) : u.starts[i] <= now + 1
      BY <1>2, <2>1, <2>2, <2>3 DEF Counts
    <2>5. UsageOK(u, now + 1)
      BY <2>1, <2>2, <2>4 DEF UsageOK, Counts
    <2>6. QED
      BY <1>1, <2>2, <2>5
  <1>5. MapListsBusyObjects' /\ CapturesOK(phase', slot') /\ WaitersOK(phase', slot', heap')
    BY <1>1 DEF Parts, MapListsBusyObjects, Listed
  <1>6. QED
    BY <1>3, <1>4, <1>5 DEF Parts

(* The waiters the sweep serves are the first ones of each queue. *)
FirstOnes(o) ==
  {r \in Request : \E i \in 1 .. ServedBySweep(heap[o]) : heap[o].waiting[i] = r}

(* What the sweep does to object o. *)
SweptObject(o, u) ==
  /\ heap'[o] = u /\ UsageOK(u, now)
  /\ FirstOnes(o) \subseteq ToSet(heap[o].waiting)
  /\ \A r \in Request :
       r \in ToSet(u.waiting) <=> r \in ToSet(heap[o].waiting) /\ r \notin FirstOnes(o)
  /\ Listed(o) => u = Swept(heap[o])
  /\ ~Listed(o) => IsEmpty(u) /\ u = heap[o] /\ heap[o].waiting = <<>>

LEMMA SweepsObjects ==
  ASSUME Parts, Sweep, NEW o \in Object
  PROVE  \E u \in AccountUsage : SweptObject(o, u)
  <1>1. /\ UsageOK(heap[o], now) /\ Counts(heap[o], now)
        /\ heap[o] \in AccountUsage /\ now \in 0 .. MaxTime
        /\ heap[o].waiting \in Seq(Request)
    BY UsageTypes DEF Parts, UsageOK, Counts, TypeOK
  <1>2. PICK q \in Seq(Request) : q = heap[o].waiting /\ NoDuplicates(q) /\ Len(q) \in Nat
    BY <1>1 DEF Counts
  <1>3. heap'[o] = IF Listed(o) THEN Swept(heap[o]) ELSE heap[o]
    BY DEF Sweep
  <1>4. PICK k \in 0 .. Len(q) : k = ServedBySweep(heap[o])
    BY <1>1, <1>2, SweptOK
  <1>5. \A r \in Request : r \in FirstOnes(o) <=> \E i \in 1 .. k : q[i] = r
    BY <1>2, <1>4 DEF FirstOnes
  <1>6. ASSUME NEW r \in FirstOnes(o) PROVE r \in ToSet(q)
    <2>1. PICK i \in 1 .. k : q[i] = r
      BY <1>5, <1>6 DEF FirstOnes
    <2>2. i \in 1 .. Len(q)
      BY <1>2
    <2>3. QED
      BY <2>1, <2>2, ToSetMembers
  <1>7. CASE Listed(o)
    <2>1. PICK u : u = Swept(heap[o])
      OBVIOUS
    <2>2. UsageOK(u, now) /\ u.waiting = SubSeq(q, k + 1, Len(q))
      BY <1>1, <1>2, <1>4, <2>1, SweptOK
    <2>3. \A r \in Request :
            r \in ToSet(u.waiting) <=> r \in ToSet(q) /\ ~ \E i \in 1 .. k : q[i] = r
      <3>1. SUFFICES ASSUME NEW r \in Request
                     PROVE  r \in ToSet(SubSeq(q, k + 1, Len(q)))
                              <=> r \in ToSet(q) /\ ~ \E i \in 1 .. k : q[i] = r
        BY <2>2
      <3>2. QED
        BY <1>2, SuffixMembers
    <2>4. u \in AccountUsage
      BY <2>2 DEF UsageOK, Counts
    <2>5. SweptObject(o, u)
      BY <1>2, <1>3, <1>5, <1>6, <1>7, <2>1, <2>2, <2>3 DEF SweptObject
    <2>6. QED
      BY <2>4, <2>5
  <1>8. CASE ~Listed(o)
    <2>1. IsEmpty(heap[o])
      BY <1>8 DEF Parts, MapListsBusyObjects
    <2>2. q = <<>> /\ Len(q) = 0
      BY <1>2, <2>1 DEF IsEmpty
    <2>3. FirstOnes(o) = {}
      BY <1>5, <2>2 DEF FirstOnes
    <2>4. SweptObject(o, heap[o])
      BY <1>1, <1>2, <1>3, <1>8, <2>1, <2>2, <2>3 DEF SweptObject
    <2>5. QED
      BY <1>1, <2>4
  <1>9. QED
    BY <1>7, <1>8

(* and to the requests: those first in a queue run from now on. *)
SweptRequest(r) ==
  /\ phase'[r] \in Phase /\ slot'[r] \in Capture
  /\ IF phase[r] = "waiting" /\ r \in FirstOnes(slot[r].object)
     THEN /\ phase'[r] = "running" /\ slot'[r].start = now
          /\ slot'[r].object = slot[r].object /\ slot'[r].account = slot[r].account
     ELSE phase'[r] = phase[r] /\ slot'[r] = slot[r]

LEMMA SweepsRequests ==
  ASSUME Parts, Sweep
  PROVE  /\ phase' \in [Request -> Phase] /\ slot' \in [Request -> Capture]
         /\ \A r \in Request : SweptRequest(r)
  <1>1. PICK W : W = {r \in Request :
                        /\ phase[r] = "waiting"
                        /\ \E i \in 1 .. ServedBySweep(heap[slot[r].object]) :
                             heap[slot[r].object].waiting[i] = r}
    OBVIOUS
  <1>2. /\ phase \in [Request -> Phase] /\ slot \in [Request -> Capture] /\ now \in 0 .. MaxTime
    BY DEF Parts, TypeOK
  <1>3. /\ phase' = [r \in Request |-> IF r \in W THEN "running" ELSE phase[r]]
        /\ slot' = [r \in Request |-> IF r \in W THEN [slot[r] EXCEPT !.start = now] ELSE slot[r]]
    BY <1>1 DEF Sweep, Wake
  <1>4. \A r \in Request :
          r \in W <=> phase[r] = "waiting" /\ r \in FirstOnes(slot[r].object)
    BY <1>1 DEF FirstOnes
  <1>5. ASSUME NEW r \in Request
        PROVE  /\ [slot[r] EXCEPT !.start = now] \in Capture
               /\ [slot[r] EXCEPT !.start = now].start = now
               /\ [slot[r] EXCEPT !.start = now].object = slot[r].object
               /\ [slot[r] EXCEPT !.start = now].account = slot[r].account
    <2>1. slot[r] \in Capture
      BY <1>2
    <2>2. QED
      BY <1>2, <2>1 DEF Capture
  <1>6. phase' \in [Request -> Phase] /\ slot' \in [Request -> Capture]
    BY <1>2, <1>3, <1>5 DEF Phase
  <1>7. ASSUME NEW r \in Request PROVE SweptRequest(r)
    <2>1. phase'[r] \in Phase /\ slot'[r] \in Capture
      BY <1>6
    <2>2. CASE r \in W
      BY <1>3, <1>4, <1>5, <2>1, <2>2 DEF SweptRequest
    <2>3. CASE r \notin W
      BY <1>3, <1>4, <2>1, <2>3 DEF SweptRequest
    <2>4. QED
      BY <2>2, <2>3
  <1>8. QED
    BY <1>6, <1>7

LEMMA SweepInv ==
  ASSUME Parts, Sweep
  PROVE  Parts'
  <1>1. /\ usage \in [Account -> Object \union {None}] /\ heap \in [Object -> AccountUsage]
        /\ now \in 0 .. MaxTime /\ None \notin Object /\ now' = now
        /\ CapturesOK(phase, slot) /\ WaitersOK(phase, slot, heap) /\ MapListsBusyObjects
    BY Types DEF Parts, TypeOK, Sweep
  <1>2. /\ phase' \in [Request -> Phase] /\ slot' \in [Request -> Capture]
        /\ \A r \in Request : SweptRequest(r)
    BY SweepsRequests
  <1>3. \A o \in Object : \E u \in AccountUsage : SweptObject(o, u)
    BY SweepsObjects
  <1>4. \A o \in Object : SweptObject(o, heap'[o]) /\ heap'[o] \in AccountUsage
    BY <1>3 DEF SweptObject
  <1>5. heap' \in [Object -> AccountUsage]
    <2>1. heap' = [o \in Object |-> IF Listed(o) THEN Swept(heap[o]) ELSE heap[o]]
      BY DEF Sweep
    <2>2. QED
      BY <1>4, <2>1
  <1>6. /\ usage' \in [Account -> Object \union {None}]
        /\ \A a \in Account : usage[a] # None =>
             usage'[a] = IF IsEmpty(heap'[usage[a]]) THEN None ELSE usage[a]
        /\ \A a \in Account : usage[a] = None => usage'[a] = None
    <2>1. usage' = [a \in Account |->
                      IF usage[a] # None /\ IsEmpty(Swept(heap[usage[a]])) THEN None
                      ELSE usage[a]]
      BY DEF Sweep
    <2>2. ASSUME NEW a \in Account, usage[a] # None
          PROVE  heap'[usage[a]] = Swept(heap[usage[a]])
      <3>1. usage[a] \in Object /\ Listed(usage[a])
        BY <1>1, <2>2 DEF Listed
      <3>2. QED
        BY <1>4, <3>1 DEF SweptObject
    <2>3. QED
      BY <1>1, <2>1, <2>2
  <1>7. TypeOK'
    BY <1>1, <1>2, <1>5, <1>6 DEF TypeOK
  <1>8. \A o \in Object : UsageOK(heap'[o], now')
    BY <1>1, <1>4 DEF SweptObject
  <1>9. MapListsBusyObjects'
    <2>1. /\ \A o \in Object : (\E a \in Account : usage[a] = o) <=> ~IsEmpty(heap[o])
          /\ \A a, b \in Account : usage[a] = usage[b] /\ usage[a] # None => a = b
          /\ \A r \in Request, a \in Account :
               slot[r].object = usage[a] /\ usage[a] # None => slot[r].account = a
      BY <1>1 DEF MapListsBusyObjects, Listed
    <2>2. \A r \in Request : slot'[r].object = slot[r].object /\ slot'[r].account = slot[r].account
      BY <1>2 DEF SweptRequest
    <2>3. ASSUME NEW o \in Object
          PROVE  (\E a \in Account : usage'[a] = o) <=> ~IsEmpty(heap'[o])
      <3>1. \A a \in Account : usage'[a] = o => usage[a] = o /\ ~IsEmpty(heap'[o])
        BY <1>1, <1>6
      <3>2. CASE Listed(o)
        BY <1>1, <1>6, <3>1, <3>2 DEF Listed
      <3>3. CASE ~Listed(o)
        <4>1. IsEmpty(heap'[o])
          BY <1>4, <3>3 DEF SweptObject
        <4>2. QED
          BY <3>1, <4>1
      <3>4. QED
        BY <3>2, <3>3
    <2>4. \A a \in Account : usage'[a] # None => usage'[a] = usage[a]
      BY <1>6
    <2>5. QED
      BY <2>1, <2>2, <2>3, <2>4 DEF MapListsBusyObjects, Listed
  <1>10. CapturesOK(phase', slot')
    BY <1>1, <1>2 DEF CapturesOK, SweptRequest
  <1>11. WaitersOK(phase', slot', heap')
    <2>1. SUFFICES ASSUME NEW o \in Object, NEW r \in Request
                   PROVE  r \in ToSet(heap'[o].waiting)
                            <=> phase'[r] = "waiting" /\ slot'[r].object = o
      BY DEF WaitersOK
    <2>2. r \in ToSet(heap[o].waiting) <=> phase[r] = "waiting" /\ slot[r].object = o
      BY <1>1 DEF WaitersOK
    <2>3. /\ r \in ToSet(heap'[o].waiting)
               <=> r \in ToSet(heap[o].waiting) /\ r \notin FirstOnes(o)
          /\ r \in FirstOnes(o) => r \in ToSet(heap[o].waiting)
      BY <1>4 DEF SweptObject
    <2>4. SweptRequest(r)
      BY <1>2
    <2>5. QED
      BY <2>2, <2>3, <2>4 DEF SweptRequest
  <1>12. QED
    BY <1>7, <1>8, <1>9, <1>10, <1>11 DEF Parts

-----------------------------------------------------------------------------
(* The theorems *)

LEMMA InitParts ==
  ASSUME Init
  PROVE  Parts
  <1>1. /\ usage = [a \in Account |-> None] /\ heap = [o \in Object |-> NewUsage]
        /\ phase = [r \in Request |-> "idle"] /\ slot = [r \in Request |-> NoCapture]
        /\ now = 0 /\ 0 \in 0 .. MaxTime /\ None \notin Object /\ MaxConcurrent \in Nat
    BY Types DEF Init
  <1>2. /\ NewUsage \in AccountUsage /\ NewUsage.active = 0
        /\ NewUsage.starts = <<>> /\ NewUsage.waiting = <<>>
    <2>1. PICK T : T = 0 .. MaxTime
      OBVIOUS
    <2>2. <<>> \in Seq(T) /\ <<>> \in Seq(Request) /\ 0 \in Nat
      OBVIOUS
    <2>3. NewUsage \in [active : Nat, starts : Seq(T), waiting : Seq(Request)]
      BY <2>2 DEF NewUsage
    <2>4. QED
      BY <2>1, <2>3 DEF NewUsage, AccountUsage
  <1>3. NoCapture \in Capture /\ NoCapture.object = None
    BY <1>1 DEF NoCapture, Capture
  <1>4. TypeOK
    BY <1>1, <1>2, <1>3 DEF TypeOK, Phase
  <1>5. NoDuplicates(<<>>) /\ Len(<<>>) = 0
    BY DEF NoDuplicates
  <1>6. UsageOK(NewUsage, now)
    BY <1>1, <1>2, <1>5 DEF UsageOK, Counts
  <1>7. \A o \in Object : UsageOK(heap[o], now)
    BY <1>1, <1>6
  <1>8. MapListsBusyObjects
    BY <1>1, <1>2 DEF MapListsBusyObjects, Listed, IsEmpty
  <1>9. CapturesOK(phase, slot)
    BY <1>1 DEF CapturesOK
  <1>10. WaitersOK(phase, slot, heap)
    <2>1. \A r \in Request : r \notin ToSet(<<>>)
      BY DEF ToSet
    <2>2. QED
      BY <1>1, <1>2, <2>1 DEF WaitersOK
  <1>11. QED
    BY <1>4, <1>7, <1>8, <1>9, <1>10 DEF Parts

LEMMA StepParts ==
  ASSUME Parts, [Next]_vars
  PROVE  Parts'
  <1>1. CASE UNCHANGED vars
    <2>1. /\ usage' = usage /\ heap' = heap /\ phase' = phase /\ slot' = slot /\ now' = now
      BY <1>1 DEF vars
    <2>2. QED
      BY <2>1 DEF Parts, TypeOK, MapListsBusyObjects, Listed
  <1>2. ASSUME NEW r \in Request, NEW a \in Account, NEW o \in Object,
               AcquireFree(r, a, o) \/ AcquireQueued(r, a, o)
        PROVE  Parts'
    BY <1>2, AcquireFreeInv, AcquireQueuedInv
  <1>3. ASSUME NEW r \in Request, WaiterGivesUp(r) PROVE Parts'
    BY <1>3, WaiterGivesUpInv
  <1>4. ASSUME NEW r \in Request, Complete(r) PROVE Parts'
    <2>1. /\ phase[r] = "running" /\ UNCHANGED now
          /\ ReleaseSlot(r, [phase EXCEPT ![r] = "idle"], [slot EXCEPT ![r] = NoCapture])
      BY <1>4 DEF Complete
    <2>2. QED
      BY <2>1, ReleaseInv
  <1>5. ASSUME NEW r \in Request, ClientAborts(r) PROVE Parts'
    <2>1. /\ phase[r] = "running" /\ UNCHANGED now
          /\ ReleaseSlot(r, [phase EXCEPT ![r] = "lingering"], [slot EXCEPT ![r] = NoCapture])
      BY <1>5 DEF ClientAborts
    <2>2. QED
      BY <2>1, ReleaseInv
  <1>6. ASSUME NEW r \in Request, LingererEnds(r) PROVE Parts'
    BY <1>6, LingererEndsInv
  <1>7. CASE Sweep
    BY <1>7, SweepInv
  <1>8. CASE Tick
    BY <1>8, TickInv
  <1>9. QED
    BY <1>1, <1>2, <1>3, <1>4, <1>5, <1>6, <1>7, <1>8 DEF Next

(* No wake-up is lost (CountsAgree), the map lists exactly the objects in   *)
(* use (MapListsBusyObjects), and the queues hold exactly the waiters      *)
(* (QueuesAreTheWaiters), for any number of requests, accounts and slots   *)
(* and any age limit: src/core/account-concurrency.ts forgets neither an   *)
(* account that is in use nor a waiter.                                    *)
THEOREM SlotsInvariant == Spec => []IInv
  <1>1. Init => Parts
    BY InitParts
  <1>2. Parts /\ [Next]_vars => Parts'
    BY StepParts
  <1>3. Parts => IInv
    BY InvariantParts
  <1>4. QED
    BY <1>1, <1>2, <1>3, PTL DEF Spec

-----------------------------------------------------------------------------
(* Seats.  s[x] is the start time request x remembers, st the starts of an  *)
(* object: the requests in H have a place of their own in st each, *)
Seats(H, s, st) ==
  \E f \in [H -> 1 .. Len(st)] :
    /\ \A x, y \in H : f[x] = f[y] => x = y
    /\ \A x \in H : st[f[x]] = s[x]

(* and those of C that have none remember a time before t that is not in st *)
(* any more: a slot granted now is never mistaken for theirs.              *)
SeatedIn(C, s, st, t) ==
  \E H \in SUBSET C :
    /\ Seats(H, s, st)
    /\ \A x \in C : x \in H \/ (s[x] < t /\ \A i \in 1 .. Len(st) : st[i] # s[x])

(* Requests that leave, without their slot, leave the others seated. *)
LEMMA SeatedSubset ==
  ASSUME NEW C, NEW D \in SUBSET C, NEW s, NEW s2, NEW st, NEW t,
         SeatedIn(C, s, st, t), \A x \in D : s2[x] = s[x]
  PROVE  SeatedIn(D, s2, st, t)
  <1>1. PICK H \in SUBSET C :
          /\ Seats(H, s, st)
          /\ \A x \in C : x \in H \/ (s[x] < t /\ \A i \in 1 .. Len(st) : st[i] # s[x])
    BY DEF SeatedIn
  <1>2. PICK f \in [H -> 1 .. Len(st)] :
          /\ \A x, y \in H : f[x] = f[y] => x = y
          /\ \A x \in H : st[f[x]] = s[x]
    BY <1>1 DEF Seats
  <1>3. PICK G \in SUBSET D : G = H \intersect D
    OBVIOUS
  <1>4. PICK g \in [G -> 1 .. Len(st)] : g = [x \in G |-> f[x]]
    BY <1>3
  <1>5. \A x \in G : g[x] = f[x] /\ x \in H /\ s2[x] = s[x]
    BY <1>3, <1>4
  <1>6. /\ \A x, y \in G : g[x] = g[y] => x = y
        /\ \A x \in G : st[g[x]] = s2[x]
    BY <1>2, <1>5
  <1>7. Seats(G, s2, st)
    BY <1>6 DEF Seats
  <1>8. \A x \in D : x \in G \/ (s2[x] < t /\ \A i \in 1 .. Len(st) : st[i] # s2[x])
    BY <1>1, <1>3
  <1>9. QED
    BY <1>7, <1>8 DEF SeatedIn

(* Time goes on. *)
LEMMA SeatedLater ==
  ASSUME NEW C, NEW s, \A x \in C : s[x] \in Nat, NEW st,
         NEW t \in Nat, NEW t2 \in Nat, t <= t2, SeatedIn(C, s, st, t)
  PROVE  SeatedIn(C, s, st, t2)
  <1>1. \A x \in C : s[x] < t => s[x] < t2
    OBVIOUS
  <1>2. QED
    BY <1>1 DEF SeatedIn

(* st2 is st with k slots of the time t appended, g numbers the requests in *)
(* W, who get them, and those in C keep their start times.                 *)
Appended(st, st2, k, t) ==
  /\ Len(st2) = Len(st) + k
  /\ \A i \in 1 .. Len(st) : st2[i] = st[i]
  /\ \A i \in 1 .. k : st2[Len(st) + i] = t

Numbers(g, W, k) == g \in [W -> 1 .. k] /\ \A x, y \in W : g[x] = g[y] => x = y

Remember(C, W, s, s2, t) ==
  /\ C \intersect W = {}
  /\ \A x \in C : s2[x] = s[x] /\ s[x] \in Nat
  /\ \A x \in W : s2[x] = t

LEMMA SeatedGrows ==
  ASSUME NEW T, NEW st \in Seq(T), NEW st2, NEW t \in Nat, NEW k \in Nat,
         NEW C, NEW W, NEW s, NEW s2, NEW g,
         Appended(st, st2, k, t), Numbers(g, W, k), Remember(C, W, s, s2, t),
         SeatedIn(C, s, st, t)
  PROVE  SeatedIn(C \union W, s2, st2, t)
  <1>0. /\ Len(st2) = Len(st) + k
        /\ \A i \in 1 .. Len(st) : st2[i] = st[i]
        /\ \A i \in 1 .. k : st2[Len(st) + i] = t
        /\ g \in [W -> 1 .. k] /\ \A x, y \in W : g[x] = g[y] => x = y
        /\ C \intersect W = {} /\ \A x \in C : s2[x] = s[x] /\ s[x] \in Nat
        /\ \A x \in W : s2[x] = t
    BY DEF Appended, Numbers, Remember
  <1>1. PICK H \in SUBSET C :
          /\ Seats(H, s, st)
          /\ \A x \in C : x \in H \/ (s[x] < t /\ \A i \in 1 .. Len(st) : st[i] # s[x])
    BY <1>0 DEF SeatedIn
  <1>2. PICK f \in [H -> 1 .. Len(st)] :
          /\ \A x, y \in H : f[x] = f[y] => x = y
          /\ \A x \in H : st[f[x]] = s[x]
    BY <1>0, <1>1 DEF Seats
  <1>3. PICK n \in Nat : n = Len(st)
    OBVIOUS
  <1>4. PICK e : e = [x \in H \union W |-> IF x \in H THEN f[x] ELSE n + g[x]]
    OBVIOUS
  <1>5. /\ \A x \in H : e[x] = f[x] /\ f[x] \in 1 .. n
        /\ \A x \in W : x \notin H /\ e[x] = n + g[x] /\ g[x] \in 1 .. k
    BY <1>0, <1>1, <1>3, <1>4
  <1>6. \A x \in H \union W : e[x] \in 1 .. n + k
    <2>1. ASSUME NEW x \in H PROVE e[x] \in 1 .. n + k
      BY <1>0, <1>5
    <2>2. ASSUME NEW x \in W PROVE e[x] \in 1 .. n + k
      BY <1>0, <1>5
    <2>3. QED
      BY <1>0, <2>1, <2>2
  <1>7. e \in [H \union W -> 1 .. Len(st2)]
    BY <1>0, <1>3, <1>4, <1>6
  <1>8. ASSUME NEW x \in H \union W, NEW y \in H \union W, e[x] = e[y] PROVE x = y
    <2>1. CASE x \in H /\ y \in H
      BY <1>0, <1>2, <1>5, <1>8, <2>1
    <2>2. CASE x \in W /\ y \in W
      <3>1. PICK i \in 1 .. k, j \in 1 .. k : i = g[x] /\ j = g[y] /\ n + i = n + j
        BY <1>0, <1>5, <1>8, <2>2
      <3>2. g[x] = g[y]
        BY <1>0, <3>1
      <3>3. QED
        BY <1>0, <2>2, <3>2
    <2>3. ASSUME NEW v \in H, NEW w \in W, e[v] = e[w] PROVE FALSE
      <3>1. PICK i, j : i = e[v] /\ i \in 1 .. n /\ n + j = e[w] /\ j \in 1 .. k
        BY <1>5
      <3>2. QED
        BY <1>0, <2>3, <3>1
    <2>4. QED
      BY <1>0, <1>8, <2>1, <2>2, <2>3
  <1>9. ASSUME NEW x \in H \union W PROVE st2[e[x]] = s2[x]
    <2>1. CASE x \in H
      BY <1>0, <1>1, <1>2, <1>3, <1>5, <2>1
    <2>2. CASE x \in W
      <3>1. PICK j \in 1 .. k : j = g[x] /\ e[x] = n + j
        BY <1>0, <1>5, <2>2
      <3>2. st2[n + j] = t
        BY <1>0, <1>3
      <3>3. QED
        BY <1>0, <2>2, <3>1, <3>2
    <2>3. QED
      BY <1>0, <2>1, <2>2
  <1>10. Seats(H \union W, s2, st2)
    BY <1>0, <1>7, <1>8, <1>9 DEF Seats
  <1>11. ASSUME NEW x \in C \union W, x \notin H \union W
         PROVE  s2[x] < t /\ \A i \in 1 .. Len(st2) : st2[i] # s2[x]
    <2>1. /\ x \in C /\ s[x] < t /\ s2[x] = s[x] /\ s[x] \in Nat
          /\ \A i \in 1 .. Len(st) : st[i] # s[x]
      BY <1>0, <1>1, <1>11
    <2>2. ASSUME NEW i \in 1 .. n + k PROVE st2[i] # s[x]
      <3>1. CASE i <= n
        BY <1>0, <1>3, <2>1, <3>1
      <3>2. CASE i > n
        <4>1. PICK j \in 1 .. k : i = n + j
          <5>1. i - n \in 1 .. k /\ i = n + (i - n)
            BY <1>0, <3>2
          <5>2. QED
            BY <1>0, <5>1
        <4>2. st2[i] = t
          BY <1>0, <1>3, <4>1
        <4>3. QED
          BY <1>0, <2>1, <4>2
      <3>3. QED
        BY <1>0, <3>1, <3>2
    <2>3. QED
      BY <1>0, <1>3, <2>1, <2>2
  <1>12. H \union W \in SUBSET (C \union W)
    BY <1>0, <1>1
  <1>13. QED
    BY <1>0, <1>10, <1>11, <1>12 DEF SeatedIn

(* Request r gives a slot with its start time back, not necessarily its    *)
(* own: whoever sat there moves to r's.                                    *)
LEMMA SeatedGiveBack ==
  ASSUME NEW T, NEW st \in Seq(T), NEW t, NEW C, NEW s, NEW r \in C,
         NEW i \in 1 .. Len(st), st[i] = s[r],
         SeatedIn(C, s, st, t)
  PROVE  SeatedIn(C \ {r}, s, RemoveAt(st, i), t)
  <1>1. PICK H \in SUBSET C :
          /\ Seats(H, s, st)
          /\ \A x \in C : x \in H \/ (s[x] < t /\ \A j \in 1 .. Len(st) : st[j] # s[x])
    BY DEF SeatedIn
  <1>2. PICK f \in [H -> 1 .. Len(st)] :
          /\ \A x, y \in H : f[x] = f[y] => x = y
          /\ \A x \in H : st[f[x]] = s[x]
    BY <1>1 DEF Seats
  <1>3. PICK n \in Nat : n = Len(st)
    OBVIOUS
  <1>4. PICK w : w = RemoveAt(st, i)
    OBVIOUS
  <1>5. /\ Len(w) = n - 1
        /\ \A j \in 1 .. n - 1 : w[j] = IF j < i THEN st[j] ELSE st[j + 1]
    BY <1>3, <1>4, RemoveAtProperties
  <1>6. r \in H /\ f[r] \in 1 .. n /\ i \in 1 .. n
    BY <1>1, <1>3
  <1>7. PICK G \in SUBSET (C \ {r}) : G = H \ {r}
    OBVIOUS
  <1>8. PICK e : e = [x \in G |-> IF f[x] = i THEN f[r] ELSE f[x]]
    OBVIOUS
  <1>9. ASSUME NEW x \in G
        PROVE  e[x] \in 1 .. n /\ e[x] # i /\ st[e[x]] = s[x]
    <2>1. x \in H /\ x # r /\ f[x] \in 1 .. n
      BY <1>3, <1>7
    <2>2. f[x] # f[r]
      BY <1>2, <1>6, <2>1
    <2>3. QED
      BY <1>2, <1>6, <1>8, <2>1, <2>2
  <1>10. ASSUME NEW x \in G, NEW y \in G, e[x] = e[y] PROVE x = y
    <2>1. x \in H /\ x # r /\ y \in H /\ y # r
      BY <1>7
    <2>2. f[x] # f[r] /\ f[y] # f[r]
      BY <1>2, <1>6, <2>1
    <2>3. f[x] = f[y]
      BY <1>8, <1>10, <2>2
    <2>4. QED
      BY <1>2, <2>1, <2>3
  <1>11. PICK g : g = [x \in G |-> IF e[x] < i THEN e[x] ELSE e[x] - 1]
    OBVIOUS
  <1>12. ASSUME NEW x \in G PROVE g[x] \in 1 .. n - 1 /\ w[g[x]] = s[x]
    <2>1. PICK p \in 1 .. n : p = e[x] /\ p # i /\ st[p] = s[x]
      BY <1>9
    <2>2. CASE p < i
      BY <1>5, <1>6, <1>11, <2>1, <2>2
    <2>3. CASE p > i
      <3>1. p - 1 \in 1 .. n - 1 /\ ~(p - 1 < i) /\ (p - 1) + 1 = p
        BY <1>6, <2>3
      <3>2. QED
        BY <1>5, <1>11, <2>1, <2>3, <3>1
    <2>4. QED
      BY <1>6, <2>1, <2>2, <2>3
  <1>13. ASSUME NEW x \in G, NEW y \in G, g[x] = g[y] PROVE x = y
    <2>1. PICK p \in 1 .. n, m \in 1 .. n : p = e[x] /\ m = e[y] /\ p # i /\ m # i
      BY <1>9
    <2>2. /\ g[x] = IF p < i THEN p ELSE p - 1
          /\ g[y] = IF m < i THEN m ELSE m - 1
      BY <1>11, <2>1
    <2>3. p = m
      <3>1. (IF p < i THEN p ELSE p - 1) = (IF m < i THEN m ELSE m - 1)
        BY <1>13, <2>2
      <3>2. i \in Int /\ p \in Int /\ m \in Int /\ p # i /\ m # i
        BY <1>6, <2>1
      <3>3. QED
        BY <3>1, <3>2
    <2>4. QED
      BY <1>10, <2>1, <2>3
  <1>14. Seats(G, s, w)
    <2>1. g \in [G -> 1 .. Len(w)]
      BY <1>5, <1>11, <1>12
    <2>2. QED
      BY <1>12, <1>13, <2>1 DEF Seats
  <1>15. ASSUME NEW x \in C \ {r}, x \notin G
         PROVE  s[x] < t /\ \A j \in 1 .. Len(w) : w[j] # s[x]
    <2>1. s[x] < t /\ \A j \in 1 .. n : st[j] # s[x]
      BY <1>1, <1>3, <1>7, <1>15
    <2>2. \A j \in 1 .. n - 1 : j \in 1 .. n /\ j + 1 \in 1 .. n
      OBVIOUS
    <2>3. QED
      BY <1>5, <2>1, <2>2
  <1>16. QED
    BY <1>4, <1>7, <1>14, <1>15 DEF SeatedIn

(* The sweep drops the first n starts, all of them before t, and keeps the *)
(* others: whoever sat there has lost its slot, and knows no later time.    *)
LEMMA SeatedSwept ==
  ASSUME NEW T, NEW st \in Seq(T), NEW t, NEW C, NEW s, NEW n \in 0 .. Len(st),
         \A i \in 1 .. n : st[i] < t,
         \A i \in 1 .. n, j \in n + 1 .. Len(st) : st[i] # st[j],
         SeatedIn(C, s, st, t)
  PROVE  SeatedIn(C, s, SubSeq(st, n + 1, Len(st)), t)
  <1>1. PICK H \in SUBSET C :
          /\ Seats(H, s, st)
          /\ \A x \in C : x \in H \/ (s[x] < t /\ \A j \in 1 .. Len(st) : st[j] # s[x])
    BY DEF SeatedIn
  <1>2. PICK f \in [H -> 1 .. Len(st)] :
          /\ \A x, y \in H : f[x] = f[y] => x = y
          /\ \A x \in H : st[f[x]] = s[x]
    BY <1>1 DEF Seats
  <1>3. PICK l \in Nat : l = Len(st)
    OBVIOUS
  <1>4. PICK w : w = SubSeq(st, n + 1, Len(st))
    OBVIOUS
  <1>5. Len(w) = l - n /\ \A j \in 1 .. l - n : w[j] = st[n + j]
    BY <1>3, <1>4, SuffixProperties
  <1>6. PICK G \in SUBSET C : G = {x \in H : f[x] > n}
    BY <1>1
  <1>7. PICK g : g = [x \in G |-> f[x] - n]
    OBVIOUS
  <1>8. ASSUME NEW x \in G
        PROVE  x \in H /\ f[x] \in 1 .. l /\ g[x] \in 1 .. l - n /\ g[x] + n = f[x]
                 /\ w[g[x]] = s[x]
    <2>1. x \in H /\ f[x] \in 1 .. l /\ f[x] > n /\ g[x] = f[x] - n
      BY <1>2, <1>3, <1>6, <1>7
    <2>2. f[x] - n \in 1 .. l - n /\ n + (f[x] - n) = f[x] /\ (f[x] - n) + n = f[x]
      BY <1>3, <2>1
    <2>3. w[f[x] - n] = st[f[x]]
      BY <1>5, <2>2
    <2>4. QED
      BY <1>2, <2>1, <2>2, <2>3
  <1>9. ASSUME NEW x \in G, NEW y \in G, g[x] = g[y] PROVE x = y
    <2>1. x \in H /\ y \in H /\ f[x] = f[y]
      BY <1>8, <1>9
    <2>2. QED
      BY <1>2, <2>1
  <1>10. Seats(G, s, w)
    <2>1. g \in [G -> 1 .. Len(w)]
      BY <1>5, <1>7, <1>8
    <2>2. QED
      BY <1>8, <1>9, <2>1 DEF Seats
  <1>11. ASSUME NEW x \in C, x \notin G
         PROVE  s[x] < t /\ \A j \in 1 .. Len(w) : w[j] # s[x]
    <2>1. \A j \in 1 .. l - n : n + j \in n + 1 .. l /\ n + j \in 1 .. l
      BY <1>3
    <2>2. CASE x \in H
      <3>1. f[x] \in 1 .. n /\ st[f[x]] = s[x]
        BY <1>2, <1>3, <1>6, <1>11, <2>2
      <3>2. QED
        BY <1>3, <1>5, <2>1, <3>1
    <2>3. CASE x \notin H
      BY <1>1, <1>3, <1>5, <2>1, <2>3
    <2>4. QED
      BY <2>2, <2>3
  <1>12. QED
    BY <1>4, <1>10, <1>11 DEF SeatedIn

-----------------------------------------------------------------------------
(* The second invariant: whoever runs with a slot of object o is seated. *)

StartOf(sl) == [x \in Request |-> sl[x].start]
Claims(ph, sl, o) == {x \in Request : ph[x] = "running" /\ sl[x].object = o}
SeatedAt(ph, sl, st, o) == SeatedIn(Claims(ph, sl, o), StartOf(sl), st, now)
Seated == \A o \in Object : SeatedAt(phase, slot, heap[o].starts, o)

(* One slot is granted, to w. *)
LEMMA SeatedGrant ==
  ASSUME NEW T, NEW st \in Seq(T), NEW t \in T, t \in Nat, NEW C, NEW w, w \notin C,
         NEW s, NEW s2, \A x \in C : s2[x] = s[x] /\ s[x] \in Nat, s2[w] = t,
         SeatedIn(C, s, st, t)
  PROVE  SeatedIn(C \union {w}, s2, Append(st, t), t)
  <1>0. PICK st2 : st2 = Append(st, t)
    OBVIOUS
  <1>1. st2 \in Seq(T) /\ st2 = Append(st, t)
    BY <1>0, AppendProperties
  <1>2. /\ Len(st2) = Len(st) + 1 /\ \A i \in 1 .. Len(st) : st2[i] = st[i]
        /\ st2[Len(st) + 1] = t
    BY <1>1, AppendProperties
  <1>3. \A i \in 1 .. 1 : st2[Len(st) + i] = t
    BY <1>2
  <1>4. PICK W : W = {w}
    OBVIOUS
  <1>5. PICK g : g = [x \in W |-> 1]
    OBVIOUS
  <1>6. /\ g \in [W -> 1 .. 1] /\ \A x, y \in W : g[x] = g[y] => x = y
        /\ C \intersect W = {} /\ \A x \in W : s2[x] = t
    BY <1>4, <1>5
  <1>7. Appended(st, st2, 1, t) /\ Numbers(g, W, 1) /\ Remember(C, W, s, s2, t)
    BY <1>2, <1>3, <1>6 DEF Appended, Numbers, Remember
  <1>8. SeatedIn(C \union W, s2, st2, t)
    <2>1. 1 \in Nat
      OBVIOUS
    <2>2. QED
      BY <1>7, <2>1, SeatedGrows
  <1>9. QED
    BY <1>1, <1>4, <1>8

LEMMA SlotTypes ==
  ASSUME Parts
  PROVE  /\ slot \in [Request -> Capture] /\ now \in 0 .. MaxTime /\ now \in Nat
         /\ \A x \in Request : slot[x].start \in Nat /\ StartOf(slot)[x] = slot[x].start
         /\ \A o \in Object : heap[o] \in AccountUsage /\ heap[o].starts \in Seq(0 .. MaxTime)
  <1>1. slot \in [Request -> Capture] /\ now \in 0 .. MaxTime /\ MaxTime \in Nat
    BY Types DEF Parts, TypeOK
  <1>2. \A x \in Request : slot[x].start \in 0 .. MaxTime
    BY <1>1 DEF Capture
  <1>3. \A o \in Object : heap[o] \in AccountUsage
    BY DEF Parts, TypeOK
  <1>4. \A o \in Object : heap[o].starts \in Seq(0 .. MaxTime)
    BY <1>3, UsageTypes
  <1>5. QED
    BY <1>1, <1>2, <1>3, <1>4 DEF StartOf

(* An object whose slots stay as they are, and where nobody comes to run. *)
LEMMA KeptObject ==
  ASSUME Parts, Seated, NEW o \in Object, heap'[o].starts = heap[o].starts, UNCHANGED now,
         \A x \in Request : phase'[x] = "running" /\ slot'[x].object = o =>
           phase[x] = "running" /\ slot'[x] = slot[x]
  PROVE  SeatedAt(phase, slot, heap[o].starts, o)'
  <1>1. SeatedIn(Claims(phase, slot, o), StartOf(slot), heap[o].starts, now)
    BY DEF Seated, SeatedAt
  <1>2. Claims(phase', slot', o) \in SUBSET Claims(phase, slot, o)
    BY DEF Claims
  <1>3. \A x \in Claims(phase', slot', o) : StartOf(slot')[x] = StartOf(slot)[x]
    BY DEF Claims, StartOf
  <1>4. SeatedIn(Claims(phase', slot', o), StartOf(slot'), heap[o].starts, now)
    BY <1>1, <1>2, <1>3, SeatedSubset
  <1>5. QED
    BY <1>4 DEF SeatedAt

LEMMA AcquireFreeSeats ==
  ASSUME Parts, Seated, NEW r \in Request, NEW a \in Account, NEW o \in Object,
         AcquireFree(r, a, o)
  PROVE  Seated'
  <1>1. /\ Resolves(a, o) /\ phase[r] = "idle" /\ now' = now
        /\ heap' = [heap EXCEPT ![o] = Grant(Fields(a, o))]
        /\ phase' = [phase EXCEPT ![r] = "running"]
        /\ slot' = [slot EXCEPT ![r] = [account |-> a, object |-> o, start |-> now]]
        /\ Fields(a, o).active < MaxConcurrent
    BY DEF AcquireFree
  <1>2. Fields(a, o) = heap[o]
    BY <1>1, FieldsAreKept
  <1>3. /\ phase \in [Request -> Phase] /\ slot \in [Request -> Capture]
        /\ heap \in [Object -> AccountUsage] /\ Counts(heap[o], now)
        /\ now \in 0 .. MaxTime
    BY DEF Parts, TypeOK, UsageOK
  <1>4. /\ phase'[r] = "running" /\ slot'[r].object = o /\ slot'[r].start = now
        /\ \A s \in Request : s # r => phase'[s] = phase[s] /\ slot'[s] = slot[s]
        /\ \A x \in Object : x # o => heap'[x] = heap[x]
        /\ heap'[o] = Grant(heap[o])
    BY <1>1, <1>2, <1>3
  <1>5. heap'[o].starts = Append(heap[o].starts, now)
    BY <1>1, <1>2, <1>3, <1>4, GrantCounts
  <1>6. SeatedAt(phase, slot, heap[o].starts, o)'
    <2>1. PICK T, C, s, s2 :
            /\ T = 0 .. MaxTime /\ C = Claims(phase, slot, o)
            /\ s = StartOf(slot) /\ s2 = StartOf(slot')
      OBVIOUS
    <2>2. /\ heap[o].starts \in Seq(T) /\ now \in T /\ now \in Nat
          /\ \A x \in Request : slot[x].start \in Nat /\ s[x] = slot[x].start
      BY <2>1, SlotTypes
    <2>3. r \notin C
      BY <1>1, <2>1 DEF Claims
    <2>4. \A x \in C : s2[x] = s[x] /\ s[x] \in Nat
      BY <1>1, <1>4, <2>1, <2>2 DEF Claims, StartOf
    <2>5. s2[r] = now
      BY <1>4, <2>1 DEF StartOf
    <2>6. SeatedIn(C, s, heap[o].starts, now)
      BY <2>1 DEF Seated, SeatedAt
    <2>7. SeatedIn(C \union {r}, s2, Append(heap[o].starts, now), now)
      BY <2>2, <2>3, <2>4, <2>5, <2>6, SeatedGrant
    <2>8. Claims(phase', slot', o) = C \union {r}
      BY <1>1, <1>4, <2>1 DEF Claims
    <2>9. QED
      BY <1>1, <1>5, <2>1, <2>7, <2>8 DEF SeatedAt
  <1>7. ASSUME NEW x \in Object, x # o PROVE SeatedAt(phase, slot, heap[x].starts, x)'
    <2>1. heap'[x].starts = heap[x].starts
      BY <1>4, <1>7
    <2>2. \A s \in Request : phase'[s] = "running" /\ slot'[s].object = x =>
            phase[s] = "running" /\ slot'[s] = slot[s]
      BY <1>4, <1>7
    <2>3. UNCHANGED now
      BY <1>1
    <2>4. QED
      BY <2>1, <2>2, <2>3, KeptObject
  <1>8. QED
    BY <1>6, <1>7 DEF Seated

(* Joining a queue, leaving it and ending without a slot move no slot. *)
LEMMA KeptSeats ==
  ASSUME Parts, Seated, UNCHANGED now, \A o \in Object : heap'[o].starts = heap[o].starts,
         \A x \in Request : phase'[x] = "running" => phase[x] = "running" /\ slot'[x] = slot[x]
  PROVE  Seated'
  <1>1. ASSUME NEW o \in Object PROVE SeatedAt(phase, slot, heap[o].starts, o)'
    BY KeptObject
  <1>2. QED
    BY <1>1 DEF Seated

LEMMA AcquireQueuedSeats ==
  ASSUME Parts, Seated, NEW r \in Request, NEW a \in Account, NEW o \in Object,
         AcquireQueued(r, a, o)
  PROVE  Seated'
  <1>1. /\ phase \in [Request -> Phase] /\ slot \in [Request -> Capture]
        /\ heap \in [Object -> AccountUsage] /\ \A x \in Object : heap[x] \in AccountUsage
    BY DEF Parts, TypeOK
  <1>2. PICK c : c = [account |-> a, object |-> o, start |-> now]
    OBVIOUS
  <1>3. /\ now' = now /\ heap' = [heap EXCEPT ![o].waiting = Append(@, r)]
        /\ phase' = [phase EXCEPT ![r] = "waiting"] /\ slot' = [slot EXCEPT ![r] = c]
    BY <1>2 DEF AcquireQueued
  <1>4. \A x \in Object : heap'[x].starts = heap[x].starts
    BY <1>1, <1>3 DEF AccountUsage
  <1>5. \A x \in Request : phase'[x] = "running" => phase[x] = "running" /\ slot'[x] = slot[x]
    BY <1>1, <1>3
  <1>6. QED
    BY <1>3, <1>4, <1>5, KeptSeats

LEMMA WaiterGivesUpSeats ==
  ASSUME Parts, Seated, NEW r \in Request, WaiterGivesUp(r)
  PROVE  Seated'
  <1>1. /\ phase \in [Request -> Phase] /\ slot \in [Request -> Capture]
        /\ heap \in [Object -> AccountUsage] /\ \A x \in Object : heap[x] \in AccountUsage
    BY DEF Parts, TypeOK
  <1>2. PICK i : heap' = [heap EXCEPT ![slot[r].object].waiting = RemoveAt(@, i)]
    BY Zenon DEF WaiterGivesUp
  <1>3. /\ now' = now /\ phase' = [phase EXCEPT ![r] = "idle"]
        /\ slot' = [slot EXCEPT ![r] = NoCapture]
    BY DEF WaiterGivesUp
  <1>4. \A x \in Object : heap'[x].starts = heap[x].starts
    BY <1>1, <1>2 DEF AccountUsage
  <1>5. \A x \in Request : phase'[x] = "running" => phase[x] = "running" /\ slot'[x] = slot[x]
    BY <1>1, <1>3
  <1>6. QED
    BY <1>3, <1>4, <1>5, KeptSeats

LEMMA LingererEndsSeats ==
  ASSUME Parts, Seated, NEW r \in Request, LingererEnds(r)
  PROVE  Seated'
  <1>1. /\ phase \in [Request -> Phase] /\ phase' = [phase EXCEPT ![r] = "idle"]
        /\ heap' = heap /\ slot' = slot /\ now' = now
    BY DEF Parts, TypeOK, LingererEnds
  <1>2. \A x \in Object : heap'[x].starts = heap[x].starts
    BY <1>1
  <1>3. \A x \in Request : phase'[x] = "running" => phase[x] = "running" /\ slot'[x] = slot[x]
    BY <1>1
  <1>4. QED
    BY <1>1, <1>2, <1>3, KeptSeats

LEMMA ReleaseSeats ==
  ASSUME Parts, Seated, NEW r \in Request, phase[r] = "running", UNCHANGED now,
         NEW ph \in {"idle", "lingering"},
         ReleaseSlot(r, [phase EXCEPT ![r] = ph], [slot EXCEPT ![r] = NoCapture])
  PROVE  Seated'
  <1>1. /\ phase \in [Request -> Phase] /\ slot \in [Request -> Capture]
        /\ heap \in [Object -> AccountUsage] /\ now' = now
    BY DEF Parts, TypeOK
  <1>2. CASE ~StillHeld(r)
    <2>1. /\ heap' = heap /\ phase' = [phase EXCEPT ![r] = ph]
          /\ slot' = [slot EXCEPT ![r] = NoCapture]
      BY <1>2 DEF ReleaseSlot
    <2>2. \A x \in Object : heap'[x].starts = heap[x].starts
      BY <2>1
    <2>3. \A x \in Request : phase'[x] = "running" => phase[x] = "running" /\ slot'[x] = slot[x]
      BY <1>1, <2>1
    <2>4. QED
      BY <1>1, <2>2, <2>3, KeptSeats
  <1>3. CASE StillHeld(r)
    <2>1. PICK o \in Object, a \in Account, less \in AccountUsage, u \in AccountUsage,
               W \in SUBSET Request : Handover(r, ph, o, a, less, u, W)
      BY <1>3, ReleaseHandsOver
    <2>2. /\ o = slot[r].object
          /\ less = GiveBack(heap[o], slot[r].start)
          /\ \/ W = {} /\ u = less
             \/ \E w : W = {w} /\ u.starts = Append(less.starts, now)
          /\ \A s \in W : phase[s] = "waiting" /\ slot[s].object = o /\ s # r
          /\ heap' = [heap EXCEPT ![o] = u]
      BY <2>1, Zenon DEF Handover
    <2>3. /\ phase'[r] = ph /\ slot'[r] = NoCapture
          /\ \A s \in Request : s # r /\ s \notin W => phase'[s] = phase[s] /\ slot'[s] = slot[s]
          /\ \A s \in W : phase'[s] = "running" /\ slot'[s].start = now /\ slot'[s].object = o
      BY <2>1 DEF Handover
    <2>4. heap'[o] = u /\ \A x \in Object : x # o => heap'[x] = heap[x]
      BY <1>1, <2>2
    <2>5. ASSUME NEW x \in Object, x # o PROVE SeatedAt(phase, slot, heap[x].starts, x)'
      <3>1. heap'[x].starts = heap[x].starts
        BY <2>4, <2>5
      <3>2. \A s \in Request : phase'[s] = "running" /\ slot'[s].object = x =>
              phase[s] = "running" /\ slot'[s] = slot[s]
        BY <2>3, <2>5
      <3>3. UNCHANGED now
        BY <1>1
      <3>4. QED
        BY <3>1, <3>2, <3>3, KeptObject
    <2>6. PICK T, C, s, s2 :
            /\ T = 0 .. MaxTime /\ C = Claims(phase, slot, o)
            /\ s = StartOf(slot) /\ s2 = StartOf(slot')
      OBVIOUS
    <2>7. /\ heap[o].starts \in Seq(T) /\ now \in T /\ now \in Nat /\ less.starts \in Seq(T)
          /\ \A x \in Request : slot[x].start \in Nat /\ s[x] = slot[x].start
      BY <2>6, SlotTypes, UsageTypes
    <2>8. SeatedIn(C \ {r}, s, less.starts, now)
      <3>1. Counts(heap[o], now) /\ HasStart(heap[o], slot[r].start)
        BY <1>3, <2>2 DEF Parts, UsageOK, StillHeld
      <3>2. PICK i \in 1 .. Len(heap[o].starts) :
              heap[o].starts[i] = slot[r].start /\ less.starts = RemoveAt(heap[o].starts, i)
        <4>1. PICK v, start : v = heap[o] /\ start = slot[r].start
          OBVIOUS
        <4>2. /\ now \in Nat /\ Counts(v, now) /\ HasStart(v, start)
              /\ less = GiveBack(v, start)
          BY <2>2, <2>7, <3>1, <4>1
        <4>3. \E i \in 1 .. Len(v.starts) :
                v.starts[i] = start /\ GiveBack(v, start).starts = RemoveAt(v.starts, i)
          BY <4>2, GiveBackCounts
        <4>4. QED
          BY <4>1, <4>2, <4>3
      <3>3. r \in C /\ heap[o].starts[i] = s[r]
        BY <2>2, <2>6, <2>7, <3>2 DEF Claims
      <3>4. SeatedIn(C, s, heap[o].starts, now)
        BY <2>6 DEF Seated, SeatedAt
      <3>5. SeatedIn(C \ {r}, s, RemoveAt(heap[o].starts, i), now)
        BY <2>7, <3>3, <3>4, SeatedGiveBack
      <3>6. QED
        BY <3>2, <3>5
    <2>9. Claims(phase', slot', o) = (C \ {r}) \union W
      BY <2>2, <2>3, <2>6 DEF Claims
    <2>10. \A x \in C \ {r} : x \in Request /\ x \notin W /\ s2[x] = s[x] /\ s[x] \in Nat
      BY <2>2, <2>3, <2>6, <2>7 DEF Claims, StartOf
    <2>11. SeatedIn((C \ {r}) \union W, s2, u.starts, now)
      <3>1. CASE W = {} /\ u = less
        <4>1. SeatedIn(C \ {r}, s2, less.starts, now)
          <5>1. C \ {r} \in SUBSET (C \ {r}) /\ \A x \in C \ {r} : s2[x] = s[x]
            BY <2>10
          <5>2. QED
            BY <2>8, <5>1, SeatedSubset
        <4>2. (C \ {r}) \union W = C \ {r}
          BY <3>1
        <4>3. QED
          BY <3>1, <4>1, <4>2
      <3>2. ASSUME NEW w, W = {w}, u.starts = Append(less.starts, now)
            PROVE  SeatedIn((C \ {r}) \union W, s2, u.starts, now)
        <4>1. PICK D : D = C \ {r}
          OBVIOUS
        <4>2. w \notin D /\ \A x \in D : s2[x] = s[x] /\ s[x] \in Nat
          BY <2>10, <3>2, <4>1
        <4>3. s2[w] = now
          BY <2>3, <2>6, <3>2 DEF StartOf
        <4>4. SeatedIn(D, s, less.starts, now)
          BY <2>8, <4>1
        <4>5. SeatedIn(D \union {w}, s2, Append(less.starts, now), now)
          BY <2>7, <4>2, <4>3, <4>4, SeatedGrant
        <4>6. QED
          BY <3>2, <4>1, <4>5
      <3>3. QED
        BY <2>2, <3>1, <3>2
    <2>12. SeatedAt(phase, slot, heap[o].starts, o)'
      BY <1>1, <2>4, <2>6, <2>9, <2>11 DEF SeatedAt
    <2>13. QED
      BY <2>5, <2>12 DEF Seated
  <1>4. QED
    BY <1>2, <1>3

LEMMA SweptSeats ==
  ASSUME Parts, Seated, Sweep, NEW o \in Object, Listed(o)
  PROVE  SeatedAt(phase, slot, heap[o].starts, o)'
  <1>1. PICK u \in AccountUsage : SweptObject(o, u)
    BY SweepsObjects
  <1>2. /\ heap'[o] = u /\ u = Swept(heap[o]) /\ now' = now
        /\ FirstOnes(o) \subseteq ToSet(heap[o].waiting)
    BY <1>1 DEF SweptObject, Sweep
  <1>3. PICK T, C, s, s2, st, W, q :
          /\ T = 0 .. MaxTime /\ C = Claims(phase, slot, o) /\ st = heap[o].starts
          /\ s = StartOf(slot) /\ s2 = StartOf(slot') /\ W = FirstOnes(o)
          /\ q = heap[o].waiting
    OBVIOUS
  <1>4. /\ st \in Seq(T) /\ now \in T /\ now \in Nat /\ now \in 0 .. MaxTime
        /\ \A x \in Request : slot[x].start \in Nat /\ s[x] = slot[x].start
    BY <1>3, SlotTypes
  <1>5. /\ UsageOK(heap[o], now) /\ Counts(heap[o], now) /\ heap[o] \in AccountUsage
        /\ q \in Seq(Request) /\ Len(q) \in Nat
    BY <1>3, UsageTypes DEF Parts, UsageOK, Counts
  <1>6. PICK n \in 0 .. Len(st) : n = StaleCount(heap[o])
    BY <1>3, <1>4, <1>5, StalePrefix
  <1>7. PICK k \in Nat : k = ServedBySweep(heap[o])
    <2>1. ServedBySweep(heap[o]) \in 0 .. Len(q)
      BY <1>3, <1>4, <1>5, SweptOK
    <2>2. QED
      BY <1>5, <2>1
  <1>8. PICK mid : mid = SubSeq(st, n + 1, Len(st))
    OBVIOUS
  <1>9. mid \in Seq(T)
    BY <1>4, <1>8, SuffixProperties
  <1>10. SeatedIn(C, s, mid, now)
    <2>1. MaxAge \in Nat
      BY Types
    <2>2. \A i \in 1 .. Len(st) : st[i] \in Nat /\ (now - st[i] > MaxAge <=> i <= n)
      BY <1>3, <1>4, <1>5, <1>6, StalePrefix, UsageTypes
    <2>3. PICK l \in Nat : l = Len(st) /\ n \in 0 .. l
      BY <1>4
    <2>4. \A i \in 1 .. n : st[i] < now
      BY <1>4, <2>1, <2>2, <2>3
    <2>5. ASSUME NEW i \in 1 .. n, NEW j \in n + 1 .. l PROVE st[i] # st[j]
      <3>1. i \in 1 .. l /\ j \in 1 .. l /\ i <= n /\ ~(j <= n)
        BY <2>3
      <3>2. now - st[i] > MaxAge /\ ~(now - st[j] > MaxAge)
        BY <2>2, <2>3, <3>1
      <3>3. QED
        BY <3>2
    <2>6. SeatedIn(C, s, st, now)
      BY <1>3 DEF Seated, SeatedAt
    <2>7. SeatedIn(C, s, SubSeq(st, n + 1, Len(st)), now)
      BY <1>4, <2>3, <2>4, <2>5, <2>6, SeatedSwept
    <2>8. QED
      BY <1>8, <2>7
  <1>11. Appended(mid, u.starts, k, now)
    <2>1. PICK fresh : fresh = [i \in 1 .. k |-> now]
      OBVIOUS
    <2>2. fresh \in Seq(T) /\ Len(fresh) = k /\ \A i \in 1 .. k : fresh[i] = now
      BY <1>4, <2>1, Copies
    <2>3. u.starts = mid \o fresh
      BY <1>2, <1>3, <1>4, <1>5, <1>6, <1>7, <1>8, <2>1, SweptOK
    <2>4. /\ Len(mid \o fresh) = Len(mid) + Len(fresh)
          /\ \A i \in 1 .. Len(mid) + Len(fresh) :
               (mid \o fresh)[i] = IF i <= Len(mid) THEN mid[i] ELSE fresh[i - Len(mid)]
      BY <1>9, <2>2, ConcatProperties
    <2>5. PICK c : c = mid \o fresh
      OBVIOUS
    <2>6. PICK m \in Nat : m = Len(mid)
      BY <1>9
    <2>7. /\ Len(c) = m + k
          /\ \A i \in 1 .. m + k : c[i] = IF i <= m THEN mid[i] ELSE fresh[i - m]
      BY <2>2, <2>4, <2>5, <2>6
    <2>8. \A i \in 1 .. m : c[i] = mid[i]
      BY <2>7
    <2>9. ASSUME NEW i \in 1 .. k PROVE c[m + i] = now
      <3>1. m + i \in 1 .. m + k /\ ~(m + i <= m) /\ (m + i) - m = i
        OBVIOUS
      <3>2. QED
        BY <2>2, <2>7, <3>1
    <2>10. QED
      BY <2>3, <2>5, <2>6, <2>7, <2>8, <2>9 DEF Appended
  <1>12. PICK g : g = [x \in W |-> CHOOSE i \in 1 .. k : q[i] = x]
    OBVIOUS
  <1>13. Numbers(g, W, k)
    <2>1. ASSUME NEW x \in W PROVE g[x] \in 1 .. k /\ q[g[x]] = x
      <3>1. \E i \in 1 .. k : q[i] = x
        BY <1>3, <1>7, <2>1 DEF FirstOnes
      <3>2. QED
        BY <1>12, <3>1
    <2>2. QED
      BY <1>12, <2>1 DEF Numbers
  <1>14. \A x \in W : x \in Request /\ phase[x] = "waiting" /\ slot[x].object = o
    <2>1. \A x \in W : x \in Request /\ x \in ToSet(heap[o].waiting)
      BY <1>2, <1>3 DEF FirstOnes
    <2>2. QED
      BY <2>1 DEF Parts, WaitersOK
  <1>15. \A x \in Request : SweptRequest(x)
    BY SweepsRequests
  <1>16. Remember(C, W, s, s2, now)
    <2>1. C \intersect W = {}
      BY <1>3, <1>14 DEF Claims
    <2>2. \A x \in C : s2[x] = s[x] /\ s[x] \in Nat
      BY <1>3, <1>4, <1>15 DEF Claims, SweptRequest, StartOf
    <2>3. \A x \in W : s2[x] = now
      BY <1>3, <1>14, <1>15 DEF SweptRequest, StartOf
    <2>4. QED
      BY <2>1, <2>2, <2>3 DEF Remember
  <1>17. SeatedIn(C \union W, s2, u.starts, now)
    BY <1>4, <1>9, <1>10, <1>11, <1>13, <1>16, SeatedGrows
  <1>18. Claims(phase', slot', o) = C \union W
    <2>1. ASSUME NEW x \in Request
          PROVE  phase'[x] = "running" /\ slot'[x].object = o <=> x \in C \/ x \in W
      <3>1. SweptRequest(x)
        BY <1>15
      <3>2. x \in C <=> phase[x] = "running" /\ slot[x].object = o
        BY <1>3 DEF Claims
      <3>3. x \in W => phase[x] = "waiting" /\ slot[x].object = o
        BY <1>14
      <3>4. QED
        BY <1>3, <3>1, <3>2, <3>3 DEF SweptRequest
    <2>2. \A x \in C \union W : x \in Request
      BY <1>3, <1>14 DEF Claims
    <2>3. QED
      BY <2>1, <2>2 DEF Claims
  <1>19. QED
    BY <1>2, <1>3, <1>17, <1>18 DEF SeatedAt

LEMMA SweepSeats ==
  ASSUME Parts, Seated, Sweep
  PROVE  Seated'
  <1>1. ASSUME NEW o \in Object, ~Listed(o) PROVE SeatedAt(phase, slot, heap[o].starts, o)'
    <2>1. PICK u \in AccountUsage : SweptObject(o, u)
      BY SweepsObjects
    <2>2. heap'[o] = heap[o] /\ FirstOnes(o) \subseteq ToSet(<<>>) /\ now' = now
      BY <1>1, <2>1 DEF SweptObject, Sweep
    <2>3. FirstOnes(o) = {}
      BY <2>2 DEF ToSet
    <2>4. \A x \in Request : SweptRequest(x)
      BY SweepsRequests
    <2>5. \A x \in Request : phase'[x] = "running" /\ slot'[x].object = o =>
            phase[x] = "running" /\ slot'[x] = slot[x]
      BY <2>3, <2>4 DEF SweptRequest
    <2>6. heap'[o].starts = heap[o].starts
      BY <2>2
    <2>7. QED
      BY <2>2, <2>5, <2>6, KeptObject
  <1>2. \A o \in Object : SeatedAt(phase, slot, heap[o].starts, o)'
    BY <1>1, SweptSeats
  <1>3. QED
    BY <1>2 DEF Seated

LEMMA TickSeats ==
  ASSUME Parts, Seated, Tick
  PROVE  Seated'
  <1>1. UNCHANGED <<usage, heap, phase, slot>> /\ now' = now + 1
    BY DEF Tick
  <1>2. now \in Nat /\ \A x \in Request : slot[x].start \in Nat /\ StartOf(slot)[x] = slot[x].start
    BY SlotTypes
  <1>3. ASSUME NEW o \in Object PROVE SeatedAt(phase, slot, heap[o].starts, o)'
    <2>1. PICK C, s, st : C = Claims(phase, slot, o) /\ s = StartOf(slot) /\ st = heap[o].starts
      OBVIOUS
    <2>2. SeatedIn(C, s, st, now) /\ \A x \in C : s[x] \in Nat
      BY <1>2, <2>1 DEF Seated, SeatedAt, Claims
    <2>3. PICK t \in Nat : t = now + 1 /\ now <= t
      BY <1>2
    <2>4. SeatedIn(C, s, st, t)
      BY <1>2, <2>2, <2>3, SeatedLater
    <2>5. QED
      BY <1>1, <2>1, <2>3, <2>4 DEF SeatedAt
  <1>4. QED
    BY <1>3 DEF Seated

LEMMA InitSeated ==
  ASSUME Init
  PROVE  Seated
  <1>1. ASSUME NEW o \in Object PROVE SeatedAt(phase, slot, heap[o].starts, o)
    <2>1. Claims(phase, slot, o) = {}
      BY DEF Init, Claims
    <2>2. \E f \in [{} -> 1 .. Len(heap[o].starts)] : TRUE
      <3>1. [x \in {} |-> 1] \in [{} -> 1 .. Len(heap[o].starts)]
        OBVIOUS
      <3>2. QED
        BY <3>1
    <2>3. Seats({}, StartOf(slot), heap[o].starts)
      BY <2>2 DEF Seats
    <2>4. QED
      BY <2>1, <2>3 DEF SeatedAt, SeatedIn
  <1>2. QED
    BY <1>1 DEF Seated

LEMMA StepSeated ==
  ASSUME Parts, Seated, [Next]_vars
  PROVE  Seated'
  <1>1. CASE UNCHANGED vars
    <2>1. heap' = heap /\ phase' = phase /\ slot' = slot /\ now' = now
      BY <1>1 DEF vars
    <2>2. QED
      BY <2>1 DEF Seated, SeatedAt
  <1>2. ASSUME NEW r \in Request, NEW a \in Account, NEW o \in Object,
               AcquireFree(r, a, o) \/ AcquireQueued(r, a, o)
        PROVE  Seated'
    BY <1>2, AcquireFreeSeats, AcquireQueuedSeats
  <1>3. ASSUME NEW r \in Request, WaiterGivesUp(r) PROVE Seated'
    BY <1>3, WaiterGivesUpSeats
  <1>4. ASSUME NEW r \in Request, Complete(r) PROVE Seated'
    <2>1. /\ phase[r] = "running" /\ UNCHANGED now
          /\ ReleaseSlot(r, [phase EXCEPT ![r] = "idle"], [slot EXCEPT ![r] = NoCapture])
      BY <1>4 DEF Complete
    <2>2. QED
      BY <2>1, ReleaseSeats
  <1>5. ASSUME NEW r \in Request, ClientAborts(r) PROVE Seated'
    <2>1. /\ phase[r] = "running" /\ UNCHANGED now
          /\ ReleaseSlot(r, [phase EXCEPT ![r] = "lingering"], [slot EXCEPT ![r] = NoCapture])
      BY <1>5 DEF ClientAborts
    <2>2. QED
      BY <2>1, ReleaseSeats
  <1>6. ASSUME NEW r \in Request, LingererEnds(r) PROVE Seated'
    BY <1>6, LingererEndsSeats
  <1>7. CASE Sweep
    BY <1>7, SweepSeats
  <1>8. CASE Tick
    BY <1>8, TickSeats
  <1>9. QED
    BY <1>1, <1>2, <1>3, <1>4, <1>5, <1>6, <1>7, <1>8 DEF Next

(* Those who hold slots of an account share the object the map lists, and  *)
(* each of them has a place of its own among its starts.                   *)
LEMMA SeatsBoundHolders ==
  ASSUME Parts, Seated
  PROVE  CapacityRespected
  <1>1. SUFFICES ASSUME NEW a \in Account
                 PROVE  Cardinality({r \in Request : Holds(r) /\ slot[r].account = a})
                          <= MaxConcurrent
    BY DEF CapacityRespected
  <1>2. PICK S : S = {r \in Request : Holds(r) /\ slot[r].account = a}
    OBVIOUS
  <1>3. MaxConcurrent \in Nat /\ None \notin Object
    BY Types
  <1>4. ASSUME NEW r \in S
        PROVE  /\ r \in Request /\ phase[r] = "running" /\ StillHeld(r)
               /\ slot[r].object = usage[a] /\ usage[a] \in Object
    <2>1. r \in Request /\ phase[r] = "running" /\ StillHeld(r) /\ slot[r].account = a
      BY <1>2 DEF Holds
    <2>2. QED
      BY <2>1, CapturedIsListed
  <1>5. CASE S = {}
    <2>1. Cardinality(S) = 0
      BY <1>5, FS_EmptySet
    <2>2. QED
      BY <1>2, <1>3, <2>1
  <1>6. CASE S # {}
    <2>1. PICK o \in Object : o = usage[a]
      BY <1>4, <1>6
    <2>2. PICK C, s, st : C = Claims(phase, slot, o) /\ s = StartOf(slot) /\ st = heap[o].starts
      OBVIOUS
    <2>3. SeatedIn(C, s, st, now)
      BY <2>2 DEF Seated, SeatedAt
    <2>4. PICK H \in SUBSET C :
            /\ Seats(H, s, st)
            /\ \A x \in C : x \in H \/ (s[x] < now /\ \A i \in 1 .. Len(st) : st[i] # s[x])
      BY <2>3 DEF SeatedIn
    <2>5. ASSUME NEW r \in S PROVE r \in H
      <3>1. r \in C /\ s[r] = slot[r].start
        BY <1>4, <2>1, <2>2 DEF Claims, StartOf
      <3>2. \E i \in 1 .. Len(st) : st[i] = slot[r].start
        BY <1>4, <2>1, <2>2 DEF StillHeld, HasStart
      <3>3. QED
        BY <2>4, <3>1, <3>2
    <2>6. PICK f \in [H -> 1 .. Len(st)] : \A x, y \in H : f[x] = f[y] => x = y
      BY <2>4 DEF Seats
    <2>7. PICK l \in Nat : l = Len(st) /\ l <= MaxConcurrent
      <3>1. Counts(heap[o], now)
        BY DEF Parts, UsageOK
      <3>2. heap[o] \in AccountUsage /\ heap[o].active = Len(st) /\ heap[o].active <= MaxConcurrent
        BY <2>2, <3>1 DEF Counts
      <3>3. QED
        BY <2>2, <3>2, UsageTypes
    <2>8. PICK g : g = [x \in S |-> f[x]]
      OBVIOUS
    <2>9. g \in [S -> 1 .. l] /\ \A x, y \in S : g[x] = g[y] => x = y
      BY <2>5, <2>6, <2>7, <2>8
    <2>10. g \in Injection(S, 1 .. l)
      BY <2>9 DEF Injection, IsInjective
    <2>11. IsFiniteSet(1 .. l) /\ Cardinality(1 .. l) = l
      <3>1. 1 \in Int /\ l \in Int
        OBVIOUS
      <3>2. IsFiniteSet(1 .. l) /\ Cardinality(1 .. l) = IF 1 > l THEN 0 ELSE l - 1 + 1
        BY <3>1, FS_Interval
      <3>3. QED
        BY <3>2
    <2>12. IsFiniteSet(S) /\ Cardinality(S) <= l
      BY <2>10, <2>11, FS_Injection
    <2>13. Cardinality(S) \in Nat
      BY <2>12, FS_CardinalityType
    <2>14. QED
      BY <1>2, <1>3, <2>7, <2>12, <2>13
  <1>7. QED
    BY <1>5, <1>6

(* At most MaxConcurrent requests hold slots of an account, over all the   *)
(* objects the usage map had for it, however releases, withdrawals and the *)
(* sweep of src/core/account-concurrency.ts interleave, and although slots *)
(* of the same millisecond cannot be told apart.                           *)
THEOREM CapacityIsRespected == Spec => []CapacityRespected
  <1>1. Init => Parts /\ Seated
    BY InitParts, InitSeated
  <1>2. Parts /\ Seated /\ [Next]_vars => Parts' /\ Seated'
    BY StepParts, StepSeated
  <1>3. Parts /\ Seated => CapacityRespected
    BY SeatsBoundHolders
  <1>4. QED
    BY <1>1, <1>2, <1>3, PTL DEF Spec

-----------------------------------------------------------------------------
(* Nobody is overtaken *)

(* One step never starts s before r, which goes on waiting. *)
InTurn(r, s) ==
  phase'[s] = "running" /\ phase'[r] = "waiting" =>
    /\ ~Before(r, s)
    /\ (phase[s] = "idle" /\ phase[r] = "waiting" => slot'[s].account # slot[r].account)

(* Whoever ran before is not started by this step. *)
LEMMA RunsAlready ==
  ASSUME NEW r \in Request, NEW s \in Request, phase'[s] = "running" => phase[s] = "running"
  PROVE  InTurn(r, s)
  BY DEF InTurn, Before

LEMMA AcquireFreeInTurn ==
  ASSUME Parts, NEW x \in Request, NEW a \in Account, NEW o \in Object, AcquireFree(x, a, o),
         NEW r \in Request, NEW s \in Request
  PROVE  InTurn(r, s)
  <1>1. /\ Resolves(a, o) /\ phase[x] = "idle" /\ Fields(a, o).active < MaxConcurrent
        /\ phase \in [Request -> Phase] /\ slot \in [Request -> Capture]
        /\ phase' = [phase EXCEPT ![x] = "running"]
        /\ slot' = [slot EXCEPT ![x] = [account |-> a, object |-> o, start |-> now]]
    BY DEF AcquireFree, Parts, TypeOK
  <1>2. CASE s # x
    <2>1. phase'[s] = phase[s]
      BY <1>1, <1>2
    <2>2. QED
      BY <2>1, RunsAlready
  <1>3. CASE s = x
    <2>1. slot'[s].account = a
      BY <1>1, <1>3
    <2>2. ASSUME phase[r] = "waiting", slot[r].account = a
          PROVE  FALSE
      <3>1. /\ usage[a] = slot[r].object /\ slot[r].object \in Object
            /\ UsageOK(heap[slot[r].object], now)
        BY <2>2, CapturedIsListed
      <3>2. o = slot[r].object
        BY <1>1, <3>1, Types DEF Resolves
      <3>3. heap[o].active < MaxConcurrent
        BY <1>1, FieldsAreKept
      <3>4. r \in ToSet(heap[o].waiting)
        BY <2>2, <3>2 DEF Parts, WaitersOK
      <3>5. heap[o].waiting # <<>>
        BY <3>4 DEF ToSet
      <3>6. heap[o].active = MaxConcurrent /\ MaxConcurrent \in Nat
        BY <3>1, <3>2, <3>5, Types DEF UsageOK
      <3>7. QED
        BY <3>3, <3>6
    <2>3. QED
      BY <1>1, <1>3, <2>1, <2>2 DEF InTurn, Before
  <1>4. QED
    BY <1>2, <1>3

LEMMA ReleaseInTurn ==
  ASSUME Parts, NEW x \in Request, phase[x] = "running", UNCHANGED now,
         NEW ph \in {"idle", "lingering"},
         ReleaseSlot(x, [phase EXCEPT ![x] = ph], [slot EXCEPT ![x] = NoCapture]),
         NEW r \in Request, NEW s \in Request
  PROVE  InTurn(r, s)
  <1>1. CASE ~StillHeld(x)
    <2>1. phase' = [phase EXCEPT ![x] = ph] /\ phase \in [Request -> Phase]
      BY <1>1 DEF ReleaseSlot, Parts, TypeOK
    <2>2. QED
      BY <2>1, RunsAlready
  <1>2. CASE StillHeld(x)
    <2>1. PICK o \in Object, a \in Account, less \in AccountUsage, u \in AccountUsage,
               W \in SUBSET Request : Handover(x, ph, o, a, less, u, W)
      BY <1>2, ReleaseHandsOver
    <2>2. /\ W = {} \/ W = {heap[o].waiting[1]}
          /\ phase'[x] = ph
          /\ \A y \in Request : y # x /\ y \notin W => phase'[y] = phase[y]
          /\ \A y \in W : phase[y] = "waiting" /\ slot[y].object = o
      BY <2>1, Zenon DEF Handover
    <2>3. CASE s \notin W
      BY <2>2, <2>3, RunsAlready
    <2>4. CASE s \in W
      <3>1. s = heap[o].waiting[1] /\ phase[s] = "waiting" /\ slot[s].object = o
        BY <2>2, <2>4
      <3>2. heap[o].waiting \in Seq(Request) /\ NoDuplicates(heap[o].waiting)
        BY UsageTypes DEF Parts, UsageOK, Counts
      <3>3. ASSUME Before(r, s) PROVE FALSE
        <4>1. slot[r].object = o
          BY <3>1, <3>3 DEF Before
        <4>2. PICK i \in 1 .. Len(heap[o].waiting), j \in 1 .. Len(heap[o].waiting) :
                i < j /\ heap[o].waiting[j] = s
          BY <3>3, <4>1 DEF Before
        <4>3. 1 \in 1 .. Len(heap[o].waiting)
          BY <3>2, <4>2
        <4>4. j = 1
          BY <3>1, <3>2, <4>2, <4>3 DEF NoDuplicates
        <4>5. QED
          BY <3>2, <4>2, <4>4
      <3>4. QED
        BY <3>1, <3>3 DEF InTurn
    <2>5. QED
      BY <2>3, <2>4
  <1>3. QED
    BY <1>1, <1>2

LEMMA SweepInTurn ==
  ASSUME Parts, Sweep, NEW r \in Request, NEW s \in Request
  PROVE  InTurn(r, s)
  <1>1. SweptRequest(r) /\ SweptRequest(s)
    BY SweepsRequests
  <1>2. CASE phase[s] = "waiting" /\ s \in FirstOnes(slot[s].object)
    <2>1. ASSUME Before(r, s) PROVE phase'[r] = "running"
      <3>1. PICK o \in Object : o = slot[s].object /\ slot[r].object = o
        BY <1>2, <2>1 DEF Before, Parts, CapturesOK
      <3>2. PICK q \in Seq(Request) : q = heap[o].waiting /\ NoDuplicates(q) /\ Len(q) \in Nat
        BY UsageTypes DEF Parts, UsageOK, Counts
      <3>3. PICK i \in 1 .. Len(q), j \in 1 .. Len(q) : i < j /\ q[i] = r /\ q[j] = s
        BY <2>1, <3>1, <3>2 DEF Before
      <3>4. PICK k \in 0 .. Len(q) : k = ServedBySweep(heap[o])
        <4>1. now \in 0 .. MaxTime /\ UsageOK(heap[o], now)
          BY DEF Parts, TypeOK
        <4>2. QED
          BY <3>2, <4>1, SweptOK
      <3>5. PICK m \in 1 .. k : q[m] = s
        BY <1>2, <3>1, <3>2, <3>4 DEF FirstOnes
      <3>6. m = j
        <4>1. m \in 1 .. Len(q)
          BY <3>2
        <4>2. QED
          BY <3>2, <3>3, <3>5, <4>1 DEF NoDuplicates
      <3>7. i \in 1 .. k
        BY <3>2, <3>3, <3>6
      <3>8. r \in FirstOnes(o)
        BY <3>2, <3>3, <3>4, <3>7 DEF FirstOnes
      <3>9. QED
        BY <1>1, <2>1, <3>1, <3>8 DEF SweptRequest, Before
    <2>2. QED
      BY <1>2, <2>1 DEF InTurn
  <1>3. CASE ~(phase[s] = "waiting" /\ s \in FirstOnes(slot[s].object))
    BY <1>1, <1>3, RunsAlready DEF SweptRequest
  <1>4. QED
    BY <1>2, <1>3

LEMMA StepInTurn ==
  ASSUME Parts, Next, NEW r \in Request, NEW s \in Request
  PROVE  InTurn(r, s)
  <1>1. phase \in [Request -> Phase]
    BY DEF Parts, TypeOK
  <1>2. ASSUME NEW x \in Request, NEW a \in Account, NEW o \in Object, AcquireFree(x, a, o)
        PROVE  InTurn(r, s)
    BY <1>2, AcquireFreeInTurn
  <1>3. ASSUME NEW x \in Request, NEW a \in Account, NEW o \in Object, AcquireQueued(x, a, o)
        PROVE  InTurn(r, s)
    <2>1. phase' = [phase EXCEPT ![x] = "waiting"]
      BY <1>3 DEF AcquireQueued
    <2>2. QED
      BY <1>1, <2>1, RunsAlready
  <1>4. ASSUME NEW x \in Request, WaiterGivesUp(x) \/ LingererEnds(x)
        PROVE  InTurn(r, s)
    <2>1. phase' = [phase EXCEPT ![x] = "idle"]
      BY <1>4 DEF WaiterGivesUp, LingererEnds
    <2>2. QED
      BY <1>1, <2>1, RunsAlready
  <1>5. ASSUME NEW x \in Request, Complete(x) PROVE InTurn(r, s)
    <2>1. /\ phase[x] = "running" /\ UNCHANGED now
          /\ ReleaseSlot(x, [phase EXCEPT ![x] = "idle"], [slot EXCEPT ![x] = NoCapture])
      BY <1>5 DEF Complete
    <2>2. QED
      BY <2>1, ReleaseInTurn
  <1>6. ASSUME NEW x \in Request, ClientAborts(x) PROVE InTurn(r, s)
    <2>1. /\ phase[x] = "running" /\ UNCHANGED now
          /\ ReleaseSlot(x, [phase EXCEPT ![x] = "lingering"], [slot EXCEPT ![x] = NoCapture])
      BY <1>6 DEF ClientAborts
    <2>2. QED
      BY <2>1, ReleaseInTurn
  <1>7. CASE Sweep
    BY <1>7, SweepInTurn
  <1>8. CASE Tick
    BY <1>8, RunsAlready DEF Tick
  <1>9. QED
    BY <1>2, <1>3, <1>4, <1>5, <1>6, <1>7, <1>8 DEF Next

(* First come, first served: no step of the slots gives one to a newcomer  *)
(* while somebody waits for the account, nor to a waiter while an earlier   *)
(* one goes on waiting, also when the sweep serves several at once.        *)
THEOREM NobodyIsOvertaken == Spec => NoOvertaking
  <1>1. Init => Parts
    BY InitParts
  <1>2. Parts /\ [Next]_vars => Parts'
    BY StepParts
  <1>3. Parts /\ [Next]_vars =>
          [\A r, s \in Request :
             phase'[s] = "running" /\ phase'[r] = "waiting" =>
               /\ ~Before(r, s)
               /\ (phase[s] = "idle" /\ phase[r] = "waiting"
                    => slot'[s].account # slot[r].account)]_vars
    BY StepInTurn DEF InTurn
  <1>4. QED
    BY <1>1, <1>2, <1>3, PTL DEF Spec, NoOvertaking

-----------------------------------------------------------------------------
(* The invariant of the pool *)

(* No value of x outlasts the entry that memory has for the account, unless *)
(* the account's last write failed.                                        *)
Within(x, entries, bad) ==
  \A a \in Accounts \ bad : entries[a] # Nothing => x[a] <= entries[a]

(* c is a copy of the table that can be read while the table has cooldowns t. *)
IsFresh(c, t, entries, bad) ==
  Within(c.left, entries, bad) /\ \A a \in Accounts : t[a] <= c.left[a]

Copy == [rows : Seq(Accounts), left : [Accounts -> Nat], age : Nat]

CopyOK(c, t, entries, bad) ==
  /\ c \in Copy /\ NoDuplicates(c.rows)
  /\ c.age < Ttl => IsFresh(c, t, entries, bad)

CooldownsOK(t, c, entries, bad) ==
  /\ t \in [Accounts -> Nat] /\ entries \in [Accounts -> Nat \union {Nothing}]
  /\ bad \subseteq Accounts
  /\ Within(t, entries, bad)
  /\ c # Nothing => CopyOK(c, t, entries, bad)

PoolInv ==
  /\ rows \in Seq(Accounts) /\ NoDuplicates(rows)
  /\ currentIndex \in Nat
  /\ CooldownsOK(left, cache, cooldowns, failed)

-----------------------------------------------------------------------------
(* Remainders: the places of a circle *)

(* A number has one quotient and one remainder.                             *)
LEMMA DivisionIsUnique ==
  ASSUME NEW n \in Nat \ {0}, NEW q \in Int, NEW p \in Int, NEW r \in 0 .. n - 1, NEW s \in 0 .. n - 1,
         n * q + r = n * p + s
  PROVE  r = s
<1>1. CASE q <= p - 1
  <2>1. n * q <= n * (p - 1)
    BY <1>1
  <2>2. n * (p - 1) = n * p - n
    OBVIOUS
  <2> QED BY <2>1, <2>2
<1>2. CASE p <= q - 1
  <2>1. n * p <= n * (q - 1)
    BY <1>2
  <2>2. n * (q - 1) = n * q - n
    OBVIOUS
  <2> QED BY <2>1, <2>2
<1>3. CASE p = q
  BY <1>3
<1> QED BY <1>1, <1>2, <1>3

LEMMA Division ==
  ASSUME NEW n \in Nat \ {0}, NEW c \in Nat
  PROVE  c % n \in 0 .. n - 1 /\ \E q \in Nat : c = n * q + (c % n)
<1>1. c % n \in 0 .. n - 1
  OBVIOUS
<1>2. c = n * (c \div n) + (c % n)
  OBVIOUS
<1>3. c \div n \in Nat
  OBVIOUS
<1> QED BY <1>1, <1>2, <1>3
LEMMA Remainder ==
  ASSUME NEW n \in Nat \ {0}, NEW q \in Nat, NEW r \in 0 .. n - 1
  PROVE  (n * q + r) % n = r
<1>1. PICK m \in Nat : m = n * q + r
  OBVIOUS
<1>2. PICK s \in 0 .. n - 1 : s = m % n
  BY Division
<1>3. PICK p \in Nat : m = n * p + s
  BY <1>2, Division
<1>4. n * q + r = n * p + s
  BY <1>1, <1>3
<1>5. r = s
  BY <1>4, DivisionIsUnique
<1> QED BY <1>1, <1>2, <1>5

(* A step of i around a circle of n, from wherever c is.                    *)
LEMMA Around ==
  ASSUME NEW n \in Nat \ {0}, NEW c \in Nat, NEW i \in 0 .. n - 1
  PROVE  (c + i) % n = IF (c % n) + i < n THEN (c % n) + i ELSE (c % n) + i - n
<1>1. PICK r \in 0 .. n - 1 : r = c % n
  BY Division
<1>2. PICK q \in Nat : c = n * q + r
  BY <1>1, Division
<1>3. PICK m \in Nat : m = c + i
  OBVIOUS
<1>4. CASE r + i < n
  <2>1. r + i \in 0 .. n - 1 /\ m = n * q + (r + i)
    BY <1>2, <1>3, <1>4
  <2>2. m % n = r + i
    BY <2>1, Remainder
  <2> QED BY <1>1, <1>3, <1>4, <2>2
<1>5. CASE ~(r + i < n)
  <2>1. PICK p \in Nat : p = q + 1
    OBVIOUS
  <2>2. n * p = n * q + n
    BY <2>1
  <2>3. r + i - n \in 0 .. n - 1 /\ m = n * p + (r + i - n)
    BY <1>2, <1>3, <1>5, <2>2
  <2>4. m % n = r + i - n
    BY <2>3, Remainder
  <2> QED BY <1>1, <1>3, <1>5, <2>4
<1> QED BY <1>4, <1>5

(* Each place of the circle is reached by one step, and the rest of a step   *)
(* that was interrupted leads to where it would have led.                   *)
LEMMA AroundOnce ==
  ASSUME NEW n \in Nat \ {0}, NEW c \in Nat, NEW i \in 0 .. n - 1, NEW j \in 0 .. n - 1,
         (c + i) % n = (c + j) % n
  PROVE  i = j
<1>1. PICK r \in 0 .. n - 1 : r = c % n
  BY Division
<1>2. (c + i) % n = IF r + i < n THEN r + i ELSE r + i - n
  BY <1>1, Around
<1>3. (c + j) % n = IF r + j < n THEN r + j ELSE r + j - n
  BY <1>1, Around
<1>4. (IF r + i < n THEN r + i ELSE r + i - n) = (IF r + j < n THEN r + j ELSE r + j - n)
  BY <1>2, <1>3
<1> QED BY <1>4

LEMMA AroundReaches ==
  ASSUME NEW n \in Nat \ {0}, NEW c \in Nat, NEW m \in 0 .. n - 1
  PROVE  \E i \in 0 .. n - 1 : (c + i) % n = m
<1>1. PICK r \in 0 .. n - 1 : r = c % n
  BY Division
<1>2. \A i \in 0 .. n - 1 : (c + i) % n = IF r + i < n THEN r + i ELSE r + i - n
  BY <1>1, Around
<1>3. CASE r <= m
  <2>1. PICK i \in 0 .. n - 1 : r + i = m
    <3>1. m - r \in 0 .. n - 1 /\ r + (m - r) = m
      BY <1>3
    <3> QED BY <3>1
  <2>2. PICK x : x = (c + i) % n
    OBVIOUS
  <2>3. x = IF r + i < n THEN r + i ELSE r + i - n
    BY <1>2, <2>2
  <2>4. x = m
    BY <2>1, <2>3
  <2> QED BY <2>2, <2>4
<1>4. CASE ~(r <= m)
  <2>1. PICK i \in 0 .. n - 1 : r + i = m + n
    <3>1. m + n - r \in 0 .. n - 1 /\ r + (m + n - r) = m + n
      BY <1>4
    <3> QED BY <3>1
  <2>2. PICK x : x = (c + i) % n
    OBVIOUS
  <2>3. x = IF r + i < n THEN r + i ELSE r + i - n
    BY <1>2, <2>2
  <2>4. x = m
    BY <2>1, <2>3
  <2> QED BY <2>2, <2>4
<1> QED BY <1>3, <1>4

LEMMA AroundOn ==
  ASSUME NEW n \in Nat \ {0}, NEW c \in Nat, NEW i \in 0 .. n - 1, NEW j \in 0 .. n - 1,
         i < j
  PROVE  (((c + i + 1) % n) + (j - i - 1)) % n = (c + j) % n
<1>1. PICK d \in Nat : d = c + i + 1
  OBVIOUS
<1>2. PICK e \in 0 .. n - 1 : e = d % n
  BY <1>1, Division
<1>3. PICK k \in 0 .. n - 1 : k = j - i - 1
  OBVIOUS
<1>4. e % n = e
  <2>1. e = n * 0 + e
    OBVIOUS
  <2> QED BY <2>1, Remainder
<1>5. (e + k) % n = (d + k) % n
  <2>1. (e + k) % n = IF e + k < n THEN e + k ELSE e + k - n
    <3>1. (e + k) % n = IF (e % n) + k < n THEN (e % n) + k ELSE (e % n) + k - n
      <4>1. e \in Nat
        OBVIOUS
      <4> QED BY <4>1, Around
    <3> QED BY <1>4, <3>1
  <2>2. (d + k) % n = IF e + k < n THEN e + k ELSE e + k - n
    BY <1>2, Around
  <2> QED BY <2>1, <2>2
<1>6. d + k = c + j
  BY <1>1, <1>3
<1> QED BY <1>1, <1>2, <1>3, <1>5, <1>6

-----------------------------------------------------------------------------
(* The table, its copies and what is written *)

LEMMA SetAsSequence ==
  ASSUME NEW S, IsFiniteSet(S)
  PROVE  /\ SetToSeq(S) \in Seq(S) /\ NoDuplicates(SetToSeq(S))
         /\ ToSet(SetToSeq(S)) \subseteq S
<1>1. PICK n \in Nat : n = Cardinality(S)
  BY FS_CardinalityType
<1>2. PICK f \in Bijection(1 .. n, S) : TRUE
  BY <1>1, FS_CardinalityType DEF ExistsBijection
<1>3. f \in [1 .. n -> S] /\ IsInjective(f)
  BY <1>2 DEF Bijection, Injection, IsInjective
<1>4. PICK s : s = SetToSeq(S)
  OBVIOUS
<1>5. s \in [1 .. n -> S] /\ IsInjective(s)
  <2>1. \E g \in [1 .. n -> S] : IsInjective(g)
    BY <1>3
  <2>2. s = CHOOSE g \in [1 .. n -> S] : IsInjective(g)
    BY <1>1, <1>4 DEF SetToSeq
  <2> QED BY <2>1, <2>2
<1>6. s \in Seq(S) /\ Len(s) = n
  BY <1>5
<1>7. NoDuplicates(s)
  BY <1>5, <1>6 DEF NoDuplicates, IsInjective
<1>8. ToSet(s) \subseteq S
  BY <1>6, ToSetMembers
<1> QED BY <1>4, <1>6, <1>7, <1>8

LEMMA SyncedTable ==
  ASSUME rows \in Seq(Accounts), NoDuplicates(rows), NEW table \in EnvSynced
  PROVE  table \in Seq(Accounts) /\ NoDuplicates(table)
<1>1. CASE table = rows
  BY <1>1
<1>2. CASE table = rows \o SetToSeq(EnvAccount \ ToSet(rows))
  <2>1. PICK S : S = EnvAccount \ ToSet(rows)
    OBVIOUS
  <2>2. IsFiniteSet(S) /\ S \subseteq Accounts
    BY <2>1, AccountPoolAssumption, FS_Subset
  <2>3. PICK s : s = SetToSeq(S)
    OBVIOUS
  <2>4. s \in Seq(S) /\ NoDuplicates(s) /\ ToSet(s) \subseteq S
    BY <2>2, <2>3, SetAsSequence
  <2>5. s \in Seq(Accounts)
    BY <2>2, <2>4
  <2>6. ToSet(rows) \intersect ToSet(s) = {}
    BY <2>1, <2>4
  <2>7. rows \o s \in Seq(Accounts) /\ NoDuplicates(rows \o s)
    BY <2>4, <2>5, <2>6, ConcatMembers
  <2> QED BY <1>2, <2>1, <2>3, <2>7
<1> QED BY <1>1, <1>2 DEF EnvSynced

(* What loadAccounts returns is the table or a copy that may be read.       *)
LEMMA LoadedIsFresh ==
  ASSUME PoolInv, NEW table \in EnvSynced
  PROVE  /\ Loaded(table) \in Copy /\ NoDuplicates(Loaded(table).rows)
         /\ Loaded(table).age < Ttl
         /\ IsFresh(Loaded(table), left, cooldowns, failed)
<1>1. CASE cache # Nothing /\ cache.age < Ttl
  BY <1>1 DEF Loaded, PoolInv, CooldownsOK, CopyOK
<1>2. CASE ~(cache # Nothing /\ cache.age < Ttl)
  <2>1. PICK c : c = Loaded(table)
    OBVIOUS
  <2>2. c = [rows |-> table, left |-> left, age |-> 0]
    BY <1>2, <2>1 DEF Loaded
  <2>3. table \in Seq(Accounts) /\ NoDuplicates(table) /\ left \in [Accounts -> Nat]
    BY SyncedTable DEF PoolInv, CooldownsOK
  <2>4. c \in Copy /\ c.rows = table /\ c.left = left /\ c.age = 0
    BY <2>2, <2>3 DEF Copy
  <2>5. 0 < Ttl
    BY AccountPoolAssumption
  <2>6. IsFresh(c, left, cooldowns, failed)
    BY <2>3, <2>4 DEF IsFresh, PoolInv, CooldownsOK, Within
  <2> QED BY <2>1, <2>3, <2>4, <2>5, <2>6
<1> QED BY <1>1, <1>2

LEMMA LoadedIsOK ==
  ASSUME PoolInv, NEW table \in EnvSynced
  PROVE  CooldownsOK(left, Loaded(table), cooldowns, failed)
BY LoadedIsFresh DEF PoolInv, CooldownsOK, CopyOK

(* Memory after a synchronisation still covers the table and the copy.      *)
LEMMA SyncedIsOK ==
  ASSUME NEW c \in Copy, NoDuplicates(c.rows), IsFresh(c, left, cooldowns, failed),
         CooldownsOK(left, cache, cooldowns, failed)
  PROVE  CooldownsOK(left, c, Synced(c), failed) /\ IsFresh(c, left, Synced(c), failed)
<1>1. PICK e : e = Synced(c)
  OBVIOUS
<1>2. c.left \in [Accounts -> Nat] /\ cooldowns \in [Accounts -> Nat \union {Nothing}]
  BY DEF Copy, CooldownsOK
<1>3. e \in [Accounts -> Nat \union {Nothing}]
  BY <1>1, <1>2 DEF Synced
<1>4. \A a \in Accounts :
        \/ e[a] = cooldowns[a]
        \/ e[a] = Nothing
        \/ e[a] = c.left[a]
  BY <1>1 DEF Synced
<1>5. Within(left, e, failed) /\ Within(c.left, e, failed)
  <2> SUFFICES ASSUME NEW a \in Accounts \ failed, e[a] # Nothing
               PROVE  left[a] <= e[a] /\ c.left[a] <= e[a]
    BY DEF Within
  <2>1. left[a] <= c.left[a] /\ c.left[a] \in Nat
    BY <1>2 DEF IsFresh
  <2>2. cooldowns[a] # Nothing => left[a] <= cooldowns[a] /\ c.left[a] <= cooldowns[a]
    BY DEF IsFresh, Within, CooldownsOK
  <2> QED BY <1>4, <2>1, <2>2
<1>6. IsFresh(c, left, e, failed)
  BY <1>5 DEF IsFresh
<1> QED BY <1>1, <1>3, <1>5, <1>6 DEF CooldownsOK, CopyOK

(* updateAccountCooldown for one account, whose entry becomes x: either the *)
(* value that is written, or nothing.                                      *)
LEMMA StoredIsOK ==
  ASSUME NEW a \in Accounts, NEW d \in Nat, NEW ok \in BOOLEAN, NEW c, NEW e, NEW x,
         x \in {Nothing, d}, CooldownsOK(left, c, e, failed), Stored(a, d, ok, c)
  PROVE  /\ CooldownsOK(left', cache', [e EXCEPT ![a] = x], failed')
         /\ \A b \in Accounts \ {a} : left'[b] = left[b]
<1>1. PICK f : f = [e EXCEPT ![a] = x]
  OBVIOUS
<1>2. /\ f \in [Accounts -> Nat \union {Nothing}] /\ f[a] = x
      /\ \A b \in Accounts \ {a} : f[b] = e[b]
  BY <1>1 DEF CooldownsOK
<1>3. CASE ok
  <2>1. PICK v \in {0, d} : left' = [left EXCEPT ![a] = v]
    BY <1>3 DEF Stored
  <2>2. /\ left' \in [Accounts -> Nat] /\ left'[a] = v
        /\ \A b \in Accounts \ {a} : left'[b] = left[b]
    BY <2>1 DEF CooldownsOK
  <2>3. cache' = Nothing /\ failed' = failed \ {a}
    BY <1>3 DEF Stored
  <2>4. Within(left', f, failed')
    <3> SUFFICES ASSUME NEW b \in Accounts \ failed', f[b] # Nothing
                 PROVE  left'[b] <= f[b]
      BY DEF Within
    <3>1. CASE b = a
      BY <1>2, <2>2, <3>1
    <3>2. CASE b # a
      BY <1>2, <2>2, <2>3, <3>2 DEF CooldownsOK, Within
    <3> QED BY <3>1, <3>2
  <2> QED BY <1>1, <1>2, <2>2, <2>3, <2>4 DEF CooldownsOK
<1>4. CASE ~ok
  <2>1. left' = left /\ cache' = c /\ failed' = failed \union {a}
    BY <1>4 DEF Stored
  <2>2. \A y : Within(y, e, failed) => Within(y, f, failed')
    BY <1>2, <2>1 DEF Within
  <2>3. c # Nothing => CopyOK(c, left, f, failed')
    BY <2>2 DEF CooldownsOK, CopyOK, IsFresh
  <2> QED BY <1>1, <1>2, <2>1, <2>2, <2>3 DEF CooldownsOK
<1> QED BY <1>3, <1>4

(* Looking a cooldown up erases none that still runs.                       *)
LEMMA ConsultedIsOK ==
  ASSUME NEW a \in Accounts, NEW e, NEW c, CooldownsOK(left, c, e, failed), Consulted(a, e, c)
  PROVE  /\ CooldownsOK(left', cache', cooldowns', failed')
         /\ \A b \in Accounts \ failed : left[b] > 0 => left'[b] = left[b]
<1>1. CASE e[a] = 0
  <2>1. PICK ok \in BOOLEAN : Stored(a, 0, ok, c)
    BY <1>1 DEF Consulted
  <2>2. cooldowns' = [e EXCEPT ![a] = Nothing]
    BY <1>1 DEF Consulted
  <2>3. /\ CooldownsOK(left', cache', cooldowns', failed')
        /\ \A b \in Accounts \ {a} : left'[b] = left[b]
    BY <2>1, <2>2, StoredIsOK
  <2>4. a \notin failed => ~(left[a] > 0)
    BY <1>1, AccountPoolAssumption DEF CooldownsOK, Within
  <2> QED BY <2>3, <2>4
<1>2. CASE e[a] # 0
  BY <1>2 DEF Consulted
<1> QED BY <1>1, <1>2

-----------------------------------------------------------------------------
(* The choice of an account *)

LEMMA TurnIsFirst ==
  ASSUME NEW order \in Seq(Accounts), NEW e, NEW tried, NEW t, t = FirstFree(order, e, tried)
  PROVE  /\ t # Nothing =>
              /\ t \in 0 .. Len(order) - 1
              /\ order[Position(order, t)] \notin tried
              /\ Free(e, order[Position(order, t)])
         /\ \A i \in 0 .. Len(order) - 1 :
              order[Position(order, i)] \notin tried /\ Free(e, order[Position(order, i)]) =>
                t # Nothing /\ t <= i
<1>1. PICK T : T = {i \in 0 .. Len(order) - 1 :
                      order[Position(order, i)] \notin tried /\ Free(e, order[Position(order, i)])}
  OBVIOUS
<1>2. t = IF T = {} THEN Nothing ELSE CHOOSE i \in T : \A j \in T : i <= j
  BY <1>1 DEF FirstFree
<1>3. CASE T = {}
  BY <1>1, <1>2, <1>3
<1>4. CASE T # {}
  <2>1. T \in SUBSET Nat
    BY <1>1
  <2>2. t = Min(T) /\ t \in T
    BY <1>2, <1>4, <2>1, LeastNumber DEF Min
  <2>3. \A j \in T : t <= j
    BY <1>4, <2>1, <2>2, LeastNumber
  <2>4. t # Nothing
    BY <2>1, <2>2, AccountPoolAssumption
  <2> QED BY <1>1, <2>2, <2>3, <2>4
<1> QED BY <1>3, <1>4

LEMMA PositionInOrder ==
  ASSUME NEW order \in Seq(Accounts), currentIndex \in Nat, NEW i \in 0 .. Len(order) - 1
  PROVE  Position(order, i) \in 1 .. Len(order) /\ order[Position(order, i)] \in Accounts
<1>1. PICK n \in Nat \ {0} : n = Len(order)
  OBVIOUS
<1>2. PICK p \in 0 .. n - 1 : p = (currentIndex + i) % n
  <2>1. currentIndex + i \in Nat
    OBVIOUS
  <2> QED BY <2>1, Division
<1>3. Position(order, i) = p + 1 /\ p + 1 \in 1 .. n
  BY <1>1, <1>2 DEF Position
<1> QED BY <1>1, <1>3

(* A choice keeps the invariant, and a cooldown that runs in the table.     *)
LEMMA ChosenIsOK ==
  ASSUME PoolInv, NEW tried \in SUBSET Accounts, NEW table \in EnvSynced, NEW idle,
         Loaded(table).rows # <<>> => idle \in Nat,
         Chooses(tried, table, idle)
  PROVE  /\ PoolInv'
         /\ \A b \in Accounts \ failed : left[b] > 0 => left'[b] = left[b]
<1>1. PICK c \in Copy : c = Loaded(table)
  BY LoadedIsFresh
<1>2. /\ NoDuplicates(c.rows) /\ IsFresh(c, left, cooldowns, failed)
      /\ CooldownsOK(left, c, cooldowns, failed)
  BY <1>1, LoadedIsFresh, LoadedIsOK
<1>3. PICK e : e = Synced(c)
  OBVIOUS
<1>4. CooldownsOK(left, c, e, failed)
  BY <1>2, <1>3, SyncedIsOK DEF PoolInv
<1>5. rows' \in Seq(Accounts) /\ NoDuplicates(rows')
  BY SyncedTable DEF PoolInv, Chooses
<1>6. PICK order \in Seq(Accounts) : order = c.rows
  BY DEF Copy
<1>7. PICK t : t = FirstFree(order, e, tried)
  OBVIOUS
<1>8. CASE order = <<>>
  BY <1>1, <1>2, <1>5, <1>6, <1>8 DEF Chooses, PoolInv, CooldownsOK
<1>9. CASE order # <<>> /\ t # Nothing
  <2>1. /\ currentIndex' = NextIndex(order, t)
        /\ Consulted(Picked(order, e, tried), e, c)
    BY <1>1, <1>3, <1>6, <1>7, <1>9 DEF Chooses
  <2>2. Picked(order, e, tried) \in Accounts
    <3>1. t \in 0 .. Len(order) - 1
      BY <1>7, <1>9, TurnIsFirst
    <3>2. order[Position(order, t)] \in Accounts
      BY <3>1, PositionInOrder DEF PoolInv
    <3> QED BY <1>7, <1>9, <3>2 DEF Picked
  <2>3. currentIndex' \in Nat
    <3>1. t \in Nat /\ Len(order) \in Nat \ {0} /\ currentIndex \in Nat
      BY <1>7, <1>9, TurnIsFirst DEF PoolInv
    <3>2. PICK k \in Nat : k = currentIndex + t + 1
      BY <3>1
    <3>3. k % Len(order) \in 0 .. Len(order) - 1
      BY <3>1, Division
    <3> QED BY <2>1, <3>1, <3>2, <3>3 DEF NextIndex
  <2>4. /\ CooldownsOK(left', cache', cooldowns', failed')
        /\ \A b \in Accounts \ failed : left[b] > 0 => left'[b] = left[b]
    BY <1>4, <2>1, <2>2, ConsultedIsOK
  <2> QED BY <1>5, <2>3, <2>4 DEF PoolInv
<1>10. CASE order # <<>> /\ t = Nothing
  <2>1. /\ currentIndex' = idle /\ cooldowns' = e /\ cache' = c
        /\ left' = left /\ failed' = failed
    BY <1>1, <1>3, <1>6, <1>7, <1>10 DEF Chooses
  <2> QED BY <1>1, <1>4, <1>5, <1>6, <1>10, <2>1 DEF PoolInv
<1> QED BY <1>8, <1>9, <1>10

LEMMA ChoiceIsOK ==
  ASSUME PoolInv, NEW tried \in SUBSET Accounts, NEW table \in EnvSynced,
         GetNextAccount(table) \/ GetNextAvailableAccount(tried, table)
  PROVE  /\ PoolInv'
         /\ \A b \in Accounts \ failed : left[b] > 0 => left'[b] = left[b]
<1>1. CASE GetNextAccount(table)
  <2>1. PICK order \in Seq(Accounts) : order = Loaded(table).rows
    BY LoadedIsFresh DEF Copy
  <2>2. order # <<>> => currentIndex % Len(order) \in Nat
    <3> SUFFICES ASSUME order # <<>> PROVE currentIndex % Len(order) \in Nat
      OBVIOUS
    <3>1. Len(order) \in Nat \ {0} /\ currentIndex \in Nat
      BY DEF PoolInv
    <3>2. currentIndex % Len(order) \in 0 .. Len(order) - 1
      BY <3>1, Division
    <3> QED BY <3>1, <3>2
  <2> QED BY <1>1, <2>1, <2>2, ChosenIsOK DEF GetNextAccount
<1>2. CASE GetNextAvailableAccount(tried, table)
  <2>1. currentIndex \in Nat
    BY DEF PoolInv
  <2> QED BY <1>2, <2>1, ChosenIsOK DEF GetNextAvailableAccount
<1> QED BY <1>1, <1>2

-----------------------------------------------------------------------------
(* The invariant holds *)

LEMMA PoolInitially == PoolInit => PoolInv
<1> SUFFICES ASSUME PoolInit PROVE PoolInv
  OBVIOUS
<1>1. PICK S : S = Accounts \ Roaming
  OBVIOUS
<1>2. IsFiniteSet(S) /\ S \subseteq Accounts
  BY <1>1, AccountPoolAssumption, FS_Subset
<1>3. PICK s : s = SetToSeq(S)
  OBVIOUS
<1>4. s \in Seq(S) /\ NoDuplicates(s)
  BY <1>2, <1>3, SetAsSequence
<1>5. s \in Seq(Accounts)
  BY <1>2, <1>4
<1>6. CooldownsOK(left, cache, cooldowns, failed)
  BY DEF PoolInit, CooldownsOK, Within
<1> QED BY <1>1, <1>3, <1>4, <1>5, <1>6 DEF PoolInit, PoolInv

LEMMA LoadKeeps ==
  ASSUME PoolInv, Load PROVE PoolInv'
<1>1. PICK table \in EnvSynced : rows' = table /\ cache' = Loaded(table)
  BY DEF Load
<1>2. rows' \in Seq(Accounts) /\ NoDuplicates(rows')
  BY <1>1, SyncedTable DEF PoolInv
<1>3. CooldownsOK(left, cache', cooldowns, failed)
  BY <1>1, LoadedIsOK
<1> QED BY <1>2, <1>3 DEF Load, PoolInv

LEMMA InsertionKeeps ==
  ASSUME PoolInv, NEW a \in Accounts, AddAccount(a) \/ AddedOutside(a) PROVE PoolInv'
<1>1. Inserts(a) /\ cache' \in {Nothing, cache}
  BY DEF AddAccount, AddedOutside
<1>2. rows' \in Seq(Accounts) /\ NoDuplicates(rows')
  BY <1>1, AppendMembers DEF Inserts, PoolInv
<1> QED BY <1>1, <1>2 DEF Inserts, PoolInv, CooldownsOK

LEMMA PoolDeletionKeeps ==
  ASSUME PoolInv, NEW a \in Accounts, RemoveAccount(a) \/ RemovedOutside(a) PROVE PoolInv'
<1>1. Deletes(a) /\ cache' \in {Nothing, cache}
  BY DEF RemoveAccount, RemovedOutside
<1>2. rows' \in Seq(Accounts) /\ NoDuplicates(rows')
  BY <1>1, RemoveFirstMembers DEF Deletes, PoolInv
<1>3. /\ left' \in [Accounts -> Nat] /\ left'[a] = 0
      /\ \A b \in Accounts \ {a} : left'[b] = left[b]
  BY <1>1 DEF Deletes, PoolInv, CooldownsOK
<1>4. \A b \in Accounts : left[b] \in Nat /\ left'[b] \in Nat /\ left'[b] <= left[b]
  <2>1. left \in [Accounts -> Nat]
    BY DEF PoolInv, CooldownsOK
  <2> QED BY <1>3, <2>1
<1>5. UNCHANGED <<cooldowns, currentIndex, failed>>
  BY <1>1 DEF Deletes
<1>6. Within(left', cooldowns, failed)
  <2> SUFFICES ASSUME NEW b \in Accounts \ failed, cooldowns[b] # Nothing
               PROVE  left'[b] <= cooldowns[b]
    BY DEF Within
  <2>1. left[b] <= cooldowns[b] /\ cooldowns[b] \in Nat
    BY DEF PoolInv, CooldownsOK, Within
  <2> QED BY <1>4, <2>1
<1>7. cache' # Nothing => CopyOK(cache', left', cooldowns, failed)
  <2> SUFFICES ASSUME cache' # Nothing PROVE CopyOK(cache', left', cooldowns, failed)
    OBVIOUS
  <2>1. cache' = cache /\ CopyOK(cache, left, cooldowns, failed)
    BY <1>1 DEF PoolInv, CooldownsOK
  <2>2. cache.left \in [Accounts -> Nat]
    BY <2>1 DEF CopyOK, Copy
  <2>3. IsFresh(cache, left, cooldowns, failed) => IsFresh(cache, left', cooldowns, failed)
    <3> SUFFICES ASSUME IsFresh(cache, left, cooldowns, failed), NEW b \in Accounts
                 PROVE  left'[b] <= cache.left[b]
      BY DEF IsFresh
    <3>1. left[b] <= cache.left[b] /\ cache.left[b] \in Nat
      BY <2>2 DEF IsFresh
    <3> QED BY <1>4, <3>1
  <2> QED BY <2>1, <2>3 DEF CopyOK
<1> QED BY <1>2, <1>3, <1>5, <1>6, <1>7 DEF PoolInv, CooldownsOK

LEMMA WrittenKeeps ==
  ASSUME PoolInv, NEW a \in Accounts,
         \/ ClearAccountCooldown(a) \/ GetAccountCooldownInfo(a)
         \/ \E d \in Duration : MarkAccountRateLimited(a, d)
  PROVE  PoolInv'
<1>1. CooldownsOK(left, cache, cooldowns, failed)
  BY DEF PoolInv
<1>2. CASE ClearAccountCooldown(a)
  <2>1. PICK ok \in BOOLEAN : Stored(a, 0, ok, cache)
    BY <1>2 DEF ClearAccountCooldown
  <2>2. CooldownsOK(left', cache', cooldowns', failed')
    BY <1>1, <1>2, <2>1, StoredIsOK DEF ClearAccountCooldown
  <2> QED BY <1>2, <2>2 DEF ClearAccountCooldown, PoolInv
<1>3. CASE GetAccountCooldownInfo(a)
  <2>1. CooldownsOK(left', cache', cooldowns', failed')
    BY <1>1, <1>3, ConsultedIsOK DEF GetAccountCooldownInfo
  <2> QED BY <1>3, <2>1 DEF GetAccountCooldownInfo, PoolInv
<1>4. CASE \E d \in Duration : MarkAccountRateLimited(a, d)
  <2>1. PICK d \in Duration : MarkAccountRateLimited(a, d)
    BY <1>4
  <2>2. PICK ok \in BOOLEAN : Stored(a, d, ok, cache)
    BY <2>1 DEF MarkAccountRateLimited
  <2>3. d \in Nat
    BY AccountPoolAssumption
  <2>4. CooldownsOK(left', cache', cooldowns', failed')
    BY <1>1, <2>1, <2>2, <2>3, StoredIsOK DEF MarkAccountRateLimited
  <2> QED BY <2>1, <2>4 DEF MarkAccountRateLimited, PoolInv
<1> QED BY <1>2, <1>3, <1>4

LEMMA LessIsLess ==
  /\ \A n \in Nat : Less(n) \in Nat
  /\ \A m, n \in Nat : m <= n => Less(m) <= Less(n)
  /\ Less(Nothing) = Nothing
BY AccountPoolAssumption DEF Less

LEMMA TimeKeeps ==
  ASSUME PoolInv, TimePasses PROVE PoolInv'
<1>1. CooldownsOK(left, cache, cooldowns, failed)
  BY DEF PoolInv
<1>2. left' = [a \in Accounts |-> Less(left[a])] /\ left' \in [Accounts -> Nat]
  BY <1>1, LessIsLess DEF TimePasses, CooldownsOK
<1>3. PICK e : e = [a \in Accounts |-> Less(cooldowns[a])]
  OBVIOUS
<1>4. /\ e = cooldowns' /\ e \in [Accounts -> Nat \union {Nothing}]
      /\ \A a \in Accounts : e[a] # Nothing => cooldowns[a] # Nothing /\ cooldowns[a] \in Nat
  BY <1>1, <1>3, LessIsLess DEF TimePasses, CooldownsOK
<1>5. ASSUME NEW x \in [Accounts -> Nat], Within(x, cooldowns, failed)
      PROVE  Within([a \in Accounts |-> Less(x[a])], e, failed)
  <2> SUFFICES ASSUME NEW a \in Accounts \ failed, e[a] # Nothing
               PROVE  Less(x[a]) <= e[a]
    BY DEF Within
  <2>1. x[a] <= cooldowns[a] /\ x[a] \in Nat /\ cooldowns[a] \in Nat
    BY <1>4, <1>5 DEF Within
  <2> QED BY <1>3, <2>1, LessIsLess
<1>6. failed' = failed /\ rows' = rows /\ currentIndex' = currentIndex
  BY DEF TimePasses
<1>7. cache' # Nothing => CopyOK(cache', left', e, failed)
  <2> SUFFICES ASSUME cache' # Nothing PROVE CopyOK(cache', left', e, failed)
    OBVIOUS
  <2>1. cache # Nothing /\ CopyOK(cache, left, cooldowns, failed) /\ cache \in Copy
    BY <1>1 DEF TimePasses, CooldownsOK, CopyOK
  <2>2. CASE cache.age = Ttl
    <3>1. cache' = cache
      BY <2>2 DEF TimePasses
    <3>2. ~(cache.age < Ttl)
      BY <2>2, AccountPoolAssumption
    <3> QED BY <2>1, <3>1, <3>2 DEF CopyOK
  <2>3. CASE cache.age # Ttl
    <3>1. PICK l : l = [a \in Accounts |-> Less(cache.left[a])]
      OBVIOUS
    <3>2. cache' = [cache EXCEPT !.left = l, !.age = @ + 1]
      BY <2>1, <2>3, <3>1 DEF TimePasses
    <3>3. cache.left \in [Accounts -> Nat] /\ cache.age \in Nat /\ Ttl \in Nat
      BY <2>1, AccountPoolAssumption DEF Copy
    <3>4. l \in [Accounts -> Nat]
      BY <3>1, <3>3, LessIsLess
    <3>5. /\ cache' \in Copy /\ cache'.rows = cache.rows /\ cache'.left = l
          /\ cache'.age = cache.age + 1
      <4>1. PICK n \in Nat : n = cache.age + 1
        BY <3>3
      <4>2. cache' = [cache EXCEPT !.left = l, !.age = n]
        BY <3>2, <4>1
      <4>3. cache' = [rows |-> cache.rows, left |-> l, age |-> n] /\ cache.rows \in Seq(Accounts)
        BY <2>1, <4>2 DEF Copy
      <4> QED BY <3>4, <4>1, <4>3 DEF Copy
    <3>6. ASSUME cache'.age < Ttl
          PROVE  IsFresh(cache', left', e, failed)
      <4>1. IsFresh(cache, left, cooldowns, failed)
        BY <2>1, <3>3, <3>5, <3>6 DEF CopyOK
      <4>2. Within(l, e, failed)
        BY <1>5, <3>1, <3>3, <4>1 DEF IsFresh
      <4>3. \A a \in Accounts : left'[a] <= l[a]
        BY <1>1, <1>2, <3>1, <3>3, <4>1, LessIsLess DEF IsFresh, CooldownsOK
      <4> QED BY <3>5, <4>2, <4>3 DEF IsFresh
    <3> QED BY <2>1, <3>5, <3>6 DEF CopyOK
  <2> QED BY <2>2, <2>3
<1>8. Within(left', e, failed)
  BY <1>1, <1>2, <1>5 DEF CooldownsOK
<1> QED BY <1>1, <1>2, <1>4, <1>6, <1>7, <1>8 DEF PoolInv, CooldownsOK

LEMMA RestartKeeps ==
  ASSUME PoolInv, Restart PROVE PoolInv'
BY DEF PoolInv, Restart, CooldownsOK, Within

LEMMA PoolStepKeeps == PoolInv /\ [PoolNext]_poolVars => PoolInv'
<1> SUFFICES ASSUME PoolInv, [PoolNext]_poolVars PROVE PoolInv'
  OBVIOUS
<1>1. CASE Load
  BY <1>1, LoadKeeps
<1>2. CASE TimePasses
  BY <1>2, TimeKeeps
<1>3. CASE Restart
  BY <1>3, RestartKeeps
<1>4. CASE \E table \in EnvSynced :
             \/ GetNextAccount(table)
             \/ \E tried \in SUBSET Accounts : GetNextAvailableAccount(tried, table)
  BY <1>4, ChoiceIsOK
<1>5. CASE \E a \in Roaming :
             AddAccount(a) \/ RemoveAccount(a) \/ AddedOutside(a) \/ RemovedOutside(a)
  BY <1>5, InsertionKeeps, PoolDeletionKeeps, AccountPoolAssumption
<1>6. CASE \E a \in Accounts :
             \/ ClearAccountCooldown(a) \/ GetAccountCooldownInfo(a)
             \/ \E d \in Duration : MarkAccountRateLimited(a, d)
  BY <1>6, WrittenKeeps
<1>7. CASE UNCHANGED poolVars
  BY <1>7 DEF PoolInv, poolVars
<1> QED BY <1>1, <1>2, <1>3, <1>4, <1>5, <1>6, <1>7 DEF PoolNext

(* Whatever runs in the table, or in a copy of it that may still be read,   *)
(* runs as long in memory, if memory has an entry for the account and its   *)
(* last write went well; and the copy runs at least as long as the table.   *)
THEOREM PoolInvariant == PoolSpec => []PoolInv
<1> QED BY PoolInitially, PoolStepKeeps, PTL DEF PoolSpec

-----------------------------------------------------------------------------
(* Cooling accounts, running cooldowns and the rotation *)

(* The rotation comes to every account, wherever it starts.                 *)
LEMMA TurnComes ==
  ASSUME NEW order \in Seq(Accounts), NEW a \in ToSet(order), NEW c \in Nat
  PROVE  \E i \in 0 .. Len(order) - 1 : order[((c + i) % Len(order)) + 1] = a
<1>1. PICK j \in 1 .. Len(order) : order[j] = a
  BY ToSetMembers
<1>2. PICK n \in Nat \ {0} : n = Len(order)
  BY <1>1
<1>3. PICK m \in 0 .. n - 1 : m + 1 = j
  <2>1. j - 1 \in 0 .. n - 1 /\ (j - 1) + 1 = j
    BY <1>2
  <2> QED BY <2>1
<1>4. PICK i \in 0 .. n - 1 : (c + i) % n = m
  BY AroundReaches
<1> QED BY <1>1, <1>2, <1>3, <1>4

(* An account is chosen while it cools only if nothing else could be.       *)
LEMMA ChoiceHonours ==
  ASSUME PoolInv, NEW tried \in SUBSET Accounts, NEW table \in EnvSynced,
         NEW c, c = Loaded(table), NEW p, p = Picked(c.rows, Synced(c), tried),
         p # Nothing, p \notin failed, c.left[p] > 0,
         NEW a \in ToSet(c.rows) \ (tried \union failed), c.left[a] = 0
  PROVE  FALSE
<1>1. PICK order \in Seq(Accounts) : order = c.rows
  BY LoadedIsFresh DEF Copy
<1>2. PICK e : e = Synced(c)
  OBVIOUS
<1>3. IsFresh(c, left, e, failed) /\ c \in Copy
  BY <1>2, LoadedIsFresh, SyncedIsOK DEF PoolInv
<1>4. Within(c.left, e, failed) /\ c.left \in [Accounts -> Nat]
  BY <1>3 DEF IsFresh, Copy
<1>5. PICK i \in 0 .. Len(order) - 1 : order[Position(order, i)] = a
  <2>1. order \in Seq(Accounts) /\ a \in ToSet(order)
    BY <1>1
  <2>2. PICK k \in Nat : k = currentIndex
    BY DEF PoolInv
  <2>3. PICK i \in 0 .. Len(order) - 1 : order[((k + i) % Len(order)) + 1] = a
    <3>1. \A v \in Nat :
            \E i \in 0 .. Len(order) - 1 : order[((v + i) % Len(order)) + 1] = a
      BY <2>1, TurnComes
    <3> QED BY <3>1
  <2> QED BY <2>2, <2>3 DEF Position
<1>6. e[a] = Nothing
  <2>1. a \in Accounts /\ a \in ToSet(c.rows)
    BY <1>1, ToSetMembers
  <2> QED BY <1>2, <2>1 DEF Synced
<1>7. PICK t : t = FirstFree(order, e, tried)
  OBVIOUS
<1>8. t # Nothing
  BY <1>5, <1>6, <1>7, TurnIsFirst DEF Free
<1>9. t \in 0 .. Len(order) - 1 /\ Free(e, order[Position(order, t)])
  BY <1>7, <1>8, TurnIsFirst
<1>10. p = order[Position(order, t)]
  BY <1>1, <1>2, <1>5, <1>7, <1>8 DEF Picked
<1>11. Position(order, t) \in 1 .. Len(order) /\ p \in Accounts /\ p \in ToSet(order)
  BY <1>9, <1>10, PositionInOrder, ToSetMembers DEF PoolInv
<1>12. e[p] # Nothing
  <2>1. c.left[p] # 0
    BY <1>4, <1>11
  <2>2. e[p] = Nothing => cooldowns[p] = Nothing /\ e[p] = c.left[p]
    BY <1>1, <1>2, <1>11, <2>1 DEF Synced
  <2>3. c.left[p] # Nothing
    BY <1>4, <1>11, AccountPoolAssumption
  <2> QED BY <2>2, <2>3
<1>13. e[p] = 0
  BY <1>9, <1>10, <1>12 DEF Free
<1> QED BY <1>4, <1>11, <1>12, <1>13 DEF Within

(* A choice falls on an account that is cooling only if all others it could *)
(* return are cooling too, whatever memory holds.                           *)
THEOREM CoolingChosenLast == PoolSpec => CoolingAccountsAreLast
<1> DEFINE Honours ==
      \A tried \in SUBSET Accounts, table \in EnvSynced :
        LET known == Loaded(table)
            picked == Picked(known.rows, Synced(known), tried)
        IN  /\ picked # Nothing /\ picked \notin failed /\ known.left[picked] > 0
            /\ \E a \in ToSet(known.rows) \ (tried \union failed) : known.left[a] = 0
            => ~Choice(tried, table)
<1>1. PoolInv => Honours
  BY ChoiceHonours
<1>2. PoolInv /\ [PoolNext]_poolVars => [Honours]_poolVars
  BY <1>1
<1> QED BY <1>2, PoolInvariant, PTL DEF PoolSpec, CoolingAccountsAreLast

(* Looking a cooldown up and choosing an account never erase one that still *)
(* runs, unless its last write failed.                                     *)
THEOREM RunningCooldownsKept == PoolSpec => RunningCooldownsAreKept
<1> DEFINE Erases == \E a \in Accounts \ failed : left[a] > 0 /\ left'[a] # left[a]
           Kept == Erases =>
             /\ \A a \in Accounts : ~GetAccountCooldownInfo(a)
             /\ \A tried \in SUBSET Accounts, table \in EnvSynced : ~Choice(tried, table)
<1>1. ASSUME PoolInv, NEW a \in Accounts, GetAccountCooldownInfo(a)
      PROVE  ~Erases
  <2>1. CooldownsOK(left, cache, cooldowns, failed) /\ Consulted(a, cooldowns, cache)
    BY <1>1 DEF PoolInv, GetAccountCooldownInfo
  <2> QED BY <2>1, ConsultedIsOK
<1>2. ASSUME PoolInv, NEW tried \in SUBSET Accounts, NEW table \in EnvSynced,
             Choice(tried, table)
      PROVE  ~Erases
  <2>1. GetNextAccount(table) \/ GetNextAvailableAccount(tried, table)
    BY <1>2 DEF Choice
  <2> QED BY <1>2, <2>1, ChoiceIsOK
<1>3. PoolInv => Kept
  BY <1>1, <1>2
<1>4. PoolInv /\ [PoolNext]_poolVars => [Kept]_poolVars
  BY <1>3
<1> QED BY <1>4, PoolInvariant, PTL DEF PoolSpec, RunningCooldownsAreKept

LEMMA DistanceIsTurn ==
  ASSUME NEW order \in Seq(Accounts), NoDuplicates(order), NEW c \in Nat,
         NEW i \in 0 .. Len(order) - 1, NEW a, order[((c + i) % Len(order)) + 1] = a
  PROVE  Distance(order, c, a) = i
<1>1. PICK n \in Nat \ {0} : n = Len(order)
  OBVIOUS
<1>2. ASSUME NEW j \in 0 .. n - 1, order[((c + j) % n) + 1] = a
      PROVE  j = i
  <2>1. PICK x \in 0 .. n - 1 : x = (c + i) % n
    <3>1. c + i \in Nat
      BY <1>1
    <3> QED BY <3>1, Division
  <2>2. PICK y \in 0 .. n - 1 : y = (c + j) % n
    <3>1. c + j \in Nat
      OBVIOUS
    <3> QED BY <3>1, Division
  <2>3. x + 1 \in 1 .. Len(order) /\ y + 1 \in 1 .. Len(order) /\ order[x + 1] = order[y + 1]
    BY <1>1, <1>2, <2>1, <2>2
  <2>4. x = y
    BY <2>3 DEF NoDuplicates
  <2>5. (c + i) % n = (c + j) % n /\ i \in 0 .. n - 1
    BY <1>1, <2>1, <2>2, <2>4
  <2> QED BY <2>5, AroundOnce
<1>3. \E j \in 0 .. Len(order) - 1 : order[((c + j) % Len(order)) + 1] = a
  OBVIOUS
<1>4. \A j \in 0 .. Len(order) - 1 : order[((c + j) % Len(order)) + 1] = a => j = i
  BY <1>1, <1>2
<1> QED BY <1>3, <1>4 DEF Distance

(* A choice that passes a free account over brings its turn closer.         *)
LEMMA ChoiceRotates ==
  ASSUME PoolInv, NEW tried \in SUBSET Accounts, NEW table \in EnvSynced,
         NEW idle, Chooses(tried, table, idle),
         NEW c, c = Loaded(table), NEW e, e = Synced(c),
         NEW a \in ToSet(c.rows) \ (tried \union {Picked(c.rows, e, tried)}), Free(e, a)
  PROVE  ~(Distance(c.rows, currentIndex', a) >= Distance(c.rows, currentIndex, a))
<1>1. PICK order \in Seq(Accounts) : order = c.rows /\ NoDuplicates(order)
  BY LoadedIsFresh DEF Copy
<1>2. PICK k \in Nat : k = currentIndex
  BY DEF PoolInv
<1>3. a \in ToSet(order)
  BY <1>1
<1>4. PICK i \in 0 .. Len(order) - 1 : order[((k + i) % Len(order)) + 1] = a
  BY <1>3, TurnComes
<1>5. PICK t : t = FirstFree(order, e, tried)
  OBVIOUS
<1>6. order[Position(order, i)] = a
  BY <1>2, <1>4 DEF Position
<1>7. t # Nothing /\ t <= i
  BY <1>5, <1>6, TurnIsFirst
<1>8. t \in 0 .. Len(order) - 1
  BY <1>5, <1>7, TurnIsFirst
<1>9. order # <<>>
  BY <1>4
<1>10. Picked(order, e, tried) = order[Position(order, t)]
  BY <1>5, <1>7, <1>9 DEF Picked
<1>11. t < i
  BY <1>1, <1>6, <1>7, <1>8, <1>10
<1>12. PICK n \in Nat \ {0} : n = Len(order)
  BY <1>9
<1>13. currentIndex' = (k + t + 1) % n
  BY <1>1, <1>2, <1>5, <1>7, <1>9, <1>12 DEF Chooses, NextIndex
<1>14. PICK m \in 0 .. n - 1 : m = (k + t + 1) % n
  <2>1. PICK s \in Nat : s = k + t + 1
    BY <1>8
  <2>2. s % n \in 0 .. n - 1
    BY <2>1, Division
  <2> QED BY <2>1, <2>2
<1>15. PICK d \in 0 .. n - 1 : d = i - t - 1 /\ d < i
  BY <1>8, <1>11, <1>12
<1>16. (m + d) % n = (k + i) % n
  <2>1. t \in 0 .. n - 1 /\ i \in 0 .. n - 1
    BY <1>8, <1>12
  <2>2. (((k + t + 1) % n) + (i - t - 1)) % n = (k + i) % n
    BY <1>11, <2>1, AroundOn, Zenon
  <2> QED BY <1>14, <1>15, <2>2, Zenon
<1>17. order[((m + d) % n) + 1] = a
  BY <1>4, <1>12, <1>16
<1>18. Distance(order, k, a) = i
  <2>1. order \in Seq(Accounts) /\ NoDuplicates(order) /\ k \in Nat
    BY <1>1
  <2>2. i \in 0 .. Len(order) - 1 /\ order[((k + i) % Len(order)) + 1] = a
    BY <1>4
  <2>3. \A j \in 0 .. Len(order) - 1 :
          order[((k + j) % Len(order)) + 1] = a => Distance(order, k, a) = j
    BY <2>1, DistanceIsTurn
  <2> QED BY <2>2, <2>3
<1>19. Distance(order, m, a) = d
  <2>1. order \in Seq(Accounts) /\ NoDuplicates(order) /\ m \in Nat
    BY <1>1
  <2>2. d \in 0 .. Len(order) - 1 /\ order[((m + d) % Len(order)) + 1] = a
    BY <1>12, <1>17
  <2>3. \A j \in 0 .. Len(order) - 1 :
          order[((m + j) % Len(order)) + 1] = a => Distance(order, m, a) = j
    BY <2>1, DistanceIsTurn
  <2> QED BY <2>2, <2>3
<1> QED BY <1>1, <1>2, <1>13, <1>14, <1>15, <1>18, <1>19

(* No account starves: every choice that passes a free account over brings  *)
(* its turn closer, wherever earlier choices left the index.               *)
THEOREM RotatesFairly == PoolSpec => RotationIsRoundRobin
<1> DEFINE Rotates ==
      \A tried \in SUBSET Accounts, table \in EnvSynced :
        LET known == Loaded(table)
            entries == Synced(known)
            others == ToSet(known.rows) \ (tried \union {Picked(known.rows, entries, tried)})
        IN  (\E a \in others :
               /\ Free(entries, a)
               /\ Distance(known.rows, currentIndex', a)
                    >= Distance(known.rows, currentIndex, a))
            => ~Choice(tried, table)
<1>1. ASSUME PoolInv, NEW tried \in SUBSET Accounts, NEW table \in EnvSynced,
             Choice(tried, table), NEW c, c = Loaded(table),
             NEW a \in ToSet(c.rows) \ (tried \union {Picked(c.rows, Synced(c), tried)}),
             Free(Synced(c), a)
      PROVE  ~(Distance(c.rows, currentIndex', a) >= Distance(c.rows, currentIndex, a))
  <2>1. PICK idle : Chooses(tried, table, idle)
    BY <1>1 DEF Choice, GetNextAccount, GetNextAvailableAccount
  <2> QED BY <1>1, <2>1, ChoiceRotates
<1>2. PoolInv => Rotates
  BY <1>1
<1>3. PoolInv /\ [PoolNext]_poolVars => [Rotates]_poolVars
  BY <1>2
<1> QED BY <1>3, PoolInvariant, PTL DEF PoolSpec, RotationIsRoundRobin
=============================================================================
