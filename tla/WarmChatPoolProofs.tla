------------------------- MODULE WarmChatPoolProofs -------------------------
(***************************************************************************)
(* A leased chat is leased once, and pools keep their size.  The reason is  *)
(* what the refill knows of its own pool: while it waits for the list, the  *)
(* pool only shrinks, so what was in it at the beginning and what is in      *)
(* flight now are all the chats that may not be added.                     *)
(***************************************************************************)
EXTENDS WarmChatPool, QueueLemmas, FiniteSetTheorems

(* The pool q of model m, its refill f, and the marks of chats in flight. *)
PoolOK(m, q, f, marks) ==
  /\ Len(q) <= PoolSize
  /\ NoDuplicates(q)
  /\ \A c \in ToSet(q) : <<m, c>> \notin marks
  /\ f.pc \in {"listing", "listed"} => ToSet(q) \subseteq f.existing
  /\ f.pc \in {"creating", "made"} => Len(q) < PoolSize
  /\ f.pc = "made" => f.chat \in Chat /\ f.chat \notin ToSet(q) /\ <<m, f.chat>> \notin marks

Leased(l) == l.pc \in {"ready", "streaming"} /\ l.leased

(* The locals l of a request. *)
LocalOK(l, marks) ==
  /\ l.pc \notin {"idle", "creating"} => l.chat \in Chat
  /\ l.pc \in {"creating", "made"} => ~l.leased
  /\ l.pc = "ended" => l.released
  /\ Leased(l) => ~l.released /\ <<l.model, l.chat>> \in marks

Distinct(locals) ==
  \A r, s \in Request :
    r # s /\ Leased(locals[r]) /\ Leased(locals[s]) /\ locals[r].model = locals[s].model =>
      locals[r].chat # locals[s].chat

IInv ==
  /\ TypeOK
  /\ \A m \in Model : PoolOK(m, pool[m], refill[m], inFlight)
  /\ \A r \in Request : LocalOK(req[r], inFlight)
  /\ Distinct(req)

-----------------------------------------------------------------------------

LEMMA InitialRecords ==
  /\ NoRefill \in Refill /\ Idle \in Local
  /\ \A marks : LocalOK(Idle, marks)
  <1>1. (CHOOSE m \in Model : TRUE) \in Model
    BY WarmChatPoolAssumption
  <1>2. QED
    BY <1>1 DEF NoRefill, Refill, Idle, Local, LocalOK, Leased

LEMMA EmptyPool ==
  ASSUME NEW m \in Model, NEW marks
  PROVE  PoolOK(m, <<>>, NoRefill, marks)
  <1>1. ToSet(<<>>) = {}
    BY DEF ToSet
  <1>2. QED
    BY <1>1, WarmChatPoolAssumption DEF PoolOK, NoRefill, NoDuplicates

(* The variables that only the refills' triggers and Qwen depend on. *)
OthersTyped ==
  /\ qwen' \in [Chat -> {"none", "unused", "used"}]
  /\ timer' \subseteq Model
  /\ gaveUp' \subseteq Model

(* A step of a refill, on the pool of its model. *)
LEMMA PoolStepInv ==
  ASSUME IInv, NEW m \in Model, NEW q \in Seq(Chat), NEW f \in Refill,
         PoolOK(m, q, f, inFlight),
         pool' = [pool EXCEPT ![m] = q], refill' = [refill EXCEPT ![m] = f],
         UNCHANGED <<inFlight, req>>, OthersTyped
  PROVE  IInv'
  <1>1. TypeOK'
    BY DEF IInv, TypeOK, OthersTyped
  <1>2. ASSUME NEW n \in Model PROVE PoolOK(n, pool'[n], refill'[n], inFlight')
    <2>1. CASE n = m
      BY <2>1 DEF IInv, TypeOK
    <2>2. CASE n # m
      BY <2>2 DEF IInv, TypeOK
    <2>3. QED
      BY <2>1, <2>2
  <1>3. QED
    BY <1>1, <1>2 DEF IInv

(* A step of a request that leaves the pools and the marks alone. *)
LEMMA QuietStepInv ==
  ASSUME IInv, NEW r \in Request, NEW l \in Local, Becomes(r, l), LocalOK(l, inFlight),
         Leased(l) => Leased(req[r]) /\ l.model = req[r].model /\ l.chat = req[r].chat,
         UNCHANGED <<pool, refill, inFlight>>, OthersTyped
  PROVE  IInv'
  <1>1. req' \in [Request -> Local]
        /\ \A s \in Request : req'[s] = IF s = r THEN l ELSE req[s]
    BY DEF IInv, TypeOK, Becomes
  <1>2. TypeOK'
    BY <1>1 DEF IInv, TypeOK, OthersTyped
  <1>3. \A s \in Request : LocalOK(req'[s], inFlight')
    BY <1>1 DEF IInv
  <1>4. Distinct(req')
    BY <1>1 DEF IInv, Distinct
  <1>5. QED
    BY <1>2, <1>3, <1>4 DEF IInv

(* A step in which a request gives its chat back. *)
LEMMA GivesBackInv ==
  ASSUME IInv, NEW r \in Request, NEW l \in Local, Becomes(r, l), LocalOK(l, {}),
         At(r, "ready") \/ At(r, "streaming") \/ At(r, "ended"), inFlight' = Unmarked(r),
         UNCHANGED <<pool, refill>>, OthersTyped
  PROVE  IInv'
  <1>1. req' \in [Request -> Local]
        /\ \A s \in Request : req'[s] = IF s = r THEN l ELSE req[s]
    BY DEF IInv, TypeOK, Becomes
  <1>2. inFlight' \subseteq inFlight
    BY DEF Unmarked
  <1>3. TypeOK'
    BY <1>1, <1>2 DEF IInv, TypeOK, OthersTyped
  <1>4. \A m \in Model : PoolOK(m, pool'[m], refill'[m], inFlight')
    BY <1>2 DEF IInv, PoolOK
  <1>5. ~Leased(l)
    BY DEF LocalOK
  <1>6. ASSUME NEW s \in Request PROVE LocalOK(req'[s], inFlight')
    <2>1. CASE s = r
      BY <1>1, <1>5, <2>1 DEF LocalOK
    <2>2. CASE s # r
      <3>1. req'[s] = req[s] /\ LocalOK(req[s], inFlight)
        BY <1>1, <2>2 DEF IInv
      <3>2. ASSUME Leased(req[s]) PROVE <<req[s].model, req[s].chat>> \in inFlight'
        <4>1. <<req[s].model, req[s].chat>> \in inFlight
          BY <3>1, <3>2 DEF LocalOK
        <4>2. CASE req[r].leased /\ ~req[r].released
          <5>1. LocalOK(req[r], inFlight) /\ Distinct(req)
            BY DEF IInv
          <5>2. Leased(req[r])
            BY <4>2, <5>1 DEF LocalOK, Leased, At
          <5>3. req[r].model # req[s].model \/ req[r].chat # req[s].chat
            BY <2>2, <3>2, <5>1, <5>2 DEF Distinct
          <5>4. QED
            BY <4>1, <4>2, <5>3 DEF Unmarked
        <4>3. CASE ~(req[r].leased /\ ~req[r].released)
          BY <4>1, <4>3 DEF Unmarked
        <4>4. QED
          BY <4>2, <4>3
      <3>3. QED
        BY <3>1, <3>2 DEF LocalOK
    <2>3. QED
      BY <2>1, <2>2
  <1>7. Distinct(req')
    BY <1>1, <1>5 DEF IInv, Distinct
  <1>8. QED
    BY <1>3, <1>4, <1>6, <1>7 DEF IInv

-----------------------------------------------------------------------------
(* Every action keeps the invariant. *)

LEMMA InitInv == Init => IInv
  <1>1. SUFFICES ASSUME Init PROVE IInv
    OBVIOUS
  <1>2. <<>> \in Seq(Chat)
    OBVIOUS
  <1>3. TypeOK
    BY <1>1, <1>2, InitialRecords DEF Init, TypeOK
  <1>4. Distinct(req)
    BY <1>1 DEF Init, Distinct, Leased, Idle
  <1>5. \A m \in Model : PoolOK(m, pool[m], refill[m], inFlight)
    BY <1>1, EmptyPool DEF Init
  <1>6. \A r \in Request : LocalOK(req[r], inFlight)
    BY <1>1, InitialRecords DEF Init
  <1>7. QED
    BY <1>3, <1>4, <1>5, <1>6 DEF IInv

LEMMA RestartInv ==
  ASSUME IInv, Restart
  PROVE  IInv'
  <1>1. <<>> \in Seq(Chat)
    OBVIOUS
  <1>2. TypeOK'
    BY <1>1, InitialRecords DEF Restart, IInv, TypeOK
  <1>3. Distinct(req')
    BY DEF Restart, Distinct, Leased, Idle
  <1>4. \A m \in Model : PoolOK(m, pool'[m], refill'[m], inFlight')
    BY EmptyPool DEF Restart
  <1>5. \A r \in Request : LocalOK(req'[r], inFlight')
    BY InitialRecords DEF Restart
  <1>6. QED
    BY <1>2, <1>3, <1>4, <1>5 DEF IInv

(* A refill that begins knows the whole pool. *)
LEMMA BeginsWith ==
  ASSUME NEW m \in Model, refill \in [Model -> Refill], NEW q \in Seq(Chat), pool'[m] = q,
         NEW marks, PoolOK(m, q, refill[m], marks), Begins(m), gaveUp \subseteq Model
  PROVE  /\ \E f \in Refill : refill' = [refill EXCEPT ![m] = f] /\ PoolOK(m, q, f, marks)
         /\ gaveUp' \subseteq Model
  <1>1. CASE Low(pool', m) /\ refill[m].pc = "off"
    <2>1. ToSet(q) \subseteq Chat
      BY ToSetMembers
    <2>2. PICK f \in Refill : f = [NoRefill EXCEPT !.pc = "listing", !.existing = ToSet(q)]
      BY <2>1 DEF NoRefill, Refill
    <2>3. PoolOK(m, q, f, marks)
      BY <2>2 DEF PoolOK, NoRefill
    <2>4. QED
      BY <1>1, <2>2, <2>3 DEF Begins
  <1>2. CASE ~(Low(pool', m) /\ refill[m].pc = "off")
    <2>1. PICK f \in Refill : f = refill[m]
      OBVIOUS
    <2>2. refill' = [refill EXCEPT ![m] = f] /\ gaveUp' = gaveUp
      BY <1>2, <2>1 DEF Begins
    <2>3. QED
      BY <2>1, <2>2
  <1>3. QED
    BY <1>1, <1>2

LEMMA TimerFiresInv ==
  ASSUME IInv, NEW m \in Model, TimerFires(m)
  PROVE  IInv'
  <1>1. PICK q \in Seq(Chat) : q = pool[m]
    BY DEF IInv, TypeOK
  <1>2. /\ pool' = [pool EXCEPT ![m] = q] /\ pool'[m] = q
        /\ PoolOK(m, q, refill[m], inFlight)
    BY <1>1 DEF IInv, TypeOK, TimerFires
  <1>3. /\ \E f \in Refill : refill' = [refill EXCEPT ![m] = f] /\ PoolOK(m, q, f, inFlight)
        /\ gaveUp' \subseteq Model
    BY <1>2, BeginsWith DEF IInv, TypeOK, TimerFires
  <1>4. OthersTyped
    BY <1>3 DEF OthersTyped, IInv, TypeOK, TimerFires
  <1>5. QED
    BY <1>2, <1>3, <1>4, PoolStepInv DEF TimerFires

LEMMA QwenListsInv ==
  ASSUME IInv, NEW m \in Model, QwenLists(m)
  PROVE  IInv'
  <1>1. PICK q \in Seq(Chat) : q = pool[m] /\ pool' = [pool EXCEPT ![m] = q]
    BY DEF IInv, TypeOK, QwenLists
  <1>2. PICK list \in SUBSET Chat : list = {c \in Chat : qwen[c] = "unused"}
    OBVIOUS
  <1>3. PICK old \in Refill : old = refill[m] /\ PoolOK(m, q, old, inFlight)
    BY <1>1 DEF IInv, TypeOK
  <1>4. PICK f \in Refill : f = [old EXCEPT !.pc = "listed", !.list = list]
    BY DEF Refill
  <1>5. refill' = [refill EXCEPT ![m] = f]
    BY <1>2, <1>3, <1>4 DEF QwenLists, IInv, TypeOK, Refill
  <1>6. PoolOK(m, q, f, inFlight)
    BY <1>3, <1>4 DEF PoolOK, QwenLists, Refill
  <1>7. OthersTyped
    BY DEF OthersTyped, IInv, TypeOK, QwenLists
  <1>8. QED
    BY <1>1, <1>5, <1>6, <1>7, PoolStepInv DEF QwenLists

(* After chats were added the refill ends, or creates another one. *)
LEMMA GoesOnWith ==
  ASSUME NEW m \in Model, NEW q, pool'[m] = q, GoesOn(m), NEW marks,
         Len(q) <= PoolSize, NoDuplicates(q), \A c \in ToSet(q) : <<m, c>> \notin marks
  PROVE  \E f \in Refill : refill' = [refill EXCEPT ![m] = f] /\ PoolOK(m, q, f, marks)
  <1>1. PICK f \in Refill :
          f = IF Low(pool', m) THEN [NoRefill EXCEPT !.pc = "creating"] ELSE NoRefill
    BY InitialRecords DEF NoRefill, Refill
  <1>2. refill' = [refill EXCEPT ![m] = f]
    BY <1>1 DEF GoesOn
  <1>3. f.pc = "off" \/ (f.pc = "creating" /\ Len(q) < PoolSize)
    BY <1>1 DEF NoRefill, Low
  <1>4. QED
    BY <1>2, <1>3 DEF PoolOK

LEMMA ListArrivesInv ==
  ASSUME IInv, NEW m \in Model, ListArrives(m)
  PROVE  IInv'
  <1>1. PICK q \in Seq(Chat) : q = pool[m] /\ PoolOK(m, q, refill[m], inFlight)
    BY DEF IInv, TypeOK
  <1>2. PICK R \in SUBSET Chat : R = Reusable(m)
    BY DEF Reusable, IInv, TypeOK, Refill
  <1>3. PICK k \in Nat : k = Cardinality(R)
    <2>1. IsFiniteSet(R)
      BY WarmChatPoolAssumption, FS_Subset
    <2>2. QED
      BY <2>1, FS_CardinalityType
  <1>4. PICK missing \in Nat : missing = Missing(m) /\ missing <= PoolSize - Len(q)
    <2>1. Len(q) \in Nat /\ PoolSize \in Nat /\ PoolSize - Len(q) \in Nat
      BY <1>1, WarmChatPoolAssumption DEF PoolOK
    <2>2. Missing(m) = Max({0, PoolSize - Len(q)})
      BY <1>1 DEF Missing
    <2>3. Max({0, PoolSize - Len(q)}) = PoolSize - Len(q)
      BY <2>1 DEF Max
    <2>4. QED
      BY <2>1, <2>2, <2>3
  <1>5. PICK n \in Nat : n = Min({missing, k}) /\ n <= missing
    BY DEF Min
  <1>6. PICK w : /\ w \in [1 .. n -> R] /\ IsInjective(w)
                 /\ pool' = [pool EXCEPT ![m] = @ \o w]
    BY <1>2, <1>3, <1>4, <1>5 DEF ListArrives
  <1>7. w \in Seq(Chat) /\ Len(w) = n /\ NoDuplicates(w) /\ ToSet(w) \subseteq R
    <2>1. w \in Seq(Chat) /\ Len(w) = n
      BY <1>6
    <2>2. NoDuplicates(w)
      BY <1>6, <2>1 DEF NoDuplicates, IsInjective
    <2>3. ToSet(w) \subseteq R
      BY <1>6, <2>1, ToSetMembers
    <2>4. QED
      BY <2>1, <2>2, <2>3
  <1>8. \A c \in R : c \notin ToSet(q) /\ <<m, c>> \notin inFlight
    BY <1>1, <1>2 DEF Reusable, PoolOK, ListArrives
  <1>9. /\ q \o w \in Seq(Chat) /\ Len(q \o w) = Len(q) + n /\ NoDuplicates(q \o w)
        /\ ToSet(q \o w) = ToSet(q) \union ToSet(w)
    <2>1. NoDuplicates(q) /\ ToSet(q) \intersect ToSet(w) = {}
      BY <1>1, <1>7, <1>8 DEF PoolOK
    <2>2. QED
      BY <1>7, <2>1, ConcatMembers
  <1>10. PICK more \in Seq(Chat) :
           /\ more = q \o w
           /\ Len(more) = Len(q) + n /\ NoDuplicates(more)
           /\ ToSet(more) = ToSet(q) \union ToSet(w)
    BY <1>9, Zenon
  <1>11. /\ Len(more) <= PoolSize
         /\ \A c \in ToSet(more) : <<m, c>> \notin inFlight
    <2>1. Len(q) \in Nat /\ PoolSize \in Nat
      BY <1>1, WarmChatPoolAssumption
    <2>2. QED
      BY <1>1, <1>4, <1>5, <1>7, <1>8, <1>10, <2>1 DEF PoolOK
  <1>12. pool' = [pool EXCEPT ![m] = more] /\ pool'[m] = more
    BY <1>1, <1>6, <1>10 DEF IInv, TypeOK
  <1>13. PICK f \in Refill : refill' = [refill EXCEPT ![m] = f] /\ PoolOK(m, more, f, inFlight)
    BY <1>10, <1>11, <1>12, GoesOnWith DEF ListArrives
  <1>14. OthersTyped
    BY DEF OthersTyped, IInv, TypeOK, ListArrives
  <1>15. QED
    BY <1>12, <1>13, <1>14, PoolStepInv DEF ListArrives

LEMMA QwenCreatesForPoolInv ==
  ASSUME IInv, NEW m \in Model, QwenCreatesForPool(m)
  PROVE  IInv'
  <1>1. PICK q \in Seq(Chat) : q = pool[m] /\ pool' = [pool EXCEPT ![m] = q]
    BY DEF IInv, TypeOK, QwenCreatesForPool
  <1>2. PICK c \in Chat :
          QwenCreates(c) /\ refill' = [refill EXCEPT ![m].pc = "made", ![m].chat = c]
    BY DEF QwenCreatesForPool
  <1>3. PICK old \in Refill : old = refill[m] /\ PoolOK(m, q, old, inFlight)
    BY <1>1 DEF IInv, TypeOK
  <1>4. PICK f \in Refill : f = [old EXCEPT !.pc = "made", !.chat = c]
    BY DEF Refill
  <1>5. refill' = [refill EXCEPT ![m] = f]
    BY <1>2, <1>3, <1>4 DEF IInv, TypeOK, Refill
  <1>6. c \notin ToSet(q) /\ <<m, c>> \notin inFlight
    BY <1>1, <1>2 DEF QwenCreates, Referenced
  <1>7. PoolOK(m, q, f, inFlight)
    BY <1>3, <1>4, <1>6 DEF PoolOK, QwenCreatesForPool, Refill
  <1>8. OthersTyped
    BY <1>2 DEF OthersTyped, IInv, TypeOK, QwenCreatesForPool, QwenCreates
  <1>9. QED
    BY <1>1, <1>5, <1>7, <1>8, PoolStepInv DEF QwenCreatesForPool

LEMMA ChatArrivesInv ==
  ASSUME IInv, NEW m \in Model, ChatArrives(m)
  PROVE  IInv'
  <1>1. PICK q \in Seq(Chat) : q = pool[m] /\ PoolOK(m, q, refill[m], inFlight)
    BY DEF IInv, TypeOK
  <1>2. PICK c \in Chat :
          c = refill[m].chat /\ c \notin ToSet(q) /\ <<m, c>> \notin inFlight /\ Len(q) < PoolSize
    BY <1>1 DEF PoolOK, ChatArrives
  <1>3. PICK more \in Seq(Chat) : more = Append(q, c)
    <2>1. Append(q, c) \in Seq(Chat)
      OBVIOUS
    <2>2. QED
      BY <2>1, Zenon
  <1>4. /\ Len(more) = Len(q) + 1 /\ NoDuplicates(more)
        /\ ToSet(more) = ToSet(q) \union {c}
    <2>1. NoDuplicates(q)
      BY <1>1 DEF PoolOK
    <2>2. QED
      BY <1>2, <1>3, <2>1, AppendMembers
  <1>5. /\ Len(more) <= PoolSize
        /\ \A d \in ToSet(more) : <<m, d>> \notin inFlight
    <2>1. Len(q) \in Nat /\ PoolSize \in Nat
      BY WarmChatPoolAssumption
    <2>2. QED
      BY <1>1, <1>2, <1>4, <2>1 DEF PoolOK
  <1>6. pool' = [pool EXCEPT ![m] = more] /\ pool'[m] = more
    BY <1>1, <1>2, <1>3 DEF IInv, TypeOK, ChatArrives
  <1>7. PICK f \in Refill : refill' = [refill EXCEPT ![m] = f] /\ PoolOK(m, more, f, inFlight)
    BY <1>4, <1>5, <1>6, GoesOnWith DEF ChatArrives
  <1>8. OthersTyped
    BY DEF OthersTyped, IInv, TypeOK, ChatArrives
  <1>9. QED
    BY <1>6, <1>7, <1>8, PoolStepInv DEF ChatArrives

LEMMA RefillFailsInv ==
  ASSUME IInv, NEW m \in Model, RefillFails(m)
  PROVE  IInv'
  <1>1. PICK q \in Seq(Chat) : q = pool[m] /\ pool' = [pool EXCEPT ![m] = q]
    BY DEF IInv, TypeOK, RefillFails
  <1>2. PoolOK(m, q, refill[m], inFlight)
    BY <1>1 DEF IInv
  <1>3. PoolOK(m, q, NoRefill, inFlight)
    BY <1>2 DEF PoolOK, NoRefill
  <1>4. OthersTyped
    BY DEF OthersTyped, IInv, TypeOK, RefillFails
  <1>5. QED
    BY <1>1, <1>3, <1>4, InitialRecords, PoolStepInv DEF RefillFails

(* The leased chat leaves the pool and is marked in one step. *)
LEMMA LeasesInv ==
  ASSUME IInv, NEW r \in Request, NEW m \in Model, Leases(r, m)
  PROVE  IInv'
  <1>1. PICK q \in Seq(Chat) :
          q = pool[m] /\ q # <<>> /\ NoDuplicates(q) /\ PoolOK(m, q, refill[m], inFlight)
    BY DEF IInv, TypeOK, PoolOK, Leases
  <1>2. /\ Tail(q) \in Seq(Chat) /\ Len(Tail(q)) = Len(q) - 1 /\ NoDuplicates(Tail(q))
        /\ Head(q) \in Chat /\ Head(q) \in ToSet(q)
        /\ ToSet(Tail(q)) = ToSet(q) \ {Head(q)}
    BY <1>1, TailMembers
  <1>3. PICK c \in Chat, t \in Seq(Chat) :
          /\ c = Head(q) /\ t = Tail(q)
          /\ Len(t) = Len(q) - 1 /\ NoDuplicates(t)
          /\ c \in ToSet(q) /\ ToSet(t) = ToSet(q) \ {c}
    BY <1>2, Zenon
  <1>4. PICK marks \in SUBSET (Model \X Chat) :
          marks = inFlight \union {<<m, c>>} /\ inFlight' = marks
    <2>1. inFlight' = inFlight \union {<<m, c>>}
      BY <1>1, <1>3 DEF Leases
    <2>2. inFlight' \in SUBSET (Model \X Chat)
      BY <2>1 DEF IInv, TypeOK
    <2>3. QED
      BY <2>1, <2>2, Zenon
  <1>5. pool' = [pool EXCEPT ![m] = t] /\ pool'[m] = t
    BY <1>1, <1>3 DEF IInv, TypeOK, Leases
  <1>6. PICK l \in Local :
          l = [Idle EXCEPT !.pc = "ready", !.model = m, !.chat = c, !.leased = TRUE]
    BY InitialRecords DEF Local
  <1>7. Becomes(r, l)
    BY <1>1, <1>3, <1>6 DEF Leases
  <1>8. PoolOK(m, t, refill[m], marks)
    <2>1. Len(q) \in Nat /\ PoolSize \in Nat
      BY WarmChatPoolAssumption
    <2>2. Len(t) <= PoolSize /\ (Len(q) < PoolSize => Len(t) < PoolSize)
      BY <1>1, <1>3, <2>1 DEF PoolOK
    <2>3. QED
      BY <1>1, <1>3, <1>4, <2>2 DEF PoolOK
  <1>9. /\ \E f \in Refill : refill' = [refill EXCEPT ![m] = f] /\ PoolOK(m, t, f, marks)
        /\ gaveUp' \subseteq Model /\ timer' \subseteq Model
    <2>1. refill \in [Model -> Refill] /\ gaveUp \subseteq Model /\ timer \subseteq Model
      BY DEF IInv, TypeOK
    <2>2. CASE Begins(m) /\ UNCHANGED timer
      BY <1>5, <1>8, <2>1, <2>2, BeginsWith
    <2>3. CASE timer' = timer \union {m} /\ UNCHANGED <<refill, gaveUp>>
      BY <1>8, <2>1, <2>3
    <2>4. QED
      BY <2>2, <2>3 DEF Leases
  <1>10. PICK f \in Refill : refill' = [refill EXCEPT ![m] = f] /\ PoolOK(m, t, f, marks)
    BY <1>9
  <1>11. req' \in [Request -> Local]
         /\ \A s \in Request : req'[s] = IF s = r THEN l ELSE req[s]
    BY <1>7 DEF IInv, TypeOK, Becomes
  <1>12. TypeOK'
    BY <1>4, <1>5, <1>9, <1>10, <1>11 DEF IInv, TypeOK, Leases
  <1>13. ASSUME NEW n \in Model PROVE PoolOK(n, pool'[n], refill'[n], inFlight')
    <2>1. CASE n = m
      BY <1>4, <1>5, <1>10, <2>1 DEF IInv, TypeOK
    <2>2. CASE n # m
      <3>1. pool'[n] = pool[n] /\ refill'[n] = refill[n]
        BY <1>5, <1>10, <2>2 DEF IInv, TypeOK
      <3>2. \A d : <<n, d>> \in inFlight' => <<n, d>> \in inFlight
        BY <1>4, <2>2
      <3>3. PoolOK(n, pool[n], refill[n], inFlight)
        BY DEF IInv
      <3>4. QED
        BY <3>1, <3>2, <3>3 DEF PoolOK
    <2>3. QED
      BY <2>1, <2>2
  <1>14. ASSUME NEW s \in Request PROVE LocalOK(req'[s], inFlight')
    <2>1. CASE s = r
      <3>1. l.pc = "ready" /\ l.model = m /\ l.chat = c /\ ~l.released
        BY <1>6, InitialRecords DEF Idle
      <3>2. QED
        BY <1>4, <1>11, <2>1, <3>1 DEF LocalOK
    <2>2. CASE s # r
      BY <1>4, <1>11, <2>2 DEF IInv, LocalOK
    <2>3. QED
      BY <2>1, <2>2
  <1>15. ASSUME NEW s \in Request, Leased(req[s]), req[s].model = m PROVE req[s].chat # c
    <2>1. <<req[s].model, req[s].chat>> \in inFlight
      BY <1>15 DEF IInv, LocalOK
    <2>2. <<m, c>> \notin inFlight
      BY <1>1, <1>3 DEF PoolOK
    <2>3. QED
      BY <1>15, <2>1, <2>2
  <1>16. l.model = m /\ l.chat = c
    BY <1>6, InitialRecords DEF Idle
  <1>17. Distinct(req')
    BY <1>11, <1>15, <1>16 DEF IInv, Distinct
  <1>18. QED
    BY <1>12, <1>13, <1>14, <1>17 DEF IInv

LEMMA CreatesInv ==
  ASSUME IInv, NEW r \in Request, NEW m \in Model, Creates(r, m)
  PROVE  IInv'
  <1>1. PICK l \in Local : l = [Idle EXCEPT !.pc = "creating", !.model = m]
    BY InitialRecords DEF Local
  <1>2. LocalOK(l, inFlight) /\ ~Leased(l)
    BY <1>1, InitialRecords DEF LocalOK, Leased, Idle
  <1>3. OthersTyped
    BY DEF OthersTyped, IInv, TypeOK, Creates
  <1>4. QED
    BY <1>1, <1>2, <1>3, QuietStepInv DEF Creates

LEMMA QwenCreatesForRequestInv ==
  ASSUME IInv, NEW r \in Request, QwenCreatesForRequest(r)
  PROVE  IInv'
  <1>1. PICK old \in Local : old = req[r] /\ ~old.leased
    BY DEF IInv, TypeOK, LocalOK, QwenCreatesForRequest, At
  <1>2. PICK c \in Chat : QwenCreates(c) /\ Becomes(r, [old EXCEPT !.pc = "made", !.chat = c])
    BY <1>1 DEF QwenCreatesForRequest
  <1>3. PICK l \in Local : l = [old EXCEPT !.pc = "made", !.chat = c]
    BY DEF Local
  <1>4. LocalOK(l, inFlight) /\ ~Leased(l)
    BY <1>1, <1>3 DEF LocalOK, Leased, Local
  <1>5. OthersTyped
    BY <1>2 DEF OthersTyped, IInv, TypeOK, QwenCreatesForRequest, QwenCreates
  <1>6. QED
    BY <1>2, <1>3, <1>4, <1>5, QuietStepInv DEF QwenCreatesForRequest

LEMMA CreatedInv ==
  ASSUME IInv, NEW r \in Request, Created(r)
  PROVE  IInv'
  <1>1. PICK old \in Local : old = req[r] /\ LocalOK(old, inFlight)
    BY DEF IInv, TypeOK
  <1>2. PICK l \in Local : l = [old EXCEPT !.pc = "ready"]
    BY DEF Local
  <1>3. Becomes(r, l)
    BY <1>1, <1>2 DEF Created
  <1>4. LocalOK(l, inFlight) /\ ~Leased(l)
    BY <1>1, <1>2 DEF LocalOK, Leased, Local, Created, At
  <1>5. OthersTyped
    BY <1>1 DEF OthersTyped, IInv, TypeOK, Created, Local
  <1>6. QED
    BY <1>3, <1>4, <1>5, QuietStepInv DEF Created

LEMMA CreationFailsInv ==
  ASSUME IInv, NEW r \in Request, CreationFails(r)
  PROVE  IInv'
  <1>1. OthersTyped
    BY DEF OthersTyped, IInv, TypeOK, CreationFails
  <1>2. CASE Becomes(r, Idle)
    <2>1. ~Leased(Idle)
      BY DEF Leased, Idle
    <2>2. QED
      BY <1>1, <1>2, <2>1, InitialRecords, QuietStepInv DEF CreationFails
  <1>3. CASE Becomes(r, [req[r] EXCEPT !.pc = "creating", !.chat = NoChat])
    <2>1. PICK old \in Local : old = req[r] /\ ~old.leased
      BY DEF IInv, TypeOK, LocalOK, CreationFails
    <2>2. PICK l \in Local : l = [old EXCEPT !.pc = "creating", !.chat = NoChat]
      BY DEF Local
    <2>3. LocalOK(l, inFlight) /\ ~Leased(l) /\ Becomes(r, l)
      BY <1>3, <2>1, <2>2 DEF LocalOK, Leased, Local
    <2>4. QED
      BY <1>1, <2>3, QuietStepInv DEF CreationFails
  <1>4. QED
    BY <1>2, <1>3 DEF CreationFails

(* The mark that is left behind concerns nobody's lease. *)
LEMMA FailsOutsideTryInv ==
  ASSUME IInv, NEW r \in Request, FailsOutsideTry(r)
  PROVE  IInv'
  <1>1. OthersTyped
    BY DEF OthersTyped, IInv, TypeOK, FailsOutsideTry
  <1>2. CASE Becomes(r, Idle)
    <2>1. ~Leased(Idle)
      BY DEF Leased, Idle
    <2>2. QED
      BY <1>1, <1>2, <2>1, InitialRecords, QuietStepInv DEF FailsOutsideTry
  <1>3. CASE Becomes(r, [req[r] EXCEPT !.pc = "deleting"])
    <2>1. PICK old \in Local : old = req[r] /\ LocalOK(old, inFlight) /\ old.pc = "ready"
      BY DEF IInv, TypeOK, FailsOutsideTry, At
    <2>2. PICK l \in Local : l = [old EXCEPT !.pc = "deleting"]
      BY DEF Local
    <2>3. LocalOK(l, inFlight) /\ ~Leased(l) /\ Becomes(r, l)
      BY <1>3, <2>1, <2>2 DEF LocalOK, Leased, Local
    <2>4. QED
      BY <1>1, <2>3, QuietStepInv DEF FailsOutsideTry
  <1>4. QED
    BY <1>2, <1>3 DEF FailsOutsideTry

LEMMA MessageArrivesInv ==
  ASSUME IInv, NEW r \in Request, MessageArrives(r)
  PROVE  IInv'
  <1>1. OthersTyped
    BY DEF OthersTyped, IInv, TypeOK, MessageArrives
  <1>2. PICK old \in Local : old = req[r] /\ LocalOK(old, inFlight) /\ old.pc = "ready"
    BY DEF IInv, TypeOK, MessageArrives, At
  <1>3. PICK l \in Local : l = [old EXCEPT !.pc = "streaming"]
    BY DEF Local
  <1>4. /\ LocalOK(l, inFlight) /\ Becomes(r, l)
        /\ Leased(l) => Leased(req[r]) /\ l.model = req[r].model /\ l.chat = req[r].chat
    BY <1>2, <1>3 DEF LocalOK, Leased, Local, MessageArrives
  <1>5. QED
    BY <1>1, <1>4, QuietStepInv DEF MessageArrives

LEMMA EndsInv ==
  ASSUME IInv, NEW r \in Request, Ends(r)
  PROVE  IInv'
  <1>1. OthersTyped
    BY DEF OthersTyped, IInv, TypeOK, Ends
  <1>2. At(r, "ready") \/ At(r, "streaming") \/ At(r, "ended")
    BY DEF Ends, At
  <1>3. CASE Becomes(r, Idle)
    BY <1>1, <1>2, <1>3, InitialRecords, GivesBackInv DEF Ends
  <1>4. CASE Becomes(r, [req[r] EXCEPT !.pc = "deleting", !.released = TRUE])
    <2>1. PICK old \in Local : old = req[r] /\ old.chat \in Chat
      BY <1>2 DEF IInv, TypeOK, LocalOK, At
    <2>2. PICK l \in Local : l = [old EXCEPT !.pc = "deleting", !.released = TRUE]
      BY DEF Local
    <2>3. LocalOK(l, {}) /\ Becomes(r, l)
      BY <1>4, <2>1, <2>2 DEF LocalOK, Leased, Local
    <2>4. QED
      BY <1>1, <1>2, <2>3, GivesBackInv DEF Ends
  <1>5. QED
    BY <1>3, <1>4 DEF Ends

LEMMA IdleTimeoutInv ==
  ASSUME IInv, NEW r \in Request, IdleTimeout(r)
  PROVE  IInv'
  <1>1. OthersTyped
    BY DEF OthersTyped, IInv, TypeOK, IdleTimeout
  <1>2. PICK old \in Local : old = req[r] /\ old.chat \in Chat
    BY DEF IInv, TypeOK, LocalOK, IdleTimeout, At
  <1>3. PICK l \in Local : l = [old EXCEPT !.pc = "ended", !.released = TRUE]
    BY DEF Local
  <1>4. LocalOK(l, {}) /\ Becomes(r, l)
    BY <1>2, <1>3 DEF LocalOK, Leased, Local, IdleTimeout
  <1>5. QED
    BY <1>1, <1>4, GivesBackInv DEF IdleTimeout

LEMMA DeletionEndsInv ==
  ASSUME IInv, NEW r \in Request, DeletionEnds(r)
  PROVE  IInv'
  <1>1. OthersTyped
    BY DEF OthersTyped, IInv, TypeOK, DeletionEnds
  <1>2. ~Leased(Idle)
    BY DEF Leased, Idle
  <1>3. QED
    BY <1>1, <1>2, InitialRecords, QuietStepInv DEF DeletionEnds

LEMMA NextInv == IInv /\ [Next]_vars => IInv'
  <1>1. SUFFICES ASSUME IInv, [Next]_vars PROVE IInv'
    OBVIOUS
  <1>2. CASE UNCHANGED vars
    BY <1>1, <1>2 DEF vars, IInv, TypeOK
  <1>3. ASSUME NEW r \in Request, RequestStep(r) PROVE IInv'
    BY <1>1, <1>3, LeasesInv, CreatesInv, QwenCreatesForRequestInv, CreatedInv, CreationFailsInv,
       FailsOutsideTryInv, MessageArrivesInv, EndsInv, IdleTimeoutInv, DeletionEndsInv
    DEF RequestStep
  <1>4. ASSUME NEW m \in Model, RefillStep(m) PROVE IInv'
    BY <1>1, <1>4, TimerFiresInv, QwenListsInv, ListArrivesInv, QwenCreatesForPoolInv,
       ChatArrivesInv, RefillFailsInv DEF RefillStep
  <1>5. CASE Restart
    BY <1>1, <1>5, RestartInv
  <1>6. QED
    BY <1>1, <1>2, <1>3, <1>4, <1>5 DEF Next

-----------------------------------------------------------------------------

(* What the pools, the refills, the marks and the requests know of each    *)
(* other holds in every reachable state.                                   *)
THEOREM PoolInvariant == Spec => []IInv
  <1>1. QED
    BY InitInv, NextInv, PTL DEF Spec

(* The variables of the warm pools have their types. *)
THEOREM PoolTypeCorrect == Spec => []TypeOK
  <1>1. IInv => TypeOK
    BY DEF IInv
  <1>2. QED
    BY <1>1, PoolInvariant, PTL

(* However requests, lists and creations interleave, acquireNewQwenChatSession *)
(* leases a chat to one request at a time, and refillQwenChatPool does not put *)
(* a leased chat back into its pool.                                       *)
THEOREM LeasesExclusive == Spec => []LeasesAreExclusive
  <1>1. ASSUME IInv PROVE LeasesAreExclusive
    <2>1. SUFFICES ASSUME NEW r \in Request, Leased(req[r])
                   PROVE  /\ req[r].chat \notin ToSet(pool[req[r].model])
                          /\ \A s \in Request \ {r} :
                               Leased(req[s]) /\ req[s].model = req[r].model =>
                                 req[s].chat # req[r].chat
      BY DEF LeasesAreExclusive, Holds, Leased
    <2>2. PICK m \in Model : m = req[r].model
      BY <1>1 DEF IInv, TypeOK, Local
    <2>3. <<m, req[r].chat>> \in inFlight
      BY <1>1, <2>1, <2>2 DEF IInv, LocalOK
    <2>4. PoolOK(m, pool[m], refill[m], inFlight)
      BY <1>1 DEF IInv
    <2>5. req[r].chat \notin ToSet(pool[m])
      BY <2>3, <2>4 DEF PoolOK
    <2>6. QED
      BY <1>1, <2>1, <2>2, <2>5 DEF IInv, Distinct
  <1>2. QED
    BY <1>1, PoolInvariant, PTL

(* The answers of refillQwenChatPool never take a pool over chatPoolSize, and *)
(* no chat is in a pool twice, although its length is read long before.    *)
THEOREM PoolsBounded == Spec => []PoolsAreBounded
  <1>1. ASSUME IInv PROVE PoolsAreBounded
    <2>1. SUFFICES ASSUME NEW m \in Model
                   PROVE  Len(pool[m]) <= PoolSize /\ IsInjective(pool[m])
      BY DEF PoolsAreBounded
    <2>2. PICK q \in Seq(Chat) : q = pool[m]
      BY <1>1 DEF IInv, TypeOK
    <2>3. Len(q) <= PoolSize /\ NoDuplicates(q)
      BY <1>1, <2>2 DEF IInv, PoolOK
    <2>4. IsInjective(q)
      BY <2>3 DEF NoDuplicates, IsInjective
    <2>5. QED
      BY <2>2, <2>3, <2>4
  <1>2. QED
    BY <1>1, PoolInvariant, PTL

-----------------------------------------------------------------------------
(* A low pool is being refilled, or will be *)

WillBeRefilled(m) == Low(pool, m) => refill[m].pc # "off" \/ m \in timer \union gaveUp

(* The pool of a model that a step does not touch. *)
LEMMA UntouchedPool ==
  ASSUME NEW m \in Model, WillBeRefilled(m), pool'[m] = pool[m], refill'[m] = refill[m],
         m \in timer \union gaveUp => m \in timer' \union gaveUp'
  PROVE  WillBeRefilled(m)'
  BY DEF WillBeRefilled, Low

LEMMA UntouchedPools ==
  ASSUME \A m \in Model : WillBeRefilled(m), UNCHANGED <<pool, refill, gaveUp>>,
         timer \subseteq timer'
  PROVE  \A m \in Model : WillBeRefilled(m)'
  BY UntouchedPool

(* Begins leaves no low pool of its model behind, and no other model is      *)
(* concerned.                                                              *)
LEMMA BeginsRefills ==
  ASSUME TypeOK, \A n \in Model : WillBeRefilled(n), NEW m \in Model, Begins(m),
         \A n \in Model : n # m => pool'[n] = pool[n] /\ (n \in timer => n \in timer')
  PROVE  \A n \in Model : WillBeRefilled(n)'
  <1>1. refill \in [Model -> Refill]
    BY DEF TypeOK
  <1>2. CASE Low(pool', m) /\ refill[m].pc = "off"
    <2>1. PICK f : f = [NoRefill EXCEPT !.pc = "listing", !.existing = ToSet(pool'[m])]
      OBVIOUS
    <2>2. refill' = [refill EXCEPT ![m] = f] /\ gaveUp' = gaveUp \ {m} /\ f.pc = "listing"
      BY <1>2, <2>1 DEF Begins, NoRefill
    <2>3. WillBeRefilled(m)'
      BY <1>1, <2>2 DEF WillBeRefilled
    <2>4. ASSUME NEW n \in Model, n # m PROVE WillBeRefilled(n)'
      BY <1>1, <2>2, <2>4, UntouchedPool
    <2>5. QED
      BY <2>3, <2>4
  <1>3. CASE ~(Low(pool', m) /\ refill[m].pc = "off")
    <2>1. refill' = refill /\ gaveUp' = gaveUp
      BY <1>3 DEF Begins
    <2>2. WillBeRefilled(m)'
      BY <1>3, <2>1 DEF WillBeRefilled
    <2>3. ASSUME NEW n \in Model, n # m PROVE WillBeRefilled(n)'
      BY <2>1, <2>3, UntouchedPool
    <2>4. QED
      BY <2>2, <2>3
  <1>4. QED
    BY <1>2, <1>3

(* GoesOn ends the refill of a full pool only. *)
LEMMA GoesOnRefills ==
  ASSUME TypeOK, \A n \in Model : WillBeRefilled(n), NEW m \in Model, GoesOn(m),
         UNCHANGED <<timer, gaveUp>>, NEW q, pool' = [pool EXCEPT ![m] = q]
  PROVE  \A n \in Model : WillBeRefilled(n)'
  <1>1. refill \in [Model -> Refill] /\ pool \in [Model -> Seq(Chat)]
    BY DEF TypeOK
  <1>2. PICK f : /\ f = IF Low(pool', m) THEN [NoRefill EXCEPT !.pc = "creating"] ELSE NoRefill
                 /\ refill' = [refill EXCEPT ![m] = f]
    BY DEF GoesOn
  <1>3. Low(pool', m) => f.pc # "off"
    BY <1>2 DEF NoRefill
  <1>4. WillBeRefilled(m)'
    BY <1>1, <1>2, <1>3 DEF WillBeRefilled
  <1>5. ASSUME NEW n \in Model, n # m PROVE WillBeRefilled(n)'
    BY <1>1, <1>2, <1>5, UntouchedPool
  <1>6. QED
    BY <1>4, <1>5

LEMMA RefillStepRefills ==
  ASSUME TypeOK, \A n \in Model : WillBeRefilled(n), NEW m \in Model, RefillStep(m)
  PROVE  \A n \in Model : WillBeRefilled(n)'
  <1>1. refill \in [Model -> Refill] /\ pool \in [Model -> Seq(Chat)]
    BY DEF TypeOK
  <1>2. CASE TimerFires(m)
    <2>1. Begins(m) /\ pool' = pool /\ timer' \in {timer, timer \ {m}}
      BY <1>2 DEF TimerFires
    <2>2. QED
      BY <2>1, BeginsRefills
  <1>3. CASE QwenLists(m)
    <2>1. refill' = [refill EXCEPT ![m].pc = "listed", ![m].list = {c \in Chat : qwen[c] = "unused"}]
      BY <1>3 DEF QwenLists
    <2>2. refill'[m].pc = "listed" /\ \A n \in Model : n # m => refill'[n] = refill[n]
      BY <1>1, <2>1 DEF Refill
    <2>3. pool' = pool /\ timer' = timer /\ gaveUp' = gaveUp
      BY <1>3 DEF QwenLists
    <2>4. WillBeRefilled(m)'
      BY <2>2 DEF WillBeRefilled
    <2>5. QED
      BY <2>2, <2>3, <2>4, UntouchedPool
  <1>4. CASE ListArrives(m)
    <2>1. PICK q : pool' = [pool EXCEPT ![m] = pool[m] \o q]
      BY <1>4, Zenon DEF ListArrives
    <2>2. GoesOn(m) /\ UNCHANGED <<timer, gaveUp>>
      BY <1>4 DEF ListArrives
    <2>3. PICK w : w = pool[m] \o q
      OBVIOUS
    <2>4. QED
      BY <2>1, <2>2, <2>3, GoesOnRefills
  <1>5. CASE QwenCreatesForPool(m)
    <2>1. PICK c \in Chat : refill' = [refill EXCEPT ![m].pc = "made", ![m].chat = c]
      BY <1>5 DEF QwenCreatesForPool
    <2>2. refill'[m].pc = "made" /\ \A n \in Model : n # m => refill'[n] = refill[n]
      BY <1>1, <2>1 DEF Refill
    <2>3. pool' = pool /\ timer' = timer /\ gaveUp' = gaveUp
      BY <1>5 DEF QwenCreatesForPool
    <2>4. WillBeRefilled(m)'
      BY <2>2 DEF WillBeRefilled
    <2>5. QED
      BY <2>2, <2>3, <2>4, UntouchedPool
  <1>6. CASE ChatArrives(m)
    <2>1. PICK q : q = Append(pool[m], refill[m].chat)
      OBVIOUS
    <2>2. pool' = [pool EXCEPT ![m] = q] /\ GoesOn(m) /\ UNCHANGED <<timer, gaveUp>>
      BY <1>6, <2>1 DEF ChatArrives
    <2>3. QED
      BY <2>2, GoesOnRefills
  <1>7. CASE RefillFails(m)
    <2>1. /\ refill' = [refill EXCEPT ![m] = NoRefill] /\ gaveUp' = gaveUp \union {m}
          /\ pool' = pool /\ timer' = timer
      BY <1>7 DEF RefillFails
    <2>2. WillBeRefilled(m)'
      BY <2>1 DEF WillBeRefilled
    <2>3. ASSUME NEW n \in Model, n # m PROVE WillBeRefilled(n)'
      BY <1>1, <2>1, <2>3, UntouchedPool
    <2>4. QED
      BY <2>2, <2>3
  <1>8. QED
    BY <1>2, <1>3, <1>4, <1>5, <1>6, <1>7 DEF RefillStep

LEMMA RequestStepRefills ==
  ASSUME TypeOK, \A n \in Model : WillBeRefilled(n), NEW r \in Request, RequestStep(r)
  PROVE  \A n \in Model : WillBeRefilled(n)'
  <1>1. refill \in [Model -> Refill] /\ pool \in [Model -> Seq(Chat)]
    BY DEF TypeOK
  <1>2. ASSUME NEW m \in Model, Leases(r, m) PROVE \A n \in Model : WillBeRefilled(n)'
    <2>1. pool' = [pool EXCEPT ![m] = Tail(@)]
      BY <1>2 DEF Leases
    <2>2. \A n \in Model : n # m => pool'[n] = pool[n]
      BY <1>1, <2>1
    <2>3. CASE Begins(m) /\ UNCHANGED timer
      BY <2>2, <2>3, BeginsRefills
    <2>4. CASE timer' = timer \union {m} /\ UNCHANGED <<refill, gaveUp>>
      <3>1. WillBeRefilled(m)'
        BY <2>4 DEF WillBeRefilled
      <3>2. ASSUME NEW n \in Model, n # m PROVE WillBeRefilled(n)'
        BY <2>2, <2>4, <3>2, UntouchedPool
      <3>3. QED
        BY <3>1, <3>2
    <2>5. QED
      BY <1>2, <2>3, <2>4 DEF Leases
  <1>3. ASSUME NEW m \in Model, Creates(r, m) PROVE \A n \in Model : WillBeRefilled(n)'
    BY <1>3, UntouchedPools DEF Creates
  <1>4. CASE Created(r)
    BY <1>4, UntouchedPools DEF Created
  <1>5. CASE \/ QwenCreatesForRequest(r) \/ CreationFails(r) \/ FailsOutsideTry(r)
             \/ MessageArrives(r) \/ Ends(r) \/ IdleTimeout(r) \/ DeletionEnds(r)
    <2>1. UNCHANGED <<pool, refill, timer, gaveUp>>
      BY <1>5 DEF QwenCreatesForRequest, CreationFails, FailsOutsideTry, MessageArrives, Ends,
                  IdleTimeout, DeletionEnds
    <2>2. QED
      BY <2>1, UntouchedPools
  <1>6. QED
    BY <1>2, <1>3, <1>4, <1>5 DEF RequestStep

LEMMA RefilledInit ==
  ASSUME Init
  PROVE  \A m \in Model : WillBeRefilled(m)
  BY DEF Init, WillBeRefilled

LEMMA RefilledNext ==
  ASSUME TypeOK, \A m \in Model : WillBeRefilled(m), [Next]_vars
  PROVE  \A m \in Model : WillBeRefilled(m)'
  <1>1. CASE UNCHANGED vars
    BY <1>1, UntouchedPools DEF vars
  <1>2. ASSUME NEW r \in Request, RequestStep(r) PROVE \A m \in Model : WillBeRefilled(m)'
    BY <1>2, RequestStepRefills
  <1>3. ASSUME NEW m \in Model, RefillStep(m) PROVE \A n \in Model : WillBeRefilled(n)'
    BY <1>3, RefillStepRefills
  <1>4. CASE Restart
    BY <1>4 DEF Restart, WillBeRefilled
  <1>5. QED
    BY <1>1, <1>2, <1>3, <1>4 DEF Next

(* scheduleQwenChatPoolRefill and refillQwenChatPool lose no trigger: a pool *)
(* below chatPoolSize is being refilled or has a timer, unless its last     *)
(* refill failed and nobody asked for a chat since.                        *)
THEOREM LowPoolsRefilled == Spec => []LowPoolsAreRefilled
  <1>1. Init => LowPoolsAreRefilled
    BY RefilledInit DEF WillBeRefilled, LowPoolsAreRefilled
  <1>2. TypeOK /\ LowPoolsAreRefilled /\ [Next]_vars => LowPoolsAreRefilled'
    BY RefilledNext DEF WillBeRefilled, LowPoolsAreRefilled
  <1>3. QED
    BY <1>1, <1>2, PoolTypeCorrect, PTL DEF Spec
=============================================================================
