------------------------ MODULE ThreadContextProofs ------------------------
(***************************************************************************)
(* Turns that are marked as summarized are covered by the last summary, as  *)
(* long as summaries are made one after the other.  The reason: the summary *)
(* in the making that extends the last one covers every turn up to the one  *)
(* it will mark, and no mark was set since it was begun.                   *)
(*                                                                         *)
(* The second half is about the chats: rollovers are complete, sessions     *)
(* with a chat have turns, and deleted chats are continued.  The reason: a  *)
(* request decides by what it read of the tables before its awaits, and the *)
(* tables only grow in what it read.                                       *)
(*                                                                         *)
(* The last part is about Responses: stored responses, the other table that *)
(* outlives the process, stay there; and a stream builds what the answer    *)
(* is converted to at once.                                                *)
(***************************************************************************)
EXTENDS ThreadContext, Responses, QueueLemmas, FiniteSetTheorems, TLAPS

(* The properties of ThreadContext, of tables d and of a summary s in the   *)
(* making.                                                                 *)
ChainedIn(d) == \A i \in 1 .. Latest(d) : d.summaries[i].base = i - 1

CoveredIn(d) == ChainedIn(d) => 1 .. d.marked \subseteq Covered(d, Latest(d))

RunOK(d, s) ==
  /\ s.base <= Latest(d)
  /\ ChainedIn(d) /\ s.base = Latest(d) => 1 .. s.end \subseteq s.covers /\ d.marked <= s.end

DataOK(d) == d \in Database /\ Latest(d) <= MaxSummaries /\ d.marked <= d.turns

RunsOK(d, runs) == runs \in [Runner -> Run] /\ \A w \in Runner : RunOK(d, runs[w])

StoreOK(d, runs) == DataOK(d) /\ CoveredIn(d) /\ RunsOK(d, runs)

IInv ==
  /\ StoreOK(db, run)
  /\ chats \in Chat
  /\ req \in [Request -> Local]

-----------------------------------------------------------------------------
(* Numbers *)

(* The larger and the smaller of two numbers. *)
LEMMA MaxOfTwo ==
  ASSUME NEW a \in Int, NEW b \in Int
  PROVE  Max({a, b}) = IF a >= b THEN a ELSE b
  BY DEF Max

LEMMA MinOfTwo ==
  ASSUME NEW a \in Int, NEW b \in Int
  PROVE  Min({a, b}) = IF a <= b THEN a ELSE b
  BY DEF Min

-----------------------------------------------------------------------------
(* The tables *)

(* Inserting a summary appends it, and marks turns only up to its end. *)
LEMMA InsertedFields ==
  ASSUME NEW d, DataOK(d), Latest(d) < MaxSummaries,
         NEW s \in Run, NEW k \in 1 .. InsertStatements
  PROVE  /\ DataOK(Inserted(d, s, k))
         /\ Inserted(d, s, k).summaries
              = Append(d.summaries, [base |-> s.base, covers |-> s.covers])
         /\ \/ Inserted(d, s, k).marked = d.marked
            \/ Inserted(d, s, k).marked <= s.end
  <1>1. /\ d.turns \in 0 .. MaxTurns /\ d.marked \in 0 .. MaxTurns
        /\ d.removed \in 0 .. MaxTurns /\ d.summaries \in Seq(Summary)
        /\ d.latest \in 0 .. MaxSummaries
        /\ s.end \in 0 .. MaxTurns
        /\ d.marked <= d.turns /\ d \in Database
        /\ MaxTurns \in Nat /\ MaxSummaries \in Nat /\ Keep \in Nat /\ MaxRaw \in Nat \ {0}
    BY ThreadContextAssumption DEF DataOK, Database, Run
  <1>2. PICK row \in Summary : row = [base |-> s.base, covers |-> s.covers]
    BY DEF Run, Summary
  <1>3. PICK kept \in Int : kept = d.turns - Keep
    BY <1>1
  <1>4. PICK keep \in Int : keep = Min({s.end, kept}) /\ keep <= s.end /\ keep <= kept
    <2>1. s.end \in Int /\ kept \in Int
      BY <1>1, <1>3
    <2>2. Min({s.end, kept}) = IF s.end <= kept THEN s.end ELSE kept
      BY <2>1, MinOfTwo
    <2> QED
      BY <2>1, <2>2
  <1>5. PICK m \in 0 .. MaxTurns :
          /\ m = Marked(d, s, k)
          /\ m = d.marked \/ m <= s.end
          /\ m <= d.turns
    <2>1. d.marked \in Int /\ s.end \in Int
      BY <1>1
    <2>2. Max({d.marked, keep}) = IF d.marked >= keep THEN d.marked ELSE keep
      BY <2>1, MaxOfTwo
    <2>3. Marked(d, s, k) = IF k < 3 THEN d.marked ELSE Max({d.marked, keep})
      BY <1>3, <1>4 DEF Marked
    <2>4. QED
      BY <1>1, <1>3, <1>4, <2>2, <2>3
  <1>6. PICK raw \in Int : raw = d.turns - MaxRaw
    BY <1>1
  <1>7. PICK last \in Int : last = Min({m, raw}) /\ last <= MaxTurns
    <2>1. m \in Int /\ Min({m, raw}) = IF m <= raw THEN m ELSE raw
      BY <1>1, MinOfTwo
    <2>2. QED
      BY <1>1, <2>1
  <1>8. CleanedUp(d, m) = Max({d.removed, last})
    BY <1>6, <1>7 DEF CleanedUp
  <1>9. PICK g \in 0 .. MaxTurns : g = CleanedUp(d, m)
    <2>1. d.removed \in Int
      BY <1>1
    <2>2. Max({d.removed, last}) = IF d.removed >= last THEN d.removed ELSE last
      BY <2>1, MaxOfTwo
    <2>3. QED
      BY <1>1, <1>7, <1>8, <2>2
  <1>10. Append(d.summaries, row) \in Seq(Summary) /\ Len(Append(d.summaries, row)) = Latest(d) + 1
    BY <1>1 DEF Latest
  <1>11. Inserted(d, s, k) =
           [d EXCEPT !.summaries = Append(d.summaries, row),
                     !.latest = IF k < 2 THEN d.latest ELSE Latest(d) + 1,
                     !.marked = m,
                     !.removed = IF k < 4 THEN d.removed ELSE g]
    <2>1. (IF k < 1 THEN d.summaries
           ELSE Append(d.summaries, [base |-> s.base, covers |-> s.covers]))
            = Append(d.summaries, row)
      BY <1>2 DEF InsertStatements
    <2>2. Marked(d, s, k) = m /\ CleanedUp(d, Marked(d, s, k)) = g
      BY <1>5, <1>9
    <2>3. QED
      BY <2>1, <2>2, Zenon DEF Inserted
  <1>12. Latest(d) + 1 \in 0 .. MaxSummaries
    BY <1>1 DEF Latest
  <1>13. /\ Inserted(d, s, k) \in Database
         /\ Inserted(d, s, k).summaries = Append(d.summaries, row)
         /\ Inserted(d, s, k).marked = m
         /\ Inserted(d, s, k).turns = d.turns
    BY <1>1, <1>10, <1>11, <1>12 DEF Database
  <1>14. Latest(Inserted(d, s, k)) <= MaxSummaries
    BY <1>1, <1>10, <1>12, <1>13 DEF Latest
  <1>15. DataOK(Inserted(d, s, k))
    BY <1>5, <1>13, <1>14 DEF DataOK
  <1>16. QED
    BY <1>2, <1>5, <1>13, <1>15

(* Saving an answer leaves the summaries and the marks alone. *)
LEMMA SavedFields ==
  ASSUME NEW d, DataOK(d), d.turns + 2 <= MaxTurns,
         NEW plan \in Plan, NEW c \in Chat, NEW level \in Level, NEW k \in 1 .. SaveStatements
  PROVE  /\ DataOK(Saved(d, plan, c, level, k))
         /\ Saved(d, plan, c, level, k).summaries = d.summaries
         /\ Saved(d, plan, c, level, k).marked = d.marked
  <1>1. Min({k, 2}) \in 0 .. 2
    <2>1. k \in Int /\ k \in 1 .. 3
      BY DEF SaveStatements
    <2>2. QED
      BY <2>1, MinOfTwo
  <1>2. d.turns + Min({k, 2}) \in 0 .. MaxTurns
    BY <1>1, ThreadContextAssumption DEF DataOK, Database
  <1>3. d.continued \union {plan.from} \in SUBSET Chat
    BY DEF DataOK, Database, Plan
  <1>4. PICK n \in 0 .. MaxTurns : n = d.turns + Min({k, 2})
    BY <1>2
  <1>5. n >= d.turns
    BY <1>1, <1>4 DEF DataOK, Database
  <1>6. PICK e : e = Saved(d, plan, c, level, k)
    OBVIOUS
  <1>7. /\ e \in Database /\ e.turns = n
        /\ e.summaries = d.summaries /\ e.marked = d.marked
    BY <1>3, <1>4, <1>6 DEF Saved, DataOK, Database
  <1>8. d.marked \in Int /\ d.turns \in Int /\ n \in Int
    BY DEF DataOK, Database
  <1>9. DataOK(e)
    BY <1>5, <1>7, <1>8 DEF DataOK, Latest
  <1>10. QED
    BY <1>6, <1>7, <1>9

(* The last summary covers the marked turns again after an insertion, if    *)
(* the inserted one was well made.                                         *)
LEMMA InsertKeepsCovered ==
  ASSUME NEW d, DataOK(d), Latest(d) < MaxSummaries, CoveredIn(d),
         NEW s \in Run, RunOK(d, s), NEW k \in 1 .. InsertStatements
  PROVE  CoveredIn(Inserted(d, s, k))
  <1>1. PICK e : e = Inserted(d, s, k)
    OBVIOUS
  <1>2. PICK row \in Summary : row = [base |-> s.base, covers |-> s.covers]
    BY DEF Run, Summary
  <1>3. /\ DataOK(e)
        /\ e.summaries = Append(d.summaries, row)
        /\ e.marked = d.marked \/ e.marked <= s.end
    BY <1>1, <1>2, InsertedFields
  <1>4. /\ d.summaries \in Seq(Summary) /\ d.marked \in Int
        /\ s.end \in Int /\ e.marked \in Int
    BY <1>3, ThreadContextAssumption DEF DataOK, Database, Run
  <1>5. /\ Latest(e) = Latest(d) + 1 /\ Latest(d) \in Nat
        /\ e.summaries[Latest(e)] = row
        /\ \A i \in 1 .. Latest(d) : e.summaries[i] = d.summaries[i]
    BY <1>3, <1>4 DEF Latest
  <1>6. SUFFICES ASSUME ChainedIn(e) PROVE 1 .. e.marked \subseteq Covered(e, Latest(e))
    BY <1>1 DEF CoveredIn
  <1>7. ChainedIn(d) /\ s.base = Latest(d)
    BY <1>2, <1>5, <1>6 DEF ChainedIn
  <1>8. 1 .. s.end \subseteq s.covers /\ d.marked <= s.end
    BY <1>7 DEF RunOK
  <1>9. Covered(e, Latest(e)) = s.covers
    BY <1>2, <1>5 DEF Covered
  <1>10. e.marked <= s.end
    BY <1>3, <1>8
  <1>11. QED
    BY <1>4, <1>8, <1>9, <1>10

(* An insertion leaves every summary in the making behind the last one. *)
LEMMA InsertKeepsRun ==
  ASSUME NEW d, DataOK(d), Latest(d) < MaxSummaries,
         NEW s \in Run, NEW k \in 1 .. InsertStatements,
         NEW t \in Run, RunOK(d, t)
  PROVE  RunOK(Inserted(d, s, k), t)
  <1>1. PICK e : e = Inserted(d, s, k)
    OBVIOUS
  <1>2. Latest(e) = Latest(d) + 1
    <2>1. PICK row \in Summary : row = [base |-> s.base, covers |-> s.covers]
      BY DEF Run, Summary
    <2>2. e.summaries = Append(d.summaries, row)
      BY <1>1, <2>1, InsertedFields
    <2>3. QED
      BY <2>2 DEF DataOK, Database, Latest
  <1>3. t.base <= Latest(d) /\ t.base \in Int /\ Latest(d) \in Int
    BY DEF RunOK, Run, DataOK, Database, Latest
  <1>4. QED
    BY <1>1, <1>2, <1>3 DEF RunOK

(* Only turns are summarized and preserved. *)
LEMMA TurnsOfTables ==
  ASSUME NEW d, DataOK(d), NEW i \in 0 .. Latest(d)
  PROVE  /\ i \in 0 .. MaxSummaries
         /\ Covered(d, i) \subseteq Turn
         /\ Recent(d) \subseteq Turn
  <1>1. /\ d.turns \in 0 .. MaxTurns /\ MaxTurns \in Nat /\ Keep \in Nat
        /\ MaxSummaries \in Nat /\ d.summaries \in Seq(Summary) /\ Latest(d) \in 0 .. MaxSummaries
    BY ThreadContextAssumption DEF DataOK, Database, Latest
  <1>2. Recent(d) \subseteq Turn
    BY <1>1 DEF Recent, Turn
  <1>3. i \in 0 .. MaxSummaries
    BY <1>1
  <1>4. Covered(d, i) \subseteq Turn
    <2>1. CASE i = 0
      BY <2>1 DEF Covered
    <2>2. CASE i # 0
      <3>1. i \in 1 .. Len(d.summaries)
        BY <1>1, <2>2 DEF Latest
      <3>2. d.summaries[i] \in Summary
        BY <1>1, <3>1
      <3>3. QED
        BY <2>2, <3>2 DEF Covered, Summary
    <2>3. QED
      BY <2>1, <2>2
  <1>5. QED
    BY <1>2, <1>3, <1>4

(* A summary begins well made: the last one covers what is marked, and what *)
(* is not marked is read.                                                  *)
LEMMA SnapshotOK ==
  ASSUME NEW d, DataOK(d), CoveredIn(d)
  PROVE  Snapshot(d) \in Run /\ RunOK(d, Snapshot(d))
  <1>1. /\ d.turns \in 0 .. MaxTurns /\ d.marked \in 0 .. MaxTurns /\ d.marked <= d.turns
        /\ d.summaries \in Seq(Summary) /\ Latest(d) \in 0 .. MaxSummaries
        /\ MaxTurns \in Nat /\ Keep \in Nat
    BY ThreadContextAssumption DEF DataOK, Database, Latest
  <1>2. Covered(d, Latest(d)) \subseteq Turn /\ Recent(d) \subseteq Turn
    <2>1. Latest(d) \in 0 .. Latest(d)
      BY <1>1
    <2>2. QED
      BY <2>1, TurnsOfTables
  <1>3. Unsummarized(d) \subseteq Turn
    BY <1>1 DEF Unsummarized, Turn
  <1>4. PICK c \in SUBSET Turn : c = Covered(d, Latest(d)) \union Unsummarized(d) \union Recent(d)
    BY <1>2, <1>3
  <1>5. Snapshot(d) = [base |-> Latest(d), covers |-> c, end |-> d.turns]
    BY <1>4 DEF Snapshot
  <1>6. ASSUME ChainedIn(d) PROVE 1 .. d.turns \subseteq c
    <2>1. 1 .. d.marked \subseteq c
      BY <1>4, <1>6 DEF CoveredIn
    <2>2. d.marked + 1 .. d.turns \subseteq c
      BY <1>4 DEF Unsummarized
    <2>3. QED
      BY <1>1, <2>1, <2>2
  <1>7. QED
    BY <1>1, <1>5, <1>6 DEF RunOK, Run

(* No summary in the making. *)
LEMMA NoRunOK ==
  ASSUME NEW d, DataOK(d), CoveredIn(d)
  PROVE  NoRun \in Run /\ RunOK(d, NoRun)
  <1>1. /\ Latest(d) \in Nat /\ d.marked \in Nat
        /\ MaxTurns \in Nat /\ MaxSummaries \in Nat
    BY ThreadContextAssumption DEF DataOK, Database, Latest
  <1>2. NoRun \in Run /\ NoRun.base = 0 /\ NoRun.end = 0
    BY <1>1 DEF NoRun, Run
  <1>3. ASSUME ChainedIn(d), Latest(d) = 0 PROVE d.marked <= 0
    <2>1. 1 .. d.marked \subseteq {}
      BY <1>3 DEF CoveredIn, Covered
    <2>2. QED
      BY <1>1, <2>1
  <1>4. QED
    BY <1>1, <1>2, <1>3 DEF RunOK

(* Nothing changes for them if the summaries and the marks stay. *)
LEMMA SameSummaries ==
  ASSUME NEW d, NEW e, e.summaries = d.summaries, e.marked = d.marked
  PROVE  /\ CoveredIn(d) => CoveredIn(e)
         /\ \A s \in Run : RunOK(d, s) => RunOK(e, s)
  <1>1. Latest(e) = Latest(d) /\ (ChainedIn(e) <=> ChainedIn(d))
    BY DEF Latest, ChainedIn
  <1>2. Covered(e, Latest(e)) = Covered(d, Latest(d))
    BY <1>1 DEF Covered
  <1>3. QED
    BY <1>1, <1>2 DEF CoveredIn, RunOK

-----------------------------------------------------------------------------
(* The steps: every action keeps the invariant. *)

(* A job of the conversation starts with a well-made summary. *)
LEMMA WithJobOK ==
  ASSUME NEW runs, StoreOK(db', runs)
  PROVE  StoreOK(db', WithJob(runs))
  <1>1. PICK s \in Run : s = Snapshot(db') /\ RunOK(db', s)
    BY SnapshotOK DEF StoreOK
  <1>2. PICK more : more = [runs EXCEPT !["job"] = s]
    OBVIOUS
  <1>3. WithJob(runs) = more \/ WithJob(runs) = runs
    BY <1>1, <1>2 DEF WithJob
  <1>4. RunsOK(db', more)
    BY <1>1, <1>2 DEF StoreOK, RunsOK, Runner
  <1>5. QED
    BY <1>3, <1>4 DEF StoreOK

(* A summary ends, or is begun by a request. *)
LEMMA EndedOK ==
  ASSUME NEW d, NEW runs, StoreOK(d, runs), NEW w \in Runner
  PROVE  StoreOK(d, [runs EXCEPT ![w] = NoRun]) /\ StoreOK(d, [runs EXCEPT ![w] = Snapshot(d)])
  <1>1. PICK s \in Run : s = Snapshot(d) /\ RunOK(d, s)
    BY SnapshotOK DEF StoreOK
  <1>2. PICK none \in Run : none = NoRun /\ RunOK(d, none)
    BY NoRunOK DEF StoreOK
  <1>3. RunsOK(d, [runs EXCEPT ![w] = s]) /\ RunsOK(d, [runs EXCEPT ![w] = none])
    BY <1>1, <1>2 DEF StoreOK, RunsOK
  <1>4. QED
    BY <1>1, <1>2, <1>3 DEF StoreOK

(* After a crash no summary is in the making. *)
LEMMA RestartedOK ==
  ASSUME NEW d, DataOK(d), CoveredIn(d)
  PROVE  StoreOK(d, [w \in Runner |-> NoRun])
  <1>1. PICK none \in Run : none = NoRun /\ RunOK(d, none)
    BY NoRunOK
  <1>2. RunsOK(d, [w \in Runner |-> none])
    BY <1>1 DEF RunsOK
  <1>3. QED
    BY <1>1, <1>2 DEF StoreOK

LEMMA InsertedOK ==
  ASSUME NEW d, NEW runs, StoreOK(d, runs), Latest(d) < MaxSummaries,
         NEW s \in Run, RunOK(d, s), NEW k \in 1 .. InsertStatements
  PROVE  StoreOK(Inserted(d, s, k), runs)
  <1>1. DataOK(d) /\ CoveredIn(d)
    BY DEF StoreOK
  <1>2. PICK e : e = Inserted(d, s, k)
    OBVIOUS
  <1>3. DataOK(e)
    BY <1>1, <1>2, InsertedFields
  <1>4. CoveredIn(e)
    BY <1>1, <1>2, InsertKeepsCovered
  <1>5. runs \in [Runner -> Run]
    BY DEF StoreOK, RunsOK
  <1>6. ASSUME NEW w \in Runner PROVE RunOK(e, runs[w])
    <2>1. PICK t \in Run : t = runs[w]
      BY <1>5
    <2>2. RunOK(d, t)
      BY <2>1 DEF StoreOK, RunsOK
    <2>3. QED
      BY <1>1, <1>2, <2>1, <2>2, InsertKeepsRun
  <1>7. QED
    BY <1>2, <1>3, <1>4, <1>5, <1>6 DEF StoreOK, RunsOK

LEMMA SameOK ==
  ASSUME NEW d, NEW runs, StoreOK(d, runs),
         NEW e, DataOK(e), e.summaries = d.summaries, e.marked = d.marked
  PROVE  StoreOK(e, runs)
  BY SameSummaries DEF StoreOK, RunsOK

(* A request that is done. *)
LEMMA IdleType == Idle \in Local /\ NoPlan \in Plan
  <1>1. MaxTurns \in Nat /\ MaxSummaries \in Nat /\ MaxChats \in Nat
    BY ThreadContextAssumption
  <1>2. 0 \in Chat /\ 0 \in 0 .. MaxTurns /\ 0 \in 0 .. MaxSummaries /\ Below \in Level
    BY <1>1 DEF Chat, Level, Below
  <1>3. NoPlan \in Plan
    BY <1>2 DEF NoPlan, Plan
  <1>4. QED
    BY <1>2, <1>3 DEF Idle, Local

(* A request that rolls over, or reports that it cannot. *)
LEMMA RollsOverType ==
  ASSUME IInv, NEW r \in Request, NEW d, DataOK(d), NEW local \in Local,
         NEW id \in 0 .. Latest(d), RollsOver(r, d, local, id)
  PROVE  req' \in [Request -> Local]
  <1>1. PICK plan \in Plan : plan = [from |-> local.from, summary |-> id]
    BY TurnsOfTables DEF Local, Plan
  <1>2. PICK prompt \in SUBSET Turn : prompt = Covered(d, id) \union Recent(d)
    BY TurnsOfTables
  <1>3. PICK next \in Local :
          next = [local EXCEPT !.pc = "acquiring", !.plan = plan, !.prompt = prompt]
    BY DEF Local
  <1>4. Becomes(r, next) \/ Becomes(r, Idle)
    BY <1>1, <1>2, <1>3 DEF RollsOver, Planned
  <1>5. QED
    BY <1>4, IdleType DEF IInv, Becomes

LEMMA InitInv ==
  ASSUME Init
  PROVE  IInv
  <1>1. MaxTurns \in Nat /\ MaxSummaries \in Nat /\ MaxChats \in Nat
    BY ThreadContextAssumption
  <1>2. 0 \in Chat /\ Below \in Level
    BY <1>1 DEF Chat, Level, Below
  <1>3. DataOK(db)
    BY <1>1, <1>2 DEF Init, DataOK, Database, Latest
  <1>4. CoveredIn(db)
    BY <1>3 DEF Init, CoveredIn, Covered, Latest
  <1>5. QED
    BY <1>2, <1>3, <1>4, RestartedOK, IdleType DEF Init, IInv

LEMMA PrepareInv ==
  ASSUME IInv, NEW r \in Request, Prepare(r)
  PROVE  IInv'
  <1>1. PICK local \in Local :
          local = [Idle EXCEPT !.pc = "acquiring", !.level = db.level,
                               !.from = db.chat, !.saw = db.turns]
    BY IdleType DEF IInv, StoreOK, DataOK, Database, Local
  <1>2. PICK waiting \in Local : waiting = [local EXCEPT !.pc = "summarizing"]
    BY DEF Local
  <1>3. UNCHANGED <<db, chats>>
    BY DEF Prepare
  <1>4. \/ Becomes(r, local) /\ UNCHANGED run
        \/ RollsOver(r, db, local, Latest(db)) /\ UNCHANGED run
        \/ Becomes(r, waiting) /\ run' = [run EXCEPT ![r] = Snapshot(db)]
    BY <1>1, <1>2 DEF Prepare
  <1>5. StoreOK(db, run')
    <2>1. PICK begun : begun = [run EXCEPT ![r] = Snapshot(db)]
      OBVIOUS
    <2>2. StoreOK(db, begun)
      BY <2>1, EndedOK DEF IInv, Runner
    <2>3. run' = run \/ run' = begun
      BY <1>4, <2>1
    <2>4. QED
      BY <2>2, <2>3 DEF IInv
  <1>6. req' \in [Request -> Local]
    <2>1. Latest(db) \in 0 .. Latest(db) /\ DataOK(db)
      BY DEF IInv, StoreOK, DataOK, Database, Latest
    <2>2. QED
      BY <1>4, <2>1, RollsOverType DEF IInv, Becomes
  <1>7. QED
    BY <1>3, <1>5, <1>6 DEF IInv

LEMMA SummaryArrivesInv ==
  ASSUME IInv, NEW r \in Request, SummaryArrives(r)
  PROVE  IInv'
  <1>1. PICK s \in Run : s = run[r] /\ RunOK(db, s)
    BY DEF IInv, StoreOK, RunsOK, Runner
  <1>2. 4 \in 1 .. InsertStatements /\ InsertStatements = 4
    BY DEF InsertStatements
  <1>3. StoreOK(db', run)
    BY <1>1, <1>2, InsertedOK DEF SummaryArrives, IInv
  <1>4. StoreOK(db', run')
    BY <1>3, EndedOK DEF SummaryArrives, Runner
  <1>5. req' \in [Request -> Local]
    <2>1. Latest(db') \in 0 .. Latest(db') /\ DataOK(db')
      BY <1>3 DEF StoreOK, DataOK, Database, Latest
    <2>2. req[r] \in Local /\ RollsOver(r, db', req[r], Latest(db'))
      BY DEF IInv, SummaryArrives
    <2>3. QED
      BY <2>1, <2>2, RollsOverType
  <1>6. QED
    BY <1>4, <1>5 DEF IInv, SummaryArrives

LEMMA SummaryFailsInv ==
  ASSUME IInv, NEW r \in Request, SummaryFails(r)
  PROVE  IInv'
  <1>1. req[r] \in Local /\ DataOK(db) /\ CoveredIn(db)
    BY DEF IInv, StoreOK
  <1>2. StoreOK(db', run) /\ req' \in [Request -> Local]
    <2>1. CASE /\ Latest(db) < MaxSummaries
               /\ db' = Inserted(db, LocalExtract(db), InsertStatements)
               /\ RollsOver(r, db', req[r], Latest(db'))
      <3>1. PICK s \in Run : s = LocalExtract(db) /\ RunOK(db, s)
        BY <1>1, SnapshotOK DEF LocalExtract
      <3>2. 4 \in 1 .. InsertStatements /\ InsertStatements = 4
        BY DEF InsertStatements
      <3>3. StoreOK(db', run)
        BY <2>1, <3>1, <3>2, InsertedOK DEF IInv
      <3>4. Latest(db') \in 0 .. Latest(db') /\ DataOK(db')
        BY <3>3 DEF StoreOK, DataOK, Database, Latest
      <3>5. QED
        BY <1>1, <2>1, <3>3, <3>4, RollsOverType
    <2>2. CASE UNCHANGED db /\ Becomes(r, [req[r] EXCEPT !.pc = "acquiring"])
      <3>1. PICK local \in Local : local = [req[r] EXCEPT !.pc = "acquiring"]
        BY <1>1 DEF Local
      <3>2. QED
        BY <2>2, <3>1 DEF IInv, Becomes
    <2>3. QED
      BY <2>1, <2>2 DEF SummaryFails
  <1>3. PICK ended : ended = [run EXCEPT ![r] = NoRun]
    OBVIOUS
  <1>4. StoreOK(db', ended)
    BY <1>2, <1>3, EndedOK DEF Runner
  <1>5. StoreOK(db', run')
    BY <1>3, <1>4, WithJobOK DEF SummaryFails
  <1>6. QED
    BY <1>2, <1>5 DEF IInv, SummaryFails

LEMMA AcquiresInv ==
  ASSUME IInv, NEW r \in Request, Acquires(r)
  PROVE  IInv'
  <1>1. PICK c \in Chat :
          /\ Becomes(r, [req[r] EXCEPT !.pc = "streaming", !.chat = c])
          /\ UNCHANGED db \/ db' = [db EXCEPT !.chat = c]
          /\ chats' \in {chats, c}
    BY DEF Acquires, Streams
  <1>2. PICK local \in Local : local = [req[r] EXCEPT !.pc = "streaming", !.chat = c]
    BY DEF IInv, Local
  <1>3. PICK e : e = [db EXCEPT !.chat = c]
    OBVIOUS
  <1>4. DataOK(e) /\ e.summaries = db.summaries /\ e.marked = db.marked
    BY <1>3 DEF IInv, StoreOK, DataOK, Database, Latest
  <1>5. StoreOK(e, run)
    BY <1>4, SameOK DEF IInv
  <1>6. db' = db \/ db' = e
    BY <1>1, <1>3
  <1>7. StoreOK(db', run')
    BY <1>5, <1>6 DEF IInv, Acquires
  <1>8. QED
    BY <1>1, <1>2, <1>7 DEF IInv, Becomes

LEMMA RestreamsInv ==
  ASSUME IInv, NEW r \in Request, Restreams(r)
  PROVE  IInv'
  <1>1. PICK c \in Chat : Becomes(r, [req[r] EXCEPT !.chat = c]) /\ chats' \in {chats, c}
    BY DEF Restreams, Streams
  <1>2. PICK local \in Local : local = [req[r] EXCEPT !.chat = c]
    BY DEF IInv, Local
  <1>3. QED
    BY <1>1, <1>2 DEF IInv, Becomes, Restreams

LEMMA GivesUpInv ==
  ASSUME IInv, NEW r \in Request, Fails(r) \/ CompletesUnrecorded(r)
  PROVE  IInv'
  BY IdleType DEF IInv, Becomes, Fails, CompletesUnrecorded

LEMMA DeletionEndsInv ==
  ASSUME IInv, NEW r \in Request, DeletionEnds(r)
  PROVE  IInv'
  <1>1. StoreOK(db', run')
    BY WithJobOK DEF IInv, DeletionEnds
  <1>2. QED
    BY <1>1, IdleType DEF IInv, Becomes, DeletionEnds

(* An answer is saved, as a whole or in part. *)
LEMMA SavedOK ==
  ASSUME IInv, NEW r \in Request, db.turns + 2 <= MaxTurns,
         NEW level \in Level, NEW k \in 1 .. SaveStatements
  PROVE  StoreOK(Saved(db, req[r].plan, req[r].chat, level, k), run)
  <1>1. PICK plan \in Plan, c \in Chat : plan = req[r].plan /\ c = req[r].chat
    BY DEF IInv, Local
  <1>2. PICK e : e = Saved(db, plan, c, level, k)
    OBVIOUS
  <1>3. DataOK(e) /\ e.summaries = db.summaries /\ e.marked = db.marked
    BY <1>2, SavedFields DEF IInv, StoreOK
  <1>4. StoreOK(e, run)
    BY <1>3, SameOK DEF IInv
  <1>5. QED
    BY <1>1, <1>2, <1>4

LEMMA CompletesInv ==
  ASSUME IInv, NEW r \in Request, Completes(r)
  PROVE  IInv'
  <1>1. PICK level \in Level :
          db' = Saved(db, req[r].plan, req[r].chat, level, SaveStatements)
    BY DEF Completes, Estimates
  <1>2. 3 \in 1 .. SaveStatements /\ SaveStatements = 3
    BY DEF SaveStatements
  <1>3. StoreOK(db', run)
    BY <1>1, <1>2, SavedOK DEF Completes
  <1>4. StoreOK(db', run')
    BY <1>3, WithJobOK DEF Completes
  <1>5. PICK plan \in Plan : plan = req[r].plan
    BY DEF IInv, Local
  <1>6. PICK deleting \in Local : deleting = [Idle EXCEPT !.pc = "deleting", !.plan = plan]
    BY IdleType DEF Local
  <1>7. Becomes(r, deleting) \/ Becomes(r, Idle)
    BY <1>5, <1>6 DEF Completes
  <1>8. QED
    BY <1>4, <1>7, IdleType DEF IInv, Becomes, Completes

LEMMA JobSucceedsInv ==
  ASSUME IInv, JobSucceeds
  PROVE  IInv'
  <1>1. PICK s \in Run : s = run["job"] /\ RunOK(db, s)
    BY DEF IInv, StoreOK, RunsOK, Runner
  <1>2. 4 \in 1 .. InsertStatements /\ InsertStatements = 4
    BY DEF InsertStatements
  <1>3. StoreOK(db', run)
    BY <1>1, <1>2, InsertedOK DEF JobSucceeds, IInv
  <1>4. PICK ended : ended = [run EXCEPT !["job"] = NoRun]
    OBVIOUS
  <1>5. StoreOK(db', ended)
    BY <1>3, <1>4, EndedOK DEF Runner
  <1>6. StoreOK(db', run')
    BY <1>4, <1>5, WithJobOK DEF JobSucceeds, JobEnds
  <1>7. QED
    BY <1>6 DEF IInv, JobSucceeds, JobEnds

LEMMA JobFailsInv ==
  ASSUME IInv, NEW s \in Session, JobFails(s)
  PROVE  IInv'
  <1>1. PICK ended : ended = IF s = Tracked THEN [run EXCEPT !["job"] = NoRun] ELSE run
    OBVIOUS
  <1>2. StoreOK(db', ended)
    BY <1>1, EndedOK DEF JobFails, IInv, Runner
  <1>3. StoreOK(db', run')
    BY <1>1, <1>2, WithJobOK DEF JobFails, JobEnds
  <1>4. QED
    BY <1>3 DEF IInv, JobFails, JobEnds

LEMMA OtherEnqueuesInv ==
  ASSUME IInv, NEW s \in Session, OtherEnqueues(s)
  PROVE  IInv'
  <1>1. StoreOK(db', run')
    BY WithJobOK DEF IInv, OtherEnqueues
  <1>2. QED
    BY <1>1 DEF IInv, OtherEnqueues

LEMMA CrashInv ==
  ASSUME IInv, Crash \/ CrashInserting \/ CrashSaving
  PROVE  IInv'
  <1>1. StoreOK(db', run)
    <2>1. CASE Crash
      BY <2>1 DEF IInv, Crash
    <2>2. CASE CrashInserting
      <3>1. PICK w \in Runner, k \in 1 .. InsertStatements : db' = Inserted(db, run[w], k)
        BY <2>2 DEF CrashInserting, InsertStatements
      <3>2. PICK s \in Run : s = run[w] /\ RunOK(db, s)
        BY DEF IInv, StoreOK, RunsOK
      <3>3. QED
        BY <2>2, <3>1, <3>2, InsertedOK DEF CrashInserting, IInv
    <2>3. CASE CrashSaving
      <3>1. PICK r \in Request, k \in 1 .. SaveStatements :
              db' = Saved(db, req[r].plan, req[r].chat, db.level, k)
        BY <2>3 DEF CrashSaving, SaveStatements
      <3>2. PICK level \in Level : level = db.level
        BY DEF IInv, StoreOK, DataOK, Database
      <3>3. QED
        BY <2>3, <3>1, <3>2, SavedOK DEF CrashSaving
    <2>4. QED
      BY <2>1, <2>2, <2>3
  <1>2. Restarts /\ UNCHANGED chats
    BY DEF Crash, CrashInserting, CrashSaving, Restarts
  <1>3. StoreOK(db', run')
    BY <1>1, <1>2, RestartedOK DEF StoreOK, Restarts
  <1>4. QED
    BY <1>2, <1>3, IdleType DEF IInv, Restarts

LEMMA NextInv ==
  ASSUME IInv, [Next]_vars
  PROVE  IInv'
  <1>1. CASE UNCHANGED vars
    BY <1>1 DEF IInv, vars
  <1>2. ASSUME NEW r \in Request, RequestStep(r) PROVE IInv'
    BY <1>2, PrepareInv, SummaryArrivesInv, SummaryFailsInv, AcquiresInv, RestreamsInv,
       GivesUpInv, CompletesInv, DeletionEndsInv DEF RequestStep
  <1>3. CASE JobSucceeds
    BY <1>3, JobSucceedsInv
  <1>4. ASSUME NEW s \in Session, JobFails(s) \/ OtherEnqueues(s) PROVE IInv'
    BY <1>4, JobFailsInv, OtherEnqueuesInv
  <1>5. CASE Crash \/ CrashInserting \/ CrashSaving
    BY <1>5, CrashInv
  <1>6. QED
    BY <1>1, <1>2, <1>3, <1>4, <1>5 DEF Next

-----------------------------------------------------------------------------
(* The theorems *)

(* The invariant holds of every behaviour: whoever makes a summary, it will *)
(* cover all it will mark, as long as it extends the last one.             *)
THEOREM StoreInvariant == Spec => []IInv
  <1>1. IInv /\ [Next]_vars => IInv'
    BY NextInv
  <1>2. QED
    BY InitInv, <1>1, PTL DEF Spec

(* A turn that is marked as summarized, and may be deleted, is in the last  *)
(* summary while summaries are made one after the other: for any number of *)
(* requests and any limits, whatever is saved meanwhile and wherever the   *)
(* process dies.                                                           *)
THEOREM SummarizedTurnsAreSafe == Spec => []SummarizedTurnsAreCovered
  <1>1. IInv => SummarizedTurnsAreCovered
    BY DEF IInv, StoreOK, CoveredIn, ChainedIn, SummarizedTurnsAreCovered, Chained
  <1>2. QED
    BY StoreInvariant, <1>1, PTL

-----------------------------------------------------------------------------
(* What happens to the chats.  The tables only grow as far as the requests  *)
(* rely on them, and what a request has read of them stays true.           *)

Grows(d, e) ==
  /\ d.turns <= e.turns
  /\ d.continued \subseteq e.continued
  /\ d.latest # 0 => e.latest # 0
  /\ ChainedIn(e) => ChainedIn(d)

(* The tables d, when n chats were created: chats are named after they were *)
(* created, and the clean-up leaves a turn.                                *)
HistoryOK(d, n) ==
  /\ d.chat <= n
  /\ d.removed = 0 \/ d.removed < d.turns
  /\ d.chat # 0 => d.turns # 0

DeletedOK(d, n, gone) ==
  /\ gone \subseteq 1 .. n
  /\ gone \subseteq d.continued
  /\ gone # {} => d.latest # 0

RequiredOK(d, l) ==
  l.pc \in {"acquiring", "streaming"} /\ l.level = Required /\ l.from # 0 =>
    /\ l.plan # NoPlan
    /\ ChainedIn(d) => 1 .. l.saw \subseteq l.prompt

(* The locals l of a request. *)
LocalOK(d, n, l) ==
  /\ l.from <= n /\ l.chat <= n /\ l.plan.from <= n
  /\ l.saw <= d.turns
  /\ l.from # 0 \/ l.plan # NoPlan => d.turns # 0
  /\ l.plan # NoPlan => l.plan.summary # 0
  /\ l.pc = "deleting" => l.plan.from # 0 /\ l.plan.from \in d.continued /\ d.latest # 0
  /\ RequiredOK(d, l)

(* A request that waits for a summary has had all it saw put into it. *)
WaitOK(l, s) == l.pc = "summarizing" => l.from # 0 /\ s.end = l.saw

ChatsInv ==
  /\ HistoryOK(db, chats)
  /\ DeletedOK(db, chats, deleted)
  /\ \A r \in Request : LocalOK(db, chats, req[r]) /\ WaitOK(req[r], run[r])

(* What every later step knows of the tables and of the locals. *)
LEMMA Numbers ==
  ASSUME NEW d, DataOK(d)
  PROVE  /\ d.turns \in Nat /\ d.removed \in Nat /\ d.marked \in Nat
         /\ d.latest \in Nat /\ d.chat \in Nat /\ Latest(d) \in Nat
         /\ d.chat \in Chat /\ d.level \in Level /\ d.summaries \in Seq(Summary)
         /\ d.continued \subseteq Chat
  BY ThreadContextAssumption DEF DataOK, Database, Chat, Latest

LEMMA LocalNumbers ==
  ASSUME NEW l \in Local
  PROVE  /\ l.from \in Nat /\ l.chat \in Nat /\ l.saw \in Nat
         /\ l.plan \in Plan /\ l.plan.from \in Nat /\ l.plan.summary \in Nat
         /\ l.from \in Chat /\ l.chat \in Chat /\ l.plan.from \in Chat
  BY ThreadContextAssumption DEF Local, Plan, Chat

LEMMA ChatNumbers ==
  ASSUME NEW n \in Chat
  PROVE  n \in Nat /\ MaxChats \in Nat
  BY ThreadContextAssumption DEF Chat

(* An insertion only adds to the tables, *)
LEMMA InsertedGrows ==
  ASSUME NEW d, DataOK(d), Latest(d) < MaxSummaries,
         NEW s \in Run, NEW k \in 1 .. InsertStatements
  PROVE  /\ Grows(d, Inserted(d, s, k))
         /\ \A n \in Chat : HistoryOK(d, n) => HistoryOK(Inserted(d, s, k), n)
  <1>1. PICK e : e = Inserted(d, s, k)
    OBVIOUS
  <1>2. PICK row \in Summary : row = [base |-> s.base, covers |-> s.covers]
    BY DEF Run, Summary
  <1>3. /\ DataOK(e) /\ e.summaries = Append(d.summaries, row)
    BY <1>1, <1>2, InsertedFields
  <1>4. /\ e.turns = d.turns /\ e.chat = d.chat /\ e.continued = d.continued
        /\ e.latest = d.latest \/ e.latest = Latest(d) + 1
        /\ e.removed = d.removed \/ e.removed = CleanedUp(d, e.marked)
    BY <1>1 DEF Inserted, DataOK, Database
  <1>5. ChainedIn(e) => ChainedIn(d)
    <2>1. /\ Len(e.summaries) = Len(d.summaries) + 1 /\ Len(d.summaries) \in Nat
          /\ \A i \in 1 .. Len(d.summaries) : e.summaries[i] = d.summaries[i]
      BY <1>3, Numbers
    <2>2. QED
      BY <2>1 DEF ChainedIn, Latest
  <1>6. e.removed = d.removed \/ e.removed < d.turns
    <2>1. /\ d.removed \in Int /\ d.turns \in Int /\ e.marked \in Int
          /\ MaxRaw \in Nat \ {0}
      BY <1>3, Numbers, ThreadContextAssumption
    <2>2. PICK raw \in Int : raw = d.turns - MaxRaw /\ raw < d.turns
      BY <2>1
    <2>3. PICK last \in Int : last = Min({e.marked, raw}) /\ last <= raw
      <3>1. Min({e.marked, raw}) = IF e.marked <= raw THEN e.marked ELSE raw
        BY <2>1, MinOfTwo
      <3>2. QED
        BY <2>1, <3>1
    <2>4. Max({d.removed, last}) = IF d.removed >= last THEN d.removed ELSE last
      BY <2>1, MaxOfTwo
    <2>5. CleanedUp(d, e.marked) = Max({d.removed, last})
      BY <2>2, <2>3 DEF CleanedUp
    <2>6. QED
      BY <1>4, <2>1, <2>2, <2>3, <2>4, <2>5
  <1>7. Latest(d) + 1 # 0 /\ d.turns <= d.turns
    BY Numbers
  <1>8. Grows(d, e)
    BY <1>4, <1>5, <1>7 DEF Grows
  <1>9. ASSUME NEW n \in Chat, HistoryOK(d, n) PROVE HistoryOK(e, n)
    BY <1>4, <1>6, <1>9 DEF HistoryOK
  <1>10. QED
    BY <1>1, <1>8, <1>9

(* and its summary, if it is chained, covers all that was read for it. *)
LEMMA InsertedCovers ==
  ASSUME NEW d, DataOK(d), Latest(d) < MaxSummaries,
         NEW s \in Run, RunOK(d, s), NEW k \in 1 .. InsertStatements,
         NEW e, e = Inserted(d, s, k)
  PROVE  /\ Latest(e) = Latest(d) + 1
         /\ ChainedIn(e) => 1 .. s.end \subseteq Covered(e, Latest(e))
  <1>1. PICK row \in Summary : row = [base |-> s.base, covers |-> s.covers]
    BY DEF Run, Summary
  <1>2. e.summaries = Append(d.summaries, row)
    BY <1>1, InsertedFields
  <1>3. d.summaries \in Seq(Summary) /\ Latest(d) \in Nat
    BY Numbers
  <1>4. /\ Latest(e) = Latest(d) + 1
        /\ e.summaries[Latest(e)] = row
    BY <1>2, <1>3 DEF Latest
  <1>5. ASSUME ChainedIn(e) PROVE 1 .. s.end \subseteq Covered(e, Latest(e))
    <2>1. ChainedIn(d)
      BY <1>5, InsertedGrows DEF Grows
    <2>2. e.summaries[Latest(e)].base = Latest(e) - 1
      BY <1>3, <1>4, <1>5 DEF ChainedIn
    <2>3. s.base = Latest(d)
      BY <1>1, <1>3, <1>4, <2>2
    <2>4. Covered(e, Latest(e)) = s.covers
      BY <1>1, <1>3, <1>4 DEF Covered
    <2>5. QED
      BY <2>1, <2>3, <2>4 DEF RunOK
  <1>6. QED
    BY <1>4, <1>5

(* Saving an answer adds to them too, and records what it continues. *)
LEMMA SavedGrows ==
  ASSUME NEW d, DataOK(d), d.turns + 2 <= MaxTurns,
         NEW plan \in Plan, NEW c \in Chat, NEW level \in Level, NEW k \in 1 .. SaveStatements,
         NEW n \in Chat, HistoryOK(d, n), c <= n,
         NEW e, e = Saved(d, plan, c, level, k)
  PROVE  /\ Grows(d, e) /\ HistoryOK(e, n)
         /\ e.latest = d.latest
         /\ k = 3 => plan.from \in e.continued /\ e.turns # 0
  <1>1. PICK m \in Nat : m = Min({k, 2}) /\ (k = 3 => m = 2)
    <2>1. k \in Int /\ k \in 1 .. 3
      BY DEF SaveStatements
    <2>2. QED
      BY <2>1, MinOfTwo
  <1>2. /\ e.turns = d.turns + m /\ e.latest = d.latest /\ e.removed = d.removed
        /\ e.summaries = d.summaries
        /\ e.continued = IF k < 2 THEN d.continued ELSE d.continued \union {plan.from}
        /\ e.chat = IF k < 3 THEN d.chat ELSE c
    BY <1>1 DEF Saved, DataOK, Database
  <1>3. ChainedIn(e) <=> ChainedIn(d)
    BY <1>2 DEF ChainedIn, Latest
  <1>4. /\ d.turns \in Nat /\ d.removed \in Nat /\ k \in 1 .. 3 /\ m \in Nat
        /\ k >= 3 => m = 2
    BY <1>1, Numbers DEF SaveStatements
  <1>5. Grows(d, e)
    BY <1>2, <1>3, <1>4 DEF Grows
  <1>6. HistoryOK(e, n)
    BY <1>2, <1>4 DEF HistoryOK
  <1>7. QED
    BY <1>2, <1>4, <1>5, <1>6

(* What was true of locals and deletions stays true. *)
LEMMA LocalStays ==
  ASSUME NEW d, DataOK(d), NEW e, DataOK(e), Grows(d, e),
         NEW n \in Chat, NEW m \in Chat, n <= m,
         NEW l \in Local, LocalOK(d, n, l)
  PROVE  LocalOK(e, m, l)
  <1>1. /\ d.turns \in Nat /\ e.turns \in Nat /\ n \in Nat /\ m \in Nat
        /\ l.from \in Nat /\ l.chat \in Nat /\ l.plan.from \in Nat /\ l.saw \in Nat
    BY Numbers, LocalNumbers, ChatNumbers
  <1>2. RequiredOK(e, l)
    BY DEF LocalOK, RequiredOK, Grows
  <1>3. l.from <= m /\ l.chat <= m /\ l.plan.from <= m /\ l.saw <= e.turns
    BY <1>1 DEF LocalOK, Grows
  <1>4. l.from # 0 \/ l.plan # NoPlan => e.turns # 0
    BY <1>1 DEF LocalOK, Grows
  <1>5. QED
    BY <1>2, <1>3, <1>4 DEF LocalOK, Grows

LEMMA DeletedStays ==
  ASSUME NEW d, NEW e, Grows(d, e), NEW n \in Chat, NEW m \in Chat, n <= m,
         NEW gone, DeletedOK(d, n, gone)
  PROVE  DeletedOK(e, m, gone)
  <1>1. 1 .. n \subseteq 1 .. m
    BY ChatNumbers
  <1>2. QED
    BY <1>1 DEF DeletedOK, Grows

LEMMA GrowsReflexive ==
  ASSUME NEW d, DataOK(d), NEW e, e.turns = d.turns, e.continued = d.continued,
         e.latest = d.latest, e.summaries = d.summaries
  PROVE  Grows(d, e)
  <1>1. d.turns <= e.turns
    BY Numbers
  <1>2. QED
    BY <1>1 DEF Grows, ChainedIn, Latest

LEMMA IdleLocal ==
  ASSUME NEW d, DataOK(d), NEW n \in Chat
  PROVE  LocalOK(d, n, Idle) /\ \A s : WaitOK(Idle, s)
  <1>1. d.turns \in Nat /\ n \in Nat
    BY Numbers, ChatNumbers
  <1>2. QED
    BY <1>1 DEF LocalOK, RequiredOK, WaitOK, Idle, NoPlan

(* A step of one request, *)
LEMMA OneMoves ==
  ASSUME IInv, ChatsInv, IInv',
         Grows(db, db'), HistoryOK(db', chats'), chats <= chats',
         DeletedOK(db', chats', deleted'),
         NEW r \in Request, NEW l \in Local, Becomes(r, l),
         LocalOK(db', chats', l), WaitOK(l, run'[r]),
         \A s \in Request : s # r => run'[s] = run[s]
  PROVE  ChatsInv'
  <1>1. /\ DataOK(db) /\ DataOK(db') /\ chats \in Chat /\ chats' \in Chat
        /\ req \in [Request -> Local]
    BY DEF IInv, StoreOK
  <1>2. ASSUME NEW s \in Request PROVE LocalOK(db', chats', req'[s]) /\ WaitOK(req'[s], run'[s])
    <2>1. CASE s = r
      BY <1>1, <2>1 DEF Becomes
    <2>2. CASE s # r
      <3>1. req'[s] = req[s] /\ run'[s] = run[s] /\ req[s] \in Local
        BY <1>1, <2>2 DEF Becomes
      <3>2. LocalOK(db, chats, req[s]) /\ WaitOK(req[s], run[s])
        BY DEF ChatsInv
      <3>3. LocalOK(db', chats', req[s])
        BY <1>1, <3>1, <3>2, LocalStays
      <3>4. QED
        BY <3>1, <3>2, <3>3
    <2>3. QED
      BY <2>1, <2>2
  <1>3. QED
    BY <1>2 DEF ChatsInv

(* and a step of nobody. *)
LEMMA NobodyMoves ==
  ASSUME IInv, ChatsInv, IInv', UNCHANGED <<chats, deleted, req>>,
         Grows(db, db'), HistoryOK(db', chats'),
         \A s \in Request : run'[s] = run[s]
  PROVE  ChatsInv'
  <1>1. /\ DataOK(db) /\ DataOK(db') /\ chats \in Chat /\ chats \in Nat
        /\ req \in [Request -> Local]
    BY ChatNumbers DEF IInv, StoreOK
  <1>2. ASSUME NEW s \in Request PROVE LocalOK(db', chats, req[s]) /\ WaitOK(req[s], run'[s])
    <2>1. LocalOK(db, chats, req[s]) /\ WaitOK(req[s], run[s])
      BY DEF ChatsInv
    <2>2. req[s] \in Local /\ chats <= chats
      BY <1>1
    <2>3. LocalOK(db', chats, req[s])
      BY <1>1, <2>1, <2>2, LocalStays
    <2>4. QED
      BY <2>1, <2>3
  <1>3. DeletedOK(db', chats, deleted)
    <2>1. DeletedOK(db, chats, deleted) /\ chats <= chats
      BY <1>1 DEF ChatsInv
    <2>2. QED
      BY <1>1, <2>1, DeletedStays
  <1>4. QED
    BY <1>2, <1>3 DEF ChatsInv

(* No deletion, but perhaps a new chat. *)
LEMMA KeepsDeleted ==
  ASSUME IInv, ChatsInv, IInv', Grows(db, db'), chats <= chats', UNCHANGED deleted
  PROVE  DeletedOK(db', chats', deleted')
  <1>1. DeletedOK(db, chats, deleted) /\ chats \in Chat /\ chats' \in Chat
    BY DEF ChatsInv, IInv
  <1>2. DeletedOK(db', chats', deleted)
    BY <1>1, DeletedStays
  <1>3. QED
    BY <1>2

LEMMA SameTables ==
  ASSUME IInv, ChatsInv, UNCHANGED db
  PROVE  Grows(db, db') /\ (UNCHANGED chats => HistoryOK(db', chats') /\ chats <= chats')
  <1>1. DataOK(db) /\ chats \in Nat
    BY ChatNumbers DEF IInv, StoreOK
  <1>2. Grows(db, db')
    BY <1>1, GrowsReflexive
  <1>3. QED
    BY <1>1, <1>2 DEF ChatsInv

(* A request that rolls over: its prompt is the summary and the recent turns. *)
LEMMA RollsOverLocal ==
  ASSUME NEW d, DataOK(d), NEW n \in Chat,
         NEW local \in Local, LocalOK(d, n, local), local.from # 0,
         NEW id \in 1 .. Latest(d),
         local.level = Required /\ ChainedIn(d) => 1 .. local.saw \subseteq Covered(d, id),
         NEW r \in Request, RollsOver(r, d, local, id)
  PROVE  \E l \in Local : Becomes(r, l) /\ LocalOK(d, n, l) /\ \A s : WaitOK(l, s)
  <1>1. CASE Becomes(r, Idle)
    BY <1>1, IdleType, IdleLocal
  <1>2. CASE Planned(r, d, local, id)
    <2>1. id \in 0 .. Latest(d) /\ id # 0
      BY Numbers
    <2>2. PICK plan \in Plan : plan = [from |-> local.from, summary |-> id]
      BY <2>1, TurnsOfTables DEF Local, Plan
    <2>3. PICK prompt \in SUBSET Turn : prompt = Covered(d, id) \union Recent(d)
      BY <2>1, TurnsOfTables
    <2>4. PICK l \in Local :
            l = [local EXCEPT !.pc = "acquiring", !.plan = plan, !.prompt = prompt]
      BY DEF Local
    <2>5. Becomes(r, l)
      BY <1>2, <2>2, <2>3, <2>4 DEF Planned
    <2>6. /\ l.pc = "acquiring" /\ l.plan = plan /\ l.prompt = prompt
          /\ l.level = local.level /\ l.from = local.from /\ l.saw = local.saw
          /\ l.chat = local.chat
      BY <2>4 DEF Local
    <2>7. plan.from = local.from /\ plan.summary # 0 /\ plan # NoPlan
      BY <2>1, <2>2 DEF NoPlan
    <2>8. RequiredOK(d, l)
      BY <2>3, <2>6, <2>7 DEF RequiredOK
    <2>9. LocalOK(d, n, l) /\ \A s : WaitOK(l, s)
      BY <2>6, <2>7, <2>8 DEF LocalOK, WaitOK
    <2>10. QED
      BY <2>5, <2>9
  <1>3. QED
    BY <1>1, <1>2 DEF RollsOver

(* The job makes nobody wait. *)
LEMMA WithJobWaits ==
  ASSUME NEW runs, NEW s \in Request
  PROVE  WithJob(runs)[s] = runs[s]
  <1>1. s # "job"
    BY ThreadContextAssumption
  <1>2. PICK more : more = Snapshot(db')
    OBVIOUS
  <1>3. [runs EXCEPT !["job"] = more][s] = runs[s]
    BY <1>1
  <1>4. QED
    BY <1>2, <1>3 DEF WithJob

LEMMA InitChats ==
  ASSUME Init
  PROVE  ChatsInv
  <1>1. IInv /\ DataOK(db)
    BY InitInv DEF IInv, StoreOK
  <1>2. \A r \in Request : LocalOK(db, chats, Idle) /\ WaitOK(Idle, run[r])
    BY <1>1, IdleLocal DEF IInv
  <1>3. HistoryOK(db, chats) /\ DeletedOK(db, chats, deleted)
    BY DEF Init, HistoryOK, DeletedOK
  <1>4. QED
    BY <1>2, <1>3 DEF Init, ChatsInv

LEMMA PrepareChats ==
  ASSUME IInv, ChatsInv, IInv', NEW r \in Request, Prepare(r)
  PROVE  ChatsInv'
  <1>1. /\ DataOK(db) /\ chats \in Chat /\ HistoryOK(db, chats)
        /\ run \in [Runner -> Run]
    BY DEF IInv, StoreOK, RunsOK, ChatsInv
  <1>2. PICK local \in Local :
          local = [Idle EXCEPT !.pc = "acquiring", !.level = db.level,
                               !.from = db.chat, !.saw = db.turns]
    BY <1>1, IdleType DEF DataOK, Database, Local
  <1>3. PICK waiting \in Local : waiting = [local EXCEPT !.pc = "summarizing"]
    BY DEF Local
  <1>4. /\ local.pc = "acquiring" /\ local.level = db.level /\ local.from = db.chat
        /\ local.saw = db.turns /\ local.plan = NoPlan /\ local.chat = 0
    BY <1>2 DEF Idle
  <1>5. /\ waiting.pc = "summarizing" /\ waiting.level = db.level /\ waiting.from = db.chat
        /\ waiting.saw = db.turns /\ waiting.plan = NoPlan /\ waiting.chat = 0
    BY <1>3, <1>4 DEF Local
  <1>6. db.turns \in Nat /\ chats \in Nat /\ NoPlan.from = 0
    BY <1>1, Numbers, ChatNumbers DEF NoPlan
  <1>7. LocalOK(db, chats, waiting)
    BY <1>1, <1>5, <1>6 DEF LocalOK, RequiredOK, HistoryOK
  <1>8. db.chat = 0 \/ db.level # Required => LocalOK(db, chats, local)
    BY <1>1, <1>4, <1>6 DEF LocalOK, RequiredOK, HistoryOK
  <1>9. /\ UNCHANGED <<db, chats, deleted>>
        /\ Grows(db, db') /\ HistoryOK(db', chats') /\ chats <= chats'
    BY SameTables DEF Prepare
  <1>10. DeletedOK(db', chats', deleted')
    BY <1>9, KeepsDeleted
  <1>11. \A s \in Request : s # r => run'[s] = run[s]
    <2>1. PICK begun : begun = Snapshot(db)
      OBVIOUS
    <2>2. run' = run \/ run' = [run EXCEPT ![r] = begun]
      BY <2>1 DEF Prepare
    <2>3. QED
      BY <1>1, <2>2 DEF Runner
  <1>12. \E l \in Local : Becomes(r, l) /\ LocalOK(db, chats, l) /\ WaitOK(l, run'[r])
    <2>1. CASE (db.chat = 0 \/ db.level = Below) /\ Becomes(r, local)
      <3>1. LocalOK(db, chats, local)
        BY <1>8, <2>1 DEF Below, Required
      <3>2. QED
        BY <1>4, <2>1, <3>1 DEF WaitOK
    <2>2. CASE /\ db.chat # 0 /\ db.level = Ready /\ Latest(db) # 0
               /\ RollsOver(r, db, local, Latest(db))
      <3>1. LocalOK(db, chats, local) /\ local.from # 0 /\ local.level # Required
        BY <1>4, <1>8, <2>2 DEF Ready, Required
      <3>2. Latest(db) \in 1 .. Latest(db)
        BY <1>1, <2>2, Numbers
      <3>3. QED
        BY <1>1, <2>2, <3>1, <3>2, RollsOverLocal
    <2>3. CASE db.chat # 0 /\ Becomes(r, waiting) /\ run' = [run EXCEPT ![r] = Snapshot(db)]
      <3>1. PICK s : s = Snapshot(db)
        OBVIOUS
      <3>2. run'[r] = s /\ s.end = db.turns
        BY <1>1, <2>3, <3>1 DEF Runner, Snapshot
      <3>3. WaitOK(waiting, run'[r])
        BY <1>5, <2>3, <3>2 DEF WaitOK
      <3>4. QED
        BY <1>7, <2>3, <3>3
    <2>4. \/ (db.chat = 0 \/ db.level = Below) /\ Becomes(r, local)
          \/ /\ db.chat # 0 /\ db.level = Ready /\ Latest(db) # 0
             /\ RollsOver(r, db, local, Latest(db))
          \/ db.chat # 0 /\ Becomes(r, waiting) /\ run' = [run EXCEPT ![r] = Snapshot(db)]
      BY <1>2, <1>3 DEF Prepare
    <2>5. QED
      BY <2>1, <2>2, <2>3, <2>4
  <1>13. QED
    BY <1>9, <1>10, <1>11, <1>12, OneMoves

LEMMA SummaryArrivesChats ==
  ASSUME IInv, ChatsInv, IInv', NEW r \in Request, SummaryArrives(r)
  PROVE  ChatsInv'
  <1>1. /\ DataOK(db) /\ DataOK(db') /\ chats \in Chat /\ chats \in Nat /\ HistoryOK(db, chats)
        /\ run \in [Runner -> Run] /\ req[r] \in Local
        /\ LocalOK(db, chats, req[r]) /\ WaitOK(req[r], run[r])
    BY ChatNumbers DEF IInv, StoreOK, RunsOK, ChatsInv
  <1>2. PICK s \in Run : s = run[r] /\ RunOK(db, s)
    BY DEF IInv, StoreOK, RunsOK, Runner
  <1>3. 4 \in 1 .. InsertStatements /\ InsertStatements = 4
    BY DEF InsertStatements
  <1>4. db' = Inserted(db, s, 4) /\ Latest(db) < MaxSummaries /\ UNCHANGED <<chats, deleted>>
    BY <1>2, <1>3 DEF SummaryArrives
  <1>5. Grows(db, db') /\ HistoryOK(db', chats)
    BY <1>1, <1>3, <1>4, InsertedGrows
  <1>6. /\ Latest(db') = Latest(db) + 1
        /\ ChainedIn(db') => 1 .. s.end \subseteq Covered(db', Latest(db'))
    BY <1>1, <1>2, <1>3, <1>4, InsertedCovers
  <1>7. req[r].from # 0 /\ s.end = req[r].saw
    BY <1>1, <1>2 DEF SummaryArrives, At, WaitOK
  <1>8. chats <= chats /\ Latest(db') \in 1 .. Latest(db')
    BY <1>1, <1>6, Numbers
  <1>9. LocalOK(db', chats, req[r])
    BY <1>1, <1>5, <1>8, LocalStays
  <1>10. RollsOver(r, db', req[r], Latest(db'))
    BY DEF SummaryArrives
  <1>11. PICK l \in Local : Becomes(r, l) /\ LocalOK(db', chats, l) /\ \A t : WaitOK(l, t)
    BY <1>1, <1>6, <1>7, <1>8, <1>9, <1>10, RollsOverLocal
  <1>12. HistoryOK(db', chats') /\ chats <= chats' /\ LocalOK(db', chats', l)
    BY <1>4, <1>5, <1>8, <1>11
  <1>13. DeletedOK(db', chats', deleted')
    BY <1>4, <1>5, <1>12, KeepsDeleted
  <1>14. \A t \in Request : t # r => run'[t] = run[t]
    BY <1>1 DEF SummaryArrives
  <1>15. QED
    BY <1>5, <1>11, <1>12, <1>13, <1>14, OneMoves

LEMMA SummaryFailsChats ==
  ASSUME IInv, ChatsInv, IInv', NEW r \in Request, SummaryFails(r)
  PROVE  ChatsInv'
  <1>1. /\ DataOK(db) /\ DataOK(db') /\ chats \in Chat /\ chats \in Nat /\ HistoryOK(db, chats)
        /\ run \in [Runner -> Run] /\ req[r] \in Local /\ CoveredIn(db)
        /\ LocalOK(db, chats, req[r]) /\ WaitOK(req[r], run[r])
    BY ChatNumbers DEF IInv, StoreOK, RunsOK, ChatsInv
  <1>2. chats' = chats /\ deleted' = deleted /\ chats <= chats'
    BY <1>1 DEF SummaryFails
  <1>3. ASSUME NEW t \in Request, t # r PROVE run'[t] = run[t]
    <2>1. PICK ended : ended = [run EXCEPT ![r] = NoRun]
      OBVIOUS
    <2>2. run'[t] = ended[t]
      BY <2>1, WithJobWaits DEF SummaryFails
    <2>3. QED
      BY <1>1, <1>3, <2>1, <2>2
  <1>4. /\ Grows(db, db') /\ HistoryOK(db', chats)
        /\ \E l \in Local : Becomes(r, l) /\ LocalOK(db', chats, l) /\ \A t : WaitOK(l, t)
    <2>1. CASE /\ Latest(db) < MaxSummaries
               /\ db' = Inserted(db, LocalExtract(db), InsertStatements)
               /\ RollsOver(r, db', req[r], Latest(db'))
      <3>1. PICK s \in Run : s = LocalExtract(db) /\ RunOK(db, s) /\ s.end = db.turns
        <4>1. Snapshot(db) \in Run /\ RunOK(db, Snapshot(db))
          BY <1>1, SnapshotOK
        <4>2. Snapshot(db).end = db.turns
          BY DEF Snapshot
        <4>3. QED
          BY <4>1, <4>2 DEF LocalExtract
      <3>2. 4 \in 1 .. InsertStatements /\ InsertStatements = 4
        BY DEF InsertStatements
      <3>3. db' = Inserted(db, s, 4)
        BY <2>1, <3>1, <3>2
      <3>4. Grows(db, db') /\ HistoryOK(db', chats)
        BY <1>1, <2>1, <3>2, <3>3, InsertedGrows
      <3>5. /\ Latest(db') = Latest(db) + 1
            /\ ChainedIn(db') => 1 .. s.end \subseteq Covered(db', Latest(db'))
        BY <1>1, <2>1, <3>1, <3>2, <3>3, InsertedCovers
      <3>6. chats <= chats /\ Latest(db') \in 1 .. Latest(db')
        BY <1>1, <3>5, Numbers
      <3>7. LocalOK(db', chats, req[r])
        BY <1>1, <3>4, <3>6, LocalStays
      <3>8. req[r].from # 0 /\ req[r].saw <= s.end /\ req[r].saw \in Nat /\ s.end \in Nat
        BY <1>1, <3>1, Numbers, LocalNumbers DEF SummaryFails, At, WaitOK, LocalOK
      <3>9. ChainedIn(db') => 1 .. req[r].saw \subseteq Covered(db', Latest(db'))
        BY <3>5, <3>8
      <3>10. QED
        BY <1>1, <2>1, <3>4, <3>6, <3>7, <3>8, <3>9, RollsOverLocal
    <2>2. CASE /\ req[r].level = Ready /\ UNCHANGED db
               /\ Becomes(r, [req[r] EXCEPT !.pc = "acquiring"])
      <3>1. PICK l \in Local : l = [req[r] EXCEPT !.pc = "acquiring"]
        BY <1>1 DEF Local
      <3>2. /\ l.pc = "acquiring" /\ l.level # Required
            /\ l.from = req[r].from /\ l.chat = req[r].chat /\ l.saw = req[r].saw
            /\ l.plan = req[r].plan
        BY <1>1, <2>2, <3>1 DEF Local, Ready, Required
      <3>3. LocalOK(db, chats, l) /\ \A t : WaitOK(l, t)
        BY <1>1, <3>2 DEF LocalOK, RequiredOK, WaitOK
      <3>4. Grows(db, db')
        BY <2>2, SameTables
      <3>5. QED
        BY <1>1, <2>2, <3>1, <3>3, <3>4
    <2>3. QED
      BY <2>1, <2>2 DEF SummaryFails
  <1>5. DeletedOK(db', chats', deleted')
    BY <1>2, <1>4, KeepsDeleted
  <1>6. PICK l \in Local : Becomes(r, l) /\ LocalOK(db', chats', l) /\ \A t : WaitOK(l, t)
    BY <1>2, <1>4
  <1>7. HistoryOK(db', chats')
    BY <1>2, <1>4
  <1>8. QED
    BY <1>2, <1>3, <1>4, <1>5, <1>6, <1>7, OneMoves

LEMMA AcquiresChats ==
  ASSUME IInv, ChatsInv, IInv', NEW r \in Request, Acquires(r)
  PROVE  ChatsInv'
  <1>1. /\ DataOK(db) /\ DataOK(db') /\ HistoryOK(db, chats) /\ req[r] \in Local
        /\ chats \in Chat /\ chats \in Nat /\ chats' \in Chat /\ chats' \in Nat
        /\ LocalOK(db, chats, req[r])
    BY ChatNumbers DEF IInv, StoreOK, ChatsInv
  <1>2. PICK c \in Chat :
          /\ Becomes(r, [req[r] EXCEPT !.pc = "streaming", !.chat = c])
          /\ IF req[r].plan = NoPlan
             THEN (Streams(c) \/ (c = db.chat /\ UNCHANGED chats)) /\ UNCHANGED db
             ELSE Streams(c) /\ db' = [db EXCEPT !.chat = c]
    BY DEF Acquires
  <1>3. db.chat \in Nat /\ c \in Nat
    BY <1>1, Numbers, ChatNumbers
  <1>4. chats <= chats' /\ c <= chats'
    BY <1>1, <1>2, <1>3 DEF Streams, HistoryOK
  <1>5. PICK e : e = [db EXCEPT !.chat = c]
    OBVIOUS
  <1>6. /\ e.turns = db.turns /\ e.continued = db.continued /\ e.latest = db.latest
        /\ e.summaries = db.summaries /\ e.removed = db.removed /\ e.chat = c
    BY <1>1, <1>5 DEF DataOK, Database
  <1>7. Grows(db, e) /\ Grows(db, db)
    BY <1>1, <1>6, GrowsReflexive
  <1>8. Grows(db, db') /\ HistoryOK(db', chats')
    <2>1. CASE req[r].plan = NoPlan
      BY <1>1, <1>2, <1>3, <1>4, <1>7, <2>1 DEF HistoryOK
    <2>2. CASE req[r].plan # NoPlan
      <3>1. db.turns # 0 /\ db' = e
        BY <1>1, <1>2, <1>5, <2>2 DEF LocalOK
      <3>2. QED
        BY <1>1, <1>4, <1>6, <1>7, <3>1 DEF HistoryOK
    <2>3. QED
      BY <2>1, <2>2
  <1>9. LocalOK(db', chats', req[r])
    BY <1>1, <1>4, <1>8, LocalStays
  <1>10. PICK l \in Local : l = [req[r] EXCEPT !.pc = "streaming", !.chat = c]
    BY <1>1 DEF Local
  <1>11. /\ l.pc = "streaming" /\ l.level = req[r].level /\ l.from = req[r].from
         /\ l.chat = c /\ l.saw = req[r].saw /\ l.plan = req[r].plan /\ l.prompt = req[r].prompt
         /\ req[r].pc = "acquiring"
    BY <1>1, <1>10 DEF Local, Acquires, At
  <1>12. LocalOK(db', chats', l) /\ WaitOK(l, run'[r])
    BY <1>4, <1>9, <1>11 DEF LocalOK, RequiredOK, WaitOK
  <1>13. UNCHANGED <<deleted, run>> /\ Becomes(r, l)
    BY <1>2, <1>10 DEF Acquires
  <1>14. DeletedOK(db', chats', deleted')
    BY <1>4, <1>8, <1>13, KeepsDeleted
  <1>15. \A s \in Request : s # r => run'[s] = run[s]
    BY <1>13
  <1>16. QED
    BY <1>4, <1>8, <1>12, <1>13, <1>14, <1>15, OneMoves

LEMMA RestreamsChats ==
  ASSUME IInv, ChatsInv, IInv', NEW r \in Request, Restreams(r)
  PROVE  ChatsInv'
  <1>1. /\ DataOK(db) /\ DataOK(db') /\ HistoryOK(db, chats) /\ req[r] \in Local
        /\ chats \in Chat /\ chats \in Nat /\ chats' \in Chat /\ chats' \in Nat
        /\ LocalOK(db, chats, req[r])
    BY ChatNumbers DEF IInv, StoreOK, ChatsInv
  <1>2. PICK c \in Chat : Streams(c) /\ Becomes(r, [req[r] EXCEPT !.chat = c])
    BY DEF Restreams
  <1>3. UNCHANGED <<db, deleted, run>>
    BY DEF Restreams
  <1>4. chats <= chats' /\ c <= chats'
    BY <1>1, <1>2, ChatNumbers DEF Streams
  <1>5. Grows(db, db')
    BY <1>3, SameTables
  <1>6. HistoryOK(db', chats')
    <2>1. db.chat \in Nat
      BY <1>1, Numbers
    <2>2. QED
      BY <1>1, <1>3, <1>4, <2>1 DEF HistoryOK
  <1>7. LocalOK(db', chats', req[r])
    BY <1>1, <1>4, <1>5, LocalStays
  <1>8. PICK l \in Local : l = [req[r] EXCEPT !.chat = c]
    BY <1>1 DEF Local
  <1>9. /\ l.pc = req[r].pc /\ l.level = req[r].level /\ l.from = req[r].from
        /\ l.chat = c /\ l.saw = req[r].saw /\ l.plan = req[r].plan /\ l.prompt = req[r].prompt
        /\ req[r].pc = "streaming"
    BY <1>1, <1>8 DEF Local, Restreams, At
  <1>10. LocalOK(db', chats', l) /\ WaitOK(l, run'[r])
    BY <1>4, <1>7, <1>9 DEF LocalOK, RequiredOK, WaitOK
  <1>11. Becomes(r, l)
    BY <1>2, <1>8
  <1>12. DeletedOK(db', chats', deleted')
    BY <1>3, <1>4, <1>5, KeepsDeleted
  <1>13. \A s \in Request : s # r => run'[s] = run[s]
    BY <1>3
  <1>14. QED
    BY <1>4, <1>5, <1>6, <1>10, <1>11, <1>12, <1>13, OneMoves

LEMMA GivesUpChats ==
  ASSUME IInv, ChatsInv, IInv', NEW r \in Request, Fails(r) \/ CompletesUnrecorded(r)
  PROVE  ChatsInv'
  <1>1. UNCHANGED <<db, chats, deleted, run>> /\ Becomes(r, Idle)
    BY DEF Fails, CompletesUnrecorded
  <1>2. Grows(db, db') /\ HistoryOK(db', chats') /\ chats <= chats'
    BY <1>1, SameTables
  <1>3. DeletedOK(db', chats', deleted')
    BY <1>1, <1>2, KeepsDeleted
  <1>4. LocalOK(db', chats', Idle) /\ WaitOK(Idle, run'[r])
    BY IdleLocal DEF IInv, StoreOK
  <1>5. \A s \in Request : s # r => run'[s] = run[s]
    BY <1>1
  <1>6. QED
    BY <1>1, <1>2, <1>3, <1>4, <1>5, IdleType, OneMoves

LEMMA CompletesChats ==
  ASSUME IInv, ChatsInv, IInv', NEW r \in Request, Completes(r)
  PROVE  ChatsInv'
  <1>1. /\ DataOK(db) /\ DataOK(db') /\ HistoryOK(db, chats) /\ req[r] \in Local
        /\ chats \in Chat /\ chats \in Nat /\ LocalOK(db, chats, req[r])
    BY ChatNumbers DEF IInv, StoreOK, ChatsInv
  <1>2. PICK plan \in Plan, c \in Chat : plan = req[r].plan /\ c = req[r].chat
    BY <1>1, LocalNumbers
  <1>3. SaveStatements = 3 /\ 3 \in 1 .. SaveStatements
    BY DEF SaveStatements
  <1>4. PICK level \in Level : db' = Saved(db, plan, c, level, 3)
    BY <1>2, <1>3 DEF Completes, Estimates
  <1>5. UNCHANGED <<chats, deleted>> /\ db.turns + 2 <= MaxTurns
    BY DEF Completes
  <1>6. c <= chats
    BY <1>1, <1>2 DEF LocalOK
  <1>7. /\ Grows(db, db') /\ HistoryOK(db', chats)
        /\ db'.latest = db.latest
        /\ plan.from \in db'.continued /\ db'.turns # 0
    <2>1. PICK k \in 1 .. SaveStatements : k = 3
      BY <1>3
    <2>2. db' = Saved(db, plan, c, level, k)
      BY <1>4, <2>1
    <2>3. /\ Grows(db, db') /\ HistoryOK(db', chats) /\ db'.latest = db.latest
          /\ k = 3 => plan.from \in db'.continued /\ db'.turns # 0
      BY <1>1, <1>5, <1>6, <2>2, SavedGrows
    <2>4. QED
      BY <2>1, <2>3
  <1>8. chats <= chats' /\ HistoryOK(db', chats')
    BY <1>1, <1>5, <1>7
  <1>9. DeletedOK(db', chats', deleted')
    BY <1>5, <1>7, <1>8, KeepsDeleted
  <1>10. \A s \in Request : s # r => run'[s] = run[s]
    <2>1. run' = run \/ run' = WithJob(run)
      BY DEF Completes
    <2>2. QED
      BY <2>1, WithJobWaits
  <1>11. \E l \in Local : Becomes(r, l) /\ LocalOK(db', chats', l) /\ WaitOK(l, run'[r])
    <2>1. CASE Becomes(r, Idle)
      <3>1. LocalOK(db', chats', Idle) /\ WaitOK(Idle, run'[r])
        BY <1>1, <1>5, IdleLocal
      <3>2. QED
        BY <2>1, <3>1, IdleType
    <2>2. CASE MayDelete(plan) /\ Becomes(r, [Idle EXCEPT !.pc = "deleting", !.plan = plan])
      <3>1. PICK l \in Local : l = [Idle EXCEPT !.pc = "deleting", !.plan = plan]
        BY IdleType DEF Local
      <3>2. /\ l.pc = "deleting" /\ l.plan = plan
            /\ l.from = 0 /\ l.chat = 0 /\ l.saw = 0
        BY <3>1 DEF Idle
      <3>3. plan.from # 0 /\ db'.latest = plan.summary
        BY <2>2 DEF MayDelete
      <3>4. plan # NoPlan
        BY <3>3 DEF NoPlan
      <3>5. plan.summary # 0 /\ plan.from <= chats
        BY <1>1, <1>2, <3>4 DEF LocalOK
      <3>6. chats' \in Nat /\ db'.turns \in Nat
        BY <1>1, <1>5, Numbers
      <3>7. LocalOK(db', chats', l) /\ WaitOK(l, run'[r])
        BY <1>5, <1>7, <3>2, <3>3, <3>5, <3>6 DEF LocalOK, RequiredOK, WaitOK
      <3>8. QED
        BY <2>2, <3>1, <3>7
    <2>3. QED
      BY <1>2, <2>1, <2>2 DEF Completes
  <1>12. QED
    BY <1>7, <1>8, <1>9, <1>10, <1>11, OneMoves

LEMMA DeletionEndsChats ==
  ASSUME IInv, ChatsInv, IInv', NEW r \in Request, DeletionEnds(r)
  PROVE  ChatsInv'
  <1>1. /\ DataOK(db) /\ req[r] \in Local /\ chats \in Nat
        /\ LocalOK(db, chats, req[r]) /\ DeletedOK(db, chats, deleted) /\ req[r].pc = "deleting"
    BY ChatNumbers DEF IInv, StoreOK, ChatsInv, DeletionEnds, At
  <1>2. /\ UNCHANGED <<db, chats>> /\ Becomes(r, Idle) /\ run' = WithJob(run)
        /\ deleted' \in {deleted, deleted \union {req[r].plan.from}}
    BY DEF DeletionEnds
  <1>3. Grows(db, db') /\ HistoryOK(db', chats') /\ chats <= chats'
    BY <1>2, SameTables
  <1>4. req[r].plan.from \in 1 .. chats
    BY <1>1, LocalNumbers DEF LocalOK
  <1>5. DeletedOK(db', chats', deleted')
    BY <1>1, <1>2, <1>4 DEF DeletedOK, LocalOK
  <1>6. LocalOK(db', chats', Idle) /\ WaitOK(Idle, run'[r])
    BY IdleLocal DEF IInv, StoreOK
  <1>7. \A s \in Request : s # r => run'[s] = run[s]
    BY <1>2, WithJobWaits
  <1>8. QED
    BY <1>2, <1>3, <1>5, <1>6, <1>7, IdleType, OneMoves

LEMMA JobChats ==
  ASSUME IInv, ChatsInv, IInv', NEW s \in Session,
         JobSucceeds \/ JobFails(s) \/ OtherEnqueues(s)
  PROVE  ChatsInv'
  <1>1. /\ DataOK(db) /\ chats \in Chat /\ HistoryOK(db, chats) /\ run \in [Runner -> Run]
    BY DEF IInv, StoreOK, RunsOK, ChatsInv
  <1>2. UNCHANGED <<chats, deleted, req>>
    BY DEF JobSucceeds, JobFails, OtherEnqueues, JobEnds
  <1>3. \A t \in Request : run'[t] = run[t]
    <2>1. PICK runs : run' = WithJob(runs) /\ (runs = run \/ runs = [run EXCEPT !["job"] = NoRun])
      BY DEF JobSucceeds, JobFails, OtherEnqueues, JobEnds
    <2>2. ASSUME NEW t \in Request PROVE runs[t] = run[t]
      <3>1. t # "job" /\ t \in Runner
        BY ThreadContextAssumption DEF Runner
      <3>2. QED
        BY <1>1, <2>1, <3>1
    <2>3. QED
      BY <2>1, <2>2, WithJobWaits
  <1>4. Grows(db, db') /\ HistoryOK(db', chats)
    <2>1. CASE JobSucceeds
      <3>1. PICK e \in Run : e = run["job"]
        BY <1>1 DEF Runner
      <3>2. 4 \in 1 .. InsertStatements /\ InsertStatements = 4
        BY DEF InsertStatements
      <3>3. db' = Inserted(db, e, 4) /\ Latest(db) < MaxSummaries
        BY <2>1, <3>1, <3>2 DEF JobSucceeds
      <3>4. QED
        BY <1>1, <3>2, <3>3, InsertedGrows
    <2>2. CASE UNCHANGED db
      BY <1>1, <2>2, SameTables
    <2>3. QED
      BY <2>1, <2>2 DEF JobFails, OtherEnqueues
  <1>5. HistoryOK(db', chats')
    BY <1>2, <1>4
  <1>6. QED
    BY <1>2, <1>3, <1>4, <1>5, NobodyMoves

LEMMA CrashChats ==
  ASSUME IInv, ChatsInv, IInv', Crash \/ CrashInserting \/ CrashSaving
  PROVE  ChatsInv'
  <1>1. /\ DataOK(db) /\ DataOK(db') /\ chats \in Chat /\ chats \in Nat /\ HistoryOK(db, chats)
        /\ run \in [Runner -> Run] /\ DeletedOK(db, chats, deleted)
        /\ \A r \in Request : req[r] \in Local /\ LocalOK(db, chats, req[r])
    BY ChatNumbers DEF IInv, StoreOK, RunsOK, ChatsInv
  <1>2. UNCHANGED <<chats, deleted>> /\ req' = [r \in Request |-> Idle]
    BY DEF Crash, CrashInserting, CrashSaving, Restarts
  <1>3. Grows(db, db') /\ HistoryOK(db', chats)
    <2>1. CASE Crash
      BY <1>1, <2>1, SameTables DEF Crash
    <2>2. CASE CrashInserting
      <3>1. PICK w \in Runner, k \in 1 .. InsertStatements : db' = Inserted(db, run[w], k)
        BY <2>2 DEF CrashInserting, InsertStatements
      <3>2. PICK s \in Run : s = run[w]
        BY <1>1
      <3>3. db' = Inserted(db, s, k) /\ Latest(db) < MaxSummaries
        BY <2>2, <3>1, <3>2 DEF CrashInserting
      <3>4. QED
        BY <1>1, <3>3, InsertedGrows
    <2>3. CASE CrashSaving
      <3>1. PICK r \in Request, k \in 1 .. SaveStatements :
              db' = Saved(db, req[r].plan, req[r].chat, db.level, k)
        BY <2>3 DEF CrashSaving, SaveStatements
      <3>2. PICK plan \in Plan, c \in Chat, level \in Level :
              plan = req[r].plan /\ c = req[r].chat /\ level = db.level
        BY <1>1, Numbers, LocalNumbers
      <3>3. db' = Saved(db, plan, c, level, k) /\ db.turns + 2 <= MaxTurns /\ c <= chats
        BY <1>1, <2>3, <3>1, <3>2 DEF CrashSaving, LocalOK
      <3>4. QED
        BY <1>1, <3>3, SavedGrows
    <2>4. QED
      BY <2>1, <2>2, <2>3
  <1>4. DeletedOK(db', chats', deleted') /\ HistoryOK(db', chats')
    <2>1. chats <= chats'
      BY <1>1, <1>2
    <2>2. QED
      BY <1>2, <1>3, <2>1, KeepsDeleted
  <1>5. \A r \in Request : LocalOK(db', chats', Idle) /\ WaitOK(Idle, run'[r])
    BY <1>1, <1>2, IdleLocal
  <1>6. QED
    BY <1>2, <1>4, <1>5 DEF ChatsInv

LEMMA NextChats ==
  ASSUME IInv, ChatsInv, IInv', [Next]_vars
  PROVE  ChatsInv'
  <1>1. CASE UNCHANGED vars
    BY <1>1 DEF ChatsInv, vars
  <1>2. ASSUME NEW r \in Request, RequestStep(r) PROVE ChatsInv'
    BY <1>2, PrepareChats, SummaryArrivesChats, SummaryFailsChats, AcquiresChats,
       RestreamsChats, GivesUpChats, CompletesChats, DeletionEndsChats DEF RequestStep
  <1>3. CASE JobSucceeds
    BY <1>3, JobChats, ThreadContextAssumption
  <1>4. ASSUME NEW s \in Session, JobFails(s) \/ OtherEnqueues(s) PROVE ChatsInv'
    BY <1>4, JobChats
  <1>5. CASE Crash \/ CrashInserting \/ CrashSaving
    BY <1>5, CrashChats
  <1>6. QED
    BY <1>1, <1>2, <1>3, <1>4, <1>5 DEF Next

-----------------------------------------------------------------------------
(* The job queue q and the sessions busy whose jobs run *)

JobsOK(q, busy) ==
  /\ q \in Seq(Session) /\ NoDuplicates(q)
  /\ busy \subseteq Session /\ IsFiniteSet(busy) /\ Cardinality(busy) <= Concurrency

LEMMA ProcessesJobs ==
  ASSUME NEW q, NEW busy, JobsOK(q, busy), Processes(q, busy)
  PROVE  JobsOK(queue', running')
  <1>1. /\ q \in Seq(Session) /\ Len(q) \in Nat /\ NoDuplicates(q)
        /\ busy \subseteq Session /\ IsFiniteSet(busy)
        /\ Cardinality(busy) \in Nat /\ Cardinality(busy) <= Concurrency
        /\ Concurrency \in Nat
    BY FS_CardinalityType, ThreadContextAssumption DEF JobsOK
  <1>2. PICK free \in Nat : free = Concurrency - Cardinality(busy)
    BY <1>1
  <1>3. PICK k \in 0 .. Len(q) : k = Min({Len(q), free}) /\ k <= free
    <2>1. Min({Len(q), free}) = IF Len(q) <= free THEN Len(q) ELSE free
      BY <1>1, MinOfTwo
    <2>2. QED
      BY <1>1, <2>1
  <1>4. PICK started : started = SubSeq(q, 1, k)
    OBVIOUS
  <1>5. /\ queue' = SubSeq(q, k + 1, Len(q))
        /\ running' = busy \union ToSet(started)
    BY <1>2, <1>3, <1>4 DEF Processes
  <1>6. queue' \in Seq(Session) /\ NoDuplicates(queue')
    BY <1>1, <1>5, SuffixProperties
  <1>7. started \in Seq(Session) /\ Len(started) = k
    BY <1>1, <1>4, PrefixProperties
  <1>8. IsFiniteSet(ToSet(started)) /\ Cardinality(ToSet(started)) <= k
    BY <1>7, MembersCount
  <1>9. ToSet(started) \subseteq Session
    BY <1>7, ToSetMembers
  <1>10. IsFiniteSet(running') /\ Cardinality(running') <= Concurrency
    <2>1. PICK both : both = busy \intersect ToSet(started)
      OBVIOUS
    <2>2. /\ IsFiniteSet(running')
          /\ Cardinality(running') = Cardinality(busy) + Cardinality(ToSet(started)) - Cardinality(both)
      BY <1>1, <1>5, <1>8, <2>1, FS_Union
    <2>3. IsFiniteSet(both)
      BY <1>1, <2>1, FS_Intersection
    <2>4. Cardinality(both) \in Nat /\ Cardinality(ToSet(started)) \in Nat
      BY <1>8, <2>3, FS_CardinalityType
    <2>5. QED
      BY <1>1, <1>2, <1>3, <1>8, <2>2, <2>4
  <1>11. QED
    BY <1>1, <1>5, <1>6, <1>9, <1>10 DEF JobsOK

LEMMA EnqueuesJobs ==
  ASSUME JobsOK(queue, running), NEW s \in Session, Enqueues(s)
  PROVE  JobsOK(queue', running')
  <1>1. CASE UNCHANGED <<queue, running>>
    BY <1>1 DEF JobsOK
  <1>2. CASE s \notin ToSet(queue) /\ Processes(Append(queue, s), running)
    <2>1. PICK q : q = Append(queue, s)
      OBVIOUS
    <2>2. queue \in Seq(Session) /\ NoDuplicates(queue)
      BY DEF JobsOK
    <2>3. q \in Seq(Session) /\ NoDuplicates(q)
      BY <1>2, <2>1, <2>2, AppendMembers
    <2>4. JobsOK(q, running)
      BY <2>3 DEF JobsOK
    <2>5. Processes(q, running)
      BY <1>2, <2>1
    <2>6. QED
      BY <2>4, <2>5, ProcessesJobs
  <1>3. QED
    BY <1>1, <1>2 DEF Enqueues

LEMMA JobEndsJobs ==
  ASSUME JobsOK(queue, running), NEW s, NEW runs, JobEnds(s, runs)
  PROVE  JobsOK(queue', running')
  <1>1. PICK busy : busy = running \ {s}
    OBVIOUS
  <1>2. IsFiniteSet(running) /\ Cardinality(running) \in Nat
    BY FS_CardinalityType DEF JobsOK
  <1>3. IsFiniteSet(busy) /\ Cardinality(busy) <= Cardinality(running) /\ Cardinality(busy) \in Nat
    <2>1. busy \in SUBSET running
      BY <1>1
    <2>2. IsFiniteSet(busy) /\ Cardinality(busy) <= Cardinality(running)
      BY <1>2, <2>1, FS_Subset
    <2>3. QED
      BY <2>2, FS_CardinalityType
  <1>4. JobsOK(queue, busy)
    BY <1>1, <1>2, <1>3, ThreadContextAssumption DEF JobsOK
  <1>5. Processes(queue, busy)
    BY <1>1 DEF JobEnds
  <1>6. QED
    BY <1>4, <1>5, ProcessesJobs

LEMMA EmptyJobs == JobsOK(<<>>, {})
  <1>1. IsFiniteSet({}) /\ Cardinality({}) = 0 /\ Concurrency \in Nat
    BY FS_EmptySet, ThreadContextAssumption
  <1>2. QED
    BY <1>1 DEF JobsOK, NoDuplicates

LEMMA NextJobs ==
  ASSUME JobsOK(queue, running), [Next]_vars
  PROVE  JobsOK(queue', running')
  <1>1. CASE UNCHANGED <<queue, running>>
    BY <1>1
  <1>2. CASE \E s \in Session : Enqueues(s)
    BY <1>2, EnqueuesJobs
  <1>3. CASE \E s, runs : JobEnds(s, runs)
    BY <1>3, JobEndsJobs
  <1>4. CASE queue' = <<>> /\ running' = {}
    BY <1>4, EmptyJobs
  <1>5. ASSUME NEW r \in Request, RequestStep(r)
        PROVE  UNCHANGED <<queue, running>> \/ \E s \in Session : Enqueues(s)
    BY <1>5, ThreadContextAssumption
    DEF RequestStep, Prepare, SummaryArrives, SummaryFails, Acquires, Restreams, Fails,
        Completes, CompletesUnrecorded, DeletionEnds
  <1>6. ASSUME NEW s \in Session, JobFails(s) \/ OtherEnqueues(s) \/ JobSucceeds
        PROVE  Enqueues(s) \/ \E t, runs : JobEnds(t, runs)
    BY <1>6, Zenon DEF JobFails, OtherEnqueues, JobSucceeds
  <1>7. Crash \/ CrashInserting \/ CrashSaving => queue' = <<>> /\ running' = {}
    BY DEF Crash, CrashInserting, CrashSaving, Restarts
  <1>8. UNCHANGED vars => UNCHANGED <<queue, running>>
    BY DEF vars
  <1>9. Tracked \in Session
    BY ThreadContextAssumption
  <1>10. QED
    BY <1>1, <1>2, <1>3, <1>4, <1>5, <1>6, <1>7, <1>8, <1>9 DEF Next

(* A queue without repetitions is an injection, as the type has it. *)
LEMMA InjectiveQueue ==
  ASSUME NEW q \in Seq(Session), NoDuplicates(q)
  PROVE  IsInjective(q)
  <1>1. DOMAIN q = 1 .. Len(q)
    OBVIOUS
  <1>2. QED
    BY <1>1, Zenon DEF IsInjective, NoDuplicates

LEMMA TypedChats ==
  ASSUME IInv, ChatsInv, JobsOK(queue, running)
  PROVE  TypeOK
  <1>1. db \in Database /\ Len(db.summaries) <= MaxSummaries
    BY DEF IInv, StoreOK, DataOK, Latest
  <1>2. /\ chats \in Chat /\ deleted \subseteq 1 .. chats /\ req \in [Request -> Local]
        /\ run \in [Runner -> Run]
    BY DEF IInv, StoreOK, RunsOK, ChatsInv, DeletedOK
  <1>3. /\ queue \in Seq(Session) /\ IsInjective(queue)
        /\ running \subseteq Session /\ Cardinality(running) <= Concurrency
    BY InjectiveQueue DEF JobsOK
  <1>4. QED
    BY <1>1, <1>2, <1>3 DEF TypeOK

-----------------------------------------------------------------------------
(* The theorems *)

(* The second half of the invariant: what the requests have read of the    *)
(* tables stays true of them.                                              *)
THEOREM ChatsInvariant == Spec => []ChatsInv
  <1>1. Init => ChatsInv
    BY InitChats
  <1>2. IInv /\ IInv' /\ ChatsInv /\ [Next]_vars => ChatsInv'
    BY NextChats
  <1>3. QED
    BY <1>1, <1>2, StoreInvariant, PTL DEF Spec

LEMMA JobsInvariant == Spec => []JobsOK(queue, running)
  <1>1. Init => JobsOK(queue, running)
    BY EmptyJobs DEF Init
  <1>2. JobsOK(queue, running) /\ [Next]_vars => JobsOK(queue, running)'
    BY NextJobs
  <1>3. QED
    BY <1>1, <1>2, PTL DEF Spec

(* A conversation whose window is full rolls over, with a prompt that       *)
(* accounts for every turn there was when the request came, unless two     *)
(* summaries were made at a time: whether the summary arrives or fails.    *)
THEOREM RolloversComplete == Spec => []RequiredRolloversAreComplete
  <1>1. ChatsInv => RequiredRolloversAreComplete
    BY DEF ChatsInv, LocalOK, RequiredOK, ChainedIn, RequiredRolloversAreComplete, Chained
  <1>2. QED
    BY <1>1, ChatsInvariant, PTL

(* A session with an active chat has a turn left in the table, and the      *)
(* variables have their types: the job queue holds each session once, and  *)
(* no more jobs run than may.                                              *)
THEOREM ActiveChatsHaveTurns == Spec => []ActiveChatHasTurns
  <1>1. IInv /\ ChatsInv /\ JobsOK(queue, running) => ActiveChatHasTurns
    <2>1. SUFFICES ASSUME IInv, ChatsInv, JobsOK(queue, running) PROVE ActiveChatHasTurns
      OBVIOUS
    <2>2. db.turns \in Nat /\ db.removed \in Nat /\ HistoryOK(db, chats)
      BY <2>1, Numbers DEF IInv, StoreOK, ChatsInv
    <2>3. QED
      BY <2>1, <2>2, TypedChats DEF HistoryOK, ActiveChatHasTurns
  <1>2. QED
    BY <1>1, StoreInvariant, ChatsInvariant, JobsInvariant, PTL

(* A chat is deleted at Qwen only after an answer that continues it was     *)
(* saved along with the summary it came from: whatever fails, crashes or    *)
(* overlaps on the way.                                                    *)
THEOREM DeletedChatsContinued == Spec => []DeletedChatsAreContinued
  <1>1. ChatsInv => DeletedChatsAreContinued
    BY DEF ChatsInv, DeletedOK, DeletedChatsAreContinued
  <1>2. QED
    BY <1>1, ChatsInvariant, PTL
-----------------------------------------------------------------------------
(* The stored responses.                                                   *)
(*                                                                         *)
(* The other table of SQLite that survives restarts is responses_store.     *)
(* These are proofs about Responses, which shares no variable with          *)
(* ThreadContext, for any requests, any answers and any capacity of the map. *)
(*                                                                         *)
(* The property is inductive.  A step either leaves the rows alone, or is   *)
(* one of three: a store adds a row, a lookup deletes one that is too old,  *)
(* and a deletion takes one away and is remembered in removed.              *)

(* What the property depends on.                                           *)
rows == <<table, old, written, removed>>

(* A step that does not touch the rows keeps the property.                  *)
LEMMA RowsUntouched ==
  ASSUME StoredIsFound, UNCHANGED rows
  PROVE  StoredIsFound'
BY DEF StoredIsFound, rows

(* getEntry deletes no row but one that is older than MAX_AGE_MS.           *)
LEMMA LookupKeeps ==
  ASSUME StoredIsFound, NEW r, NEW ok, NEW finds, Looked(r, ok, finds)
  PROVE  StoredIsFound'
BY DEF StoredIsFound, Looked, Fresh

(* storeResponse: eviction takes from the map only.                         *)
LEMMA StoreKeeps ==
  ASSUME StoredIsFound, NEW r, NEW messages, NEW output,
         MayStore(r, messages, output)
  PROVE  StoredIsFound'
<1>1. CASE \E ok \in BOOLEAN : Stores(r, messages, output, ok)
  BY <1>1 DEF StoredIsFound, Stores, Rows
<1>2. CASE UNCHANGED stored
  BY <1>2, RowsUntouched DEF stored, rows
<1> QED BY <1>1, <1>2 DEF MayStore

(* deleteStoredResponse: what goes from the table is in removed.            *)
LEMMA DeletionKeeps ==
  ASSUME StoredIsFound, NEW r \in Requests, Deletes(r)
  PROVE  StoredIsFound'
BY DEF StoredIsFound, Deletes

(* The handlers of POST /v1/responses.                                      *)
LEMMA HandlerKeeps ==
  ASSUME StoredIsFound, NEW r \in Requests, Handles(r)
  PROVE  StoredIsFound'
<1>1. CASE Accepted(r) \/ RequestFails(r) \/ Reads(r) \/ Finishes(r)
  BY <1>1, RowsUntouched
  DEF Accepted, RequestFails, Reads, Finishes, stored, rows
<1>2. CASE StreamEnds(r)
  <2>1. CASE UNCHANGED stored
    BY <2>1, RowsUntouched DEF stored, rows
  <2>2. CASE \E messages, output : MayStore(r, messages, output)
    BY <2>2, StoreKeeps
  <2> QED BY <1>2, <2>1, <2>2 DEF StreamEnds
<1>3. CASE Answered(r)
  <2>1. \E messages, output : MayStore(r, messages, output)
    BY <1>3 DEF Answered
  <2> QED BY <2>1, StoreKeeps
<1> QED BY <1>1, <1>2, <1>3 DEF Handles

(* Every step keeps the property.                                          *)
LEMMA StepKeeps ==
  ASSUME StoredIsFound, [ResponsesNext]_responseVars
  PROVE  StoredIsFound'
<1>1. CASE \E r \in Requests : Creates(r) \/ ClientLeaves(r)
  BY <1>1, RowsUntouched DEF Creates, ClientLeaves, stored, rows
<1>2. CASE \E r \in Requests : Handles(r)
  BY <1>2, HandlerKeeps
<1>3. CASE \E r \in Requests : Gets(r)
  BY <1>3, LookupKeeps DEF Gets
<1>4. CASE \E r \in Requests : Deletes(r)
  BY <1>4, DeletionKeeps
<1>5. CASE \E r \in Requests : \E previous \in Known : Continues(r, previous)
  BY <1>5, LookupKeeps DEF Continues
<1>6. CASE Ages
  BY <1>6 DEF StoredIsFound, Ages
<1>7. CASE Restart
  BY <1>7, RowsUntouched DEF Restart, rows
<1>8. CASE UNCHANGED responseVars
  BY <1>8, RowsUntouched DEF responseVars, stored, rows
<1> QED BY <1>1, <1>2, <1>3, <1>4, <1>5, <1>6, <1>7, <1>8 DEF ResponsesNext

(* A response whose row was written is in the table until it is deleted or  *)
(* a day old: neither evictions, nor restarts, nor lookups whose statement  *)
(* fails take it away (state.ts).                                          *)
THEOREM StoredIsSafe == ResponsesSpec => []StoredIsFound
<1>1. ResponsesInit => StoredIsFound
  BY DEF ResponsesInit, StoredIsFound
<1>2. StoredIsFound /\ [ResponsesNext]_responseVars => StoredIsFound'
  BY StepKeeps
<1> QED BY <1>1, <1>2, PTL DEF ResponsesSpec

-----------------------------------------------------------------------------
(* What a stream builds.                                                   *)

(* The chunks of a kind among the first n of an answer, for every n.        *)
IsChunks(answer, kind, f) ==
  /\ f \in [0 .. Len(answer) -> Seq(Nat)]
  /\ f[0] = <<>>
  /\ \A n \in 1 .. Len(answer) :
       f[n] = IF answer[n] = kind THEN Append(f[n - 1], n) ELSE f[n - 1]
  /\ f[Len(answer)] = Chunks(answer, kind)

LEMMA ChunksExist ==
  ASSUME NEW answer \in Seq(Kind), NEW kind
  PROVE  \E f : IsChunks(answer, kind, f)
<1> DEFINE N == Len(answer)
           IsUpto(g) == g = [n \in 0..N |->
                               IF n = 0 THEN <<>>
                               ELSE IF answer[n] = kind THEN Append(g[n - 1], n) ELSE g[n - 1]]
           upto == CHOOSE g : IsUpto(g)
           F == [n \in 0..N |-> [x \in Seq(Nat) |-> IF answer[n] = kind THEN Append(x, n) ELSE x]]
<1>1. Chunks(answer, kind) = upto[N]
  BY DEF Chunks
<1>2. N \in Nat /\ 0 \in Nat /\ 0 <= N /\ <<>> \in Seq(Nat)
  OBVIOUS
<1>3. F \in [0..N -> [Seq(Nat) -> Seq(Nat)]]
  OBVIOUS
<1>4. \E g : IsRecursion(g, 0, N, Seq(Nat), <<>>, F)
  BY <1>2, <1>3, RecursionExists, Zenon
<1>5. PICK g \in [0..N -> Seq(Nat)] : \A i \in 0..N : g[i] = IF i = 0 THEN <<>> ELSE F[i][g[i - 1]]
  BY <1>4 DEF IsRecursion
<1>6. ASSUME NEW i \in 0..N
      PROVE  g[i] = IF i = 0 THEN <<>>
                    ELSE IF answer[i] = kind THEN Append(g[i - 1], i) ELSE g[i - 1]
  <2>1. i = 0 \/ i - 1 \in 0..N
    BY <1>2
  <2>2. i = 0 \/ g[i - 1] \in Seq(Nat)
    BY <1>5, <2>1
  <2>3. i = 0 \/ F[i][g[i - 1]] = IF answer[i] = kind THEN Append(g[i - 1], i) ELSE g[i - 1]
    BY <2>2
  <2> QED BY <1>5, <2>3
<1>7. IsUpto(g)
  <2>1. DOMAIN g = 0..N /\ g = [i \in 0..N |-> g[i]]
    OBVIOUS
  <2> HIDE DEF F, N
  <2> QED BY <1>6, <2>1
<1>8. PICK f : IsUpto(f) /\ f = upto
  <2> HIDE DEF IsUpto
  <2> QED BY <1>7
<1>9. /\ DOMAIN f = 0..N /\ f[0] = <<>>
      /\ \A n \in 1..N : f[n] = IF answer[n] = kind THEN Append(f[n - 1], n) ELSE f[n - 1]
      /\ f = [n \in 0..N |-> f[n]]
  <2>1. IsUpto(f)
    BY <1>8
  <2> HIDE DEF N, upto
  <2>2. DOMAIN f = 0..N
    BY <2>1
  <2>3. ASSUME NEW n \in 0..N
        PROVE  f[n] = IF n = 0 THEN <<>>
                      ELSE IF answer[n] = kind THEN Append(f[n - 1], n) ELSE f[n - 1]
    BY <2>1
  <2>4. f = [n \in 0..N |-> f[n]]
    BY <2>1, <2>2, <2>3
  <2> HIDE DEF IsUpto
  <2>5. f[0] = <<>>
    BY <1>2, <2>3
  <2>6. ASSUME NEW n \in 1..N
        PROVE  f[n] = IF answer[n] = kind THEN Append(f[n - 1], n) ELSE f[n - 1]
    BY <1>2, <2>3
  <2> QED BY <2>2, <2>4, <2>5, <2>6
<1> HIDE DEF upto, IsUpto, N
<1>10. ASSUME NEW n \in 0 + 1 .. N, f[n - 1] \in Seq(Nat)
       PROVE  f[n] \in Seq(Nat)
  <2>1. n \in 1..N /\ n \in Nat
    BY <1>2
  <2>2. Append(f[n - 1], n) \in Seq(Nat)
    BY <1>10, <2>1
  <2> QED BY <1>9, <1>10, <2>1, <2>2
<1>11. \A n \in 0..N : f[n] \in Seq(Nat)
  BY <1>2, <1>9, <1>10, RecursionStays
<1>12. f \in [0..N -> Seq(Nat)]
  BY <1>9, <1>11
<1> QED BY <1>1, <1>8, <1>9, <1>12 DEF IsChunks, N

OutputItem == [kind : Kind, content : Seq(Nat)]

(* The output of an answer of the reasoning r, the text t and the calls k.  *)
Output(r, t, k) == Block("reasoning", r) \o Block("text", t) \o CallItems(k)

StateFields == {"block", "index", "text", "reasoning", "calls", "output", "added", "done"}

(* The state s of a stream that has read n chunks of the regular answer a,  *)
(* the reasoning r, the text t and the calls k: the items that are complete *)
(* and what has been collected of the open one are the output so far.       *)
Built(a, n, s, r, t, k) ==
  /\ DOMAIN s = StateFields
  /\ s.block \in {"none", "reasoning", "text", "call"}
  /\ s.block = "none" =>
       /\ n \in {0, Len(a)} /\ s.output = Output(r, t, k)
       /\ n = 0 => s.text = <<>> /\ s.reasoning = <<>> /\ s.calls = <<>>
       /\ n = 0 => r = <<>> /\ t = <<>> /\ k = <<>>
  /\ s.block = "reasoning" =>
       /\ n # 0 /\ a[n] = "reasoning" /\ s.output = <<>>
       /\ s.reasoning = r /\ r # <<>> /\ t = <<>> /\ k = <<>>
       /\ s.text = <<>> /\ s.calls = <<>>
  /\ s.block = "text" =>
       /\ n # 0 /\ a[n] = "text" /\ s.output = Block("reasoning", r)
       /\ s.text = t /\ t # <<>> /\ k = <<>> /\ s.calls = <<>>
  /\ s.block = "call" =>
       /\ n # 0 /\ a[n] = "call" /\ s.output = Block("reasoning", r) \o Block("text", t)
       /\ s.calls = k

LEMMA BlockType ==
  ASSUME NEW kind \in Kind, NEW content \in Seq(Nat)
  PROVE  /\ Block(kind, content) \in Seq(OutputItem)
         /\ content = <<>> => Block(kind, content) = <<>>
         /\ content # <<>> => Block(kind, content) = <<Item(kind, content)>>
<1>1. Item(kind, content) \in OutputItem
  BY DEF Item, OutputItem
<1> QED BY <1>1 DEF Block

LEMMA CallItemsType ==
  ASSUME NEW calls \in Seq(Nat)
  PROVE  CallItems(calls) \in Seq(OutputItem) /\ (calls = <<>> => CallItems(calls) = <<>>)
<1>1. ASSUME NEW i \in 1..Len(calls)
      PROVE  Item("call", <<calls[i]>>) \in OutputItem
  BY DEF Item, OutputItem, Kind
<1>2. Len(calls) \in Nat
  OBVIOUS
<1>3. CallItems(calls) \in Seq(OutputItem) /\ Len(CallItems(calls)) = Len(calls)
  BY <1>1, <1>2 DEF CallItems
<1> QED BY <1>3, EmptySeq

(* Without calls, or also without text, the output is its first blocks.     *)
LEMMA OutputParts ==
  ASSUME NEW r \in Seq(Nat), NEW t \in Seq(Nat), NEW k \in Seq(Nat)
  PROVE  /\ k = <<>> => Output(r, t, k) = Block("reasoning", r) \o Block("text", t)
         /\ k = <<>> /\ t = <<>> => Output(r, t, k) = Block("reasoning", r)
         /\ k = <<>> /\ t = <<>> /\ r = <<>> => Output(r, t, k) = <<>>
<1>1. /\ Block("reasoning", r) \in Seq(OutputItem) /\ Block("text", t) \in Seq(OutputItem)
      /\ CallItems(k) \in Seq(OutputItem)
      /\ Block("reasoning", r) \o Block("text", t) \in Seq(OutputItem)
  BY BlockType, CallItemsType DEF Kind
<1>2. \A x \in Seq(OutputItem) : x \o <<>> = x
  OBVIOUS
<1>3. /\ k = <<>> => CallItems(k) = <<>>
      /\ t = <<>> => Block("text", t) = <<>>
      /\ r = <<>> => Block("reasoning", r) = <<>>
  BY BlockType, CallItemsType DEF Kind
<1> QED BY <1>1, <1>2, <1>3 DEF Output

LEMMA ClosedState ==
  ASSUME NEW s, DOMAIN s = StateFields
  PROVE  /\ DOMAIN Closed(s) = StateFields
         /\ Closed(s).block = "none"
         /\ Closed(s).output = s.output \o OpenItems(s)
         /\ Closed(s).text = s.text
         /\ Closed(s).reasoning = s.reasoning
         /\ Closed(s).calls = IF s.block = "call" THEN <<>> ELSE s.calls
<1>1. PICK items : items = OpenItems(s)
  OBVIOUS
<1>2. PICK done : done = s.done \o [i \in 1..Len(items) |-> <<items[i].kind, s.index + i - 1>>]
  OBVIOUS
<1>3. PICK index : index = s.index + Len(items)
  OBVIOUS
<1>4. ItemsDone(s, items)
        = [s EXCEPT !.output = s.output \o items, !.done = done, !.index = index, !.block = "none"]
  BY <1>2, <1>3, Zenon DEF ItemsDone
<1>5. Closed(s) = [[s EXCEPT !.output = s.output \o items, !.done = done, !.index = index, !.block = "none"]
                     EXCEPT !.calls = IF s.block = "call" THEN <<>> ELSE @]
  BY <1>1, <1>4, Zenon DEF Closed
<1> QED BY <1>1, <1>5 DEF StateFields

LEMMA OpensState ==
  ASSUME NEW s, DOMAIN s = StateFields, NEW kind
  PROVE  /\ DOMAIN Opens(s, kind) = StateFields
         /\ Opens(s, kind).block = kind
         /\ Opens(s, kind).output = s.output
         /\ Opens(s, kind).text = s.text
         /\ Opens(s, kind).reasoning = s.reasoning
         /\ Opens(s, kind).calls = s.calls
BY DEF Opens, StateFields

(* A chunk that is read goes where its kind says.                           *)
LEMMA ReceivedState ==
  ASSUME NEW s, DOMAIN s = StateFields, NEW kind \in Kind, NEW n,
         NEW o, o = OpenedFor(s, kind), DOMAIN o = StateFields
  PROVE  /\ DOMAIN Received(s, kind, n) = StateFields
         /\ Received(s, kind, n).block = o.block
         /\ Received(s, kind, n).output = o.output
         /\ Received(s, kind, n).text
              = IF kind = "text" THEN Append(o.text, n) ELSE o.text
         /\ Received(s, kind, n).reasoning
              = IF kind = "reasoning" THEN Append(o.reasoning, n) ELSE o.reasoning
         /\ Received(s, kind, n).calls
              = IF kind = "call" THEN Append(o.calls, n) ELSE o.calls
<1>1. CASE kind = "text"
  <2>1. Received(s, kind, n) = [o EXCEPT !.text = Append(@, n)]
    BY <1>1 DEF Received
  <2> QED BY <1>1, <2>1 DEF StateFields
<1>2. CASE kind = "reasoning"
  <2>1. Received(s, kind, n) = [o EXCEPT !.reasoning = Append(@, n)]
    BY <1>2 DEF Received
  <2> QED BY <1>2, <2>1 DEF StateFields
<1>3. CASE kind = "call"
  <2>1. Received(s, kind, n) = [o EXCEPT !.calls = Append(@, n)]
    BY <1>3 DEF Received
  <2> QED BY <1>3, <2>1 DEF StateFields
<1> QED BY <1>1, <1>2, <1>3 DEF Kind

LEMMA NextKind ==
  ASSUME NEW a \in Seq(Kind), Regular(a), NEW n \in 2..Len(a)
  PROVE  /\ a[n] \in Kind /\ a[n - 1] \in Kind
         /\ a[n - 1] = "reasoning" => a[n] # "call"
         /\ a[n - 1] = "text" => a[n] # "reasoning"
         /\ a[n - 1] = "call" => a[n] = "call"
<1>1. /\ n \in 1..Len(a) /\ n - 1 \in 1..Len(a) /\ n - 1 <= n
      /\ a[n] \in Kind /\ a[n - 1] \in Kind
  OBVIOUS
<1>2. Rank[a[n - 1]] <= Rank[a[n]]
  BY <1>1 DEF Regular
<1>3. Rank["reasoning"] = 1 /\ Rank["text"] = 2 /\ Rank["call"] = 3
  BY DEF Rank
<1>4. ~(a[n - 1] = "reasoning" /\ a[n] = "call")
  BY DEF Regular
<1> QED BY <1>1, <1>2, <1>3, <1>4 DEF Kind

LEMMA EmptyAppended ==
  ASSUME NEW S, NEW q \in Seq(S), NEW e \in S
  PROVE  Append(q, e) # <<>> /\ q \o <<>> = q
<1>1. Len(Append(q, e)) = Len(q) + 1 /\ Len(q) \in Nat /\ Len(<<>>) = 0
  OBVIOUS
<1>2. q \o <<>> = q
  OBVIOUS
<1> QED BY <1>1, <1>2

(* A chunk keeps what is built.                                            *)
LEMMA BuiltReceives ==
  ASSUME NEW a \in Seq(Kind), Regular(a), NEW n \in 1..Len(a),
         NEW s, NEW r \in Seq(Nat), NEW t \in Seq(Nat), NEW k \in Seq(Nat),
         Built(a, n - 1, s, r, t, k)
  PROVE  Built(a, n, Received(s, a[n], n),
               IF a[n] = "reasoning" THEN Append(r, n) ELSE r,
               IF a[n] = "text" THEN Append(t, n) ELSE t,
               IF a[n] = "call" THEN Append(k, n) ELSE k)
<1>1. PICK kind \in Kind : kind = a[n]
  OBVIOUS
<1>2. PICK u : u = Received(s, kind, n)
  OBVIOUS
<1>3. PICK o : o = OpenedFor(s, kind)
  OBVIOUS
<1>4. PICK c : c = Closed(s)
  OBVIOUS
<1>5. PICK B : B = Block("reasoning", r)
  OBVIOUS
<1>6. PICK C : C = Block("text", t)
  OBVIOUS
<1>7. /\ n \in Nat /\ n # 0 /\ n - 1 # Len(a)
      /\ B \in Seq(OutputItem) /\ C \in Seq(OutputItem) /\ <<>> \in Seq(OutputItem)
      /\ B \o <<>> = B /\ <<>> \o <<>> = <<>>
      /\ DOMAIN s = StateFields
  BY <1>5, <1>6, BlockType, EmptyAppended DEF Built, Kind
<1>8. /\ DOMAIN c = StateFields /\ c.block = "none" /\ c.output = s.output \o OpenItems(s)
      /\ c.text = s.text /\ c.reasoning = s.reasoning
      /\ c.calls = IF s.block = "call" THEN <<>> ELSE s.calls
  BY <1>4, <1>7, ClosedState
<1>9. /\ s.block = "none" => n - 1 = 0
      /\ s.block = "reasoning" => kind # "call"
      /\ s.block = "text" => kind # "reasoning"
      /\ s.block = "call" => kind = "call"
      /\ s.block \in {"none", "reasoning", "text", "call"}
  <2>1. /\ s.block \in {"none", "reasoning", "text", "call"}
        /\ s.block = "none" => n - 1 = 0
        /\ s.block # "none" => n - 1 # 0 /\ a[n - 1] = s.block
    BY <1>7 DEF Built
  <2>2. CASE n - 1 # 0
    <3>1. n \in 2..Len(a)
      BY <2>2
    <3> QED BY <1>1, <2>1, <2>2, <3>1, NextKind
  <2> QED BY <2>1, <2>2
<1>10. /\ s.block = "none" => c.output = <<>>
       /\ s.block = "reasoning" => c.output = B /\ C = <<>>
       /\ s.block = "text" => c.output = B \o C
  <2>1. CASE s.block = "none"
    <3>1. r = <<>> /\ t = <<>> /\ k = <<>> /\ s.output = Output(r, t, k)
      BY <1>9, <2>1 DEF Built
    <3>2. s.output = <<>> /\ OpenItems(s) = <<>>
      BY <2>1, <3>1, OutputParts DEF OpenItems
    <3> QED BY <1>7, <1>8, <2>1, <3>2
  <2>2. CASE s.block = "reasoning"
    <3>1. s.reasoning = r /\ r # <<>> /\ t = <<>> /\ s.output = <<>>
      BY <2>2 DEF Built
    <3>2. OpenItems(s) = <<Item("reasoning", r)>> /\ B = <<Item("reasoning", r)>> /\ C = <<>>
      BY <1>5, <1>6, <2>2, <3>1, BlockType DEF OpenItems, Kind
    <3>3. <<>> \o B = B
      BY <1>7
    <3> QED BY <1>8, <2>2, <3>1, <3>2, <3>3
  <2>3. CASE s.block = "text"
    <3>1. s.text = t /\ t # <<>> /\ s.output = B
      BY <1>5, <2>3 DEF Built
    <3>2. OpenItems(s) = <<Item("text", t)>> /\ C = <<Item("text", t)>>
      BY <1>6, <2>3, <3>1, BlockType DEF OpenItems, Kind
    <3> QED BY <1>8, <2>3, <3>1, <3>2
  <2> QED BY <2>1, <2>2, <2>3
<1>11. ASSUME s.block = kind
       PROVE  /\ DOMAIN o = StateFields /\ o.block = kind /\ o.output = s.output
              /\ o.text = s.text /\ o.reasoning = s.reasoning /\ o.calls = s.calls
  <2>1. CASE kind = "call"
    <3>1. o = Opens(s, kind)
      BY <1>3, <1>11, <2>1 DEF OpenedFor
    <3> QED BY <1>7, <3>1, OpensState
  <2>2. CASE kind # "call"
    <3>1. o = s
      BY <1>3, <1>11, <2>2 DEF OpenedFor, Kind
    <3> QED BY <1>7, <1>11, <3>1
  <2> QED BY <2>1, <2>2
<1>12. ASSUME s.block # kind, s.block # "none" \/ kind # "call"
       PROVE  /\ DOMAIN o = StateFields /\ o.block = kind /\ o.output = c.output
              /\ o.text = s.text /\ o.reasoning = s.reasoning
              /\ o.calls = IF s.block = "call" THEN <<>> ELSE s.calls
  <2>1. o = Opens(c, kind)
    BY <1>3, <1>4, <1>9, <1>12 DEF OpenedFor, Kind
  <2> QED BY <1>8, <2>1, OpensState
<1>13. ASSUME s.block = "none", kind = "call"
       PROVE  /\ DOMAIN o = StateFields /\ o.block = kind /\ o.output = s.output
              /\ o.text = s.text /\ o.reasoning = s.reasoning /\ o.calls = s.calls
  <2>1. o = Opens(s, kind)
    BY <1>3, <1>13 DEF OpenedFor
  <2> QED BY <1>7, <2>1, OpensState
<1>14. DOMAIN o = StateFields /\ o.block = kind
  BY <1>11, <1>12, <1>13
<1>15. /\ DOMAIN u = StateFields /\ u.block = kind /\ u.output = o.output
       /\ u.text = IF kind = "text" THEN Append(o.text, n) ELSE o.text
       /\ u.reasoning = IF kind = "reasoning" THEN Append(o.reasoning, n) ELSE o.reasoning
       /\ u.calls = IF kind = "call" THEN Append(o.calls, n) ELSE o.calls
  <2>1. DOMAIN s = StateFields /\ DOMAIN o = StateFields /\ o.block = kind
    BY <1>7, <1>14
  <2>2. /\ DOMAIN Received(s, kind, n) = StateFields
        /\ Received(s, kind, n).block = o.block
        /\ Received(s, kind, n).output = o.output
        /\ Received(s, kind, n).text
             = IF kind = "text" THEN Append(o.text, n) ELSE o.text
        /\ Received(s, kind, n).reasoning
             = IF kind = "reasoning" THEN Append(o.reasoning, n) ELSE o.reasoning
        /\ Received(s, kind, n).calls
             = IF kind = "call" THEN Append(o.calls, n) ELSE o.calls
    BY <1>3, <2>1, ReceivedState
  <2> QED BY <1>2, <2>1, <2>2
<1>16. CASE kind = "reasoning"
  <2>1. /\ o.output = <<>> /\ o.reasoning = r /\ t = <<>> /\ k = <<>>
        /\ o.text = <<>> /\ o.calls = <<>>
    <3>1. CASE s.block = "none"
      <4>1. s.text = <<>> /\ s.reasoning = <<>> /\ s.calls = <<>> /\ r = <<>> /\ t = <<>> /\ k = <<>>
        BY <1>9, <3>1 DEF Built
      <4> QED BY <1>10, <1>12, <1>16, <3>1, <4>1
    <3>2. CASE s.block = "reasoning"
      BY <1>11, <1>16, <3>2 DEF Built
    <3> QED BY <1>9, <1>16, <3>1, <3>2
  <2>2. Append(r, n) # <<>>
    BY <1>7, EmptyAppended
  <2>3. Built(a, n, u, Append(r, n), t, k)
    BY <1>1, <1>7, <1>15, <1>16, <2>1, <2>2 DEF Built
  <2> QED BY <1>1, <1>2, <1>16, <2>3
<1>17. CASE kind = "text"
  <2>1. o.output = B /\ o.text = t /\ k = <<>> /\ o.calls = <<>>
    <3>1. CASE s.block = "none"
      <4>1. s.text = <<>> /\ s.reasoning = <<>> /\ s.calls = <<>> /\ r = <<>> /\ t = <<>> /\ k = <<>>
        BY <1>9, <3>1 DEF Built
      <4>2. B = <<>>
        BY <1>5, <4>1, BlockType DEF Kind
      <4> QED BY <1>10, <1>12, <1>17, <3>1, <4>1, <4>2
    <3>2. CASE s.block = "reasoning"
      <4>1. s.text = <<>> /\ s.calls = <<>> /\ t = <<>> /\ k = <<>>
        BY <3>2 DEF Built
      <4> QED BY <1>10, <1>12, <1>17, <3>2, <4>1
    <3>3. CASE s.block = "text"
      BY <1>5, <1>11, <1>17, <3>3 DEF Built
    <3> QED BY <1>9, <1>17, <3>1, <3>2, <3>3
  <2>2. Append(t, n) # <<>>
    BY <1>7, EmptyAppended
  <2>3. Built(a, n, u, r, Append(t, n), k)
    BY <1>1, <1>5, <1>7, <1>15, <1>17, <2>1, <2>2 DEF Built
  <2> QED BY <1>1, <1>2, <1>17, <2>3
<1>18. CASE kind = "call"
  <2>1. o.output = B \o C /\ o.calls = k
    <3>1. CASE s.block = "none"
      <4>1. /\ s.calls = <<>> /\ r = <<>> /\ t = <<>> /\ k = <<>>
            /\ s.output = Output(r, t, k)
        BY <1>9, <3>1 DEF Built
      <4>2. B = <<>> /\ C = <<>> /\ s.output = <<>>
        BY <1>5, <1>6, <4>1, BlockType, OutputParts DEF Kind
      <4> QED BY <1>7, <1>13, <1>18, <3>1, <4>1, <4>2
    <3>2. CASE s.block = "text"
      <4>1. s.calls = <<>> /\ k = <<>>
        BY <3>2 DEF Built
      <4> QED BY <1>10, <1>12, <1>18, <3>2, <4>1
    <3>3. CASE s.block = "call"
      BY <1>5, <1>6, <1>11, <1>18, <3>3 DEF Built
    <3> QED BY <1>9, <1>18, <3>1, <3>2, <3>3
  <2>2. Built(a, n, u, r, t, Append(k, n))
    BY <1>1, <1>5, <1>6, <1>7, <1>15, <1>18, <2>1 DEF Built
  <2> QED BY <1>1, <1>2, <1>18, <2>2
<1> QED BY <1>16, <1>17, <1>18 DEF Kind

(* The items that are complete and the open one are the output so far.      *)
LEMMA BuiltOutput ==
  ASSUME NEW a \in Seq(Kind), NEW n \in Nat, NEW s,
         NEW r \in Seq(Nat), NEW t \in Seq(Nat), NEW k \in Seq(Nat),
         Built(a, n, s, r, t, k)
  PROVE  FinalOutput(s) = Output(r, t, k)
<1>1. PICK B : B = Block("reasoning", r)
  OBVIOUS
<1>2. PICK C : C = Block("text", t)
  OBVIOUS
<1>3. PICK K \in Seq(OutputItem) : K = CallItems(k)
  BY CallItemsType
<1>4. /\ B \in Seq(OutputItem) /\ C \in Seq(OutputItem)
      /\ Output(r, t, k) = B \o C \o K /\ B \o C \in Seq(OutputItem)
      /\ B \o C \o K \in Seq(OutputItem)
  BY <1>1, <1>2, <1>3, BlockType DEF Kind, Output
<1>5. CASE s.block = "none"
  <2>1. FinalOutput(s) = s.output \o <<>> /\ s.output = Output(r, t, k)
    BY <1>5 DEF Built, FinalOutput, OpenItems
  <2> QED BY <1>4, <2>1, EmptyAppended
<1>6. CASE s.block = "reasoning"
  <2>1. s.output = <<>> /\ s.reasoning = r /\ r # <<>> /\ t = <<>> /\ k = <<>>
    BY <1>6 DEF Built
  <2>2. FinalOutput(s) = <<>> \o <<Item("reasoning", r)>>
    BY <1>6, <2>1 DEF FinalOutput, OpenItems
  <2>3. B = <<Item("reasoning", r)>> /\ Output(r, t, k) = B
    BY <1>1, <2>1, BlockType, OutputParts DEF Kind
  <2>4. <<>> \o B = B
    BY <1>4
  <2> QED BY <2>2, <2>3, <2>4
<1>7. CASE s.block = "text"
  <2>1. s.output = B /\ s.text = t /\ t # <<>> /\ k = <<>>
    BY <1>1, <1>7 DEF Built
  <2>2. FinalOutput(s) = B \o <<Item("text", t)>>
    BY <1>7, <2>1 DEF FinalOutput, OpenItems
  <2>3. C = <<Item("text", t)>>
    BY <1>2, <2>1, BlockType DEF Kind
  <2>4. K = <<>>
    BY <1>3, <2>1, CallItemsType
  <2>5. \A x \in Seq(OutputItem) : x \o <<>> = x
    OBVIOUS
  <2>6. B \o C \o K = B \o C
    BY <1>4, <2>4, <2>5
  <2> QED BY <1>4, <2>2, <2>3, <2>6
<1>8. CASE s.block = "call"
  <2>1. s.output = B \o C /\ s.calls = k
    BY <1>1, <1>2, <1>8 DEF Built
  <2> QED BY <1>3, <1>4, <1>8, <2>1 DEF FinalOutput, OpenItems
<1> QED BY <1>5, <1>6, <1>7, <1>8 DEF Built

(* The chunk with the finish reason keeps what is built of a whole answer.  *)
LEMMA BuiltCloses ==
  ASSUME NEW a \in Seq(Kind), NEW s, s.block # "none",
         NEW r \in Seq(Nat), NEW t \in Seq(Nat), NEW k \in Seq(Nat),
         Built(a, Len(a), s, r, t, k)
  PROVE  Built(a, Len(a), Closed(s), r, t, k)
<1>1. PICK c : c = Closed(s)
  OBVIOUS
<1>2. Len(a) \in Nat /\ DOMAIN s = StateFields /\ Len(a) # 0
  BY DEF Built
<1>3. DOMAIN c = StateFields /\ c.block = "none" /\ c.output = FinalOutput(s)
  BY <1>1, <1>2, ClosedState DEF FinalOutput
<1>4. c.output = Output(r, t, k)
  BY <1>2, <1>3, BuiltOutput
<1>5. Built(a, Len(a), c, r, t, k)
  BY <1>2, <1>3, <1>4 DEF Built
<1> QED BY <1>1, <1>5

-----------------------------------------------------------------------------
(* The handlers.                                                           *)

(* The state s of a stream is that of the first n chunks of answer.         *)
AnswerBuilt(answer, n, s) ==
  \A r, t, k :
    /\ IsChunks(answer, "reasoning", r)
    /\ IsChunks(answer, "text", t)
    /\ IsChunks(answer, "call", k)
    => Built(answer, n, s, r[n], t[n], k[n])

LEMMA ChunksOf ==
  ASSUME NEW answer \in Seq(Kind), NEW kind, NEW f, IsChunks(answer, kind, f),
         NEW n \in 1..Len(answer)
  PROVE  /\ f[n - 1] \in Seq(Nat) /\ f[n] \in Seq(Nat)
         /\ f[n] = IF answer[n] = kind THEN Append(f[n - 1], n) ELSE f[n - 1]
<1>1. n \in 0..Len(answer) /\ n - 1 \in 0..Len(answer)
  OBVIOUS
<1> QED BY <1>1 DEF IsChunks

LEMMA ChunksStartEmpty ==
  ASSUME NEW answer, NEW kind, NEW f, IsChunks(answer, kind, f)
  PROVE  f[0] = <<>>
BY DEF IsChunks

LEMMA AllChunks ==
  ASSUME NEW answer \in Seq(Kind), NEW kind, NEW f, IsChunks(answer, kind, f)
  PROVE  f[Len(answer)] \in Seq(Nat) /\ f[Len(answer)] = Chunks(answer, kind)
<1>1. Len(answer) \in 0..Len(answer)
  OBVIOUS
<1> QED BY <1>1 DEF IsChunks

LEMMA NewStreamBuilt ==
  ASSUME NEW answer \in Seq(Kind)
  PROVE  AnswerBuilt(answer, 0, NewStream)
<1>1. <<>> \in Seq(Nat)
  OBVIOUS
<1>2. Output(<<>>, <<>>, <<>>) = <<>>
  BY <1>1, OutputParts
<1>3. /\ DOMAIN NewStream = StateFields /\ NewStream.block = "none" /\ NewStream.output = <<>>
      /\ NewStream.text = <<>> /\ NewStream.reasoning = <<>> /\ NewStream.calls = <<>>
  BY DEF NewStream, StateFields
<1>4. Built(answer, 0, NewStream, <<>>, <<>>, <<>>)
  BY <1>2, <1>3 DEF Built
<1>5. SUFFICES ASSUME NEW r, NEW t, NEW k,
                      IsChunks(answer, "reasoning", r), IsChunks(answer, "text", t),
                      IsChunks(answer, "call", k)
               PROVE  Built(answer, 0, NewStream, r[0], t[0], k[0])
  BY DEF AnswerBuilt
<1>6. r[0] = <<>> /\ t[0] = <<>> /\ k[0] = <<>>
  BY <1>5, ChunksStartEmpty
<1> QED BY <1>4, <1>6

LEMMA ReadBuilt ==
  ASSUME NEW answer \in Seq(Kind), Regular(answer), NEW s, NEW n \in 1..Len(answer),
         AnswerBuilt(answer, n - 1, s)
  PROVE  AnswerBuilt(answer, n, Received(s, answer[n], n))
<1>1. SUFFICES ASSUME NEW r, NEW t, NEW k,
                      IsChunks(answer, "reasoning", r), IsChunks(answer, "text", t),
                      IsChunks(answer, "call", k)
               PROVE  Built(answer, n, Received(s, answer[n], n), r[n], t[n], k[n])
  BY DEF AnswerBuilt
<1>2. Built(answer, n - 1, s, r[n - 1], t[n - 1], k[n - 1])
  BY <1>1 DEF AnswerBuilt
<1>3. /\ r[n - 1] \in Seq(Nat) /\ t[n - 1] \in Seq(Nat) /\ k[n - 1] \in Seq(Nat)
      /\ r[n] = IF answer[n] = "reasoning" THEN Append(r[n - 1], n) ELSE r[n - 1]
      /\ t[n] = IF answer[n] = "text" THEN Append(t[n - 1], n) ELSE t[n - 1]
      /\ k[n] = IF answer[n] = "call" THEN Append(k[n - 1], n) ELSE k[n - 1]
  BY <1>1, ChunksOf
<1>4. Built(answer, n, Received(s, answer[n], n),
            IF answer[n] = "reasoning" THEN Append(r[n - 1], n) ELSE r[n - 1],
            IF answer[n] = "text" THEN Append(t[n - 1], n) ELSE t[n - 1],
            IF answer[n] = "call" THEN Append(k[n - 1], n) ELSE k[n - 1])
  BY <1>2, <1>3, BuiltReceives
<1> QED BY <1>3, <1>4

LEMMA FinishedBuilt ==
  ASSUME NEW answer \in Seq(Kind), NEW s, s.block # "none",
         AnswerBuilt(answer, Len(answer), s)
  PROVE  AnswerBuilt(answer, Len(answer), Closed(s))
<1>1. SUFFICES ASSUME NEW r, NEW t, NEW k,
                      IsChunks(answer, "reasoning", r), IsChunks(answer, "text", t),
                      IsChunks(answer, "call", k)
               PROVE  Built(answer, Len(answer), Closed(s),
                            r[Len(answer)], t[Len(answer)], k[Len(answer)])
  BY DEF AnswerBuilt
<1>2. Built(answer, Len(answer), s, r[Len(answer)], t[Len(answer)], k[Len(answer)])
  BY <1>1 DEF AnswerBuilt
<1>3. /\ r[Len(answer)] \in Seq(Nat) /\ t[Len(answer)] \in Seq(Nat)
      /\ k[Len(answer)] \in Seq(Nat)
  BY <1>1, AllChunks
<1> QED BY <1>2, <1>3, BuiltCloses

LEMMA WholeBuilt ==
  ASSUME NEW answer \in Seq(Kind), NEW s, AnswerBuilt(answer, Len(answer), s)
  PROVE  FinalOutput(s) = Converted(answer)
<1>1. PICK r : IsChunks(answer, "reasoning", r)
  BY ChunksExist
<1>2. PICK t : IsChunks(answer, "text", t)
  BY ChunksExist
<1>3. PICK k : IsChunks(answer, "call", k)
  BY ChunksExist
<1>4. Built(answer, Len(answer), s, r[Len(answer)], t[Len(answer)], k[Len(answer)])
  BY <1>1, <1>2, <1>3 DEF AnswerBuilt
<1>5. /\ r[Len(answer)] \in Seq(Nat) /\ r[Len(answer)] = Chunks(answer, "reasoning")
      /\ t[Len(answer)] \in Seq(Nat) /\ t[Len(answer)] = Chunks(answer, "text")
      /\ k[Len(answer)] \in Seq(Nat) /\ k[Len(answer)] = Chunks(answer, "call")
  BY <1>1, <1>2, <1>3, AllChunks
<1>6. Len(answer) \in Nat
  OBVIOUS
<1>7. FinalOutput(s)
        = Output(Chunks(answer, "reasoning"), Chunks(answer, "text"), Chunks(answer, "call"))
  BY <1>4, <1>5, <1>6, BuiltOutput
<1> QED BY <1>7 DEF Output, Converted

(* What a handler knows of its stream is what it read of the answer.        *)
HandlerFields ==
  {"pc", "stream", "store", "messages", "answer", "read", "state", "gone", "closed", "result"}

HandlerOK(l) ==
  /\ DOMAIN l = HandlerFields
  /\ l.pc \in {"idle", "asking", "reading", "ended"}
  /\ l.pc # "ended" => l.result # "completed"
  /\ l.pc = "asking" => l.state = NewStream /\ l.read = 0
  /\ l.pc = "reading" =>
       /\ l.answer \in Answers
       /\ l.read \in 0..Len(l.answer)
       /\ l.stream /\ Regular(l.answer) => AnswerBuilt(l.answer, l.read, l.state)
  /\ l.stream /\ l.result = "completed" /\ l.read = Len(l.answer) /\ Regular(l.answer)
     => l.state.output = Converted(l.answer)

HandlersOK == DOMAIN handlers = Requests /\ \A r \in Requests : HandlerOK(handlers[r])

LEMMA HandlerMoves ==
  ASSUME HandlersOK, NEW r \in Requests, NEW l, HandlerOK(l),
         handlers' = [handlers EXCEPT ![r] = l]
  PROVE  HandlersOK'
<1>1. /\ DOMAIN handlers = Requests /\ DOMAIN handlers' = Requests
      /\ \A q \in Requests : handlers'[q] = IF q = r THEN l ELSE handlers[q]
  BY DEF HandlersOK
<1>2. \A q \in Requests : HandlerOK(handlers'[q])
  BY <1>1 DEF HandlersOK
<1> QED BY <1>1, <1>2 DEF HandlersOK

LEMMA NewHandlerOK ==
  /\ HandlerOK(NewRequest)
  /\ DOMAIN NewRequest = HandlerFields /\ NewRequest.result = "none" /\ NewRequest.pc = "idle"
  /\ NewRequest.state = NewStream /\ NewRequest.read = 0
<1>1. /\ DOMAIN NewRequest = HandlerFields /\ NewRequest.result = "none" /\ NewRequest.pc = "idle"
      /\ NewRequest.state = NewStream /\ NewRequest.read = 0
  BY DEF NewRequest, HandlerFields
<1> QED BY <1>1 DEF HandlerOK

LEMMA EndedFields ==
  ASSUME NEW l, NEW result
  PROVE  /\ DOMAIN Ended(l, result) = HandlerFields
         /\ Ended(l, result).pc = "ended"
         /\ Ended(l, result).stream = l.stream
         /\ Ended(l, result).result = result
         /\ Ended(l, result).state = NewStream
BY NewHandlerOK DEF Ended, HandlerFields

LEMMA EndedOtherwise ==
  ASSUME NEW l, NEW result, result # "completed" \/ ~l.stream
  PROVE  HandlerOK(Ended(l, result))
BY EndedFields DEF HandlerOK

LEMMA AskedOK ==
  ASSUME HandlersOK, NEW r \in Requests, NEW stream, NEW store, NEW messages,
         Asked(r, stream, store, messages)
  PROVE  HandlersOK'
<1>1. PICK m : m = Append(messages, Input(r))
  OBVIOUS
<1>2. PICK l : l = [NewRequest EXCEPT !.pc = "asking", !.stream = stream, !.store = store,
                                      !.messages = m]
  OBVIOUS
<1>3. /\ DOMAIN l = HandlerFields /\ l.pc = "asking" /\ l.result = "none"
      /\ l.state = NewStream /\ l.read = 0
  BY <1>2, NewHandlerOK DEF HandlerFields
<1>4. HandlerOK(l)
  BY <1>3 DEF HandlerOK
<1>5. handlers' = [handlers EXCEPT ![r] = l]
  BY <1>1, <1>2, Zenon DEF Asked
<1> QED BY <1>4, <1>5, HandlerMoves

LEMMA ResultOK ==
  ASSUME HandlersOK, NEW r \in Requests, NEW result, Result(r, result),
         result # "completed" \/ ~handlers[r].stream
  PROVE  HandlersOK'
<1>1. HandlerOK(Ended(handlers[r], result))
  BY EndedOtherwise
<1> QED BY <1>1, HandlerMoves DEF Result

LEMMA AcceptedOK ==
  ASSUME HandlersOK, NEW r \in Requests, Accepted(r)
  PROVE  HandlersOK'
<1>1. PICK answer \in Answers :
        handlers' = [handlers EXCEPT ![r].pc = "reading", ![r].answer = answer]
  BY DEF Accepted
<1>2. PICK l : l = [handlers[r] EXCEPT !.pc = "reading", !.answer = answer]
  OBVIOUS
<1>3. HandlerOK(handlers[r]) /\ handlers[r].pc = "asking" /\ DOMAIN handlers = Requests
  BY DEF HandlersOK, Accepted
<1>4. handlers' = [handlers EXCEPT ![r] = l]
  BY <1>1, <1>2, <1>3
<1>5. /\ DOMAIN l = HandlerFields /\ l.pc = "reading" /\ l.answer = answer
      /\ l.state = NewStream /\ l.read = 0 /\ l.result # "completed"
  BY <1>2, <1>3 DEF HandlerOK, HandlerFields
<1>6. answer \in Seq(Kind) /\ 0 \in 0..Len(answer) /\ AnswerBuilt(answer, 0, NewStream)
  <2>1. answer \in Seq(Kind)
    BY ResponsesAssumption
  <2> QED BY <2>1, NewStreamBuilt
<1>7. HandlerOK(l)
  BY <1>5, <1>6 DEF HandlerOK
<1> QED BY <1>4, <1>7, HandlerMoves

LEMMA ReadsOK ==
  ASSUME HandlersOK, NEW r \in Requests, Reads(r)
  PROVE  HandlersOK'
<1>1. PICK l : l = handlers[r]
  OBVIOUS
<1>2. PICK n : n = l.read + 1
  OBVIOUS
<1>3. PICK s : s = Received(l.state, l.answer[n], n)
  OBVIOUS
<1>4. PICK m : m = [l EXCEPT !.read = n, !.closed = l.closed \/ l.gone, !.state = s]
  OBVIOUS
<1>5. /\ HandlerOK(l) /\ l.pc = "reading" /\ l.stream /\ n <= Len(l.answer)
      /\ DOMAIN handlers = Requests
  BY <1>1, <1>2 DEF HandlersOK, Reads
<1>6. handlers' = [handlers EXCEPT ![r].read = n, ![r].closed = l.closed \/ l.gone,
                                   ![r].state = s]
  BY <1>1, <1>2, <1>3 DEF Reads
<1>7. handlers' = [handlers EXCEPT ![r] = m]
  BY <1>1, <1>4, <1>5, <1>6
<1>8. /\ l.answer \in Answers /\ l.answer \in Seq(Kind) /\ l.read \in 0..Len(l.answer)
      /\ n \in 1..Len(l.answer) /\ n - 1 = l.read /\ n \in 0..Len(l.answer)
  <2>1. l.answer \in Answers /\ l.read \in 0..Len(l.answer)
    BY <1>5 DEF HandlerOK
  <2>2. l.answer \in Seq(Kind)
    BY <2>1, ResponsesAssumption
  <2> QED BY <1>2, <1>5, <2>1, <2>2
<1>9. /\ DOMAIN m = HandlerFields /\ m.pc = "reading" /\ m.answer = l.answer
      /\ m.state = s /\ m.read = n /\ m.result # "completed"
  BY <1>4, <1>5 DEF HandlerOK, HandlerFields
<1>10. Regular(l.answer) => AnswerBuilt(l.answer, n, s)
  <2>1. Regular(l.answer) => AnswerBuilt(l.answer, n - 1, l.state)
    BY <1>5, <1>8 DEF HandlerOK
  <2> QED BY <1>3, <1>8, <2>1, ReadBuilt
<1>11. HandlerOK(m)
  BY <1>8, <1>9, <1>10 DEF HandlerOK
<1> QED BY <1>7, <1>11, HandlerMoves

LEMMA FinishesOK ==
  ASSUME HandlersOK, NEW r \in Requests, Finishes(r)
  PROVE  HandlersOK'
<1>1. PICK l : l = handlers[r]
  OBVIOUS
<1>2. PICK s : s = Closed(l.state)
  OBVIOUS
<1>3. PICK m : m = [l EXCEPT !.state = s, !.closed = l.closed \/ l.gone]
  OBVIOUS
<1>4. /\ HandlerOK(l) /\ l.pc = "reading" /\ l.stream /\ l.read = Len(l.answer)
      /\ l.state.block # "none" /\ DOMAIN handlers = Requests
  BY <1>1 DEF HandlersOK, Finishes
<1>5. handlers' = [handlers EXCEPT ![r].state = s, ![r].closed = l.closed \/ l.gone]
  BY <1>1, <1>2 DEF Finishes
<1>6. handlers' = [handlers EXCEPT ![r] = m]
  BY <1>1, <1>3, <1>4, <1>5
<1>7. l.answer \in Answers /\ l.answer \in Seq(Kind) /\ l.read \in 0..Len(l.answer)
  <2>1. l.answer \in Answers /\ l.read \in 0..Len(l.answer)
    BY <1>4 DEF HandlerOK
  <2> QED BY <2>1, ResponsesAssumption
<1>8. /\ DOMAIN m = HandlerFields /\ m.pc = "reading" /\ m.answer = l.answer
      /\ m.state = s /\ m.read = l.read /\ m.result # "completed"
  BY <1>3, <1>4 DEF HandlerOK, HandlerFields
<1>9. Regular(l.answer) => AnswerBuilt(l.answer, l.read, s)
  <2>1. Regular(l.answer) => AnswerBuilt(l.answer, Len(l.answer), l.state)
    BY <1>4 DEF HandlerOK
  <2> QED BY <1>2, <1>4, <1>7, <2>1, FinishedBuilt
<1>10. HandlerOK(m)
  BY <1>7, <1>8, <1>9 DEF HandlerOK
<1> QED BY <1>6, <1>10, HandlerMoves

(* A stream that ends after the whole of a regular answer converts it.      *)
LEMMA StreamEndsOK ==
  ASSUME HandlersOK, NEW r \in Requests, StreamEnds(r)
  PROVE  HandlersOK'
<1>1. PICK l : l = handlers[r]
  OBVIOUS
<1>2. PICK output : output = FinalOutput(l.state)
  OBVIOUS
<1>3. HandlerOK(l) /\ l.pc = "reading" /\ l.stream
  BY <1>1 DEF HandlersOK, StreamEnds
<1>4. CASE l.closed
  <2>1. Result(r, "dropped")
    BY <1>1, <1>4 DEF StreamEnds
  <2> QED BY <2>1, ResultOK
<1>5. CASE ~l.closed
  <2>1. PICK e : e = Ended(l, "completed")
    OBVIOUS
  <2>2. PICK m : m = [e EXCEPT !.answer = l.answer, !.read = l.read, !.state.output = output]
    OBVIOUS
  <2>3. handlers' = [handlers EXCEPT ![r] = m]
    BY <1>1, <1>2, <1>5, <2>1, <2>2 DEF StreamEnds
  <2>4. DOMAIN e = HandlerFields /\ e.pc = "ended" /\ e.state = NewStream
    BY <2>1, EndedFields
  <2>5. /\ DOMAIN m = HandlerFields /\ m.pc = "ended" /\ m.answer = l.answer
        /\ m.read = l.read /\ m.state = [NewStream EXCEPT !.output = output]
    BY <2>2, <2>4 DEF HandlerFields
  <2>6. m.state.output = output
    BY <2>5 DEF NewStream
  <2>7. l.answer \in Seq(Kind)
    BY <1>3, ResponsesAssumption DEF HandlerOK
  <2>8. l.read = Len(l.answer) /\ Regular(l.answer) => output = Converted(l.answer)
    <3>1. l.read = Len(l.answer) /\ Regular(l.answer) => AnswerBuilt(l.answer, Len(l.answer), l.state)
      BY <1>3 DEF HandlerOK
    <3> QED BY <1>2, <2>7, <3>1, WholeBuilt
  <2>9. HandlerOK(m)
    BY <2>5, <2>6, <2>8 DEF HandlerOK
  <2> QED BY <2>3, <2>9, HandlerMoves
<1> QED BY <1>4, <1>5

LEMMA LeavesOK ==
  ASSUME HandlersOK, NEW r \in Requests, ClientLeaves(r)
  PROVE  HandlersOK'
<1>1. PICK l : l = handlers[r]
  OBVIOUS
<1>2. PICK m : m = [l EXCEPT !.gone = TRUE]
  OBVIOUS
<1>3. HandlerOK(l) /\ DOMAIN handlers = Requests
  BY <1>1 DEF HandlersOK
<1>4. handlers' = [handlers EXCEPT ![r] = m]
  BY <1>1, <1>2, <1>3 DEF ClientLeaves
<1>5. /\ DOMAIN m = HandlerFields /\ m.pc = l.pc /\ m.answer = l.answer /\ m.stream = l.stream
      /\ m.state = l.state /\ m.read = l.read /\ m.result = l.result
  BY <1>2, <1>3 DEF HandlerOK, HandlerFields
<1>6. HandlerOK(m)
  BY <1>3, <1>5 DEF HandlerOK
<1> QED BY <1>4, <1>6, HandlerMoves

LEMMA ContinuesOK ==
  ASSUME HandlersOK, NEW r \in Requests, NEW previous \in Known, Continues(r, previous)
  PROVE  HandlersOK'
<1>1. PICK finds \in BOOLEAN :
        IF finds
        THEN \E stream \in BOOLEAN, store \in BOOLEAN :
               Asked(r, stream, store, entry[previous].messages)
        ELSE Result(r, "refused")
  BY DEF Continues
<1> QED BY <1>1, AskedOK, ResultOK

LEMMA RestartOK ==
  ASSUME HandlersOK, Restart
  PROVE  HandlersOK'
<1>1. /\ DOMAIN handlers' = Requests
      /\ \A r \in Requests : \/ handlers'[r] = Ended(handlers[r], "lost")
                           \/ handlers'[r] = handlers[r]
  BY DEF Restart
<1>2. ASSUME NEW r \in Requests
      PROVE  HandlerOK(handlers'[r])
  <2>1. HandlerOK(Ended(handlers[r], "lost")) /\ HandlerOK(handlers[r])
    BY EndedOtherwise DEF HandlersOK
  <2> QED BY <1>1, <2>1
<1> QED BY <1>1, <1>2 DEF HandlersOK

LEMMA InitHandlers == ResponsesInit => HandlersOK
BY NewHandlerOK DEF ResponsesInit, HandlersOK

LEMMA SameHandlers ==
  ASSUME HandlersOK, UNCHANGED handlers
  PROVE  HandlersOK'
BY DEF HandlersOK

LEMMA NextHandlers ==
  ASSUME HandlersOK, [ResponsesNext]_responseVars
  PROVE  HandlersOK'
<1>1. ASSUME NEW r \in Requests, Creates(r)
      PROVE  HandlersOK'
  BY <1>1, AskedOK DEF Creates
<1>2. ASSUME NEW r \in Requests, RequestFails(r)
      PROVE  HandlersOK'
  BY <1>2, ResultOK DEF RequestFails
<1>3. ASSUME NEW r \in Requests, Answered(r)
      PROVE  HandlersOK'
  BY <1>3, ResultOK DEF Answered
<1>4. ASSUME NEW r \in Requests, Handles(r)
      PROVE  HandlersOK'
  BY <1>2, <1>3, <1>4, AcceptedOK, ReadsOK, FinishesOK, StreamEndsOK DEF Handles
<1>5. ASSUME NEW r \in Requests, Gets(r) \/ Deletes(r)
      PROVE  HandlersOK'
  BY <1>5, SameHandlers DEF Gets, Deletes
<1>6. ASSUME Ages
      PROVE  HandlersOK'
  BY <1>6, SameHandlers DEF Ages
<1>7. ASSUME UNCHANGED responseVars
      PROVE  HandlersOK'
  BY <1>7, SameHandlers DEF responseVars
<1> QED
  BY <1>1, <1>4, <1>5, <1>6, <1>7, LeavesOK, ContinuesOK, RestartOK DEF ResponsesNext

(* StreamedAsConverted: a streamed response that read the whole of a regular *)
(* answer has the output of chatCompletionsToResponses.                    *)
THEOREM StreamsConvert == ResponsesSpec => []StreamedAsConverted
<1>1. HandlersOK => StreamedAsConverted
  BY DEF HandlersOK, HandlerOK, StreamedAsConverted
<1> QED BY <1>1, InitHandlers, NextHandlers, PTL DEF ResponsesSpec

=============================================================================
