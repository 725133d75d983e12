--------------------------- MODULE ThreadContext ---------------------------
(***************************************************************************)
(* What the gateway remembers of one conversation, and how it moves the    *)
(* conversation to a fresh Qwen chat when the context window fills up:      *)
(* src/services/thread-context-{store,jobs,summarizer,rollover,estimator}.ts *)
(* and their use in src/routes/chat/index.ts.                              *)
(*                                                                         *)
(* The store is a few SQLite tables, written statement by statement        *)
(* without transactions.  Requests of the conversation may overlap (see    *)
(* ChatRequest).  A summary is made by a call to a model, on behalf of a    *)
(* request that has to roll over or of the job queue; it is built from what *)
(* the tables held when the call began.  Every action is what runs between  *)
(* two awaits; a crash may fall between any two statements.                 *)
(*                                                                         *)
(* Marks, deletions and retention work on initial segments of the turns, so *)
(* numbers stand for them.  Only the last summary is ever read; the older   *)
(* ones, kept or not, are history here.  Of other conversations there are  *)
(* only the jobs, which share the queue.                                   *)
(***************************************************************************)
EXTENDS Integers, Sequences, FiniteSets, SequencesExt, FiniteSetsExt

CONSTANTS
  Request,      \* what handles requests of the conversation
  Session,      \* conversations with jobs
  Tracked,      \* the conversation whose store this is
  Keep,         \* recentTurnsToKeep
  MaxRaw,       \* maxRawTurnsPerSession
  Concurrency,  \* summaryBackgroundConcurrency
  MaxTurns, MaxSummaries, MaxChats  \* bounds of the instance

ASSUME ThreadContextAssumption ==
  /\ IsFiniteSet(Request) /\ "job" \notin Request
  /\ Tracked \in Session
  /\ {Keep, MaxRaw, Concurrency} \subseteq Nat \ {0}
  /\ {MaxTurns, MaxSummaries, MaxChats} \subseteq Nat

VARIABLES
  db,       \* the tables, as far as they are about the conversation
  chats,    \* chats created so far: 1 .. chats; 0 is no chat id, null or ""
  deleted,  \* chats deleted at Qwen
  req,      \* req[r]: the local variables of request r
  run,      \* run[w]: what the summary that w waits for is made from
  queue,    \* the jobs that wait, and queuedSessions
  running   \* runningSessions, as many as activeWorkers

vars == <<db, chats, deleted, req, run, queue, running>>

Chat == 0 .. MaxChats
Turn == 1 .. MaxTurns
Runner == Request \union {"job"}

(* Usage of the context window: below the ready ratio, up to the required  *)
(* one, above.  Beyond the hard limit nothing differs but messages.        *)
Below == 0
Ready == 1
Required == 2
Level == {Below, Ready, Required}

Summary == [base : 0 .. MaxSummaries,   \* the summary that it extends
            covers : SUBSET Turn]       \* turns it folds in, or says it omits

Database ==
  [turns : 0 .. MaxTurns,         \* turns saved so far
   marked : 0 .. MaxTurns,        \* the first ones are summarized,
   removed : 0 .. MaxTurns,       \* and the first of those deleted
   summaries : Seq(Summary),
   latest : 0 .. MaxSummaries,    \* latest_summary_id of the session row
   chat : Chat,                   \* active_chat_session_id
   level : Level,                 \* estimated_thread_tokens
   continued : SUBSET Chat]       \* chats some answer's rollover came from

NoRun == [base |-> 0, covers |-> {}, end |-> 0]
Run == [base : 0 .. MaxSummaries, covers : SUBSET Turn, end : 0 .. MaxTurns]

NoPlan == [from |-> 0, summary |-> 0]
Plan == [from : Chat, summary : 0 .. MaxSummaries]

Local ==
  [pc : {"idle", "summarizing", "acquiring", "streaming", "deleting"},
   level : Level,          \* the decision of prepareThreadContextRollover
   from : Chat,            \* session.activeChatSessionId, read with it
   saw : 0 .. MaxTurns,    \* the turns there were then
   plan : Plan,            \* activeRolloverPlan
   prompt : SUBSET Turn,   \* the turns that the continuation prompt accounts for
   chat : Chat]            \* currentUiSessionId

TypeOK ==
  /\ db \in Database
  /\ Len(db.summaries) <= MaxSummaries
  /\ chats \in Chat
  /\ deleted \subseteq 1 .. chats
  /\ req \in [Request -> Local]
  /\ run \in [Runner -> Run]
  /\ queue \in Seq(Session) /\ IsInjective(queue)
  /\ running \subseteq Session /\ Cardinality(running) <= Concurrency

Idle == [pc |-> "idle", level |-> Below, from |-> 0, saw |-> 0,
         plan |-> NoPlan, prompt |-> {}, chat |-> 0]

Init ==
  /\ db = [turns |-> 0, marked |-> 0, removed |-> 0, summaries |-> <<>>,
           latest |-> 0, chat |-> 0, level |-> Below, continued |-> {}]
  /\ chats = 0 /\ deleted = {}
  /\ req = [r \in Request |-> Idle]
  /\ run = [w \in Runner |-> NoRun]
  /\ queue = <<>> /\ running = {}

-----------------------------------------------------------------------------
(* Reading the tables *)

Recent(d) == (d.turns - Keep + 1 .. d.turns) \intersect (1 .. d.turns)
Unsummarized(d) == d.marked + 1 .. d.turns
Latest(d) == Len(d.summaries)
Covered(d, i) == IF i = 0 THEN {} ELSE d.summaries[i].covers

(* Mutant of Snapshot: only the turns are read, not the last summary. *)
SnapshotOfTurns(d) == [base |-> Latest(d),
                       covers |-> Unsummarized(d) \union Recent(d),
                       end |-> d.turns]

(* The cumulative summary of the last one, the unsummarized turns and the   *)
(* recent ones.                                                            *)
Snapshot(d) == [base |-> Latest(d),
                covers |-> Covered(d, Latest(d)) \union Unsummarized(d) \union Recent(d),
                end |-> d.turns]

(* createLocalThreadContextSummary: an extract of the same, which names the *)
(* number of the turns that it omits.                                      *)
LocalExtract(d) == Snapshot(d)

-----------------------------------------------------------------------------
(* Writing the tables: what k of the statements of a handler leave behind *)

(* Summarized turns go, except the last MaxRaw turns. *)
CleanedUp(d, marked) == Max({d.removed, Min({marked, d.turns - MaxRaw})})

(* Mutant of Marked: turns saved while the summary was made are marked. *)
MarkedAll(d, s, k) == IF k < 3 THEN d.marked ELSE Max({d.marked, d.turns - Keep})

(* Up to the last turn that was read, except the recent ones. *)
Marked(d, s, k) ==
  IF k < 3 THEN d.marked ELSE Max({d.marked, Min({s.end, d.turns - Keep})})

(* insertThreadContextSummary: the summary, the session row, the marks and  *)
(* the clean-up.                                                           *)
Inserted(d, s, k) ==
  [d EXCEPT !.summaries = IF k < 1 THEN @ ELSE Append(@, [base |-> s.base, covers |-> s.covers]),
            !.latest = IF k < 2 THEN @ ELSE Latest(d) + 1,
            !.marked = Marked(d, s, k),
            !.removed = IF k < 4 THEN @ ELSE CleanedUp(d, Marked(d, s, k))]

InsertStatements == 4

(* Mutant of Saved: the session row is written before the turns. *)
SavedRowFirst(d, plan, chat, level, k) ==
  [d EXCEPT !.turns = @ + Max({k - 1, 0}),
            !.continued = IF k < 3 THEN @ ELSE @ \union {plan.from},
            !.chat = IF k < 1 THEN @ ELSE chat,
            !.level = IF k < 1 THEN @ ELSE level]

(* saveThreadContextCompletion: the user's turn, the assistant's turn, the  *)
(* session row with its new chat and its new estimate.                     *)
Saved(d, plan, chat, level, k) ==
  [d EXCEPT !.turns = @ + Min({k, 2}),
            !.continued = IF k < 2 THEN @ ELSE @ \union {plan.from},
            !.chat = IF k < 3 THEN @ ELSE chat,
            !.level = IF k < 3 THEN @ ELSE level]

SaveStatements == 3

(* A rollover starts the estimate afresh; otherwise it only grows. *)
Estimates(plan) == IF plan = NoPlan THEN {l \in Level : l >= db.level} ELSE Level

-----------------------------------------------------------------------------
(* The job queue *)

(* processSummaryQueue starts jobs while workers are free. *)
Processes(q, busy) ==
  LET k == Min({Len(q), Concurrency - Cardinality(busy)})
  IN  /\ queue' = SubSeq(q, k + 1, Len(q))
      /\ running' = busy \union ToSet(SubSeq(q, 1, k))

(* A job reads the tables as soon as it starts. *)
WithJob(runs) ==
  IF Tracked \in running' \ running THEN [runs EXCEPT !["job"] = Snapshot(db')] ELSE runs

(* enqueueThreadContextSummary; the thresholds and the interval between    *)
(* jobs are a choice.                                                      *)
Enqueues(s) ==
  \/ UNCHANGED <<queue, running>>
  \/ /\ s \notin ToSet(queue) \union running
     /\ Processes(Append(queue, s), running)

JobEnds(s, runs) ==
  /\ s \in running
  /\ Processes(queue, running \ {s})
  /\ run' = WithJob(runs)
  /\ UNCHANGED <<chats, deleted, req>>

JobFails(s) ==
  /\ UNCHANGED db
  /\ JobEnds(s, IF s = Tracked THEN [run EXCEPT !["job"] = NoRun] ELSE run)

JobSucceeds ==
  /\ Latest(db) < MaxSummaries
  /\ db' = Inserted(db, run["job"], InsertStatements)
  /\ JobEnds(Tracked, [run EXCEPT !["job"] = NoRun])

(* The other conversations, whose summaries are not here. *)
OtherEnqueues(s) ==
  /\ s # Tracked
  /\ UNCHANGED db
  /\ Enqueues(s)
  /\ run' = WithJob(run)
  /\ UNCHANGED <<chats, deleted, req>>

-----------------------------------------------------------------------------
(* A request *)

At(r, pc) == req[r].pc = pc
Becomes(r, local) == req' = [req EXCEPT ![r] = local]

(* The continuation prompt is the summary, the recent turns and the message. *)
Planned(r, d, local, id) ==
  Becomes(r, [local EXCEPT !.pc = "acquiring",
                           !.plan = [from |-> local.from, summary |-> id],
                           !.prompt = Covered(d, id) \union Recent(d)])

(* Rolling over, unless the continuation prompt is too large: an error. *)
RollsOver(r, d, local, id) == Planned(r, d, local, id) \/ Becomes(r, Idle)

(* A conversation whose window fills up rolls over with the summary it has, *)
(* or waits for a new one if it must roll over now or has none.            *)
Prepare(r) ==
  /\ At(r, "idle")
  /\ LET local == [Idle EXCEPT !.pc = "acquiring", !.level = db.level,
                               !.from = db.chat, !.saw = db.turns]
     IN  \/ /\ db.chat = 0 \/ db.level = Below
            /\ Becomes(r, local) /\ UNCHANGED run
         \/ /\ db.chat # 0 /\ db.level = Ready /\ Latest(db) # 0
            /\ RollsOver(r, db, local, Latest(db)) /\ UNCHANGED run
         \/ /\ db.chat # 0 /\ (db.level = Required \/ (db.level = Ready /\ Latest(db) = 0))
            /\ Becomes(r, [local EXCEPT !.pc = "summarizing"])
            /\ run' = [run EXCEPT ![r] = Snapshot(db)]
  /\ UNCHANGED <<db, chats, deleted, queue, running>>

SummaryArrives(r) ==
  /\ At(r, "summarizing") /\ Latest(db) < MaxSummaries
  /\ db' = Inserted(db, run[r], InsertStatements)
  /\ RollsOver(r, db', req[r], Latest(db'))
  /\ run' = [run EXCEPT ![r] = NoRun]
  /\ UNCHANGED <<chats, deleted, queue, running>>

(* No usable summary: a conversation that must roll over does with a local  *)
(* extract, another one goes on in its chat and leaves a job behind.       *)
SummaryFails(r) ==
  /\ At(r, "summarizing")
  /\ \/ /\ req[r].level = Required /\ Latest(db) < MaxSummaries
        /\ db' = Inserted(db, LocalExtract(db), InsertStatements)
        /\ RollsOver(r, db', req[r], Latest(db'))
        /\ UNCHANGED <<queue, running>>
     \/ /\ req[r].level = Ready
        /\ UNCHANGED db
        /\ Becomes(r, [req[r] EXCEPT !.pc = "acquiring"])
        /\ Enqueues(Tracked)
  /\ run' = WithJob([run EXCEPT ![r] = NoRun])
  /\ UNCHANGED <<chats, deleted>>

(* The stream is in a new chat, has no chat id (a page), or goes on in the  *)
(* conversation's chat.                                                    *)
Streams(c) ==
  \/ c = chats + 1 /\ c \in Chat /\ chats' = c
  \/ c = 0 /\ UNCHANGED chats

Acquires(r) ==
  /\ At(r, "acquiring")
  /\ \E c \in Chat :
       /\ Becomes(r, [req[r] EXCEPT !.pc = "streaming", !.chat = c])
       /\ IF req[r].plan = NoPlan
          THEN (Streams(c) \/ (c = db.chat /\ UNCHANGED chats)) /\ UNCHANGED db
          ELSE Streams(c) /\ db' = [db EXCEPT !.chat = c]
  /\ UNCHANGED <<deleted, run, queue, running>>

(* The stream breaks and another one takes over, in a chat of its own. *)
Restreams(r) ==
  /\ At(r, "streaming")
  /\ \E c \in Chat : Streams(c) /\ Becomes(r, [req[r] EXCEPT !.chat = c])
  /\ UNCHANGED <<db, deleted, run, queue, running>>

(* An error, an abort or a disconnection: nothing is saved. *)
Fails(r) ==
  /\ req[r].pc \in {"acquiring", "streaming"}
  /\ Becomes(r, Idle)
  /\ UNCHANGED <<db, chats, deleted, run, queue, running>>

(* What deletePreviousChat requires of a plan. *)
MayDelete(plan) ==
  /\ plan.from # 0
  /\ db'.latest = plan.summary
  /\ db'.chat # plan.from

(* onAssistantComplete: the answer is saved; after a rollover the old chat  *)
(* is deleted, if the answer says anything; then a job may be queued.      *)
Completes(r) ==
  /\ At(r, "streaming") /\ req[r].chat # 0 /\ db.turns + 2 <= MaxTurns
  /\ \E level \in Estimates(req[r].plan) :
       db' = Saved(db, req[r].plan, req[r].chat, level, SaveStatements)
  /\ \/ /\ MayDelete(req[r].plan)
        /\ Becomes(r, [Idle EXCEPT !.pc = "deleting", !.plan = req[r].plan])
        /\ UNCHANGED <<queue, running, run>>
     \/ /\ Becomes(r, Idle)
        /\ Enqueues(Tracked)
        /\ run' = WithJob(run)
  /\ UNCHANGED <<chats, deleted>>

(* Mutant of CompletesUnrecorded: the old chat is deleted all the same. *)
CompletesUnrecordedButFinalizes(r) ==
  /\ At(r, "streaming") /\ req[r].chat = 0
  /\ UNCHANGED <<db, chats, deleted, run, queue, running>>
  /\ Becomes(r, IF MayDelete(req[r].plan)
                THEN [Idle EXCEPT !.pc = "deleting", !.plan = req[r].plan] ELSE Idle)

(* A completion without a chat id is not recorded. *)
CompletesUnrecorded(r) ==
  /\ At(r, "streaming") /\ req[r].chat = 0
  /\ Becomes(r, Idle)
  /\ UNCHANGED <<db, chats, deleted, run, queue, running>>

DeletionEnds(r) ==
  /\ At(r, "deleting")
  /\ deleted' \in {deleted, deleted \union {req[r].plan.from}}
  /\ Becomes(r, Idle)
  /\ UNCHANGED <<db, chats>>
  /\ Enqueues(Tracked)
  /\ run' = WithJob(run)

-----------------------------------------------------------------------------
(* The process dies, between any two statements *)

Restarts ==
  /\ req' = [r \in Request |-> Idle]
  /\ run' = [w \in Runner |-> NoRun]
  /\ queue' = <<>> /\ running' = {}
  /\ UNCHANGED <<chats, deleted>>

Crash == UNCHANGED db /\ Restarts

CrashInserting ==
  /\ Latest(db) < MaxSummaries
  /\ \E w \in Runner, k \in 1 .. InsertStatements - 1 :
       run[w] # NoRun /\ db' = Inserted(db, run[w], k)
  /\ Restarts

CrashSaving ==
  /\ db.turns + 2 <= MaxTurns
  /\ \E r \in Request, k \in 1 .. SaveStatements - 1 :
       /\ At(r, "streaming") /\ req[r].chat # 0
       /\ db' = Saved(db, req[r].plan, req[r].chat, db.level, k)
  /\ Restarts

-----------------------------------------------------------------------------

RequestStep(r) ==
  \/ Prepare(r) \/ SummaryArrives(r) \/ SummaryFails(r)
  \/ Acquires(r) \/ Restreams(r) \/ Fails(r)
  \/ Completes(r) \/ CompletesUnrecorded(r) \/ DeletionEnds(r)

Next ==
  \/ \E r \in Request : RequestStep(r)
  \/ JobSucceeds
  \/ \E s \in Session : JobFails(s) \/ OtherEnqueues(s)
  \/ Crash \/ CrashInserting \/ CrashSaving

Spec == Init /\ [][Next]_vars

-----------------------------------------------------------------------------
(* Properties *)

(* Every summary extends the one before it: no two were made at a time. *)
Chained == \A i \in 1 .. Latest(db) : db.summaries[i].base = i - 1

(* A turn that is marked as summarized, and may be deleted, is in the last  *)
(* summary, unless two summaries were made at a time: whatever is saved     *)
(* while a summary is made, and wherever the process dies.                 *)
SummarizedTurnsAreCovered ==
  Chained => 1 .. db.marked \subseteq Covered(db, Latest(db))

(* A conversation that has to roll over does, and its continuation prompt   *)
(* accounts for every turn there was when the request came, unless two      *)
(* summaries were made at a time: by a new summary or by the local extract.  *)
RequiredRolloversAreComplete ==
  \A r \in Request :
    req[r].pc \in {"acquiring", "streaming"} /\ req[r].level = Required /\ req[r].from # 0 =>
      /\ req[r].plan # NoPlan
      /\ Chained => 1 .. req[r].saw \subseteq req[r].prompt

(* A session with an active chat has a turn in the table: neither a crash   *)
(* nor the clean-up takes the last one.  So recovering turns from the       *)
(* chat's history, which is done only without turns, never happens.  (The  *)
(* variables have their types.)                                            *)
ActiveChatHasTurns == TypeOK /\ (db.chat # 0 => db.removed < db.turns)

(* A chat is deleted at Qwen only after the rollover away from it has been  *)
(* answered, and the answer and the summary it came from are in the tables: *)
(* no failure on the way costs the conversation its only copy.             *)
DeletedChatsAreContinued ==
  \A c \in deleted : c \in db.continued /\ db.latest # 0
=============================================================================
