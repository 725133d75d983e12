----------------------------- MODULE PageStream -----------------------------
(***************************************************************************)
(* Requests that type their prompts on one account's page and read the      *)
(* answers off it: browserUiStreamFetch of src/services/stream-bridge.ts,   *)
(* as createQwenStream calls it (at most twice, before it uses HTTP).       *)
(*                                                                         *)
(* A mutex gives the page to one stream from its first look at the page to  *)
(* the end of its answer.  An abort gives the mutex back at once, but no    *)
(* step of the script looks at the signal, so the script goes on.  Every    *)
(* step is the code between two awaits, and a command sent to the page may  *)
(* fail; most failures are swallowed.  What the page does by itself is      *)
(* external.                                                               *)
(***************************************************************************)
EXTENDS Naturals, Sequences, FiniteSets, SequencesExt

CONSTANTS Stream, NoStream

ASSUME PageStreamAssumption == NoStream \notin Stream /\ IsFiniteSet(Stream)

VARIABLES
  line,   \* the holder of the page mutex and its waiters
  page,   \* the tab
  local   \* local[r]: the local variables of stream r

streamVars == <<line, page, local>>

Page ==
  [inChat : BOOLEAN,             \* the URL is /c/<id>, not /c/new-chat
   messages : Seq(Stream),       \* the answers on the page, by whose prompt they answer
   pending : Stream \union {NoStream},  \* the prompt that was sent and not answered yet
   generating : BOOLEAN,         \* the stop button is there
   text : Stream \union {NoStream}]  \* whose prompt is in the textarea

Script == {"count", "click", "recheck", "goto", "focus", "initial", "fill", "send"}
Over == {"done", "closed", "failed"}

Local ==
  [pc : {"idle", "wait", "poll"} \union Script \union Over,
   attempts : 0 .. 2,     \* calls of browserUiStreamFetch
   initial : Nat,         \* initialResponses
   aborted : BOOLEAN,     \* options.signal.aborted
   got : SUBSET Stream]   \* whose answers went to the client

StreamTypeOK ==
  /\ line \in Seq(Stream) /\ IsInjective(line)
  /\ page \in Page
  /\ local \in [Stream -> Local]

Blank == [inChat |-> FALSE, messages |-> <<>>, pending |-> NoStream,
          generating |-> FALSE, text |-> NoStream]

StreamInit ==
  /\ line = <<>>
  /\ page = Blank
  /\ local = [r \in Stream |-> [pc |-> "idle", attempts |-> 0, initial |-> 0,
                                aborted |-> FALSE, got |-> {}]]

IsHead(r) == line # <<>> /\ Head(line) = r
Without(r) == RemoveFirst(line, r)

IsAt(r, pc) == local[r].pc = pc
GoesTo(r, pc) == local' = [local EXCEPT ![r].pc = pc]

-----------------------------------------------------------------------------
(* The mutex *)

Starts(r) ==
  /\ IsAt(r, "idle") \/ (IsAt(r, "failed") /\ local[r].attempts < 2)
  /\ IF local[r].aborted
     THEN GoesTo(r, "closed") /\ UNCHANGED line
     ELSE /\ local' = [local EXCEPT ![r].pc = IF line = <<>> THEN "count" ELSE "wait",
                                    ![r].attempts = @ + 1]
          /\ line' = Append(line, r)
  /\ UNCHANGED page

Granted(r) ==
  /\ IsAt(r, "wait") /\ IsHead(r)
  /\ GoesTo(r, "count")
  /\ UNCHANGED <<line, page>>

WaitTimesOut(r) ==
  /\ IsAt(r, "wait") /\ ~IsHead(r)
  /\ line' = Without(r)
  /\ GoesTo(r, "failed")
  /\ UNCHANGED page

(* Mutant of SafeReleaseLock: the script's error path forgets the mutex. *)
KeepsTheMutex(r) == UNCHANGED line

(* safeReleaseLock, which does nothing the second time. *)
SafeReleaseLock(r) == line' = Without(r)

(* A command that is not guarded rejects: createQwenStream falls back. *)
Fails(r) ==
  /\ local[r].pc \in {"focus", "initial", "fill", "send"}
  /\ SafeReleaseLock(r)
  /\ GoesTo(r, "failed")
  /\ UNCHANGED page

-----------------------------------------------------------------------------
(* A clean tab *)

(* A count of messages whose failure reads as zero. *)
Counts == {Len(page.messages), 0}

(* Counting and deciding whether the tab must be reset. *)
Count(r) ==
  /\ IsAt(r, "count")
  /\ \E n \in Counts : GoesTo(r, IF n > 0 \/ page.inChat THEN "click" ELSE "focus")
  /\ UNCHANGED <<line, page>>

(* The new-chat button resets the page in place, if it is there. *)
Click(r) ==
  /\ IsAt(r, "click")
  /\ page' \in {page, Blank}
  /\ GoesTo(r, "recheck")
  /\ UNCHANGED line

Recheck(r) ==
  /\ IsAt(r, "recheck")
  /\ \E n \in Counts : GoesTo(r, IF n > 0 \/ page.inChat THEN "goto" ELSE "focus")
  /\ UNCHANGED <<line, page>>

(* A navigation that fails is ignored. *)
Goto(r) ==
  /\ IsAt(r, "goto")
  /\ page' \in {page, Blank}
  /\ GoesTo(r, "focus")
  /\ UNCHANGED line

-----------------------------------------------------------------------------
(* The prompt *)

Focus(r) ==
  /\ IsAt(r, "focus")
  /\ GoesTo(r, "initial")
  /\ UNCHANGED <<line, page>>

CountInitial(r) ==
  /\ IsAt(r, "initial")
  /\ local' = [local EXCEPT ![r].pc = "fill", ![r].initial = Len(page.messages)]
  /\ UNCHANGED <<line, page>>

(* fill, or else setting the value, replaces what is in the textarea. *)
Fill(r) ==
  /\ IsAt(r, "fill")
  /\ page' = [page EXCEPT !.text = r]
  /\ GoesTo(r, "send")
  /\ UNCHANGED line

(* A click or Enter submits what the textarea holds, unless it is lost or   *)
(* the page is busy.                                                       *)
Submitted ==
  IF page.text = NoStream \/ page.generating \/ page.pending # NoStream THEN page
  ELSE [page EXCEPT !.pending = page.text, !.text = NoStream]

(* Mutant of Send: the mutex guards only the script. *)
SendAndRelease(r) ==
  /\ IsAt(r, "send")
  /\ page' \in {page, Submitted}
  /\ GoesTo(r, "poll")
  /\ SafeReleaseLock(r)

Send(r) ==
  /\ IsAt(r, "send")
  /\ page' \in {page, Submitted}
  /\ GoesTo(r, "poll")
  /\ UNCHANGED line

-----------------------------------------------------------------------------
(* The answer: what the interval timer does *)

HasNewMessage(r) ==
  LET required == IF page.inChat /\ local[r].initial > 0 THEN 0 ELSE local[r].initial
  IN  Len(page.messages) > required

Stops(r, pc) == SafeReleaseLock(r) /\ GoesTo(r, pc) /\ UNCHANGED page

(* The text so far goes to the client. *)
Emits(r) ==
  /\ IsAt(r, "poll") /\ ~local[r].aborted
  /\ HasNewMessage(r) /\ page.generating
  /\ local' = [local EXCEPT ![r].got = @ \union {Last(page.messages)}]
  /\ UNCHANGED <<line, page>>

Completes(r) ==
  /\ IsAt(r, "poll") /\ ~local[r].aborted
  /\ HasNewMessage(r) /\ ~page.generating
  /\ local' = [local EXCEPT ![r].got = @ \union {Last(page.messages)}, ![r].pc = "done"]
  /\ SafeReleaseLock(r)
  /\ UNCHANGED page

(* An abort that the timer sees, or the time of the answer is over. *)
ClosesEarly(r) == IsAt(r, "poll") /\ Stops(r, "closed")

(* Nothing happened for 15 seconds. *)
FailsFast(r) ==
  /\ IsAt(r, "poll") /\ ~local[r].aborted
  /\ ~HasNewMessage(r) /\ ~page.generating
  /\ Stops(r, "closed")

(* The consumer cancels the stream. *)
Cancelled(r) == IsAt(r, "poll") /\ Stops(r, "closed")

-----------------------------------------------------------------------------
(* The client and the page *)

(* The signal: a waiter rejects, a holder gives the mutex back on the spot. *)
(* If the answer is being streamed, the abort handler also clicks on stop.  *)
Aborts(r) ==
  /\ local[r].pc \notin {"idle"} \union Over /\ ~local[r].aborted
  /\ local' = [local EXCEPT ![r].aborted = TRUE,
                            ![r].pc = IF @ = "wait" THEN "closed" ELSE @]
  /\ line' = Without(r)
  /\ \/ UNCHANGED page
     \/ IsAt(r, "poll") /\ page' = [page EXCEPT !.generating = FALSE]

(* The answer appears; the tab then moves from /c/new-chat to its chat. *)
AnswerStarts ==
  /\ page.pending # NoStream
  /\ page' = [page EXCEPT !.messages = Append(@, page.pending), !.pending = NoStream,
                          !.generating = TRUE]
  /\ UNCHANGED <<line, local>>

UrlChanges ==
  /\ ~page.inChat /\ page.messages # <<>>
  /\ page' = [page EXCEPT !.inChat = TRUE]
  /\ UNCHANGED <<line, local>>

AnswerEnds ==
  /\ page.generating
  /\ page' = [page EXCEPT !.generating = FALSE]
  /\ UNCHANGED <<line, local>>

-----------------------------------------------------------------------------

ScriptStep(r) ==
  \/ Count(r) \/ Click(r) \/ Recheck(r) \/ Goto(r)
  \/ Focus(r) \/ CountInitial(r) \/ Fill(r) \/ Send(r) \/ Fails(r)

StreamNext ==
  \/ \E r \in Stream :
       \/ Starts(r) \/ Granted(r) \/ WaitTimesOut(r) \/ ScriptStep(r)
       \/ Emits(r) \/ Completes(r) \/ ClosesEarly(r) \/ FailsFast(r)
       \/ Cancelled(r) \/ Aborts(r)
  \/ AnswerStarts \/ UrlChanges \/ AnswerEnds

StreamSpec == StreamInit /\ [][StreamNext]_streamVars

(* Commands to the page settle, the interval timer ticks, and a granted     *)
(* mutex resumes its waiter.  Nothing is assumed of waiters' timers.        *)
FairStreamSpec ==
  StreamSpec /\ \A r \in Stream :
            /\ WF_streamVars(Granted(r))
            /\ WF_streamVars(ScriptStep(r))
            /\ WF_streamVars(ClosesEarly(r))

-----------------------------------------------------------------------------
(* Properties *)

(* Among the streams that are not aborted, one at a time works on the page, *)
(* from its first look to the end of its answer, and it holds the mutex; a  *)
(* stream that is over or aborted holds nothing.  (The variables have      *)
(* their types.)                                                           *)
PageHasOneOwner ==
  /\ StreamTypeOK
  /\ \A r \in Stream :
       LET works == local[r].pc \in Script \union {"poll"} /\ ~local[r].aborted
       IN  /\ works => IsHead(r)
           /\ local[r].pc \in Over \/ local[r].aborted => r \notin ToSet(line)

(* A stream that found the page clean delivers its own answer only, as long *)
(* as no stream ends before its answer does: scripts that fail half way and *)
(* waiters that give up leave nothing that reaches another stream.          *)
AnswersAreOwn ==
  (\A q \in Stream : ~local[q].aborted /\ ~IsAt(q, "closed")) =>
    \A r \in Stream : local[r].initial = 0 => local[r].got \subseteq {r}

(* Whoever waits for the page gets it or gives up: every way in which an    *)
(* answer, a script or a client ends hands the page on.                    *)
EveryWaiterGetsThePage ==
  \A r \in Stream : IsAt(r, "wait") ~> ~IsAt(r, "wait")
=============================================================================
