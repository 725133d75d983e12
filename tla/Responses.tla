----------------------------- MODULE Responses -----------------------------
(***************************************************************************)
(* The Responses API (routes/responses): requests that continue stored      *)
(* responses, the translation of the chat endpoint's answer, streamed or    *)
(* not, and the store of responses, a map in memory over a table of SQLite  *)
(* that survives restarts.  What the chat endpoint does is external here:   *)
(* it answers with one of Answers, or is cut short, or fails.               *)
(*                                                                         *)
(* A response has the identity of its request.  The content of an answer is *)
(* the numbers of its chunks.  The periodic cleanup is left out: nothing    *)
(* calls startPeriodicCleanup.                                              *)
(***************************************************************************)
EXTENDS Naturals, Sequences, FiniteSets, SequencesExt, FiniteSetsExt

CONSTANTS
  Requests,
  Answers,   \* the kinds of the chunks of an answer
  Capacity,  \* MAX_STORE_SIZE
  Evicted    \* a tenth of it

Kind == {"reasoning", "text", "call"}

ASSUME ResponsesAssumption ==
  /\ Capacity \in Nat \ {0} /\ Evicted \in 0..Capacity
  /\ Answers \subseteq Seq(Kind)

VARIABLES
  handlers, \* handlers[r]: what its handler knows
  entry,   \* what was stored of each response
  memory,  \* the responses in store, the map
  table,   \* the responses in responses_store, the table
  order,   \* the stored responses by storedAt
  old,     \* those stored more than MAX_AGE_MS ago
  written, \* those whose row was written
  removed  \* those that were deleted, and their row with them

stored == <<entry, memory, table, order, old, written, removed>>
responseVars == <<handlers, stored>>

----------------------------------------------------------------------------
(* The items of an answer.                                                 *)

Item(kind, content) == [kind |-> kind, content |-> content]

Chunks(answer, kind) ==
  LET upto[n \in 0..Len(answer)] ==
        IF n = 0 THEN <<>>
        ELSE IF answer[n] = kind THEN Append(upto[n - 1], n) ELSE upto[n - 1]
  IN  upto[Len(answer)]

Block(kind, content) == IF content = <<>> THEN <<>> ELSE <<Item(kind, content)>>

CallItems(calls) == [i \in 1..Len(calls) |-> Item("call", <<calls[i]>>)]

(* chatCompletionsToResponses: the reasoning, the text, each call.          *)
Converted(answer) ==
  Block("reasoning", Chunks(answer, "reasoning")) \o Block("text", Chunks(answer, "text"))
    \o CallItems(Chunks(answer, "call"))

(* The state of a stream: the open block, the index of the next item, what  *)
(* has been collected, the items that are complete and those announced.     *)
NewStream ==
  [block |-> "none", index |-> 0, text |-> <<>>, reasoning |-> <<>>, calls |-> <<>>,
   output |-> <<>>, added |-> <<>>, done |-> <<>>]

Opens(s, kind) == [s EXCEPT !.block = kind, !.added = Append(@, <<kind, s.index>>)]

ItemsDone(s, items) ==
  [s EXCEPT !.output = @ \o items,
            !.done = @ \o [i \in 1..Len(items) |-> <<items[i].kind, s.index + i - 1>>],
            !.index = @ + Len(items), !.block = "none"]

OpenItems(s) ==
  CASE s.block = "none" -> <<>>
    [] s.block = "text" -> <<Item("text", s.text)>>
    [] s.block = "reasoning" -> <<Item("reasoning", s.reasoning)>>
    [] s.block = "call" -> CallItems(s.calls)

(* closeCurrentText, closeCurrentFunctionCall, closeCurrentReasoning: only  *)
(* the calls are forgotten with their block.                               *)
Closed(s) ==
  [ItemsDone(s, OpenItems(s)) EXCEPT !.calls = IF s.block = "call" THEN <<>> ELSE @]

(* A mutant: a block stays open when the next one begins.                   *)
ReopenedFor(s, kind) == IF s.block = kind THEN s ELSE Opens(s, kind)

(* Reasoning and text close another block; a call closes only text.         *)
OpenedFor(s, kind) ==
  CASE kind = "call" -> Opens(IF s.block = "text" THEN Closed(s) ELSE s, kind)
    [] OTHER -> IF s.block = kind THEN s ELSE Opens(Closed(s), kind)

Received(s, kind, n) ==
  LET opened == OpenedFor(s, kind)
  IN  CASE kind = "text" -> [opened EXCEPT !.text = Append(@, n)]
        [] kind = "reasoning" -> [opened EXCEPT !.reasoning = Append(@, n)]
        [] kind = "call" -> [opened EXCEPT !.calls = Append(@, n)]

FinalOutput(s) == s.output \o OpenItems(s)

----------------------------------------------------------------------------
(* The history of a conversation.                                          *)

Said(r, output) == [of |-> r, said |-> SelectSeq(output, LAMBDA i : i.kind # "reasoning")]

History(r, messages, output) ==
  IF Said(r, output).said = <<>> THEN messages ELSE Append(messages, Said(r, output))

Input(r) == [of |-> r, said |-> <<>>]

----------------------------------------------------------------------------
(* The store.  Any statement of SQLite may fail, which is only logged.      *)

(* getEntry: what a lookup finds, adds to the map and deletes.              *)
Fresh(r) == r \notin old

Looked(r, ok, finds) ==
  LET row == ok /\ r \in table
  IN  /\ finds = (Fresh(r) /\ (r \in memory \/ row))
      /\ memory' = IF finds THEN memory \union {r} ELSE memory \ {r}
      /\ table' = IF row /\ ~Fresh(r) THEN table \ {r} ELSE table
      /\ UNCHANGED <<entry, order, old, written, removed>>

(* A mutant: eviction deletes the rows as well.                             *)
EvictedRows(kept) == table \intersect kept

Rows(kept) == table

(* storeResponse: the oldest make room; write-through.                      *)
Oldest ==
  LET there == SelectSeq(order, LAMBDA r : r \in memory)
  IN  IF Cardinality(memory) < Capacity THEN {}
      ELSE ToSet(SubSeq(there, 1, Evicted))

Stores(r, messages, output, ok) ==
  LET kept == memory \ Oldest
  IN  /\ entry' = [entry EXCEPT ![r] = [messages |-> messages, output |-> output]]
      /\ memory' = kept \union {r}
      /\ table' = Rows(kept) \union (IF ok THEN {r} ELSE {})
      /\ order' = Append(order, r)
      /\ written' = IF ok THEN written \union {r} ELSE written
      /\ UNCHANGED <<old, removed>>

MayStore(r, messages, output) ==
  IF handlers[r].store
  THEN \E ok \in BOOLEAN : Stores(r, messages, output, ok)
  ELSE UNCHANGED stored

----------------------------------------------------------------------------
Nothing == [messages |-> <<>>, output |-> <<>>]

NewRequest ==
  [pc |-> "idle", stream |-> FALSE, store |-> FALSE,
   messages |-> <<>>, answer |-> <<>>, read |-> 0, state |-> NewStream,
   gone |-> FALSE, closed |-> FALSE, result |-> "none"]

ResponsesInit ==
  /\ handlers = [r \in Requests |-> NewRequest]
  /\ entry = [r \in Requests |-> Nothing]
  /\ memory = {} /\ table = {} /\ order = <<>>
  /\ old = {} /\ written = {} /\ removed = {}

Ended(l, result) ==
  [NewRequest EXCEPT !.pc = "ended", !.stream = l.stream, !.gone = l.gone, !.result = result]

Result(r, result) == handlers' = [handlers EXCEPT ![r] = Ended(handlers[r], result)]

(* POST /v1/responses, until the chat endpoint is asked.  A response is      *)
(* known to the client once it is announced or answered.                   *)
Known == {r \in Requests : handlers[r].pc # "idle" /\ (handlers[r].stream \/ handlers[r].pc = "ended")}

Asked(r, stream, store, messages) ==
  handlers' = [handlers EXCEPT ![r] = [NewRequest EXCEPT
              !.pc = "asking", !.stream = stream, !.store = store,
              !.messages = Append(messages, Input(r))]]

Creates(r) ==
  /\ handlers[r].pc = "idle"
  /\ \E stream \in BOOLEAN, store \in BOOLEAN : Asked(r, stream, store, <<>>)
  /\ UNCHANGED stored

Continues(r, previous) ==
  /\ handlers[r].pc = "idle"
  /\ \E ok \in BOOLEAN, finds \in BOOLEAN :
       /\ Looked(previous, ok, finds)
       /\ IF finds
          THEN \E stream \in BOOLEAN, store \in BOOLEAN :
                 Asked(r, stream, store, entry[previous].messages)
          ELSE Result(r, "refused")

(* The chat endpoint accepts the request.                                   *)
Accepted(r) ==
  /\ handlers[r].pc = "asking"
  /\ \E answer \in Answers :
       handlers' = [handlers EXCEPT ![r].pc = "reading", ![r].answer = answer]
  /\ UNCHANGED stored

(* A mutant: every failure is taken for the departure of the client.        *)
FailsSilently(r) ==
  /\ handlers[r].pc \in {"asking", "reading"}
  /\ Result(r, "dropped")
  /\ UNCHANGED stored

(* It does not, or the read fails: the stream ends with response.failed, to *)
(* a client that is still there.                                           *)
RequestFails(r) ==
  /\ handlers[r].pc \in {"asking", "reading"}
  /\ Result(r, IF handlers[r].closed THEN "dropped" ELSE "failed")
  /\ UNCHANGED stored

(* An event for a client that has left closes the stream, no more.          *)
Reads(r) ==
  LET l == handlers[r]
      n == l.read + 1
  IN  /\ l.pc = "reading" /\ l.stream /\ n <= Len(l.answer)
      /\ handlers' = [handlers EXCEPT ![r].read = n, ![r].closed = l.closed \/ l.gone,
                                ![r].state = Received(l.state, l.answer[n], n)]
      /\ UNCHANGED stored

(* The chunk with the finish reason.                                        *)
Finishes(r) ==
  LET l == handlers[r]
  IN  /\ l.pc = "reading" /\ l.stream /\ l.read = Len(l.answer) /\ l.state.block # "none"
      /\ handlers' = [handlers EXCEPT ![r].state = Closed(l.state), ![r].closed = l.closed \/ l.gone]
      /\ UNCHANGED stored

(* The end of the chat stream, also of one that was cut short: completed.   *)
StreamEnds(r) ==
  LET l == handlers[r]
      output == FinalOutput(l.state)
  IN  /\ l.pc = "reading" /\ l.stream
      /\ IF l.closed THEN Result(r, "dropped") /\ UNCHANGED stored
         ELSE /\ handlers' = [handlers EXCEPT ![r] = [Ended(l, "completed") EXCEPT
                            !.answer = l.answer, !.read = l.read, !.state.output = output]]
              /\ MayStore(r, History(r, l.messages, output), output)

Answered(r) ==
  LET l == handlers[r]
      output == Converted(l.answer)
  IN  /\ l.pc = "reading" /\ ~l.stream
      /\ Result(r, "completed")
      /\ MayStore(r, History(r, l.messages, output), output)

ClientLeaves(r) ==
  /\ handlers[r].pc \in {"asking", "reading"} /\ handlers[r].stream /\ ~handlers[r].gone
  /\ handlers' = [handlers EXCEPT ![r].gone = TRUE]
  /\ UNCHANGED stored

(* GET /v1/responses/:response_id                                           *)
Gets(r) ==
  /\ r \in Known
  /\ \E ok \in BOOLEAN, finds \in BOOLEAN : Looked(r, ok, finds)
  /\ UNCHANGED handlers

(* DELETE /v1/responses/:response_id                                        *)
Deletes(r) ==
  /\ r \in Known
  /\ \E ok \in BOOLEAN :
       /\ memory' = memory \ {r}
       /\ table' = IF ok THEN table \ {r} ELSE table
       /\ removed' = IF r \in memory \union table /\ r \notin table'
                     THEN removed \union {r} ELSE removed
  /\ UNCHANGED <<handlers, entry, order, old, written>>

(* The oldest response that is not yet too old becomes so.                  *)
Ages ==
  /\ Cardinality(old) < Len(order)
  /\ old' = old \union {order[Cardinality(old) + 1]}
  /\ UNCHANGED <<handlers, entry, memory, table, order, written, removed>>

(* The process ends, and its requests with it.                              *)
Restart ==
  /\ memory' = {}
  /\ handlers' = [r \in Requests |->
                 IF handlers[r].pc \in {"asking", "reading"}
                 THEN Ended(handlers[r], "lost") ELSE handlers[r]]
  /\ UNCHANGED <<entry, table, order, old, written, removed>>

Handles(r) ==
  \/ Accepted(r) \/ RequestFails(r) \/ Reads(r) \/ Finishes(r) \/ StreamEnds(r) \/ Answered(r)

ResponsesNext ==
  \/ \E r \in Requests :
       \/ Creates(r) \/ Handles(r) \/ ClientLeaves(r) \/ Gets(r) \/ Deletes(r)
       \/ \E previous \in Known : Continues(r, previous)
  \/ Ages
  \/ Restart

(* The internal request ends, with the last chunk or an error.              *)
ResponsesSpec ==
  /\ ResponsesInit /\ [][ResponsesNext]_responseVars
  /\ \A r \in Requests : WF_responseVars(Handles(r))

----------------------------------------------------------------------------
(* Properties.                                                             *)

(* The answers whose kinds come in the order of chatCompletionsToResponses, *)
(* without a call that directly follows reasoning.                         *)
Rank == [reasoning |-> 1, text |-> 2, call |-> 3]

Regular(answer) ==
  /\ \A m, n \in 1..Len(answer) : m <= n => Rank[answer[m]] <= Rank[answer[n]]
  /\ \A n \in 2..Len(answer) : ~(answer[n - 1] = "reasoning" /\ answer[n] = "call")

(* A streamed response that read the whole of a regular answer completes    *)
(* with the output the same answer has when it is not streamed, whether the *)
(* chunk with the finish reason came or not (processChatChunk and           *)
(* buildFinalOutput against chatCompletionsToResponses).                   *)
StreamedAsConverted ==
  \A r \in Requests :
    LET l == handlers[r]
    IN  l.stream /\ l.result = "completed" /\ l.read = Len(l.answer) /\ Regular(l.answer)
        => l.state.output = Converted(l.answer)

(* A response whose row was written is there for previous_response_id until *)
(* it is deleted or a day old, through evictions, restarts and lookups that *)
(* fail (state.ts: "so conversations survive service restarts").           *)
StoredIsFound == written \ (removed \union old) \subseteq table

(* A streamed response is concluded: its client, unless it left or the      *)
(* process ended, is told that it completed or failed (index.ts: "ALWAYS    *)
(* emit final event").                                                     *)
EveryStreamConcludes ==
  \A r \in Requests :
    handlers[r].pc = "asking" ~>
      /\ handlers[r].pc = "ended"
      /\ handlers[r].result = "dropped" => handlers[r].gone

=============================================================================
