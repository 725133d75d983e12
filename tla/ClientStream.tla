--------------------------- MODULE ClientStream ---------------------------
(***************************************************************************)
(* Passing the answer of Qwen on to the client (routes/chat/streaming.ts),  *)
(* with the retries of routes/chat/index.ts, the registry of the streams    *)
(* and the stop endpoint.  One request: its handler, its client, whoever    *)
(* calls the stop endpoint, and the stream that each attempt acquires.      *)
(*                                                                         *)
(* A request without tools that asks for a stream is answered live; all     *)
(* others are answered when the answer is complete, which those that ask    *)
(* for a stream get as the events of one (processBufferedStreamingResponse).*)
(* The stream of an answer is read from the page of the account, in         *)
(* snapshots, or is the body of a fetch, in increments (incremental_output).*)
(***************************************************************************)
EXTENDS ToolCallParser

CONSTANTS
  Answers,           \* what Qwen may answer, each a sequence of items
  ProcessingRetries, \* streamProcessingRetries
  MaxPiece           \* bound: atoms in one event

(* What an answer is made of.  U is an example with an undeclared tool.     *)
Tagged(c) == OpenTag \o <<c, "end">> \o CloseTag
Fenced(s) == Fence \o <<"nl">> \o s \o <<"nl">> \o Fence

Item ==
  [word |-> <<"w">>,
   mention |-> <<"tick">> \o OpenTag \o <<"tick">>,
   example |-> Fenced(Tagged("callU")),
   thought |-> ThinkOpen \o <<"w">> \o ThinkClose,
   callA |-> Tagged("callA"),
   callB |-> Tagged("callB"),
   pair |-> OpenTag \o <<"callA", "end", "nl", "callB", "end">> \o CloseTag,
   unopened |-> <<"callA", "end">> \o CloseTag,
   raw |-> <<"callA", "end">>,
   fenced |-> Fenced(<<"callA", "end">>),
   unknown |-> Tagged("callU"),
   rawUnknown |-> <<"callU", "end">>,
   empty |-> OpenTag \o CloseTag,
   junk |-> OpenTag \o <<"w">> \o CloseTag,
   orphan |-> <<"orphan">>,
   section |-> <<"section">>,
   corrupt |-> <<"corrupt">>]

ASSUME StreamAssumption ==
  /\ {"callA", "callB"} \subseteq Declared /\ "callU" \in Undeclared
  /\ Answers \subseteq Seq(DOMAIN Item)
  /\ ProcessingRetries \in Nat /\ MaxPiece \in Nat \ {0}

TextOf(items) ==
  FlattenSeq([i \in 1..Len(items) |-> (IF i = 1 THEN <<>> ELSE <<"nl">>) \o Item[items[i]]])

VARIABLES
  source,   \* where answers are read: "page" or "fetch"
  stream,   \* body.stream
  tools,    \* shouldParseToolCalls
  answer,   \* the answer of the current attempt
  up,       \* its stream: the atoms read, whether it is aborted, the page's chat
  local,    \* the handler
  registry, \* the attempts whose stream activeStreams has
  held,     \* whether the request holds the lock of its chat
  stops,    \* attempts that a stop is being called for
  gone,     \* whether the client has left
  client,   \* what the client was sent
  saved,    \* the messages that onAssistantComplete was given
  clean     \* see Clean

given == <<source, stream, tools>>
streamVars == <<given, answer, up, local, registry, held, stops, gone, client, saved, clean>>

Live == stream /\ ~tools

Message(text, calls, reasoning) == [text |-> text, calls |-> calls, reasoning |-> reasoning]

NewHandler(pc, attempt) ==
  [pc |-> pc, attempt |-> attempt, raw |-> <<>>, sanitizer |-> NewSanitizer,
   parser |-> NewParser, reasoning |-> <<>>, target |-> "none", noticed |-> FALSE]

Upstream == [at |-> 0, aborted |-> FALSE, chat |-> "asked"]

Started == IF Live THEN "preread" ELSE "reading"

StreamInit ==
  /\ source \in {"page", "fetch"} /\ stream \in BOOLEAN /\ tools \in BOOLEAN
  /\ answer \in Answers
  /\ up = Upstream
  /\ local = NewHandler(Started, 0)
  /\ registry = {0} /\ held = TRUE
  /\ stops = {} /\ gone = FALSE
  /\ client = [status |-> "waiting", finish |-> "none", message |-> Message(<<>>, <<>>, <<>>)]
  /\ saved = {}
  /\ clean = TRUE

Text == TextOf(answer)

----------------------------------------------------------------------------
(* Using a piece of the answer (consumeAnswerText, emitAnswerText).         *)

Use(parser, text) ==
  IF text = <<>> THEN parser
  ELSE IF tools THEN Feed(parser, text)
  ELSE [parser EXCEPT !.text = @ \o text]

(* getAnswerDelta and consumeSanitizedAnswerChunk.                          *)
Consumed(content) ==
  LET normal == Normalized(content)
      step == Delta(local.raw, normal.content)
      waiting == IF normal.orphan THEN DiscardPendingOrphanClose(local.sanitizer)
                 ELSE local.sanitizer
      fed == IF step.delta = <<>> THEN waiting ELSE SanitizerFeed(waiting, step.delta)
      used == IF step.delta = <<>> THEN local.parser ELSE Use(local.parser, fed.text)
  IN  [local EXCEPT
         !.raw = IF normal.orphan THEN normal.content ELSE step.matched,
         !.sanitizer = fed,
         !.parser = used,
         !.reasoning = IF step.delta = <<>> THEN @ ELSE @ \o fed.reasoning]

(* An event is of the response that the first one with an id has named.     *)
EventId == IF source = "page" THEN up.chat ELSE "response"

Targeted == IF local.target = "none" THEN [local EXCEPT !.target = EventId] ELSE local

IsOfTarget == local.target \in {"none", EventId}

(* The event added its piece of the answer and nothing else, was not        *)
(* dropped, and did not end within a run of backticks.                      *)
Clean(piece, content, to) ==
  /\ IsOfTarget
  /\ ~Normalized(content).orphan
  /\ Delta(local.raw, content).delta = piece
  /\ ~(to < Len(Text) /\ Text[to] = "tick" /\ Text[to + 1] = "tick")

Seen(l) == Message(l.parser.text, <<>>, l.reasoning)

Reads(n) ==
  LET piece == SubSeq(Text, up.at + 1, up.at + n)
      content == IF source = "page" THEN Upto(Text, up.at + n) ELSE piece
      after == IF IsOfTarget THEN [Consumed(content) EXCEPT !.target = Targeted.target]
               ELSE local
  IN  /\ local.pc = "reading" /\ ~up.aborted
      /\ up.at + n <= Len(Text)
      /\ up' = [up EXCEPT !.at = @ + n]
      /\ local' = after
      /\ client' = IF Live THEN [client EXCEPT !.message = Seen(after)] ELSE client
      /\ clean' = (clean /\ Clean(piece, content, up.at + n))
      /\ UNCHANGED <<given, answer, registry, held, stops, gone, saved>>

(* The page finds itself in another chat than the one that was asked for.   *)
PageMoves ==
  /\ source = "page" /\ local.pc \in {"preread", "reading"} /\ up.chat = "asked"
  /\ up' = [up EXCEPT !.chat = "new"]
  /\ UNCHANGED <<given, answer, local, registry, held, stops, gone, client, saved, clean>>

(* The first bytes have come, or the end: the response begins.              *)
Commits ==
  /\ local.pc = "preread"
  /\ up.aborted => source = "page"
  /\ local' = [local EXCEPT !.pc = "reading"]
  /\ client' = [client EXCEPT !.status = "open"]
  /\ UNCHANGED <<given, answer, up, registry, held, stops, gone, saved, clean>>

----------------------------------------------------------------------------
(* The ways an attempt ends.                                               *)

Unregistered == registry \ {local.attempt}

Concludes(status, message, finish) ==
  /\ local' = [local EXCEPT !.pc = "ended"]
  /\ held' = FALSE
  /\ client' = [status |-> status, finish |-> finish, message |-> message]

Fails(status) == Concludes(status, client.message, "none")

(* What index.ts does with an error of the handler.                         *)
Rethrown(retryable) ==
  IF retryable /\ ~gone /\ local.attempt < ProcessingRetries
  THEN /\ local' = NewHandler("acquiring", local.attempt)
       /\ held' = FALSE
       /\ UNCHANGED client
  ELSE Fails("refused")

(* Mutants of Throws: the finally block forgets the stream; an error after  *)
(* the response has begun is retried.                                      *)
ThrowsAndForgets(retryable) ==
  /\ local.pc \in {"preread", "reading"}
  /\ IF local.pc = "reading" /\ Live THEN Fails("cut")
     ELSE (local.pc = "reading" \/ ~retryable) /\ Rethrown(retryable)
  /\ UNCHANGED registry

ThrowsToRetry(retryable) ==
  /\ local.pc = "reading" \/ (local.pc = "preread" /\ ~retryable)
  /\ Rethrown(retryable)
  /\ registry' = IF local.pc = "reading" THEN Unregistered ELSE registry

(* The pre-read is outside of the try block that removes the stream; within *)
(* the callback of honoStream an error cannot reach index.ts.               *)
Throws(retryable) ==
  \/ /\ local.pc = "preread" /\ ~retryable
     /\ Rethrown(retryable) /\ UNCHANGED registry
  \/ /\ local.pc = "reading" /\ Live
     /\ Fails("cut") /\ registry' = Unregistered
  \/ /\ local.pc = "reading" /\ ~Live
     /\ Rethrown(retryable) /\ registry' = Unregistered

ReadsError(retryable) ==
  /\ local.pc = "reading" /\ ~up.aborted
  /\ Throws(retryable)
  /\ UNCHANGED <<given, answer, up, stops, gone, saved, clean>>

(* The network, the page or an abort ends the read with an error; aborting  *)
(* the stream of a page only closes it.                                     *)
ReadFails ==
  /\ local.pc \in {"preread", "reading"}
  /\ up.aborted => source = "fetch"
  /\ Throws(FALSE)
  /\ UNCHANGED <<given, answer, up, stops, gone, saved, clean>>

(* What is left at the end is an error in JSON: a live client reads it as   *)
(* an answer once the response has begun.                                   *)
ReadsErrorPayload ==
  /\ local.pc \in {"preread", "reading"} /\ ~up.aborted /\ source = "fetch"
  /\ IF Live /\ local.pc = "reading"
     THEN Concludes("done", [client.message EXCEPT !.text = Append(@, "w")], "stop")
     ELSE Fails("refused")
  /\ registry' = Unregistered
  /\ clean' = FALSE
  /\ UNCHANGED <<given, answer, up, stops, gone, saved>>

Remaining == Use(local.parser, SanitizerFlush(local.sanitizer).text)

Final == IF tools THEN Flush(Remaining) ELSE Remaining

IsIncomplete(finish) ==
  /\ Final.truncated \/ Final.malformed
  /\ Final.calls = <<>> /\ Blank(Final.text)
  /\ finish # "length"

FinalMessage ==
  Message(IF Final.calls = <<>> THEN Final.text ELSE <<>>, Final.calls, local.reasoning)

FinishReason(finish) ==
  IF finish = "length" THEN finish ELSE IF Final.calls # <<>> THEN "tool_calls" ELSE "stop"

Responds(finish) ==
  IF local.noticed
  THEN Fails("cut") /\ UNCHANGED saved
  ELSE Concludes("done", FinalMessage, FinishReason(finish)) /\ saved' = {FinalMessage}

(* The stream closes: the answer is complete, or the upstream or an abort   *)
(* has cut it short, which the handler cannot tell.                         *)
ReadsEnd(finish) ==
  /\ local.pc = "reading"
  /\ up.aborted /\ source = "fetch" => up.at = Len(Text)
  /\ UNCHANGED <<given, answer, up, stops, gone, clean>>
  /\ IF IsIncomplete(finish) THEN Throws(TRUE) /\ UNCHANGED saved
     ELSE Responds(finish) /\ registry' = Unregistered

----------------------------------------------------------------------------
(* A retry acquires a stream for another answer.                            *)

(* A mutant: the retry is not counted.                                      *)
AcquiresUncounted ==
  /\ local.pc = "acquiring" /\ ~gone
  /\ answer' \in Answers
  /\ up' = Upstream
  /\ local' = NewHandler("reading", local.attempt)
  /\ registry' = registry \union {local.attempt}
  /\ held' = TRUE
  /\ clean' = TRUE
  /\ UNCHANGED <<given, stops, gone, client, saved>>

Acquires ==
  /\ local.pc = "acquiring" /\ ~gone
  /\ answer' \in Answers
  /\ up' = Upstream
  /\ local' = NewHandler("reading", local.attempt + 1)
  /\ registry' = registry \union {local.attempt + 1}
  /\ held' = TRUE
  /\ clean' = TRUE
  /\ UNCHANGED <<given, stops, gone, client, saved>>

AcquireFails ==
  /\ local.pc = "acquiring"
  /\ Fails("refused")
  /\ UNCHANGED <<given, answer, up, registry, stops, gone, saved, clean>>

(* The client's leaving aborts the stream.  A live handler that listens     *)
(* calls the stop of Qwen if it knows the response, and then unregisters.   *)
ClientLeaves ==
  LET listens == Live /\ local.pc = "reading"
      asks == listens /\ local.target # "none" /\ local.attempt \in registry
  IN  /\ ~gone /\ local.pc # "ended"
      /\ gone' = TRUE
      /\ up' = [up EXCEPT !.aborted = TRUE]
      /\ local' = [local EXCEPT !.noticed = listens]
      /\ stops' = IF asks THEN stops \union {local.attempt} ELSE stops
      /\ registry' = IF listens /\ ~asks THEN Unregistered ELSE registry
      /\ UNCHANGED <<given, answer, held, client, saved, clean>>

(* chatCompletionsStop looks a stream up, calls Qwen, aborts and removes.   *)
StopAsked ==
  /\ stops = {} /\ local.attempt \in registry
  /\ stops' = {local.attempt}
  /\ UNCHANGED <<given, answer, up, local, registry, held, gone, client, saved, clean>>

StopAnswered(a) ==
  /\ a \in stops
  /\ stops' = stops \ {a}
  /\ registry' = registry \ {a}
  /\ up' = [up EXCEPT !.aborted = @ \/ a = local.attempt]
  /\ UNCHANGED <<given, answer, local, held, gone, client, saved, clean>>

StopRefused(a) ==
  /\ a \in stops /\ ~local.noticed
  /\ stops' = stops \ {a}
  /\ UNCHANGED <<given, answer, up, local, registry, held, gone, client, saved, clean>>

Handler ==
  \/ Commits
  \/ \E retryable \in BOOLEAN : ReadsError(retryable)
  \/ ReadFails
  \/ ReadsErrorPayload
  \/ Acquires
  \/ AcquireFails
  \/ \E n \in 1..MaxPiece : Reads(n)
  \/ \E finish \in {"stop", "length"} : ReadsEnd(finish)

StreamNext ==
  \/ Handler
  \/ PageMoves
  \/ ClientLeaves
  \/ StopAsked
  \/ \E a \in stops : StopAnswered(a) \/ StopRefused(a)

(* A read ends: with data, at the end, or by the idle timeout; so does a    *)
(* retry's wait for a stream.  This is weak fairness of Handler, a step of  *)
(* which is enabled until it has ended.                                    *)
Fairness == []<>(local.pc = "ended") \/ []<><<Handler>>_streamVars

StreamSpec == StreamInit /\ [][StreamNext]_streamVars /\ Fairness

----------------------------------------------------------------------------
(* What an answer means, item by item, and how it is read.                  *)

CallsMeant(item) ==
  CASE item \in {"callA", "unopened", "raw", "fenced"} -> <<"callA">>
    [] item = "callB" -> <<"callB">>
    [] item = "pair" -> <<"callA", "callB">>
    [] OTHER -> <<>>

IsDropped(item) ==
  item = "thought" \/ (tools /\ item \in {"section", "orphan", "empty", "junk"})

TextMeant(item) ==
  IF IsDropped(item) \/ (tools /\ CallsMeant(item) # <<>>) THEN <<>> ELSE Item[item]

ItemsMean(Meant(_)) == FlattenSeq([i \in 1..Len(answer) |-> Meant(answer[i])])

Distinct(s) == FoldLeft(LAMBDA d, a : IF a \in ToSet(d) THEN d ELSE Append(d, a), <<>>, s)

(* Text beside calls is not sent; a call that is repeated is made once.     *)
Meaning ==
  LET calls == IF tools THEN Distinct(ItemsMean(CallsMeant)) ELSE <<>>
  IN  Message(IF calls = <<>> THEN ItemsMean(TextMeant) ELSE <<>>, calls,
              ItemsMean(LAMBDA item : IF item = "thought" THEN <<"w">> ELSE <<>>))

(* What is at the places of a text, for each of its beginnings.             *)
Selected(text, places) ==
  LET sel[n \in 0..Len(text)] ==
        IF n = 0 THEN <<>>
        ELSE IF n \in places THEN Append(sel[n - 1], text[n]) ELSE sel[n - 1]
  IN  sel

Words(text) == Selected(text, {i \in 1..Len(text) : text[i] # "nl"})[Len(text)]

(* Bare calls are overlooked when a tag is in the same event, or an object  *)
(* that is no call stands before them.                                     *)
Bare == {"unopened", "raw", "fenced"}
Tags == {"callA", "callB", "pair", "empty", "junk", "orphan", "section"}
Objects == {"example", "rawUnknown"}

IsPlain ==
  /\ ToSet(answer) \intersect {"unknown", "corrupt"} = {}
  /\ \A i, j \in 1..Len(answer) :
       i < j => /\ answer[i] \in Bare => answer[j] \notin Tags
                /\ answer[i] \in Objects => answer[j] \notin Bare

(* An answer that arrived whole is sent with its words, its thoughts and    *)
(* its calls, each once and in order, wherever the events have cut it: a    *)
(* tag, a run of JSON or a thought may end in a later event than the one it *)
(* began in, text in code is never a call, and the tags are never text      *)
(* (processNonStreamingResponse, StreamingToolParser.feed and flush,        *)
(* StreamingReasoningTagSanitizer).                                        *)
AnswersAreReadAsMeant ==
  client.status = "done" /\ clean /\ up.at = Len(Text) /\ IsPlain =>
    [client.message EXCEPT !.text = Words(@)] = [Meaning EXCEPT !.text = Words(@)]

(* However the handler ends, its chat is free and its stream is no longer   *)
(* in the registry, except when a live handler fails before the response    *)
(* begins: nothing removes that stream (the pre-read of                     *)
(* processStreamingResponse is outside of its try block).                   *)
EndedLeavesNothing ==
  local.pc = "ended" =>
    /\ ~held
    /\ registry # {} => Live /\ client.status = "refused"

(* Once the response has begun, the client gets nothing of a later attempt, *)
(* and what it was sent stays part of what it is sent in the end.           *)
OneAnswerPerResponse ==
  [][client.status # "waiting" =>
       /\ local'.attempt = local.attempt
       /\ client' = client \/ IsPrefix(client.message.text, client'.message.text)]_streamVars

(* Every request ends: retries are bounded, and neither the stop endpoint   *)
(* nor the client can leave a handler waiting.                              *)
EveryRequestEnds == <>(local.pc = "ended")

=============================================================================
