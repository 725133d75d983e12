-------------------------- MODULE ToolCallParser --------------------------
(***************************************************************************)
(* StreamingToolParser (tools/parser.ts): finding the tool calls in an      *)
(* answer that arrives in pieces, in the format <tool_call>{...}</tool_call>*)
(* and in the forms that the parser recovers: a missing opening tag, bare   *)
(* JSON, JSON in a fence, a call cut off by the end of the answer.          *)
(*                                                                         *)
(* Text is a sequence of atoms.  "lt" is <tool_c, "lc" is </tool_c and "gt" *)
(* is all>, so that a tag can be cut; "tick" is one backtick, "nl" a        *)
(* newline; a call c of Declared or Undeclared is {"name":"c","arguments":{ *)
(* and "end" is the }} that completes it.  Nothing stands between the two   *)
(* unless the answer ends there.  "orphan" is </tool_call_invocation>,      *)
(* "section" </tool_calls_section_end|>, "corrupt" <tool_call<tool_call{}>>.*)
(* The other envelopes of the parser (named, XML, native) are not here, nor *)
(* are the incremental deltas, which no caller switches on.                 *)
(***************************************************************************)
EXTENDS ReasoningTags

CONSTANTS
  Declared,   \* calls of tools that the request declares
  Undeclared  \* calls of other tools

ASSUME CallAssumption == Declared \intersect Undeclared = {}

Calls == Declared \union Undeclared

OpenTag == <<"lt", "gt">>    \* <tool_call>
CloseTag == <<"lc", "gt">>   \* </tool_call>
Fence == <<"tick", "tick", "tick">>

Atom ==
  Calls \union {"w", "nl", "tick", "lt", "lc", "gt", "end", "orphan", "section", "corrupt",
                "th", "ct", "nk"}

(* What the parser keeps, with all that it has given out so far: the text,  *)
(* the calls, and whether it has met a malformed or a truncated call.       *)
(* code is the length of the backtick run that opened the code it is in.    *)
Parser ==
  [buffer : Seq(Atom), inside : BOOLEAN, lead : Seq(Atom), code : Nat, off : BOOLEAN,
   text : Seq(Atom), calls : Seq(Calls), malformed : BOOLEAN, truncated : BOOLEAN]

NewParser ==
  [buffer |-> <<>>, inside |-> FALSE, lead |-> <<>>, code |-> 0, off |-> FALSE,
   text |-> <<>>, calls |-> <<>>, malformed |-> FALSE, truncated |-> FALSE]

----------------------------------------------------------------------------
(* Markdown code: a run of backticks opens it, one at least as long closes  *)
(* it.  A run is what stands together in the text at hand.                  *)

AfterRun(code, run) ==
  IF run = 0 THEN code ELSE IF code = 0 THEN run ELSE IF run >= code THEN 0 ELSE code

CodeAfter(s, code) ==
  LET after[n \in 0..Len(s)] ==
        IF n = 0 THEN [code |-> code, run |-> 0]
        ELSE LET st == after[n - 1]
             IN  IF s[n] = "tick" THEN [st EXCEPT !.run = @ + 1]
                 ELSE [code |-> AfterRun(st.code, st.run), run |-> 0]
      end == after[Len(s)]
  IN  AfterRun(end.code, end.run)

Outside(b, i, code) == CodeAfter(Upto(b, i - 1), code) = 0

(* The first tag outside code, 0 if there is none.                          *)
Find(p, tag) ==
  Least({i \in 1..Len(p.buffer) : At(p.buffer, i, tag) /\ Outside(p.buffer, i, p.code)})

NotAfter(i, j) == i # 0 /\ (j = 0 \/ i <= j)

----------------------------------------------------------------------------
(* What happens to text: emitted, unless a call was, or held as the lead-in *)
(* of the call that follows it.                                            *)

Emit(p, s) ==
  [p EXCEPT !.text = IF p.calls = <<>> THEN @ \o s ELSE @, !.code = CodeAfter(s, @)]

Hold(p, s) == [p EXCEPT !.lead = @ \o s, !.code = CodeAfter(s, @)]

(* The lead-in of a block that was no call goes back to the text.           *)
Restore(p) ==
  [p EXCEPT !.text = IF p.calls = <<>> /\ ~Blank(p.lead) THEN @ \o p.lead ELSE @,
            !.lead = <<>>, !.malformed = TRUE]

(* A call is given out once.                                               *)
Finalize(p, c) ==
  [p EXCEPT !.calls = IF c \in ToSet(@) THEN @ ELSE Append(@, c), !.lead = <<>>]

(* A block that calls an undeclared tool is text if something explains it.  *)
PreserveLiteral(p, content) ==
  LET block == OpenTag \o content \o CloseTag
      shown == IF p.calls = <<>> THEN p.text \o p.lead \o block ELSE p.text
  IN  IF Blank(p.lead) THEN [p EXCEPT !.lead = <<>>]
      ELSE [p EXCEPT !.text = shown, !.lead = <<>>, !.code = CodeAfter(block, @)]

----------------------------------------------------------------------------
(* The calls of a block: the first object, completed if need be, and the    *)
(* objects that have a line of their own.                                  *)

FirstCall(b) == Least({i \in 1..Len(b) : b[i] \in Calls})

OwnLine(b, i) ==
  /\ b[i] \in Calls /\ At(b, i + 1, <<"end">>)
  /\ i = 1 \/ b[i - 1] = "nl"
  /\ i + 1 = Len(b) \/ b[i + 2] = "nl"

CallsOf(content) ==
  LET lines == IF "nl" \in ToSet(content) THEN {i \in 1..Len(content) : OwnLine(content, i)}
               ELSE {}
      taken == lines \union {FirstCall(content)}
      calls[n \in 0..Len(content)] ==
        IF n = 0 THEN <<>>
        ELSE LET before == calls[n - 1]
             IN  IF n \in taken /\ content[n] \notin ToSet(before)
                 THEN Append(before, content[n]) ELSE before
  IN  calls[Len(content)]

ProcessToolContent(p, content) ==
  LET calls == CallsOf(content)
      taking[n \in 0..Len(calls)] ==
        IF n = 0 THEN p ELSE Finalize(taking[n - 1], calls[n])
  IN  IF calls = <<>> THEN Restore(p)
      ELSE IF ToSet(calls) \intersect Undeclared # {} THEN PreserveLiteral(p, content)
      ELSE taking[Len(calls)]

(* Where a block ends: at its closing tag or, if that has not come yet, at  *)
(* an orphan close.                                                        *)
CloseOf(b) ==
  IF IndexOf(b, CloseTag) # 0
  THEN [at |-> IndexOf(b, CloseTag), length |-> 2]
  ELSE [at |-> IndexOf(b, <<"orphan">>), length |-> 1]

----------------------------------------------------------------------------
(* Recoveries outside a block, each 0 or the index of its object.           *)

(* JSON outside code before a closing tag that no opening tag belongs to.   *)
MissingOpen(p) ==
  LET b == p.buffer
      close == IndexOf(b, CloseTag)
      orphan == IndexOf(b, <<"orphan">>)
  IN  IF close # 0 /\ NotAfter(close, orphan) /\ Outside(b, close, p.code)
      THEN Least({i \in 1..close : b[i] \in Calls /\ Outside(b, i, p.code)})
      ELSE 0

(* The first object, wherever it is, if its tool is declared.               *)
RawCall(b) ==
  IF FirstCall(b) # 0 /\ b[FirstCall(b)] \in Declared THEN FirstCall(b) ELSE 0

(* The fence that the object is in belongs to it.                           *)
RawStart(b, i) ==
  LET blanks == Max({n \in 0..(i - 1) : Blank(SubSeq(b, i - n, i - 1))})
      open == i - blanks - 3
  IN  IF open >= 1 /\ At(b, open, Fence) THEN open ELSE i

RawEnd(b, i) ==
  LET after == IF At(b, i + 2, Fence) THEN i + 5 ELSE i + 2
      blanks == Max({n \in 0..(Len(b) - after + 1) : Blank(SubSeq(b, after, after + n - 1))})
  IN  IF after = i + 2 THEN after ELSE after + blanks

RawComplete(b, i) == At(b, i + 1, <<"end">>)

TakeRaw(p, i) ==
  LET b == p.buffer
      held == Hold(p, Upto(b, RawStart(b, i) - 1))
  IN  Finalize([held EXCEPT !.buffer = From(b, RawEnd(b, i))], b[i])

(* Where a tag or a call may have begun: the text before it is emitted.     *)
PartialOpen(p) ==
  IF EndsIn(p.buffer, {"lt", "lc"}) /\ Outside(p.buffer, Len(p.buffer), p.code)
  THEN Len(p.buffer) ELSE 0

PartialMissingOpen(p) ==
  IF IndexOf(p.buffer, CloseTag) # 0 THEN 0
  ELSE Least({i \in 1..Len(p.buffer) : p.buffer[i] \in Calls /\ Outside(p.buffer, i, p.code)})

EmitBefore(p, i) == [Emit(p, Upto(p.buffer, i - 1)) EXCEPT !.buffer = From(@, i)]

\* A mutant: a tag that is cut is not waited for.
EmitHasty(p) ==
  EmitBefore(p, IF PartialMissingOpen(p) = 0 THEN Len(p.buffer) + 1 ELSE PartialMissingOpen(p))

EmitSafe(p) ==
  LET partial == {PartialOpen(p), PartialMissingOpen(p)} \ {0}
  IN  EmitBefore(p, IF partial = {} THEN Len(p.buffer) + 1 ELSE Min(partial))

----------------------------------------------------------------------------
(* feed.  Each branch takes something from the buffer and goes on, or waits *)
(* for more.                                                               *)

DropMarker(p, i) == [EmitBefore(p, i) EXCEPT !.buffer = Tail(@)]

SwitchOff(p, i) == [EmitBefore(p, i) EXCEPT !.buffer = <<>>, !.off = TRUE]

DropSection(p, i) ==
  IF Blank(Upto(p.buffer, i - 1)) THEN [p EXCEPT !.buffer = From(@, i + 1)]
  ELSE DropMarker(p, i)

EnterTool(p, i) ==
  [Hold(p, Upto(p.buffer, i - 1)) EXCEPT !.buffer = From(@, i + 2), !.inside = TRUE]

LeaveTool(p, close) ==
  LET rest == [p EXCEPT !.buffer = From(@, close.at + close.length)]
  IN  [ProcessToolContent(rest, Upto(p.buffer, close.at - 1)) EXCEPT !.inside = FALSE]

TakeUnopened(p, i) ==
  LET close == IndexOf(p.buffer, CloseTag)
      held == Hold(p, Upto(p.buffer, i - 1))
  IN  ProcessToolContent([held EXCEPT !.buffer = From(@, close + 2)],
                         SubSeq(p.buffer, i, close - 1))

Consume[p \in Parser] ==
  LET corrupt == Find(p, <<"corrupt">>)
      orphan == Find(p, <<"orphan">>)
      section == Find(p, <<"section">>)
      open == Find(p, OpenTag)
      close == CloseOf(p.buffer)
      missing == MissingOpen(p)
      raw == RawCall(p.buffer)
  IN  IF p.buffer = <<>> THEN p
      ELSE IF p.inside THEN IF close.at = 0 THEN p ELSE Consume[LeaveTool(p, close)]
      ELSE IF NotAfter(corrupt, open) /\ NotAfter(corrupt, section) THEN SwitchOff(p, corrupt)
      ELSE IF NotAfter(orphan, open) /\ NotAfter(orphan, section)
      THEN Consume[[DropMarker(p, orphan) EXCEPT !.malformed = TRUE]]
      ELSE IF NotAfter(section, open) THEN Consume[DropSection(p, section)]
      ELSE IF open # 0 THEN Consume[EnterTool(p, open)]
      ELSE IF missing # 0 THEN Consume[TakeUnopened(p, missing)]
      ELSE IF raw = 0 THEN EmitSafe(p)
      ELSE IF RawComplete(p.buffer, raw) THEN Consume[TakeRaw(p, raw)]
      ELSE EmitBefore(p, RawStart(p.buffer, raw))

Feed(p, chunk) ==
  IF p.off THEN p ELSE Consume[[p EXCEPT !.buffer = @ \o chunk]]

----------------------------------------------------------------------------
(* flush, at the end of the answer.                                        *)

Lose(p) == [p EXCEPT !.lead = <<>>, !.truncated = TRUE]

FlushTool(p) ==
  LET first == FirstCall(p.buffer)
  IN  IF first # 0 /\ p.buffer[first] \in Declared THEN Finalize(p, p.buffer[first])
      ELSE Lose(p)

FlushRaw[p \in Parser] ==
  LET raw == RawCall(p.buffer)
      held == Hold(p, Upto(p.buffer, RawStart(p.buffer, raw) - 1))
  IN  IF raw = 0 THEN Emit(p, p.buffer)
      ELSE IF RawComplete(p.buffer, raw) THEN FlushRaw[TakeRaw(p, raw)]
      ELSE FlushRaw[Finalize([held EXCEPT !.buffer = <<>>], p.buffer[raw])]

Flushed(p) ==
  IF p.inside THEN FlushTool(p)
  ELSE IF PartialOpen(p) # 0 THEN [EmitBefore(p, PartialOpen(p)) EXCEPT !.truncated = TRUE]
  ELSE FlushRaw[p]

Flush(p) ==
  [Flushed(p) EXCEPT !.buffer = <<>>, !.inside = FALSE, !.code = 0, !.off = FALSE]

=============================================================================
