--------------------------- MODULE ReasoningTags ---------------------------
(***************************************************************************)
(* The filters that an answer passes before its text is used: finding what  *)
(* an event adds to the answer (getIncrementalDelta), removing a stray      *)
(* </think> (normalizeCumulativeReasoningContent) and moving what is        *)
(* between <think> and </think> to the reasoning                            *)
(* (StreamingReasoningTagSanitizer).                                        *)
(*                                                                         *)
(* Text is a sequence of atoms.  The tags are two atoms each, so that an    *)
(* event can end within one: "th" is <thi, "ct" is </thi, "nk" is nk>.      *)
(***************************************************************************)
EXTENDS Naturals, Sequences, FiniteSets, FiniteSetsExt, SequencesExt

ThinkOpen == <<"th", "nk">>
ThinkClose == <<"ct", "nk">>

At(b, i, tag) ==
  /\ i + Len(tag) - 1 <= Len(b)
  /\ SubSeq(b, i, i + Len(tag) - 1) = tag

Least(S) == IF S = {} THEN 0 ELSE Min(S)

IndexOf(b, tag) == Least({i \in 1..Len(b) : At(b, i, tag)})

Upto(b, i) == SubSeq(b, 1, i)
From(b, i) == SubSeq(b, i, Len(b))

Blank(s) == \A i \in 1..Len(s) : s[i] = "nl"

----------------------------------------------------------------------------
(* What an event adds to the answer.  A newline and a backtick are one      *)
(* character, every other atom four.                                       *)

Width(s) == FoldLeft(LAMBDA n, a : n + (IF a \in {"nl", "tick"} THEN 1 ELSE 4), 0, s)

CommonPrefix(a, b) ==
  LET same == {n \in 1..Min({Len(a), Len(b)}) : Upto(a, n) = Upto(b, n)}
  IN  Upto(a, IF same = {} THEN 0 ELSE Max(same))

(* The beginning or the end of the old text, if long enough, is in the new. *)
SharesContent(old, new) ==
  LET probe == Min({4, Len(old)})
  IN  \E s \in {Upto(old, probe), From(old, Len(old) - probe + 1)} :
        Width(s) >= 6 /\ IndexOf(new, s) # 0

IsSnapshot(old, new) ==
  \/ IsPrefix(old, new)
  \/ Width(CommonPrefix(old, new)) >= Min({4, Width(old)})
  \/ SharesContent(old, new) /\ Width(new) >= Width(old)

(* delta is the text to use, matched what the next event is compared with.  *)
Delta(old, new) ==
  IF old = <<>> THEN [delta |-> new, matched |-> new]
  ELSE IF IsSnapshot(old, new)
  THEN [delta |-> From(new, Len(old) + 1), matched |-> new]
  ELSE [delta |-> new, matched |-> old \o new]

----------------------------------------------------------------------------
(* A </think> that no <think> comes before, in the content of one event.    *)

Trimmed(s) ==
  LET solid == {i \in 1..Len(s) : s[i] # "nl"}
  IN  IF solid = {} THEN <<>> ELSE SubSeq(s, Min(solid), Max(solid))

Normalized(content) ==
  LET close == IndexOf(content, ThinkClose)
      open == IndexOf(content, ThinkOpen)
      before == Trimmed(Upto(content, close - 1))
      after == Trimmed(From(content, close + 2))
  IN  IF close = 0 \/ (open # 0 /\ open < close)
      THEN [content |-> content, orphan |-> FALSE]
      ELSE [content |-> IF after \in {<<>>, before} THEN before ELSE after,
            orphan |-> TRUE]

----------------------------------------------------------------------------
(* The sanitizer: what it holds back, and what its last call gave out.      *)

NewSanitizer == [held |-> <<>>, inside |-> FALSE, text |-> <<>>, reasoning |-> <<>>]

EndsIn(b, atoms) == b # <<>> /\ Last(b) \in atoms

DiscardPendingOrphanClose(s) ==
  IF ~s.inside /\ EndsIn(s.held, {"ct"}) THEN [s EXCEPT !.held = Front(@)] ELSE s

(* A turn of the loop of feed: a tag is taken, or all that no tag can begin *)
(* in is given out, after which another turn changes nothing.              *)
SanitizeOnce(s) ==
  LET open == IndexOf(s.held, ThinkOpen)
      close == IndexOf(s.held, ThinkClose)
      keep == IF EndsIn(s.held, {"th", "ct"}) THEN 1 ELSE 0
  IN  IF s.inside
      THEN IF close = 0 THEN s
           ELSE [s EXCEPT !.reasoning = @ \o Upto(s.held, close - 1),
                          !.held = From(@, close + 2), !.inside = FALSE]
      ELSE IF close # 0 /\ (open = 0 \/ close < open)
      THEN [s EXCEPT !.text = @ \o Upto(s.held, close - 1), !.held = From(@, close + 2)]
      ELSE IF open # 0
      THEN [s EXCEPT !.text = @ \o Upto(s.held, open - 1),
                     !.held = From(@, open + 2), !.inside = TRUE]
      ELSE [s EXCEPT !.text = @ \o Upto(s.held, Len(s.held) - keep),
                     !.held = From(@, Len(@) - keep + 1)]

Sanitize(s) ==
  LET turns[n \in 0..Len(s.held)] == IF n = 0 THEN s ELSE SanitizeOnce(turns[n - 1])
  IN  turns[Len(s.held)]

SanitizerFeed(s, chunk) ==
  Sanitize([s EXCEPT !.held = @ \o chunk, !.text = <<>>, !.reasoning = <<>>])

SanitizerFlush(s) ==
  LET rest == IF s.held = <<>> THEN <<>>
              ELSE IF s.inside THEN ThinkOpen \o s.held
              ELSE IF EndsIn(s.held, {"ct"}) THEN Front(s.held) ELSE s.held
  IN  [NewSanitizer EXCEPT !.text = rest]

=============================================================================
