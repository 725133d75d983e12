-------------------------- MODULE MCClientStream --------------------------
EXTENDS ClientStream

(* Answers of up to three items: calls and what looks like one, in code,   *)
(* beside text and thoughts, complete, malformed or bare.                  *)
MCAnswers ==
  {<<>>, <<"mention">>, <<"fenced">>, <<"empty">>, <<"unknown">>,
   <<"word", "thought">>, <<"thought", "callA">>, <<"mention", "callA">>,
   <<"example", "callB">>, <<"callA", "pair">>, <<"word", "unopened">>,
   <<"raw", "word">>, <<"junk", "callB">>, <<"rawUnknown", "orphan">>,
   <<"word", "corrupt">>, <<"word", "unknown">>,
   <<"word", "mention", "fenced">>, <<"orphan", "callA", "callB">>,
   <<"empty", "section", "thought">>, <<"callB", "word", "callB">>}
=============================================================================
