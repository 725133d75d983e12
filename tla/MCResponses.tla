---------------------------- MODULE MCResponses -----------------------------
(* Two responses that may continue each other, a store with room for one,   *)
(* and answers that open every block after every other.                     *)
EXTENDS Responses

MCAnswers ==
  {<<"reasoning", "text", "call", "call">>, <<"call", "text", "reasoning">>, <<"call", "reasoning">>}

=============================================================================
