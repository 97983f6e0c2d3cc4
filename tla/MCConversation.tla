----------------------------- MODULE MCConversation -----------------------------
(***************************************************************************)
(* An instance of Conversation for TLC: a prompt and its answer, a second      *)
(* prompt, its answer.                                                         *)
(***************************************************************************)
EXTENDS Conversation, TLC

CONSTANTS u1, u2, a1, a2, lost

Prompt(id) == [id |-> id, role |-> "user", tools |-> <<>>]
Answer(id, tools) == [id |-> id, role |-> "assistant", tools |-> tools]

Growing ==
  LET one == <<Prompt(u1), Answer(a1, <<"intent", "file">>)>>
      two == one \o <<Prompt(u2)>>
  IN (0 :> <<>>) @@ (1 :> one) @@ (2 :> two) @@ (3 :> two \o <<Answer(a2, <<"file", "shell">>)>>)
=============================================================================
