------------------------------ MODULE Decoding ------------------------------
(***************************************************************************)
(* What PipelineRunner.generate_stream promises: generations on a resident *)
(* model take place one at a time, and every token of a generation is      *)
(* computed from its own prompt and its own earlier tokens, by every shard *)
(* in turn.                                                                *)
(***************************************************************************)
EXTENDS Naturals, Sequences

CONSTANTS Generations,
          Shards,       \* number of shards of the pipeline
          MaxTokens     \* max_new_tokens

VARIABLES phase,   \* of each generation
          text     \* the tokens each has yielded

vars == <<phase, text>>

\* The state a shard should have after step k of generation g: the prompt
\* and k tokens fed back.
OwnState(g, k) == [i \in 1..(k + 1) |-> <<g, i - 1>>]

\* The token of step k: each shard saw just this generation.
RightToken(g, k) == [i \in 1..Shards |-> OwnState(g, k)]

Init ==
  /\ phase = [g \in Generations |-> "waiting"]
  /\ text = [g \in Generations |-> <<>>]

Start(g) ==
  /\ phase[g] = "waiting"
  /\ \A f \in Generations : phase[f] # "running"
  /\ phase' = [phase EXCEPT ![g] = "running"]
  /\ UNCHANGED text

Emit(g) ==
  /\ phase[g] = "running" /\ Len(text[g]) < MaxTokens
  /\ text' = [text EXCEPT ![g] = Append(@, RightToken(g, Len(@)))]
  /\ UNCHANGED phase

\* Completed, failed, or closed by its reader.
End(g) ==
  /\ phase[g] = "running"
  /\ phase' = [phase EXCEPT ![g] = "ended"]
  /\ UNCHANGED text

Next == \E g \in Generations : Start(g) \/ Emit(g) \/ End(g)

Spec == Init /\ [][Next]_vars
=============================================================================
