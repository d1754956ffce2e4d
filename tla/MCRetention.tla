----------------------------- MODULE MCRetention -----------------------------
(* Every prompt is large and every answer small, and both carry the field to be
   redacted; a recorded turn and a new one share the blob of their prompt. *)
EXTENDS Retention

MCTurns == 1 .. 2
MCRecorded == {1}
MCSymmetry == Permutations(Janitors)
MCPrompts == {[content |-> "secret", big |-> TRUE]}
MCAnswers == {[content |-> "secret", big |-> FALSE]}
=============================================================================
