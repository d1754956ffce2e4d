---------------------------- MODULE PluginPromise ----------------------------
(***************************************************************************)
(* What internal/plugin promises whoever calls a tool: calls are served    *)
(* one at a time; each ends once, answered or failed; one that is answered *)
(* was run, and none is run twice or out of order.  A failed call may have *)
(* been run, and may even be run after it has failed.                      *)
(***************************************************************************)
EXTENDS Naturals

CONSTANT MaxCalls

VARIABLES
  stage,  \* per call: free, asked, answered or failed
  ran     \* calls whose tool has been started

Calls == 1 .. MaxCalls

Init ==
  /\ stage = [i \in Calls |-> "free"]
  /\ ran = {}

FirstFree(i) == stage[i] = "free" /\ \A k \in Calls : k < i => stage[k] # "free"

Ask(i) ==
  /\ FirstFree(i)
  /\ \A k \in Calls : stage[k] # "asked"
  /\ stage' = [stage EXCEPT ![i] = "asked"]
  /\ UNCHANGED ran

Refuse(i) ==
  /\ FirstFree(i)
  /\ stage' = [stage EXCEPT ![i] = "failed"]
  /\ UNCHANGED ran

Run(i) ==
  /\ stage[i] # "free"
  /\ \A k \in ran : k < i
  /\ ran' = ran \cup {i}
  /\ UNCHANGED stage

Answer(i) ==
  /\ stage[i] = "asked" /\ i \in ran
  /\ stage' = [stage EXCEPT ![i] = "answered"]
  /\ UNCHANGED ran

Fail(i) ==
  /\ stage[i] = "asked"
  /\ stage' = [stage EXCEPT ![i] = "failed"]
  /\ UNCHANGED ran

Next == \E i \in Calls : Ask(i) \/ Refuse(i) \/ Run(i) \/ Answer(i) \/ Fail(i)

Spec == Init /\ [][Next]_<<stage, ran>>
=============================================================================
