----------------------------- MODULE TurnRecord ------------------------------
(***************************************************************************)
(* What the journal promises about one turn, whoever writes it: the record *)
(* only grows at its end, every event is one that can follow the events    *)
(* before it, nothing follows the end of the turn, and a tool acts on the  *)
(* world at most once for a call, while that call is the last thing        *)
(* recorded.                                                               *)
(*                                                                         *)
(* Abstract specification: the writer, its buffer and the agent loop are   *)
(* not in it.                                                              *)
(***************************************************************************)
EXTENDS Naturals, Sequences

CONSTANT MaxSteps  \* model calls allowed in one turn

VARIABLES
  record,  \* the events recorded
  acts     \* the calls whose tool has acted, in order

vars == <<record, acts>>

Last(s) == s[Len(s)]
LastKind == IF record = <<>> THEN "nothing" ELSE Last(record).kind

\* The error of a failed model call may be recorded twice: by the recorder that
\* saw the call fail and by the loop that gives up on it.
ErrorMayFollow ==
  \/ LastKind \notin {"nothing", "error", "turn.end"}
  \/ /\ LastKind = "error"
     /\ Len(record) > 1
     /\ record[Len(record) - 1].kind = "model.request"

MayFollow(e) ==
  \/ /\ e.kind = "turn.start"
     /\ LastKind = "nothing"
  \/ /\ e.kind = "model.request"
     /\ e.step <= MaxSteps
     /\ \/ LastKind = "turn.start" /\ e.step = 1
        \/ LastKind = "tool.result" /\ e.step = Last(record).step + 1
  \/ /\ e.kind = "model.response"
     /\ LastKind = "model.request"
     /\ e.step = Last(record).step
  \/ /\ e.kind = "tool.call"
     /\ LastKind \in {"model.response", "tool.result"}
     /\ e.step = Last(record).step
     /\ e.call = Last(record).call + 1
  \/ /\ e.kind = "tool.result"
     /\ LastKind = "tool.call"
     /\ e.step = Last(record).step
     /\ e.call = Last(record).call
  \/ /\ e.kind = "error"
     /\ ErrorMayFollow
  \/ /\ e.kind = "turn.end"
     /\ LastKind \in {"model.response", "error"}

Record ==
  /\ Len(record') = Len(record) + 1
  /\ record' = Append(record, Last(record'))
  /\ MayFollow(Last(record'))
  /\ UNCHANGED acts

ToolActs ==
  /\ LastKind = "tool.call"
  /\ LET this == [step |-> Last(record).step, call |-> Last(record).call]
     IN  /\ acts = <<>> \/ Last(acts) # this
         /\ acts' = Append(acts, this)
  /\ UNCHANGED record

Init ==
  /\ record = <<>>
  /\ acts = <<>>

Next == Record \/ ToolActs

Spec == Init /\ [][Next]_vars
=============================================================================
