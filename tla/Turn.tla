-------------------------------- MODULE Turn ---------------------------------
(***************************************************************************)
(* One recorded turn: the loop of internal/agent.Agent.Run, the            *)
(* llm.Recorder between it and the provider, and the journal writer both   *)
(* append to, in a process that may be killed between any two steps.       *)
(*                                                                         *)
(* The model's reply is the sequence of tools it asks for, empty for a     *)
(* final answer.  A tool call is named by its step and its position in the *)
(* reply.                                                                  *)
(***************************************************************************)
EXTENDS JournalWriter, FiniteSets

CONSTANTS
  Tools,     \* names in the tool registry
  Unknown,   \* a name the model makes up
  MaxSteps,  \* Agent.MaxSteps
  MaxCalls   \* Bound: tool calls in one reply.

ASSUME TurnAssumption ==
  /\ MaxSteps \in Nat \ {0}
  /\ MaxCalls \in Nat \ {0}
  /\ Unknown \notin Tools

VARIABLES
  pc,        \* where the loop is
  step,      \* Outcome.Steps
  reply,     \* the tool calls of the last valid response
  call,      \* position in `reply' of the call being served
  messages,  \* what the next request tells the model, after the prompt
  world,     \* history: every run of a tool, and whether it gave an answer
  result     \* what the caller of the turn is told, "none" until known

turnVars == <<pc, step, reply, call, messages, world, result>>
vars == <<turnVars, writerVars>>

Names == Tools \cup {Unknown}
Replies == UNION {[1 .. n -> Names] : n \in 0 .. MaxCalls}
Places == {"start", "ask", "wait", "call", "run", "answer",
           "fail", "finish", "return", "done", "crashed"}
MessageKinds == {"model.response", "tool.result"}
Message == [kind : MessageKinds, step : Nat, call : Nat]
Act == [step : Nat, call : Nat, answered : BOOLEAN]

TypeOK ==
  /\ WriterTypeOK
  /\ pc \in Places
  /\ step \in 1 .. MaxSteps + 1
  /\ reply \in Replies
  /\ call \in 1 .. MaxCalls
  /\ messages \in Seq(Message)
  /\ world \in Seq(Act)
  /\ result \in {"none", "ok", "error"}

Init ==
  /\ WriterInit
  /\ pc = "start"
  /\ step = 1
  /\ reply = <<>>
  /\ call = 1
  /\ messages = <<>>
  /\ world = <<>>
  /\ result = "none"

-----------------------------------------------------------------------------

Goto(place) == pc' = place

\* Leave the loop with an error that Agent.fail is to record.
Fail ==
  /\ Goto("fail")
  /\ result' = "error"

\* The opening event.  Without it Run returns at once.
Start ==
  /\ pc = "start"
  /\ \/ /\ AppendOK("turn.start", 0, 0)
        /\ Goto("ask")
        /\ UNCHANGED result
     \/ /\ AppendFails
        /\ Goto("return")
        /\ result' = "error"
  /\ UNCHANGED <<step, reply, call, messages, world>>

\* Mutant of WithinMaxSteps: `step <= MaxSteps + 1', the loop's bound off by one.
OnePastMaxSteps == step <= MaxSteps + 1

\* The condition of the loop in Agent.Run.
WithinMaxSteps == step <= MaxSteps

\* The places from which the loop goes on with an Append.
Appending == {"start", "ask", "wait", "call", "answer", "fail", "finish"}

\* What is to be appended next is large: it is stored, its line is still to come.
StorePayload ==
  /\ pc \in Appending
  /\ pc = "ask" => WithinMaxSteps
  /\ StoresPayload
  /\ UNCHANGED turnVars

\* Recorder.Complete journals the request before the provider sees it.
Ask ==
  /\ pc = "ask"
  /\ WithinMaxSteps
  /\ \/ /\ AppendOK("model.request", step, 0)
        /\ Goto("wait")
        /\ UNCHANGED result
     \/ /\ AppendFails
        /\ Fail
  /\ UNCHANGED <<step, reply, call, messages, world>>

\* The model still wanted tools after its last step.
StepLimit ==
  /\ pc = "ask"
  /\ ~WithinMaxSteps
  /\ Fail
  /\ UNCHANGED <<step, reply, call, messages, world, writerVars>>

\* The provider answers with a reply the loop can use.
Respond(r) ==
  /\ pc = "wait"
  /\ \/ /\ AppendOK("model.response", step, 0)
        /\ IF r = <<>>
           THEN /\ Goto("finish")
                /\ UNCHANGED <<reply, call, messages>>
           ELSE /\ Goto("call")
                /\ reply' = r
                /\ call' = 1
                /\ messages' = Append(messages, [kind |-> "model.response",
                                                 step |-> step, call |-> 0])
        /\ UNCHANGED result
     \/ /\ AppendFails
        /\ Fail
        /\ UNCHANGED <<reply, call, messages>>
  /\ UNCHANGED <<step, world>>

\* The provider answers with nothing, or with a call that has no name or id:
\* Response.Validate refuses it after Recorder.Complete has journaled it.
RespondInvalid ==
  /\ pc = "wait"
  /\ AppendOK("model.response", step, 0) \/ AppendFails
  /\ Fail
  /\ UNCHANGED <<step, reply, call, messages, world>>

\* The provider fails, or the turn's context is cancelled.
RespondError ==
  /\ pc = "wait"
  /\ AppendOK("error", step, 0) \/ AppendFails
  /\ Fail
  /\ UNCHANGED <<step, reply, call, messages, world>>

\* runTool journals the call, then looks the tool up.
CallTool ==
  /\ pc = "call"
  /\ \/ /\ AppendOK("tool.call", step, call)
        /\ Goto(IF reply[call] \in Tools THEN "run" ELSE "answer")
        /\ UNCHANGED result
     \/ /\ AppendFails
        /\ Fail
  /\ UNCHANGED <<step, reply, call, messages, world>>

\* The tool acts on the world and answers, or acts and returns a Go error.
RunTool ==
  /\ pc = "run"
  /\ \E answered \in BOOLEAN :
       /\ world' = Append(world, [step |-> step, call |-> call,
                                  answered |-> answered])
       /\ IF answered
          THEN Goto("answer") /\ UNCHANGED result
          ELSE Fail
  /\ UNCHANGED <<step, reply, call, messages, writerVars>>

\* The model is told what the tool answered.
TellModel == messages' = Append(messages, [kind |-> "tool.result",
                                           step |-> step, call |-> call])

\* The next call of the reply, or the next request when there is none.
NextCall ==
  IF call < Len(reply)
  THEN Goto("call") /\ call' = call + 1 /\ UNCHANGED step
  ELSE Goto("ask") /\ step' = step + 1 /\ UNCHANGED call

\* Mutant of AnswerTool: the loop goes on whether or not the answer is recorded.
AnswerToolUnrecorded ==
  /\ pc = "answer"
  /\ AppendOK("tool.result", step, call) \/ AppendFails
  /\ TellModel
  /\ NextCall
  /\ UNCHANGED <<reply, world, result>>

\* journalResult, and only then is the model told.
AnswerTool ==
  /\ pc = "answer"
  /\ \/ /\ AppendOK("tool.result", step, call)
        /\ TellModel
        /\ NextCall
        /\ UNCHANGED result
     \/ /\ AppendFails
        /\ Fail
        /\ UNCHANGED <<step, call, messages>>
  /\ UNCHANGED <<reply, world>>

\* Mutant of RecordError: the error is appended until that succeeds.
RecordErrorInsists ==
  /\ pc = "fail"
  /\ AppendOK("error", step, 0)
  /\ Goto("finish")
  /\ UNCHANGED <<step, reply, call, messages, world, result>>

\* Agent.fail: the error first, and the end only if the error was recorded.
RecordError ==
  /\ pc = "fail"
  /\ \/ AppendOK("error", step, 0) /\ Goto("finish")
     \/ AppendFails /\ Goto("return")
  /\ UNCHANGED <<step, reply, call, messages, world, result>>

\* Agent.finish, after a final answer or from Agent.fail.
Finish ==
  /\ pc = "finish"
  /\ Goto("return")
  /\ \/ AppendOK("turn.end", step, 0) /\ UNCHANGED result
     \/ AppendFails /\ result' = "error"
  /\ UNCHANGED <<step, reply, call, messages, world>>

\* Mutant of CloseJournal: the error of Close is dropped, as `defer w.Close()' does.
CloseJournalDropsError ==
  /\ pc = "return"
  /\ Goto("done")
  /\ CloseOK \/ CloseFails
  /\ result' = (IF result = "none" THEN "ok" ELSE result)
  /\ UNCHANGED <<step, reply, call, messages, world>>

\* The caller of Run closes the journal; a turn that went well still fails if
\* its journal does not close.
CloseJournal ==
  /\ pc = "return"
  /\ Goto("done")
  /\ \/ CloseOK /\ result' = (IF result = "none" THEN "ok" ELSE result)
     \/ CloseFails /\ result' = "error"
  /\ UNCHANGED <<step, reply, call, messages, world>>

\* The process is killed.  What the buffer held is gone; `events' and `world'
\* stay as the history of what had happened.
Crash ==
  /\ pc \notin {"done", "crashed"}
  /\ Goto("crashed")
  /\ UNCHANGED <<step, reply, call, messages, world, result, writerVars>>

\* Everything the loop does but wait for a tool.
LoopStep ==
  \/ StorePayload
  \/ Start \/ Ask \/ StepLimit
  \/ \E r \in Replies : Respond(r)
  \/ RespondInvalid \/ RespondError
  \/ CallTool \/ AnswerTool
  \/ RecordError \/ Finish \/ CloseJournal

Next == LoopStep \/ RunTool \/ Crash

Spec == Init /\ [][Next]_vars

\* The loop is one goroutine, an attempt at the provider ends with its HTTP client's
\* limit, and an Append waits for nobody.  A tool need not return: a program's
\* descendant may hold its output open (exec.go: cmd.Run), a plugin may not read
\* its request (client.go: call writes before it looks at its context).
FairSpec == Spec /\ WF_vars(LoopStep)
-----------------------------------------------------------------------------
(* Properties.                                                             *)

Ended == pc \in {"done", "crashed"}

\* The turn implements TurnRecord: seen without sequence numbers and refs, its
\* accepted events are a turn's record and its tools act only when that record
\* says so (agent.go: runTool journals the call before it runs the tool, fail
\* and finish close the record out).
Record == INSTANCE TurnRecord WITH
  record <- [i \in 1 .. Len(events) |-> [kind |-> events[i].kind,
                                         step |-> events[i].step,
                                         call |-> events[i].call]],
  acts <- [i \in 1 .. Len(world) |-> [step |-> world[i].step,
                                      call |-> world[i].call]]
KeepsRecord == Record!Spec

\* No line, in the buffer or in the file, names a payload the blob store does not
\* hold, also when the process is killed between the two (writer.go: PutBytes
\* commits before the line is written).
SpilledIsStored ==
  \A i \in 1 .. Len(events) :
    events[i].ref # Inline => events[i].ref \in blobs

\* The events that tell the model something, and which of them the i-th event is.
Told == {i \in 1 .. Len(events) : events[i].kind \in MessageKinds}
Ordinal(i) == Cardinality({j \in Told : j <= i})

\* What the model has been told, whenever it is asked, is what the journal says
\* it answered and was answered, in that order and with nothing left out: the
\* messages a replay rebuilds from the journal are the ones the model saw.
ModelSeesTheJournal ==
  pc \in {"ask", "wait"} =>
    /\ Len(messages) = Cardinality(Told)
    /\ \A i \in Told : messages[Ordinal(i)] = [kind |-> events[i].kind,
                                               step |-> events[i].step,
                                               call |-> events[i].call]

\* A journal file the reader accepts as that of a finished turn is the whole
\* record, and hides no answer a tool gave: an append that was lost leaves a
\* sequence gap, and the reader refuses the file (reader.go: ReadFrom).
FinishedFileHidesNothing ==
  Ended /\ ReadsAsFinished =>
    /\ flushed = Len(events)
    /\ \A i \in 1 .. Len(world) : world[i].answered =>
         \E j \in 1 .. flushed :
           /\ events[j].kind = "tool.result"
           /\ events[j].step = world[i].step
           /\ events[j].call = world[i].call

\* A turn reported as successful is in the file, whole, readable and finished,
\* whatever was buffered, spilled or failed on the way (nemuz.go: Run reports
\* a Close error as the turn's own).
SuccessIsDurable ==
  result = "ok" => ReadsAsFinished /\ flushed = Len(events)

\* A turn comes to its end, or stays for good in one run of a tool: the step limit
\* stops a model that always wants another tool, an error that cannot be recorded
\* is not retried, and only a tool can hold the loop up.
TurnEnds == <>Ended \/ <>[](pc = "run")

-----------------------------------------------------------------------------
(* What the comments say and the code does not do.                         *)

\* journal/event.go: "Every turn writes each thing that happens [...] to a JSONL
\* file before anything else observes it".  The line of a tool call is in the
\* file before the tool acts on the world.
ActsOnlyOnDiskRecord ==
  \A i \in 1 .. Len(world) :
    \E j \in 1 .. flushed :
      /\ events[j].kind = "tool.call"
      /\ events[j].step = world[i].step
      /\ events[j].call = world[i].call

\* agent.go: "A turn that failed is still a turn worth inspecting and replaying,
\* so the journal is closed out properly rather than left truncated".  When the
\* end of a failed turn was recorded and the journal closed without an error,
\* the reader accepts the file.
ClosedOutIsReadable ==
  pc = "done" /\ ~broken /\ events # <<>> /\ events[Len(events)].kind = "turn.end"
    => ReadsAsFinished
=============================================================================
