----------------------------- MODULE Turn_proofs -----------------------------
(***************************************************************************)
(* Proofs about a recorded turn, for every registry of tools, every step   *)
(* limit, every length of reply and every number of large payloads.        *)
(***************************************************************************)
EXTENDS Turn, SequenceTheorems, FiniteSetTheorems, TLAPS

(***************************************************************************)
(* The four operations of the writer, each stated once by what it leaves   *)
(* behind.                                                                 *)
(***************************************************************************)

\* What is known of the writer after an accepted Append: one event more, under
\* the next sequence number, whose payload is in its line or the one just stored.
Accepted(kind, s, c) ==
  /\ WriterTypeOK'
  /\ ~broken /\ ~broken'
  /\ closed' = closed
  /\ seq' = seq + 1
  /\ UNCHANGED blobs
  /\ Len(events') = Len(events) + 1
  /\ \A i \in 1 .. Len(events) : events'[i] = events[i]
  /\ events'[Len(events) + 1].seq = seq + 1
  /\ events'[Len(events) + 1].kind = kind
  /\ events'[Len(events) + 1].step = s
  /\ events'[Len(events) + 1].call = c
  /\ events'[Len(events) + 1].ref = stored
  /\ stored' = Inline

\* What is known of the writer after a refused Append: only the sequence number
\* is certain to have moved (writer.go: Append takes it first).
Refused ==
  /\ WriterTypeOK'
  /\ seq' = seq + 1
  /\ events' = events
  /\ closed' = closed
  /\ UNCHANGED blobs
  /\ stored' = Inline

\* Storing a payload adds it to the store and touches nothing else, so that a
\* process killed before the line leaves a payload nobody names (writer.go: Append;
\* blob.PutBytes).
LEMMA StoringStores ==
  ASSUME WriterTypeOK, StoresPayload
  PROVE  /\ WriterTypeOK'
         /\ UNCHANGED <<seq, events, closed, flushed, torn, broken>>
         /\ blobs \subseteq blobs'
         /\ stored' \in blobs'
<1>1. /\ seq \in Nat
      /\ blobs \subseteq Nat
      /\ spills \in 0 .. MaxSpills
      /\ MaxSpills \in Nat
  BY MaxSpillsAssumption DEF WriterTypeOK
<1>2. /\ stored' = seq + 1
      /\ blobs' = blobs \cup {seq + 1}
      /\ spills' = spills + 1
      /\ spills < MaxSpills
      /\ UNCHANGED <<seq, events, closed, flushed, torn, broken>>
  BY DEF StoresPayload
<1>3. stored' \in Nat /\ blobs' \subseteq Nat /\ spills' \in 0 .. MaxSpills
  BY <1>1, <1>2
<1> QED
  BY <1>2, <1>3 DEF WriterTypeOK

\* Append, when it succeeds, extends the accepted events by exactly the one it
\* was given (writer.go: Append).
LEMMA AppendAccepts ==
  ASSUME WriterTypeOK,
         NEW kind \in Kinds, NEW s \in Nat, NEW c \in Nat,
         AppendOK(kind, s, c)
  PROVE  Accepted(kind, s, c)
<1>1. PICK ref \in {Inline, seq + 1} :
        /\ NamesStored(ref)
        /\ events' = Append(events, [seq |-> seq + 1, kind |-> kind,
                                     step |-> s, call |-> c, ref |-> ref])
  BY DEF AppendOK
<1> DEFINE e == [seq |-> seq + 1, kind |-> kind, step |-> s, call |-> c, ref |-> ref]
<1>2. e \in Event /\ events \in Seq(Event)
  BY DEF WriterTypeOK, Event, Inline
<1>3. /\ events' \in Seq(Event)
      /\ Len(events') = Len(events) + 1
      /\ \A i \in 1 .. Len(events) : events'[i] = events[i]
      /\ events'[Len(events) + 1] = e
  <2> HIDE DEF e
  <2>1. events' = Append(events, e)
    BY <1>1 DEF e
  <2> QED
    BY <1>2, <2>1
<1>4. /\ seq' \in Nat
      /\ closed' \in BOOLEAN
      /\ broken' \in BOOLEAN
      /\ ~broken /\ ~broken'
      /\ closed' = closed
      /\ seq' = seq + 1
  BY DEF AppendOK, WriterTypeOK
<1>5. flushed' \in 0 .. Len(events') /\ torn' \in BOOLEAN
  <2>1. Len(events) \in Nat /\ flushed \in 0 .. Len(events) /\ torn \in BOOLEAN
    BY DEF WriterTypeOK
  <2>2. Len(events') = Len(events) + 1
    BY <1>3
  <2>3. CASE LineBuffered
    BY <2>1, <2>2, <2>3 DEF LineBuffered
  <2>4. CASE LineOverflows
    <3>1. torn' \in BOOLEAN
      BY <2>4 DEF LineOverflows
    <3>2. flushed' = Len(events) \/ flushed' = Len(events) + 1
      BY <2>4 DEF LineOverflows
    <3> QED
      BY <2>1, <2>2, <3>1, <3>2
  <2> QED
    BY <2>3, <2>4 DEF AppendOK
<1>6. /\ UNCHANGED <<blobs, spills>>
      /\ ref = stored
      /\ stored' = Inline
      /\ stored' \in Nat
  BY <1>1 DEF AppendOK, NamesStored, Inline
<1>7. WriterTypeOK'
  BY <1>3, <1>4, <1>5, <1>6 DEF WriterTypeOK
<1> QED
  BY <1>3, <1>4, <1>6, <1>7 DEF Accepted

\* Append, when it fails, accepts nothing, and uses a sequence number up all the
\* same (writer.go: Append).
LEMMA AppendRefuses ==
  ASSUME WriterTypeOK, AppendFails
  PROVE  Refused
<1>1. /\ seq' = seq + 1
      /\ events' = events
      /\ closed' = closed
      /\ stored' = Inline
      /\ stored' \in Nat
  BY DEF AppendFails, Inline
<1>2. CASE SpillFails
  BY <1>1, <1>2, MaxSpillsAssumption DEF SpillFails, WriterTypeOK, Refused
<1>3. CASE WriteFails
  <2>2. UNCHANGED <<blobs, spills>>
    BY <1>3 DEF WriteFails
  <2>3. /\ flushed' \in 0 .. Len(events)
        /\ torn' \in BOOLEAN
        /\ broken' = TRUE
    BY <1>3 DEF WriteFails, WriteStopsShort, WriterTypeOK
  <2> QED
    BY <1>1, <2>2, <2>3 DEF WriterTypeOK, Refused
<1> QED
  BY <1>2, <1>3 DEF AppendFails

\* Close keeps the writer well typed, whether it succeeds or fails, and accepts
\* and stores nothing (writer.go: Close).
LEMMA CloseKeepsType ==
  ASSUME WriterTypeOK, CloseOK \/ CloseFails
  PROVE  WriterTypeOK' /\ UNCHANGED <<seq, events, blobs, stored>>
<1>1. UNCHANGED <<seq, events, blobs, stored, spills>>
  BY DEF CloseOK, CloseFails
<1>2. flushed' \in 0 .. Len(events) /\ torn' \in BOOLEAN
  <2>0. events \in Seq(Event) /\ flushed \in 0 .. Len(events) /\ torn \in BOOLEAN
    BY DEF WriterTypeOK
  <2>1. CASE CloseOK
    <3>1. Len(events) \in Nat
      BY <2>0
    <3>2. flushed' = Len(events) /\ torn' = FALSE
      BY <2>1 DEF CloseOK
    <3>3. flushed' \in 0 .. Len(events)
      BY <3>1, <3>2
    <3> QED
      BY <3>2, <3>3
  <2>2. CASE CloseFails
    BY <2>0, <2>2 DEF CloseFails, WriteStopsShort
  <2> QED
    BY <2>1, <2>2
<1>3. closed' \in BOOLEAN /\ broken' \in BOOLEAN
  BY DEF CloseOK, CloseFails, WriterTypeOK
<1> QED
  BY <1>1, <1>2, <1>3 DEF WriterTypeOK

-----------------------------------------------------------------------------
(***************************************************************************)
(* Type correctness.  TypeOK bounds `step' by MaxSteps + 1, and the bound  *)
(* survives the end of a step only because a request is made at a step     *)
(* within the limit: that is the strengthening.                            *)
(***************************************************************************)

WithinLimit == pc \in {"wait", "call", "run", "answer"} => step <= MaxSteps

Typed == TypeOK /\ WithinLimit

\* A reply the loop can hold has at most MaxCalls tool calls.
LEMMA ReplyLength ==
  ASSUME NEW r \in Replies
  PROVE  Len(r) \in 0 .. MaxCalls
<1>1. PICK n \in 0 .. MaxCalls : r \in [1 .. n -> Names]
  BY DEF Replies
<1> QED
  BY <1>1, TurnAssumption

\* The next place of the loop is a place, and the position of the call and the
\* number of the step stay in their bounds (agent.go: the two loops of Run).
LEMMA NextCallTyped ==
  ASSUME Typed, pc = "answer", NextCall
  PROVE  /\ pc' \in {"call", "ask"}
         /\ call' \in 1 .. MaxCalls
         /\ step' \in 1 .. MaxSteps + 1
         /\ pc' = "call" => step' = step
<1>1. Len(reply) \in 0 .. MaxCalls
  BY ReplyLength DEF Typed, TypeOK
<1>2. /\ call \in 1 .. MaxCalls
      /\ step \in 1 .. MaxSteps
      /\ MaxSteps \in Nat
      /\ MaxCalls \in Nat
  BY TurnAssumption DEF Typed, TypeOK, WithinLimit
<1>3. CASE call < Len(reply)
  BY <1>1, <1>2, <1>3 DEF NextCall, Goto
<1>4. CASE ~(call < Len(reply))
  BY <1>1, <1>2, <1>4 DEF NextCall, Goto
<1> QED
  BY <1>3, <1>4

\* Whatever it does, a turn keeps its state well typed and asks the model
\* nothing beyond its step limit (agent.go: the loop of Run).
LEMMA TypedStep == Typed /\ [Next]_vars => Typed'
<1> SUFFICES ASSUME Typed, [Next]_vars
             PROVE  Typed'
  OBVIOUS
<1>a. /\ step \in Nat
      /\ call \in Nat
      /\ 0 \in Nat
      /\ WriterTypeOK
      /\ {"turn.start", "model.request", "model.response", "tool.call",
          "tool.result", "error", "turn.end"} \subseteq Kinds
  BY TurnAssumption DEF Typed, TypeOK, Kinds
<1>1. CASE Start
  <2>1. WriterTypeOK'
    BY <1>1, <1>a, AppendAccepts, AppendRefuses DEF Start, Accepted, Refused
  <2> QED
    BY <1>1, <2>1 DEF Start, Goto, Typed, TypeOK, WithinLimit, Places
<1>2. CASE Ask
  <2>1. WriterTypeOK'
    BY <1>2, <1>a, AppendAccepts, AppendRefuses DEF Ask, Accepted, Refused
  <2> QED
    BY <1>2, <2>1 DEF Ask, WithinMaxSteps, Fail, Goto, Typed, TypeOK, WithinLimit, Places
<1>3. CASE StepLimit
  BY <1>3 DEF StepLimit, Fail, Goto, Typed, TypeOK, WithinLimit, Places,
              WriterTypeOK, writerVars
<1>4. ASSUME NEW r \in Replies, Respond(r)
      PROVE  Typed'
  <2>1. WriterTypeOK'
    BY <1>4, <1>a, AppendAccepts, AppendRefuses DEF Respond, Accepted, Refused
  <2>2. /\ pc' \in {"finish", "call", "fail"}
        /\ step' = step
        /\ world' = world
        /\ result' \in {result, "error"}
        /\ WithinLimit'
    BY <1>4 DEF Respond, Fail, Goto, Typed, WithinLimit
  <2>3. reply' \in Replies /\ call' \in 1 .. MaxCalls
    BY <1>4, TurnAssumption DEF Respond, Typed, TypeOK
  <2>4. messages' \in Seq(Message)
    <3>1. [kind |-> "model.response", step |-> step, call |-> 0] \in Message
      BY <1>a DEF Message, MessageKinds
    <3> QED
      BY <1>4, <3>1 DEF Respond, Typed, TypeOK
  <2> QED
    BY <2>1, <2>2, <2>3, <2>4 DEF Typed, TypeOK, Places
<1>5. CASE RespondInvalid
  <2>1. WriterTypeOK'
    BY <1>5, <1>a, AppendAccepts, AppendRefuses DEF RespondInvalid, Accepted, Refused
  <2> QED
    BY <1>5, <2>1 DEF RespondInvalid, Fail, Goto, Typed, TypeOK, WithinLimit, Places
<1>6. CASE RespondError
  <2>1. WriterTypeOK'
    BY <1>6, <1>a, AppendAccepts, AppendRefuses DEF RespondError, Accepted, Refused
  <2> QED
    BY <1>6, <2>1 DEF RespondError, Fail, Goto, Typed, TypeOK, WithinLimit, Places
<1>7. CASE CallTool
  <2>1. WriterTypeOK'
    BY <1>7, <1>a, AppendAccepts, AppendRefuses DEF CallTool, Accepted, Refused
  <2>2. pc' \in {"run", "answer", "fail"} /\ step <= MaxSteps
    BY <1>7 DEF CallTool, Fail, Goto, Typed, WithinLimit
  <2> QED
    BY <1>7, <2>1, <2>2 DEF CallTool, Fail, Typed, TypeOK, WithinLimit, Places
<1>8. CASE RunTool
  <2>1. world' \in Seq(Act)
    <3>1. \A answered \in BOOLEAN :
            [step |-> step, call |-> call, answered |-> answered] \in Act
      BY <1>a DEF Act
    <3> QED
      BY <1>8, <3>1 DEF RunTool, Typed, TypeOK
  <2>2. /\ pc' \in {"answer", "fail"}
        /\ result' \in {result, "error"}
    BY <1>8 DEF RunTool, Fail, Goto
  <2>3. /\ UNCHANGED <<step, reply, call, messages, writerVars>>
        /\ step <= MaxSteps
    BY <1>8 DEF RunTool, Typed, WithinLimit
  <2> QED
    BY <2>1, <2>2, <2>3 DEF Typed, TypeOK, WithinLimit, Places, WriterTypeOK, writerVars
<1>9. CASE AnswerTool
  <2>1. WriterTypeOK'
    BY <1>9, <1>a, AppendAccepts, AppendRefuses DEF AnswerTool, Accepted, Refused
  <2>2. messages' \in Seq(Message)
    <3>1. [kind |-> "tool.result", step |-> step, call |-> call] \in Message
      BY <1>a DEF Message, MessageKinds
    <3> QED
      BY <1>9, <3>1 DEF AnswerTool, TellModel, Typed, TypeOK
  <2>3. /\ UNCHANGED <<reply, world>>
        /\ result' \in {result, "error"}
        /\ step <= MaxSteps
    BY <1>9 DEF AnswerTool, Fail, Goto, Typed, WithinLimit
  <2>4. /\ pc' \in {"call", "ask", "fail"}
        /\ call' \in 1 .. MaxCalls
        /\ step' \in 1 .. MaxSteps + 1
        /\ pc' = "call" => step' = step
    <3>1. CASE NextCall
      BY <1>9, <3>1, NextCallTyped DEF AnswerTool
    <3>2. CASE Fail /\ UNCHANGED <<step, call>>
      BY <3>2 DEF Fail, Goto, Typed, TypeOK
    <3> QED
      BY <1>9, <3>1, <3>2 DEF AnswerTool
  <2> QED
    BY <2>1, <2>2, <2>3, <2>4 DEF Typed, TypeOK, WithinLimit, Places
<1>10. CASE RecordError
  <2>1. WriterTypeOK'
    BY <1>10, <1>a, AppendAccepts, AppendRefuses DEF RecordError, Accepted, Refused
  <2> QED
    BY <1>10, <2>1 DEF RecordError, Goto, Typed, TypeOK, WithinLimit, Places
<1>11. CASE Finish
  <2>1. WriterTypeOK'
    BY <1>11, <1>a, AppendAccepts, AppendRefuses DEF Finish, Accepted, Refused
  <2> QED
    BY <1>11, <2>1 DEF Finish, Goto, Typed, TypeOK, WithinLimit, Places
<1>12. CASE CloseJournal
  <2>1. WriterTypeOK'
    BY <1>12, <1>a, CloseKeepsType DEF CloseJournal
  <2> QED
    BY <1>12, <2>1 DEF CloseJournal, Goto, Typed, TypeOK, WithinLimit, Places
<1>13. CASE Crash
  BY <1>13 DEF Crash, Goto, Typed, TypeOK, WithinLimit, Places, WriterTypeOK, writerVars
<1>14. CASE UNCHANGED vars
  BY <1>14 DEF vars, turnVars, writerVars, Typed, TypeOK, WithinLimit, WriterTypeOK
<1>15. CASE StorePayload
  <2>1. WriterTypeOK' /\ UNCHANGED turnVars
    BY <1>15, <1>a, StoringStores DEF StorePayload
  <2> QED
    BY <2>1 DEF turnVars, Typed, TypeOK, WithinLimit
<1> QED
  BY <1>1, <1>2, <1>3, <1>4, <1>5, <1>6, <1>7, <1>8, <1>9, <1>10, <1>11, <1>12,
     <1>13, <1>14, <1>15 DEF Next, LoopStep

\* A turn starts well typed, with its first request still to be made.
LEMMA TypedInit == Init => Typed
<1>1. <<>> \in Replies
  <2>1. <<>> \in [1 .. 0 -> Names] /\ 0 \in 0 .. MaxCalls
    BY TurnAssumption
  <2> QED
    BY <2>1 DEF Replies
<1>2. Init => events \in Seq(Event) /\ Len(events) = 0
  BY DEF Init, WriterInit
<1>3. Init => WriterTypeOK
  <2>1. Init => /\ flushed \in 0 .. Len(events)
                /\ spills \in 0 .. MaxSpills
                /\ blobs \subseteq Nat
                /\ stored \in Nat
                /\ seq \in Nat
    BY <1>2, MaxSpillsAssumption DEF Init, WriterInit, Inline
  <2>2. Init => closed \in BOOLEAN /\ torn \in BOOLEAN /\ broken \in BOOLEAN
    BY DEF Init, WriterInit
  <2> QED
    BY <1>2, <2>1, <2>2 DEF WriterTypeOK
<1> QED
  BY <1>1, <1>3, TurnAssumption DEF Init, Typed, TypeOK, WithinLimit, Places

\* The state of every recorded turn is well typed: the step never exceeds the
\* limit by more than the one that ends the loop, and the position of the call
\* being served never exceeds the longest reply (agent.go: the loop of Run).
THEOREM TypeCorrect == Spec => []TypeOK
<1>1. Init => Typed
  BY TypedInit
<1>2. Typed => TypeOK
  BY DEF Typed
<1> QED
  BY <1>1, <1>2, TypedStep, PTL DEF Spec

-----------------------------------------------------------------------------
(***************************************************************************)
(* The spill store.                                                        *)
(***************************************************************************)

\* Between its two steps an Append holds a payload that is in the store already.
StoredInv ==
  /\ SpilledIsStored
  /\ stored # Inline => stored \in blobs

\* Each step keeps it: the store only grows, and a line names what was stored before.
LEMMA StoredStep == Typed /\ StoredInv /\ [Next]_vars => StoredInv'
<1> SUFFICES ASSUME Typed, StoredInv, [Next]_vars
             PROVE  StoredInv'
  OBVIOUS
<1>a. /\ WriterTypeOK
      /\ Len(events) \in Nat
      /\ step \in Nat /\ call \in Nat /\ 0 \in Nat
      /\ {"turn.start", "model.request", "model.response", "tool.call",
          "tool.result", "error", "turn.end"} \subseteq Kinds
  BY TurnAssumption DEF Typed, TypeOK, WriterTypeOK, Kinds
<1>b. ASSUME NEW kind \in Kinds, NEW s \in Nat, NEW c \in Nat, AppendOK(kind, s, c)
      PROVE  StoredInv'
  <2>1. Accepted(kind, s, c)
    BY <1>a, <1>b, AppendAccepts
  <2> QED
    BY <1>a, <2>1 DEF Accepted, StoredInv, SpilledIsStored
<1>c. CASE AppendFails
  BY <1>a, <1>c, AppendRefuses DEF Refused, StoredInv, SpilledIsStored
<1>d. CASE UNCHANGED <<events, blobs, stored>>
  BY <1>d DEF StoredInv, SpilledIsStored
<1>1. CASE Start
  BY <1>1, <1>a, <1>b, <1>c DEF Start
<1>2. CASE Ask
  BY <1>2, <1>a, <1>b, <1>c DEF Ask
<1>3. CASE StepLimit
  BY <1>3, <1>d DEF StepLimit, writerVars
<1>4. ASSUME NEW r \in Replies, Respond(r)
      PROVE  StoredInv'
  BY <1>4, <1>a, <1>b, <1>c DEF Respond
<1>5. CASE RespondInvalid
  BY <1>5, <1>a, <1>b, <1>c DEF RespondInvalid
<1>6. CASE RespondError
  BY <1>6, <1>a, <1>b, <1>c DEF RespondError
<1>7. CASE CallTool
  BY <1>7, <1>a, <1>b, <1>c DEF CallTool
<1>8. CASE RunTool
  BY <1>8, <1>d DEF RunTool, writerVars
<1>9. CASE AnswerTool
  BY <1>9, <1>a, <1>b, <1>c DEF AnswerTool
<1>10. CASE RecordError
  BY <1>10, <1>a, <1>b, <1>c DEF RecordError
<1>11. CASE Finish
  BY <1>11, <1>a, <1>b, <1>c DEF Finish
<1>12. CASE CloseJournal
  BY <1>12, <1>a, <1>d, CloseKeepsType DEF CloseJournal
<1>13. CASE Crash
  BY <1>13, <1>d DEF Crash, writerVars
<1>14. CASE UNCHANGED vars
  BY <1>14, <1>d DEF vars, writerVars
<1>15. CASE StorePayload
  BY <1>15, <1>a, StoringStores DEF StorePayload, StoredInv, SpilledIsStored
<1> QED
  BY <1>1, <1>2, <1>3, <1>4, <1>5, <1>6, <1>7, <1>8, <1>9, <1>10, <1>11, <1>12,
     <1>13, <1>14, <1>15 DEF Next, LoopStep

\* However many payloads were spilled and wherever the process dies, between the
\* store and the line too, every event whose payload is not in its line has it in
\* the blob store (writer.go: Append stores the payload before it writes the line).
THEOREM SpillsAreStored == Spec => []SpilledIsStored
<1>1. Init => StoredInv
  BY DEF Init, WriterInit, StoredInv, SpilledIsStored
<1>2. Init => Typed
  BY TypedInit
<1>3. StoredInv => SpilledIsStored
  BY DEF StoredInv
<1> QED
  BY <1>1, <1>2, <1>3, TypedStep, StoredStep, PTL DEF Spec

-----------------------------------------------------------------------------
(***************************************************************************)
(* A turn reported as successful.  The journal of a turn in which nothing  *)
(* has failed yet is without gap, such a turn returns only after its end   *)
(* was recorded, and it is called a success by Close alone.                *)
(***************************************************************************)

WithoutGap == seq = Len(events) /\ \A i \in 1 .. Len(events) : events[i].seq = i

EndRecorded == Len(events) > 0 /\ events[Len(events)].kind = "turn.end"

SuccessInv ==
  /\ result # "error" => WithoutGap
  /\ pc = "fail" => result = "error"
  /\ pc = "return" /\ result = "none" => EndRecorded
  /\ result = "ok" => pc = "done"
  /\ SuccessIsDurable

\* An accepted event leaves no gap where there was none, and is the last one.
LEMMA AcceptedInOrder ==
  ASSUME WriterTypeOK, NEW kind, NEW s, NEW c, Accepted(kind, s, c)
  PROVE  /\ WithoutGap => WithoutGap'
         /\ Len(events') > 0
         /\ events'[Len(events')].kind = kind
<1>1. Len(events) \in Nat /\ seq \in Nat
  BY DEF WriterTypeOK
<1> QED
  BY <1>1 DEF Accepted, WithoutGap

\* Each step keeps what a success rests on.
LEMMA SuccessStep == Typed /\ SuccessInv /\ [Next]_vars => SuccessInv'
<1> SUFFICES ASSUME Typed, SuccessInv, [Next]_vars
             PROVE  SuccessInv'
  OBVIOUS
<1>a. /\ WriterTypeOK
      /\ step \in Nat /\ call \in Nat /\ 0 \in Nat
      /\ {"turn.start", "model.request", "model.response", "tool.call",
          "tool.result", "error", "turn.end"} \subseteq Kinds
      /\ result \in {"none", "ok", "error"}
  BY TurnAssumption DEF Typed, TypeOK, Kinds
\* An event was accepted on the way to somewhere other than `return'.
<1>b. ASSUME NEW kind \in Kinds, NEW s \in Nat, NEW c \in Nat, AppendOK(kind, s, c),
             result' = result, pc \notin {"return", "done"},
             pc' \notin {"fail", "return", "done"}
      PROVE  SuccessInv'
  <2>1. Accepted(kind, s, c)
    BY <1>a, <1>b, AppendAccepts
  <2>2. WithoutGap => WithoutGap'
    BY <1>a, <2>1, AcceptedInOrder
  <2> QED
    BY <1>b, <2>2 DEF SuccessInv, SuccessIsDurable
\* Whatever happened, the turn is failing.
<1>c. ASSUME result' = "error"
      PROVE  SuccessInv'
  BY <1>c DEF SuccessInv, SuccessIsDurable
\* The journal was not touched and the loop is not over.
<1>d. ASSUME UNCHANGED <<seq, events, result>>, pc' \notin {"fail", "return", "done"},
             pc # "done"
      PROVE  SuccessInv'
  BY <1>d DEF SuccessInv, SuccessIsDurable, WithoutGap
<1>1. CASE Start
  BY <1>1, <1>a, <1>b, <1>c DEF Start, Goto
<1>2. CASE Ask
  BY <1>2, <1>a, <1>b, <1>c DEF Ask, Fail, Goto
<1>3. CASE StepLimit
  BY <1>3, <1>c DEF StepLimit, Fail
<1>4. ASSUME NEW r \in Replies, Respond(r)
      PROVE  SuccessInv'
  BY <1>4, <1>a, <1>b, <1>c DEF Respond, Fail, Goto
<1>5. CASE RespondInvalid
  BY <1>5, <1>c DEF RespondInvalid, Fail
<1>6. CASE RespondError
  BY <1>6, <1>c DEF RespondError, Fail
<1>7. CASE CallTool
  <2>1. CASE AppendOK("tool.call", step, call) /\ pc' \in {"run", "answer"}
             /\ result' = result
    BY <1>7, <2>1, <1>a, <1>b DEF CallTool
  <2> QED
    BY <1>7, <2>1, <1>c DEF CallTool, Fail, Goto
<1>8. CASE RunTool
  BY <1>8, <1>c, <1>d DEF RunTool, Fail, Goto, writerVars
<1>9. CASE AnswerTool
  <2>1. CASE AppendOK("tool.result", step, call) /\ pc' \in {"call", "ask"}
             /\ result' = result
    BY <1>9, <2>1, <1>a, <1>b DEF AnswerTool
  <2> QED
    BY <1>9, <2>1, <1>c DEF AnswerTool, NextCall, Fail, Goto
<1>10. CASE RecordError
  BY <1>10, <1>c DEF RecordError, SuccessInv
<1>11. CASE Finish
  <2>1. CASE AppendOK("turn.end", step, 0) /\ UNCHANGED result
    <3>1. Accepted("turn.end", step, 0)
      BY <1>a, <2>1, AppendAccepts
    <3>2. (WithoutGap => WithoutGap') /\ EndRecorded'
      BY <1>a, <3>1, AcceptedInOrder DEF EndRecorded
    <3>3. pc' = "return" /\ result # "ok"
      BY <1>11 DEF Finish, Goto, SuccessInv
    <3> QED
      BY <2>1, <3>2, <3>3 DEF SuccessInv, SuccessIsDurable
  <2> QED
    BY <1>11, <2>1, <1>c DEF Finish
<1>12. CASE CloseJournal
  <2>1. CASE CloseOK /\ result = "none"
    <3>1. pc' = "done" /\ result' = "ok"
      BY <1>12, <2>1 DEF CloseJournal, Goto, CloseFails, CloseOK
    <3>2. WithoutGap /\ EndRecorded
      BY <1>12, <2>1 DEF CloseJournal, SuccessInv
    <3>3. /\ UNCHANGED <<seq, events>>
          /\ flushed' = Len(events)
          /\ torn' = FALSE
      BY <2>1 DEF CloseOK
    <3>4. WithoutGap' /\ EndRecorded'
      BY <3>2, <3>3 DEF WithoutGap, EndRecorded
    <3>5. ReadsAsFinished' /\ flushed' = Len(events')
      BY <3>3, <3>4 DEF ReadsAsFinished, Readable, WithoutGap, EndRecorded
    <3> QED
      BY <3>1, <3>4, <3>5 DEF SuccessInv, SuccessIsDurable
  <2>2. CASE result = "error" \/ CloseFails
    BY <1>12, <2>2, <1>c DEF CloseJournal, CloseOK, CloseFails
  <2>3. result # "ok"
    BY <1>12 DEF CloseJournal, SuccessInv
  <2> QED
    BY <1>12, <1>a, <2>1, <2>2, <2>3 DEF CloseJournal
<1>13. CASE Crash
  BY <1>13, <1>d DEF Crash, Goto, writerVars
<1>14. CASE UNCHANGED vars
  BY <1>14 DEF vars, turnVars, writerVars, SuccessInv, SuccessIsDurable, WithoutGap,
               EndRecorded, ReadsAsFinished, Readable
<1>15. CASE StorePayload
  BY <1>15, <1>a, StoringStores DEF StorePayload, turnVars, SuccessInv, SuccessIsDurable,
     WithoutGap, EndRecorded, ReadsAsFinished, Readable
<1> QED
  BY <1>1, <1>2, <1>3, <1>4, <1>5, <1>6, <1>7, <1>8, <1>9, <1>10, <1>11, <1>12,
     <1>13, <1>14, <1>15 DEF Next, LoopStep

\* A turn its caller is told went well has its whole record in the file, and the
\* reader accepts it as a finished turn (nemuz.go and cmd/nemuz/run.go report a
\* failed Close as the turn's failure).
THEOREM SuccessesAreDurable == Spec => []SuccessIsDurable
<1>1. Init => SuccessInv
  <2>1. Init => WithoutGap
    BY DEF Init, WriterInit, WithoutGap
  <2> QED
    BY <2>1 DEF Init, SuccessInv, SuccessIsDurable
<1>2. Init => Typed
  BY TypedInit
<1>3. SuccessInv => SuccessIsDurable
  BY DEF SuccessInv
<1> QED
  BY <1>1, <1>2, <1>3, TypedStep, SuccessStep, PTL DEF Spec

-----------------------------------------------------------------------------
(***************************************************************************)
(* A file that reads as that of a finished turn.  The end of the turn is   *)
(* the last event and carries the last sequence number taken, so an append *)
(* that was refused before it shows as a gap; and an answer of a tool that *)
(* is not in the record is one whose append was refused, one that is about *)
(* to be appended, or one the process died with.                           *)
(***************************************************************************)

Over == {"return", "done", "crashed"}

EndIsLast ==
  \A i \in 1 .. Len(events) : events[i].kind = "turn.end" =>
    /\ i = Len(events)
    /\ events[i].seq = seq
    /\ pc \in Over

Recorded(act) ==
  \E j \in 1 .. Len(events) :
    /\ events[j].kind = "tool.result"
    /\ events[j].step = act.step
    /\ events[j].call = act.call

AnswersAccounted ==
  \A i \in 1 .. Len(world) : world[i].answered =>
    \/ Recorded(world[i])
    \/ seq > Len(events)
    \/ pc = "answer" /\ world[i].step = step /\ world[i].call = call
    \/ pc = "crashed" /\ \A j \in 1 .. Len(events) : events[j].kind # "turn.end"

FileInv ==
  /\ seq >= Len(events)
  /\ EndIsLast
  /\ AnswersAccounted

\* An accepted event that does not end the turn: what was recorded stays so, and
\* an answer about to be recorded is.
LEMMA AcceptedKeepsFile ==
  ASSUME WriterTypeOK, FileInv,
         NEW kind \in Kinds, NEW s \in Nat, NEW c \in Nat,
         Accepted(kind, s, c),
         world' = world,
         pc \notin Over,
         kind = "turn.end" => pc' \in Over,
         pc = "answer" => kind = "tool.result" /\ s = step /\ c = call
  PROVE  FileInv'
<1>1. Len(events) \in Nat /\ seq \in Nat
  BY DEF WriterTypeOK
<1>2. seq' >= Len(events')
  BY <1>1 DEF Accepted, FileInv
<1>3. \A i \in 1 .. Len(events) : events'[i].kind # "turn.end"
  BY DEF Accepted, FileInv, EndIsLast
<1>4. EndIsLast'
  BY <1>1, <1>3 DEF Accepted, EndIsLast
<1>5. ASSUME NEW act, Recorded(act)
      PROVE  Recorded(act)'
  BY <1>1, <1>5 DEF Accepted, Recorded
<1>6. AnswersAccounted'
  <2> SUFFICES ASSUME NEW i \in 1 .. Len(world), world[i].answered
               PROVE  Recorded(world[i])' \/ seq' > Len(events')
    BY DEF AnswersAccounted
  <2>1. CASE Recorded(world[i])
    BY <1>5, <2>1
  <2>2. CASE seq > Len(events)
    BY <1>1, <2>2 DEF Accepted
  <2>3. CASE pc = "answer" /\ world[i].step = step /\ world[i].call = call
    BY <1>1, <2>3 DEF Accepted, Recorded
  <2> QED
    BY <2>1, <2>2, <2>3 DEF FileInv, AnswersAccounted, Over
<1> QED
  BY <1>2, <1>4, <1>6 DEF FileInv

\* A refused append leaves a gap, which accounts for every answer there was.
LEMMA RefusedKeepsFile ==
  ASSUME WriterTypeOK, FileInv, Refused, world' = world, pc \notin Over
  PROVE  FileInv'
<1>1. Len(events) \in Nat /\ seq \in Nat
  BY DEF WriterTypeOK
<1>2. seq' > Len(events')
  BY <1>1 DEF Refused, FileInv
<1>3. EndIsLast'
  BY DEF Refused, FileInv, EndIsLast
<1> QED
  BY <1>1, <1>2, <1>3 DEF Refused, FileInv, AnswersAccounted

\* Each step keeps the record and the tools' answers accounted for.
LEMMA FileStep == Typed /\ FileInv /\ [Next]_vars => FileInv'
<1> SUFFICES ASSUME Typed, FileInv, [Next]_vars
             PROVE  FileInv'
  OBVIOUS
<1>a. /\ WriterTypeOK
      /\ step \in Nat /\ call \in Nat /\ 0 \in Nat
      /\ {"turn.start", "model.request", "model.response", "tool.call",
          "tool.result", "error", "turn.end"} \subseteq Kinds
  BY TurnAssumption DEF Typed, TypeOK, Kinds
\* An event other than the end of the turn was accepted.
<1>b. ASSUME NEW kind \in Kinds, NEW s \in Nat, NEW c \in Nat, AppendOK(kind, s, c),
             world' = world, pc \notin Over, kind # "turn.end",
             pc = "answer" => kind = "tool.result" /\ s = step /\ c = call
      PROVE  FileInv'
  <2>1. Accepted(kind, s, c)
    BY <1>a, <1>b, AppendAccepts
  <2> QED
    BY <1>a, <1>b, <2>1, AcceptedKeepsFile
<1>c. ASSUME AppendFails, world' = world, pc \notin Over
      PROVE  FileInv'
  BY <1>a, <1>c, AppendRefuses, RefusedKeepsFile
\* The journal was not appended to, and no answer was about to be.
<1>d. ASSUME UNCHANGED <<seq, events, world>>, pc # "answer", pc # "crashed",
             pc \in Over => pc' \in Over
      PROVE  FileInv'
  BY <1>d DEF FileInv, EndIsLast, AnswersAccounted, Recorded
<1>1. CASE Start
  BY <1>1, <1>a, <1>b, <1>c DEF Start, Over
<1>2. CASE Ask
  BY <1>2, <1>a, <1>b, <1>c DEF Ask, Over
<1>3. CASE StepLimit
  BY <1>3, <1>d DEF StepLimit, writerVars, Over
<1>4. ASSUME NEW r \in Replies, Respond(r)
      PROVE  FileInv'
  BY <1>4, <1>a, <1>b, <1>c DEF Respond, Over
<1>5. CASE RespondInvalid
  BY <1>5, <1>a, <1>b, <1>c DEF RespondInvalid, Over
<1>6. CASE RespondError
  BY <1>6, <1>a, <1>b, <1>c DEF RespondError, Over
<1>7. CASE CallTool
  BY <1>7, <1>a, <1>b, <1>c DEF CallTool, Over
<1>8. CASE RunTool
  <2>1. PICK answered \in BOOLEAN :
          /\ world' = Append(world, [step |-> step, call |-> call,
                                     answered |-> answered])
          /\ answered => pc' = "answer"
    BY <1>8 DEF RunTool, Goto
  <2> DEFINE act == [step |-> step, call |-> call, answered |-> answered]
  <2>2. UNCHANGED <<step, call, seq, events>> /\ pc = "run"
    BY <1>8 DEF RunTool, writerVars
  <2>3. /\ Len(world') = Len(world) + 1
        /\ \A i \in 1 .. Len(world) : world'[i] = world[i]
        /\ world'[Len(world) + 1] = act
    <3>1. world \in Seq(Act) /\ act \in Act
      BY <1>a DEF Typed, TypeOK, Act
    <3>2. world' = Append(world, act)
      BY <2>1
    <3> QED
      BY <3>1, <3>2
  <2>4. \A i \in 1 .. Len(world) : world[i].answered =>
          Recorded(world[i]) \/ seq > Len(events)
    BY <2>2 DEF FileInv, AnswersAccounted
  <2>5. AnswersAccounted'
    <3> SUFFICES ASSUME NEW i \in 1 .. Len(world'), world'[i].answered
                 PROVE  \/ Recorded(world[i])'
                        \/ seq' > Len(events')
                        \/ /\ pc' = "answer"
                           /\ world'[i].step = step'
                           /\ world'[i].call = call'
      BY DEF AnswersAccounted
    <3>1. CASE i = Len(world) + 1
      BY <2>1, <2>2, <2>3, <3>1
    <3>2. CASE i \in 1 .. Len(world)
      <4>1. Recorded(world[i]) \/ seq > Len(events)
        BY <2>3, <2>4, <3>2
      <4> QED
        BY <2>2, <2>3, <3>2, <4>1 DEF Recorded
    <3> QED
      <4>1. Len(world) \in Nat
        BY DEF Typed, TypeOK
      <4> QED
        BY <2>3, <3>1, <3>2, <4>1
  <2>6. EndIsLast' /\ seq' >= Len(events')
    BY <2>2 DEF FileInv, EndIsLast, Over
  <2> QED
    BY <2>5, <2>6 DEF FileInv
<1>9. CASE AnswerTool
  BY <1>9, <1>a, <1>b, <1>c DEF AnswerTool, Over
<1>10. CASE RecordError
  BY <1>10, <1>a, <1>b, <1>c DEF RecordError, Over
<1>11. CASE Finish
  <2>1. CASE AppendOK("turn.end", step, 0)
    <3>1. Accepted("turn.end", step, 0)
      BY <1>a, <2>1, AppendAccepts
    <3> QED
      BY <1>11, <1>a, <3>1, AcceptedKeepsFile DEF Finish, Goto, Over
  <2> QED
    BY <1>11, <2>1, <1>c DEF Finish, Over
<1>12. CASE CloseJournal
  BY <1>12, <1>a, <1>d, CloseKeepsType DEF CloseJournal, Goto, Over
<1>13. CASE Crash
  BY <1>13 DEF Crash, Goto, writerVars, FileInv, EndIsLast, AnswersAccounted, Recorded, Over
<1>14. CASE UNCHANGED vars
  BY <1>14 DEF vars, turnVars, writerVars, FileInv, EndIsLast, AnswersAccounted, Recorded
<1>15. CASE StorePayload
  BY <1>15, <1>a, StoringStores DEF StorePayload, turnVars, FileInv, EndIsLast,
     AnswersAccounted, Recorded
<1> QED
  BY <1>1, <1>2, <1>3, <1>4, <1>5, <1>6, <1>7, <1>8, <1>9, <1>10, <1>11, <1>12,
     <1>13, <1>14, <1>15 DEF Next, LoopStep

\* A reader that accepts a file as that of a finished turn reads the whole record
\* of the turn, with every answer a tool gave in it (reader.go: ReadFrom refuses
\* a gap in the sequence; writer.go: Append does not give a number back).
THEOREM FinishedFilesHideNothing == Spec => []FinishedFileHidesNothing
<1>1. Init => FileInv
  BY DEF Init, WriterInit, FileInv, EndIsLast, AnswersAccounted
<1>2. Init => Typed
  BY TypedInit
<1>3. Typed /\ FileInv => FinishedFileHidesNothing
  <2> SUFFICES ASSUME Typed, FileInv, Ended, ReadsAsFinished
               PROVE  /\ flushed = Len(events)
                      /\ \A i \in 1 .. Len(world) : world[i].answered => Recorded(world[i])
    BY DEF FinishedFileHidesNothing, Recorded
  <2>1. flushed \in 1 .. Len(events) /\ events[flushed].kind = "turn.end"
    BY DEF Typed, TypeOK, WriterTypeOK, ReadsAsFinished
  <2>2. flushed = Len(events) /\ seq = flushed
    BY <2>1 DEF FileInv, EndIsLast, ReadsAsFinished, Readable
  <2>3. pc # "answer"
    BY DEF Ended
  <2> QED
    BY <2>1, <2>2, <2>3 DEF FileInv, AnswersAccounted
<1> QED
  BY <1>1, <1>2, <1>3, TypedStep, FileStep, PTL DEF Spec

-----------------------------------------------------------------------------
(***************************************************************************)
(* The turn implements TurnRecord.  Where the loop is says what its record *)
(* ends with, so that every event it appends is one that may follow; and   *)
(* the calls whose tools have acted are behind the call being served.      *)
(***************************************************************************)

Final == events[Len(events)]
EndsWith(kind) == Len(events) > 0 /\ Final.kind = kind

EndsWhereTheLoopIs ==
  /\ pc = "start" => Len(events) = 0 /\ step = 1
  /\ pc = "ask" => \/ EndsWith("turn.start") /\ step = 1
                   \/ EndsWith("tool.result") /\ step = Final.step + 1
  /\ pc = "wait" => EndsWith("model.request") /\ Final.step = step
  /\ pc = "call" => /\ EndsWith("model.response") \/ EndsWith("tool.result")
                    /\ Final.step = step /\ call = Final.call + 1
  /\ pc \in {"run", "answer"} => EndsWith("tool.call") /\ Final.step = step /\ Final.call = call
  /\ pc = "fail" =>
       \/ Len(events) > 0 /\ Final.kind \notin {"error", "turn.end"}
       \/ EndsWith("error") /\ Len(events) > 1 /\ events[Len(events) - 1].kind = "model.request"
  /\ pc = "finish" => EndsWith("model.response") \/ EndsWith("error")

\* Whether a call was made before the one being served, or is the one.
Before(act) == act.step < step \/ (act.step = step /\ act.call < call)
Reached(act) == Before(act) \/ (act.step = step /\ act.call = call)

ActsAreBehind ==
  /\ pc = "start" => Len(world) = 0
  /\ \A i \in 1 .. Len(world) :
       /\ pc \in {"ask", "wait"} => world[i].step < step
       /\ pc \in {"call", "run"} => Before(world[i])
       /\ pc = "answer" => Reached(world[i])

RecordInv == EndsWhereTheLoopIs /\ ActsAreBehind

\* The record and the acts of TurnRecord, as Turn maps them.
RecordOf(es) == [i \in 1 .. Len(es) |-> [kind |-> es[i].kind, step |-> es[i].step,
                                         call |-> es[i].call]]
ActsOf(as) == [i \in 1 .. Len(as) |-> [step |-> as[i].step, call |-> as[i].call]]

\* An accepted event is one more of the record.
LEMMA RecordGrows ==
  ASSUME WriterTypeOK, NEW kind, NEW s, NEW c, Accepted(kind, s, c)
  PROVE  LET e == [kind |-> kind, step |-> s, call |-> c]
         IN  /\ Len(RecordOf(events)) = Len(events)
             /\ Len(RecordOf(events')) = Len(events) + 1
             /\ RecordOf(events') = Append(RecordOf(events), e)
             /\ RecordOf(events')[Len(RecordOf(events'))] = e
<1> DEFINE e == [kind |-> kind, step |-> s, call |-> c]
<1>1. PICK n \in Nat : Len(events) = n
  BY DEF WriterTypeOK
<1>2. Len(events') = n + 1
  BY <1>1 DEF Accepted
<1>3. RecordOf(events) = [i \in 1 .. n |-> [kind |-> events[i].kind, step |-> events[i].step,
                                            call |-> events[i].call]]
  BY <1>1 DEF RecordOf
<1>4. RecordOf(events') = [i \in 1 .. n + 1 |-> [kind |-> events'[i].kind,
                             step |-> events'[i].step, call |-> events'[i].call]]
  BY <1>2 DEF RecordOf
<1>5. \A i \in 1 .. n : events'[i] = events[i]
  BY <1>1 DEF Accepted
<1>6. /\ events'[n + 1].kind = kind /\ events'[n + 1].step = s /\ events'[n + 1].call = c
  BY <1>1 DEF Accepted
<1>7. Len(RecordOf(events)) = n /\ Len(RecordOf(events')) = n + 1
  BY <1>3, <1>4
<1>8. RecordOf(events')[n + 1] = e
  BY <1>4, <1>6
<1>9. RecordOf(events') = Append(RecordOf(events), e)
  <2> DEFINE D == {RecordOf(events')[i] : i \in 1 .. n + 1}
  <2>1. RecordOf(events) \in [1 .. n -> D]
    BY <1>3, <1>4, <1>5, SMTT(30)
  <2>2. e \in D
    BY <1>8
  <2>3. RecordOf(events) \in Seq(D)
    BY <2>1
  <2>4. RecordOf(events') \in Seq(D)
    BY <1>4
  <2> HIDE DEF D, e
  <2>5. /\ Append(RecordOf(events), e) \in Seq(D)
        /\ Len(Append(RecordOf(events), e)) = n + 1
        /\ \A i \in 1 .. n : Append(RecordOf(events), e)[i] = RecordOf(events)[i]
        /\ Append(RecordOf(events), e)[n + 1] = e
    BY <1>7, <2>2, <2>3
  <2>6. \A i \in 1 .. n + 1 : Append(RecordOf(events), e)[i] = RecordOf(events')[i]
    <3>1. \A i \in 1 .. n : RecordOf(events')[i] = RecordOf(events)[i]
      BY <1>3, <1>4, <1>5
    <3> QED
      BY <1>8, <2>5, <3>1
  <2> QED
    BY <1>7, <2>4, <2>5, <2>6, SeqEqual
<1> QED
  BY <1>1, <1>2, <1>7, <1>8, <1>9

\* What the record of an empty or a longer journal ends with.
LEMMA RecordEnds ==
  ASSUME WriterTypeOK
  PROVE  /\ Len(RecordOf(events)) = Len(events)
         /\ RecordOf(events) = <<>> <=> Len(events) = 0
         /\ Len(events) > 0 =>
              /\ RecordOf(events)[Len(events)].kind = Final.kind
              /\ RecordOf(events)[Len(events)].step = Final.step
              /\ RecordOf(events)[Len(events)].call = Final.call
         /\ Len(events) > 1 =>
              RecordOf(events)[Len(events) - 1].kind = events[Len(events) - 1].kind
<1>1. PICK n \in Nat : Len(events) = n
  BY DEF WriterTypeOK
<1>2. RecordOf(events) = [i \in 1 .. n |-> [kind |-> events[i].kind, step |-> events[i].step,
                                            call |-> events[i].call]]
  BY <1>1 DEF RecordOf
<1>3. Len(RecordOf(events)) = n
  BY <1>2
<1>4. RecordOf(events) = <<>> <=> n = 0
  BY <1>2, <1>3
<1>5. n > 0 => /\ RecordOf(events)[n].kind = events[n].kind
               /\ RecordOf(events)[n].step = events[n].step
               /\ RecordOf(events)[n].call = events[n].call
  BY <1>2
<1>6. n > 1 => RecordOf(events)[n - 1].kind = events[n - 1].kind
  BY <1>2
<1> QED
  BY <1>1, <1>3, <1>4, <1>5, <1>6 DEF Final

\* An accepted event that may follow is a step of TurnRecord.
LEMMA RecordSteps ==
  ASSUME WriterTypeOK, NEW kind, NEW s, NEW c, Accepted(kind, s, c), world' = world,
         Record!MayFollow([kind |-> kind, step |-> s, call |-> c])
  PROVE  Record!Next
<1>1. /\ Len(RecordOf(events')) = Len(RecordOf(events)) + 1
      /\ RecordOf(events') = Append(RecordOf(events), [kind |-> kind, step |-> s, call |-> c])
      /\ RecordOf(events')[Len(RecordOf(events'))] = [kind |-> kind, step |-> s, call |-> c]
  BY RecordGrows
<1>2. Record!Record
  BY <1>1 DEF Record!Record, Record!Last, RecordOf
<1> QED
  BY <1>2 DEF Record!Next

\* MayFollow, in terms of the journal.
LEMMA FollowsInJournal ==
  ASSUME WriterTypeOK, NEW kind, NEW s, NEW c,
         \/ kind = "turn.start" /\ Len(events) = 0
         \/ /\ kind = "model.request" /\ s <= MaxSteps
            /\ \/ EndsWith("turn.start") /\ s = 1
               \/ EndsWith("tool.result") /\ s = Final.step + 1
         \/ kind = "model.response" /\ EndsWith("model.request") /\ s = Final.step
         \/ /\ kind = "tool.call" /\ (EndsWith("model.response") \/ EndsWith("tool.result"))
            /\ s = Final.step /\ c = Final.call + 1
         \/ kind = "tool.result" /\ EndsWith("tool.call") /\ s = Final.step /\ c = Final.call
         \/ /\ kind = "error"
            /\ \/ Len(events) > 0 /\ Final.kind \notin {"error", "turn.end"}
               \/ /\ EndsWith("error") /\ Len(events) > 1
                  /\ events[Len(events) - 1].kind = "model.request"
         \/ kind = "turn.end" /\ (EndsWith("model.response") \/ EndsWith("error"))
  PROVE  Record!MayFollow([kind |-> kind, step |-> s, call |-> c])
<1> DEFINE R == RecordOf(events)
<1>1. Len(events) \in Nat /\ (Len(events) > 0 => Final \in Event)
  BY DEF WriterTypeOK, Final
<1>2. Record!LastKind = IF Len(events) = 0 THEN "nothing" ELSE Final.kind
  BY <1>1, RecordEnds DEF Record!LastKind, Record!Last, RecordOf
<1>3. Len(events) > 0 =>
        /\ Record!Last(R).step = Final.step
        /\ Record!Last(R).call = Final.call
  BY RecordEnds DEF Record!Last
<1>4. Final.kind \in Kinds \/ Len(events) = 0
  BY <1>1 DEF Event
<1>5. Record!ErrorMayFollow <=>
        \/ Len(events) > 0 /\ Final.kind \notin {"error", "turn.end"}
        \/ /\ EndsWith("error") /\ Len(events) > 1
           /\ events[Len(events) - 1].kind = "model.request"
  BY <1>1, <1>2, <1>4, RecordEnds DEF Record!ErrorMayFollow, RecordOf, EndsWith, Kinds
<1> QED
  BY <1>1, <1>2, <1>3, <1>5 DEF Record!MayFollow, RecordOf, EndsWith

\* A tool that runs for the first time in the call that is recorded last is a step of
\* TurnRecord.
LEMMA ActSteps ==
  ASSUME Typed, NEW answered \in BOOLEAN,
         world' = Append(world, [step |-> step, call |-> call, answered |-> answered]),
         events' = events,
         EndsWith("tool.call"), Final.step = step, Final.call = call,
         \A i \in 1 .. Len(world) : Before(world[i])
  PROVE  Record!Next
<1> DEFINE this == [step |-> step, call |-> call]
           act == [step |-> step, call |-> call, answered |-> answered]
<1>1. PICK n \in Nat : Len(world) = n
  BY DEF Typed, TypeOK
<1>2. /\ world \in Seq(Act) /\ act \in Act
      /\ step \in Nat /\ call \in Nat
      /\ WriterTypeOK
  BY TurnAssumption DEF Typed, TypeOK, Act
<1>3. /\ Len(world') = n + 1
      /\ \A i \in 1 .. n : world'[i] = world[i]
      /\ world'[n + 1] = act
  <2> HIDE DEF act
  <2>1. world' = Append(world, act)
    BY DEF act
  <2> QED
    BY <1>1, <1>2, <2>1
<1>4. ActsOf(world) = [i \in 1 .. n |-> [step |-> world[i].step, call |-> world[i].call]]
  BY <1>1 DEF ActsOf
<1>5. ActsOf(world') = [i \in 1 .. n + 1 |-> [step |-> world'[i].step, call |-> world'[i].call]]
  BY <1>3 DEF ActsOf
<1>6. /\ Len(ActsOf(world)) = n /\ Len(ActsOf(world')) = n + 1
      /\ ActsOf(world')[n + 1] = this
      /\ \A i \in 1 .. n : ActsOf(world')[i] = ActsOf(world)[i]
  BY <1>3, <1>4, <1>5
<1>7. ActsOf(world') = Append(ActsOf(world), this)
  <2> DEFINE D == {ActsOf(world')[i] : i \in 1 .. n + 1}
  <2>1. ActsOf(world) \in Seq(D)
    <3>1. \A i \in 1 .. n : ActsOf(world)[i] \in D
      BY <1>6
    <3>2. ActsOf(world) = [i \in 1 .. n |-> ActsOf(world)[i]]
      BY <1>4
    <3> HIDE DEF D
    <3> QED
      BY <3>1, <3>2
  <2>2. ActsOf(world') \in Seq(D)
    BY <1>5, SMTT(30)
  <2>3. this \in D
    BY <1>6
  <2> HIDE DEF D, this
  <2>4. /\ Append(ActsOf(world), this) \in Seq(D)
        /\ Len(Append(ActsOf(world), this)) = n + 1
        /\ \A i \in 1 .. n : Append(ActsOf(world), this)[i] = ActsOf(world)[i]
        /\ Append(ActsOf(world), this)[n + 1] = this
    BY <1>6, <2>1, <2>3
  <2>5. \A i \in 1 .. n + 1 : Append(ActsOf(world), this)[i] = ActsOf(world')[i]
    BY <1>6, <2>4
  <2> QED
    BY <1>6, <2>2, <2>4, <2>5, SeqEqual
<1>8. ActsOf(world) = <<>> \/ ActsOf(world)[n] # this
  <2>1. CASE n = 0
    BY <1>4, <1>6, <2>1
  <2>2. CASE n > 0
    <3>1. world[n] \in Act /\ Before(world[n])
      BY <1>1, <1>2, <2>2
    <3>2. world[n].step # step \/ world[n].call # call
      BY <1>2, <3>1 DEF Before, Act
    <3> QED
      BY <1>4, <2>2, <3>2
  <2> QED
    BY <1>1, <2>1, <2>2
<1>9. /\ Record!LastKind = "tool.call"
      /\ Record!Last(RecordOf(events)).step = step
      /\ Record!Last(RecordOf(events)).call = call
  BY <1>2, RecordEnds DEF Record!LastKind, Record!Last, RecordOf, EndsWith
<1>10. Record!ToolActs
  BY <1>6, <1>7, <1>8, <1>9 DEF Record!ToolActs, Record!Last, RecordOf, ActsOf
<1> QED
  BY <1>10 DEF Record!Next

\* The journal ends with one more event, which is of this kind.
Added(kind, s, c) ==
  /\ Len(events') = Len(events) + 1 /\ Len(events') > 0
  /\ Final'.kind = kind /\ Final'.step = s /\ Final'.call = c
  /\ Len(events) > 0 => Len(events') > 1 /\ events'[Len(events') - 1] = Final

\* Each step of the loop keeps the invariant, and is a step of TurnRecord or none.
LEMMA RecordStep ==
  Typed /\ RecordInv /\ [Next]_vars => RecordInv' /\ [Record!Next]_(Record!vars)
<1> SUFFICES ASSUME Typed, RecordInv, [Next]_vars
             PROVE  RecordInv' /\ [Record!Next]_(Record!vars)
  OBVIOUS
<1>a. /\ WriterTypeOK
      /\ step \in Nat /\ call \in Nat /\ 0 \in Nat /\ MaxSteps \in Nat
      /\ Len(events) \in Nat /\ Len(world) \in Nat
      /\ \A i \in 1 .. Len(world) : world[i].step \in Nat /\ world[i].call \in Nat
      /\ {"turn.start", "model.request", "model.response", "tool.call",
          "tool.result", "error", "turn.end"} \subseteq Kinds
  <2>1. world \in Seq(Act) /\ events \in Seq(Event)
    BY DEF Typed, TypeOK, WriterTypeOK
  <2>2. /\ Len(world) \in Nat /\ Len(events) \in Nat
        /\ \A i \in 1 .. Len(world) : world[i] \in Act
    BY <2>1
  <2> QED
    BY <2>2, TurnAssumption DEF Typed, TypeOK, Kinds, Act
\* An event is accepted that may follow.
<1>b. ASSUME NEW kind \in Kinds, NEW s \in Nat, NEW c \in Nat, AppendOK(kind, s, c),
             world' = world,
             Record!MayFollow([kind |-> kind, step |-> s, call |-> c])
      PROVE  Record!Next /\ Added(kind, s, c)
  <2>1. Accepted(kind, s, c)
    BY <1>a, <1>b, AppendAccepts
  <2> QED
    BY <1>a, <1>b, <2>1, RecordSteps DEF Accepted, Added, Final
\* None is, and the turn fails where it may, or is over.
<1>c. ASSUME UNCHANGED <<events, world>> PROVE UNCHANGED Record!vars
  BY <1>c DEF Record!vars
<1>d. AppendFails => UNCHANGED events
  BY DEF AppendFails
<1> USE DEF RecordInv, EndsWhereTheLoopIs, ActsAreBehind, EndsWith, Goto, Fail
<1>1. CASE Start
  <2>1. CASE AppendOK("turn.start", 0, 0) /\ Goto("ask") /\ UNCHANGED result
    <3>1. Record!MayFollow([kind |-> "turn.start", step |-> 0, call |-> 0])
      BY <1>1, <1>a, FollowsInJournal DEF Start
    <3>2. Record!Next /\ Added("turn.start", 0, 0)
      BY <1>1, <1>a, <1>b, <2>1, <3>1 DEF Start
    <3> QED
      BY <1>1, <1>a, <2>1, <3>2 DEF Start, Added
  <2>2. CASE AppendFails /\ Goto("return")
    BY <1>1, <1>c, <1>d, <2>2 DEF Start, Final
  <2> QED
    BY <1>1, <2>1, <2>2 DEF Start
<1>2. CASE Ask
  <2>1. CASE AppendOK("model.request", step, 0) /\ Goto("wait")
    <3>1. Record!MayFollow([kind |-> "model.request", step |-> step, call |-> 0])
      BY <1>2, <1>a, FollowsInJournal DEF Ask, WithinMaxSteps
    <3>2. Record!Next /\ Added("model.request", step, 0)
      BY <1>2, <1>a, <1>b, <2>1, <3>1 DEF Ask
    <3> QED
      BY <1>2, <1>a, <2>1, <3>2 DEF Ask, Added
  <2>2. CASE AppendFails /\ Fail
    BY <1>2, <1>c, <1>d, <2>2 DEF Ask, Final
  <2> QED
    BY <1>2, <2>1, <2>2 DEF Ask
<1>3. CASE StepLimit
  BY <1>3, <1>c DEF StepLimit, writerVars, Final
<1>4. ASSUME NEW r \in Replies, Respond(r)
      PROVE  RecordInv' /\ [Record!Next]_(Record!vars)
  <2>1. CASE AppendOK("model.response", step, 0)
    <3>1. Record!MayFollow([kind |-> "model.response", step |-> step, call |-> 0])
      BY <1>4, <1>a, FollowsInJournal DEF Respond
    <3>2. \/ pc' = "finish"
          \/ pc' = "call" /\ call' = 1
          \/ pc' = "fail"
      BY <1>4 DEF Respond
    <3>3. Record!Next /\ Added("model.response", step, 0)
      BY <1>4, <1>a, <1>b, <2>1, <3>1 DEF Respond
    <3>4. UNCHANGED <<step, world>>
      BY <1>4 DEF Respond
    <3>5. EndsWhereTheLoopIs'
      BY <1>a, <3>2, <3>3, <3>4 DEF Added
    <3>6. \A i \in 1 .. Len(world) : world[i].step < step
      BY <1>4 DEF Respond
    <3>7. ActsAreBehind'
      BY <3>2, <3>4, <3>6 DEF Before
    <3> QED
      BY <3>3, <3>5, <3>7
  <2>2. CASE AppendFails /\ Fail
    BY <1>4, <1>c, <1>d, <2>2 DEF Respond, Final
  <2> QED
    BY <1>4, <2>1, <2>2 DEF Respond
<1>5. CASE RespondInvalid
  <2>1. CASE AppendOK("model.response", step, 0)
    <3>1. Record!MayFollow([kind |-> "model.response", step |-> step, call |-> 0])
      BY <1>5, <1>a, FollowsInJournal DEF RespondInvalid
    <3>2. Record!Next /\ Added("model.response", step, 0)
      BY <1>5, <1>a, <1>b, <2>1, <3>1 DEF RespondInvalid
    <3> QED
      BY <1>5, <1>a, <2>1, <3>2 DEF RespondInvalid, Added
  <2>2. CASE AppendFails
    BY <1>5, <1>c, <1>d, <2>2 DEF RespondInvalid, Final
  <2> QED
    BY <1>5, <2>1, <2>2 DEF RespondInvalid
<1>6. CASE RespondError
  <2>1. CASE AppendOK("error", step, 0)
    <3>1. Record!MayFollow([kind |-> "error", step |-> step, call |-> 0])
      BY <1>6, <1>a, FollowsInJournal DEF RespondError
    <3>2. Record!Next /\ Added("error", step, 0)
      BY <1>6, <1>a, <1>b, <2>1, <3>1 DEF RespondError
    <3> QED
      BY <1>6, <1>a, <2>1, <3>2 DEF RespondError, Added
  <2>2. CASE AppendFails
    BY <1>6, <1>c, <1>d, <2>2 DEF RespondError, Final
  <2> QED
    BY <1>6, <2>1, <2>2 DEF RespondError
<1>7. CASE CallTool
  <2>1. CASE AppendOK("tool.call", step, call)
    <3>1. Record!MayFollow([kind |-> "tool.call", step |-> step, call |-> call])
      BY <1>7, <1>a, FollowsInJournal DEF CallTool
    <3>2. pc' \in {"run", "answer", "fail"}
      BY <1>7 DEF CallTool
    <3>3. Record!Next /\ Added("tool.call", step, call)
      BY <1>7, <1>a, <1>b, <2>1, <3>1 DEF CallTool
    <3>4. UNCHANGED <<step, call, world>>
      BY <1>7 DEF CallTool
    <3>5. EndsWhereTheLoopIs'
      BY <1>a, <3>2, <3>3, <3>4 DEF Added
    <3>6. \A i \in 1 .. Len(world) : Before(world[i])
      BY <1>7 DEF CallTool
    <3>7. ActsAreBehind'
      BY <3>2, <3>4, <3>6 DEF Before, Reached
    <3> QED
      BY <3>3, <3>5, <3>7
  <2>2. CASE AppendFails /\ Fail
    BY <1>7, <1>c, <1>d, <2>2 DEF CallTool, Final
  <2> QED
    BY <1>7, <2>1, <2>2 DEF CallTool
<1>8. CASE RunTool
  <2>1. PICK answered \in BOOLEAN :
          /\ world' = Append(world, [step |-> step, call |-> call, answered |-> answered])
          /\ pc' \in {"answer", "fail"}
    BY <1>8 DEF RunTool
  <2>2. UNCHANGED <<step, call, events>>
    BY <1>8 DEF RunTool, writerVars
  <2>3. Record!Next
    BY <1>8, <2>1, <2>2, ActSteps DEF RunTool
  <2>4. /\ Len(world') = Len(world) + 1
        /\ \A i \in 1 .. Len(world) : world'[i] = world[i]
        /\ world'[Len(world) + 1].step = step
        /\ world'[Len(world) + 1].call = call
    <3> DEFINE act == [step |-> step, call |-> call, answered |-> answered]
    <3>1. world \in Seq(Act) /\ act \in Act /\ act.step = step /\ act.call = call
      BY <1>a DEF Typed, TypeOK, Act
    <3> HIDE DEF act
    <3>2. world' = Append(world, act)
      BY <2>1 DEF act
    <3> QED
      BY <3>1, <3>2
  <2>5. EndsWhereTheLoopIs'
    BY <1>8, <2>1, <2>2 DEF RunTool, Final
  <2>6. ActsAreBehind'
    <3>1. \A i \in 1 .. Len(world) : Before(world[i])
      BY <1>8 DEF RunTool
    <3>2. \A i \in 1 .. Len(world') : i \in 1 .. Len(world) \/ i = Len(world) + 1
      BY <1>a, <2>4
    <3>3. ASSUME NEW i \in 1 .. Len(world')
          PROVE  \/ world'[i].step < step'
                 \/ world'[i].step = step' /\ world'[i].call < call'
                 \/ world'[i].step = step' /\ world'[i].call = call'
      BY <2>2, <2>4, <3>1, <3>2, <3>3 DEF Before
    <3>4. pc' \in {"answer", "fail"}
      BY <2>1
    <3> QED
      BY <3>3, <3>4 DEF Before, Reached
  <2> QED
    BY <2>3, <2>5, <2>6
<1>9. CASE AnswerTool
  <2>1. CASE AppendOK("tool.result", step, call) /\ NextCall
    <3>1. Record!MayFollow([kind |-> "tool.result", step |-> step, call |-> call])
      BY <1>9, <1>a, FollowsInJournal DEF AnswerTool
    <3>2. \/ pc' = "call" /\ call' = call + 1 /\ step' = step
          \/ pc' = "ask" /\ step' = step + 1 /\ call' = call
      BY <2>1 DEF NextCall
    <3>3. Record!Next /\ Added("tool.result", step, call)
      BY <1>9, <1>a, <1>b, <2>1, <3>1 DEF AnswerTool
    <3> QED
      BY <1>9, <1>a, <2>1, <3>2, <3>3 DEF AnswerTool, Added, Before, Reached
  <2>2. CASE AppendFails /\ Fail
    BY <1>9, <1>c, <1>d, <2>2 DEF AnswerTool, Final
  <2> QED
    BY <1>9, <2>1, <2>2 DEF AnswerTool
<1>10. CASE RecordError
  <2>1. CASE AppendOK("error", step, 0) /\ Goto("finish")
    <3>1. Record!MayFollow([kind |-> "error", step |-> step, call |-> 0])
      BY <1>10, <1>a, FollowsInJournal DEF RecordError
    <3>2. Record!Next /\ Added("error", step, 0)
      BY <1>10, <1>a, <1>b, <2>1, <3>1 DEF RecordError
    <3> QED
      BY <1>10, <1>a, <2>1, <3>2 DEF RecordError, Added
  <2>2. CASE AppendFails /\ Goto("return")
    BY <1>10, <1>c, <1>d, <2>2 DEF RecordError, Final
  <2> QED
    BY <1>10, <2>1, <2>2 DEF RecordError
<1>11. CASE Finish
  <2>1. CASE AppendOK("turn.end", step, 0)
    <3>1. Record!MayFollow([kind |-> "turn.end", step |-> step, call |-> 0])
      BY <1>11, <1>a, FollowsInJournal DEF Finish
    <3>2. Record!Next /\ Added("turn.end", step, 0)
      BY <1>11, <1>a, <1>b, <2>1, <3>1 DEF Finish
    <3> QED
      BY <1>11, <1>a, <2>1, <3>2 DEF Finish, Added
  <2>2. CASE AppendFails
    BY <1>11, <1>c, <1>d, <2>2 DEF Finish, Final
  <2> QED
    BY <1>11, <2>1, <2>2 DEF Finish
<1>12. CASE CloseJournal
  BY <1>12, <1>a, <1>c, CloseKeepsType DEF CloseJournal, Final
<1>13. CASE Crash
  BY <1>13, <1>c DEF Crash, writerVars, Final
<1>14. CASE UNCHANGED vars
  BY <1>14, <1>c DEF vars, turnVars, writerVars, Final, Before, Reached
<1>15. CASE StorePayload
  <2>1. UNCHANGED <<events, turnVars>>
    BY <1>15, <1>a, StoringStores DEF StorePayload
  <2> QED
    BY <2>1, <1>c DEF turnVars, Final, Before, Reached
<1> QED
  BY <1>1, <1>2, <1>3, <1>4, <1>5, <1>6, <1>7, <1>8, <1>9, <1>10, <1>11, <1>12,
     <1>13, <1>14, <1>15 DEF Next, LoopStep

\* A turn is a TurnRecord: whatever is appended may follow what the record ends with,
\* and a tool acts once, on the call that was recorded last (agent.go: Run, runTool,
\* finish, fail; record.go: Complete).
THEOREM TurnKeepsRecord == Spec => KeepsRecord
<1>1. Init => Typed
  BY TypedInit
<1>2. Init => RecordInv /\ Record!Init
  <2> SUFFICES ASSUME Init PROVE RecordInv /\ Record!Init
    OBVIOUS
  <2>1. events = <<>> /\ world = <<>> /\ pc = "start" /\ step = 1
    BY DEF Init, WriterInit
  <2>2. Len(events) = 0 /\ Len(world) = 0
    BY <2>1
  <2> QED
    BY <2>1, <2>2 DEF RecordInv, EndsWhereTheLoopIs, ActsAreBehind, Record!Init
<1> QED
  BY <1>1, <1>2, TypedStep, RecordStep, PTL DEF Spec, KeepsRecord, Record!Spec

-----------------------------------------------------------------------------
(* The model sees the journal: between the places of the loop at which the *)
(* model is told something, what it was told agrees with the journal.      *)

MessageOf(e) == [kind |-> e.kind, step |-> e.step, call |-> e.call]

MessagesAgree ==
  /\ Len(messages) = Cardinality(Told)
  /\ \A i \in Told : messages[Ordinal(i)] = MessageOf(events[i])

MessagesInv ==
  /\ pc = "start" => Len(events) = 0 /\ Len(messages) = 0
  /\ pc \in {"ask", "wait", "call", "run", "answer"} => MessagesAgree

\* The ordinals of the events that tell the model something are 1 to their number.
LEMMA TellingEvents ==
  ASSUME Typed
  PROVE  /\ IsFiniteSet(Told) /\ Cardinality(Told) \in Nat
         /\ \A i \in Told : Ordinal(i) \in 1 .. Cardinality(Told)
<1>1. Len(events) \in Nat
  BY DEF Typed, TypeOK, WriterTypeOK
<1>2. IsFiniteSet(1 .. Len(events))
  BY <1>1, FS_Interval
<1>3. IsFiniteSet(Told)
  BY <1>2, FS_Subset DEF Told
<1>4. Cardinality(Told) \in Nat
  BY <1>3, FS_CardinalityType
<1>5. ASSUME NEW i \in Told PROVE Ordinal(i) \in 1 .. Cardinality(Told)
  <2> DEFINE S == {j \in Told : j <= i}
  <2>1. i \in S
    BY <1>1, <1>5 DEF Told
  <2>2. S \in SUBSET Told
    OBVIOUS
  <2>3. IsFiniteSet(S) /\ Cardinality(S) <= Cardinality(Told)
    BY <1>3, <2>2, FS_Subset
  <2>4. Cardinality(S) \in Nat
    BY <2>3, FS_CardinalityType
  <2>5. Cardinality(S) # 0
    BY <2>1, <2>3, FS_EmptySet
  <2>6. Ordinal(i) = Cardinality(S)
    BY DEF Ordinal
  <2> HIDE DEF S
  <2> QED
    BY <1>4, <2>3, <2>4, <2>5, <2>6
<1> QED
  BY <1>3, <1>4, <1>5

\* An event that tells the model nothing leaves the agreement as it was.
LEMMA UntoldAgrees ==
  ASSUME Typed, MessagesAgree, UNCHANGED messages,
         NEW kind \in Kinds \ MessageKinds, NEW s, NEW c, Accepted(kind, s, c)
  PROVE  MessagesAgree'
<1>1. Len(events) \in Nat /\ Len(events') = Len(events) + 1
  BY DEF Typed, TypeOK, WriterTypeOK, Accepted
<1>2. \A i \in Told : events'[i] = events[i]
  BY DEF Told, Accepted
<1>3. Told' = Told
  <2>1. \A i \in 1 .. Len(events') : i \in 1 .. Len(events) \/ i = Len(events) + 1
    BY <1>1
  <2>2. events'[Len(events) + 1].kind \notin MessageKinds
    BY DEF Accepted
  <2>3. \A i \in 1 .. Len(events) : i \in 1 .. Len(events') /\ events'[i] = events[i]
    BY <1>1 DEF Accepted
  <2> QED
    BY <2>1, <2>2, <2>3 DEF Told
<1>4. \A i \in Told : Ordinal(i)' = Ordinal(i)
  BY <1>3 DEF Ordinal
<1> QED
  BY <1>2, <1>3, <1>4 DEF MessagesAgree, MessageOf

\* One that does keeps it, when the model is told just that.
LEMMA ToldAgrees ==
  ASSUME Typed, MessagesAgree,
         NEW kind \in MessageKinds, NEW s \in Nat, NEW c \in Nat, Accepted(kind, s, c),
         messages' = Append(messages, [kind |-> kind, step |-> s, call |-> c])
  PROVE  MessagesAgree'
<1>1. PICK n \in Nat : Len(events) = n /\ Len(events') = n + 1
  BY DEF Typed, TypeOK, WriterTypeOK, Accepted
<1>2. /\ \A i \in 1 .. n : events'[i] = events[i]
      /\ MessageOf(events'[n + 1]) = [kind |-> kind, step |-> s, call |-> c]
  BY <1>1 DEF Accepted, MessageOf
<1>3. Told' = Told \cup {n + 1} /\ n + 1 \notin Told /\ Told \subseteq 1 .. n
  <2>1. events'[n + 1].kind = kind
    BY <1>1 DEF Accepted
  <2> QED
    BY <1>1, <1>2, <2>1 DEF Told
<1>4. PICK m \in Nat : Cardinality(Told) = m
  BY TellingEvents
<1>5. Cardinality(Told') = m + 1
  BY <1>3, <1>4, TellingEvents, FS_AddElement
<1>6. \A i \in Told : Ordinal(i)' = Ordinal(i) /\ Ordinal(i) \in 1 .. m
  <2>1. \A i \in Told : {j \in Told' : j <= i} = {j \in Told : j <= i}
    BY <1>3
  <2> QED
    BY <1>4, <2>1, TellingEvents DEF Ordinal
<1>7. Ordinal(n + 1)' = m + 1
  <2>1. \A j \in Told' : j <= n + 1
    BY <1>3
  <2>2. {j \in Told' : j <= n + 1} = Told'
    BY <2>1, Zenon
  <2> QED
    BY <1>5, <2>2 DEF Ordinal
<1> DEFINE msg == [kind |-> kind, step |-> s, call |-> c]
<1>8. messages \in Seq(Message) /\ msg \in Message /\ Len(messages) = m
  BY <1>4 DEF Typed, TypeOK, MessagesAgree, Message
<1> HIDE DEF msg
<1>9. /\ Len(messages') = m + 1 /\ messages'[m + 1] = msg
      /\ \A k \in 1 .. m : messages'[k] = messages[k]
  <2>1. messages' = Append(messages, msg)
    BY DEF msg
  <2> QED
    BY <1>4, <1>8, <2>1
<1>10. \A i \in Told' : messages'[Ordinal(i)'] = MessageOf(events'[i])
  <2>1. \A i \in Told : messages'[Ordinal(i)'] = MessageOf(events'[i])
    BY <1>2, <1>3, <1>6, <1>9 DEF MessagesAgree
  <2>2. messages'[Ordinal(n + 1)'] = MessageOf(events'[n + 1])
    BY <1>2, <1>7, <1>9 DEF msg
  <2> QED
    BY <1>3, <2>1, <2>2
<1> QED
  BY <1>5, <1>9, <1>10 DEF MessagesAgree

\* Each step of the loop keeps what the model was told in agreement with the journal.
LEMMA MessagesStep == Typed /\ MessagesInv /\ [Next]_vars => MessagesInv'
<1> SUFFICES ASSUME Typed, MessagesInv, [Next]_vars
             PROVE  MessagesInv'
  OBVIOUS
<1>a. /\ WriterTypeOK /\ step \in Nat /\ call \in Nat /\ 0 \in Nat
      /\ {"turn.start", "model.request", "error", "turn.end", "tool.call"}
           \subseteq Kinds \ MessageKinds
      /\ {"model.response", "tool.result"} \subseteq Kinds \cap MessageKinds
  BY TurnAssumption DEF Typed, TypeOK, Kinds, MessageKinds
<1>b. ASSUME NEW kind \in Kinds, NEW s \in Nat, NEW c \in Nat, AppendOK(kind, s, c)
      PROVE  Accepted(kind, s, c)
  BY <1>a, <1>b, AppendAccepts
\* Nothing that is recorded or told changes.
<1>c. UNCHANGED <<events, messages>> => (MessagesAgree' <=> MessagesAgree)
  BY DEF MessagesAgree, Told, Ordinal, MessageOf
<1>1. CASE Start
  <2>1. CASE AppendOK("turn.start", 0, 0) /\ Goto("ask")
    <3>1. Accepted("turn.start", 0, 0)
      BY <1>a, <1>b, <2>1
    <3>2. MessagesAgree
      <4>1. Told = {}
        BY <1>1 DEF Start, MessagesInv, Told
      <4>2. Len(messages) = 0
        BY <1>1 DEF Start, MessagesInv
      <4> QED
        BY <4>1, <4>2, FS_EmptySet DEF MessagesAgree
    <3>3. MessagesAgree'
      BY <1>1, <1>a, <3>1, <3>2, UntoldAgrees DEF Start
    <3> QED
      BY <2>1, <3>3 DEF MessagesInv, Goto
  <2>2. CASE Goto("return")
    BY <2>2 DEF MessagesInv, Goto
  <2> QED
    BY <1>1, <2>1, <2>2 DEF Start
<1>2. CASE Ask
  <2>1. CASE AppendOK("model.request", step, 0) /\ Goto("wait")
    <3>1. Accepted("model.request", step, 0)
      BY <1>a, <1>b, <2>1
    <3>2. MessagesAgree'
      BY <1>2, <1>a, <3>1, UntoldAgrees DEF Ask, MessagesInv
    <3> QED
      BY <2>1, <3>2 DEF MessagesInv, Goto
  <2>2. CASE Fail
    BY <2>2 DEF MessagesInv, Goto, Fail
  <2> QED
    BY <1>2, <2>1, <2>2 DEF Ask
<1>3. CASE StepLimit
  BY <1>3 DEF StepLimit, MessagesInv, Goto, Fail
<1>4. ASSUME NEW r \in Replies, Respond(r) PROVE MessagesInv'
  <2>1. CASE AppendOK("model.response", step, 0) /\ pc' = "call"
    <3>1. Accepted("model.response", step, 0)
      BY <1>a, <1>b, <2>1
    <3>2. messages' = Append(messages, [kind |-> "model.response", step |-> step, call |-> 0])
      BY <1>4, <2>1 DEF Respond, Goto, Fail
    <3>3. MessagesAgree'
      BY <1>4, <1>a, <3>1, <3>2, ToldAgrees DEF Respond, MessagesInv
    <3> QED
      BY <2>1, <3>3 DEF MessagesInv
  <2>2. CASE pc' \in {"finish", "fail"}
    BY <2>2 DEF MessagesInv
  <2> QED
    BY <1>4, <2>1, <2>2 DEF Respond, Goto, Fail
<1>5. CASE RespondInvalid \/ RespondError
  BY <1>5 DEF RespondInvalid, RespondError, MessagesInv, Goto, Fail
<1>6. CASE CallTool
  <2>1. CASE AppendOK("tool.call", step, call) /\ pc' \in {"run", "answer"}
    <3>1. Accepted("tool.call", step, call)
      BY <1>a, <1>b, <2>1
    <3>2. MessagesAgree'
      BY <1>6, <1>a, <3>1, UntoldAgrees DEF CallTool, MessagesInv
    <3> QED
      BY <2>1, <3>2 DEF MessagesInv
  <2>2. CASE Fail
    BY <2>2 DEF MessagesInv, Goto, Fail
  <2> QED
    BY <1>6, <2>1, <2>2 DEF CallTool, Goto
<1>7. CASE RunTool
  <2>1. pc = "run" /\ pc' \in {"answer", "fail"} /\ UNCHANGED <<events, messages>>
    BY <1>7 DEF RunTool, Goto, Fail, writerVars
  <2> QED
    BY <1>c, <2>1 DEF MessagesInv
<1>8. CASE AnswerTool
  <2>1. CASE AppendOK("tool.result", step, call) /\ TellModel /\ NextCall
    <3>1. Accepted("tool.result", step, call)
      BY <1>a, <1>b, <2>1
    <3>2. MessagesAgree'
      BY <1>8, <1>a, <2>1, <3>1, ToldAgrees DEF AnswerTool, TellModel, MessagesInv
    <3>3. pc' \in {"call", "ask"}
      BY <2>1 DEF NextCall, Goto
    <3> QED
      BY <3>2, <3>3 DEF MessagesInv
  <2>2. CASE Fail
    BY <2>2 DEF MessagesInv, Goto, Fail
  <2> QED
    BY <1>8, <2>1, <2>2 DEF AnswerTool
<1>9. CASE RecordError \/ Finish \/ CloseJournal \/ Crash
  <2>1. pc' \in {"finish", "return", "done", "crashed"}
    BY <1>9 DEF RecordError, Finish, CloseJournal, Crash, Goto
  <2> QED
    BY <2>1 DEF MessagesInv
<1>10. CASE UNCHANGED vars
  <2>1. UNCHANGED <<pc, events, messages>>
    BY <1>10 DEF vars, turnVars, writerVars
  <2> QED
    BY <1>c, <2>1 DEF MessagesInv
<1>11. CASE StorePayload
  <2>1. UNCHANGED <<pc, events, messages>>
    BY <1>11, <1>a, StoringStores DEF StorePayload, turnVars
  <2> QED
    BY <1>c, <2>1 DEF MessagesInv
<1> QED
  BY <1>1, <1>2, <1>3, <1>4, <1>5, <1>6, <1>7, <1>8, <1>9, <1>10, <1>11 DEF Next, LoopStep

\* What the model has been told, whenever it is asked again, is what the journal says it
\* answered and was answered, whole and in order (agent.go: Run, runTool, journalResult).
THEOREM ModelsSeeTheJournal == Spec => []ModelSeesTheJournal
<1>1. Init => MessagesInv
  <2> SUFFICES ASSUME Init PROVE MessagesInv
    OBVIOUS
  <2>1. events = <<>> /\ messages = <<>> /\ pc = "start"
    BY DEF Init, WriterInit
  <2>2. Len(events) = 0 /\ Len(messages) = 0
    BY <2>1
  <2> QED
    BY <2>1, <2>2 DEF MessagesInv
<1>2. MessagesInv => ModelSeesTheJournal
  BY DEF MessagesInv, MessagesAgree, MessageOf, ModelSeesTheJournal
<1> QED
  BY <1>1, <1>2, TypedInit, TypedStep, MessagesStep, PTL DEF Spec
=============================================================================
