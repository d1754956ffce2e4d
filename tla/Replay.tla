------------------------------- MODULE Replay --------------------------------
(***************************************************************************)
(* Recording a turn and replaying it: the agent loop runs twice, once      *)
(* against a provider behind llm.Recorder and once, later, against         *)
(* llm.Player and the cassette made from the recording, with the real      *)
(* tools both times; journal.Verify then compares the two event streams.   *)
(*                                                                         *)
(* Journal writes do not fail here (module Turn has their failures), but   *)
(* the recording process may be killed, which leaves a prefix of its       *)
(* events.  Two tools stand for all: one whose answer shows the workspace, *)
(* one that changes it.                                                    *)
(***************************************************************************)
EXTENDS Naturals, Sequences, FiniteSets

CONSTANTS
  Fronts,        \* who records and replays: subset of {"cli", "library"}
  RunSteps,      \* values of --max-steps, or Options.MaxSteps, when recording
  DefaultSteps,  \* agent.DefaultMaxSteps
  MaxCalls       \* Bound: tool calls in one reply.

ASSUME ReplayAssumption ==
  /\ Fronts \subseteq {"cli", "library"}
  /\ RunSteps \subseteq Nat \ {0}
  /\ DefaultSteps \in Nat \ {0}
  /\ MaxCalls \in Nat

VARIABLES
  mode,      \* "record" or "replay"
  front,     \* the front end used for both
  settings,  \* of the agent now running
  pc, step, reply, call,
  messages,  \* the conversation after the prompt
  out,       \* the events of the run
  failed,    \* Run returned an error
  files,     \* the workspace, as far as the tools look at it
  rec,       \* the recorded events, once there is a recording
  recorded,  \* history: settings of the recorded run
  changed,   \* history: the workspace was not as the recording found it
  faulted,   \* history: a tool returned a Go error during the replay
  cursor,    \* Cassette.cursor: where in rec the last exchange served ends
  verdict    \* "none", "refused", "diverged" or "ok"

loopVars == <<pc, step, reply, call, messages, out, failed>>
historyVars == <<front, rec, recorded, changed>>
vars == <<loopVars, historyVars, mode, settings, files, faulted, cursor, verdict>>

Names == {"read", "write", "made_up"}
Settings == [maxTokens : {0, 1}, delegate : BOOLEAN, maxSteps : Nat]

\* A response carries calls, or text, or (when it is no use) neither.
Replies == [calls : UNION {[1 .. n -> Names] : n \in 0 .. MaxCalls}, text : BOOLEAN]
Valid(r) == r.text \/ r.calls # <<>>

-----------------------------------------------------------------------------
(* Settings of the two runs.                                               *)

\* The command line registers the delegate tool unless --delegate-depth is 0 and
\* has no cap on output; the library has the cap and no delegate tool.
RunSettings(f) ==
  IF f = "cli"
  THEN [maxTokens : {0}, delegate : BOOLEAN, maxSteps : RunSteps]
  ELSE [maxTokens : {0, 1}, delegate : {FALSE}, maxSteps : RunSteps]

\* Neither replay sets MaxTokens.  The command rebuilds the toolset without the
\* delegate tool and with the default limit, the library keeps its own options.
ReplaySettings(f, s) ==
  IF f = "cli"
  THEN [maxTokens |-> 0, delegate |-> FALSE, maxSteps |-> DefaultSteps]
  ELSE [s EXCEPT !.maxTokens = 0]

-----------------------------------------------------------------------------
(* The agent loop.                                                         *)

Emit(kind, body) == [kind |-> kind, body |-> body]

\* Mutant of Content: what the tool answered is not recorded.
ContentDropped(name) == 0

\* What a tool answers.  The text about an unknown tool lists the known ones.
Content(name) ==
  CASE name = "read" -> files
    [] name = "write" -> 0
    [] name = "made_up" -> IF settings.delegate THEN 1 ELSE 0

Request == [maxTokens |-> settings.maxTokens,
            delegate |-> settings.delegate,
            messages |-> messages]

Running == verdict = "none"

Start ==
  /\ Running
  /\ pc = "start"
  /\ pc' = "ask"
  /\ out' = <<Emit("turn.start", settings.delegate)>>
  /\ UNCHANGED <<step, reply, call, messages, failed, historyVars,
                 mode, settings, files, faulted, cursor, verdict>>

Ask ==
  /\ Running
  /\ pc = "ask"
  /\ step <= settings.maxSteps
  /\ pc' = "wait"
  /\ out' = Append(out, Emit("model.request", Request))
  /\ UNCHANGED <<step, reply, call, messages, failed, historyVars,
                 mode, settings, files, faulted, cursor, verdict>>

\* Agent.fail and the turn.end it writes, after the events in `before'.
Fail(before, stage) ==
  /\ pc' = "return"
  /\ failed' = TRUE
  /\ out' = out \o before \o <<Emit("error", stage), Emit("turn.end", "error")>>

StepLimit ==
  /\ Running
  /\ pc = "ask"
  /\ step > settings.maxSteps
  /\ Fail(<<>>, "loop")
  /\ UNCHANGED <<step, reply, call, messages, historyVars,
                 mode, settings, files, faulted, cursor, verdict>>

\* What the loop makes of a response, from either provider.
Take(r) ==
  LET got == Emit("model.response", r)
  IN  IF ~Valid(r)
      THEN /\ Fail(<<got>>, "model")
           /\ UNCHANGED <<step, reply, call, messages>>
      ELSE IF r.calls = <<>>
      THEN /\ pc' = "return"
           /\ out' = out \o <<got, Emit("turn.end", "end")>>
           /\ UNCHANGED <<step, reply, call, messages, failed>>
      ELSE /\ pc' = "call"
           /\ reply' = r
           /\ call' = 1
           /\ messages' = Append(messages, <<"assistant", r>>)
           /\ out' = Append(out, got)
           /\ UNCHANGED <<step, failed>>

\* One tool call: journaled, run, its answer journaled and told to the model.
ServeCall ==
  /\ Running
  /\ pc = "call"
  /\ LET name == reply.calls[call]
         asked == Emit("tool.call", <<step, call, name>>)
     IN  \/ /\ out' = out \o <<asked, Emit("tool.result", <<step, call, Content(name)>>)>>
            /\ messages' = Append(messages, <<"tool", Content(name)>>)
            /\ files' = (IF name = "write" THEN 1 ELSE files)
            /\ IF call < Len(reply.calls)
               THEN call' = call + 1 /\ UNCHANGED <<pc, step>>
               ELSE pc' = "ask" /\ step' = step + 1 /\ UNCHANGED call
            /\ UNCHANGED <<failed, faulted>>
         \/ /\ name # "made_up"
            /\ Fail(<<asked>>, "tool")
            /\ faulted' = (mode = "replay")
            /\ UNCHANGED <<step, call, messages, files>>
  /\ UNCHANGED <<reply, historyVars, mode, settings, cursor, verdict>>

-----------------------------------------------------------------------------
(* Recording.                                                              *)

RecorderResponds(r) ==
  /\ mode = "record"
  /\ pc = "wait"
  /\ Take(r)
  /\ UNCHANGED <<historyVars, mode, settings, files, faulted, cursor, verdict>>

\* The recorder journals the failure of the call, the loop that it gives up.
RecorderFails ==
  /\ mode = "record"
  /\ pc = "wait"
  /\ Fail(<<Emit("error", "model.complete")>>, "model")
  /\ UNCHANGED <<step, reply, call, messages, historyVars,
                 mode, settings, files, faulted, cursor, verdict>>

-----------------------------------------------------------------------------
(* The cassette: each response belongs to the last request not yet         *)
(* answered.                                                               *)

\* The request response i answers, if any was recorded for it.
Questions(i) ==
  {j \in 1 .. i - 1 :
     /\ rec[j].kind = "model.request"
     /\ \A k \in j + 1 .. i - 1 :
          rec[k].kind \notin {"model.request", "model.response"}}

\* Positions, in the recording, of the responses the cassette serves, in order.
Tape == {i \in 1 .. Len(rec) : rec[i].kind = "model.response"}

\* Those it has yet to serve.
Remaining == {i \in Tape : i > cursor}

-----------------------------------------------------------------------------
(* Replaying.                                                              *)

Replayable ==
  /\ \E i \in 1 .. Len(rec) : rec[i].kind = "turn.start"
  /\ Tape # {}

\* The recording is over: the turn returned, or its process was killed with only
\* a prefix of the events in the file.  Some time later, in a workspace somebody
\* may have put back or changed, the turn is replayed.
BeginReplay ==
  /\ mode = "record"
  /\ \/ pc = "return" /\ rec' = out
     \/ \E n \in 0 .. Len(out) : rec' = SubSeq(out, 1, n)
  /\ recorded' = settings
  /\ settings' = ReplaySettings(front, settings)
  /\ files' \in {0, 1}
  /\ changed' = (files' # 0)
  /\ mode' = "replay"
  /\ pc' = "start"
  /\ step' = 1
  /\ reply' = [calls |-> <<>>, text |-> FALSE]
  /\ call' = 1
  /\ messages' = <<>>
  /\ out' = <<>>
  /\ failed' = FALSE
  /\ verdict' = (IF Replayable' THEN "none" ELSE "refused")
  /\ UNCHANGED <<front, faulted, cursor>>

\* Mutant of PlayerExhausted: the player waits for a response that never comes.
PlayerWaits == FALSE

\* The cassette is used up.  Nothing is journaled by the player.
PlayerExhausted ==
  /\ mode = "replay"
  /\ pc = "wait"
  /\ Remaining = {}
  /\ Fail(<<>>, "model")
  /\ UNCHANGED <<step, reply, call, messages, historyVars,
                 mode, settings, files, faulted, cursor, verdict>>

\* Mutants of NextCursor: the cassette goes one event too far, or does not move on.
NextCursorTooFar(at) == at + 1
NextCursorStays(at) == cursor

NextCursor(at) == at

\* Mutant of Matches: lenient matching.
MatchesAnything(i) == TRUE

\* Strict matching: the request must be the recorded one, byte for byte.
Matches(i) == \A j \in Questions(i) : rec[j].body = Request

PlayerResponds ==
  /\ mode = "replay"
  /\ pc = "wait"
  /\ \E at \in Remaining :
       /\ \A i \in Remaining : at <= i
       /\ cursor' = NextCursor(at)
       /\ IF Matches(at)
          THEN Take(rec[at].body)
          ELSE Fail(<<>>, "model") /\ UNCHANGED <<step, reply, call, messages>>
  /\ UNCHANGED <<historyVars, mode, settings, files, faulted, verdict>>

SameEvent(a, b) == a.kind = b.kind /\ a.body = b.body

\* Mutant of Verified: events after the last recorded one are not missed.
VerifiedPrefix ==
  /\ Len(out) >= Len(rec)
  /\ \A i \in 1 .. Len(rec) : SameEvent(rec[i], out[i])

\* journal.Verify finds no divergence.
Verified ==
  /\ Len(out) = Len(rec)
  /\ \A i \in 1 .. Len(rec) : SameEvent(rec[i], out[i])

\* A replay that failed is not compared at all.
Conclude ==
  /\ mode = "replay"
  /\ pc = "return"
  /\ verdict = "none"
  /\ verdict' = (IF ~failed /\ Verified THEN "ok" ELSE "diverged")
  /\ UNCHANGED <<loopVars, historyVars, mode, settings, files, faulted, cursor>>

-----------------------------------------------------------------------------

Init ==
  /\ mode = "record"
  /\ front \in Fronts
  /\ settings \in RunSettings(front)
  /\ pc = "start"
  /\ step = 1
  /\ reply = [calls |-> <<>>, text |-> FALSE]
  /\ call = 1
  /\ messages = <<>>
  /\ out = <<>>
  /\ failed = FALSE
  /\ files = 0
  /\ rec = <<>>
  /\ recorded = settings
  /\ changed = FALSE
  /\ faulted = FALSE
  /\ cursor = 0
  /\ verdict = "none"

Next ==
  \/ Start \/ Ask \/ StepLimit \/ ServeCall
  \/ \E r \in Replies : RecorderResponds(r)
  \/ RecorderFails
  \/ BeginReplay
  \/ PlayerResponds \/ PlayerExhausted \/ Conclude

Spec == Init /\ [][Next]_vars

\* The next call is the model's invention, which the loop answers without any tool.
NoToolRuns == pc = "call" => reply.calls[call] = "made_up"

\* A replay runs on its own, without a provider, but with the tools a recorded turn
\* has, whose runs need not end (exec.go: cmd.Run; client.go: call).
FairSpec == Spec /\ WF_vars(mode = "replay" /\ NoToolRuns /\ Next)

-----------------------------------------------------------------------------
(* Properties.                                                             *)

TypeOK ==
  /\ mode \in {"record", "replay"}
  /\ front \in Fronts
  /\ settings \in Settings
  /\ recorded \in Settings
  /\ pc \in {"start", "ask", "wait", "call", "return"}
  /\ step \in Nat
  /\ reply \in Replies
  /\ call \in 1 .. MaxCalls + 1
  /\ files \in {0, 1}
  /\ cursor \in Tape \cup {0}
  /\ verdict \in {"none", "refused", "diverged", "ok"}
  /\ {failed, changed, faulted} \subseteq BOOLEAN

\* Strict replay never serves a response that belongs to a different question
\* (record.go: Replay): a response stands where it stands in the recording, after the
\* very request it answered, and nothing the recording has before it was left out.
ServesOnlyItsOwnQuestion ==
  mode = "replay" =>
    \A i \in 1 .. Len(out) : out[i].kind = "model.response" =>
      /\ i <= Len(rec)
      /\ rec[i] = out[i] /\ rec[i - 1] = out[i - 1]
      /\ rec[i - 1].kind = "model.request"
      /\ \A k \in 1 .. i : rec[k].kind = out[k].kind

\* A turn that finished replays to the same events whenever the replaying agent
\* has the settings of the recording one and finds the workspace as that one
\* found it: the loop adds nothing of its own to a turn (replay.go: Cassette).
FinishedTurnsReplay ==
  /\ verdict \in {"refused", "diverged"}
  /\ \E i \in 1 .. Len(rec) : rec[i].kind = "turn.end" /\ rec[i].body = "end"
  /\ settings.maxTokens = recorded.maxTokens
  /\ settings.delegate = recorded.delegate
  /\ settings.maxSteps >= recorded.maxSteps
  => changed \/ faulted

\* Only a turn that ran to its end is ever called reproducible: not the prefix a
\* killed process left, and not a turn that failed (replay.go: Verify).
OnlyWholeTurnsVerify ==
  verdict = "ok" =>
    /\ rec[Len(rec)].kind = "turn.end"
    /\ \A i \in 1 .. Len(rec) : rec[i].kind # "error"

\* A workspace that differs where the turn looked at it is never missed: if the
\* recorded turn read before it wrote, and the workspace changed since, the turn
\* is not called reproducible.
ChangedWorkspaceIsSeen ==
  verdict = "ok" /\ changed =>
    \A i \in 1 .. Len(rec) :
      rec[i].kind = "tool.call" /\ rec[i].body[3] = "read" =>
        \E j \in 1 .. i - 1 :
          rec[j].kind = "tool.call" /\ rec[j].body[3] = "write"

\* A replay comes to a verdict, the cassette being finite, or stays for good in one
\* run of a tool: an exhausted or mismatched cassette does not hold it up.
ReplayConcludes ==
  mode = "replay" ~> (verdict # "none" \/ [](pc = "call" /\ ~NoToolRuns))

-----------------------------------------------------------------------------
(* What the program prints and the code does not do.                       *)

\* cmd/nemuz/run.go prints "replay with: nemuz replay <turn>" under the answer
\* of every turn that finished.  In the workspace the turn started from, and
\* within the step limit, that command reproduces the turn.
PrintedReplayReproduces ==
  verdict \in {"refused", "diverged"} =>
    \/ changed \/ faulted
    \/ settings.maxSteps < recorded.maxSteps
    \/ \A i \in 1 .. Len(rec) : rec[i].kind # "turn.end" \/ rec[i].body # "end"
=============================================================================
