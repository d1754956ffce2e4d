------------------------------ MODULE PluginPipe ------------------------------
(***************************************************************************)
(* internal/plugin: a Client in the host and a Server in a child process,  *)
(* with two pipes between them.  In the host run the callers, the          *)
(* goroutine of readLoop, the one that waits for the process, and Close.   *)
(*                                                                         *)
(* A request and its reply are their id; the handshake is call 1.  Timers  *)
(* may fire at any time they are running.  The child answers when it likes,*)
(* if at all: nothing is assumed of how long a tool takes.  It may leave   *)
(* processes behind that hold on to its ends of the pipes.                 *)
(***************************************************************************)
EXTENDS Naturals, Sequences

CONSTANTS
  Callers,   \* goroutines that may call a tool of this plugin
  Starter,   \* the one that starts it, and does the handshake
  MaxCalls   \* Bound: ids used by one client, the handshake's included

ASSUME CallersAssumption == Starter \in Callers
ASSUME MaxCallsAssumption == MaxCalls \in Nat

VARIABLES
  phase,      \* of the client: off, starting, ready or broken
  nextID,     \* Client.nextID
  waiting,    \* per caller, the id it waits for in call, holding Client.mu; 0 if none
  stage,      \* per id: free, asked, answered or failed, as call returned
  answer,     \* history: the id carried by the reply that answered it
  stdin,      \* requests in the pipe to the child
  stdinOpen,
  full,       \* that pipe has no room for another line
  writing,    \* the request whose line is longer than the pipe has room for; 0 if none
  stdout,     \* lines in the pipe from the child
  child,      \* the process: whether it runs, serves, and what it is handling
  heirs,      \* the pipes that processes it has started hold open
  ran,        \* history: calls whose tool the child has started
  reader,     \* readLoop: reading, delivering or done
  held,       \* the reply readLoop is delivering
  responses,  \* Client.responses, a channel for one reply
  readErr,    \* Client.readErr holds an error
  exited,     \* Client.exited is closed
  closing     \* Close: no, writing, asked, killed or done

hostVars == <<phase, nextID, waiting, stage, answer>>
pipeVars == <<stdin, stdinOpen, full, writing, stdout>>
readerVars == <<reader, held, responses, readErr, exited>>
processVars == <<child, heirs, ran>>
pluginVars == <<hostVars, pipeVars, processVars, readerVars, closing>>

Calls == 1 .. MaxCalls
Shutdown == 0  \* the notification, among the requests
Garbage == 0   \* a line that is not JSON-RPC, or too long, among the replies
Pipes == {"stdin", "stdout", "stderr"}

NoChild == [up |-> FALSE, serving |-> FALSE, at |-> 0]

PluginTypeOK ==
  /\ phase \in {"off", "starting", "ready", "broken"}
  /\ nextID \in 0 .. MaxCalls
  /\ waiting \in [Callers -> 0 .. MaxCalls]
  /\ stage \in [Calls -> {"free", "asked", "answered", "failed"}]
  /\ answer \in [Calls -> 0 .. MaxCalls]
  /\ stdin \in Seq(0 .. MaxCalls) /\ stdinOpen \in BOOLEAN /\ full \in BOOLEAN
  /\ writing \in 0 .. MaxCalls
  /\ stdout \in Seq(0 .. MaxCalls)
  /\ child \in [up : BOOLEAN, serving : BOOLEAN, at : 0 .. MaxCalls]
  /\ heirs \subseteq Pipes
  /\ ran \subseteq Calls
  /\ reader \in {"off", "reading", "delivering", "done"}
  /\ held \in 0 .. MaxCalls
  /\ responses \in Seq(Calls) /\ Len(responses) <= 1
  /\ readErr \in BOOLEAN /\ exited \in BOOLEAN
  /\ closing \in {"no", "writing", "asked", "killed", "done"}

PluginInit ==
  /\ phase = "off" /\ nextID = 0
  /\ waiting = [c \in Callers |-> 0]
  /\ stage = [i \in Calls |-> "free"]
  /\ answer = [i \in Calls |-> 0]
  /\ stdin = <<>> /\ stdinOpen = FALSE /\ full = FALSE /\ writing = 0 /\ stdout = <<>>
  /\ child = NoChild /\ heirs = {} /\ ran = {}
  /\ reader = "off" /\ held = 0 /\ responses = <<>> /\ readErr = FALSE
  /\ exited = FALSE /\ closing = "no"

\* Somebody could still read, or write, the child's end of this pipe.
Held(pipe) == child.up \/ pipe \in heirs

-----------------------------------------------------------------------------
(* The host: Start, call and what its select may see.                      *)

\* Start: the process, the pipes and the goroutines, before the handshake.
Launches ==
  /\ phase = "off"
  /\ phase' = "starting"
  /\ stdinOpen' = TRUE
  /\ child' = [NoChild EXCEPT !.up = TRUE]
  /\ reader' = "reading"
  /\ UNCHANGED <<nextID, waiting, stage, answer, stdin, full, writing, stdout, heirs, ran, held,
                 responses, readErr, exited, closing>>

\* Mutant of MutexFree: call does not lock.
MutexForgotten == TRUE

\* Nobody is in call.
MutexFree == \A c \in Callers : waiting[c] = 0

\* call, up to its select.  Writing to a pipe nobody can read any more is an error; a
\* line the pipe has no room for is written only as the child reads.  While Close is at
\* its own line, a call waits for its turn to write.
Sends(c) ==
  /\ MutexFree /\ nextID < MaxCalls /\ closing # "writing"
  /\ IF phase = "starting" THEN c = Starter /\ nextID = 0 ELSE phase = "ready"
  /\ nextID' = nextID + 1
  /\ IF stdinOpen /\ Held("stdin")
     THEN /\ \/ /\ ~full
                /\ stdin' = Append(stdin, nextID')
                /\ full' \in {b \in BOOLEAN : b => nextID > 0}
                /\ UNCHANGED writing
             \/ nextID > 0 /\ writing' = nextID' /\ UNCHANGED <<stdin, full>>
          /\ waiting' = [waiting EXCEPT ![c] = nextID']
          /\ stage' = [stage EXCEPT ![nextID'] = "asked"]
     ELSE /\ stage' = [stage EXCEPT ![nextID'] = "failed"]
          /\ UNCHANGED <<stdin, full, writing, waiting>>
  /\ UNCHANGED <<phase, answer, stdinOpen, stdout, processVars, readerVars, closing>>

Returns(c, how) ==
  /\ waiting[c] # 0
  /\ stage' = [stage EXCEPT ![waiting[c]] = how]
  /\ waiting' = [waiting EXCEPT ![c] = 0]
  /\ UNCHANGED <<phase, nextID, stdin, stdinOpen, full, stdout, processVars, reader, held,
                 exited, closing>>

\* Nobody is left who could read the rest of the line.
WriteFails(c) ==
  /\ writing # 0 /\ ~Held("stdin")
  /\ Returns(c, "failed")
  /\ writing' = 0
  /\ UNCHANGED <<answer, responses, readErr>>

\* The select of call, once the line is written.
Selects(c, how) == writing = 0 /\ Returns(c, how) /\ UNCHANGED writing

\* The time-out of the handshake or the call, or the turn is cancelled.
TimesOut(c) ==
  /\ Selects(c, "failed")
  /\ UNCHANGED <<answer, responses, readErr>>

SeesReadError(c) ==
  /\ readErr
  /\ Selects(c, "failed")
  /\ readErr' = FALSE
  /\ UNCHANGED <<answer, responses>>

SeesExit(c) ==
  /\ exited
  /\ Selects(c, "failed")
  /\ UNCHANGED <<answer, responses, readErr>>

\* Mutant of Accepted: the id of the reply is not looked at.
AcceptedUnchecked(id, reply) == TRUE

\* A reply to another call is an error of this one.  An error the child sent in
\* reply is an answer here.
Accepted(id, reply) == reply = id

TakesReply(c) ==
  /\ responses # <<>>
  /\ LET id == waiting[c]
         reply == Head(responses)
     IN  /\ Selects(c, IF Accepted(id, reply) THEN "answered" ELSE "failed")
         /\ answer' = IF Accepted(id, reply) THEN [answer EXCEPT ![id] = reply] ELSE answer
  /\ responses' = Tail(responses)
  /\ UNCHANGED readErr

\* What handshake makes of the reply: an error, an unreadable manifest and one that
\* Validate refuses all end in Close.
HandshakeEnds ==
  /\ phase = "starting" /\ MutexFree /\ nextID = 1
  /\ \/ stage[1] = "answered" /\ phase' = "ready"
     \/ phase' = "broken"
  /\ UNCHANGED <<nextID, waiting, stage, answer, pipeVars, processVars, readerVars, closing>>

-----------------------------------------------------------------------------
(* The host: readLoop and the goroutine that reaps the process.            *)

\* Mutant of PutsResponse: the channel takes any number of replies.
PutsResponseUnbounded(reply) ==
  responses' = Append(responses, reply) /\ reader' = "reading" /\ held' = 0

PutsResponse(reply) ==
  IF responses = <<>>
  THEN responses' = <<reply>> /\ reader' = "reading" /\ held' = 0
  ELSE UNCHANGED responses /\ reader' = "delivering" /\ held' = reply

ReadsLine ==
  /\ reader = "reading" /\ stdout # <<>>
  /\ stdout' = Tail(stdout)
  /\ IF Head(stdout) = Garbage
     THEN reader' = "done" /\ readErr' = TRUE /\ UNCHANGED <<held, responses>>
     ELSE PutsResponse(Head(stdout)) /\ UNCHANGED readErr
  /\ UNCHANGED <<hostVars, stdin, stdinOpen, full, writing, processVars, exited, closing>>

\* The channel has room again for the reply readLoop was stuck with.
Delivers ==
  /\ reader = "delivering" /\ responses = <<>>
  /\ PutsResponse(held)
  /\ UNCHANGED <<hostVars, pipeVars, processVars, readErr, exited, closing>>

\* The child and whoever has its stdout from it have closed it.
ReadsEOF ==
  /\ reader = "reading" /\ stdout = <<>> /\ ~Held("stdout")
  /\ reader' = "done"
  /\ UNCHANGED <<hostVars, pipeVars, processVars, held, responses, readErr, exited, closing>>

\* Wait comes after both readers are done: readLoop, and drainStderr at the end of the
\* child's stderr.
Reaps ==
  /\ reader = "done" /\ ~Held("stderr") /\ ~exited
  /\ exited' = TRUE
  /\ UNCHANGED <<hostVars, pipeVars, processVars, reader, held, responses, readErr, closing>>

-----------------------------------------------------------------------------
(* The host: Close, once.                                                  *)

CloseBegins ==
  /\ closing = "no" /\ phase \in {"ready", "broken"}
  /\ closing' = "writing"
  /\ UNCHANGED <<hostVars, pipeVars, processVars, readerVars>>

\* The shutdown line waits until a call has written its one, and for room in the pipe,
\* which no timer looks at.
CloseWrites ==
  /\ closing = "writing" /\ writing = 0
  /\ IF Held("stdin") THEN ~full /\ stdin' = Append(stdin, Shutdown) ELSE UNCHANGED stdin
  /\ closing' = "asked"
  /\ stdinOpen' = FALSE
  /\ UNCHANGED <<hostVars, full, writing, stdout, processVars, readerVars>>

\* Mutant of CloseKills: the process is left to end by itself.
CloseKillsNothing ==
  /\ closing = "asked" /\ ~exited
  /\ closing' = "killed"
  /\ UNCHANGED <<hostVars, pipeVars, processVars, readerVars>>

\* Three seconds have passed.  What the child has started is not killed.
CloseKills ==
  /\ closing = "asked" /\ ~exited
  /\ closing' = "killed"
  /\ child' = NoChild
  /\ UNCHANGED <<hostVars, pipeVars, heirs, ran, readerVars>>

CloseReturns ==
  /\ closing \in {"asked", "killed"} /\ exited
  /\ closing' = "done"
  /\ UNCHANGED <<hostVars, pipeVars, processVars, readerVars>>

-----------------------------------------------------------------------------
(* The child: Serve and handle, one request at a time.                     *)

ChildReads ==
  /\ child.up /\ child.serving /\ child.at = 0 /\ stdin # <<>>
  /\ stdin' = Tail(stdin) /\ full' = FALSE
  /\ IF Head(stdin) = Shutdown
     THEN child' = NoChild /\ UNCHANGED ran
     ELSE child' = [child EXCEPT !.at = Head(stdin)] /\ ran' = ran \cup {Head(stdin)}
  /\ UNCHANGED <<hostVars, stdinOpen, writing, stdout, heirs, readerVars, closing>>

\* The rest of a long line, which only a child that reads makes room for.
ChildReadsOn ==
  /\ child.up /\ child.serving /\ child.at = 0 /\ stdin = <<>> /\ writing # 0
  /\ stdin' = <<writing>> /\ writing' = 0
  /\ UNCHANGED <<hostVars, stdinOpen, full, stdout, processVars, readerVars, closing>>

ChildReplies ==
  /\ child.up /\ child.at # 0
  /\ stdout' = Append(stdout, child.at)
  /\ child' = [child EXCEPT !.at = 0]
  /\ UNCHANGED <<hostVars, stdin, stdinOpen, full, writing, heirs, ran, readerVars, closing>>

ChildSeesEOF ==
  /\ child.up /\ child.serving /\ child.at = 0 /\ stdin = <<>> /\ ~stdinOpen
  /\ child' = NoChild
  /\ UNCHANGED <<hostVars, pipeVars, heirs, ran, readerVars, closing>>

\* A third-party plugin prints to its stdout while it works, or what it has started does.
ChildPrints ==
  /\ child.at # 0 \/ "stdout" \in heirs
  /\ stdout' = Append(stdout, Garbage)
  /\ Garbage \notin {stdout[n] : n \in DOMAIN stdout}  \* once is enough
  /\ UNCHANGED <<hostVars, stdin, stdinOpen, full, writing, processVars, readerVars, closing>>

\* A third-party plugin starts a process that has some of its pipes.
ChildSpawns ==
  /\ child.serving /\ heirs = {}
  /\ heirs' \in SUBSET Pipes
  /\ UNCHANGED <<hostVars, pipeVars, child, ran, readerVars, closing>>

\* What it has started ends, or some of it.
HeirsEnd ==
  /\ heirs # {}
  /\ heirs' \in SUBSET heirs
  /\ UNCHANGED <<hostVars, pipeVars, child, ran, readerVars, closing>>

ChildDies ==
  /\ child.up
  /\ child' = NoChild
  /\ UNCHANGED <<hostVars, pipeVars, heirs, ran, readerVars, closing>>

-----------------------------------------------------------------------------
CallEnds(c) ==
  \/ WriteFails(c)
  \/ TimesOut(c)
  \/ SeesReadError(c)
  \/ SeesExit(c)
  \/ TakesReply(c)

CallerStep(c) == Sends(c) \/ CallEnds(c)

ReaderStep == ReadsLine \/ Delivers \/ ReadsEOF \/ Reaps

CloseStep == CloseWrites \/ CloseKills \/ CloseReturns

\* Goroutines are scheduled, the one that is in call among them, contexts with a deadline
\* end, and so does Close's timer.
\* Nothing is assumed of the child and of what it starts.
PluginFairness ==
  /\ WF_pluginVars(\E c \in Callers : CallEnds(c))
  /\ WF_pluginVars(ReaderStep)
  /\ WF_pluginVars(CloseStep)
=============================================================================
