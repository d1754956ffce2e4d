------------------------------ MODULE AcpSessions ------------------------------
(***************************************************************************)
(* internal/acp: an editor drives the agent over one stream.  Serve reads  *)
(* it in order and handles everything inline but prompts, each of which    *)
(* runs in a goroutine of its own.  A session is a name in Server.sessions *)
(* and, while a prompt of it runs, a function in Server.cancels.           *)
(***************************************************************************)
EXTENDS Naturals

CONSTANTS
  Prompts,   \* requests the editor may send
  Sessions,
  NoPrompt   \* no cancel function is registered

ASSUME NoPromptAssumption == NoPrompt \notin Prompts
ASSUME SessionsAssumption == Sessions # {}

VARIABLES
  sessions,  \* Server.sessions
  cancels,   \* Server.cancels: the prompt whose context a session's cancel ends
  prompt,    \* per prompt: the session it names, where its goroutine is, its context
  crowded,   \* history: prompts sent while another of their session was unanswered
  asked,     \* history: prompts for whose session a cancel was read while they ran
  serving    \* Serve: reading, draining or returned

acpVars == <<sessions, cancels, prompt, crowded, asked, serving>>

Unsent == [at |-> "unsent", session |-> CHOOSE s \in Sessions : TRUE, cancelled |-> FALSE,
           outcome |-> "none"]

AcpTypeOK ==
  /\ sessions \subseteq Sessions
  /\ cancels \in [Sessions -> Prompts \cup {NoPrompt}]
  /\ prompt \in [Prompts ->
       [at : {"unsent", "read", "known", "running", "reporting", "ended", "settled", "replied"},
        session : Sessions, cancelled : BOOLEAN,
        outcome : {"none", "end_turn", "cancelled", "error"}]]
  /\ crowded \subseteq Prompts /\ asked \subseteq Prompts
  /\ serving \in {"reading", "draining", "returned"}

AcpInit ==
  /\ sessions = {}
  /\ cancels = [s \in Sessions |-> NoPrompt]
  /\ prompt = [p \in Prompts |-> Unsent]
  /\ crowded = {} /\ asked = {}
  /\ serving = "reading"

-----------------------------------------------------------------------------
(* Serve and dispatch: one line of the stream after the other.             *)

\* newSession.  checkWorkspace refuses another directory, and then nothing changes.
ReadsNewSession(s) ==
  /\ serving = "reading"
  /\ sessions' = sessions \cup {s}
  /\ UNCHANGED <<cancels, prompt, crowded, asked, serving>>

Unanswered(s) == {q \in Prompts : prompt[q].session = s /\ prompt[q].at \notin {"unsent", "replied"}}

\* Between Registers and Unregisters.
Registered(p) == prompt[p].at \in {"running", "reporting", "ended"}

ReadsPrompt(p, s) ==
  /\ serving = "reading" /\ prompt[p].at = "unsent"
  /\ prompt' = [prompt EXCEPT ![p] = [Unsent EXCEPT !.at = "read", !.session = s]]
  /\ crowded' = IF Unanswered(s) = {} THEN crowded ELSE crowded \cup Unanswered(s) \cup {p}
  /\ UNCHANGED <<sessions, cancels, asked, serving>>

\* cancel: it does nothing when nothing is registered.
ReadsCancel(s) ==
  /\ serving = "reading"
  /\ prompt' = [p \in Prompts |-> IF p = cancels[s] THEN [prompt[p] EXCEPT !.cancelled = TRUE]
                                                    ELSE prompt[p]]
  /\ asked' = asked \cup {p \in Prompts : prompt[p].session = s /\ Registered(p)}
  /\ UNCHANGED <<sessions, cancels, crowded, serving>>

ReadsEOF ==
  /\ serving = "reading"
  /\ serving' = "draining"
  /\ UNCHANGED <<sessions, cancels, prompt, crowded, asked>>

\* inflight.Wait is over.
Returns ==
  /\ serving = "draining"
  /\ \A p \in Prompts : prompt[p].at \in {"unsent", "replied"}
  /\ serving' = "returned"
  /\ UNCHANGED <<sessions, cancels, prompt, crowded, asked>>

-----------------------------------------------------------------------------
(* The goroutine of a prompt.                                              *)

Goes(p, from, to) ==
  /\ prompt[p].at = from
  /\ prompt' = [prompt EXCEPT ![p].at = to]
  /\ UNCHANGED <<sessions, crowded, asked, serving>>

Ends(p, from, to, outcome) ==
  /\ prompt[p].at = from
  /\ prompt' = [prompt EXCEPT ![p].at = to, ![p].outcome = outcome]
  /\ UNCHANGED <<sessions, cancels, crowded, asked, serving>>

\* An unknown session, or a prompt with no text in it, is an error before anything runs.
ChecksSession(p) ==
  \/ prompt[p].session \in sessions /\ Goes(p, "read", "known") /\ UNCHANGED cancels
  \/ Ends(p, "read", "settled", "error")

Registers(p) ==
  /\ Goes(p, "known", "running")
  /\ cancels' = [cancels EXCEPT ![prompt[p].session] = p]

\* Runner.Run.  An error of a run whose context was cancelled is what the editor asked
\* for; the run may also have come to its end regardless.
RunEnds(p) ==
  \/ Ends(p, "running", "reporting", "end_turn")
  \/ Ends(p, "running", "ended", IF prompt[p].cancelled THEN "cancelled" ELSE "error")

\* reportToolCalls and notifyMessage.
Reports(p) ==
  /\ Goes(p, "reporting", "ended")
  /\ UNCHANGED cancels

\* The deferred function of prompt.
Unregisters(p) ==
  /\ Goes(p, "ended", "settled")
  /\ cancels' = [cancels EXCEPT ![prompt[p].session] = NoPrompt]

Replies(p) ==
  /\ Goes(p, "settled", "replied")
  /\ UNCHANGED cancels

\* Mutant of Settles: the reply is written and the function is deleted after it.
RepliesFirst(p) ==
  \/ Goes(p, "ended", "replied") /\ UNCHANGED cancels
  \/ /\ prompt[p].at = "replied" /\ cancels[prompt[p].session] # NoPrompt
     /\ cancels' = [cancels EXCEPT ![prompt[p].session] = NoPrompt]
     /\ UNCHANGED <<sessions, prompt, crowded, asked, serving>>
  \/ prompt[p].at = "settled" /\ Replies(p)

\* What follows the result of a prompt.
Settles(p) == Unregisters(p) \/ Replies(p)

PromptStep(p) == ChecksSession(p) \/ Registers(p) \/ RunEnds(p) \/ Reports(p) \/ Settles(p)

AcpNext ==
  \/ \E s \in Sessions : ReadsNewSession(s) \/ ReadsCancel(s) \/ \E p \in Prompts : ReadsPrompt(p, s)
  \/ ReadsEOF \/ Returns
  \/ \E p \in Prompts : PromptStep(p)

AcpSpec == AcpInit /\ [][AcpNext]_acpVars

-----------------------------------------------------------------------------
\* An editor that awaits the answer to a session's prompt before it sends the next one
\* can cancel each of them from when it runs until it has ended; no prompt is cancelled
\* but by a cancel of its session that was read while it ran, overlapping or not; and a
\* prompt that is answered `cancelled' was.  A second prompt sent meanwhile may take the
\* function over, or lose it with the first one's end (Server.cancels).
EditorCanCancel ==
  \A p \in Prompts :
    /\ Registered(p) /\ p \notin crowded
         => cancels[prompt[p].session] = p /\ (p \in asked => prompt[p].cancelled)
    /\ prompt[p].cancelled => p \in asked
    /\ prompt[p].outcome = "cancelled" => prompt[p].cancelled
=============================================================================
