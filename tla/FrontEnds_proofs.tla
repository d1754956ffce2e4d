-------------------------- MODULE FrontEnds_proofs ---------------------------
(***************************************************************************)
(* Proofs about the front ends: what an editor can cancel, the limits of   *)
(* the HTTP server, and the updates and the pairing of the Telegram bot,   *)
(* for any number of sessions, prompts, requests, clients, updates, users  *)
(* and codes.                                                              *)
(***************************************************************************)
EXTENDS MCFrontEnds, FiniteSetTheorems, TLAPS

-----------------------------------------------------------------------------
(* The sessions of an editor.                                              *)

\* Its goroutine is at work, or about to be (dispatch).
Open(p) == prompt[p].at \notin {"unsent", "replied"}

\* Two prompts of a session that are both unanswered have crowded each other.
Apart ==
  \A p, q \in Prompts :
    Open(p) /\ Open(q) /\ p # q /\ prompt[p].session = prompt[q].session => p \in crowded

\* A function in Server.cancels is that of a prompt of the session, which runs.
CancelsAreLive ==
  \A s \in Sessions : cancels[s] # NoPrompt =>
    cancels[s] \in Prompts /\ prompt[cancels[s]].session = s /\ Registered(cancels[s])

\* A cancel is remembered of prompts that have begun to run only.
AskedHaveRun ==
  \A p \in asked : prompt[p].at \in {"running", "reporting", "ended", "settled", "replied"}

\* A prompt nobody has sent is as it was.
UnsentAreBlank ==
  \A p \in Prompts : prompt[p].at = "unsent" =>
    ~prompt[p].cancelled /\ prompt[p].outcome # "cancelled"

\* The strengthening of EditorCanCancel that every step preserves.
SessionInv ==
  AcpTypeOK /\ Apart /\ CancelsAreLive /\ AskedHaveRun /\ UnsentAreBlank /\ EditorCanCancel

\* Nothing is registered, read or asked for at the start (NewServer).
LEMMA SessionsBegin == AcpInit => SessionInv
<1> SUFFICES ASSUME AcpInit PROVE SessionInv
  OBVIOUS
<1>1. Unsent.session \in Sessions
  BY SessionsAssumption DEF Unsent
<1>2. \A p \in Prompts : prompt[p] = Unsent
  BY DEF AcpInit
<1>3. /\ Unsent.at = "unsent" /\ Unsent.cancelled = FALSE /\ Unsent.outcome = "none"
  BY DEF Unsent
<1>4. AcpTypeOK
  <2>1. Unsent \in [at : {"unsent", "read", "known", "running", "reporting", "ended", "settled",
                          "replied"},
                    session : Sessions, cancelled : BOOLEAN,
                    outcome : {"none", "end_turn", "cancelled", "error"}]
    BY SessionsAssumption DEF Unsent
  <2> QED
    BY <2>1 DEF AcpInit, AcpTypeOK
<1> QED
  BY <1>2, <1>3, <1>4
  DEF AcpInit, SessionInv, Apart, Open, CancelsAreLive, AskedHaveRun, UnsentAreBlank,
      EditorCanCancel, Registered

\* What a goroutine has done when it stays registered, or stays unregistered.
Steady(p) ==
  /\ AcpTypeOK'
  /\ prompt[p].at \in {"read", "running", "reporting"}
  /\ prompt'[p].at \notin {"unsent", "replied"}
  /\ Registered(p)' <=> Registered(p)
  /\ prompt'[p].session = prompt[p].session
  /\ prompt'[p].cancelled = prompt[p].cancelled
  /\ \/ prompt'[p].outcome \in {prompt[p].outcome, "end_turn", "error"}
     \/ prompt'[p].outcome = "cancelled" /\ prompt[p].cancelled
  /\ \A q \in Prompts : q # p => prompt'[q] = prompt[q]
  /\ UNCHANGED <<cancels, crowded, asked>>

\* A goroutine that neither registers, unregisters nor replies disturbs nothing, if it
\* says `cancelled' only of a run whose context was (Server.prompt).
LEMMA GoroutineGoesOn ==
  ASSUME SessionInv, NEW p \in Prompts, Steady(p)
  PROVE  SessionInv'
<1> USE DEF Steady
<1>1. \A q \in Prompts : /\ Open(q)' <=> Open(q)
                         /\ Registered(q)' <=> Registered(q)
                         /\ prompt'[q].session = prompt[q].session
                         /\ prompt'[q].cancelled = prompt[q].cancelled
  BY DEF Open, Registered
<1>2. Apart'
  BY <1>1 DEF SessionInv, Apart
<1>3. CancelsAreLive'
  BY <1>1 DEF SessionInv, CancelsAreLive
<1>4. AskedHaveRun'
  <2>1. asked \subseteq Prompts
    BY DEF SessionInv, AcpTypeOK
  <2>2. p \in asked => Registered(p)
    BY DEF SessionInv, AskedHaveRun, Registered
  <2> QED
    BY <2>1, <2>2 DEF SessionInv, AskedHaveRun, Registered
<1>5. UnsentAreBlank'
  BY DEF SessionInv, UnsentAreBlank
<1>6. EditorCanCancel'
  <2>1. \A q \in Prompts : prompt'[q].outcome = "cancelled" => prompt[q].cancelled
    BY DEF SessionInv, EditorCanCancel
  <2> QED
    BY <1>1, <2>1 DEF SessionInv, EditorCanCancel
<1> QED
  BY <1>2, <1>3, <1>4, <1>5, <1>6 DEF SessionInv

\* What a goroutine that moves does to the prompts.
LEMMA GoesMoves ==
  ASSUME AcpTypeOK, NEW p \in Prompts, NEW leaves,
         NEW to \in {"known", "running", "reporting", "ended", "settled", "replied"},
         Goes(p, leaves, to), cancels' \in [Sessions -> Prompts \cup {NoPrompt}]
  PROVE  /\ AcpTypeOK'
         /\ prompt[p].at = leaves
         /\ prompt'[p] = [prompt[p] EXCEPT !.at = to]
         /\ \A q \in Prompts : q # p => prompt'[q] = prompt[q]
         /\ UNCHANGED <<crowded, asked>>
  BY DEF Goes, AcpTypeOK

\* Every line of the stream (Serve, dispatch), by what it may read.
LEMMA PromptIsRead ==
  ASSUME SessionInv, NEW p \in Prompts, NEW s \in Sessions, ReadsPrompt(p, s)
  PROVE  SessionInv'
<1>1. /\ AcpTypeOK
      /\ prompt[p].at = "unsent"
      /\ prompt' = [prompt EXCEPT ![p] = [Unsent EXCEPT !.at = "read", !.session = s]]
      /\ UNCHANGED <<sessions, cancels, asked, serving>>
  BY DEF SessionInv, ReadsPrompt
<1>2. /\ prompt'[p].at = "read" /\ prompt'[p].session = s
      /\ prompt'[p].cancelled = FALSE /\ prompt'[p].outcome = "none"
      /\ \A q \in Prompts : q # p => prompt'[q] = prompt[q]
  BY <1>1 DEF AcpTypeOK, Unsent
<1>3. /\ crowded \subseteq crowded'
      /\ \A q \in Prompts : Open(q) /\ prompt[q].session = s => q \in crowded' /\ p \in crowded'
  BY DEF ReadsPrompt, Unanswered, Open
<1>4. AcpTypeOK'
  <2>1. [Unsent EXCEPT !.at = "read", !.session = s]
          \in [at : {"unsent", "read", "known", "running", "reporting", "ended", "settled",
                     "replied"},
               session : Sessions, cancelled : BOOLEAN,
               outcome : {"none", "end_turn", "cancelled", "error"}]
    BY DEF Unsent
  <2>2. crowded' \subseteq Prompts
    BY <1>1 DEF ReadsPrompt, Unanswered, AcpTypeOK
  <2> QED
    BY <1>1, <2>1, <2>2 DEF AcpTypeOK
<1>5. Apart'
  BY <1>1, <1>2, <1>3 DEF SessionInv, Apart, Open
<1>6. CancelsAreLive'
  BY <1>1, <1>2 DEF SessionInv, CancelsAreLive, Registered
<1>7. p \notin asked /\ asked \subseteq Prompts
  BY <1>1 DEF SessionInv, AskedHaveRun, AcpTypeOK
<1>8. AskedHaveRun' /\ UnsentAreBlank'
  BY <1>1, <1>2, <1>7 DEF SessionInv, AskedHaveRun, UnsentAreBlank
<1>9. EditorCanCancel'
  BY <1>1, <1>2, <1>3, <1>7 DEF SessionInv, EditorCanCancel, Registered
<1> QED
  BY <1>4, <1>5, <1>6, <1>8, <1>9 DEF SessionInv

LEMMA CancelIsRead ==
  ASSUME SessionInv, NEW s \in Sessions, ReadsCancel(s)
  PROVE  SessionInv'
<1>1. /\ AcpTypeOK
      /\ prompt' = [p \in Prompts |-> IF p = cancels[s] THEN [prompt[p] EXCEPT !.cancelled = TRUE]
                                                       ELSE prompt[p]]
      /\ asked' = asked \cup {p \in Prompts : prompt[p].session = s /\ Registered(p)}
      /\ UNCHANGED <<sessions, cancels, crowded, serving>>
  BY DEF SessionInv, ReadsCancel
<1>2. \A p \in Prompts :
        /\ prompt'[p].at = prompt[p].at
        /\ prompt'[p].session = prompt[p].session
        /\ prompt'[p].outcome = prompt[p].outcome
        /\ p # cancels[s] => prompt'[p] = prompt[p]
        /\ prompt[p].cancelled => prompt'[p].cancelled
        /\ p = cancels[s] => prompt'[p].cancelled
  BY <1>1 DEF AcpTypeOK
<1>3. \A p \in Prompts : p = cancels[s] =>
        prompt[p].session = s /\ Registered(p) /\ p \in asked'
  BY <1>1, NoPromptAssumption DEF SessionInv, CancelsAreLive
<1>4. AcpTypeOK'
  BY <1>1, ZenonT(60) DEF AcpTypeOK
<1>5. Apart' /\ CancelsAreLive'
  BY <1>1, <1>2 DEF SessionInv, Apart, Open, CancelsAreLive, Registered
<1>6. AskedHaveRun'
  BY <1>1, <1>2 DEF SessionInv, AskedHaveRun, Registered, AcpTypeOK
<1>7. UnsentAreBlank'
  BY <1>2, <1>3 DEF SessionInv, UnsentAreBlank, Registered
<1>8. EditorCanCancel'
  <2>1. ASSUME NEW p \in Prompts, Registered(p)', p \notin crowded'
        PROVE  cancels'[prompt'[p].session] = p /\ (p \in asked' => prompt'[p].cancelled)
    BY <1>1, <1>2, <2>1 DEF SessionInv, EditorCanCancel, Registered
  <2>2. ASSUME NEW p \in Prompts, prompt'[p].cancelled PROVE p \in asked'
    BY <1>1, <1>2, <1>3, <2>2 DEF SessionInv, EditorCanCancel
  <2>3. \A p \in Prompts : prompt'[p].outcome = "cancelled" => prompt'[p].cancelled
    BY <1>2 DEF SessionInv, EditorCanCancel
  <2> QED
    BY <2>1, <2>2, <2>3 DEF EditorCanCancel
<1> QED
  BY <1>4, <1>5, <1>6, <1>7, <1>8 DEF SessionInv

\* Nothing of prompts changes with a session, the end of the stream or Serve's return.
LEMMA ServeGoesOn ==
  ASSUME SessionInv,
         (\E s \in Sessions : ReadsNewSession(s)) \/ ReadsEOF \/ Returns \/ UNCHANGED acpVars
  PROVE  SessionInv'
<1>1. UNCHANGED <<cancels, prompt, crowded, asked>> /\ AcpTypeOK'
  BY DEF SessionInv, AcpTypeOK, ReadsNewSession, ReadsEOF, Returns, acpVars
<1> QED
  BY <1>1 DEF SessionInv, Apart, Open, CancelsAreLive, AskedHaveRun, UnsentAreBlank,
              EditorCanCancel, Registered

\* The goroutine's steps before and during the run (Server.prompt).
LEMMA RunGoesOn ==
  ASSUME SessionInv, NEW p \in Prompts, ChecksSession(p) \/ RunEnds(p) \/ Reports(p)
  PROVE  SessionInv'
<1>1. AcpTypeOK /\ cancels \in [Sessions -> Prompts \cup {NoPrompt}]
      /\ prompt[p] \in [at : {"unsent", "read", "known", "running", "reporting", "ended", "settled",
                             "replied"},
                       session : Sessions, cancelled : BOOLEAN,
                       outcome : {"none", "end_turn", "cancelled", "error"}]
  BY DEF SessionInv, AcpTypeOK
<1>2. ASSUME Goes(p, "read", "known"), UNCHANGED cancels PROVE Steady(p)
  <2>1. /\ AcpTypeOK' /\ prompt[p].at = "read"
        /\ prompt'[p] = [prompt[p] EXCEPT !.at = "known"]
        /\ \A q \in Prompts : q # p => prompt'[q] = prompt[q]
        /\ UNCHANGED <<crowded, asked>>
    BY <1>1, <1>2, GoesMoves
  <2> QED
    BY <1>1, <1>2, <2>1 DEF Steady, Registered
<1>3. ASSUME Goes(p, "reporting", "ended"), UNCHANGED cancels PROVE Steady(p)
  <2>1. /\ AcpTypeOK' /\ prompt[p].at = "reporting"
        /\ prompt'[p] = [prompt[p] EXCEPT !.at = "ended"]
        /\ \A q \in Prompts : q # p => prompt'[q] = prompt[q]
        /\ UNCHANGED <<crowded, asked>>
    BY <1>1, <1>3, GoesMoves
  <2> QED
    BY <1>1, <1>3, <2>1 DEF Steady, Registered
<1>4. ASSUME NEW leaves \in {"read", "running"}, NEW to \in {"reporting", "ended", "settled"},
             NEW outcome \in {"end_turn", "cancelled", "error"}, Ends(p, leaves, to, outcome),
             leaves = "read" <=> to = "settled",
             outcome = "cancelled" => prompt[p].cancelled
      PROVE  Steady(p)
  <2>1. /\ AcpTypeOK' /\ prompt[p].at = leaves
        /\ prompt'[p] = [prompt[p] EXCEPT !.at = to, !.outcome = outcome]
        /\ \A q \in Prompts : q # p => prompt'[q] = prompt[q]
        /\ UNCHANGED <<cancels, crowded, asked>>
    BY <1>1, <1>4 DEF Ends, AcpTypeOK
  <2> QED
    BY <1>1, <1>4, <2>1 DEF Steady, Registered
<1>5. ASSUME Ends(p, "read", "settled", "error") PROVE Steady(p)
  BY <1>4, <1>5
<1>6. ASSUME Ends(p, "running", "reporting", "end_turn") PROVE Steady(p)
  BY <1>4, <1>6
<1>7. ASSUME Ends(p, "running", "ended", IF prompt[p].cancelled THEN "cancelled" ELSE "error")
      PROVE  Steady(p)
  <2> DEFINE outcome == IF prompt[p].cancelled THEN "cancelled" ELSE "error"
  <2>1. /\ outcome \in {"end_turn", "cancelled", "error"}
        /\ outcome = "cancelled" => prompt[p].cancelled
    OBVIOUS
  <2>2. Ends(p, "running", "ended", outcome)
    BY <1>7
  <2> HIDE DEF outcome
  <2> QED
    BY <1>4, <2>1, <2>2
<1>8. Steady(p)
  BY <1>2, <1>3, <1>5, <1>6, <1>7 DEF ChecksSession, RunEnds, Reports
<1> QED
  BY <1>8, GoroutineGoesOn

\* What the last steps of a goroutine, and its first as a running prompt, keep whatever
\* they do to the cancel functions.
LEMMA MovesWell ==
  ASSUME SessionInv, NEW p \in Prompts, NEW leaves,
         NEW to \in {"running", "settled", "replied"}, Goes(p, leaves, to),
         leaves \in {"known", "ended", "settled"}, leaves = "known" <=> to = "running",
         cancels' \in [Sessions -> Prompts \cup {NoPrompt}]
  PROVE  /\ AcpTypeOK' /\ Apart' /\ AskedHaveRun' /\ UnsentAreBlank'
         /\ prompt[p].at = leaves /\ prompt'[p].at = to
         /\ \A q \in Prompts : /\ q # p => prompt'[q].at = prompt[q].at
                               /\ prompt'[q].session = prompt[q].session
                               /\ prompt'[q].cancelled = prompt[q].cancelled
                               /\ prompt'[q].outcome = prompt[q].outcome
         /\ UNCHANGED <<crowded, asked>>
         /\ to = "running" => p \notin asked
<1>1. AcpTypeOK
  BY DEF SessionInv
<1>2. /\ AcpTypeOK' /\ prompt[p].at = leaves
      /\ prompt'[p] = [prompt[p] EXCEPT !.at = to]
      /\ \A q \in Prompts : q # p => prompt'[q] = prompt[q]
      /\ UNCHANGED <<crowded, asked>>
  BY <1>1, GoesMoves, ZenonT(60)
<1>3. /\ prompt'[p].at = to /\ prompt'[p].session = prompt[p].session
      /\ prompt'[p].cancelled = prompt[p].cancelled /\ prompt'[p].outcome = prompt[p].outcome
  BY <1>1, <1>2 DEF AcpTypeOK
<1>4. \A q \in Prompts : /\ q # p => prompt'[q].at = prompt[q].at
                         /\ prompt'[q].session = prompt[q].session
                         /\ prompt'[q].cancelled = prompt[q].cancelled
                         /\ prompt'[q].outcome = prompt[q].outcome
  BY <1>2, <1>3
<1>5. \A q \in Prompts : Open(q)' => Open(q)
  BY <1>2, <1>3, <1>4 DEF Open
<1>6. Apart'
  BY <1>2, <1>4, <1>5 DEF SessionInv, Apart
<1>7. asked \subseteq Prompts /\ (to = "running" => p \notin asked)
  BY <1>1, <1>2 DEF SessionInv, AskedHaveRun, AcpTypeOK
<1>8. AskedHaveRun'
  BY <1>2, <1>3, <1>4, <1>7 DEF SessionInv, AskedHaveRun
<1>9. UnsentAreBlank'
  BY <1>3, <1>4 DEF SessionInv, UnsentAreBlank
<1> QED
  BY <1>2, <1>3, <1>4, <1>6, <1>7, <1>8, <1>9

\* The second and third parts of EditorCanCancel are about what MovesWell keeps.
LEMMA AnswersStand ==
  ASSUME SessionInv, UNCHANGED <<crowded, asked>>,
         \A q \in Prompts : /\ prompt'[q].session = prompt[q].session
                            /\ prompt'[q].cancelled = prompt[q].cancelled
                            /\ prompt'[q].outcome = prompt[q].outcome,
         \A q \in Prompts : Registered(q)' /\ q \notin crowded
           => cancels'[prompt[q].session] = q /\ (q \in asked => prompt[q].cancelled)
  PROVE  EditorCanCancel'
<1>1. ASSUME NEW q \in Prompts, Registered(q)', q \notin crowded'
      PROVE  cancels'[prompt'[q].session] = q /\ (q \in asked' => prompt'[q].cancelled)
  BY <1>1
<1>2. ASSUME NEW q \in Prompts, prompt'[q].cancelled PROVE q \in asked'
  BY <1>2 DEF SessionInv, EditorCanCancel
<1>3. ASSUME NEW q \in Prompts, prompt'[q].outcome = "cancelled" PROVE prompt'[q].cancelled
  BY <1>3 DEF SessionInv, EditorCanCancel
<1> QED
  BY <1>1, <1>2, <1>3 DEF EditorCanCancel

\* No other prompt of the session that is not crowded is registered.
LEMMA OnlyOneIsRegistered ==
  ASSUME SessionInv, NEW p \in Prompts, Open(p), NEW q \in Prompts, q # p,
         Registered(q), q \notin crowded
  PROVE  prompt[q].session # prompt[p].session
  BY DEF SessionInv, Apart, Open, Registered

\* Registering takes the session's function over, from a prompt that was crowded by it.
LEMMA RegistersWell ==
  ASSUME SessionInv, NEW p \in Prompts, Registers(p)
  PROVE  SessionInv'
<1>1. AcpTypeOK /\ prompt[p].session \in Sessions /\ Goes(p, "known", "running")
      /\ cancels' = [cancels EXCEPT ![prompt[p].session] = p]
      /\ cancels' \in [Sessions -> Prompts \cup {NoPrompt}]
  BY DEF SessionInv, AcpTypeOK, Registers
<1>2. /\ AcpTypeOK' /\ Apart' /\ AskedHaveRun' /\ UnsentAreBlank'
      /\ prompt[p].at = "known" /\ prompt'[p].at = "running"
      /\ \A q \in Prompts : /\ q # p => prompt'[q].at = prompt[q].at
                            /\ prompt'[q].session = prompt[q].session
                            /\ prompt'[q].cancelled = prompt[q].cancelled
                            /\ prompt'[q].outcome = prompt[q].outcome
      /\ UNCHANGED <<crowded, asked>>
      /\ p \notin asked
  BY <1>1, MovesWell
<1>3. \A q \in Prompts : /\ q # p => (Registered(q)' <=> Registered(q))
                         /\ Registered(p)' /\ ~Registered(p)
  BY <1>2 DEF Registered
<1>4. \A s \in Sessions : cancels'[s] = IF s = prompt[p].session THEN p ELSE cancels[s]
  BY <1>1 DEF AcpTypeOK
<1>5. CancelsAreLive'
  <2>1. ASSUME NEW s \in Sessions, cancels'[s] # NoPrompt
        PROVE  cancels'[s] \in Prompts /\ prompt'[cancels'[s]].session = s
               /\ prompt'[cancels'[s]].at \in {"running", "reporting", "ended"}
    <3>1. CASE s = prompt[p].session
      BY <1>2, <1>3, <1>4, <3>1 DEF Registered
    <3>2. CASE s # prompt[p].session
      <4>1. /\ cancels'[s] = cancels[s] /\ cancels[s] \in Prompts
            /\ prompt[cancels[s]].session = s /\ Registered(cancels[s])
        BY <1>4, <2>1, <3>2 DEF SessionInv, CancelsAreLive
      <4>2. cancels[s] # p
        BY <1>3, <4>1
      <4> QED
        BY <1>2, <4>1, <4>2 DEF Registered
    <3> QED
      BY <3>1, <3>2
  <2> QED
    BY <2>1 DEF CancelsAreLive, Registered
<1>6. ASSUME NEW q \in Prompts, Registered(q)', q \notin crowded
      PROVE  cancels'[prompt[q].session] = q /\ (q \in asked => prompt[q].cancelled)
  <2>1. CASE q = p
    BY <1>1, <1>2, <1>4, <2>1
  <2>2. CASE q # p
    <3>1. Registered(q) /\ prompt[q].session \in Sessions
      BY <1>1, <1>3, <1>6, <2>2 DEF AcpTypeOK
    <3>2. prompt[q].session # prompt[p].session
      BY <1>2, <1>6, <2>2, <3>1, OnlyOneIsRegistered DEF Open
    <3> QED
      BY <1>4, <1>6, <3>1, <3>2 DEF SessionInv, EditorCanCancel
  <2> QED
    BY <2>1, <2>2
<1>7. EditorCanCancel'
  BY <1>2, <1>6, AnswersStand
<1> QED
  BY <1>2, <1>5, <1>7 DEF SessionInv

\* The deferred function clears the session's entry, and only prompts it crowded miss it.
LEMMA UnregistersWell ==
  ASSUME SessionInv, NEW p \in Prompts, Unregisters(p)
  PROVE  SessionInv'
<1>1. AcpTypeOK /\ prompt[p].session \in Sessions /\ Goes(p, "ended", "settled")
      /\ cancels' = [cancels EXCEPT ![prompt[p].session] = NoPrompt]
      /\ cancels' \in [Sessions -> Prompts \cup {NoPrompt}]
  BY DEF SessionInv, AcpTypeOK, Unregisters
<1>2. /\ AcpTypeOK' /\ Apart' /\ AskedHaveRun' /\ UnsentAreBlank'
      /\ prompt[p].at = "ended" /\ prompt'[p].at = "settled"
      /\ \A q \in Prompts : /\ q # p => prompt'[q].at = prompt[q].at
                            /\ prompt'[q].session = prompt[q].session
                            /\ prompt'[q].cancelled = prompt[q].cancelled
                            /\ prompt'[q].outcome = prompt[q].outcome
      /\ UNCHANGED <<crowded, asked>>
  BY <1>1, MovesWell
<1>3. \A q \in Prompts : (Registered(q)' <=> Registered(q) /\ q # p)
  BY <1>2 DEF Registered
<1>4. \A s \in Sessions : cancels'[s] = IF s = prompt[p].session THEN NoPrompt ELSE cancels[s]
  BY <1>1 DEF AcpTypeOK
<1>5. CancelsAreLive'
  <2>1. ASSUME NEW s \in Sessions, cancels'[s] # NoPrompt
        PROVE  cancels'[s] \in Prompts /\ prompt'[cancels'[s]].session = s
               /\ prompt'[cancels'[s]].at \in {"running", "reporting", "ended"}
    <3>1. /\ s # prompt[p].session /\ cancels'[s] = cancels[s] /\ cancels[s] \in Prompts
          /\ prompt[cancels[s]].session = s /\ Registered(cancels[s])
      BY <1>4, <2>1 DEF SessionInv, CancelsAreLive
    <3>2. cancels[s] # p
      BY <3>1
    <3> QED
      BY <1>2, <3>1, <3>2 DEF Registered
  <2> QED
    BY <2>1 DEF CancelsAreLive, Registered
<1>6. ASSUME NEW q \in Prompts, Registered(q)', q \notin crowded
      PROVE  cancels'[prompt[q].session] = q /\ (q \in asked => prompt[q].cancelled)
  <2>1. Registered(q) /\ q # p /\ prompt[q].session \in Sessions
    BY <1>1, <1>3, <1>6 DEF AcpTypeOK
  <2>2. prompt[q].session # prompt[p].session
    BY <1>2, <1>6, <2>1, OnlyOneIsRegistered DEF Open
  <2> QED
    BY <1>4, <1>6, <2>1, <2>2 DEF SessionInv, EditorCanCancel
<1>7. EditorCanCancel'
  BY <1>2, <1>6, AnswersStand
<1> QED
  BY <1>2, <1>5, <1>7 DEF SessionInv

LEMMA RepliesWell ==
  ASSUME SessionInv, NEW p \in Prompts, Replies(p)
  PROVE  SessionInv'
<1>1. Goes(p, "settled", "replied") /\ cancels' = cancels
      /\ cancels' \in [Sessions -> Prompts \cup {NoPrompt}]
  BY DEF SessionInv, AcpTypeOK, Replies
<1>2. /\ AcpTypeOK' /\ Apart' /\ AskedHaveRun' /\ UnsentAreBlank'
      /\ prompt[p].at = "settled" /\ prompt'[p].at = "replied"
      /\ \A q \in Prompts : /\ q # p => prompt'[q].at = prompt[q].at
                            /\ prompt'[q].session = prompt[q].session
                            /\ prompt'[q].cancelled = prompt[q].cancelled
                            /\ prompt'[q].outcome = prompt[q].outcome
      /\ UNCHANGED <<crowded, asked>>
  BY <1>1, MovesWell
<1>3. \A q \in Prompts : (Registered(q)' <=> Registered(q))
  BY <1>2 DEF Registered
<1>4. CancelsAreLive'
  BY <1>1, <1>2, <1>3 DEF SessionInv, CancelsAreLive
<1>5. \A q \in Prompts : Registered(q)' /\ q \notin crowded
        => cancels'[prompt[q].session] = q /\ (q \in asked => prompt[q].cancelled)
  BY <1>1, <1>3 DEF SessionInv, EditorCanCancel
<1>6. EditorCanCancel'
  BY <1>2, <1>5, AnswersStand
<1> QED
  BY <1>2, <1>4, <1>6 DEF SessionInv

\* Every line that is read and every step of a goroutine (Serve, dispatch, prompt).
LEMMA SessionsGoOn == SessionInv /\ [AcpNext]_acpVars => SessionInv'
<1> SUFFICES ASSUME SessionInv, [AcpNext]_acpVars PROVE SessionInv'
  OBVIOUS
<1>1. CASE \E s \in Sessions : ReadsNewSession(s)
  BY <1>1, ServeGoesOn
<1>2. CASE \E s \in Sessions : ReadsCancel(s)
  BY <1>2, CancelIsRead
<1>3. CASE \E s \in Sessions : \E p \in Prompts : ReadsPrompt(p, s)
  BY <1>3, PromptIsRead
<1>4. CASE ReadsEOF \/ Returns \/ UNCHANGED acpVars
  BY <1>4, ServeGoesOn
<1>5. CASE \E p \in Prompts : PromptStep(p)
  BY <1>5, RunGoesOn, RegistersWell, UnregistersWell, RepliesWell DEF PromptStep, Settles
<1> QED
  BY <1>1, <1>2, <1>3, <1>4, <1>5 DEF AcpNext

\* An editor that awaits each answer can cancel every prompt while it runs, and only
\* its own cancels do: for any number of sessions and prompts (Server.cancels).
THEOREM EditorsCanCancel == AcpSpec => []EditorCanCancel
<1>1. SessionInv => EditorCanCancel
  BY DEF SessionInv
<1> QED
  BY SessionsBegin, SessionsGoOn, <1>1, PTL DEF AcpSpec

-----------------------------------------------------------------------------
(* The bot's updates.                                                      *)

\* All updates below this have been handled, with a live context or in a batch in hand at
\* a stop signal.
Dealt(u) == done[u] >= 1 /\ u \in answered \cup held
HandledBelow(n) == \A u \in Updates : u < n => Dealt(u)

\* No update from here on has been handled more often than there were lapses.
FreshFrom(n) == \A u \in Updates : u >= n => done[u] <= lapses

BotsOffset ==
  /\ HandledBelow(forgotten) /\ HandledBelow(offsetFile) /\ HandledBelow(bot.offset)
  /\ \A u \in Updates : done[u] <= 1 + lapses
  /\ bot.at \in {"off", "polling"} => FreshFrom(Larger(offsetFile, forgotten))
  /\ bot.at # "off" => FreshFrom(Larger(bot.offset, forgotten))
  /\ bot.at \in {"handling", "issuing"} => forgotten <= bot.offset /\ 1 <= bot.offset
  /\ bot.at \in {"handling", "issuing"} => bot.offset <= bot.last + 1
  /\ bot.at = "issuing" => bot.offset \in 1 .. bot.last
  /\ bot.stopping => bot.at \in {"handling", "issuing"} /\ bot.offset .. bot.last \subseteq held

\* The code a pairing command has matched was live, and is its user's.
MatchedWasLive ==
  command.at # "idle" => /\ command.code \in Codes
                         /\ owner[command.code] # "nobody"
                         /\ owner[command.code] \in entitled

TelegramInv == TelegramTypeOK /\ BotsOffset /\ MatchedWasLive /\ PairedByLiveCode

LEMMA TelegramBegins == TelegramInit => TelegramInv
<1> SUFFICES ASSUME TelegramInit PROVE TelegramInv
  OBVIOUS
<1> USE BoundsAssumption, OwnersAssumption
<1>1. TelegramTypeOK
  BY DEF TelegramInit, TelegramTypeOK, BotOff, NoCommand, Nobody, Updates, Codes
<1>2. BotsOffset
  BY DEF TelegramInit, BotsOffset, HandledBelow, FreshFrom, BotOff, Larger, Updates
<1>3. MatchedWasLive /\ PairedByLiveCode
  BY DEF TelegramInit, MatchedWasLive, PairedByLiveCode, BotOff, NoCommand, Nobody
<1> QED
  BY <1>1, <1>2, <1>3 DEF TelegramInv

\* The update at the offset has been handled, and the offset is the next one's (run).
LEMMA UpdateIsHandled ==
  ASSUME TelegramInv, NEW u \in Updates, bot.at \in {"handling", "issuing"},
         u = bot.offset, u <= bot.last,
         bot'.at = "handling", bot'.offset = u + 1, bot'.last = bot.last,
         bot'.stopping = bot.stopping, answered \subseteq answered',
         ~bot.stopping => u \in answered',
         done' = [done EXCEPT ![u] = @ + 1], UNCHANGED <<forgotten, offsetFile, held, lapses>>
  PROVE  BotsOffset'
<1> USE DEF TelegramInv, BotsOffset
<1>1. /\ MaxUpdates \in Nat /\ lapses \in Nat /\ forgotten \in Nat /\ offsetFile \in Nat
      /\ bot.offset \in Nat /\ bot.last \in Nat /\ done \in [Updates -> Nat]
  BY BoundsAssumption DEF TelegramTypeOK
<1>2. /\ done'[u] = done[u] + 1
      /\ \A v \in Updates : v # u => done'[v] = done[v]
      /\ \A v \in Updates : v \in Nat /\ done[v] \in Nat
  BY <1>1 DEF Updates
<1>3. FreshFrom(u)
  BY <1>1, <1>2 DEF FreshFrom, Larger
<1>4. \A v \in Updates : done'[v] <= 1 + lapses'
  BY <1>1, <1>2, <1>3 DEF FreshFrom
<1>5. HandledBelow(forgotten)' /\ HandledBelow(offsetFile)' /\ HandledBelow(bot.offset)'
  <2>1. u \in answered' \cup held'
    BY <1>1
  <2>2. Dealt(u)'
    BY <1>1, <1>2, <2>1 DEF Dealt
  <2>3. \A v \in Updates : Dealt(v) => Dealt(v)'
    BY <1>1, <1>2 DEF Dealt
  <2> QED
    BY <1>1, <1>2, <2>2, <2>3 DEF HandledBelow
<1>6. FreshFrom(Larger(bot.offset, forgotten))'
  BY <1>1, <1>2, <1>3 DEF FreshFrom, Larger
<1>7. bot'.stopping => bot'.offset .. bot'.last \subseteq held'
  BY <1>1
<1> QED
  BY <1>1, <1>4, <1>5, <1>6, <1>7

\* The steps that leave the pairing and the lists alone.
LEMMA LoopSteps ==
  ASSUME TelegramInv,
         \/ Posts \/ StartsBot \/ Polls \/ SavesOffset \/ Signals \/ Crashes
         \/ \E u \in Updates : Handles(u) \/ LoadsCodes(u) \/ SavesCodes(u)
  PROVE  BotsOffset'
<1> USE BoundsAssumption
    DEF TelegramInv, TelegramTypeOK, BotsOffset, HandledBelow, Dealt, FreshFrom, Updates,
        updateVars
<1>1. CASE Posts
  BY <1>1 DEF Posts, Larger
<1>2. CASE StartsBot
  BY <1>2 DEF StartsBot, BotOff, Larger
<1>3. CASE Polls
  <2>1. /\ bot.at = "polling" /\ forgotten' = Larger(forgotten, bot.offset)
        /\ UNCHANGED <<offsetFile, done, answered, held, lapses>>
        /\ \/ bot' = bot
           \/ /\ bot'.at = "handling" /\ bot'.stopping = bot.stopping /\ bot'.offset = Larger(forgotten', 1)
              /\ bot'.last \in Larger(forgotten', 1) .. posted
    BY <1>3 DEF Polls
  <2>2. HandledBelow(Larger(forgotten, bot.offset))
    BY DEF Larger
  <2>3. HandledBelow(Larger(forgotten', 1))
    BY <2>1, <2>2 DEF Larger
  <2>4. FreshFrom(Larger(offsetFile, forgotten')) /\ FreshFrom(Larger(bot.offset, forgotten'))
    BY <2>1, SMTT(30) DEF Larger
  <2>5. FreshFrom(Larger(Larger(forgotten', 1), forgotten'))
    BY <2>1, <2>4, SMTT(30) DEF Larger
  <2>6. /\ forgotten \in Nat /\ bot.offset \in Nat /\ posted \in Nat
        /\ forgotten' \in Nat /\ Larger(forgotten', 1) \in Nat
    BY <2>1 DEF Larger
  <2>7. CASE bot' = bot
    BY <2>1, <2>2, <2>4, <2>6, <2>7 DEF Larger
  <2>8. CASE bot' # bot
    <3>1. forgotten' <= bot'.offset /\ 1 <= bot'.offset /\ bot'.offset <= bot'.last
      BY <2>1, <2>6, <2>8, SMTT(30) DEF Larger
    <3>2. HandledBelow(forgotten)'
      BY <2>1, <2>2, <2>6
    <3>3. HandledBelow(offsetFile)' /\ HandledBelow(bot.offset)'
      BY <2>1, <2>3, <2>8
    <3>4. FreshFrom(Larger(bot.offset, forgotten))'
      BY <2>1, <2>5, <2>8
    <3>5. bot'.at = "handling" /\ bot'.offset <= bot'.last + 1
      BY <2>1, <2>6, <2>8, <3>1
    <3>6. \A u \in Updates : done'[u] <= 1 + lapses'
      BY <2>1
    <3>7. ~bot'.stopping
      BY <2>1, <2>8
    <3> HIDE DEF FreshFrom, HandledBelow
    <3> QED
      BY <3>1, <3>2, <3>3, <3>4, <3>5, <3>6, <3>7
  <2> QED
    BY <2>7, <2>8
<1>4. CASE SavesOffset
  <2>1. /\ bot.at = "handling"
        /\ bot'.at \in {"off", "polling"} /\ bot'.offset \in {0, bot.offset}
        /\ bot'.at = "polling" => bot'.offset = bot.offset
        /\ ~bot'.stopping
        /\ UNCHANGED <<forgotten, done, answered, held>>
    BY <1>4 DEF SavesOffset, BatchDone, BotOff
  <2>2. FreshFrom(bot.offset)
    BY <2>1 DEF Larger
  <2>3. HandledBelow(0)
    OBVIOUS
  <2>4. CASE offsetFile' = bot.offset /\ UNCHANGED lapses
    BY <2>1, <2>2, <2>3, <2>4 DEF Larger
  <2>5. CASE lapses' = lapses + 1 /\ offsetFile' \in {offsetFile, 0}
    <3>1. \A u \in Updates : done[u] <= lapses'
      BY <2>5
    <3>2. /\ FreshFrom(Larger(bot.offset, forgotten))'
          /\ FreshFrom(Larger(offsetFile, forgotten))'
      BY <2>1, <2>5, <3>1
    <3>3. HandledBelow(forgotten)' /\ HandledBelow(offsetFile)' /\ HandledBelow(bot.offset)'
      <4>1. \A n \in {forgotten, offsetFile, bot.offset, 0} : HandledBelow(n)
        BY <2>3
      <4>2. /\ forgotten' = forgotten /\ offsetFile' \in {offsetFile, 0}
            /\ bot'.offset \in {0, bot.offset}
        BY <2>1, <2>5
      <4>3. \A v \in Updates : Dealt(v) => Dealt(v)'
        BY <2>1
      <4> HIDE DEF Dealt
      <4> QED
        BY <4>1, <4>2, <4>3 DEF HandledBelow
    <3>4. \A u \in Updates : done'[u] <= 1 + lapses'
      BY <2>1, <2>5
    <3> HIDE DEF FreshFrom, HandledBelow
    <3> QED
      BY <2>1, <3>2, <3>3, <3>4
  <2> QED
    BY <1>4, <2>4, <2>5 DEF SavesOffset, OffsetToSave, Unwritten
<1>5. CASE Signals
  <2>1. CASE bot.at = "polling"
    <3>1. /\ bot'.at = "off" /\ bot'.offset = 0 /\ ~bot'.stopping
          /\ UNCHANGED <<forgotten, offsetFile, done, answered, held, lapses>>
      BY <1>5, <2>1 DEF Signals, BotOff
    <3>2. FreshFrom(Larger(offsetFile, forgotten))'
      BY <2>1, <3>1 DEF Larger
    <3>3. \A v \in Updates : Dealt(v) => Dealt(v)'
      BY <3>1
    <3>4. /\ HandledBelow(forgotten)' /\ HandledBelow(offsetFile)' /\ HandledBelow(bot.offset)'
      BY <3>1, <3>3
    <3>5. \A u \in Updates : done'[u] <= 1 + lapses'
      BY <3>1
    <3> HIDE DEF FreshFrom, HandledBelow
    <3> QED
      BY <3>1, <3>2, <3>4, <3>5
  <2>2. CASE bot.at # "polling"
    <3>1. /\ bot.at \in {"handling", "issuing"}
          /\ bot' = [bot EXCEPT !.stopping = TRUE]
          /\ held' = held \cup bot.offset .. bot.last
          /\ UNCHANGED <<forgotten, offsetFile, done, answered, lapses>>
      BY <1>5, <2>2 DEF Signals
    <3>2. /\ bot'.at = bot.at /\ bot'.offset = bot.offset /\ bot'.last = bot.last /\ bot'.stopping
      BY <3>1
    <3>3. \A v \in Updates : Dealt(v) => Dealt(v)'
      BY <3>1
    <3>4. /\ HandledBelow(forgotten)' /\ HandledBelow(offsetFile)' /\ HandledBelow(bot.offset)'
      BY <3>1, <3>2, <3>3
    <3>5. FreshFrom(Larger(bot.offset, forgotten))'
      BY <3>1, <3>2 DEF Larger
    <3> QED
      BY <3>1, <3>2, <3>4, <3>5
  <2> QED
    BY <2>1, <2>2
<1>6. CASE Crashes
  <2>1. /\ bot'.at = "off" /\ bot'.offset = 0 /\ lapses' = lapses + 1
        /\ offsetFile' \in {offsetFile, 0} /\ ~bot'.stopping
        /\ UNCHANGED <<forgotten, done, answered, held>>
    BY <1>6 DEF Crashes, BotOff, Unwritten
  <2>2. \A u \in Updates : done'[u] <= lapses'
    BY <2>1
  <2>3. FreshFrom(Larger(offsetFile, forgotten))'
    BY <2>2
  <2>4. HandledBelow(0)
    OBVIOUS
  <2>5. HandledBelow(forgotten)' /\ HandledBelow(offsetFile)' /\ HandledBelow(bot.offset)'
    BY <2>1, <2>4
  <2>6. \A u \in Updates : done'[u] <= 1 + lapses'
    BY <2>1
  <2> HIDE DEF FreshFrom, HandledBelow
  <2> QED
    BY <2>1, <2>3, <2>5, <2>6
<1>7. ASSUME NEW u \in Updates, Handles(u) PROVE BotsOffset'
  <2>1. /\ bot.at = "handling" /\ u = bot.offset /\ u <= bot.last
        /\ bot'.at = "handling" /\ bot'.offset = u + 1 /\ bot'.last = bot.last
        /\ bot'.stopping = bot.stopping
        /\ answered \subseteq answered' /\ (~bot.stopping => u \in answered')
        /\ done' = [done EXCEPT ![u] = @ + 1]
        /\ UNCHANGED <<forgotten, offsetFile, held, lapses>>
    BY <1>7 DEF Handles, Handling
  <2> QED
    BY <2>1, UpdateIsHandled
<1>8. ASSUME NEW u \in Updates, LoadsCodes(u) PROVE BotsOffset'
  BY <1>8, SMTT(30) DEF LoadsCodes, Handling, Larger
<1>9. ASSUME NEW u \in Updates, SavesCodes(u) PROVE BotsOffset'
  <2>1. /\ bot.at = "issuing" /\ u = bot.offset
        /\ bot'.at = "handling" /\ bot'.offset = u + 1 /\ bot'.last = bot.last
        /\ bot'.stopping = bot.stopping
        /\ answered \subseteq answered' /\ (~bot.stopping => u \in answered')
        /\ done' = [done EXCEPT ![u] = @ + 1]
        /\ UNCHANGED <<forgotten, offsetFile, held, lapses>>
    BY <1>9 DEF SavesCodes
  <2>2. u <= bot.last
    BY <2>1
  <2> QED
    BY <2>1, <2>2, UpdateIsHandled
<1> QED
  BY <1>1, <1>2, <1>3, <1>4, <1>5, <1>6, <1>7, <1>8, <1>9

BotTyped ==
  bot \in [at : {"off", "polling", "handling", "issuing"}, offset : 0 .. MaxUpdates + 1,
           last : 0 .. MaxUpdates, allow : SUBSET Users, m : SUBSET Codes, changed : BOOLEAN,
           stopping : BOOLEAN]

\* Every step keeps the types (run, issuePairCode, authorizePairCode).
LEMMA BotStaysTyped ==
  ASSUME TelegramInv, TelegramNext PROVE BotTyped'
<1> USE BoundsAssumption DEF TelegramInv
<1>a. BotTyped /\ allowed \in SUBSET Users /\ codes \subseteq Codes
      /\ posted \in 0 .. MaxUpdates /\ forgotten \in Nat
      /\ offsetFile \in 0 .. MaxUpdates + 1
  BY DEF TelegramTypeOK, BotTyped
<1>1. CASE UNCHANGED bot
  BY <1>1, <1>a DEF BotTyped
<1>2. CASE bot' = BotOff
  BY <1>2 DEF BotOff, BotTyped
<1>3. CASE StartsBot
  <2>1. bot' = [at |-> "polling", offset |-> offsetFile, last |-> 0, allow |-> allowed,
                m |-> {}, changed |-> FALSE, stopping |-> FALSE]
    BY <1>3 DEF StartsBot, BotOff
  <2> HIDE DEF TelegramInv
  <2> QED
    BY <1>a, <2>1 DEF BotTyped
<1>4. CASE Polls
  <2>1. ASSUME NEW first \in Nat, NEW last \in first .. posted, 1 <= first,
               bot' = [bot EXCEPT !.at = "handling", !.offset = first, !.last = last]
        PROVE  BotTyped'
    <3>1. first \in 0 .. MaxUpdates + 1 /\ last \in 0 .. MaxUpdates
      BY <1>a, <2>1
    <3> QED
      BY <1>a, <2>1, <3>1 DEF BotTyped
  <2>2. forgotten' \in Nat
    <3>1. bot.offset \in Nat
      BY <1>a DEF BotTyped
    <3> QED
      BY <1>4, <1>a, <3>1 DEF Polls, Larger
  <2>3. Larger(forgotten', 1) \in Nat /\ 1 <= Larger(forgotten', 1)
    BY <2>2 DEF Larger
  <2> QED
    BY <1>1, <1>4, <2>1, <2>3 DEF Polls
<1>5. CASE SavesOffset \/ Signals \/ Crashes
  <2>1. \/ bot' \in {bot, BotOff} \/ bot' = [bot EXCEPT !.at = "polling"]
        \/ bot' = [bot EXCEPT !.stopping = TRUE]
    BY <1>5 DEF SavesOffset, Signals, Crashes
  <2> QED
    BY <1>1, <1>2, <1>a, <2>1 DEF BotTyped
<1>6. ASSUME NEW u \in Updates, Handles(u) \/ LoadsCodes(u) \/ SavesCodes(u)
      PROVE  BotTyped'
  <2>1. u + 1 \in 0 .. MaxUpdates + 1
    BY DEF Updates
  <2>2. \/ bot' = [bot EXCEPT !.offset = u + 1]
        \/ bot' = [bot EXCEPT !.at = "issuing", !.m = codes \cap live,
                              !.changed = ~(codes \subseteq live)]
        \/ bot' = [bot EXCEPT !.at = "handling", !.offset = u + 1, !.m = {}, !.changed = FALSE]
    BY <1>6 DEF Handles, LoadsCodes, SavesCodes
  <2>3. codes \cap live \subseteq Codes
    BY <1>a
  <2> HIDE DEF TelegramInv
  <2> QED
    BY <1>a, <2>1, <2>2, <2>3 DEF BotTyped
<1> QED
  BY <1>1, <1>3, <1>4, <1>5, <1>6
  DEF TelegramNext, Posts, Ages, EntersCode, LoadsAllowed, Authorizes, Consumes, CommandDies, LoadsConfig,
      SavesConfig

\* The counts stay within their bounds, as the offset says (run, saveTelegramOffset).
LEMMA CountsStayTyped ==
  ASSUME TelegramInv, TelegramNext
  PROVE  /\ (posted \in 0 .. MaxUpdates /\ forgotten \in 0 .. MaxUpdates + 1)'
         /\ (offsetFile \in 0 .. MaxUpdates + 1 /\ lapses \in 0 .. MaxLapses)'
         /\ (from \in [Updates -> Users] /\ done \in [Updates -> 0 .. MaxLapses + 1])'
         /\ (answered \subseteq Updates /\ held \subseteq Updates)'
<1> USE BoundsAssumption
<1>a. /\ posted \in 0 .. MaxUpdates /\ forgotten \in 0 .. MaxUpdates + 1
      /\ offsetFile \in 0 .. MaxUpdates + 1 /\ bot.offset \in 0 .. MaxUpdates + 1
      /\ lapses \in 0 .. MaxLapses /\ from \in [Updates -> Users]
      /\ done \in [Updates -> 0 .. MaxLapses + 1]
      /\ answered \subseteq Updates /\ held \subseteq Updates
      /\ bot.last \in 0 .. MaxUpdates
  BY DEF TelegramInv, TelegramTypeOK
<1> USE DEF updateVars
<1>1. CASE UNCHANGED <<from, posted, forgotten, offsetFile, lapses, updateVars>>
  BY <1>1, <1>a
<1>5. CASE Signals
  <2>1. bot.at # "off" => bot.offset \in Nat
    BY <1>a
  <2>2. CASE UNCHANGED held
    BY <1>5, <1>a, <2>2 DEF Signals
  <2>3. CASE bot.at \in {"handling", "issuing"} /\ held' = held \cup bot.offset .. bot.last
    <3>1. 1 <= bot.offset
      BY <2>3 DEF TelegramInv, BotsOffset
    <3>2. bot.offset .. bot.last \subseteq Updates
      BY <1>a, <3>1 DEF Updates
    <3> QED
      BY <1>5, <1>a, <2>3, <3>2 DEF Signals
  <2>4. bot.at \in {"off", "polling", "handling", "issuing"}
    BY DEF TelegramInv, TelegramTypeOK
  <2> QED
    BY <1>5, <2>2, <2>3, <2>4 DEF Signals
<1>2. CASE Posts \/ Polls
  <2>1. CASE Posts
    BY <2>1, <1>a DEF Posts
  <2>2. CASE Polls
    <3>1. forgotten' \in {forgotten, bot.offset}
      BY <2>2 DEF Polls, Larger
    <3> QED
      BY <2>2, <3>1, <1>a DEF Polls
  <2> QED
    BY <1>2, <2>1, <2>2
<1>4. CASE SavesOffset \/ Crashes
  <2>1. /\ UNCHANGED <<from, posted, forgotten, updateVars>>
        /\ offsetFile' \in {offsetFile, bot.offset, 0}
        /\ lapses' = lapses \/ (lapses < MaxLapses /\ lapses' = lapses + 1)
    BY <1>4 DEF SavesOffset, Crashes, OffsetToSave, Unwritten
  <2>2. lapses' \in 0 .. MaxLapses
    BY <1>a, <2>1
  <2> QED
    BY <1>a, <2>1, <2>2
<1>3. ASSUME NEW u \in Updates, Handles(u) \/ SavesCodes(u)
      PROVE  /\ UNCHANGED <<from, posted, forgotten, offsetFile, held, lapses>>
             /\ done' \in [Updates -> 0 .. MaxLapses + 1] /\ answered' \subseteq Updates
  <2>1. /\ bot.at \in {"handling", "issuing"} /\ u = bot.offset
        /\ done' = [done EXCEPT ![u] = @ + 1] /\ answered' \subseteq answered \cup {u}
        /\ UNCHANGED <<from, posted, forgotten, offsetFile, held, lapses>>
    BY <1>3 DEF Handles, Handling, SavesCodes
  <2>2. FreshFrom(Larger(bot.offset, forgotten)) /\ forgotten <= bot.offset
    BY <2>1 DEF TelegramInv, BotsOffset
  <2>3. FreshFrom(u)
    BY <1>a, <2>1, <2>2 DEF Larger
  <2>4. done[u] \in 0 .. MaxLapses
    BY <1>a, <2>3 DEF FreshFrom, Updates
  <2> QED
    BY <1>a, <2>1, <2>4
<1> QED
  BY <1>1, <1>2, <1>3, <1>4, <1>5, <1>a
  DEF TelegramNext, StartsBot, LoadsCodes, Ages, EntersCode, LoadsAllowed, Authorizes, Consumes,
      CommandDies, LoadsConfig, SavesConfig, pairingVars, configVars

CommandTyped ==
  command \in [at : {"idle", "matched", "loaded", "saved"}, code : 0 .. MaxCodes,
              m : SUBSET Codes, list : SUBSET Users]

LEMMA PairsStayTyped ==
  ASSUME TelegramInv, TelegramNext
  PROVE  /\ (codes \subseteq Codes /\ live \subseteq Codes)'
         /\ (owner \in [Codes -> Users \cup {"nobody"}])'
         /\ CommandTyped'
         /\ (allowed \subseteq Users /\ entitled \subseteq Users /\ served \subseteq Users)'
         /\ (edit \in [loaded : BOOLEAN, list : SUBSET Users])'
<1> USE BoundsAssumption
<1>a. /\ codes \subseteq Codes /\ live \subseteq Codes /\ bot.m \subseteq Codes
      /\ owner \in [Codes -> Users \cup {"nobody"}]
      /\ CommandTyped
      /\ command.code \in 0 .. MaxCodes /\ command.m \subseteq Codes
      /\ command.list \subseteq Users
      /\ allowed \subseteq Users /\ entitled \subseteq Users /\ served \subseteq Users
      /\ edit \in [loaded : BOOLEAN, list : SUBSET Users]
      /\ from \in [Updates -> Users]
  BY DEF TelegramInv, TelegramTypeOK, CommandTyped
<1>1. CASE UNCHANGED <<pairingVars, configVars, served>>
  BY <1>1, <1>a DEF pairingVars, configVars, CommandTyped
<1>2. ASSUME NEW u \in Updates, Handles(u) \/ SavesCodes(u)
      PROVE  /\ UNCHANGED <<command, configVars, entitled>>
             /\ codes' \subseteq Codes /\ live' \subseteq Codes /\ served' \subseteq Users
             /\ owner' \in [Codes -> Users \cup {"nobody"}]
  BY <1>2, <1>a DEF Handles, SavesCodes, pairingVars
<1>3. ASSUME NEW c \in Codes, Ages(c)
      PROVE  /\ UNCHANGED <<codes, owner, command, entitled, configVars, served>>
             /\ live' \subseteq Codes
  BY <1>3, <1>a DEF Ages
<1>4. ASSUME NEW c \in Codes, EntersCode(c)
      PROVE  /\ UNCHANGED <<owner, live, configVars, served>>
             /\ codes' \subseteq Codes /\ entitled' \subseteq Users /\ CommandTyped'
  <2>1. owner[c] \in Users /\ c \in 0 .. MaxCodes /\ Pending \subseteq Codes
    BY <1>4, <1>a DEF EntersCode, Pending, Codes
  <2>2. UNCHANGED <<owner, live, configVars, served>> /\ codes' \in {codes, Pending}
        /\ entitled' \in {entitled, entitled \cup {owner[c]}}
        /\ command' \in {command, [at |-> "matched", code |-> c, m |-> Pending, list |-> {}]}
    BY <1>4 DEF EntersCode, NoCommand
  <2>3. CommandTyped'
    <3>1. {} \in SUBSET Users
      OBVIOUS
    <3>2. Pending \in SUBSET Codes
      BY <2>1
    <3>3. c \in 0 .. MaxCodes
      BY <2>1
    <3>4. [at |-> "matched", code |-> c, m |-> Pending, list |-> {}] \in
            [at : {"idle", "matched", "loaded", "saved"}, code : 0 .. MaxCodes,
             m : SUBSET Codes, list : SUBSET Users]
      BY <3>1, <3>2, <3>3
    <3> QED
      BY <1>a, <2>2, <3>4 DEF CommandTyped
  <2>4. codes' \subseteq Codes /\ entitled' \subseteq Users
    BY <1>a, <2>1, <2>2
  <2> QED
    BY <1>a, <2>2, <2>3, <2>4
<1>5. CASE Authorizes
  <2>1. owner[command.code] \in Users
    BY <1>5, <1>a DEF Authorizes, TelegramInv, MatchedWasLive
  <2>2. CommandTyped'
    BY <1>5, <1>a DEF Authorizes, CommandTyped
  <2> QED
    BY <1>5, <1>a, <2>1, <2>2 DEF Authorizes
<1>8. CASE LoadsAllowed
  <2>1. CommandTyped'
    BY <1>8, <1>a DEF LoadsAllowed, CommandTyped
  <2> QED
    BY <1>8, <1>a, <2>1 DEF LoadsAllowed, configVars
<1>6. CASE Consumes \/ CommandDies
  <2>1. CommandTyped'
    <3>1. command' = NoCommand /\ {} \in SUBSET Users /\ {} \in SUBSET Codes
      BY <1>6 DEF Consumes, CommandDies
    <3> QED
      BY <3>1 DEF NoCommand, CommandTyped
  <2>2. codes' \subseteq Codes
    <3>1. command.at # "idle" => command.code \in Codes
      BY DEF TelegramInv, MatchedWasLive
    <3> QED
      BY <1>6, <1>a, <3>1 DEF Consumes, CommandDies
  <2> QED
    BY <1>6, <1>a, <2>1, <2>2 DEF Consumes, CommandDies, configVars
<1>7. CASE LoadsConfig \/ SavesConfig
  <2>1. edit.list \subseteq Users
    BY <1>a
  <2>2. UNCHANGED <<pairingVars, served>> /\ allowed' \subseteq Users
        /\ edit' \in {Nobody, [loaded |-> TRUE, list |-> allowed]}
    BY <1>7, <1>a, <2>1 DEF LoadsConfig, SavesConfig
  <2>3. edit' \in [loaded : BOOLEAN, list : SUBSET Users]
    <3>1. allowed \in SUBSET Users /\ {} \in SUBSET Users
      BY <1>a
    <3>2. Nobody \in [loaded : BOOLEAN, list : SUBSET Users]
      BY <3>1 DEF Nobody
    <3>3. [loaded |-> TRUE, list |-> allowed] \in [loaded : BOOLEAN, list : SUBSET Users]
      BY <3>1
    <3> QED
      BY <2>2, <3>2, <3>3
  <2> QED
    BY <1>a, <2>2, <2>3 DEF pairingVars, CommandTyped
<1> QED
  BY <1>1, <1>2, <1>3, <1>4, <1>5, <1>6, <1>7, <1>8, <1>a
  DEF CommandTyped, TelegramNext, Posts, StartsBot, Polls, SavesOffset, Signals, Crashes, LoadsCodes, configVars

\* Every step keeps who is paired (authorizePairCode, issuePairCode, Config.Save).
LEMMA PairingSteps ==
  ASSUME TelegramInv, TelegramNext PROVE MatchedWasLive' /\ PairedByLiveCode'
<1> USE DEF TelegramInv, MatchedWasLive, PairedByLiveCode
<1>1. CASE \/ Posts \/ Polls \/ \E u \in Updates : LoadsCodes(u)
  <2>1. bot'.allow = bot.allow
    BY <1>1 DEF Posts, Polls, LoadsCodes, TelegramTypeOK
  <2> QED
    BY <1>1, <2>1 DEF Posts, Polls, LoadsCodes, pairingVars, configVars
<1>2. CASE StartsBot \/ SavesOffset \/ Signals \/ Crashes
  <2>1. BotOff.allow = {} /\ [BotOff EXCEPT !.at = "polling", !.offset = offsetFile,
                                         !.allow = allowed].allow = allowed
    BY DEF BotOff
  <2>2. /\ [bot EXCEPT !.at = "polling"].allow = bot.allow
        /\ [bot EXCEPT !.stopping = TRUE].allow = bot.allow
    BY DEF TelegramTypeOK
  <2>3. bot'.allow \in {bot.allow, {}, allowed}
    BY <1>2, <2>1, <2>2 DEF StartsBot, SavesOffset, Signals, Crashes
  <2> QED
    BY <1>2, <2>3 DEF StartsBot, SavesOffset, Signals, Crashes, pairingVars, configVars
<1>3. CASE \E u \in Updates : Handles(u)
  BY <1>3 DEF Handles, TelegramTypeOK, pairingVars, configVars
<1>4. ASSUME NEW u \in Updates, SavesCodes(u) PROVE MatchedWasLive' /\ PairedByLiveCode'
  <2>1. bot'.allow = bot.allow
    BY <1>4 DEF SavesCodes, TelegramTypeOK
  <2>2. \A c \in Codes : owner[c] # "nobody" => owner'[c] = owner[c]
    BY <1>4 DEF SavesCodes, TelegramTypeOK
  <2> QED
    BY <1>4, <2>1, <2>2 DEF SavesCodes, configVars
<1>5. ASSUME NEW c \in Codes, Ages(c) PROVE MatchedWasLive' /\ PairedByLiveCode'
  BY <1>5 DEF Ages, configVars
<1>6. ASSUME NEW c \in Codes, EntersCode(c) PROVE MatchedWasLive' /\ PairedByLiveCode'
  BY <1>6 DEF EntersCode, NoCommand, Pending, configVars
<1>7. CASE Authorizes
  BY <1>7 DEF Authorizes, TelegramTypeOK
<1>10. CASE LoadsAllowed
  <2>1. command'.code = command.code /\ command'.list = allowed /\ command.at # "idle"
    BY <1>10 DEF LoadsAllowed, TelegramTypeOK
  <2> QED
    BY <1>10, <2>1 DEF LoadsAllowed, configVars
<1>8. CASE Consumes \/ CommandDies
  BY <1>8 DEF Consumes, CommandDies, NoCommand, configVars
<1>9. CASE LoadsConfig \/ SavesConfig
  BY <1>9 DEF LoadsConfig, SavesConfig, Nobody, pairingVars
<1> QED
  BY <1>1, <1>2, <1>3, <1>4, <1>5, <1>6, <1>7, <1>8, <1>9, <1>10 DEF TelegramNext

LEMMA TelegramGoesOn == TelegramInv /\ [TelegramNext]_telegramVars => TelegramInv'
<1> SUFFICES ASSUME TelegramInv, [TelegramNext]_telegramVars PROVE TelegramInv'
  OBVIOUS
<1>1. CASE UNCHANGED telegramVars
  BY <1>1 DEF telegramVars, TelegramInv, TelegramTypeOK, BotsOffset, HandledBelow, FreshFrom,
              Dealt, MatchedWasLive, PairedByLiveCode
<1>2. CASE TelegramNext
  <2>1. BotsOffset'
    <3>1. CASE /\ UNCHANGED <<forgotten, offsetFile, bot, updateVars, lapses>>
      BY <3>1 DEF TelegramInv, BotsOffset, HandledBelow, Dealt, FreshFrom, updateVars
    <3> QED
      BY <1>2, <3>1, LoopSteps
      DEF TelegramNext, Ages, EntersCode, LoadsAllowed, Authorizes, Consumes, CommandDies, LoadsConfig,
          SavesConfig
  <2> QED
    BY <1>2, <2>1, BotStaysTyped, CountsStayTyped, PairsStayTyped, PairingSteps
    DEF TelegramInv, TelegramTypeOK, BotTyped, CommandTyped
<1> QED
  BY <1>1, <1>2

-----------------------------------------------------------------------------
(* The HTTP server's rate limiter.                                         *)

\* The requests of a client that were let through from a time on, and those of the time
\* before it that a window that holds it may still hold.
Since(c, s) == {r \in Requests : request[r].client = c /\ let[r] >= s}
Prior(c, s) == {r \in Requests : /\ request[r].client = c /\ let[r] >= 0
                                 /\ s - RateWindow < let[r] /\ let[r] < s}

\* A window is as full as its count says, its first request is at its start and its last
\* before its end; and because the window before had its first request at its start as
\* well, fewer than RateLimit of that one's are near enough to be seen with this one's.
Windowed(c) ==
  LET s == bucket[c].started
  IN  /\ \A r \in Requests : request[r].client = c => let[r] <= now
      /\ s = -1 => \A r \in Requests : request[r].client = c => let[r] = -1
      /\ s # -1 =>
           /\ s <= now
           /\ Cardinality(Since(c, s)) = bucket[c].count
           /\ \E r \in Requests : request[r].client = c /\ let[r] = s
           /\ \A r \in Requests : request[r].client = c => let[r] < s + RateWindow
           /\ Cardinality(Prior(c, s)) <= RateLimit - 1
      /\ \A t \in Times : Cardinality(LetBetween(c, t, t + RateWindow)) < 2 * RateLimit

AllWindowed == \A c \in Clients : Windowed(c)

\* What the status of a request says of where its handler is.
StatusFits ==
  \A r \in Requests :
    /\ request[r].at = "unsent" => let[r] = -1
    /\ request[r].at \in {"unsent", "let", "running"} => request[r].status = "none"
    /\ request[r].at = "leaving" => request[r].status \in {"200", "400", "500"}

HttpInv == HttpTypeOK /\ StatusFits /\ SlotsComeBack /\ AllWindowed

LEMMA RequestsAreFew ==
  ASSUME NEW S, S \subseteq Requests
  PROVE  IsFiniteSet(S) /\ Cardinality(S) \in Nat /\ Cardinality(S) <= Cardinality(Requests)
<1>1. IsFiniteSet(Requests)
  BY LimitsAssumption, FS_Interval DEF Requests
<1> QED
  BY <1>1, FS_Subset, FS_CardinalityType

LEMMA WindowsImplyRate == HttpInv => RateHolds
<1> SUFFICES ASSUME HttpInv, NEW c \in Clients, NEW t \in Times, bucket[c].started = t
             PROVE  Cardinality(LetBetween(c, t, t + RateWindow)) <= RateLimit
  BY DEF HttpInv, AllWindowed, Windowed, RateHolds
<1>1. LetBetween(c, t, t + RateWindow) \subseteq Since(c, t) /\ Since(c, t) \subseteq Requests
  BY DEF LetBetween, Since, HttpInv, HttpTypeOK, Times
<1>2. Cardinality(LetBetween(c, t, t + RateWindow)) <= Cardinality(Since(c, t))
  BY <1>1, RequestsAreFew, FS_Subset
<1>3. Cardinality(Since(c, t)) = bucket[c].count /\ bucket[c].count \in 0 .. RateLimit
  BY DEF HttpInv, HttpTypeOK, AllWindowed, Windowed, Times
<1>4. Cardinality(LetBetween(c, t, t + RateWindow)) \in Nat
  BY <1>1, RequestsAreFew
<1> QED
  BY <1>2, <1>3, <1>4, LimitsAssumption

\* The windows change only when a request is let through.
LEMMA WindowsRest ==
  ASSUME HttpInv, UNCHANGED <<let, bucket>>, now' \in {now, now + 1},
         \A r \in Requests : request'[r].client = request[r].client
  PROVE  AllWindowed'
<1> SUFFICES ASSUME NEW c \in Clients PROVE Windowed(c)'
  BY DEF AllWindowed
<1>1. /\ now \in Nat /\ let \in [Requests -> Int] /\ bucket[c].started \in Int
  BY DEF HttpInv, HttpTypeOK, Times
<1>2. \A s : Since(c, s)' = Since(c, s) /\ Prior(c, s)' = Prior(c, s)
  BY DEF Since, Prior
<1>3. \A t \in Times : LetBetween(c, t, t + RateWindow)' = LetBetween(c, t, t + RateWindow)
  BY DEF LetBetween
<1>4. Windowed(c)
  BY DEF HttpInv, AllWindowed
<1>5. now <= now'
  BY <1>1
<1> QED
  BY <1>1, <1>2, <1>3, <1>4, <1>5 DEF Windowed

\* One that is let through is in the window it finds or in a new one (allow).
LEMMA WindowsFill ==
  ASSUME HttpInv, NEW r \in Requests, IsLet(r)
  PROVE  AllWindowed'
<1> USE LimitsAssumption
<1> SUFFICES ASSUME NEW c \in Clients, c = request[r].client,
                    NEW s \in Int, s = bucket[c].started,
                    NEW k \in 0 .. RateLimit, k = bucket[c].count
             PROVE  AllWindowed'
  <2>1. request[r].client \in Clients
    BY DEF HttpInv, HttpTypeOK
  <2>2. \A c \in Clients : bucket[c].started \in Int /\ bucket[c].count \in 0 .. RateLimit
    BY DEF HttpInv, HttpTypeOK, Times
  <2> QED
    BY <2>1, <2>2
<1>1. /\ now \in Nat /\ let \in [Requests -> Int] /\ c \in Clients
      /\ s \in Int /\ (s = -1 \/ s \in Nat) /\ k \in 0 .. RateLimit
      /\ let[r] = -1 /\ Windowed(c)
      /\ RateWindow \in Nat \ {0} /\ RateLimit \in Nat \ {0}
      /\ \A q \in Requests : let[q] = -1 \/ let[q] \in Nat
  <2>1. request[r].at = "unsent"
    BY DEF IsLet, Passes
  <2> QED
    BY <2>1 DEF HttpInv, HttpTypeOK, StatusFits, AllWindowed, Times
<1>2. /\ UNCHANGED now
      /\ let'[r] = now /\ \A q \in Requests : q # r => let'[q] = let[q]
      /\ \A q \in Requests : request'[q].client = request[q].client
      /\ \A d \in Clients : d # c => bucket'[d] = bucket[d]
  BY DEF IsLet, Passes, HttpInv, HttpTypeOK
<1>3. ASSUME NEW d \in Clients, d # c PROVE Windowed(d)'
  <2>1. \A t : Since(d, t)' = Since(d, t) /\ Prior(d, t)' = Prior(d, t)
    BY <1>2, <1>3 DEF Since, Prior
  <2>2. \A t \in Times : LetBetween(d, t, t + RateWindow)' = LetBetween(d, t, t + RateWindow)
    BY <1>2, <1>3 DEF LetBetween
  <2>3. Windowed(d) /\ bucket'[d] = bucket[d]
    BY <1>2, <1>3 DEF HttpInv, AllWindowed
  <2> QED
    BY <1>2, <1>3, <2>1, <2>2, <2>3 DEF Windowed
\* A stretch of time that does not hold the present is as it was.
<1>4. ASSUME NEW t \in Times, ~(t <= now /\ now < t + RateWindow)
      PROVE  Cardinality(LetBetween(c, t, t + RateWindow)') < 2 * RateLimit
  <2>1. LetBetween(c, t, t + RateWindow)' = LetBetween(c, t, t + RateWindow)
    BY <1>1, <1>2, <1>4 DEF LetBetween, Times
  <2> QED
    BY <1>1, <2>1 DEF Windowed
<1>5. \A q \in Requests : request'[q].client = c => let'[q] <= now'
  BY <1>1, <1>2 DEF Windowed
\* The window it finds.
<1>6. CASE ~WindowOver(bucket[c])
  <2>1. /\ s \in Nat /\ now < s + RateWindow /\ s <= now /\ k < RateLimit
        /\ bucket'[c].started = s /\ bucket'[c].count = k + 1
    BY <1>1, <1>6 DEF WindowOver, Exhausted, IsLet, HttpInv, HttpTypeOK, Windowed
  <2>2. /\ Since(c, s)' = Since(c, s) \cup {r} /\ r \notin Since(c, s)
        /\ Since(c, s) \subseteq Requests
        /\ Prior(c, s)' = Prior(c, s) /\ Prior(c, s) \subseteq Requests
    BY <1>1, <1>2, <2>1 DEF Since, Prior
  <2>3. Cardinality(Since(c, s)) = k /\ Cardinality(Prior(c, s)) <= RateLimit - 1
    BY <1>1, <2>1 DEF Windowed
  <2>4. Cardinality(Since(c, s)') = k + 1
    BY <2>2, <2>3, RequestsAreFew, FS_AddElement
  <2>5. ASSUME NEW t \in Times, t <= now, now < t + RateWindow
        PROVE  Cardinality(LetBetween(c, t, t + RateWindow)') < 2 * RateLimit
    <3>1. LetBetween(c, t, t + RateWindow)' \subseteq Since(c, s)' \cup Prior(c, s)
      BY <1>1, <1>2, <2>1, <2>5 DEF LetBetween, Since, Prior, Times
    <3>2. /\ Since(c, s)' \subseteq Requests
          /\ Since(c, s)' \cup Prior(c, s) \subseteq Requests
          /\ Since(c, s)' \cap Prior(c, s) \subseteq Requests
      BY <2>2
    <3>3. Cardinality(Since(c, s)' \cup Prior(c, s)) =
            Cardinality(Since(c, s)') + Cardinality(Prior(c, s))
              - Cardinality(Since(c, s)' \cap Prior(c, s))
      BY <2>2, <3>2, RequestsAreFew, FS_Union
    <3>4. Cardinality(LetBetween(c, t, t + RateWindow)')
            <= Cardinality(Since(c, s)' \cup Prior(c, s))
      BY <3>1, <3>2, RequestsAreFew, FS_Subset
    <3>5. /\ Cardinality(LetBetween(c, t, t + RateWindow)') \in Nat
          /\ Cardinality(Since(c, s)' \cap Prior(c, s)) \in Nat
          /\ Cardinality(Prior(c, s)) \in Nat
      BY <2>2, <3>1, <3>2, RequestsAreFew
    <3>6. PICK a \in Nat, b \in Nat, e \in Nat :
            /\ a = Cardinality(LetBetween(c, t, t + RateWindow)')
            /\ b = Cardinality(Since(c, s)' \cap Prior(c, s))
            /\ e = Cardinality(Prior(c, s)) /\ e <= RateLimit - 1
      BY <2>3, <3>5
    <3>7. a <= k + 1 + e - b
      BY <2>4, <3>3, <3>4, <3>6
    <3>8. k \in Nat /\ k + 1 <= RateLimit /\ RateLimit \in Nat
      BY <1>1, <2>1
    <3>9. a < 2 * RateLimit
      BY <3>6, <3>7, <3>8
    <3> QED
      BY <3>6, <3>9
  <2>6. \E q \in Requests : request'[q].client = c /\ let'[q] = s
    <3>1. PICK q \in Requests : request[q].client = c /\ let[q] = s
      BY <1>1, <2>1 DEF Windowed
    <3> QED
      BY <1>1, <1>2, <2>1, <3>1
  <2>7. \A q \in Requests : request'[q].client = c => let'[q] < s + RateWindow
    BY <1>1, <1>2, <2>1 DEF Windowed
  <2>8. \A t \in Times : Cardinality(LetBetween(c, t, t + RateWindow)') < 2 * RateLimit
    BY <1>4, <2>5
  <2>9. /\ bucket'[c].started = s /\ s # -1 /\ s <= now'
        /\ Cardinality(Since(c, s)') = bucket'[c].count
        /\ Cardinality(Prior(c, s)') <= RateLimit - 1
    BY <1>2, <2>1, <2>2, <2>3, <2>4
  <2>10. Windowed(c)'
    BY <1>2, <1>5, <2>6, <2>7, <2>8, <2>9 DEF Windowed
  <2> QED
    BY <1>3, <2>10 DEF AllWindowed
\* A new window, of which it is the first.
<1>7. CASE WindowOver(bucket[c])
  <2>1. bucket'[c].started = now /\ bucket'[c].count = 1
    BY <1>1, <1>7 DEF IsLet, HttpInv, HttpTypeOK
  <2>2. \A q \in Requests : request[q].client = c => let[q] < now
    BY <1>1, <1>7 DEF WindowOver, Windowed
  <2>3. Since(c, now)' = {r} /\ Prior(c, now)' = Prior(c, now) /\ Prior(c, now) \subseteq Requests
    BY <1>1, <1>2, <2>2 DEF Since, Prior
  <2>4. Cardinality(Since(c, now)') = 1
    BY <2>3, FS_Singleton
  <2>5. Cardinality(Prior(c, now)) <= RateLimit - 1
    <3>1. CASE s = -1
      <4>1. Prior(c, now) = {}
        BY <1>1, <3>1 DEF Prior, Windowed
      <4> QED
        BY <1>1, <4>1, FS_EmptySet
    <3>2. CASE s # -1
      <4>1. PICK q \in Requests : request[q].client = c /\ let[q] = s
        BY <1>1, <3>2 DEF Windowed
      <4>2. s \in Nat /\ s + RateWindow <= now
        BY <1>1, <1>7, <3>2 DEF WindowOver
      <4>3. Prior(c, now) \subseteq Since(c, s) \ {q} /\ q \in Since(c, s)
        BY <1>1, <4>1, <4>2 DEF Prior, Since
      <4>4. Since(c, s) \subseteq Requests /\ Since(c, s) \ {q} \subseteq Requests
        BY DEF Since
      <4>5. Cardinality(Since(c, s)) = k
        BY <1>1, <3>2 DEF Windowed
      <4>6. Cardinality(Since(c, s) \ {q}) = k - 1
        BY <4>3, <4>4, <4>5, RequestsAreFew, FS_RemoveElement
      <4>7. Cardinality(Prior(c, now)) <= k - 1
        BY <4>3, <4>4, <4>6, RequestsAreFew, FS_Subset
      <4>8. Cardinality(Prior(c, now)) \in Nat
        BY <2>3, RequestsAreFew
      <4> QED
        BY <1>1, <4>7, <4>8
    <3> QED
      BY <3>1, <3>2
  <2>6. ASSUME NEW t \in Times, t <= now, now < t + RateWindow
        PROVE  Cardinality(LetBetween(c, t, t + RateWindow)') < 2 * RateLimit
    <3>1. LetBetween(c, t, t + RateWindow)' \subseteq Prior(c, now) \cup {r}
      BY <1>1, <1>2, <2>2, <2>6 DEF LetBetween, Prior, Times
    <3>2. Prior(c, now) \cup {r} \subseteq Requests /\ r \notin Prior(c, now)
      BY <1>1, <2>3 DEF Prior
    <3>3. Cardinality(Prior(c, now) \cup {r}) = Cardinality(Prior(c, now)) + 1
      BY <2>3, <3>2, RequestsAreFew, FS_AddElement
    <3>4. Cardinality(LetBetween(c, t, t + RateWindow)') <= Cardinality(Prior(c, now) \cup {r})
      BY <3>1, <3>2, RequestsAreFew, FS_Subset
    <3>5. /\ Cardinality(LetBetween(c, t, t + RateWindow)') \in Nat
          /\ Cardinality(Prior(c, now)) \in Nat
      BY <2>3, <3>1, <3>2, RequestsAreFew
    <3> QED
      BY <1>1, <2>5, <3>3, <3>4, <3>5
  <2>7. \A q \in Requests : request'[q].client = c => let'[q] < now + RateWindow
    BY <1>1, <1>2, <2>2
  <2>8. request'[r].client = c /\ let'[r] = now
    BY <1>2
  <2>9. Windowed(c)'
    BY <1>1, <1>2, <1>4, <1>5, <2>1, <2>3, <2>4, <2>5, <2>6, <2>7, <2>8 DEF Windowed
  <2> QED
    BY <1>3, <2>9 DEF AllWindowed
<1> QED
  BY <1>6, <1>7

-----------------------------------------------------------------------------
(* The HTTP server's semaphore and metrics.                                *)

Inside == {"running", "leaving"}
Holding == With(Inside)
Answered(st) == With({"done"}) \cap WithStatus(st)
One(p) == IF p THEN 1 ELSE 0

\* Two sets that differ in one request at most differ by one at most.
LEMMA OneMoves ==
  ASSUME NEW r \in Requests, NEW A \in SUBSET Requests, NEW B \in SUBSET Requests,
         \A q \in Requests : q # r => (q \in A <=> q \in B)
  PROVE  Cardinality(B) = Cardinality(A) + One(r \in B) - One(r \in A)
<1>1. IsFiniteSet(A) /\ Cardinality(A) \in Nat /\ Cardinality(B) \in Nat
  BY RequestsAreFew
<1>2. CASE r \in A <=> r \in B
  <2>1. A = B
    BY <1>2
  <2> QED
    BY <1>1, <1>2, <2>1 DEF One
<1>3. CASE r \in B /\ r \notin A
  <2>1. B = A \cup {r}
    BY <1>3
  <2>2. Cardinality(B) = Cardinality(A) + 1
    BY <1>1, <1>3, <2>1, FS_AddElement
  <2> QED
    BY <1>1, <1>3, <2>2 DEF One
<1>4. CASE r \in A /\ r \notin B
  <2>1. B = A \ {r}
    BY <1>4
  <2>2. Cardinality(B) = Cardinality(A) - 1
    BY <1>1, <1>4, <2>1, FS_RemoveElement
  <2> QED
    BY <1>1, <1>4, <2>2 DEF One
<1> QED
  BY <1>2, <1>3, <1>4

\* What a request's handler does to the counts of requests that SlotsComeBack takes.
LEMMA CountsMove ==
  ASSUME NEW r \in Requests, NEW at, NEW st,
         request'[r].at = at, request'[r].status = st,
         \A q \in Requests : q # r => request'[q] = request[q]
  PROVE  /\ Cardinality(Holding') =
              Cardinality(Holding) + One(at \in Inside) - One(request[r].at \in Inside)
         /\ \A k : Cardinality(WithStatus(k)') =
              Cardinality(WithStatus(k)) + One(st = k) - One(request[r].status = k)
         /\ \A k : Cardinality(Answered(k)') =
              Cardinality(Answered(k)) + One(at = "done" /\ st = k)
                - One(request[r].at = "done" /\ request[r].status = k)
<1>1. /\ Holding \in SUBSET Requests /\ Holding' \in SUBSET Requests
      /\ \A q \in Requests : q # r => (q \in Holding <=> q \in Holding')
      /\ r \in Holding <=> request[r].at \in Inside
      /\ r \in Holding' <=> at \in Inside
  BY DEF Holding, With
<1>2. ASSUME NEW k
      PROVE  /\ WithStatus(k) \in SUBSET Requests /\ WithStatus(k)' \in SUBSET Requests
             /\ \A q \in Requests : q # r => (q \in WithStatus(k) <=> q \in WithStatus(k)')
             /\ r \in WithStatus(k) <=> request[r].status = k
             /\ r \in WithStatus(k)' <=> st = k
  BY DEF WithStatus
<1>3. ASSUME NEW k
      PROVE  /\ Answered(k) \in SUBSET Requests /\ Answered(k)' \in SUBSET Requests
             /\ \A q \in Requests : q # r => (q \in Answered(k) <=> q \in Answered(k)')
             /\ r \in Answered(k) <=> request[r].at = "done" /\ request[r].status = k
             /\ r \in Answered(k)' <=> at = "done" /\ st = k
  BY DEF Answered, With, WithStatus
<1>4. Cardinality(Holding') = Cardinality(Holding) + One(r \in Holding') - One(r \in Holding)
  BY <1>1, OneMoves
<1>5. ASSUME NEW k
      PROVE  Cardinality(WithStatus(k)') = Cardinality(WithStatus(k))
               + One(r \in WithStatus(k)') - One(r \in WithStatus(k))
  BY <1>2, OneMoves
<1>6. ASSUME NEW k
      PROVE  Cardinality(Answered(k)') = Cardinality(Answered(k))
               + One(r \in Answered(k)') - One(r \in Answered(k))
  BY <1>3, OneMoves
<1>7. One(r \in Holding') = One(at \in Inside) /\ One(r \in Holding) = One(request[r].at \in Inside)
  BY <1>1 DEF One
<1>8. ASSUME NEW k
      PROVE  /\ One(r \in WithStatus(k)') = One(st = k)
             /\ One(r \in WithStatus(k)) = One(request[r].status = k)
             /\ One(r \in Answered(k)') = One(at = "done" /\ st = k)
             /\ One(r \in Answered(k)) = One(request[r].at = "done" /\ request[r].status = k)
  BY <1>2, <1>3 DEF One
<1> QED
  BY <1>4, <1>5, <1>6, <1>7, <1>8

CountKeys == {"ok", "error"} \cup Statuses

\* What is counted with a request: a token of turns, a turn, a response.
Moves(r, at, st) ==
  /\ request' = [request EXCEPT ![r].at = at, ![r].status = st]
  /\ server \in {"up", "closing"} /\ server' = server
  /\ turns' = turns + One(at \in Inside) - One(request[r].at \in Inside)
  /\ counted' = [k \in CountKeys |->
       IF k = "ok" THEN counted[k] + One(st = "200") - One(request[r].status = "200")
       ELSE IF k = "error" THEN counted[k] + One(st = "500") - One(request[r].status = "500")
       ELSE counted[k] + One(at = "done" /\ st = k)
                       - One(request[r].at = "done" /\ request[r].status = k)]

\* When that is what a step does, the counts agree after it.
LEMMA SlotsMove ==
  ASSUME HttpInv, NEW r \in Requests, NEW at, NEW st, Moves(r, at, st)
  PROVE  SlotsComeBack'
<1>1. /\ request'[r].at = at /\ request'[r].status = st
      /\ \A q \in Requests : q # r => request'[q] = request[q]
  BY DEF Moves, HttpInv, HttpTypeOK
<1>2. Cardinality(Holding') =
        Cardinality(Holding) + One(at \in Inside) - One(request[r].at \in Inside)
  BY <1>1, CountsMove
<1>3. \A k : Cardinality(WithStatus(k)') =
        Cardinality(WithStatus(k)) + One(st = k) - One(request[r].status = k)
  BY <1>1, CountsMove
<1>4. \A k : Cardinality(Answered(k)') =
        Cardinality(Answered(k)) + One(at = "done" /\ st = k)
          - One(request[r].at = "done" /\ request[r].status = k)
  BY <1>1, CountsMove
<1>5. /\ turns = Cardinality(Holding)
      /\ counted["ok"] = Cardinality(WithStatus("200"))
      /\ counted["error"] = Cardinality(WithStatus("500"))
      /\ \A k \in Statuses : counted[k] = Cardinality(Answered(k))
  BY DEF HttpInv, SlotsComeBack, Moves, Holding, Inside, Answered
<1>6. turns' = Cardinality(Holding')
  BY <1>2, <1>5 DEF Moves
<1>7. /\ counted'["ok"] = Cardinality(WithStatus("200")')
      /\ counted'["error"] = Cardinality(WithStatus("500")')
  BY <1>3, <1>5 DEF Moves, CountKeys
<1>8. \A k \in Statuses : counted'[k] = Cardinality(Answered(k)')
  BY <1>4, <1>5 DEF Moves, CountKeys, Statuses
<1> QED
  BY <1>6, <1>7, <1>8 DEF SlotsComeBack, Holding, Inside, Answered

\* And it is what each step of a handler does (observed, limited, completions).
LEMMA HandlersMove ==
  ASSUME HttpInv, NEW r \in Requests,
         \/ IsStranger(r) \/ IsLet(r) \/ IsRateLimited(r) \/ IsTooMany(r) \/ Acquires(r)
         \/ TurnEnds(r) \/ Finishes(r)
  PROVE  \E at \in {"let", "running", "leaving", "done"}, st \in {"none"} \cup Statuses :
           Moves(r, at, st)
<1>a. /\ counted \in [CountKeys -> Int] /\ turns \in Int
      /\ request \in [Requests ->
           [at : {"unsent", "let", "running", "leaving", "done", "cut"},
            client : Clients, status : {"none"} \cup Statuses]]
      /\ StatusFits
  <2>1. MaxConcurrentTurns \in Int /\ Cardinality(Requests) \in Int
    BY LimitsAssumption, RequestsAreFew
  <2>2. /\ counted \in [CountKeys -> 0 .. Cardinality(Requests)]
        /\ turns \in 0 .. MaxConcurrentTurns
    BY DEF HttpInv, HttpTypeOK, CountKeys
  <2> QED
    BY <2>1, <2>2 DEF HttpInv, HttpTypeOK
<1> USE DEF Moves, CountKeys, Statuses, One, Inside, StatusFits, Leaves, Answers, Passes, Alive
<1>1. CASE IsStranger(r)
  <2>1. Moves(r, "done", "401")
    BY <1>1, <1>a DEF IsStranger
  <2> QED
    BY <2>1
<1>2. CASE IsLet(r)
  <2>1. request[r].at = "unsent" /\ request[r].status = "none"
    BY <1>2, <1>a DEF IsLet
  <2>2. request' = [request EXCEPT ![r].at = "let", ![r].status = "none"]
    BY <1>2, <1>a, <2>1 DEF IsLet
  <2>3. /\ UNCHANGED <<counted, turns, server>>
        /\ counted = [k \in CountKeys |-> counted[k]]
    BY <1>2, <1>a DEF IsLet
  <2>4. \A k \in CountKeys : counted[k] =
          IF k = "ok" THEN counted[k] + One("none" = "200") - One(request[r].status = "200")
          ELSE IF k = "error" THEN counted[k] + One("none" = "500") - One(request[r].status = "500")
          ELSE counted[k] + One("let" = "done" /\ "none" = k)
                          - One(request[r].at = "done" /\ request[r].status = k)
    BY <1>a, <2>1
  <2>5. turns' = turns + One("let" \in Inside) - One(request[r].at \in Inside)
    BY <1>a, <2>1, <2>3
  <2>6. server \in {"up", "closing"}
    BY <1>2 DEF IsLet
  <2>7. Moves(r, "let", "none")
    BY <2>2, <2>3, <2>4, <2>5, <2>6
  <2> QED
    BY <2>7
<1>3. CASE IsRateLimited(r) \/ IsTooMany(r)
  <2>1. Moves(r, "done", "429")
    BY <1>3, <1>a DEF IsRateLimited, IsTooMany
  <2> QED
    BY <2>1
<1>4. CASE Acquires(r)
  <2>1. Moves(r, "leaving", "400") \/ Moves(r, "running", "none")
    BY <1>4, <1>a DEF Acquires
  <2> HIDE DEF Moves
  <2> QED
    BY <2>1
<1>5. CASE TurnEnds(r)
  <2>1. CASE Answers(r, "running", "200") /\ counted' = [counted EXCEPT !["ok"] = @ + 1]
    <3>1. request[r].at = "running" /\ request[r].status = "none"
      BY <1>a, <2>1
    <3>2. Moves(r, "leaving", "200")
      BY <1>5, <1>a, <2>1, <3>1 DEF TurnEnds
    <3> QED
      BY <3>2
  <2>2. CASE Answers(r, "running", "500") /\ counted' = [counted EXCEPT !["error"] = @ + 1]
    <3>1. request[r].at = "running" /\ request[r].status = "none"
      BY <1>a, <2>2
    <3>2. Moves(r, "leaving", "500")
      BY <1>5, <1>a, <2>2, <3>1 DEF TurnEnds
    <3> QED
      BY <3>2
  <2> QED
    BY <1>5, <2>1, <2>2 DEF TurnEnds
<1>6. CASE Finishes(r)
  <2>1. request[r].status \in {"200", "400", "500"}
    BY <1>6, <1>a DEF Finishes
  <2>2. ASSUME NEW st \in {"200", "400", "500"}, request[r].status = st
        PROVE  Moves(r, "done", st)
    <3>1. request[r].at = "leaving" /\ turns' = turns - 1
      BY <1>6 DEF Finishes, TokenBack
    <3>2. counted' = [counted EXCEPT ![st] = @ + 1]
      BY <1>6, <2>2 DEF Finishes
    <3>3. request' = [request EXCEPT ![r].at = "done", ![r].status = st]
      BY <1>6, <2>2 DEF Finishes
    <3>4. counted' = [k \in CountKeys |->
            IF k = "ok" THEN counted[k] + One(st = "200") - One(request[r].status = "200")
            ELSE IF k = "error" THEN counted[k] + One(st = "500") - One(request[r].status = "500")
            ELSE counted[k] + One("done" = "done" /\ st = k)
                            - One(request[r].at = "done" /\ request[r].status = k)]
      <4>1. counted' \in [CountKeys -> Int]
        BY <1>a, <2>2, <3>2
      <4>2. /\ counted'[st] = counted[st] + 1
            /\ \A k \in CountKeys : k # st => counted'[k] = counted[k]
        BY <1>a, <2>2, <3>2
      <4>3. ASSUME NEW k \in CountKeys
            PROVE  counted'[k] =
              IF k = "ok" THEN counted[k] + One(st = "200") - One(request[r].status = "200")
              ELSE IF k = "error" THEN counted[k] + One(st = "500") - One(request[r].status = "500")
              ELSE counted[k] + One("done" = "done" /\ st = k)
                              - One(request[r].at = "done" /\ request[r].status = k)
        BY <1>a, <2>2, <3>1, <4>2, <4>3
      <4> QED
        BY <4>1, <4>3
    <3>5. turns' = turns + One("done" \in Inside) - One(request[r].at \in Inside)
      BY <1>a, <3>1
    <3>6. server \in {"up", "closing"} /\ UNCHANGED server
      BY <1>6 DEF Finishes
    <3> QED
      BY <3>3, <3>4, <3>5, <3>6
  <2> QED
    BY <2>1, <2>2
<1> QED
  BY <1>1, <1>2, <1>3, <1>4, <1>5, <1>6

\* The types, of which those of the counts follow from what they count (HttpTurns).
LEMMA HttpTyped ==
  ASSUME HttpInv, HttpNext, SlotsComeBack'
  PROVE  HttpTypeOK'
<1> DEFINE Req == [at : {"unsent", "let", "running", "leaving", "done", "cut"},
                   client : Clients, status : {"none"} \cup Statuses]
<1>a. /\ now \in Times /\ request \in [Requests -> Req]
      /\ bucket \in [Clients -> [started : {-1} \cup Times, count : 0 .. RateLimit]]
      /\ turns \in 0 .. MaxConcurrentTurns /\ MaxConcurrentTurns \in Nat
      /\ counted \in [CountKeys -> Int] /\ StatusFits
      /\ server \in {"up", "closing", "clean", "cut"}
      /\ let \in [Requests -> {-1} \cup Times]
  <2>1. Cardinality(Requests) \in Int /\ MaxConcurrentTurns \in Nat
    BY LimitsAssumption, RequestsAreFew
  <2>2. counted \in [CountKeys -> 0 .. Cardinality(Requests)]
    BY DEF HttpInv, HttpTypeOK, CountKeys
  <2> QED
    BY <2>1, <2>2 DEF HttpInv, HttpTypeOK
<1>b. turns' \in 0 .. MaxConcurrentTurns
  <2>1. CASE server' = "cut"
    BY <1>a, <2>1 DEF HttpNext, Ticks, ShutsDown, Exits, IsStranger, IsLet, IsRateLimited,
       IsTooMany, Acquires, TurnEnds, Finishes, Leaves, Answers, Passes, Alive
  <2>2. CASE server' # "cut"
    <3>1. turns' \in Nat
      <4>1. Holding' \subseteq Requests /\ turns' = Cardinality(Holding')
        BY <2>2 DEF SlotsComeBack, Holding, Inside, With
      <4> QED
        BY <4>1, RequestsAreFew
    <3>2. \/ turns' \in {turns, turns - 1}
          \/ turns < MaxConcurrentTurns /\ turns' = turns + 1
      BY DEF HttpNext, Ticks, ShutsDown, Exits, IsStranger, IsLet, IsRateLimited,
         IsTooMany, Acquires, TurnEnds, Finishes, TokenBack
    <3> QED
      BY <1>a, <3>1, <3>2
  <2> QED
    BY <2>1, <2>2
<1>c. /\ request' \in [Requests -> Req]
      /\ counted' \in [CountKeys -> Int]
  <2>1. CASE Ticks \/ ShutsDown
    BY <1>a, <2>1 DEF Ticks, ShutsDown
  <2>2. CASE Exits
    <3>1. UNCHANGED counted
      BY <2>2 DEF Exits
    <3>2. \A r \in Requests : [request[r] EXCEPT !.at = "cut"] \in Req
      BY <1>a
    <3>3. \/ request' = request
          \/ request' = [r \in Requests |-> IF request[r].at \in {"unsent", "done"} THEN request[r]
                                            ELSE [request[r] EXCEPT !.at = "cut"]]
      BY <2>2 DEF Exits
    <3> HIDE DEF Req
    <3> QED
      BY <1>a, <3>1, <3>2, <3>3
  <2>3. ASSUME NEW r \in Requests, NEW at \in {"let", "running", "leaving", "done"},
               NEW st \in {"none"} \cup Statuses, Moves(r, at, st)
        PROVE  request' \in [Requests -> Req] /\ counted' \in [CountKeys -> Int]
    <3>1. request' \in [Requests -> Req]
      BY <1>a, <2>3 DEF Moves
    <3>2. counted' \in [CountKeys -> Int]
      <4>1. \A p : One(p) \in Int
        BY DEF One
      <4> QED
        BY <1>a, <2>3, <4>1 DEF Moves
    <3> QED
      BY <3>1, <3>2
  <2> HIDE DEF Req
  <2> QED
    BY <2>1, <2>2, <2>3, HandlersMove DEF HttpNext
<1>d. counted' \in [CountKeys -> 0 .. Cardinality(Requests)]
  <2>1. \A k : WithStatus(k)' \subseteq Requests /\ Answered(k)' \subseteq Requests
    BY DEF WithStatus, Answered, With
  <2>2. \A k \in CountKeys : \E S : S \subseteq Requests /\ counted'[k] = Cardinality(S)
    BY <2>1 DEF SlotsComeBack, CountKeys, Answered
  <2>3. \A k \in CountKeys : counted'[k] \in 0 .. Cardinality(Requests)
    <3> SUFFICES ASSUME NEW k \in CountKeys PROVE counted'[k] \in 0 .. Cardinality(Requests)
      OBVIOUS
    <3>1. PICK S : S \subseteq Requests /\ counted'[k] = Cardinality(S)
      BY <2>2
    <3>2. Cardinality(S) \in Nat /\ Cardinality(S) <= Cardinality(Requests)
      BY <3>1, RequestsAreFew
    <3>3. Cardinality(Requests) \in Nat
      BY RequestsAreFew
    <3> QED
      BY <3>1, <3>2, <3>3
  <2> QED
    BY <1>c, <2>3
<1>e. /\ now' \in Times /\ server' \in {"up", "closing", "clean", "cut"}
      /\ bucket' \in [Clients -> [started : {-1} \cup Times, count : 0 .. RateLimit]]
      /\ let' \in [Requests -> {-1} \cup Times]
  <2>1. CASE Ticks
    <3>1. now + 1 \in Times
      BY <2>1, <1>a, LimitsAssumption DEF Ticks, Times
    <3> QED
      BY <1>a, <2>1, <3>1 DEF Ticks
  <2>2. CASE \E r \in Requests : IsLet(r)
    <3>1. PICK r \in Requests : IsLet(r)
      BY <2>2
    <3> DEFINE c == request[r].client
               b == bucket[c]
    <3>2. c \in Clients
      BY <1>a
    <3>3. WindowOver(b) \/ b.count + 1 \in 0 .. RateLimit
      BY <1>a, <3>1, <3>2, LimitsAssumption DEF IsLet, Exhausted
    <3>4. 1 \in 0 .. RateLimit
      BY LimitsAssumption
    <3>5. (IF WindowOver(b) THEN [started |-> now, count |-> 1] ELSE [b EXCEPT !.count = @ + 1])
            \in [started : {-1} \cup Times, count : 0 .. RateLimit]
      BY <1>a, <3>2, <3>3, <3>4
    <3>6. UNCHANGED <<now, server>> /\ let' = [let EXCEPT ![r] = now]
          /\ bucket' = [bucket EXCEPT ![c] = IF WindowOver(b) THEN [started |-> now, count |-> 1]
                                             ELSE [b EXCEPT !.count = @ + 1]]
      BY <3>1 DEF IsLet
    <3> HIDE DEF b, c
    <3> QED
      BY <1>a, <3>2, <3>5, <3>6
  <2>3. CASE /\ UNCHANGED <<now, bucket, let>> /\ server' \in {"up", "closing", "clean", "cut"}
    BY <1>a, <2>3
  <2> QED
    BY <1>a, <2>1, <2>2, <2>3 DEF HttpNext, ShutsDown, Exits, IsStranger, IsRateLimited, IsTooMany,
       Acquires, TurnEnds, Finishes
<1> QED
  BY <1>b, <1>c, <1>d, <1>e DEF HttpTypeOK, CountKeys

\* Every step of the server (Handler, listen).
LEMMA HttpGoesOn == HttpInv /\ [HttpNext]_httpVars => HttpInv'
<1> SUFFICES ASSUME HttpInv, [HttpNext]_httpVars PROVE HttpInv'
  OBVIOUS
<1>1. CASE UNCHANGED httpVars
  <2>1. UNCHANGED <<now, request, bucket, turns, counted, server, let>>
    BY <1>1 DEF httpVars
  <2>2. HttpTypeOK'
    BY <2>1 DEF HttpInv, HttpTypeOK
  <2>3. StatusFits' /\ SlotsComeBack'
    BY <2>1 DEF HttpInv, StatusFits, SlotsComeBack, With, WithStatus
  <2>4. AllWindowed'
    BY <2>1, WindowsRest
  <2> QED
    BY <2>2, <2>3, <2>4 DEF HttpInv
<1>2. CASE HttpNext
  <2>a. /\ now \in Nat /\ request \in [Requests ->
             [at : {"unsent", "let", "running", "leaving", "done", "cut"},
              client : Clients, status : {"none"} \cup Statuses]]
        /\ StatusFits
        /\ let \in [Requests -> {-1} \cup Times]
    BY DEF HttpInv, HttpTypeOK, Times
  \* What becomes of the requests: nothing, one moves on, or those in flight are cut.
  <2>1. /\ SlotsComeBack' /\ StatusFits'
        /\ \A r \in Requests : request'[r].client = request[r].client
    <3>1. CASE Ticks \/ ShutsDown
      <4>1. UNCHANGED <<request, turns, counted, let>> /\ (server' # "cut" => server # "cut")
        BY <3>1 DEF Ticks, ShutsDown
      <4>2. StatusFits'
        BY <2>a, <4>1 DEF StatusFits
      <4>3. \A X : With(X)' = With(X) /\ WithStatus(X)' = WithStatus(X)
        BY <4>1 DEF With, WithStatus
      <4> QED
        BY <4>1, <4>2, <4>3 DEF HttpInv, SlotsComeBack
    <3>2. CASE Exits
      <4>1. /\ UNCHANGED <<turns, counted, let>>
            /\ server = "closing"
            /\ request' = request \/ server' = "cut"
            /\ \A r \in Requests :
                 \/ request'[r] = request[r]
                 \/ /\ request[r].at \notin {"unsent", "done"} /\ request'[r].at = "cut"
                    /\ request'[r].client = request[r].client
                    /\ request'[r].status = request[r].status
        BY <2>a, <3>2 DEF Exits
      <4>2. StatusFits'
        BY <2>a, <4>1 DEF StatusFits
      <4>3. \A k : WithStatus(k)' = WithStatus(k) /\ With({"done"})' = With({"done"})
        BY <4>1 DEF WithStatus, With
      <4>4. server' # "cut" => With({"running", "leaving"})' = With({"running", "leaving"})
        BY <4>1 DEF With
      <4> QED
        BY <4>1, <4>2, <4>3, <4>4 DEF HttpInv, SlotsComeBack
    <3>3. ASSUME NEW r \in Requests,
                 \/ IsStranger(r) \/ IsLet(r) \/ IsRateLimited(r) \/ IsTooMany(r) \/ Acquires(r)
                 \/ TurnEnds(r) \/ Finishes(r)
          PROVE  /\ SlotsComeBack' /\ StatusFits'
                 /\ \A q \in Requests : request'[q].client = request[q].client
      <4>1. SlotsComeBack'
        BY <3>3, HandlersMove, SlotsMove
      <4>2. /\ \A q \in Requests : q # r => request'[q] = request[q] /\ let'[q] = let[q]
            /\ request'[r].client = request[r].client
            /\ request'[r].at # "unsent"
            /\ request'[r].at \in {"let", "running"} => request'[r].status = "none"
            /\ request'[r].at = "leaving" => request'[r].status \in {"200", "400", "500"}
        BY <2>a, <3>3 DEF IsStranger, IsLet, IsRateLimited, IsTooMany, Acquires, TurnEnds,
           Finishes, Leaves, Answers, Passes, StatusFits
      <4>3. StatusFits'
        BY <2>a, <4>2 DEF StatusFits
      <4> QED
        BY <4>1, <4>2, <4>3
    <3> QED
      BY <1>2, <3>1, <3>2, <3>3 DEF HttpNext
  <2>2. AllWindowed'
    <3>1. CASE UNCHANGED <<let, bucket>> /\ now' \in {now, now + 1}
      BY <2>1, <3>1, WindowsRest
    <3>2. CASE \E r \in Requests : IsLet(r)
      BY <3>2, WindowsFill
    <3> QED
      BY <1>2, <3>1, <3>2 DEF HttpNext, Ticks, ShutsDown, Exits, IsStranger, IsRateLimited,
         IsTooMany, Acquires, TurnEnds, Finishes
  <2> QED
    BY <1>2, <2>1, <2>2, HttpTyped DEF HttpInv
<1> QED
  BY <1>1, <1>2

LEMMA HttpBegins == HttpInit => HttpInv
<1> SUFFICES ASSUME HttpInit PROVE HttpInv
  OBVIOUS
<1> USE LimitsAssumption
<1>1. /\ \A r \in Requests : request[r].at = "unsent" /\ request[r].status = "none" /\ let[r] = -1
      /\ \A c \in Clients : bucket[c].started = -1 /\ bucket[c].count = 0
      /\ now = 0 /\ turns = 0 /\ \A k \in CountKeys : counted[k] = 0
  BY DEF HttpInit, CountKeys
<1>2. \A S \in {With({"running", "leaving"}), With({"done"})} : S = {}
  BY <1>1 DEF With
<1>3. \A k \in Statuses \cup {"200", "500"} : WithStatus(k) = {}
  BY <1>1 DEF WithStatus, Statuses
<1>4. SlotsComeBack
  BY <1>1, <1>2, <1>3, FS_EmptySet DEF SlotsComeBack, CountKeys, Statuses
<1>5. HttpTypeOK
  <2>1. 0 \in 0 .. Cardinality(Requests)
    BY RequestsAreFew
  <2>2. counted \in [CountKeys -> 0 .. Cardinality(Requests)]
    BY <2>1 DEF HttpInit, CountKeys
  <2>3. 0 \in Times /\ 0 \in 0 .. RateLimit /\ 0 \in 0 .. MaxConcurrentTurns
    BY DEF Times
  <2>4. request \in [Requests -> [at : {"unsent", "let", "running", "leaving", "done", "cut"},
                                  client : Clients, status : {"none"} \cup Statuses]]
    BY DEF HttpInit
  <2> QED
    BY <2>2, <2>3, <2>4 DEF HttpInit, HttpTypeOK, CountKeys
<1>6. AllWindowed
  <2>1. \A c \in Clients, t \in Times : LetBetween(c, t, t + RateWindow) = {}
    BY <1>1 DEF LetBetween, Times
  <2>2. \A c \in Clients, t \in Times : Cardinality(LetBetween(c, t, t + RateWindow)) = 0
    BY <2>1, FS_EmptySet
  <2>3. 0 < 2 * RateLimit
    OBVIOUS
  <2> QED
    BY <1>1, <2>2, <2>3 DEF AllWindowed, Windowed
<1>7. StatusFits
  BY <1>1 DEF StatusFits
<1> QED
  BY <1>4, <1>5, <1>6, <1>7 DEF HttpInv

-----------------------------------------------------------------------------
(* The front ends together.                                                *)

FrontEndsInv == SessionInv /\ HttpInv /\ TelegramInv

LEMMA FrontEndsGoOn == FrontEndsInv /\ [Next]_allVars => FrontEndsInv'
  BY SessionsGoOn, HttpGoesOn, TelegramGoesOn DEF FrontEndsInv, Next, allVars

LEMMA FrontEndsHold == Spec => []FrontEndsInv
<1>1. Init => FrontEndsInv
  BY SessionsBegin, HttpBegins, TelegramBegins DEF Init, FrontEndsInv
<1> QED
  BY <1>1, FrontEndsGoOn, PTL DEF Spec

\* Every variable of the front ends keeps its type.
THEOREM FrontEndsTypeCorrect == Spec => []TypeOK
<1>1. FrontEndsInv => TypeOK
  BY DEF FrontEndsInv, SessionInv, HttpInv, TelegramInv, TypeOK
<1> QED
  BY <1>1, FrontEndsHold, PTL

\* However requests arrive, no stretch of time as long as a window sees twice the limit,
\* and no window of a client more than the limit (httpapi/server.go: allow).
THEOREM RateIsLimited == Spec => []RateHolds
<1>1. FrontEndsInv => RateHolds
  BY WindowsImplyRate DEF FrontEndsInv
<1> QED
  BY <1>1, FrontEndsHold, PTL

\* Every token of the semaphore comes back, and every turn and response is counted once
\* (httpapi/server.go: limited, observed; metrics).
THEOREM SlotsAreReturned == Spec => []SlotsComeBack
<1>1. FrontEndsInv => SlotsComeBack
  BY DEF FrontEndsInv, HttpInv
<1> QED
  BY <1>1, FrontEndsHold, PTL

\* No update is forgotten unhandled, none but those in hand at a stop signal with only a
\* cancelled context, and none is handled more often than once and once for each lapse
\* (cmd/nemuz/channel.go: run).
THEOREM NoUpdateIsLost == Spec => []UpdatesAreHandled
<1>1. FrontEndsInv => UpdatesAreHandled
  BY DEF FrontEndsInv, TelegramInv, BotsOffset, HandledBelow, Dealt, UpdatesAreHandled
<1> QED
  BY <1>1, FrontEndsHold, PTL

\* Only owners, and users whose live code somebody entered, are let in
\* (cmd/nemuz/pairing.go: authorizePairCode).
THEOREM OnlyThePairedAreServed == Spec => []PairedByLiveCode
<1>1. FrontEndsInv => PairedByLiveCode
  BY DEF FrontEndsInv, TelegramInv
<1> QED
  BY <1>1, FrontEndsHold, PTL
=============================================================================
