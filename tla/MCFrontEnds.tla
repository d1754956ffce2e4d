----------------------------- MODULE MCFrontEnds -----------------------------
(* Three front ends of the agent, which share no state when their turns are left *)
(* out: a behaviour is of one of them, and the others rest.                      *)
EXTENDS AcpSessions, HttpTurns, TelegramBot

allVars == <<acpVars, httpVars, telegramVars>>

Init == AcpInit /\ HttpInit /\ TelegramInit

\* Nothing of the component has happened yet.
AcpFresh == sessions = {} /\ serving = "reading" /\ \A p \in Prompts : prompt[p] = Unsent
HttpFresh == now = 0 /\ server = "up" /\ \A r \in Requests : request[r].at = "unsent"
TelegramFresh == from = [u \in Updates |-> CHOOSE v \in Users : TRUE]
                 /\ posted = 0 /\ bot = BotOff /\ allowed = Owners /\ edit = Nobody /\ lapses = 0

Next ==
  \/ AcpNext /\ HttpFresh /\ TelegramFresh /\ UNCHANGED <<httpVars, telegramVars>>
  \/ HttpNext /\ AcpFresh /\ TelegramFresh /\ UNCHANGED <<acpVars, telegramVars>>
  \/ TelegramNext /\ AcpFresh /\ HttpFresh /\ UNCHANGED <<acpVars, httpVars>>

Spec == Init /\ [][Next]_allVars

TypeOK == AcpTypeOK /\ HttpTypeOK /\ TelegramTypeOK
=============================================================================
