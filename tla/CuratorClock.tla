----------------------------- MODULE CuratorClock ----------------------------
(***************************************************************************)
(* When the curator runs (internal/curator, cmd/nemuz/curate.go): after a  *)
(* turn when it is due, or on `nemuz skill curate', with --force or        *)
(* --dry-run, unless somebody has paused it.  curator.json holds when it   *)
(* last ran and whether it is paused; every program reads and rewrites it  *)
(* without a lock, by os.WriteFile, which empties the file first.          *)
(*                                                                         *)
(* What a run does to the skills is in Skills; here it takes a while, and  *)
(* ends well or not.                                                       *)
(***************************************************************************)
EXTENDS Integers, FiniteSets

CONSTANTS
  Curators,     \* programs that may curate
  MinInterval,  \* the shortest gap between runs
  MaxTime,      \* Bound: the clock.
  MaxPauses     \* Bound: pauses and resumptions.

ASSUME ClockAssumption ==
  /\ MinInterval \in Nat \ {0}
  /\ MaxTime \in Nat /\ MaxPauses \in Nat

VARIABLES
  now,       \* the clock
  state,     \* curator.json
  curating,  \* where each program is
  began,     \* when its run began: the report's RanAt
  recording, \* it records that it ran when it is through
  content,   \* what it is about to write to curator.json
  pauses,    \* pauses and resumptions so far, for the bound only
  paused,    \* history: the operator's last word
  ran,       \* history: when the run that was recorded last began
  outdated,  \* history: programs about to repeat what curator.json said while it
             \* was empty, or before another changed just that
  lost       \* history: which of the two such a program wrote over since it was
             \* last set: the pause, the last run

clockVars == <<now, state, curating, began, recording, content, pauses, paused, ran,
               outdated, lost>>

Boss == "operator"
ASSUME BossAssumption == Boss \notin Curators

Writers == Curators \cup {Boss}
Never == -1
Times == 0 .. MaxTime
Content == [last : Times \cup {Never}, paused : BOOLEAN]
Fresh == [last |-> Never, paused |-> FALSE]
Missing == [file |-> "none", content |-> Fresh]
Emptied == [file |-> "torn", content |-> Fresh]
Kept(c) == [file |-> "whole", content |-> c]

ClockTypeOK ==
  /\ now \in Times
  /\ state \in {Missing, Emptied} \cup {Kept(c) : c \in Content}
  /\ curating \in [Writers -> {"idle", "due", "running", "truncate", "write"}]
  /\ began \in [Curators -> Times \cup {Never}]
  /\ recording \in [Curators -> BOOLEAN]
  /\ content \in [Writers -> Content]
  /\ pauses \in 0 .. MaxPauses
  /\ paused \in BOOLEAN
  /\ ran \in Times \cup {Never}
  /\ outdated \subseteq Writers /\ lost \subseteq {"pause", "run"}

ClockInit ==
  /\ now = 0
  /\ state = Missing
  /\ curating = [w \in Writers |-> "idle"]
  /\ began = [c \in Curators |-> Never]
  /\ recording = [c \in Curators |-> FALSE]
  /\ content = [w \in Writers |-> Fresh]
  /\ pauses = 0
  /\ paused = FALSE
  /\ ran = Never
  /\ outdated = {} /\ lost = {}

Ticks ==
  /\ now < MaxTime
  /\ now' = now + 1
  /\ UNCHANGED <<state, curating, began, recording, content, pauses, paused, ran, outdated, lost>>

\* State.Read: a missing file and one that cannot be decoded both say never
\* run, not paused.
Told == state.content

\* Due.
IsDue ==
  /\ ~Told.paused
  /\ Told.last = Never \/ now - Told.last >= MinInterval

At(w, place) == curating' = [curating EXCEPT ![w] = place]

\* w is through with curator.json, and with its run.
Rests(w) ==
  /\ At(w, "idle")
  /\ began' = [c \in Curators |-> IF c = w THEN Never ELSE began[c]]
  /\ recording' = [c \in Curators |-> c # w /\ recording[c]]
  /\ content' = [content EXCEPT ![w] = Fresh]

\* A run that lists the skills and looks at each.
RunBegins(c, records) ==
  /\ At(c, "running")
  /\ began' = [began EXCEPT ![c] = now]
  /\ recording' = [recording EXCEPT ![c] = records]
  /\ UNCHANGED <<now, state, content, pauses, paused, ran, outdated, lost>>

\* curateIfDue, after a turn, asks whether a run is due; then Run asks again.
TurnIsOver(c) ==
  /\ curating[c] = "idle"
  /\ IsDue
  /\ At(c, "due")
  /\ UNCHANGED <<now, state, began, recording, content, pauses, paused, ran, outdated, lost>>

RunsAfterTurn(c) ==
  /\ curating[c] = "due"
  /\ IsDue
  /\ RunBegins(c, TRUE)

NoLongerDue(c) ==
  /\ curating[c] = "due"
  /\ ~IsDue
  /\ At(c, "idle")
  /\ UNCHANGED <<now, state, began, recording, content, pauses, paused, ran, outdated, lost>>

\* nemuz skill curate, and with --dry-run.
Curates(c, dryRun) ==
  /\ curating[c] = "idle"
  /\ IsDue
  /\ RunBegins(c, ~dryRun)

\* --force drops the state once it has seen that curation is not paused: the
\* run is neither held back by the interval nor recorded.
CuratesByForce(c) ==
  /\ curating[c] = "idle"
  /\ ~Told.paused
  /\ RunBegins(c, FALSE)

\* w has read what it is to write back.
ReadsState(w) ==
  outdated' = (IF state.file = "torn" THEN outdated \cup {w} ELSE outdated \ {w})

\* Mutant of Recorded: the file is written anew, without the pause.
RecordedAnew(c) == [last |-> began[c], paused |-> FALSE]

\* What RecordRun writes: the file is read again for the pause.
Recorded(c) == [last |-> began[c], paused |-> Told.paused]

\* Every skill is dealt with, and the run is recorded.
RunEnds(c) ==
  /\ curating[c] = "running"
  /\ IF recording[c]
     THEN /\ At(c, "truncate")
          /\ content' = [content EXCEPT ![c] = Recorded(c)]
          /\ ReadsState(c)
          /\ UNCHANGED <<began, recording>>
     ELSE Rests(c) /\ UNCHANGED outdated
  /\ UNCHANGED <<now, state, pauses, paused, ran, lost>>

\* A transition fails, and the run is not recorded.
RunFails(c) ==
  /\ curating[c] = "running"
  /\ Rests(c)
  /\ UNCHANGED <<now, state, pauses, paused, ran, outdated, lost>>

\* nemuz skill curate --pause and --resume: SetPaused reads the file for the
\* last run, and writes both.
SetsPaused(b) ==
  /\ curating[Boss] = "idle"
  /\ pauses < MaxPauses
  /\ pauses' = pauses + 1
  /\ At(Boss, "truncate")
  /\ content' = [content EXCEPT ![Boss] = [last |-> Told.last, paused |-> b]]
  /\ ReadsState(Boss)
  /\ UNCHANGED <<now, state, began, recording, paused, ran, lost>>

\* os.WriteFile.
Truncate(w) ==
  /\ curating[w] = "truncate"
  /\ state' = Emptied
  /\ At(w, "write")
  /\ UNCHANGED <<now, began, recording, content, pauses, paused, ran, outdated, lost>>

\* Between reading the file and writing it.
Rewriting(w) == curating[w] \in {"truncate", "write"}

\* The operator sets the pause and repeats the last run; a curator the other way
\* round.
Write(w) ==
  /\ curating[w] = "write"
  /\ state' = Kept(content[w])
  /\ Rests(w)
  /\ IF w = Boss
     THEN /\ paused' = content[w].paused
          /\ outdated' = (outdated \ {w}) \cup {c \in Curators : Rewriting(c)}
          /\ lost' = (lost \ {"pause"}) \cup (IF w \in outdated THEN {"run"} ELSE {})
          /\ UNCHANGED ran
     ELSE /\ ran' = began[w]
          /\ outdated' = (outdated \ {w}) \cup (IF Rewriting(Boss) THEN {Boss} ELSE {})
          /\ lost' = (lost \ {"run"}) \cup (IF w \in outdated THEN {"pause"} ELSE {})
          /\ UNCHANGED paused
  /\ UNCHANGED <<now, pauses>>

\* A program is killed, perhaps with the file empty.
Killed(w) ==
  /\ curating[w] # "idle"
  /\ Rests(w)
  /\ outdated' = outdated \ {w}
  /\ UNCHANGED <<now, state, pauses, paused, ran, lost>>

ClockNext ==
  \/ Ticks
  \/ \E c \in Curators :
       \/ TurnIsOver(c) \/ RunsAfterTurn(c) \/ NoLongerDue(c)
       \/ \E dryRun \in BOOLEAN : Curates(c, dryRun)
       \/ CuratesByForce(c)
       \/ RunEnds(c) \/ RunFails(c)
  \/ \E b \in BOOLEAN : SetsPaused(b)
  \/ \E w \in Writers : Truncate(w) \/ Write(w) \/ Killed(w)

\* A run of c begins.
Begins(c) == curating[c] # "running" /\ curating'[c] = "running"

\* Nothing is curated while the operator's last word was to pause, and a run that
\* is neither forced nor dry does not begin within the interval of the run recorded
\* last, whatever pauses, runs and deaths come between: each of the two commands keeps
\* what the other wrote.  Not so for a program that reads curator.json while it is
\* empty (os.WriteFile is at it, or died there), nor for a pause or a run that was
\* written over by a program that had read the file empty, or before it was set --
\* until it is set again.  Two runs that were both due are not kept apart.
CuratesWhenItMay ==
  [][\A c \in Curators :
       Begins(c) /\ state.file # "torn" =>
         /\ "pause" \notin lost => ~paused
         /\ "run" \notin lost /\ ran # Never /\ now - ran < MinInterval => ~recording'[c]]_clockVars
=============================================================================
