----------------------------- MODULE ReviewLedger ----------------------------
(***************************************************************************)
(* The ledger of what has been asked of a model recently (internal/review/ *)
(* ledger.go): the reviewer keeps the shapes of the turns it has reviewed  *)
(* in reviewed.txt, the consolidator the pairs it has compared in          *)
(* consolidated.txt.  A run opens the ledger, reads the file once and from *)
(* then on writes what it has in memory over whatever is there.  A shape   *)
(* is recorded before anything is asked about it.                          *)
(***************************************************************************)
EXTENDS Integers, Sequences, FiniteSets, SequencesExt

CONSTANTS
  Reviewers,    \* processes that ask: nemuz run, chat, skill consolidate ...
  Shapes,       \* fingerprints
  LedgerSize,   \* fingerprints the ledger remembers
  MaxRecorded   \* Bound: shapes recorded in all.

ASSUME LedgerAssumption ==
  /\ IsFiniteSet(Reviewers)
  /\ LedgerSize \in Nat \ {0} /\ MaxRecorded \in Nat

VARIABLES
  ledger,    \* the file, newest last
  asking,    \* where each process is
  loaded,    \* it has read the file
  entries,   \* what it has in memory
  about,     \* the shape it is about to record, if any
  noted,     \* history: the shapes recorded, in order
  position,  \* history: where in noted stands what each process is about to ask
  asked,     \* history: where in noted stand the shapes a model was asked about
  behind,    \* history: processes that read the file before another's last write to it
  collided   \* history: one of them wrote over that

ledgerVars == <<ledger, asking, loaded, entries, about, noted, position, asked,
                behind, collided>>

LedgerTypeOK ==
  /\ ledger \in Seq(Shapes) /\ Len(ledger) <= LedgerSize
  /\ asking \in [Reviewers -> {"idle", "flush", "recorded"}]
  /\ loaded \in [Reviewers -> BOOLEAN]
  /\ entries \in [Reviewers -> Seq(Shapes)]
  /\ \A r \in Reviewers : Len(entries[r]) <= LedgerSize
  /\ about \in [Reviewers -> SUBSET Shapes]
  /\ noted \in Seq(Shapes) /\ Len(noted) <= MaxRecorded
  /\ position \in [Reviewers -> 0 .. Len(noted)]
  /\ asked \subseteq 1 .. Len(noted)
  /\ behind \subseteq Reviewers /\ collided \in BOOLEAN

LedgerInit ==
  /\ ledger = <<>>
  /\ asking = [r \in Reviewers |-> "idle"]
  /\ loaded = [r \in Reviewers |-> FALSE]
  /\ entries = [r \in Reviewers |-> <<>>]
  /\ about = [r \in Reviewers |-> {}]
  /\ noted = <<>>
  /\ position = [r \in Reviewers |-> 0]
  /\ asked = {}
  /\ behind = {} /\ collided = FALSE

\* Mutants of Trimmed: nothing is dropped, or the newest instead of the oldest.
TrimmedNever(s) == s
TrimmedNewest(s) == IF Len(s) <= LedgerSize THEN s ELSE SubSeq(s, 1, LedgerSize)

\* What of a longer list is kept.
Trimmed(s) ==
  IF Len(s) <= LedgerSize THEN s ELSE SubSeq(s, Len(s) - LedgerSize + 1, Len(s))

\* load: the file is read once per run.  One that cannot be read ends the run.
Entries(r) == IF loaded[r] THEN entries[r] ELSE Trimmed(ledger)
Loads(r) == loaded' = [loaded EXCEPT ![r] = TRUE]
Goes(r, place, shapes) ==
  /\ asking' = [asking EXCEPT ![r] = place]
  /\ about' = [about EXCEPT ![r] = shapes]

\* Seen: a shape that is remembered is skipped.
Skips(r, shape) ==
  /\ asking[r] = "idle"
  /\ shape \in ToSet(Entries(r))
  /\ Loads(r)
  /\ entries' = [entries EXCEPT ![r] = Entries(r)]
  /\ UNCHANGED <<ledger, asking, about, noted, position, asked, behind, collided>>

\* Record, before anything is asked.
Records(r, shape) ==
  /\ asking[r] = "idle"
  /\ Len(noted) + Cardinality({o \in Reviewers : asking[o] = "flush"}) < MaxRecorded
  /\ shape \notin ToSet(Entries(r))
  /\ Loads(r)
  /\ entries' = [entries EXCEPT ![r] = Trimmed(Append(Entries(r), shape))]
  /\ Goes(r, "flush", {shape})
  /\ UNCHANGED <<ledger, noted, position, asked, behind, collided>>

\* flush renames a new file into place.
Flushes(r) ==
  \E shape \in about[r] :
    /\ asking[r] = "flush"
    /\ ledger' = entries[r]
    /\ noted' = Append(noted, shape)
    /\ position' = [position EXCEPT ![r] = Len(noted')]
    /\ collided' = (collided \/ r \in behind)
    /\ behind' = {o \in Reviewers : loaded[o]} \ {r}
    /\ Goes(r, "recorded", {})
    /\ UNCHANGED <<loaded, entries, asked>>

\* The model is asked.  Its answer, or that it failed, changes nothing here.
Asks(r) ==
  /\ asking[r] = "recorded"
  /\ asked' = asked \cup {position[r]}
  /\ position' = [position EXCEPT ![r] = 0]
  /\ Goes(r, "idle", {})
  /\ UNCHANGED <<ledger, loaded, entries, noted, behind, collided>>

\* A run is over, and what it had in memory is gone with it.
Closes(r) ==
  /\ Goes(r, "idle", {})
  /\ loaded' = [loaded EXCEPT ![r] = FALSE]
  /\ entries' = [entries EXCEPT ![r] = <<>>]
  /\ position' = [position EXCEPT ![r] = 0]
  /\ behind' = behind \ {r}
  /\ UNCHANGED <<ledger, noted, asked, collided>>

\* A flush that fails ends the run.
FlushFails(r) == asking[r] = "flush" /\ Closes(r)

\* The journal of the question cannot be created: the run ends, and what it
\* recorded stays recorded.
FailsToAsk(r) == asking[r] = "recorded" /\ Closes(r)

\* The run is through, or the process is killed.
Ends(r) == loaded[r] /\ Closes(r)

LedgerNext ==
  \E r \in Reviewers :
    \/ \E shape \in Shapes : Skips(r, shape) \/ Records(r, shape)
    \/ Flushes(r) \/ FlushFails(r) \/ Asks(r) \/ FailsToAsk(r) \/ Ends(r)

\* Two questions about one shape are LedgerSize recordings apart (ledger.go),
\* however many runs take turns, those included whose question was never asked --
\* until a run writes over what another has written since it read the file.
AskedOnceWhileRemembered ==
  ~collided =>
    \A i, j \in asked : i < j /\ noted[i] = noted[j] => j - i > LedgerSize
=============================================================================
