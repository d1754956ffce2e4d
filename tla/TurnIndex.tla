------------------------------ MODULE TurnIndex ------------------------------
(***************************************************************************)
(* internal/index: the search index, an SQLite file derived from the       *)
(* journal, and the processes that fill it - indexTurn after each turn,    *)
(* `nemuz index rebuild', each in a process of its own.                    *)
(*                                                                         *)
(* Removing the database file unlinks it under the processes that have it  *)
(* open: what they commit afterwards is in a file nobody will open again.  *)
(* `db' counts the files there have been under the name.                   *)
(***************************************************************************)
EXTENDS RecordedTurns, FiniteSetsExt

CONSTANTS
  Indexers,    \* processes that may be filling the index at one time
  MaxCommands  \* Bound: how many commands, theirs and the operators', are started

ASSUME MaxCommandsAssumption == MaxCommands \in Nat

VARIABLES
  rows,     \* per turn, the row in the database file now under the name
  db,       \* which database file that is
  scan,     \* per indexer: what it is doing
  commands  \* commands started so far, for the bound only

indexVars == <<rows, db, scan>>

None == [content |-> "none", big |-> FALSE]
Row == [prompt : Body \cup {None}, answer : Body \cup {None},
        errored : BOOLEAN, ended : BOOLEAN, there : {TRUE}]
NoRow == [prompt |-> None, answer |-> None, errored |-> FALSE, ended |-> FALSE, there |-> FALSE]
NoRows == [t \in Turns |-> NoRow]

Idle == [pc |-> "idle", todo |-> {}, db |-> 0, found |-> NoRows]

IndexTypeOK ==
  /\ rows \in [Turns -> Row \cup {NoRow}]
  /\ db \in Nat
  /\ commands \in 0 .. MaxCommands
  /\ \A i \in Indexers :
       /\ scan[i].pc \in {"idle", "turn", "rebuild"}
       /\ scan[i].todo \subseteq Turns
       /\ scan[i].found \in [Turns -> Row \cup {NoRow}]

\* ReadTurn.  An event whose payload is missing costs its field, not the row; the
\* last answer stands.
FieldOf(lines, kind) ==
  LET found == {n \in DOMAIN lines : lines[n].kind = kind /\ Available(lines[n])}
  IN  IF found = {} THEN None ELSE lines[Max(found)].body

RowOf(lines) ==
  [prompt |-> FieldOf(lines, "turn.start"), answer |-> FieldOf(lines, "model.response"),
   errored |-> FieldOf(lines, "error") # None, ended |-> FieldOf(lines, "turn.end") # None,
   there |-> TRUE]

\* What has been recorded has been indexed.
IndexInit ==
  /\ rows = [t \in Turns |-> IF t \in Recorded THEN RowOf(file[t].lines) ELSE NoRow]
  /\ db = 1
  /\ commands = 0
  /\ scan = [i \in Indexers |-> Idle]

\* Open finds the database file or makes one with the current schema.
IndexTurnBegins(i, t) ==
  /\ scan[i].pc = "idle" /\ commands < MaxCommands
  /\ commands' = commands + 1
  /\ writer[t].state = "closed" /\ writer[t].last = "turn.end" /\ file[t].present
  /\ scan' = [scan EXCEPT ![i] = [Idle EXCEPT !.pc = "turn", !.todo = {t}, !.db = db]]
  /\ UNCHANGED <<rows, db>>

\* A rebuild holds SQLite's write lock from its first DELETE to its commit.
Rebuilding(i) == scan[i].pc = "rebuild" /\ scan[i].db = db
Locked == \E i \in Indexers : Rebuilding(i)

RebuildBegins(i) ==
  /\ scan[i].pc = "idle" /\ ~Locked /\ commands < MaxCommands
  /\ commands' = commands + 1
  /\ scan' = [scan EXCEPT ![i] = [Idle EXCEPT !.pc = "rebuild", !.db = db,
                                             !.todo = {t \in Turns : file[t].present}]]
  /\ UNCHANGED <<rows, db>>

\* One journal is read.  One that is refused, or empty, is skipped.
Reads(i) ==
  /\ scan[i].todo # {}
  /\ LET t == Min(scan[i].todo)
         row == IF Readable(t) /\ file[t].lines # <<>> THEN RowOf(file[t].lines) ELSE NoRow
     IN  scan' = [scan EXCEPT ![i].todo = @ \ {t}, ![i].found[t] = row]
  /\ UNCHANGED <<rows, db, commands>>

\* Ingest: the turn's row is replaced, if there is something to put in its place.
IngestCommits(i) ==
  /\ scan[i].pc = "turn" /\ scan[i].todo = {} /\ ~Locked
  /\ rows' = IF scan[i].db = db
             THEN [t \in Turns |-> IF scan[i].found[t] = NoRow THEN rows[t] ELSE scan[i].found[t]]
             ELSE rows
  /\ scan' = [scan EXCEPT ![i] = Idle]
  /\ UNCHANGED <<db, commands>>

\* Rebuild: every row is replaced, in one transaction.
RebuildCommits(i) ==
  /\ scan[i].pc = "rebuild" /\ scan[i].todo = {}
  /\ rows' = IF scan[i].db = db THEN scan[i].found ELSE rows
  /\ scan' = [scan EXCEPT ![i] = Idle]
  /\ UNCHANGED <<db, commands>>

\* Busy for longer than busy_timeout, cancelled, or dead: nothing was committed.
GivesUp(i) ==
  /\ scan[i].pc # "idle"
  /\ scan' = [scan EXCEPT ![i] = Idle]
  /\ UNCHANGED <<rows, db, commands>>

IndexerStep(i) ==
  \/ \E t \in Turns : IndexTurnBegins(i, t)
  \/ RebuildBegins(i)
  \/ Reads(i)
  \/ IngestCommits(i)
  \/ RebuildCommits(i)
  \/ GivesUp(i)

\* os.Remove of the database and its -wal and -shm files.
RemoveIndex ==
  /\ rows' = NoRows
  /\ db' = db + 1
  /\ UNCHANGED <<scan>>
=============================================================================
