---------------------------- MODULE RecordedTurns ----------------------------
(***************************************************************************)
(* The data directory as the commands that manage recordings find it: the  *)
(* files under journal/, the refs in the blob store, and the processes     *)
(* that are still writing turns.                                           *)
(*                                                                         *)
(* JournalWriter models one writer with all its failures.  Here a writer   *)
(* is what it means to others: events are stored, accepted into a buffer,  *)
(* and some time later in the file, unless the file under its name is no   *)
(* longer the one it holds open.                                           *)
(***************************************************************************)
EXTENDS Naturals, Sequences, SequencesExt

CONSTANTS
  Turns,    \* turn ids; ULIDs sort by time, so numbers stand for them
  Recorded, \* the turns that were recorded in full before the behaviour begins
  Prompts,  \* bodies a turn.start may have
  Answers   \* bodies a model.response may have

\* A body is what matters of a payload: whether a field somebody wants redacted
\* is absent, present or replaced, and whether the body reaches SpillThreshold.
Body == [content : {"plain", "secret", "scrubbed"}, big : BOOLEAN]

ASSUME TurnsAssumption == Turns \subseteq Nat \ {0} /\ Recorded \subseteq Turns
ASSUME BodiesAssumption == Prompts \subseteq Body /\ Answers \subseteq Body

VARIABLES
  file,    \* journal/<turn>.jsonl: whole lines and whether half a line follows
  writer,  \* the process that writes, or wrote, the turn
  blobs    \* refs in the blob store; content-addressed, so a ref is a body

recordVars == <<file, writer, blobs>>

Absent == [lines |-> <<>>, torn |-> FALSE, present |-> FALSE]
Plain == [content |-> "plain", big |-> FALSE]

Event == [kind : {"turn.start", "model.response", "error", "turn.end"}, body : Body]

NoWriter == [state |-> "none", pending |-> <<>>, buffer |-> <<>>,
             attached |-> FALSE, last |-> "none"]

RecordTypeOK ==
  /\ file \in [Turns -> [lines : Seq(Event), torn : BOOLEAN, present : BOOLEAN]]
  /\ \A t \in Turns :
       /\ writer[t].state \in {"none", "open", "closed", "dead"}
       /\ writer[t].pending \in Seq(Event) /\ Len(writer[t].pending) <= 1
       /\ writer[t].buffer \in Seq(Event)
       /\ writer[t].attached => file[t].present
  /\ blobs \subseteq {b \in Body : b.big}

\* Mutant of Spilled: the threshold is ignored.
SpilledAlways(e) == e.body \in Body

Spilled(e) == e.body.big
Spills(lines) == {lines[i].body : i \in {n \in DOMAIN lines : Spilled(lines[n])}}

\* ReadFrom refuses half a line; Read refuses a file that is not there.
Readable(t) == file[t].present /\ ~file[t].torn

\* Content: an inline payload is in the line, a spilled one in the blob store.
Available(e) == Spilled(e) => e.body \in blobs

\* verifyTurn: readable, and no event names a blob that is missing.
Intact(t) == Readable(t) /\ Spills(file[t].lines) \subseteq blobs

\* The journal of a turn that was asked p and answered a.
Whole(p, a) ==
  [lines |-> <<[kind |-> "turn.start", body |-> p], [kind |-> "model.response", body |-> a],
               [kind |-> "turn.end", body |-> Plain]>>,
   torn |-> FALSE, present |-> TRUE]

RecordInit ==
  /\ \E asked \in [Recorded -> Prompts], answered \in [Recorded -> Answers] :
       file = [t \in Turns |-> IF t \in Recorded THEN Whole(asked[t], answered[t]) ELSE Absent]
  /\ writer = [t \in Turns |-> IF t \in Recorded
                               THEN [NoWriter EXCEPT !.state = "closed", !.last = "turn.end"]
                               ELSE NoWriter]
  /\ blobs = UNION {Spills(file[t].lines) : t \in Turns}

-----------------------------------------------------------------------------
(* The writer of turn t.                                                   *)

\* NewTurnID and Create: ids are taken in the order of time.
Creates(t) ==
  /\ writer[t].state = "none"
  /\ \A u \in Turns : u < t => writer[u].state # "none"
  /\ file' = [file EXCEPT ![t] = [Absent EXCEPT !.present = TRUE]]
  /\ writer' = [writer EXCEPT ![t].state = "open", ![t].attached = TRUE]
  /\ UNCHANGED blobs

\* The events a turn appends, in the order the agent loop appends them.
Following(last) ==
  CASE last = "none" -> [kind : {"turn.start"}, body : Prompts]
    [] last = "turn.start" -> [kind : {"model.response"}, body : Answers]
                                \cup [kind : {"error"}, body : {Plain}]
    [] last \in {"model.response", "error"} -> [kind : {"turn.end"}, body : {Plain}]
    [] OTHER -> {}

\* Append of a payload that is small: it goes into the line.
Appends(t) ==
  /\ writer[t].state = "open" /\ writer[t].pending = <<>>
  /\ \E e \in Following(writer[t].last) :
       /\ ~Spilled(e)
       /\ writer' = [writer EXCEPT ![t].buffer = Append(@, e), ![t].last = e.kind]
  /\ UNCHANGED <<file, blobs>>

\* Append of a large one, first half: PutBytes has the payload in the store.
Stores(t) ==
  /\ writer[t].state = "open" /\ writer[t].pending = <<>>
  /\ \E e \in Following(writer[t].last) :
       /\ Spilled(e)
       /\ blobs' = blobs \cup {e.body}
       /\ writer' = [writer EXCEPT ![t].pending = <<e>>, ![t].last = e.kind]
  /\ UNCHANGED file

\* Second half: the line that names the payload is in the buffer.
Accepts(t) ==
  /\ writer[t].state = "open" /\ writer[t].pending # <<>>
  /\ writer' = [writer EXCEPT ![t].buffer = @ \o writer[t].pending, ![t].pending = <<>>]
  /\ UNCHANGED <<file, blobs>>

\* Where the first k buffered lines and perhaps the head of the next one go: to
\* the file held open, which the name leads to only while it is attached.
Written(t, k, torn) ==
  /\ file' = IF writer[t].attached
             THEN [file EXCEPT ![t].lines = @ \o SubSeq(writer[t].buffer, 1, k),
                               ![t].torn = torn]
             ELSE file
  /\ UNCHANGED blobs

\* A full bufio.Writer writes itself out: all it holds but, perhaps, the tail of the
\* last line.
Overflows(t) ==
  /\ writer[t].state = "open" /\ writer[t].buffer # <<>>
  /\ \E torn \in BOOLEAN :
       LET k == IF torn THEN Len(writer[t].buffer) - 1 ELSE Len(writer[t].buffer)
       IN  /\ k = 0 => ~file[t].torn
           /\ Written(t, k, torn)
           /\ writer' = [writer EXCEPT ![t].buffer = SubSeq(@, k + 1, Len(@))]

Closes(t) ==
  /\ writer[t].state = "open" /\ writer[t].pending = <<>> /\ writer[t].last = "turn.end"
  /\ Written(t, Len(writer[t].buffer), FALSE)
  /\ writer' = [writer EXCEPT ![t].state = "closed", ![t].buffer = <<>>]

\* The writing process dies; what is in the buffer is gone.
Dies(t) ==
  /\ writer[t].state = "open"
  /\ writer' = [writer EXCEPT ![t].state = "dead", ![t].buffer = <<>>, ![t].pending = <<>>]
  /\ UNCHANGED <<file, blobs>>

WriterStep(t) ==
  \/ Appends(t)
  \/ Stores(t)
  \/ Accepts(t)
  \/ Overflows(t)
  \/ Closes(t)
  \/ Dies(t)
=============================================================================
