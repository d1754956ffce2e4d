------------------------------ MODULE Retention ------------------------------
(***************************************************************************)
(* cmd/nemuz/journal.go: `journal prune' and `journal redact', run by an   *)
(* operator (or two) while other processes record turns and fill the       *)
(* index.  Nothing locks the data directory, so every file operation of a  *)
(* command is a step of its own, and a command may die between two.        *)
(***************************************************************************)
EXTENDS TurnIndex

CONSTANT Janitors  \* operators at work at one time

VARIABLES
  marker,    \* turns with a .redacted file beside their journal
  job,       \* per janitor: what the command is doing
  exposed,   \* history: turns somebody wrote to while a prune was deciding
  altered,   \* history: turns whose journal a redaction replaced
  forgotten, \* history: turns whose redaction reported success
  unmarked,  \* history: turns whose redaction died between journal and marker
  abandoned  \* history: turns a command left half done since the index was last reset

historyVars == <<exposed, altered, forgotten, unmarked, abandoned>>
vars == <<recordVars, indexVars, commands, marker, job, historyVars>>

NoTurn == 0

\* pc is the next thing the command does; turn is the one being redacted.
Resting == [pc |-> "idle", turn |-> NoTurn, cut |-> 0, todo |-> {}, live |-> {},
            doomed |-> {}, refs |-> {}, lines |-> <<>>]

Sweeping(j) == job[j].pc \in {"list", "read", "delete", "remove"}

Steps == {"idle", "load", "put", "rename", "mark", "list", "read", "delete", "remove"}

TypeOK ==
  /\ RecordTypeOK
  /\ IndexTypeOK
  /\ marker \subseteq Turns
  /\ \A j \in Janitors :
       /\ job[j].pc \in Steps
       /\ job[j].turn \in Turns \cup {NoTurn}
       /\ job[j].todo \cup job[j].doomed \subseteq Turns
       /\ job[j].live \cup job[j].refs \subseteq {b \in Body : b.big}
       /\ job[j].lines \in Seq(Event)
       /\ job[j].pc \in {"load", "put", "rename", "mark"} => job[j].turn # NoTurn
  /\ exposed \cup altered \cup forgotten \cup unmarked \cup abandoned \subseteq Turns

Init ==
  /\ RecordInit
  /\ IndexInit
  /\ marker = {}
  /\ job = [j \in Janitors |-> Resting]
  /\ exposed = {} /\ altered = {} /\ forgotten = {} /\ unmarked = {} /\ abandoned = {}

-----------------------------------------------------------------------------
(* History: what overlapped what.                                          *)

SomebodySweeps == \E j \in Janitors : Sweeping(j)
BeingWritten == {t \in Turns : writer[t].state = "open"}
BeingRewritten == {job[j].turn : j \in {k \in Janitors : job[k].pc \in {"put", "rename"}}}
ExposedBySweep == exposed' = exposed \cup BeingWritten \cup BeingRewritten
Exposed(t) == exposed' = IF SomebodySweeps THEN exposed \cup {t} ELSE exposed

\* The command ends before its work is done, with an error or by dying.
Abandons(j) ==
  /\ job' = [job EXCEPT ![j] = Resting]
  /\ abandoned' = abandoned
       \cup (IF job[j].pc \in {"mark", "list", "read", "delete", "remove"}
             THEN {job[j].turn} \ {NoTurn} ELSE {})
       \cup (IF job[j].pc \in {"delete", "remove"} THEN job[j].doomed ELSE {})
  /\ unmarked' = IF job[j].pc = "mark" THEN unmarked \cup {job[j].turn} ELSE unmarked
  /\ UNCHANGED <<exposed, altered, forgotten>>

Goes(j, pc) == job' = [job EXCEPT ![j].pc = pc]

-----------------------------------------------------------------------------
(* pruneJournals.                                                          *)

\* `journal prune --older-than D --apply': D is positive, so the cut-off is in the
\* past.  Some of the turns are before it, the youngest of them `cut', or none is.
PruneBegins(j, cut) ==
  /\ job[j].pc = "idle" /\ commands < MaxCommands
  /\ commands' = commands + 1
  /\ job' = [job EXCEPT ![j] = [Resting EXCEPT !.pc = "list", !.cut = cut]]
  /\ ExposedBySweep
  /\ UNCHANGED <<recordVars, indexVars, marker, altered, forgotten, unmarked, abandoned>>

Lists(j) ==
  /\ job[j].pc = "list"
  /\ LET found == {t \in Turns : file[t].present}
     IN  job' = [job EXCEPT ![j].pc = IF found = {} THEN "delete" ELSE "read",
                            ![j].todo = found]
  /\ UNCHANGED <<recordVars, indexVars, marker, commands, historyVars>>

\* Mutant of ReadsJournal: what is live is set, not added to.
ReadsJournalLastOnly(j) ==
  /\ job[j].pc = "read" /\ job[j].todo # {}
  /\ LET t == Min(job[j].todo)
         old == file[t].lines # <<>> /\ t <= job[j].cut
         doomed == IF old THEN job[j].doomed \cup {t} ELSE job[j].doomed
         last == job[j].todo = {t}
     IN  /\ Readable(t)
         /\ job' = [job EXCEPT
              ![j].pc = IF last THEN "delete" ELSE "read",
              ![j].todo = IF last THEN doomed ELSE @ \ {t},
              ![j].doomed = doomed,
              ![j].live = IF old THEN @ ELSE Spills(file[t].lines)]
  /\ UNCHANGED <<recordVars, indexVars, marker, commands, historyVars>>

\* A turn whose first event is before the cut-off goes; the payloads of the others stay.
ReadsJournal(j) ==
  /\ job[j].pc = "read" /\ job[j].todo # {}
  /\ LET t == Min(job[j].todo)
         old == file[t].lines # <<>> /\ t <= job[j].cut
         doomed == IF old THEN job[j].doomed \cup {t} ELSE job[j].doomed
         last == job[j].todo = {t}
     IN  /\ Readable(t)
         /\ job' = [job EXCEPT
              ![j].pc = IF last THEN "delete" ELSE "read",
              ![j].todo = IF last THEN doomed ELSE @ \ {t},
              ![j].doomed = doomed,
              ![j].live = IF old THEN @ ELSE @ \cup Spills(file[t].lines)]
  /\ UNCHANGED <<recordVars, indexVars, marker, commands, historyVars>>

\* Only the journal is removed; a marker beside it stays.
DeletesTurn(j) ==
  /\ job[j].pc = "delete" /\ job[j].todo # {}
  /\ LET t == Min(job[j].todo)
     IN  /\ file[t].present
         /\ file' = [file EXCEPT ![t] = Absent]
         /\ writer' = [writer EXCEPT ![t].attached = FALSE]
         /\ job' = [job EXCEPT ![j].todo = @ \ {t}]
  /\ UNCHANGED <<blobs, indexVars, marker, commands, historyVars>>

\* What Refs lists that no surviving journal named when it was read.
Unreferenced(refs, live) == refs \ live

ListsRefs(j) ==
  /\ job[j].pc = "delete" /\ job[j].todo = {}
  /\ job' = [job EXCEPT ![j].pc = "remove", ![j].refs = Unreferenced(blobs, job[j].live)]
  /\ UNCHANGED <<recordVars, indexVars, marker, commands, historyVars>>

\* Remove: a blob that is already gone is no error.  Refs are in no order that means
\* anything.
RemovesBlob(j, ref) ==
  /\ job[j].pc = "remove" /\ ref \in job[j].refs
  /\ blobs' = blobs \ {ref}
  /\ job' = [job EXCEPT ![j].refs = @ \ {ref}]
  /\ UNCHANGED <<file, writer, indexVars, marker, commands, historyVars>>

\* Mutant of ResetsIndex: the index is left as it is.
ResetsIndexNever(j) ==
  /\ job[j].pc = "remove" /\ job[j].refs = {}
  /\ job' = [job EXCEPT ![j] = Resting]
  /\ forgotten' = forgotten \cup ({job[j].turn} \ {NoTurn})
  /\ abandoned' = {}
  /\ UNCHANGED <<recordVars, indexVars, marker, commands, exposed, altered, unmarked>>

\* The derived index goes last; then prune, or the redaction it is the end of, reports.
ResetsIndex(j) ==
  /\ job[j].pc = "remove" /\ job[j].refs = {}
  /\ RemoveIndex
  /\ job' = [job EXCEPT ![j] = Resting]
  /\ forgotten' = forgotten \cup ({job[j].turn} \ {NoTurn})
  /\ abandoned' = {}
  /\ UNCHANGED <<recordVars, marker, commands, exposed, altered, unmarked>>

-----------------------------------------------------------------------------
(* journalRedactCmd and redactTurn.                                        *)

\* Find the turn; one with a marker is refused.
RedactBegins(j, t) ==
  /\ job[j].pc = "idle" /\ commands < MaxCommands
  /\ file[t].present /\ t \notin marker
  /\ commands' = commands + 1
  /\ job' = [job EXCEPT ![j] = [Resting EXCEPT !.pc = "load", !.turn = t]]
  /\ UNCHANGED <<recordVars, indexVars, marker, historyVars>>

\* redactValue goes by the field's name: a value replaced before is replaced again.
HasField(b) == b.content \in {"secret", "scrubbed"}

\* The body with the value replaced may be shorter than SpillThreshold.
Redacted(e, big) ==
  IF HasField(e.body) THEN [e EXCEPT !.body = [content |-> "scrubbed", big |-> big]] ELSE e

\* The whole journal is read and its payloads fetched; all of it has to be there, and
\* some field has to match.
LoadsTurn(j) ==
  /\ job[j].pc = "load"
  /\ LET t == job[j].turn
         lines == file[t].lines
     IN  /\ Readable(t) /\ \A n \in DOMAIN lines : Available(lines[n])
         /\ \E n \in DOMAIN lines : HasField(lines[n].body)
         /\ \E big \in SUBSET {n \in DOMAIN lines : Spilled(lines[n])} :
              job' = [job EXCEPT
                ![j].pc = "put",
                ![j].lines = [n \in DOMAIN lines |-> Redacted(lines[n], n \in big)]]
         /\ Exposed(t)
  /\ UNCHANGED <<recordVars, indexVars, marker, commands, altered, forgotten, unmarked, abandoned>>

PutsPayloads(j) ==
  /\ job[j].pc = "put"
  /\ blobs' = blobs \cup {b \in Spills(job[j].lines) : HasField(b)}
  /\ Goes(j, "rename")
  /\ UNCHANGED <<file, writer, indexVars, marker, commands, historyVars>>

\* Mutant of Rewritten: the file is written over in place.
RewrittenInPlace(t, lines) ==
  /\ file' = [file EXCEPT ![t] = [lines |-> lines, torn |-> FALSE, present |-> TRUE]]
  /\ UNCHANGED writer

\* CreateTemp, write, Rename: the name leads to a new file, and whoever was writing
\* the old one writes on where nobody looks.
Rewritten(t, lines) ==
  /\ file' = [file EXCEPT ![t] = [lines |-> lines, torn |-> FALSE, present |-> TRUE]]
  /\ writer' = [writer EXCEPT ![t].attached = FALSE]

RenamesIntoPlace(j) ==
  /\ job[j].pc = "rename"
  /\ Rewritten(job[j].turn, job[j].lines)
  /\ Goes(j, "mark")
  /\ altered' = altered \cup {job[j].turn}
  /\ UNCHANGED <<blobs, indexVars, marker, commands, exposed, forgotten, unmarked, abandoned>>

\* Mutant of WritesMarker: the prune comes first, and the marker may never come.
WritesMarkerLast(j) ==
  /\ job[j].pc = "mark"
  /\ Goes(j, "list")
  /\ ExposedBySweep
  /\ UNCHANGED <<recordVars, indexVars, commands, marker, altered, forgotten, unmarked, abandoned>>

\* The marker is written, and a prune with a zero cut-off takes what is now loose.
WritesMarker(j) ==
  /\ job[j].pc = "mark"
  /\ marker' = marker \cup {job[j].turn}
  /\ Goes(j, "list")
  /\ ExposedBySweep
  /\ UNCHANGED <<recordVars, indexVars, commands, altered, forgotten, unmarked, abandoned>>

-----------------------------------------------------------------------------
\* The command ends with its work undone: a journal it had to read is refused, one it
\* had to delete is gone, a payload is missing, no field matched, a file operation
\* failed, or the process died.
Stops(j) ==
  /\ job[j].pc # "idle"
  /\ Abandons(j)
  /\ UNCHANGED <<recordVars, indexVars, marker, commands>>

JanitorStep(j) ==
  \/ \E cut \in Turns \cup {NoTurn} : PruneBegins(j, cut)
  \/ Lists(j)
  \/ ReadsJournal(j)
  \/ DeletesTurn(j)
  \/ ListsRefs(j)
  \/ \E ref \in job[j].refs : RemovesBlob(j, ref)
  \/ ResetsIndex(j)
  \/ \E t \in Turns : RedactBegins(j, t)
  \/ LoadsTurn(j)
  \/ PutsPayloads(j)
  \/ RenamesIntoPlace(j)
  \/ WritesMarker(j)
  \/ Stops(j)

RecordStep ==
  \/ \E t \in Turns :
       /\ Creates(t)
       /\ Exposed(t)
       /\ UNCHANGED <<indexVars, marker, job, commands, altered, forgotten, unmarked, abandoned>>
  \/ \E t \in Turns :
       /\ WriterStep(t)
       /\ UNCHANGED <<indexVars, marker, job, commands, historyVars>>

Next ==
  \/ RecordStep
  \/ \E i \in Indexers :
       IndexerStep(i) /\ UNCHANGED <<recordVars, marker, job, historyVars>>
  \/ \E j \in Janitors : JanitorStep(j)

Spec == Init /\ [][Next]_vars

-----------------------------------------------------------------------------
(* Properties                                                              *)

\* journalPruneCmd says it deletes "blobs no remaining turn references".  So it does
\* as long as nobody writes to a journal while it works: every payload a journal on
\* disk names is in the store, unless the journal was written, created or replaced
\* while some prune was between listing the journals and removing the last blob.
\* Turns share blobs, so removing one turn must not take another's payload.
PayloadsKept ==
  \A t \in Turns \ exposed : Spills(file[t].lines) \subseteq blobs

\* The index "holds nothing the journal does not": what a row shows of a turn is in
\* that turn's journal.  Between replacing or deleting a journal and resetting the
\* index this is not so, nor after a command that ended there, until the next one
\* that finishes; but it is in spite of indexers that read the old journal and
\* commit later.
BeingForgotten ==
  UNION {{job[j].turn} \cup job[j].doomed :
         j \in {k \in Janitors : job[k].pc \in Steps \ {"idle", "load", "put", "rename"}}}

IndexHoldsNothingElse ==
  \A t \in Turns \ (BeingForgotten \cup abandoned) : rows[t] # NoRow =>
    {rows[t].prompt, rows[t].answer} \subseteq
      {None} \cup {file[t].lines[n].body : n \in DOMAIN file[t].lines}

\* A redaction that reports success has taken the value out of the journal and out of
\* the index for good, even if the turn was still being written, and whatever
\* indexers and other redactions were under way.
RedactionForgets ==
  \A t \in forgotten :
    /\ \A n \in DOMAIN file[t].lines : file[t].lines[n].body.content # "secret"
    /\ rows[t] # NoRow =>
         rows[t].prompt.content # "secret" /\ rows[t].answer.content # "secret"

\* A journal whose payloads were replaced "is no longer a replay cassette", which a
\* reader can tell only by the marker: it is there, or the command that replaced the
\* journal has yet to write it or died before it could, or the journal is gone.
AlteredIsMarked ==
  \A t \in altered : file[t].present =>
    \/ t \in marker
    \/ t \in unmarked
    \/ \E j \in Janitors : job[j].pc = "mark" /\ job[j].turn = t

=============================================================================
