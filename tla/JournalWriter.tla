---------------------------- MODULE JournalWriter ----------------------------
(***************************************************************************)
(* internal/journal.Writer: one turn's append-only journal file, together  *)
(* with the blob store its large payloads spill to.                        *)
(*                                                                         *)
(* An accepted event exists in three places in turn: in Writer.events, in  *)
(* the bufio.Writer in front of the file, and in the file.  Events reach   *)
(* the file in order, so the file is described by how many whole lines of  *)
(* `events' it holds and by whether an incomplete line follows them.       *)
(*                                                                         *)
(* Payloads are abstracted to what the event is about: the step of the     *)
(* agent loop and, for tool events, the position of the call in that step  *)
(* (0 otherwise).                                                          *)
(***************************************************************************)
EXTENDS Naturals, Sequences

CONSTANT MaxSpills  \* Bound: payloads of SpillThreshold or more in one turn.

ASSUME MaxSpillsAssumption == MaxSpills \in Nat

VARIABLES
  seq,      \* Writer.seq
  events,   \* Writer.events: what Append has accepted, in order
  closed,   \* Writer.closed
  flushed,  \* whole lines of `events' that are in the file
  torn,     \* the file ends with the beginning of line flushed + 1
  broken,   \* bufio.Writer holds a write error, which it never forgets
  blobs,    \* refs present in the blob store (content is named by its seq)
  stored,   \* what the Append under way has stored and not yet written a line for
  spills    \* large payloads so far, for the bound only

writerVars == <<seq, events, closed, flushed, torn, broken, blobs, stored, spills>>

Kinds == {"turn.start", "model.request", "model.response",
          "tool.call", "tool.result", "error", "turn.end"}

Inline == 0  \* the ref of an event whose payload is in the line itself

Event == [seq : Nat, kind : Kinds, step : Nat, call : Nat, ref : Nat]

WriterTypeOK ==
  /\ seq \in Nat
  /\ events \in Seq(Event)
  /\ closed \in BOOLEAN
  /\ flushed \in 0 .. Len(events)
  /\ torn \in BOOLEAN
  /\ broken \in BOOLEAN
  /\ blobs \subseteq Nat
  /\ stored \in Nat
  /\ spills \in 0 .. MaxSpills

\* Create: O_EXCL, so the file is new and empty.
WriterInit ==
  /\ seq = 0
  /\ events = <<>>
  /\ closed = FALSE
  /\ flushed = 0
  /\ torn = FALSE
  /\ broken = FALSE
  /\ blobs = {}
  /\ stored = Inline
  /\ spills = 0

-----------------------------------------------------------------------------
(* Append, in two steps that a crash may come between: a large payload is  *)
(* stored, then the line that names it is written.  The sequence number is *)
(* taken before either and not given back when one fails; nobody sees it   *)
(* before the line, with which it is counted here.                         *)

\* blob.PutBytes: the payload is under its final name when it returns.
StoresPayload ==
  /\ ~closed
  /\ stored = Inline
  /\ spills < MaxSpills
  /\ spills' = spills + 1
  /\ stored' = seq + 1
  /\ blobs' = blobs \cup {seq + 1}
  /\ UNCHANGED <<seq, events, closed, flushed, torn, broken>>

\* The line fits in the buffer: the file does not change.
LineBuffered == UNCHANGED <<flushed, torn>>

\* The line does not fit.  An empty buffer is bypassed; otherwise the buffer is
\* topped up with the head of the line and written out, and keeps the tail unless
\* that does not fit either.
LineOverflows ==
  \/ /\ flushed' = Len(events) + 1
     /\ torn' = FALSE
  \/ /\ flushed < Len(events) \/ torn
     /\ flushed' = Len(events)
     /\ torn' \in BOOLEAN

\* A write that fails leaves the file anywhere between what it held and what it
\* was to hold.
WriteStopsShort ==
  /\ flushed' \in flushed .. Len(events)
  /\ torn' \in BOOLEAN
  /\ flushed' = flushed /\ torn => torn'

\* Mutant of NamesStored: the line is written first, and the payload stored after it.
NamesUnstored(ref) == ref \in {Inline, seq + 1}

\* The line holds its payload, or names the one just stored.
NamesStored(ref) == ref = stored

AppendOK(kind, step, call) ==
  /\ ~closed
  /\ ~broken
  /\ seq' = seq + 1
  /\ \E ref \in {Inline, seq + 1} :
       /\ NamesStored(ref)
       /\ events' = Append(events, [seq |-> seq + 1, kind |-> kind,
                                    step |-> step, call |-> call, ref |-> ref])
  /\ stored' = Inline
  /\ LineBuffered \/ LineOverflows
  /\ UNCHANGED <<closed, broken, blobs, spills>>

\* blob.PutBytes reports an error; nothing is stored under a final name.
SpillFails ==
  /\ stored = Inline
  /\ spills < MaxSpills
  /\ spills' = spills + 1
  /\ UNCHANGED <<flushed, torn, broken, blobs>>

\* bufio.Writer.Write reports an error, a new one or the one it holds.
WriteFails ==
  /\ broken' = TRUE
  /\ IF broken THEN UNCHANGED <<flushed, torn>> ELSE WriteStopsShort
  /\ UNCHANGED <<blobs, spills>>

\* Mutant of AppendFails: the sequence number is given back.
AppendFailsGivesBack ==
  /\ ~closed
  /\ SpillFails \/ WriteFails
  /\ stored' = Inline
  /\ UNCHANGED <<seq, events, closed>>

AppendFails ==
  /\ ~closed
  /\ seq' = seq + 1
  /\ SpillFails \/ WriteFails
  /\ stored' = Inline
  /\ UNCHANGED <<events, closed>>

-----------------------------------------------------------------------------
(* Close flushes, syncs and closes; `closed' is set before any of it.      *)

CloseOK ==
  /\ ~closed
  /\ ~broken
  /\ closed' = TRUE
  /\ flushed' = Len(events)
  /\ torn' = FALSE
  /\ UNCHANGED <<seq, events, broken, blobs, stored, spills>>

CloseFails ==
  /\ ~closed
  /\ closed' = TRUE
  /\ broken' = TRUE
  /\ IF broken THEN UNCHANGED <<flushed, torn>> ELSE WriteStopsShort
  /\ UNCHANGED <<seq, events, blobs, stored, spills>>

-----------------------------------------------------------------------------
(* Read: the file parses, and its sequence numbers start at 1 without gap. *)

Readable ==
  /\ ~torn
  /\ \A i \in 1 .. flushed : events[i].seq = i

\* A reader that accepts the file finds the end of the turn in it.
ReadsAsFinished ==
  /\ Readable
  /\ flushed > 0
  /\ events[flushed].kind = "turn.end"
=============================================================================
