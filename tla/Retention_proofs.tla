-------------------------- MODULE Retention_proofs ---------------------------
(***************************************************************************)
(* Proofs about the data directory: what prunes and redactions take away   *)
(* and what indexes and journals still show, for any number of turns,      *)
(* payloads, indexers and commands.                                        *)
(***************************************************************************)
EXTENDS Retention, WellFoundedInduction, TLAPS

-----------------------------------------------------------------------------
(* Least and greatest members, which Min and Max choose.                   *)

LEMMA LessOnNat == \A x, y \in Nat : <<x, y>> \in OpToRel(<, Nat) <=> x < y
  BY DEF OpToRel

LEMMA LeastMember ==
  ASSUME NEW S, S \subseteq Nat, S # {}
  PROVE  \E x \in S : \A y \in S : x =< y
<1>1. PICK x \in S : \A y \in S : ~ (<<y, x>> \in OpToRel(<, Nat))
  BY WFMin, NatLessThanWellFounded
<1>2. \A y \in S : ~ (y < x)
  BY <1>1, LessOnNat
<1> QED
  BY <1>2

LEMMA MinIsMember ==
  ASSUME NEW S, S \subseteq Nat, S # {}
  PROVE  Min(S) \in S
  BY LeastMember DEF Min

LEMMA MaxIsMember ==
  ASSUME NEW n \in Nat, NEW S, S \subseteq 1 .. n, S # {}
  PROVE  Max(S) \in S
<1> DEFINE T == {m \in Nat : \E x \in S : m = n - x}
<1>1. PICK x \in S : TRUE
  OBVIOUS
<1>2. n - x \in T
  OBVIOUS
<1>3. PICK m \in T : \A y \in T : m =< y
  <2> HIDE DEF T
  <2>1. T \subseteq Nat
    BY DEF T
  <2> QED
    BY <1>2, <2>1, LeastMember
<1>4. PICK z \in S : m = n - z
  BY <1>3
<1>5. ASSUME NEW y \in S
      PROVE  z >= y
  <2>1. n - y \in T
    OBVIOUS
  <2>2. m =< n - y
    BY <1>3, <2>1
  <2> QED
    BY <1>4, <2>2
<1> QED
  BY <1>5 DEF Max

-----------------------------------------------------------------------------
(* The inductive invariant.                                                *)

Large == {b \in Body : b.big}

Files == [lines : Seq(Event), torn : BOOLEAN, present : BOOLEAN]

Writers == [state : {"none", "open", "closed", "dead"},
            pending : Seq(Event), buffer : Seq(Event), attached : BOOLEAN,
            last : {"none", "turn.start", "model.response", "error", "turn.end"}]

Rows == Row \cup {NoRow}

Scans == [pc : {"idle", "turn", "rebuild"}, todo : SUBSET Turns, db : Nat,
          found : [Turns -> Rows]]

Jobs == [pc : Steps, turn : Turns \cup {NoTurn}, cut : Turns \cup {NoTurn},
         todo : SUBSET Turns, live : SUBSET Large, doomed : SUBSET Turns,
         refs : SUBSET Large, lines : Seq(Event)]

Types ==
  /\ file \in [Turns -> Files]
  /\ writer \in [Turns -> Writers]
  /\ blobs \in SUBSET Large
  /\ rows \in [Turns -> Rows]
  /\ db \in Nat
  /\ scan \in [Indexers -> Scans]
  /\ commands \in 0 .. MaxCommands
  /\ marker \in SUBSET Turns
  /\ job \in [Janitors -> Jobs]
  /\ exposed \in SUBSET Turns /\ altered \in SUBSET Turns /\ forgotten \in SUBSET Turns
  /\ unmarked \in SUBSET Turns /\ abandoned \in SUBSET Turns

\* A journal is under its name only after somebody created it; who no longer writes
\* holds nothing back.
FileFits(t) ==
  /\ Len(writer[t].pending) <= 1
  /\ writer[t].attached => file[t].present
  /\ ~file[t].present => file[t].lines = <<>>
  /\ file[t].present => writer[t].state # "none"
  /\ writer[t].state # "open" => writer[t].pending = <<>> /\ writer[t].buffer = <<>>

\* What a turn names, or is about to name, is in the store.
PayloadsHeld(t) ==
  /\ Spills(file[t].lines) \subseteq blobs
  /\ Spills(writer[t].pending) \subseteq blobs
  /\ Spills(writer[t].buffer) \subseteq blobs

\* While somebody sweeps, only exposed turns are written to.
WritersExposed == SomebodySweeps => BeingWritten \cup BeingRewritten \subseteq exposed

\* A redaction under way: its turn was created once, its lines are clean, and what
\* they name is in the store or will be put there.
RewriteFits(j) ==
  /\ job[j].pc \in {"load", "put", "rename", "mark"} =>
       /\ job[j].turn \in Turns /\ writer[job[j].turn].state # "none"
       /\ job[j].todo = {} /\ job[j].doomed = {}
  /\ job[j].pc \in {"put", "rename"} =>
       \A n \in DOMAIN job[j].lines : job[j].lines[n].body.content # "secret"
  /\ job[j].pc = "put" /\ job[j].turn \notin exposed =>
       \A b \in Spills(job[j].lines) : HasField(b) \/ b \in blobs
  /\ job[j].pc = "rename" /\ job[j].turn \notin exposed => Spills(job[j].lines) \subseteq blobs

\* What a sweep knows of the turns nobody writes to.
SweepFits(j) ==
  /\ job[j].pc = "list" => job[j].doomed = {} /\ job[j].todo = {}
  /\ job[j].pc = "read" => \A t \in Turns \ exposed :
       t \in job[j].todo \cup job[j].doomed \/ Spills(file[t].lines) \subseteq job[j].live
  /\ job[j].pc = "delete" =>
       /\ job[j].todo \subseteq job[j].doomed
       /\ \A t \in Turns \ exposed :
            t \in job[j].todo \/ Spills(file[t].lines) \subseteq job[j].live
  /\ job[j].pc = "remove" =>
       \A t \in Turns \ exposed : Spills(file[t].lines) \cap job[j].refs = {}

\* The turns whose rows may be stale because of what a command does or left undone.
Disturbs(j, t) ==
  \/ job[j].pc \in {"mark", "list", "read", "delete", "remove"} /\ t = job[j].turn
  \/ job[j].pc \in {"delete", "remove"} /\ t \in job[j].doomed

Settled(t) == t \notin abandoned /\ \A j \in Janitors : ~Disturbs(j, t)

Bodies(t) == {file[t].lines[n].body : n \in DOMAIN file[t].lines}

RowFits(row, t) == row # NoRow => {row.prompt, row.answer} \subseteq {None} \cup Bodies(t)

\* A row of a settled turn, in the index or on its way there, is of its journal.
IndexFits ==
  /\ \A i \in Indexers : scan[i].db <= db
  /\ \A t \in Turns : Settled(t) =>
       /\ RowFits(rows[t], t)
       /\ \A i \in Indexers : scan[i].db = db => RowFits(scan[i].found[t], t)

Clean(row) == row # NoRow => row.prompt.content # "secret" /\ row.answer.content # "secret"

CleanBodies(t) == \A n \in DOMAIN file[t].lines : file[t].lines[n].body.content # "secret"

\* A replaced journal is clean and will stay so, no writer being attached to it.
AlteredFits ==
  /\ \A t \in altered : CleanBodies(t) /\ ~writer[t].attached /\ writer[t].state # "none"
  /\ \A j \in Janitors :
       job[j].pc \in {"mark", "list", "read", "delete", "remove"} /\ job[j].turn # NoTurn
         => job[j].turn \in altered

\* No row of a forgotten turn, in the index or on its way there, shows the value.
ForgottenFits ==
  /\ forgotten \subseteq altered
  /\ \A t \in forgotten :
       /\ Clean(rows[t])
       /\ \A i \in Indexers : scan[i].db = db => Clean(scan[i].found[t])

RetentionInv ==
  /\ Types
  /\ \A t \in Turns : FileFits(t)
  /\ \A t \in Turns \ exposed : PayloadsHeld(t)
  /\ WritersExposed
  /\ \A j \in Janitors : RewriteFits(j) /\ SweepFits(j)
  /\ IndexFits
  /\ AlteredFits
  /\ ForgottenFits
  /\ AlteredIsMarked

-----------------------------------------------------------------------------
(* Lines and the payloads they name.                                       *)

LEMMA BodiesOfEvents ==
  ASSUME NEW s \in Seq(Event)
  PROVE  /\ \A n \in DOMAIN s : s[n] \in Event /\ s[n].body \in Body
         /\ Spills(s) \subseteq Large
<1>1. \A n \in DOMAIN s : s[n] \in Event /\ s[n].body \in Body
  <2>1. \A n \in DOMAIN s : s[n] \in Event
    OBVIOUS
  <2> QED
    BY <2>1 DEF Event
<1> QED
  BY <1>1 DEF Spills, Spilled, Large

LEMMA SpillsOfNothing == Spills(<<>>) = {} /\ <<>> \in Seq(Event)
  BY DEF Spills

LEMMA SpillsOfAppend ==
  ASSUME NEW s \in Seq(Event), NEW e \in Event
  PROVE  /\ Append(s, e) \in Seq(Event)
         /\ Spills(Append(s, e)) \subseteq Spills(s) \cup (IF Spilled(e) THEN {e.body} ELSE {})
  BY DEF Spills, Spilled

LEMMA SpillsOfJoin ==
  ASSUME NEW s \in Seq(Event), NEW u \in Seq(Event)
  PROVE  /\ s \o u \in Seq(Event)
         /\ Spills(s \o u) \subseteq Spills(s) \cup Spills(u)
         /\ \A n \in DOMAIN s : \E m \in DOMAIN (s \o u) : (s \o u)[m] = s[n]
  BY DEF Spills, Spilled

LEMMA SpillsOfPart ==
  ASSUME NEW s \in Seq(Event), NEW p \in 1 .. Len(s) + 1, NEW q \in 0 .. Len(s)
  PROVE  /\ SubSeq(s, p, q) \in Seq(Event)
         /\ Spills(SubSeq(s, p, q)) \subseteq Spills(s)
  BY DEF Spills, Spilled

LEMMA FieldIsOfTheLines ==
  ASSUME NEW lines \in Seq(Event), NEW kind
  PROVE  FieldOf(lines, kind) \in {None} \cup {lines[n].body : n \in DOMAIN lines}
<1> DEFINE found == {n \in DOMAIN lines : lines[n].kind = kind /\ Available(lines[n])}
<1>1. CASE found = {}
  BY <1>1 DEF FieldOf
<1>2. CASE found # {}
  <2>1. PICK k \in Nat : k = Len(lines)
    OBVIOUS
  <2>2. found \subseteq 1 .. k
    BY <2>1
  <2>3. Max(found) \in found
    <3> HIDE DEF found
    <3> QED
      BY <1>2, <2>2, MaxIsMember
  <2>4. FieldOf(lines, kind) = lines[Max(found)].body
    BY <1>2 DEF FieldOf
  <2> QED
    BY <2>3, <2>4
<1> QED
  BY <1>1, <1>2

LEMMA RowsFitTheirLines ==
  ASSUME NEW lines \in Seq(Event)
  PROVE  /\ RowOf(lines) \in Row
         /\ {RowOf(lines).prompt, RowOf(lines).answer}
              \subseteq {None} \cup {lines[n].body : n \in DOMAIN lines}
<1>1. \A kind : FieldOf(lines, kind) \in {None} \cup {lines[n].body : n \in DOMAIN lines}
  BY FieldIsOfTheLines
<1>2. \A kind : FieldOf(lines, kind) \in Body \cup {None}
  BY <1>1, BodiesOfEvents
<1> QED
  BY <1>1, <1>2 DEF RowOf, Row

-----------------------------------------------------------------------------
(* Type correctness.                                                       *)

recorderVars == <<file, writer, blobs>>
jobVars == <<marker, job, exposed, altered, forgotten, unmarked, abandoned>>

RecordTypes == file \in [Turns -> Files] /\ writer \in [Turns -> Writers] /\ blobs \in SUBSET Large
IndexTypes == /\ rows \in [Turns -> Rows] /\ db \in Nat /\ scan \in [Indexers -> Scans]
              /\ commands \in 0 .. MaxCommands
JobTypes == /\ marker \in SUBSET Turns /\ job \in [Janitors -> Jobs]
            /\ exposed \in SUBSET Turns /\ altered \in SUBSET Turns /\ forgotten \in SUBSET Turns
            /\ unmarked \in SUBSET Turns /\ abandoned \in SUBSET Turns

LEMMA TypesAreThree == Types <=> RecordTypes /\ IndexTypes /\ JobTypes
  BY DEF Types, RecordTypes, IndexTypes, JobTypes

\* The event a turn appends next is one.
LEMMA FollowingAreEvents ==
  ASSUME NEW last, NEW e \in Following(last)
  PROVE  e \in Event /\ e.kind \in {"turn.start", "model.response", "error", "turn.end"}
<1>1. Plain \in Body
  BY DEF Plain, Body
<1> QED
  BY <1>1, BodiesAssumption DEF Following, Event

LEMMA CreatesTypes ==
  ASSUME RecordTypes, NEW t \in Turns, Creates(t)
  PROVE  RecordTypes'
<1>1. [Absent EXCEPT !.present = TRUE] \in Files
  BY SpillsOfNothing DEF Absent, Files
<1>2. [writer[t] EXCEPT !.state = "open", !.attached = TRUE] \in Writers
  BY DEF RecordTypes, Writers
<1> QED
  BY <1>1, <1>2 DEF RecordTypes, Creates

LEMMA WrittenTypes ==
  ASSUME RecordTypes, NEW t \in Turns, NEW k \in 0 .. Len(writer[t].buffer),
         NEW torn \in BOOLEAN, Written(t, k, torn)
  PROVE  file' \in [Turns -> Files] /\ blobs' \in SUBSET Large
<1>0. file[t] \in Files /\ file[t].lines \in Seq(Event) /\ writer[t].buffer \in Seq(Event)
  BY DEF RecordTypes, Files, Writers
<1>1. SubSeq(writer[t].buffer, 1, k) \in Seq(Event)
  BY <1>0, SpillsOfPart
<1>2. file[t].lines \o SubSeq(writer[t].buffer, 1, k) \in Seq(Event)
  BY <1>0, <1>1, SpillsOfJoin
<1>3. [file[t] EXCEPT !.lines = @ \o SubSeq(writer[t].buffer, 1, k), !.torn = torn] \in Files
  BY <1>0, <1>2 DEF Files
<1>4. CASE writer[t].attached
  BY <1>3, <1>4 DEF RecordTypes, Written
<1>5. CASE ~writer[t].attached
  BY <1>5 DEF RecordTypes, Written
<1> QED
  BY <1>4, <1>5

LEMMA WriterStepTypes ==
  ASSUME RecordTypes, NEW t \in Turns, WriterStep(t)
  PROVE  RecordTypes'
<1>0. /\ writer[t] \in Writers
      /\ writer[t].buffer \in Seq(Event) /\ writer[t].pending \in Seq(Event)
  BY DEF RecordTypes, Writers
<1>1. CASE Appends(t)
  <2>1. PICK e \in Following(writer[t].last) :
          writer' = [writer EXCEPT ![t].buffer = Append(@, e), ![t].last = e.kind]
    BY <1>1 DEF Appends
  <2>2. e \in Event /\ e.kind \in {"turn.start", "model.response", "error", "turn.end"}
    BY FollowingAreEvents
  <2>3. Append(writer[t].buffer, e) \in Seq(Event)
    BY <1>0, <2>2, SpillsOfAppend
  <2>4. [writer[t] EXCEPT !.buffer = Append(@, e), !.last = e.kind] \in Writers
    BY <1>0, <2>2, <2>3 DEF Writers
  <2> QED
    BY <1>1, <2>1, <2>4 DEF Appends, RecordTypes
<1>2. CASE Stores(t)
  <2>1. PICK e \in Following(writer[t].last) :
          /\ Spilled(e) /\ blobs' = blobs \cup {e.body} /\ file' = file
          /\ writer' = [writer EXCEPT ![t].pending = <<e>>, ![t].last = e.kind]
    BY <1>2 DEF Stores
  <2>2. e \in Event /\ e.kind \in {"turn.start", "model.response", "error", "turn.end"}
    BY FollowingAreEvents
  <2>3. <<e>> \in Seq(Event) /\ e.body \in Large
    BY <2>1, <2>2 DEF Event, Spilled, Large
  <2>4. [writer[t] EXCEPT !.pending = <<e>>, !.last = e.kind] \in Writers
    BY <1>0, <2>2, <2>3 DEF Writers
  <2> QED
    BY <2>1, <2>3, <2>4 DEF RecordTypes
<1>3. CASE Accepts(t)
  <2>1. writer[t].buffer \o writer[t].pending \in Seq(Event)
    BY <1>0, SpillsOfJoin
  <2>2. [writer[t] EXCEPT !.buffer = @ \o writer[t].pending, !.pending = <<>>] \in Writers
    BY <1>0, <2>1, SpillsOfNothing DEF Writers
  <2> QED
    BY <1>3, <2>2 DEF Accepts, RecordTypes
<1>4. CASE Overflows(t)
  <2>0. PICK n \in Nat : n = Len(writer[t].buffer) /\ n > 0
    BY <1>0, <1>4 DEF Overflows
  <2>1. PICK torn \in BOOLEAN, k \in 0 .. n :
          /\ Written(t, k, torn)
          /\ writer' = [writer EXCEPT ![t].buffer = SubSeq(@, k + 1, Len(@))]
    <3>1. PICK torn \in BOOLEAN, k \in {n - 1, n} :
            /\ Written(t, k, torn)
            /\ writer' = [writer EXCEPT ![t].buffer = SubSeq(@, k + 1, Len(@))]
      BY <1>4, <2>0 DEF Overflows
    <3>2. k \in 0 .. n
      BY <2>0, <3>1
    <3> QED
      BY <3>1, <3>2
  <2>2. SubSeq(writer[t].buffer, k + 1, Len(writer[t].buffer)) \in Seq(Event)
    BY <1>0, <2>0, SpillsOfPart
  <2>3. [writer[t] EXCEPT !.buffer = SubSeq(@, k + 1, Len(@))] \in Writers
    BY <1>0, <2>2 DEF Writers
  <2>4. file' \in [Turns -> Files] /\ blobs' \in SUBSET Large
    BY <2>0, <2>1, WrittenTypes
  <2> QED
    BY <2>1, <2>3, <2>4 DEF RecordTypes
<1>5. CASE Closes(t)
  <2>1. [writer[t] EXCEPT !.state = "closed", !.buffer = <<>>] \in Writers
    BY <1>0, SpillsOfNothing DEF Writers
  <2>2. Len(writer[t].buffer) \in 0 .. Len(writer[t].buffer)
    BY <1>0
  <2>3. file' \in [Turns -> Files] /\ blobs' \in SUBSET Large
    BY <1>5, <2>2, WrittenTypes DEF Closes
  <2> QED
    BY <1>5, <2>1, <2>3 DEF Closes, RecordTypes
<1>6. CASE Dies(t)
  <2>1. [writer[t] EXCEPT !.state = "dead", !.buffer = <<>>, !.pending = <<>>] \in Writers
    BY <1>0, SpillsOfNothing DEF Writers
  <2> QED
    BY <1>6, <2>1 DEF Dies, RecordTypes
<1> QED
  BY <1>1, <1>2, <1>3, <1>4, <1>5, <1>6 DEF WriterStep

LEMMA NoRowsTypes == NoRows \in [Turns -> Rows] /\ Idle \in Scans
  BY DEF NoRows, Rows, Idle, Scans

LEMMA IndexerStepTypes ==
  ASSUME RecordTypes, IndexTypes, NEW i \in Indexers, IndexerStep(i)
  PROVE  IndexTypes'
<1>0. scan[i] \in Scans /\ Idle \in Scans /\ scan[i].todo \in SUBSET Turns
      /\ scan[i].found \in [Turns -> Rows]
  BY NoRowsTypes DEF IndexTypes, Scans
<1>1. CASE \E t \in Turns : IndexTurnBegins(i, t)
  <2>1. PICK t \in Turns : IndexTurnBegins(i, t)
    BY <1>1
  <2>2. [Idle EXCEPT !.pc = "turn", !.todo = {t}, !.db = db] \in Scans
    BY <1>0 DEF Scans, IndexTypes
  <2> QED
    BY <2>1, <2>2, MaxCommandsAssumption DEF IndexTypes, IndexTurnBegins
<1>2. CASE RebuildBegins(i)
  <2>1. [Idle EXCEPT !.pc = "rebuild", !.db = db, !.todo = {t \in Turns : file[t].present}]
          \in Scans
    BY <1>0 DEF Scans, IndexTypes
  <2> QED
    BY <1>2, <2>1, MaxCommandsAssumption DEF IndexTypes, RebuildBegins
<1>3. CASE Reads(i)
  <2> DEFINE t == Min(scan[i].todo)
  <2>1. PICK row : /\ row \in {RowOf(file[t].lines), NoRow}
                   /\ scan' = [scan EXCEPT ![i].todo = @ \ {t}, ![i].found[t] = row]
    BY <1>3 DEF Reads
  <2>2. t \in Turns
    BY <1>0, <1>3, TurnsAssumption, MinIsMember DEF Reads
  <2>3. row \in Rows
    BY <2>1, <2>2, RowsFitTheirLines DEF Rows, RecordTypes, Files
  <2>4. [scan[i].found EXCEPT ![t] = row] \in [Turns -> Rows]
    BY <1>0, <2>3
  <2>5. [scan[i] EXCEPT !.todo = @ \ {t}, !.found[t] = row] \in Scans
    BY <1>0, <2>4 DEF Scans
  <2> QED
    BY <1>3, <2>1, <2>5 DEF IndexTypes, Reads
<1>4. CASE IngestCommits(i)
  <2>1. rows' \in [Turns -> Rows]
    BY <1>0, <1>4 DEF IngestCommits, IndexTypes
  <2> QED
    BY <1>0, <1>4, <2>1 DEF IngestCommits, IndexTypes
<1>5. CASE RebuildCommits(i)
  BY <1>0, <1>5 DEF RebuildCommits, IndexTypes
<1>6. CASE GivesUp(i)
  BY <1>0, <1>6 DEF GivesUp, IndexTypes
<1> QED
  BY <1>1, <1>2, <1>3, <1>4, <1>5, <1>6 DEF IndexerStep

\* What redactTurn makes of a journal: as many events, none with the value, and no
\* payload that is neither redacted nor named before.
LEMMA RedactionOfLines ==
  ASSUME NEW lines \in Seq(Event), NEW new, new = [n \in DOMAIN lines |-> new[n]],
         \A n \in DOMAIN lines : \E is \in BOOLEAN : new[n] = Redacted(lines[n], is)
  PROVE  /\ new \in Seq(Event)
         /\ \A n \in DOMAIN new : new[n].body.content # "secret"
         /\ \A b \in Spills(new) : HasField(b) \/ b \in Spills(lines)
<1>1. \A n \in DOMAIN lines : lines[n] \in Event /\ lines[n].body \in Body
  BY BodiesOfEvents
<1>2. ASSUME NEW e \in Event, NEW is \in BOOLEAN
      PROVE  /\ Redacted(e, is) \in Event
             /\ Redacted(e, is).body.content # "secret"
             /\ HasField(Redacted(e, is).body) \/ Redacted(e, is) = e
  <2>1. e.body \in Body
    BY DEF Event
  <2>2. CASE HasField(e.body)
    <3>1. [content |-> "scrubbed", big |-> is] \in Body
      BY DEF Body
    <3>2. Redacted(e, is) = [e EXCEPT !.body = [content |-> "scrubbed", big |-> is]]
      BY <2>2 DEF Redacted
    <3> QED
      BY <3>1, <3>2 DEF Event, HasField
  <2>3. CASE ~HasField(e.body)
    <3>1. Redacted(e, is) = e
      BY <2>3 DEF Redacted
    <3> QED
      BY <2>1, <2>3, <3>1 DEF HasField
  <2> QED
    BY <2>2, <2>3
<1>3. \A n \in DOMAIN lines : /\ new[n] \in Event
                              /\ new[n].body.content # "secret"
                              /\ HasField(new[n].body) \/ new[n] = lines[n]
  BY <1>1, <1>2
<1>4. new \in Seq(Event)
  <2>1. PICK k \in Nat : k = Len(lines)
    OBVIOUS
  <2>2. DOMAIN lines = 1 .. k
    BY <2>1
  <2>3. new \in [1 .. k -> Event]
    BY <1>3, <2>2
  <2> QED
    BY <2>3
<1> QED
  BY <1>3, <1>4 DEF Spills, Spilled

LEMMA RedactionLoaded ==
  ASSUME NEW j, LoadsTurn(j)
  PROVE  \E new : /\ new = [n \in DOMAIN file[job[j].turn].lines |-> new[n]]
                  /\ \A n \in DOMAIN file[job[j].turn].lines :
                       \E is \in BOOLEAN : new[n] = Redacted(file[job[j].turn].lines[n], is)
                  /\ job' = [job EXCEPT ![j].pc = "put", ![j].lines = new]
<1> DEFINE lines == file[job[j].turn].lines
<1>1. PICK big : job' = [job EXCEPT ![j].pc = "put",
                                    ![j].lines = [n \in DOMAIN lines |-> Redacted(lines[n], n \in big)]]
  BY DEF LoadsTurn
<1>2. \A n \in DOMAIN lines : \E is \in BOOLEAN : Redacted(lines[n], n \in big) = Redacted(lines[n], is)
  <2> TAKE n \in DOMAIN lines
  <2>1. (n \in big) \in BOOLEAN
    OBVIOUS
  <2> QED
    BY <2>1
<1> DEFINE new == [n \in DOMAIN lines |-> Redacted(lines[n], n \in big)]
<1>3. /\ new = [n \in DOMAIN lines |-> new[n]]
      /\ \A n \in DOMAIN lines : \E is \in BOOLEAN : new[n] = Redacted(lines[n], is)
  BY <1>2
<1>4. job' = [job EXCEPT ![j].pc = "put", ![j].lines = new]
  BY <1>1
<1> HIDE DEF new
<1> QED
  BY <1>3, <1>4

LEMMA JanitorStepTypes ==
  ASSUME Types, \A k \in Janitors : RewriteFits(k), NEW j \in Janitors, JanitorStep(j)
  PROVE  RecordTypes' /\ IndexTypes' /\ JobTypes'
<1>0. /\ RecordTypes /\ IndexTypes /\ JobTypes
      /\ job[j] \in Jobs
      /\ job[j].pc \in Steps /\ job[j].turn \in Turns \cup {NoTurn}
      /\ job[j].todo \in SUBSET Turns /\ job[j].doomed \in SUBSET Turns
      /\ job[j].live \in SUBSET Large /\ job[j].refs \in SUBSET Large
      /\ job[j].lines \in Seq(Event)
  BY TypesAreThree DEF JobTypes, Jobs
<1>00. Resting \in Jobs
  BY SpillsOfNothing DEF Resting, Jobs, Steps, NoTurn
<1>000. BeingWritten \in SUBSET Turns /\ BeingRewritten \in SUBSET Turns
  BY DEF BeingWritten, BeingRewritten, RewriteFits
<1>1. CASE \E cut \in Turns \cup {NoTurn} : PruneBegins(j, cut)
  <2>1. PICK cut \in Turns \cup {NoTurn} : PruneBegins(j, cut)
    BY <1>1
  <2>2. [Resting EXCEPT !.pc = "list", !.cut = cut] \in Jobs
    BY <1>00 DEF Jobs, Steps
  <2>3. job' \in [Janitors -> Jobs] /\ exposed' \in SUBSET Turns
    BY <1>0, <1>000, <2>1, <2>2 DEF PruneBegins, JobTypes, ExposedBySweep
  <2>4. commands' \in 0 .. MaxCommands
    BY <1>0, <2>1, MaxCommandsAssumption DEF PruneBegins, IndexTypes
  <2> QED
    BY <1>0, <2>1, <2>3, <2>4 DEF PruneBegins, RecordTypes, IndexTypes, JobTypes,
       recordVars, indexVars
<1>2. CASE Lists(j)
  <2>1. PICK found \in SUBSET Turns, p \in {"delete", "read"} :
          job' = [job EXCEPT ![j].pc = p, ![j].todo = found]
    BY <1>2 DEF Lists
  <2>2. [job[j] EXCEPT !.pc = p, !.todo = found] \in Jobs
    BY <1>0, <2>1 DEF Jobs, Steps
  <2>3. job' \in [Janitors -> Jobs]
    BY <1>0, <2>1, <2>2 DEF JobTypes
  <2> QED
    BY <1>0, <1>2, <2>3 DEF Lists, RecordTypes, IndexTypes, JobTypes,
       recordVars, indexVars, historyVars
<1>3. CASE ReadsJournal(j)
  <2> DEFINE t == Min(job[j].todo)
  <2>1. t \in Turns
    BY <1>0, <1>3, TurnsAssumption, MinIsMember DEF ReadsJournal
  <2>2. Spills(file[t].lines) \in SUBSET Large
    BY <1>0, <2>1, BodiesOfEvents DEF RecordTypes, Files
  <2>3. PICK p \in {"delete", "read"}, todo \in SUBSET Turns, doomed \in SUBSET Turns,
             live \in SUBSET Large :
          job' = [job EXCEPT ![j] = [job[j] EXCEPT !.pc = p, !.todo = todo,
                                                   !.doomed = doomed, !.live = live]]
    <3> DEFINE old == file[t].lines # <<>> /\ t <= job[j].cut
               doomed == IF old THEN job[j].doomed \cup {t} ELSE job[j].doomed
               last == job[j].todo = {t}
               p == IF last THEN "delete" ELSE "read"
               todo == IF last THEN doomed ELSE job[j].todo \ {t}
               live == IF old THEN job[j].live ELSE job[j].live \cup Spills(file[t].lines)
    <3>1. job' = [job EXCEPT ![j] = [job[j] EXCEPT !.pc = p, !.todo = todo,
                                                   !.doomed = doomed, !.live = live]]
      BY <1>3 DEF ReadsJournal
    <3>2. doomed \in SUBSET Turns /\ p \in {"delete", "read"}
      BY <1>0, <2>1
    <3>3. todo \in SUBSET Turns /\ live \in SUBSET Large
      BY <1>0, <2>1, <2>2, <3>2
    <3> HIDE DEF p, todo, live, doomed
    <3> QED
      BY <3>1, <3>2, <3>3, Zenon
  <2>4. [job[j] EXCEPT !.pc = p, !.todo = todo, !.doomed = doomed, !.live = live] \in Jobs
    BY <1>0, <2>3 DEF Jobs, Steps
  <2>5. job' \in [Janitors -> Jobs]
    BY <1>0, <2>3, <2>4 DEF JobTypes
  <2> QED
    BY <1>0, <1>3, <2>5 DEF ReadsJournal, RecordTypes, IndexTypes, JobTypes,
       recordVars, indexVars, historyVars
<1>4. CASE DeletesTurn(j)
  <2> DEFINE t == Min(job[j].todo)
  <2>1. t \in Turns
    BY <1>0, <1>4, TurnsAssumption, MinIsMember DEF DeletesTurn
  <2>2. Absent \in Files /\ [writer[t] EXCEPT !.attached = FALSE] \in Writers
    BY <1>0, <2>1, SpillsOfNothing DEF Absent, Files, RecordTypes, Writers
  <2>3. [job[j] EXCEPT !.todo = @ \ {t}] \in Jobs
    BY <1>0 DEF Jobs
  <2>4. job' \in [Janitors -> Jobs]
    BY <1>0, <1>4, <2>3 DEF JobTypes, DeletesTurn
  <2>5. file' \in [Turns -> Files] /\ writer' \in [Turns -> Writers]
    BY <1>0, <1>4, <2>2 DEF RecordTypes, DeletesTurn
  <2> QED
    BY <1>0, <1>4, <2>4, <2>5 DEF DeletesTurn, RecordTypes, IndexTypes, JobTypes,
       indexVars, historyVars
<1>5. CASE ListsRefs(j)
  <2>1. [job[j] EXCEPT !.pc = "remove", !.refs = Unreferenced(blobs, job[j].live)] \in Jobs
    BY <1>0 DEF Jobs, Steps, Unreferenced, RecordTypes
  <2>2. job' \in [Janitors -> Jobs]
    BY <1>0, <1>5, <2>1 DEF JobTypes, ListsRefs
  <2> QED
    BY <1>0, <1>5, <2>2 DEF ListsRefs, RecordTypes, IndexTypes, JobTypes,
       recordVars, indexVars, historyVars
<1>6. CASE \E ref \in job[j].refs : RemovesBlob(j, ref)
  <2>1. PICK ref \in job[j].refs : RemovesBlob(j, ref)
    BY <1>6
  <2>2. [job[j] EXCEPT !.refs = @ \ {ref}] \in Jobs
    BY <1>0 DEF Jobs
  <2>3. job' \in [Janitors -> Jobs]
    BY <1>0, <2>1, <2>2 DEF JobTypes, RemovesBlob
  <2>4. blobs' \in SUBSET Large
    BY <1>0, <2>1 DEF RecordTypes, RemovesBlob
  <2> QED
    BY <1>0, <2>1, <2>3, <2>4 DEF RemovesBlob, RecordTypes, IndexTypes, JobTypes,
       indexVars, historyVars
<1>7. CASE ResetsIndex(j)
  <2>1. job' \in [Janitors -> Jobs]
    BY <1>0, <1>00, <1>7 DEF JobTypes, ResetsIndex
  <2>2. rows' \in [Turns -> Rows] /\ db' \in Nat
    BY <1>0, <1>7, NoRowsTypes DEF IndexTypes, ResetsIndex, RemoveIndex
  <2>3. forgotten' \in SUBSET Turns /\ abandoned' \in SUBSET Turns
    BY <1>0, <1>7 DEF JobTypes, ResetsIndex
  <2> QED
    BY <1>0, <1>7, <2>1, <2>2, <2>3 DEF ResetsIndex, RemoveIndex, RecordTypes, IndexTypes,
       JobTypes, recordVars
<1>8. CASE \E t \in Turns : RedactBegins(j, t)
  <2>1. PICK t \in Turns : RedactBegins(j, t)
    BY <1>8
  <2>2. [Resting EXCEPT !.pc = "load", !.turn = t] \in Jobs
    BY <1>00 DEF Jobs, Steps
  <2>3. job' \in [Janitors -> Jobs]
    BY <1>0, <2>1, <2>2 DEF RedactBegins, JobTypes
  <2>4. commands' \in 0 .. MaxCommands
    BY <1>0, <2>1, MaxCommandsAssumption DEF RedactBegins, IndexTypes
  <2> QED
    BY <1>0, <2>1, <2>3, <2>4 DEF RedactBegins, RecordTypes, IndexTypes, JobTypes,
       recordVars, indexVars, historyVars
<1>9. CASE LoadsTurn(j)
  <2> DEFINE t == job[j].turn
  <2>1. t \in Turns
    BY <1>9 DEF LoadsTurn, RewriteFits
  <2>2. PICK new : /\ new = [n \in DOMAIN file[t].lines |-> new[n]]
                   /\ \A n \in DOMAIN file[t].lines :
                        \E is \in BOOLEAN : new[n] = Redacted(file[t].lines[n], is)
                   /\ job' = [job EXCEPT ![j].pc = "put", ![j].lines = new]
    BY <1>9, RedactionLoaded
  <2>3. new \in Seq(Event)
    BY <1>0, <2>1, <2>2, RedactionOfLines DEF RecordTypes, Files
  <2>4. [job[j] EXCEPT !.pc = "put", !.lines = new] \in Jobs
    BY <1>0, <2>3 DEF Jobs, Steps
  <2>5. job' \in [Janitors -> Jobs]
    BY <1>0, <2>2, <2>4 DEF JobTypes
  <2>6. exposed' \in SUBSET Turns
    BY <1>0, <1>9, <2>1 DEF JobTypes, LoadsTurn, Exposed
  <2> QED
    BY <1>0, <1>9, <2>5, <2>6 DEF LoadsTurn, RecordTypes, IndexTypes, JobTypes,
       recordVars, indexVars
<1>10. CASE PutsPayloads(j)
  <2>1. [job[j] EXCEPT !.pc = "rename"] \in Jobs
    BY <1>0 DEF Jobs, Steps
  <2>2. job' \in [Janitors -> Jobs]
    BY <1>0, <1>10, <2>1 DEF JobTypes, PutsPayloads, Goes
  <2>3. blobs' \in SUBSET Large
    BY <1>0, <1>10, BodiesOfEvents DEF RecordTypes, PutsPayloads
  <2> QED
    BY <1>0, <1>10, <2>2, <2>3 DEF PutsPayloads, RecordTypes, IndexTypes, JobTypes,
       indexVars, historyVars
<1>11. CASE RenamesIntoPlace(j)
  <2> DEFINE t == job[j].turn
  <2>1. t \in Turns
    BY <1>11 DEF RenamesIntoPlace, RewriteFits
  <2>2. /\ [lines |-> job[j].lines, torn |-> FALSE, present |-> TRUE] \in Files
        /\ [writer[t] EXCEPT !.attached = FALSE] \in Writers
    BY <1>0, <2>1, ZenonT(60) DEF Files, RecordTypes, Writers
  <2>3. file' \in [Turns -> Files] /\ writer' \in [Turns -> Writers]
    BY <1>0, <1>11, <2>2 DEF RecordTypes, RenamesIntoPlace, Rewritten
  <2>4. [job[j] EXCEPT !.pc = "mark"] \in Jobs
    BY <1>0 DEF Jobs, Steps
  <2>5. job' \in [Janitors -> Jobs]
    BY <1>0, <1>11, <2>4 DEF JobTypes, RenamesIntoPlace, Goes
  <2>6. altered' \in SUBSET Turns
    BY <1>0, <1>11, <2>1 DEF RenamesIntoPlace, JobTypes
  <2> QED
    BY <1>0, <1>11, <2>3, <2>5, <2>6 DEF RenamesIntoPlace, RecordTypes, IndexTypes, JobTypes,
       indexVars
<1>12. CASE WritesMarker(j)
  <2>1. job[j].turn \in Turns
    BY <1>12 DEF WritesMarker, RewriteFits
  <2>2. [job[j] EXCEPT !.pc = "list"] \in Jobs
    BY <1>0 DEF Jobs, Steps
  <2>3. job' \in [Janitors -> Jobs]
    BY <1>0, <1>12, <2>2 DEF JobTypes, WritesMarker, Goes
  <2>4. marker' \in SUBSET Turns /\ exposed' \in SUBSET Turns
    BY <1>0, <1>000, <1>12, <2>1 DEF WritesMarker, ExposedBySweep, JobTypes
  <2> QED
    BY <1>0, <1>12, <2>3, <2>4 DEF WritesMarker, RecordTypes, IndexTypes, JobTypes,
       recordVars, indexVars
<1>13. CASE Stops(j)
  <2>1. job[j].pc = "mark" => job[j].turn \in Turns
    BY DEF RewriteFits
  <2>2. job' \in [Janitors -> Jobs]
    BY <1>0, <1>00, <1>13 DEF JobTypes, Stops, Abandons
  <2>3. abandoned' \in SUBSET Turns /\ unmarked' \in SUBSET Turns
    BY <1>0, <1>13, <2>1 DEF Stops, Abandons, JobTypes
  <2> QED
    BY <1>0, <1>13, <2>2, <2>3 DEF Stops, Abandons, RecordTypes, IndexTypes, JobTypes,
       recordVars, indexVars
<1> QED
  BY <1>1, <1>2, <1>3, <1>4, <1>5, <1>6, <1>7, <1>8, <1>9, <1>10, <1>11, <1>12, <1>13
     DEF JanitorStep
-----------------------------------------------------------------------------
(* What the steps do to the records.                                       *)

\* A writer's step: lines are added at the end of its own file, if anywhere, and what
\* they name was stored or held before.
WriterKeeps(t) ==
  /\ \A u \in Turns \ {t} : file'[u] = file[u] /\ writer'[u] = writer[u]
  /\ file'[t].present = file[t].present
  /\ ~writer[t].attached => file'[t] = file[t]
  /\ Bodies(t) \subseteq Bodies(t)'
  /\ Spills(file'[t].lines) \subseteq Spills(file[t].lines) \cup Spills(writer[t].buffer)
  /\ writer[t].state = "open" /\ writer'[t].state # "none"
  /\ writer'[t].attached = writer[t].attached
  /\ Spills(writer'[t].pending) \cup Spills(writer'[t].buffer)
       \subseteq Spills(writer[t].pending) \cup Spills(writer[t].buffer) \cup blobs'
  /\ blobs \subseteq blobs'
  /\ Len(writer'[t].pending) <= 1
  /\ writer'[t].state # "open" => writer'[t].pending = <<>> /\ writer'[t].buffer = <<>>

LEMMA WrittenKeeps ==
  ASSUME RecordTypes, NEW t \in Turns, NEW k \in 0 .. Len(writer[t].buffer),
         NEW torn \in BOOLEAN, Written(t, k, torn)
  PROVE  /\ \A u \in Turns \ {t} : file'[u] = file[u]
         /\ file'[t].present = file[t].present
         /\ ~writer[t].attached => file'[t] = file[t]
         /\ Bodies(t) \subseteq Bodies(t)'
         /\ Spills(file'[t].lines) \subseteq Spills(file[t].lines) \cup Spills(writer[t].buffer)
<1>0. file[t] \in Files /\ file[t].lines \in Seq(Event) /\ writer[t].buffer \in Seq(Event)
  BY DEF RecordTypes, Files, Writers
<1>1. CASE ~writer[t].attached
  BY <1>1 DEF Written, Bodies
<1>2. CASE writer[t].attached
  <2>1. PICK part : part = SubSeq(writer[t].buffer, 1, k)
    OBVIOUS
  <2>2. part \in Seq(Event) /\ Spills(part) \subseteq Spills(writer[t].buffer)
    BY <1>0, <2>1, SpillsOfPart
  <2>3. file' = [file EXCEPT ![t].lines = @ \o part, ![t].torn = torn]
    BY <1>2, <2>1 DEF Written
  <2>4. /\ \A u \in Turns \ {t} : file'[u] = file[u]
        /\ file'[t].present = file[t].present /\ file'[t].lines = file[t].lines \o part
    BY <1>0, <2>3 DEF RecordTypes, Files
  <2>5. /\ Spills(file[t].lines \o part) \subseteq Spills(file[t].lines) \cup Spills(part)
        /\ \A n \in DOMAIN file[t].lines : \E m \in DOMAIN (file[t].lines \o part) :
             (file[t].lines \o part)[m] = file[t].lines[n]
    BY <1>0, <2>2, SpillsOfJoin
  <2>6. Bodies(t) \subseteq Bodies(t)'
    <3> SUFFICES ASSUME NEW b \in Bodies(t)
                 PROVE  b \in Bodies(t)'
      OBVIOUS
    <3>1. PICK n \in DOMAIN file[t].lines : b = file[t].lines[n].body
      BY DEF Bodies
    <3>2. PICK m \in DOMAIN (file[t].lines \o part) : (file[t].lines \o part)[m] = file[t].lines[n]
      BY <2>5, <3>1
    <3>3. m \in DOMAIN (file'[t].lines) /\ (file'[t].lines)[m].body = b
      BY <2>4, <3>1, <3>2
    <3> QED
      BY <3>3 DEF Bodies
  <2> QED
    BY <1>2, <2>2, <2>4, <2>5, <2>6
<1> QED
  BY <1>1, <1>2

LEMMA WriterStepKeeps ==
  ASSUME RecordTypes, NEW t \in Turns, FileFits(t), WriterStep(t)
  PROVE  WriterKeeps(t)
<1>0. /\ writer[t] \in Writers /\ writer \in [Turns -> Writers]
      /\ writer[t].buffer \in Seq(Event) /\ writer[t].pending \in Seq(Event)
  BY DEF RecordTypes, Writers
<1>00. Len(writer[t].pending) <= 1 /\ Len(<<>>) = 0 /\ Spills(<<>>) = {}
  BY SpillsOfNothing DEF FileFits
<1>1. CASE Appends(t)
  <2>1. PICK e \in Following(writer[t].last) :
          ~Spilled(e) /\ writer' = [writer EXCEPT ![t].buffer = Append(@, e), ![t].last = e.kind]
    BY <1>1 DEF Appends
  <2>2. e \in Event
    BY FollowingAreEvents
  <2>3. Spills(Append(writer[t].buffer, e)) \subseteq Spills(writer[t].buffer)
    BY <1>0, <2>1, <2>2, SpillsOfAppend
  <2>4. /\ writer'[t].buffer = Append(writer[t].buffer, e)
        /\ writer'[t].pending = writer[t].pending /\ writer'[t].state = writer[t].state
        /\ writer'[t].attached = writer[t].attached
        /\ \A u \in Turns \ {t} : writer'[u] = writer[u]
    BY <1>0, <2>1 DEF Writers
  <2>5. writer[t].state = "open" /\ file' = file /\ blobs' = blobs /\ Bodies(t)' = Bodies(t)
    BY <1>1 DEF Appends, Bodies
  <2> QED
    BY <1>00, <2>3, <2>4, <2>5 DEF WriterKeeps
<1>2. CASE Stores(t)
  <2>1. PICK e \in Following(writer[t].last) :
          /\ Spilled(e) /\ blobs' = blobs \cup {e.body} /\ file' = file
          /\ writer' = [writer EXCEPT ![t].pending = <<e>>, ![t].last = e.kind]
    BY <1>2 DEF Stores
  <2>2. PICK one : one = <<e>>
    OBVIOUS
  <2>3. Spills(one) = {e.body} /\ Len(one) = 1
    BY <2>1, <2>2 DEF Spills
  <2>4. /\ writer'[t].buffer = writer[t].buffer
        /\ writer'[t].pending = one /\ writer'[t].state = writer[t].state
        /\ writer'[t].attached = writer[t].attached
        /\ \A u \in Turns \ {t} : writer'[u] = writer[u]
    BY <1>0, <2>1, <2>2 DEF Writers
  <2>5. writer[t].state = "open" /\ Bodies(t)' = Bodies(t)
    BY <1>2, <2>1 DEF Stores, Bodies
  <2>6. /\ Spills(writer'[t].pending) \cup Spills(writer'[t].buffer)
             \subseteq Spills(writer[t].pending) \cup Spills(writer[t].buffer) \cup blobs'
        /\ Len(writer'[t].pending) <= 1
    <3>1. Spills(writer'[t].pending) = {e.body} /\ Len(writer'[t].pending) = 1
      BY <2>3, <2>4, Zenon
    <3>2. Spills(writer'[t].buffer) = Spills(writer[t].buffer)
      BY <2>4
    <3>3. e.body \in blobs'
      BY <2>1
    <3>4. Len(writer'[t].pending) <= 1
      BY <3>1
    <3> QED
      BY <3>1, <3>2, <3>3, <3>4, Zenon
  <2> QED
    BY <2>1, <2>4, <2>5, <2>6 DEF WriterKeeps
<1>3. CASE Accepts(t)
  <2>1. Spills(writer[t].buffer \o writer[t].pending)
          \subseteq Spills(writer[t].buffer) \cup Spills(writer[t].pending)
    BY <1>0, SpillsOfJoin
  <2>2. writer' = [writer EXCEPT ![t].buffer = @ \o writer[t].pending, ![t].pending = <<>>]
    BY <1>3 DEF Accepts
  <2>4. /\ writer'[t].buffer = writer[t].buffer \o writer[t].pending
        /\ writer'[t].pending = <<>> /\ writer'[t].state = writer[t].state
        /\ writer'[t].attached = writer[t].attached
        /\ \A u \in Turns \ {t} : writer'[u] = writer[u]
    BY <1>0, <2>2 DEF Writers
  <2>5. writer[t].state = "open" /\ file' = file /\ blobs' = blobs /\ Bodies(t)' = Bodies(t)
    BY <1>3 DEF Accepts, Bodies
  <2> QED
    BY <1>00, <2>1, <2>4, <2>5 DEF WriterKeeps
<1>4. CASE Overflows(t)
  <2>0. PICK n \in Nat : n = Len(writer[t].buffer) /\ n > 0
    BY <1>0, <1>4 DEF Overflows
  <2>1. PICK torn \in BOOLEAN, k \in {n - 1, n} :
          /\ Written(t, k, torn)
          /\ writer' = [writer EXCEPT ![t].buffer = SubSeq(@, k + 1, Len(@))]
    BY <2>0, <1>4 DEF Overflows
  <2>2. Spills(SubSeq(writer[t].buffer, k + 1, Len(writer[t].buffer))) \subseteq Spills(writer[t].buffer)
    BY <1>0, <2>0, SpillsOfPart, SMTT(30)
  <2>4. /\ writer'[t].buffer = SubSeq(writer[t].buffer, k + 1, Len(writer[t].buffer))
        /\ writer'[t].pending = writer[t].pending /\ writer'[t].state = writer[t].state
        /\ writer'[t].attached = writer[t].attached
        /\ \A u \in Turns \ {t} : writer'[u] = writer[u]
    BY <1>0, <2>1 DEF Writers
  <2>5. writer[t].state = "open" /\ blobs' = blobs
    BY <1>4, <2>1 DEF Overflows, Written
  <2>6. /\ \A u \in Turns \ {t} : file'[u] = file[u]
        /\ file'[t].present = file[t].present
        /\ ~writer[t].attached => file'[t] = file[t]
        /\ Bodies(t) \subseteq Bodies(t)'
        /\ Spills(file'[t].lines) \subseteq Spills(file[t].lines) \cup Spills(writer[t].buffer)
    <3>1. k \in 0 .. Len(writer[t].buffer)
      BY <2>0
    <3> QED
      BY <2>1, <3>1, WrittenKeeps
  <2> QED
    BY <1>00, <2>2, <2>4, <2>5, <2>6 DEF WriterKeeps
<1>5. CASE Closes(t)
  <2>1. Written(t, Len(writer[t].buffer), FALSE) /\ writer[t].pending = <<>>
        /\ writer' = [writer EXCEPT ![t].state = "closed", ![t].buffer = <<>>]
    BY <1>5 DEF Closes
  <2>4. /\ writer'[t].buffer = <<>>
        /\ writer'[t].pending = <<>> /\ writer'[t].state = "closed"
        /\ writer'[t].attached = writer[t].attached
        /\ \A u \in Turns \ {t} : writer'[u] = writer[u]
    BY <1>0, <2>1 DEF Writers
  <2>5. writer[t].state = "open" /\ blobs' = blobs
    BY <1>5, <2>1 DEF Closes, Written
  <2>6. /\ \A u \in Turns \ {t} : file'[u] = file[u]
        /\ file'[t].present = file[t].present
        /\ ~writer[t].attached => file'[t] = file[t]
        /\ Bodies(t) \subseteq Bodies(t)'
        /\ Spills(file'[t].lines) \subseteq Spills(file[t].lines) \cup Spills(writer[t].buffer)
    <3>1. Len(writer[t].buffer) \in 0 .. Len(writer[t].buffer)
      BY <1>0
    <3> QED
      BY <2>1, <3>1, WrittenKeeps
  <2> QED
    BY <1>00, <2>4, <2>5, <2>6 DEF WriterKeeps
<1>6. CASE Dies(t)
  <2>1. writer' = [writer EXCEPT ![t].state = "dead", ![t].buffer = <<>>, ![t].pending = <<>>]
    BY <1>6 DEF Dies
  <2>4. /\ writer'[t].buffer = <<>>
        /\ writer'[t].pending = <<>> /\ writer'[t].state = "dead"
        /\ writer'[t].attached = writer[t].attached
        /\ \A u \in Turns \ {t} : writer'[u] = writer[u]
    BY <1>0, <2>1 DEF Writers
  <2>5. writer[t].state = "open" /\ file' = file /\ blobs' = blobs /\ Bodies(t)' = Bodies(t)
    BY <1>6 DEF Dies, Bodies
  <2> QED
    BY <1>00, <2>4, <2>5 DEF WriterKeeps
<1> QED
  BY <1>1, <1>2, <1>3, <1>4, <1>5, <1>6 DEF WriterStep
-----------------------------------------------------------------------------
(* What keeps each part of the invariant.                                  *)

LEMMA IndexKept ==
  ASSUME IndexFits, UNCHANGED indexVars,
         \A t \in Turns : Settled(t)' => Settled(t) /\ Bodies(t) \subseteq Bodies(t)'
  PROVE  IndexFits'
<1>1. UNCHANGED <<rows, db, scan>>
  BY DEF indexVars
<1>2. ASSUME NEW t \in Turns, Settled(t)'
      PROVE  /\ RowFits(rows[t], t)'
             /\ \A i \in Indexers : scan'[i].db = db' => RowFits(scan[i].found[t], t)'
  <2>1. /\ Settled(t) /\ Bodies(t) \subseteq Bodies(t)'
        /\ RowFits(rows[t], t)
        /\ \A i \in Indexers : scan[i].db = db => RowFits(scan[i].found[t], t)
    BY <1>2 DEF IndexFits
  <2> QED
    BY <1>1, <2>1 DEF RowFits
<1> QED
  BY <1>1, <1>2 DEF IndexFits

LEMMA ForgottenKept ==
  ASSUME ForgottenFits, UNCHANGED indexVars, forgotten' = forgotten, altered \subseteq altered'
  PROVE  ForgottenFits'
  BY DEF ForgottenFits, indexVars, Clean

LEMMA SweepKept ==
  ASSUME NEW j \in Janitors, SweepFits(j), job'[j] = job[j], exposed \subseteq exposed',
         Sweeping(j) => \A t \in Turns \ exposed' :
                          Spills(file'[t].lines) \subseteq Spills(file[t].lines)
  PROVE  SweepFits(j)'
<1>1. job[j].pc \in {"list", "read", "delete", "remove"} => Sweeping(j)
  BY DEF Sweeping
<1>2. Turns \ exposed' \subseteq Turns \ exposed
  OBVIOUS
<1>3. CASE job[j].pc = "read"
  BY <1>1, <1>2, <1>3 DEF SweepFits
<1>4. CASE job[j].pc = "delete"
  BY <1>1, <1>2, <1>4 DEF SweepFits
<1>5. CASE job[j].pc = "remove"
  BY <1>1, <1>2, <1>5 DEF SweepFits
<1>6. CASE job[j].pc \notin {"read", "delete", "remove"}
  BY <1>6 DEF SweepFits
<1> QED
  BY <1>3, <1>4, <1>5, <1>6

LEMMA RewriteKept ==
  ASSUME NEW j \in Janitors, RewriteFits(j), job'[j] = job[j], exposed \subseteq exposed',
         \A t \in Turns : writer[t].state # "none" => writer'[t].state # "none",
         job[j].pc \in {"put", "rename"} /\ job[j].turn \notin exposed' => blobs \subseteq blobs'
  PROVE  RewriteFits(j)'
  BY DEF RewriteFits, HasField

LEMMA WriterStepInv ==
  ASSUME RetentionInv, NEW t \in Turns, WriterStep(t),
         UNCHANGED <<indexVars, marker, job, commands, historyVars>>
  PROVE  RetentionInv'
<1>0. /\ Types /\ RecordTypes /\ FileFits(t) /\ WriterKeeps(t)
      /\ \A u \in Turns : FileFits(u)
  BY TypesAreThree, WriterStepKeeps DEF RetentionInv
<1>00. /\ UNCHANGED <<rows, db, scan>> /\ UNCHANGED <<marker, job, commands>>
       /\ UNCHANGED <<exposed, altered, forgotten, unmarked, abandoned>>
       /\ UNCHANGED indexVars
  BY DEF indexVars, historyVars
<1>1. Types'
  <2>1. RecordTypes'
    BY <1>0, WriterStepTypes
  <2> QED
    BY <1>0, <1>00, <2>1, TypesAreThree DEF Types, RecordTypes
<1>2. ASSUME NEW u \in Turns
      PROVE  FileFits(u)'
  <2>1. CASE u = t
    BY <1>0, <2>1 DEF WriterKeeps, FileFits
  <2>2. CASE u # t
    BY <1>0, <2>2 DEF WriterKeeps, FileFits
  <2> QED
    BY <2>1, <2>2
<1>3. ASSUME NEW u \in Turns, u \notin exposed
      PROVE  PayloadsHeld(u)'
  <2>0. PayloadsHeld(u)
    BY <1>3 DEF RetentionInv
  <2>1. CASE u = t
    BY <1>0, <2>0, <2>1 DEF WriterKeeps, PayloadsHeld
  <2>2. CASE u # t
    BY <1>0, <2>0, <2>2 DEF WriterKeeps, PayloadsHeld
  <2> QED
    BY <2>1, <2>2
<1>4. t \in BeingWritten /\ BeingWritten' \subseteq BeingWritten
  BY <1>0 DEF WriterKeeps, BeingWritten
<1>5. WritersExposed'
  BY <1>00, <1>4 DEF RetentionInv, WritersExposed, SomebodySweeps, Sweeping, BeingRewritten
<1>6. ASSUME NEW j \in Janitors
      PROVE  RewriteFits(j)' /\ SweepFits(j)'
  <2>1. RewriteFits(j) /\ SweepFits(j)
    BY DEF RetentionInv
  <2>2. \A u \in Turns : writer[u].state # "none" => writer'[u].state # "none"
    BY <1>0 DEF WriterKeeps
  <2>3. RewriteFits(j)'
    BY <1>0, <1>00, <2>1, <2>2, RewriteKept DEF WriterKeeps
  <2>4. Sweeping(j) => \A u \in Turns \ exposed' : file'[u] = file[u]
    <3>1. Sweeping(j) => t \in exposed
      BY <1>4 DEF RetentionInv, WritersExposed, SomebodySweeps
    <3> QED
      BY <1>0, <1>00, <3>1 DEF WriterKeeps
  <2>5. SweepFits(j)'
    BY <1>00, <2>1, <2>4, SweepKept
  <2> QED
    BY <2>3, <2>5
<1>7. IndexFits'
  <2>1. \A u \in Turns : Bodies(u) \subseteq Bodies(u)'
    <3> TAKE u \in Turns
    <3>1. CASE u = t
      BY <1>0, <3>1 DEF WriterKeeps
    <3>2. CASE u # t
      BY <1>0, <3>2 DEF WriterKeeps, Bodies
    <3> QED
      BY <3>1, <3>2
  <2>2. \A u \in Turns : Settled(u)' => Settled(u)
    BY <1>00 DEF Settled, Disturbs
  <2>3. IndexFits
    BY DEF RetentionInv
  <2> QED
    BY <1>00, <2>1, <2>2, <2>3, IndexKept
<1>8. AlteredFits'
  <2>1. AlteredFits
    BY DEF RetentionInv
  <2>2. ASSUME NEW u \in altered
        PROVE  CleanBodies(u)' /\ ~writer'[u].attached /\ writer'[u].state # "none"
    <3>0. u \in Turns /\ CleanBodies(u) /\ ~writer[u].attached /\ writer[u].state # "none"
      BY <1>0, <2>1 DEF AlteredFits, Types
    <3>1. CASE u = t
      BY <1>0, <3>0, <3>1 DEF WriterKeeps, CleanBodies
    <3>2. CASE u # t
      BY <1>0, <3>0, <3>2 DEF WriterKeeps, CleanBodies
    <3> QED
      BY <3>1, <3>2
  <2> QED
    BY <1>00, <2>1, <2>2 DEF AlteredFits
<1>9. ForgottenFits'
  BY <1>00, ForgottenKept DEF RetentionInv
<1>10. AlteredIsMarked'
  <2>1. \A u \in Turns : file'[u].present = file[u].present
    BY <1>0 DEF WriterKeeps
  <2>2. altered \subseteq Turns /\ AlteredIsMarked
    BY <1>0 DEF Types, RetentionInv
  <2> QED
    BY <1>00, <2>1, <2>2 DEF AlteredIsMarked
<1> QED
  BY <1>00, <1>1, <1>2, <1>3, <1>5, <1>6, <1>7, <1>8, <1>9, <1>10 DEF RetentionInv

LEMMA CreatesInv ==
  ASSUME RetentionInv, NEW t \in Turns, Creates(t), Exposed(t),
         UNCHANGED <<indexVars, marker, job, commands, altered, forgotten, unmarked, abandoned>>
  PROVE  RetentionInv'
<1>0. /\ Types /\ RecordTypes
      /\ \A u \in Turns : FileFits(u)
      /\ writer[t] \in Writers /\ file[t] \in Files
  BY TypesAreThree DEF RetentionInv, RecordTypes
<1>00. /\ UNCHANGED <<rows, db, scan>> /\ UNCHANGED <<marker, job, commands>>
       /\ UNCHANGED <<altered, forgotten, unmarked, abandoned>>
       /\ UNCHANGED indexVars
  BY DEF indexVars
<1>000. /\ exposed \subseteq exposed' /\ exposed' \subseteq exposed \cup {t}
        /\ SomebodySweeps => t \in exposed'
  BY DEF Exposed
<1>a. /\ writer[t].state = "none" /\ blobs' = blobs
      /\ file[t].lines = <<>> /\ writer[t].pending = <<>> /\ writer[t].buffer = <<>>
  BY <1>0 DEF Creates, FileFits
<1>b. /\ file'[t].lines = <<>> /\ file'[t].present
      /\ writer'[t].state = "open" /\ writer'[t].pending = <<>> /\ writer'[t].buffer = <<>>
      /\ \A u \in Turns \ {t} : file'[u] = file[u] /\ writer'[u] = writer[u]
  BY <1>0, <1>a DEF Creates, Absent, RecordTypes, Writers
<1>c. \A u \in Turns : file'[u].lines = file[u].lines
  BY <1>a, <1>b
<1>1. Types'
  <2>1. RecordTypes'
    BY <1>0, CreatesTypes
  <2>2. exposed' \in SUBSET Turns
    BY <1>0, <1>000 DEF Types
  <2> QED
    BY <1>0, <1>00, <2>1, <2>2 DEF Types, RecordTypes
<1>2. ASSUME NEW u \in Turns
      PROVE  FileFits(u)'
  <2>1. CASE u = t
    <3>1. Len(<<>>) <= 1
      OBVIOUS
    <3> QED
      BY <1>b, <2>1, <3>1 DEF FileFits
  <2>2. CASE u # t
    BY <1>0, <1>b, <2>2 DEF FileFits
  <2> QED
    BY <2>1, <2>2
<1>3. ASSUME NEW u \in Turns, u \notin exposed'
      PROVE  PayloadsHeld(u)'
  <2>0. PayloadsHeld(u)
    BY <1>3, <1>000 DEF RetentionInv
  <2>1. CASE u = t
    BY <1>a, <1>b, <2>1, SpillsOfNothing DEF PayloadsHeld
  <2>2. CASE u # t
    BY <1>a, <1>b, <2>0, <2>2 DEF PayloadsHeld
  <2> QED
    BY <2>1, <2>2
<1>4. BeingWritten' \subseteq BeingWritten \cup {t}
  BY <1>b DEF BeingWritten
<1>5. WritersExposed'
  <2>1. SomebodySweeps' = SomebodySweeps /\ BeingRewritten' = BeingRewritten
    BY <1>00 DEF SomebodySweeps, Sweeping, BeingRewritten
  <2> QED
    BY <1>000, <1>4, <2>1 DEF RetentionInv, WritersExposed
<1>6. ASSUME NEW j \in Janitors
      PROVE  RewriteFits(j)' /\ SweepFits(j)'
  <2>1. RewriteFits(j) /\ SweepFits(j)
    BY DEF RetentionInv
  <2>2. \A u \in Turns : writer[u].state # "none" => writer'[u].state # "none"
    BY <1>b
  <2>3. RewriteFits(j)'
    BY <1>a, <1>00, <1>000, <2>1, <2>2, RewriteKept
  <2>5. SweepFits(j)'
    BY <1>00, <1>000, <1>c, <2>1, SweepKept
  <2> QED
    BY <2>3, <2>5
<1>7. IndexFits'
  <2>1. \A u \in Turns : Bodies(u)' = Bodies(u)
    BY <1>c DEF Bodies
  <2>2. \A u \in Turns : Settled(u)' => Settled(u)
    BY <1>00 DEF Settled, Disturbs
  <2>3. IndexFits
    BY DEF RetentionInv
  <2> QED
    BY <1>00, <2>1, <2>2, <2>3, IndexKept
<1>d. t \notin altered
  BY <1>a DEF RetentionInv, AlteredFits
<1>8. AlteredFits'
  <2>1. AlteredFits /\ altered \subseteq Turns
    BY <1>0 DEF RetentionInv, Types
  <2>2. ASSUME NEW u \in altered
        PROVE  CleanBodies(u)' /\ ~writer'[u].attached /\ writer'[u].state # "none"
    BY <1>b, <1>d, <2>1 DEF AlteredFits, CleanBodies
  <2> QED
    BY <1>00, <2>1, <2>2 DEF AlteredFits
<1>9. ForgottenFits'
  BY <1>00, ForgottenKept DEF RetentionInv
<1>10. AlteredIsMarked'
  <2>2. altered \subseteq Turns /\ AlteredIsMarked
    BY <1>0 DEF Types, RetentionInv
  <2> QED
    BY <1>00, <1>b, <1>d, <2>2 DEF AlteredIsMarked
<1> QED
  BY <1>00, <1>1, <1>2, <1>3, <1>5, <1>6, <1>7, <1>8, <1>9, <1>10 DEF RetentionInv
-----------------------------------------------------------------------------
(* The indexers.                                                           *)

\* What an indexer holds for a turn it read from the journal as it is, or held before;
\* what it commits it held, in the file that is under the name.
IndexerKeeps(i) ==
  /\ db' = db /\ scan'[i].db <= db
  /\ \A k \in Indexers \ {i} : scan'[k] = scan[k]
  /\ \A t \in Turns :
       rows'[t] = rows[t] \/ (scan[i].db = db /\ rows'[t] = scan[i].found[t])
  /\ \A t \in Turns :
       \/ scan'[i].found[t] = NoRow
       \/ /\ scan'[i].db = scan[i].db
          /\ scan'[i].found[t] \in {scan[i].found[t], RowOf(file[t].lines)}

LEMMA IndexerStepKeeps ==
  ASSUME Types, IndexFits, NEW i \in Indexers, IndexerStep(i)
  PROVE  IndexerKeeps(i)
<1>0. /\ scan \in [Indexers -> Scans] /\ scan[i] \in Scans /\ rows \in [Turns -> Rows]
      /\ scan[i].found \in [Turns -> Rows] /\ scan[i].db \in Nat /\ scan[i].db <= db
      /\ scan[i].todo \in SUBSET Turns /\ db \in Nat
  BY DEF Types, Scans, IndexFits
<1>00. Idle.db = 0 /\ Idle.found = NoRows /\ \A t \in Turns : NoRows[t] = NoRow
  BY DEF Idle, NoRows
<1>1. ASSUME NEW p, NEW todo, UNCHANGED <<rows, db>>,
             scan' = [scan EXCEPT ![i] = [Idle EXCEPT !.pc = p, !.todo = todo, !.db = db]]
      PROVE  IndexerKeeps(i)
  <2>1. scan'[i].db = db /\ scan'[i].found = NoRows /\ \A k \in Indexers \ {i} : scan'[k] = scan[k]
    BY <1>0, <1>1 DEF Idle
  <2> QED
    BY <1>0, <1>00, <1>1, <2>1 DEF IndexerKeeps
<1>2. CASE \E t \in Turns : IndexTurnBegins(i, t)
  <2>1. PICK t \in Turns : IndexTurnBegins(i, t)
    BY <1>2
  <2>2. /\ scan' = [scan EXCEPT ![i] = [Idle EXCEPT !.pc = "turn", !.todo = {t}, !.db = db]]
        /\ UNCHANGED <<rows, db>>
    BY <2>1 DEF IndexTurnBegins
  <2> QED
    BY <1>1, <2>2
<1>3. CASE RebuildBegins(i)
  <2>1. PICK todo : todo = {t \in Turns : file[t].present}
    OBVIOUS
  <2>2. /\ scan' = [scan EXCEPT ![i] = [Idle EXCEPT !.pc = "rebuild", !.todo = todo, !.db = db]]
        /\ UNCHANGED <<rows, db>>
    <3>1. scan' = [scan EXCEPT ![i] = [Idle EXCEPT !.pc = "rebuild", !.db = db,
                                                   !.todo = {t \in Turns : file[t].present}]]
      BY <1>3 DEF RebuildBegins
    <3>2. [Idle EXCEPT !.pc = "rebuild", !.db = db, !.todo = todo]
            = [Idle EXCEPT !.pc = "rebuild", !.todo = todo, !.db = db]
      BY DEF Idle
    <3> QED
      BY <1>3, <2>1, <3>1, <3>2 DEF RebuildBegins
  <2> QED
    BY <1>1, <2>2
<1>4. CASE Reads(i)
  <2> DEFINE u == Min(scan[i].todo)
  <2>1. PICK row : /\ row \in {RowOf(file[u].lines), NoRow}
                   /\ scan' = [scan EXCEPT ![i].todo = @ \ {u}, ![i].found[u] = row]
    BY <1>4 DEF Reads
  <2>2. UNCHANGED <<rows, db>>
    BY <1>4 DEF Reads
  <2> HIDE DEF u
  <2>3. /\ scan'[i].db = scan[i].db
        /\ scan'[i].found = [scan[i].found EXCEPT ![u] = row]
        /\ \A k \in Indexers \ {i} : scan'[k] = scan[k]
    BY <1>0, <2>1 DEF Scans
  <2>4. \A t \in Turns : scan'[i].found[t] = IF t = u THEN row ELSE scan[i].found[t]
    BY <1>0, <2>3
  <2> QED
    BY <1>0, <2>1, <2>2, <2>3, <2>4 DEF IndexerKeeps
<1>5. ASSUME scan' = [scan EXCEPT ![i] = Idle]
      PROVE  /\ scan'[i].db <= db /\ \A t \in Turns : scan'[i].found[t] = NoRow
             /\ \A k \in Indexers \ {i} : scan'[k] = scan[k]
  BY <1>0, <1>00, <1>5
<1>6. CASE IngestCommits(i)
  <2>1. \A t \in Turns : rows'[t] = rows[t] \/ (scan[i].db = db /\ rows'[t] = scan[i].found[t])
    BY <1>0, <1>6 DEF IngestCommits
  <2> QED
    BY <1>5, <1>6, <2>1 DEF IndexerKeeps, IngestCommits
<1>7. CASE RebuildCommits(i)
  BY <1>5, <1>7 DEF IndexerKeeps, RebuildCommits
<1>8. CASE GivesUp(i)
  BY <1>5, <1>8 DEF IndexerKeeps, GivesUp
<1> QED
  BY <1>2, <1>3, <1>4, <1>6, <1>7, <1>8 DEF IndexerStep

LEMMA IndexerStepInv ==
  ASSUME RetentionInv, NEW i \in Indexers, IndexerStep(i),
         UNCHANGED <<recordVars, marker, job, historyVars>>
  PROVE  RetentionInv'
<1>0. Types /\ RecordTypes /\ IndexTypes /\ IndexFits /\ ForgottenFits /\ AlteredFits
  BY TypesAreThree DEF RetentionInv
<1>1. IndexerKeeps(i)
  BY <1>0, IndexerStepKeeps
<1>2. IndexTypes'
  BY <1>0, IndexerStepTypes
<1>3. /\ UNCHANGED <<file, writer, blobs>> /\ UNCHANGED <<marker, job>>
      /\ UNCHANGED <<exposed, altered, forgotten, unmarked, abandoned>>
  BY DEF recordVars, historyVars
<1>4. Types'
  BY <1>0, <1>2, <1>3 DEF Types, IndexTypes
<1>5. \A t \in Turns : file[t].lines \in Seq(Event)
  BY <1>0 DEF RecordTypes, Files
<1>6. /\ (\A t \in Turns : FileFits(t))' /\ (\A t \in Turns \ exposed : PayloadsHeld(t))'
      /\ WritersExposed' /\ (\A j \in Janitors : RewriteFits(j) /\ SweepFits(j))'
      /\ AlteredFits' /\ AlteredIsMarked'
  <2>1. (\A t \in Turns : FileFits(t))' /\ (\A t \in Turns \ exposed : PayloadsHeld(t))'
    BY <1>3 DEF RetentionInv, FileFits, PayloadsHeld
  <2>2. WritersExposed'
    BY <1>3 DEF RetentionInv, WritersExposed, SomebodySweeps, Sweeping, BeingWritten, BeingRewritten
  <2>3. \A j \in Janitors : RewriteFits(j)' /\ SweepFits(j)'
    BY <1>3, RewriteKept, SweepKept DEF RetentionInv
  <2>4. AlteredFits' /\ AlteredIsMarked'
    BY <1>3 DEF RetentionInv, AlteredFits, AlteredIsMarked, CleanBodies
  <2> QED
    BY <2>1, <2>2, <2>3, <2>4
<1>7. IndexFits'
  <2>1. \A k \in Indexers : scan'[k].db <= db'
    BY <1>0, <1>1 DEF IndexerKeeps, IndexFits
  <2>2. ASSUME NEW t \in Turns, Settled(t)'
        PROVE  /\ RowFits(rows[t], t)'
               /\ \A k \in Indexers : scan'[k].db = db' => RowFits(scan[k].found[t], t)'
    <3>1. Settled(t)
      BY <1>3, <2>2 DEF Settled, Disturbs
    <3>2. /\ RowFits(rows[t], t) /\ RowFits(NoRow, t) /\ RowFits(RowOf(file[t].lines), t)
          /\ \A k \in Indexers : scan[k].db = db => RowFits(scan[k].found[t], t)
      BY <1>0, <1>5, <3>1, RowsFitTheirLines DEF IndexFits, RowFits, Bodies
    <3>3. Bodies(t)' = Bodies(t)
      BY <1>3 DEF Bodies
    <3>4. RowFits(rows'[t], t)
      BY <1>1, <3>2 DEF IndexerKeeps
    <3>5. ASSUME NEW k \in Indexers, scan'[k].db = db'
          PROVE  RowFits(scan'[k].found[t], t)
      BY <1>1, <3>2, <3>5 DEF IndexerKeeps
    <3> QED
      BY <3>3, <3>4, <3>5 DEF RowFits
  <2> QED
    BY <2>1, <2>2 DEF IndexFits
<1>8. ForgottenFits'
  <2>1. ASSUME NEW t \in forgotten
        PROVE  /\ Clean(rows'[t])
               /\ \A k \in Indexers : scan'[k].db = db' => Clean(scan'[k].found[t])
    <3>1. t \in Turns /\ CleanBodies(t)
      BY <1>0 DEF Types, ForgottenFits, AlteredFits
    <3>2. Clean(RowOf(file[t].lines)) /\ Clean(NoRow)
      <4>1. {RowOf(file[t].lines).prompt, RowOf(file[t].lines).answer}
              \subseteq {None} \cup {file[t].lines[n].body : n \in DOMAIN file[t].lines}
        BY <1>5, <3>1, RowsFitTheirLines
      <4>2. None.content # "secret"
        BY DEF None
      <4> QED
        BY <3>1, <4>1, <4>2 DEF Clean, CleanBodies
    <3>3. /\ Clean(rows[t])
          /\ \A k \in Indexers : scan[k].db = db => Clean(scan[k].found[t])
      BY <1>0 DEF ForgottenFits
    <3>4. Clean(rows'[t])
      BY <1>1, <3>1, <3>3 DEF IndexerKeeps
    <3>5. ASSUME NEW k \in Indexers, scan'[k].db = db'
          PROVE  Clean(scan'[k].found[t])
      BY <1>1, <3>1, <3>2, <3>3, <3>5 DEF IndexerKeeps
    <3> QED
      BY <3>4, <3>5
  <2> QED
    BY <1>0, <1>3, <2>1 DEF ForgottenFits, Clean
<1> QED
  BY <1>3, <1>4, <1>6, <1>7, <1>8 DEF RetentionInv
-----------------------------------------------------------------------------
(* The janitors.                                                           *)

\* What janitor j does leaves what the others hold.
LEMMA OthersKept ==
  ASSUME RetentionInv, NEW j \in Janitors, NEW k \in Janitors, job'[k] = job[k],
         exposed \subseteq exposed',
         \A t \in Turns : writer[t].state # "none" => writer'[t].state # "none",
         SomebodySweeps => \A t \in Turns \ exposed' :
                             Spills(file'[t].lines) \subseteq Spills(file[t].lines),
         blobs \subseteq blobs' \/ SomebodySweeps
  PROVE  RewriteFits(k)' /\ SweepFits(k)'
<1>1. RewriteFits(k) /\ SweepFits(k)
  BY DEF RetentionInv
<1>2. job[k].pc \in {"put", "rename"} /\ job[k].turn \notin exposed' => blobs \subseteq blobs'
  BY DEF RetentionInv, WritersExposed, BeingRewritten
<1>3. Sweeping(k) => SomebodySweeps
  BY DEF SomebodySweeps
<1>4. RewriteFits(k)'
  BY <1>1, <1>2, RewriteKept
<1>5. SweepFits(k)'
  BY <1>1, <1>3, SweepKept
<1> QED
  BY <1>4, <1>5

LEMMA JobStepInv ==
  ASSUME RetentionInv, Types', NEW j \in Janitors,
         \A k \in Janitors \ {j} : job'[k] = job[k],
         exposed \subseteq exposed', WritersExposed',
         RewriteFits(j)', SweepFits(j)',
         marker \subseteq marker', job[j].pc = "mark" => job[j].turn \in marker',
         \A t \in Turns : Disturbs(j, t) => Disturbs(j, t)',
         job'[j].pc \in {"mark", "list", "read", "delete", "remove"} /\ job'[j].turn # NoTurn
           => job'[j].turn \in altered,
         UNCHANGED <<file, writer, indexVars, altered, forgotten, unmarked, abandoned>>,
         blobs \subseteq blobs'
  PROVE  RetentionInv'
<1>1. /\ UNCHANGED <<file, writer>> /\ UNCHANGED indexVars /\ blobs \subseteq blobs'
      /\ UNCHANGED <<altered, forgotten, unmarked, abandoned>>
  OBVIOUS
<1>2. ASSUME NEW k \in Janitors
      PROVE  RewriteFits(k)' /\ SweepFits(k)'
  <2>1. CASE k = j
    BY <2>1
  <2>2. CASE k # j
    BY <1>1, <2>2, OthersKept
  <2> QED
    BY <2>1, <2>2
<1>3. (\A t \in Turns : FileFits(t))' /\ (\A t \in Turns \ exposed : PayloadsHeld(t))'
  BY <1>1 DEF RetentionInv, FileFits, PayloadsHeld
<1>4. IndexFits'
  <2>1. \A t \in Turns : Settled(t)' => Settled(t)
    <3> SUFFICES ASSUME NEW t \in Turns, Settled(t)', NEW k \in Janitors
                 PROVE  t \notin abandoned /\ ~Disturbs(k, t)
      BY <1>1 DEF Settled
    <3>1. t \notin abandoned /\ ~Disturbs(k, t)'
      BY <1>1 DEF Settled
    <3>2. CASE k = j
      BY <3>1, <3>2
    <3>3. CASE k # j
      BY <3>1, <3>3 DEF Disturbs
    <3> QED
      BY <3>2, <3>3
  <2>2. \A t \in Turns : Bodies(t)' = Bodies(t)
    BY <1>1 DEF Bodies
  <2> QED
    BY <1>1, <2>1, <2>2, IndexKept DEF RetentionInv
<1>5. AlteredFits'
  <2>1. \A t \in altered' : CleanBodies(t)' /\ ~writer'[t].attached /\ writer'[t].state # "none"
    BY <1>1 DEF RetentionInv, AlteredFits, CleanBodies
  <2>2. ASSUME NEW k \in Janitors,
               job'[k].pc \in {"mark", "list", "read", "delete", "remove"}, job'[k].turn # NoTurn
        PROVE  job'[k].turn \in altered'
    BY <1>1, <2>2 DEF RetentionInv, AlteredFits
  <2> QED
    BY <2>1, <2>2 DEF AlteredFits
<1>6. ForgottenFits'
  BY <1>1, ForgottenKept DEF RetentionInv
<1>7. AlteredIsMarked'
  <2>1. \A k \in Janitors, t \in Turns : job[k].pc = "mark" /\ job[k].turn = t =>
          t \in marker' \/ (job'[k].pc = "mark" /\ job'[k].turn = t)
    OBVIOUS
  <2>2. altered \subseteq Turns
    BY DEF RetentionInv, Types
  <2> QED
    BY <1>1, <2>1, <2>2 DEF RetentionInv, AlteredIsMarked
<1> QED
  BY <1>2, <1>3, <1>4, <1>5, <1>6, <1>7 DEF RetentionInv

LEMMA PruneBeginsInv ==
  ASSUME RetentionInv, Types', NEW j \in Janitors, NEW cut, PruneBegins(j, cut)
  PROVE  RetentionInv'
<1>0. job \in [Janitors -> Jobs]
  BY DEF RetentionInv, Types
<1>1. /\ job[j].pc = "idle" /\ job'[j].pc = "list" /\ job'[j].turn = NoTurn
      /\ job'[j].todo = {} /\ job'[j].doomed = {}
      /\ \A k \in Janitors \ {j} : job'[k] = job[k]
  BY <1>0 DEF PruneBegins, Resting
<1>2. exposed' = exposed \cup BeingWritten \cup BeingRewritten /\ writer' = writer
  BY DEF PruneBegins, ExposedBySweep, recordVars
<1>3. BeingWritten' = BeingWritten /\ BeingRewritten' \subseteq BeingRewritten
  BY <1>1, <1>2 DEF BeingWritten, BeingRewritten
<1>4. WritersExposed'
  BY <1>2, <1>3 DEF WritersExposed
<1>5. RewriteFits(j)' /\ SweepFits(j)'
  BY <1>1 DEF RewriteFits, SweepFits
<1>6. \A t \in Turns : ~Disturbs(j, t)
  BY <1>1 DEF Disturbs
<1>7. /\ UNCHANGED <<file, writer, indexVars, marker, altered, forgotten, unmarked, abandoned>>
      /\ blobs' = blobs
  BY DEF PruneBegins, recordVars
<1> QED
  BY <1>1, <1>2, <1>4, <1>5, <1>6, <1>7, JobStepInv

LEMMA RedactBeginsInv ==
  ASSUME RetentionInv, Types', NEW j \in Janitors, NEW t \in Turns, RedactBegins(j, t)
  PROVE  RetentionInv'
<1>0. job \in [Janitors -> Jobs]
  BY DEF RetentionInv, Types
<1>1. /\ job[j].pc = "idle" /\ job'[j].pc = "load" /\ job'[j].turn = t
      /\ job'[j].todo = {} /\ job'[j].doomed = {}
      /\ \A k \in Janitors \ {j} : job'[k] = job[k]
  BY <1>0 DEF RedactBegins, Resting
<1>2. exposed' = exposed /\ writer' = writer
  BY DEF RedactBegins, historyVars, recordVars
<1>3. /\ BeingWritten' = BeingWritten /\ BeingRewritten' \subseteq BeingRewritten
      /\ SomebodySweeps' => SomebodySweeps
  BY <1>1, <1>2 DEF BeingWritten, BeingRewritten, SomebodySweeps, Sweeping
<1>4. WritersExposed'
  BY <1>2, <1>3 DEF WritersExposed, RetentionInv
<1>5. writer[t].state # "none"
  BY DEF RedactBegins, RetentionInv, FileFits
<1>6. RewriteFits(j)' /\ SweepFits(j)'
  BY <1>1, <1>2, <1>5 DEF RewriteFits, SweepFits
<1>7. \A u \in Turns : ~Disturbs(j, u)
  BY <1>1 DEF Disturbs
<1>8. /\ UNCHANGED <<file, writer, indexVars, marker, altered, forgotten, unmarked, abandoned>>
      /\ blobs' = blobs
  BY DEF RedactBegins, recordVars, historyVars
<1> QED
  BY <1>1, <1>2, <1>4, <1>6, <1>7, <1>8, JobStepInv

\* Steps of a sweep from one list to the next.
LEMMA SweepStepInv ==
  ASSUME RetentionInv, Types', NEW j \in Janitors,
         job[j].pc \in {"list", "read", "delete"}, job'[j].pc \in {"read", "delete", "remove"},
         job'[j].turn = job[j].turn, job[j].pc = "delete" => job'[j].doomed = job[j].doomed,
         job[j].pc = "delete" => job'[j].pc = "remove",
         \A k \in Janitors \ {j} : job'[k] = job[k], SweepFits(j)',
         UNCHANGED <<recordVars, indexVars, marker, commands, historyVars>>
  PROVE  RetentionInv'
<1>2. exposed' = exposed /\ writer' = writer
  BY DEF historyVars, recordVars
<1>3. /\ BeingWritten' = BeingWritten /\ BeingRewritten' \subseteq BeingRewritten
      /\ SomebodySweeps
  BY <1>2 DEF BeingWritten, BeingRewritten, SomebodySweeps, Sweeping
<1>4. WritersExposed'
  BY <1>2, <1>3 DEF WritersExposed, RetentionInv
<1>5. RewriteFits(j)'
  BY DEF RewriteFits
<1>6. \A t \in Turns : Disturbs(j, t) => Disturbs(j, t)'
  BY DEF Disturbs
<1>7. job'[j].turn # NoTurn => job'[j].turn \in altered
  BY DEF RetentionInv, AlteredFits
<1>8. /\ UNCHANGED <<file, writer, indexVars, marker, altered, forgotten, unmarked, abandoned>>
      /\ blobs' = blobs
  BY DEF recordVars, historyVars
<1> QED
  BY <1>2, <1>4, <1>5, <1>6, <1>7, <1>8, JobStepInv

LEMMA ListsInv ==
  ASSUME RetentionInv, Types', NEW j \in Janitors, Lists(j)
  PROVE  RetentionInv'
<1>0. job \in [Janitors -> Jobs] /\ SweepFits(j)
  BY DEF RetentionInv, Types
<1>1. PICK found \in SUBSET Turns : found = {t \in Turns : file[t].present}
  OBVIOUS
<1>2. /\ job[j].pc = "list" /\ job'[j].turn = job[j].turn
      /\ job'[j].pc = (IF found = {} THEN "delete" ELSE "read")
      /\ job'[j].todo = found /\ job'[j].doomed = {}
      /\ \A k \in Janitors \ {j} : job'[k] = job[k]
  <2>1. job' = [job EXCEPT ![j].pc = IF found = {} THEN "delete" ELSE "read", ![j].todo = found]
    BY <1>1 DEF Lists
  <2>2. job[j].pc = "list" /\ job[j].doomed = {}
    BY <1>0 DEF Lists, SweepFits
  <2> QED
    BY <1>0, <2>1, <2>2 DEF Jobs
<1>3. UNCHANGED <<recordVars, indexVars, marker, commands, historyVars>>
  BY DEF Lists
<1>4. \A t \in Turns : t \in found \/ Spills(file'[t].lines) = {}
  BY <1>1, <1>3, SpillsOfNothing DEF recordVars, RetentionInv, FileFits
<1>5. SweepFits(j)'
  BY <1>2, <1>4 DEF SweepFits
<1> QED
  BY <1>2, <1>3, <1>5, SweepStepInv

LEMMA ReadsJournalInv ==
  ASSUME RetentionInv, Types', NEW j \in Janitors, ReadsJournal(j)
  PROVE  RetentionInv'
<1>0. job \in [Janitors -> Jobs] /\ SweepFits(j) /\ job[j].todo \in SUBSET Turns
  BY DEF RetentionInv, Types, Jobs
<1>1. PICK t \in job[j].todo : t = Min(job[j].todo)
  BY <1>0, TurnsAssumption, MinIsMember DEF ReadsJournal
<1>2. UNCHANGED <<recordVars, indexVars, marker, commands, historyVars>>
  BY DEF ReadsJournal
<1> DEFINE old == file[t].lines # <<>> /\ t <= job[j].cut
           doomed == IF old THEN job[j].doomed \cup {t} ELSE job[j].doomed
           todo == IF job[j].todo = {t} THEN doomed ELSE job[j].todo \ {t}
           live == IF old THEN job[j].live ELSE job[j].live \cup Spills(file[t].lines)
<1>3. /\ job[j].pc = "read"
      /\ job' = [job EXCEPT ![j].pc = IF job[j].todo = {t} THEN "delete" ELSE "read",
                            ![j].todo = todo, ![j].doomed = doomed, ![j].live = live]
  BY <1>1 DEF ReadsJournal
<1>4. /\ job'[j].turn = job[j].turn
      /\ job'[j].pc = (IF job[j].todo = {t} THEN "delete" ELSE "read")
      /\ job'[j].todo = todo /\ job'[j].doomed = doomed /\ job'[j].live = live
      /\ \A k \in Janitors \ {j} : job'[k] = job[k]
  <2> HIDE DEF doomed, todo, live
  <2> QED
    BY <1>0, <1>3 DEF Jobs
<1>5. file' = file /\ exposed' = exposed
  BY <1>2 DEF recordVars, historyVars
<1>6. \A u \in Turns \ exposed : \/ u \in (job[j].todo \ {t}) \cup doomed
                                 \/ Spills(file[u].lines) \subseteq live
  BY <1>0, <1>3 DEF SweepFits
<1>7. SweepFits(j)'
  <2>1. CASE job[j].todo = {t}
    <3>1. todo = doomed /\ \A u \in Turns \ exposed : u \in doomed \/ Spills(file[u].lines) \subseteq live
      BY <1>6, <2>1
    <3> HIDE DEF doomed, todo, live
    <3> QED
      BY <1>4, <1>5, <2>1, <3>1 DEF SweepFits
  <2>2. CASE job[j].todo # {t}
    <3>1. todo = job[j].todo \ {t}
      BY <2>2
    <3> HIDE DEF doomed, todo, live
    <3> QED
      BY <1>4, <1>5, <1>6, <2>2, <3>1 DEF SweepFits
  <2> QED
    BY <2>1, <2>2
<1> QED
  BY <1>2, <1>3, <1>4, <1>7, SweepStepInv

LEMMA ListsRefsInv ==
  ASSUME RetentionInv, Types', NEW j \in Janitors, ListsRefs(j)
  PROVE  RetentionInv'
<1>0. job \in [Janitors -> Jobs] /\ SweepFits(j)
  BY DEF RetentionInv, Types
<1>1. /\ job[j].pc = "delete" /\ job[j].todo = {} /\ job'[j].pc = "remove"
      /\ job'[j].turn = job[j].turn /\ job'[j].doomed = job[j].doomed
      /\ job'[j].refs = blobs \ job[j].live
      /\ \A k \in Janitors \ {j} : job'[k] = job[k]
  BY <1>0 DEF ListsRefs, Unreferenced, Jobs
<1>2. UNCHANGED <<recordVars, indexVars, marker, commands, historyVars>>
  BY DEF ListsRefs
<1>3. file' = file /\ exposed' = exposed
  BY <1>2 DEF recordVars, historyVars
<1>4. SweepFits(j)'
  BY <1>0, <1>1, <1>3 DEF SweepFits
<1> QED
  BY <1>1, <1>2, <1>4, SweepStepInv
LEMMA LoadsTurnInv ==
  ASSUME RetentionInv, Types', NEW j \in Janitors, LoadsTurn(j)
  PROVE  RetentionInv'
<1>0. job \in [Janitors -> Jobs] /\ RewriteFits(j)
  BY DEF RetentionInv, Types
<1>1. PICK t \in Turns : t = job[j].turn
  BY <1>0 DEF LoadsTurn, RewriteFits
<1>2. file[t].lines \in Seq(Event)
  BY DEF RetentionInv, Types, Files
<1>3. PICK new : /\ new = [n \in DOMAIN file[t].lines |-> new[n]]
                 /\ \A n \in DOMAIN file[t].lines :
                      \E is \in BOOLEAN : new[n] = Redacted(file[t].lines[n], is)
                 /\ job' = [job EXCEPT ![j].pc = "put", ![j].lines = new]
  BY <1>1, RedactionLoaded
<1>4. /\ \A n \in DOMAIN new : new[n].body.content # "secret"
      /\ \A b \in Spills(new) : HasField(b) \/ b \in Spills(file[t].lines)
  BY <1>2, <1>3, RedactionOfLines
<1>5. Spills(file[t].lines) \subseteq blobs
  BY <1>1, ZenonT(60) DEF LoadsTurn, Available, Spills
<1>6. /\ job[j].pc = "load" /\ job'[j].pc = "put" /\ job'[j].turn = t /\ job'[j].lines = new
      /\ job'[j].todo = job[j].todo /\ job'[j].doomed = job[j].doomed
      /\ \A k \in Janitors \ {j} : job'[k] = job[k]
  <2>1. job[j].pc = "load" /\ job[j] \in Jobs
    BY <1>0 DEF LoadsTurn
  <2>2. job'[j] = [job[j] EXCEPT !.pc = "put", !.lines = new]
    BY <1>0, <1>3
  <2>3. job'[j].pc = "put" /\ job'[j].turn = t /\ job'[j].lines = new
    BY <1>1, <2>1, <2>2 DEF Jobs
  <2>4. job'[j].todo = job[j].todo /\ job'[j].doomed = job[j].doomed
    BY <2>1, <2>2 DEF Jobs
  <2>5. \A k \in Janitors \ {j} : job'[k] = job[k]
    BY <1>0, <1>3
  <2> QED
    BY <2>1, <2>3, <2>4, <2>5
<1>7. /\ UNCHANGED <<file, writer, blobs>>
      /\ UNCHANGED <<indexVars, marker, altered, forgotten, unmarked, abandoned>>
      /\ exposed \subseteq exposed' /\ (SomebodySweeps => t \in exposed')
  BY <1>1 DEF LoadsTurn, recordVars, Exposed
<1>8. /\ BeingWritten' = BeingWritten /\ BeingRewritten' \subseteq BeingRewritten \cup {t}
      /\ SomebodySweeps' => SomebodySweeps
  BY <1>6, <1>7 DEF BeingWritten, BeingRewritten, SomebodySweeps, Sweeping
<1>9. WritersExposed'
  BY <1>7, <1>8 DEF RetentionInv, WritersExposed
<1>10. SweepFits(j)'
  BY <1>6 DEF SweepFits
<1>11. RewriteFits(j)'
  BY <1>0, <1>1, <1>4, <1>5, <1>6, <1>7 DEF RewriteFits, HasField
<1>12. \A u \in Turns : ~Disturbs(j, u)
  BY <1>6 DEF Disturbs
<1> QED
  BY <1>6, <1>7, <1>9, <1>10, <1>11, <1>12, JobStepInv

LEMMA PutsPayloadsInv ==
  ASSUME RetentionInv, Types', NEW j \in Janitors, PutsPayloads(j)
  PROVE  RetentionInv'
<1>0. job \in [Janitors -> Jobs] /\ RewriteFits(j)
  BY DEF RetentionInv, Types
<1>1. /\ job[j].pc = "put" /\ job'[j].pc = "rename"
      /\ job'[j].turn = job[j].turn /\ job'[j].lines = job[j].lines
      /\ job'[j].todo = job[j].todo /\ job'[j].doomed = job[j].doomed
      /\ \A k \in Janitors \ {j} : job'[k] = job[k]
  BY <1>0 DEF PutsPayloads, Goes, Jobs
<1>2. /\ UNCHANGED <<file, writer>> /\ UNCHANGED <<indexVars, marker>>
      /\ UNCHANGED <<exposed, altered, forgotten, unmarked, abandoned>>
      /\ blobs' = blobs \cup {b \in Spills(job[j].lines) : HasField(b)}
  BY DEF PutsPayloads, historyVars
<1>3. /\ BeingWritten' = BeingWritten /\ BeingRewritten' \subseteq BeingRewritten
      /\ SomebodySweeps' => SomebodySweeps
  BY <1>1, <1>2 DEF BeingWritten, BeingRewritten, SomebodySweeps, Sweeping
<1>4. WritersExposed'
  BY <1>2, <1>3 DEF RetentionInv, WritersExposed
<1>5. RewriteFits(j)' /\ SweepFits(j)'
  BY <1>0, <1>1, <1>2 DEF RewriteFits, SweepFits
<1>6. \A u \in Turns : ~Disturbs(j, u)
  BY <1>1 DEF Disturbs
<1> QED
  BY <1>1, <1>2, <1>4, <1>5, <1>6, JobStepInv

LEMMA WritesMarkerInv ==
  ASSUME RetentionInv, Types', NEW j \in Janitors, WritesMarker(j)
  PROVE  RetentionInv'
<1>0. job \in [Janitors -> Jobs]
  BY DEF RetentionInv, Types
<1>1. /\ job[j].pc = "mark" /\ job'[j].pc = "list" /\ job'[j].turn = job[j].turn
      /\ job'[j].todo = job[j].todo /\ job'[j].doomed = job[j].doomed
      /\ \A k \in Janitors \ {j} : job'[k] = job[k]
  BY <1>0 DEF WritesMarker, Goes, Jobs
<1>2. /\ UNCHANGED <<file, writer, blobs>>
      /\ UNCHANGED <<indexVars, altered, forgotten, unmarked, abandoned>>
      /\ exposed' = exposed \cup BeingWritten \cup BeingRewritten
      /\ marker' = marker \cup {job[j].turn}
  BY DEF WritesMarker, ExposedBySweep, recordVars
<1>3. BeingWritten' = BeingWritten /\ BeingRewritten' \subseteq BeingRewritten
  BY <1>1, <1>2 DEF BeingWritten, BeingRewritten
<1>4. WritersExposed'
  BY <1>2, <1>3 DEF WritersExposed
<1>5. RewriteFits(j)' /\ SweepFits(j)'
  BY <1>1 DEF RetentionInv, RewriteFits, SweepFits
<1>6. \A u \in Turns : Disturbs(j, u) => Disturbs(j, u)'
  BY <1>1 DEF Disturbs
<1>7. job'[j].turn # NoTurn => job'[j].turn \in altered
  BY <1>1 DEF RetentionInv, AlteredFits
<1> QED
  BY <1>1, <1>2, <1>4, <1>5, <1>6, <1>7, JobStepInv
LEMMA DeletesTurnInv ==
  ASSUME RetentionInv, Types', NEW j \in Janitors, DeletesTurn(j)
  PROVE  RetentionInv'
<1>0. /\ job \in [Janitors -> Jobs] /\ SweepFits(j) /\ job[j].todo \in SUBSET Turns
      /\ file \in [Turns -> Files] /\ writer \in [Turns -> Writers]
      /\ \A u \in Turns : FileFits(u)
  BY DEF RetentionInv, Types, Jobs
<1>1. PICK t \in job[j].todo : t = Min(job[j].todo)
  BY <1>0, TurnsAssumption, MinIsMember DEF DeletesTurn
<1>2. t \in Turns /\ t \in job[j].doomed /\ job[j].pc = "delete" /\ file[t].present
  BY <1>0, <1>1 DEF DeletesTurn, SweepFits
<1>3. /\ job'[j].pc = "delete" /\ job'[j].turn = job[j].turn
      /\ job'[j].todo = job[j].todo \ {t} /\ job'[j].doomed = job[j].doomed
      /\ job'[j].live = job[j].live
      /\ \A k \in Janitors \ {j} : job'[k] = job[k]
  <2>1. job' = [job EXCEPT ![j].todo = @ \ {t}]
    BY <1>1 DEF DeletesTurn
  <2> QED
    BY <1>0, <1>2, <2>1 DEF Jobs
<1>4. /\ file' = [file EXCEPT ![t] = Absent]
      /\ writer' = [writer EXCEPT ![t].attached = FALSE]
      /\ blobs' = blobs /\ UNCHANGED indexVars /\ marker' = marker
      /\ UNCHANGED <<exposed, altered, forgotten, unmarked, abandoned>>
  BY <1>1 DEF DeletesTurn, historyVars
<1>5. /\ file'[t].lines = <<>> /\ ~file'[t].present
      /\ ~writer'[t].attached /\ writer'[t].state = writer[t].state
      /\ writer'[t].pending = writer[t].pending /\ writer'[t].buffer = writer[t].buffer
      /\ \A u \in Turns \ {t} : file'[u] = file[u] /\ writer'[u] = writer[u]
  BY <1>0, <1>2, <1>4 DEF Absent, Writers
<1>6. ASSUME NEW u \in Turns
      PROVE  FileFits(u)'
  <2>1. CASE u = t
    BY <1>0, <1>5, <2>1 DEF FileFits
  <2>2. CASE u # t
    BY <1>0, <1>5, <2>2 DEF FileFits
  <2> QED
    BY <2>1, <2>2
<1>7. \A u \in Turns : /\ writer'[u].state = writer[u].state
                       /\ writer'[u].pending = writer[u].pending
                       /\ writer'[u].buffer = writer[u].buffer
                       /\ writer'[u].attached => writer[u].attached
                       /\ file'[u].lines = file[u].lines \/ file'[u].lines = <<>>
  BY <1>5
<1>8. ASSUME NEW u \in Turns, u \notin exposed'
      PROVE  PayloadsHeld(u)'
  BY <1>4, <1>7, <1>8, SpillsOfNothing DEF RetentionInv, PayloadsHeld
<1>9. WritersExposed'
  <2>1. /\ BeingWritten' = BeingWritten /\ BeingRewritten' \subseteq BeingRewritten
        /\ SomebodySweeps' => SomebodySweeps
    BY <1>2, <1>3, <1>7 DEF BeingWritten, BeingRewritten, SomebodySweeps, Sweeping
  <2> QED
    BY <1>4, <2>1 DEF RetentionInv, WritersExposed
<1>10. SweepFits(j)'
  <2>1. job'[j].todo \subseteq job'[j].doomed
    BY <1>0, <1>2, <1>3 DEF SweepFits
  <2>2. ASSUME NEW u \in Turns \ exposed'
        PROVE  u \in job'[j].todo \/ Spills(file'[u].lines) \subseteq job'[j].live
    <3>1. CASE u = t
      BY <1>5, <3>1, SpillsOfNothing
    <3>2. CASE u # t
      BY <1>0, <1>2, <1>3, <1>4, <1>5, <3>2 DEF SweepFits
    <3> QED
      BY <3>1, <3>2
  <2> QED
    BY <1>3, <2>1, <2>2 DEF SweepFits
<1>11. ASSUME NEW k \in Janitors
       PROVE  RewriteFits(k)' /\ SweepFits(k)'
  <2>1. CASE k = j
    BY <1>3, <1>10, <2>1 DEF RewriteFits
  <2>2. CASE k # j
    <3>1. \A u \in Turns : Spills(file'[u].lines) \subseteq Spills(file[u].lines)
      BY <1>7, SpillsOfNothing
    <3>2. \A u \in Turns : writer[u].state # "none" => writer'[u].state # "none"
      BY <1>7
    <3> QED
      BY <1>3, <1>4, <2>2, <3>1, <3>2, OthersKept
  <2> QED
    BY <2>1, <2>2
<1>12. IndexFits'
  <2>1. ASSUME NEW u \in Turns, Settled(u)'
        PROVE  Settled(u) /\ Bodies(u) \subseteq Bodies(u)'
    <3>1. \A k \in Janitors : Disturbs(k, u)' = Disturbs(k, u)
      BY <1>2, <1>3 DEF Disturbs
    <3>2. Settled(u)
      BY <1>4, <2>1, <3>1 DEF Settled
    <3>3. Disturbs(j, t)
      BY <1>2 DEF Disturbs
    <3>4. u # t
      BY <3>2, <3>3 DEF Settled
    <3> QED
      BY <1>5, <3>2, <3>4 DEF Bodies
  <2> QED
    BY <1>4, <2>1, IndexKept DEF RetentionInv
<1>13. AlteredFits'
  <2>0. altered \subseteq Turns /\ AlteredFits
    BY DEF RetentionInv, Types
  <2>1. ASSUME NEW u \in altered
        PROVE  CleanBodies(u)' /\ ~writer'[u].attached /\ writer'[u].state # "none"
    BY <1>7, <2>0 DEF AlteredFits, CleanBodies
  <2>2. \A k \in Janitors : job'[k].pc = job[k].pc /\ job'[k].turn = job[k].turn
    BY <1>2, <1>3
  <2> QED
    BY <1>4, <2>0, <2>1, <2>2 DEF AlteredFits
<1>14. ForgottenFits'
  BY <1>4, ForgottenKept DEF RetentionInv
<1>15. AlteredIsMarked'
  <2>1. \A k \in Janitors : job'[k].pc = job[k].pc /\ job'[k].turn = job[k].turn
    BY <1>2, <1>3
  <2>2. \A u \in altered : file'[u].present => file[u].present
    BY <1>2, <1>5 DEF RetentionInv, Types
  <2> QED
    BY <1>4, <2>1, <2>2 DEF RetentionInv, AlteredIsMarked
<1> QED
  BY <1>6, <1>8, <1>9, <1>11, <1>12, <1>13, <1>14, <1>15 DEF RetentionInv

LEMMA RemovesBlobInv ==
  ASSUME RetentionInv, Types', NEW j \in Janitors, NEW ref \in job[j].refs, RemovesBlob(j, ref)
  PROVE  RetentionInv'
<1>0. job \in [Janitors -> Jobs] /\ SweepFits(j)
  BY DEF RetentionInv, Types
<1>1. /\ job[j].pc = "remove" /\ job'[j].pc = "remove" /\ job'[j].turn = job[j].turn
      /\ job'[j].doomed = job[j].doomed /\ job'[j].refs = job[j].refs \ {ref}
      /\ \A k \in Janitors \ {j} : job'[k] = job[k]
  BY <1>0 DEF RemovesBlob, Jobs
<1>2. /\ UNCHANGED <<file, writer>> /\ UNCHANGED indexVars /\ marker' = marker
      /\ UNCHANGED <<exposed, altered, forgotten, unmarked, abandoned>>
      /\ blobs' = blobs \ {ref} /\ SomebodySweeps
  BY <1>1 DEF RemovesBlob, historyVars, SomebodySweeps, Sweeping
<1>3. (\A u \in Turns : FileFits(u))'
  BY <1>2 DEF RetentionInv, FileFits
<1>4. ASSUME NEW u \in Turns, u \notin exposed'
      PROVE  PayloadsHeld(u)'
  <2>1. PayloadsHeld(u) /\ FileFits(u)
    BY <1>2, <1>4 DEF RetentionInv
  <2>2. writer[u].state # "open"
    BY <1>2, <1>4 DEF RetentionInv, WritersExposed, BeingWritten
  <2>3. writer[u].pending = <<>> /\ writer[u].buffer = <<>>
    BY <2>1, <2>2 DEF FileFits
  <2>4. ref \notin Spills(file[u].lines)
    BY <1>0, <1>1, <1>2, <1>4 DEF SweepFits
  <2> QED
    BY <1>2, <2>1, <2>3, <2>4, SpillsOfNothing DEF PayloadsHeld
<1>5. WritersExposed'
  <2>1. BeingWritten' = BeingWritten /\ BeingRewritten' \subseteq BeingRewritten
    BY <1>1, <1>2 DEF BeingWritten, BeingRewritten
  <2> QED
    BY <1>2, <2>1 DEF RetentionInv, WritersExposed
<1>6. ASSUME NEW k \in Janitors
      PROVE  RewriteFits(k)' /\ SweepFits(k)'
  <2>1. CASE k = j
    BY <1>0, <1>1, <1>2, <2>1 DEF RewriteFits, SweepFits
  <2>2. CASE k # j
    BY <1>1, <1>2, <2>2, OthersKept
  <2> QED
    BY <2>1, <2>2
<1>7. \A k \in Janitors : /\ job'[k].pc = job[k].pc /\ job'[k].turn = job[k].turn
                          /\ job'[k].doomed = job[k].doomed
  BY <1>1
<1>8. IndexFits'
  <2>1. \A u \in Turns : Settled(u)' = Settled(u) /\ Bodies(u)' = Bodies(u)
    BY <1>2, <1>7 DEF Settled, Disturbs, Bodies
  <2> QED
    BY <1>2, <2>1, IndexKept DEF RetentionInv
<1>9. AlteredFits' /\ AlteredIsMarked'
  BY <1>2, <1>7 DEF RetentionInv, AlteredFits, CleanBodies, AlteredIsMarked
<1>10. ForgottenFits'
  BY <1>2, ForgottenKept DEF RetentionInv
<1> QED
  BY <1>3, <1>4, <1>5, <1>6, <1>8, <1>9, <1>10 DEF RetentionInv
LEMMA RenamesIntoPlaceInv ==
  ASSUME RetentionInv, Types', NEW j \in Janitors, RenamesIntoPlace(j)
  PROVE  RetentionInv'
<1>0. /\ job \in [Janitors -> Jobs] /\ RewriteFits(j)
      /\ file \in [Turns -> Files] /\ writer \in [Turns -> Writers]
      /\ \A u \in Turns : FileFits(u)
  BY DEF RetentionInv, Types
<1>1. PICK t \in Turns : t = job[j].turn
  BY <1>0 DEF RenamesIntoPlace, RewriteFits
<1>2. PICK new : new = job[j].lines
  OBVIOUS
<1>3. /\ job[j].pc = "rename" /\ job'[j].pc = "mark" /\ job'[j].turn = t
      /\ job'[j].todo = job[j].todo /\ job'[j].doomed = job[j].doomed
      /\ \A k \in Janitors \ {j} : job'[k] = job[k]
  BY <1>0, <1>1 DEF RenamesIntoPlace, Goes, Jobs
<1>4. /\ file' = [file EXCEPT ![t] = [lines |-> new, torn |-> FALSE, present |-> TRUE]]
      /\ writer' = [writer EXCEPT ![t].attached = FALSE]
      /\ blobs' = blobs /\ UNCHANGED indexVars /\ marker' = marker
      /\ UNCHANGED <<exposed, forgotten, unmarked, abandoned>>
      /\ altered' = altered \cup {t}
  BY <1>1, <1>2 DEF RenamesIntoPlace, Rewritten
<1>5. /\ file'[t].lines = new /\ file'[t].present
      /\ ~writer'[t].attached /\ writer'[t].state = writer[t].state
      /\ writer'[t].pending = writer[t].pending /\ writer'[t].buffer = writer[t].buffer
      /\ \A u \in Turns \ {t} : file'[u] = file[u] /\ writer'[u] = writer[u]
  BY <1>0, <1>4 DEF Writers
<1>6. /\ writer[t].state # "none"
      /\ \A n \in DOMAIN new : new[n].body.content # "secret"
      /\ t \notin exposed => Spills(new) \subseteq blobs
      /\ SomebodySweeps => t \in exposed
      /\ job[j].todo = {} /\ job[j].doomed = {}
  BY <1>0, <1>1, <1>2, <1>3 DEF RewriteFits, RetentionInv, WritersExposed, BeingRewritten
<1>7. ASSUME NEW u \in Turns
      PROVE  FileFits(u)'
  <2>1. CASE u = t
    BY <1>0, <1>5, <1>6, <2>1 DEF FileFits
  <2>2. CASE u # t
    BY <1>0, <1>5, <2>2 DEF FileFits
  <2> QED
    BY <2>1, <2>2
<1>8. ASSUME NEW u \in Turns, u \notin exposed'
      PROVE  PayloadsHeld(u)'
  <2>0. PayloadsHeld(u)
    BY <1>4, <1>8 DEF RetentionInv
  <2>1. CASE u = t
    BY <1>4, <1>5, <1>6, <1>8, <2>0, <2>1 DEF PayloadsHeld
  <2>2. CASE u # t
    BY <1>4, <1>5, <2>0, <2>2 DEF PayloadsHeld
  <2> QED
    BY <2>1, <2>2
<1>9. WritersExposed'
  <2>1. /\ BeingWritten' = BeingWritten /\ BeingRewritten' \subseteq BeingRewritten
        /\ SomebodySweeps' => SomebodySweeps
    BY <1>3, <1>5 DEF BeingWritten, BeingRewritten, SomebodySweeps, Sweeping
  <2> QED
    BY <1>4, <2>1 DEF RetentionInv, WritersExposed
<1>10. ASSUME NEW k \in Janitors
       PROVE  RewriteFits(k)' /\ SweepFits(k)'
  <2>1. CASE k = j
    BY <1>3, <1>5, <1>6, <2>1 DEF RewriteFits, SweepFits
  <2>2. CASE k # j
    <3>1. SomebodySweeps => \A u \in Turns \ exposed' : file'[u].lines = file[u].lines
      BY <1>4, <1>5, <1>6
    <3>2. \A u \in Turns : writer[u].state # "none" => writer'[u].state # "none"
      BY <1>5
    <3> QED
      BY <1>3, <1>4, <2>2, <3>1, <3>2, OthersKept
  <2> QED
    BY <2>1, <2>2
<1>11. IndexFits'
  <2>1. ASSUME NEW u \in Turns, Settled(u)'
        PROVE  Settled(u) /\ Bodies(u) \subseteq Bodies(u)'
    <3>1. \A k \in Janitors : Disturbs(k, u) => Disturbs(k, u)'
      BY <1>3 DEF Disturbs
    <3>2. Settled(u)
      BY <1>4, <2>1, <3>1 DEF Settled
    <3>3. Disturbs(j, t)'
      BY <1>3 DEF Disturbs
    <3>4. u # t
      BY <2>1, <3>3 DEF Settled
    <3> QED
      BY <1>5, <3>2, <3>4 DEF Bodies
  <2> QED
    BY <1>4, <2>1, IndexKept DEF RetentionInv
<1>12. AlteredFits'
  <2>0. altered \subseteq Turns /\ AlteredFits
    BY DEF RetentionInv, Types
  <2>1. ASSUME NEW u \in altered'
        PROVE  CleanBodies(u)' /\ ~writer'[u].attached /\ writer'[u].state # "none"
    <3>1. CASE u = t
      BY <1>5, <1>6, <3>1 DEF CleanBodies
    <3>2. CASE u # t
      BY <1>4, <1>5, <2>0, <2>1, <3>2 DEF AlteredFits, CleanBodies
    <3> QED
      BY <3>1, <3>2
  <2>2. ASSUME NEW k \in Janitors,
               job'[k].pc \in {"mark", "list", "read", "delete", "remove"}, job'[k].turn # NoTurn
        PROVE  job'[k].turn \in altered'
    BY <1>3, <1>4, <2>0, <2>2 DEF AlteredFits
  <2> QED
    BY <2>1, <2>2 DEF AlteredFits
<1>13. ForgottenFits'
  BY <1>4, ForgottenKept DEF RetentionInv
<1>14. AlteredIsMarked'
  <2>1. \A k \in Janitors, u \in Turns : job[k].pc = "mark" /\ job[k].turn = u
                                           => job'[k].pc = "mark" /\ job'[k].turn = u
    BY <1>3
  <2>2. ASSUME NEW u \in altered', file'[u].present
        PROVE  \/ u \in marker' \/ u \in unmarked'
               \/ \E k \in Janitors : job'[k].pc = "mark" /\ job'[k].turn = u
    <3>1. CASE u = t
      BY <1>3, <3>1
    <3>2. CASE u # t
      <4>1. u \in altered /\ u \in Turns /\ file[u].present
        BY <1>4, <1>5, <2>2, <3>2 DEF RetentionInv, Types
      <4> QED
        BY <1>4, <2>1, <4>1 DEF RetentionInv, AlteredIsMarked
    <3> QED
      BY <3>1, <3>2
  <2> QED
    BY <2>2 DEF AlteredIsMarked
<1> QED
  BY <1>7, <1>8, <1>9, <1>10, <1>11, <1>12, <1>13, <1>14 DEF RetentionInv

\* The two ways a command ends: what it held is dropped.
LEMMA EndsInv ==
  ASSUME RetentionInv, NEW j \in Janitors, job' = [job EXCEPT ![j] = Resting],
         UNCHANGED <<recordVars, marker, exposed, altered>>
  PROVE  /\ (\A u \in Turns : FileFits(u))'
         /\ (\A u \in Turns \ exposed : PayloadsHeld(u))'
         /\ WritersExposed'
         /\ (\A k \in Janitors : RewriteFits(k) /\ SweepFits(k))'
         /\ AlteredFits'
         /\ job'[j].pc = "idle" /\ \A k \in Janitors \ {j} : job'[k] = job[k]
<1>0. job \in [Janitors -> Jobs]
  BY DEF RetentionInv, Types
<1>1. job'[j].pc = "idle" /\ \A k \in Janitors \ {j} : job'[k] = job[k]
  BY <1>0 DEF Resting
<1>2. UNCHANGED <<file, writer, blobs>> /\ UNCHANGED <<marker, exposed, altered>>
  BY DEF recordVars
<1>3. (\A u \in Turns : FileFits(u))' /\ (\A u \in Turns \ exposed : PayloadsHeld(u))'
  BY <1>2 DEF RetentionInv, FileFits, PayloadsHeld
<1>4. WritersExposed'
  <2>1. /\ BeingWritten' = BeingWritten /\ BeingRewritten' \subseteq BeingRewritten
        /\ SomebodySweeps' => SomebodySweeps
    BY <1>1, <1>2 DEF BeingWritten, BeingRewritten, SomebodySweeps, Sweeping
  <2> QED
    BY <1>2, <2>1 DEF RetentionInv, WritersExposed
<1>5. \A k \in Janitors : RewriteFits(k)' /\ SweepFits(k)'
  <2> TAKE k \in Janitors
  <2>1. CASE k = j
    BY <1>1, <2>1 DEF RewriteFits, SweepFits
  <2>2. CASE k # j
    BY <1>1, <1>2, <2>2, OthersKept
  <2> QED
    BY <2>1, <2>2
<1>6. AlteredFits'
  BY <1>1, <1>2 DEF RetentionInv, AlteredFits, CleanBodies
<1> QED
  BY <1>1, <1>3, <1>4, <1>5, <1>6

LEMMA ResetsIndexInv ==
  ASSUME RetentionInv, Types', NEW j \in Janitors, ResetsIndex(j)
  PROVE  RetentionInv'
<1>0. job \in [Janitors -> Jobs] /\ scan \in [Indexers -> Scans] /\ db \in Nat
  BY DEF RetentionInv, Types
<1>1. /\ job[j].pc = "remove" /\ job' = [job EXCEPT ![j] = Resting]
      /\ UNCHANGED <<recordVars, marker, exposed, altered>> /\ UNCHANGED unmarked
      /\ rows' = NoRows /\ db' = db + 1 /\ scan' = scan
      /\ forgotten' = forgotten \cup ({job[j].turn} \ {NoTurn}) /\ abandoned' = {}
  BY DEF ResetsIndex, RemoveIndex
<1>2. /\ (\A u \in Turns : FileFits(u))' /\ (\A u \in Turns \ exposed : PayloadsHeld(u))'
      /\ WritersExposed' /\ (\A k \in Janitors : RewriteFits(k) /\ SweepFits(k))'
      /\ AlteredFits'
      /\ job'[j].pc = "idle" /\ \A k \in Janitors \ {j} : job'[k] = job[k]
  BY <1>1, EndsInv
<1>3. \A i \in Indexers : scan'[i].db <= db' /\ scan'[i].db # db'
  BY <1>0, <1>1 DEF RetentionInv, IndexFits, Scans
<1>4. \A u \in Turns : rows'[u] = NoRow
  BY <1>1 DEF NoRows
<1>5. IndexFits'
  BY <1>3, <1>4 DEF IndexFits, RowFits
<1>6. ForgottenFits'
  <2>1. forgotten' \subseteq altered' /\ forgotten' \subseteq Turns
    BY <1>1 DEF RetentionInv, ForgottenFits, AlteredFits, Types
  <2> QED
    BY <1>3, <1>4, <2>1 DEF ForgottenFits, Clean
<1>7. AlteredIsMarked'
  <2>1. \A k \in Janitors : job[k].pc = "mark" => job'[k] = job[k]
    BY <1>1, <1>2
  <2>2. UNCHANGED <<file, marker, altered, unmarked>>
    BY <1>1 DEF recordVars
  <2> QED
    BY <2>1, <2>2 DEF RetentionInv, AlteredIsMarked
<1> QED
  BY <1>2, <1>5, <1>6, <1>7 DEF RetentionInv

LEMMA StopsInv ==
  ASSUME RetentionInv, Types', NEW j \in Janitors, Stops(j)
  PROVE  RetentionInv'
<1>1. /\ job' = [job EXCEPT ![j] = Resting]
      /\ UNCHANGED <<recordVars, marker, exposed, altered>> /\ UNCHANGED indexVars
      /\ forgotten' = forgotten /\ UNCHANGED file
      /\ unmarked \subseteq unmarked' /\ abandoned \subseteq abandoned'
  BY DEF Stops, Abandons, recordVars
<1>2. /\ (\A u \in Turns : FileFits(u))' /\ (\A u \in Turns \ exposed : PayloadsHeld(u))'
      /\ WritersExposed' /\ (\A k \in Janitors : RewriteFits(k) /\ SweepFits(k))'
      /\ AlteredFits'
      /\ job'[j].pc = "idle" /\ \A k \in Janitors \ {j} : job'[k] = job[k]
  BY <1>1, EndsInv
<1>3. job[j].pc = "mark" => job[j].turn \in unmarked'
  BY DEF Stops, Abandons
<1>4. \A u \in Turns : Disturbs(j, u) => u \in abandoned'
  BY TurnsAssumption DEF Stops, Abandons, Disturbs, NoTurn
<1>5. IndexFits'
  <2>1. ASSUME NEW u \in Turns, Settled(u)'
        PROVE  Settled(u) /\ Bodies(u)' = Bodies(u)
    <3>1. \A k \in Janitors \ {j} : Disturbs(k, u)' = Disturbs(k, u)
      BY <1>2 DEF Disturbs
    <3>2. u \notin abandoned' /\ ~Disturbs(j, u)
      BY <1>4, <2>1 DEF Settled
    <3>3. Settled(u)
      BY <1>1, <2>1, <3>1, <3>2 DEF Settled
    <3> QED
      BY <1>1, <3>3 DEF Bodies
  <2> QED
    BY <1>1, <2>1, IndexKept DEF RetentionInv
<1>6. ForgottenFits'
  BY <1>1, ForgottenKept DEF RetentionInv
<1>7. AlteredIsMarked'
  <2>1. ASSUME NEW u \in altered, file[u].present
        PROVE  \/ u \in marker \/ u \in unmarked'
               \/ \E k \in Janitors : job'[k].pc = "mark" /\ job'[k].turn = u
    BY <1>1, <1>2, <1>3, <2>1 DEF RetentionInv, AlteredIsMarked
  <2> QED
    BY <1>1, <2>1 DEF AlteredIsMarked
<1> QED
  BY <1>2, <1>5, <1>6, <1>7 DEF RetentionInv
-----------------------------------------------------------------------------
(* The invariant holds, and the properties follow from it.                 *)

LEMMA WholeIsFile ==
  ASSUME NEW p \in Body, NEW a \in Body
  PROVE  Whole(p, a) \in Files /\ Whole(p, a).present
<1>1. Plain \in Body
  BY DEF Plain, Body
<1>2. /\ [kind |-> "turn.start", body |-> p] \in Event
      /\ [kind |-> "model.response", body |-> a] \in Event
      /\ [kind |-> "turn.end", body |-> Plain] \in Event
  BY <1>1 DEF Event
<1>3. PICK x \in Event, y \in Event, z \in Event :
        Whole(p, a) = [lines |-> <<x, y, z>>, torn |-> FALSE, present |-> TRUE]
  BY <1>2 DEF Whole
<1>4. <<x, y, z>> \in Seq(Event)
  OBVIOUS
<1> QED
  BY <1>3, <1>4 DEF Files

LEMMA RetentionInit == Init => RetentionInv
<1> SUFFICES ASSUME Init
             PROVE  RetentionInv
  OBVIOUS
<1>1. PICK asked \in [Recorded -> Prompts], answered \in [Recorded -> Answers] :
        file = [t \in Turns |-> IF t \in Recorded THEN Whole(asked[t], answered[t]) ELSE Absent]
  BY DEF Init, RecordInit
<1>2. Absent \in Files /\ ~Absent.present /\ Absent.lines = <<>>
  BY SpillsOfNothing DEF Absent, Files
<1>3. ASSUME NEW t \in Turns
      PROVE  /\ file[t] \in Files
             /\ t \in Recorded => file[t].present
             /\ t \notin Recorded => file[t] = Absent
  <2>1. CASE t \in Recorded
    BY <1>1, <2>1, WholeIsFile, BodiesAssumption
  <2>2. CASE t \notin Recorded
    BY <1>1, <1>2, <2>2
  <2> QED
    BY <2>1, <2>2
<1>4. file \in [Turns -> Files]
  BY <1>1, <1>3
<1>5. NoWriter \in Writers /\ [NoWriter EXCEPT !.state = "closed", !.last = "turn.end"] \in Writers
  BY SpillsOfNothing DEF NoWriter, Writers
<1>6. /\ writer = [t \in Turns |-> IF t \in Recorded
                                   THEN [NoWriter EXCEPT !.state = "closed", !.last = "turn.end"]
                                   ELSE NoWriter]
      /\ blobs = UNION {Spills(file[t].lines) : t \in Turns}
  BY DEF Init, RecordInit
<1>7. ASSUME NEW t \in Turns
      PROVE  /\ writer[t].pending = <<>> /\ writer[t].buffer = <<>> /\ ~writer[t].attached
             /\ writer[t].state = IF t \in Recorded THEN "closed" ELSE "none"
  BY <1>6 DEF NoWriter
<1>8. blobs \in SUBSET Large
  <2>1. \A t \in Turns : Spills(file[t].lines) \subseteq Large
    BY <1>3, BodiesOfEvents DEF Files
  <2> QED
    BY <1>6, <2>1
<1>9. \A t \in Turns : file[t].lines \in Seq(Event)
  BY <1>3 DEF Files
<1>10. /\ db = 1 /\ commands = 0 /\ scan = [i \in Indexers |-> Idle]
       /\ rows = [t \in Turns |-> IF t \in Recorded THEN RowOf(file[t].lines) ELSE NoRow]
       /\ marker = {} /\ job = [j \in Janitors |-> Resting]
       /\ exposed = {} /\ altered = {} /\ forgotten = {} /\ unmarked = {} /\ abandoned = {}
  BY DEF Init, IndexInit
<1>11. Types
  <2>1. writer \in [Turns -> Writers]
    BY <1>5, <1>6
  <2>2. rows \in [Turns -> Rows]
    BY <1>9, <1>10, RowsFitTheirLines DEF Rows
  <2>3. Resting \in Jobs
    BY SpillsOfNothing DEF Resting, Jobs, Steps, NoTurn
  <2> QED
    BY <1>4, <1>8, <1>10, <2>1, <2>2, <2>3, NoRowsTypes, MaxCommandsAssumption DEF Types
<1>12. \A t \in Turns : FileFits(t)
  <2>1. Len(<<>>) <= 1
    OBVIOUS
  <2> QED
    BY <1>2, <1>3, <1>7, <2>1 DEF FileFits
<1>13. \A t \in Turns : PayloadsHeld(t)
  BY <1>6, <1>7, SpillsOfNothing DEF PayloadsHeld
<1>14. \A j \in Janitors : job[j].pc = "idle"
  BY <1>10 DEF Resting
<1>15. WritersExposed /\ \A j \in Janitors : RewriteFits(j) /\ SweepFits(j)
  BY <1>14 DEF WritersExposed, SomebodySweeps, Sweeping, RewriteFits, SweepFits
<1>16. IndexFits
  <2>1. \A i \in Indexers : scan[i].db = 0
    BY <1>10 DEF Idle
  <2>2. \A t \in Turns : RowFits(rows[t], t)
    BY <1>9, <1>10, RowsFitTheirLines DEF RowFits, Bodies
  <2> QED
    BY <1>10, <2>1, <2>2 DEF IndexFits
<1>17. AlteredFits /\ ForgottenFits /\ AlteredIsMarked
  BY <1>10, <1>14 DEF AlteredFits, ForgottenFits, AlteredIsMarked
<1> QED
  BY <1>11, <1>12, <1>13, <1>15, <1>16, <1>17 DEF RetentionInv

LEMMA JanitorStepInv ==
  ASSUME RetentionInv, NEW j \in Janitors, JanitorStep(j)
  PROVE  RetentionInv'
<1>1. Types'
  <2>1. Types /\ \A k \in Janitors : RewriteFits(k)
    BY DEF RetentionInv
  <2>2. RecordTypes' /\ IndexTypes' /\ JobTypes'
    BY <2>1, JanitorStepTypes
  <2> QED
    BY <2>2 DEF Types, RecordTypes, IndexTypes, JobTypes
<1> HIDE DEF RetentionInv
<1> QED
  BY <1>1, PruneBeginsInv, ListsInv, ReadsJournalInv, DeletesTurnInv, ListsRefsInv,
     RemovesBlobInv, ResetsIndexInv, RedactBeginsInv, LoadsTurnInv, PutsPayloadsInv,
     RenamesIntoPlaceInv, WritesMarkerInv, StopsInv DEF JanitorStep

LEMMA RetentionKept == RetentionInv /\ [Next]_vars => RetentionInv'
<1> SUFFICES ASSUME RetentionInv, [Next]_vars
             PROVE  RetentionInv'
  OBVIOUS
<1>1. CASE RecordStep
  <2>1. CASE \E t \in Turns : /\ Creates(t) /\ Exposed(t)
                              /\ UNCHANGED <<indexVars, marker, job, commands, altered,
                                             forgotten, unmarked, abandoned>>
    BY <2>1, CreatesInv
  <2>2. CASE \E t \in Turns : /\ WriterStep(t)
                              /\ UNCHANGED <<indexVars, marker, job, commands, historyVars>>
    BY <2>2, WriterStepInv
  <2> QED
    BY <1>1, <2>1, <2>2 DEF RecordStep
<1>2. CASE \E i \in Indexers :
             IndexerStep(i) /\ UNCHANGED <<recordVars, marker, job, historyVars>>
  BY <1>2, IndexerStepInv
<1>3. CASE \E j \in Janitors : JanitorStep(j)
  BY <1>3, JanitorStepInv
<1>4. CASE UNCHANGED vars
  <2>1. /\ UNCHANGED <<file, writer, blobs>> /\ UNCHANGED <<rows, db, scan, commands>>
        /\ UNCHANGED <<marker, job>> /\ UNCHANGED indexVars
        /\ UNCHANGED <<exposed, altered, forgotten, unmarked, abandoned>>
    BY <1>4 DEF vars, recordVars, indexVars, historyVars
  <2>2. Types'
    BY <2>1 DEF RetentionInv, Types
  <2>3. (\A t \in Turns : FileFits(t))' /\ (\A t \in Turns \ exposed : PayloadsHeld(t))'
    BY <2>1 DEF RetentionInv, FileFits, PayloadsHeld
  <2>4. WritersExposed'
    BY <2>1 DEF RetentionInv, WritersExposed, SomebodySweeps, Sweeping, BeingWritten, BeingRewritten
  <2>5. \A j \in Janitors : RewriteFits(j)' /\ SweepFits(j)'
    BY <2>1, RewriteKept, SweepKept DEF RetentionInv
  <2>6. AlteredFits' /\ AlteredIsMarked'
    BY <2>1 DEF RetentionInv, AlteredFits, AlteredIsMarked, CleanBodies
  <2>7. IndexFits'
    <3>1. \A t \in Turns : Settled(t)' = Settled(t) /\ Bodies(t)' = Bodies(t)
      BY <2>1 DEF Settled, Disturbs, Bodies
    <3> QED
      BY <2>1, <3>1, IndexKept DEF RetentionInv
  <2>8. ForgottenFits'
    BY <2>1, ForgottenKept DEF RetentionInv
  <2> QED
    BY <2>2, <2>3, <2>4, <2>5, <2>6, <2>7, <2>8 DEF RetentionInv
<1> QED
  BY <1>1, <1>2, <1>3, <1>4 DEF Next

LEMMA RetentionHolds == Spec => []RetentionInv
  BY RetentionInit, RetentionKept, PTL DEF Spec

\* The state of the recordings, of the index and of the commands that manage them is
\* well typed (journal.go, index.go).
THEOREM RetentionTypesHold == Spec => []TypeOK
<1>1. RetentionInv => TypeOK
  <2> SUFFICES ASSUME RetentionInv
               PROVE  TypeOK
    OBVIOUS
  <2>0. Types /\ Large = {b \in Body : b.big}
    BY DEF RetentionInv, Large
  <2>1. RecordTypeOK
    BY <2>0 DEF RecordTypeOK, Types, RetentionInv, FileFits, Files, Writers
  <2>2. IndexTypeOK
    BY <2>0 DEF IndexTypeOK, Types, Rows, Scans
  <2>3. \A j \in Janitors :
          /\ job[j].pc \in Steps /\ job[j].turn \in Turns \cup {NoTurn}
          /\ job[j].todo \cup job[j].doomed \subseteq Turns
          /\ job[j].live \cup job[j].refs \subseteq {b \in Body : b.big}
          /\ job[j].lines \in Seq(Event)
          /\ job[j].pc \in {"load", "put", "rename", "mark"} => job[j].turn # NoTurn
    <3> TAKE j \in Janitors
    <3>1. job[j] \in Jobs
      BY <2>0 DEF Types
    <3>2. job[j].pc \in {"load", "put", "rename", "mark"} => job[j].turn \in Turns
      BY DEF RetentionInv, RewriteFits
    <3> QED
      BY <2>0, <3>1, <3>2, TurnsAssumption DEF Jobs, NoTurn
  <2> QED
    BY <2>0, <2>1, <2>2, <2>3 DEF TypeOK, Types
<1> QED
  BY <1>1, RetentionHolds, PTL

\* A payload that a journal names stays in the store through every prune and
\* redaction, unless somebody wrote to that journal during a sweep (journal.go).
THEOREM NamedPayloadsStay == Spec => []PayloadsKept
<1>1. RetentionInv => PayloadsKept
  BY DEF RetentionInv, PayloadsHeld, PayloadsKept
<1> QED
  BY <1>1, RetentionHolds, PTL

\* A row of the index shows what the turn's journal holds, outside the commands that
\* take it out of the journal and have yet to reset the index (index.go, journal.go).
THEOREM IndexFollowsTheJournal == Spec => []IndexHoldsNothingElse
<1>1. RetentionInv => IndexHoldsNothingElse
  <2> SUFFICES ASSUME RetentionInv, NEW t \in Turns, t \notin BeingForgotten, t \notin abandoned
               PROVE  RowFits(rows[t], t)
    BY DEF IndexHoldsNothingElse, RowFits, Bodies
  <2>1. \A j \in Janitors : job[j].pc \in {"mark", "list", "read", "delete", "remove"} =>
          t # job[j].turn /\ t \notin job[j].doomed
    BY DEF BeingForgotten, Steps
  <2>2. Settled(t)
    BY <2>1 DEF Settled, Disturbs
  <2> QED
    BY <2>2 DEF RetentionInv, IndexFits
<1> QED
  BY <1>1, RetentionHolds, PTL

\* What a finished redaction took out never comes back, neither in the journal nor in
\* the index (journal.go: journalRedactCmd).
THEOREM RedactedStaysRedacted == Spec => []RedactionForgets
<1>1. RetentionInv => RedactionForgets
  BY DEF RetentionInv, ForgottenFits, AlteredFits, Clean, CleanBodies, RedactionForgets
<1> QED
  BY <1>1, RetentionHolds, PTL

\* A journal that was rewritten is marked, or the command that rewrote it is about to
\* mark it or died before it could (journal.go: redactTurn).
THEOREM RewrittenIsMarked == Spec => []AlteredIsMarked
<1>1. RetentionInv => AlteredIsMarked
  BY DEF RetentionInv
<1> QED
  BY <1>1, RetentionHolds, PTL
==============================================================================
