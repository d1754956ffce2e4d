------------------------------- MODULE Skills --------------------------------
(***************************************************************************)
(* The skill store (internal/skill), the gate that promotes, and the four  *)
(* programs that write to it: the operator's commands, the certifier, the  *)
(* curator (internal/curator) and the consolidator (internal/consolidate), *)
(* with the reviewer that drafts new skills.  Each is a process of its own *)
(* on the same directory; nothing locks it, so a store operation is a load *)
(* and, later, a rename over the file.                                     *)
(*                                                                         *)
(* A skill is its front matter and a body: the one first written, or the   *)
(* one a merge put in its place.  Persons write and edit these files too,  *)
(* at any time, and may leave one that does not parse.  Time is not        *)
(* modelled: a skill may be old enough for the curator, or not, whenever   *)
(* the curator looks.                                                      *)
(***************************************************************************)
EXTENDS Naturals, Sequences, FiniteSets

CONSTANTS
  Learned,      \* agent-written skills that are active at the start
  Handwritten,  \* skills a person wrote, active at the start
  Free,         \* names nothing has yet
  MaxReports,   \* Bound: evaluations by the certifier.
  MaxRunning,   \* Bound: commands running at one time.
  MaxCommands   \* Bound: commands in all, edits by hand among them.

ASSUME SkillsAssumption ==
  /\ Learned \cap Handwritten = {} /\ (Learned \cup Handwritten) \cap Free = {}
  /\ IsFiniteSet(Learned)
  /\ MaxReports \in Nat
  /\ MaxRunning \in Nat \ {0}
  /\ MaxCommands \in Nat

Names == Learned \cup Handwritten \cup Free
Nowhere == "nowhere"

VARIABLES
  file,        \* <root>/<name>/SKILL.md
  scenarios,   \* <root>/<name>/evals: the skills the scenarios were written for
  reports,     \* history: every evaluation of the certifier, its index the id
  at,          \* where each program is
  target,      \* the skill it is busy with
  draft,       \* the skill it has loaded and is about to save
  listed,      \* the curator's list: states of the skills not yet looked at
  pairs,       \* the consolidator's candidates, of which it has yet to ask
  sources,     \* the consolidator's pair, less what it has already dealt with
  unread,      \* those of the pair whose scenarios it has yet to read
  pending,     \* scenarios it has read and not yet copied, with where they are
  edited,      \* history: skills whose file was written or edited by hand
  unaware,     \* history: what a program does not know of the store: files that did not
               \* parse when it looked, and those persons wrote since
  overlapped,  \* history: two commands were ever under way at one time
  commands     \* commands so far, for the bound only

storeVars == <<file, scenarios>>
mergeVars == <<pairs, sources, unread, pending>>
localVars == <<at, target, draft, listed, mergeVars>>
handVars == <<edited, unaware>>
startVars == <<overlapped, commands>>
vars == <<storeVars, reports, localVars, handVars, startVars>>

Programs == {"operator", "certifier", "curator", "consolidator", "reviewer"}
Maintainers == {"curator", "consolidator", "reviewer"}
Places == {"idle", "save", "evaluating", "promote", "curating",
           "pairing", "comparing", "carry", "retire"}
NoEvidence == 0

Skill == [state : {"absent", "unreadable", "quarantine", "active", "archived"},
          author : {"agent", "person"},
          pinned : BOOLEAN,
          promotedBy : Nat,
          body : {"first", "merged"},
          into : Names \cup {Nowhere}]

\* Mutant of New: the author is left out.
NewUnattributed(body) ==
  [state |-> "quarantine", author |-> "nobody", pinned |-> FALSE,
   promotedBy |-> NoEvidence, body |-> body, into |-> Nowhere]

\* skill.New, and what stands for a skill that is not there.
New(body) == [state |-> "quarantine", author |-> "agent", pinned |-> FALSE,
              promotedBy |-> NoEvidence, body |-> body, into |-> Nowhere]
Nothing == [New("first") EXCEPT !.state = "absent"]

\* There is a file; and Load makes a skill of it.
Stored(n) == file[n].state # "absent"
Loads(n) == file[n].state \notin {"absent", "unreadable"}

\* What a person writes is a skill of their own, or does not parse.
Handmade == {[Nothing EXCEPT !.state = state, !.author = "person"] :
               state \in {"active", "unreadable"}}

\* Mutants of Curatable: a person's skill is curated, or a pinned one.
CuratableByAnyone(sk) == ~sk.pinned
CuratablePinned(sk) == sk.author = "agent"

Curatable(sk) == sk.author = "agent" /\ ~sk.pinned
Valid(sk) ==
  sk.state = "active" /\ sk.author = "agent" => sk.promotedBy # NoEvidence

-----------------------------------------------------------------------------
(* What the operations of the store make of a skill.                       *)

Promoted(sk, id) == [sk EXCEPT !.state = "active", !.promotedBy = id, !.into = Nowhere]
Archived(sk, m) == [sk EXCEPT !.state = "archived", !.into = m]
Demoted(sk) == [sk EXCEPT !.state = "quarantine", !.promotedBy = NoEvidence, !.into = Nowhere]

\* Mutant of Restored: the skill returns to service, evidence and all.
RestoredToService(sk) == [sk EXCEPT !.state = "active", !.into = Nowhere]
Restored(sk) == [sk EXCEPT !.state = "quarantine", !.promotedBy = NoEvidence, !.into = Nowhere]

Passed(r) == r.passed /\ r.scenarios # {}

-----------------------------------------------------------------------------
(* Programs.                                                               *)

Running == {p \in Programs : at[p] # "idle"}

\* A command starts.
Starts ==
  /\ commands < MaxCommands
  /\ commands' = commands + 1
  /\ overlapped' = (overlapped \/ Running # {})

\* The command is that of program p and takes a while.
Begins(p) ==
  /\ at[p] = "idle"
  /\ Cardinality(Running) < MaxRunning
  /\ Starts

Goto(p, place) == at' = [at EXCEPT ![p] = place]
BusyWith(p, n, sk) ==
  /\ target' = [target EXCEPT ![p] = n]
  /\ draft' = [draft EXCEPT ![p] = sk]
Forget(p) == BusyWith(p, Nowhere, Nothing)

\* The rename over the file of n.  If that brings back a person's skill, loaded before
\* an agent's took its place, no program that has looked in between knows.
Renames(p, n) ==
  /\ file' = [file EXCEPT ![n] = draft[p]]
  /\ unaware' = [q \in Maintainers |->
                   IF draft[p].author = "person" /\ file[n].author = "agent"
                   THEN unaware[q] \cup {n} ELSE unaware[q]]

\* Save: Validate, then the rename.
Replaces(p) ==
  /\ at[p] = "save"
  /\ Valid(draft[p])
  /\ Renames(p, target[p])

\* A maintainer looks at the store, and all it fails to see is unknown.
Looks(p, unknown) == unaware' = [unaware EXCEPT ![p] = unknown]

PairIsDone ==
  /\ sources' = <<>>
  /\ unread' = <<>>
  /\ pending' = {}

\* The command of p ends before it is through: it is killed, or a file
\* operation or a validation fails and it gives up.
Stops(p) ==
  /\ at[p] # "idle"
  /\ Goto(p, "idle")
  /\ Forget(p)
  /\ listed' = (IF p = "curator" THEN [n \in Names |-> "skip"] ELSE listed)
  /\ IF p = "consolidator" THEN PairIsDone /\ pairs' = {} ELSE UNCHANGED mergeVars
  /\ UNCHANGED <<storeVars, reports, handVars, startVars>>

\* skill archive, restore, pin and unpin: what each saves for the skill it loads.
OperatorEdits(sk) ==
  {s \in {Archived(sk, Nowhere)} : ~sk.pinned /\ sk.state # "archived"}
  \cup {s \in {Restored(sk)} : sk.state = "archived"}
  \cup {[sk EXCEPT !.pinned = pinned] : pinned \in BOOLEAN}

OperatorLoads(n) ==
  /\ Begins("operator")
  /\ Loads(n)
  /\ \E sk \in OperatorEdits(file[n]) : BusyWith("operator", n, sk)
  /\ Goto("operator", "save")
  /\ UNCHANGED <<storeVars, reports, listed, mergeVars, handVars>>

\* The operator's command, a certification or a draft ends with its save.
Saves(p) ==
  /\ p \in {"operator", "certifier", "reviewer"}
  /\ Replaces(p)
  /\ Goto(p, "idle")
  /\ Forget(p)
  /\ UNCHANGED <<scenarios, reports, listed, mergeVars, edited, startVars>>

\* skill scenario add and remove.
ScenarioAdded(n) ==
  /\ Loads(n)
  /\ n \notin scenarios[n]
  /\ scenarios' = [scenarios EXCEPT ![n] = @ \cup {n}]
  /\ Starts
  /\ UNCHANGED <<file, reports, localVars, handVars>>

ScenarioRemoved(n, s) ==
  /\ s \in scenarios[n]
  /\ scenarios' = [scenarios EXCEPT ![n] = @ \ {s}]
  /\ Starts
  /\ UNCHANGED <<file, reports, localVars, handVars>>

\* Somebody opens SKILL.md in an editor and has the agent's skill claim to be
\* active.  Bound: once for a skill.
HandEdit(n) ==
  /\ Loads(n)
  /\ n \notin edited
  /\ file[n].author = "agent"
  /\ file[n].state # "active"
  /\ file' = [file EXCEPT ![n] = [@ EXCEPT !.state = "active", !.promotedBy = NoEvidence]]
  /\ edited' = edited \cup {n}
  /\ Starts
  /\ UNCHANGED <<scenarios, reports, localVars, unaware>>

\* Somebody writes a skill of their own, where there may have been one, and a program
\* that has looked at the store does not know.  Bound: once for a name.
HandWrites(n) ==
  /\ n \notin edited
  /\ file' \in {[file EXCEPT ![n] = sk] : sk \in Handmade}
  /\ edited' = edited \cup {n}
  /\ unaware' = [p \in Maintainers |-> unaware[p] \cup {n}]
  /\ Starts
  /\ UNCHANGED <<scenarios, reports, localVars>>

-----------------------------------------------------------------------------
(* Gate.Certify: Evaluate, then Promote.                                   *)

\* Evaluate loads the skill and its scenarios once, and runs them.
EvaluationBegins(n) ==
  /\ Begins("certifier")
  /\ Loads(n)
  /\ Len(reports) < Cardinality(Learned) + MaxReports
  /\ Goto("certifier", "evaluating")
  /\ BusyWith("certifier", n, Nothing)
  /\ reports' = Append(reports, [skill |-> n, body |-> file[n].body,
                                 scenarios |-> scenarios[n], passed |-> FALSE])
  /\ UNCHANGED <<storeVars, listed, mergeVars, handVars>>

\* Mutant of EvaluationEnds: the report is passed on whatever it says.
EvaluationEndsUnread(passed) ==
  /\ at["certifier"] = "evaluating"
  /\ reports' = [reports EXCEPT ![Len(reports)].passed = passed]
  /\ Goto("certifier", "promote")
  /\ UNCHANGED <<storeVars, target, draft, listed, mergeVars, handVars, startVars>>

\* Every scenario has run.  A report that did not pass promotes nothing.
EvaluationEnds(passed) ==
  /\ at["certifier"] = "evaluating"
  /\ reports' = [reports EXCEPT ![Len(reports)].passed = passed]
  /\ IF Passed(reports'[Len(reports)])
     THEN /\ Goto("certifier", "promote")
          /\ BusyWith("certifier", target["certifier"], Nothing)
     ELSE /\ Goto("certifier", "idle")
          /\ Forget("certifier")
  /\ UNCHANGED <<storeVars, listed, mergeVars, handVars, startVars>>

\* Promote loads the skill again.  One that is active already is left alone.
PromoteLoads ==
  LET n == target["certifier"] IN
  /\ at["certifier"] = "promote"
  /\ IF file[n].state = "quarantine"
     THEN /\ Goto("certifier", "save")
          /\ BusyWith("certifier", n, Promoted(file[n], Len(reports)))
     ELSE /\ Goto("certifier", "idle")
          /\ Forget("certifier")
  /\ UNCHANGED <<storeVars, reports, listed, mergeVars, handVars, startVars>>

-----------------------------------------------------------------------------
(* Curator.Run.                                                            *)

\* Store.List, which fails when one file does not parse.
ListWorks == \A n \in Names : file[n].state # "unreadable"

CuratorLists ==
  /\ Begins("curator")
  /\ ListWorks
  /\ Goto("curator", "curating")
  /\ listed' = [n \in Names |->
                  IF Stored(n) /\ Curatable(file[n]) THEN file[n].state ELSE "skip"]
  /\ Looks("curator", {})
  /\ UNCHANGED <<storeVars, reports, target, draft, mergeVars, edited>>

Looked(n) == listed' = [listed EXCEPT ![n] = "skip"]

\* Archived already, young enough, in use, or still passing its scenarios.
CuratorKeeps(n) ==
  /\ at["curator"] = "curating"
  /\ listed[n] # "skip"
  /\ Looked(n)
  /\ UNCHANGED <<storeVars, reports, at, target, draft, mergeVars, handVars, startVars>>

\* The listed skill is too old for its state: Archive loads it again.
CuratorArchives(n) ==
  /\ at["curator"] = "curating"
  /\ listed[n] \in {"quarantine", "active"}
  /\ Loads(n)
  /\ ~file[n].pinned
  /\ Looked(n)
  /\ IF file[n].state = "archived"
     THEN UNCHANGED <<at, target, draft>>
     ELSE /\ Goto("curator", "save")
          /\ BusyWith("curator", n, Archived(file[n], Nowhere))
  /\ UNCHANGED <<storeVars, reports, mergeVars, handVars, startVars>>

\* The listed skill no longer passes its scenarios: Demote loads it again, and
\* does not look at whether it is pinned.
CuratorDemotes(n) ==
  /\ at["curator"] = "curating"
  /\ listed[n] = "active"
  /\ file[n].state = "active"
  /\ Looked(n)
  /\ Goto("curator", "save")
  /\ BusyWith("curator", n, Demoted(file[n]))
  /\ UNCHANGED <<storeVars, reports, mergeVars, handVars, startVars>>

CuratorSaves ==
  /\ Replaces("curator")
  /\ Goto("curator", "curating")
  /\ Forget("curator")
  /\ UNCHANGED <<scenarios, reports, listed, mergeVars, edited, startVars>>

CuratorEnds ==
  /\ at["curator"] = "curating"
  /\ \A n \in Names : listed[n] = "skip"
  /\ Goto("curator", "idle")
  /\ UNCHANGED <<storeVars, reports, target, draft, listed, mergeVars, handVars, startVars>>

-----------------------------------------------------------------------------
(* Consolidator.Run: one list, and then pair after pair from it.           *)

Pairs(names) == {{a, b} : a, b \in names} \ {{a} : a \in names}

ConsolidatorLists ==
  /\ Begins("consolidator")
  /\ ListWorks
  /\ Goto("consolidator", "pairing")
  /\ pairs' = Pairs({n \in Names : file[n].state = "active" /\ Curatable(file[n])})
  /\ Looks("consolidator", {})
  /\ UNCHANGED <<storeVars, reports, target, draft, listed, sources, unread, pending, edited>>

\* The model is asked about a pair, as it was listed.
PairTaken(a, b) ==
  /\ at["consolidator"] = "pairing"
  /\ a # b
  /\ {a, b} \in pairs
  /\ Goto("consolidator", "comparing")
  /\ pairs' = pairs \ {{a, b}}
  /\ sources' = <<a, b>>
  /\ UNCHANGED <<storeVars, reports, target, draft, listed, unread, pending, handVars, startVars>>

\* applyMerge: the model's name for the merge may be new, or that of a source.  A
\* name whose file does not load counts as new.
MergeNamed(m) ==
  /\ at["consolidator"] = "comparing"
  /\ Loads(m) => m \in {sources[1], sources[2]}
  /\ Goto("consolidator", "carry")
  /\ BusyWith("consolidator", m, New("merged"))
  /\ unread' = sources
  /\ UNCHANGED <<storeVars, reports, listed, pairs, sources, pending, handVars, startVars>>

\* carryScenarios reads what a source has, unless it is the one whose name is kept.
MergeReads ==
  /\ at["consolidator"] = "carry"
  /\ pending = {}
  /\ unread # <<>>
  /\ unread' = Tail(unread)
  /\ pending' = (IF Head(unread) = target["consolidator"] THEN {}
                 ELSE {Head(unread)} \X scenarios[Head(unread)])
  /\ UNCHANGED <<storeVars, reports, at, target, draft, listed, pairs, sources, handVars, startVars>>

\* It copies what it has read one by one, if the recording is still there.
MergeCarries(n, s) ==
  /\ at["consolidator"] = "carry"
  /\ <<n, s>> \in pending
  /\ s \in scenarios[n]
  /\ pending' = pending \ {<<n, s>>}
  /\ scenarios' = [scenarios EXCEPT ![target["consolidator"]] = @ \cup {s}]
  /\ UNCHANGED <<file, reports, at, target, draft, listed, pairs, sources, unread, handVars, startVars>>

\* Mutant of MergePlaced: the sources are archived first.
MergePlacedLater ==
  /\ at["consolidator"] = "carry"
  /\ Goto("consolidator", "retire")
  /\ UNCHANGED <<storeVars, reports, target, draft, listed, mergeVars, handVars, startVars>>

\* Everything read is copied, and the merged skill takes its place.
MergePlaced ==
  LET m == target["consolidator"] IN
  /\ at["consolidator"] = "carry"
  /\ unread = <<>> /\ pending = {}
  /\ Renames("consolidator", m)
  /\ Goto("consolidator", "retire")
  /\ UNCHANGED <<scenarios, reports, target, draft, listed, mergeVars, edited, startVars>>

\* Archive the next source: load, then save.  The one whose name the merge has, if any,
\* is passed over; of the others a pinned one is an error.
SourceLoads ==
  LET m == target["consolidator"]
      n == Head(sources)
  IN  /\ at["consolidator"] = "retire"
      /\ sources # <<>>
      /\ n # m => Loads(n) /\ ~file[n].pinned
      /\ IF n = m \/ file[n].state = "archived"
         THEN /\ sources' = Tail(sources)
              /\ UNCHANGED <<at, draft>>
         ELSE /\ Goto("consolidator", "save")
              /\ draft' = [draft EXCEPT !["consolidator"] = Archived(file[n], m)]
              /\ UNCHANGED sources
      /\ UNCHANGED <<storeVars, reports, target, listed, pairs, unread, pending, handVars,
                     startVars>>

SourceSaved ==
  /\ at["consolidator"] = "save"
  /\ Renames("consolidator", Head(sources))
  /\ Goto("consolidator", "retire")
  /\ sources' = Tail(sources)
  /\ UNCHANGED <<scenarios, reports, target, draft, listed, pairs, unread, pending, edited,
                 startVars>>

\* The pair is dealt with, the model keeps it, or something fails: the next one's turn.
MergeEnds ==
  /\ at["consolidator"] \in {"comparing", "carry", "retire", "save"}
  /\ Goto("consolidator", "pairing")
  /\ Forget("consolidator")
  /\ PairIsDone
  /\ UNCHANGED <<storeVars, reports, listed, pairs, handVars, startVars>>

\* Every pair has been asked about, or as many as one run may.
ConsolidatorEnds ==
  /\ at["consolidator"] = "pairing"
  /\ Goto("consolidator", "idle")
  /\ pairs' = {}
  /\ UNCHANGED <<storeVars, reports, target, draft, listed, sources, unread, pending, handVars,
                 startVars>>

-----------------------------------------------------------------------------

\* draft_skill refuses a name that loads.
DraftLoads(n) ==
  /\ Begins("reviewer")
  /\ ~Loads(n)
  /\ Goto("reviewer", "save")
  /\ BusyWith("reviewer", n, New("first"))
  /\ Looks("reviewer", {m \in {n} : Stored(m)})
  /\ UNCHANGED <<storeVars, reports, listed, mergeVars, edited>>

-----------------------------------------------------------------------------

Init ==
  /\ file \in [Names -> {Nothing} \cup
                 {[Promoted(New("first"), id) EXCEPT !.author = author] :
                    id \in 0 .. Cardinality(Learned), author \in {"agent", "person"}}]
  /\ \A n \in Names :
       /\ Stored(n) <=> n \notin Free
       /\ file[n].author = "person" <=> n \in Handwritten
       /\ file[n].promotedBy # NoEvidence <=> n \in Learned
  /\ \A m, n \in Learned : file[m].promotedBy = file[n].promotedBy => m = n
  /\ scenarios = [n \in Names |-> IF n \in Learned THEN {n} ELSE {}]
  /\ reports = [i \in 1 .. Cardinality(Learned) |->
                  LET n == CHOOSE n \in Learned : file[n].promotedBy = i
                  IN  [skill |-> n, body |-> "first", scenarios |-> {n}, passed |-> TRUE]]
  /\ at = [p \in Programs |-> "idle"]
  /\ target = [p \in Programs |-> Nowhere]
  /\ draft = [p \in Programs |-> Nothing]
  /\ listed = [n \in Names |-> "skip"]
  /\ pairs = {}
  /\ sources = <<>>
  /\ unread = <<>>
  /\ pending = {}
  /\ edited = {}
  /\ unaware = [p \in Maintainers |-> {}]
  /\ overlapped = FALSE
  /\ commands = 0

Step(p) ==
  \/ Stops(p)
  \/ Saves(p)
  \/ /\ p = "operator"
     /\ \E n \in Names : OperatorLoads(n)
  \/ /\ p = "certifier"
     /\ \/ \E n \in Names : EvaluationBegins(n)
        \/ \E passed \in BOOLEAN : EvaluationEnds(passed)
        \/ PromoteLoads
  \/ /\ p = "curator"
     /\ \/ CuratorLists \/ CuratorSaves \/ CuratorEnds
        \/ \E n \in Names : CuratorKeeps(n) \/ CuratorArchives(n) \/ CuratorDemotes(n)
  \/ /\ p = "consolidator"
     /\ \/ ConsolidatorLists \/ ConsolidatorEnds
        \/ \E a, b \in Names : PairTaken(a, b)
        \/ \E n \in Names : MergeNamed(n)
        \/ MergeReads
        \/ \E n, s \in Names : MergeCarries(n, s)
        \/ MergePlaced \/ SourceLoads \/ SourceSaved \/ MergeEnds
  \/ /\ p = "reviewer"
     /\ \E n \in Names : DraftLoads(n)

Next ==
  \/ \E p \in Programs : Step(p)
  \/ \E n \in Names :
       \/ ScenarioAdded(n)
       \/ \E s \in Names : ScenarioRemoved(n, s)
       \/ HandEdit(n) \/ HandWrites(n)

Spec == Init /\ [][Next]_vars

-----------------------------------------------------------------------------
(* Properties.                                                             *)

TypeOK ==
  /\ file \in [Names -> Skill]
  /\ scenarios \in [Names -> SUBSET Names]
  /\ \A i \in 1 .. Len(reports) :
       reports[i] \in [skill : Names, body : {"first", "merged"},
                       scenarios : SUBSET Names, passed : BOOLEAN]
  /\ at \in [Programs -> Places]
  /\ target \in [Programs -> Names \cup {Nowhere}]
  /\ draft \in [Programs -> Skill]
  /\ listed \in [Names -> {"skip", "quarantine", "active", "archived"}]
  /\ pairs \subseteq SUBSET Names
  /\ Len(sources) \in 0 .. 2 /\ Len(unread) \in 0 .. 2
  /\ pending \subseteq Names \X Names
  /\ edited \subseteq Names
  /\ unaware \in [Maintainers -> SUBSET Names]
  /\ overlapped \in BOOLEAN
  /\ commands \in 0 .. MaxCommands

\* A skill reaches Active only with evidence that it passed its evals
\* (skill.go): however commands overlap, overwrite each other or die half way,
\* an agent's active skill names an evaluation that was of this very skill and
\* passed, unless somebody edited its file.
ActiveOnEvidence ==
  \A n \in Names :
    file[n].state = "active" /\ file[n].author = "agent" =>
      LET id == file[n].promotedBy
      IN  \/ id = NoEvidence /\ n \in edited
          \/ id \in 1 .. Len(reports) /\ reports[id].skill = n /\ Passed(reports[id])

\* A step that changes the file of a person's skill, which that person did not take.
TouchesPersons(n) ==
  /\ file[n].author = "person"
  /\ file'[n] # file[n]
  /\ n \notin edited' \ edited

\* Neither the curator, the consolidator nor the reviewer changes a skill a person
\* wrote (README.md: "Neither is anything a person wrote"), however they and the
\* commands overlap, unless that very program cannot know of it: the file did not
\* parse when it looked, or was written since.
PersonsSkillsLeftAlone ==
  [][\A n \in Names : TouchesPersons(n) =>
       \/ \E p \in {"operator", "certifier"} : at[p] = "save" /\ target[p] = n
       \/ \E p \in Maintainers : at[p] \in {"save", "carry"} /\ n \in unaware[p]]_vars

\* A skill archived because it was consolidated into another is replaced: the
\* other is in the store, even if the merge died half way (consolidate.go:
\* applyMerge saves before it archives).
ReplacementExists ==
  \A n \in Names : file[n].into # Nowhere => Stored(file[n].into)

\* While commands do not overlap, the gate is the only way into service: a skill
\* becomes active from quarantine, by a report on the body and the scenarios it
\* has (store.go: "There is no variant of this call that skips the check").
OnlyTheGatePromotes ==
  [][~overlapped' =>
       \A n \in Names :
         file'[n].state = "active" /\ file[n].state # "active" =>
           \/ n \in edited' \ edited
           \/ LET id == file'[n].promotedBy
              IN  /\ file[n].state = "quarantine"
                  /\ id \in 1 .. Len(reports)
                  /\ Passed(reports[id])
                  /\ reports[id].skill = n
                  /\ reports[id].body = file'[n].body
                  /\ reports[id].scenarios = scenarios[n]]_vars

\* The transition of a pinned skill that no person asked for.
AutomaticTransition(n) ==
  /\ file[n].pinned
  /\ file'[n].state # file[n].state \/ file'[n].body # file[n].body
  /\ \A p \in {"operator", "certifier"} : at'[p] = at[p]
  /\ edited' = edited

\* While commands do not overlap, pinned skills are never transitioned by the
\* programs that maintain the collection (skill.go, README.md).
PinnedStaysPut ==
  [][~overlapped' => \A n \in Names : ~AutomaticTransition(n)]_vars

-----------------------------------------------------------------------------
(* What the comments say and the code does not do.                         *)

\* skill.go: "These hold no matter who or what is acting: [...] A pinned skill
\* is never transitioned automatically."
PinnedNeverTransitioned ==
  [][\A n \in Names : ~AutomaticTransition(n)]_vars
=============================================================================
