---------------------------- MODULE Skills_proofs -----------------------------
(***************************************************************************)
(* Proofs about the skill store and the programs that share it, for any    *)
(* skills and any number of commands, in any order and overlap.            *)
(***************************************************************************)
EXTENDS Skills, FiniteSetTheorems, TLAPS

Bodies == {"first", "merged"}
Report == [skill : Names, body : Bodies, scenarios : SUBSET Names, passed : BOOLEAN]

Types ==
  /\ file \in [Names -> Skill]
  /\ scenarios \in [Names -> SUBSET Names]
  /\ reports \in Seq(Report)
  /\ at \in [Programs -> Places]
  /\ target \in [Programs -> Names \cup {Nowhere}]
  /\ draft \in [Programs -> Skill]
  /\ listed \in [Names -> {"skip", "quarantine", "active", "archived"}]
  /\ sources \in Seq(Names) /\ Len(sources) <= 2
  /\ edited \subseteq Names
  /\ overlapped \in BOOLEAN
  /\ commands \in 0 .. MaxCommands

\* The rest of them: what the consolidator has read, and what is not known.
MoreTypes ==
  /\ pairs \subseteq SUBSET Names
  /\ unread \in Seq(Names) /\ Len(unread) <= 2
  /\ pending \subseteq Names \X Names
  /\ unaware \in [Maintainers -> SUBSET Names]

\* What the evidence of a skill is worth.
Evident(n, sk) ==
  sk.state = "active" /\ sk.author = "agent" =>
    LET id == sk.promotedBy
    IN  \/ id = NoEvidence /\ n \in edited
        \/ id \in 1 .. Len(reports) /\ reports[id].skill = n /\ Passed(reports[id])

\* A skill that may be in the file of n.
Fit(n, sk) ==
  /\ sk.state # "absent"
  /\ sk.state = "unreadable" => ~sk.pinned
  /\ Evident(n, sk)
  /\ sk.into # Nowhere => Stored(sk.into)

FilesFit ==
  \A n \in Names : IF Stored(n) THEN Fit(n, file[n])
                   ELSE ~file[n].pinned /\ file[n].author = "agent" /\ file[n].into = Nowhere

\* A program that is about to write, and where.
Pending(p) == at[p] \in {"save", "carry"}
Destination(p) == IF p = "consolidator" /\ at[p] = "save" THEN Head(sources) ELSE target[p]
DraftsFit ==
  \A p \in Programs : Pending(p) =>
    /\ Destination(p) \in Names /\ Fit(Destination(p), draft[p])
    /\ draft[p].state # "unreadable"
    /\ p \in Maintainers => draft[p].state # "active"

\* The newest report is the certifier's own, and nobody's evidence before it has passed.
LastReport == reports[Len(reports)]
CertifierKnows ==
  /\ at["certifier"] \in {"evaluating", "promote"} =>
       /\ Len(reports) > 0 /\ LastReport.skill = target["certifier"]
       /\ target["certifier"] \in Names
  /\ at["certifier"] = "evaluating" => ~LastReport.passed
  /\ at["certifier"] = "promote" => Passed(LastReport)

\* What the curator and the consolidator are busy with.
CuratorKnows ==
  /\ at["curator"] \notin {"curating", "save"} => \A n \in Names : listed[n] = "skip"
  /\ at["curator"] = "save" => listed[target["curator"]] = "skip"

ConsolidatorKnows ==
  /\ at["consolidator"] \in {"idle", "pairing"} => Len(sources) = 0
  /\ at["consolidator"] \in {"comparing", "carry"} => Len(sources) = 2
  /\ at["consolidator"] = "save" => sources # <<>>
  /\ at["consolidator"] \in {"save", "retire"} =>
       target["consolidator"] \in Names /\ Stored(target["consolidator"])

\* What more is known as long as commands have not overlapped: whoever runs has the
\* store to itself.
OperatorAlone ==
  at["operator"] = "save" /\ draft["operator"].state = "active" =>
    file[target["operator"]].state = "active"

CertifierAlone ==
  /\ at["certifier"] \in {"evaluating", "promote", "save"} =>
       /\ LastReport.body = file[target["certifier"]].body
       /\ LastReport.scenarios = scenarios[target["certifier"]]
  /\ at["certifier"] = "save" =>
       /\ file[target["certifier"]].state = "quarantine"
       /\ draft["certifier"] = Promoted(file[target["certifier"]], Len(reports))
       /\ Len(reports) > 0 /\ LastReport.skill = target["certifier"] /\ Passed(LastReport)

CuratorAlone ==
  /\ \A n \in Names : listed[n] # "skip" => ~file[n].pinned
  /\ at["curator"] = "save" => ~file[target["curator"]].pinned

ConsolidatorAlone ==
  at["consolidator"] # "idle" =>
    /\ \A i \in 1 .. Len(sources) : ~file[sources[i]].pinned
    /\ \A pair \in pairs : \A n \in pair : n \in Names /\ ~file[n].pinned
    /\ at["consolidator"] = "carry" => ~file[target["consolidator"]].pinned
    /\ at["consolidator"] \in {"carry", "save"} => ~draft["consolidator"].pinned

ReviewerAlone == at["reviewer"] = "save" => ~Loads(target["reviewer"])

Undisturbed ==
  /\ \A p, q \in Programs : at[p] # "idle" /\ at[q] # "idle" => p = q
  /\ OperatorAlone /\ CertifierAlone /\ CuratorAlone /\ ConsolidatorAlone /\ ReviewerAlone

StoreInv ==
  FilesFit /\ DraftsFit /\ CertifierKnows /\ CuratorKnows /\ ConsolidatorKnows

SkillsInv == Types /\ StoreInv /\ (~overlapped => Undisturbed)

-----------------------------------------------------------------------------
(* What the operations make of a skill.                                    *)

LEMMA SkillForms ==
  ASSUME NEW sk \in Skill
  PROVE  /\ \A id \in Nat : /\ Promoted(sk, id) \in Skill /\ Promoted(sk, id).state = "active"
                            /\ Promoted(sk, id).promotedBy = id /\ Promoted(sk, id).into = Nowhere
                            /\ Promoted(sk, id).author = sk.author /\ Promoted(sk, id).body = sk.body
         /\ \A m \in Names \cup {Nowhere} :
              /\ Archived(sk, m) \in Skill /\ Archived(sk, m).state = "archived"
              /\ Archived(sk, m).author = sk.author /\ Archived(sk, m).into = m
              /\ Archived(sk, m).pinned = sk.pinned
         /\ Demoted(sk) \in Skill /\ Demoted(sk).state = "quarantine"
         /\ Demoted(sk).author = sk.author /\ Demoted(sk).into = Nowhere
         /\ Restored(sk) \in Skill /\ Restored(sk).state = "quarantine"
         /\ Restored(sk).author = sk.author /\ Restored(sk).into = Nowhere
         /\ \A b \in BOOLEAN :
              /\ [sk EXCEPT !.pinned = b] \in Skill /\ [sk EXCEPT !.pinned = b].state = sk.state
              /\ [sk EXCEPT !.pinned = b].author = sk.author
              /\ [sk EXCEPT !.pinned = b].promotedBy = sk.promotedBy
              /\ [sk EXCEPT !.pinned = b].into = sk.into
<1>1. ASSUME NEW id \in Nat
      PROVE  /\ Promoted(sk, id) \in Skill /\ Promoted(sk, id).state = "active"
             /\ Promoted(sk, id).promotedBy = id /\ Promoted(sk, id).into = Nowhere
             /\ Promoted(sk, id).author = sk.author /\ Promoted(sk, id).body = sk.body
  BY DEF Skill, Promoted
<1>2. ASSUME NEW m \in Names \cup {Nowhere}
      PROVE  /\ Archived(sk, m) \in Skill /\ Archived(sk, m).state = "archived"
             /\ Archived(sk, m).author = sk.author /\ Archived(sk, m).into = m
             /\ Archived(sk, m).pinned = sk.pinned
  BY DEF Skill, Archived
<1>3. /\ Demoted(sk) \in Skill /\ Demoted(sk).state = "quarantine"
      /\ Demoted(sk).author = sk.author /\ Demoted(sk).into = Nowhere
  BY DEF Skill, Demoted, NoEvidence
<1>4. /\ Restored(sk) \in Skill /\ Restored(sk).state = "quarantine"
      /\ Restored(sk).author = sk.author /\ Restored(sk).into = Nowhere
  BY DEF Skill, Restored, NoEvidence
<1>5. ASSUME NEW b \in BOOLEAN
      PROVE  /\ [sk EXCEPT !.pinned = b] \in Skill /\ [sk EXCEPT !.pinned = b].state = sk.state
             /\ [sk EXCEPT !.pinned = b].author = sk.author
             /\ [sk EXCEPT !.pinned = b].promotedBy = sk.promotedBy
             /\ [sk EXCEPT !.pinned = b].into = sk.into
  BY DEF Skill
<1> QED
  BY <1>1, <1>2, <1>3, <1>4, <1>5

LEMMA NewForms ==
  /\ \A body \in Bodies : /\ New(body) \in Skill /\ New(body).state = "quarantine"
                          /\ New(body).author = "agent" /\ New(body).into = Nowhere
                          /\ New(body).pinned = FALSE
  /\ Nothing \in Skill /\ Nothing.state = "absent" /\ Nothing.pinned = FALSE
  /\ Nothing.into = Nowhere /\ Nothing.author = "agent"
BY DEF New, Nothing, Skill, NoEvidence, Bodies

LEMMA EditForms ==
  ASSUME NEW sk \in Skill, NEW s \in OperatorEdits(sk)
  PROVE  /\ s \in Skill /\ s.author = sk.author
         /\ \/ s.state \in {"archived", "quarantine"} /\ s.into = Nowhere
            \/ s.state = sk.state /\ s.promotedBy = sk.promotedBy /\ s.into = sk.into
<1>1. CASE s = Archived(sk, Nowhere)
  <2>1. Nowhere \in Names \cup {Nowhere}
    OBVIOUS
  <2>2. /\ Archived(sk, Nowhere) \in Skill /\ Archived(sk, Nowhere).state = "archived"
        /\ Archived(sk, Nowhere).author = sk.author /\ Archived(sk, Nowhere).into = Nowhere
    BY <2>1, SkillForms, ZenonT(60)
  <2> QED
    BY <1>1, <2>2
<1>2. CASE s = Restored(sk)
  BY <1>2, SkillForms
<1>3. ASSUME NEW b \in BOOLEAN, s = [sk EXCEPT !.pinned = b]
      PROVE  s \in Skill /\ s.author = sk.author /\ s.state = sk.state
             /\ s.promotedBy = sk.promotedBy /\ s.into = sk.into
  BY <1>3, SkillForms, ZenonT(60)
<1> QED
  BY <1>1, <1>2, <1>3 DEF OperatorEdits

-----------------------------------------------------------------------------
(* Types.                                                                  *)

LEMMA TypesFollow ==
  ASSUME file \in [Names -> Skill], scenarios \in [Names -> SUBSET Names],
         reports \in Seq(Report), at \in [Programs -> Places],
         target \in [Programs -> Names \cup {Nowhere}], draft \in [Programs -> Skill],
         listed \in [Names -> {"skip", "quarantine", "active", "archived"}],
         sources \in Seq(Names), Len(sources) <= 2, edited \subseteq Names,
         overlapped \in BOOLEAN, commands \in 0 .. MaxCommands
  PROVE  Types
BY DEF Types

\* Before the first command, each learned skill was promoted by a report of its own.
LEMMA FirstReports ==
  ASSUME Init
  PROVE  /\ reports \in Seq(Report) /\ Len(reports) = Cardinality(Learned)
         /\ \A n \in Learned : /\ file[n].promotedBy \in 1 .. Len(reports)
                               /\ reports[file[n].promotedBy].skill = n
                               /\ Passed(reports[file[n].promotedBy])
<1> DEFINE N == Cardinality(Learned)
           by == [n \in Learned |-> file[n].promotedBy]
<1>1. N \in Nat /\ IsFiniteSet(Learned)
  BY SkillsAssumption, FS_CardinalityType
<1>2. \A n \in Learned : file[n].promotedBy \in 1 .. N
  <2> SUFFICES ASSUME NEW n \in Learned PROVE file[n].promotedBy \in 1 .. N
    OBVIOUS
  <2>1. n \in Names /\ n \notin Free
    BY SkillsAssumption DEF Names
  <2>2. Stored(n) /\ file[n].promotedBy # NoEvidence
    BY <2>1 DEF Init
  <2>3. PICK id \in 0 .. N, author \in {"agent", "person"} :
          file[n] = [Promoted(New("first"), id) EXCEPT !.author = author]
    <3>1. file[n] # Nothing
      BY <2>2 DEF Stored, Nothing, New
    <3>2. file[n] \in {Nothing} \cup {[Promoted(New("first"), id) EXCEPT !.author = author] :
                                      id \in 0 .. N, author \in {"agent", "person"}}
      BY <2>1 DEF Init
    <3> QED
      BY <3>1, <3>2
  <2>4. file[n].promotedBy = id
    BY <2>3 DEF Promoted, New
  <2> QED
    BY <1>1, <2>2, <2>4 DEF NoEvidence
<1>3. by \in Injection(Learned, 1 .. N)
  BY <1>2 DEF Init, Injection, IsInjective
<1>4. IsFiniteSet(1 .. N) /\ Cardinality(1 .. N) = N
  BY <1>1, FS_Interval
<1>5. by \in Surjection(Learned, 1 .. N)
  BY <1>1, <1>3, <1>4, FS_Injection
<1>6. \A i \in 1 .. N : \E n \in Learned : file[n].promotedBy = i
  BY <1>5 DEF Surjection
<1>7. reports = [i \in 1 .. N |->
                   LET n == CHOOSE n \in Learned : file[n].promotedBy = i
                   IN  [skill |-> n, body |-> "first", scenarios |-> {n}, passed |-> TRUE]]
  BY DEF Init
<1>8. \A i \in 1 .. N : /\ reports[i] \in Report /\ Passed(reports[i])
                        /\ reports[i].skill \in Learned /\ file[reports[i].skill].promotedBy = i
  <2> SUFFICES ASSUME NEW i \in 1 .. N
               PROVE  /\ reports[i] \in Report /\ Passed(reports[i])
                      /\ reports[i].skill \in Learned /\ file[reports[i].skill].promotedBy = i
    OBVIOUS
  <2>1. PICK n : n = CHOOSE m \in Learned : file[m].promotedBy = i
    OBVIOUS
  <2>2. n \in Learned /\ file[n].promotedBy = i
    BY <1>6, <2>1
  <2>3. reports[i] = [skill |-> n, body |-> "first", scenarios |-> {n}, passed |-> TRUE]
    BY <1>7, <2>1
  <2> QED
    BY <2>2, <2>3 DEF Report, Bodies, Passed, Names
<1> HIDE DEF N, by
<1>9. reports \in Seq(Report) /\ Len(reports) = N
  BY <1>1, <1>7, <1>8
<1>10. \A m, n \in Learned : file[m].promotedBy = file[n].promotedBy => m = n
  BY DEF Init
<1> QED
  BY <1>2, <1>8, <1>9, <1>10 DEF N

LEMMA SkillsBegin == Init => SkillsInv
<1> SUFFICES ASSUME Init PROVE SkillsInv
  OBVIOUS
<1>1. \A n \in Names : IF n \in Free
                       THEN file[n] = Nothing
                       ELSE /\ file[n] \in Skill /\ file[n].state = "active" /\ file[n].into = Nowhere
                            /\ file[n].promotedBy # NoEvidence <=> n \in Learned
                            /\ file[n].author \in {"agent", "person"}
  <2> SUFFICES ASSUME NEW n \in Names
               PROVE  IF n \in Free
                      THEN file[n] = Nothing
                      ELSE /\ file[n] \in Skill /\ file[n].state = "active" /\ file[n].into = Nowhere
                           /\ file[n].promotedBy # NoEvidence <=> n \in Learned
                           /\ file[n].author \in {"agent", "person"}
    OBVIOUS
  <2>0. Cardinality(Learned) \in Nat
    BY SkillsAssumption, FS_CardinalityType
  <2>1. \/ file[n] = Nothing
        \/ \E id \in 0 .. Cardinality(Learned), author \in {"agent", "person"} :
             file[n] = [Promoted(New("first"), id) EXCEPT !.author = author]
    BY DEF Init
  <2>2. ASSUME NEW id \in 0 .. Cardinality(Learned), NEW author \in {"agent", "person"},
               file[n] = [Promoted(New("first"), id) EXCEPT !.author = author]
        PROVE  file[n] \in Skill /\ file[n].state = "active" /\ file[n].into = Nowhere
               /\ file[n].author \in {"agent", "person"}
    <3>1. file[n] = [state |-> "active", author |-> author, pinned |-> FALSE,
                     promotedBy |-> id, body |-> "first", into |-> Nowhere]
      BY <2>2 DEF Promoted, New
    <3>2. id \in Nat
      BY <2>0
    <3> QED
      BY <3>1, <3>2 DEF Skill
  <2>3. (Stored(n) <=> n \notin Free) /\ (file[n].promotedBy # NoEvidence <=> n \in Learned)
    BY DEF Init
  <2>4. file[n] = Nothing => ~Stored(n)
    BY DEF Stored, Nothing, New
  <2> QED
    BY <2>1, <2>2, <2>3, <2>4 DEF Stored
<1>2. file \in [Names -> Skill]
  <2>1. DOMAIN file = Names /\ file = [n \in Names |-> file[n]]
    BY DEF Init
  <2> QED
    BY <1>1, <2>1, NewForms
<1>3. Types
  <2>1. /\ reports \in Seq(Report) /\ sources \in Seq(Names) /\ Len(sources) = 0
        /\ commands \in 0 .. MaxCommands /\ edited \subseteq Names /\ overlapped \in BOOLEAN
    <3>1. <<>> \in Seq(Names) /\ Len(<<>>) = 0 /\ 0 \in 0 .. MaxCommands
      BY SkillsAssumption
    <3>2. sources = <<>> /\ commands = 0 /\ edited = {} /\ overlapped = FALSE
      BY DEF Init
    <3> QED
      BY FirstReports, <3>1, <3>2
  <2>2. scenarios \in [Names -> SUBSET Names]
    BY DEF Init
  <2>3. at \in [Programs -> Places] /\ target \in [Programs -> Names \cup {Nowhere}]
        /\ draft \in [Programs -> Skill] /\ listed \in [Names -> {"skip", "quarantine", "active", "archived"}]
    BY NewForms DEF Init, Places
  <2> QED
    BY <1>2, <2>1, <2>2, <2>3, TypesFollow
<1>4. \A p \in Programs : at[p] = "idle"
  BY DEF Init
<1>5. FilesFit
  <2> SUFFICES ASSUME NEW n \in Names
               PROVE  IF Stored(n) THEN Fit(n, file[n])
                      ELSE ~file[n].pinned /\ file[n].author = "agent" /\ file[n].into = Nowhere
    BY DEF FilesFit
  <2>1. CASE n \in Free
    BY <1>1, <2>1, NewForms, SkillsAssumption DEF Stored
  <2>2. CASE n \notin Free
    <3>1. file[n].author = "person" <=> n \in Handwritten
      BY DEF Init
    <3>2. n \in Learned \/ n \in Handwritten
      BY <2>2 DEF Names
    <3>3. Evident(n, file[n])
      BY <3>1, <3>2, FirstReports DEF Evident
    <3>4. file[n].state = "active" /\ file[n].into = Nowhere
      BY <1>1, <2>2
    <3> QED
      BY <3>3, <3>4 DEF Stored, Fit
  <2> QED
    BY <2>1, <2>2
<1>6. DraftsFit /\ CertifierKnows
  BY <1>4 DEF DraftsFit, CertifierKnows, Pending, Programs
<1>7. Len(sources) = 0 /\ pairs = {} /\ \A n \in Names : listed[n] = "skip"
  BY DEF Init
<1>8. CuratorKnows /\ ConsolidatorKnows
  BY <1>4, <1>7 DEF CuratorKnows, ConsolidatorKnows, Programs
<1>9. Undisturbed
  BY <1>4, <1>7 DEF Undisturbed, OperatorAlone, CertifierAlone, CuratorAlone, ConsolidatorAlone,
     ReviewerAlone, Programs
<1> QED
  BY <1>3, <1>5, <1>6, <1>8, <1>9 DEF SkillsInv, StoreInv

-----------------------------------------------------------------------------
(* What every step leaves as it was.                                       *)

\* A step of p leaves the other programs where they are.
Keeps(p) ==
  /\ \A q \in Programs \ {p} : at'[q] = at[q] /\ target'[q] = target[q] /\ draft'[q] = draft[q]
  /\ edited' = edited
  /\ p # "certifier" => reports' = reports
  /\ p # "curator" => listed' = listed
  /\ p # "consolidator" => sources' = sources /\ pairs' = pairs /\ scenarios' = scenarios
  /\ at[p] = "idle" => overlapped' = (overlapped \/ Running # {})
  /\ at[p] # "idle" => overlapped' = overlapped

\* If it writes a skill, then the one it has made ready.
Writes(p) ==
  \/ file' = file
  \/ /\ Pending(p) /\ at'[p] # at[p]
     /\ p # "consolidator" => at[p] = "save"
     /\ file' = [file EXCEPT ![Destination(p)] = draft[p]]

LEMMA Moves ==
  ASSUME Types, NEW p \in Programs, NEW place \in Places, Goto(p, place)
  PROVE  /\ at' \in [Programs -> Places] /\ at'[p] = place
         /\ \A q \in Programs \ {p} : at'[q] = at[q]
BY DEF Types, Goto

LEMMA Takes ==
  ASSUME Types, NEW p \in Programs, NEW n \in Names \cup {Nowhere}, NEW sk \in Skill,
         BusyWith(p, n, sk)
  PROVE  /\ target' \in [Programs -> Names \cup {Nowhere}] /\ draft' \in [Programs -> Skill]
         /\ target'[p] = n /\ draft'[p] = sk
         /\ \A q \in Programs \ {p} : target'[q] = target[q] /\ draft'[q] = draft[q]
BY DEF Types, BusyWith

LEMMA Forgets ==
  ASSUME Types, NEW p \in Programs, Forget(p)
  PROVE  /\ target' \in [Programs -> Names \cup {Nowhere}] /\ draft' \in [Programs -> Skill]
         /\ \A q \in Programs \ {p} : target'[q] = target[q] /\ draft'[q] = draft[q]
<1>1. Nowhere \in Names \cup {Nowhere} /\ Nothing \in Skill
  BY NewForms
<1> QED
  BY <1>1, Takes DEF Forget

LEMMA CommandStarts ==
  ASSUME Types, Starts
  PROVE  /\ commands' \in 0 .. MaxCommands /\ overlapped' \in BOOLEAN
         /\ overlapped' = (overlapped \/ Running # {})
BY SkillsAssumption DEF Types, Starts

\* A skill that fits stays fit: files do not disappear, and evidence is not taken back.
LEMMA FitGoesOn ==
  ASSUME Types, edited \subseteq edited',
         \A n \in Names : Stored(n) => Stored(n)',
         \A i \in 1 .. Len(reports) :
           /\ i \in 1 .. Len(reports')
           /\ Passed(reports[i]) => reports'[i] = reports[i],
         NEW n \in Names, NEW sk \in Skill, Fit(n, sk)
  PROVE  Fit(n, sk)'
<1>1. Evident(n, sk)'
  BY DEF Fit, Evident
<1>2. sk.into # Nowhere => Stored(sk.into)'
  BY DEF Fit, Skill
<1> QED
  BY <1>1, <1>2 DEF Fit

\* What is written was fit for its place.
LEMMA WritesFit ==
  ASSUME SkillsInv, NEW p \in Programs, Writes(p)
  PROVE  /\ file' \in [Names -> Skill]
         /\ \A n \in Names : Stored(n) => Stored(n)'
         /\ \A n \in Names : file'[n] = file[n] \/ (file'[n] \in Skill /\ Fit(n, file'[n]))
<1>0. file \in [Names -> Skill] /\ draft[p] \in Skill
  BY DEF SkillsInv, Types
<1>1. CASE file' = file
  BY <1>0, <1>1 DEF Stored
<1>2. CASE Pending(p) /\ file' = [file EXCEPT ![Destination(p)] = draft[p]]
  <2>1. Destination(p) \in Names /\ Fit(Destination(p), draft[p])
    BY <1>2 DEF SkillsInv, StoreInv, DraftsFit
  <2>2. draft[p].state # "absent"
    BY <2>1 DEF Fit
  <2> QED
    BY <1>0, <1>2, <2>1, <2>2 DEF Stored
<1> QED
  BY <1>1, <1>2 DEF Writes

LEMMA FilesStayFit ==
  ASSUME SkillsInv, NEW p \in Programs, Writes(p), edited' = edited,
         \A i \in 1 .. Len(reports) :
           /\ i \in 1 .. Len(reports')
           /\ Passed(reports[i]) => reports'[i] = reports[i]
  PROVE  FilesFit' /\ \A n \in Names, sk \in Skill : Fit(n, sk) => Fit(n, sk)'
<1>1. ASSUME NEW n \in Names, NEW sk \in Skill, Fit(n, sk) PROVE Fit(n, sk)'
  BY <1>1, WritesFit, FitGoesOn DEF SkillsInv
<1>2. ASSUME NEW n \in Names
      PROVE  IF Stored(n)' THEN Fit(n, file[n])'
             ELSE ~file'[n].pinned /\ file'[n].author = "agent" /\ file'[n].into = Nowhere
  <2>1. file'[n] = file[n] \/ (file'[n] \in Skill /\ Fit(n, file'[n]))
    BY WritesFit
  <2>2. CASE file'[n] = file[n]
    <3>1. IF Stored(n) THEN Fit(n, file[n])
          ELSE ~file[n].pinned /\ file[n].author = "agent" /\ file[n].into = Nowhere
      BY DEF SkillsInv, StoreInv, FilesFit
    <3>2. Stored(n)' <=> Stored(n)
      BY <2>2 DEF Stored
    <3>3. ASSUME Fit(n, file[n]) PROVE Fit(n, file[n])'
      <4>1. PICK sk : sk = file[n]
        OBVIOUS
      <4>2. sk \in Skill /\ Fit(n, sk)
        BY <3>3, <4>1 DEF SkillsInv, Types
      <4>3. Fit(n, sk)'
        BY <1>1, <4>2
      <4> QED
        BY <2>2, <4>1, <4>3
    <3> QED
      BY <2>2, <3>1, <3>2, <3>3
  <2>3. CASE file'[n] \in Skill /\ Fit(n, file'[n])
    <3>1. PICK sk : sk = file'[n]
      OBVIOUS
    <3>2. Fit(n, sk)'
      BY <1>1, <2>3, <3>1
    <3>3. Stored(n)'
      BY <2>3 DEF Fit, Stored
    <3> QED
      BY <3>1, <3>2, <3>3
  <2> QED
    BY <2>1, <2>2, <2>3
<1> QED
  BY <1>1, <1>2 DEF FilesFit

\* A program that has made a new skill ready, and one that has not.
LEMMA DraftsStayFit ==
  ASSUME SkillsInv, NEW p \in Programs, Keeps(p),
         \A n \in Names, sk \in Skill : Fit(n, sk) => Fit(n, sk)',
         \/ ~Pending(p)'
         \/ \E n \in Names, sk \in Skill :
              /\ Fit(n, sk) /\ Destination(p)' = n /\ draft'[p] = sk
              /\ sk.state # "unreadable" /\ (p \in Maintainers => sk.state # "active")
  PROVE  DraftsFit'
<1> SUFFICES ASSUME NEW q \in Programs, Pending(q)'
             PROVE  /\ Destination(q)' \in Names /\ Fit(Destination(q), draft[q])'
                    /\ draft'[q].state # "unreadable"
                    /\ q \in Maintainers => draft'[q].state # "active"
  BY DEF DraftsFit
<1>1. CASE q = p
  <2>1. PICK n \in Names, sk \in Skill :
          /\ Fit(n, sk) /\ Destination(p)' = n /\ draft'[p] = sk
          /\ sk.state # "unreadable" /\ (p \in Maintainers => sk.state # "active")
    BY <1>1
  <2>2. Fit(n, sk)'
    BY <2>1
  <2> QED
    BY <1>1, <2>1, <2>2
<1>2. CASE q # p
  <2>1. Pending(q) /\ Destination(q)' = Destination(q) /\ draft'[q] = draft[q]
    BY <1>2 DEF Keeps, Pending, Destination
  <2>2. PICK n, sk : n = Destination(q) /\ sk = draft[q]
    OBVIOUS
  <2>3. n \in Names /\ sk \in Skill /\ Fit(n, sk) /\ sk.state # "unreadable"
        /\ (q \in Maintainers => sk.state # "active")
    BY <2>1, <2>2 DEF SkillsInv, StoreInv, DraftsFit, Types
  <2>4. Fit(n, sk)'
    BY <2>3
  <2> QED
    BY <2>1, <2>2, <2>3, <2>4
<1> QED
  BY <1>1, <1>2

LEMMA OthersKnow ==
  ASSUME SkillsInv, NEW p \in Programs, Keeps(p), Writes(p)
  PROVE  /\ p # "certifier" => CertifierKnows'
         /\ p # "curator" => CuratorKnows'
         /\ p # "consolidator" => ConsolidatorKnows'
<1>1. CertifierKnows /\ CuratorKnows /\ ConsolidatorKnows
  BY DEF SkillsInv, StoreInv
<1>2. p # "certifier" => CertifierKnows'
  BY <1>1 DEF Keeps, CertifierKnows, LastReport, Programs
<1>3. p # "curator" => CuratorKnows'
  <2> SUFFICES ASSUME p # "curator" PROVE CuratorKnows'
    OBVIOUS
  <2>1. /\ at'["curator"] = at["curator"] /\ target'["curator"] = target["curator"]
        /\ listed' = listed
    BY DEF Keeps, Programs
  <2> QED
    BY <1>1, <2>1 DEF CuratorKnows
<1>4. p # "consolidator" => ConsolidatorKnows'
  <2> SUFFICES ASSUME p # "consolidator" PROVE ConsolidatorKnows'
    OBVIOUS
  <2>1. /\ at'["consolidator"] = at["consolidator"] /\ target'["consolidator"] = target["consolidator"]
        /\ sources' = sources
    BY DEF Keeps, Programs
  <2>2. \A n \in Names : Stored(n) => Stored(n)'
    BY WritesFit
  <2>3. at'["consolidator"] \in {"save", "retire"} =>
          target'["consolidator"] \in Names /\ Stored(target["consolidator"])'
    BY <1>1, <2>1, <2>2 DEF ConsolidatorKnows
  <2> QED
    BY <1>1, <2>1, <2>3 DEF ConsolidatorKnows, Stored
<1> QED
  BY <1>2, <1>3, <1>4

\* A step of p, when commands have not overlapped, is all that goes on.
LEMMA AllAlone ==
  ASSUME SkillsInv, NEW p \in Programs, Keeps(p), ~overlapped'
  PROVE  Undisturbed /\ \A q \in Programs \ {p} : at[q] = "idle" /\ at'[q] = "idle"
<1>1. Undisturbed
  <2>1. CASE at[p] = "idle"
    <3>1. overlapped' = (overlapped \/ Running # {})
      BY <2>1 DEF Keeps
    <3>2. ~overlapped
      BY <3>1, Zenon
    <3> QED
      BY <3>2 DEF SkillsInv
  <2>2. CASE at[p] # "idle"
    <3>1. ~overlapped
      BY <2>2 DEF Keeps
    <3> QED
      BY <3>1 DEF SkillsInv
  <2> QED
    BY <2>1, <2>2
<1>2. at[p] = "idle" => \A q \in Programs : at[q] = "idle"
  <2> SUFFICES ASSUME at[p] = "idle" PROVE \A q \in Programs : at[q] = "idle"
    OBVIOUS
  <2>1. overlapped' = (overlapped \/ Running # {})
    BY DEF Keeps
  <2>2. Running = {}
    BY <2>1, Zenon
  <2> QED
    BY <2>2 DEF Running
<1>3. at[p] # "idle" => \A q \in Programs \ {p} : at[q] = "idle"
  BY <1>1 DEF Undisturbed
<1> QED
  BY <1>1, <1>2, <1>3 DEF Keeps

LEMMA StillUndisturbed ==
  ASSUME SkillsInv, NEW p \in Programs, Keeps(p), ~overlapped', CuratorKnows',
         p = "operator" => OperatorAlone', p = "certifier" => CertifierAlone',
         p = "curator" => CuratorAlone', p = "consolidator" => ConsolidatorAlone',
         p = "reviewer" => ReviewerAlone'
  PROVE  Undisturbed'
<1>1. \A q \in Programs \ {p} : at'[q] = "idle"
  BY AllAlone
<1>2. p # "operator" => OperatorAlone'
  BY <1>1 DEF OperatorAlone, Programs
<1>3. p # "certifier" => CertifierAlone'
  BY <1>1 DEF CertifierAlone, Programs
<1>4. p # "curator" => CuratorAlone'
  BY <1>1 DEF CuratorAlone, CuratorKnows, Programs
<1>5. p # "consolidator" => ConsolidatorAlone'
  BY <1>1 DEF ConsolidatorAlone, Programs
<1>6. p # "reviewer" => ReviewerAlone'
  BY <1>1 DEF ReviewerAlone, Programs
<1> QED
  BY <1>1, <1>2, <1>3, <1>4, <1>5, <1>6 DEF Undisturbed

\* The types after a step.
LEMMA TypesStay ==
  ASSUME file' \in [Names -> Skill], scenarios' \in [Names -> SUBSET Names],
         reports' \in Seq(Report), at' \in [Programs -> Places],
         target' \in [Programs -> Names \cup {Nowhere}], draft' \in [Programs -> Skill],
         listed' \in [Names -> {"skip", "quarantine", "active", "archived"}],
         sources' \in Seq(Names), Len(sources') <= 2, edited' \subseteq Names,
         overlapped' \in BOOLEAN, commands' \in 0 .. MaxCommands
  PROVE  Types'
BY DEF Types

LEMMA TypesNow ==
  ASSUME Types
  PROVE  /\ file \in [Names -> Skill] /\ scenarios \in [Names -> SUBSET Names]
         /\ reports \in Seq(Report) /\ at \in [Programs -> Places]
         /\ target \in [Programs -> Names \cup {Nowhere}] /\ draft \in [Programs -> Skill]
         /\ listed \in [Names -> {"skip", "quarantine", "active", "archived"}]
         /\ sources \in Seq(Names) /\ Len(sources) <= 2 /\ edited \subseteq Names
         /\ overlapped \in BOOLEAN /\ commands \in 0 .. MaxCommands
BY DEF Types

\* What a step of p has to show.
LEMMA StepKeeps ==
  ASSUME SkillsInv, NEW p \in Programs, Types', Keeps(p), Writes(p),
         \A i \in 1 .. Len(reports) :
           /\ i \in 1 .. Len(reports')
           /\ Passed(reports[i]) => reports'[i] = reports[i],
         \/ ~Pending(p)'
         \/ \E n \in Names, sk \in Skill :
              /\ Fit(n, sk) /\ Destination(p)' = n /\ draft'[p] = sk
              /\ sk.state # "unreadable" /\ (p \in Maintainers => sk.state # "active"),
         p = "certifier" => CertifierKnows' /\ (~overlapped' => CertifierAlone'),
         p = "curator" => CuratorKnows' /\ (~overlapped' => CuratorAlone'),
         p = "consolidator" => ConsolidatorKnows' /\ (~overlapped' => ConsolidatorAlone'),
         p = "operator" /\ ~overlapped' => OperatorAlone',
         p = "reviewer" /\ ~overlapped' => ReviewerAlone'
  PROVE  SkillsInv'
<1>1. FilesFit' /\ \A n \in Names, sk \in Skill : Fit(n, sk) => Fit(n, sk)'
  BY FilesStayFit DEF Keeps
<1>2. DraftsFit'
  BY <1>1, DraftsStayFit
<1>3. CertifierKnows' /\ CuratorKnows' /\ ConsolidatorKnows'
  BY OthersKnow
<1>4. ~overlapped' => Undisturbed'
  BY <1>3, StillUndisturbed
<1> QED
  BY <1>1, <1>2, <1>3, <1>4 DEF SkillsInv, StoreInv

\* The command of any program ends.
LEMMA StopKeeps ==
  ASSUME SkillsInv, NEW p \in Programs, Stops(p)
  PROVE  SkillsInv' /\ Keeps(p) /\ Writes(p)
<1>0. Types
  BY DEF SkillsInv
<1>1. /\ at' \in [Programs -> Places] /\ at'[p] = "idle"
      /\ \A q \in Programs \ {p} : at'[q] = at[q]
  BY <1>0, Moves DEF Stops, Places
<1>2. /\ target' \in [Programs -> Names \cup {Nowhere}] /\ draft' \in [Programs -> Skill]
      /\ \A q \in Programs \ {p} : target'[q] = target[q] /\ draft'[q] = draft[q]
  BY <1>0, Forgets DEF Stops
<1>3. /\ UNCHANGED <<file, scenarios, reports, edited, overlapped, commands>> /\ at[p] # "idle"
      /\ listed' = (IF p = "curator" THEN [n \in Names |-> "skip"] ELSE listed)
      /\ sources' = (IF p = "consolidator" THEN <<>> ELSE sources)
      /\ p # "consolidator" => pairs' = pairs
  BY DEF Stops, storeVars, startVars, handVars, mergeVars, PairIsDone
<1>4. Keeps(p) /\ Writes(p)
  BY <1>1, <1>2, <1>3 DEF Keeps, Writes
<1>5. /\ listed' \in [Names -> {"skip", "quarantine", "active", "archived"}]
      /\ sources' \in Seq(Names) /\ Len(sources') <= 2
  <2>1. <<>> \in Seq(Names) /\ Len(<<>>) = 0
    OBVIOUS
  <2> QED
    BY <1>0, <1>3, <2>1, TypesNow
<1>6. Types'
  BY <1>0, <1>1, <1>2, <1>3, <1>5, TypesStay, TypesNow
<1>7. ~Pending(p)'
  BY <1>1 DEF Pending
<1>8. p = "certifier" => CertifierKnows' /\ CertifierAlone'
  BY <1>1 DEF CertifierKnows, CertifierAlone
<1>9. p = "curator" => CuratorKnows' /\ CuratorAlone'
  BY <1>1, <1>3 DEF CuratorKnows, CuratorAlone
<1>10. p = "consolidator" => ConsolidatorKnows' /\ ConsolidatorAlone'
  <2>1. Len(<<>>) = 0
    OBVIOUS
  <2> QED
    BY <1>1, <1>3, <2>1 DEF ConsolidatorKnows, ConsolidatorAlone
<1>11. (p = "operator" => OperatorAlone') /\ (p = "reviewer" => ReviewerAlone')
  BY <1>1 DEF OperatorAlone, ReviewerAlone
<1>12. SkillsInv'
  BY <1>3, <1>4, <1>6, <1>7, <1>8, <1>9, <1>10, <1>11, StepKeeps
<1> QED
  BY <1>4, <1>12

\* A command's last step, its save.
LEMMA SaveKeeps ==
  ASSUME SkillsInv, NEW p \in Programs, Saves(p)
  PROVE  SkillsInv' /\ Keeps(p) /\ Writes(p)
<1>0. Types
  BY DEF SkillsInv
<1>1. /\ at' \in [Programs -> Places] /\ at'[p] = "idle"
      /\ \A q \in Programs \ {p} : at'[q] = at[q]
  BY <1>0, Moves DEF Saves, Places
<1>2. /\ target' \in [Programs -> Names \cup {Nowhere}] /\ draft' \in [Programs -> Skill]
      /\ \A q \in Programs \ {p} : target'[q] = target[q] /\ draft'[q] = draft[q]
  BY <1>0, Forgets DEF Saves
<1>3. /\ UNCHANGED <<scenarios, reports, listed, sources, pairs, edited, overlapped, commands>>
      /\ p \in {"operator", "certifier", "reviewer"} /\ at[p] = "save"
      /\ file' = [file EXCEPT ![target[p]] = draft[p]]
  BY DEF Saves, Replaces, Renames, startVars, mergeVars
<1>4. Keeps(p) /\ Writes(p)
  BY <1>1, <1>2, <1>3 DEF Keeps, Writes, Pending, Destination
<1>5. file' \in [Names -> Skill]
  BY <1>4, WritesFit
<1>6. Types'
  BY <1>0, <1>1, <1>2, <1>3, <1>5, TypesStay, TypesNow
<1>7. ~Pending(p)'
  BY <1>1 DEF Pending
<1>8. /\ p = "certifier" => CertifierKnows' /\ CertifierAlone'
      /\ p = "operator" => OperatorAlone'
      /\ p = "reviewer" => ReviewerAlone'
  BY <1>1 DEF CertifierKnows, CertifierAlone, OperatorAlone, ReviewerAlone
<1>9. SkillsInv'
  BY <1>3, <1>4, <1>6, <1>7, <1>8, StepKeeps
<1> QED
  BY <1>4, <1>9

LEMMA OperatorKeeps ==
  ASSUME SkillsInv, NEW n \in Names, OperatorLoads(n)
  PROVE  SkillsInv' /\ Keeps("operator") /\ Writes("operator")
<1> DEFINE p == "operator"
<1>0. Types /\ p \in Programs
  BY DEF SkillsInv, Programs
<1>1. PICK sk \in OperatorEdits(file[n]) : BusyWith(p, n, sk)
  BY DEF OperatorLoads
<1>2. /\ UNCHANGED <<file, scenarios, reports, listed, sources, pairs, edited>>
      /\ at[p] = "idle" /\ Loads(n) /\ Stored(n) /\ Starts /\ Goto(p, "save")
  BY DEF OperatorLoads, Begins, storeVars, mergeVars, handVars, Loads, Stored
<1>3. file[n] \in Skill /\ Fit(n, file[n])
  BY <1>0, <1>2, TypesNow DEF SkillsInv, StoreInv, FilesFit
<1>4. /\ sk \in Skill /\ sk.author = file[n].author
      /\ \/ sk.state \in {"archived", "quarantine"} /\ sk.into = Nowhere
         \/ sk.state = file[n].state /\ sk.promotedBy = file[n].promotedBy /\ sk.into = file[n].into
  BY <1>1, <1>3, EditForms
<1>5. Fit(n, sk) /\ sk.state # "unreadable"
  BY <1>2, <1>3, <1>4 DEF Fit, Evident, Loads
<1>6. /\ at' \in [Programs -> Places] /\ at'[p] = "save"
      /\ \A q \in Programs \ {p} : at'[q] = at[q]
  BY <1>0, <1>2, Moves DEF Places
<1>7. /\ target' \in [Programs -> Names \cup {Nowhere}] /\ draft' \in [Programs -> Skill]
      /\ target'[p] = n /\ draft'[p] = sk
      /\ \A q \in Programs \ {p} : target'[q] = target[q] /\ draft'[q] = draft[q]
  BY <1>0, <1>1, <1>4, Takes
<1>8. /\ commands' \in 0 .. MaxCommands /\ overlapped' \in BOOLEAN
      /\ overlapped' = (overlapped \/ Running # {})
  BY <1>0, <1>2, CommandStarts
<1>9. Keeps(p) /\ Writes(p)
  BY <1>2, <1>6, <1>7, <1>8 DEF Keeps, Writes
<1>10. Types'
  BY <1>0, <1>2, <1>6, <1>7, <1>8, TypesStay, TypesNow
<1>11. OperatorAlone'
  BY <1>2, <1>4, <1>7 DEF OperatorAlone
<1>12. Destination(p)' = n
  BY <1>7 DEF Destination
<1>13. SkillsInv'
  BY <1>0, <1>2, <1>5, <1>7, <1>4, <1>9, <1>10, <1>11, <1>12, StepKeeps DEF Maintainers
<1> QED
  BY <1>9, <1>13

\* draft_skill: a name nobody had when the reviewer looked.
LEMMA ReviewerKeeps ==
  ASSUME SkillsInv, NEW n \in Names, DraftLoads(n)
  PROVE  SkillsInv' /\ Keeps("reviewer") /\ Writes("reviewer")
<1> DEFINE p == "reviewer"
<1>0. Types /\ p \in Programs /\ n \in Names \cup {Nowhere}
  BY DEF SkillsInv, Programs
<1>1. /\ UNCHANGED <<file, scenarios, reports, listed, sources, pairs, edited>>
      /\ at[p] = "idle" /\ ~Loads(n) /\ Starts /\ Goto(p, "save") /\ BusyWith(p, n, New("first"))
  BY DEF DraftLoads, Begins, storeVars, mergeVars
<1>2. PICK sk : sk = New("first")
  OBVIOUS
<1>3. sk \in Skill /\ sk.state = "quarantine" /\ sk.author = "agent" /\ sk.into = Nowhere
  BY <1>2, NewForms DEF Bodies
<1>5. Fit(n, sk)
  BY <1>3 DEF Fit, Evident
<1>6. /\ at' \in [Programs -> Places] /\ at'[p] = "save"
      /\ \A q \in Programs \ {p} : at'[q] = at[q]
  BY <1>0, <1>1, Moves DEF Places
<1>7. /\ target' \in [Programs -> Names \cup {Nowhere}] /\ draft' \in [Programs -> Skill]
      /\ target'[p] = n /\ draft'[p] = sk
      /\ \A q \in Programs \ {p} : target'[q] = target[q] /\ draft'[q] = draft[q]
  BY <1>0, <1>1, <1>2, <1>3, Takes
<1>8. /\ commands' \in 0 .. MaxCommands /\ overlapped' \in BOOLEAN
      /\ overlapped' = (overlapped \/ Running # {})
  BY <1>0, <1>1, CommandStarts
<1>9. Keeps(p) /\ Writes(p)
  BY <1>1, <1>6, <1>7, <1>8 DEF Keeps, Writes
<1>10. Types'
  BY <1>0, <1>1, <1>6, <1>7, <1>8, TypesStay, TypesNow
<1>11. ReviewerAlone'
  BY <1>1, <1>7 DEF ReviewerAlone, Loads
<1>12. Destination(p)' = n
  BY <1>7 DEF Destination
<1>13. SkillsInv'
  BY <1>0, <1>1, <1>3, <1>5, <1>7, <1>9, <1>10, <1>11, <1>12, StepKeeps
<1> QED
  BY <1>9, <1>13

-----------------------------------------------------------------------------
(* The certifier (Gate.Certify).                                           *)

LEMMA EvaluationBeginsKeeps ==
  ASSUME SkillsInv, NEW n \in Names, EvaluationBegins(n)
  PROVE  SkillsInv' /\ Keeps("certifier") /\ Writes("certifier")
<1> DEFINE p == "certifier"
<1>0. Types /\ p \in Programs /\ n \in Names \cup {Nowhere} /\ Nothing \in Skill
  BY NewForms DEF SkillsInv, Programs
<1>1. PICK report : report = [skill |-> n, body |-> file[n].body,
                              scenarios |-> scenarios[n], passed |-> FALSE]
  OBVIOUS
<1>2. /\ UNCHANGED <<file, scenarios, listed, sources, pairs, edited>> /\ reports' = Append(reports, report)
      /\ at[p] = "idle" /\ Starts /\ Goto(p, "evaluating") /\ BusyWith(p, n, Nothing)
  BY <1>1 DEF EvaluationBegins, Begins, storeVars, mergeVars, handVars
<1>3. report \in Report
  <2>1. file[n] \in Skill /\ scenarios[n] \in SUBSET Names
    BY <1>0, TypesNow
  <2>2. file[n].body \in Bodies
    BY <2>1 DEF Skill, Bodies
  <2> QED
    BY <1>1, <2>1, <2>2 DEF Report
<1>4. /\ reports' \in Seq(Report) /\ Len(reports') = Len(reports) + 1 /\ Len(reports) \in Nat
      /\ reports'[Len(reports')] = report
      /\ \A i \in 1 .. Len(reports) : i \in 1 .. Len(reports') /\ reports'[i] = reports[i]
  <2>1. reports \in Seq(Report)
    BY <1>0, TypesNow
  <2> QED
    BY <1>2, <1>3, <2>1
<1>5. /\ at' \in [Programs -> Places] /\ at'[p] = "evaluating"
      /\ \A q \in Programs \ {p} : at'[q] = at[q]
  BY <1>0, <1>2, Moves DEF Places
<1>6. /\ target' \in [Programs -> Names \cup {Nowhere}] /\ draft' \in [Programs -> Skill]
      /\ target'[p] = n
      /\ \A q \in Programs \ {p} : target'[q] = target[q] /\ draft'[q] = draft[q]
  BY <1>0, <1>2, Takes
<1>7. /\ commands' \in 0 .. MaxCommands /\ overlapped' \in BOOLEAN
      /\ overlapped' = (overlapped \/ Running # {})
  BY <1>0, <1>2, CommandStarts
<1>8. Keeps(p) /\ Writes(p)
  BY <1>2, <1>5, <1>6, <1>7 DEF Keeps, Writes
<1>9. Types'
  BY <1>0, <1>2, <1>4, <1>5, <1>6, <1>7, TypesStay, TypesNow
<1>10. Len(reports') > 0 /\ LastReport' = report /\ ~Pending(p)'
  BY <1>4, <1>5 DEF LastReport, Pending
<1>11. CertifierKnows'
  BY <1>1, <1>5, <1>6, <1>10 DEF CertifierKnows
<1>12. CertifierAlone'
  BY <1>1, <1>2, <1>5, <1>6, <1>10 DEF CertifierAlone
<1>13. SkillsInv'
  BY <1>0, <1>4, <1>8, <1>9, <1>10, <1>11, <1>12, StepKeeps
<1> QED
  BY <1>8, <1>13

LEMMA EvaluationEndsKeeps ==
  ASSUME SkillsInv, NEW passed \in BOOLEAN, EvaluationEnds(passed)
  PROVE  SkillsInv' /\ Keeps("certifier") /\ Writes("certifier")
<1> DEFINE p == "certifier"
<1>0. Types /\ p \in Programs /\ Nothing \in Skill /\ reports \in Seq(Report)
  BY NewForms, TypesNow DEF SkillsInv, Programs
<1>1. /\ UNCHANGED <<file, scenarios, listed, sources, pairs, edited, overlapped, commands>>
      /\ at[p] = "evaluating"
      /\ reports' = [reports EXCEPT ![Len(reports)].passed = passed]
  BY DEF EvaluationEnds, storeVars, startVars, mergeVars, handVars
<1>2. PICK N \in Nat : N = Len(reports)
  BY <1>0
<1>3. /\ N > 0 /\ LastReport = reports[N] /\ ~reports[N].passed /\ reports[N].skill = target[p]
      /\ target[p] \in Names /\ reports[N] \in Report
  BY <1>0, <1>1, <1>2 DEF SkillsInv, StoreInv, CertifierKnows, LastReport
<1>4. PICK report : report = [reports[N] EXCEPT !.passed = passed]
  OBVIOUS
<1>5. /\ report \in Report /\ report.skill = target[p] /\ report.body = reports[N].body
      /\ report.scenarios = reports[N].scenarios
  BY <1>3, <1>4 DEF Report
<1>6. reports' = [reports EXCEPT ![N] = report]
  BY <1>1, <1>2, <1>4
<1>7. /\ reports' \in Seq(Report) /\ Len(reports') = N /\ reports'[N] = report
      /\ \A i \in 1 .. N : i # N => reports'[i] = reports[i]
  BY <1>0, <1>2, <1>3, <1>5, <1>6
<1>8. \A i \in 1 .. Len(reports) : /\ i \in 1 .. Len(reports')
                                   /\ Passed(reports[i]) => reports'[i] = reports[i]
  BY <1>2, <1>3, <1>7 DEF Passed
<1>9. LastReport' = report /\ Len(reports') > 0 /\ reports'[Len(reports')] = report
  BY <1>3, <1>7 DEF LastReport
<1>10. /\ at' \in [Programs -> Places] /\ \A q \in Programs \ {p} : at'[q] = at[q]
       /\ target' \in [Programs -> Names \cup {Nowhere}] /\ draft' \in [Programs -> Skill]
       /\ \A q \in Programs \ {p} : target'[q] = target[q] /\ draft'[q] = draft[q]
       /\ \/ at'[p] = "promote" /\ target'[p] = target[p] /\ Passed(report)
          \/ at'[p] = "idle"
  <2>1. CASE Passed(report)
    <3>1. Goto(p, "promote") /\ BusyWith(p, target[p], Nothing)
      BY <1>9, <2>1 DEF EvaluationEnds
    <3>2. target[p] \in Names \cup {Nowhere} /\ "promote" \in Places
      BY <1>3 DEF Places
    <3> QED
      BY <1>0, <2>1, <3>1, <3>2, Moves, Takes
  <2>2. CASE ~Passed(report)
    <3>1. Goto(p, "idle") /\ Forget(p) /\ "idle" \in Places
      BY <1>9, <2>2 DEF EvaluationEnds, Places
    <3> QED
      BY <1>0, <3>1, Moves, Forgets
  <2> QED
    BY <2>1, <2>2
<1>11. Keeps(p) /\ Writes(p)
  BY <1>1, <1>10 DEF Keeps, Writes
<1>12. Types'
  BY <1>0, <1>1, <1>7, <1>10, TypesStay, TypesNow
<1>13. ~Pending(p)'
  BY <1>10 DEF Pending
<1>14. CertifierKnows'
  BY <1>3, <1>5, <1>9, <1>10 DEF CertifierKnows
<1>15. ~overlapped' => CertifierAlone'
  <2>1. ~overlapped => CertifierAlone
    BY DEF SkillsInv, Undisturbed
  <2> QED
    BY <1>1, <1>3, <1>5, <1>9, <1>10, <2>1 DEF CertifierAlone
<1>16. SkillsInv'
  BY <1>0, <1>8, <1>11, <1>12, <1>13, <1>14, <1>15, StepKeeps
<1> QED
  BY <1>11, <1>16

\* Promote: what it saves is backed by the report it has just read.
LEMMA PromoteKeeps ==
  ASSUME SkillsInv, PromoteLoads
  PROVE  SkillsInv' /\ Keeps("certifier") /\ Writes("certifier")
<1> DEFINE p == "certifier"
<1>0. Types /\ p \in Programs /\ Nothing \in Skill /\ reports \in Seq(Report)
  BY NewForms, TypesNow DEF SkillsInv, Programs
<1>1. PICK n : n = target[p]
  OBVIOUS
<1>2. /\ UNCHANGED <<file, scenarios, reports, listed, sources, pairs, edited, overlapped, commands>>
      /\ at[p] = "promote"
  BY DEF PromoteLoads, storeVars, startVars, mergeVars, handVars
<1>3. /\ Len(reports) > 0 /\ LastReport.skill = n /\ n \in Names /\ Passed(LastReport)
      /\ file[n] \in Skill
  BY <1>0, <1>1, <1>2, TypesNow DEF SkillsInv, StoreInv, CertifierKnows
<1>4. PICK N \in Nat : N = Len(reports)
  BY <1>0
<1>5. CASE file[n].state = "quarantine"
  <2>1. PICK sk : sk = Promoted(file[n], Len(reports))
    OBVIOUS
  <2>2. Goto(p, "save") /\ BusyWith(p, n, sk) /\ "save" \in Places /\ n \in Names \cup {Nowhere}
    BY <1>1, <1>3, <1>5, <2>1 DEF PromoteLoads, Places
  <2>3. /\ sk \in Skill /\ sk.state = "active" /\ sk.promotedBy = N /\ sk.into = Nowhere
        /\ sk.author = file[n].author
    <3>1. sk = Promoted(file[n], N)
      BY <1>4, <2>1
    <3> QED
      BY <1>3, <3>1, SkillForms, ZenonT(60)
  <2>4. Fit(n, file[n])
    BY <1>3, <1>5 DEF SkillsInv, StoreInv, FilesFit, Stored
  <2>5. Fit(n, sk)
    <3>1. Evident(n, sk)
      BY <1>3, <1>4, <2>3 DEF Evident, LastReport
    <3> QED
      BY <2>3, <2>4, <3>1 DEF Fit
  <2>6. /\ at' \in [Programs -> Places] /\ at'[p] = "save"
        /\ \A q \in Programs \ {p} : at'[q] = at[q]
    BY <1>0, <2>2, Moves
  <2>7. /\ target' \in [Programs -> Names \cup {Nowhere}] /\ draft' \in [Programs -> Skill]
        /\ target'[p] = n /\ draft'[p] = sk
        /\ \A q \in Programs \ {p} : target'[q] = target[q] /\ draft'[q] = draft[q]
    BY <1>0, <2>2, <2>3, Takes
  <2>8. Keeps(p) /\ Writes(p)
    BY <1>2, <2>6, <2>7 DEF Keeps, Writes
  <2>9. Types'
    BY <1>0, <1>2, <2>6, <2>7, TypesStay, TypesNow
  <2>10. CertifierKnows' /\ Destination(p)' = n
    BY <2>6, <2>7 DEF CertifierKnows, Destination
  <2>11. ~overlapped' => CertifierAlone'
    <3>1. ~overlapped => CertifierAlone
      BY DEF SkillsInv, Undisturbed
    <3>2. LastReport' = LastReport
      BY <1>2 DEF LastReport
    <3> QED
      BY <1>1, <1>2, <1>3, <1>5, <2>1, <2>6, <2>7, <3>1, <3>2 DEF CertifierAlone
  <2>12. SkillsInv'
    BY <1>0, <1>2, <1>3, <2>3, <2>5, <2>7, <2>8, <2>9, <2>10, <2>11, StepKeeps DEF Maintainers
  <2> QED
    BY <2>8, <2>12
<1>6. CASE file[n].state # "quarantine"
  <2>1. Goto(p, "idle") /\ Forget(p) /\ "idle" \in Places
    BY <1>1, <1>6 DEF PromoteLoads, Places
  <2>2. /\ at' \in [Programs -> Places] /\ at'[p] = "idle"
        /\ \A q \in Programs \ {p} : at'[q] = at[q]
    BY <1>0, <2>1, Moves
  <2>3. /\ target' \in [Programs -> Names \cup {Nowhere}] /\ draft' \in [Programs -> Skill]
        /\ \A q \in Programs \ {p} : target'[q] = target[q] /\ draft'[q] = draft[q]
    BY <1>0, <2>1, Forgets
  <2>4. Keeps(p) /\ Writes(p)
    BY <1>2, <2>2, <2>3 DEF Keeps, Writes
  <2>5. Types'
    BY <1>0, <1>2, <2>2, <2>3, TypesStay, TypesNow
  <2>6. ~Pending(p)' /\ CertifierKnows' /\ CertifierAlone'
    BY <2>2 DEF Pending, CertifierKnows, CertifierAlone
  <2>7. SkillsInv'
    BY <1>0, <1>2, <2>4, <2>5, <2>6, StepKeeps
  <2> QED
    BY <2>4, <2>7
<1> QED
  BY <1>5, <1>6

-----------------------------------------------------------------------------
(* The curator (Curator.Run).                                              *)

LEMMA ListKeeps ==
  ASSUME SkillsInv, CuratorLists
  PROVE  SkillsInv' /\ Keeps("curator") /\ Writes("curator")
<1> DEFINE p == "curator"
<1>0. Types /\ p \in Programs
  BY DEF SkillsInv, Programs
<1>1. /\ UNCHANGED <<file, scenarios, reports, target, draft, sources, pairs, edited>>
      /\ at[p] = "idle" /\ Starts /\ Goto(p, "curating")
      /\ listed' = [n \in Names |-> IF Stored(n) /\ Curatable(file[n]) THEN file[n].state ELSE "skip"]
  BY DEF CuratorLists, Begins, storeVars, mergeVars, ListWorks
<1>2. /\ at' \in [Programs -> Places] /\ at'[p] = "curating"
      /\ \A q \in Programs \ {p} : at'[q] = at[q]
  BY <1>0, <1>1, Moves DEF Places
<1>3. /\ commands' \in 0 .. MaxCommands /\ overlapped' \in BOOLEAN
      /\ overlapped' = (overlapped \/ Running # {})
  BY <1>0, <1>1, CommandStarts
<1>4. Keeps(p) /\ Writes(p)
  BY <1>1, <1>2, <1>3 DEF Keeps, Writes
<1>5. ASSUME NEW n \in Names
      PROVE  /\ listed'[n] \in {"skip", "quarantine", "active", "archived"}
             /\ listed'[n] # "skip" => ~file[n].pinned
  <2>1. file[n] \in Skill
    BY <1>0, TypesNow
  <2>2. file[n].state # "unreadable"
    BY DEF CuratorLists, ListWorks
  <2> QED
    BY <1>1, <2>1, <2>2 DEF Skill, Stored, Curatable
<1>6. listed' \in [Names -> {"skip", "quarantine", "active", "archived"}]
  BY <1>1, <1>5
<1>7. Types'
  BY <1>0, <1>1, <1>2, <1>3, <1>6, TypesStay, TypesNow
<1>8. ~Pending(p)' /\ CuratorKnows' /\ CuratorAlone'
  BY <1>1, <1>2, <1>5 DEF Pending, CuratorKnows, CuratorAlone, Stored
<1>9. SkillsInv'
  BY <1>0, <1>1, <1>4, <1>7, <1>8, StepKeeps
<1> QED
  BY <1>4, <1>9

\* A look at a listed skill, after which nothing is to be done.
LEMMA LookKeeps ==
  ASSUME SkillsInv, NEW n \in Names, Looked(n), at["curator"] = "curating",
         UNCHANGED <<storeVars, reports, at, target, draft, mergeVars, handVars, startVars>>
  PROVE  SkillsInv' /\ Keeps("curator") /\ Writes("curator")
<1> DEFINE p == "curator"
<1>0. Types /\ p \in Programs
  BY DEF SkillsInv, Programs
<1>1. /\ UNCHANGED <<file, scenarios, reports, at, target, draft, sources, pairs, edited>>
      /\ UNCHANGED <<overlapped, commands>>
      /\ listed' = [listed EXCEPT ![n] = "skip"]
  BY DEF Looked, storeVars, startVars, mergeVars, handVars
<1>2. Keeps(p) /\ Writes(p)
  BY <1>1 DEF Keeps, Writes
<1>3. /\ listed' \in [Names -> {"skip", "quarantine", "active", "archived"}]
      /\ \A m \in Names : listed'[m] \in {listed[m], "skip"}
  BY <1>0, <1>1, TypesNow
<1>4. Types'
  BY <1>0, <1>1, <1>3, TypesStay, TypesNow
<1>5. ~Pending(p)'
  BY <1>1 DEF Pending
<1>6. CuratorKnows'
  BY <1>1, <1>3 DEF SkillsInv, StoreInv, CuratorKnows, Stored
<1>7. ~overlapped' => CuratorAlone'
  BY <1>1, <1>3 DEF SkillsInv, Undisturbed, CuratorAlone
<1>8. SkillsInv'
  BY <1>0, <1>1, <1>2, <1>4, <1>5, <1>6, <1>7, StepKeeps
<1> QED
  BY <1>2, <1>8

\* A listed skill is about to be archived or demoted: it is an agent's.
LEMMA CuratorLoadKeeps ==
  ASSUME SkillsInv, NEW n \in Names, Looked(n), at["curator"] = "curating",
         listed[n] # "skip",
         NEW sk \in Skill, sk.author = file[n].author, sk.into = Nowhere,
         sk.state \in {"quarantine", "archived"},
         Goto("curator", "save"), BusyWith("curator", n, sk),
         UNCHANGED <<storeVars, reports, mergeVars, handVars, startVars>>
  PROVE  SkillsInv' /\ Keeps("curator") /\ Writes("curator")
<1> DEFINE p == "curator"
<1>0. Types /\ p \in Programs /\ n \in Names \cup {Nowhere}
  BY DEF SkillsInv, Programs
<1>1. /\ UNCHANGED <<file, scenarios, reports, sources, pairs, edited, overlapped, commands>>
      /\ listed' = [listed EXCEPT ![n] = "skip"]
  BY DEF Looked, storeVars, startVars, mergeVars, handVars
<1>2. /\ at' \in [Programs -> Places] /\ at'[p] = "save"
      /\ \A q \in Programs \ {p} : at'[q] = at[q]
  BY <1>0, Moves DEF Places
<1>3. /\ target' \in [Programs -> Names \cup {Nowhere}] /\ draft' \in [Programs -> Skill]
      /\ target'[p] = n /\ draft'[p] = sk
      /\ \A q \in Programs \ {p} : target'[q] = target[q] /\ draft'[q] = draft[q]
  BY <1>0, Takes
<1>4. Keeps(p) /\ Writes(p)
  BY <1>1, <1>2, <1>3 DEF Keeps, Writes
<1>5. /\ listed' \in [Names -> {"skip", "quarantine", "active", "archived"}]
      /\ \A m \in Names : listed'[m] \in {listed[m], "skip"}
      /\ listed'[n] = "skip"
  BY <1>0, <1>1, TypesNow
<1>6. Types'
  BY <1>0, <1>1, <1>2, <1>3, <1>5, TypesStay, TypesNow
<1>8. Fit(n, sk)
  BY DEF Fit, Evident
<1>9. CuratorKnows' /\ Destination(p)' = n
  BY <1>1, <1>2, <1>3, <1>5 DEF SkillsInv, StoreInv, CuratorKnows, Destination, Stored
<1>10. ~overlapped' => CuratorAlone'
  BY <1>1, <1>3, <1>5 DEF SkillsInv, Undisturbed, CuratorAlone
<1>11. SkillsInv'
  BY <1>0, <1>1, <1>3, <1>4, <1>6, <1>8, <1>9, <1>10, StepKeeps
<1> QED
  BY <1>4, <1>11

LEMMA CuratorKeepsInv ==
  ASSUME SkillsInv,
         \/ CuratorSaves \/ CuratorEnds
         \/ \E n \in Names : CuratorKeeps(n) \/ CuratorArchives(n) \/ CuratorDemotes(n)
  PROVE  SkillsInv' /\ Keeps("curator") /\ Writes("curator")
<1> DEFINE p == "curator"
<1>0. Types /\ p \in Programs /\ file \in [Names -> Skill]
  BY TypesNow DEF SkillsInv, Programs
<1>1. ASSUME NEW n \in Names, CuratorKeeps(n)
      PROVE  SkillsInv' /\ Keeps("curator") /\ Writes("curator")
  BY <1>1, LookKeeps DEF CuratorKeeps
<1>2. ASSUME NEW n \in Names, CuratorArchives(n)
      PROVE  SkillsInv' /\ Keeps("curator") /\ Writes("curator")
  <2>1. CASE file[n].state = "archived"
    BY <1>2, <2>1, LookKeeps DEF CuratorArchives
  <2>2. CASE file[n].state # "archived"
    <3>1. PICK sk : sk = Archived(file[n], Nowhere)
      OBVIOUS
    <3>2. Nowhere \in Names \cup {Nowhere} /\ file[n] \in Skill
      BY <1>0
    <3>3. sk \in Skill /\ sk.author = file[n].author /\ sk.into = Nowhere /\ sk.state = "archived"
      BY <3>1, <3>2, SkillForms, ZenonT(60)
    <3> QED
      BY <1>2, <2>2, <3>1, <3>3, CuratorLoadKeeps DEF CuratorArchives
  <2> QED
    BY <2>1, <2>2
<1>3. ASSUME NEW n \in Names, CuratorDemotes(n)
      PROVE  SkillsInv' /\ Keeps("curator") /\ Writes("curator")
  <2>1. PICK sk : sk = Demoted(file[n])
    OBVIOUS
  <2>2. sk \in Skill /\ sk.author = file[n].author /\ sk.into = Nowhere /\ sk.state = "quarantine"
    BY <1>0, <2>1, SkillForms
  <2> QED
    BY <1>3, <2>1, <2>2, CuratorLoadKeeps DEF CuratorDemotes
<1>4. CASE CuratorSaves
  <2>1. /\ UNCHANGED <<scenarios, reports, listed, sources, pairs, edited, overlapped, commands>>
        /\ at[p] = "save" /\ Goto(p, "curating") /\ Forget(p)
        /\ file' = [file EXCEPT ![target[p]] = draft[p]]
    BY <1>4 DEF CuratorSaves, Replaces, Renames, startVars, mergeVars
  <2>2. /\ at' \in [Programs -> Places] /\ at'[p] = "curating"
        /\ \A q \in Programs \ {p} : at'[q] = at[q]
    BY <1>0, <2>1, Moves DEF Places
  <2>3. /\ target' \in [Programs -> Names \cup {Nowhere}] /\ draft' \in [Programs -> Skill]
        /\ \A q \in Programs \ {p} : target'[q] = target[q] /\ draft'[q] = draft[q]
    BY <1>0, <2>1, Forgets
  <2>4. Keeps(p) /\ Writes(p)
    BY <2>1, <2>2, <2>3 DEF Keeps, Writes, Pending, Destination
  <2>5. file' \in [Names -> Skill]
    BY <1>0, <2>4, WritesFit
  <2>6. Types'
    BY <1>0, <2>1, <2>2, <2>3, <2>5, TypesStay, TypesNow
  <2>7. ~Pending(p)' /\ CuratorKnows'
    <3>1. \A n \in Names : Stored(n) => Stored(n)'
      BY <1>0, <2>4, WritesFit
    <3> QED
      BY <2>1, <2>2, <3>1 DEF Pending, SkillsInv, StoreInv, CuratorKnows
  <2>8. ~overlapped' => CuratorAlone'
    <3>1. \A n \in Names : listed[n] # "skip" => file'[n] = file[n]
      BY <1>0, <2>1 DEF SkillsInv, StoreInv, CuratorKnows
    <3> QED
      BY <2>1, <2>2, <3>1 DEF SkillsInv, Undisturbed, CuratorAlone
  <2>9. SkillsInv'
    BY <1>0, <2>1, <2>4, <2>6, <2>7, <2>8, StepKeeps
  <2> QED
    BY <2>4, <2>9
<1>5. CASE CuratorEnds
  <2>1. /\ UNCHANGED <<file, scenarios, reports, target, draft, listed, sources, pairs, edited>>
        /\ UNCHANGED <<overlapped, commands>>
        /\ at[p] = "curating" /\ Goto(p, "idle") /\ \A n \in Names : listed[n] = "skip"
    BY <1>5 DEF CuratorEnds, storeVars, startVars, mergeVars, handVars
  <2>2. /\ at' \in [Programs -> Places] /\ at'[p] = "idle"
        /\ \A q \in Programs \ {p} : at'[q] = at[q]
    BY <1>0, <2>1, Moves DEF Places
  <2>3. Keeps(p) /\ Writes(p)
    BY <2>1, <2>2 DEF Keeps, Writes
  <2>4. Types'
    BY <1>0, <2>1, <2>2, TypesStay, TypesNow
  <2>5. ~Pending(p)' /\ CuratorKnows' /\ CuratorAlone'
    BY <2>1, <2>2 DEF Pending, CuratorKnows, CuratorAlone
  <2>6. SkillsInv'
    BY <1>0, <2>1, <2>3, <2>4, <2>5, StepKeeps
  <2> QED
    BY <2>3, <2>6
<1> QED
  BY <1>1, <1>2, <1>3, <1>4, <1>5

-----------------------------------------------------------------------------
(* The consolidator (Consolidator.Run, applyMerge).                        *)

\* The pairs of some names hold nothing else.
LEMMA PairsOf ==
  ASSUME NEW names \in SUBSET Names
  PROVE  /\ Pairs(names) \subseteq SUBSET Names
         /\ \A pair \in Pairs(names) : \A n \in pair : n \in names
BY DEF Pairs

LEMMA PairsListedKeeps ==
  ASSUME SkillsInv, ConsolidatorLists
  PROVE  SkillsInv' /\ Keeps("consolidator") /\ Writes("consolidator")
<1> DEFINE p == "consolidator"
           active == {n \in Names : file[n].state = "active" /\ Curatable(file[n])}
<1>0. Types /\ p \in Programs
  BY DEF SkillsInv, Programs
<1>1. /\ UNCHANGED <<file, scenarios, reports, target, draft, listed, sources, edited>>
      /\ at[p] = "idle" /\ Starts /\ Goto(p, "pairing") /\ pairs' = Pairs(active)
  BY DEF ConsolidatorLists, Begins, storeVars
<1>2. /\ at' \in [Programs -> Places] /\ at'[p] = "pairing"
      /\ \A q \in Programs \ {p} : at'[q] = at[q]
  BY <1>0, <1>1, Moves DEF Places
<1>3. /\ commands' \in 0 .. MaxCommands /\ overlapped' \in BOOLEAN
      /\ overlapped' = (overlapped \/ Running # {})
  BY <1>0, <1>1, CommandStarts
<1>4. Keeps(p) /\ Writes(p)
  BY <1>1, <1>2, <1>3 DEF Keeps, Writes
<1>5. Types'
  BY <1>0, <1>1, <1>2, <1>3, TypesStay, TypesNow
<1>6. Len(sources) = 0
  BY <1>1 DEF SkillsInv, StoreInv, ConsolidatorKnows
<1>7. \A pair \in Pairs(active) : \A n \in pair : n \in Names /\ ~file[n].pinned
  BY PairsOf DEF Curatable
<1>8. ~Pending(p)' /\ ConsolidatorKnows' /\ ConsolidatorAlone'
  BY <1>1, <1>2, <1>6, <1>7 DEF Pending, ConsolidatorKnows, ConsolidatorAlone
<1>9. SkillsInv'
  BY <1>0, <1>1, <1>4, <1>5, <1>8, StepKeeps
<1> QED
  BY <1>4, <1>9

LEMMA PairKeeps ==
  ASSUME SkillsInv, NEW a \in Names, NEW b \in Names, PairTaken(a, b)
  PROVE  SkillsInv' /\ Keeps("consolidator") /\ Writes("consolidator")
<1> DEFINE p == "consolidator"
<1>0. Types /\ p \in Programs
  BY DEF SkillsInv, Programs
<1>1. /\ UNCHANGED <<file, scenarios, reports, target, draft, listed, edited, overlapped, commands>>
      /\ at[p] = "pairing" /\ Goto(p, "comparing") /\ sources' = <<a, b>>
      /\ {a, b} \in pairs /\ pairs' \subseteq pairs
  BY DEF PairTaken, storeVars, startVars, handVars
<1>2. /\ at' \in [Programs -> Places] /\ at'[p] = "comparing"
      /\ \A q \in Programs \ {p} : at'[q] = at[q]
  BY <1>0, <1>1, Moves DEF Places
<1>4. Keeps(p) /\ Writes(p)
  BY <1>1, <1>2 DEF Keeps, Writes
<1>5. /\ sources' \in Seq(Names) /\ Len(sources') = 2
      /\ \A i \in 1 .. Len(sources') : sources'[i] \in {a, b}
  BY <1>1
<1>6. Types'
  BY <1>0, <1>1, <1>2, <1>5, TypesStay, TypesNow
<1>7. ~overlapped' => ConsolidatorAlone'
  <2> SUFFICES ASSUME ~overlapped' PROVE ConsolidatorAlone'
    OBVIOUS
  <2>1. \A pair \in pairs : \A n \in pair : n \in Names /\ ~file[n].pinned
    BY <1>1 DEF SkillsInv, Undisturbed, ConsolidatorAlone
  <2>2. ~file[a].pinned /\ ~file[b].pinned
    BY <1>1, <2>1
  <2> QED
    BY <1>1, <1>2, <1>5, <2>1, <2>2 DEF ConsolidatorAlone
<1>8. ~Pending(p)' /\ ConsolidatorKnows'
  BY <1>2, <1>5 DEF Pending, ConsolidatorKnows
<1>9. SkillsInv'
  BY <1>0, <1>1, <1>4, <1>6, <1>7, <1>8, StepKeeps
<1> QED
  BY <1>4, <1>9

LEMMA NamedKeeps ==
  ASSUME SkillsInv, NEW m \in Names, MergeNamed(m)
  PROVE  SkillsInv' /\ Keeps("consolidator") /\ Writes("consolidator")
<1> DEFINE p == "consolidator"
<1>0. Types /\ p \in Programs /\ m \in Names \cup {Nowhere}
  BY DEF SkillsInv, Programs
<1>1. /\ UNCHANGED <<file, scenarios, reports, listed, sources, pairs, edited, overlapped, commands>>
      /\ at[p] = "comparing" /\ Goto(p, "carry") /\ BusyWith(p, m, New("merged"))
      /\ Loads(m) => m \in {sources[1], sources[2]}
  BY DEF MergeNamed, storeVars, startVars, handVars
<1>2. PICK sk : sk = New("merged")
  OBVIOUS
<1>3. sk \in Skill /\ sk.state = "quarantine" /\ sk.author = "agent" /\ sk.into = Nowhere /\ ~sk.pinned
  BY <1>2, NewForms DEF Bodies
<1>4. Len(sources) = 2
  BY <1>1 DEF SkillsInv, StoreInv, ConsolidatorKnows
<1>6. Fit(m, sk)
  BY <1>3 DEF Fit, Evident
<1>7. /\ at' \in [Programs -> Places] /\ at'[p] = "carry"
      /\ \A q \in Programs \ {p} : at'[q] = at[q]
  BY <1>0, <1>1, Moves DEF Places
<1>8. /\ target' \in [Programs -> Names \cup {Nowhere}] /\ draft' \in [Programs -> Skill]
      /\ target'[p] = m /\ draft'[p] = sk
      /\ \A q \in Programs \ {p} : target'[q] = target[q] /\ draft'[q] = draft[q]
  BY <1>0, <1>1, <1>2, <1>3, Takes
<1>9. Keeps(p) /\ Writes(p)
  BY <1>1, <1>7, <1>8 DEF Keeps, Writes
<1>10. Types'
  BY <1>0, <1>1, <1>7, <1>8, TypesStay, TypesNow
<1>11. ConsolidatorKnows' /\ Destination(p)' = m
  BY <1>1, <1>4, <1>7, <1>8 DEF SkillsInv, StoreInv, ConsolidatorKnows, Destination, Stored
<1>12. ~overlapped' => ConsolidatorAlone'
  <2> SUFFICES ASSUME ~overlapped' PROVE ConsolidatorAlone'
    OBVIOUS
  <2>1. \A i \in 1 .. Len(sources) : ~file[sources[i]].pinned
    BY <1>1 DEF SkillsInv, Undisturbed, ConsolidatorAlone
  <2>2. ~file[m].pinned
    <3>1. ~Loads(m) => ~file[m].pinned
      BY DEF SkillsInv, StoreInv, FilesFit, Fit, Loads, Stored
    <3> QED
      BY <1>1, <1>4, <2>1, <3>1
  <2>3. \A pair \in pairs : \A n \in pair : n \in Names /\ ~file[n].pinned
    BY <1>1 DEF SkillsInv, Undisturbed, ConsolidatorAlone
  <2> QED
    BY <1>1, <1>3, <1>7, <1>8, <2>1, <2>2, <2>3 DEF ConsolidatorAlone
<1>13. SkillsInv'
  BY <1>0, <1>1, <1>3, <1>6, <1>8, <1>9, <1>10, <1>11, <1>12, StepKeeps
<1> QED
  BY <1>9, <1>13

\* The scenarios of the sources are read, and copied.
LEMMA CarryKeeps ==
  ASSUME SkillsInv, MergeReads \/ \E n, s \in Names : MergeCarries(n, s)
  PROVE  SkillsInv' /\ Keeps("consolidator") /\ Writes("consolidator")
<1> DEFINE p == "consolidator"
<1>0. Types /\ p \in Programs
  BY DEF SkillsInv, Programs
<1>1. /\ UNCHANGED <<file, reports, at, target, draft, listed, sources, pairs, edited>>
      /\ UNCHANGED <<overlapped, commands>> /\ at[p] = "carry"
      /\ \/ scenarios' = scenarios
         \/ \E s \in Names : scenarios' = [scenarios EXCEPT ![target[p]] = @ \cup {s}]
  BY DEF MergeReads, MergeCarries, storeVars, startVars, handVars
<1>2. PICK n, sk : n = target[p] /\ sk = draft[p]
  OBVIOUS
<1>3. n \in Names /\ sk \in Skill /\ Fit(n, sk) /\ sk.state \notin {"unreadable", "active"}
  <2>1. Pending(p) /\ Destination(p) = n
    BY <1>1, <1>2 DEF Pending, Destination
  <2> QED
    BY <1>0, <1>2, <2>1, TypesNow DEF SkillsInv, StoreInv, DraftsFit, Maintainers
<1>4. Keeps(p) /\ Writes(p)
  BY <1>1 DEF Keeps, Writes
<1>5. scenarios' \in [Names -> SUBSET Names]
  BY <1>0, <1>1, <1>2, <1>3, TypesNow
<1>6. Types'
  BY <1>0, <1>1, <1>5, TypesStay, TypesNow
<1>7. ConsolidatorKnows' /\ Destination(p)' = n /\ draft'[p] = sk
  BY <1>1, <1>2 DEF SkillsInv, StoreInv, ConsolidatorKnows, Destination, Stored
<1>8. ~overlapped' => ConsolidatorAlone'
  BY <1>1 DEF SkillsInv, Undisturbed, ConsolidatorAlone
<1>9. SkillsInv'
  BY <1>0, <1>1, <1>3, <1>4, <1>6, <1>7, <1>8, StepKeeps
<1> QED
  BY <1>4, <1>9

\* The merged skill is in its place before any source is archived.
LEMMA PlacedKeeps ==
  ASSUME SkillsInv, MergePlaced
  PROVE  SkillsInv' /\ Keeps("consolidator") /\ Writes("consolidator")
<1> DEFINE p == "consolidator"
<1>0. Types /\ p \in Programs
  BY DEF SkillsInv, Programs
<1>1. /\ UNCHANGED <<scenarios, reports, target, draft, listed, sources, pairs, edited>>
      /\ UNCHANGED <<overlapped, commands>>
      /\ at[p] = "carry" /\ Goto(p, "retire") /\ file' = [file EXCEPT ![target[p]] = draft[p]]
  BY DEF MergePlaced, Renames, startVars, mergeVars
<1>2. /\ at' \in [Programs -> Places] /\ at'[p] = "retire"
      /\ \A q \in Programs \ {p} : at'[q] = at[q]
  BY <1>0, <1>1, Moves DEF Places
<1>3. Keeps(p) /\ Writes(p)
  BY <1>1, <1>2 DEF Keeps, Writes, Pending, Destination
<1>4. file' \in [Names -> Skill] /\ file \in [Names -> Skill] /\ draft[p] \in Skill
  BY <1>0, <1>3, WritesFit, TypesNow
<1>5. Types'
  BY <1>0, <1>1, <1>2, <1>4, TypesStay, TypesNow
<1>6. target[p] \in Names /\ draft[p].state # "absent"
  BY <1>0, <1>1 DEF Pending, Destination, SkillsInv, StoreInv, DraftsFit, Fit
<1>7. ~Pending(p)' /\ ConsolidatorKnows'
  <2>1. Stored(target[p])'
    BY <1>1, <1>4, <1>6 DEF Stored
  <2> QED
    BY <1>1, <1>2, <1>6, <2>1 DEF Pending, SkillsInv, StoreInv, ConsolidatorKnows, Stored
<1>8. ~overlapped' => ConsolidatorAlone'
  <2> SUFFICES ASSUME ~overlapped' PROVE ConsolidatorAlone'
    OBVIOUS
  <2>1. /\ ~draft[p].pinned /\ \A i \in 1 .. Len(sources) : ~file[sources[i]].pinned
        /\ \A pair \in pairs : \A n \in pair : n \in Names /\ ~file[n].pinned
    BY <1>1 DEF SkillsInv, Undisturbed, ConsolidatorAlone
  <2>2. \A n \in Names : file'[n] \in {file[n], draft[p]}
    BY <1>1, <1>4
  <2>3. \A i \in 1 .. Len(sources) : sources[i] \in Names
    BY <1>0, TypesNow
  <2>4. /\ \A i \in 1 .. Len(sources) : ~file'[sources[i]].pinned
        /\ \A pair \in pairs : \A n \in pair : n \in Names /\ ~file'[n].pinned
    BY <2>1, <2>2, <2>3
  <2> QED
    BY <1>1, <1>2, <2>4 DEF ConsolidatorAlone
<1>9. SkillsInv'
  BY <1>0, <1>1, <1>3, <1>5, <1>7, <1>8, StepKeeps
<1> QED
  BY <1>3, <1>9

\* The sources that are left, once the first is dealt with.
LEMMA SourcesLeft ==
  ASSUME NEW s \in Seq(Names), s # <<>>, Len(s) <= 2
  PROVE  /\ Tail(s) \in Seq(Names) /\ Len(Tail(s)) <= 2 /\ Head(s) = s[1] /\ Head(s) \in Names
         /\ Len(s) > 0
         /\ \A i \in 1 .. Len(Tail(s)) : \E k \in 1 .. Len(s) : Tail(s)[i] = s[k]
<1>1. PICK n \in Nat : Len(s) = n
  OBVIOUS
<1>2. n > 0 /\ Len(Tail(s)) = n - 1 /\ Tail(s) \in Seq(Names) /\ Head(s) = s[1]
      /\ \A i \in 1 .. n - 1 : Tail(s)[i] = s[i + 1]
  BY <1>1
<1>3. ASSUME NEW i \in 1 .. Len(Tail(s)) PROVE \E k \in 1 .. Len(s) : Tail(s)[i] = s[k]
  <2>1. i \in 1 .. n - 1 /\ i + 1 \in 1 .. n
    BY <1>2, <1>3
  <2> QED
    BY <1>1, <1>2, <2>1
<1> QED
  BY <1>1, <1>2, <1>3

LEMMA SourceKeeps ==
  ASSUME SkillsInv, SourceLoads \/ SourceSaved
  PROVE  SkillsInv' /\ Keeps("consolidator") /\ Writes("consolidator")
<1> DEFINE p == "consolidator"
           m == target[p]
           n == Head(sources)
<1>0. Types /\ p \in Programs /\ file \in [Names -> Skill] /\ sources \in Seq(Names)
  BY TypesNow DEF SkillsInv, Programs
<1>1. sources # <<>> /\ Len(sources) <= 2
  BY <1>0, TypesNow DEF SourceLoads, SourceSaved, SkillsInv, StoreInv, ConsolidatorKnows
<1>2. /\ Tail(sources) \in Seq(Names) /\ Len(Tail(sources)) <= 2 /\ n = sources[1] /\ n \in Names
      /\ Len(sources) > 0 /\ 1 \in 1 .. Len(sources)
      /\ \A i \in 1 .. Len(Tail(sources)) : \E k \in 1 .. Len(sources) : Tail(sources)[i] = sources[k]
  BY <1>0, <1>1, SourcesLeft
<1>3. \A i \in 1 .. Len(Tail(sources)) : Tail(sources)[i] \in Names
  BY <1>0, <1>2
<1>4. m \in Names /\ Stored(m)
  BY DEF SourceLoads, SourceSaved, SkillsInv, StoreInv, ConsolidatorKnows
<1>5. CASE SourceLoads /\ sources' = Tail(sources)
  <2>1. /\ UNCHANGED <<file, scenarios, reports, at, target, draft, listed, pairs, edited>>
        /\ UNCHANGED <<overlapped, commands>> /\ at[p] = "retire"
    <3>1. sources # Tail(sources)
      <4>1. PICK k \in Nat : Len(sources) = k
        BY <1>0
      <4> QED
        BY <1>0, <1>1, <4>1
    <3> QED
      BY <1>5, <3>1 DEF SourceLoads, storeVars, startVars, handVars
  <2>2. Keeps(p) /\ Writes(p)
    BY <2>1 DEF Keeps, Writes
  <2>3. Types'
    BY <1>0, <1>2, <1>5, <2>1, TypesStay, TypesNow
  <2>4. ~Pending(p)' /\ ConsolidatorKnows'
    BY <1>3, <1>4, <1>5, <2>1 DEF Pending, ConsolidatorKnows, Stored
  <2>5. ~overlapped' => ConsolidatorAlone'
    BY <1>2, <1>5, <2>1 DEF SkillsInv, Undisturbed, ConsolidatorAlone
  <2>6. SkillsInv'
    BY <1>0, <2>1, <2>2, <2>3, <2>4, <2>5, StepKeeps
  <2> QED
    BY <2>2, <2>6
<1>6. CASE SourceLoads /\ sources' # Tail(sources)
  <2>1. PICK sk : sk = Archived(file[n], m)
    OBVIOUS
  <2>2. /\ UNCHANGED <<file, scenarios, reports, target, listed, sources, pairs, edited>>
        /\ UNCHANGED <<overlapped, commands>>
        /\ at[p] = "retire" /\ Goto(p, "save") /\ draft' = [draft EXCEPT ![p] = sk]
        /\ n # m /\ ~file[n].pinned
    BY <1>6, <2>1 DEF SourceLoads, storeVars, startVars, handVars
  <2>3. /\ sk \in Skill /\ sk.state = "archived" /\ sk.author = file[n].author /\ sk.into = m
        /\ sk.pinned = file[n].pinned
    <3>1. m \in Names \cup {Nowhere} /\ file[n] \in Skill
      BY <1>0, <1>2, <1>4
    <3> QED
      BY <2>1, <3>1, SkillForms, ZenonT(60)
  <2>4. Fit(n, sk)
    BY <1>4, <2>3 DEF Fit, Evident
  <2>5. /\ at' \in [Programs -> Places] /\ at'[p] = "save"
        /\ \A q \in Programs \ {p} : at'[q] = at[q]
    BY <1>0, <2>2, Moves DEF Places
  <2>6. /\ draft' \in [Programs -> Skill] /\ draft'[p] = sk
        /\ \A q \in Programs \ {p} : draft'[q] = draft[q]
    BY <1>0, <2>2, <2>3, TypesNow
  <2>7. Keeps(p) /\ Writes(p)
    BY <2>2, <2>5, <2>6 DEF Keeps, Writes
  <2>8. Types'
    BY <1>0, <2>2, <2>5, <2>6, TypesStay, TypesNow
  <2>9. ConsolidatorKnows' /\ Destination(p)' = n
    BY <1>1, <1>4, <2>2, <2>5 DEF SkillsInv, StoreInv, ConsolidatorKnows, Destination, Stored
  <2>10. ~overlapped' => ConsolidatorAlone'
    BY <2>2, <2>3, <2>5, <2>6 DEF SkillsInv, Undisturbed, ConsolidatorAlone
  <2>11. SkillsInv'
    BY <1>0, <1>2, <2>2, <2>3, <2>4, <2>6, <2>7, <2>8, <2>9, <2>10, StepKeeps
  <2> QED
    BY <2>7, <2>11
<1>7. CASE SourceSaved
  <2>1. /\ UNCHANGED <<scenarios, reports, target, draft, listed, pairs, edited, overlapped, commands>>
        /\ at[p] = "save" /\ Goto(p, "retire") /\ sources' = Tail(sources)
        /\ file' = [file EXCEPT ![n] = draft[p]]
    BY <1>7 DEF SourceSaved, Renames, startVars
  <2>2. /\ at' \in [Programs -> Places] /\ at'[p] = "retire"
        /\ \A q \in Programs \ {p} : at'[q] = at[q]
    BY <1>0, <2>1, Moves DEF Places
  <2>3. Keeps(p) /\ Writes(p)
    BY <2>1, <2>2 DEF Keeps, Writes, Pending, Destination
  <2>4. file' \in [Names -> Skill] /\ \A k \in Names : Stored(k) => Stored(k)'
    BY <1>0, <2>3, WritesFit
  <2>5. Types'
    BY <1>0, <1>2, <2>1, <2>2, <2>4, TypesStay, TypesNow
  <2>6. ~Pending(p)' /\ ConsolidatorKnows'
    BY <1>3, <1>4, <2>1, <2>2, <2>4 DEF Pending, ConsolidatorKnows, Stored
  <2>7. ~overlapped' => ConsolidatorAlone'
    <3> SUFFICES ASSUME ~overlapped' PROVE ConsolidatorAlone'
      OBVIOUS
    <3>1. /\ ~draft[p].pinned /\ \A i \in 1 .. Len(sources) : ~file[sources[i]].pinned
          /\ \A pair \in pairs : \A k \in pair : k \in Names /\ ~file[k].pinned
      BY <2>1 DEF SkillsInv, Undisturbed, ConsolidatorAlone
    <3>2. \A k \in Names : file'[k] \in {file[k], draft[p]}
      BY <1>0, <2>1
    <3>3. \A i \in 1 .. Len(sources) : sources[i] \in Names
      BY <1>0
    <3>4. \A i \in 1 .. Len(sources') : ~file'[sources'[i]].pinned
      BY <1>2, <2>1, <3>1, <3>2, <3>3
    <3>5. \A pair \in pairs' : \A k \in pair : k \in Names /\ ~file'[k].pinned
      BY <2>1, <3>1, <3>2
    <3> QED
      BY <2>2, <3>4, <3>5 DEF ConsolidatorAlone
  <2>8. SkillsInv'
    BY <1>0, <2>1, <2>3, <2>5, <2>6, <2>7, StepKeeps
  <2> QED
    BY <2>3, <2>8
<1> QED
  BY <1>5, <1>6, <1>7

\* The pair, or all of them, are dealt with.
LEMMA MergeEndKeeps ==
  ASSUME SkillsInv, MergeEnds \/ ConsolidatorEnds
  PROVE  SkillsInv' /\ Keeps("consolidator") /\ Writes("consolidator")
<1> DEFINE p == "consolidator"
<1>0. Types /\ p \in Programs
  BY DEF SkillsInv, Programs
<1>1. /\ UNCHANGED <<file, scenarios, reports, listed, edited, overlapped, commands>> /\ at[p] # "idle"
      /\ pairs' \subseteq pairs
  BY DEF MergeEnds, ConsolidatorEnds, storeVars, startVars, handVars, Places
<1>2. /\ target' \in [Programs -> Names \cup {Nowhere}] /\ draft' \in [Programs -> Skill]
      /\ \A q \in Programs \ {p} : target'[q] = target[q] /\ draft'[q] = draft[q]
  BY <1>0, Forgets, TypesNow DEF MergeEnds, ConsolidatorEnds
<1>3. PICK place \in {"idle", "pairing"} : Goto(p, place)
  BY DEF MergeEnds, ConsolidatorEnds
<1>4. /\ at' \in [Programs -> Places] /\ at'[p] = place
      /\ \A q \in Programs \ {p} : at'[q] = at[q]
  BY <1>0, <1>3, Moves DEF Places
<1>5. sources' \in Seq(Names) /\ Len(sources') = 0
  <2>1. <<>> \in Seq(Names) /\ Len(<<>>) = 0
    OBVIOUS
  <2>2. CASE MergeEnds
    BY <2>1, <2>2 DEF MergeEnds, PairIsDone
  <2>3. CASE ConsolidatorEnds
    BY <1>0, <2>3, TypesNow DEF ConsolidatorEnds, SkillsInv, StoreInv, ConsolidatorKnows
  <2> QED
    BY <2>2, <2>3
<1>6. Keeps(p) /\ Writes(p)
  BY <1>1, <1>2, <1>4 DEF Keeps, Writes
<1>7. Types'
  BY <1>0, <1>1, <1>2, <1>4, <1>5, TypesStay, TypesNow
<1>8. ~Pending(p)' /\ ConsolidatorKnows'
  BY <1>4, <1>5 DEF Pending, ConsolidatorKnows
<1>9. ~overlapped' => ConsolidatorAlone'
  BY <1>1, <1>4, <1>5 DEF SkillsInv, Undisturbed, ConsolidatorAlone
<1>10. SkillsInv'
  BY <1>0, <1>1, <1>6, <1>7, <1>8, <1>9, StepKeeps
<1> QED
  BY <1>6, <1>10

-----------------------------------------------------------------------------
(* The steps together.                                                     *)

LEMMA ProgramKeeps ==
  ASSUME SkillsInv, NEW p \in Programs, Step(p)
  PROVE  SkillsInv' /\ Keeps(p) /\ Writes(p)
<1>1. CASE Stops(p) \/ Saves(p)
  BY <1>1, StopKeeps, SaveKeeps
<1>2. CASE p = "operator" /\ \E n \in Names : OperatorLoads(n)
  BY <1>2, OperatorKeeps
<1>3. CASE /\ p = "certifier"
           /\ \/ \E n \in Names : EvaluationBegins(n)
              \/ \E passed \in BOOLEAN : EvaluationEnds(passed)
              \/ PromoteLoads
  BY <1>3, EvaluationBeginsKeeps, EvaluationEndsKeeps, PromoteKeeps
<1>4. CASE /\ p = "curator"
           /\ \/ CuratorLists \/ CuratorSaves \/ CuratorEnds
              \/ \E n \in Names : CuratorKeeps(n) \/ CuratorArchives(n) \/ CuratorDemotes(n)
  BY <1>4, ListKeeps, CuratorKeepsInv
<1>5. CASE /\ p = "consolidator"
           /\ \/ ConsolidatorLists \/ ConsolidatorEnds
              \/ \E a, b \in Names : PairTaken(a, b)
              \/ \E n \in Names : MergeNamed(n)
              \/ MergeReads
              \/ \E n, s \in Names : MergeCarries(n, s)
              \/ MergePlaced \/ SourceLoads \/ SourceSaved \/ MergeEnds
  BY <1>5, PairsListedKeeps, PairKeeps, NamedKeeps, CarryKeeps, PlacedKeeps, SourceKeeps, MergeEndKeeps
<1>6. CASE p = "reviewer" /\ \E n \in Names : DraftLoads(n)
  BY <1>6, ReviewerKeeps
<1> QED
  BY <1>1, <1>2, <1>3, <1>4, <1>5, <1>6 DEF Step

\* What is done to the store at once: scenarios come and go, a file is edited.
AtOnce ==
  \E n \in Names : \/ ScenarioAdded(n)
                   \/ \E s \in Names : ScenarioRemoved(n, s)
                   \/ HandEdit(n) \/ HandWrites(n)

\* A command that is done at once leaves nothing to disturb, if it disturbs nothing.
LEMMA AtOnceAlone ==
  ASSUME SkillsInv, CuratorKnows', UNCHANGED localVars, overlapped' = (overlapped \/ Running # {})
  PROVE  ~overlapped' => Undisturbed'
<1> SUFFICES ASSUME ~overlapped' PROVE Undisturbed'
  OBVIOUS
<1>1. Running = {}
  BY Zenon
<1>2. \A q \in Programs : at'[q] = "idle"
  BY <1>1 DEF Running, localVars
<1>3. /\ at'["operator"] = "idle" /\ at'["certifier"] = "idle" /\ at'["curator"] = "idle"
      /\ at'["consolidator"] = "idle" /\ at'["reviewer"] = "idle"
  BY <1>2 DEF Programs
<1> QED
  BY <1>2, <1>3 DEF Undisturbed, OperatorAlone, CertifierAlone, CuratorAlone, ConsolidatorAlone,
     ReviewerAlone, CuratorKnows

LEMMA AtOnceKeeps ==
  ASSUME SkillsInv, AtOnce
  PROVE  /\ SkillsInv'
         /\ \A n \in Names : file'[n] # file[n] => n \in edited' \ edited
<1>0. Types
  BY DEF SkillsInv
<1>1. /\ UNCHANGED <<reports, localVars>>
      /\ UNCHANGED <<reports, at, target, draft, listed, sources, pairs>> /\ Starts
  BY DEF AtOnce, ScenarioAdded, ScenarioRemoved, HandEdit, HandWrites, localVars, mergeVars
<1>2. /\ commands' \in 0 .. MaxCommands /\ overlapped' \in BOOLEAN
      /\ overlapped' = (overlapped \/ Running # {})
  BY <1>0, <1>1, CommandStarts
<1>3. scenarios' \in [Names -> SUBSET Names]
  <2>1. scenarios \in [Names -> SUBSET Names]
    BY <1>0, TypesNow
  <2>2. \/ UNCHANGED scenarios
        \/ \E n \in Names, s \in Names : scenarios' \in {[scenarios EXCEPT ![n] = @ \cup {s}],
                                                         [scenarios EXCEPT ![n] = @ \ {s}]}
    BY DEF AtOnce, ScenarioAdded, ScenarioRemoved, HandEdit, HandWrites
  <2>3. ASSUME NEW n \in Names, NEW s \in Names
        PROVE  /\ [scenarios EXCEPT ![n] = @ \cup {s}] \in [Names -> SUBSET Names]
               /\ [scenarios EXCEPT ![n] = @ \ {s}] \in [Names -> SUBSET Names]
    BY <2>1
  <2> QED
    BY <2>1, <2>2, <2>3
<1>4. CASE UNCHANGED <<file, edited>>
  <2>1. Types'
    BY <1>0, <1>1, <1>2, <1>3, <1>4, TypesStay, TypesNow
  <2>2. StoreInv'
    <3>1. FilesFit'
      BY <1>1, <1>4 DEF SkillsInv, StoreInv, FilesFit, Fit, Evident, Stored
    <3>2. DraftsFit'
      BY <1>1, <1>4 DEF SkillsInv, StoreInv, DraftsFit, Fit, Evident, Stored, Pending, Destination
    <3>3. CertifierKnows' /\ CuratorKnows' /\ ConsolidatorKnows'
      BY <1>1, <1>4 DEF SkillsInv, StoreInv, CertifierKnows, CuratorKnows, ConsolidatorKnows,
         LastReport, Stored
    <3> QED
      BY <3>1, <3>2, <3>3 DEF StoreInv
  <2>3. ~overlapped' => Undisturbed'
    BY <1>1, <1>2, <2>2, AtOnceAlone DEF StoreInv
  <2> QED
    BY <1>4, <2>1, <2>2, <2>3 DEF SkillsInv
<1>5. ASSUME NEW e \in Names, HandEdit(e) \/ HandWrites(e)
      PROVE  SkillsInv' /\ \A n \in Names : file'[n] # file[n] => n \in edited' \ edited
  <2>1. PICK sk : \/ HandEdit(e) /\ sk = [file[e] EXCEPT !.state = "active", !.promotedBy = NoEvidence]
                  \/ HandWrites(e) /\ sk \in Handmade /\ file' = [file EXCEPT ![e] = sk]
    BY <1>5 DEF HandWrites
  <2>2. /\ file' = [file EXCEPT ![e] = sk] /\ edited' = edited \cup {e} /\ e \notin edited
        /\ file \in [Names -> Skill]
    BY <1>0, <2>1, TypesNow DEF HandEdit, HandWrites
  <2>3. /\ sk \in Skill /\ sk.state \in {"active", "unreadable"}
        /\ sk.state = "unreadable" => ~sk.pinned
        /\ sk.author = "agent" => sk.promotedBy = NoEvidence
        /\ sk.into = Nowhere \/ (Stored(e) /\ sk.into = file[e].into)
    <3>1. file[e] \in Skill
      BY <2>2
    <3>2. CASE HandEdit(e) /\ sk = [file[e] EXCEPT !.state = "active", !.promotedBy = NoEvidence]
      BY <3>1, <3>2 DEF Skill, NoEvidence, HandEdit, Loads, Stored
    <3>3. CASE sk \in Handmade
      BY <3>3, NewForms DEF Handmade, Skill
    <3> QED
      BY <2>1, <3>2, <3>3
  <2>4. file' \in [Names -> Skill] /\ edited' \subseteq Names
    BY <1>0, <2>2, <2>3, TypesNow
  <2>5. Types'
    BY <1>0, <1>1, <1>2, <1>3, <2>4, TypesStay, TypesNow
  <2>6. /\ \A n \in Names : Stored(n) => Stored(n)'
        /\ \A n \in Names : n # e => file'[n] = file[n]
        /\ file'[e] = sk
    BY <2>2, <2>3 DEF Stored
  <2>7. ASSUME NEW n \in Names, NEW s \in Skill, Fit(n, s) PROVE Fit(n, s)'
    BY <1>0, <1>1, <2>2, <2>6, <2>7, FitGoesOn
  <2>8. FilesFit'
    <3> SUFFICES ASSUME NEW n \in Names
                 PROVE  IF Stored(n)' THEN Fit(n, file[n])'
                        ELSE ~file'[n].pinned /\ file'[n].author = "agent" /\ file'[n].into = Nowhere
      BY DEF FilesFit
    <3>1. CASE n = e
      <4>1. sk.into # Nowhere => Stored(sk.into)'
        <5>1. Stored(e) => Fit(e, file[e])
          BY DEF SkillsInv, StoreInv, FilesFit
        <5>2. sk.into # Nowhere => sk.into \in Names /\ Stored(sk.into)
          BY <2>3, <5>1 DEF Fit, Skill
        <5> QED
          BY <2>6, <5>2
      <4>2. Evident(e, sk)'
        BY <2>2, <2>3 DEF Evident
      <4>3. Fit(e, sk)'
        BY <2>3, <4>1, <4>2 DEF Fit
      <4>4. Fit(e, file[e])' /\ Stored(e)'
        BY <2>3, <2>6, <4>3 DEF Stored
      <4> QED
        BY <3>1, <4>4
    <3>2. CASE n # e
      <4>1. file'[n] = file[n] /\ (Stored(n)' <=> Stored(n))
        BY <2>6, <3>2 DEF Stored
      <4>2. Stored(n) => Fit(n, file[n])'
        <5>1. PICK s : s = file[n]
          OBVIOUS
        <5>2. Stored(n) => s \in Skill /\ Fit(n, s)
          BY <2>2, <5>1 DEF SkillsInv, StoreInv, FilesFit
        <5>3. Stored(n) => Fit(n, s)'
          BY <2>7, <5>2
        <5> QED
          BY <4>1, <5>1, <5>3
      <4> QED
        BY <4>1, <4>2 DEF SkillsInv, StoreInv, FilesFit
    <3> QED
      BY <3>1, <3>2
  <2>9. DraftsFit'
    <3> SUFFICES ASSUME NEW q \in Programs, Pending(q)'
                 PROVE  /\ Destination(q)' \in Names /\ Fit(Destination(q), draft[q])'
                        /\ draft'[q].state # "unreadable"
                        /\ q \in Maintainers => draft'[q].state # "active"
      BY DEF DraftsFit
    <3>1. Pending(q) /\ Destination(q)' = Destination(q) /\ draft'[q] = draft[q]
      BY <1>1 DEF Pending, Destination
    <3>2. PICK n, s : n = Destination(q) /\ s = draft[q]
      OBVIOUS
    <3>3. n \in Names /\ s \in Skill /\ Fit(n, s) /\ s.state # "unreadable"
          /\ (q \in Maintainers => s.state # "active")
      BY <1>0, <3>1, <3>2, TypesNow DEF SkillsInv, StoreInv, DraftsFit
    <3>4. Fit(n, s)'
      BY <2>7, <3>3
    <3> QED
      BY <3>1, <3>2, <3>3, <3>4
  <2>10. CertifierKnows' /\ CuratorKnows'
    BY <1>1, <2>6 DEF SkillsInv, StoreInv, CertifierKnows, CuratorKnows, LastReport
  <2>11. ConsolidatorKnows'
    <3>3. at["consolidator"] \in {"save", "retire"} =>
            target["consolidator"] \in Names /\ Stored(target["consolidator"])'
      BY <1>1, <2>6 DEF SkillsInv, StoreInv, ConsolidatorKnows, Stored
    <3> QED
      BY <1>1, <3>3 DEF SkillsInv, StoreInv, ConsolidatorKnows
  <2>12. ~overlapped' => Undisturbed'
    BY <1>1, <1>2, <2>10, AtOnceAlone
  <2> QED
    BY <2>2, <2>5, <2>6, <2>8, <2>9, <2>10, <2>11, <2>12 DEF SkillsInv, StoreInv
<1>6. UNCHANGED <<file, edited>> \/ \E e \in Names : HandEdit(e) \/ HandWrites(e)
  BY DEF AtOnce, ScenarioAdded, ScenarioRemoved, handVars
<1> QED
  BY <1>4, <1>5, <1>6

LEMMA SkillsGoOn == SkillsInv /\ [Next]_vars => SkillsInv'
<1> SUFFICES ASSUME SkillsInv, [Next]_vars PROVE SkillsInv'
  OBVIOUS
<1>1. CASE \E p \in Programs : Step(p)
  BY <1>1, ProgramKeeps
<1>2. CASE AtOnce
  BY <1>2, AtOnceKeeps
<1>3. CASE UNCHANGED vars
  <2>1. UNCHANGED <<file, scenarios, reports, at, target, draft, listed, sources, pairs, edited, overlapped, commands>>
    BY <1>3 DEF vars, storeVars, localVars, startVars, mergeVars, handVars
  <2>2. Types'
    BY <2>1 DEF SkillsInv, Types
  <2>3. StoreInv'
    BY <2>1 DEF SkillsInv, StoreInv, FilesFit, DraftsFit, Fit, Evident, Stored, Pending, Destination,
       CertifierKnows, CuratorKnows, ConsolidatorKnows, LastReport
  <2>4. ~overlapped' => Undisturbed'
    BY <2>1 DEF SkillsInv, Undisturbed, OperatorAlone, CertifierAlone, CuratorAlone,
       ConsolidatorAlone, ReviewerAlone, LastReport, Loads
  <2> QED
    BY <2>2, <2>3, <2>4 DEF SkillsInv
<1> QED
  BY <1>1, <1>2, <1>3 DEF Next, AtOnce

LEMMA SkillsKept == Spec => []SkillsInv
BY SkillsBegin, SkillsGoOn, PTL DEF Spec

-----------------------------------------------------------------------------
(* What the maintainers know of the skills they are busy with.             *)

\* A skill that is an agent's as far as p can know.
Mine(p, n) == file[n].author = "agent" \/ n \in unaware[p]

CuratorAware ==
  /\ \A n \in Names : listed[n] # "skip" => Mine("curator", n)
  /\ at["curator"] = "save" => Mine("curator", target["curator"])

ConsolidatorAware ==
  /\ \A pair \in pairs : \A n \in pair : Mine("consolidator", n)
  /\ \A i \in 1 .. Len(sources) : Mine("consolidator", sources[i])
  /\ at["consolidator"] = "carry" => Mine("consolidator", target["consolidator"])
  /\ at["consolidator"] # "idle" =>
       \A n \in Names : file[n].state = "unreadable" => n \in unaware["consolidator"]

ReviewerAware == at["reviewer"] = "save" => Mine("reviewer", target["reviewer"])

AwareInv == MoreTypes /\ CuratorAware /\ ConsolidatorAware /\ ReviewerAware

\* What a step writes down of what is not known.
Notes(p) ==
  \/ UNCHANGED <<file, unaware>>
  \/ \E n \in Names : Pending(p) /\ n = Destination(p) /\ Renames(p, n)
  \/ at[p] = "idle" /\ p \in Maintainers /\ UNCHANGED file /\ \E u \in SUBSET Names : Looks(p, u)

LEMMA StepNotes ==
  ASSUME SkillsInv, NEW p \in Programs, Step(p)
  PROVE  Notes(p)
<1>1. ASSUME Pending(p) PROVE Destination(p) \in Names
  BY <1>1 DEF SkillsInv, StoreInv, DraftsFit
<1>2. CASE Stops(p)
  BY <1>2 DEF Stops, Notes, storeVars, handVars
<1>3. CASE Saves(p)
  BY <1>1, <1>3 DEF Saves, Replaces, Notes, Pending, Destination
<1>4. CASE p = "operator" /\ \E n \in Names : OperatorLoads(n)
  BY <1>4 DEF OperatorLoads, Notes, storeVars, handVars
<1>5. CASE /\ p = "certifier"
           /\ \/ \E n \in Names : EvaluationBegins(n)
              \/ \E passed \in BOOLEAN : EvaluationEnds(passed)
              \/ PromoteLoads
  BY <1>5 DEF EvaluationBegins, EvaluationEnds, PromoteLoads, Notes, storeVars, handVars
<1>6. CASE p = "curator" /\ CuratorLists
  BY <1>6 DEF CuratorLists, Begins, Notes, Maintainers, storeVars
<1>7. CASE p = "curator" /\ CuratorSaves
  BY <1>1, <1>7 DEF CuratorSaves, Replaces, Notes, Pending, Destination
<1>8. CASE /\ p = "curator"
           /\ \/ CuratorEnds
              \/ \E n \in Names : CuratorKeeps(n) \/ CuratorArchives(n) \/ CuratorDemotes(n)
  BY <1>8 DEF CuratorEnds, CuratorKeeps, CuratorArchives, CuratorDemotes, Notes, storeVars, handVars
<1>9. CASE p = "consolidator" /\ ConsolidatorLists
  BY <1>9 DEF ConsolidatorLists, Begins, Notes, Maintainers, storeVars
<1>10. CASE p = "consolidator" /\ (MergePlaced \/ SourceSaved)
  BY <1>1, <1>10 DEF MergePlaced, SourceSaved, Notes, Pending, Destination
<1>11. CASE /\ p = "consolidator"
            /\ \/ ConsolidatorEnds
               \/ \E a, b \in Names : PairTaken(a, b)
               \/ \E n \in Names : MergeNamed(n)
               \/ MergeReads
               \/ \E n, s \in Names : MergeCarries(n, s)
               \/ SourceLoads \/ MergeEnds
  BY <1>11 DEF ConsolidatorEnds, PairTaken, MergeNamed, MergeReads, MergeCarries, SourceLoads,
     MergeEnds, Notes, storeVars, handVars
<1>12. CASE p = "reviewer" /\ \E n \in Names : DraftLoads(n)
  BY <1>12 DEF DraftLoads, Begins, Notes, Maintainers, storeVars
<1> QED
  BY <1>2, <1>3, <1>4, <1>5, <1>6, <1>7, <1>8, <1>9, <1>10, <1>11, <1>12 DEF Step

\* What q took for an agent's it still does, unless q has just looked again.
LEMMA StillMine ==
  ASSUME SkillsInv, MoreTypes, NEW p \in Programs, Notes(p), NEW q \in Maintainers,
         q # p \/ at[q] # "idle", NEW n \in Names
  PROVE  /\ Mine(q, n) => Mine(q, n)'
         /\ n \in unaware[q] => n \in unaware'[q]
<1>1. CASE UNCHANGED <<file, unaware>>
  BY <1>1 DEF Mine
<1>2. ASSUME NEW m \in Names, Renames(p, m)
      PROVE  (Mine(q, n) => Mine(q, n)') /\ (n \in unaware[q] => n \in unaware'[q])
  <2>1. unaware'[q] = (IF draft[p].author = "person" /\ file[m].author = "agent"
                       THEN unaware[q] \cup {m} ELSE unaware[q])
    BY <1>2 DEF Renames
  <2>2. file \in [Names -> Skill] /\ draft[p] \in Skill /\ draft[p].author \in {"agent", "person"}
    BY TypesNow DEF SkillsInv, Skill, Types
  <2>3. file[m].author \in {"agent", "person"}
    BY <2>2 DEF Skill
  <2>4. n # m => file'[n] = file[n]
    BY <1>2 DEF Renames
  <2>5. file'[m] = draft[p]
    BY <1>2, <2>2 DEF Renames
  <2> QED
    BY <2>1, <2>2, <2>3, <2>4, <2>5 DEF Mine
<1>3. CASE at[p] = "idle" /\ UNCHANGED file /\ \E u \in SUBSET Names : Looks(p, u)
  <2>1. q # p /\ unaware \in [Maintainers -> SUBSET Names]
    BY <1>3 DEF MoreTypes
  <2>2. unaware'[q] = unaware[q]
    BY <1>3, <2>1 DEF Looks
  <2> QED
    BY <1>3, <2>2 DEF Mine
<1> QED
  BY <1>1, <1>2, <1>3 DEF Notes

LEMMA NotesType ==
  ASSUME SkillsInv, MoreTypes, NEW p \in Programs, Notes(p)
  PROVE  unaware' \in [Maintainers -> SUBSET Names]
BY DEF Notes, Renames, Looks, MoreTypes

\* A file that does not parse was not written by a program.
LEMMA UnreadableStays ==
  ASSUME SkillsInv, NEW p \in Programs, Notes(p), NEW n \in Names, file'[n].state = "unreadable"
  PROVE  file[n].state = "unreadable"
<1>1. CASE UNCHANGED file
  BY <1>1
<1>2. ASSUME Pending(p), Renames(p, Destination(p)) PROVE file[n].state = "unreadable"
  <2>1. draft[p].state # "unreadable" /\ file \in [Names -> Skill]
    BY <1>2, TypesNow DEF SkillsInv, StoreInv, DraftsFit
  <2> QED
    BY <1>2, <2>1 DEF Renames
<1> QED
  BY <1>1, <1>2 DEF Notes

\* What the consolidator has read, step by step.
LEMMA MergeTypesStay ==
  ASSUME SkillsInv, MoreTypes, NEW p \in Programs, Step(p)
  PROVE  /\ pairs' \subseteq SUBSET Names /\ unread' \in Seq(Names) /\ Len(unread') <= 2
         /\ pending' \subseteq Names \X Names
<1>0. /\ pairs \subseteq SUBSET Names /\ unread \in Seq(Names) /\ Len(unread) <= 2
      /\ pending \subseteq Names \X Names
  BY DEF MoreTypes
<1>1. CASE UNCHANGED mergeVars
  BY <1>0, <1>1 DEF mergeVars
<1>2. CASE UNCHANGED <<pairs, unread, pending>>
  BY <1>0, <1>2
<1>3. CASE PairIsDone /\ pairs' \subseteq pairs
  <2>1. <<>> \in Seq(Names) /\ Len(<<>>) = 0
    OBVIOUS
  <2> QED
    BY <1>0, <1>3, <2>1 DEF PairIsDone
<1>4. CASE ConsolidatorLists
  BY <1>0, <1>4, PairsOf DEF ConsolidatorLists
<1>5. CASE \E a, b \in Names : PairTaken(a, b)
  BY <1>0, <1>5 DEF PairTaken
<1>6. CASE \E n \in Names : MergeNamed(n)
  BY <1>0, <1>6, TypesNow DEF MergeNamed, SkillsInv
<1>7. CASE MergeReads
  <2>1. /\ unread # <<>> /\ unread' = Tail(unread) /\ UNCHANGED pairs
        /\ pending' \in {{}, {Head(unread)} \X scenarios[Head(unread)]}
    BY <1>7 DEF MergeReads
  <2>2. Tail(unread) \in Seq(Names) /\ Len(Tail(unread)) <= 2 /\ Head(unread) \in Names
    BY <1>0, <2>1, SourcesLeft
  <2>3. scenarios[Head(unread)] \subseteq Names
    BY <2>2, TypesNow DEF SkillsInv
  <2> QED
    BY <1>0, <2>1, <2>2, <2>3
<1>8. CASE \E n, s \in Names : MergeCarries(n, s)
  BY <1>0, <1>8 DEF MergeCarries
<1>9. CASE ConsolidatorEnds
  BY <1>0, <1>9 DEF ConsolidatorEnds
<1>10. CASE Stops(p)
  BY <1>1, <1>3, <1>10 DEF Stops
<1>11. CASE Saves(p)
  BY <1>1, <1>11 DEF Saves
<1>12. CASE p = "operator" /\ \E n \in Names : OperatorLoads(n)
  BY <1>1, <1>12 DEF OperatorLoads
<1>13. CASE /\ p = "certifier"
            /\ \/ \E n \in Names : EvaluationBegins(n)
               \/ \E passed \in BOOLEAN : EvaluationEnds(passed)
               \/ PromoteLoads
  BY <1>1, <1>13 DEF EvaluationBegins, EvaluationEnds, PromoteLoads
<1>14. CASE /\ p = "curator"
            /\ \/ CuratorLists \/ CuratorSaves \/ CuratorEnds
               \/ \E n \in Names : CuratorKeeps(n) \/ CuratorArchives(n) \/ CuratorDemotes(n)
  BY <1>1, <1>14 DEF CuratorLists, CuratorSaves, CuratorEnds, CuratorKeeps, CuratorArchives,
     CuratorDemotes
<1>15. CASE p = "consolidator" /\ (MergePlaced \/ SourceLoads \/ SourceSaved)
  BY <1>1, <1>2, <1>15 DEF MergePlaced, SourceLoads, SourceSaved
<1>16. CASE MergeEnds
  BY <1>3, <1>16 DEF MergeEnds
<1>17. CASE p = "reviewer" /\ \E n \in Names : DraftLoads(n)
  BY <1>1, <1>17 DEF DraftLoads
<1> QED
  BY <1>4, <1>5, <1>6, <1>7, <1>8, <1>9, <1>10, <1>11, <1>12, <1>13, <1>14, <1>15, <1>16, <1>17
  DEF Step

LEMMA CuratorStaysAware ==
  ASSUME SkillsInv, MoreTypes, CuratorAware, NEW p \in Programs, Step(p)
  PROVE  CuratorAware'
<1> DEFINE c == "curator"
<1>0. Keeps(p) /\ Notes(p) /\ c \in Maintainers /\ Types
  BY ProgramKeeps, StepNotes DEF Maintainers, SkillsInv
<1>1. at[c] = "save" => target[c] \in Names
  BY DEF SkillsInv, StoreInv, DraftsFit, Pending, Destination, Programs
<1>2. CASE p # c
  <2>1. listed' = listed /\ at'[c] = at[c] /\ target'[c] = target[c]
    BY <1>0, <1>2 DEF Keeps, Programs
  <2>2. \A n \in Names : Mine(c, n) => Mine(c, n)'
    BY <1>0, <1>2, StillMine
  <2> QED
    BY <1>1, <2>1, <2>2 DEF CuratorAware, Mine
<1>3. CASE Stops(p) /\ p = c
  <2>1. listed' = [n \in Names |-> "skip"] /\ at'[c] = "idle"
    BY <1>0, <1>3, Moves DEF Stops, Places
  <2> QED
    BY <2>1 DEF CuratorAware
<1>4. CASE CuratorLists
  <2>1. at'[c] = "curating" /\ file' = file
        /\ listed' = [n \in Names |-> IF Stored(n) /\ Curatable(file[n]) THEN file[n].state ELSE "skip"]
    BY <1>0, <1>4, Moves DEF CuratorLists, Places, Programs, storeVars
  <2> QED
    BY <2>1 DEF CuratorAware, Mine, Curatable
<1>5. ASSUME NEW n \in Names, CuratorKeeps(n) \/ CuratorArchives(n) \/ CuratorDemotes(n)
      PROVE  CuratorAware'
  <2>1. /\ UNCHANGED <<file, unaware>> /\ listed[n] # "skip" /\ at[c] = "curating"
        /\ listed' = [listed EXCEPT ![n] = "skip"]
    BY <1>5 DEF CuratorKeeps, CuratorArchives, CuratorDemotes, Looked, storeVars, handVars
  <2>2. \/ UNCHANGED at
        \/ \E sk : BusyWith(c, n, sk)
    BY <1>5 DEF CuratorKeeps, CuratorArchives, CuratorDemotes
  <2>3. at'[c] = "save" => target'[c] = n
    BY <1>0, <2>1, <2>2, TypesNow DEF BusyWith, Programs
  <2>4. \A m \in Names : listed'[m] # "skip" => listed[m] # "skip"
    BY <1>0, <2>1, TypesNow
  <2> QED
    BY <2>1, <2>3, <2>4 DEF CuratorAware, Mine
<1>6. CASE CuratorSaves
  <2>1. at[c] = "save" /\ at'[c] = "curating" /\ listed' = listed
    BY <1>0, <1>6, Moves DEF CuratorSaves, Replaces, Places, Programs
  <2>2. \A n \in Names : Mine(c, n) => Mine(c, n)'
    BY <1>0, <2>1, StillMine
  <2> QED
    BY <2>1, <2>2 DEF CuratorAware
<1>7. CASE CuratorEnds
  <2>1. at'[c] = "idle" /\ listed' = listed /\ \A n \in Names : listed[n] = "skip"
    BY <1>0, <1>7, Moves DEF CuratorEnds, Places, Programs
  <2> QED
    BY <2>1 DEF CuratorAware
<1>8. p = c => \/ Stops(p) \/ CuratorLists \/ CuratorSaves \/ CuratorEnds
               \/ \E n \in Names : CuratorKeeps(n) \/ CuratorArchives(n) \/ CuratorDemotes(n)
  BY DEF Step, Saves
<1> QED
  BY <1>2, <1>3, <1>4, <1>5, <1>6, <1>7, <1>8

LEMMA ReviewerStaysAware ==
  ASSUME SkillsInv, MoreTypes, ReviewerAware, NEW p \in Programs, Step(p)
  PROVE  ReviewerAware'
<1> DEFINE r == "reviewer"
<1>0. Keeps(p) /\ Notes(p) /\ r \in Maintainers /\ Types
  BY ProgramKeeps, StepNotes DEF Maintainers, SkillsInv
<1>1. at[r] = "save" => target[r] \in Names
  BY DEF SkillsInv, StoreInv, DraftsFit, Pending, Destination, Programs
<1>2. CASE p # r
  <2>1. at'[r] = at[r] /\ target'[r] = target[r]
    BY <1>0, <1>2 DEF Keeps, Programs
  <2>2. \A n \in Names : Mine(r, n) => Mine(r, n)'
    BY <1>0, <1>2, StillMine
  <2> QED
    BY <1>1, <2>1, <2>2 DEF ReviewerAware, Mine
<1>3. CASE p = r /\ (Stops(p) \/ Saves(p))
  <2>1. at'[r] = "idle"
    BY <1>0, <1>3, Moves DEF Stops, Saves, Places
  <2> QED
    BY <2>1 DEF ReviewerAware
<1>4. ASSUME NEW n \in Names, DraftLoads(n)
      PROVE  ReviewerAware'
  <2>1. /\ UNCHANGED file /\ unaware' = [unaware EXCEPT ![r] = {m \in {n} : Stored(m)}]
        /\ BusyWith(r, n, New("first"))
    BY <1>4 DEF DraftLoads, Looks, storeVars
  <2>2. target'[r] = n /\ unaware'[r] = {m \in {n} : Stored(m)}
    BY <1>0, <2>1, TypesNow DEF BusyWith, Programs, MoreTypes
  <2>3. ~Stored(n) => file[n].author = "agent"
    BY DEF SkillsInv, StoreInv, FilesFit
  <2> QED
    BY <2>1, <2>2, <2>3 DEF ReviewerAware, Mine
<1> QED
  BY <1>2, <1>3, <1>4 DEF Step

LEMMA ConsolidatorStaysAware ==
  ASSUME SkillsInv, MoreTypes, ConsolidatorAware, NEW p \in Programs, Step(p)
  PROVE  ConsolidatorAware'
<1> DEFINE c == "consolidator"
           ToPairs == \A pair \in pairs' : \A n \in pair : Mine(c, n)'
           ToSources == \A i \in 1 .. Len(sources') : Mine(c, sources[i])'
           ToTarget == at'[c] = "carry" => Mine(c, target[c])'
           ToUnreadable == at'[c] # "idle" =>
                             \A n \in Names : file'[n].state = "unreadable" => n \in unaware'[c]
<1>0. Keeps(p) /\ Notes(p) /\ c \in Maintainers /\ c \in Programs /\ Types
  BY ProgramKeeps, StepNotes DEF Maintainers, Programs, SkillsInv
<1>1. /\ \A pair \in pairs : \A n \in pair : n \in Names
      /\ \A i \in 1 .. Len(sources) : sources[i] \in Names
      /\ at[c] = "carry" => target[c] \in Names
  BY <1>0, TypesNow DEF MoreTypes, SkillsInv, StoreInv, DraftsFit, Pending, Destination
<1>2. CASE p # c \/ at[c] # "idle"
  <2>1. \A n \in Names : Mine(c, n) => Mine(c, n)'
    BY <1>0, <1>2, StillMine
  <2>2. at[c] # "idle" => ToUnreadable
    BY <1>0, <1>2, StillMine, UnreadableStays DEF ConsolidatorAware
  <2>3. pairs' \subseteq pairs => ToPairs
    BY <1>1, <2>1 DEF ConsolidatorAware
  <2>4. sources' = sources => ToSources
    BY <1>1, <2>1 DEF ConsolidatorAware, Mine
  <2>5. CASE p # c
    <3>1. pairs' = pairs /\ sources' = sources /\ at'[c] = at[c] /\ target'[c] = target[c]
      BY <1>0, <2>5 DEF Keeps
    <3>2. ToTarget
      BY <1>1, <2>1, <3>1 DEF ConsolidatorAware, Mine
    <3> QED
      BY <2>2, <2>3, <2>4, <3>1, <3>2 DEF ConsolidatorAware
  <2>6. CASE p = c /\ at[c] # "idle" /\ (Stops(p) \/ MergeEnds \/ ConsolidatorEnds)
    <3>1. /\ pairs' \subseteq pairs /\ at'[c] # "carry"
          /\ sources' = sources \/ sources' = <<>>
      BY <1>0, <2>6, Moves DEF Stops, MergeEnds, ConsolidatorEnds, PairIsDone, Places
    <3>2. ToSources
      BY <2>4, <3>1
    <3> QED
      BY <2>2, <2>3, <2>6, <3>1, <3>2 DEF ConsolidatorAware
  <2>7. ASSUME NEW a \in Names, NEW b \in Names, PairTaken(a, b), p = c PROVE ConsolidatorAware'
    <3>1. /\ pairs' \subseteq pairs /\ {a, b} \in pairs /\ sources' = <<a, b>>
          /\ at'[c] = "comparing" /\ at[c] # "idle"
      BY <1>0, <2>7, Moves DEF PairTaken, Places
    <3>2. Mine(c, a)' /\ Mine(c, b)'
      BY <2>1, <3>1 DEF ConsolidatorAware
    <3>3. ToSources
      <4>1. Len(sources') = 2 /\ \A i \in 1 .. 2 : sources'[i] \in {a, b}
        BY <3>1
      <4> QED
        BY <3>2, <4>1 DEF Mine
    <3> QED
      BY <2>2, <2>3, <3>1, <3>3 DEF ConsolidatorAware
  <2>8. ASSUME NEW m \in Names, MergeNamed(m), p = c PROVE ConsolidatorAware'
    <3>1. /\ UNCHANGED <<file, unaware, pairs, sources>> /\ at[c] = "comparing"
          /\ BusyWith(c, m, New("merged"))
          /\ Loads(m) => m \in {sources[1], sources[2]}
      BY <2>8 DEF MergeNamed, storeVars, handVars
    <3>2. target'[c] = m
      BY <1>0, <3>1, TypesNow DEF BusyWith
    <3>3. Len(sources) = 2
      BY <3>1 DEF SkillsInv, StoreInv, ConsolidatorKnows
    <3>4. Mine(c, m)
      <4>1. CASE Loads(m)
        BY <3>1, <3>3, <4>1 DEF ConsolidatorAware
      <4>2. CASE ~Stored(m)
        BY <4>2 DEF SkillsInv, StoreInv, FilesFit, Mine
      <4>3. CASE file[m].state = "unreadable"
        BY <3>1, <4>3 DEF ConsolidatorAware, Mine
      <4> QED
        BY <4>1, <4>2, <4>3 DEF Loads, Stored
    <3>5. ToTarget
      BY <3>1, <3>2, <3>4 DEF Mine
    <3> QED
      BY <2>2, <2>3, <2>4, <3>1, <3>5 DEF ConsolidatorAware
  <2>9. CASE p = c /\ (MergeReads \/ \E n, s \in Names : MergeCarries(n, s))
    <3>1. UNCHANGED <<pairs, sources, at, target>> /\ at[c] # "idle"
      BY <2>9 DEF MergeReads, MergeCarries
    <3>2. ToTarget
      BY <1>1, <2>1, <3>1 DEF ConsolidatorAware, Mine
    <3> QED
      BY <2>2, <2>3, <2>4, <3>1, <3>2 DEF ConsolidatorAware
  <2>10. CASE p = c /\ (MergePlaced \/ SourceLoads \/ SourceSaved)
    <3>1. /\ UNCHANGED pairs /\ at[c] # "idle" /\ at'[c] # "carry"
          /\ sources' = sources \/ (sources' = Tail(sources) /\ sources # <<>>)
      BY <1>0, <2>10, Moves DEF MergePlaced, SourceLoads, SourceSaved, mergeVars, Places,
         SkillsInv, StoreInv, ConsolidatorKnows
    <3>2. ToSources
      <4>1. CASE sources' = Tail(sources) /\ sources # <<>>
        <5>1. \A i \in 1 .. Len(Tail(sources)) : \E k \in 1 .. Len(sources) : Tail(sources)[i] = sources[k]
          BY <1>0, <4>1, SourcesLeft, TypesNow
        <5>2. \A k \in 1 .. Len(sources) : Mine(c, sources[k]) /\ sources[k] \in Names
          BY <1>1 DEF ConsolidatorAware
        <5>3. ASSUME NEW i \in 1 .. Len(sources') PROVE Mine(c, sources[i])'
          <6>1. PICK k \in 1 .. Len(sources) : sources'[i] = sources[k]
            BY <4>1, <5>1
          <6>2. PICK n \in Names : n = sources[k]
            BY <5>2
          <6>3. Mine(c, n)'
            BY <2>1, <5>2, <6>2
          <6> QED
            BY <6>1, <6>2, <6>3 DEF Mine
        <5> QED
          BY <5>3
      <4> QED
        BY <2>4, <3>1, <4>1
    <3> QED
      BY <2>2, <2>3, <3>1, <3>2 DEF ConsolidatorAware
  <2>11. CASE p = c /\ at[c] # "idle" /\ ConsolidatorLists
    BY <2>11 DEF ConsolidatorLists, Begins
  <2> QED
    BY <1>2, <2>5, <2>6, <2>7, <2>8, <2>9, <2>10, <2>11 DEF Step, Saves
<1>3. CASE p = c /\ at[c] = "idle"
  <2>1. ConsolidatorLists
    BY <1>3 DEF Step, Saves, Stops, ConsolidatorEnds, PairTaken, MergeNamed, MergeReads, MergeCarries,
       MergePlaced, SourceLoads, SourceSaved, MergeEnds
  <2>2. /\ file' = file /\ sources' = sources /\ at'[c] = "pairing"
        /\ \A n \in Names : file[n].state # "unreadable"
        /\ pairs' = Pairs({n \in Names : file[n].state = "active" /\ Curatable(file[n])})
    BY <1>0, <2>1, Moves DEF ConsolidatorLists, ListWorks, storeVars, Places
  <2>3. Len(sources) = 0
    BY <1>3 DEF SkillsInv, StoreInv, ConsolidatorKnows
  <2>4. ToPairs
    BY <2>2, PairsOf DEF Mine, Curatable
  <2> QED
    BY <2>2, <2>3, <2>4 DEF ConsolidatorAware
<1> QED
  BY <1>2, <1>3

\* What a person writes is not known to any program.
LEMMA AtOnceAware ==
  ASSUME SkillsInv, AwareInv, AtOnce
  PROVE  AwareInv'
<1>0. Types /\ MoreTypes /\ file \in [Names -> Skill]
  BY TypesNow DEF SkillsInv, AwareInv
<1>1. UNCHANGED <<at, target, listed, pairs, sources, unread, pending>>
  BY DEF AtOnce, ScenarioAdded, ScenarioRemoved, HandEdit, HandWrites, localVars, mergeVars
<1>2. /\ \A q \in Maintainers, n \in Names : Mine(q, n) => Mine(q, n)'
      /\ \A q \in Maintainers, n \in Names : n \in unaware[q] => n \in unaware'[q]
      /\ \A q \in Maintainers, n \in Names :
           file'[n].state = "unreadable" => file[n].state = "unreadable" \/ n \in unaware'[q]
      /\ unaware' \in [Maintainers -> SUBSET Names]
  <2>1. CASE UNCHANGED <<file, unaware>>
    BY <1>0, <2>1 DEF Mine, MoreTypes
  <2>2. ASSUME NEW e \in Names, HandEdit(e)
        PROVE  /\ UNCHANGED unaware
               /\ \A n \in Names : file'[n].author = file[n].author
               /\ \A n \in Names : file'[n].state \in {file[n].state, "active"}
    <3>1. PICK sk : sk = [file[e] EXCEPT !.state = "active", !.promotedBy = NoEvidence]
      OBVIOUS
    <3>2. sk.author = file[e].author /\ sk.state = "active"
      <4>1. file[e] \in Skill
        BY <1>0
      <4> QED
        BY <3>1, <4>1 DEF Skill
    <3>3. file' = [file EXCEPT ![e] = sk] /\ UNCHANGED unaware
      BY <2>2, <3>1 DEF HandEdit
    <3> QED
      BY <1>0, <3>2, <3>3
  <2>3. ASSUME NEW e \in Names, HandWrites(e)
        PROVE  /\ \A n \in Names : n # e => file'[n] = file[n]
               /\ unaware' = [q \in Maintainers |-> unaware[q] \cup {e}]
    BY <1>0, <2>3 DEF HandWrites
  <2>4. ASSUME NEW e \in Names, HandEdit(e)
        PROVE  /\ \A q \in Maintainers, n \in Names : Mine(q, n) => Mine(q, n)'
               /\ \A q \in Maintainers, n \in Names : n \in unaware[q] => n \in unaware'[q]
               /\ \A q \in Maintainers, n \in Names :
                    file'[n].state = "unreadable" => file[n].state = "unreadable" \/ n \in unaware'[q]
               /\ unaware' \in [Maintainers -> SUBSET Names]
    BY <1>0, <2>2, <2>4 DEF Mine, MoreTypes
  <2>5. ASSUME NEW e \in Names, HandWrites(e)
        PROVE  /\ \A q \in Maintainers, n \in Names : Mine(q, n) => Mine(q, n)'
               /\ \A q \in Maintainers, n \in Names : n \in unaware[q] => n \in unaware'[q]
               /\ \A q \in Maintainers, n \in Names :
                    file'[n].state = "unreadable" => file[n].state = "unreadable" \/ n \in unaware'[q]
               /\ unaware' \in [Maintainers -> SUBSET Names]
    BY <1>0, <2>3, <2>5 DEF Mine, MoreTypes
  <2> QED
    BY <2>1, <2>4, <2>5 DEF AtOnce, ScenarioAdded, ScenarioRemoved, handVars
<1>3. MoreTypes'
  BY <1>0, <1>1, <1>2 DEF MoreTypes
<1>4. /\ at["curator"] = "save" => target["curator"] \in Names
      /\ at["reviewer"] = "save" => target["reviewer"] \in Names
      /\ at["consolidator"] = "carry" => target["consolidator"] \in Names
  BY DEF SkillsInv, StoreInv, DraftsFit, Pending, Destination, Programs
<1>5. CuratorAware' /\ ReviewerAware'
  BY <1>1, <1>2, <1>4 DEF AwareInv, CuratorAware, ReviewerAware, Mine, Maintainers
<1>6. ConsolidatorAware'
  <2>1. /\ \A pair \in pairs : \A n \in pair : n \in Names
        /\ \A i \in 1 .. Len(sources) : sources[i] \in Names
    BY <1>0, TypesNow DEF MoreTypes
  <2>2. "consolidator" \in Maintainers
    BY DEF Maintainers
  <2> QED
    BY <1>1, <1>2, <1>4, <2>1, <2>2 DEF AwareInv, ConsolidatorAware, Mine
<1> QED
  BY <1>3, <1>5, <1>6 DEF AwareInv

LEMMA AwareBegins == Init => AwareInv
<1> SUFFICES ASSUME Init PROVE AwareInv
  OBVIOUS
<1>1. /\ \A p \in Programs : at[p] = "idle"
      /\ \A n \in Names : listed[n] = "skip"
      /\ pairs = {} /\ sources = <<>> /\ unread = <<>> /\ pending = {}
      /\ unaware = [p \in Maintainers |-> {}]
  BY DEF Init
<1>2. at["curator"] = "idle" /\ at["consolidator"] = "idle" /\ at["reviewer"] = "idle"
  BY <1>1 DEF Programs
<1>3. <<>> \in Seq(Names) /\ Len(<<>>) = 0
  OBVIOUS
<1> QED
  BY <1>1, <1>2, <1>3 DEF AwareInv, MoreTypes, CuratorAware, ConsolidatorAware, ReviewerAware

LEMMA AwareGoesOn == SkillsInv /\ AwareInv /\ [Next]_vars => AwareInv'
<1> SUFFICES ASSUME SkillsInv, AwareInv, [Next]_vars PROVE AwareInv'
  OBVIOUS
<1>1. ASSUME NEW p \in Programs, Step(p) PROVE AwareInv'
  <2>1. MoreTypes'
    BY <1>1, MergeTypesStay, NotesType, StepNotes DEF AwareInv, MoreTypes
  <2> QED
    BY <1>1, <2>1, CuratorStaysAware, ConsolidatorStaysAware, ReviewerStaysAware DEF AwareInv
<1>2. CASE UNCHANGED vars
  BY <1>2 DEF vars, storeVars, localVars, handVars, mergeVars, AwareInv, MoreTypes, CuratorAware,
     ConsolidatorAware, ReviewerAware, Mine
<1> QED
  BY <1>1, <1>2, AtOnceAware DEF Next, AtOnce

LEMMA AwareKept == Spec => []AwareInv
BY AwareBegins, AwareGoesOn, SkillsKept, PTL DEF Spec

-----------------------------------------------------------------------------
(* The theorems.                                                           *)

\* The files, the programs' drafts and the reports keep their types.
THEOREM SkillTypesHold == Spec => []TypeOK
<1>1. SkillsInv /\ AwareInv => TypeOK
  <2> SUFFICES ASSUME SkillsInv, AwareInv PROVE TypeOK
    OBVIOUS
  <2>1. Types /\ MoreTypes
    BY DEF SkillsInv, AwareInv
  <2>2. \A i \in 1 .. Len(reports) : reports[i] \in Report
    BY <2>1 DEF Types
  <2>3. Len(sources) \in 0 .. 2 /\ Len(unread) \in 0 .. 2
    <3>1. PICK k, l \in Nat : k = Len(sources) /\ l = Len(unread)
      BY <2>1 DEF Types, MoreTypes
    <3> QED
      BY <2>1, <3>1 DEF Types, MoreTypes
  <2> QED
    BY <2>1, <2>2, <2>3 DEF Types, MoreTypes, TypeOK, Report, Bodies
<1> QED
  BY <1>1, SkillsKept, AwareKept, PTL

\* However commands overlap, overwrite each other or die half way, an agent's active skill
\* names an evaluation of that very skill that passed, unless its file was edited by hand
\* (store.go: Promote; gate.go: Certify).
THEOREM ActiveSkillsHaveEvidence == Spec => []ActiveOnEvidence
<1>1. SkillsInv => ActiveOnEvidence
  <2> SUFFICES ASSUME SkillsInv, NEW n \in Names, file[n].state = "active", file[n].author = "agent"
               PROVE  LET id == file[n].promotedBy
                      IN  \/ id = NoEvidence /\ n \in edited
                          \/ id \in 1 .. Len(reports) /\ reports[id].skill = n /\ Passed(reports[id])
    BY DEF ActiveOnEvidence
  <2>1. Fit(n, file[n])
    BY DEF SkillsInv, StoreInv, FilesFit, Stored
  <2> QED
    BY <2>1 DEF Fit, Evident
<1> QED
  BY <1>1, SkillsKept, PTL

\* A skill archived for having been merged into another is replaced by one that is in the
\* store, wherever the merge died (consolidate.go: applyMerge).
THEOREM MergedSkillsAreReplaced == Spec => []ReplacementExists
<1>1. SkillsInv => ReplacementExists
  BY DEF SkillsInv, StoreInv, FilesFit, Fit, ReplacementExists
<1> QED
  BY <1>1, SkillsKept, PTL

\* The curator, the consolidator and the reviewer change a skill a person wrote only if
\* that program cannot have known: its file did not parse when the program looked, or was
\* written since (curator.go, consolidate.go, review/tools.go).
THEOREM MaintenanceLeavesPersonsSkills == Spec => PersonsSkillsLeftAlone
<1>1. SkillsInv /\ AwareInv /\ [Next]_vars =>
        [\A n \in Names : TouchesPersons(n) =>
           \/ \E p \in {"operator", "certifier"} : at[p] = "save" /\ target[p] = n
           \/ \E p \in Maintainers : at[p] \in {"save", "carry"} /\ n \in unaware[p]]_vars
  <2> SUFFICES ASSUME SkillsInv, AwareInv, Next, NEW n \in Names, TouchesPersons(n)
               PROVE  \/ \E p \in {"operator", "certifier"} : at[p] = "save" /\ target[p] = n
                      \/ \E p \in Maintainers : at[p] \in {"save", "carry"} /\ n \in unaware[p]
    OBVIOUS
  <2>1. ~AtOnce
    BY AtOnceKeeps DEF TouchesPersons
  <2>2. PICK p \in Programs : Step(p)
    BY <2>1 DEF Next, AtOnce
  <2>3. Writes(p) /\ file \in [Names -> Skill] /\ sources \in Seq(Names)
    BY <2>2, ProgramKeeps, TypesNow DEF SkillsInv
  <2>4. Pending(p) /\ Destination(p) = n /\ (p # "consolidator" => at[p] = "save")
    <3>1. Pending(p) /\ file' = [file EXCEPT ![Destination(p)] = draft[p]]
          /\ (p # "consolidator" => at[p] = "save")
      BY <2>3 DEF Writes, TouchesPersons
    <3> QED
      BY <2>3, <3>1 DEF TouchesPersons
  <2>5. CASE p \notin Maintainers
    BY <2>4, <2>5 DEF Maintainers, Programs, Destination
  <2>6. CASE p = "consolidator"
    <3>1. at[p] = "save" => Mine(p, n)
      <4>1. at[p] = "save" => sources # <<>>
        BY <2>6 DEF SkillsInv, StoreInv, ConsolidatorKnows
      <4>2. at[p] = "save" => Head(sources) = sources[1] /\ 1 \in 1 .. Len(sources)
        <5>1. PICK k \in Nat : Len(sources) = k
          BY <2>3
        <5> QED
          BY <2>3, <4>1, <5>1
      <4> QED
        BY <2>4, <2>6, <4>2 DEF Destination, AwareInv, ConsolidatorAware
    <3>2. at[p] = "carry" => Mine(p, n)
      BY <2>4, <2>6 DEF Destination, AwareInv, ConsolidatorAware
    <3> QED
      BY <2>4, <2>6, <3>1, <3>2 DEF Pending, Mine, TouchesPersons, Maintainers
  <2>7. CASE p \in {"curator", "reviewer"}
    BY <2>4, <2>7 DEF Destination, AwareInv, CuratorAware, ReviewerAware, Mine, TouchesPersons,
       Maintainers
  <2> QED
    BY <2>5, <2>6, <2>7 DEF Maintainers
<1> QED
  BY <1>1, SkillsKept, AwareKept, PTL DEF Spec, PersonsSkillsLeftAlone

\* The gate is the only way into service, as long as commands do not overlap: a skill comes
\* from quarantine, by a passed report on the body and the scenarios it has (gate.go).
THEOREM GateAlonePromotes == Spec => OnlyTheGatePromotes
<1>1. SkillsInv /\ [Next]_vars =>
        [~overlapped' =>
           \A n \in Names :
             file'[n].state = "active" /\ file[n].state # "active" =>
               \/ n \in edited' \ edited
               \/ LET id == file'[n].promotedBy
                  IN  /\ file[n].state = "quarantine"
                      /\ id \in 1 .. Len(reports)
                      /\ Passed(reports[id])
                      /\ reports[id].skill = n
                      /\ reports[id].body = file'[n].body
                      /\ reports[id].scenarios = scenarios[n]]_vars
  <2> SUFFICES ASSUME SkillsInv, Next, ~overlapped', NEW n \in Names,
                      file'[n].state = "active", file[n].state # "active", n \notin edited' \ edited
               PROVE  LET id == file'[n].promotedBy
                      IN  /\ file[n].state = "quarantine"
                          /\ id \in 1 .. Len(reports)
                          /\ Passed(reports[id])
                          /\ reports[id].skill = n
                          /\ reports[id].body = file'[n].body
                          /\ reports[id].scenarios = scenarios[n]
    OBVIOUS
  <2>0. file \in [Names -> Skill] /\ reports \in Seq(Report)
    BY TypesNow DEF SkillsInv
  <2>1. ~AtOnce
    BY AtOnceKeeps
  <2>2. PICK p \in Programs : Step(p)
    BY <2>1 DEF Next, AtOnce
  <2>3. Keeps(p) /\ Writes(p)
    BY <2>2, ProgramKeeps
  <2>4. /\ Pending(p) /\ Destination(p) = n /\ (p # "consolidator" => at[p] = "save")
        /\ file'[n] = draft[p]
    <3>1. /\ Pending(p) /\ file' = [file EXCEPT ![Destination(p)] = draft[p]]
          /\ p # "consolidator" => at[p] = "save"
      BY <2>3 DEF Writes
    <3> QED
      BY <2>0, <3>1
  <2>5. p \notin Maintainers
    BY <2>4 DEF SkillsInv, StoreInv, DraftsFit
  <2>6. Undisturbed
    BY <2>3, AllAlone
  <2>7. at[p] = "save" /\ target[p] = n /\ p \in {"operator", "certifier"}
    BY <2>4, <2>5 DEF Maintainers, Programs, Destination
  <2>8. p = "certifier"
    BY <2>4, <2>6, <2>7 DEF Undisturbed, OperatorAlone
  <2>9. /\ LastReport.body = file[n].body /\ LastReport.scenarios = scenarios[n]
        /\ file[n].state = "quarantine" /\ draft[p] = Promoted(file[n], Len(reports))
        /\ Len(reports) > 0 /\ LastReport.skill = n /\ Passed(LastReport)
    BY <2>6, <2>7, <2>8 DEF Undisturbed, CertifierAlone
  <2>10. PICK id \in Nat : id = Len(reports)
    BY <2>0
  <2>11. file'[n].promotedBy = id /\ file'[n].body = file[n].body
    <3>1. draft[p] = Promoted(file[n], id) /\ file[n] \in Skill
      BY <2>0, <2>9, <2>10
    <3>2. /\ Promoted(file[n], id).promotedBy = id
          /\ Promoted(file[n], id).body = file[n].body
      BY <3>1 DEF Promoted, Skill
    <3> QED
      BY <2>4, <3>1, <3>2
  <2> QED
    BY <2>9, <2>10, <2>11 DEF LastReport
<1> QED
  BY <1>1, SkillsKept, PTL DEF Spec, OnlyTheGatePromotes

\* Pinned skills stay as they are, as long as commands do not overlap (skill.go).
THEOREM PinnedSkillsStay == Spec => PinnedStaysPut
<1>1. SkillsInv /\ [Next]_vars => [~overlapped' => \A n \in Names : ~AutomaticTransition(n)]_vars
  <2> SUFFICES ASSUME SkillsInv, Next, ~overlapped', NEW n \in Names, AutomaticTransition(n)
               PROVE  FALSE
    OBVIOUS
  <2>0. file \in [Names -> Skill] /\ sources \in Seq(Names)
    BY TypesNow DEF SkillsInv
  <2>1. /\ file[n].pinned /\ file'[n] # file[n] /\ edited' = edited
        /\ at'["operator"] = at["operator"] /\ at'["certifier"] = at["certifier"]
    BY DEF AutomaticTransition
  <2>2. ~AtOnce
    BY <2>1, AtOnceKeeps
  <2>3. PICK p \in Programs : Step(p)
    BY <2>2 DEF Next, AtOnce
  <2>4. Keeps(p) /\ Writes(p)
    BY <2>3, ProgramKeeps
  <2>5. /\ Pending(p) /\ at'[p] # at[p] /\ (p # "consolidator" => at[p] = "save")
        /\ Destination(p) = n
    <3>1. /\ Pending(p) /\ at'[p] # at[p] /\ file' = [file EXCEPT ![Destination(p)] = draft[p]]
          /\ p # "consolidator" => at[p] = "save"
      BY <2>1, <2>4 DEF Writes
    <3> QED
      BY <2>0, <2>1, <3>1
  <2>6. Undisturbed
    BY <2>4, AllAlone
  <2>7. CASE p = "consolidator"
    <3>1. at[p] = "save" => sources # <<>>
      BY <2>7 DEF SkillsInv, StoreInv, ConsolidatorKnows
    <3>2. at[p] = "save" => Head(sources) = sources[1] /\ 1 \in 1 .. Len(sources)
      <4>1. PICK k \in Nat : Len(sources) = k
        BY <2>0
      <4> QED
        BY <2>0, <3>1, <4>1
    <3> QED
      BY <2>1, <2>5, <2>6, <2>7, <3>2 DEF Undisturbed, ConsolidatorAlone, Pending, Destination
  <2>8. CASE p = "curator"
    BY <2>1, <2>5, <2>6, <2>8 DEF Undisturbed, CuratorAlone, Destination
  <2>9. CASE p = "reviewer"
    BY <2>1, <2>5, <2>6, <2>9 DEF Undisturbed, ReviewerAlone, Destination, SkillsInv, StoreInv, FilesFit,
       Fit, Loads, Stored
  <2> QED
    BY <2>1, <2>5, <2>7, <2>8, <2>9 DEF Programs
<1> QED
  BY <1>1, SkillsKept, PTL DEF Spec, PinnedStaysPut
=============================================================================
