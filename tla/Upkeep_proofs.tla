---------------------------- MODULE Upkeep_proofs -----------------------------
(***************************************************************************)
(* Proofs about the stores that turns keep up: what prompts carry, what is *)
(* asked again and when the curator runs, for any number of programs,      *)
(* memories, shapes, turns and commands.                                   *)
(***************************************************************************)
EXTENDS MCUpkeep, FiniteSetTheorems, TLAPS

-----------------------------------------------------------------------------
(* The curator's clock.                                                    *)

\* What w is about to write repeats what it should not change, unless w read the file
\* empty or too early, or the file had lost it.
RepeatsTheTruth(w) ==
  IF w = Boss
  THEN w \in outdated \/ "run" \in lost \/ content[w].last = ran
  ELSE /\ content[w].last = began[w]
       /\ w \in outdated \/ "pause" \in lost \/ content[w].paused = paused

\* A whole curator.json says what the operator said last, unless that was lost, and when
\* the run recorded last began, unless that was.
FileTellsTheTruth ==
  /\ state.file # "torn" =>
       /\ "pause" \in lost \/ state.content.paused = paused
       /\ "run" \in lost \/ state.content.last = ran
  /\ \A w \in Writers : Rewriting(w) => RepeatsTheTruth(w)

\* A run that is under way has begun.
RunsHaveBegun ==
  \A c \in Curators : curating[c] \in {"running", "truncate", "write"} => began[c] \in Times

ClockInv == ClockTypeOK /\ RunsHaveBegun /\ FileTellsTheTruth

LEMMA ClockBegins == ClockInit => ClockInv
<1> SUFFICES ASSUME ClockInit PROVE ClockInv
  OBVIOUS
<1>1. 0 \in Times /\ Fresh \in Content
  BY ClockAssumption DEF Times, Content, Fresh
<1>2. ClockTypeOK
  <2>1. /\ now \in Times /\ pauses \in 0 .. MaxPauses /\ ran \in Times \cup {Never}
        /\ state = Missing /\ paused = FALSE /\ outdated = {} /\ lost = {}
    BY <1>1, ClockAssumption DEF ClockInit
  <2>2. /\ curating \in [Writers -> {"idle", "due", "running", "truncate", "write"}]
        /\ began \in [Curators -> Times \cup {Never}]
        /\ recording \in [Curators -> BOOLEAN]
        /\ content \in [Writers -> Content]
    BY <1>1 DEF ClockInit
  <2> QED
    BY <2>1, <2>2 DEF ClockTypeOK
<1>3. RunsHaveBegun
  BY DEF ClockInit, RunsHaveBegun, Writers
<1>4. state.content.last = ran /\ state.content.paused = paused
  BY DEF ClockInit, Missing, Fresh
<1>5. \A w \in Writers : ~Rewriting(w)
  BY DEF ClockInit, Rewriting
<1>6. FileTellsTheTruth
  BY <1>4, <1>5 DEF FileTellsTheTruth
<1> QED
  BY <1>2, <1>3, <1>6 DEF ClockInv

\* What curator.json says is well formed.
LEMMA ToldIsContent == ClockTypeOK => Told \in Content
<1>1. Fresh \in Content
  BY DEF Content, Fresh
<1>2. ASSUME state \in {Missing, Emptied} PROVE Told \in Content
  BY <1>1, <1>2 DEF Told, Missing, Emptied
<1>3. ASSUME NEW c \in Content, state = Kept(c) PROVE Told \in Content
  BY <1>3 DEF Told, Kept
<1> QED
  BY <1>2, <1>3 DEF ClockTypeOK

\* A step in which nobody turns to curator.json.
LEMMA FileLeftAlone ==
  ASSUME ClockInv, ClockTypeOK', RunsHaveBegun',
         UNCHANGED <<state, paused, ran, lost>>,
         \A w \in Writers :
           Rewriting(w)' => /\ Rewriting(w) /\ content'[w] = content[w]
                            /\ w # Boss => began'[w] = began[w]
                            /\ w \in outdated => w \in outdated'
  PROVE  ClockInv'
<1>1. ASSUME NEW w \in Writers, Rewriting(w)'
      PROVE  RepeatsTheTruth(w)'
  <2>1. Rewriting(w) /\ RepeatsTheTruth(w)
    BY <1>1 DEF ClockInv, FileTellsTheTruth
  <2> QED
    BY <1>1, <2>1 DEF RepeatsTheTruth
<1>2. FileTellsTheTruth'
  BY <1>1 DEF ClockInv, FileTellsTheTruth
<1> QED
  BY <1>2 DEF ClockInv

\* A program that rests has nothing to write, and whoever has goes on.
LEMMA RestsWell ==
  ASSUME ClockTypeOK, RunsHaveBegun, NEW w \in Writers, Rests(w)
  PROVE  /\ curating' \in [Writers -> {"idle", "due", "running", "truncate", "write"}]
         /\ began' \in [Curators -> Times \cup {Never}]
         /\ recording' \in [Curators -> BOOLEAN]
         /\ content' \in [Writers -> Content]
         /\ RunsHaveBegun'
         /\ curating'[w] = "idle"
         /\ \A o \in Writers \ {w} : /\ curating'[o] = curating[o] /\ content'[o] = content[o]
                                     /\ o # Boss => began'[o] = began[o]
<1>1. Fresh \in Content
  BY DEF Content, Fresh
<1>2. /\ curating' = [curating EXCEPT ![w] = "idle"]
      /\ began' = [c \in Curators |-> IF c = w THEN Never ELSE began[c]]
      /\ recording' = [c \in Curators |-> c # w /\ recording[c]]
      /\ content' = [content EXCEPT ![w] = Fresh]
  BY DEF Rests, At
<1>3. /\ curating' \in [Writers -> {"idle", "due", "running", "truncate", "write"}]
      /\ began' \in [Curators -> Times \cup {Never}]
      /\ content' \in [Writers -> Content]
  BY <1>1, <1>2 DEF ClockTypeOK
<1>4. recording' \in [Curators -> BOOLEAN]
  BY <1>2 DEF ClockTypeOK
<1>5. /\ curating'[w] = "idle"
      /\ \A o \in Writers \ {w} : /\ curating'[o] = curating[o] /\ content'[o] = content[o]
                                  /\ o # Boss => began'[o] = began[o]
  BY <1>2 DEF ClockTypeOK, Writers
<1>6. RunsHaveBegun'
  BY <1>2, <1>5 DEF RunsHaveBegun, Writers
<1> QED
  BY <1>3, <1>4, <1>5, <1>6

\* A program that goes somewhere else.
LEMMA GoesWell ==
  ASSUME ClockTypeOK, NEW w \in Writers,
         NEW place \in {"idle", "due", "running", "truncate", "write"}, At(w, place)
  PROVE  /\ curating' \in [Writers -> {"idle", "due", "running", "truncate", "write"}]
         /\ curating'[w] = place
         /\ \A o \in Writers \ {w} : curating'[o] = curating[o]
  BY DEF At, ClockTypeOK

\* A run begins now.
LEMMA RunBeginsWell ==
  ASSUME ClockInv, NEW c \in Curators, NEW records \in BOOLEAN, RunBegins(c, records),
         curating[c] \in {"idle", "due"}
  PROVE  ClockInv'
<1>a. ClockTypeOK /\ RunsHaveBegun /\ c \in Writers /\ c # Boss
  BY BossAssumption DEF ClockInv, Writers
<1>1. /\ At(c, "running")
      /\ began' = [began EXCEPT ![c] = now]
      /\ recording' = [recording EXCEPT ![c] = records]
      /\ UNCHANGED <<now, state, content, pauses, paused, ran, outdated, lost>>
  BY DEF RunBegins
<1>2. /\ curating' \in [Writers -> {"idle", "due", "running", "truncate", "write"}]
      /\ curating'[c] = "running"
      /\ \A o \in Writers \ {c} : curating'[o] = curating[o]
  BY <1>a, <1>1, GoesWell
<1>3. ClockTypeOK'
  <2>1. began' \in [Curators -> Times \cup {Never}] /\ recording' \in [Curators -> BOOLEAN]
    BY <1>a, <1>1 DEF ClockTypeOK
  <2> QED
    BY <1>a, <1>1, <1>2, <2>1 DEF ClockTypeOK
<1>4. RunsHaveBegun'
  BY <1>a, <1>1, <1>2 DEF ClockTypeOK, RunsHaveBegun, Writers
<1>5. ASSUME NEW w \in Writers
      PROVE  Rewriting(w)' => /\ Rewriting(w) /\ content'[w] = content[w]
                              /\ w # Boss => began'[w] = began[w]
                              /\ w \in outdated => w \in outdated'
  <2>1. CASE w = c
    BY <1>2, <2>1 DEF Rewriting
  <2>2. CASE w # c
    BY <1>a, <1>1, <1>2, <2>2 DEF Rewriting, ClockTypeOK, Writers
  <2> QED
    BY <2>1, <2>2
<1> QED
  BY <1>1, <1>3, <1>4, <1>5, FileLeftAlone

\* Asking whether a run is due changes nothing but where a program is.
LEMMA AskingIsHarmless ==
  ASSUME ClockInv, NEW c \in Curators, NEW place \in {"idle", "due"}, At(c, place),
         curating[c] \in {"idle", "due"},
         UNCHANGED <<now, state, began, recording, content, pauses, paused, ran, outdated, lost>>
  PROVE  ClockInv'
<1>a. ClockTypeOK /\ RunsHaveBegun /\ c \in Writers
  BY DEF ClockInv, Writers
<1>1. /\ curating' \in [Writers -> {"idle", "due", "running", "truncate", "write"}]
      /\ curating'[c] = place
      /\ \A o \in Writers \ {c} : curating'[o] = curating[o]
  BY <1>a, GoesWell
<1>2. ClockTypeOK'
  BY <1>a, <1>1 DEF ClockTypeOK
<1>3. RunsHaveBegun'
  BY <1>a, <1>1 DEF RunsHaveBegun, Writers
<1>4. ASSUME NEW w \in Writers
      PROVE  Rewriting(w)' => /\ Rewriting(w) /\ content'[w] = content[w]
                              /\ w # Boss => began'[w] = began[w]
                              /\ w \in outdated => w \in outdated'
  BY <1>1 DEF Rewriting
<1> QED
  BY <1>2, <1>3, <1>4, FileLeftAlone

\* A program ends its run, or is killed: it has nothing left to write.
LEMMA RestingIsHarmless ==
  ASSUME ClockInv, NEW w \in Writers, Rests(w),
         outdated' \in {outdated, outdated \ {w}},
         UNCHANGED <<now, state, pauses, paused, ran, lost>>
  PROVE  ClockInv'
<1>a. ClockTypeOK /\ RunsHaveBegun
  BY DEF ClockInv
<1>1. /\ curating' \in [Writers -> {"idle", "due", "running", "truncate", "write"}]
      /\ began' \in [Curators -> Times \cup {Never}]
      /\ recording' \in [Curators -> BOOLEAN]
      /\ content' \in [Writers -> Content]
      /\ RunsHaveBegun'
      /\ curating'[w] = "idle"
      /\ \A o \in Writers \ {w} : /\ curating'[o] = curating[o] /\ content'[o] = content[o]
                                  /\ o # Boss => began'[o] = began[o]
  BY <1>a, RestsWell
<1>2. ClockTypeOK'
  BY <1>a, <1>1 DEF ClockTypeOK
<1>3. ASSUME NEW o \in Writers
      PROVE  Rewriting(o)' => /\ Rewriting(o) /\ content'[o] = content[o]
                              /\ o # Boss => began'[o] = began[o]
                              /\ o \in outdated => o \in outdated'
  BY <1>1 DEF Rewriting
<1> QED
  BY <1>1, <1>2, <1>3, FileLeftAlone

\* A program has read the file, and writes it next: what it keeps of it is the truth,
\* unless the file was empty or had lost that.
LEMMA TakesUp ==
  ASSUME ClockInv, NEW w \in Writers, At(w, "truncate"), curating[w] \in {"idle", "running"},
         NEW c \in Content, content' = [content EXCEPT ![w] = c],
         IF w = Boss THEN c.last = Told.last
         ELSE c = [last |-> began[w], paused |-> Told.paused] /\ curating[w] = "running",
         pauses' \in 0 .. MaxPauses, ReadsState(w),
         UNCHANGED <<now, state, began, recording, paused, ran, lost>>
  PROVE  ClockInv'
<1>a. ClockTypeOK /\ RunsHaveBegun /\ FileTellsTheTruth
  BY DEF ClockInv
<1>1. /\ curating' \in [Writers -> {"idle", "due", "running", "truncate", "write"}]
      /\ curating'[w] = "truncate"
      /\ \A o \in Writers \ {w} : curating'[o] = curating[o]
  BY <1>a, GoesWell
<1>2. /\ content' \in [Writers -> Content] /\ content'[w] = c
      /\ \A o \in Writers \ {w} : content'[o] = content[o]
  BY <1>a DEF ClockTypeOK
<1>3. /\ outdated' \subseteq Writers
      /\ \A o \in Writers \ {w} : o \in outdated' <=> o \in outdated
      /\ state.file = "torn" => w \in outdated'
  BY <1>a DEF ReadsState, ClockTypeOK
<1>4. ClockTypeOK'
  <2>1. UNCHANGED <<now, state, began, recording, paused, ran, lost>> /\ pauses' \in 0 .. MaxPauses
    OBVIOUS
  <2>2. /\ now' \in Times /\ state' \in {Missing, Emptied} \cup {Kept(d) : d \in Content}
        /\ began' \in [Curators -> Times \cup {Never}] /\ recording' \in [Curators -> BOOLEAN]
        /\ paused' \in BOOLEAN /\ lost' \subseteq {"pause", "run"} /\ ran' \in Times \cup {Never}
    BY <1>a, <2>1 DEF ClockTypeOK
  <2> QED
    BY <1>1, <1>2, <1>3, <2>1, <2>2 DEF ClockTypeOK
<1>5. RunsHaveBegun'
  <2>1. ASSUME NEW d \in Curators, curating'[d] \in {"running", "truncate", "write"}
        PROVE  began'[d] \in Times
    <3>1. began'[d] = began[d] /\ d \in Writers /\ d # Boss
      BY BossAssumption DEF Writers
    <3>2. curating[d] \in {"running", "truncate", "write"}
      BY <1>1, <2>1, <3>1
    <3> QED
      BY <1>a, <3>1, <3>2 DEF RunsHaveBegun
  <2> QED
    BY <2>1 DEF RunsHaveBegun
<1>6. ASSUME NEW o \in Writers, Rewriting(o)'
      PROVE  RepeatsTheTruth(o)'
  <2>1. CASE o # w
    <3>1. Rewriting(o) /\ RepeatsTheTruth(o)
      BY <1>1, <1>6, <1>a, <2>1 DEF Rewriting, FileTellsTheTruth
    <3> QED
      BY <1>2, <1>3, <2>1, <3>1 DEF RepeatsTheTruth
  <2>2. CASE o = w
    <3>1. \/ w \in outdated'
          \/ /\ "pause" \in lost \/ Told.paused = paused
             /\ "run" \in lost \/ Told.last = ran
      BY <1>3, <1>a DEF FileTellsTheTruth, Told
    <3>2. w # Boss => c.last = began[w] /\ c.paused = Told.paused
      OBVIOUS
    <3> QED
      BY <1>2, <2>2, <3>1, <3>2 DEF RepeatsTheTruth
  <2> QED
    BY <2>1, <2>2
<1>7. FileTellsTheTruth'
  BY <1>a, <1>6 DEF FileTellsTheTruth
<1> QED
  BY <1>4, <1>5, <1>7 DEF ClockInv

LEMMA TruncatesWell ==
  ASSUME ClockInv, NEW w \in Writers, Truncate(w)
  PROVE  ClockInv'
<1>a. ClockTypeOK /\ RunsHaveBegun /\ FileTellsTheTruth
  BY DEF ClockInv
<1>1. /\ curating' \in [Writers -> {"idle", "due", "running", "truncate", "write"}]
      /\ curating'[w] = "write"
      /\ \A o \in Writers \ {w} : curating'[o] = curating[o]
  BY <1>a, GoesWell DEF Truncate
<1>2. /\ curating[w] = "truncate" /\ state' = Emptied
      /\ UNCHANGED <<now, began, recording, content, pauses, paused, ran, outdated, lost>>
  BY DEF Truncate
<1>3. ClockTypeOK'
  BY <1>a, <1>1, <1>2 DEF ClockTypeOK
<1>4. RunsHaveBegun'
  BY <1>a, <1>1, <1>2 DEF RunsHaveBegun, Writers
<1>5. ASSUME NEW o \in Writers, Rewriting(o)'
      PROVE  RepeatsTheTruth(o)'
  <2>1. Rewriting(o) /\ RepeatsTheTruth(o)
    BY <1>1, <1>2, <1>5, <1>a DEF Rewriting, FileTellsTheTruth
  <2> QED
    BY <1>2, <2>1 DEF RepeatsTheTruth
<1>6. state'.file = "torn"
  BY <1>2 DEF Emptied
<1>7. FileTellsTheTruth'
  BY <1>1, <1>5, <1>6 DEF FileTellsTheTruth
<1> QED
  BY <1>3, <1>4, <1>7 DEF ClockInv

\* What w sets is no longer lost, and what it repeats is the truth or is lost; whoever was
\* to repeat what w has set is outdated.
LEMMA WritesWell ==
  ASSUME ClockInv, NEW w \in Writers, Write(w)
  PROVE  ClockInv'
<1>a. ClockTypeOK /\ RunsHaveBegun /\ FileTellsTheTruth /\ Boss \notin Curators
  BY BossAssumption DEF ClockInv
<1>1. /\ curating[w] = "write" /\ Rests(w) /\ state' = Kept(content[w])
      /\ UNCHANGED <<now, pauses>>
  BY DEF Write
<1>2. ASSUME w = Boss
      PROVE  /\ paused' = content[w].paused /\ ran' = ran
             /\ outdated' = (outdated \ {w}) \cup {c \in Curators : Rewriting(c)}
             /\ lost' = (lost \ {"pause"}) \cup (IF w \in outdated THEN {"run"} ELSE {})
  BY <1>2 DEF Write
<1>3. ASSUME w # Boss
      PROVE  /\ ran' = began[w] /\ paused' = paused
             /\ outdated' = (outdated \ {w}) \cup (IF Rewriting(Boss) THEN {Boss} ELSE {})
             /\ lost' = (lost \ {"run"}) \cup (IF w \in outdated THEN {"pause"} ELSE {})
  BY <1>3 DEF Write
<1>4. /\ curating' \in [Writers -> {"idle", "due", "running", "truncate", "write"}]
      /\ began' \in [Curators -> Times \cup {Never}]
      /\ recording' \in [Curators -> BOOLEAN]
      /\ content' \in [Writers -> Content]
      /\ RunsHaveBegun'
      /\ curating'[w] = "idle"
      /\ \A o \in Writers \ {w} : /\ curating'[o] = curating[o] /\ content'[o] = content[o]
                                  /\ o # Boss => began'[o] = began[o]
  BY <1>a, <1>1, RestsWell
<1>5. content[w] \in Content
  BY <1>a DEF ClockTypeOK
<1>6. /\ ran' \in Times \cup {Never} /\ paused' \in BOOLEAN
      /\ outdated' \subseteq Writers /\ lost' \subseteq {"pause", "run"}
  <2>1. CASE w = Boss
    BY <1>2, <1>5, <1>a, <2>1 DEF ClockTypeOK, Content, Writers
  <2>2. CASE w # Boss
    <3>1. began[w] \in Times \cup {Never}
      BY <1>a, <2>2 DEF ClockTypeOK, Writers
    <3> QED
      BY <1>3, <1>a, <2>2, <3>1 DEF ClockTypeOK, Writers
  <2> QED
    BY <2>1, <2>2
<1>7. ClockTypeOK'
  BY <1>1, <1>4, <1>5, <1>6, <1>a DEF ClockTypeOK
<1>8. state'.content = content[w]
  BY <1>1 DEF Kept
<1>9. RepeatsTheTruth(w)
  BY <1>1, <1>a DEF Rewriting, FileTellsTheTruth
<1>10. /\ "pause" \in lost' \/ state'.content.paused = paused'
       /\ "run" \in lost' \/ state'.content.last = ran'
  <2>1. CASE w = Boss
    BY <1>2, <1>8, <1>9, <2>1 DEF RepeatsTheTruth
  <2>2. CASE w # Boss
    BY <1>3, <1>8, <1>9, <2>2 DEF RepeatsTheTruth
  <2> QED
    BY <2>1, <2>2
<1>11. ASSUME NEW o \in Writers, Rewriting(o)'
       PROVE  RepeatsTheTruth(o)'
  <2>1. o # w /\ Rewriting(o) /\ RepeatsTheTruth(o)
    BY <1>4, <1>11, <1>a DEF Rewriting, FileTellsTheTruth
  <2>2. content'[o] = content[o] /\ (o # Boss => began'[o] = began[o])
    BY <1>4, <2>1
  <2>3. CASE w = Boss
    <3>1. o \in Curators /\ o \in outdated' /\ o # Boss
      BY <1>2, <2>1, <2>3 DEF Writers
    <3> QED
      BY <2>1, <2>2, <3>1 DEF RepeatsTheTruth
  <2>4. CASE w # Boss /\ o = Boss
    BY <1>3, <2>1, <2>4 DEF RepeatsTheTruth
  <2>5. CASE w # Boss /\ o # Boss
    <3>1. /\ paused' = paused /\ (o \in outdated => o \in outdated')
          /\ "pause" \in lost => "pause" \in lost'
      BY <1>3, <2>1, <2>5
    <3> QED
      BY <2>1, <2>2, <2>5, <3>1 DEF RepeatsTheTruth
  <2> QED
    BY <2>3, <2>4, <2>5
<1>12. FileTellsTheTruth'
  BY <1>10, <1>11 DEF FileTellsTheTruth
<1> QED
  BY <1>4, <1>7, <1>12 DEF ClockInv

LEMMA ClockGoesOn == ClockInv /\ [ClockNext]_clockVars => ClockInv'
<1> SUFFICES ASSUME ClockInv, [ClockNext]_clockVars PROVE ClockInv'
  OBVIOUS
<1>a. ClockTypeOK /\ RunsHaveBegun /\ Told \in Content
  BY ToldIsContent DEF ClockInv
<1>1. CASE Ticks
  <2>1. now' \in Times
    BY <1>1, <1>a, ClockAssumption DEF Ticks, ClockTypeOK, Times
  <2>2. UNCHANGED <<state, curating, began, recording, content, pauses, paused, ran, outdated, lost>>
    BY <1>1 DEF Ticks
  <2> QED
    BY <1>a, <2>1, <2>2, FileLeftAlone DEF ClockTypeOK, RunsHaveBegun, Rewriting
<1>2. ASSUME NEW c \in Curators, TurnIsOver(c) \/ NoLongerDue(c)
      PROVE  ClockInv'
  <2>1. CASE TurnIsOver(c)
    BY <2>1, AskingIsHarmless DEF TurnIsOver
  <2>2. CASE NoLongerDue(c)
    BY <2>2, AskingIsHarmless DEF NoLongerDue
  <2> QED
    BY <1>2, <2>1, <2>2
<1>3. ASSUME NEW c \in Curators, RunsAfterTurn(c) \/ CuratesByForce(c)
      PROVE  ClockInv'
  <2>1. PICK records \in BOOLEAN : RunBegins(c, records) /\ curating[c] \in {"idle", "due"}
    BY <1>3 DEF RunsAfterTurn, CuratesByForce
  <2> QED
    BY <2>1, RunBeginsWell
<1>4. ASSUME NEW c \in Curators, NEW dryRun \in BOOLEAN, Curates(c, dryRun)
      PROVE  ClockInv'
  <2>1. (~dryRun) \in BOOLEAN
    OBVIOUS
  <2>2. RunBegins(c, ~dryRun) /\ curating[c] = "idle"
    BY <1>4 DEF Curates
  <2> QED
    BY <2>1, <2>2, RunBeginsWell
<1>5. ASSUME NEW c \in Curators, RunEnds(c)
      PROVE  ClockInv'
  <2>a. c \in Writers /\ c # Boss
    BY BossAssumption DEF Writers
  <2>b. /\ curating[c] = "running"
        /\ UNCHANGED <<now, state, pauses, paused, ran, lost>>
    BY <1>5 DEF RunEnds
  <2>1. CASE recording[c]
    <3>1. /\ At(c, "truncate")
          /\ content' = [content EXCEPT ![c] = Recorded(c)]
          /\ ReadsState(c)
          /\ UNCHANGED <<began, recording>>
      BY <1>5, <2>1 DEF RunEnds
    <3>2. Recorded(c) = [last |-> began[c], paused |-> Told.paused]
      BY DEF Recorded
    <3>3. began[c] \in Times /\ Told.paused \in BOOLEAN
      BY <1>a, <2>b DEF RunsHaveBegun, Content
    <3>4. Recorded(c) \in Content
      BY <3>2, <3>3 DEF Content
    <3>5. pauses' \in 0 .. MaxPauses
      BY <1>a, <2>b DEF ClockTypeOK
    <3> QED
      BY <2>a, <2>b, <3>1, <3>2, <3>4, <3>5, TakesUp
  <2>2. CASE ~recording[c]
    BY <1>5, <2>a, <2>b, <2>2, RestingIsHarmless DEF RunEnds
  <2> QED
    BY <2>1, <2>2
<1>6. ASSUME NEW c \in Curators, RunFails(c)
      PROVE  ClockInv'
  BY <1>6, RestingIsHarmless DEF RunFails, Writers
<1>7. ASSUME NEW b \in BOOLEAN, SetsPaused(b)
      PROVE  ClockInv'
  <2> DEFINE said == [last |-> Told.last, paused |-> b]
  <2>1. /\ curating[Boss] = "idle" /\ At(Boss, "truncate")
        /\ content' = [content EXCEPT ![Boss] = said]
        /\ pauses < MaxPauses /\ pauses' = pauses + 1
        /\ ReadsState(Boss)
        /\ UNCHANGED <<now, state, began, recording, paused, ran, lost>>
    BY <1>7 DEF SetsPaused
  <2>2. said \in Content /\ said.last = Told.last
    BY <1>a DEF Content
  <2>3. pauses' \in 0 .. MaxPauses
    BY <1>a, <2>1, ClockAssumption DEF ClockTypeOK
  <2>4. Boss \in Writers
    BY DEF Writers
  <2> HIDE DEF said
  <2> QED
    BY <2>1, <2>2, <2>3, <2>4, TakesUp
<1>8. ASSUME NEW w \in Writers, Killed(w)
      PROVE  ClockInv'
  BY <1>8, RestingIsHarmless DEF Killed
<1>9. CASE UNCHANGED clockVars
  <2>1. ClockTypeOK' /\ RunsHaveBegun'
    BY <1>9, <1>a DEF clockVars, ClockTypeOK, RunsHaveBegun
  <2> QED
    BY <1>9, <2>1, FileLeftAlone DEF clockVars, Rewriting
<1> QED
  BY <1>1, <1>2, <1>3, <1>4, <1>5, <1>6, <1>7, <1>8, <1>9, TruncatesWell, WritesWell DEF ClockNext

\* A run that begins was let to by the file.
LEMMA BeginsWhenTold ==
  ASSUME ClockInv, ClockNext, NEW c \in Curators, Begins(c)
  PROVE  /\ ~Told.paused
         /\ IsDue \/ ~recording'[c]
<1>a. ClockTypeOK /\ c \in Writers
  BY DEF ClockInv, Writers
<1>1. ASSUME NEW w \in Writers, NEW place, At(w, place), place # "running"
      PROVE  FALSE
  <2>1. curating' = [curating EXCEPT ![w] = place]
    BY <1>1 DEF At
  <2>2. curating'[c] \in {curating[c], place}
    BY <1>a, <2>1 DEF ClockTypeOK
  <2> QED
    BY <1>1, <2>2 DEF Begins
<1>2. ASSUME NEW d \in Curators, NEW records \in BOOLEAN, RunBegins(d, records)
      PROVE  d = c /\ recording'[c] = records
  <2>1. /\ curating' = [curating EXCEPT ![d] = "running"]
        /\ recording' = [recording EXCEPT ![d] = records]
    BY <1>2 DEF RunBegins, At
  <2>2. d = c
    BY <1>a, <2>1 DEF Begins, ClockTypeOK
  <2> QED
    BY <1>a, <2>1, <2>2 DEF ClockTypeOK
<1>3. ~UNCHANGED curating
  BY DEF Begins
<1>4. \E d \in Curators : \/ RunsAfterTurn(d) \/ CuratesByForce(d)
                          \/ \E dryRun \in BOOLEAN : Curates(d, dryRun)
  <2>1. ~Ticks
    BY <1>3 DEF Ticks
  <2>2. \A d \in Curators : ~TurnIsOver(d) /\ ~NoLongerDue(d) /\ ~RunEnds(d) /\ ~RunFails(d)
    BY <1>1 DEF TurnIsOver, NoLongerDue, RunEnds, RunFails, Rests, Writers
  <2>3. \A b \in BOOLEAN : ~SetsPaused(b)
    BY <1>1 DEF SetsPaused, Writers
  <2>4. \A w \in Writers : ~Truncate(w) /\ ~Write(w) /\ ~Killed(w)
    BY <1>1 DEF Truncate, Write, Killed, Rests
  <2> QED
    BY <2>1, <2>2, <2>3, <2>4 DEF ClockNext
<1>5. PICK d \in Curators : \/ RunsAfterTurn(d) \/ CuratesByForce(d)
                            \/ \E dryRun \in BOOLEAN : Curates(d, dryRun)
  BY <1>4
<1>6. CASE RunsAfterTurn(d)
  BY <1>6 DEF RunsAfterTurn, IsDue
<1>7. CASE CuratesByForce(d)
  BY <1>2, <1>7 DEF CuratesByForce
<1>8. CASE \E dryRun \in BOOLEAN : Curates(d, dryRun)
  BY <1>8 DEF Curates, IsDue
<1> QED
  BY <1>5, <1>6, <1>7, <1>8

LEMMA UpkeepMovesClock ==
  [Next]_<<memoryVars, ledgerVars, clockVars>> => [ClockNext]_clockVars
  BY DEF Next

\* A program that reads a whole curator.json minds the operator's last pause and the run
\* recorded last, unless that was written over by one that had read the file empty or too
\* early (curator.go: Due, RecordRun, SetPaused).
THEOREM CuratorKeepsItsHours == Spec => CuratesWhenItMay
<1>1. Init => ClockInv
  BY ClockBegins DEF Init
<1>2. ASSUME ClockInv, ClockNext, NEW c \in Curators, Begins(c), state.file # "torn"
      PROVE  /\ "pause" \notin lost => ~paused
             /\ "run" \notin lost /\ ran # Never /\ now - ran < MinInterval => ~recording'[c]
  <2>1. ("run" \in lost \/ Told.last = ran) /\ ("pause" \in lost \/ Told.paused = paused)
    BY <1>2 DEF ClockInv, FileTellsTheTruth, Told
  <2>2. ~Told.paused /\ (IsDue \/ ~recording'[c])
    BY <1>2, BeginsWhenTold
  <2>3. IsDue /\ "run" \notin lost => ran = Never \/ now - ran >= MinInterval
    BY <2>1 DEF IsDue
  <2>4. now \in Int /\ (ran \in Int \/ ran = Never) /\ MinInterval \in Int
    BY <1>2, ClockAssumption DEF ClockInv, ClockTypeOK, Times
  <2> QED
    BY <2>1, <2>2, <2>3, <2>4
<1>3. ClockInv /\ [ClockNext]_clockVars =>
        [\A c \in Curators :
           Begins(c) /\ state.file # "torn" =>
             /\ "pause" \notin lost => ~paused
             /\ "run" \notin lost /\ ran # Never /\ now - ran < MinInterval => ~recording'[c]]_clockVars
  BY <1>2
<1> QED
  BY <1>1, <1>3, UpkeepMovesClock, ClockGoesOn, PTL DEF Spec, CuratesWhenItMay

-----------------------------------------------------------------------------
(* The ledger of what has been asked.                                      *)

\* The last of a list, LedgerSize at most.
LEMMA TrimmedIsTheEnd ==
  ASSUME NEW S, NEW s \in Seq(S)
  PROVE  /\ Trimmed(s) \in Seq(S)
         /\ Len(Trimmed(s)) <= LedgerSize
         /\ Len(s) <= LedgerSize => Trimmed(s) = s
         /\ Len(s) > LedgerSize =>
              /\ Len(Trimmed(s)) = LedgerSize
              /\ \A i \in 1 .. LedgerSize : Trimmed(s)[i] = s[i + (Len(s) - LedgerSize)]
<1>1. PICK n \in Nat : Len(s) = n
  OBVIOUS
<1>2. PICK size \in Nat \ {0} : LedgerSize = size
  BY LedgerAssumption
<1>3. CASE n <= size
  <2>1. Trimmed(s) = s
    BY <1>1, <1>2, <1>3 DEF Trimmed
  <2> QED
    BY <1>1, <1>2, <1>3, <2>1
<1>4. CASE n > size
  <2>1. PICK from \in Nat : from = n - size + 1 /\ from \in 1 .. n
    BY <1>4
  <2>2. Trimmed(s) = SubSeq(s, from, n)
    BY <1>1, <1>2, <1>4, <2>1 DEF Trimmed
  <2>3. /\ SubSeq(s, from, n) \in Seq(S)
        /\ Len(SubSeq(s, from, n)) = n - from + 1
        /\ \A i \in 1 .. n - from + 1 : SubSeq(s, from, n)[i] = s[from + i - 1]
    BY <1>1, <2>1
  <2>4. n - from + 1 = size
    BY <2>1
  <2>5. \A i \in 1 .. size : from + i - 1 = i + (n - size)
    BY <2>1
  <2>6. /\ Trimmed(s) \in Seq(S) /\ Len(Trimmed(s)) = size
        /\ \A i \in 1 .. size : Trimmed(s)[i] = s[i + (n - size)]
    BY <2>2, <2>3, <2>4, <2>5
  <2> QED
    BY <1>1, <1>2, <1>4, <2>6
<1> QED
  BY <1>3, <1>4

\* Trimming a list before something is added to it is as good as trimming it afterwards.
LEMMA TrimmedAsItGrows ==
  ASSUME NEW S, NEW s \in Seq(S), NEW e \in S
  PROVE  Trimmed(Append(Trimmed(s), e)) = Trimmed(Append(s, e))
<1>1. PICK n \in Nat : Len(s) = n
  OBVIOUS
<1>2. PICK size \in Nat \ {0} : LedgerSize = size
  BY LedgerAssumption
<1>3. CASE n <= size
  BY <1>1, <1>2, <1>3, TrimmedIsTheEnd
<1>4. CASE n > size
  <2>1. PICK t \in Seq(S) : t = Trimmed(s)
    BY TrimmedIsTheEnd
  <2>2. Len(t) = size /\ \A i \in 1 .. size : t[i] = s[i + (n - size)]
    <3>1. Len(s) > LedgerSize
      BY <1>1, <1>2, <1>4
    <3>2. /\ Len(t) = LedgerSize
          /\ \A i \in 1 .. LedgerSize : t[i] = s[i + (Len(s) - LedgerSize)]
      BY <2>1, <3>1, TrimmedIsTheEnd
    <3> QED
      BY <1>1, <1>2, <3>2
  <2>3. /\ Append(t, e) \in Seq(S) /\ Len(Append(t, e)) = size + 1
        /\ Append(s, e) \in Seq(S) /\ Len(Append(s, e)) = n + 1
    BY <1>1, <2>2
  <2>4. PICK long \in Seq(S) : long = Append(s, e)
    BY <2>3
  <2>5. PICK short \in Seq(S) : short = Append(t, e)
    BY <2>3
  <2>6. \A i \in 1 .. size : short[i + 1] = long[i + (n + 1 - size)]
    <3>1. ASSUME NEW i \in 1 .. size - 1
          PROVE  short[i + 1] = long[i + (n + 1 - size)]
      <4>1. short[i + 1] = t[i + 1]
        BY <2>2, <2>5
      <4>2. t[i + 1] = s[i + 1 + (n - size)]
        BY <2>2
      <4>3. PICK k \in Nat : k = i + 1 + (n - size) /\ k = i + (n + 1 - size) /\ k \in 1 .. n
        BY <1>4
      <4>4. long[k] = s[k]
        BY <1>1, <2>4, <4>3
      <4> QED
        BY <4>1, <4>2, <4>3, <4>4
    <3>2. short[size + 1] = long[size + (n + 1 - size)]
      <4>1. size + (n + 1 - size) = n + 1
        OBVIOUS
      <4> QED
        BY <1>1, <2>2, <2>4, <2>5, <4>1
    <3>3. ASSUME NEW i \in 1 .. size PROVE i \in 1 .. size - 1 \/ i = size
      OBVIOUS
    <3>4. ASSUME NEW i \in 1 .. size PROVE short[i + 1] = long[i + (n + 1 - size)]
      <4>1. CASE i \in 1 .. size - 1
        BY <3>1, <4>1
      <4>2. CASE i = size
        BY <3>2, <4>2
      <4> QED
        BY <3>3, <4>1, <4>2
    <3> QED
      BY <3>4
  <2>7. /\ Trimmed(short) \in Seq(S) /\ Len(Trimmed(short)) = size
        /\ \A i \in 1 .. size : Trimmed(short)[i] = short[i + (size + 1 - size)]
    <3>1. Len(short) = size + 1 /\ Len(short) > LedgerSize
      BY <1>2, <2>3, <2>5
    <3>2. /\ Trimmed(short) \in Seq(S) /\ Len(Trimmed(short)) = LedgerSize
          /\ \A i \in 1 .. LedgerSize : Trimmed(short)[i] = short[i + (Len(short) - LedgerSize)]
      BY <3>1, TrimmedIsTheEnd
    <3> QED
      BY <1>2, <3>1, <3>2
  <2>8. /\ Trimmed(long) \in Seq(S) /\ Len(Trimmed(long)) = size
        /\ \A i \in 1 .. size : Trimmed(long)[i] = long[i + (n + 1 - size)]
    <3>1. Len(long) = n + 1 /\ Len(long) > LedgerSize
      BY <1>2, <1>4, <2>3, <2>4
    <3>2. /\ Trimmed(long) \in Seq(S) /\ Len(Trimmed(long)) = LedgerSize
          /\ \A i \in 1 .. LedgerSize : Trimmed(long)[i] = long[i + (Len(long) - LedgerSize)]
      BY <3>1, TrimmedIsTheEnd
    <3> QED
      BY <1>2, <3>1, <3>2
  <2>9. \A i \in 1 .. size : Trimmed(short)[i] = Trimmed(long)[i]
    <3>1. \A i \in 1 .. size : i + (size + 1 - size) = i + 1
      OBVIOUS
    <3> QED
      BY <2>6, <2>7, <2>8, <3>1
  <2>10. Trimmed(short) = Trimmed(long)
    BY <2>7, <2>8, <2>9
  <2> QED
    BY <2>1, <2>4, <2>5, <2>10
<1> QED
  BY <1>3, <1>4

\* What stands among the last is not dropped.
LEMMA TheLastAreKept ==
  ASSUME NEW S, NEW s \in Seq(S), NEW i \in 1 .. Len(s), i > Len(s) - LedgerSize
  PROVE  s[i] \in ToSet(Trimmed(s))
<1>1. PICK n \in Nat : Len(s) = n
  OBVIOUS
<1>2. PICK size \in Nat \ {0} : LedgerSize = size
  BY LedgerAssumption
<1>3. CASE n <= size
  <2>1. Trimmed(s) = s
    BY <1>1, <1>2, <1>3, TrimmedIsTheEnd
  <2> QED
    BY <2>1 DEF ToSet
<1>4. CASE n > size
  <2>1. Len(s) > LedgerSize
    BY <1>1, <1>2, <1>4
  <2>2. /\ Trimmed(s) \in Seq(S) /\ Len(Trimmed(s)) = LedgerSize
        /\ \A k \in 1 .. LedgerSize : Trimmed(s)[k] = s[k + (Len(s) - LedgerSize)]
    BY <2>1, TrimmedIsTheEnd
  <2>3. PICK k \in 1 .. size : k + (n - size) = i
    <3>1. i - (n - size) \in 1 .. size
      BY <1>1, <1>2, <1>4
    <3> QED
      BY <1>1, <1>2, <3>1
  <2>4. Trimmed(s)[k] = s[i] /\ k \in DOMAIN Trimmed(s)
    BY <1>1, <1>2, <2>2, <2>3
  <2> QED
    BY <2>4 DEF ToSet
<1> QED
  BY <1>3, <1>4

\* What a process that is not behind has in memory is the file, or what it is about to
\* make of it.
UpToDate(r) ==
  IF asking[r] = "flush"
  THEN \E shape \in Shapes : /\ about[r] = {shape}
                             /\ shape \notin ToSet(ledger)
                             /\ entries[r] = Trimmed(Append(ledger, shape))
  ELSE entries[r] = ledger

\* Until processes collide, the file is the end of what has been recorded.
LedgerRemembers ==
  ~collided =>
    /\ ledger = Trimmed(noted)
    /\ \A r \in Reviewers \ behind : loaded[r] => UpToDate(r)

\* Until then no shape is recorded again while the file remembers it.
Spaced ==
  ~collided =>
    \A i, j \in 1 .. Len(noted) : i < j /\ noted[i] = noted[j] => j - i > LedgerSize

Flushing == {r \in Reviewers : asking[r] = "flush"}

LedgerInv ==
  /\ LedgerTypeOK
  /\ Len(noted) + Cardinality(Flushing) <= MaxRecorded
  /\ \A r \in Reviewers : /\ asking[r] = "flush" => loaded[r]
                          /\ asking[r] = "recorded" => position[r] > 0
  /\ LedgerRemembers
  /\ Spaced

LEMMA LedgerBegins == LedgerInit => LedgerInv
<1> SUFFICES ASSUME LedgerInit PROVE LedgerInv
  OBVIOUS
<1>a. <<>> \in Seq(Shapes) /\ Len(<<>>) = 0 /\ 0 <= LedgerSize /\ 0 <= MaxRecorded
  BY LedgerAssumption
<1>1. LedgerTypeOK
  <2>1. noted = <<>> /\ Len(noted) = 0 /\ asked = {}
    BY <1>a DEF LedgerInit
  <2>2. position \in [Reviewers -> 0 .. Len(noted)] /\ asked \subseteq 1 .. Len(noted)
    BY <2>1 DEF LedgerInit
  <2>3. noted \in Seq(Shapes) /\ Len(noted) <= MaxRecorded
    BY <1>a, <2>1
  <2> QED
    BY <1>a, <2>2, <2>3 DEF LedgerInit, LedgerTypeOK
<1>2. Flushing = {}
  BY DEF LedgerInit, Flushing
<1>3. Len(noted) + Cardinality(Flushing) <= MaxRecorded
  BY <1>a, <1>2, FS_EmptySet DEF LedgerInit
<1>4. Trimmed(<<>>) = <<>>
  BY <1>a, TrimmedIsTheEnd
<1>5. LedgerRemembers
  BY <1>4 DEF LedgerInit, LedgerRemembers
<1>6. Spaced
  BY <1>a DEF LedgerInit, Spaced
<1> QED
  BY <1>1, <1>3, <1>5, <1>6 DEF LedgerInv, LedgerInit

\* A process that goes elsewhere: it is one more of those that flush, or one less.
LEMMA GoesElsewhere ==
  ASSUME LedgerTypeOK, NEW r \in Reviewers, NEW place \in {"idle", "flush", "recorded"},
         NEW shapes \in SUBSET Shapes, Goes(r, place, shapes)
  PROVE  /\ asking' \in [Reviewers -> {"idle", "flush", "recorded"}]
         /\ about' \in [Reviewers -> SUBSET Shapes]
         /\ asking'[r] = place /\ about'[r] = shapes
         /\ \A o \in Reviewers \ {r} : asking'[o] = asking[o] /\ about'[o] = about[o]
         /\ Cardinality(Flushing) \in Nat /\ Cardinality(Flushing') \in Nat
         /\ place = "flush" => Cardinality(Flushing') <= Cardinality(Flushing) + 1
         /\ place # "flush" => Cardinality(Flushing') <= Cardinality(Flushing)
         /\ place # "flush" /\ asking[r] = "flush" =>
              Cardinality(Flushing') <= Cardinality(Flushing) - 1
<1>1. /\ asking' \in [Reviewers -> {"idle", "flush", "recorded"}]
      /\ about' \in [Reviewers -> SUBSET Shapes]
      /\ asking'[r] = place /\ about'[r] = shapes
      /\ \A o \in Reviewers \ {r} : asking'[o] = asking[o] /\ about'[o] = about[o]
  BY DEF LedgerTypeOK, Goes
<1>2. IsFiniteSet(Flushing) /\ IsFiniteSet(Flushing')
  <2>1. Flushing \subseteq Reviewers /\ Flushing' \subseteq Reviewers
    BY DEF Flushing
  <2> QED
    BY <2>1, LedgerAssumption, FS_Subset
<1>3. Cardinality(Flushing) \in Nat /\ Cardinality(Flushing') \in Nat
  BY <1>2, FS_CardinalityType
<1>4. ASSUME place = "flush" PROVE Cardinality(Flushing') <= Cardinality(Flushing) + 1
  <2>1. Flushing' = Flushing \cup {r}
    BY <1>1, <1>4 DEF Flushing
  <2> QED
    BY <1>2, <1>3, <2>1, FS_AddElement
<1>5. ASSUME place # "flush" PROVE Cardinality(Flushing') <= Cardinality(Flushing)
  <2>1. Flushing' \subseteq Flushing
    BY <1>1, <1>5 DEF Flushing
  <2> QED
    BY <1>2, <2>1, FS_Subset
<1>6. ASSUME place # "flush", asking[r] = "flush"
      PROVE  Cardinality(Flushing') <= Cardinality(Flushing) - 1
  <2>1. Flushing' = Flushing \ {r} /\ r \in Flushing
    BY <1>1, <1>6 DEF Flushing
  <2> QED
    BY <1>2, <1>3, <2>1, FS_RemoveElement
<1> QED
  BY <1>1, <1>3, <1>4, <1>5, <1>6

\* What a process reads, or has read.
LEMMA EntriesAreShort ==
  ASSUME LedgerTypeOK, NEW r \in Reviewers
  PROVE  /\ Entries(r) \in Seq(Shapes) /\ Len(Entries(r)) <= LedgerSize
         /\ ~loaded[r] => Entries(r) = ledger
  BY TrimmedIsTheEnd DEF LedgerTypeOK, Entries

LEMMA SkipsWell ==
  ASSUME LedgerInv, NEW r \in Reviewers, NEW shape \in Shapes, Skips(r, shape)
  PROVE  LedgerInv'
<1>a. LedgerTypeOK /\ LedgerRemembers
  BY DEF LedgerInv
<1>1. /\ asking[r] = "idle"
      /\ loaded' = [loaded EXCEPT ![r] = TRUE]
      /\ entries' = [entries EXCEPT ![r] = Entries(r)]
      /\ UNCHANGED <<ledger, asking, about, noted, position, asked, behind, collided>>
  BY DEF Skips, Loads
<1>2. /\ entries' \in [Reviewers -> Seq(Shapes)] /\ loaded' \in [Reviewers -> BOOLEAN]
      /\ entries'[r] = Entries(r)
      /\ \A o \in Reviewers \ {r} : entries'[o] = entries[o] /\ loaded'[o] = loaded[o]
  BY <1>1, <1>a, EntriesAreShort DEF LedgerTypeOK
<1>3. \A o \in Reviewers : Len(entries'[o]) <= LedgerSize
  BY <1>2, <1>a, EntriesAreShort DEF LedgerTypeOK
<1>4. LedgerTypeOK'
  BY <1>1, <1>2, <1>3, <1>a DEF LedgerTypeOK
<1>5. Flushing' = Flushing
  BY <1>1 DEF Flushing
<1>6. ASSUME ~collided', NEW o \in Reviewers \ behind', loaded'[o]
      PROVE  UpToDate(o)'
  <2>1. CASE o = r
    <3>1. entries'[r] = ledger
      <4>1. CASE loaded[r]
        <5>1. UpToDate(r) /\ Entries(r) = entries[r]
          BY <1>1, <1>6, <1>a, <2>1, <4>1 DEF LedgerRemembers, Entries
        <5> QED
          BY <1>1, <1>2, <5>1 DEF UpToDate
      <4>2. CASE ~loaded[r]
        BY <1>2, <1>a, <4>2, EntriesAreShort
      <4> QED
        BY <4>1, <4>2
    <3> QED
      BY <1>1, <2>1, <3>1 DEF UpToDate
  <2>2. CASE o # r
    <3>1. UpToDate(o)
      BY <1>1, <1>2, <1>6, <1>a, <2>2 DEF LedgerRemembers
    <3> QED
      BY <1>1, <1>2, <2>2, <3>1 DEF UpToDate
  <2> QED
    BY <2>1, <2>2
<1>7. LedgerRemembers'
  BY <1>1, <1>6, <1>a DEF LedgerRemembers
<1>8. Spaced'
  BY <1>1 DEF Spaced, LedgerInv
<1>9. \A o \in Reviewers : /\ asking'[o] = "flush" => loaded'[o]
                           /\ asking'[o] = "recorded" => position'[o] > 0
  BY <1>1, <1>2 DEF LedgerInv
<1> QED
  BY <1>1, <1>4, <1>5, <1>7, <1>8, <1>9 DEF LedgerInv

\* A shape the process does not remember: if it is not behind, the file does not have it.
LEMMA RecordsWell ==
  ASSUME LedgerInv, NEW r \in Reviewers, NEW shape \in Shapes, Records(r, shape)
  PROVE  LedgerInv'
<1>a. LedgerTypeOK /\ LedgerRemembers
  BY DEF LedgerInv
<1>1. /\ asking[r] = "idle"
      /\ Len(noted) + Cardinality(Flushing) < MaxRecorded
      /\ shape \notin ToSet(Entries(r))
      /\ loaded' = [loaded EXCEPT ![r] = TRUE]
      /\ entries' = [entries EXCEPT ![r] = Trimmed(Append(Entries(r), shape))]
      /\ Goes(r, "flush", {shape})
      /\ UNCHANGED <<ledger, noted, position, asked, behind, collided>>
  BY DEF Records, Loads, Flushing
<1>2. Trimmed(Append(Entries(r), shape)) \in Seq(Shapes)
      /\ Len(Trimmed(Append(Entries(r), shape))) <= LedgerSize
  <2>1. Append(Entries(r), shape) \in Seq(Shapes)
    BY <1>a, EntriesAreShort
  <2> QED
    BY <2>1, TrimmedIsTheEnd
<1>3. /\ entries' \in [Reviewers -> Seq(Shapes)] /\ loaded' \in [Reviewers -> BOOLEAN]
      /\ entries'[r] = Trimmed(Append(Entries(r), shape)) /\ loaded'[r]
      /\ \A o \in Reviewers \ {r} : entries'[o] = entries[o] /\ loaded'[o] = loaded[o]
  BY <1>1, <1>2, <1>a DEF LedgerTypeOK
<1>4. {shape} \in SUBSET Shapes
  OBVIOUS
<1>5. /\ asking' \in [Reviewers -> {"idle", "flush", "recorded"}]
      /\ about' \in [Reviewers -> SUBSET Shapes]
      /\ asking'[r] = "flush" /\ about'[r] = {shape}
      /\ \A o \in Reviewers \ {r} : asking'[o] = asking[o] /\ about'[o] = about[o]
      /\ Cardinality(Flushing) \in Nat /\ Cardinality(Flushing') \in Nat
      /\ Cardinality(Flushing') <= Cardinality(Flushing) + 1
  BY <1>1, <1>4, <1>a, GoesElsewhere
<1>6. \A o \in Reviewers : Len(entries'[o]) <= LedgerSize
  BY <1>2, <1>3, <1>a DEF LedgerTypeOK
<1>7. LedgerTypeOK'
  BY <1>1, <1>3, <1>5, <1>6, <1>a DEF LedgerTypeOK
<1>8. Len(noted') + Cardinality(Flushing') <= MaxRecorded
  <2>1. Len(noted) \in Nat /\ noted' = noted
    BY <1>1, <1>a DEF LedgerTypeOK
  <2> QED
    BY <1>1, <1>5, <2>1, LedgerAssumption
<1>9. ASSUME ~collided', NEW o \in Reviewers \ behind', loaded'[o]
      PROVE  UpToDate(o)'
  <2>1. CASE o = r
    <3>1. Entries(r) = ledger
      <4>1. CASE loaded[r]
        <5>1. UpToDate(r) /\ Entries(r) = entries[r]
          BY <1>1, <1>9, <1>a, <2>1, <4>1 DEF LedgerRemembers, Entries
        <5> QED
          BY <1>1, <5>1 DEF UpToDate
      <4>2. CASE ~loaded[r]
        BY <1>a, <4>2, EntriesAreShort
      <4> QED
        BY <4>1, <4>2
    <3> QED
      BY <1>1, <1>3, <1>5, <2>1, <3>1 DEF UpToDate
  <2>2. CASE o # r
    <3>1. UpToDate(o)
      BY <1>1, <1>3, <1>9, <1>a, <2>2 DEF LedgerRemembers
    <3> QED
      BY <1>1, <1>3, <1>5, <2>2, <3>1 DEF UpToDate
  <2> QED
    BY <2>1, <2>2
<1>10. LedgerRemembers'
  BY <1>1, <1>9, <1>a DEF LedgerRemembers
<1>11. Spaced'
  BY <1>1 DEF Spaced, LedgerInv
<1>12. \A o \in Reviewers : /\ asking'[o] = "flush" => loaded'[o]
                            /\ asking'[o] = "recorded" => position'[o] > 0
  BY <1>1, <1>3, <1>5 DEF LedgerInv
<1> QED
  BY <1>7, <1>8, <1>10, <1>11, <1>12 DEF LedgerInv

\* The file becomes what the process has; if it was not behind, that is the end of what
\* has been recorded, and the shape was not among what was remembered: its last
\* recording, if any, is farther back than that.
LEMMA FlushesWell ==
  ASSUME LedgerInv, NEW r \in Reviewers, Flushes(r)
  PROVE  LedgerInv'
<1>a. LedgerTypeOK /\ LedgerRemembers /\ Spaced /\ loaded[r] /\ asking[r] = "flush"
  BY DEF LedgerInv, Flushes
<1>1. PICK shape \in about[r] :
        /\ ledger' = entries[r]
        /\ noted' = Append(noted, shape)
        /\ position' = [position EXCEPT ![r] = Len(noted')]
        /\ collided' = (collided \/ r \in behind)
        /\ behind' = {o \in Reviewers : loaded[o]} \ {r}
        /\ Goes(r, "recorded", {})
        /\ UNCHANGED <<loaded, entries, asked>>
  BY DEF Flushes
<1>2. shape \in Shapes /\ {} \in SUBSET Shapes
  BY <1>1, <1>a DEF LedgerTypeOK
<1>3. /\ asking' \in [Reviewers -> {"idle", "flush", "recorded"}]
      /\ about' \in [Reviewers -> SUBSET Shapes]
      /\ asking'[r] = "recorded" /\ about'[r] = {}
      /\ \A o \in Reviewers \ {r} : asking'[o] = asking[o] /\ about'[o] = about[o]
      /\ Cardinality(Flushing) \in Nat /\ Cardinality(Flushing') \in Nat
      /\ Cardinality(Flushing') <= Cardinality(Flushing) - 1
  BY <1>1, <1>2, <1>a, GoesElsewhere
<1>4. PICK n \in Nat : /\ Len(noted) = n /\ Len(noted') = n + 1
                       /\ noted' \in Seq(Shapes) /\ noted'[n + 1] = shape
                       /\ \A i \in 1 .. n : noted'[i] = noted[i]
  <2>1. noted \in Seq(Shapes) /\ noted' = Append(noted, shape)
    BY <1>1, <1>a DEF LedgerTypeOK
  <2> QED
    BY <1>2, <2>1
<1>5. Len(noted') + Cardinality(Flushing') <= MaxRecorded /\ Len(noted') <= MaxRecorded
  BY <1>3, <1>4, LedgerAssumption DEF LedgerInv
<1>6. collided' \in BOOLEAN
  BY <1>1, <1>a DEF LedgerTypeOK
<1>7. /\ position' \in [Reviewers -> 0 .. n + 1] /\ position'[r] = n + 1
      /\ \A o \in Reviewers \ {r} : position'[o] = position[o]
  <2>1. position \in [Reviewers -> 0 .. n] /\ 0 .. n \subseteq 0 .. n + 1
    BY <1>4, <1>a DEF LedgerTypeOK
  <2> QED
    BY <1>1, <1>4, <2>1
<1>8. LedgerTypeOK'
  <2>1. ledger' \in Seq(Shapes) /\ Len(ledger') <= LedgerSize
    BY <1>1, <1>a DEF LedgerTypeOK
  <2>2. UNCHANGED <<loaded, entries>> /\ behind' \subseteq Reviewers
    BY <1>1
  <2>3. asked' \subseteq 1 .. Len(noted')
    <3>1. asked \subseteq 1 .. n /\ 1 .. n \subseteq 1 .. n + 1
      BY <1>4, <1>a DEF LedgerTypeOK
    <3> QED
      BY <1>1, <1>4, <3>1
  <2> QED
    BY <1>3, <1>4, <1>5, <1>6, <1>7, <1>a, <2>1, <2>2, <2>3 DEF LedgerTypeOK
<1>9. ASSUME ~collided'
      PROVE  /\ ledger' = Trimmed(noted')
             /\ shape \notin ToSet(Trimmed(noted))
  <2>1. ~collided /\ r \notin behind
    BY <1>1, <1>9
  <2>2. ledger = Trimmed(noted) /\ UpToDate(r)
    BY <1>a, <2>1 DEF LedgerRemembers
  <2>3. shape \notin ToSet(ledger) /\ entries[r] = Trimmed(Append(ledger, shape))
    BY <1>1, <1>a, <2>2 DEF UpToDate
  <2>4. Trimmed(Append(Trimmed(noted), shape)) = Trimmed(Append(noted, shape))
    BY <1>2, <1>a, TrimmedAsItGrows DEF LedgerTypeOK
  <2> QED
    BY <1>1, <2>2, <2>3, <2>4
<1>10. ASSUME NEW o \in Reviewers \ behind', loaded'[o]
      PROVE  UpToDate(o)'
  <2>1. o = r
    BY <1>1, <1>10
  <2> QED
    BY <1>1, <1>3, <2>1 DEF UpToDate
<1>11. LedgerRemembers'
  BY <1>9, <1>10 DEF LedgerRemembers
<1>12. Spaced'
  <2> SUFFICES ASSUME ~collided', NEW i \in 1 .. n + 1, NEW j \in 1 .. n + 1,
                      i < j, noted'[i] = noted'[j]
               PROVE  j - i > LedgerSize
    BY <1>4 DEF Spaced
  <2>1. CASE j \in 1 .. n
    <3>1. i \in 1 .. n
      BY <2>1
    <3>2. noted[i] = noted[j]
      BY <1>4, <2>1, <3>1
    <3>3. ~collided
      BY <1>1
    <3> QED
      BY <1>4, <1>a, <2>1, <3>1, <3>2, <3>3 DEF Spaced
  <2>2. CASE j = n + 1
    <3>1. i \in 1 .. n /\ noted[i] = shape
      BY <1>4, <2>2
    <3>2. ~(i > Len(noted) - LedgerSize)
      BY <1>4, <1>9, <1>a, <3>1, TheLastAreKept DEF LedgerTypeOK
    <3> QED
      BY <1>4, <2>2, <3>1, <3>2, LedgerAssumption
  <2> QED
    BY <2>1, <2>2
<1>13. \A o \in Reviewers : /\ asking'[o] = "flush" => loaded'[o]
                            /\ asking'[o] = "recorded" => position'[o] > 0
  BY <1>1, <1>3, <1>4, <1>7 DEF LedgerInv
<1> QED
  BY <1>5, <1>8, <1>11, <1>12, <1>13 DEF LedgerInv

\* A process goes back to where it asks nothing: its question is asked, and it knows what
\* it knew, or its run is over.
LEMMA ReviewerRestsWell ==
  ASSUME LedgerInv, NEW r \in Reviewers, Asks(r) \/ Closes(r)
  PROVE  LedgerInv'
<1>a. LedgerTypeOK /\ LedgerRemembers
  BY DEF LedgerInv
<1>b. /\ Goes(r, "idle", {})
      /\ position' = [position EXCEPT ![r] = 0]
      /\ UNCHANGED <<ledger, noted, collided>>
      /\ asked' \subseteq asked \cup {position[r]}
      /\ asked' = asked \/ asking[r] = "recorded"
      /\ \/ asking[r] = "recorded" /\ UNCHANGED <<loaded, entries, behind>>
         \/ /\ loaded' = [loaded EXCEPT ![r] = FALSE]
            /\ entries' = [entries EXCEPT ![r] = <<>>]
            /\ behind' = behind \ {r}
  BY DEF Asks, Closes
<1>1. /\ asking' \in [Reviewers -> {"idle", "flush", "recorded"}]
      /\ about' \in [Reviewers -> SUBSET Shapes]
      /\ asking'[r] = "idle" /\ about'[r] = {}
      /\ \A o \in Reviewers \ {r} : asking'[o] = asking[o] /\ about'[o] = about[o]
      /\ Cardinality(Flushing) \in Nat /\ Cardinality(Flushing') \in Nat
      /\ Cardinality(Flushing') <= Cardinality(Flushing)
  BY <1>a, <1>b, GoesElsewhere
<1>2. /\ entries' \in [Reviewers -> Seq(Shapes)] /\ loaded' \in [Reviewers -> BOOLEAN]
      /\ entries'[r] \in {entries[r], <<>>}
      /\ \A o \in Reviewers \ {r} : entries'[o] = entries[o] /\ loaded'[o] = loaded[o]
      /\ behind' \subseteq Reviewers /\ behind \ {r} = behind' \ {r}
  <2>1. <<>> \in Seq(Shapes)
    OBVIOUS
  <2> QED
    BY <1>a, <1>b, <2>1 DEF LedgerTypeOK
<1>3. \A o \in Reviewers : Len(entries'[o]) <= LedgerSize
  <2>1. Len(<<>>) = 0 /\ 0 <= LedgerSize
    BY LedgerAssumption
  <2> QED
    BY <1>2, <1>a, <2>1 DEF LedgerTypeOK
<1>4. PICK n \in Nat : Len(noted) = n /\ Len(noted') = n
  BY <1>a, <1>b DEF LedgerTypeOK
<1>5. /\ position' \in [Reviewers -> 0 .. n] /\ asked' \subseteq 1 .. n
      /\ \A o \in Reviewers \ {r} : position'[o] = position[o]
  <2>1. position \in [Reviewers -> 0 .. n] /\ asked \subseteq 1 .. n
    BY <1>4, <1>a DEF LedgerTypeOK
  <2>2. asking[r] = "recorded" => position[r] \in 1 .. n
    BY <2>1 DEF LedgerInv
  <2> QED
    BY <1>b, <2>1, <2>2
<1>6. LedgerTypeOK'
  BY <1>1, <1>2, <1>3, <1>4, <1>5, <1>a, <1>b DEF LedgerTypeOK
<1>7. Len(noted') + Cardinality(Flushing') <= MaxRecorded
  BY <1>1, <1>4, LedgerAssumption DEF LedgerInv
<1>8. ASSUME ~collided', NEW o \in Reviewers \ behind', loaded'[o]
      PROVE  UpToDate(o)'
  <2>1. CASE o = r
    <3>1. asking[r] = "recorded" /\ UNCHANGED <<loaded, entries, behind>>
      BY <1>8, <1>a, <1>b, <2>1 DEF LedgerTypeOK
    <3>2. UpToDate(r)
      BY <1>8, <1>a, <1>b, <2>1, <3>1 DEF LedgerRemembers
    <3> QED
      BY <1>1, <1>b, <2>1, <3>1, <3>2 DEF UpToDate
  <2>2. CASE o # r
    <3>1. UpToDate(o)
      BY <1>2, <1>8, <1>a, <1>b, <2>2 DEF LedgerRemembers
    <3> QED
      BY <1>1, <1>2, <1>b, <2>2, <3>1 DEF UpToDate
  <2> QED
    BY <2>1, <2>2
<1>9. LedgerRemembers'
  BY <1>8, <1>a, <1>b DEF LedgerRemembers
<1>10. Spaced'
  BY <1>b DEF Spaced, LedgerInv
<1>11. \A o \in Reviewers : /\ asking'[o] = "flush" => loaded'[o]
                            /\ asking'[o] = "recorded" => position'[o] > 0
  BY <1>1, <1>2, <1>5 DEF LedgerInv
<1> QED
  BY <1>6, <1>7, <1>9, <1>10, <1>11 DEF LedgerInv

LEMMA LedgerGoesOn == LedgerInv /\ [LedgerNext]_ledgerVars => LedgerInv'
<1> SUFFICES ASSUME LedgerInv, [LedgerNext]_ledgerVars PROVE LedgerInv'
  OBVIOUS
<1>1. ASSUME NEW r \in Reviewers, FlushFails(r) \/ Asks(r) \/ FailsToAsk(r) \/ Ends(r)
      PROVE  LedgerInv'
  BY <1>1, ReviewerRestsWell DEF FlushFails, FailsToAsk, Ends
<1>2. CASE UNCHANGED ledgerVars
  <2>1. LedgerTypeOK'
    BY <1>2 DEF ledgerVars, LedgerInv, LedgerTypeOK
  <2> QED
    BY <1>2, <2>1 DEF ledgerVars, LedgerInv, LedgerRemembers, Spaced, UpToDate, Flushing
<1> QED
  BY <1>1, <1>2, SkipsWell, RecordsWell, FlushesWell DEF LedgerNext

LEMMA UpkeepMovesLedger ==
  [Next]_<<memoryVars, ledgerVars, clockVars>> => [LedgerNext]_ledgerVars
  BY DEF Next

\* As long as no process writes over what another has written since it read the file, two
\* questions about one shape are LedgerSize recordings apart (ledger.go: Record), whether
\* or not the question of each recording was asked.
THEOREM NothingIsAskedTwice == Spec => []AskedOnceWhileRemembered
<1>1. Init => LedgerInv
  BY LedgerBegins DEF Init
<1>2. LedgerInv => AskedOnceWhileRemembered
  BY DEF LedgerInv, LedgerTypeOK, Spaced, AskedOnceWhileRemembered
<1> QED
  BY <1>1, <1>2, UpkeepMovesLedger, LedgerGoesOn, PTL DEF Spec

-----------------------------------------------------------------------------
(* The memories.                                                           *)

Places == {"idle", "running", "using", "truncate", "write", "reviewing"}

Distinct(q) == \A i, j \in 1 .. Len(q) : i < j => q[i] # q[j]

\* A program that is about to save has what it saves; a session that notes what it used
\* has something to note, and notes nothing twice.
Sane ==
  /\ \A u \in Users : doing[u] \in {"truncate", "write"} <=> target[u] # NoId
  /\ \A u \in Users : target[u] # NoId => copy[u].file = "whole"
  /\ \A s \in Sessions : doing[s] = "using" => recalled[s] # <<>>
  /\ \A s \in Sessions : Distinct(recalled[s])

\* The sessions that may still note that they used n.
Pending(n) == {s \in Sessions : n \in ToSet(recalled[s])}

\* A memory, or what will be saved over it, was used once for each turn at most.
UsesAreCounted ==
  \A n \in Ids :
    /\ Cardinality(Pending(n)) + memory[n].uses <= turns
    /\ \A u \in Users : target[u] = n => Cardinality(Pending(n)) + copy[u].uses <= turns

\* A memory that was forgotten is gone, and who is about to save it loaded it before.
ForgottenAreGone ==
  \A n \in forgotten \ overwritten :
    memory[n].file = "absent" /\ \A u \in Users : target[u] = n => u \in stale

\* A memory that was pinned is there, and pinned if it can be read; a session that loaded
\* it since saves it as it is.
WantedArePinned ==
  \A n \in wanted \ overwritten :
    /\ memory[n].file # "absent"
    /\ memory[n].file = "whole" => memory[n].pinned
    /\ \A s \in Sessions : target[s] = n => copy[s].pinned \/ s \in stale

MemoryInv == MemoryTypeOK /\ Sane /\ UsesAreCounted /\ ForgottenAreGone /\ WantedArePinned

LEMMA MemoriesAreTyped ==
  /\ Absent \in Memory /\ Torn \in Memory
  /\ \A words \in SUBSET Words : Fact(words) \in Memory
  /\ Absent.uses = 0 /\ Absent.file = "absent" /\ ~Absent.pinned
  /\ Torn.uses = 0 /\ Torn.file = "torn" /\ ~Torn.pinned
  /\ \A words : Fact(words).uses = 0 /\ Fact(words).file = "whole" /\ ~Fact(words).pinned
<1>1. 0 \in 0 .. MaxTurns
  BY MemoryAssumption
<1> QED
  BY <1>1 DEF Absent, Torn, Fact, Memory

LEMMA PendingIsFinite ==
  \A n : IsFiniteSet(Pending(n)) /\ Cardinality(Pending(n)) \in Nat
<1> SUFFICES ASSUME NEW n PROVE IsFiniteSet(Pending(n)) /\ Cardinality(Pending(n)) \in Nat
  OBVIOUS
<1>1. Pending(n) \subseteq Sessions
  BY DEF Pending
<1>2. IsFiniteSet(Pending(n))
  BY <1>1, MemoryAssumption, FS_Subset
<1> QED
  BY <1>2, FS_CardinalityType

LEMMA MemoryBegins == MemoryInit => MemoryInv
<1> SUFFICES ASSUME MemoryInit PROVE MemoryInv
  OBVIOUS
<1>1. PICK words \in [1 .. Known -> SUBSET Words \ {{}}] :
        memory = [n \in Ids |-> IF n <= Known THEN Fact(words[n]) ELSE Absent]
  BY DEF MemoryInit
<1>2. memory \in [Ids -> Memory] /\ \A n \in Ids : memory[n].uses = 0
  <2>1. ASSUME NEW n \in Ids
        PROVE  memory[n] \in Memory /\ memory[n].uses = 0
    <3>1. CASE n <= Known
      <4>1. n \in 1 .. Known
        BY <3>1, MemoryAssumption DEF Ids
      <4>2. memory[n] = Fact(words[n]) /\ words[n] \in SUBSET Words
        BY <1>1, <3>1, <4>1
      <4> QED
        BY <4>2, MemoriesAreTyped
    <3>2. CASE ~(n <= Known)
      BY <1>1, <3>2, MemoriesAreTyped
    <3> QED
      BY <3>1, <3>2
  <2> QED
    BY <1>1, <2>1
<1>3. <<>> \in Seq(Ids) /\ Len(<<>>) = 0
  OBVIOUS
<1>4. recalled = [s \in Sessions |-> <<>>] /\ turns = 0 /\ orders = 0
  BY DEF MemoryInit
<1>5. MemoryTypeOK
  <2>1. /\ doing \in [Users -> Places]
        /\ target \in [Users -> Ids \cup {NoId}] /\ copy \in [Users -> Memory]
    BY MemoriesAreTyped DEF MemoryInit, Places
  <2>2. turns \in 0 .. MaxTurns /\ orders \in 0 .. MaxOrders /\ 0 <= RecallLimit
    BY <1>4, MemoryAssumption
  <2>3. {forgotten, wanted, overwritten} \subseteq SUBSET Ids /\ stale \subseteq Sessions
    BY DEF MemoryInit
  <2> QED
    BY <1>2, <1>3, <1>4, <2>1, <2>2, <2>3 DEF MemoryTypeOK, Places
<1>6. Sane
  <2>1. \A u \in Users : doing[u] = "idle" /\ target[u] = NoId
    BY DEF MemoryInit
  <2>2. \A s \in Sessions : s \in Users /\ Len(recalled[s]) = 0
    BY <1>3, <1>4 DEF Users
  <2> QED
    BY <2>1, <2>2 DEF Sane, Distinct
<1>7. UsesAreCounted
  <2>1. \A n : Pending(n) = {}
    BY <1>4 DEF Pending, ToSet
  <2>2. \A n \in Ids, u \in Users : target[u] # n
    BY DEF MemoryInit, Ids, NoId
  <2> QED
    <3>1. \A n \in Ids : Cardinality(Pending(n)) = 0
      BY <2>1, FS_EmptySet
    <3> QED
      BY <1>2, <1>4, <2>2, <3>1 DEF UsesAreCounted
<1>8. ForgottenAreGone /\ WantedArePinned
  BY DEF MemoryInit, ForgottenAreGone, WantedArePinned
<1> QED
  BY <1>5, <1>6, <1>7, <1>8 DEF MemoryInv

LEMMA BecomesWell ==
  ASSUME MemoryTypeOK, NEW u \in Users, NEW place \in Places, Becomes(u, place)
  PROVE  /\ doing' \in [Users -> Places]
         /\ doing'[u] = place
         /\ \A o \in Users \ {u} : doing'[o] = doing[o]
  BY DEF MemoryTypeOK, Becomes, Places

LEMMA HoldsWell ==
  ASSUME MemoryTypeOK, NEW u \in Users, NEW n \in Ids \cup {NoId}, NEW m \in Memory, Holds(u, n, m)
  PROVE  /\ target' \in [Users -> Ids \cup {NoId}] /\ copy' \in [Users -> Memory]
         /\ target'[u] = n /\ copy'[u] = m
         /\ \A o \in Users \ {u} : target'[o] = target[o] /\ copy'[o] = copy[o]
  BY DEF MemoryTypeOK, Holds

\* Once a command on a memory takes effect, every session about to save it is out of date.
LEMMA TakesEffectWell ==
  ASSUME MemoryInv, NEW n \in Ids, TakesEffect(n)
  PROVE  /\ stale' \subseteq Sessions /\ stale \subseteq stale'
         /\ overwritten' = overwritten \ {n} /\ overwritten' \in SUBSET Ids
         /\ \A s \in Sessions : target[s] = n => s \in stale'
<1>1. overwritten \in SUBSET Ids /\ stale \subseteq Sessions
  BY DEF MemoryInv, MemoryTypeOK
<1>2. \A s \in Sessions : target[s] = n => Saving(s, n)
  BY DEF MemoryInv, Sane, Saving, Ids, NoId, Users
<1> QED
  BY <1>1, <1>2 DEF TakesEffect

LEMMA OverwritesWell ==
  ASSUME MemoryInv, NEW u \in Users, target[u] \in Ids, Overwrites(u)
  PROVE  /\ overwritten' \in SUBSET Ids /\ overwritten \subseteq overwritten'
         /\ u \in stale => target[u] \in overwritten'
BY DEF MemoryInv, MemoryTypeOK, Overwrites

\* When no session has more to note, the counts hold as long as nothing is saved that was
\* not loaded.
LEMMA UsesStayCounted ==
  ASSUME MemoryInv, MemoryTypeOK', turns' = turns,
         \A s \in Sessions : ToSet(recalled'[s]) \subseteq ToSet(recalled[s]),
         \A n \in Ids : \/ memory'[n].uses \in {memory[n].uses, 0}
                        \/ \E u \in Users : target[u] = n /\ memory'[n].uses = copy[u].uses,
         \A u \in Users : target'[u] # NoId =>
           \/ target'[u] = target[u] /\ copy'[u] = copy[u]
           \/ copy'[u].uses \in {memory[target'[u]].uses, 0}
  PROVE  UsesAreCounted'
<1>a. MemoryTypeOK /\ UsesAreCounted
  BY DEF MemoryInv
<1>1. \A n \in Ids : /\ Cardinality(Pending(n)) \in Nat /\ Cardinality(Pending(n)') \in Nat
                     /\ Cardinality(Pending(n)') <= Cardinality(Pending(n))
  <2> SUFFICES ASSUME NEW n \in Ids
               PROVE  /\ Cardinality(Pending(n)) \in Nat /\ Cardinality(Pending(n)') \in Nat
                      /\ Cardinality(Pending(n)') <= Cardinality(Pending(n))
    OBVIOUS
  <2>1. Pending(n)' \subseteq Pending(n)
    BY DEF Pending
  <2>2. IsFiniteSet(Pending(n)) /\ Cardinality(Pending(n)) \in Nat
    BY PendingIsFinite
  <2> QED
    BY <2>1, <2>2, FS_Subset, FS_CardinalityType
<1>2. \A n \in Ids : memory[n].uses \in Nat /\ memory'[n].uses \in Nat
  BY <1>a, MemoryAssumption DEF MemoryTypeOK, Memory
<1>3. \A u \in Users : copy[u].uses \in Nat /\ copy'[u].uses \in Nat
  BY <1>a, MemoryAssumption DEF MemoryTypeOK, Memory
<1>4. turns \in Nat
  BY <1>a, MemoryAssumption DEF MemoryTypeOK
<1>5. ASSUME NEW n \in Ids
      PROVE  Cardinality(Pending(n)') + memory'[n].uses <= turns'
  <2>1. PICK p \in Nat, q \in Nat :
          p = Cardinality(Pending(n)) /\ q = Cardinality(Pending(n)') /\ q <= p
    BY <1>1
  <2>2. PICK a \in Nat, b \in Nat : a = memory[n].uses /\ b = memory'[n].uses
    BY <1>2
  <2>3. p + a <= turns /\ \A u \in Users : target[u] = n => p + copy[u].uses <= turns
    BY <1>a, <2>1, <2>2 DEF UsesAreCounted
  <2>4. b = a \/ b = 0 \/ \E u \in Users : target[u] = n /\ b = copy[u].uses
    BY <2>2
  <2>5. p + b <= turns
    BY <1>4, <2>3, <2>4
  <2> QED
    BY <1>4, <2>1, <2>2, <2>5
<1>6. ASSUME NEW n \in Ids, NEW u \in Users, target'[u] = n
      PROVE  Cardinality(Pending(n)') + copy'[u].uses <= turns'
  <2>1. PICK p \in Nat, q \in Nat :
          p = Cardinality(Pending(n)) /\ q = Cardinality(Pending(n)') /\ q <= p
    BY <1>1
  <2>2. PICK a \in Nat, b \in Nat, c \in Nat :
          a = memory[n].uses /\ b = copy'[u].uses /\ c = copy[u].uses
    BY <1>2, <1>3
  <2>3. p + a <= turns /\ (target[u] = n => p + c <= turns)
    BY <1>a, <2>1, <2>2 DEF UsesAreCounted
  <2>4. b = a \/ b = 0 \/ (target[u] = n /\ b = c)
    BY <1>6, <2>2 DEF Ids, NoId
  <2>5. p + b <= turns
    BY <1>4, <2>3, <2>4
  <2> QED
    BY <1>4, <2>1, <2>2, <2>5
<1> QED
  BY <1>5, <1>6 DEF UsesAreCounted

LEMMA TruncatesMemoryWell ==
  ASSUME MemoryInv, NEW u \in Users, Truncates(u)
  PROVE  MemoryInv'
<1>a. MemoryTypeOK /\ Sane /\ ForgottenAreGone /\ WantedArePinned
  BY DEF MemoryInv
<1>1. PICK n \in Ids : n = target[u]
  BY <1>a DEF Truncates, Sane, MemoryTypeOK
<1>2. /\ memory' = [memory EXCEPT ![n] = Torn]
      /\ doing[u] = "truncate" /\ Becomes(u, "write")
      /\ Overwrites(u)
      /\ UNCHANGED <<recalled, target, copy, turns, orders, forgotten, wanted, stale>>
  BY <1>1 DEF Truncates
<1>3. /\ doing' \in [Users -> Places] /\ doing'[u] = "write"
      /\ \A o \in Users \ {u} : doing'[o] = doing[o]
  BY <1>2, <1>a, BecomesWell DEF Places
<1>4. /\ overwritten' \in SUBSET Ids /\ overwritten \subseteq overwritten'
      /\ u \in stale => n \in overwritten'
  BY <1>1, <1>2, OverwritesWell
<1>5. /\ memory' \in [Ids -> Memory] /\ memory'[n] = Torn
      /\ \A k \in Ids \ {n} : memory'[k] = memory[k]
  BY <1>2, <1>a, MemoriesAreTyped DEF MemoryTypeOK
<1>6. MemoryTypeOK'
  BY <1>2, <1>3, <1>4, <1>5, <1>a DEF MemoryTypeOK, Places
<1>7. Sane'
  BY <1>1, <1>2, <1>3, <1>a DEF Sane, Users
<1>8. UsesAreCounted'
  <2>1. \A k \in Ids : memory'[k].uses \in {memory[k].uses, 0}
    BY <1>5, MemoriesAreTyped
  <2> QED
    BY <1>2, <1>6, <2>1, UsesStayCounted
<1>9. ForgottenAreGone'
  BY <1>1, <1>2, <1>4, <1>5, <1>a DEF ForgottenAreGone
<1>10. WantedArePinned'
  BY <1>2, <1>4, <1>5, <1>a, MemoriesAreTyped DEF WantedArePinned
<1> QED
  BY <1>6, <1>7, <1>8, <1>9, <1>10 DEF MemoryInv

\* What is saved is what the operator says, or what he said last -- unless a session had
\* loaded it before that.
LEMMA WritesMemoryWell ==
  ASSUME MemoryInv, NEW u \in Users, Writes(u)
  PROVE  MemoryInv'
<1>a. MemoryTypeOK /\ Sane /\ ForgottenAreGone /\ WantedArePinned
  BY DEF MemoryInv
<1>1. PICK n \in Ids : n = target[u]
  BY <1>a DEF Writes, Sane, MemoryTypeOK
<1>2. PICK place \in Places :
        /\ Becomes(u, place)
        /\ place = "using" => u \in Sessions /\ recalled[u] # <<>>
        /\ place \notin {"truncate", "write"}
  BY DEF Writes, Places
<1>3. /\ memory' = [memory EXCEPT ![n] = copy[u]]
      /\ doing[u] = "write"
      /\ Holds(u, NoId, Absent)
      /\ UNCHANGED <<recalled, turns, orders>>
  BY <1>1 DEF Writes
<1>4. /\ doing' \in [Users -> Places] /\ doing'[u] = place
      /\ \A o \in Users \ {u} : doing'[o] = doing[o]
  BY <1>2, <1>a, BecomesWell
<1>5. /\ target' \in [Users -> Ids \cup {NoId}] /\ copy' \in [Users -> Memory]
      /\ target'[u] = NoId
      /\ \A o \in Users \ {u} : target'[o] = target[o] /\ copy'[o] = copy[o]
  BY <1>3, <1>a, HoldsWell, MemoriesAreTyped
<1>b. ASSUME u = Operator
      PROVE  /\ TakesEffect(n)
             /\ wanted' = (IF copy[u].pinned THEN wanted \cup {n} ELSE wanted \ {n})
             /\ forgotten' = forgotten \ {n}
  BY <1>1, <1>b DEF Writes
<1>c. ASSUME u # Operator
      PROVE  /\ Overwrites(u) /\ stale' = stale \ {u} /\ u \in Sessions
             /\ UNCHANGED <<wanted, forgotten>>
  BY <1>c DEF Writes, Users
<1>6. overwritten' \in SUBSET Ids /\ stale' \subseteq Sessions
  <2>1. CASE u = Operator
    BY <1>b, <2>1, TakesEffectWell
  <2>2. CASE u # Operator
    BY <1>1, <1>c, <1>a, <2>2, OverwritesWell DEF MemoryTypeOK
  <2> QED
    BY <2>1, <2>2
<1>7. /\ memory' \in [Ids -> Memory] /\ memory'[n] = copy[u]
      /\ \A k \in Ids \ {n} : memory'[k] = memory[k]
      /\ copy[u].file = "whole"
  BY <1>1, <1>3, <1>a DEF MemoryTypeOK, Sane, Ids, NoId
<1>8. wanted' \in SUBSET Ids /\ forgotten' \in SUBSET Ids
  BY <1>b, <1>c, <1>a DEF MemoryTypeOK
<1>9. MemoryTypeOK'
  BY <1>3, <1>4, <1>5, <1>6, <1>7, <1>8, <1>a DEF MemoryTypeOK, Places
<1>10. Sane'
  <2>1. \A o \in Users : /\ doing'[o] \in {"truncate", "write"} <=> target'[o] # NoId
                         /\ target'[o] # NoId => copy'[o].file = "whole"
    BY <1>2, <1>4, <1>5, <1>a DEF Sane
  <2>2. \A s \in Sessions : doing'[s] = "using" => recalled'[s] # <<>>
    BY <1>2, <1>3, <1>4, <1>a DEF Sane, Users
  <2> QED
    BY <1>3, <1>a, <2>1, <2>2 DEF Sane
<1>11. UsesAreCounted'
  <2>1. \A k \in Ids : \/ memory'[k].uses \in {memory[k].uses, 0}
                       \/ \E o \in Users : target[o] = k /\ memory'[k].uses = copy[o].uses
    BY <1>1, <1>7
  <2>2. \A o \in Users : target'[o] # NoId => target'[o] = target[o] /\ copy'[o] = copy[o]
    BY <1>5
  <2> QED
    BY <1>3, <1>9, <2>1, <2>2, UsesStayCounted
\* What is true of the other memories stays true.
<1>12. ASSUME NEW k \in Ids, k # n
       PROVE  /\ k \in forgotten' <=> k \in forgotten
              /\ k \in wanted' <=> k \in wanted
              /\ k \in overwritten => k \in overwritten'
              /\ \A o \in Users : target'[o] = k =>
                   target[o] = k /\ copy'[o] = copy[o] /\ (o \in stale => o \in stale')
  <2>1. \A o \in Users : target'[o] = k => o # u /\ target[o] = k /\ copy'[o] = copy[o]
    BY <1>5 DEF Ids, NoId
  <2>2. CASE u = Operator
    <3>1. /\ TakesEffect(n) /\ forgotten' = forgotten \ {n}
          /\ wanted' = wanted \cup {n} \/ wanted' = wanted \ {n}
      BY <1>b, <2>2
    <3>2. overwritten' = overwritten \ {n} /\ stale \subseteq stale'
      BY <3>1, TakesEffectWell
    <3> QED
      BY <1>12, <2>1, <3>1, <3>2
  <2>3. CASE u # Operator
    BY <1>1, <1>c, <2>1, <2>3, OverwritesWell
  <2> QED
    BY <2>2, <2>3
<1>13. ForgottenAreGone'
  <2> SUFFICES ASSUME NEW k \in forgotten' \ overwritten'
               PROVE  /\ memory'[k].file = "absent"
                      /\ \A o \in Users : target'[o] = k => o \in stale'
    BY DEF ForgottenAreGone
  <2>1. k # n
    <3>1. CASE u = Operator
      BY <1>b, <3>1
    <3>2. CASE u # Operator
      BY <1>1, <1>a, <1>c, <3>2, OverwritesWell DEF ForgottenAreGone
    <3> QED
      BY <3>1, <3>2
  <2> QED
    BY <1>7, <1>8, <1>12, <1>a, <2>1 DEF ForgottenAreGone
<1>14. WantedArePinned'
  <2> SUFFICES ASSUME NEW k \in wanted' \ overwritten'
               PROVE  /\ memory'[k].file # "absent"
                      /\ memory'[k].file = "whole" => memory'[k].pinned
                      /\ \A s \in Sessions : target'[s] = k => copy'[s].pinned \/ s \in stale'
    BY DEF WantedArePinned
  <2>1. CASE k = n
    <3>1. \A s \in Sessions : target'[s] = n => s # u /\ target[s] = n /\ copy'[s] = copy[s]
      BY <1>5 DEF Ids, NoId, Users
    <3>2. CASE u = Operator
      BY <1>7, <1>b, <2>1, <3>1, <3>2, TakesEffectWell
    <3>3. CASE u # Operator
      <4>1. n \in wanted \ overwritten /\ u \in Sessions /\ u \notin stale
        BY <1>1, <1>c, <2>1, <3>3, OverwritesWell
      <4> QED
        BY <1>1, <1>7, <1>a, <1>c, <2>1, <3>1, <3>3, <4>1 DEF WantedArePinned
    <3> QED
      BY <3>2, <3>3
  <2>2. CASE k # n
    <3>1. k \in Ids /\ k \in wanted \ overwritten
      BY <1>8, <1>12, <2>2
    <3>2. \A s \in Sessions : s \in Users
      BY DEF Users
    <3> QED
      BY <1>7, <1>12, <1>a, <2>2, <3>1, <3>2 DEF WantedArePinned
  <2> QED
    BY <2>1, <2>2
<1> QED
  BY <1>9, <1>10, <1>11, <1>13, <1>14 DEF MemoryInv

\* What remains of a list when its first element is taken.
LEMMA RestOfTheList ==
  ASSUME NEW S, NEW q \in Seq(S), q # <<>>, Distinct(q)
  PROVE  /\ Head(q) \in S /\ Head(q) \in ToSet(q)
         /\ Tail(q) \in Seq(S) /\ Len(Tail(q)) <= Len(q)
         /\ Distinct(Tail(q))
         /\ ToSet(Tail(q)) \subseteq ToSet(q) \ {Head(q)}
<1>1. PICK n \in Nat : Len(q) = n + 1
  <2>1. Len(q) \in Nat /\ Len(q) # 0
    OBVIOUS
  <2> QED
    BY <2>1
<1>2. /\ Head(q) = q[1] /\ 1 \in 1 .. Len(q) /\ DOMAIN q = 1 .. Len(q)
      /\ Tail(q) \in Seq(S) /\ Len(Tail(q)) = n
      /\ \A i \in 1 .. n : Tail(q)[i] = q[i + 1]
  BY <1>1
<1>3. Head(q) \in S /\ Head(q) \in ToSet(q)
  BY <1>2 DEF ToSet
<1>4. Distinct(Tail(q))
  BY <1>1, <1>2 DEF Distinct
<1>5. ASSUME NEW e \in ToSet(Tail(q)) PROVE e \in ToSet(q) /\ e # Head(q)
  <2>1. PICK i \in 1 .. n : e = q[i + 1]
    BY <1>2 DEF ToSet
  <2>2. i + 1 \in 1 .. Len(q) /\ 1 < i + 1
    BY <1>1
  <2> QED
    BY <1>2, <2>1, <2>2 DEF ToSet, Distinct
<1> QED
  BY <1>1, <1>2, <1>3, <1>4, <1>5

\* Whatever is loaded, or made anew, is not what was forgotten, and as it was pinned.
LEMMA WordStands ==
  ASSUME MemoryInv, UNCHANGED <<memory, forgotten, wanted, overwritten>>,
         \A u \in Users : target'[u] # NoId /\ u \in stale => u \in stale',
         \A u \in Users : target'[u] # NoId =>
           \/ target'[u] = target[u] /\ copy'[u] = copy[u]
           \/ /\ memory[target'[u]].file = "whole"
              /\ u \in Sessions => copy'[u].pinned = memory[target'[u]].pinned
           \/ memory[target'[u]].file = "absent" /\ target'[u] \notin forgotten
  PROVE  ForgottenAreGone' /\ WantedArePinned'
<1>a. MemoryTypeOK /\ ForgottenAreGone /\ WantedArePinned
  BY DEF MemoryInv
<1>1. \A n \in Ids : n # NoId
  BY DEF Ids, NoId
<1>2. forgotten \subseteq Ids /\ wanted \subseteq Ids
  BY <1>a DEF MemoryTypeOK
<1>3. ASSUME NEW n \in forgotten \ overwritten
      PROVE  memory[n].file = "absent" /\ \A u \in Users : target'[u] = n => u \in stale'
  BY <1>1, <1>2, <1>3, <1>a DEF ForgottenAreGone
<1>4. ASSUME NEW n \in wanted \ overwritten, NEW s \in Sessions, target'[s] = n
      PROVE  copy'[s].pinned \/ s \in stale'
  <2>1. s \in Users /\ target'[s] # NoId
    BY <1>1, <1>2, <1>4 DEF Users
  <2>2. /\ memory[n].file # "absent"
        /\ memory[n].file = "whole" => memory[n].pinned
        /\ target[s] = n => copy[s].pinned \/ s \in stale
    BY <1>4, <1>a DEF WantedArePinned
  <2> QED
    BY <1>4, <2>1, <2>2
<1> QED
  BY <1>3, <1>4, <1>a DEF ForgottenAreGone, WantedArePinned

LEMMA DiesWell ==
  ASSUME MemoryInv, NEW u \in Users, Dies(u)
  PROVE  MemoryInv'
<1>a. MemoryTypeOK /\ Sane
  BY DEF MemoryInv
<1>1. /\ Becomes(u, "idle") /\ Holds(u, NoId, Absent)
      /\ recalled' = [s \in Sessions |-> IF s = u THEN <<>> ELSE recalled[s]]
      /\ stale' = stale \ {u}
      /\ UNCHANGED <<memory, turns, orders, forgotten, wanted, overwritten>>
  BY DEF Dies
<1>2. /\ doing' \in [Users -> Places] /\ doing'[u] = "idle"
      /\ \A o \in Users \ {u} : doing'[o] = doing[o]
  BY <1>1, <1>a, BecomesWell DEF Places
<1>3. /\ target' \in [Users -> Ids \cup {NoId}] /\ copy' \in [Users -> Memory]
      /\ target'[u] = NoId
      /\ \A o \in Users \ {u} : target'[o] = target[o] /\ copy'[o] = copy[o]
  BY <1>1, <1>a, HoldsWell, MemoriesAreTyped
<1>4. <<>> \in Seq(Ids) /\ Len(<<>>) = 0 /\ ToSet(<<>>) = {} /\ 0 <= RecallLimit
  BY MemoryAssumption DEF ToSet
<1>5. recalled' \in [Sessions -> Seq(Ids)] /\ \A s \in Sessions : recalled'[s] \in {<<>>, recalled[s]}
  BY <1>1, <1>4, <1>a DEF MemoryTypeOK
<1>6. \A s \in Sessions : Len(recalled'[s]) <= RecallLimit
  BY <1>4, <1>5, <1>a DEF MemoryTypeOK
<1>7. MemoryTypeOK'
  BY <1>1, <1>2, <1>3, <1>5, <1>6, <1>a DEF MemoryTypeOK, Places
<1>8. Sane'
  <2>1. \A o \in Users : /\ doing'[o] \in {"truncate", "write"} <=> target'[o] # NoId
                         /\ target'[o] # NoId => copy'[o].file = "whole"
    BY <1>2, <1>3, <1>a DEF Sane
  <2>2. \A s \in Sessions : doing'[s] = "using" => recalled'[s] # <<>>
    BY <1>1, <1>2, <1>a DEF Sane, Users
  <2>3. Distinct(<<>>)
    BY <1>4 DEF Distinct
  <2> QED
    BY <1>5, <1>a, <2>1, <2>2, <2>3 DEF Sane
<1>9. UsesAreCounted'
  <2>1. \A s \in Sessions : ToSet(recalled'[s]) \subseteq ToSet(recalled[s])
    BY <1>4, <1>5
  <2>2. \A o \in Users : target'[o] # NoId => target'[o] = target[o] /\ copy'[o] = copy[o]
    BY <1>3
  <2> QED
    BY <1>1, <1>7, <2>1, <2>2, UsesStayCounted
<1>10. ForgottenAreGone' /\ WantedArePinned'
  <2>1. \A o \in Users : target'[o] # NoId => target'[o] = target[o] /\ copy'[o] = copy[o]
    BY <1>3
  <2>2. \A o \in Users : target'[o] # NoId /\ o \in stale => o \in stale'
    BY <1>1, <1>3
  <2> QED
    BY <1>1, <2>1, <2>2, WordStands
<1> QED
  BY <1>7, <1>8, <1>9, <1>10 DEF MemoryInv

\* A session goes on without loading anything; what it has to note gets no longer.
LEMMA MovesOnWell ==
  ASSUME MemoryInv, NEW s \in Sessions, NEW place \in {"idle", "using", "reviewing"},
         doing[s] \in {"running", "using", "reviewing"}, Becomes(s, place),
         NEW q \in Seq(Ids), recalled' = [recalled EXCEPT ![s] = q],
         Len(q) <= RecallLimit, Distinct(q), ToSet(q) \subseteq ToSet(recalled[s]),
         place = "using" => q # <<>>,
         UNCHANGED <<memory, target, copy, turns, orders, forgotten, wanted, stale, overwritten>>
  PROVE  MemoryInv'
<1>a. MemoryTypeOK /\ Sane /\ s \in Users
  BY DEF MemoryInv, Users
<1>1. /\ doing' \in [Users -> Places] /\ doing'[s] = place
      /\ \A o \in Users \ {s} : doing'[o] = doing[o]
  BY <1>a, BecomesWell DEF Places
<1>2. /\ recalled' \in [Sessions -> Seq(Ids)] /\ recalled'[s] = q
      /\ \A o \in Sessions \ {s} : recalled'[o] = recalled[o]
  BY <1>a DEF MemoryTypeOK
<1>3. \A o \in Sessions : Len(recalled'[o]) <= RecallLimit
  BY <1>2, <1>a DEF MemoryTypeOK
<1>4. MemoryTypeOK'
  BY <1>1, <1>2, <1>3, <1>a DEF MemoryTypeOK, Places
<1>5. Sane'
  <2>1. \A o \in Users : /\ doing'[o] \in {"truncate", "write"} <=> target'[o] # NoId
                         /\ target'[o] # NoId => copy'[o].file = "whole"
    BY <1>1, <1>a DEF Sane
  <2>2. \A o \in Sessions : doing'[o] = "using" => recalled'[o] # <<>>
    BY <1>1, <1>2, <1>a DEF Sane, Users
  <2>3. \A o \in Sessions : Distinct(recalled'[o])
    BY <1>2, <1>a DEF Sane
  <2> QED
    BY <2>1, <2>2, <2>3 DEF Sane
<1>6. UsesAreCounted'
  <2>1. \A o \in Sessions : ToSet(recalled'[o]) \subseteq ToSet(recalled[o])
    BY <1>2
  <2> QED
    BY <1>4, <2>1, UsesStayCounted
<1>7. ForgottenAreGone' /\ WantedArePinned'
  BY WordStands
<1> QED
  BY <1>4, <1>5, <1>6, <1>7 DEF MemoryInv

LEMMA TurnEndsWell ==
  ASSUME MemoryInv, NEW s \in Sessions,
         (\E ok \in BOOLEAN : TurnEnds(s, ok)) \/ ReviewEnds(s)
  PROVE  MemoryInv'
<1>1. /\ recalled[s] \in Seq(Ids) /\ Len(recalled[s]) <= RecallLimit /\ Distinct(recalled[s])
      /\ recalled = [recalled EXCEPT ![s] = recalled[s]]
  BY DEF MemoryInv, MemoryTypeOK, Sane
<1>2. /\ <<>> \in Seq(Ids) /\ Len(<<>>) <= RecallLimit /\ Distinct(<<>>)
      /\ ToSet(<<>>) \subseteq ToSet(recalled[s])
  BY MemoryAssumption DEF Distinct, ToSet
<1>3. CASE TurnEnds(s, TRUE)
  BY <1>1, <1>3, MovesOnWell DEF TurnEnds
<1>4. CASE TurnEnds(s, FALSE)
  BY <1>2, <1>4, MovesOnWell DEF TurnEnds
<1>5. CASE ReviewEnds(s)
  BY <1>1, <1>5, MovesOnWell DEF ReviewEnds
<1> QED
  BY <1>3, <1>4, <1>5

LEMMA NotBeforeItself ==
  ASSUME MemoryTypeOK, NEW question \in SUBSET Words, NEW n \in Ids
  PROVE  ~Before(n, n, question)
<1>1. PICK hits \in Nat : hits = Cardinality(memory[n].words \cap question)
  BY MemoryAssumption, FS_Subset, FS_CardinalityType
<1>2. PICK size \in Nat : size = Cardinality(question)
  BY MemoryAssumption, FS_Subset, FS_CardinalityType
<1>3. PICK uses \in Nat : uses = memory[n].uses
  BY MemoryAssumption DEF MemoryTypeOK, Memory
<1>4. PICK useful \in Nat : useful = IF uses > 5 THEN 5 ELSE uses
  BY <1>3
<1>5. size * useful \in Nat
  BY <1>2, <1>4
<1>6. Score(memory[n], question) \in Nat
  <2>1. Score(memory[n], question) = IF hits = 0 THEN 0 ELSE 100 * hits + size * useful
    BY <1>1, <1>2, <1>3, <1>4 DEF Score
  <2> QED
    BY <1>1, <1>5, <2>1
<1> QED
  BY <1>6 DEF Before, Ids

LEMMA TurnRecallsWell ==
  ASSUME MemoryInv, NEW s \in Sessions, NEW question \in SUBSET Words, TurnRecalls(s, question)
  PROVE  MemoryInv'
<1>a. MemoryTypeOK /\ Sane /\ UsesAreCounted /\ s \in Users
  BY DEF MemoryInv, Users
<1>1. PICK told \in BoundedSeq(Stored, RecallLimit) :
        Recalls(told, question) /\ recalled' = [recalled EXCEPT ![s] = told]
  BY DEF TurnRecalls
<1>2. /\ turns < MaxTurns /\ turns' = turns + 1
      /\ doing[s] = "idle" /\ Becomes(s, "running")
      /\ UNCHANGED <<memory, target, copy, orders, forgotten, wanted, stale, overwritten>>
  BY DEF TurnRecalls
<1>3. told \in Seq(Ids) /\ Len(told) <= RecallLimit
  <2>1. RecallLimit \in Nat
    BY MemoryAssumption
  <2>2. told \in Seq(Stored) /\ Len(told) <= RecallLimit
    BY <2>1 DEF BoundedSeq, SeqOf
  <2>3. \A i \in 1 .. Len(told) : told[i] \in Ids
    BY <2>2 DEF Stored
  <2> QED
    BY <2>2, <2>3
<1>4. Distinct(told)
  <2>1. \A i, j \in 1 .. Len(told) : i < j => Before(told[i], told[j], question)
    BY <1>1 DEF Recalls
  <2>2. \A i \in 1 .. Len(told) : told[i] \in Ids
    BY <1>3
  <2> QED
    BY <1>a, <2>1, <2>2, NotBeforeItself DEF Distinct
<1>5. /\ doing' \in [Users -> Places] /\ doing'[s] = "running"
      /\ \A o \in Users \ {s} : doing'[o] = doing[o]
  BY <1>2, <1>a, BecomesWell DEF Places
<1>6. /\ recalled' \in [Sessions -> Seq(Ids)] /\ recalled'[s] = told
      /\ \A o \in Sessions \ {s} : recalled'[o] = recalled[o]
  BY <1>1, <1>3, <1>a DEF MemoryTypeOK
<1>7. turns \in Nat /\ turns' \in 0 .. MaxTurns
  BY <1>2, <1>a, MemoryAssumption DEF MemoryTypeOK
<1>8. MemoryTypeOK'
  <2>1. \A o \in Sessions : Len(recalled'[o]) <= RecallLimit
    BY <1>3, <1>6, <1>a DEF MemoryTypeOK
  <2> QED
    BY <1>2, <1>5, <1>6, <1>7, <1>a, <2>1 DEF MemoryTypeOK, Places
<1>9. Sane'
  <2>1. \A o \in Users : /\ doing'[o] \in {"truncate", "write"} <=> target'[o] # NoId
                         /\ target'[o] # NoId => copy'[o].file = "whole"
    BY <1>2, <1>5, <1>a DEF Sane
  <2>2. \A o \in Sessions : doing'[o] = "using" => recalled'[o] # <<>>
    BY <1>5, <1>6, <1>a DEF Sane, Users
  <2>3. \A o \in Sessions : Distinct(recalled'[o])
    BY <1>4, <1>6, <1>a DEF Sane
  <2> QED
    BY <2>1, <2>2, <2>3 DEF Sane
<1>10. UsesAreCounted'
  <2>1. ASSUME NEW n \in Ids
        PROVE  /\ Cardinality(Pending(n)') + memory'[n].uses <= turns'
               /\ \A u \in Users : target'[u] = n =>
                    Cardinality(Pending(n)') + copy'[u].uses <= turns'
    <3>1. Pending(n)' \subseteq Pending(n) \cup {s}
      BY <1>6 DEF Pending
    <3>2. PICK p \in Nat : p = Cardinality(Pending(n)) /\ IsFiniteSet(Pending(n))
      BY PendingIsFinite
    <3>3. /\ IsFiniteSet(Pending(n) \cup {s})
          /\ Cardinality(Pending(n) \cup {s}) \in Nat
          /\ Cardinality(Pending(n) \cup {s}) <= p + 1
      <4>1. /\ IsFiniteSet(Pending(n) \cup {s})
            /\ Cardinality(Pending(n) \cup {s}) = IF s \in Pending(n) THEN p ELSE p + 1
        BY <3>2, FS_AddElement, Zenon
      <4> QED
        BY <3>2, <4>1
    <3>4. PICK q \in Nat : q = Cardinality(Pending(n)') /\ q <= p + 1
      <4>1. IsFiniteSet(Pending(n)') /\ Cardinality(Pending(n)') <= Cardinality(Pending(n) \cup {s})
        BY <3>1, <3>3, FS_Subset
      <4> QED
        BY <3>2, <3>3, <4>1, FS_CardinalityType
    <3>5. PICK a \in Nat : a = memory[n].uses /\ p + a <= turns
      BY <1>a, <3>2, MemoryAssumption DEF UsesAreCounted, MemoryTypeOK, Memory
    <3>6. ASSUME NEW u \in Users, target'[u] = n
          PROVE  Cardinality(Pending(n)') + copy'[u].uses <= turns'
      <4>1. PICK b \in Nat : b = copy[u].uses /\ p + b <= turns
        BY <1>2, <1>a, <3>2, <3>6, MemoryAssumption DEF UsesAreCounted, MemoryTypeOK, Memory
      <4> QED
        BY <1>2, <1>7, <3>4, <4>1
    <3> QED
      BY <1>2, <1>7, <3>4, <3>5, <3>6
  <2> QED
    BY <2>1 DEF UsesAreCounted
<1>11. ForgottenAreGone' /\ WantedArePinned'
  BY <1>2, WordStands
<1> QED
  BY <1>8, <1>9, <1>10, <1>11 DEF MemoryInv

\* A memory that a session goes on to save counts one use more, and the session among
\* those that may still note it one less.
LEMMA LoadsWell ==
  ASSUME MemoryInv, NEW s \in Sessions, NotesUse(s), memory[Head(recalled[s])].file = "whole"
  PROVE  MemoryInv'
<1>a. MemoryTypeOK /\ Sane /\ UsesAreCounted /\ s \in Users
  BY DEF MemoryInv, Users
<1>0. PICK n \in Ids : n = Head(recalled[s])
  <2>1. recalled[s] \in Seq(Ids) /\ recalled[s] # <<>> /\ Distinct(recalled[s])
    BY <1>a DEF NotesUse, MemoryTypeOK, Sane
  <2> QED
    BY <2>1, RestOfTheList
<1> DEFINE m == [memory[n] EXCEPT !.uses = @ + 1]
<1>1. /\ doing[s] = "using" /\ recalled[s] # <<>> /\ target[s] = NoId
      /\ Becomes(s, "truncate") /\ Holds(s, n, m)
      /\ recalled' = [recalled EXCEPT ![s] = Tail(recalled[s])]
      /\ UNCHANGED <<memory, turns, orders, forgotten, wanted, stale, overwritten>>
  BY <1>0, <1>a DEF NotesUse, Sane
<1>2. /\ n \in ToSet(recalled[s])
      /\ Tail(recalled[s]) \in Seq(Ids) /\ Len(Tail(recalled[s])) <= RecallLimit
      /\ Distinct(Tail(recalled[s]))
      /\ ToSet(Tail(recalled[s])) \subseteq ToSet(recalled[s]) \ {n}
  <2>1. /\ recalled[s] \in Seq(Ids) /\ Distinct(recalled[s])
        /\ Len(recalled[s]) \in Nat /\ Len(recalled[s]) <= RecallLimit
    BY <1>a DEF MemoryTypeOK, Sane
  <2>2. /\ n \in ToSet(recalled[s])
        /\ Tail(recalled[s]) \in Seq(Ids) /\ Len(Tail(recalled[s])) <= Len(recalled[s])
        /\ Distinct(Tail(recalled[s]))
        /\ ToSet(Tail(recalled[s])) \subseteq ToSet(recalled[s]) \ {n}
    BY <1>0, <1>1, <2>1, RestOfTheList
  <2>3. Len(Tail(recalled[s])) \in Nat /\ RecallLimit \in Nat
    BY <2>2, MemoryAssumption
  <2> QED
    BY <2>1, <2>2, <2>3
<1>3. PICK p \in Nat : p = Cardinality(Pending(n)) /\ p >= 1
  <2>1. s \in Pending(n)
    BY <1>2 DEF Pending
  <2>2. Cardinality(Pending(n)) # 0
    BY <2>1, PendingIsFinite, FS_EmptySet
  <2> QED
    BY <2>2, PendingIsFinite
<1>4. PICK a \in Nat : a = memory[n].uses /\ p + a <= turns
  BY <1>2, <1>3, <1>a, MemoryAssumption DEF UsesAreCounted, MemoryTypeOK, Memory
<1>5. turns \in Nat /\ turns <= MaxTurns /\ MaxTurns \in Nat
  BY <1>a, MemoryAssumption DEF MemoryTypeOK
<1>6. /\ m \in Memory /\ m.uses = a + 1 /\ m.file = "whole" /\ m.pinned = memory[n].pinned
  <2>1. a + 1 \in 0 .. MaxTurns
    BY <1>3, <1>4, <1>5
  <2>2. memory[n] \in Memory
    BY <1>2, <1>a DEF MemoryTypeOK
  <2>3. memory[n].file = "whole"
    BY <1>0
  <2> QED
    BY <1>4, <2>1, <2>2, <2>3 DEF Memory
<1> HIDE DEF m
<1>7. /\ doing' \in [Users -> Places] /\ doing'[s] = "truncate"
      /\ \A o \in Users \ {s} : doing'[o] = doing[o]
  BY <1>1, <1>a, BecomesWell DEF Places
<1>8. /\ target' \in [Users -> Ids \cup {NoId}] /\ copy' \in [Users -> Memory]
      /\ target'[s] = n /\ copy'[s] = m
      /\ \A o \in Users \ {s} : target'[o] = target[o] /\ copy'[o] = copy[o]
  BY <1>1, <1>2, <1>6, <1>a, HoldsWell
<1>9. /\ recalled' \in [Sessions -> Seq(Ids)]
      /\ recalled'[s] = Tail(recalled[s])
      /\ \A o \in Sessions \ {s} : recalled'[o] = recalled[o]
  BY <1>1, <1>2, <1>a DEF MemoryTypeOK
<1>10. n # NoId
  BY <1>2 DEF Ids, NoId
<1>11. MemoryTypeOK'
  <2>1. \A o \in Sessions : Len(recalled'[o]) <= RecallLimit
    BY <1>2, <1>9, <1>a DEF MemoryTypeOK
  <2> QED
    BY <1>1, <1>7, <1>8, <1>9, <1>a, <2>1 DEF MemoryTypeOK, Places
<1>12. Sane'
  <2>1. \A o \in Users : /\ doing'[o] \in {"truncate", "write"} <=> target'[o] # NoId
                         /\ target'[o] # NoId => copy'[o].file = "whole"
    BY <1>6, <1>7, <1>8, <1>10, <1>a DEF Sane
  <2>2. \A o \in Sessions : doing'[o] = "using" => recalled'[o] # <<>>
    BY <1>7, <1>9, <1>a DEF Sane, Users
  <2>3. \A o \in Sessions : Distinct(recalled'[o])
    BY <1>2, <1>9, <1>a DEF Sane
  <2> QED
    BY <2>1, <2>2, <2>3 DEF Sane
<1>13. \A k \in Ids : Pending(k)' \subseteq Pending(k) /\ s \notin Pending(n)'
  <2>1. \A o \in Sessions : ToSet(recalled'[o]) \subseteq ToSet(recalled[o])
    BY <1>2, <1>9
  <2>2. n \notin ToSet(recalled'[s])
    BY <1>2, <1>9
  <2>3. \A o \in Sessions : \A k : k \in ToSet(recalled'[o]) => k \in ToSet(recalled[o])
    BY <2>1
  <2> QED
    BY <2>2, <2>3 DEF Pending
<1>14. ASSUME NEW k \in Ids
       PROVE  /\ Cardinality(Pending(k)') + memory'[k].uses <= turns'
              /\ \A u \in Users : target'[u] = k =>
                   Cardinality(Pending(k)') + copy'[u].uses <= turns'
  <2>1. PICK c \in Nat : c = Cardinality(Pending(k)) /\ IsFiniteSet(Pending(k))
    BY PendingIsFinite
  <2>2. PICK d \in Nat : d = Cardinality(Pending(k)') /\ d <= c
    <3>1. Pending(k)' \subseteq Pending(k)
      BY <1>13
    <3> QED
      BY <2>1, <3>1, FS_Subset, FS_CardinalityType
  <2>3. PICK b \in Nat : b = memory[k].uses /\ c + b <= turns
    BY <1>a, <2>1, MemoryAssumption DEF UsesAreCounted, MemoryTypeOK, Memory
  <2>4. ASSUME NEW u \in Users, target'[u] = k
        PROVE  d + copy'[u].uses <= turns
    <3>1. CASE u # s
      <4>1. PICK e \in Nat : e = copy[u].uses /\ c + e <= turns
        BY <1>8, <1>a, <2>1, <2>4, <3>1, MemoryAssumption DEF UsesAreCounted, MemoryTypeOK, Memory
      <4> QED
        BY <1>5, <1>8, <2>2, <3>1, <4>1
    <3>2. CASE u = s
      <4>1. k = n /\ copy'[u].uses = a + 1 /\ c = p
        BY <1>3, <1>6, <1>8, <2>1, <2>4, <3>2
      <4>2. d <= p - 1
        <5>1. s \in Pending(n) /\ IsFiniteSet(Pending(n))
          BY <1>2, PendingIsFinite DEF Pending
        <5>2. /\ IsFiniteSet(Pending(n) \ {s})
              /\ Cardinality(Pending(n) \ {s}) = p - 1
          BY <1>3, <5>1, FS_RemoveElement, Zenon
        <5>3. Pending(n)' \subseteq Pending(n) \ {s}
          BY <1>2, <1>13
        <5>4. Cardinality(Pending(n)') <= Cardinality(Pending(n) \ {s})
          BY <5>2, <5>3, FS_Subset
        <5> QED
          BY <2>2, <4>1, <5>2, <5>4
      <4> QED
        BY <1>3, <1>4, <1>5, <2>2, <4>1, <4>2
    <3> QED
      BY <3>1, <3>2
  <2> QED
    BY <1>1, <1>5, <2>1, <2>2, <2>3, <2>4
<1>15. ForgottenAreGone' /\ WantedArePinned'
  <2>1. \A o \in Users \ {s} : target'[o] = target[o] /\ copy'[o] = copy[o]
    BY <1>8
  <2>2. memory[target'[s]].file = "whole" /\ copy'[s].pinned = memory[target'[s]].pinned
    BY <1>0, <1>6, <1>8
  <2> QED
    BY <1>1, <2>1, <2>2, WordStands
<1> QED
  BY <1>11, <1>12, <1>14, <1>15 DEF MemoryInv, UsesAreCounted

LEMMA NotesUseWell ==
  ASSUME MemoryInv, NEW s \in Sessions, NotesUse(s)
  PROVE  MemoryInv'
<1>a. MemoryTypeOK /\ Sane
  BY DEF MemoryInv
<1>1. /\ Head(recalled[s]) \in Ids
      /\ Tail(recalled[s]) \in Seq(Ids) /\ Len(Tail(recalled[s])) <= RecallLimit
      /\ Distinct(Tail(recalled[s]))
      /\ ToSet(Tail(recalled[s])) \subseteq ToSet(recalled[s])
  <2>1. /\ recalled[s] \in Seq(Ids) /\ recalled[s] # <<>> /\ Distinct(recalled[s])
        /\ Len(recalled[s]) \in Nat /\ Len(recalled[s]) <= RecallLimit
    BY <1>a DEF NotesUse, MemoryTypeOK, Sane
  <2>2. /\ Head(recalled[s]) \in Ids
        /\ Tail(recalled[s]) \in Seq(Ids) /\ Len(Tail(recalled[s])) <= Len(recalled[s])
        /\ Distinct(Tail(recalled[s]))
        /\ ToSet(Tail(recalled[s])) \subseteq ToSet(recalled[s])
    BY <2>1, RestOfTheList
  <2>3. Len(Tail(recalled[s])) \in Nat /\ RecallLimit \in Nat
    BY <2>2, MemoryAssumption
  <2> QED
    BY <2>1, <2>2, <2>3
<1>2. /\ <<>> \in Seq(Ids) /\ Len(<<>>) <= RecallLimit /\ Distinct(<<>>)
      /\ ToSet(<<>>) \subseteq ToSet(recalled[s])
  BY MemoryAssumption DEF Distinct, ToSet
<1>3. CASE memory[Head(recalled[s])].file = "whole"
  BY <1>3, LoadsWell
<1>4. CASE memory[Head(recalled[s])].file = "absent"
  <2>1. PICK place \in {"using", "reviewing"} :
          Becomes(s, place) /\ (place = "using" => Tail(recalled[s]) # <<>>)
    BY <1>4 DEF NotesUse
  <2>2. /\ doing[s] = "using" /\ recalled' = [recalled EXCEPT ![s] = Tail(recalled[s])]
        /\ UNCHANGED <<memory, target, copy, turns, orders, forgotten, wanted, stale, overwritten>>
    BY <1>4 DEF NotesUse
  <2> QED
    BY <1>1, <2>1, <2>2, MovesOnWell
<1>5. CASE memory[Head(recalled[s])].file = "torn"
  <2>1. /\ doing[s] = "using" /\ Becomes(s, "reviewing")
        /\ recalled' = [recalled EXCEPT ![s] = <<>>]
        /\ UNCHANGED <<memory, target, copy, turns, orders, forgotten, wanted, stale, overwritten>>
    BY <1>5 DEF NotesUse
  <2> QED
    BY <1>2, <2>1, MovesOnWell
<1>6. memory[Head(recalled[s])].file \in {"absent", "torn", "whole"}
  BY <1>1, <1>a DEF MemoryTypeOK, Memory
<1> QED
  BY <1>3, <1>4, <1>5, <1>6

\* A program begins to save what it has loaded or made up.
LEMMA TakesWell ==
  ASSUME MemoryInv, NEW u \in Users, NEW n \in Ids, NEW m \in Memory,
         target[u] = NoId, Becomes(u, "truncate"), Holds(u, n, m),
         m.file = "whole", m.uses \in {memory[n].uses, 0}, orders' \in 0 .. MaxOrders,
         \/ memory[n].file = "whole" /\ (u \in Sessions => m.pinned = memory[n].pinned)
         \/ memory[n].file = "absent" /\ n \notin forgotten,
         UNCHANGED <<memory, recalled, turns, forgotten, wanted, stale, overwritten>>
  PROVE  MemoryInv'
<1>a. MemoryTypeOK /\ Sane
  BY DEF MemoryInv
<1>1. /\ doing' \in [Users -> Places] /\ doing'[u] = "truncate"
      /\ \A o \in Users \ {u} : doing'[o] = doing[o]
  BY <1>a, BecomesWell DEF Places
<1>2. /\ target' \in [Users -> Ids \cup {NoId}] /\ copy' \in [Users -> Memory]
      /\ target'[u] = n /\ copy'[u] = m
      /\ \A o \in Users \ {u} : target'[o] = target[o] /\ copy'[o] = copy[o]
  BY <1>a, HoldsWell
<1>3. n # NoId
  BY DEF Ids, NoId
<1>4. MemoryTypeOK'
  BY <1>1, <1>2, <1>a DEF MemoryTypeOK, Places
<1>5. Sane'
  <2>1. \A o \in Users : /\ doing'[o] \in {"truncate", "write"} <=> target'[o] # NoId
                         /\ target'[o] # NoId => copy'[o].file = "whole"
    BY <1>1, <1>2, <1>3, <1>a DEF Sane
  <2>2. \A o \in Sessions : doing'[o] = "using" => recalled'[o] # <<>>
    BY <1>1, <1>a DEF Sane, Users
  <2> QED
    BY <1>a, <2>1, <2>2 DEF Sane
<1>6. UsesAreCounted'
  <2>1. \A o \in Users : target'[o] # NoId =>
          \/ target'[o] = target[o] /\ copy'[o] = copy[o]
          \/ copy'[o].uses \in {memory[target'[o]].uses, 0}
    BY <1>2
  <2> QED
    BY <1>4, <2>1, UsesStayCounted
<1>7. ForgottenAreGone' /\ WantedArePinned'
  <2>1. \A o \in Users : target'[o] # NoId =>
          \/ target'[o] = target[o] /\ copy'[o] = copy[o]
          \/ /\ memory[target'[o]].file = "whole"
             /\ o \in Sessions => copy'[o].pinned = memory[target'[o]].pinned
          \/ memory[target'[o]].file = "absent" /\ target'[o] \notin forgotten
    BY <1>2
  <2> QED
    BY <2>1, WordStands
<1> QED
  BY <1>4, <1>5, <1>6, <1>7 DEF MemoryInv

LEMMA ReviewRemembersWell ==
  ASSUME MemoryInv, NEW s \in Sessions, NEW words \in SUBSET Words, ReviewRemembers(s, words)
  PROVE  MemoryInv'
<1>a. MemoryTypeOK /\ Sane /\ s \in Users
  BY DEF MemoryInv, Users
<1>1. PICK n \in Ids : (\A m \in Issued : m < n) /\ Holds(s, n, Fact(words))
  BY DEF ReviewRemembers, Remembers
<1>2. n \notin Issued
  BY <1>1 DEF Ids
<1>3. memory[n].file = "absent" /\ n \notin forgotten
  BY <1>2 DEF Issued, Stored
<1>4. /\ doing[s] = "reviewing" /\ Becomes(s, "truncate")
      /\ UNCHANGED <<memory, recalled, turns, orders, forgotten, wanted, stale, overwritten>>
  BY DEF ReviewRemembers, Remembers
<1>5. target[s] = NoId /\ orders' \in 0 .. MaxOrders
  BY <1>4, <1>a DEF Sane, MemoryTypeOK
<1> QED
  BY <1>1, <1>3, <1>4, <1>5, <1>a, MemoriesAreTyped, TakesWell

LEMMA PinsWell ==
  ASSUME MemoryInv, NEW n \in Ids, NEW pinned \in BOOLEAN, Pins(n, pinned)
  PROVE  MemoryInv'
<1> DEFINE m == [memory[n] EXCEPT !.pinned = pinned]
<1>a. MemoryTypeOK /\ Sane /\ Operator \in Users /\ Operator \notin Sessions
  BY OperatorAssumption DEF MemoryInv, Users
<1>1. /\ doing[Operator] = "idle" /\ orders < MaxOrders /\ orders' = orders + 1
      /\ memory[n].file = "whole"
      /\ Holds(Operator, n, m) /\ Becomes(Operator, "truncate")
      /\ UNCHANGED <<memory, recalled, turns, forgotten, wanted, stale, overwritten>>
  BY DEF Pins, Orders, Listable
<1>2. m \in Memory /\ m.file = "whole" /\ m.uses = memory[n].uses
  BY <1>1, <1>a, ZenonT(60) DEF MemoryTypeOK, Memory
<1>3. target[Operator] = NoId
  BY <1>1, <1>a DEF Sane
<1>4. orders' \in 0 .. MaxOrders
  BY <1>1, <1>a, MemoryAssumption DEF MemoryTypeOK
<1> HIDE DEF m
<1> QED
  BY <1>1, <1>2, <1>3, <1>4, <1>a, TakesWell

LEMMA ForgetsWell ==
  ASSUME MemoryInv, NEW n \in Ids, Forgets(n)
  PROVE  MemoryInv'
<1>a. MemoryTypeOK /\ Sane /\ Operator \in Users /\ ForgottenAreGone /\ WantedArePinned
  BY DEF MemoryInv, Users
<1>1. /\ doing[Operator] = "idle" /\ orders < MaxOrders /\ orders' = orders + 1
      /\ memory' = [memory EXCEPT ![n] = Absent] /\ forgotten' = forgotten \cup {n}
      /\ TakesEffect(n) /\ wanted' = wanted \ {n}
      /\ UNCHANGED <<doing, recalled, target, copy, turns>>
  BY DEF Forgets, Orders
<1>2. /\ stale' \subseteq Sessions /\ stale \subseteq stale'
      /\ overwritten' = overwritten \ {n} /\ overwritten' \in SUBSET Ids
      /\ \A s \in Sessions : target[s] = n => s \in stale'
  BY <1>1, TakesEffectWell
<1>3. target[Operator] # n
  BY <1>1, <1>a DEF Sane, Ids, NoId
<1>4. /\ memory' \in [Ids -> Memory] /\ memory'[n] = Absent
      /\ \A k \in Ids \ {n} : memory'[k] = memory[k]
  BY <1>1, <1>a, MemoriesAreTyped DEF MemoryTypeOK
<1>5. orders' \in 0 .. MaxOrders
  BY <1>1, <1>a, MemoryAssumption DEF MemoryTypeOK
<1>6. MemoryTypeOK'
  BY <1>1, <1>2, <1>4, <1>5, <1>a DEF MemoryTypeOK
<1>7. Sane'
  BY <1>1, <1>a DEF Sane
<1>8. UsesAreCounted'
  <2>1. \A k \in Ids : memory'[k].uses \in {memory[k].uses, 0}
    BY <1>4, MemoriesAreTyped
  <2> QED
    BY <1>1, <1>6, <2>1, UsesStayCounted
<1>9. ForgottenAreGone'
  <2>1. forgotten \subseteq Ids
    BY <1>a DEF MemoryTypeOK
  <2> QED
    BY <1>1, <1>2, <1>3, <1>4, <1>a, <2>1, MemoriesAreTyped DEF ForgottenAreGone, Users
<1>10. WantedArePinned'
  <2>1. wanted \subseteq Ids
    BY <1>a DEF MemoryTypeOK
  <2> QED
    BY <1>1, <1>2, <1>4, <1>a, <2>1 DEF WantedArePinned
<1> QED
  BY <1>6, <1>7, <1>8, <1>9, <1>10 DEF MemoryInv

LEMMA MemoryGoesOn == MemoryInv /\ [MemoryNext]_memoryVars => MemoryInv'
<1> SUFFICES ASSUME MemoryInv, [MemoryNext]_memoryVars PROVE MemoryInv'
  OBVIOUS
<1>1. ASSUME NEW u \in Users, Truncates(u) \/ Writes(u) \/ Dies(u)
      PROVE  MemoryInv'
  BY <1>1, TruncatesMemoryWell, WritesMemoryWell, DiesWell
<1>2. ASSUME NEW s \in Sessions, NEW question \in SUBSET Words, TurnRecalls(s, question)
      PROVE  MemoryInv'
  BY <1>2, TurnRecallsWell
<1>3. ASSUME NEW s \in Sessions,
             \/ \E ok \in BOOLEAN : TurnEnds(s, ok)
             \/ ReviewEnds(s)
      PROVE  MemoryInv'
  BY <1>3, TurnEndsWell
<1>4. ASSUME NEW s \in Sessions,
             \/ NotesUse(s)
             \/ \E words \in SUBSET Words \ {{}} : ReviewRemembers(s, words)
      PROVE  MemoryInv'
  BY <1>4, NotesUseWell, ReviewRemembersWell
<1>5. ASSUME NEW n \in Ids, Forgets(n) \/ \E pinned \in BOOLEAN : Pins(n, pinned)
      PROVE  MemoryInv'
  BY <1>5, ForgetsWell, PinsWell
<1>6. CASE UNCHANGED memoryVars
  <2>1. MemoryTypeOK' /\ Sane' /\ ForgottenAreGone' /\ WantedArePinned'
    BY <1>6 DEF MemoryInv, memoryVars, MemoryTypeOK, Sane, ForgottenAreGone, WantedArePinned
  <2>2. UsesAreCounted'
    BY <1>6, <2>1, UsesStayCounted DEF memoryVars
  <2> QED
    BY <2>1, <2>2 DEF MemoryInv
<1> QED
  BY <1>1, <1>2, <1>3, <1>4, <1>5, <1>6 DEF MemoryNext

\* The oldest of the pinned memories are in every prompt, as many as it carries.
LEMMA OldestPinnedAreTold ==
  ASSUME MemoryTypeOK, NEW question \in SUBSET Words, NEW told \in Seq(Ids),
         Recalls(told, question), NEW n \in Shown(Pinned)
  PROVE  n \in ToSet(told)
<1> SUFFICES ASSUME n \notin ToSet(told) PROVE FALSE
  OBVIOUS
<1> DEFINE Older == {m \in Pinned : m < n}
<1>1. n \in Pinned /\ n \in Ids /\ Cardinality(Older) < RecallLimit
  BY DEF Shown, Pinned, Stored
<1>2. /\ Len(told) = RecallLimit
      /\ \A i \in 1 .. Len(told) : Before(told[i], n, question)
  BY <1>1 DEF Recalls
<1>3. \A i \in 1 .. RecallLimit : told[i] \in Older
  BY <1>1, <1>2 DEF Before
<1>4. \A i, j \in 1 .. RecallLimit : i < j => told[i] # told[j]
  <2>1. \A i, j \in 1 .. RecallLimit : i < j => Before(told[i], told[j], question)
    BY <1>2 DEF Recalls
  <2>2. \A i \in 1 .. RecallLimit : told[i] \in Ids
    BY <1>2
  <2> QED
    BY <2>1, <2>2, NotBeforeItself
<1>5. PICK limit \in Nat \ {0} : limit = RecallLimit
  BY MemoryAssumption
<1> DEFINE place == [i \in 1 .. limit |-> told[i]]
<1>6. place \in [1 .. limit -> Older]
  BY <1>3, <1>5
<1>7. IsFiniteSet(1 .. limit) /\ Cardinality(1 .. limit) = limit
  <2>1. Cardinality(1 .. limit) = IF 1 > limit THEN 0 ELSE limit - 1 + 1
    BY <1>5, FS_Interval
  <2> QED
    BY <1>5, <2>1, FS_Interval
<1>8. IsFiniteSet(Older)
  <2>1. IsFiniteSet(Ids)
    BY MemoryAssumption, FS_Interval DEF Ids
  <2>2. Older \subseteq Ids
    BY DEF Pinned, Stored
  <2> QED
    BY <2>1, <2>2, FS_Subset
<1>9. PICK i, j \in 1 .. limit : i # j /\ told[i] = told[j]
  <2>1. Cardinality(Older) < Cardinality(1 .. limit)
    BY <1>1, <1>5, <1>7
  <2> DEFINE Slots == 1 .. limit
  <2> HIDE DEF Older, place, Slots
  <2>2. \E i, j \in Slots : i # j /\ place[i] = place[j]
    <3>1. IsFiniteSet(Slots) /\ IsFiniteSet(Older) /\ place \in [Slots -> Older]
      BY <1>6, <1>7, <1>8 DEF Slots
    <3>2. Cardinality(Older) < Cardinality(Slots)
      BY <2>1 DEF Slots
    <3> QED
      BY <3>1, <3>2, FS_PigeonHole
  <2> QED
    BY <2>2 DEF place, Slots
<1>10. i < j \/ j < i
  BY <1>5, <1>9
<1> QED
  BY <1>4, <1>5, <1>9, <1>10

LEMMA RecallObeys ==
  ASSUME MemoryInv, NEW s \in Sessions, NEW question \in SUBSET Words, TurnRecalls(s, question)
  PROVE  LET due == wanted \ overwritten
         IN  /\ ToSet(recalled'[s]) \cap forgotten \subseteq overwritten
             /\ due \subseteq Pinned
             /\ due \cap Shown(Pinned) \subseteq ToSet(recalled'[s])
<1>a. MemoryTypeOK /\ ForgottenAreGone /\ WantedArePinned /\ Listable
  BY DEF MemoryInv, TurnRecalls
<1>1. PICK told \in BoundedSeq(Stored, RecallLimit) :
        Recalls(told, question) /\ recalled'[s] = told
  BY <1>a DEF TurnRecalls, MemoryTypeOK
<1>2. told \in Seq(Ids) /\ ToSet(told) \subseteq Stored
  <2>1. RecallLimit \in Nat
    BY MemoryAssumption
  <2>2. told \in Seq(Stored)
    BY <2>1 DEF BoundedSeq, SeqOf
  <2>3. \A i \in 1 .. Len(told) : told[i] \in Ids
    BY <2>2 DEF Stored
  <2> QED
    BY <2>2, <2>3 DEF ToSet
<1>3. ToSet(told) \cap forgotten \subseteq overwritten
  BY <1>2, <1>a DEF ForgottenAreGone, Stored
<1>4. wanted \ overwritten \subseteq Pinned
  <2>1. wanted \subseteq Ids
    BY <1>a DEF MemoryTypeOK
  <2> QED
    BY <1>a, <2>1 DEF WantedArePinned, Listable, Pinned, Stored
<1>5. Shown(Pinned) \subseteq ToSet(told)
  BY <1>1, <1>2, <1>a, OldestPinnedAreTold
<1> QED
  BY <1>1, <1>3, <1>4, <1>5

\* A turn begins by recalling.
LEMMA OnlyRecallBegins ==
  ASSUME MemoryInv, MemoryNext, NEW s \in Sessions, doing[s] = "idle", doing'[s] = "running"
  PROVE  \E question \in SUBSET Words : TurnRecalls(s, question)
<1>a. MemoryTypeOK /\ Sane /\ s \in Users
  BY DEF MemoryInv, Users
<1>1. ASSUME NEW u \in Users, NEW place \in Places, Becomes(u, place)
      PROVE  u = s /\ place = "running"
  BY <1>1, <1>a, BecomesWell
<1>2. ASSUME NEW u \in Users, Truncates(u) \/ Writes(u) \/ Dies(u)
      PROVE  FALSE
  <2>1. \E place \in Places \ {"running"} : Becomes(u, place)
    BY <1>2 DEF Truncates, Writes, Dies, Places
  <2> QED
    BY <1>1, <2>1
<1>3. ASSUME NEW o \in Sessions, NEW question \in SUBSET Words, TurnRecalls(o, question)
      PROVE  o = s
  BY <1>1, <1>3 DEF TurnRecalls, Users, Places
<1>4. ASSUME NEW o \in Sessions,
             \/ \E ok \in BOOLEAN : TurnEnds(o, ok)
             \/ NotesUse(o)
             \/ \E words \in SUBSET Words \ {{}} : ReviewRemembers(o, words)
             \/ ReviewEnds(o)
      PROVE  FALSE
  <2>1. \E place \in Places \ {"running"} : Becomes(o, place)
    <3>1. CASE NotesUse(o)
      <4>1. memory[Head(recalled[o])].file \in {"absent", "torn", "whole"}
        <5>1. recalled[o] \in Seq(Ids) /\ recalled[o] # <<>>
          BY <1>a, <3>1 DEF MemoryTypeOK, Sane, NotesUse
        <5> QED
          BY <1>a, <5>1 DEF MemoryTypeOK, Memory
      <4> QED
        BY <3>1, <4>1 DEF NotesUse, Places
    <3>2. CASE \E ok \in BOOLEAN : TurnEnds(o, ok)
      BY <3>2 DEF TurnEnds, Places
    <3>3. CASE ReviewEnds(o) \/ \E words \in SUBSET Words \ {{}} : ReviewRemembers(o, words)
      BY <3>3 DEF ReviewEnds, ReviewRemembers, Remembers, Places
    <3> QED
      BY <1>4, <3>1, <3>2, <3>3
  <2> QED
    BY <1>1, <2>1 DEF Users
<1>5. ASSUME NEW n \in Ids, Forgets(n) \/ \E pinned \in BOOLEAN : Pins(n, pinned)
      PROVE  FALSE
  <2>1. doing' = doing \/ Becomes(Operator, "truncate")
    BY <1>5 DEF Forgets, Pins
  <2> QED
    BY <1>1, <2>1 DEF Users, Places
<1> QED
  BY <1>2, <1>3, <1>4, <1>5 DEF MemoryNext

LEMMA UpkeepMovesMemory ==
  [Next]_<<memoryVars, ledgerVars, clockVars>> => [MemoryNext]_memoryVars
  BY DEF Next

\* What the operator said of a memory -- forget it, pin it -- is true of every prompt from
\* then on, unless a session that had loaded the memory before the command has saved it since
\* (store.go, memory.go: Recall).
THEOREM PromptsObeyTheOperator == Spec => PromptsKeepTheOperatorsWord
<1>1. Init => MemoryInv
  BY MemoryBegins DEF Init
<1>2. ASSUME MemoryInv, MemoryNext, NEW s \in Sessions, doing[s] = "idle", doing'[s] = "running"
      PROVE  LET due == wanted \ overwritten
             IN  /\ ToSet(recalled'[s]) \cap forgotten \subseteq overwritten
                 /\ due \subseteq Pinned
                 /\ due \cap Shown(Pinned) \subseteq ToSet(recalled'[s])
  <2>1. PICK question \in SUBSET Words : TurnRecalls(s, question)
    BY <1>2, OnlyRecallBegins
  <2> QED
    BY <1>2, <2>1, RecallObeys
<1>3. MemoryInv /\ [MemoryNext]_memoryVars =>
        [\A s \in Sessions :
           doing[s] = "idle" /\ doing'[s] = "running" =>
             LET due == wanted \ overwritten
             IN  /\ ToSet(recalled'[s]) \cap forgotten \subseteq overwritten
                 /\ due \subseteq Pinned
                 /\ due \cap Shown(Pinned) \subseteq ToSet(recalled'[s])]_memoryVars
  BY <1>2
<1> QED
  BY <1>1, <1>3, UpkeepMovesMemory, MemoryGoesOn, PTL DEF Spec, PromptsKeepTheOperatorsWord

\* Every variable of the three stores has its type, whatever the sizes: no recall and no
\* ledger outgrows its limit, no use is counted twice.
THEOREM UpkeepTypesHold == Spec => []TypeOK
<1>1. Init => MemoryInv /\ LedgerInv /\ ClockInv
  BY MemoryBegins, LedgerBegins, ClockBegins DEF Init
<1>2. MemoryInv /\ LedgerInv /\ ClockInv /\ [Next]_<<memoryVars, ledgerVars, clockVars>> =>
        MemoryInv' /\ LedgerInv' /\ ClockInv'
  BY UpkeepMovesMemory, UpkeepMovesLedger, UpkeepMovesClock, MemoryGoesOn, LedgerGoesOn, ClockGoesOn
<1>3. MemoryInv /\ LedgerInv /\ ClockInv => TypeOK
  BY DEF MemoryInv, LedgerInv, ClockInv, TypeOK
<1> QED
  BY <1>1, <1>2, <1>3, PTL DEF Spec
=============================================================================
