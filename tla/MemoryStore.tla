----------------------------- MODULE MemoryStore -----------------------------
(***************************************************************************)
(* What the agent remembers (internal/memory): one file per memory, the    *)
(* turns that recall from the store, note what they used and remember      *)
(* more, and the operator's `nemuz memory' commands.  Every program works  *)
(* on the same directory without a lock, and a save is os.WriteFile: the   *)
(* file is emptied first and written afterwards.                           *)
(*                                                                         *)
(* A memory's text and tags are the words it shares with a question.  Ids  *)
(* are ULIDs: here the numbers 1, 2, ... in the order they were issued.    *)
(***************************************************************************)
EXTENDS Integers, Sequences, FiniteSets, SequencesExt

CONSTANTS
  Words,        \* words of questions and memories that are not stop words
  Sessions,     \* programs that run turns
  RecallLimit,  \* how many memories a prompt carries
  Known,        \* memories stored at the start
  MaxMemories,  \* Bound: memories ever stored.
  MaxTurns,     \* Bound: turns.
  MaxOrders     \* Bound: the operator's commands.

ASSUME MemoryAssumption ==
  /\ IsFiniteSet(Words) /\ IsFiniteSet(Sessions)
  /\ RecallLimit \in Nat \ {0}
  /\ Known \in 0 .. MaxMemories
  /\ {MaxMemories, MaxTurns, MaxOrders} \subseteq Nat

VARIABLES
  memory,     \* the file of each memory
  doing,      \* where each program is
  recalled,   \* ids a session's turn was told, those not yet noted as used
  target,     \* the memory a program is about to save
  copy,       \* that memory, as loaded and changed
  turns,      \* turns so far, for the bound only
  orders,     \* the operator's commands so far, for the bound only
  forgotten,  \* history: memories the operator's last command was to forget
  wanted,     \* history: memories the operator's last command was to pin
  stale,      \* history: sessions about to save a memory they loaded before that
  overwritten \* history: memories one of those has saved since the command

memoryVars == <<memory, doing, recalled, target, copy, turns, orders,
                forgotten, wanted, stale, overwritten>>

Operator == "operator"
ASSUME OperatorAssumption == Operator \notin Sessions

Users == Sessions \cup {Operator}
Ids == 1 .. MaxMemories
NoId == 0
Memory == [file : {"absent", "torn", "whole"}, words : SUBSET Words,
           pinned : BOOLEAN, uses : 0 .. MaxTurns]
Absent == [file |-> "absent", words |-> {}, pinned |-> FALSE, uses |-> 0]
Torn == [Absent EXCEPT !.file = "torn"]
Fact(words) == [Absent EXCEPT !.file = "whole", !.words = words]

MemoryTypeOK ==
  /\ memory \in [Ids -> Memory]
  /\ doing \in [Users -> {"idle", "running", "using", "truncate", "write", "reviewing"}]
  /\ recalled \in [Sessions -> Seq(Ids)]
  /\ \A s \in Sessions : Len(recalled[s]) <= RecallLimit
  /\ target \in [Users -> Ids \cup {NoId}]
  /\ copy \in [Users -> Memory]
  /\ turns \in 0 .. MaxTurns /\ orders \in 0 .. MaxOrders
  /\ {forgotten, wanted, overwritten} \subseteq SUBSET Ids
  /\ stale \subseteq Sessions

MemoryInit ==
  /\ \E words \in [1 .. Known -> SUBSET Words \ {{}}] :
       memory = [n \in Ids |-> IF n <= Known THEN Fact(words[n]) ELSE Absent]
  /\ doing = [u \in Users |-> "idle"]
  /\ recalled = [s \in Sessions |-> <<>>]
  /\ target = [u \in Users |-> NoId]
  /\ copy = [u \in Users |-> Absent]
  /\ turns = 0 /\ orders = 0
  /\ forgotten = {} /\ wanted = {} /\ stale = {} /\ overwritten = {}

-----------------------------------------------------------------------------
(* Recall.                                                                 *)

Stored == {n \in Ids : memory[n].file # "absent"}

\* List fails on the first file it cannot decode.
Listable == \A n \in Stored : memory[n].file = "whole"

\* score, scaled by ten for each word of the question: the share of its words
\* that the memory has decides, and a little for having been used.
Score(m, question) ==
  LET hits == Cardinality(m.words \cap question)
      useful == IF m.uses > 5 THEN 5 ELSE m.uses
  IN  IF hits = 0 THEN 0 ELSE 100 * hits + Cardinality(question) * useful

Pinned == {n \in Stored : memory[n].pinned}
Candidates(question) == {n \in Stored \ Pinned : Score(memory[n], question) > 0}

\* Mutant of Before: a pinned memory competes like any other.
BeforeByScore(m, n, question) ==
  LET a == Score(memory[m], question)
      b == Score(memory[n], question)
  IN  a > b \/ (a = b /\ m > n)

\* Which of two comes first: the pinned before the others and by age, then by score, the
\* younger of two with the same.
Before(m, n, question) ==
  LET a == Score(memory[m], question)
      b == Score(memory[n], question)
  IN  IF {m, n} \cap Pinned = {} THEN a > b \/ (a = b /\ m > n)
      ELSE m \in Pinned /\ (n \in Pinned => m < n)

\* Recall returns told: the first RecallLimit of the pinned memories and the candidates,
\* or all of them.
Recalls(told, question) ==
  /\ ToSet(told) \subseteq Pinned \cup Candidates(question)
  /\ \A i, j \in 1 .. Len(told) : i < j => Before(told[i], told[j], question)
  /\ \A n \in (Pinned \cup Candidates(question)) \ ToSet(told) :
       /\ Len(told) = RecallLimit
       /\ \A i \in 1 .. Len(told) : Before(told[i], n, question)

-----------------------------------------------------------------------------
(* Saving.                                                                 *)

Becomes(u, place) == doing' = [doing EXCEPT ![u] = place]

\* Program u has loaded m of file n, and saves it next.
Holds(u, n, m) ==
  /\ target' = [target EXCEPT ![u] = n]
  /\ copy' = [copy EXCEPT ![u] = m]

Saving(u, n) == doing[u] \in {"truncate", "write"} /\ target[u] = n

\* A command of the operator's on n takes effect: the sessions that are about to save
\* n loaded it before.
TakesEffect(n) ==
  /\ stale' = stale \cup {s \in Sessions : Saving(s, n)}
  /\ overwritten' = overwritten \ {n}

Overwrites(u) ==
  overwritten' = overwritten \cup (IF u \in stale THEN {target[u]} ELSE {})

\* os.WriteFile empties the file.
Truncates(u) ==
  /\ doing[u] = "truncate"
  /\ memory' = [memory EXCEPT ![target[u]] = Torn]
  /\ Becomes(u, "write")
  /\ Overwrites(u)
  /\ UNCHANGED <<recalled, target, copy, turns, orders, forgotten, wanted, stale>>

\* os.WriteFile writes.  A session goes on with what it still has to note.
Writes(u) ==
  LET n == target[u] IN
  /\ doing[u] = "write"
  /\ memory' = [memory EXCEPT ![n] = copy[u]]
  /\ Becomes(u, IF u \in Sessions /\ recalled[u] # <<>> THEN "using"
                ELSE IF u \in Sessions THEN "reviewing" ELSE "idle")
  /\ Holds(u, NoId, Absent)
  /\ IF u = Operator
     THEN /\ TakesEffect(n)
          /\ wanted' = (IF copy[u].pinned THEN wanted \cup {n} ELSE wanted \ {n})
          /\ forgotten' = forgotten \ {n}
     ELSE /\ Overwrites(u)
          /\ stale' = stale \ {u}
          /\ UNCHANGED <<wanted, forgotten>>
  /\ UNCHANGED <<recalled, turns, orders>>

\* A program is killed.  A file it was writing stays empty.
Dies(u) ==
  /\ doing[u] # "idle"
  /\ Becomes(u, "idle")
  /\ Holds(u, NoId, Absent)
  /\ recalled' = [s \in Sessions |-> IF s = u THEN <<>> ELSE recalled[s]]
  /\ stale' = stale \ {u}
  /\ UNCHANGED <<memory, turns, orders, forgotten, wanted, overwritten>>

-----------------------------------------------------------------------------
(* A session: runTurn and runReview.                                       *)

\* recallIntoPrompt.  A turn whose recall fails is not begun.
TurnRecalls(s, question) ==
  /\ doing[s] = "idle"
  /\ turns < MaxTurns
  /\ Listable
  /\ \E told \in BoundedSeq(Stored, RecallLimit) :
       /\ Recalls(told, question)
       /\ recalled' = [recalled EXCEPT ![s] = told]
  /\ Becomes(s, "running")
  /\ turns' = turns + 1
  /\ UNCHANGED <<memory, target, copy, orders, forgotten, wanted, stale, overwritten>>

\* A turn that fails notes no use and is not reviewed.
TurnEnds(s, ok) ==
  /\ doing[s] = "running"
  /\ Becomes(s, IF ~ok THEN "idle" ELSE IF recalled[s] = <<>> THEN "reviewing" ELSE "using")
  /\ recalled' = (IF ok THEN recalled ELSE [recalled EXCEPT ![s] = <<>>])
  /\ UNCHANGED <<memory, target, copy, turns, orders, forgotten, wanted, stale, overwritten>>

\* RecordUse loads the next memory.  One that is gone is passed over; one it
\* cannot read ends it, and nobody is told.
NotesUse(s) ==
  LET n == Head(recalled[s])
      rest == Tail(recalled[s])
  IN  /\ doing[s] = "using"
      /\ CASE memory[n].file = "whole" ->
                /\ Holds(s, n, [memory[n] EXCEPT !.uses = @ + 1])
                /\ Becomes(s, "truncate")
                /\ recalled' = [recalled EXCEPT ![s] = rest]
           [] memory[n].file = "absent" ->
                /\ Becomes(s, IF rest = <<>> THEN "reviewing" ELSE "using")
                /\ recalled' = [recalled EXCEPT ![s] = rest]
                /\ UNCHANGED <<target, copy>>
           [] memory[n].file = "torn" ->
                /\ Becomes(s, "reviewing")
                /\ recalled' = [recalled EXCEPT ![s] = <<>>]
                /\ UNCHANGED <<target, copy>>
      /\ UNCHANGED <<memory, turns, orders, forgotten, wanted, stale, overwritten>>

\* Ids that are in use or have been.
Issued == {n \in Ids : \/ n \in Stored \cup forgotten
                       \/ \E u \in Users : target[u] = n}

\* A new memory, under an id later than every other.
Remembers(u, words) ==
  /\ \E n \in Ids :
       /\ \A m \in Issued : m < n
       /\ n = 1 \/ n - 1 \in Issued
       /\ Holds(u, n, Fact(words))
  /\ Becomes(u, "truncate")

\* The reviewer calls remember; or it has nothing (more) to keep.
ReviewRemembers(s, words) ==
  /\ doing[s] = "reviewing"
  /\ Remembers(s, words)
  /\ UNCHANGED <<memory, recalled, turns, orders, forgotten, wanted, stale, overwritten>>

ReviewEnds(s) ==
  /\ doing[s] = "reviewing"
  /\ Becomes(s, "idle")
  /\ UNCHANGED <<memory, recalled, target, copy, turns, orders, forgotten, wanted, stale, overwritten>>

-----------------------------------------------------------------------------
(* The operator.  Each command resolves its id by listing the store, and   *)
(* so none works while one file cannot be read.                            *)

Orders(n) ==
  /\ doing[Operator] = "idle"
  /\ orders < MaxOrders
  /\ orders' = orders + 1
  /\ Listable
  /\ n \in Stored

Forgets(n) ==
  /\ Orders(n)
  /\ memory' = [memory EXCEPT ![n] = Absent]
  /\ forgotten' = forgotten \cup {n}
  /\ wanted' = wanted \ {n}
  /\ TakesEffect(n)
  /\ UNCHANGED <<doing, recalled, target, copy, turns>>

Pins(n, pinned) ==
  /\ Orders(n)
  /\ Holds(Operator, n, [memory[n] EXCEPT !.pinned = pinned])
  /\ Becomes(Operator, "truncate")
  /\ UNCHANGED <<memory, recalled, turns, forgotten, wanted, stale, overwritten>>

MemoryNext ==
  \/ \E u \in Users : Truncates(u) \/ Writes(u) \/ Dies(u)
  \/ \E s \in Sessions :
       \/ \E question \in SUBSET Words : TurnRecalls(s, question)
       \/ \E ok \in BOOLEAN : TurnEnds(s, ok)
       \/ NotesUse(s)
       \/ \E words \in SUBSET Words \ {{}} : ReviewRemembers(s, words)
       \/ ReviewEnds(s)
  \/ \E n \in Ids : Forgets(n) \/ \E pinned \in BOOLEAN : Pins(n, pinned)

-----------------------------------------------------------------------------
(* Properties.                                                             *)

\* The pinned memories that are shown when they are more than a prompt carries.
Shown(S) == {n \in S : Cardinality({m \in S : m < n}) < RecallLimit}

\* What the operator said of a memory last is true of every prompt from then on: one
\* that was forgotten is in none of them, and one that was pinned is in each, up to
\* the limit and whatever the question ("Pin keeps a memory in every prompt",
\* store.go:184) -- unless a session has saved the memory since, having loaded it
\* before the command.  Saves that overlap in any other way do no harm.
PromptsKeepTheOperatorsWord ==
  [][\A s \in Sessions :
       doing[s] = "idle" /\ doing'[s] = "running" =>
         LET due == wanted \ overwritten
         IN  /\ ToSet(recalled'[s]) \cap forgotten \subseteq overwritten
             /\ due \subseteq Pinned
             /\ due \cap Shown(Pinned) \subseteq ToSet(recalled'[s])]_memoryVars
=============================================================================
