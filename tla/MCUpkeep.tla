------------------------------ MODULE MCUpkeep -------------------------------
(***************************************************************************)
(* The stores that turns keep up, for model checking: the memories, the    *)
(* ledger and the curator's clock share no file, and so each moves while   *)
(* the others are as they were at the start.                               *)
(***************************************************************************)
EXTENDS MemoryStore, ReviewLedger, CuratorClock, TLC

\* Sessions are interchangeable, and so are words.
Symmetry == Permutations(Sessions) \cup Permutations(Words)

Init == MemoryInit /\ LedgerInit /\ ClockInit

MemoryAtRest == turns = 0 /\ orders = 0 /\ \A n \in 1 .. Known : memory[n].words = Words

Next ==
  \/ /\ LedgerInit /\ ClockInit
     /\ MemoryNext
     /\ UNCHANGED <<ledgerVars, clockVars>>
  \/ /\ MemoryAtRest /\ ClockInit
     /\ LedgerNext
     /\ UNCHANGED <<memoryVars, clockVars>>
  \/ /\ MemoryAtRest /\ LedgerInit
     /\ ClockNext
     /\ UNCHANGED <<memoryVars, ledgerVars>>

Spec == Init /\ [][Next]_<<memoryVars, ledgerVars, clockVars>>

\* Every variable has its type, and no list outgrows its limit.
TypeOK == MemoryTypeOK /\ LedgerTypeOK /\ ClockTypeOK
=============================================================================
