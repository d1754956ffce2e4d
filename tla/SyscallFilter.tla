---------------------------- MODULE SyscallFilter ----------------------------
(***************************************************************************)
(* internal/sandbox, seccomp: the BPF program buildSeccompProgram assembles *)
(* from a list of denied system calls, and the machine of the kernel that  *)
(* runs it on one call.  Instructions are counted from 0, as in the code;  *)
(* a conditional jump skips as many instructions as its byte says.         *)
(***************************************************************************)
EXTENDS Naturals, Sequences

CONSTANTS
  DenyLists,  \* the lists programs are built from
  Numbers,    \* system calls
  OwnArch,    \* auditArch
  Archs       \* the conventions a process may use for a call

ASSUME DenyListsAssumption == DenyLists \subseteq Seq(Numbers)
ASSUME ArchAssumption == OwnArch \in Archs

\* On x86-64 the x32 entry point shares the convention of the native one; what the
\* filter sees of it is this bit in the number.
X32Bit == 2 ^ 30
ASSUME NumbersAssumption == Numbers \subseteq 0 .. X32Bit - 1

VARIABLES
  denied,   \* what the program was built from
  call,     \* the call being decided
  pc, acc,  \* the kernel's machine: the next instruction, the accumulator
  verdict   \* of the program: none yet, allow, errno, kill; or refused, if none was built

filterVars == <<denied, call, pc, acc, verdict>>

SeenNumbers == Numbers \cup {X32Bit + n : n \in Numbers}
SyscallCalls == [arch : Archs, nr : SeenNumbers]

Load(field) == [op |-> "load", field |-> field]
SkipIfEqual(k, n) == [op |-> "jeq", k |-> k, jt |-> n % 256]
Return(v) == [op |-> "return", v |-> v]

MaxDenied == 250
\* Mutant of TooLong: no length is refused.
TooLongNever(d) == FALSE

TooLong(d) == Len(d) > MaxDenied

AllowIdx(d) == 4 + Len(d)
DenyIdx(d) == AllowIdx(d) + 1

\* buildSeccompProgram's program for the list d: the instruction at idx.
Instruction(d, idx) ==
  CASE idx = 0 -> Load("arch")
    [] idx = 1 -> SkipIfEqual(OwnArch, 1)
    [] idx = 2 -> Return("kill")
    [] idx = 3 -> Load("nr")
    [] idx \in 4 .. AllowIdx(d) - 1 -> SkipIfEqual(d[idx - 3], DenyIdx(d) - idx - 1)
    [] idx = AllowIdx(d) -> Return("allow")
    [] OTHER -> Return("errno")

FilterTypeOK ==
  /\ denied \in DenyLists
  /\ call \in SyscallCalls
  /\ pc \in 0 .. DenyIdx(denied)
  /\ acc \in Archs \cup SeenNumbers
  /\ verdict \in {"none", "allow", "errno", "kill", "refused"}

FilterInit ==
  /\ denied \in DenyLists
  /\ call \in SyscallCalls
  /\ pc = 0 /\ acc = OwnArch
  /\ verdict = IF TooLong(denied) THEN "refused" ELSE "none"

Executes ==
  /\ verdict = "none"
  /\ LET instr == Instruction(denied, pc)
     IN  \/ /\ instr.op = "load"
            /\ acc' = call[instr.field] /\ pc' = pc + 1 /\ UNCHANGED verdict
         \/ /\ instr.op = "jeq"
            /\ pc' = pc + 1 + (IF acc = instr.k THEN instr.jt ELSE 0)
            /\ UNCHANGED <<acc, verdict>>
         \/ /\ instr.op = "return"
            /\ verdict' = instr.v /\ UNCHANGED <<pc, acc>>
  /\ UNCHANGED <<denied, call>>

FilterSpec == FilterInit /\ [][Executes]_filterVars
-----------------------------------------------------------------------------
\* The entry point a call came by.
Entry(c) ==
  CASE c.arch # OwnArch -> "foreign"
    [] c.arch = OwnArch /\ c.nr >= X32Bit -> "x32"
    [] OTHER -> "native"

\* What becomes of a call: by another convention it kills the process, by the native
\* entry it fails if it is listed.  The program never looks at the bit of an x32 call,
\* whose number is on no list, and allows it.
Decision ==
  CASE Entry(call) = "foreign" -> "kill"
    [] Entry(call) = "native" /\ \E i \in DOMAIN denied : denied[i] = call.nr -> "errno"
    [] OTHER -> "allow"

\* The program decides every call like that, however many calls its jumps, of one
\* byte each, have to reach over (buildSeccompProgram).
FilterDecides == verdict \in {"allow", "errno", "kill"} => verdict = Decision
=============================================================================
