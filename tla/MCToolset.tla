------------------------------ MODULE MCToolset ------------------------------
(* A toolset with its child process, and the filter the child installs, which *)
(* share no state: a behaviour is of the one or of the other.                 *)
EXTENDS Toolset, SyscallFilter

CountingUp(n) == [i \in 1 .. n |-> i]
MCDenyLists == {<<>>, <<1>>, <<2, 1>>, <<3, 3>>, CountingUp(250), CountingUp(260)}
MCNumbers == 1 .. 260

\* There is something to leave the filter alone with.
ASSUME MCAssumption == DenyLists # {} /\ Numbers # {}

FilterIdle == /\ denied = CHOOSE d \in DenyLists : TRUE
              /\ call = CHOOSE c \in SyscallCalls : TRUE
              /\ pc = 0 /\ acc = OwnArch /\ verdict = "refused"
FilterCalls == call.nr \in {1, 2, 3, 4, 249, 250, 251, 260, X32Bit + 1, X32Bit + 250}

ToolsetIdle == PluginInit /\ order = "tools" /\ mode = "off" /\ kernel = {} /\ build = "built"
               /\ builtins = "none" /\ note = {} /\ role = "none" /\ worker = NoWorker
               /\ lacking = {}

Init == (ToolsetInit /\ FilterIdle) \/ (ToolsetIdle /\ FilterInit /\ FilterCalls)
Next == (ToolsetNext /\ UNCHANGED filterVars) \/ (Executes /\ UNCHANGED vars)
Spec == Init /\ [][Next]_<<vars, filterVars>> /\ ToolsetFairness

TypeOK == ToolsetTypeOK /\ FilterTypeOK
=============================================================================
