------------------------------- MODULE Toolset -------------------------------
(***************************************************************************)
(* cmd/nemuz: buildToolset, `nemuz plugin call', the tool-worker and the   *)
(* plugin-worker.  A command that needs tools starts at most one child     *)
(* here: the confined worker that serves the built-in tools, or a plugin.  *)
(* The child is the Server of PluginPipe once it has confined itself.      *)
(*                                                                         *)
(* Landlock and seccomp bind the calling thread and what it creates later. *)
(* A Go process has several threads and moves goroutines between them      *)
(* unless LockOSThread has pinned them.                                    *)
(***************************************************************************)
EXTENDS PluginPipe

CONSTANT Threads  \* OS threads of the child before it restricts itself

ASSUME ThreadsAssumption == Threads # {}

VARIABLES
  order,     \* what was asked for: a toolset with or without a plugin, or a plugin call
  mode,      \* --sandbox: on, auto or off
  kernel,    \* what the kernel offers
  build,     \* buildToolset: where it is
  builtins,  \* where the built-in tools run: none, host or worker
  note,      \* toolset.Sandbox, as it goes into the journal
  role,      \* what the child is
  worker,    \* the child's confinement: what is next, the serving goroutine's thread
  lacking    \* history: protections that some call ran without

toolsetVars == <<order, mode, kernel, build, builtins, note, role, worker, lacking>>
vars == <<pluginVars, toolsetVars>>

Protections == {"landlock", "seccomp"}
Notes == (SUBSET Protections) \cup {{"off"}, {"unavailable"}}
NoWorker == [pc |-> "off", thread |-> CHOOSE t \in Threads : TRUE, pinned |-> FALSE,
             bound |-> [t \in Threads |-> {}]]

ToolsetTypeOK ==
  /\ PluginTypeOK
  /\ order \in {"tools", "tools and plugin", "plugin call"}
  /\ mode \in {"on", "auto", "off"}
  /\ kernel \subseteq Protections
  /\ build \in {"begin", "worker", "plugins", "plugin", "closing", "failed", "built"}
  /\ builtins \in {"none", "host", "worker"}
  /\ note \in Notes
  /\ role \in {"none", "worker", "plugin", "bare plugin"}
  /\ worker.pc \in {"off", "filter", "restrict", "ready"}
  /\ worker.thread \in Threads /\ worker.pinned \in BOOLEAN
  /\ worker.bound \in [Threads -> SUBSET Protections]
  /\ lacking \subseteq Protections
  /\ phase = "off" <=> role = "none"

ToolsetInit ==
  /\ PluginInit
  /\ order \in {"tools", "tools and plugin", "plugin call"}
  /\ mode \in IF order = "plugin call" THEN {"auto"} ELSE {"on", "auto", "off"}
  /\ kernel \in SUBSET Protections
  /\ build = IF order = "plugin call" THEN "plugins" ELSE "begin"
  /\ builtins = "none" /\ note = {} /\ role = "none"
  /\ worker = NoWorker /\ lacking = {}

Choices == <<order, mode, kernel>>

-----------------------------------------------------------------------------
(* addBuiltins.                                                            *)

\* addBuiltinsInProcess.
InHost(why) ==
  /\ builtins' = "host"
  /\ note' = {why}
  /\ build' = "plugins"

\* What becomes of a toolset whose tools cannot be confined.
Unconfinable == IF mode = "on" THEN build' = "failed" /\ UNCHANGED <<builtins, note>>
                               ELSE InHost("unavailable")

BuildsInHost ==
  /\ build = "begin" /\ mode = "off"
  /\ InHost("off")
  /\ UNCHANGED <<pluginVars, Choices, role, worker, lacking>>

KernelCannot ==
  /\ build = "begin" /\ mode # "off" /\ "landlock" \notin kernel
  /\ Unconfinable
  /\ UNCHANGED <<pluginVars, Choices, role, worker, lacking>>

\* addBuiltinsConfined: nemuz executes itself.
StartsWorker ==
  /\ build = "begin" /\ mode # "off" /\ "landlock" \in kernel
  /\ Launches
  /\ build' = "worker" /\ role' = "worker"
  /\ worker' = [NoWorker EXCEPT !.pc = "filter"]
  /\ UNCHANGED <<Choices, builtins, note, lacking>>

\* The manifest says what the worker achieved: seccomp if it was installed, Landlock
\* if the kernel has it, for otherwise Restrict had failed.
Reported == {"landlock"} \cup {p \in {"seccomp"} : p \in kernel}

UsesWorker ==
  /\ build = "worker" /\ phase = "ready"
  /\ builtins' = "worker" /\ note' = Reported
  /\ build' = "built"
  /\ UNCHANGED <<pluginVars, Choices, role, worker, lacking>>

\* Start has closed the worker that failed its handshake.
WorkerFailed ==
  /\ build = "worker" /\ phase = "broken" /\ closing = "done"
  /\ Unconfinable
  /\ UNCHANGED <<pluginVars, Choices, role, worker, lacking>>

-----------------------------------------------------------------------------
(* The plugins of the command line, of which there is one here.            *)

NoPlugin ==
  /\ build = "plugins" /\ (order = "tools" \/ phase # "off")
  /\ build' = "built"
  /\ UNCHANGED <<pluginVars, Choices, builtins, note, role, worker, lacking>>

\* sandboxPluginCommand.
PluginConfined == mode # "off" /\ "landlock" \in kernel

StartsPlugin ==
  /\ build = "plugins" /\ order # "tools" /\ phase = "off"
  /\ Launches
  /\ build' = "plugin"
  /\ role' = IF PluginConfined THEN "plugin" ELSE "bare plugin"
  /\ worker' = [NoWorker EXCEPT !.pc = IF PluginConfined THEN "filter" ELSE "ready"]
  /\ UNCHANGED <<Choices, builtins, note, lacking>>

\* WorkspacePolicy.Review grants what every tool of the plugin asks for, ...
UsesPlugin ==
  /\ build = "plugin" /\ phase = "ready" /\ closing = "no"
  /\ build' = "built"
  /\ UNCHANGED <<pluginVars, Choices, builtins, note, role, worker, lacking>>

\* ... or refuses one of them, or a name is taken: the toolset is closed.
RefusesPlugin ==
  /\ build = "plugin" /\ phase = "ready"
  /\ CloseBegins
  /\ build' = "closing"
  /\ UNCHANGED <<Choices, builtins, note, role, worker, lacking>>

PluginFailed ==
  /\ build \in {"plugin", "closing"} /\ closing = "done"
  /\ build' = "failed"
  /\ UNCHANGED <<pluginVars, Choices, builtins, note, role, worker, lacking>>

-----------------------------------------------------------------------------
(* The child before it serves.                                             *)

\* Unless it is pinned, the goroutine may go on on another thread.
Migrates ==
  /\ child.up /\ ~worker.pinned /\ worker.pc \in {"filter", "restrict", "ready"}
  /\ role # "bare plugin"
  /\ \E t \in Threads : worker' = [worker EXCEPT !.thread = t]
  /\ UNCHANGED <<pluginVars, Choices, build, builtins, note, role, lacking>>

\* Mutant of Binds: LockOSThread is not called.
BindsUnpinned(p, pc) ==
  worker' = [worker EXCEPT !.pc = pc, !.bound[worker.thread] = @ \cup p]

Binds(p, pc) == worker' = [worker EXCEPT !.pinned = TRUE, !.pc = pc,
                                         !.bound[worker.thread] = @ \cup p]

\* RestrictSyscalls pins the thread and installs the filter on it.  Where the kernel
\* has no seccomp the tool-worker goes on without, and the plugin-worker does not.
WorkerFilters ==
  /\ child.up /\ worker.pc = "filter"
  /\ IF "seccomp" \notin kernel /\ role = "plugin"
     THEN child' = NoChild /\ UNCHANGED worker
     ELSE Binds(kernel \cap {"seccomp"}, "restrict") /\ UNCHANGED child
  /\ UNCHANGED <<hostVars, pipeVars, heirs, ran, readerVars, closing>>
  /\ UNCHANGED <<Choices, build, builtins, note, role, lacking>>

\* Restrict does the same with the Landlock rules.
WorkerRestricts ==
  /\ child.up /\ worker.pc = "restrict"
  /\ Binds({"landlock"}, "ready")
  /\ UNCHANGED <<pluginVars, Choices, build, builtins, note, role, lacking>>

\* Serve, in the same goroutine; or the plugin's own program, on the same thread.
WorkerServes ==
  /\ child.up /\ worker.pc = "ready" /\ ~child.serving
  /\ child' = [child EXCEPT !.serving = TRUE]
  /\ UNCHANGED <<hostVars, pipeVars, heirs, ran, readerVars, closing, toolsetVars>>

-----------------------------------------------------------------------------
\* Tools are called once the toolset is built; a handshake is part of building it.
CallsTool(c) ==
  /\ phase = "starting" \/ build = "built"
  /\ CallerStep(c)
  /\ UNCHANGED toolsetVars

\* The toolset is closed when the command ends; Start closes what fails its handshake.
Closes ==
  /\ phase = "broken" \/ build = "built"
  /\ CloseBegins
  /\ UNCHANGED toolsetVars

HostStep ==
  /\ HandshakeEnds \/ ReaderStep \/ CloseStep
  /\ UNCHANGED toolsetVars

ToolRuns ==
  /\ ChildReads
  /\ lacking' = IF ran' = ran THEN lacking
                ELSE lacking \cup (Protections \ worker.bound[worker.thread])
  /\ UNCHANGED <<Choices, build, builtins, note, role, worker>>

ChildElse ==
  /\ \/ ChildReadsOn \/ ChildReplies \/ ChildSeesEOF \/ ChildDies
     \/ role \in {"plugin", "bare plugin"} /\ (ChildPrints \/ ChildSpawns \/ HeirsEnd)
  /\ UNCHANGED toolsetVars

BuildStep ==
  \/ BuildsInHost \/ KernelCannot \/ StartsWorker \/ UsesWorker \/ WorkerFailed
  \/ NoPlugin \/ StartsPlugin \/ UsesPlugin \/ RefusesPlugin \/ PluginFailed

WorkerStep == Migrates \/ WorkerFilters \/ WorkerRestricts \/ WorkerServes

ToolsetNext ==
  \/ BuildStep
  \/ WorkerStep
  \/ \E c \in Callers : CallsTool(c)
  \/ Closes
  \/ HostStep
  \/ ToolRuns
  \/ ChildElse

ToolsetSpec == ToolsetInit /\ [][ToolsetNext]_vars

\* Besides PluginFairness: the code goes from step to step, so a handshake is made, its
\* outcome is acted upon, and a client that failed it is closed.
ToolsetFairness ==
  /\ PluginFairness
  /\ WF_vars(BuildStep)
  /\ WF_vars(phase = "starting" /\ \E c \in Callers : CallsTool(c))
  /\ WF_vars(HandshakeEnds /\ UNCHANGED toolsetVars)
  /\ WF_vars(phase = "broken" /\ Closes)

-----------------------------------------------------------------------------
\* A call is answered with the reply to that very call, whose tool the child has run,
\* however many replies come late, to callers that have given up (Client.call).
OwnReplyOnly ==
  \A i \in Calls : stage[i] = "answered" => answer[i] = i /\ i \in ran

\* What callers see of a plugin, whatever its pipes and process do, is what PluginPromise
\* says: no two calls at a time, none run twice or out of order, none answered unrun.
Promise == INSTANCE PluginPromise
KeepsPromise == Promise!Spec

\* What the journal will say of the tools' confinement is true of the thread every call
\* ran on; with --sandbox=on they never run in the host; and the program of a confined
\* plugin runs with both protections, whichever thread the launcher found itself on.
ToolsRunAsRecorded ==
  /\ builtins = "worker" => note \cap lacking = {}
  /\ mode = "on" => builtins # "host"
  /\ role = "plugin" => lacking = {}

\* readLoop holds a reply nobody will take: two callers gave up on theirs.  Wait then
\* never returns, nor does Close.
ReaderStuck == reader = "delivering" /\ responses # <<>>

\* A call, or Close, writes a line to a pipe that somebody could read and nobody does:
\* no timer covers the write.
WriterStuck == Held("stdin") /\ (writing # 0 \/ (closing = "writing" /\ full))

\* The child is gone, and what it has started keeps a pipe open that is read to its end.
PipeKept ==
  /\ ~child.up /\ ~exited
  /\ "stderr" \in heirs \/ (reader = "reading" /\ "stdout" \in heirs)

\* No caller is left waiting unless a writer is stuck (an id is asked once, so that
\* calls cannot take turns at it for ever), and a toolset once begun is built or given
\* up and Close, which kills the child if it must, returns unless the reader or a writer
\* is stuck or a pipe is kept: whatever the child does.
Settles ==
  /\ []<>(\A i \in Calls : stage[i] # "asked") \/ <>[]WriterStuck
  /\ <>(build \in {"built", "failed"}) \/ <>[]ReaderStuck \/ <>[]PipeKept
  /\ []<>(closing \in {"no", "done"}) \/ <>[]ReaderStuck \/ <>[]WriterStuck \/ <>[]PipeKept
=============================================================================
