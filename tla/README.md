# Nemuz in TLA+

A model of nemuz, an agent runtime that journals every turn, replays it, and learns skills that are
promoted only on evidence. The modules fall into seven groups: the recorded turn, its replay, the life of a
skill, the data directory and what is deleted from it, the toolset with its child processes, the front
ends that serve several people at a time, and the small files turns keep up.

Run TLC with `tlc -config X.cfg M`, the proofs with `tlapm Turn_proofs.tla`, and so on for each `*_proofs`
module.

## The system

| part | state | operations | talks to |
|---|---|---|---|
| turn journal (`internal/journal`) | one JSONL file per turn, the buffer before it, the sequence number | Create, Append, Sync, Close; Read, List, Find | blob store, everything that reads a turn |
| blob store (`internal/blob`) | files named by the hash of what they hold | Put, Get, Remove, Refs | journal, retention, scenarios |
| agent loop (`internal/agent`) | step, conversation | Run, runTool, finish, fail | provider, tools, journal |
| recorder, player (`internal/llm`) | the cassette's cursor | Complete | provider or cassette, journal |
| cassette, Verify (`journal/replay.go`) | responses and the requests they answered | CassetteFrom, Next, Verify | player, front ends |
| front ends (`nemuz.go`, `cmd/nemuz`) | flags, options | run, replay, chat, delegate | all of the above |
| skill store and gate (`internal/skill`) | one `SKILL.md` and a directory of scenarios per skill | Load, Save, Promote, Archive, Restore, Demote, Pin, Evaluate, Certify | curator, consolidator, reviewer, operator |
| curator (`internal/curator`) | last run, pause | Run, RecordRun, SetPaused | skill store, gate |
| consolidator (`internal/consolidate`) | ledger of compared pairs | Run, applyMerge | skill store, a model |
| reviewer (`internal/review`) | ledger of turn shapes | Run, draft_skill | skill store, memory, a model |
| retention (`cmd/nemuz/journal.go`), index (`internal/index`) | markers of redacted turns; SQLite rows derived from journals | prune, redact, reindex | journal, blob store |
| memory (`internal/memory`) | one file per memory | Save, Forget, Pin, RecordUse | turns |
| plugin client (`internal/plugin`) | one request at a time on a pipe, reading goroutine | call, readLoop, Close | a child process |
| ACP, HTTP (`internal/acp`, `internal/httpapi`) | sessions with a cancel function, limiter, rate windows | prompt, cancel, run, shutdown | front ends |
| Telegram channel (`internal/telegram`, `cmd/nemuz/channel.go`) | offset, pairings | poll, handle, pair | front ends |
| provider transport (`llm/provider/http.go`) | attempts | do | the provider |

How the parts interact. A front end creates a journal, wraps the provider in a recorder over it, and runs the
loop; loop and recorder append to the same writer, from one goroutine. The writer stores large payloads in the
blob store. Later, another process reads the file, makes a cassette of it and runs the same loop against
that, with the real tools. The index, the reviewer and retention work from the files. The programs that look
after skills are separate commands, started by a person, a timer or a turn, on one directory, without a lock.

What is hard in it: the process may die with events in a buffer; an append may fail after part of it took
effect; a recording may be cut short or hold failed calls; the agent that replays is built anew; the skill
programs overlap, act on copies that have gone stale (for minutes, while a model thinks) and die between two
files; people edit the files. `hazards` in `PROJECT.json` lists these at their lines, with the properties that
cover them, those that none covers with the reason.

What makes each part correct: a *journal* says what happened, in order, and a file that reads as finished
hides nothing; a *turn* ends, tells the model only what it recorded, and reports success only if that is on disk;
a *replay* serves only what was asked, and calls reproducible only what is; a *skill* is active on evidence,
pinned and handwritten skills are left alone, nothing archived as replaced lacks its replacement; a *blob*
outlives every line that names it, and what was *redacted* is gone; a plugin's *reply* goes to its call, and
tools run as *confined* as the journal says; a *session's* cancel reaches the running prompt; *limits* hold and
their tokens come back; a *message* is handled, once; a *memory* that was forgotten stays so; nothing is
*reviewed* twice or *curated* against the operator's word. Several of these the code keeps only up to an overlap or
a failure; the properties say which, and "What the code does not do" lists those.

## Modules

**`JournalWriter`** is `journal.Writer`. `events` is what Append accepted; the file is described by `flushed`, how
many of its lines it holds whole, and `torn`, whether half a line follows, because events reach it in order through
a `bufio.Writer`. An Append of a large payload is two steps: `StoresPayload` puts it into the blob store, and
`AppendOK` or `AppendFails` is the line that names it, so the process may die in between. All of them use up a
sequence number, as the code takes it before anything can fail. A payload is its step and call; whether it is large
is a free choice, up to `MaxSpills` times. Payloads always marshal: the adapters hand on only JSON they have
parsed. `Readable` is what `ReadFrom` accepts.

**`Turn`** is one turn: `Agent.Run` with `runTool`, `finish` and `fail`, `llm.Recorder.Complete`, and the
caller that closes the journal and reports. Each action is the code between two points at which something else
can happen: an append, an answer of the provider, a run of a tool. The variable `pc` names that point. `Respond`,
`RespondInvalid` and `RespondError` are what a provider can do, cancellation being an error; a tool acts and
answers, or acts and fails. `Crash` may come between any two actions. `world` records what tools did, whatever
became of the record. Model calls are bounded by the code itself (`MaxSteps`), calls in a reply by `MaxCalls`.

**`TurnRecord`** is the abstract specification of a turn's record: which event may follow which, and that
a tool acts at most once for a call, while that call is the last thing recorded. `Turn` implements it under
the mapping `Record`, which forgets sequence numbers and refs.

**`Replay`** runs the loop twice: recording, cut anywhere, then replaying through `Player.Complete`, with the
settings the two front ends would give each run and a workspace that may have changed. Questions and answers
keep their content here, since matching and verification compare it. Loop steps are larger than in
`Turn`, as writes do not fail and the recording is cut at any event anyway.

**`Skills`** is the skill directory with its five programs and the persons who write and edit files in it at any
time, files that do not parse among them. A store operation is two actions, the load and the rename, so that every
overlap is there; `draft` is what a program has loaded and will save. A file that does not parse stops a listing,
and counts as absent where a name is looked up (`MergeNamed`, `DraftLoads`). The consolidator makes its pairs from
one list and works through them, whatever has become of the skills (`pairs`); it reads a source's scenarios once
and copies what it read (`unread`, `pending`). `reports` is a history of evaluations, against which evidence is
judged; `unaware` is what each program cannot know of the store: the files that did not parse as it looked and
those written since. `Stops` is a program that dies or gives up anywhere. Time is not modelled: a skill is old
enough for the curator, or idle, whenever that is possible. A change of body is a merge. **`MCSkills`** adds the
symmetry of the learned skills.

**`RecordedTurns`** is the data directory under many turns. What `JournalWriter` says of one writer in detail is
here an event that is stored, accepted into a buffer, and some time later in the file, unless the file has
been deleted or replaced under the writer, which then writes to nowhere. Refs are the bodies they name,
since blobs are content-addressed; a body is only whether a field to be redacted is in it and whether it is large.
**`TurnIndex`** adds `internal/index` and the processes that fill it: Ingest reads a journal and commits later,
and deleting the database file leaves those who have it open with a file nobody will read. **`Retention`** adds
`journal prune` and `journal redact`, each file operation a step, each command able to die before
the next. Its history variables name what goes wrong in known ways: `exposed`, `abandoned`, `unmarked`.
**`MCRetention`** makes prompts large and answers small, with one blob shared between turns.

**`PluginPipe`** is `internal/plugin`: the client's callers, its reading goroutine, the one that waits for the
process, Close, and the server in the child, with its pipes. Timers may fire whenever they run; the child may
answer late, never, with garbage, with a line that is too long, or die, and may leave processes behind that hold
some of its pipes (`heirs`), whose end the readers of stdout and stderr, and so Wait, need. A pipe may be `full`,
and a line longer than it has room for is `writing` until the child reads; Close writes its own shutdown line
(`CloseWrites`) before its timer runs. **`PluginPromise`** is what callers may rely on, and `PluginPipe` implements
it variable for variable. **`Toolset`** puts them into the command that starts them: `buildToolset` with its modes
and fall-backs, `nemuz plugin call`, and the worker that confines itself thread by thread, while Go may move a
goroutine that has not been pinned. The kernel offers any subset of the protections, and a thread is bound by what
was installed on it. **`SyscallFilter`** assembles the filter of `internal/sandbox` and executes it on one call as
the kernel does, one instruction a step, with jumps of a byte each. A call has a convention and a number; the x32
entry of x86-64 shares the convention of the native one and shows as bit 30 of the number.

**`AcpSessions`** is the editor's server: one loop that reads, a goroutine for each prompt, a cancel function per
session. **`HttpTurns`** is a request's way through key check, limiter, semaphore, turn and metrics, and a shutdown
with requests in flight. **`TelegramBot`** is the long-poll loop with its offset file, its signals and crashes, the
pairing file it shares with `nemuz pairing-code`, and the configuration those two and `nemuz config` rewrite from
copies they loaded earlier, each load and each save a step. After a stop signal the rest of the batch (`held`) is
gone through with a cancelled context, in which turn and reply fail at once, so only what was handled before is
`answered`. A write of the offset that fails, or a crash in it, leaves the old offset or a truncated file. Writes
of the pairing file and of the configuration are single steps. Telegram itself, external, forgets what is below the
offset.

**`MemoryStore`** has the sessions that recall, note use and remember, and the operator who forgets and pins; a
save empties the file and then writes it, as `os.WriteFile` does. Whether a memory is shown depends on its words,
its pin and its age, all of which are modelled. **`ReviewLedger`** is the list of shapes (or pairs) recorded as
asked about, read once by each process; recording and asking are two steps, between which a run may fail or die
(`FailsToAsk`, `Ends`), leaving a shape recorded and never asked about. **`CuratorClock`** is `curator.json`: when
it is due, the recorded run, the pause, `--force`, `--dry-run`; it too is emptied before it is written, and reads
as never run and not paused in between.

**`MCToolset`**, **`MCFrontEnds`** and **`MCUpkeep`** check components together that share no state. A behaviour is of
one of them and the others rest, so that one run does not multiply their states.

**`Turn_proofs`**, **`Replay_proofs`**, **`Skills_proofs`**, **`Retention_proofs`**, **`Toolset_proofs`** (with the
filter), **`FrontEnds_proofs`** and **`Upkeep_proofs`** hold the proofs, one module for each of the seven groups.

Operators named in comments as mutants are deliberate mistakes, used to test the properties.

## Runs

| run | asks | bounds |
|---|---|---|
| `turn` | all properties of `Turn`, the refinement of `TurnRecord`, and that only a tool can keep a turn from ending | 2 steps, 2 calls a reply, 1 large payload |
| `turn_write_ahead` | is a call on disk before its tool acts? No | the same, smaller |
| `turn_closed_out` | is a failed turn that closed well readable? No | the same, smaller |
| `replay` | all properties of `Replay`, both front ends | 2 steps, 2 calls a reply |
| `replay_printed` | does the printed command reproduce a turn? No | command line only |
| `skills` | all rules of the skill store | 2 learned, 1 handwritten, 1 free name; 3 commands, 2 at a time |
| `skills_pinned` | are pinned skills never transitioned, whatever overlaps? No | the same |
| `retention` | what survives prunes and redactions, and what is forgotten | a recorded and a new turn, an indexer, 2 janitors, 2 commands |
| `toolset` | replies, confinement, the promise to callers, who can hold up a caller or Close; the filter | 2 callers, 3 requests (one the handshake), 2 threads; lists of 0 to 2, 250 and 260 calls |
| `frontends` | all properties of the three front ends | 2 prompts in 2 sessions; 4 requests, 2 at a time, 2 in a window, 3 ticks; 2 users, 2 updates, 2 codes, 1 lapse |
| `telegram_forgotten` | was every update Telegram has forgotten answered? No | 2 users, 2 updates, 2 codes, 1 lapse |
| `upkeep` | all properties of memories, ledger and clock | 2 sessions, 3 memories, 2 turns, 2 orders; 2 reviewers, 3 shapes, ledger of 2, 5 recordings; 2 curators, 2 ticks, 2 pauses |

Why the bounds are enough. Two steps are a first request, one that carries an answer, and the step limit; two calls
are a first and a last one. A second large payload would only repeat the first. In `Replay` a default limit of 2
lets a recording have fewer steps than the replay, or as many. Each rule of `Skills` is about one skill, or a pair
and its merge, and at most two commands that meet in it; the third command is one before or after. Two learned
skills are a pair to merge; a free name is a place for a merge or a draft, and a draft that is certified is the
third skill of a list with several pairs (TLC reaches a pair whose source an earlier pair of that list archived).
In `retention` the recorded turn can share its blob with the one being written, which is what a prune may take
away; a second command is the other redaction, prune or rebuild it can meet. Three requests to a child are the
handshake, one whose reply comes late, and the one it could be taken for; with the handshake timed out too, the
reader can be stuck. The filter's longest list is 250 calls, and 260 shows that a longer one is refused. Two
prompts are one that crowds another. Four requests are a full window and one on each side, or a full semaphore and
the one it turns away; three ticks are one more than a window. Two updates and one lapse are one handled again and
the next. A ledger of two forgets the first of three shapes, and is written by two processes; with five recordings
one of them can bring the file back to what the other has read, two entries later. A clock of two reaches the
interval.

What the properties say:

- `KeepsRecord`, `ModelSeesTheJournal`: calls are recorded before tools act, answers before the model is told, and
  a replay rebuilds from the journal the messages the model saw.
- `SpilledIsStored`: no line, in the buffer or the file, names a payload that is not stored, wherever the process
  dies.
- `FinishedFileHidesNothing`: a file accepted as a finished turn is the whole record and has every answer. It holds
  *because* a failed append leaves a gap the reader refuses.
- `SuccessIsDurable`: success is reported only of a turn that is on disk, whole and readable.
- `TurnEnds`: every turn ends, even if no write succeeds and the model always asks for more, or stays for good in
  one run of a tool.
- `ServesOnlyItsOwnQuestion`: strict replay pairs responses with their own requests, on cut recordings too.
- `FinishedTurnsReplay`: same settings and workspace, same events; the loop adds nothing of its own.
- `OnlyWholeTurnsVerify`, `ChangedWorkspaceIsSeen`: no prefix, no failed turn, and no change that was read passes
  as reproduced.
- `ReplayConcludes`: every replay comes to a verdict, or stays for good in one run of a tool.
- `ActiveOnEvidence`: whatever overlaps or dies, an agent's active skill names a passed evaluation of that very
  skill, unless its file was edited by hand.
- `ReplacementExists`: a merge that dies half way has not archived a skill into nothing.
- `PersonsSkillsLeftAlone`: a maintaining program changes what a person wrote only if it could not know of it: the
  file did not parse when that program looked, or was written since (`unaware`). Then it does overwrite or archive
  it.
- `OnlyTheGatePromotes`, `PinnedStaysPut`: hold as long as commands do not overlap. With overlap they do not: a pin
  saved over a demotion restores the skill to service, and a certification may promote a merged body on the report
  of the old one.
- `PayloadsKept`: a prune takes no payload a remaining journal names, unless somebody wrote to that journal while
  the prune was at work (`exposed`): blobs are stored before their lines, and nothing locks.
- `IndexHoldsNothingElse`: rows show what journals hold, in spite of indexers that read early and commit late,
  except while a command has replaced the journal and not yet reset the index, or died there (`abandoned`).
- `RedactionForgets`: a redaction that reports success holds for good, even of a turn still being written.
- `AlteredIsMarked`: a journal that was altered says so, unless the command died in between (`unmarked`).
- `OwnReplyOnly`: a late reply answers nobody. After a time-out the next call takes it, sees another id, and fails;
  so may the call after that, each with the reply of the one before.
- `KeepsPromise`: calls are served one at a time, none run twice or out of order, none answered that was not run.
- `ToolsRunAsRecorded`: the confinement the journal names is that of the thread every call ran on.
- `Settles`: callers, `buildToolset` and Close come to an end whatever the child does, except in three ways: two
  calls were given up and the reader holds the second late reply (`ReaderStuck`); a request, or Close's own line,
  is being written to a pipe nobody reads, before any timer is looked at (`WriterStuck`); a process the child has
  started keeps its stdout or stderr open, which outlasts the kill (`PipeKept`).
- `FilterDecides`: the filter kills foreign conventions, denies the list by the native entry and allows the rest.
  An x32 call is among the rest: no comparison of the program matches its number.
- `EditorCanCancel`: an editor that awaits answers can cancel each prompt from when it runs until it ends, and only
  its cancels do. A second prompt sent meanwhile (`crowded`) may take or lose the function.
- `RateHolds`: no more than the limit in a fixed window, and fewer than twice as many in any stretch as long.
- `SlotsComeBack`: a token is out exactly for each request inside, and each turn and response is counted once,
  whichever way the handler left and whatever the shutdown cut off.
- `UpdatesAreHandled`: what Telegram has forgotten was handled, and with a live context unless it was in the batch
  in hand when the bot was told to stop; none is handled again but once for each crash or failed write of the
  offset.
- `PairedByLiveCode`: who is served is an owner or had a live code entered, however stale the copies of the
  configuration that are written back.
- `PromptsKeepTheOperatorsWord`: the forgotten is in no prompt and the pinned in each, up to its limit, unless a
  session has saved that memory since (`overwritten`), having loaded it before that command (`stale`).
- `AskedOnceWhileRemembered`: two questions about one shape are more recordings apart than the ledger remembers,
  those included whose question was never asked, until a process that was `behind`, having read the file before
  another's last write, writes it (`collided`). A write that fails is no collision.
- `CuratesWhenItMay`: nothing is curated against the operator's last word, and no recorded run begins within the
  interval of the one recorded last, by a program that reads `curator.json` whole, unless that pause or run was
  written over (`lost`) by a program that had read the file empty or before it was set (`outdated`).

The exceptions in brackets are states of the code, not of the model: without them TLC finds
a behaviour that breaks the property. They are listed with their lines under `hazards`, and a hazard a property
names as an exception is bounded by that property, not excluded by the code.

What the code does not do, each shown by a run that violates a sentence of its documentation:

- A tool can act while the line of its call is in the buffer (`journal/event.go`: "before anything else
  observes it"). `Sync` has no caller in a turn.
- A payload that cannot be spilled takes its sequence number with it, so the error and end recorded after it
  make a file no reader accepts (`agent.go`: "closed out properly").
- `nemuz replay` builds a toolset without `delegate`, which a default run has, so the command printed under
  an answer does not reproduce it.
- The curator demotes a skill pinned after it had listed it (`skill.go`: "never transitioned automatically").
- A bot that is stopped with a batch in hand acknowledges updates nobody answered (`telegram.go`: "what makes a
  restart safe").

What the models show besides, at the places the properties make an exception for, and that has no run of its own:

- An x32 call passes the filter, whose comment (`seccomp_linux.go`) says its check of the convention refuses them.
- A skill file that does not parse counts as a free name, and a draft or a merge of that name replaces it; the
  curator archives a person's skill that took the place of a listed one.
- `Load` does not validate, so a skill file edited to be active is offered without evidence (`README.md`).
- A cancel right behind its prompt finds no function yet, and two prompts of a session share one; both cancels are
  dropped.
- A shutdown of `nemuz serve` cuts requests that are still running after 30 seconds.
- A pairing code the command consumed comes back when the bot saves the file it had loaded before.
- A memory forgotten while a session notes its use is back; a pin is undone the same way.
- Two programs that finish turns of one shape at a time both review it; a shape whose review could not begin is
  skipped all the same.
- A program that reads `curator.json` while it is empty curates against the pause; two that are due together both
  run, and are recorded within the interval.

## Fairness

Safety needs none. `TurnEnds` assumes weak fairness of the loop's own steps (`LoopStep`), not of `Crash` and not of
a tool's run: the loop is one goroutine, the provider's attempts end by `DefaultTimeout` (`provider/http.go`), and
appending takes a lock nobody holds across a wait. A journal that always fails is allowed. A tool need not return:
`tool/exec.go` waits for a buffered output which a program's descendant may hold open beyond the limit, and
`plugin/client.go` writes a request before it looks at its timer. `ReplayConcludes` assumes the same of a replay,
which has no provider (`NoToolRuns`); the recording may stop anywhere. `Settles` assumes that whoever is in a call
that can end ends it (its context has a deadline), that the reading goroutine is scheduled, that Close's timer
fires, and that `buildToolset` goes on (`PluginFairness`, `ToolsetFairness`). Nothing is assumed of the child and
what it starts: they may read, answer and die, or never do anything again.

Deadlock is not checked: a turn, a replay, a sequence of commands, a server that is shut down and a call
that was decided are meant to end.

## Proofs

Every invariant and action property of the passing runs is proved, for all values of the constants: any registry,
step limit, number of programs, skills, turns, payloads, callers, threads, requests, clients, updates and so on.
The bounds of the runs (`MaxCommands`, `MaxTime` and the like) are constants too, of which the proofs know only
that they are naturals. The other assumptions are what the code has by construction: a limit is at least one, a set
of processes is finite where they are counted, the name standing for nobody or nothing is nobody's, a made-up tool
is not registered, the denied calls form a sequence. Each module proves that its invariant holds at the start, that
each action keeps it (one lemma for an action, or for actions of one kind), and that it implies the properties.

**`Turn_proofs`**. `TypeCorrect` (needs `WithinLimit`: a step is finished only within the limit), `SpillsAreStored`
(`StoredInv`: between the two steps of an Append what it holds is stored already), `SuccessesAreDurable`
(`SuccessInv`: a turn in which nothing failed has a journal without gap), `FinishedFilesHideNothing` (`FileInv`:
the end of a turn is its last event, and an answer that is missing left a gap, is about to be recorded, or went
down with a process that recorded no end). `TurnKeepsRecord` is the refinement of `TurnRecord`: `RecordInv` says
what the record ends with at each place of the loop, so that the event appended there is one that may follow, and
that the tools that have acted acted for earlier calls, so that none acts twice. `ModelsSeeTheJournal` relates the
messages to the answers in the journal by their ordinals. Four lemmas about the writer stand for all of Append.

**`Replay_proofs`** rests on one idea: what the loop journals next is settled by what it has journaled, except for the
model's responses and failures. `Stream` says this of every event, for given settings and workspace; `LoopAtEvents`
reads the state of the loop off its events. A recording is a prefix of a stream, so the same rules bind it and the
replay. Two streams that are in step at a request are in step until the next response, which the cassette
gives: `FinishedTurnsDoReplay` follows for a tape with an end, and `VerifiedTurnsAreWhole` because Verify wants an end
and no error. `ChangesAreSeen` compares the first read in both streams; `OwnQuestionsOnly` is inductive with the
cursor at the last response served. TLC checked the conjuncts of `ReplayInv` but the types before they were proved.

**`Skills_proofs`**. `SkillsInv` has a part that holds whatever overlaps: each file, and each copy a program is
about to save, is `Fit` for its name -- its author is right, its promotion is backed by a report, its replacement
exists. And it has a part that holds until commands overlap, `Undisturbed`: whoever runs is alone, and so what it
loaded is still what is there. From the first come `ActiveSkillsHaveEvidence` and `MergedSkillsAreReplaced`; the
second is needed for `GateAlonePromotes` and `PinnedSkillsStay`. `MaintenanceLeavesPersonsSkills` needs `AwareInv`
as well: whatever a maintaining program has listed, paired or named is an agent's or one it is `unaware` of, and
every file that does not parse is of the latter kind to the consolidator.

**`Retention_proofs`**. `RetentionInv` follows each command through its steps: what a prune has gathered so far
covers every turn that nobody wrote to (`SweepFits`), a redaction's lines are clean and their payloads stored
before they are renamed into place (`RewriteFits`), a row of a turn that no command disturbs is of its journal, on
its way to the index too (`IndexFits`), and a replaced journal has no writer (`AlteredFits`). `NamedPayloadsStay`,
`IndexFollowsTheJournal`, `RedactedStaysRedacted` and `RewrittenIsMarked` follow. That the next turn of a command's
list, a minimum, is one of the list rests on the library's well-foundedness of the naturals (`LeastMember`).

**`Toolset_proofs`**. `PluginInv`: requests are in the pipe in the order of their ids, one caller at a time waits,
and it waits for the last id; so a reply with that id is to its own call (`RepliesAreOwn`), and each step of the
client is one of `PluginPromise` or none (`PromiseIsKept`). `ConfinementInv`: a child that serves is pinned to a
thread bound by what it reported (`ToolsRunConfined`). `FilterInv`: at the i-th comparison the call is none of the
first i; `JumpsFitTheirByte` is the point of the limit of 250, as no distance is cut off by `% 256`
(`FilterIsRight`).

**`FrontEnds_proofs`**. `SessionInv`: two unanswered prompts of a session are both crowded, and a registered
function belongs to a running prompt of that session, so a prompt that ends does not delete another's
(`EditorsCanCancel`). `HttpInv`: a token is out for each request inside, counted by cardinality
(`SlotsAreReturned`); and for the limiter (`RateIsLimited`), since a window starts with a request, fewer than the
limit of the window before are near enough to be seen with those of this one. `TelegramInv`: what is below the
offset was handled, with a live context or in a batch that was held, and what is at or above the saved offset was
handled no more often than there were lapses (`NoUpdateIsLost`); a matched code is its user's and was live
(`OnlyThePairedAreServed`).

**`Upkeep_proofs`**. `MemoryInv`: unless it was overwritten, a forgotten memory is gone and whoever is about to
save it is stale, and a pinned one is there and every copy of it but a stale one is pinned; an id is noted once per
recall, hence uses are counted within the turns. That the oldest pinned memories are in each prompt
(`PromptsObeyTheOperator`) is the pigeonhole principle applied to what `Recall` put before them. `LedgerInv`: until
a collision the file is the end of all that was recorded, a process that is not behind holds the same, and so no
shape was recorded twice within the ledger's size (`Spaced`), of which `NothingIsAskedTwice` is a consequence.
`ClockInv`: each half of `curator.json`, if it is whole and that half not lost, and each copy about to be written
by who is not outdated, says what the operator said and when the last run began (`CuratorKeepsItsHours`).

The proofs changed the models in places. `AskedOnceWhileRemembered` was false as first stated: with five recordings
a process that is behind can find the file to be what it had read, and the test for a collision, which compared
contents, missed it; `behind` compares the order of reads and writes. The consolidator, going through the skills a
merge replaces, passes over the one it kept. A prune's cut-off is the youngest turn before it. A replay's cassette
is a position, and what `Recall` returns is told by what it may not leave out, in place of definitions by recursion
or sorting. `ModelSeesTheJournal` counts ordinals in place of filtering a sequence.

Only model-checked: liveness (`TurnEnds`, `ReplayConcludes`, `Settles`), which this prover cannot treat, and the
five runs that expect a violation.

## Plan

1. *Done*: `JournalWriter`, `TurnRecord`, `Turn`; `Replay`; `Skills`; their first proofs.
2. *Done*: `RecordedTurns`, `TurnIndex`, `Retention`; `PluginPipe` with `PluginPromise`, `Toolset`, `SyscallFilter`;
   `AcpSessions`, `HttpTurns`, `TelegramBot`; `MemoryStore`, `ReviewLedger`, `CuratorClock`.
3. *Done*: the safety properties of all runs and both refinements proved.
4. Left: lemmas that say more than a run can, such as that what `Recall` returns is unique; abstract specifications of
   the skill store and of the data directory, proved as refinements; the parts of the provider transport, the
   file tools and delegation that have state.

## Not modelled

The provider's transport is a sequential loop of attempts within one call, which the agent loop sees as an answer
or an error; the adapters, the wizard, queries of the index and the rendering of answers are conversions and
output without state. A scenario is a replay with more instructions, of which `Skills` knows whether it passed. What
file tools and programs do to a workspace is reduced to one read and one write in `Replay`. Delegation is
whether the tool is registered; its depth is not counted. The curator's ages of skills are a choice. What a Landlock
rule lets through is the kernel's. Histograms, the exposition of metrics and the splitting of long messages
are left out. The SDK, examples and benchmarks are outside the program. Payload sizes, usage counts and
wording appear nowhere, as no property depends on them. `Writer.Sync` and lenient replay are not in a turn's path.
