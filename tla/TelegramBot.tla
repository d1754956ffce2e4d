------------------------------ MODULE TelegramBot ------------------------------
(***************************************************************************)
(* `nemuz channel telegram' and `nemuz pairing-code': the long-poll loop,  *)
(* its offset file, the pairing codes the loop hands to strangers, and the *)
(* command that makes a stranger who has one an allowed user.  The two     *)
(* commands and `nemuz config' are processes that share files; a write of  *)
(* the pairing file or of config.json is taken as one step.                *)
(* Telegram forgets the updates below the highest offset it was asked for. *)
(***************************************************************************)
EXTENDS Integers

CONSTANTS
  Users,
  Owners,       \* allowed in the configuration from the start
  MaxUpdates,   \* Bound: messages sent to the bot
  MaxLapses,    \* Bound: crashes and failed writes of the offset
  MaxCodes      \* Bound: pairing codes issued

ASSUME OwnersAssumption == Owners \subseteq Users
ASSUME BoundsAssumption == MaxUpdates \in Nat /\ MaxLapses \in Nat /\ MaxCodes \in Nat

VARIABLES
  from,        \* per update: who sent it
  posted,      \* updates sent so far: 1 .. posted
  forgotten,   \* Telegram: updates below this are not returned any more
  offsetFile,
  bot,         \* the loop: where it is, offset, last update of its batch, allowUsers, m
  done,        \* history: how often an update was handled
  answered,    \* history: updates handled before a stop signal, with a live context
  held,        \* history: updates in the batch in hand when a stop signal came
  lapses,
  codes,       \* the pairing file: the codes in it
  owner,       \* per code issued: whose it is
  live,        \* codes issued less than pairCodeTTL ago
  command,     \* pairing-code: where it is, its code, the m and the list it loaded
  allowed,     \* config.json: channels.telegram.allowUsers
  edit,        \* `nemuz config' or an editor: the list it has loaded, if it has
  entitled,    \* history: users whose code was entered while it was live
  served       \* history: users a turn was run for

telegramVars == <<from, posted, forgotten, offsetFile, bot, done, answered, held, lapses,
                  codes, owner, live, command, allowed, edit, entitled, served>>

Updates == 1 .. MaxUpdates
Codes == 1 .. MaxCodes
Nobody == [loaded |-> FALSE, list |-> {}]
BotOff == [at |-> "off", offset |-> 0, last |-> 0, allow |-> {}, m |-> {}, changed |-> FALSE, stopping |-> FALSE]
NoCommand == [at |-> "idle", code |-> 0, m |-> {}, list |-> {}]

TelegramTypeOK ==
  /\ from \in [Updates -> Users]
  /\ posted \in 0 .. MaxUpdates /\ forgotten \in 0 .. MaxUpdates + 1
  /\ offsetFile \in 0 .. MaxUpdates + 1
  /\ bot \in [at : {"off", "polling", "handling", "issuing"}, offset : 0 .. MaxUpdates + 1,
              last : 0 .. MaxUpdates, allow : SUBSET Users, m : SUBSET Codes, changed : BOOLEAN,
              stopping : BOOLEAN]
  /\ done \in [Updates -> 0 .. MaxLapses + 1]
  /\ answered \subseteq Updates /\ held \subseteq Updates
  /\ lapses \in 0 .. MaxLapses
  /\ codes \subseteq Codes /\ live \subseteq Codes
  /\ owner \in [Codes -> Users \cup {"nobody"}]
  /\ command \in [at : {"idle", "matched", "loaded", "saved"}, code : 0 .. MaxCodes,
                  m : SUBSET Codes, list : SUBSET Users]
  /\ allowed \subseteq Users /\ entitled \subseteq Users /\ served \subseteq Users
  /\ edit \in [loaded : BOOLEAN, list : SUBSET Users]

TelegramInit ==
  /\ from \in [Updates -> Users]
  /\ posted = 0 /\ forgotten = 0 /\ offsetFile = 0 /\ bot = BotOff
  /\ done = [u \in Updates |-> 0] /\ answered = {} /\ held = {} /\ lapses = 0
  /\ codes = {} /\ owner = [c \in Codes |-> "nobody"] /\ live = {}
  /\ command = NoCommand /\ allowed = Owners /\ edit = Nobody
  /\ entitled = {} /\ served = {}

updateVars == <<done, answered, held>>
pairingVars == <<codes, owner, live, command, entitled>>
configVars == <<allowed, edit>>

-----------------------------------------------------------------------------
(* run.                                                                    *)

Posts ==
  /\ posted < MaxUpdates
  /\ posted' = posted + 1
  /\ UNCHANGED <<from, forgotten, offsetFile, bot, updateVars, lapses, pairingVars, configVars, served>>

\* The allowlist is read here, and not again.
StartsBot ==
  /\ bot.at = "off"
  /\ bot' = [BotOff EXCEPT !.at = "polling", !.offset = offsetFile, !.allow = allowed]
  /\ UNCHANGED <<from, posted, forgotten, offsetFile, updateVars, lapses, pairingVars, configVars, served>>

Larger(a, b) == IF a < b THEN b ELSE a

\* GetUpdates: some of what there is, or an error, whether or not Telegram saw the offset.
Polls ==
  /\ bot.at = "polling"
  /\ forgotten' = Larger(forgotten, bot.offset)
  /\ LET first == Larger(forgotten', 1)
     IN  \/ UNCHANGED bot
         \/ \E last \in first .. posted :
              bot' = [bot EXCEPT !.at = "handling", !.offset = first, !.last = last]
  /\ UNCHANGED <<from, posted, offsetFile, updateVars, lapses, pairingVars, configVars, served>>

\* The update in hand: in the code, offset is one more than it from here on.
Handling(u) == bot.at = "handling" /\ u = bot.offset /\ u <= bot.last

\* handle: a turn and its reply, or nothing for someone who is not allowed.  After the
\* stop signal both turn and reply, the report of a failure too, fail at once.  A signal
\* in between is the same as one before, when it leaves the reply unsent.
Handles(u) ==
  /\ Handling(u)
  /\ served' = IF from[u] \in bot.allow THEN served \cup {from[u]} ELSE served
  /\ answered' = IF from[u] \in bot.allow /\ bot.stopping THEN answered ELSE answered \cup {u}
  /\ done' = [done EXCEPT ![u] = @ + 1]
  /\ bot' = [bot EXCEPT !.offset = u + 1]
  /\ UNCHANGED <<from, posted, forgotten, offsetFile, held, lapses, pairingVars, configVars>>

\* Mutant of OffsetToSave: the last update itself, which is then asked for again.
OffsetOfLast == bot.offset - 1

\* Mutant of OffsetToSave: the update after the next one.
OffsetAfterNext == bot.offset + 1

OffsetToSave == bot.offset

BatchDone == bot.at = "handling" /\ bot.offset = bot.last + 1

\* What the file is after a write of it that fails or is cut short: what it was, or
\* truncated, when what digits are left are no number or one below every update's.
Unwritten == {offsetFile, 0}

\* After the batch; that the write may fail changes nothing for this process.
SavesOffset ==
  /\ BatchDone
  /\ \/ offsetFile' = OffsetToSave /\ UNCHANGED lapses
     \/ lapses < MaxLapses /\ lapses' = lapses + 1 /\ offsetFile' \in Unwritten
  /\ bot' = IF bot.stopping THEN BotOff ELSE [bot EXCEPT !.at = "polling"]
  /\ UNCHANGED <<from, posted, forgotten, updateVars, pairingVars, configVars, served>>

\* SIGTERM: at once while polling; otherwise the rest of the batch is gone through with a
\* cancelled context, and its offset is saved.
Signals ==
  /\ bot.at # "off" /\ ~bot.stopping
  /\ \/ bot.at = "polling" /\ bot' = BotOff /\ UNCHANGED held
     \/ /\ bot.at # "polling"
        /\ bot' = [bot EXCEPT !.stopping = TRUE]
        /\ held' = held \cup bot.offset .. bot.last
  /\ UNCHANGED <<from, posted, forgotten, offsetFile, done, answered, lapses, pairingVars,
                 configVars, served>>

\* A crash, perhaps in the middle of writing the offset.
Crashes ==
  /\ bot.at # "off" /\ lapses < MaxLapses
  /\ bot' = BotOff
  /\ lapses' = lapses + 1
  /\ offsetFile' \in (IF BatchDone THEN Unwritten ELSE {offsetFile})
  /\ UNCHANGED <<from, posted, forgotten, updateVars, pairingVars, configVars, served>>

-----------------------------------------------------------------------------
(* Pairing.                                                                *)

\* issuePairCode, for an update of a stranger: the file is read ...
LoadsCodes(u) ==
  /\ Handling(u) /\ from[u] \notin bot.allow
  /\ bot' = [bot EXCEPT !.at = "issuing", !.m = codes \cap live,
                          !.changed = ~(codes \subseteq live)]
  /\ UNCHANGED <<from, posted, forgotten, offsetFile, updateVars, lapses, pairingVars, configVars, served>>

\* ... and written with a new code in it, unless the user has one; then without those
\* that have expired, if any had.  The code is sent, but not after the stop signal.
SavesCodes(u) ==
  /\ bot.at = "issuing" /\ u = bot.offset
  /\ IF \E c \in bot.m : owner[c] = from[u]
     THEN codes' = (IF bot.changed THEN bot.m ELSE codes) /\ UNCHANGED <<owner, live>>
     ELSE \E c \in Codes :
            /\ owner[c] = "nobody"
            /\ owner' = [owner EXCEPT ![c] = from[u]]
            /\ live' = live \cup {c}
            /\ codes' = bot.m \cup {c}
  /\ bot' = [bot EXCEPT !.at = "handling", !.offset = u + 1, !.m = {}, !.changed = FALSE]
  /\ done' = [done EXCEPT ![u] = @ + 1]
  /\ answered' = IF bot.stopping THEN answered ELSE answered \cup {u}
  /\ UNCHANGED <<from, posted, forgotten, offsetFile, held, lapses, command, entitled,
                 configVars, served>>

Ages(c) ==
  /\ c \in live
  /\ live' = live \ {c}
  /\ UNCHANGED <<from, posted, forgotten, offsetFile, bot, updateVars, lapses, codes, owner,
                 command, entitled, configVars, served>>

\* Mutant of Pending: authorizePairCode does not look at the age of codes.
PendingForever == codes

\* discardExpiredPairCodes of what the file holds.
Pending == codes \cap live

\* authorizePairCode: it reads the file; a code that is not in it is the end, after a
\* rewrite without what has expired.
EntersCode(c) ==
  /\ command.at = "idle" /\ owner[c] # "nobody"
  /\ IF c \in Pending
     THEN /\ command' = [NoCommand EXCEPT !.at = "matched", !.code = c, !.m = Pending]
          /\ UNCHANGED codes
     ELSE codes' = Pending /\ UNCHANGED command
  /\ entitled' = IF c \in live THEN entitled \cup {owner[c]} ELSE entitled
  /\ UNCHANGED <<from, posted, forgotten, offsetFile, bot, updateVars, lapses, owner, live,
                 configVars, served>>

\* It reads the configuration, ...
LoadsAllowed ==
  /\ command.at = "matched"
  /\ command' = [command EXCEPT !.at = "loaded", !.list = allowed]
  /\ UNCHANGED <<from, posted, forgotten, offsetFile, bot, updateVars, lapses, codes, owner, live,
                 entitled, configVars, served>>

\* ... replaces it by what it read and the user, whatever was saved in between, ...
Authorizes ==
  /\ command.at = "loaded"
  /\ allowed' = command.list \cup {owner[command.code]}
  /\ command' = [command EXCEPT !.at = "saved", !.list = {}]
  /\ UNCHANGED <<from, posted, forgotten, offsetFile, bot, updateVars, lapses, codes, owner, live,
                 entitled, edit, served>>

\* ... and writes what it had read of the pairing file, without the code.
Consumes ==
  /\ command.at = "saved"
  /\ codes' = command.m \ {command.code}
  /\ command' = NoCommand
  /\ UNCHANGED <<from, posted, forgotten, offsetFile, bot, updateVars, lapses, owner, live,
                 entitled, configVars, served>>

\* Ended before its next write, or by an error of it.
CommandDies ==
  /\ command.at # "idle"
  /\ command' = NoCommand
  /\ UNCHANGED <<from, posted, forgotten, offsetFile, bot, updateVars, lapses, codes, owner, live,
                 entitled, configVars, served>>

\* LoadSettings and Save of another command, which may take off the list a user who is no owner.
LoadsConfig ==
  /\ ~edit.loaded
  /\ edit' = [loaded |-> TRUE, list |-> allowed]
  /\ UNCHANGED <<from, posted, forgotten, offsetFile, bot, updateVars, lapses, pairingVars, allowed,
                 served>>

SavesConfig ==
  /\ edit.loaded
  /\ allowed' \in {edit.list} \cup {edit.list \ {u} : u \in Users \ Owners}
  /\ edit' = Nobody
  /\ UNCHANGED <<from, posted, forgotten, offsetFile, bot, updateVars, lapses, pairingVars, served>>

TelegramNext ==
  \/ Posts \/ StartsBot \/ Polls \/ SavesOffset \/ Signals \/ Crashes
  \/ \E u \in Updates : Handles(u) \/ LoadsCodes(u) \/ SavesCodes(u)
  \/ \E c \in Codes : Ages(c) \/ EntersCode(c)
  \/ LoadsAllowed \/ Authorizes \/ Consumes \/ CommandDies \/ LoadsConfig \/ SavesConfig

-----------------------------------------------------------------------------
\* An update Telegram has forgotten was handled, and with a live context unless it was
\* in the batch in hand when the bot was told to stop, whatever crashed and whichever
\* write of the offset failed.  And it was handled once, but for one more time per such
\* lapse (run, loadTelegramOffset).
UpdatesAreHandled ==
  \A u \in Updates :
    /\ u < forgotten => done[u] >= 1 /\ u \in answered \cup held
    /\ done[u] <= 1 + lapses

\* What GetUpdates' comment says a restart rests on: the offset passed is one above the
\* last processed update, so that what is not redelivered was processed.
ForgottenWereProcessed == \A u \in Updates : u < forgotten => u \in answered

\* Whoever is on the list, in the file, in a running bot or in a command that has it
\* loaded, and whoever a turn was run for, is an owner or had a code of their own that
\* was entered while it was live; however the bot, the pairing command and edits of the
\* configuration interleave.
PairedByLiveCode ==
  allowed \cup bot.allow \cup served \cup edit.list \cup command.list
    \subseteq Owners \cup entitled
=============================================================================
