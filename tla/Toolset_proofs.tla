---------------------------- MODULE Toolset_proofs ----------------------------
(***************************************************************************)
(* Proofs about a plugin's client and its child process, about the         *)
(* confinement of the child, and about the system-call filter it installs, *)
(* for any number of callers, calls and threads, for every list of denied  *)
(* calls the code accepts, every convention and every call.                *)
(***************************************************************************)
EXTENDS MCToolset, TLAPS

(* The calls and the pipes.                                                *)

\* Requests are in the pipe in the order of their ids, after those the child has started
\* and before the one that is being written, which its caller waits for.
InOrder ==
  /\ \A m, n \in 1 .. Len(stdin) :
       m < n /\ stdin[m] # Shutdown /\ stdin[n] # Shutdown => stdin[m] < stdin[n]
  /\ \A n \in 1 .. Len(stdin) : stdin[n] # Shutdown =>
       /\ stdin[n] <= nextID
       /\ writing # 0 => stdin[n] < writing
       /\ \A k \in ran : k < stdin[n]
  /\ \A k \in ran : k <= nextID /\ (writing # 0 => k < writing)
  /\ writing # 0 => \E c \in Callers : waiting[c] = writing

\* One caller at a time is in call, and what it waits for is the last id.
OneInCall ==
  /\ \A c \in Callers : waiting[c] # 0 => waiting[c] = nextID /\ stage[nextID] = "asked"
  /\ \A c, d \in Callers : waiting[c] # 0 /\ waiting[d] # 0 => c = d
  /\ \A i \in Calls : stage[i] = "asked" => \E c \in Callers : waiting[c] = i
  /\ \A i \in Calls : stage[i] = "free" <=> nextID < i

\* Whatever comes from the child, if it is a reply at all, is one to a call it has run.
RepliesRan ==
  /\ child.at \in ran \cup {0}
  /\ \A n \in 1 .. Len(stdout) : stdout[n] \in ran \cup {Garbage}
  /\ \A n \in 1 .. Len(responses) : responses[n] \in ran
  /\ reader = "delivering" => held \in ran
  /\ OwnReplyOnly

PluginInv == PluginTypeOK /\ InOrder /\ OneInCall /\ RepliesRan

\* What is known of the ends of a sequence.
LEMMA FirstAndRest ==
  ASSUME NEW S, NEW s \in Seq(S), s # <<>>
  PROVE  /\ Len(s) \in Nat \ {0} /\ Head(s) = s[1] /\ Head(s) \in S
         /\ Tail(s) \in Seq(S) /\ Len(Tail(s)) = Len(s) - 1
         /\ \A n \in 1 .. Len(s) - 1 : Tail(s)[n] = s[n + 1] /\ n + 1 \in 1 .. Len(s)
  OBVIOUS

LEMMA OneMore ==
  ASSUME NEW S, NEW s \in Seq(S), NEW e \in S
  PROVE  /\ Append(s, e) \in Seq(S) /\ Len(s) \in Nat /\ Len(Append(s, e)) = Len(s) + 1
         /\ Append(s, e)[Len(s) + 1] = e
         /\ \A n \in 1 .. Len(s) : Append(s, e)[n] = s[n]
         /\ \A n \in 1 .. Len(s) + 1 : n \in 1 .. Len(s) \/ n = Len(s) + 1
  OBVIOUS

LEMMA JustOne ==
  ASSUME NEW S, NEW e \in S
  PROVE  <<e>> \in Seq(S) /\ Len(<<e>>) = 1 /\ <<e>>[1] = e
  OBVIOUS

LEMMA PluginBegins == PluginInit => PluginInv
<1> SUFFICES ASSUME PluginInit PROVE PluginInv
  OBVIOUS
<1> USE MaxCallsAssumption
<1>1. PluginTypeOK
  <2>1. 0 \in 0 .. MaxCalls /\ <<>> \in Seq(0 .. MaxCalls) /\ <<>> \in Seq(Calls)
        /\ Len(<<>>) = 0
    OBVIOUS
  <2>2. NoChild \in [up : BOOLEAN, serving : BOOLEAN, at : 0 .. MaxCalls]
    BY <2>1 DEF NoChild
  <2>3. waiting \in [Callers -> 0 .. MaxCalls] /\ answer \in [Calls -> 0 .. MaxCalls]
        /\ stage \in [Calls -> {"free", "asked", "answered", "failed"}]
    BY <2>1 DEF PluginInit
  <2>4. /\ stdin \in Seq(0 .. MaxCalls) /\ stdout \in Seq(0 .. MaxCalls)
        /\ responses \in Seq(Calls) /\ Len(responses) <= 1
    BY <2>1 DEF PluginInit
  <2>5. /\ nextID \in 0 .. MaxCalls /\ writing \in 0 .. MaxCalls /\ held \in 0 .. MaxCalls
        /\ child \in [up : BOOLEAN, serving : BOOLEAN, at : 0 .. MaxCalls]
    BY <2>1, <2>2 DEF PluginInit
  <2>6. /\ phase = "off" /\ stdinOpen = FALSE /\ full = FALSE /\ heirs = {} /\ ran = {} /\ reader = "off" /\ readErr = FALSE
        /\ exited = FALSE /\ closing = "no"
    BY DEF PluginInit
  <2> QED
    BY <2>3, <2>4, <2>5, <2>6 DEF PluginTypeOK
<1>2. Len(stdin) = 0 /\ Len(stdout) = 0 /\ Len(responses) = 0 /\ ran = {}
  BY DEF PluginInit
<1>3. InOrder /\ OneInCall
  BY <1>2 DEF PluginInit, InOrder, OneInCall, Calls
<1>4. RepliesRan
  BY <1>2 DEF PluginInit, RepliesRan, OwnReplyOnly, NoChild
<1> QED
  BY <1>1, <1>3, <1>4 DEF PluginInv

-----------------------------------------------------------------------------
(* A caller: call (client.go).                                             *)

LEMMA SendsWell ==
  ASSUME PluginInv, NEW c \in Callers, Sends(c)
  PROVE  PluginInv' /\ (\E i \in Calls : Promise!Ask(i) \/ Promise!Refuse(i))
<1> USE MaxCallsAssumption
<1> DEFINE i == nextID + 1
<1>1. /\ nextID \in Nat /\ i \in Calls /\ nextID' = i /\ nextID < i
      /\ stage \in [Calls -> {"free", "asked", "answered", "failed"}]
      /\ waiting \in [Callers -> 0 .. MaxCalls]
      /\ stdin \in Seq(0 .. MaxCalls) /\ i \in 0 .. MaxCalls /\ 0 \notin Calls
      /\ \A d \in Callers : waiting[d] = 0
      /\ ran \subseteq Calls
  BY DEF Sends, MutexFree, PluginInv, PluginTypeOK, Calls
<1>2. /\ \A k \in Calls : stage[k] # "asked"
      /\ stage[i] = "free" /\ \A k \in Calls : k < i => stage[k] # "free"
      /\ writing = 0
  BY <1>1 DEF PluginInv, OneInCall, InOrder, Calls
<1> HIDE DEF i
<1>3. UNCHANGED <<phase, answer, stdinOpen, stdout, child, heirs, ran, readerVars, closing>>
  BY DEF Sends, processVars
<1>4. CASE stdinOpen /\ Held("stdin")
  <2>0. full' \in BOOLEAN
    BY <1>4 DEF Sends, PluginInv, PluginTypeOK
  <2>1. /\ \/ stdin' = Append(stdin, i) /\ UNCHANGED writing
           \/ writing' = i /\ UNCHANGED stdin
        /\ waiting' = [waiting EXCEPT ![c] = i]
        /\ stage' = [stage EXCEPT ![i] = "asked"]
    BY <1>1, <1>4 DEF Sends
  <2>2. PluginTypeOK'
    <3>1. stdin' \in Seq(0 .. MaxCalls)
      <4>1. Append(stdin, i) \in Seq(0 .. MaxCalls)
        BY <1>1, OneMore
      <4> QED
        BY <1>1, <2>1, <4>1
    <3>2. nextID' \in 0 .. MaxCalls /\ writing' \in 0 .. MaxCalls
          /\ waiting' \in [Callers -> 0 .. MaxCalls]
          /\ stage' \in [Calls -> {"free", "asked", "answered", "failed"}]
      BY <1>1, <1>2, <2>1
    <3> QED
      BY <1>3, <2>0, <3>1, <3>2 DEF PluginInv, PluginTypeOK, readerVars
  <2>3. InOrder'
    <3>1. CASE stdin' = Append(stdin, i) /\ UNCHANGED writing
      <4>1. /\ Len(stdin) \in Nat /\ Len(stdin') = Len(stdin) + 1 /\ stdin'[Len(stdin) + 1] = i
            /\ \A n \in 1 .. Len(stdin) : stdin'[n] = stdin[n]
            /\ \A n \in 1 .. Len(stdin') : n \in 1 .. Len(stdin) \/ n = Len(stdin) + 1
        BY <1>1, <3>1, OneMore
      <4>2. \A n \in 1 .. Len(stdin) : stdin[n] \in 0 .. MaxCalls
        BY <1>1
      <4>3. \A k \in ran : k \in Nat /\ k < i
        BY <1>1 DEF PluginInv, InOrder, Calls
      <4>4. \A n \in 1 .. Len(stdin) : stdin[n] # Shutdown => stdin[n] < i
        BY <1>1, <4>2 DEF PluginInv, InOrder
      <4>5. /\ \A m, n \in 1 .. Len(stdin') :
                 m < n /\ stdin'[m] # Shutdown /\ stdin'[n] # Shutdown => stdin'[m] < stdin'[n]
        BY <4>1, <4>4 DEF PluginInv, InOrder
      <4>6. \A n \in 1 .. Len(stdin') : stdin'[n] # Shutdown =>
              stdin'[n] <= i /\ \A k \in ran : k < stdin'[n]
        BY <1>1, <4>1, <4>2, <4>3, <4>4 DEF PluginInv, InOrder
      <4> QED
        BY <1>1, <1>2, <1>3, <3>1, <4>3, <4>5, <4>6 DEF InOrder
    <3>2. CASE writing' = i /\ UNCHANGED stdin
      <4>1. \A n \in 1 .. Len(stdin) : stdin[n] \in 0 .. MaxCalls
        BY <1>1
      <4>2. waiting'[c] = i
        BY <1>1, <2>1
      <4> QED
        BY <1>1, <1>3, <3>2, <4>1, <4>2 DEF PluginInv, InOrder, Calls
    <3> QED
      BY <2>1, <3>1, <3>2
  <2>4. OneInCall'
    BY <1>1, <1>2, <2>1 DEF PluginInv, OneInCall, Calls
  <2>5. RepliesRan'
    BY <1>1, <1>3, <2>1 DEF PluginInv, RepliesRan, OwnReplyOnly, readerVars
  <2>6. Promise!Ask(i)
    BY <1>1, <1>2, <1>3, <2>1 DEF Promise!Ask, Promise!FirstFree, Promise!Calls, Calls
  <2> QED
    BY <1>1, <2>2, <2>3, <2>4, <2>5, <2>6 DEF PluginInv
<1>5. CASE ~(stdinOpen /\ Held("stdin"))
  <2>1. stage' = [stage EXCEPT ![i] = "failed"] /\ UNCHANGED <<stdin, full, writing, waiting>>
    BY <1>1, <1>5 DEF Sends
  <2>2. PluginTypeOK'
    BY <1>1, <1>3, <2>1 DEF PluginInv, PluginTypeOK, readerVars
  <2>3. InOrder'
    <3>1. \A n \in 1 .. Len(stdin) : stdin[n] \in 0 .. MaxCalls
      BY <1>1
    <3> QED
      BY <1>1, <1>3, <2>1, <3>1 DEF PluginInv, InOrder, Calls
  <2>4. OneInCall'
    BY <1>1, <1>2, <2>1 DEF PluginInv, OneInCall, Calls
  <2>5. RepliesRan'
    BY <1>1, <1>3, <2>1 DEF PluginInv, RepliesRan, OwnReplyOnly, readerVars
  <2>6. Promise!Refuse(i)
    BY <1>1, <1>2, <1>3, <2>1 DEF Promise!Refuse, Promise!FirstFree, Promise!Calls, Calls
  <2> QED
    BY <1>1, <2>2, <2>3, <2>4, <2>5, <2>6 DEF PluginInv
<1> QED
  BY <1>4, <1>5

\* A call ends as one that has failed, or with its own reply.
LEMMA ReturnsWell ==
  ASSUME PluginInv, NEW c \in Callers, CallEnds(c)
  PROVE  PluginInv' /\ (\E i \in Calls : Promise!Answer(i) \/ Promise!Fail(i))
<1> USE MaxCallsAssumption
<1> DEFINE i == waiting[c]
<1>1. /\ waiting \in [Callers -> 0 .. MaxCalls] /\ nextID \in 0 .. MaxCalls
      /\ stage \in [Calls -> {"free", "asked", "answered", "failed"}]
      /\ answer \in [Calls -> 0 .. MaxCalls]
      /\ responses \in Seq(Calls) /\ Len(responses) <= 1
      /\ i # 0 /\ i = nextID /\ i \in Calls /\ stage[i] = "asked"
      /\ \A d \in Callers : d # c => waiting[d] = 0
      /\ writing \in 0 .. MaxCalls
  <2>1. i # 0
    BY DEF CallEnds, WriteFails, TimesOut, SeesReadError, SeesExit, TakesReply, Selects, Returns
  <2> QED
    BY <2>1 DEF PluginInv, PluginTypeOK, OneInCall, Calls
<1>2. /\ waiting' = [waiting EXCEPT ![c] = 0]
      /\ UNCHANGED <<phase, nextID, stdin, stdinOpen, full, stdout, child, heirs, ran, reader,
                     held, exited, closing>>
      /\ writing' = 0
      /\ readErr' \in {readErr, FALSE}
  BY DEF CallEnds, WriteFails, TimesOut, SeesReadError, SeesExit, TakesReply, Selects, Returns,
     processVars
<1>3. \/ /\ stage' = [stage EXCEPT ![i] = "failed"] /\ UNCHANGED answer
         /\ responses' = responses \/ (responses # <<>> /\ responses' = Tail(responses))
      \/ /\ responses # <<>> /\ Head(responses) = i /\ responses' = Tail(responses)
         /\ stage' = [stage EXCEPT ![i] = "answered"]
         /\ answer' = [answer EXCEPT ![i] = i]
  BY DEF CallEnds, WriteFails, TimesOut, SeesReadError, SeesExit, TakesReply, Selects, Returns,
     Accepted
<1> HIDE DEF i
<1>4. /\ responses' \in Seq(Calls) /\ Len(responses') <= 1
      /\ \A n \in 1 .. Len(responses') : responses'[n] \in ran
      /\ responses # <<>> => Head(responses) \in ran
  <2>1. CASE responses' = responses
    <3>1. responses # <<>> => Len(responses) \in Nat \ {0} /\ Head(responses) = responses[1]
      BY <1>1, FirstAndRest
    <3> QED
      BY <1>1, <2>1, <3>1 DEF PluginInv, RepliesRan
  <2>2. CASE responses # <<>> /\ responses' = Tail(responses)
    <3>1. /\ Len(responses) \in Nat \ {0} /\ Head(responses) = responses[1]
          /\ responses' \in Seq(Calls) /\ Len(responses') = Len(responses) - 1
      BY <1>1, <2>2, FirstAndRest
    <3> QED
      BY <1>1, <3>1 DEF PluginInv, RepliesRan
  <2> QED
    BY <1>3, <2>1, <2>2
<1>a. /\ waiting'[c] = 0 /\ \A d \in Callers : waiting'[d] = 0
      /\ stage'[i] \in {"failed", "answered"}
      /\ \A k \in Calls : k # i => stage'[k] = stage[k]
      /\ waiting' \in [Callers -> 0 .. MaxCalls]
      /\ stage' \in [Calls -> {"free", "asked", "answered", "failed"}]
      /\ answer' \in [Calls -> 0 .. MaxCalls]
  <2>1. /\ waiting'[c] = 0 /\ \A d \in Callers : waiting'[d] = 0
        /\ waiting' \in [Callers -> 0 .. MaxCalls]
    BY <1>1, <1>2
  <2>2. i \in 0 .. MaxCalls
    BY <1>1 DEF Calls
  <2>3. CASE stage' = [stage EXCEPT ![i] = "failed"] /\ UNCHANGED answer
    BY <1>1, <2>1, <2>3
  <2>4. CASE stage' = [stage EXCEPT ![i] = "answered"] /\ answer' = [answer EXCEPT ![i] = i]
    BY <1>1, <2>1, <2>2, <2>4
  <2> QED
    BY <1>3, <2>3, <2>4
<1>5. PluginTypeOK'
  <2>1. readErr' \in BOOLEAN
    BY <1>2 DEF PluginInv, PluginTypeOK
  <2> QED
    BY <1>1, <1>2, <1>4, <1>a, <2>1 DEF PluginInv, PluginTypeOK
<1>6. InOrder'
  BY <1>1, <1>2 DEF PluginInv, InOrder
<1>7. OneInCall'
  <2>1. \A k \in Calls : stage'[k] # "asked"
    <3> SUFFICES ASSUME NEW k \in Calls, k # i, stage[k] = "asked" PROVE FALSE
      BY <1>a
    <3>1. PICK d \in Callers : waiting[d] = k
      BY DEF PluginInv, OneInCall
    <3> QED
      BY <1>1, <3>1 DEF Calls, PluginInv, OneInCall
  <2>2. \A k \in Calls : stage'[k] = "free" <=> nextID' < k
    BY <1>1, <1>2, <1>a DEF PluginInv, OneInCall
  <2> QED
    BY <1>a, <2>1, <2>2 DEF OneInCall
<1>8. RepliesRan'
  BY <1>1, <1>2, <1>3, <1>4 DEF PluginInv, RepliesRan, OwnReplyOnly
<1>9. Promise!Answer(i) \/ Promise!Fail(i)
  BY <1>1, <1>2, <1>3, <1>4 DEF Promise!Answer, Promise!Fail
<1> QED
  BY <1>1, <1>5, <1>6, <1>7, <1>8, <1>9 DEF PluginInv

-----------------------------------------------------------------------------
(* The host's other goroutines, and the child.                             *)

\* What a step does that leaves the requests and the callers alone.
LEMMA RepliesFlow ==
  ASSUME PluginInv, PluginTypeOK',
         UNCHANGED <<nextID, waiting, stage, answer, stdin, writing, ran>>,
         child'.at \in ran \cup {0},
         \A n \in 1 .. Len(stdout') : stdout'[n] \in ran \cup {Garbage},
         \A n \in 1 .. Len(responses') : responses'[n] \in ran,
         reader' = "delivering" => held' \in ran
  PROVE  PluginInv' /\ UNCHANGED <<stage, ran>>
<1>1. InOrder'
  BY DEF PluginInv, InOrder
<1>2. OneInCall'
  BY DEF PluginInv, OneInCall
<1>3. RepliesRan'
  BY DEF PluginInv, RepliesRan, OwnReplyOnly
<1> QED
  BY <1>1, <1>2, <1>3 DEF PluginInv

LEMMA ReaderWell ==
  ASSUME PluginInv, ReaderStep
  PROVE  PluginInv' /\ UNCHANGED <<stage, ran>>
<1>a. /\ stdout \in Seq(0 .. MaxCalls) /\ responses \in Seq(Calls) /\ Len(responses) <= 1
      /\ ran \subseteq Calls /\ held \in 0 .. MaxCalls /\ MaxCalls \in Nat
      /\ child.at \in ran \cup {0}
      /\ \A n \in 1 .. Len(stdout) : stdout[n] \in ran \cup {Garbage}
      /\ \A n \in 1 .. Len(responses) : responses[n] \in ran
      /\ reader = "delivering" => held \in ran
  BY MaxCallsAssumption DEF PluginInv, PluginTypeOK, RepliesRan
<1>b. UNCHANGED <<hostVars, stdin, stdinOpen, full, writing, child, heirs, ran, closing>>
  BY DEF ReaderStep, ReadsLine, Delivers, ReadsEOF, Reaps, pipeVars, processVars
\* One reply more goes into the channel, or into the hands of readLoop.
<1>c. ASSUME NEW reply \in ran, PutsResponse(reply)
      PROVE  /\ responses' \in Seq(Calls) /\ Len(responses') <= 1 /\ held' \in 0 .. MaxCalls
             /\ reader' \in {"reading", "delivering"}
             /\ reader' = "delivering" => held' \in ran
             /\ \A n \in 1 .. Len(responses') : responses'[n] \in ran
  <2>1. reply \in Calls /\ reply \in 0 .. MaxCalls /\ 0 \in 0 .. MaxCalls
    BY <1>a DEF Calls
  <2>2. <<reply>> \in Seq(Calls) /\ Len(<<reply>>) = 1 /\ <<reply>>[1] = reply
    BY <2>1, JustOne
  <2>3. CASE responses = <<>>
    <3>1. responses' = <<reply>> /\ reader' = "reading" /\ held' = 0
      BY <1>c, <2>3 DEF PutsResponse
    <3>2. \A n \in 1 .. 1 : n = 1
      OBVIOUS
    <3> QED
      BY <2>1, <2>2, <3>1, <3>2
  <2>4. CASE responses # <<>>
    BY <1>a, <1>c, <2>1, <2>4 DEF PutsResponse
  <2> QED
    BY <2>3, <2>4
<1>1. CASE ReadsLine
  <2>1. /\ Len(stdout) \in Nat \ {0} /\ Head(stdout) = stdout[1]
        /\ stdout' \in Seq(0 .. MaxCalls) /\ Len(stdout') = Len(stdout) - 1
        /\ \A n \in 1 .. Len(stdout) - 1 : stdout'[n] = stdout[n + 1] /\ n + 1 \in 1 .. Len(stdout)
    BY <1>1, <1>a, FirstAndRest DEF ReadsLine
  <2>2. \A n \in 1 .. Len(stdout') : stdout'[n] \in ran \cup {Garbage}
    BY <1>a, <2>1
  <2>3. CASE Head(stdout) = Garbage
    <3>1. reader' = "done" /\ readErr' = TRUE /\ UNCHANGED <<held, responses, exited>>
      BY <1>1, <2>3 DEF ReadsLine
    <3>2. PluginTypeOK'
      BY <1>b, <2>1, <3>1 DEF PluginInv, PluginTypeOK, hostVars
    <3> QED
      BY <1>a, <1>b, <2>2, <3>1, <3>2, RepliesFlow DEF hostVars
  <2>4. CASE Head(stdout) # Garbage
    <3>1. Head(stdout) \in ran /\ PutsResponse(Head(stdout)) /\ UNCHANGED <<readErr, exited>>
      BY <1>1, <1>a, <2>1, <2>4 DEF ReadsLine
    <3>2. /\ responses' \in Seq(Calls) /\ Len(responses') <= 1 /\ held' \in 0 .. MaxCalls
          /\ reader' \in {"reading", "delivering"}
          /\ reader' = "delivering" => held' \in ran
          /\ \A n \in 1 .. Len(responses') : responses'[n] \in ran
      BY <1>c, <3>1
    <3>3. PluginTypeOK'
      BY <1>b, <2>1, <3>1, <3>2 DEF PluginInv, PluginTypeOK, hostVars
    <3> QED
      BY <1>a, <1>b, <2>2, <3>2, <3>3, RepliesFlow DEF hostVars
  <2> QED
    BY <2>3, <2>4
<1>2. CASE Delivers
  <2>1. held \in ran /\ PutsResponse(held) /\ UNCHANGED <<stdout, readErr, exited>>
    BY <1>2, <1>a DEF Delivers, pipeVars
  <2>2. /\ responses' \in Seq(Calls) /\ Len(responses') <= 1 /\ held' \in 0 .. MaxCalls
        /\ reader' \in {"reading", "delivering"}
        /\ reader' = "delivering" => held' \in ran
        /\ \A n \in 1 .. Len(responses') : responses'[n] \in ran
    BY <1>c, <2>1
  <2>3. PluginTypeOK'
    BY <1>b, <2>1, <2>2 DEF PluginInv, PluginTypeOK, hostVars
  <2> QED
    BY <1>a, <1>b, <2>1, <2>2, <2>3, RepliesFlow DEF hostVars
<1>3. CASE ReadsEOF \/ Reaps
  <2>1. /\ UNCHANGED <<stdout, held, responses, readErr>>
        /\ reader' \in {reader, "done"} /\ exited' \in {exited, TRUE}
    BY <1>3 DEF ReadsEOF, Reaps, pipeVars
  <2>2. PluginTypeOK'
    <3>1. exited' \in BOOLEAN
      BY <2>1 DEF PluginInv, PluginTypeOK
    <3> QED
      BY <1>b, <2>1, <3>1 DEF PluginInv, PluginTypeOK, hostVars
  <2>3. reader' = "delivering" => held' \in ran
    BY <1>a, <2>1
  <2> QED
    BY <1>a, <1>b, <2>1, <2>2, <2>3, RepliesFlow DEF hostVars
<1> QED
  BY <1>1, <1>2, <1>3 DEF ReaderStep

ProcessStep ==
  \/ Launches \/ HandshakeEnds \/ CloseBegins \/ CloseKills \/ CloseReturns
  \/ ChildReplies \/ ChildSeesEOF \/ ChildPrints \/ ChildDies \/ ChildSpawns \/ HeirsEnd

\* It starts, prints, answers, ends or is ended (Start, Close, handle).
LEMMA ProcessWell ==
  ASSUME PluginInv, \/ ProcessStep
                    \/ /\ child' = [child EXCEPT !.serving = TRUE]
                       /\ UNCHANGED <<hostVars, pipeVars, heirs, ran, readerVars, closing>>
  PROVE  PluginInv' /\ UNCHANGED <<stage, ran>>
<1> USE MaxCallsAssumption
<1>a. /\ stdout \in Seq(0 .. MaxCalls) /\ ran \subseteq Calls
      /\ child.at \in ran \cup {0}
      /\ \A n \in 1 .. Len(stdout) : stdout[n] \in ran \cup {Garbage}
      /\ \A n \in 1 .. Len(responses) : responses[n] \in ran
      /\ reader = "delivering" => held \in ran
      /\ child \in [up : BOOLEAN, serving : BOOLEAN, at : 0 .. MaxCalls]
      /\ 0 \in 0 .. MaxCalls
  BY DEF PluginInv, PluginTypeOK, RepliesRan
<1>b. UNCHANGED <<nextID, waiting, stage, answer, stdin, full, writing, ran, held, responses,
                  readErr, exited>>
  BY DEF ProcessStep, Launches, HandshakeEnds, CloseBegins, CloseKills, CloseReturns, ChildReplies,
     ChildSeesEOF, ChildPrints, ChildDies, ChildSpawns, HeirsEnd, processVars, hostVars, pipeVars, readerVars
<1>c. /\ phase' \in {"starting", "ready", "broken", phase}
      /\ stdinOpen' \in {TRUE, stdinOpen}
      /\ reader' \in {"reading", reader}
      /\ closing' \in {"writing", "killed", "done", closing}
  BY DEF ProcessStep, Launches, HandshakeEnds, CloseBegins, CloseKills, CloseReturns, ChildReplies,
     ChildSeesEOF, ChildPrints, ChildDies, ChildSpawns, HeirsEnd, processVars, hostVars, pipeVars, readerVars
<1>f. heirs' \subseteq Pipes
  BY DEF ProcessStep, Launches, HandshakeEnds, CloseBegins, CloseKills, CloseReturns, ChildReplies,
     ChildSeesEOF, ChildPrints, ChildDies, ChildSpawns, HeirsEnd, processVars, PluginInv, PluginTypeOK
<1>d. child' \in [up : BOOLEAN, serving : BOOLEAN, at : 0 .. MaxCalls] /\ child'.at \in {child.at, 0}
  <2>1. \/ child' \in {child, NoChild, [NoChild EXCEPT !.up = TRUE]}
        \/ child' \in {[child EXCEPT !.at = 0], [child EXCEPT !.serving = TRUE]}
    BY DEF ProcessStep, Launches, HandshakeEnds, CloseBegins, CloseKills, CloseReturns,
       ChildReplies, ChildSeesEOF, ChildPrints, ChildDies, ChildSpawns, HeirsEnd, processVars
  <2>2. /\ NoChild \in [up : BOOLEAN, serving : BOOLEAN, at : 0 .. MaxCalls] /\ NoChild.at = 0
        /\ child.at \in {child.at, 0}
    BY <1>a DEF NoChild
  <2>3. \A r \in [up : BOOLEAN, serving : BOOLEAN, at : 0 .. MaxCalls] :
          /\ [r EXCEPT !.up = TRUE] \in [up : BOOLEAN, serving : BOOLEAN, at : 0 .. MaxCalls]
          /\ [r EXCEPT !.serving = TRUE] \in [up : BOOLEAN, serving : BOOLEAN, at : 0 .. MaxCalls]
          /\ [r EXCEPT !.at = 0] \in [up : BOOLEAN, serving : BOOLEAN, at : 0 .. MaxCalls]
          /\ [r EXCEPT !.up = TRUE].at = r.at /\ [r EXCEPT !.serving = TRUE].at = r.at
          /\ [r EXCEPT !.at = 0].at = 0
    BY <1>a
  <2>4. CASE child' = child \/ child' = NoChild
    BY <1>a, <2>2, <2>4
  <2>5. CASE child' = [NoChild EXCEPT !.up = TRUE]
    <3> HIDE DEF NoChild
    <3> QED
      BY <2>2, <2>3, <2>5
  <2>6. CASE child' = [child EXCEPT !.at = 0]
    <3>1. child'.at = 0
      BY <1>a, <2>6
    <3>2. child' \in [up : BOOLEAN, serving : BOOLEAN, at : 0 .. MaxCalls]
      BY <1>a, <2>6
    <3> QED
      BY <3>1, <3>2
  <2>7. CASE child' = [child EXCEPT !.serving = TRUE]
    <3>1. child'.at = child.at
      BY <1>a, <2>7
    <3>2. child' \in [up : BOOLEAN, serving : BOOLEAN, at : 0 .. MaxCalls]
      BY <1>a, <2>7
    <3> QED
      BY <3>1, <3>2
  <2> QED
    BY <2>1, <2>4, <2>5, <2>6, <2>7
<1>e. stdout' \in Seq(0 .. MaxCalls) /\ \A n \in 1 .. Len(stdout') : stdout'[n] \in ran \cup {Garbage}
  <2>1. ASSUME NEW e \in ran \cup {Garbage}, stdout' = Append(stdout, e)
        PROVE  /\ stdout' \in Seq(0 .. MaxCalls)
               /\ \A n \in 1 .. Len(stdout') : stdout'[n] \in ran \cup {Garbage}
    <3>1. e \in 0 .. MaxCalls
      BY <1>a, <2>1 DEF Calls, Garbage
    <3> QED
      BY <1>a, <2>1, <3>1, OneMore
  <2>2. stdout' = stdout \/ \E e \in ran \cup {Garbage} : stdout' = Append(stdout, e)
    BY <1>a DEF ProcessStep, Launches, HandshakeEnds, CloseBegins, CloseKills, CloseReturns,
       ChildReplies, ChildSeesEOF, ChildPrints, ChildDies, ChildSpawns, HeirsEnd, processVars, pipeVars
  <2> QED
    BY <1>a, <2>1, <2>2
<1>1. PluginTypeOK'
  <2>1. stdinOpen' \in BOOLEAN
    BY <1>c DEF PluginInv, PluginTypeOK
  <2> QED
    BY <1>b, <1>c, <1>d, <1>e, <1>f, <2>1 DEF PluginInv, PluginTypeOK
<1>2. child'.at \in ran \cup {0} /\ (reader' = "delivering" => held' \in ran)
  BY <1>a, <1>b, <1>c, <1>d
<1> QED
  BY <1>a, <1>b, <1>e, <1>1, <1>2, RepliesFlow

\* Close adds its notification, which is no request (Client.Close).
LEMMA CloseWritesWell ==
  ASSUME PluginInv, CloseWrites
  PROVE  PluginInv' /\ UNCHANGED <<stage, ran>>
<1>a. /\ stdin \in Seq(0 .. MaxCalls) /\ 0 \in 0 .. MaxCalls
      /\ UNCHANGED <<hostVars, full, writing, stdout, child, heirs, ran, readerVars>>
      /\ closing' = "asked" /\ stdinOpen' = FALSE
      /\ stdin' = stdin \/ stdin' = Append(stdin, Shutdown)
  BY MaxCallsAssumption DEF PluginInv, PluginTypeOK, CloseWrites, processVars
<1>b. CASE stdin' = Append(stdin, Shutdown)
  <2>1. /\ stdin' \in Seq(0 .. MaxCalls) /\ Len(stdin) \in Nat /\ Len(stdin') = Len(stdin) + 1
        /\ stdin'[Len(stdin) + 1] = Shutdown
        /\ \A n \in 1 .. Len(stdin) : stdin'[n] = stdin[n]
        /\ \A n \in 1 .. Len(stdin') : n \in 1 .. Len(stdin) \/ n = Len(stdin) + 1
    BY <1>a, <1>b, OneMore DEF Shutdown
  <2>2. PluginTypeOK'
    BY <1>a, <2>1 DEF PluginInv, PluginTypeOK, hostVars, readerVars
  <2>3. \A n \in 1 .. Len(stdin') : stdin'[n] # Shutdown =>
          n \in 1 .. Len(stdin) /\ stdin'[n] = stdin[n]
    BY <2>1
  <2>4. InOrder'
    BY <1>a, <2>3 DEF PluginInv, InOrder, hostVars
  <2>5. OneInCall' /\ RepliesRan'
    BY <1>a DEF PluginInv, OneInCall, RepliesRan, OwnReplyOnly, hostVars, readerVars
  <2> QED
    BY <1>a, <2>2, <2>4, <2>5 DEF PluginInv, hostVars
<1>c. CASE stdin' = stdin
  <2>1. PluginTypeOK'
    BY <1>a, <1>c DEF PluginInv, PluginTypeOK, hostVars, readerVars
  <2>2. InOrder' /\ OneInCall' /\ RepliesRan'
    BY <1>a, <1>c DEF PluginInv, InOrder, OneInCall, RepliesRan, OwnReplyOnly, hostVars, readerVars
  <2> QED
    BY <1>a, <2>1, <2>2 DEF PluginInv, hostVars
<1> QED
  BY <1>a, <1>b, <1>c

\* The child starts the call at the head of the pipe, which is the lowest it has not
\* started yet, or is told to end (Serve).
LEMMA ChildReadsWell ==
  ASSUME PluginInv, ChildReads
  PROVE  /\ PluginInv'
         /\ UNCHANGED <<stage, ran>> \/ \E i \in Calls : ran' = ran \cup {i} /\ Promise!Run(i)
<1> USE MaxCallsAssumption
<1>a. /\ stdin \in Seq(0 .. MaxCalls) /\ stdin # <<>> /\ ran \subseteq Calls
      /\ child \in [up : BOOLEAN, serving : BOOLEAN, at : 0 .. MaxCalls] /\ 0 \in 0 .. MaxCalls
      /\ nextID \in 0 .. MaxCalls
      /\ UNCHANGED <<hostVars, stdinOpen, writing, stdout, heirs, readerVars, closing>>
      /\ stdin' = Tail(stdin) /\ full' = FALSE
  BY DEF PluginInv, PluginTypeOK, ChildReads
<1>b. /\ Len(stdin) \in Nat \ {0} /\ Head(stdin) = stdin[1] /\ Head(stdin) \in 0 .. MaxCalls
      /\ stdin' \in Seq(0 .. MaxCalls) /\ Len(stdin') = Len(stdin) - 1
      /\ \A n \in 1 .. Len(stdin) - 1 : stdin'[n] = stdin[n + 1] /\ n + 1 \in 1 .. Len(stdin)
      /\ 1 \in 1 .. Len(stdin)
  BY <1>a, FirstAndRest
<1>c. \A m, n \in 1 .. Len(stdin') :
        m < n /\ stdin'[m] # Shutdown /\ stdin'[n] # Shutdown => stdin'[m] < stdin'[n]
  <2> SUFFICES ASSUME NEW m \in 1 .. Len(stdin'), NEW n \in 1 .. Len(stdin'), m < n,
                      stdin'[m] # Shutdown, stdin'[n] # Shutdown
               PROVE  stdin'[m] < stdin'[n]
    OBVIOUS
  <2>1. /\ stdin'[m] = stdin[m + 1] /\ stdin'[n] = stdin[n + 1]
        /\ m + 1 \in 1 .. Len(stdin) /\ n + 1 \in 1 .. Len(stdin)
    BY <1>b
  <2>2. m + 1 < n + 1
    BY <1>b
  <2>3. \A a, b \in 1 .. Len(stdin) :
          a < b /\ stdin[a] # Shutdown /\ stdin[b] # Shutdown => stdin[a] < stdin[b]
    BY DEF PluginInv, InOrder
  <2> QED
    BY <2>1, <2>2, <2>3
<1>1. CASE Head(stdin) = Shutdown
  <2>1. child' = NoChild /\ UNCHANGED ran
    BY <1>1 DEF ChildReads
  <2>2. PluginTypeOK'
    <3>1. NoChild \in [up : BOOLEAN, serving : BOOLEAN, at : 0 .. MaxCalls]
      BY <1>a DEF NoChild
    <3>2. full' \in BOOLEAN /\ heirs' = heirs /\ ran' = ran
      BY <1>a, <2>1
    <3>3. child' \in [up : BOOLEAN, serving : BOOLEAN, at : 0 .. MaxCalls]
      BY <2>1, <3>1
    <3> QED
      BY <1>a, <1>b, <3>2, <3>3 DEF PluginInv, PluginTypeOK, hostVars, readerVars
  <2>3. InOrder'
    BY <1>a, <1>b, <1>c, <2>1 DEF PluginInv, InOrder, hostVars
  <2>4. OneInCall' /\ RepliesRan'
    BY <1>a, <2>1 DEF PluginInv, OneInCall, RepliesRan, OwnReplyOnly, hostVars, readerVars, NoChild
  <2> QED
    BY <1>a, <2>1, <2>2, <2>3, <2>4 DEF PluginInv, hostVars
<1>2. CASE Head(stdin) # Shutdown
  <2> DEFINE i == Head(stdin)
  <2>1. child' = [child EXCEPT !.at = i] /\ ran' = ran \cup {i}
    BY <1>2 DEF ChildReads
  <2>2. /\ i \in Calls /\ i <= nextID /\ (writing # 0 => i < writing)
        /\ \A k \in ran : k < i
        /\ \A n \in 1 .. Len(stdin') : stdin'[n] # Shutdown => i < stdin'[n]
    <3>1. i = stdin[1] /\ stdin[1] # Shutdown /\ i \in Calls
      BY <1>2, <1>b DEF Calls, Shutdown
    <3>2. /\ stdin[1] <= nextID /\ (writing # 0 => stdin[1] < writing)
          /\ \A k \in ran : k < stdin[1]
      BY <1>b, <3>1 DEF PluginInv, InOrder
    <3>3. ASSUME NEW n \in 1 .. Len(stdin'), stdin'[n] # Shutdown
          PROVE  stdin[1] < stdin'[n]
      <4>1. stdin'[n] = stdin[n + 1] /\ n + 1 \in 1 .. Len(stdin) /\ 1 < n + 1
        BY <1>b
      <4>2. \A a, b \in 1 .. Len(stdin) :
              a < b /\ stdin[a] # Shutdown /\ stdin[b] # Shutdown => stdin[a] < stdin[b]
        BY DEF PluginInv, InOrder
      <4> QED
        BY <1>b, <3>1, <3>3, <4>1, <4>2
    <3> QED
      BY <3>1, <3>2, <3>3
  <2> HIDE DEF i
  <2>3. PluginTypeOK'
    <3>1. child' \in [up : BOOLEAN, serving : BOOLEAN, at : 0 .. MaxCalls] /\ ran' \subseteq Calls
      BY <1>a, <2>1, <2>2, SMTT(30) DEF Calls
    <3> QED
      BY <1>a, <1>b, <3>1 DEF PluginInv, PluginTypeOK, hostVars, readerVars
  <2>4. InOrder'
    BY <1>a, <1>b, <1>c, <2>1, <2>2 DEF PluginInv, InOrder, hostVars
  <2>5. OneInCall'
    BY <1>a DEF PluginInv, OneInCall, hostVars
  <2>6. RepliesRan'
    BY <1>a, <2>1 DEF PluginInv, RepliesRan, OwnReplyOnly, hostVars, readerVars
  <2>7. stage[i] # "free"
    BY <1>a, <2>2 DEF PluginInv, OneInCall, Calls
  <2>8. Promise!Run(i)
    BY <1>a, <2>1, <2>2, <2>7 DEF Promise!Run, hostVars
  <2> QED
    BY <2>1, <2>2, <2>3, <2>4, <2>5, <2>6, <2>8 DEF PluginInv
<1> QED
  BY <1>1, <1>2

\* The long line of a call has been read.
LEMMA ChildReadsOnWell ==
  ASSUME PluginInv, ChildReadsOn
  PROVE  PluginInv' /\ UNCHANGED <<stage, ran>>
<1> USE MaxCallsAssumption
<1>a. /\ writing \in 0 .. MaxCalls /\ writing # 0 /\ nextID \in 0 .. MaxCalls
      /\ ran \subseteq Calls
      /\ UNCHANGED <<hostVars, stdinOpen, full, stdout, child, heirs, ran, readerVars, closing>>
      /\ stdin' = <<writing>> /\ writing' = 0
  BY DEF PluginInv, PluginTypeOK, ChildReadsOn, processVars
<1>b. /\ stdin' \in Seq(0 .. MaxCalls) /\ Len(stdin') = 1 /\ stdin'[1] = writing
      /\ \A n \in 1 .. 1 : n = 1
  BY <1>a, JustOne
<1>c. writing = nextID /\ \A k \in ran : k < writing
  <2>1. PICK c \in Callers : waiting[c] = writing
    BY <1>a DEF PluginInv, InOrder
  <2>2. waiting[c] = nextID
    BY <1>a, <2>1 DEF PluginInv, OneInCall
  <2>3. \A k \in ran : k < writing
    BY <1>a DEF PluginInv, InOrder
  <2> QED
    BY <2>1, <2>2, <2>3
<1>1. PluginTypeOK'
  BY <1>a, <1>b DEF PluginInv, PluginTypeOK, hostVars, readerVars
<1>2. InOrder'
  BY <1>a, <1>b, <1>c DEF PluginInv, InOrder, hostVars
<1>3. OneInCall' /\ RepliesRan'
  BY <1>a DEF PluginInv, OneInCall, RepliesRan, OwnReplyOnly, hostVars, readerVars
<1> QED
  BY <1>a, <1>1, <1>2, <1>3 DEF PluginInv, hostVars

\* Every step of a toolset is one of these, or leaves the plugin alone.
LEMMA ToolsetStepsPlugin ==
  ASSUME [ToolsetNext]_vars
  PROVE  \/ \E c \in Callers : Sends(c) \/ CallEnds(c)
         \/ ReaderStep \/ ProcessStep \/ CloseWrites \/ ChildReads \/ ChildReadsOn
         \/ /\ child' = [child EXCEPT !.serving = TRUE]
            /\ UNCHANGED <<hostVars, pipeVars, heirs, ran, readerVars, closing>>
         \/ UNCHANGED pluginVars
<1>1. CASE BuildStep
  BY <1>1 DEF BuildStep, BuildsInHost, KernelCannot, StartsWorker, UsesWorker, WorkerFailed,
     NoPlugin, StartsPlugin, UsesPlugin, RefusesPlugin, PluginFailed, ProcessStep
<1>2. CASE WorkerFilters
  <2>1. child' = NoChild => ChildDies
    BY <1>2 DEF WorkerFilters, ChildDies
  <2>2. child' = child => UNCHANGED pluginVars
    BY <1>2 DEF WorkerFilters, pluginVars, processVars
  <2> QED
    BY <1>2, <2>1, <2>2 DEF WorkerFilters, ProcessStep
<1>3. CASE Migrates \/ WorkerRestricts \/ WorkerServes
  BY <1>3 DEF Migrates, WorkerRestricts, WorkerServes
<1>4. CASE \E c \in Callers : CallsTool(c)
  BY <1>4 DEF CallsTool, CallerStep
<1>5. CASE Closes \/ HostStep \/ ToolRuns \/ ChildElse
  BY <1>5 DEF Closes, HostStep, CloseStep, ToolRuns, ChildElse, ProcessStep
<1>6. CASE UNCHANGED vars
  BY <1>6 DEF vars
<1> QED
  BY <1>1, <1>2, <1>3, <1>4, <1>5, <1>6 DEF ToolsetNext, WorkerStep

LEMMA PluginGoesOn ==
  PluginInv /\ [ToolsetNext]_vars => PluginInv' /\ [Promise!Next]_<<stage, ran>>
<1> SUFFICES ASSUME PluginInv, [ToolsetNext]_vars
             PROVE  PluginInv' /\ [Promise!Next]_<<stage, ran>>
  OBVIOUS
<1> USE DEF Promise!Next, Promise!Calls, Calls
<1>1. CASE \E c \in Callers : Sends(c) \/ CallEnds(c)
  BY <1>1, SendsWell, ReturnsWell
<1>2. CASE ReaderStep \/ ProcessStep \/ CloseWrites \/ ChildReadsOn
  BY <1>2, ReaderWell, ProcessWell, CloseWritesWell, ChildReadsOnWell
<1>3. CASE ChildReads
  BY <1>3, ChildReadsWell
<1>4. CASE /\ child' = [child EXCEPT !.serving = TRUE]
           /\ UNCHANGED <<hostVars, pipeVars, heirs, ran, readerVars, closing>>
  BY <1>4, ProcessWell
<1>5. CASE UNCHANGED pluginVars
  <2>1. UNCHANGED <<phase, nextID, waiting, stage, answer, stdin, stdinOpen, full, writing, stdout,
                    child, heirs, ran, reader, held, responses, readErr, exited, closing>>
    BY <1>5 DEF pluginVars, hostVars, pipeVars, processVars, readerVars
  <2>2. PluginTypeOK'
    BY <2>1 DEF PluginInv, PluginTypeOK
  <2> QED
    BY <2>1, <2>2 DEF PluginInv, InOrder, OneInCall, RepliesRan, OwnReplyOnly
<1> QED
  BY <1>1, <1>2, <1>3, <1>4, <1>5, ToolsetStepsPlugin

\* However many callers give up on a plugin, each that is answered has the reply to its
\* own call, whose tool has been run (internal/plugin/client.go: call, readLoop).
THEOREM RepliesAreOwn == ToolsetSpec => []OwnReplyOnly
<1>1. ToolsetInit => PluginInv
  BY PluginBegins DEF ToolsetInit
<1>2. PluginInv => OwnReplyOnly
  BY DEF PluginInv, RepliesRan
<1> QED
  BY <1>1, <1>2, PluginGoesOn, PTL DEF ToolsetSpec

\* What callers see of a plugin is what PluginPromise says (client.go, server.go).
THEOREM PromiseIsKept == ToolsetSpec => KeepsPromise
<1>1. ToolsetInit => PluginInv
  BY PluginBegins DEF ToolsetInit
<1>2. ToolsetInit => Promise!Init
  BY DEF ToolsetInit, PluginInit, Promise!Init, Promise!Calls, Calls
<1> QED
  BY <1>1, <1>2, PluginGoesOn, PTL DEF ToolsetSpec, KeepsPromise, Promise!Spec

-----------------------------------------------------------------------------
(* Confinement.                                                            *)

Confinements == [pc : {"off", "filter", "restrict", "ready"}, thread : Threads,
                 pinned : BOOLEAN, bound : [Threads -> SUBSET Protections]]

\* What buildToolset knows of its child.
ChildIsKnown ==
  /\ phase = "off" <=> role = "none"
  /\ child.up => role # "none"
  /\ child.serving => worker.pc = "ready"
  /\ build = "worker" => role = "worker"
  /\ builtins = "worker" => role = "worker" /\ note = Reported
  /\ mode = "on" => builtins # "host"

\* A child that confines itself stays on the thread it has bound; what it lacks, every
\* call may lack.
BoundAsItGoes ==
  /\ role \in {"worker", "plugin"} /\ worker.pc \in {"restrict", "ready"} =>
       /\ worker.pinned
       /\ kernel \cap {"seccomp"} \subseteq worker.bound[worker.thread]
       /\ role = "plugin" => "seccomp" \in kernel
  /\ role \in {"worker", "plugin"} /\ worker.pc = "ready" =>
       "landlock" \in worker.bound[worker.thread]
  /\ role \in {"none", "plugin"} => lacking = {}
  /\ role = "worker" => lacking \cap Reported = {}

ConfinementInv ==
  /\ ToolsetTypeOK
  /\ worker \in Confinements
  /\ ChildIsKnown
  /\ BoundAsItGoes

LEMMA ConfinementBegins == ToolsetInit \/ ToolsetIdle => ConfinementInv
<1> SUFFICES ASSUME ToolsetInit \/ ToolsetIdle PROVE ConfinementInv
  OBVIOUS
<1>1. PluginTypeOK /\ phase = "off" /\ child.up = FALSE /\ child.serving = FALSE
  <2>1. PluginInit
    BY DEF ToolsetInit, ToolsetIdle
  <2> QED
    BY <2>1, PluginBegins DEF PluginInv, PluginInit, NoChild
<1>2. worker \in Confinements /\ worker.pc = "off"
  <2>1. worker = NoWorker
    BY DEF ToolsetInit, ToolsetIdle
  <2> QED
    BY <2>1, ThreadsAssumption DEF NoWorker, Confinements
<1>3. /\ order \in {"tools", "tools and plugin", "plugin call"} /\ mode \in {"on", "auto", "off"}
      /\ kernel \subseteq Protections /\ build \in {"begin", "plugins", "built"}
      /\ builtins = "none" /\ note = {} /\ role = "none" /\ lacking = {}
      /\ note \in Notes
  <2>1. CASE ToolsetInit
    BY <2>1 DEF ToolsetInit, Notes
  <2>2. CASE ToolsetIdle
    BY <2>2 DEF ToolsetIdle, Notes
  <2> QED
    BY <2>1, <2>2
<1>4. ToolsetTypeOK
  BY <1>1, <1>2, <1>3 DEF ToolsetTypeOK, Confinements
<1>5. ChildIsKnown /\ BoundAsItGoes
  BY <1>1, <1>2, <1>3 DEF ChildIsKnown, BoundAsItGoes
<1> QED
  BY <1>2, <1>4, <1>5 DEF ConfinementInv

\* A step of the plugin's that leaves the building alone.
LEMMA ChildGoesOn ==
  ASSUME ConfinementInv, PluginTypeOK', UNCHANGED toolsetVars,
         phase' = "off" <=> phase = "off",
         child'.up => child.up,
         child'.serving => child.serving \/ worker.pc = "ready"
  PROVE  ConfinementInv'
<1>1. UNCHANGED <<order, mode, kernel, build, builtins, note, role, worker, lacking>>
  BY DEF toolsetVars
<1>a. ToolsetTypeOK
  BY DEF ConfinementInv
<1>b. phase' = "off" <=> role' = "none"
  BY <1>1, <1>a DEF ToolsetTypeOK
<1>c. /\ order' \in {"tools", "tools and plugin", "plugin call"} /\ mode' \in {"on", "auto", "off"}
      /\ kernel' \subseteq Protections /\ note' \in Notes
      /\ build' \in {"begin", "worker", "plugins", "plugin", "closing", "failed", "built"}
      /\ builtins' \in {"none", "host", "worker"}
      /\ role' \in {"none", "worker", "plugin", "bare plugin"} /\ lacking' \subseteq Protections
  BY <1>1, <1>a DEF ToolsetTypeOK
<1>d. /\ worker'.pc \in {"off", "filter", "restrict", "ready"}
      /\ worker'.thread \in Threads /\ worker'.pinned \in BOOLEAN
      /\ worker'.bound \in [Threads -> SUBSET Protections]
  BY <1>1, <1>a DEF ToolsetTypeOK
<1>2. ToolsetTypeOK'
  BY <1>b, <1>c, <1>d DEF ToolsetTypeOK
<1>3. ChildIsKnown'
  BY <1>1 DEF ConfinementInv, ChildIsKnown, Reported
<1>4. BoundAsItGoes'
  BY <1>1 DEF ConfinementInv, BoundAsItGoes, Reported
<1> QED
  BY <1>1, <1>2, <1>3, <1>4 DEF ConfinementInv

\* A step of buildToolset that starts nothing.
LEMMA BuildingGoesOn ==
  ASSUME ConfinementInv, PluginTypeOK', UNCHANGED <<hostVars, child, order, mode, kernel, role,
                                                    worker, lacking>>,
         build' \in {"plugins", "closing", "failed", "built"},
         \/ UNCHANGED <<builtins, note>>
         \/ /\ builtins' = "host" /\ mode # "on" /\ note' \in {{"off"}, {"unavailable"}}
         \/ builtins' = "worker" /\ note' = Reported /\ role = "worker"
  PROVE  ConfinementInv'
<1>1. UNCHANGED phase
  BY DEF hostVars
<1>2. Reported \subseteq Protections
  BY DEF Reported, Protections
<1>3. builtins' \in {"none", "host", "worker"} /\ note' \in Notes
  <2>1. /\ builtins \in {"none", "host", "worker"}
        /\ note \in Notes
    BY DEF ConfinementInv, ToolsetTypeOK
  <2>a. Reported \in Notes /\ {"off"} \in Notes /\ {"unavailable"} \in Notes
    <3>1. Reported \in SUBSET Protections
      BY <1>2
    <3>2. {"off"} \in {{"off"}, {"unavailable"}} /\ {"unavailable"} \in {{"off"}, {"unavailable"}}
      OBVIOUS
    <3> QED
      <4>1. \A n : n \in SUBSET Protections \/ n \in {{"off"}, {"unavailable"}} => n \in Notes
        BY Zenon DEF Notes
      <4> HIDE DEF Notes
      <4> QED
        BY <3>1, <3>2, <4>1, Zenon
  <2>2. note' \in {note, {"off"}, {"unavailable"}, Reported}
    OBVIOUS
  <2>3. builtins' \in {builtins, "host", "worker"}
    OBVIOUS
  <2> QED
    BY <2>1, <2>a, <2>2, <2>3
<1>4. ToolsetTypeOK'
  BY <1>1, <1>3 DEF ConfinementInv, ToolsetTypeOK
<1>5. ChildIsKnown'
  BY <1>1 DEF ConfinementInv, ChildIsKnown, Reported
<1>6. BoundAsItGoes'
  BY DEF ConfinementInv, BoundAsItGoes, Reported
<1> QED
  BY <1>4, <1>5, <1>6 DEF ConfinementInv

\* The child starts unconfined, and serves nobody yet (Start).
LEMMA ChildStarts ==
  ASSUME ConfinementInv, PluginTypeOK', Launches, UNCHANGED <<Choices, builtins, note, lacking>>,
         \/ build' = "worker" /\ role' = "worker" /\ worker' = [NoWorker EXCEPT !.pc = "filter"]
         \/ /\ build' = "plugin"
            /\ \/ role' = "plugin" /\ worker' = [NoWorker EXCEPT !.pc = "filter"]
               \/ role' = "bare plugin" /\ worker' = [NoWorker EXCEPT !.pc = "ready"]
  PROVE  ConfinementInv'
<1>1. /\ phase = "off" /\ phase' = "starting" /\ child'.serving = FALSE
      /\ UNCHANGED <<order, mode, kernel>>
  BY DEF Launches, NoChild, Choices
<1>2. role = "none" /\ builtins # "worker" /\ lacking = {}
  BY <1>1 DEF ConfinementInv, ChildIsKnown, BoundAsItGoes
<1>3. worker' \in Confinements
  BY ThreadsAssumption DEF NoWorker, Confinements
<1>4. worker'.pc = "ready" => role' = "bare plugin"
  BY DEF NoWorker
<1>5. worker'.pc # "restrict"
  BY DEF NoWorker
<1>6. ToolsetTypeOK'
  BY <1>1, <1>2, <1>3 DEF ConfinementInv, ToolsetTypeOK, Confinements
<1>7. ChildIsKnown'
  BY <1>1, <1>2 DEF ConfinementInv, ChildIsKnown
<1>8. BoundAsItGoes'
  BY <1>2, <1>4, <1>5 DEF BoundAsItGoes
<1> QED
  BY <1>3, <1>6, <1>7, <1>8 DEF ConfinementInv

LEMMA Building ==
  ASSUME ConfinementInv, PluginTypeOK', BuildStep
  PROVE  ConfinementInv'
<1> USE DEF pluginVars, processVars
<1>1. CASE BuildsInHost \/ KernelCannot \/ WorkerFailed
  BY <1>1, BuildingGoesOn DEF BuildsInHost, KernelCannot, WorkerFailed, Unconfinable, InHost, Choices
<1>2. CASE UsesWorker
  <2>1. role = "worker"
    BY <1>2 DEF UsesWorker, ConfinementInv, ChildIsKnown
  <2> QED
    BY <1>2, <2>1, BuildingGoesOn DEF UsesWorker, Choices
<1>3. CASE NoPlugin \/ UsesPlugin \/ RefusesPlugin \/ PluginFailed
  BY <1>3, BuildingGoesOn DEF NoPlugin, UsesPlugin, RefusesPlugin, CloseBegins, PluginFailed, Choices
<1>4. CASE StartsWorker \/ StartsPlugin
  BY <1>4, ChildStarts DEF StartsWorker, StartsPlugin
<1> QED
  BY <1>1, <1>2, <1>3, <1>4 DEF BuildStep

\* The goroutine is pinned before anything is bound (RestrictSyscalls, Restrict).
LEMMA Confining ==
  ASSUME ConfinementInv, PluginTypeOK', WorkerStep
  PROVE  ConfinementInv'
<1> USE DEF Protections
<1>a. /\ worker \in Confinements /\ worker.thread \in Threads
      /\ worker.bound \in [Threads -> SUBSET Protections] /\ worker.pinned \in BOOLEAN
  BY DEF ConfinementInv, Confinements
<1>1. CASE WorkerServes
  BY <1>1, ChildGoesOn DEF WorkerServes, hostVars
<1>2. ASSUME worker' \in Confinements,
             UNCHANGED <<hostVars, order, mode, kernel, build, builtins, note, role, lacking>>,
             child'.up => child.up, child'.serving => child.serving /\ worker'.pc = "ready",
             BoundAsItGoes'
      PROVE  ConfinementInv'
  <2>1. ToolsetTypeOK'
    BY <1>2 DEF ConfinementInv, ToolsetTypeOK, Confinements, hostVars
  <2>2. ChildIsKnown'
    BY <1>2 DEF ConfinementInv, ChildIsKnown, Reported, hostVars
  <2> QED
    BY <1>2, <2>1, <2>2 DEF ConfinementInv
<1>3. CASE Migrates
  <2>1. PICK t \in Threads : worker' = [worker EXCEPT !.thread = t]
    BY <1>3 DEF Migrates
  <2>2. worker' \in Confinements /\ worker'.pc = worker.pc
    BY <1>a, <2>1 DEF Confinements
  <2>3. /\ UNCHANGED <<hostVars, child, order, mode, kernel, build, builtins, note, role, lacking>>
        /\ ~worker.pinned
    BY <1>3 DEF Migrates, pluginVars, processVars, Choices
  <2>4. BoundAsItGoes'
    BY <2>2, <2>3 DEF ConfinementInv, BoundAsItGoes, Reported
  <2>5. child.serving => worker.pc = "ready"
    BY DEF ConfinementInv, ChildIsKnown
  <2> QED
    BY <1>2, <2>2, <2>3, <2>4, <2>5
<1>4. ASSUME NEW p \in SUBSET Protections, NEW place \in {"restrict", "ready"}, Binds(p, place)
      PROVE  /\ worker' \in Confinements /\ worker'.pc = place /\ worker'.pinned
             /\ worker'.bound[worker'.thread] = worker.bound[worker.thread] \cup p
  BY <1>a, <1>4 DEF Binds, Confinements
<1>5. CASE WorkerFilters
  <2>1. UNCHANGED <<hostVars, order, mode, kernel, build, builtins, note, role, lacking>>
    BY <1>5 DEF WorkerFilters, Choices
  <2>2. CASE child' = NoChild /\ UNCHANGED worker
    <3>1. child'.up = FALSE /\ child'.serving = FALSE
      BY <2>2 DEF NoChild
    <3>2. BoundAsItGoes'
      BY <2>1, <2>2 DEF ConfinementInv, BoundAsItGoes, Reported
    <3> QED
      BY <1>2, <1>a, <2>1, <2>2, <3>1, <3>2
  <2>3. CASE /\ ~("seccomp" \notin kernel /\ role = "plugin")
             /\ Binds(kernel \cap {"seccomp"}, "restrict") /\ UNCHANGED child
    <3>1. kernel \cap {"seccomp"} \in SUBSET Protections
      OBVIOUS
    <3>2. /\ worker' \in Confinements /\ worker'.pc = "restrict" /\ worker'.pinned
          /\ worker'.bound[worker'.thread] = worker.bound[worker.thread] \cup (kernel \cap {"seccomp"})
      BY <1>4, <2>3, <3>1
    <3>3. BoundAsItGoes'
      BY <2>1, <2>3, <3>2 DEF ConfinementInv, BoundAsItGoes, Reported
    <3>4. ~child.serving
      BY <1>5 DEF WorkerFilters, ConfinementInv, ChildIsKnown
    <3> QED
      BY <1>2, <2>1, <2>3, <3>2, <3>3, <3>4
  <2> QED
    BY <1>5, <2>2, <2>3 DEF WorkerFilters
<1>6. CASE WorkerRestricts
  <2>1. /\ UNCHANGED <<hostVars, child, order, mode, kernel, build, builtins, note, role, lacking>>
        /\ worker.pc = "restrict"
    BY <1>6 DEF WorkerRestricts, pluginVars, processVars, Choices
  <2>2. /\ worker' \in Confinements /\ worker'.pc = "ready" /\ worker'.pinned
        /\ worker'.bound[worker'.thread] = worker.bound[worker.thread] \cup {"landlock"}
    BY <1>4, <1>6 DEF WorkerRestricts
  <2>3. BoundAsItGoes'
    BY <2>1, <2>2 DEF ConfinementInv, BoundAsItGoes, Reported
  <2> QED
    BY <1>2, <2>1, <2>2, <2>3
<1> QED
  BY <1>1, <1>3, <1>5, <1>6 DEF WorkerStep

\* What a call lacks is what the thread that serves it has not bound.
LEMMA Serving ==
  ASSUME ConfinementInv, PluginTypeOK', ToolRuns
  PROVE  ConfinementInv'
<1>1. /\ UNCHANGED <<phase, order, mode, kernel, build, builtins, note, role, worker>>
      /\ child.up /\ child.serving
      /\ child' = NoChild \/ child' = [child EXCEPT !.at = Head(stdin)]
      /\ lacking' \in {lacking, lacking \cup (Protections \ worker.bound[worker.thread])}
  BY DEF ToolRuns, ChildReads, Choices, hostVars
<1>2. role # "none" /\ worker.pc = "ready" /\ lacking \subseteq Protections /\ kernel \subseteq Protections
  BY <1>1 DEF ConfinementInv, ChildIsKnown, ToolsetTypeOK
<1>3. role \in {"worker", "plugin"} =>
        kernel \cap {"seccomp"} \subseteq worker.bound[worker.thread]
        /\ "landlock" \in worker.bound[worker.thread]
        /\ (role = "plugin" => "seccomp" \in kernel)
  BY <1>2 DEF ConfinementInv, BoundAsItGoes
<1>4. role = "plugin" => lacking' = {}
  BY <1>1, <1>3 DEF ConfinementInv, BoundAsItGoes, Protections
<1>5. role = "worker" => lacking' \cap Reported = {}
  <2>1. role = "worker" => Reported \subseteq worker.bound[worker.thread]
    BY <1>3 DEF Reported
  <2> QED
    BY <1>1, <2>1 DEF ConfinementInv, BoundAsItGoes
<1>6. BoundAsItGoes'
  BY <1>1, <1>2, <1>4, <1>5 DEF ConfinementInv, BoundAsItGoes, Reported
<1>7. ToolsetTypeOK'
  BY <1>1, <1>2, ZenonT(60) DEF ConfinementInv, ToolsetTypeOK
<1>8. ChildIsKnown'
  BY <1>1, <1>2 DEF ConfinementInv, ChildIsKnown, Reported
<1> QED
  BY <1>1, <1>6, <1>7, <1>8 DEF ConfinementInv

LEMMA ConfinementGoesOn ==
  ConfinementInv /\ PluginTypeOK' /\ [ToolsetNext]_vars => ConfinementInv'
<1> SUFFICES ASSUME ConfinementInv, PluginTypeOK', [ToolsetNext]_vars PROVE ConfinementInv'
  OBVIOUS
<1>1. CASE BuildStep
  BY <1>1, Building
<1>2. CASE WorkerStep
  BY <1>2, Confining
<1>3. CASE ToolRuns
  BY <1>3, Serving
<1>4. CASE (\E c \in Callers : CallsTool(c)) \/ Closes
  <2>1. UNCHANGED <<phase, child, toolsetVars>>
    BY <1>4 DEF CallsTool, CallerStep, Sends, CallEnds, WriteFails, TimesOut, SeesReadError, SeesExit,
       TakesReply, Selects, Returns, Closes, CloseBegins, hostVars, processVars
  <2> QED
    BY <2>1, ChildGoesOn
<1>5. CASE HostStep
  <2>1. UNCHANGED toolsetVars /\ (phase' = "off" <=> phase = "off")
        /\ (UNCHANGED child \/ child' = NoChild)
    BY <1>5 DEF HostStep, HandshakeEnds, ReaderStep, ReadsLine, Delivers, ReadsEOF, Reaps, CloseStep,
       CloseWrites, CloseKills, CloseReturns, hostVars, processVars
  <2> QED
    BY <2>1, ChildGoesOn DEF NoChild
<1>6. CASE ChildElse
  <2>1. UNCHANGED <<toolsetVars, phase>>
        /\ (child' \in {child, NoChild, [child EXCEPT !.at = 0]})
    BY <1>6 DEF ChildElse, ChildReadsOn, ChildReplies, ChildSeesEOF, ChildDies, ChildPrints,
       ChildSpawns, HeirsEnd, hostVars, processVars
  <2>a. child \in [up : BOOLEAN, serving : BOOLEAN, at : 0 .. MaxCalls]
    BY DEF ConfinementInv, ToolsetTypeOK, PluginTypeOK
  <2>2. child'.up => child.up
    <3>1. CASE child' = NoChild
      BY <3>1 DEF NoChild
    <3>2. CASE child' = [child EXCEPT !.at = 0]
      BY <2>a, <3>2
    <3> QED
      BY <2>1, <3>1, <3>2
  <2>3. child'.serving => child.serving
    <3>1. CASE child' = NoChild
      BY <3>1 DEF NoChild
    <3>2. CASE child' = [child EXCEPT !.at = 0]
      BY <2>a, <3>2
    <3> QED
      BY <2>1, <3>1, <3>2
  <2> QED
    BY <2>1, <2>2, <2>3, ChildGoesOn
<1>7. CASE UNCHANGED vars
  BY <1>7, ChildGoesOn DEF vars, pluginVars, hostVars, processVars
<1> QED
  BY <1>1, <1>2, <1>3, <1>4, <1>5, <1>6, <1>7 DEF ToolsetNext

LEMMA ToolsetKeeps == ToolsetSpec => [](PluginInv /\ ConfinementInv)
<1>1. ToolsetInit => PluginInv /\ ConfinementInv
  BY PluginBegins, ConfinementBegins DEF ToolsetInit
<1>2. PluginInv' => PluginTypeOK'
  BY DEF PluginInv
<1>3. PluginInv /\ ConfinementInv /\ [ToolsetNext]_vars => PluginInv' /\ ConfinementInv'
  BY <1>2, PluginGoesOn, ConfinementGoesOn
<1> QED
  BY <1>1, <1>3, PTL DEF ToolsetSpec

\* Whatever thread the runtime has the child on, its calls run with what the journal
\* reports; with --sandbox=on no tool runs in the host; and a confined plugin's program
\* runs with both protections (buildToolset, serveToolWorker, RestrictSyscalls, Restrict).
THEOREM ToolsRunConfined == ToolsetSpec => []ToolsRunAsRecorded
<1>1. ConfinementInv => ToolsRunAsRecorded
  BY DEF ConfinementInv, ChildIsKnown, BoundAsItGoes, ToolsRunAsRecorded
<1> QED
  BY <1>1, ToolsetKeeps, PTL

-----------------------------------------------------------------------------
(* The filter.                                                             *)

\* What is known of a list that a program is built from (buildSeccompProgram).
Buildable(d) == d \in Seq(Numbers) /\ ~TooLong(d)

\* What the program consists of (buildSeccompProgram's layout).
LEMMA Layout ==
  ASSUME NEW d, Len(d) \in Nat
  PROVE  /\ Instruction(d, 0) = Load("arch")
         /\ Instruction(d, 1) = SkipIfEqual(OwnArch, 1)
         /\ Instruction(d, 2) = Return("kill")
         /\ Instruction(d, 3) = Load("nr")
         /\ \A idx \in 4 .. AllowIdx(d) - 1 :
              Instruction(d, idx) = SkipIfEqual(d[idx - 3], DenyIdx(d) - idx - 1)
         /\ Instruction(d, AllowIdx(d)) = Return("allow")
         /\ Instruction(d, DenyIdx(d)) = Return("errno")
<1>1. Instruction(d, 0) = Load("arch")
  BY DEF Instruction, AllowIdx, DenyIdx
<1>2. Instruction(d, 1) = SkipIfEqual(OwnArch, 1)
  BY DEF Instruction, AllowIdx, DenyIdx
<1>3. Instruction(d, 2) = Return("kill")
  BY DEF Instruction, AllowIdx, DenyIdx
<1>4. Instruction(d, 3) = Load("nr")
  BY DEF Instruction, AllowIdx, DenyIdx
<1>5. ASSUME NEW idx \in 4 .. AllowIdx(d) - 1
      PROVE  Instruction(d, idx) = SkipIfEqual(d[idx - 3], DenyIdx(d) - idx - 1)
  BY DEF Instruction, AllowIdx, DenyIdx
<1>6. Instruction(d, AllowIdx(d)) = Return("allow")
  BY DEF Instruction, AllowIdx, DenyIdx
<1>7. Instruction(d, DenyIdx(d)) = Return("errno")
  BY DEF Instruction, AllowIdx, DenyIdx
<1> QED
  BY <1>1, <1>2, <1>3, <1>4, <1>5, <1>6, <1>7

\* No jump is cut off by the byte it is stored in.
LEMMA JumpsFitTheirByte ==
  ASSUME NEW d, Buildable(d), NEW n \in Nat, Len(d) = n,
         NEW idx \in 4 .. AllowIdx(d) - 1
  PROVE  (DenyIdx(d) - idx - 1) % 256 = DenyIdx(d) - idx - 1
<1>1. n <= 250
  BY DEF Buildable, TooLong, MaxDenied
<1>2. DenyIdx(d) - idx - 1 \in 0 .. 255
  BY <1>1 DEF DenyIdx, AllowIdx
<1>3. \A m \in 0 .. 255 : m % 256 = m
  OBVIOUS
<1> QED
  BY <1>2, <1>3

\* The bit of an x32 call is a number like those below it.
LEMMA X32BitIsNat == X32Bit \in Nat
  BY DEF X32Bit

\* Where the program is and what it has found out of the call by then.
Place ==
  \/ pc = 0
  \/ pc = 1 /\ acc = call.arch
  \/ pc = 2 /\ call.arch # OwnArch
  \/ pc = 3 /\ call.arch = OwnArch
  \/ /\ pc \in 4 .. AllowIdx(denied)
     /\ call.arch = OwnArch /\ acc = call.nr
     /\ \A i \in 1 .. pc - 4 : denied[i] # call.nr
  \/ /\ pc = DenyIdx(denied)
     /\ call.arch = OwnArch
     /\ \E i \in DOMAIN denied : denied[i] = call.nr

\* The strengthening of FilterDecides that every instruction preserves.
FilterInv ==
  /\ verdict # "refused" => Buildable(denied)
  /\ verdict = "none" => Place
  /\ FilterDecides

\* A program that is built starts at its first instruction.
LEMMA FilterBegins == FilterInit => FilterInv
  BY DenyListsAssumption DEF FilterInit, FilterInv, Buildable, Place, FilterDecides

\* Every instruction leads to a place of which the next part is true, or decides.
LEMMA FilterGoesOn == FilterInv /\ Executes => FilterInv'
<1> SUFFICES ASSUME FilterInv, Executes
             PROVE  FilterInv'
  OBVIOUS
<1>1. /\ verdict = "none" /\ Buildable(denied) /\ Place
      /\ denied' = denied /\ call' = call
  BY DEF FilterInv, Executes
<1>2. Len(denied) \in Nat /\ DOMAIN denied = 1 .. Len(denied)
  BY <1>1 DEF Buildable
<1> DEFINE instr == Instruction(denied, pc)
<1>3. \/ /\ instr.op = "load"
         /\ acc' = call[instr.field] /\ pc' = pc + 1 /\ verdict' = verdict
      \/ /\ instr.op = "jeq"
         /\ pc' = pc + 1 + (IF acc = instr.k THEN instr.jt ELSE 0)
         /\ acc' = acc /\ verdict' = verdict
      \/ /\ instr.op = "return"
         /\ verdict' = instr.v /\ pc' = pc /\ acc' = acc
  BY DEF Executes
<1>4. SUFFICES /\ verdict' = "none" => Place'
               /\ verdict' \in {"none", "allow", "errno", "kill"}
               /\ verdict' # "none" => verdict' = Decision
  BY <1>1 DEF FilterInv, FilterDecides, Buildable, TooLong, Decision, Entry
<1>5. CASE pc = 0
  <2>1. instr = Load("arch")
    BY <1>2, <1>5, Layout
  <2>2. pc' = 1 /\ acc' = call.arch /\ verdict' = "none"
    BY <1>1, <1>3, <1>5, <2>1 DEF Load
  <2> QED
    BY <1>1, <2>2 DEF Place
<1>6. CASE pc = 1 /\ acc = call.arch
  <2>1. instr = SkipIfEqual(OwnArch, 1)
    BY <1>2, <1>6, Layout
  <2>2. instr.op = "jeq" /\ instr.k = OwnArch /\ instr.jt = 1
    BY <2>1 DEF SkipIfEqual
  <2>3. verdict' = "none" /\ pc' = IF call.arch = OwnArch THEN 3 ELSE 2
    BY <1>1, <1>3, <1>6, <2>2
  <2> QED
    BY <1>1, <2>3 DEF Place
<1>7. CASE pc = 2 /\ call.arch # OwnArch
  <2>1. instr = Return("kill")
    BY <1>2, <1>7, Layout
  <2>2. verdict' = "kill"
    BY <1>3, <2>1 DEF Return
  <2> QED
    BY <1>7, <2>2 DEF Decision, Entry
<1>8. CASE pc = 3 /\ call.arch = OwnArch
  <2>1. instr = Load("nr")
    BY <1>2, <1>8, Layout
  <2>2. pc' = 4 /\ acc' = call.nr /\ verdict' = "none"
    BY <1>1, <1>3, <1>8, <2>1 DEF Load
  <2> QED
    BY <1>1, <1>2, <1>8, <2>2 DEF Place, AllowIdx
<1>9. CASE /\ pc \in 4 .. AllowIdx(denied)
           /\ call.arch = OwnArch /\ acc = call.nr
           /\ \A i \in 1 .. pc - 4 : denied[i] # call.nr
  <2>1. CASE pc = AllowIdx(denied)
    <3>1. instr = Return("allow")
      BY <1>2, <2>1, Layout
    <3>2. verdict' = "allow"
      BY <1>3, <3>1 DEF Return
    <3>3. ~ \E i \in DOMAIN denied : denied[i] = call.nr
      BY <1>2, <1>9, <2>1 DEF AllowIdx
    <3> QED
      BY <1>9, <3>2, <3>3 DEF Decision, Entry
  <2>2. CASE pc \in 4 .. AllowIdx(denied) - 1
    <3>1. /\ pc - 3 \in DOMAIN denied
          /\ (DenyIdx(denied) - pc - 1) % 256 = DenyIdx(denied) - pc - 1
      BY <1>1, <1>2, <2>2, JumpsFitTheirByte DEF AllowIdx
    <3>2. instr = SkipIfEqual(denied[pc - 3], DenyIdx(denied) - pc - 1)
      BY <1>2, <2>2, Layout
    <3>3. /\ instr.op = "jeq" /\ instr.k = denied[pc - 3]
          /\ instr.jt = DenyIdx(denied) - pc - 1
      BY <3>1, <3>2 DEF SkipIfEqual
    <3>4. /\ verdict' = "none" /\ acc' = acc
          /\ pc' = pc + 1 + (IF call.nr = denied[pc - 3] THEN DenyIdx(denied) - pc - 1 ELSE 0)
      BY <1>1, <1>3, <1>9, <3>3
    <3>5. CASE call.nr = denied[pc - 3]
      <4>1. pc' = DenyIdx(denied)
        BY <1>2, <2>2, <3>4, <3>5 DEF DenyIdx, AllowIdx
      <4> QED
        BY <1>1, <1>9, <3>1, <3>4, <3>5, <4>1 DEF Place, DenyIdx, AllowIdx
    <3>6. CASE call.nr # denied[pc - 3]
      <4>1. pc' = pc + 1
        BY <2>2, <3>4, <3>6
      <4>2. \A i \in 1 .. pc' - 4 : denied[i] # call.nr
        BY <1>9, <2>2, <3>6, <4>1
      <4>3. pc' \in 4 .. AllowIdx(denied)
        BY <1>2, <2>2, <4>1 DEF AllowIdx
      <4> QED
        BY <1>1, <1>9, <3>4, <4>2, <4>3 DEF Place, AllowIdx
    <3> QED
      BY <3>5, <3>6
  <2> QED
    BY <1>2, <1>9, <2>1, <2>2 DEF AllowIdx
<1>10. CASE /\ pc = DenyIdx(denied)
            /\ call.arch = OwnArch
            /\ \E i \in DOMAIN denied : denied[i] = call.nr
  <2>1. instr = Return("errno")
    BY <1>2, <1>10, Layout
  <2>2. verdict' = "errno"
    BY <1>3, <2>1 DEF Return
  <2>3. Entry(call) = "native"
    <3>1. PICK i \in DOMAIN denied : denied[i] = call.nr
      BY <1>10
    <3>2. call.nr \in Numbers
      BY <1>1, <1>2, <3>1 DEF Buildable
    <3>3. call.nr \in Nat /\ X32Bit \in Nat /\ ~(call.nr >= X32Bit)
      <4>1. call.nr \in 0 .. X32Bit - 1
        BY <3>2, NumbersAssumption
      <4>2. \A n \in 0 .. X32Bit - 1 : n \in Nat /\ ~(n >= X32Bit)
        BY X32BitIsNat
      <4> QED
        BY <4>1, <4>2, X32BitIsNat
    <3> QED
      BY <1>10, <3>3 DEF Entry
  <2> QED
    BY <1>10, <2>2, <2>3 DEF Decision
<1> QED
  BY <1>1, <1>5, <1>6, <1>7, <1>8, <1>9, <1>10 DEF Place

LEMMA StutterWell == FilterInv /\ UNCHANGED filterVars => FilterInv'
<1> SUFFICES ASSUME FilterInv, UNCHANGED filterVars PROVE FilterInv'
  OBVIOUS
<1>1. UNCHANGED <<denied, call, pc, acc, verdict>>
  BY DEF filterVars
<1>2. Decision' = Decision /\ (Place' <=> Place) /\ (Buildable(denied)' <=> Buildable(denied))
  BY <1>1 DEF Decision, Entry, Place, AllowIdx, DenyIdx, Buildable, TooLong
<1> QED
  BY <1>1, <1>2 DEF FilterInv, FilterDecides

\* For every list of at most MaxDenied calls the program kills calls by another
\* convention, denies what is listed by the native entry and allows all else, x32 calls
\* among it: its jumps, of one byte each, reach (buildSeccompProgram).
THEOREM FilterIsRight == FilterSpec => []FilterDecides
<1>1. FilterInv /\ UNCHANGED filterVars => FilterInv'
  BY StutterWell
<1>2. FilterInv => FilterDecides
  BY DEF FilterInv
<1> QED
  BY FilterBegins, FilterGoesOn, <1>1, <1>2, PTL DEF FilterSpec

\* What an instruction does to the machine's registers.
LEMMA MachineKeepsItsTypes == FilterInv /\ FilterTypeOK /\ Executes => FilterTypeOK'
<1> SUFFICES ASSUME FilterInv, FilterTypeOK, Executes
             PROVE  FilterTypeOK'
  OBVIOUS
<1>1. /\ verdict = "none" /\ Buildable(denied) /\ Place
      /\ denied' = denied /\ call' = call
  BY DEF FilterInv, Executes
<1>2. Len(denied) \in Nat
  BY <1>1 DEF Buildable
<1> DEFINE instr == Instruction(denied, pc)
<1>3. FilterInv'
  BY FilterGoesOn
<1>4. verdict' \in {"none", "allow", "errno", "kill", "refused"}
  <2>1. instr.op = "return" => instr.v \in {"allow", "errno", "kill"}
    BY DEF Instruction, Load, SkipIfEqual, Return
  <2> QED
    BY <1>1, <2>1 DEF Executes
<1>5. \/ instr.op = "load" /\ acc' = call[instr.field]
      \/ acc' = acc
  BY DEF Executes
<1>6. instr.op = "load" => instr.field \in {"arch", "nr"}
  BY DEF Instruction, Load, SkipIfEqual, Return
<1>7. acc' \in Archs \cup SeenNumbers
  BY <1>5, <1>6 DEF FilterTypeOK, SyscallCalls
<1>8. pc' \in 0 .. DenyIdx(denied)
  <2>1. CASE verdict' = "none"
    BY <1>1, <1>2, <1>3, <2>1 DEF FilterInv, Place, AllowIdx, DenyIdx
  <2>2. CASE verdict' # "none"
    BY <1>1, <2>2 DEF Executes, FilterTypeOK
  <2> QED
    BY <2>1, <2>2
<1> QED
  BY <1>1, <1>4, <1>7, <1>8 DEF FilterTypeOK

-----------------------------------------------------------------------------
\* The client, the child, what buildToolset knows of it and the filter's machine keep
\* their types, and a child is running or has run exactly when the toolset says so.
THEOREM ToolsetTypesHold == Spec => []TypeOK
<1> DEFINE Inv == PluginInv /\ ConfinementInv /\ FilterInv /\ FilterTypeOK
<1>1. Init => Inv
  <2>1. CASE ToolsetInit /\ FilterIdle
    <3>1. FilterTypeOK
      <4>1. denied \in DenyLists /\ call \in SyscallCalls
        <5>1. SyscallCalls # {}
          <6>1. PICK nr \in Numbers : TRUE
            BY MCAssumption
          <6>2. [arch |-> OwnArch, nr |-> nr] \in SyscallCalls
            BY <6>1, ArchAssumption DEF SyscallCalls, SeenNumbers
          <6> QED
            BY <6>2
        <5>2. (CHOOSE d \in DenyLists : TRUE) \in DenyLists
          BY MCAssumption, Zenon
        <5>3. (CHOOSE c \in SyscallCalls : TRUE) \in SyscallCalls
          BY <5>1, Zenon
        <5> QED
          BY <2>1, <5>2, <5>3 DEF FilterIdle
      <4>2. Len(denied) \in Nat
        BY <4>1, DenyListsAssumption
      <4>3. pc = 0 /\ acc = OwnArch /\ verdict \in {"none", "refused"}
        BY <2>1 DEF FilterIdle
      <4> QED
        BY <4>1, <4>2, <4>3, ArchAssumption DEF FilterTypeOK, DenyIdx, AllowIdx
    <3>2. FilterInv
      BY <2>1 DEF FilterIdle, FilterInv, FilterDecides
    <3> QED
      BY <2>1, <3>1, <3>2, PluginBegins, ConfinementBegins DEF ToolsetInit
  <2>2. CASE ToolsetIdle /\ FilterInit
    <3>2. FilterTypeOK
      <4>1. denied \in DenyLists /\ call \in SyscallCalls
        BY <2>2 DEF FilterInit
      <4>2. Len(denied) \in Nat
        BY <4>1, DenyListsAssumption
      <4>3. pc = 0 /\ acc = OwnArch /\ verdict \in {"none", "refused"}
        BY <2>2 DEF FilterInit
      <4> QED
        BY <4>1, <4>2, <4>3, ArchAssumption DEF FilterTypeOK, DenyIdx, AllowIdx
    <3> QED
      BY <2>2, <3>2, PluginBegins, ConfinementBegins, FilterBegins DEF ToolsetIdle
  <2> QED
    BY <2>1, <2>2 DEF Init
<1>2. Inv /\ [Next]_<<vars, filterVars>> => Inv'
  <2> SUFFICES ASSUME Inv, [Next]_<<vars, filterVars>>
               PROVE  Inv'
    OBVIOUS
  <2>1. ([ToolsetNext]_vars /\ UNCHANGED filterVars) \/ (Executes /\ UNCHANGED vars)
    BY DEF Next
  <2>2. [ToolsetNext]_vars
    BY <2>1
  <2>3. PluginInv' /\ PluginTypeOK'
    BY <2>2, PluginGoesOn DEF PluginInv
  <2>4. ConfinementInv'
    BY <2>2, <2>3, ConfinementGoesOn
  <2>5. CASE Executes
    BY <2>3, <2>4, <2>5, FilterGoesOn, MachineKeepsItsTypes
  <2>6. CASE UNCHANGED filterVars
    BY <2>3, <2>4, <2>6, StutterWell DEF filterVars, FilterTypeOK, DenyIdx, AllowIdx
  <2> QED
    BY <2>1, <2>5, <2>6
<1>3. Inv => TypeOK
  BY DEF ConfinementInv, TypeOK
<1> QED
  BY <1>1, <1>2, <1>3, PTL DEF Spec
=============================================================================
