---------------------------- MODULE Replay_proofs -----------------------------
(***************************************************************************)
(* Proofs about recording and replaying (module Replay).                   *)
(*                                                                         *)
(* Everything rests on one fact about the agent loop: what it journals     *)
(* next is settled by what it has journaled so far, except for the model's *)
(* responses and for failures.  `Follows' says how each event depends on   *)
(* those before it, and `LoopAtEvents' how the state of the loop is to be  *)
(* read off its events; the same rules then hold of the recording, which   *)
(* is a prefix of such a stream.                                           *)
(***************************************************************************)
EXTENDS Replay, TLAPS

Message == ({"assistant"} \X Replies) \cup ({"tool"} \X {0, 1})
Asking == [maxTokens : {0, 1}, delegate : BOOLEAN, messages : Seq(Message)]

Event ==
  UNION {[kind : {"turn.start"}, body : BOOLEAN],
         [kind : {"model.request"}, body : Asking],
         [kind : {"model.response"}, body : Replies],
         [kind : {"tool.call"}, body : Nat \X Nat \X Names],
         [kind : {"tool.result"}, body : Nat \X Nat \X {0, 1}],
         [kind : {"error"}, body : {"loop", "model", "model.complete", "tool"}],
         [kind : {"turn.end"}, body : {"end", "error"}]}

-----------------------------------------------------------------------------
(* What an event of a stream s is, given those before it.  `given' are the *)
(* settings of the agent, `from' is the workspace it started in.           *)

End == Emit("turn.end", "end")

\* The message the conversation gets from an event.
MessageOf(e) ==
  IF e.kind = "model.response" THEN <<"assistant", e.body>> ELSE <<"tool", e.body[3]>>

\* Events 2 k and 2 k + 1 are the exchange that gave message k.
Exchange(s, k) ==
  \/ s[2 * k].kind = "model.request" /\ s[2 * k + 1].kind = "model.response"
  \/ s[2 * k].kind = "tool.call" /\ s[2 * k + 1].kind = "tool.result"

Conversation(s, told) ==
  \A k \in 1 .. Len(told) : told[k] = MessageOf(s[2 * k + 1]) /\ Exchange(s, k)

\* The step of the request at n.
StepAt(s, n) == IF n = 2 THEN 1 ELSE s[n - 1].body[1] + 1

WroteBefore(s, n) ==
  \E j \in 1 .. n - 1 : s[j].kind = "tool.call" /\ s[j].body[3] = "write"

\* What the call at n is answered.
AnswerTo(s, n, given, from) ==
  CASE s[n].body[3] = "read" -> IF WroteBefore(s, n) THEN 1 ELSE from
    [] s[n].body[3] = "write" -> 0
    [] s[n].body[3] = "made_up" -> IF given.delegate THEN 1 ELSE 0

AfterResponse(s, n) ==
  LET r == s[n - 1].body
  IN  /\ n >= 4
      /\ ~Valid(r) => s[n].kind = "error"
      /\ Valid(r) /\ r.calls = <<>> => s[n] = End
      /\ Valid(r) /\ r.calls # <<>> =>
           s[n] = Emit("tool.call", <<StepAt(s, n - 2), 1, r.calls[1]>>)

AfterCall(s, n, given, from) ==
  \/ s[n].kind = "error"
  \/ s[n] = Emit("tool.result",
                 <<s[n - 1].body[1], s[n - 1].body[2], AnswerTo(s, n - 1, given, from)>>)

AfterResult(s, n) ==
  LET last == s[n - 1].body[2]
      at == n - 1 - 2 * last
      calls == s[at].body.calls
  IN  /\ at \in 1 .. n - 1
      /\ s[at].kind = "model.response"
      /\ last < Len(calls) =>
           s[n] = Emit("tool.call", <<s[n - 1].body[1], last + 1, calls[last + 1]>>)
      /\ last >= Len(calls) => s[n].kind \in {"model.request", "error"}

\* The request asks what the conversation so far makes of it, within the limit.
AsksRightly(s, n, given) ==
  LET told == s[n].body.messages
  IN  /\ s[n].body = [maxTokens |-> given.maxTokens, delegate |-> given.delegate,
                      messages |-> told]
      /\ n = 2 * Len(told) + 2
      /\ Conversation(s, told)
      /\ StepAt(s, n) <= given.maxSteps

Follows(s, n, given, from) ==
  /\ n = 1 => s[n] = Emit("turn.start", given.delegate)
  /\ n > 1 =>
       /\ s[n].kind # "turn.start"
       /\ s[n - 1].kind # "turn.end"
       /\ s[n - 1].kind = "turn.start" => s[n].kind \in {"model.request", "error"}
       /\ s[n - 1].kind = "model.request" => s[n].kind \in {"model.response", "error"}
       /\ s[n - 1].kind = "model.response" => AfterResponse(s, n)
       /\ s[n - 1].kind = "tool.call" => AfterCall(s, n, given, from)
       /\ s[n - 1].kind = "tool.result" => AfterResult(s, n)
  /\ s[n].kind = "model.request" => AsksRightly(s, n, given)
  /\ s[n].kind = "model.response" => n > 2 /\ s[n - 1].kind = "model.request"
  /\ s[n] = End => n > 1 /\ s[n - 1].kind = "model.response"

Stream(s, given, from) == \A n \in 1 .. Len(s) : Follows(s, n, given, from)

-----------------------------------------------------------------------------
(* The invariant.                                                          *)

From == IF changed THEN 1 ELSE 0

Typed ==
  /\ TypeOK
  /\ out \in Seq(Event)
  /\ rec \in Seq(Event)
  /\ messages \in Seq(Message)
  /\ pc = "call" => call \in 1 .. Len(reply.calls)

Modes ==
  /\ mode = "record" =>
       /\ verdict = "none" /\ settings = recorded /\ rec = <<>>
       /\ ~changed /\ ~faulted /\ cursor = 0
  /\ verdict = "refused" => pc = "start" /\ ~Replayable
  /\ verdict \in {"ok", "diverged"} => pc = "return"
  /\ verdict = "ok" => ~failed /\ Verified
  /\ verdict = "diverged" => failed \/ ~Verified

\* The response with reply r is event n of s.
StandsAt(s, r, n) == n \in 1 .. Len(s) /\ s[n] = Emit("model.response", r)

\* The state of the loop, read off its events.
LoopAtEvents ==
  LET n == Len(out)
  IN  /\ pc = "start" => n = 0 /\ messages = <<>> /\ step = 1
      /\ pc \in {"ask", "call"} => n = 2 * Len(messages) + 1
      /\ pc = "wait" => n = 2 * Len(messages) + 2 /\ out[n] = Emit("model.request", Request)
      /\ pc \in {"ask", "wait", "call"} => Conversation(out, messages)
      /\ pc = "ask" => step = StepAt(out, n + 1)
      /\ pc = "ask" /\ n > 1 =>
           /\ out[n].kind = "tool.result"
           /\ out[n].body[2] = Len(reply.calls)
           /\ StandsAt(out, reply, n - 2 * Len(reply.calls))
      /\ pc = "wait" => step = StepAt(out, n)
      /\ pc = "call" =>
           /\ Valid(reply)
           /\ n >= 3
           /\ StandsAt(out, reply, n - 2 * (call - 1))
           /\ call = 1 => step = StepAt(out, n - 1)
           /\ call > 1 =>
                /\ out[n].kind = "tool.result"
                /\ out[n].body[1] = step
                /\ out[n].body[2] = call - 1
      /\ pc # "return" => files = IF WroteBefore(out, n + 1) THEN 1 ELSE From

Has(s, k) == \E i \in 1 .. Len(s) : s[i].kind = k

Ends ==
  /\ pc # "return" => ~Has(out, "turn.end") /\ ~failed
  /\ ~failed => ~Has(out, "error")
  /\ failed => \A i \in 1 .. Len(out) : out[i] # End
  /\ pc = "return" /\ ~failed => out # <<>> /\ out[Len(out)] = End

\* A recording with a turn that finished is the whole of it, and all went well.
Whole ==
  \A i \in 1 .. Len(rec) : rec[i] = End => i = Len(rec) /\ ~Has(rec, "error")

\* Nothing but the loop itself is left to make the replay differ.
Undisturbed ==
  /\ mode = "replay"
  /\ \E i \in 1 .. Len(rec) : rec[i] = End
  /\ settings.maxTokens = recorded.maxTokens
  /\ settings.delegate = recorded.delegate
  /\ settings.maxSteps >= recorded.maxSteps
  /\ ~changed /\ ~faulted

InStep ==
  Undisturbed =>
    /\ ~failed
    /\ Len(out) <= Len(rec)
    /\ \A i \in 1 .. Len(out) : out[i] = rec[i]
    /\ cursor <= Len(out)
    /\ \A i \in 1 .. Len(out) : out[i].kind = "model.response" => i <= cursor

ReplayInv ==
  /\ Typed /\ Modes /\ LoopAtEvents /\ Ends /\ Whole
  /\ Stream(out, settings, From)
  /\ Stream(rec, recorded, 0)
  /\ ServesOnlyItsOwnQuestion
  /\ InStep

-----------------------------------------------------------------------------
(* Events and sequences of them.                                           *)

LEMMA EventFields ==
  ASSUME NEW e \in Event
  PROVE  /\ e = Emit(e.kind, e.body)
         /\ e.kind \in {"turn.start", "model.request", "model.response", "tool.call",
                        "tool.result", "error", "turn.end"}
         /\ e.kind = "model.request" => e.body \in Asking
         /\ e.kind = "model.response" => e.body \in Replies
         /\ e.kind = "tool.call" => e.body \in Nat \X Nat \X Names
         /\ e.kind = "tool.result" => e.body \in Nat \X Nat \X {0, 1}
  BY DEF Event, Emit

LEMMA EventsMade ==
  /\ \A b \in BOOLEAN : Emit("turn.start", b) \in Event
  /\ \A b \in Asking : Emit("model.request", b) \in Event
  /\ \A b \in Replies : Emit("model.response", b) \in Event
  /\ \A b \in Nat \X Nat \X Names : Emit("tool.call", b) \in Event
  /\ \A b \in Nat \X Nat \X {0, 1} : Emit("tool.result", b) \in Event
  /\ \A b \in {"loop", "model", "model.complete", "tool"} : Emit("error", b) \in Event
  /\ \A b \in {"end", "error"} : Emit("turn.end", b) \in Event
  BY DEF Event, Emit

LEMMA EmitFields ==
  ASSUME NEW k, NEW b
  PROVE  Emit(k, b).kind = k /\ Emit(k, b).body = b
  BY DEF Emit

\* t is s and k events more.
Grown(s, t, k) ==
  /\ t \in Seq(Event)
  /\ Len(t) = Len(s) + k
  /\ \A i \in 1 .. Len(s) : t[i] = s[i]

LEMMA GrownByOne ==
  ASSUME NEW s \in Seq(Event), NEW a \in Event
  PROVE  Grown(s, Append(s, a), 1) /\ Append(s, a)[Len(s) + 1] = a
  BY DEF Grown

LEMMA GrownByTwo ==
  ASSUME NEW s \in Seq(Event), NEW a \in Event, NEW b \in Event
  PROVE  /\ Grown(s, s \o <<a, b>>, 2)
         /\ (s \o <<a, b>>)[Len(s) + 1] = a
         /\ (s \o <<a, b>>)[Len(s) + 2] = b
         /\ s \o <<>> \o <<a, b>> = s \o <<a, b>>
<1> PICK n \in Nat : Len(s) = n
  OBVIOUS
<1>1. <<a, b>> \in Seq(Event) /\ Len(<<a, b>>) = 2 /\ <<a, b>>[1] = a /\ <<a, b>>[2] = b
  OBVIOUS
<1>2. s \o <<>> = s
  OBVIOUS
<1> PICK two : two = <<a, b>>
  OBVIOUS
<1> QED
  BY <1>1, <1>2 DEF Grown

LEMMA GrownTwice ==
  ASSUME NEW s \in Seq(Event), NEW t, NEW u, NEW j \in Nat, NEW k \in Nat,
         Grown(s, t, j), Grown(t, u, k)
  PROVE  Grown(s, u, j + k)
<1> PICK n \in Nat : Len(s) = n
  OBVIOUS
<1> QED
  BY DEF Grown

LEMMA GrownByThree ==
  ASSUME NEW s \in Seq(Event), NEW a \in Event, NEW b \in Event, NEW c \in Event
  PROVE  LET t == s \o <<a>> \o <<b, c>>
         IN  /\ Grown(s, t, 3)
             /\ t[Len(s) + 1] = a /\ t[Len(s) + 2] = b /\ t[Len(s) + 3] = c
<1> PICK n \in Nat : Len(s) = n
  OBVIOUS
<1>1. s \o <<a>> = Append(s, a)
  OBVIOUS
<1> DEFINE m == Append(s, a)
<1>2. Grown(s, m, 1) /\ m[n + 1] = a
  BY GrownByOne
<1>3. m \in Seq(Event) /\ Len(m) = n + 1
  BY <1>2 DEF Grown
<1> HIDE DEF m
<1> DEFINE u == m \o <<b, c>>
<1>4. Grown(m, u, 2) /\ u[n + 1 + 1] = b /\ u[n + 1 + 2] = c
  BY <1>3, GrownByTwo
<1> HIDE DEF u
<1>5. Grown(s, u, 1 + 2)
  BY <1>2, <1>4, GrownTwice
<1>6. u[n + 1] = m[n + 1]
  BY <1>3, <1>4 DEF Grown
<1>7. u[n + 1] = a /\ u[n + 2] = b /\ u[n + 3] = c
  BY <1>2, <1>4, <1>6
<1>8. 1 + 2 = 3
  OBVIOUS
<1> QED
  BY <1>1, <1>5, <1>7, <1>8 DEF u, m

-----------------------------------------------------------------------------
(* The rules look back only.                                               *)

LEMMA FollowsLooksBack ==
  ASSUME NEW s \in Seq(Event), NEW t \in Seq(Event), NEW given, NEW from,
         NEW n \in Nat \ {0}, n <= Len(s), n <= Len(t),
         \A i \in 1 .. n : t[i] = s[i],
         Follows(s, n, given, from)
  PROVE  Follows(t, n, given, from)
<1>1. t[n] = s[n] /\ (n > 1 => t[n - 1] = s[n - 1])
  OBVIOUS
<1>2. ASSUME n > 1, s[n - 1].kind = "model.response"  PROVE AfterResponse(t, n)
  <2>1. n >= 4 /\ AfterResponse(s, n)
    BY <1>2 DEF Follows, AfterResponse
  <2>2. StepAt(t, n - 2) = StepAt(s, n - 2)
    BY <2>1 DEF StepAt
  <2> QED
    BY <1>1, <1>2, <2>1, <2>2 DEF AfterResponse
<1>3. ASSUME n > 1, s[n - 1].kind = "tool.call"  PROVE AfterCall(t, n, given, from)
  <2>1. AfterCall(s, n, given, from)
    BY <1>3 DEF Follows
  <2>2. WroteBefore(t, n - 1) <=> WroteBefore(s, n - 1)
    BY <1>3, SMTT(30) DEF WroteBefore
  <2>3. AnswerTo(t, n - 1, given, from) = AnswerTo(s, n - 1, given, from)
    BY <1>1, <1>3, <2>2 DEF AnswerTo
  <2> QED
    BY <1>1, <1>3, <2>1, <2>3 DEF AfterCall
<1>4. ASSUME n > 1, s[n - 1].kind = "tool.result"  PROVE AfterResult(t, n)
  <2> DEFINE at == n - 1 - 2 * s[n - 1].body[2]
  <2>1. AfterResult(s, n) /\ at \in 1 .. n - 1
    BY <1>4 DEF Follows, AfterResult
  <2>2. t[at] = s[at]
    BY <2>1
  <2> QED
    BY <1>1, <1>4, <2>1, <2>2 DEF AfterResult
<1>5. ASSUME s[n].kind = "model.request"  PROVE AsksRightly(t, n, given)
  <2> DEFINE told == s[n].body.messages
  <2>1. AsksRightly(s, n, given)
    BY <1>5 DEF Follows
  <2>2. s[n] \in Event
    OBVIOUS
  <2>3. told \in Seq(Message)
    BY <2>2, <1>5, EventFields DEF Asking
  <2> PICK m \in Nat : Len(told) = m
    BY <2>3
  <2>4. n = 2 * m + 2
    BY <2>1 DEF AsksRightly
  <2>5. \A k \in 1 .. m : t[2 * k] = s[2 * k] /\ t[2 * k + 1] = s[2 * k + 1]
    BY <2>4
  <2>6. Conversation(t, told)
    BY <2>1, <2>5 DEF AsksRightly, Conversation, Exchange
  <2>7. StepAt(t, n) = StepAt(s, n)
    BY <1>1, <2>4 DEF StepAt
  <2> QED
    BY <1>1, <2>1, <2>6, <2>7 DEF AsksRightly
<1> QED
  BY <1>1, <1>2, <1>3, <1>4, <1>5 DEF Follows

LEMMA StreamGrows ==
  ASSUME NEW s \in Seq(Event), NEW t, NEW k \in Nat, NEW given, NEW from,
         Stream(s, given, from), Grown(s, t, k),
         \A n \in Len(s) + 1 .. Len(s) + k : Follows(t, n, given, from)
  PROVE  Stream(t, given, from)
<1>1. ASSUME NEW n \in 1 .. Len(s)  PROVE Follows(t, n, given, from)
  <2>1. /\ t \in Seq(Event) /\ n \in Nat \ {0} /\ n <= Len(s) /\ n <= Len(t)
        /\ \A i \in 1 .. n : t[i] = s[i]
    BY DEF Grown
  <2>2. Follows(s, n, given, from)
    BY DEF Stream
  <2> QED
    BY <2>1, <2>2, FollowsLooksBack
<1> QED
  BY <1>1 DEF Stream, Grown

LEMMA StreamIsCut ==
  ASSUME NEW s \in Seq(Event), NEW m \in 0 .. Len(s), NEW given, NEW from,
         Stream(s, given, from)
  PROVE  /\ SubSeq(s, 1, m) \in Seq(Event)
         /\ Len(SubSeq(s, 1, m)) = m
         /\ \A i \in 1 .. m : SubSeq(s, 1, m)[i] = s[i]
         /\ Stream(SubSeq(s, 1, m), given, from)
<1> DEFINE t == SubSeq(s, 1, m)
<1>1. /\ t \in Seq(Event) /\ Len(t) = m
      /\ \A i \in 1 .. m : t[i] = s[i]
  OBVIOUS
<1> HIDE DEF t
<1>2. ASSUME NEW n \in 1 .. m  PROVE Follows(t, n, given, from)
  <2>1. n \in Nat \ {0} /\ n <= Len(s) /\ n <= Len(t) /\ \A i \in 1 .. n : t[i] = s[i]
    BY <1>1
  <2>2. Follows(s, n, given, from)
    BY DEF Stream
  <2> QED
    BY <1>1, <2>1, <2>2, FollowsLooksBack
<1>3. Stream(t, given, from)
  BY <1>1, <1>2 DEF Stream
<1> QED
  BY <1>1, <1>3 DEF t

LEMMA ConversationLooksBack ==
  ASSUME NEW s, NEW t, NEW told \in Seq(Message), NEW m \in Nat,
         2 * Len(told) + 1 <= m,
         \A i \in 1 .. m : t[i] = s[i],
         Conversation(s, told)
  PROVE  Conversation(t, told)
<1> PICK n \in Nat : Len(told) = n
  OBVIOUS
<1>1. \A k \in 1 .. n : 2 * k \in 1 .. m /\ 2 * k + 1 \in 1 .. m
  OBVIOUS
<1> QED
  BY <1>1 DEF Conversation, Exchange

-----------------------------------------------------------------------------
(* The steps, by what they add to the events.                              *)

Kept == UNCHANGED <<historyVars, mode, settings, verdict>>
LoopKept == UNCHANGED <<step, reply, call, messages>>

\* A response comes from the provider when recording, from the tape in a replay.
Least(at) == at \in Remaining /\ \A i \in Remaining : at <= i

FromTape(r) ==
  /\ mode = "record" => cursor' = cursor
  /\ mode = "replay" =>
       \E at \in Tape : Least(at) /\ cursor' = at /\ Matches(at) /\ r = rec[at].body

Starts ==
  /\ pc = "start" /\ verdict = "none" /\ pc' = "ask"
  /\ Grown(out, out', 1)
  /\ out'[1] = Emit("turn.start", settings.delegate)
  /\ LoopKept /\ Kept /\ UNCHANGED <<failed, files, faulted, cursor>>

Asks ==
  /\ pc = "ask" /\ pc' = "wait" /\ step <= settings.maxSteps
  /\ Grown(out, out', 1)
  /\ out'[Len(out) + 1] = Emit("model.request", Request)
  /\ LoopKept /\ Kept /\ UNCHANGED <<failed, files, faulted, cursor>>

GivesUp(k) ==
  /\ pc' = "return" /\ failed'
  /\ Grown(out, out', k)
  /\ out'[Len(out) + k - 1].kind = "error"
  /\ out'[Len(out) + k] = Emit("turn.end", "error")
  /\ LoopKept /\ Kept /\ UNCHANGED files

NoResponse ==
  /\ GivesUp(2)
  /\ pc \in {"ask", "wait"}
  /\ faulted' = faulted
  /\ cursor' \in Tape \cup {0}
  /\ mode = "record" => cursor' = cursor
  /\ \/ pc = "ask" /\ step > settings.maxSteps
     \/ pc = "wait" /\ mode = "replay" /\ Remaining = {}
     \/ pc = "wait" /\ mode = "replay" /\ \E at \in Tape : Least(at) /\ ~Matches(at)

Useless(r) ==
  /\ GivesUp(3)
  /\ pc = "wait" /\ ~Valid(r) /\ FromTape(r)
  /\ out'[Len(out) + 1] = Emit("model.response", r)
  /\ faulted' = faulted

ProviderFails ==
  /\ GivesUp(3)
  /\ mode = "record" /\ pc = "wait"
  /\ out'[Len(out) + 1].kind = "error"
  /\ UNCHANGED <<faulted, cursor>>

Asked == Emit("tool.call", <<step, call, reply.calls[call]>>)

ToolFails ==
  /\ GivesUp(3)
  /\ pc = "call"
  /\ out'[Len(out) + 1] = Asked
  /\ faulted' = (mode = "replay")
  /\ cursor' = cursor

Answers(r) ==
  /\ pc = "wait" /\ pc' = "return" /\ Valid(r) /\ r.calls = <<>> /\ FromTape(r)
  /\ Grown(out, out', 2)
  /\ out'[Len(out) + 1] = Emit("model.response", r)
  /\ out'[Len(out) + 2] = End
  /\ LoopKept /\ Kept /\ UNCHANGED <<failed, files, faulted>>

Calls(r) ==
  /\ pc = "wait" /\ pc' = "call" /\ Valid(r) /\ r.calls # <<>> /\ FromTape(r)
  /\ Grown(out, out', 1)
  /\ out'[Len(out) + 1] = Emit("model.response", r)
  /\ reply' = r /\ call' = 1 /\ messages' = Append(messages, <<"assistant", r>>)
  /\ Kept /\ UNCHANGED <<step, failed, files, faulted>>

Serves ==
  LET name == reply.calls[call]
  IN  /\ pc = "call"
      /\ Grown(out, out', 2)
      /\ out'[Len(out) + 1] = Asked
      /\ out'[Len(out) + 2] = Emit("tool.result", <<step, call, Content(name)>>)
      /\ messages' = Append(messages, <<"tool", Content(name)>>)
      /\ files' = IF name = "write" THEN 1 ELSE files
      /\ call < Len(reply.calls) => pc' = pc /\ call' = call + 1 /\ step' = step
      /\ call >= Len(reply.calls) => pc' = "ask" /\ call' = call /\ step' = step + 1
      /\ Kept /\ UNCHANGED <<reply, failed, faulted, cursor>>

LoopSteps ==
  \/ Starts \/ Asks \/ NoResponse \/ ProviderFails \/ ToolFails \/ Serves
  \/ \E r \in Replies : Useless(r) \/ Answers(r) \/ Calls(r)

LEMMA ReplyFields ==
  ASSUME NEW r \in Replies
  PROVE  /\ r.calls \in Seq(Names)
         /\ Len(r.calls) \in 0 .. MaxCalls
         /\ \A i \in 1 .. Len(r.calls) : r.calls[i] \in Names
         /\ r.text \in BOOLEAN
<1>1. PICK n \in 0 .. MaxCalls : r.calls \in [1 .. n -> Names]
  BY DEF Replies
<1>2. n \in Nat
  BY ReplayAssumption
<1>3. r.calls \in Seq(Names) /\ Len(r.calls) = n
  BY <1>1, <1>2
<1> QED
  BY <1>1, <1>3 DEF Replies

LEMMA RequestIsAsking ==
  ASSUME Typed
  PROVE  Request \in Asking
  BY DEF Typed, TypeOK, Settings, Asking, Request

LEMMA RecordedResponses ==
  ASSUME Typed, NEW at \in Tape
  PROVE  rec[at].body \in Replies
<1>1. at \in 1 .. Len(rec) /\ rec[at].kind = "model.response"
  BY DEF Tape
<1>2. rec[at] \in Event
  BY <1>1 DEF Typed
<1> QED
  BY <1>1, <1>2, EventFields

LEMMA FailGrows ==
  ASSUME Typed, NEW stage \in {"loop", "model", "tool"}
  PROVE  /\ Fail(<<>>, stage) =>
              /\ pc' = "return" /\ failed' = TRUE
              /\ Grown(out, out', 2)
              /\ out'[Len(out) + 2 - 1].kind = "error"
              /\ out'[Len(out) + 2] = Emit("turn.end", "error")
         /\ \A e \in Event : Fail(<<e>>, stage) =>
              /\ pc' = "return" /\ failed' = TRUE
              /\ Grown(out, out', 3)
              /\ out'[Len(out) + 1] = e
              /\ out'[Len(out) + 3 - 1].kind = "error"
              /\ out'[Len(out) + 3] = Emit("turn.end", "error")
<1> DEFINE a == Emit("error", stage)
           b == Emit("turn.end", "error")
<1>1. a \in Event /\ b \in Event /\ a.kind = "error"
  BY EventsMade, EmitFields
<1>2. out \in Seq(Event)
  BY DEF Typed
<1>3. PICK n \in Nat : Len(out) = n
  BY <1>2
<1>4. ASSUME Fail(<<>>, stage)
      PROVE  /\ pc' = "return" /\ failed' = TRUE
             /\ Grown(out, out', 2)
             /\ out'[Len(out) + 2 - 1].kind = "error"
             /\ out'[Len(out) + 2] = Emit("turn.end", "error")
  <2>1. pc' = "return" /\ failed' = TRUE /\ out' = out \o <<>> \o <<a, b>>
    BY <1>4 DEF Fail
  <2> HIDE DEF a, b
  <2>2. /\ Grown(out, out', 2)
        /\ out'[n + 1] = a
        /\ out'[n + 2] = b
    BY <1>1, <1>2, <1>3, <2>1, GrownByTwo
  <2>3. n + 2 - 1 = n + 1
    OBVIOUS
  <2> QED
    BY <1>1, <1>3, <2>1, <2>2, <2>3 DEF b
<1>5. ASSUME NEW e \in Event, Fail(<<e>>, stage)
      PROVE  /\ pc' = "return" /\ failed' = TRUE
             /\ Grown(out, out', 3)
             /\ out'[Len(out) + 1] = e
             /\ out'[Len(out) + 3 - 1].kind = "error"
             /\ out'[Len(out) + 3] = Emit("turn.end", "error")
  <2>1. pc' = "return" /\ failed' = TRUE /\ out' = out \o <<e>> \o <<a, b>>
    BY <1>5 DEF Fail
  <2> HIDE DEF a, b
  <2>2. /\ Grown(out, out', 3)
        /\ out'[n + 1] = e
        /\ out'[n + 2] = a
        /\ out'[n + 3] = b
    BY <1>1, <1>2, <1>3, <2>1, GrownByThree
  <2>3. n + 3 - 1 = n + 2
    OBVIOUS
  <2> QED
    BY <1>1, <1>3, <2>1, <2>2, <2>3 DEF b
<1> QED
  BY <1>4, <1>5

LEMMA TakeShapes ==
  ASSUME Typed, pc = "wait", NEW r \in Replies, Take(r), FromTape(r), Kept,
         UNCHANGED <<files, faulted>>
  PROVE  Useless(r) \/ Answers(r) \/ Calls(r)
<1> DEFINE got == Emit("model.response", r)
<1>1. got \in Event
  BY EventsMade
<1>2. CASE ~Valid(r)
  <2>1. Fail(<<got>>, "model") /\ LoopKept
    BY <1>2 DEF Take, LoopKept
  <2> HIDE DEF got
  <2>2. /\ pc' = "return" /\ failed' = TRUE
        /\ Grown(out, out', 3)
        /\ out'[Len(out) + 1] = got
        /\ out'[Len(out) + 3 - 1].kind = "error"
        /\ out'[Len(out) + 3] = Emit("turn.end", "error")
    BY <1>1, <2>1, FailGrows
  <2> QED
    BY <1>2, <2>1, <2>2 DEF Useless, GivesUp, got
<1>3. CASE Valid(r) /\ r.calls = <<>>
  <2>1. /\ pc' = "return" /\ LoopKept /\ failed' = failed
        /\ out' = out \o <<got, End>>
    BY <1>3 DEF Take, LoopKept, End
  <2>2. End \in Event /\ out \in Seq(Event)
    BY EventsMade DEF End, Typed
  <2> HIDE DEF got
  <2>3. /\ Grown(out, out', 2)
        /\ out'[Len(out) + 1] = got
        /\ out'[Len(out) + 2] = End
    BY <1>1, <2>1, <2>2, GrownByTwo
  <2> QED
    BY <1>3, <2>1, <2>3 DEF Answers, got
<1>4. CASE Valid(r) /\ r.calls # <<>>
  <2>1. /\ pc' = "call" /\ reply' = r /\ call' = 1
        /\ messages' = Append(messages, <<"assistant", r>>)
        /\ step' = step /\ failed' = failed
        /\ out' = Append(out, got)
    BY <1>4 DEF Take
  <2>2. out \in Seq(Event)
    BY DEF Typed
  <2> HIDE DEF got
  <2>3. Grown(out, out', 1) /\ out'[Len(out) + 1] = got
    BY <1>1, <2>1, <2>2, GrownByOne
  <2> QED
    BY <1>4, <2>1, <2>3 DEF Calls, got
<1> QED
  BY <1>2, <1>3, <1>4

LEMMA StepShapes ==
  ASSUME Typed, Modes, LoopAtEvents, Next
  PROVE  LoopSteps \/ BeginReplay \/ Conclude
<1>t. /\ out \in Seq(Event) /\ cursor \in Tape \cup {0}
      /\ mode \in {"record", "replay"}
  BY DEF Typed, TypeOK
<1> PICK n \in Nat : Len(out) = n
  BY <1>t
<1>1. ASSUME Start  PROVE Starts
  <2>1. n = 0 /\ out = <<>>
    BY <1>1, <1>t DEF Start, LoopAtEvents
  <2> DEFINE e == Emit("turn.start", settings.delegate)
  <2>2. settings.delegate \in BOOLEAN
    BY DEF Typed, TypeOK, Settings
  <2>3. e \in Event
    BY <2>2, EventsMade
  <2>4. out' = <<e>>
    BY <1>1 DEF Start
  <2> HIDE DEF e
  <2>5. Append(<<>>, e) = <<e>>
    OBVIOUS
  <2>6. Grown(out, out', 1) /\ out'[n + 1] = e
    BY <1>t, <2>1, <2>3, <2>4, <2>5, GrownByOne
  <2>7. out'[1] = Emit("turn.start", settings.delegate)
    BY <2>1, <2>6 DEF e
  <2> QED
    BY <1>1, <2>6, <2>7 DEF Start, Running, Starts, LoopKept, Kept, historyVars
<1>2. ASSUME Ask  PROVE Asks
  <2> DEFINE e == Emit("model.request", Request)
  <2>1. e \in Event
    BY RequestIsAsking, EventsMade
  <2>2. out' = Append(out, e)
    BY <1>2 DEF Ask
  <2> HIDE DEF e
  <2>3. Grown(out, out', 1) /\ out'[Len(out) + 1] = e
    BY <1>t, <2>1, <2>2, GrownByOne
  <2> QED
    BY <1>2, <2>3 DEF Ask, Asks, LoopKept, Kept, historyVars, e
<1>3. ASSUME StepLimit  PROVE NoResponse
  <2>1. /\ Fail(<<>>, "loop") /\ pc = "ask" /\ step > settings.maxSteps
        /\ LoopKept /\ Kept /\ UNCHANGED <<files, faulted, cursor>>
    BY <1>3 DEF StepLimit, LoopKept, Kept, historyVars
  <2>2. GivesUp(2)
    BY <2>1, FailGrows DEF GivesUp
  <2> QED
    BY <1>t, <2>1, <2>2 DEF NoResponse
<1>4. ASSUME PlayerExhausted  PROVE NoResponse
  <2>1. /\ Fail(<<>>, "model") /\ pc = "wait" /\ mode = "replay" /\ Remaining = {}
        /\ LoopKept /\ Kept /\ UNCHANGED <<files, faulted, cursor>>
    BY <1>4 DEF PlayerExhausted, LoopKept, Kept, historyVars
  <2>2. GivesUp(2)
    BY <2>1, FailGrows DEF GivesUp
  <2> QED
    BY <1>t, <2>1, <2>2 DEF NoResponse
<1>5. ASSUME RecorderFails  PROVE ProviderFails
  <2> DEFINE e == Emit("error", "model.complete")
  <2>1. /\ Fail(<<e>>, "model") /\ pc = "wait" /\ mode = "record"
        /\ LoopKept /\ Kept /\ UNCHANGED <<files, faulted, cursor>>
    BY <1>5 DEF RecorderFails, LoopKept, Kept, historyVars
  <2>2. e \in Event /\ e.kind = "error"
    BY EventsMade, EmitFields
  <2> HIDE DEF e
  <2>3. GivesUp(3) /\ out'[Len(out) + 1] = e
    BY <2>1, <2>2, FailGrows DEF GivesUp
  <2> QED
    BY <2>1, <2>2, <2>3 DEF ProviderFails
<1>6. ASSUME NEW r \in Replies, RecorderResponds(r)
      PROVE  Useless(r) \/ Answers(r) \/ Calls(r)
  <2>1. /\ mode = "record" /\ pc = "wait" /\ Take(r) /\ Kept
        /\ UNCHANGED <<files, faulted, cursor>>
    BY <1>6 DEF RecorderResponds, Kept
  <2>2. FromTape(r)
    BY <2>1 DEF FromTape
  <2> QED
    BY <2>1, <2>2, TakeShapes
<1>7. ASSUME PlayerResponds
      PROVE  NoResponse \/ \E r \in Replies : Useless(r) \/ Answers(r) \/ Calls(r)
  <2>1. mode = "replay" /\ pc = "wait" /\ Kept /\ UNCHANGED <<files, faulted>>
    BY <1>7 DEF PlayerResponds, Kept
  <2>2. PICK at \in Remaining :
          /\ \A i \in Remaining : at <= i
          /\ cursor' = NextCursor(at)
          /\ IF Matches(at)
             THEN Take(rec[at].body)
             ELSE Fail(<<>>, "model") /\ UNCHANGED <<step, reply, call, messages>>
    BY <1>7 DEF PlayerResponds
  <2>3. at \in Tape /\ Least(at) /\ cursor' = at
    BY <2>2 DEF Remaining, Least, NextCursor
  <2>4. CASE Matches(at)
    <3>1. rec[at].body \in Replies
      BY <2>3, RecordedResponses
    <3>2. FromTape(rec[at].body)
      BY <2>1, <2>3, <2>4 DEF FromTape
    <3> QED
      BY <2>1, <2>2, <2>4, <3>1, <3>2, TakeShapes
  <2>5. CASE ~Matches(at)
    <3>1. Fail(<<>>, "model") /\ LoopKept
      BY <2>2, <2>5 DEF LoopKept
    <3>2. GivesUp(2)
      BY <2>1, <3>1, FailGrows DEF GivesUp
    <3> QED
      BY <2>1, <2>3, <2>5, <3>2 DEF NoResponse
  <2> QED
    BY <2>4, <2>5
<1>8. ASSUME ServeCall  PROVE Serves \/ ToolFails
  <2> DEFINE name == reply.calls[call]
             told == Emit("tool.result", <<step, call, Content(name)>>)
  <2>1. /\ pc = "call" /\ Kept /\ UNCHANGED <<reply, cursor>>
        /\ \/ /\ out' = out \o <<Asked, told>>
              /\ messages' = Append(messages, <<"tool", Content(name)>>)
              /\ files' = (IF name = "write" THEN 1 ELSE files)
              /\ IF call < Len(reply.calls)
                 THEN call' = call + 1 /\ UNCHANGED <<pc, step>>
                 ELSE pc' = "ask" /\ step' = step + 1 /\ UNCHANGED call
              /\ UNCHANGED <<failed, faulted>>
           \/ /\ Fail(<<Asked>>, "tool")
              /\ faulted' = (mode = "replay")
              /\ UNCHANGED <<step, call, messages, files>>
    BY <1>8 DEF ServeCall, Asked, Kept, historyVars
  <2>2. step \in Nat /\ call \in Nat /\ call \in 1 .. Len(reply.calls) /\ reply \in Replies
    BY <2>1 DEF Typed, TypeOK
  <2>3. name \in Names
    BY <2>2, ReplyFields
  <2>4. Content(name) \in {0, 1}
    <3>1. files \in {0, 1} /\ settings.delegate \in BOOLEAN
      BY DEF Typed, TypeOK, Settings
    <3> HIDE DEF name
    <3> QED
      BY <2>3, <3>1 DEF Content, Names
  <2>5. Asked \in Event
    BY <2>2, <2>3, EventsMade DEF Asked
  <2>6. told \in Event
    BY <2>2, <2>4, EventsMade
  <2>7. CASE out' = out \o <<Asked, told>>
             /\ messages' = Append(messages, <<"tool", Content(name)>>)
             /\ files' = (IF name = "write" THEN 1 ELSE files)
             /\ (IF call < Len(reply.calls)
                 THEN call' = call + 1 /\ UNCHANGED <<pc, step>>
                 ELSE pc' = "ask" /\ step' = step + 1 /\ UNCHANGED call)
             /\ UNCHANGED <<failed, faulted>>
    <3>1. /\ call < Len(reply.calls) => pc' = pc /\ call' = call + 1 /\ step' = step
          /\ call >= Len(reply.calls) => pc' = "ask" /\ call' = call /\ step' = step + 1
      <4>1. Len(reply.calls) \in Nat
        BY <2>2, ReplyFields
      <4> QED
        BY <2>2, <2>7, <4>1
    <3>2. /\ messages' = Append(messages, <<"tool", Content(name)>>)
          /\ files' = IF name = "write" THEN 1 ELSE files
          /\ UNCHANGED <<failed, faulted>>
      BY <2>7
    <3> HIDE DEF told
    <3>3. /\ Grown(out, out', 2)
          /\ out'[Len(out) + 1] = Asked
          /\ out'[Len(out) + 2] = told
      BY <1>t, <2>5, <2>6, <2>7, GrownByTwo
    <3> QED
      BY <2>1, <3>1, <3>2, <3>3 DEF Serves, told
  <2>8. CASE /\ Fail(<<Asked>>, "tool")
             /\ faulted' = (mode = "replay")
             /\ UNCHANGED <<step, call, messages, files>>
    <3>1. LoopKept
      BY <2>1, <2>8 DEF LoopKept
    <3>2. GivesUp(3) /\ out'[Len(out) + 1] = Asked
      BY <2>1, <2>5, <2>8, <3>1, FailGrows DEF GivesUp
    <3> QED
      BY <2>1, <2>8, <3>2 DEF ToolFails
  <2> QED
    BY <2>1, <2>7, <2>8
<1> QED
  BY <1>1, <1>2, <1>3, <1>4, <1>5, <1>6, <1>7, <1>8 DEF Next, LoopSteps

-----------------------------------------------------------------------------
(* Types, modes and ends.                                                  *)

LEMMA TapeKept ==
  ASSUME UNCHANGED rec
  PROVE  Tape' = Tape
  BY DEF Tape

LEMMA FromTapeTyped ==
  ASSUME Typed, Modes, NEW r, FromTape(r)
  PROVE  cursor' \in Tape \cup {0}
  BY DEF FromTape, Typed, TypeOK

LEMMA LoopKeeps ==
  ASSUME LoopSteps
  PROVE  Kept
  BY DEF LoopSteps, Starts, Asks, NoResponse, ProviderFails, ToolFails, Serves,
         Useless, Answers, Calls, GivesUp

LEMMA LoopTyped ==
  ASSUME Typed, Modes, LoopSteps
  PROVE  Typed'
<1> USE DEF Kept, LoopKept, historyVars
<1>t. /\ mode \in {"record", "replay"} /\ front \in Fronts
      /\ settings \in Settings /\ recorded \in Settings
      /\ pc \in {"start", "ask", "wait", "call", "return"}
      /\ step \in Nat /\ reply \in Replies /\ call \in 1 .. MaxCalls + 1
      /\ files \in {0, 1} /\ cursor \in Tape \cup {0}
      /\ verdict \in {"none", "refused", "diverged", "ok"}
      /\ failed \in BOOLEAN /\ changed \in BOOLEAN /\ faulted \in BOOLEAN
      /\ rec \in Seq(Event) /\ out \in Seq(Event) /\ messages \in Seq(Message)
      /\ MaxCalls \in Nat
  BY ReplayAssumption DEF Typed, TypeOK
<1>k. UNCHANGED <<mode, front, settings, recorded, changed, rec, verdict>>
  BY LoopKeeps
<1>a. /\ pc' \in {"start", "ask", "wait", "call", "return"}
      /\ out' \in Seq(Event)
  BY <1>t DEF LoopSteps, Starts, Asks, NoResponse, ProviderFails, ToolFails, Serves,
              Useless, Answers, Calls, GivesUp, Grown
<1>b. failed' \in BOOLEAN
  BY <1>t DEF LoopSteps, Starts, Asks, NoResponse, ProviderFails, ToolFails, Serves,
              Useless, Answers, Calls, GivesUp
<1>c. faulted' \in BOOLEAN
  BY <1>t DEF LoopSteps, Starts, Asks, NoResponse, ProviderFails, ToolFails, Serves,
              Useless, Answers, Calls
<1>d. files' \in {0, 1} /\ step' \in Nat
  BY <1>t DEF LoopSteps, Starts, Asks, NoResponse, ProviderFails, ToolFails, Serves,
              Useless, Answers, Calls, GivesUp
<1>2. cursor' \in Tape \cup {0}
  BY <1>t, FromTapeTyped
     DEF LoopSteps, Starts, Asks, NoResponse, ProviderFails, ToolFails, Serves,
         Useless, Answers, Calls
<1>3. reply' \in Replies
  BY <1>t DEF LoopSteps, Starts, Asks, NoResponse, ProviderFails, ToolFails, Serves,
              Useless, Answers, Calls, GivesUp
<1>4. /\ call' \in 1 .. MaxCalls + 1
      /\ pc' = "call" => call' \in 1 .. Len(reply'.calls)
  <2>1. CASE Serves
    <3>1. Len(reply.calls) \in 0 .. MaxCalls /\ call \in 1 .. Len(reply.calls)
      BY <1>t, <2>1, ReplyFields DEF Serves, Typed
    <3>2. CASE call < Len(reply.calls)
      BY <1>t, <2>1, <3>1, <3>2, SMTT(30) DEF Serves
    <3>3. CASE call >= Len(reply.calls)
      BY <1>t, <2>1, <3>1, <3>3 DEF Serves
    <3> QED
      BY <3>1, <3>2, <3>3
  <2>2. ASSUME NEW r \in Replies, Calls(r)
        PROVE  /\ call' \in 1 .. MaxCalls + 1
               /\ pc' = "call" => call' \in 1 .. Len(reply'.calls)
    <3>1. r.calls \in Seq(Names) /\ Len(r.calls) \in Nat /\ r.calls # <<>>
      BY <2>2, <1>t, ReplyFields DEF Calls
    <3>2. Len(r.calls) >= 1
      BY <3>1
    <3> QED
      BY <1>t, <2>2, <3>1, <3>2 DEF Calls
  <2> QED
    BY <1>t, <2>1, <2>2
       DEF LoopSteps, Starts, Asks, NoResponse, ProviderFails, ToolFails,
           Useless, Answers, GivesUp
<1>5. messages' \in Seq(Message)
  <2>1. CASE Serves
    <3> DEFINE name == reply.calls[call]
    <3>1. name \in Names
      BY <2>1, <1>t, ReplyFields DEF Serves, Typed
    <3>2. Content(name) \in {0, 1}
      <4>1. settings.delegate \in BOOLEAN
        BY <1>t DEF Settings
      <4> HIDE DEF name
      <4> QED
        BY <3>1, <1>t, <4>1 DEF Content, Names
    <3>3. <<"tool", Content(name)>> \in Message
      BY <3>2 DEF Message
    <3> QED
      BY <2>1, <1>t, <3>3 DEF Serves
  <2>2. ASSUME NEW r \in Replies, Calls(r)  PROVE messages' \in Seq(Message)
    <3>1. <<"assistant", r>> \in Message
      BY DEF Message
    <3> QED
      BY <1>t, <2>2, <3>1 DEF Calls
  <2> QED
    BY <1>t, <2>1, <2>2
       DEF LoopSteps, Starts, Asks, NoResponse, ProviderFails, ToolFails,
           Useless, Answers, GivesUp
<1>6. Tape' = Tape
  BY <1>k, TapeKept
<1> QED
  BY <1>t, <1>k, <1>a, <1>b, <1>c, <1>d, <1>2, <1>3, <1>4, <1>5, <1>6 DEF Typed, TypeOK

LEMMA LoopModes ==
  ASSUME Typed, Modes, LoopSteps
  PROVE  Modes'
<1> USE DEF Kept, LoopKept, historyVars
<1>k. UNCHANGED <<mode, front, settings, recorded, changed, rec, verdict>>
  BY LoopKeeps
<1>1. mode = "record" => cursor' = cursor
  BY DEF LoopSteps, Starts, Asks, NoResponse, ProviderFails, ToolFails, Serves,
         Useless, Answers, Calls, FromTape
<1>a. mode = "record" => ~faulted'
  <2>1. faulted \in BOOLEAN /\ (mode = "record" => ~faulted)
    BY DEF Typed, TypeOK, Modes
  <2>2. CASE ToolFails
    BY <2>1, <2>2 DEF ToolFails
  <2>3. CASE ~ToolFails
    <3>1. faulted' = faulted
      BY <2>3 DEF LoopSteps, Starts, Asks, NoResponse, ProviderFails, Serves,
                  Useless, Answers, Calls
    <3> QED
      BY <2>1, <3>1
  <2> QED
    BY <2>2, <2>3
<1>2. verdict = "none"
  <2>1. pc \in {"ask", "wait", "call"} \/ Starts
    BY DEF LoopSteps, Asks, NoResponse, ProviderFails, ToolFails, Serves,
           Useless, Answers, Calls
  <2> QED
    BY <2>1 DEF Modes, Starts, Typed, TypeOK
<1> QED
  BY <1>k, <1>1, <1>a, <1>2 DEF Modes

\* An event that joins a stream and is not of kind k adds none of that kind.
LEMMA HasGrown ==
  ASSUME NEW s \in Seq(Event), NEW t, NEW j \in Nat, NEW k, Grown(s, t, j),
         ~Has(s, k), \A i \in Len(s) + 1 .. Len(s) + j : t[i].kind # k
  PROVE  ~Has(t, k)
  BY DEF Grown, Has

LEMMA LoopEnds ==
  ASSUME Typed, Modes, LoopAtEvents, Ends, LoopSteps
  PROVE  Ends'
<1>t. out \in Seq(Event)
  BY DEF Typed
<1> PICK n \in Nat : Len(out) = n
  BY <1>t
<1>0. /\ ~failed /\ ~Has(out, "turn.end") /\ ~Has(out, "error")
  BY DEF LoopSteps, Starts, Asks, NoResponse, ProviderFails, ToolFails, Serves,
         Useless, Answers, Calls, Ends
<1>e. \A i \in 1 .. n : out[i] # End
  BY <1>0, EmitFields DEF Has, End
\* The run goes on: nothing that ends it was journaled.
<1>1. ASSUME NEW k \in Nat, Grown(out, out', k), ~failed', pc' # "return",
             \A i \in n + 1 .. n + k : out'[i].kind # "turn.end" /\ out'[i].kind # "error"
      PROVE  Ends'
  <2>1. ~Has(out', "turn.end") /\ ~Has(out', "error")
    BY <1>t, <1>0, <1>1, HasGrown
  <2> QED
    BY <1>1, <2>1 DEF Ends
<1>2. CASE Starts
  <2>1. n = 0
    BY <1>2 DEF LoopAtEvents, Starts
  <2>2. \A i \in n + 1 .. n + 1 : out'[i].kind # "turn.end" /\ out'[i].kind # "error"
    BY <1>2, <2>1, EmitFields DEF Starts
  <2> QED
    BY <1>0, <1>1, <1>2, <2>2 DEF Starts
<1>3. CASE Asks
  <2>1. \A i \in n + 1 .. n + 1 : out'[i].kind # "turn.end" /\ out'[i].kind # "error"
    BY <1>3, EmitFields DEF Asks
  <2> QED
    BY <1>0, <1>1, <1>3, <2>1 DEF Asks
<1>4. ASSUME NEW r, Calls(r)  PROVE Ends'
  <2>1. \A i \in n + 1 .. n + 1 : out'[i].kind # "turn.end" /\ out'[i].kind # "error"
    BY <1>4, EmitFields DEF Calls
  <2> QED
    BY <1>0, <1>1, <1>4, <2>1 DEF Calls
<1>5. CASE Serves
  <2>1. \A i \in n + 1 .. n + 2 : out'[i].kind # "turn.end" /\ out'[i].kind # "error"
    BY <1>5, EmitFields DEF Serves, Asked
  <2>2. pc' # "return"
    <3>1. Len(reply.calls) \in Nat /\ call \in Nat
      BY ReplyFields DEF Typed, TypeOK
    <3> QED
      BY <1>5, <3>1 DEF Serves
  <2> QED
    BY <1>0, <1>1, <1>5, <2>1, <2>2 DEF Serves
<1>6. ASSUME NEW r, Answers(r)  PROVE Ends'
  <2>1. /\ pc' = "return" /\ failed' = failed
        /\ Grown(out, out', 2)
        /\ out'[n + 1] = Emit("model.response", r) /\ out'[n + 2] = End
    BY <1>6 DEF Answers
  <2>2. \A i \in n + 1 .. n + 2 : out'[i].kind # "error"
    BY <2>1, EmitFields DEF End
  <2>3. ~Has(out', "error")
    BY <1>t, <1>0, <2>1, <2>2, HasGrown
  <2>4. out' # <<>> /\ out'[Len(out')] = End
    BY <2>1 DEF Grown
  <2> QED
    BY <1>0, <2>1, <2>3, <2>4 DEF Ends
<1>7. ASSUME NEW k \in {2, 3}, GivesUp(k), k = 3 => out'[n + 1] # End  PROVE Ends'
  <2>1. /\ pc' = "return" /\ failed'
        /\ Grown(out, out', k)
        /\ out'[n + k - 1].kind = "error"
        /\ out'[n + k] = Emit("turn.end", "error")
    BY <1>7 DEF GivesUp
  <2>2. Emit("turn.end", "error") # End
    BY EmitFields DEF End
  <2>3. End.kind = "turn.end"
    BY EmitFields DEF End
  <2>4. \A i \in 1 .. n : out'[i] # End
    BY <1>e, <2>1 DEF Grown
  <2>5. \A i \in n + 1 .. n + k : out'[i] # End
    <3>1. CASE k = 2
      BY <2>1, <2>2, <2>3, <3>1
    <3>2. CASE k = 3
      BY <1>7, <2>1, <2>2, <2>3, <3>2
    <3> QED
      BY <3>1, <3>2
  <2>6. Len(out') = n + k
    BY <2>1 DEF Grown
  <2>7. \A i \in 1 .. Len(out') : out'[i] # End
    BY <2>4, <2>5, <2>6
  <2> QED
    BY <2>1, <2>7 DEF Ends
<1>8. End.kind = "turn.end"
  BY EmitFields DEF End
<1>9. CASE NoResponse
  BY <1>7, <1>9 DEF NoResponse
<1>10. ASSUME NEW r, Useless(r)  PROVE Ends'
  BY <1>7, <1>8, <1>10, EmitFields DEF Useless
<1>11. CASE ProviderFails
  BY <1>7, <1>8, <1>11 DEF ProviderFails
<1>12. CASE ToolFails
  BY <1>7, <1>8, <1>12, EmitFields DEF ToolFails, Asked
<1> QED
  BY <1>2, <1>3, <1>4, <1>5, <1>6, <1>9, <1>10, <1>11, <1>12 DEF LoopSteps

-----------------------------------------------------------------------------
(* The state of the loop and its events keep to each other.                *)

LEMMA WroteGrows ==
  ASSUME NEW s \in Seq(Event), NEW t, NEW k \in Nat, Grown(s, t, k)
  PROVE  WroteBefore(t, Len(t) + 1) <=>
           \/ WroteBefore(s, Len(s) + 1)
           \/ \E i \in Len(s) + 1 .. Len(s) + k :
                t[i].kind = "tool.call" /\ t[i].body[3] = "write"
<1> DEFINE Write(u, i) == u[i].kind = "tool.call" /\ u[i].body[3] = "write"
<1> PICK n \in Nat : Len(s) = n
  OBVIOUS
<1>1. Len(t) = n + k /\ \A i \in 1 .. n : t[i] = s[i]
  BY DEF Grown
<1>2. \A i \in 1 .. n : Write(t, i) <=> Write(s, i)
  BY <1>1
<1>3. /\ WroteBefore(t, Len(t) + 1) <=> \E i \in 1 .. n + k : Write(t, i)
      /\ WroteBefore(s, Len(s) + 1) <=> \E i \in 1 .. n : Write(s, i)
  <2>1. n + k + 1 - 1 = n + k /\ n + 1 - 1 = n
    OBVIOUS
  <2> QED
    BY <1>1, <2>1 DEF WroteBefore
<1>4. (\E i \in 1 .. n + k : Write(t, i)) <=>
        (\E i \in 1 .. n : Write(t, i)) \/ (\E i \in n + 1 .. n + k : Write(t, i))
  <2> HIDE DEF Write
  <2>1. \A i \in 1 .. n + k : i \in 1 .. n \/ i \in n + 1 .. n + k
    OBVIOUS
  <2>2. (\A i \in 1 .. n : i \in 1 .. n + k) /\ (\A i \in n + 1 .. n + k : i \in 1 .. n + k)
    OBVIOUS
  <2> QED
    BY <2>1, <2>2
<1> QED
  BY <1>2, <1>3, <1>4

LEMMA ConversationGrows ==
  ASSUME NEW s \in Seq(Event), NEW t, NEW j \in Nat, Grown(s, t, j),
         NEW told \in Seq(Message), NEW m,
         Conversation(s, told), 2 * Len(told) + 1 <= Len(s),
         Len(t) >= 2 * Len(told) + 3,
         m = MessageOf(t[2 * (Len(told) + 1) + 1]),
         Exchange(t, Len(told) + 1),
         m \in Message
  PROVE  Conversation(t, Append(told, m))
<1> PICK n \in Nat : Len(told) = n
  OBVIOUS
<1>0. /\ Len(s) \in Nat
      /\ \A i \in 1 .. Len(s) : t[i] = s[i]
  BY DEF Grown
<1>1. Conversation(t, told)
  BY <1>0, ConversationLooksBack
<1>2. /\ Len(Append(told, m)) = n + 1
      /\ Append(told, m)[n + 1] = m
      /\ \A k \in 1 .. n : Append(told, m)[k] = told[k]
  OBVIOUS
<1>3. ASSUME NEW k \in 1 .. n + 1
      PROVE  Append(told, m)[k] = MessageOf(t[2 * k + 1]) /\ Exchange(t, k)
  <2>1. CASE k = n + 1
    BY <1>2, <2>1
  <2>2. CASE k \in 1 .. n
    BY <1>1, <1>2, <2>2 DEF Conversation
  <2> QED
    BY <2>1, <2>2
<1> QED
  BY <1>2, <1>3 DEF Conversation

LEMMA LoopStaysAtEvents ==
  ASSUME Typed, Modes, LoopAtEvents, LoopSteps
  PROVE  LoopAtEvents'
<1>t. /\ out \in Seq(Event) /\ messages \in Seq(Message) /\ step \in Nat
      /\ call \in Nat /\ reply \in Replies
  BY DEF Typed, TypeOK
<1> PICK n \in Nat : Len(out) = n
  BY <1>t
<1> PICK m \in Nat : Len(messages) = m
  BY <1>t
<1>k. UNCHANGED <<mode, settings, changed>> /\ From' = From
  BY LoopKeeps DEF Kept, historyVars, From
<1>l. Len(messages) = m /\ Len(out) = n
  OBVIOUS
<1>1. CASE pc' = "return"
  BY <1>1 DEF LoopAtEvents
<1>2. CASE Starts
  <2>1. n = 0 /\ m = 0 /\ step = 1 /\ messages = <<>>
    BY <1>2, <1>l DEF LoopAtEvents, Starts
  <2>2. /\ pc' = "ask" /\ messages' = messages /\ step' = step /\ files' = files
        /\ Grown(out, out', 1) /\ out'[1] = Emit("turn.start", settings.delegate)
    BY <1>2 DEF Starts, LoopKept
  <2>3. Len(out') = 1 /\ out'[1].kind # "tool.call"
    BY <2>1, <2>2, EmitFields DEF Grown
  <2>4. files' = IF WroteBefore(out', Len(out') + 1) THEN 1 ELSE From
    <3>1. files = IF WroteBefore(out, n + 1) THEN 1 ELSE From
      BY <1>2 DEF LoopAtEvents, Starts
    <3>2. WroteBefore(out', Len(out') + 1) <=> WroteBefore(out, n + 1)
      <4>1. \A i \in n + 1 .. n + 1 : out'[i].kind # "tool.call"
        BY <2>1, <2>3
      <4> QED
        BY <1>t, <1>l, <2>2, <4>1, WroteGrows
    <3> QED
      BY <2>2, <3>1, <3>2
  <2>5. Conversation(out', messages')
    BY <2>1, <2>2 DEF Conversation
  <2>6. step' = StepAt(out', Len(out') + 1)
    BY <2>1, <2>2, <2>3 DEF StepAt
  <2> QED
    BY <1>k, <2>1, <2>2, <2>3, <2>4, <2>5, <2>6 DEF LoopAtEvents
<1>3. CASE Asks
  <2>1. /\ n = 2 * m + 1 /\ Conversation(out, messages) /\ step = StepAt(out, n + 1)
        /\ files = IF WroteBefore(out, n + 1) THEN 1 ELSE From
    BY <1>3 DEF LoopAtEvents, Asks
  <2>2. /\ pc' = "wait" /\ LoopKept /\ files' = files
        /\ Grown(out, out', 1) /\ out'[n + 1] = Emit("model.request", Request)
    BY <1>3 DEF Asks
  <2>3. Len(out') = n + 1 /\ out'[n] = out[n] /\ out'[n + 1].kind = "model.request"
    BY <2>1, <2>2, EmitFields DEF Grown
  <2>4. files' = IF WroteBefore(out', Len(out') + 1) THEN 1 ELSE From
    <3>1. WroteBefore(out', Len(out') + 1) <=> WroteBefore(out, n + 1)
      BY <1>t, <2>2, <2>3, WroteGrows
    <3> QED
      BY <2>1, <2>2, <3>1
  <2>5. Conversation(out', messages)
    BY <1>t, <2>1, <2>2, ConversationLooksBack, SMTT(30) DEF Grown
  <2>6. step = StepAt(out', n + 1)
    BY <2>1, <2>3 DEF StepAt
  <2>7. Request' = Request
    BY <1>k, <2>2 DEF Request, LoopKept
  <2> QED
    BY <1>k, <2>1, <2>2, <2>3, <2>4, <2>5, <2>6, <2>7 DEF LoopAtEvents, LoopKept
<1>4. ASSUME NEW r \in Replies, Calls(r)  PROVE LoopAtEvents'
  <2>1. /\ n = 2 * m + 2 /\ Conversation(out, messages) /\ step = StepAt(out, n)
        /\ files = (IF WroteBefore(out, n + 1) THEN 1 ELSE From)
        /\ out[n] = Emit("model.request", Request)
    BY <1>4 DEF LoopAtEvents, Calls
  <2> DEFINE new == <<"assistant", r>>
  <2>2. /\ pc' = "call" /\ reply' = r /\ call' = 1 /\ step' = step /\ files' = files
        /\ messages' = Append(messages, new) /\ Valid(r)
        /\ Grown(out, out', 1) /\ out'[n + 1] = Emit("model.response", r)
    BY <1>4 DEF Calls
  <2>3. /\ Len(out') = n + 1 /\ out'[n] = out[n] /\ out'[n].kind = "model.request"
        /\ out'[n + 1].kind = "model.response" /\ out'[n + 1].body = r
        /\ n # 2 => out'[n - 1] = out[n - 1]
    BY <2>1, <2>2, EmitFields DEF Grown
  <2>4. files' = IF WroteBefore(out', Len(out') + 1) THEN 1 ELSE From
    <3>1. WroteBefore(out', Len(out') + 1) <=> WroteBefore(out, n + 1)
      BY <1>t, <2>2, <2>3, WroteGrows
    <3> QED
      BY <2>1, <2>2, <3>1
  <2>5. new \in Message /\ new = MessageOf(out'[n + 1])
    BY <2>3 DEF Message, MessageOf
  <2>6. Exchange(out', m + 1)
    <3>1. 2 * (m + 1) = n /\ 2 * (m + 1) + 1 = n + 1
      BY <2>1
    <3> QED
      BY <2>3, <3>1 DEF Exchange
  <2> HIDE DEF new
  <2>7. Conversation(out', messages')
    <3>1. /\ 2 * m + 1 <= n /\ Len(out') >= 2 * m + 3
          /\ new = MessageOf(out'[2 * (m + 1) + 1])
      BY <2>1, <2>3, <2>5
    <3> QED
      BY <1>t, <1>l, <2>1, <2>2, <2>5, <2>6, <3>1, ConversationGrows
  <2>8. step' = StepAt(out', n)
    BY <2>1, <2>2, <2>3 DEF StepAt
  <2>9. Len(messages') = m + 1
    BY <1>t, <2>2
  <2>10. StandsAt(out', reply', Len(out'))
    BY <2>2, <2>3 DEF StandsAt
  <2>11. Len(out') = 2 * Len(messages') + 1 /\ Len(out') >= 3 /\ Len(out') - 1 = n
         /\ Len(out') - 2 * (1 - 1) = Len(out')
    BY <2>1, <2>3, <2>9
  <2> QED
    BY <1>k, <2>2, <2>4, <2>7, <2>8, <2>10, <2>11 DEF LoopAtEvents
<1>5. CASE Serves
  <2> DEFINE name == reply.calls[call]
             said == Content(name)
             new == <<"tool", said>>
  <2>1. /\ n = 2 * m + 1 /\ Conversation(out, messages) /\ Valid(reply) /\ n >= 3
        /\ files = (IF WroteBefore(out, n + 1) THEN 1 ELSE From)
        /\ StandsAt(out, reply, n - 2 * (call - 1))
    BY <1>5 DEF LoopAtEvents, Serves
  <2>2. /\ Grown(out, out', 2)
        /\ out'[n + 1] = Emit("tool.call", <<step, call, name>>)
        /\ out'[n + 2] = Emit("tool.result", <<step, call, said>>)
        /\ messages' = Append(messages, new)
        /\ files' = IF name = "write" THEN 1 ELSE files
        /\ reply' = reply
    BY <1>5 DEF Serves, Asked
  <2>3. Len(reply.calls) \in Nat /\ call \in 1 .. Len(reply.calls) /\ name \in Names
    BY <1>t, <1>5, ReplyFields DEF Serves, Typed
  <2>4. said \in {0, 1}
    <3>1. files \in {0, 1} /\ settings.delegate \in BOOLEAN
      BY DEF Typed, TypeOK, Settings
    <3> HIDE DEF name
    <3> QED
      BY <2>3, <3>1 DEF Content, Names
  <2>5. new \in Message
    BY <2>4 DEF Message
  <2> HIDE DEF said
  <2>6. /\ Len(out') = n + 2
        /\ \A i \in 1 .. n : out'[i] = out[i]
        /\ out'[n + 1].kind = "tool.call" /\ out'[n + 1].body = <<step, call, name>>
        /\ out'[n + 2].kind = "tool.result" /\ out'[n + 2].body = <<step, call, said>>
    BY <2>2, EmitFields DEF Grown
  <2>7. new = MessageOf(out'[n + 2])
    BY <2>6 DEF MessageOf
  <2> HIDE DEF new, name
  <2>8. out'[n + 1].body[3] = name /\ out'[n + 2].body[1] = step /\ out'[n + 2].body[2] = call
    BY <2>6
  <2>9. files' = IF WroteBefore(out', Len(out') + 1) THEN 1 ELSE From
    <3>1. WroteBefore(out', Len(out') + 1) <=> WroteBefore(out, n + 1) \/ name = "write"
      <4>1. WroteBefore(out', Len(out') + 1) <=>
              \/ WroteBefore(out, Len(out) + 1)
              \/ \E i \in Len(out) + 1 .. Len(out) + 2 :
                   out'[i].kind = "tool.call" /\ out'[i].body[3] = "write"
        <5>1. 2 \in Nat /\ Grown(out, out', 2)
          BY <2>2
        <5> QED
          BY <1>t, <5>1, WroteGrows
      <4>2. (\E i \in n + 1 .. n + 2 :
               out'[i].kind = "tool.call" /\ out'[i].body[3] = "write") <=> name = "write"
        BY <2>6, <2>8
      <4> QED
        BY <1>l, <4>1, <4>2
    <3> QED
      BY <2>1, <2>2, <3>1
  <2>10. Exchange(out', m + 1)
    <3>1. 2 * (m + 1) = n + 1 /\ 2 * (m + 1) + 1 = n + 2
      BY <2>1
    <3> QED
      BY <2>6, <3>1 DEF Exchange
  <2>11. Conversation(out', messages')
    <3>1. /\ 2 * m + 1 <= n /\ Len(out') >= 2 * m + 3
          /\ new = MessageOf(out'[2 * (m + 1) + 1])
      BY <2>1, <2>6, <2>7
    <3> QED
      BY <1>t, <1>l, <2>1, <2>2, <2>5, <2>10, <3>1, ConversationGrows
  <2>12. Len(messages') = m + 1
    BY <1>t, <2>2
  <2>13. /\ Len(out') = 2 * Len(messages') + 1
         /\ n - 2 * (call - 1) = Len(out') - 2 * call
    BY <1>t, <2>1, <2>6, <2>12
  <2>14. StandsAt(out', reply', Len(out') - 2 * call)
    <3>1. StandsAt(out, reply, Len(out') - 2 * call)
      BY <2>1, <2>13
    <3> PICK at : at = Len(out') - 2 * call
      OBVIOUS
    <3>2. at \in 1 .. n /\ out[at] = Emit("model.response", reply)
      BY <3>1 DEF StandsAt
    <3>3. at \in 1 .. Len(out') /\ out'[at] = Emit("model.response", reply')
      BY <2>2, <2>6, <3>2
    <3> QED
      BY <3>3 DEF StandsAt
  <2>15. Conversation(out', messages') /\ Len(out') = 2 * Len(messages') + 1
    BY <2>11, <2>13
  <2>16. CASE call < Len(reply.calls)
    <3>1. pc' = "call" /\ call' = call + 1 /\ step' = step
      BY <1>5, <2>16 DEF Serves
    <3>2. /\ Len(out') >= 3
          /\ Len(out') - 2 * (call' - 1) = Len(out') - 2 * call
          /\ call' > 1 /\ call' - 1 = call
      BY <1>t, <2>1, <2>3, <2>6, <3>1
    <3>3. /\ out'[Len(out')].kind = "tool.result"
          /\ out'[Len(out')].body[1] = step'
          /\ out'[Len(out')].body[2] = call' - 1
      BY <2>6, <2>8, <3>1, <3>2
    <3>4. call' # 1 /\ Valid(reply') /\ StandsAt(out', reply', Len(out') - 2 * (call' - 1))
      BY <2>1, <2>2, <2>14, <3>2, <1>t
    <3> QED
      BY <1>k, <2>9, <2>15, <3>1, <3>2, <3>3, <3>4 DEF LoopAtEvents
  <2>17. CASE call >= Len(reply.calls)
    <3>1. pc' = "ask" /\ call' = call /\ step' = step + 1 /\ call = Len(reply.calls)
      BY <1>5, <2>3, <2>17 DEF Serves
    <3>2. step' = StepAt(out', Len(out') + 1)
      BY <2>1, <2>6, <2>8, <3>1 DEF StepAt
    <3>3. /\ out'[Len(out')].kind = "tool.result"
          /\ out'[Len(out')].body[2] = Len(reply'.calls)
          /\ StandsAt(out', reply', Len(out') - 2 * Len(reply'.calls))
      BY <2>2, <2>6, <2>8, <2>14, <3>1
    <3> QED
      BY <1>k, <2>9, <2>15, <3>1, <3>2, <3>3 DEF LoopAtEvents
  <2> QED
    BY <2>3, <2>16, <2>17, <1>t
<1>6. pc' = "return" \/ Starts \/ Asks \/ Serves \/ \E r \in Replies : Calls(r)
  BY DEF LoopSteps, NoResponse, ProviderFails, ToolFails, Useless, Answers, GivesUp
<1> QED
  BY <1>1, <1>2, <1>3, <1>4, <1>5, <1>6

-----------------------------------------------------------------------------
(* Every step journals what the rules say.                                 *)

LEMMA ErrorFollows ==
  ASSUME NEW t, NEW q \in Nat, q > 1, NEW given, NEW from,
         t[q].kind = "error",
         \/ t[q - 1].kind \in {"turn.start", "model.request", "error", "tool.call"}
         \/ t[q - 1].kind = "model.response" /\ ~Valid(t[q - 1].body) /\ q >= 4
         \/ t[q - 1].kind = "tool.result" /\ AfterResult(t, q)
  PROVE  Follows(t, q, given, from)
  BY EmitFields DEF Follows, AfterResponse, AfterCall, End

LEMMA EndFollows ==
  ASSUME NEW t, NEW q \in Nat, q > 1, NEW given, NEW from,
         t[q - 1].kind = "error", t[q] = Emit("turn.end", "error")
  PROVE  Follows(t, q, given, from)
  BY EmitFields DEF Follows, End

\* The end of a reply: all its calls were answered.
LEMMA RepliedFollows ==
  ASSUME NEW t, NEW r \in Replies, NEW at \in Nat, NEW q \in Nat,
         q > 1, t[q - 1].kind = "tool.result", t[q - 1].body[2] = Len(r.calls),
         at = q - 1 - 2 * Len(r.calls), at \in 1 .. q - 1,
         t[at] = Emit("model.response", r),
         t[q].kind \in {"model.request", "error"}
  PROVE  AfterResult(t, q)
<1>1. t[at].kind = "model.response" /\ t[at].body = r
  BY EmitFields
<1>2. Len(r.calls) \in Nat
  BY ReplyFields
<1> QED
  BY <1>1, <1>2 DEF AfterResult

\* In the middle of a reply: the next call is the next thing.
LEMMA NextCallFollows ==
  ASSUME NEW t, NEW r \in Replies, NEW at \in Nat, NEW q \in Nat, NEW c \in Nat, NEW st,
         q > 1, t[q - 1].kind = "tool.result",
         t[q - 1].body[1] = st, t[q - 1].body[2] = c,
         at = q - 1 - 2 * c, at \in 1 .. q - 1, c < Len(r.calls),
         t[at] = Emit("model.response", r),
         t[q] = Emit("tool.call", <<st, c + 1, r.calls[c + 1]>>)
  PROVE  AfterResult(t, q)
<1>1. t[at].kind = "model.response" /\ t[at].body = r
  BY EmitFields
<1>2. Len(r.calls) \in Nat
  BY ReplyFields
<1>3. ~(c >= Len(r.calls))
  BY <1>2
<1> QED
  BY <1>1, <1>3 DEF AfterResult

\* What stands last when the loop is about to ask.
LEMMA BeforeAsking ==
  ASSUME Typed, LoopAtEvents, Stream(out, settings, From), pc = "ask",
         NEW t, NEW k \in Nat \ {0}, Grown(out, t, k),
         t[Len(out) + 1].kind \in {"model.request", "error"}
  PROVE  \/ t[Len(out)].kind = "turn.start"
         \/ t[Len(out)].kind = "tool.result" /\ AfterResult(t, Len(out) + 1)
<1>t. out \in Seq(Event) /\ reply \in Replies /\ messages \in Seq(Message)
  BY DEF Typed, TypeOK
<1> PICK n \in Nat : Len(out) = n
  BY <1>t
<1> PICK m \in Nat : Len(messages) = m
  BY <1>t
<1>1. n = 2 * m + 1 /\ n >= 1
  BY DEF LoopAtEvents
<1>2. \A i \in 1 .. n : t[i] = out[i]
  BY DEF Grown
<1>3. CASE n = 1
  <2>1. Follows(out, 1, settings, From)
    BY <1>3 DEF Stream
  <2>2. out[1].kind = "turn.start"
    BY <2>1, EmitFields DEF Follows
  <2> QED
    BY <1>2, <1>3, <2>2
<1>4. CASE n > 1
  <2>1. /\ out[n].kind = "tool.result" /\ out[n].body[2] = Len(reply.calls)
        /\ StandsAt(out, reply, n - 2 * Len(reply.calls))
    BY <1>4 DEF LoopAtEvents
  <2> PICK c \in Nat : c = Len(reply.calls)
    BY <1>t, ReplyFields
  <2> PICK at : at = n - 2 * c
    OBVIOUS
  <2>2. at \in 1 .. n /\ out[at] = Emit("model.response", reply)
    BY <2>1 DEF StandsAt
  <2> PICK q \in Nat : q = n + 1
    OBVIOUS
  <2>3. /\ q > 1 /\ q - 1 = n /\ at = q - 1 - 2 * c /\ at \in 1 .. q - 1 /\ at \in Nat
        /\ t[n] = out[n] /\ t[at] = out[at]
    BY <1>2, <1>4, <2>2
  <2>4. /\ t[q - 1].kind = "tool.result" /\ t[q - 1].body[2] = c
        /\ t[at] = Emit("model.response", reply)
        /\ t[q].kind \in {"model.request", "error"}
    BY <2>1, <2>2, <2>3
  <2>5. AfterResult(t, q)
    BY <1>t, <2>3, <2>4, RepliedFollows
  <2> QED
    BY <2>1, <2>3, <2>5
<1> QED
  BY <1>1, <1>3, <1>4

\* A call is the next one of the reply.
LEMMA AskedFollows ==
  ASSUME Typed, LoopAtEvents, pc = "call",
         NEW t, NEW k \in Nat \ {0}, Grown(out, t, k),
         t[Len(out) + 1] = Asked
  PROVE  \A given, from : Follows(t, Len(out) + 1, given, from)
<1>t. /\ out \in Seq(Event) /\ reply \in Replies /\ step \in Nat /\ call \in Nat
      /\ call \in 1 .. Len(reply.calls) /\ Len(reply.calls) \in Nat
  BY ReplyFields DEF Typed, TypeOK
<1> PICK n \in Nat : Len(out) = n
  BY <1>t
<1>1. /\ Valid(reply) /\ n >= 3
      /\ StandsAt(out, reply, n - 2 * (call - 1))
      /\ call = 1 => step = StepAt(out, n - 1)
      /\ call > 1 => /\ out[n].kind = "tool.result"
                     /\ out[n].body[1] = step
                     /\ out[n].body[2] = call - 1
  BY DEF LoopAtEvents
<1>2. \A i \in 1 .. n : t[i] = out[i]
  BY DEF Grown
<1>3. /\ t[n + 1].kind = "tool.call" /\ t[n + 1] # End
      /\ t[n + 1] = Emit("tool.call", <<step, call, reply.calls[call]>>)
  BY EmitFields DEF Asked, End
<1>4. n + 1 - 1 = n /\ n + 1 > 1 /\ t[n] = out[n]
  BY <1>1, <1>2
<1>5. CASE call = 1
  <2>1. out[n] = Emit("model.response", reply)
    BY <1>1, <1>5 DEF StandsAt
  <2>2. t[n].kind = "model.response" /\ t[n].body = reply
    BY <1>4, <2>1, EmitFields
  <2>3. reply.calls # <<>>
    BY <1>t, <1>5
  <2>4. StepAt(t, n - 1) = StepAt(out, n - 1)
    <3>1. n - 1 = 2 \/ (n - 1 - 1 \in 1 .. n)
      BY <1>1
    <3> QED
      BY <1>2, <3>1 DEF StepAt
  <2>5. n + 1 >= 4 /\ n + 1 - 2 = n - 1
    BY <1>1
  <2>6. AfterResponse(t, n + 1)
    BY <1>1, <1>3, <1>4, <1>5, <2>2, <2>3, <2>4, <2>5 DEF AfterResponse
  <2> QED
    BY <1>3, <1>4, <2>2, <2>6 DEF Follows
<1>6. CASE call > 1
  <2> PICK at : at = n - 2 * (call - 1)
    OBVIOUS
  <2>1. at \in 1 .. n /\ out[at] = Emit("model.response", reply)
    BY <1>1 DEF StandsAt
  <2>2. t[at] = Emit("model.response", reply)
    BY <1>2, <2>1
  <2>3. /\ t[n].kind = "tool.result" /\ t[n].body[1] = step /\ t[n].body[2] = call - 1
    BY <1>1, <1>4, <1>6
  <2>4. at = n + 1 - 1 - 2 * (call - 1) /\ at \in 1 .. n + 1 - 1
        /\ call - 1 + 1 = call /\ call - 1 < Len(reply.calls)
    BY <1>t, <2>1
  <2> PICK c \in Nat : c = call - 1
    BY <1>t, <1>6
  <2>5. c + 1 = call /\ c < Len(reply.calls) /\ at = n - 2 * c /\ at \in Nat
    BY <1>t, <2>1
  <2>6. t[n].body[2] = c
    BY <2>3
  <2>7. t[n + 1] = Emit("tool.call", <<step, c + 1, reply.calls[c + 1]>>)
    BY <1>3, <2>5
  <2> PICK q \in Nat : q = n + 1
    OBVIOUS
  <2>8. q > 1 /\ q - 1 = n /\ at \in 1 .. q - 1 /\ at = q - 1 - 2 * c
    BY <1>4, <2>1, <2>5
  <2>9. /\ t[q - 1].kind = "tool.result" /\ t[q - 1].body[1] = step
        /\ t[q - 1].body[2] = c
    BY <2>3, <2>6, <2>8
  <2>10. t[q] = Emit("tool.call", <<step, c + 1, reply.calls[c + 1]>>)
    BY <2>7
  <2>11. AfterResult(t, q)
    BY <1>t, <2>2, <2>5, <2>8, <2>9, <2>10, NextCallFollows
  <2> QED
    BY <1>3, <1>4, <2>3, <2>11 DEF Follows
<1> QED
  BY <1>t, <1>5, <1>6

\* A call is answered by what the events say of the workspace.
LEMMA AnswerIsContent ==
  ASSUME Typed, LoopAtEvents, pc = "call",
         NEW t, NEW k \in Nat \ {0}, Grown(out, t, k),
         t[Len(out) + 1] = Asked
  PROVE  AnswerTo(t, Len(out) + 1, settings, From) = Content(reply.calls[call])
<1>t. /\ out \in Seq(Event) /\ reply \in Replies /\ call \in 1 .. Len(reply.calls)
  BY DEF Typed, TypeOK
<1> PICK n \in Nat : Len(out) = n
  BY <1>t
<1> PICK name \in Names : name = reply.calls[call]
  BY <1>t, ReplyFields
<1>1. t[n + 1].body[3] = name
  BY EmitFields DEF Asked
<1>2. files = IF WroteBefore(out, n + 1) THEN 1 ELSE From
  BY DEF LoopAtEvents
<1>3. WroteBefore(t, n + 1) <=> WroteBefore(out, n + 1)
  <2>1. \A j \in 1 .. n + 1 - 1 : t[j] = out[j]
    BY DEF Grown
  <2> QED
    BY <2>1 DEF WroteBefore
<1>4. AnswerTo(t, n + 1, settings, From) = Content(name)
  BY <1>1, <1>2, <1>3 DEF AnswerTo, Content, Names
<1> QED
  BY <1>4

LEMMA ResponseFollows ==
  ASSUME NEW t, NEW q \in Nat, q > 2, NEW given, NEW from, NEW r,
         t[q - 1].kind = "model.request", t[q] = Emit("model.response", r)
  PROVE  Follows(t, q, given, from)
  BY EmitFields DEF Follows, End

LEMMA LoopStream ==
  ASSUME Typed, Modes, LoopAtEvents, Stream(out, settings, From), LoopSteps
  PROVE  Stream(out', settings, From)
<1>t. /\ out \in Seq(Event) /\ messages \in Seq(Message) /\ step \in Nat
      /\ call \in Nat /\ reply \in Replies
  BY DEF Typed, TypeOK
<1> PICK n \in Nat : Len(out) = n
  BY <1>t
<1> PICK m \in Nat : Len(messages) = m
  BY <1>t
<1>l. Len(messages) = m /\ Len(out) = n
  OBVIOUS
<1>g. ASSUME NEW k \in Nat, Grown(out, out', k),
             \A q \in n + 1 .. n + k : Follows(out', q, settings, From)
      PROVE  Stream(out', settings, From)
  BY <1>t, <1>l, <1>g, StreamGrows
<1>w. ASSUME pc = "wait"
      PROVE  n = 2 * m + 2 /\ out[n].kind = "model.request"
  BY <1>w, EmitFields DEF LoopAtEvents
<1>2. CASE Starts
  <2>1. n = 0
    BY <1>2 DEF LoopAtEvents, Starts
  <2>2. Grown(out, out', 1) /\ out'[1] = Emit("turn.start", settings.delegate)
    BY <1>2 DEF Starts
  <2>3. Follows(out', 1, settings, From)
    BY <2>2, EmitFields DEF Follows, End
  <2> QED
    BY <1>g, <2>1, <2>2, <2>3
<1>3. CASE Asks
  <2>1. /\ n = 2 * m + 1 /\ Conversation(out, messages) /\ step = StepAt(out, n + 1)
        /\ pc = "ask" /\ step <= settings.maxSteps
    BY <1>3 DEF LoopAtEvents, Asks
  <2>2. Grown(out, out', 1) /\ out'[n + 1] = Emit("model.request", Request)
    BY <1>3 DEF Asks
  <2>3. /\ out'[n + 1].kind = "model.request" /\ out'[n + 1].body = Request
        /\ out'[n] = out[n]
    BY <2>1, <2>2, EmitFields DEF Grown
  <2>4. \/ out'[n].kind = "turn.start"
        \/ out'[n].kind = "tool.result" /\ AfterResult(out', n + 1)
    BY <2>1, <2>2, <2>3, BeforeAsking
  <2>5. AsksRightly(out', n + 1, settings)
    <3>1. Conversation(out', messages)
      BY <1>t, <2>1, <2>2, ConversationLooksBack DEF Grown
    <3>2. StepAt(out', n + 1) = StepAt(out, n + 1)
      BY <2>1, <2>3 DEF StepAt
    <3>3. Request.messages = messages
      BY DEF Request
    <3>4. n + 1 = 2 * m + 2
      BY <2>1
    <3> QED
      BY <2>1, <2>3, <3>1, <3>2, <3>3, <3>4 DEF AsksRightly, Request
  <2>6. n + 1 - 1 = n /\ n + 1 > 1
    BY <2>1
  <2>7. Follows(out', n + 1, settings, From)
    BY <2>3, <2>4, <2>5, <2>6, EmitFields DEF Follows, End
  <2> QED
    BY <1>g, <2>2, <2>7
<1>r. ASSUME pc = "wait", NEW k \in Nat \ {0}, Grown(out, out', k), NEW r,
             out'[n + 1] = Emit("model.response", r)
      PROVE  Follows(out', n + 1, settings, From) /\ n + 2 >= 4
  <2>1. out'[n] = out[n] /\ n + 1 - 1 = n /\ n + 1 > 2 /\ n + 1 \in Nat /\ n + 2 >= 4
    BY <1>r, <1>w DEF Grown
  <2> QED
    BY <1>r, <1>w, <2>1, ResponseFollows
<1>4. ASSUME NEW r \in Replies, Calls(r)  PROVE Stream(out', settings, From)
  <2>1. pc = "wait" /\ Grown(out, out', 1) /\ out'[n + 1] = Emit("model.response", r)
    BY <1>4 DEF Calls
  <2>2. Follows(out', n + 1, settings, From)
    BY <1>r, <2>1
  <2> QED
    BY <1>g, <2>1, <2>2
<1>5. ASSUME NEW r \in Replies, Answers(r)  PROVE Stream(out', settings, From)
  <2>1. /\ pc = "wait" /\ Grown(out, out', 2) /\ Valid(r) /\ r.calls = <<>>
        /\ out'[n + 1] = Emit("model.response", r) /\ out'[n + 2] = End
    BY <1>5 DEF Answers
  <2>2. Follows(out', n + 1, settings, From) /\ n + 2 >= 4
    BY <1>r, <2>1
  <2>3. /\ out'[n + 1].kind = "model.response" /\ out'[n + 1].body = r
        /\ out'[n + 2].kind = "turn.end"
    BY <2>1, EmitFields DEF End
  <2>4. n + 2 - 1 = n + 1 /\ n + 2 > 1
    OBVIOUS
  <2>5. AfterResponse(out', n + 2)
    BY <2>1, <2>2, <2>3, <2>4 DEF AfterResponse
  <2>6. Follows(out', n + 2, settings, From)
    BY <2>3, <2>4, <2>5 DEF Follows
  <2>7. \A q \in n + 1 .. n + 2 : q = n + 1 \/ q = n + 2
    OBVIOUS
  <2> QED
    BY <1>g, <2>1, <2>2, <2>6, <2>7
<1>6. CASE Serves
  <2> PICK name : name = reply.calls[call]
    OBVIOUS
  <2>1. /\ pc = "call" /\ Grown(out, out', 2) /\ out'[n + 1] = Asked
        /\ out'[n + 2] = Emit("tool.result", <<step, call, Content(name)>>)
    BY <1>6 DEF Serves
  <2>2. Follows(out', n + 1, settings, From)
    BY <2>1, AskedFollows
  <2>3. AnswerTo(out', n + 1, settings, From) = Content(name)
    BY <2>1, AnswerIsContent
  <2>4. /\ out'[n + 1].kind = "tool.call"
        /\ out'[n + 1].body[1] = step /\ out'[n + 1].body[2] = call
        /\ out'[n + 2].kind = "tool.result"
    BY <2>1, EmitFields DEF Asked
  <2>5. n + 2 - 1 = n + 1 /\ n + 2 > 1
    OBVIOUS
  <2>6. AfterCall(out', n + 2, settings, From)
    BY <2>1, <2>3, <2>4, <2>5, SMTT(30) DEF AfterCall
  <2>7. out'[n + 2] # End
    BY <2>4, EmitFields DEF End
  <2>8. Follows(out', n + 2, settings, From)
    BY <2>4, <2>5, <2>6, <2>7 DEF Follows
  <2>9. \A q \in n + 1 .. n + 2 : q = n + 1 \/ q = n + 2
    OBVIOUS
  <2> QED
    BY <1>g, <2>1, <2>2, <2>8, <2>9
\* A run that is given up: its last two events, after what may come before them.
<1>7. ASSUME NEW k \in {2, 3}, GivesUp(k), Follows(out', n + k - 1, settings, From),
             k = 3 => Follows(out', n + 1, settings, From)
      PROVE  Stream(out', settings, From)
  <2>1. /\ Grown(out, out', k)
        /\ out'[n + k - 1].kind = "error"
        /\ out'[n + k] = Emit("turn.end", "error")
    BY <1>7 DEF GivesUp
  <2>2. Follows(out', n + k, settings, From)
    <3>1. n + k \in Nat /\ n + k > 1
      BY <1>7
    <3> QED
      BY <2>1, <3>1, EndFollows
  <2>3. \A q \in n + 1 .. n + k : q = n + k \/ q = n + k - 1 \/ (k = 3 /\ q = n + 1)
    <3>1. CASE k = 2
      BY <3>1
    <3>2. CASE k = 3
      BY <3>2
    <3> QED
      BY <3>1, <3>2
  <2> QED
    BY <1>7, <1>g, <2>1, <2>2, <2>3
<1>8. CASE NoResponse
  <2>1. /\ GivesUp(2) /\ pc \in {"ask", "wait"} /\ Grown(out, out', 2)
        /\ out'[n + 1].kind = "error"
    <3>1. n + 2 - 1 = n + 1
      OBVIOUS
    <3> QED
      BY <1>8, <3>1 DEF NoResponse, GivesUp
  <2>2. n >= 1 /\ n + 1 - 1 = n /\ n + 1 \in Nat /\ n + 1 > 1 /\ out'[n] = out[n]
    BY <2>1, <1>w DEF LoopAtEvents, Grown
  <2>3. CASE pc = "ask"
    <3>1. \/ out'[n].kind = "turn.start"
          \/ out'[n].kind = "tool.result" /\ AfterResult(out', n + 1)
      BY <2>1, <2>3, BeforeAsking
    <3> QED
      BY <1>7, <2>1, <2>2, <3>1, ErrorFollows
  <2>4. CASE pc = "wait"
    <3> PICK q \in Nat : q = n + 1
      BY <2>2
    <3>1. q - 1 = n /\ q > 1 /\ out'[q].kind = "error" /\ out'[n].kind = "model.request"
      BY <1>w, <2>1, <2>2, <2>4
    <3>2. Follows(out', n + 1, settings, From)
      BY <3>1, ErrorFollows
    <3>3. n + 2 - 1 = n + 1
      OBVIOUS
    <3> QED
      BY <1>7, <2>1, <3>2, <3>3
  <2> QED
    BY <2>1, <2>3, <2>4
<1>9. ASSUME NEW r \in Replies, Useless(r)  PROVE Stream(out', settings, From)
  <2>1. /\ GivesUp(3) /\ pc = "wait" /\ ~Valid(r) /\ Grown(out, out', 3)
        /\ out'[n + 1] = Emit("model.response", r)
        /\ out'[n + 3 - 1].kind = "error"
    BY <1>9 DEF Useless, GivesUp
  <2>2. Follows(out', n + 1, settings, From) /\ n + 2 >= 4
    BY <1>r, <2>1
  <2>3. out'[n + 1].kind = "model.response" /\ out'[n + 1].body = r
    BY <2>1, EmitFields
  <2>4. n + 3 - 1 = n + 2 /\ n + 2 - 1 = n + 1 /\ n + 2 \in Nat /\ n + 2 > 1
    OBVIOUS
  <2>5. Follows(out', n + 2, settings, From)
    BY <2>1, <2>2, <2>3, <2>4, ErrorFollows
  <2> QED
    BY <1>7, <2>1, <2>2, <2>4, <2>5
<1>10. CASE ProviderFails
  <2>1. /\ GivesUp(3) /\ pc = "wait" /\ Grown(out, out', 3)
        /\ out'[n + 1].kind = "error" /\ out'[n + 3 - 1].kind = "error"
    BY <1>10 DEF ProviderFails, GivesUp
  <2>2. out'[n] = out[n] /\ n + 1 - 1 = n /\ n + 1 > 1 /\ n + 1 \in Nat
    BY <2>1, <1>w DEF Grown
  <2>3. n + 3 - 1 = n + 2 /\ n + 2 - 1 = n + 1 /\ n + 2 \in Nat /\ n + 2 > 1
    OBVIOUS
  <2>4. Follows(out', n + 1, settings, From)
    BY <1>w, <2>1, <2>2, ErrorFollows
  <2>5. Follows(out', n + 2, settings, From)
    BY <2>1, <2>3, ErrorFollows
  <2> QED
    BY <1>7, <2>1, <2>3, <2>4, <2>5
<1>11. CASE ToolFails
  <2>1. /\ GivesUp(3) /\ pc = "call" /\ Grown(out, out', 3)
        /\ out'[n + 1] = Asked /\ out'[n + 3 - 1].kind = "error"
    BY <1>11 DEF ToolFails, GivesUp
  <2>2. Follows(out', n + 1, settings, From)
    BY <2>1, AskedFollows
  <2>3. n + 3 - 1 = n + 2 /\ n + 2 - 1 = n + 1 /\ n + 2 \in Nat /\ n + 2 > 1
    OBVIOUS
  <2>4. out'[n + 1].kind = "tool.call"
    BY <2>1, EmitFields DEF Asked
  <2>5. Follows(out', n + 2, settings, From)
    BY <2>1, <2>3, <2>4, ErrorFollows
  <2> QED
    BY <1>7, <2>1, <2>2, <2>3, <2>5
<1> QED
  BY <1>2, <1>3, <1>4, <1>5, <1>6, <1>8, <1>9, <1>10, <1>11 DEF LoopSteps

-----------------------------------------------------------------------------
(* A response is served only after the request it answered.                *)

LEMMA MessageTells ==
  ASSUME NEW d, NEW e, MessageOf(d) = MessageOf(e),
         d.kind \in {"model.response", "tool.result"},
         e.kind \in {"model.response", "tool.result"}
  PROVE  d.kind = e.kind
<1>1. \A x, y : <<"assistant", x>> # <<"tool", y>>
  <2>1. ASSUME NEW x, NEW y, <<"assistant", x>> = <<"tool", y>>  PROVE FALSE
    <3>1. <<"assistant", x>>[1] = <<"tool", y>>[1]
      BY <2>1
    <3> QED
      BY <3>1
  <2> QED
    BY <2>1
<1>2. CASE d.kind = "model.response" /\ e.kind # "model.response"
  <2>1. MessageOf(d) = <<"assistant", d.body>> /\ MessageOf(e) = <<"tool", e.body[3]>>
    BY <1>2 DEF MessageOf
  <2> QED
    BY <1>1, <2>1
<1>3. CASE d.kind # "model.response" /\ e.kind = "model.response"
  <2>1. MessageOf(d) = <<"tool", d.body[3]>> /\ MessageOf(e) = <<"assistant", e.body>>
    BY <1>3 DEF MessageOf
  <2> QED
    BY <1>1, <2>1
<1> QED
  BY <1>2, <1>3

LEMMA EvenOrOdd ==
  ASSUME NEW m \in Nat, NEW i \in 1 .. 2 * m + 2
  PROVE  \/ i = 1 \/ i = 2 * m + 2
         \/ \E k \in 1 .. m : i = 2 * k \/ i = 2 * k + 1
<1>1. PICK k \in Nat : i = 2 * k \/ i = 2 * k + 1
  <2>1. (i % 2 = 0 \/ i % 2 = 1) /\ i = 2 * (i \div 2) + (i % 2) /\ i \div 2 \in Nat
    OBVIOUS
  <2> QED
    BY <2>1
<1> QED
  BY <1>1

LEMMA RecordedQuestion ==
  ASSUME Typed, Stream(rec, recorded, 0), NEW at \in Tape
  PROVE  /\ at > 2 /\ at \in 1 .. Len(rec) /\ rec[at - 1].kind = "model.request"
         /\ rec[at] = Emit("model.response", rec[at].body)
         /\ Questions(at) = {at - 1}
<1>1. at \in 1 .. Len(rec) /\ rec[at].kind = "model.response"
  BY DEF Tape
<1>2. rec \in Seq(Event) /\ rec[at] \in Event
  BY <1>1 DEF Typed
<1>3. at > 2 /\ rec[at - 1].kind = "model.request"
  BY <1>1 DEF Stream, Follows
<1>4. rec[at] = Emit("model.response", rec[at].body)
  BY <1>1, <1>2, EventFields
<1>5. Questions(at) = {at - 1}
  <2>1. at - 1 \in Questions(at)
    BY <1>1, <1>3 DEF Questions
  <2>2. ASSUME NEW j \in Questions(at)  PROVE j = at - 1
    <3>1. /\ j \in 1 .. at - 1
          /\ \A k \in j + 1 .. at - 1 :
               rec[k].kind \notin {"model.request", "model.response"}
      BY DEF Questions
    <3>2. CASE j < at - 1
      <4>1. at - 1 \in j + 1 .. at - 1
        BY <1>1, <3>1, <3>2
      <4> QED
        BY <1>3, <3>1, <4>1
    <3> QED
      BY <1>1, <3>1, <3>2
  <2> QED
    BY <2>1, <2>2
<1> QED
  BY <1>1, <1>3, <1>4, <1>5

LEMMA AskedTheSame ==
  ASSUME Typed, LoopAtEvents, Stream(out, settings, From), Stream(rec, recorded, 0),
         pc = "wait", NEW at \in Tape, Matches(at)
  PROVE  /\ at = Len(out) + 1
         /\ rec[Len(out)] = out[Len(out)]
         /\ \A k \in 1 .. Len(out) : rec[k].kind = out[k].kind
<1>t. out \in Seq(Event) /\ rec \in Seq(Event) /\ messages \in Seq(Message)
  BY DEF Typed
<1> PICK n \in Nat : Len(out) = n
  BY <1>t
<1> PICK m \in Nat : Len(messages) = m
  BY <1>t
<1>1. /\ n = 2 * m + 2 /\ Conversation(out, messages)
      /\ out[n] = Emit("model.request", Request)
  BY DEF LoopAtEvents
<1>2. /\ at > 2 /\ at \in 1 .. Len(rec) /\ rec[at - 1].kind = "model.request"
      /\ rec[at - 1].body = Request
  BY RecordedQuestion DEF Matches
<1>3. Request.messages = messages
  BY DEF Request
<1>4. AsksRightly(rec, at - 1, recorded)
  <2>1. at - 1 \in 1 .. Len(rec)
    BY <1>2
  <2> QED
    BY <1>2, <2>1 DEF Stream, Follows
<1>5. at - 1 = 2 * m + 2 /\ Conversation(rec, messages)
  BY <1>2, <1>3, <1>4 DEF AsksRightly
<1>6. at = n + 1
  BY <1>1, <1>2, <1>5
<1>7. rec[n] = out[n]
  <2>1. rec[n] \in Event /\ rec[n].kind = "model.request" /\ rec[n].body = Request
    BY <1>1, <1>2, <1>6, <1>t
  <2>2. rec[n] = Emit(rec[n].kind, rec[n].body)
    BY <2>1, EventFields
  <2> QED
    BY <1>1, <2>1, <2>2
<1>8. ASSUME NEW i \in 1 .. n  PROVE rec[i].kind = out[i].kind
  <2>1. CASE i = 1
    <3>1. 1 \in 1 .. Len(rec) /\ 1 \in 1 .. Len(out)
      BY <1>1, <1>2
    <3>2. Follows(rec, 1, recorded, 0) /\ Follows(out, 1, settings, From)
      BY <3>1 DEF Stream
    <3> QED
      BY <2>1, <3>2, EmitFields DEF Follows
  <2>2. CASE i = n
    BY <1>7, <2>2
  <2>3. ASSUME NEW k \in 1 .. m, i = 2 * k \/ i = 2 * k + 1
        PROVE  rec[i].kind = out[i].kind
    <3>1. /\ MessageOf(rec[2 * k + 1]) = MessageOf(out[2 * k + 1])
          /\ Exchange(rec, k) /\ Exchange(out, k)
      BY <1>1, <1>5 DEF Conversation
    <3>2. rec[2 * k + 1].kind = out[2 * k + 1].kind
      BY <3>1, MessageTells DEF Exchange
    <3> QED
      BY <2>3, <3>1, <3>2 DEF Exchange
  <2> QED
    BY <1>1, <2>1, <2>2, <2>3, EvenOrOdd
<1> QED
  BY <1>6, <1>7, <1>8

LEMMA LoopServes ==
  ASSUME Typed, Modes, LoopAtEvents, Stream(out, settings, From),
         Stream(rec, recorded, 0), ServesOnlyItsOwnQuestion, LoopSteps
  PROVE  ServesOnlyItsOwnQuestion'
<1>k. rec' = rec /\ mode' = mode
  BY LoopKeeps DEF Kept, historyVars
<1> SUFFICES ASSUME mode = "replay", NEW i \in 1 .. Len(out'),
                    out'[i].kind = "model.response"
             PROVE  /\ i <= Len(rec)
                    /\ rec[i] = out'[i] /\ rec[i - 1] = out'[i - 1]
                    /\ rec[i - 1].kind = "model.request"
                    /\ \A k \in 1 .. i : rec[k].kind = out'[k].kind
  BY <1>k DEF ServesOnlyItsOwnQuestion
<1>t. out \in Seq(Event) /\ rec \in Seq(Event)
  BY DEF Typed
<1> PICK n \in Nat : Len(out) = n
  BY <1>t
<1>1. PICK k \in Nat : Grown(out, out', k)
  BY DEF LoopSteps, Starts, Asks, NoResponse, ProviderFails, ToolFails, Serves,
         Useless, Answers, Calls, GivesUp
<1>2. CASE i <= n
  <2>1. i \in 1 .. n /\ \A j \in 1 .. n : out'[j] = out[j]
    BY <1>1, <1>2 DEF Grown
  <2>2. out[i].kind = "model.response"
    BY <2>1
  <2>3. i > 2
    BY <2>1, <2>2 DEF Stream, Follows
  <2>4. /\ i <= Len(rec)
        /\ rec[i] = out[i] /\ rec[i - 1] = out[i - 1]
        /\ rec[i - 1].kind = "model.request"
        /\ \A j \in 1 .. i : rec[j].kind = out[j].kind
    BY <2>1, <2>2 DEF ServesOnlyItsOwnQuestion
  <2>5. i - 1 \in 1 .. n /\ \A j \in 1 .. i : j \in 1 .. n
    BY <2>1, <2>3
  <2> QED
    BY <2>1, <2>4, <2>5
<1>3. CASE i > n
  <2>1. PICK r \in Replies :
          /\ Useless(r) \/ Answers(r) \/ Calls(r)
          /\ i = n + 1
    <3>1. CASE Starts
      <4>1. n = 0
        BY <3>1 DEF LoopAtEvents, Starts
      <4>2. i = 1
        BY <1>3, <3>1, <4>1 DEF Starts, Grown
      <4> QED
        BY <3>1, <4>2, EmitFields DEF Starts
    <3>2. CASE Asks
      <4>1. i = n + 1
        BY <1>3, <3>2 DEF Asks, Grown
      <4> QED
        BY <3>2, <4>1, EmitFields DEF Asks
    <3>3. CASE Serves
      <4>1. i = n + 1 \/ i = n + 2
        BY <1>3, <3>3 DEF Serves, Grown
      <4> QED
        BY <3>3, <4>1, EmitFields DEF Serves, Asked
    <3>4. ASSUME NEW j \in {2, 3}, GivesUp(j)  PROVE j = 3 /\ i = n + 1
      <4>1. /\ i \in n + 1 .. n + j
            /\ out'[n + j - 1].kind = "error" /\ out'[n + j].kind = "turn.end"
        BY <1>3, <3>4, EmitFields DEF GivesUp, Grown
      <4>2. i # n + j /\ i # n + j - 1
        BY <4>1
      <4> QED
        BY <3>4, <4>1, <4>2
    <3>5. ~NoResponse
      BY <3>4 DEF NoResponse
    <3>6. ~ProviderFails
      BY DEF ProviderFails
    <3>7. ~ToolFails
      <4>1. ASSUME ToolFails  PROVE FALSE
        <5>1. GivesUp(3) /\ out'[n + 1].kind = "tool.call"
          BY <4>1, EmitFields DEF ToolFails, Asked
        <5> QED
          BY <3>4, <5>1
      <4> QED
        BY <4>1
    <3>8. ASSUME NEW r \in Replies, Useless(r)  PROVE i = n + 1
      BY <3>4, <3>8 DEF Useless
    <3>9. ASSUME NEW r \in Replies, Answers(r)  PROVE i = n + 1
      <4>1. i = n + 1 \/ i = n + 2
        BY <1>3, <3>9 DEF Answers, Grown
      <4> QED
        BY <3>9, <4>1, EmitFields DEF Answers, End
    <3>10. ASSUME NEW r \in Replies, Calls(r)  PROVE i = n + 1
      BY <1>3, <3>10 DEF Calls, Grown
    <3> QED
      BY <3>1, <3>2, <3>3, <3>5, <3>6, <3>7, <3>8, <3>9, <3>10 DEF LoopSteps
  <2>2. pc = "wait" /\ FromTape(r) /\ out'[n + 1] = Emit("model.response", r)
    BY <2>1 DEF Useless, Answers, Calls
  <2>3. PICK at \in Tape : Least(at) /\ Matches(at) /\ r = rec[at].body
    BY <2>2 DEF FromTape
  <2>4. at = n + 1 /\ rec[n] = out[n] /\ \A j \in 1 .. n : rec[j].kind = out[j].kind
    BY <2>2, <2>3, AskedTheSame
  <2>5. /\ at > 2 /\ at \in 1 .. Len(rec) /\ rec[at - 1].kind = "model.request"
        /\ rec[at] = Emit("model.response", rec[at].body)
    BY RecordedQuestion
  <2>6. \A j \in 1 .. n : out'[j] = out[j]
    BY <1>1 DEF Grown
  <2>7. i = at /\ i - 1 = n /\ n \in 1 .. n /\ i <= Len(rec)
    BY <2>1, <2>4, <2>5
  <2>8. rec[i] = out'[i]
    BY <2>2, <2>3, <2>4, <2>5, <2>7
  <2>9. \A j \in 1 .. i : rec[j].kind = out'[j].kind
    <3>1. \A j \in 1 .. i : j = i \/ j \in 1 .. n
      BY <2>7
    <3> QED
      BY <2>4, <2>6, <2>8, <3>1
  <2> QED
    BY <2>4, <2>5, <2>6, <2>7, <2>8, <2>9
<1> QED
  BY <1>2, <1>3

-----------------------------------------------------------------------------
(* An undisturbed replay of a finished turn keeps in step with it.         *)

LEMMA Ahead ==
  ASSUME Typed, Ends, Whole, InStep, Undisturbed, pc # "return"
  PROVE  /\ Len(rec) > Len(out)
         /\ Grown(out, rec, Len(rec) - Len(out))
         /\ ~Has(rec, "error")
         /\ \A i \in 1 .. Len(rec) : rec[i] = End => i = Len(rec)
         /\ From = 0
<1>t. out \in Seq(Event) /\ rec \in Seq(Event)
  BY DEF Typed
<1>1. PICK i \in 1 .. Len(rec) : rec[i] = End
  BY DEF Undisturbed
<1>2. i = Len(rec) /\ ~Has(rec, "error")
  BY <1>1 DEF Whole
<1>3. /\ Len(out) <= Len(rec)
      /\ \A j \in 1 .. Len(out) : out[j] = rec[j]
  BY DEF InStep
<1>4. Len(out) # Len(rec)
  <2>1. ASSUME Len(out) = Len(rec)  PROVE FALSE
    <3>1. out[i] = End /\ i \in 1 .. Len(out)
      BY <1>1, <1>3, <2>1
    <3>2. Has(out, "turn.end")
      BY <3>1, EmitFields DEF Has, End
    <3> QED
      BY <3>2 DEF Ends
  <2> QED
    BY <2>1
<1>5. Len(out) \in Nat /\ Len(rec) \in Nat
  BY <1>t
<1>6. Len(rec) > Len(out) /\ Grown(out, rec, Len(rec) - Len(out))
  BY <1>t, <1>3, <1>4, <1>5 DEF Grown
<1>7. From = 0
  BY DEF From, Undisturbed
<1>8. \A j \in 1 .. Len(rec) : rec[j] = End => j = Len(rec)
  BY DEF Whole
<1> QED
  BY <1>2, <1>6, <1>7, <1>8

LEMMA AheadIsRight ==
  ASSUME Typed, Ends, Whole, InStep, Undisturbed, Stream(rec, recorded, 0), pc # "return"
  PROVE  /\ rec[Len(out) + 1] \in Event
         /\ rec[Len(out) + 1].kind # "error"
         /\ Follows(rec, Len(out) + 1, recorded, 0)
<1> PICK n \in Nat : Len(out) = n
  BY DEF Typed
<1>1. n + 1 \in 1 .. Len(rec) /\ rec \in Seq(Event)
  BY Ahead DEF Typed
<1> QED
  BY <1>1, Ahead DEF Stream, Has

\* The recording asks next, what the replay is about to ask, and within the limit.
LEMMA AheadAsks ==
  ASSUME Typed, LoopAtEvents, Ends, Whole, InStep, Undisturbed,
         Stream(out, settings, From), Stream(rec, recorded, 0), pc = "ask"
  PROVE  /\ rec[Len(out) + 1] = Emit("model.request", Request)
         /\ step <= settings.maxSteps
<1>t. /\ out \in Seq(Event) /\ rec \in Seq(Event) /\ messages \in Seq(Message)
      /\ reply \in Replies /\ settings \in Settings /\ recorded \in Settings /\ step \in Nat
  BY DEF Typed, TypeOK
<1> PICK n \in Nat : Len(out) = n
  BY <1>t
<1> PICK m \in Nat : Len(messages) = m
  BY <1>t
<1>1. /\ rec[n + 1] \in Event /\ rec[n + 1].kind # "error"
      /\ Follows(rec, n + 1, recorded, 0)
  BY AheadIsRight
<1>2. \A i \in 1 .. n : rec[i] = out[i]
  BY Ahead DEF Grown
<1>3. n = 2 * m + 1 /\ n >= 1 /\ Conversation(out, messages) /\ step = StepAt(out, n + 1)
  BY DEF LoopAtEvents
<1>4. rec[n + 1].kind = "model.request"
  <2>1. CASE n = 1
    <3>1. 1 \in 1 .. Len(out)
      BY <2>1
    <3>2. Follows(out, 1, settings, From)
      BY <3>1 DEF Stream
    <3>3. out[1].kind = "turn.start"
      BY <3>2, EmitFields DEF Follows
    <3>4. rec[1].kind = "turn.start"
      BY <1>2, <2>1, <3>3
    <3> QED
      BY <1>1, <2>1, <3>4 DEF Follows
  <2>2. CASE n > 1
    <3>1. /\ out[n].kind = "tool.result" /\ out[n].body[2] = Len(reply.calls)
          /\ StandsAt(out, reply, n - 2 * Len(reply.calls))
      BY <2>2 DEF LoopAtEvents
    <3> PICK c \in Nat : c = Len(reply.calls)
      BY <1>t, ReplyFields
    <3> PICK at : at = n - 2 * c
      OBVIOUS
    <3>2. at \in 1 .. n /\ out[at] = Emit("model.response", reply)
      BY <3>1 DEF StandsAt
    <3>3. rec[n].kind = "tool.result" /\ rec[n].body[2] = c /\ rec[at].body = reply
      BY <1>2, <2>2, <3>1, <3>2, EmitFields
    <3> PICK q \in Nat : q = n + 1
      OBVIOUS
    <3>4. q > 1 /\ q - 1 = n /\ q - 1 - 2 * c = at
      BY <2>2
    <3>5. AfterResult(rec, q)
      BY <1>1, <3>3, <3>4 DEF Follows
    <3>6. rec[q - 1].body[2] = c /\ c >= Len(rec[at].body.calls)
      BY <3>3, <3>4
    <3>7. rec[q].kind \in {"model.request", "error"}
      BY <3>4, <3>5, <3>6 DEF AfterResult
    <3> QED
      BY <1>1, <3>7
  <2> QED
    BY <1>3, <2>1, <2>2
<1> DEFINE told == rec[n + 1].body.messages
<1>5. AsksRightly(rec, n + 1, recorded) /\ told \in Seq(Message)
  BY <1>1, <1>4, EventFields DEF Follows, Asking
<1>6. told = messages
  <2>1. Len(told) = m /\ Conversation(rec, told)
    <3>1. n + 1 = 2 * Len(told) + 2 /\ Conversation(rec, told)
      BY <1>5 DEF AsksRightly
    <3>2. Len(told) \in Nat
      BY <1>5
    <3> QED
      BY <1>3, <3>1, <3>2
  <2>2. ASSUME NEW k \in 1 .. m  PROVE told[k] = messages[k]
    <3>1. 2 * k + 1 \in 1 .. n
      BY <1>3
    <3>2. told[k] = MessageOf(rec[2 * k + 1]) /\ messages[k] = MessageOf(out[2 * k + 1])
      BY <1>3, <2>1 DEF Conversation
    <3> QED
      BY <1>2, <3>1, <3>2
  <2> HIDE DEF told
  <2> QED
    BY <1>5, <1>t, <2>1, <2>2
<1>7. rec[n + 1].body = Request
  BY <1>5, <1>6 DEF AsksRightly, Request, Undisturbed
<1>8. rec[n + 1] = Emit("model.request", Request)
  BY <1>1, <1>4, <1>7, EventFields
<1>9. step <= settings.maxSteps
  <2>1. StepAt(rec, n + 1) = StepAt(out, n + 1)
    BY <1>2, <1>3 DEF StepAt
  <2>2. step <= recorded.maxSteps
    BY <1>3, <1>5, <2>1 DEF AsksRightly
  <2>3. recorded.maxSteps <= settings.maxSteps
    BY <1>t DEF Undisturbed, Settings
  <2>4. recorded.maxSteps \in Nat /\ settings.maxSteps \in Nat
    BY <1>t DEF Settings
  <2> QED
    BY <1>t, <2>2, <2>3, <2>4
<1> QED
  BY <1>8, <1>9

\* The tape has the response, it is the next one, and it matches.
LEMMA AheadResponds ==
  ASSUME Typed, LoopAtEvents, Ends, Whole, InStep, Undisturbed,
         Stream(rec, recorded, 0), pc = "wait"
  PROVE  /\ Len(out) + 1 \in Remaining
         /\ \A at \in Tape : Least(at) => at = Len(out) + 1
         /\ Matches(Len(out) + 1)
<1>t. /\ out \in Seq(Event) /\ rec \in Seq(Event) /\ messages \in Seq(Message)
      /\ cursor \in Tape \cup {0}
  BY DEF Typed, TypeOK
<1> PICK n \in Nat : Len(out) = n
  BY <1>t
<1>1. /\ rec[n + 1] \in Event /\ rec[n + 1].kind # "error"
      /\ Follows(rec, n + 1, recorded, 0)
      /\ n + 1 \in 1 .. Len(rec)
  BY AheadIsRight, Ahead DEF Typed
<1>2. \A i \in 1 .. n : rec[i] = out[i]
  BY Ahead DEF Grown
<1>3. n >= 2 /\ out[n] = Emit("model.request", Request)
  <2>1. n = 2 * Len(messages) + 2 /\ out[n] = Emit("model.request", Request)
    BY DEF LoopAtEvents
  <2>2. Len(messages) \in Nat
    BY <1>t
  <2> QED
    BY <2>1, <2>2
<1>4. rec[n].kind = "model.request" /\ rec[n].body = Request
  BY <1>2, <1>3, EmitFields
<1>5. n + 1 > 1 /\ n + 1 - 1 = n
  BY <1>3
<1>6. rec[n + 1].kind = "model.response"
  BY <1>1, <1>4, <1>5 DEF Follows
<1>7. n + 1 \in Tape
  BY <1>1, <1>6 DEF Tape
<1>8. /\ cursor \in Nat /\ cursor <= n
      /\ \A i \in 1 .. n : out[i].kind = "model.response" => i <= cursor
  BY <1>t DEF InStep, Tape
<1>9. n + 1 \in Remaining
  BY <1>7, <1>8 DEF Remaining
<1>10. ASSUME NEW at \in Tape, Least(at)  PROVE at = n + 1
  <2>1. at \in 1 .. Len(rec) /\ rec[at].kind = "model.response" /\ at > cursor /\ at <= n + 1
    BY <1>9, <1>10 DEF Least, Remaining, Tape
  <2>2. CASE at <= n
    <3>1. at \in 1 .. n
      BY <2>1, <2>2
    <3>2. out[at].kind = "model.response"
      BY <1>2, <2>1, <3>1
    <3> QED
      BY <1>8, <2>1, <3>1, <3>2
  <2> QED
    BY <2>1, <2>2
<1>11. Matches(n + 1)
  <2>1. Questions(n + 1) = {n + 1 - 1}
    BY <1>7, RecordedQuestion
  <2> QED
    BY <1>4, <1>5, <2>1 DEF Matches
<1> QED
  BY <1>9, <1>10, <1>11

\* The recording has the same call next.
LEMMA AheadCalls ==
  ASSUME Typed, LoopAtEvents, Ends, Whole, InStep, Undisturbed,
         Stream(rec, recorded, 0), pc = "call"
  PROVE  rec[Len(out) + 1] = Asked
<1>t. /\ out \in Seq(Event) /\ reply \in Replies /\ step \in Nat /\ call \in Nat
      /\ call \in 1 .. Len(reply.calls) /\ Len(reply.calls) \in Nat
  BY ReplyFields DEF Typed, TypeOK
<1> PICK n \in Nat : Len(out) = n
  BY <1>t
<1>1. /\ Valid(reply) /\ n >= 3
      /\ StandsAt(out, reply, n - 2 * (call - 1))
      /\ call = 1 => step = StepAt(out, n - 1)
      /\ call > 1 => /\ out[n].kind = "tool.result"
                     /\ out[n].body[1] = step
                     /\ out[n].body[2] = call - 1
  BY DEF LoopAtEvents
<1>2. \A i \in 1 .. n : rec[i] = out[i]
  BY Ahead DEF Grown
<1>3. Follows(rec, n + 1, recorded, 0)
  BY AheadIsRight
<1> PICK q \in Nat : q = n + 1
  OBVIOUS
<1>4. q > 1 /\ q - 1 = n /\ q - 2 = n - 1 /\ rec[n] = out[n] /\ Follows(rec, q, recorded, 0)
  BY <1>1, <1>2, <1>3
<1>5. CASE call = 1
  <2>1. out[n] = Emit("model.response", reply)
    BY <1>1, <1>5 DEF StandsAt
  <2>2. rec[n].kind = "model.response" /\ rec[n].body = reply
    BY <1>4, <2>1, EmitFields
  <2>3. reply.calls # <<>>
    BY <1>t, <1>5
  <2>4. StepAt(rec, n - 1) = StepAt(out, n - 1)
    <3>1. n - 1 = 2 \/ (n - 1 - 1 \in 1 .. n)
      BY <1>1
    <3> QED
      BY <1>2, <3>1 DEF StepAt
  <2>5. AfterResponse(rec, q)
    BY <1>4, <2>2 DEF Follows
  <2>6. rec[q] = Emit("tool.call", <<StepAt(rec, n - 1), 1, reply.calls[1]>>)
    BY <1>1, <1>4, <2>2, <2>3, <2>5 DEF AfterResponse
  <2> QED
    BY <1>1, <1>5, <2>4, <2>6 DEF Asked
<1>6. CASE call > 1
  <2> PICK c \in Nat : c = call - 1
    BY <1>t, <1>6
  <2> PICK at : at = n - 2 * c
    OBVIOUS
  <2>1. at \in 1 .. n /\ out[at] = Emit("model.response", reply)
    BY <1>1 DEF StandsAt
  <2>2. rec[at].body = reply
    BY <1>2, <2>1, EmitFields
  <2>3. /\ rec[q - 1].kind = "tool.result" /\ rec[q - 1].body[1] = step
        /\ rec[q - 1].body[2] = c
    BY <1>1, <1>4, <1>6
  <2>4. AfterResult(rec, q)
    BY <1>4, <2>3 DEF Follows
  <2>5. q - 1 - 2 * c = at /\ c < Len(reply.calls) /\ c + 1 = call
    BY <1>t, <1>4
  <2>6. rec[q] = Emit("tool.call", <<step, c + 1, reply.calls[c + 1]>>)
    BY <2>2, <2>3, <2>4, <2>5 DEF AfterResult
  <2> QED
    BY <2>5, <2>6 DEF Asked
<1> QED
  BY <1>t, <1>5, <1>6

\* What the call at hand is answered, and how, is in the recording too.
LEMMA AheadIsAnswered ==
  ASSUME Typed, LoopAtEvents, Ends, Whole, InStep, Undisturbed,
         Stream(rec, recorded, 0), pc = "call"
  PROVE  /\ Len(out) + 2 \in 1 .. Len(rec)
         /\ rec[Len(out) + 2] =
              Emit("tool.result", <<step, call, Content(reply.calls[call])>>)
<1>t. out \in Seq(Event) /\ rec \in Seq(Event)
  BY DEF Typed
<1> PICK n \in Nat : Len(out) = n
  BY <1>t
<1> PICK len \in Nat : Len(rec) = len
  BY <1>t
<1>1. /\ rec[n + 1] = Asked /\ len > n /\ Grown(out, rec, len - n) /\ ~Has(rec, "error")
      /\ rec[n + 1] # End /\ From = 0
  BY AheadCalls, Ahead, EmitFields DEF Asked, End
<1>2. /\ rec[n + 1].kind = "tool.call"
      /\ rec[n + 1].body[1] = step /\ rec[n + 1].body[2] = call
  BY <1>1, EmitFields DEF Asked
<1>3. rec[len] = End
  <2>1. PICK i \in 1 .. Len(rec) : rec[i] = End
    BY DEF Undisturbed
  <2> QED
    BY <2>1 DEF Whole
<1>4. n + 2 \in 1 .. len
  BY <1>1, <1>3
<1>5. Follows(rec, n + 2, recorded, 0)
  BY <1>4 DEF Stream
<1>6. n + 2 - 1 = n + 1 /\ n + 2 > 1
  OBVIOUS
<1>7. AfterCall(rec, n + 2, recorded, 0)
  BY <1>2, <1>5, <1>6 DEF Follows
<1>8. rec[n + 2].kind # "error"
  BY <1>1, <1>4 DEF Has
<1>9. rec[n + 2] = Emit("tool.result", <<step, call, AnswerTo(rec, n + 1, recorded, 0)>>)
  BY <1>2, <1>6, <1>7, <1>8 DEF AfterCall
<1>10. AnswerTo(rec, n + 1, recorded, 0) = AnswerTo(rec, n + 1, settings, From)
  BY <1>1 DEF AnswerTo, Undisturbed
<1>11. AnswerTo(rec, n + 1, settings, From) = Content(reply.calls[call])
  <2>1. len - n \in Nat \ {0}
    BY <1>1
  <2> QED
    BY <1>1, <2>1, AnswerIsContent
<1> QED
  BY <1>4, <1>9, <1>10, <1>11

\* The response being served is followed, in the recording, by what the loop makes
\* of it.
LEMMA AheadTaken ==
  ASSUME Typed, LoopAtEvents, Ends, Whole, InStep, Undisturbed,
         Stream(rec, recorded, 0), pc = "wait", NEW r, FromTape(r)
  PROVE  /\ rec[Len(out) + 1] = Emit("model.response", r)
         /\ cursor' = Len(out) + 1
         /\ Valid(r)
         /\ r.calls = <<>> => Len(out) + 2 \in 1 .. Len(rec) /\ rec[Len(out) + 2] = End
<1>t. out \in Seq(Event) /\ rec \in Seq(Event)
  BY DEF Typed
<1> PICK n \in Nat : Len(out) = n
  BY <1>t
<1> PICK len \in Nat : Len(rec) = len
  BY <1>t
<1>1. PICK at \in Tape : Least(at) /\ cursor' = at /\ r = rec[at].body
  BY DEF FromTape, Undisturbed
<1>2. at = n + 1
  BY <1>1, AheadResponds
<1>3. rec[n + 1] = Emit("model.response", r)
  BY <1>1, <1>2, RecordedQuestion
<1>4. rec[n + 1].kind = "model.response" /\ rec[n + 1].body = r /\ rec[n + 1] # End
  BY <1>3, EmitFields DEF End
<1>5. len > n /\ ~Has(rec, "error")
  BY Ahead
<1>6. rec[len] = End
  <2>1. PICK i \in 1 .. Len(rec) : rec[i] = End
    BY DEF Undisturbed
  <2> QED
    BY <2>1 DEF Whole
<1>7. n + 2 \in 1 .. len
  BY <1>4, <1>5, <1>6
<1>8. Follows(rec, n + 2, recorded, 0) /\ rec[n + 2].kind # "error"
  BY <1>5, <1>7 DEF Stream, Has
<1>9. n + 2 - 1 = n + 1 /\ n + 2 > 1
  OBVIOUS
<1>10. AfterResponse(rec, n + 2)
  BY <1>4, <1>8, <1>9 DEF Follows
<1>11. Valid(r) /\ (r.calls = <<>> => rec[n + 2] = End)
  BY <1>4, <1>8, <1>9, <1>10 DEF AfterResponse
<1> QED
  BY <1>1, <1>2, <1>3, <1>7, <1>11

LEMMA LoopInStep ==
  ASSUME Typed, Modes, LoopAtEvents, Ends, Whole, InStep, LoopSteps,
         Stream(out, settings, From), Stream(rec, recorded, 0)
  PROVE  InStep'
<1> SUFFICES ASSUME Undisturbed'
             PROVE  /\ ~failed'
                    /\ Len(out') <= Len(rec')
                    /\ \A i \in 1 .. Len(out') : out'[i] = rec'[i]
                    /\ cursor' <= Len(out')
                    /\ \A i \in 1 .. Len(out') :
                         out'[i].kind = "model.response" => i <= cursor'
  BY DEF InStep
<1>k. UNCHANGED <<mode, settings, recorded, rec, changed>>
  BY LoopKeeps DEF Kept, historyVars
<1>f. ~ToolFails /\ ~ProviderFails
  BY <1>k DEF ToolFails, ProviderFails, Undisturbed
<1>u. Undisturbed
  <2>1. faulted' = faulted
    BY <1>f DEF LoopSteps, Starts, Asks, NoResponse, Serves, Useless, Answers, Calls
  <2> QED
    BY <1>k, <2>1 DEF Undisturbed
<1>t. /\ out \in Seq(Event) /\ rec \in Seq(Event) /\ cursor \in Nat
  BY DEF Typed, TypeOK, Tape
<1> PICK n \in Nat : Len(out) = n
  BY <1>t
<1> PICK len \in Nat : Len(rec) = len
  BY <1>t
<1>i. /\ ~failed /\ n <= len /\ \A i \in 1 .. n : out[i] = rec[i]
      /\ cursor <= n /\ \A i \in 1 .. n : out[i].kind = "model.response" => i <= cursor
  BY <1>u DEF InStep
<1>p. pc # "return" /\ len > n
  <2>1. pc # "return"
    BY DEF LoopSteps, Starts, Asks, NoResponse, ProviderFails, ToolFails, Serves,
           Useless, Answers, Calls
  <2> QED
    BY <1>u, <2>1, Ahead
\* It is enough that the new events are the recorded ones, and the tape moves along.
<1>g. ASSUME NEW k \in Nat, Grown(out, out', k), n + k <= len, ~failed',
             cursor' \in Nat, cursor <= cursor', cursor' <= n + k,
             \A i \in n + 1 .. n + k :
               out'[i] = rec[i] /\ (out'[i].kind = "model.response" => i <= cursor')
      PROVE  /\ ~failed'
             /\ Len(out') <= Len(rec')
             /\ \A i \in 1 .. Len(out') : out'[i] = rec'[i]
             /\ cursor' <= Len(out')
             /\ \A i \in 1 .. Len(out') : out'[i].kind = "model.response" => i <= cursor'
  <2>1. Len(out') = n + k /\ \A i \in 1 .. n : out'[i] = out[i]
    BY <1>g DEF Grown
  <2>2. ASSUME NEW i \in 1 .. n + k
        PROVE  out'[i] = rec[i] /\ (out'[i].kind = "model.response" => i <= cursor')
    <3>1. CASE i \in 1 .. n
      BY <1>g, <1>i, <1>t, <2>1, <3>1
    <3>2. CASE i \in n + 1 .. n + k
      BY <1>g, <3>2
    <3> QED
      BY <3>1, <3>2
  <2> QED
    BY <1>g, <1>k, <2>1, <2>2
<1>1. CASE Starts
  <2>1. n = 0
    BY <1>1 DEF LoopAtEvents, Starts
  <2>2. /\ Grown(out, out', 1) /\ out'[1] = Emit("turn.start", settings.delegate)
        /\ cursor' = cursor /\ failed' = failed
    BY <1>1 DEF Starts
  <2>3. Follows(rec, 1, recorded, 0)
    BY <1>u, <1>p, <2>1, AheadIsRight
  <2>4. out'[1] = rec[1] /\ out'[1].kind # "model.response"
    BY <1>u, <2>2, <2>3, EmitFields DEF Follows, Undisturbed
  <2> QED
    BY <1>g, <1>i, <1>p, <1>t, <2>1, <2>2, <2>4
<1>2. CASE Asks
  <2>1. /\ pc = "ask" /\ Grown(out, out', 1)
        /\ out'[n + 1] = Emit("model.request", Request)
        /\ cursor' = cursor /\ failed' = failed
    BY <1>2 DEF Asks
  <2>2. out'[n + 1] = rec[n + 1] /\ out'[n + 1].kind # "model.response"
    BY <1>u, <2>1, AheadAsks, EmitFields
  <2> QED
    BY <1>g, <1>i, <1>p, <1>t, <2>1, <2>2
<1>3. CASE Serves
  <2>1. /\ pc = "call" /\ Grown(out, out', 2) /\ out'[n + 1] = Asked
        /\ out'[n + 2] = Emit("tool.result", <<step, call, Content(reply.calls[call])>>)
        /\ cursor' = cursor /\ failed' = failed
    BY <1>3 DEF Serves
  <2>2. out'[n + 1] = rec[n + 1] /\ out'[n + 1].kind # "model.response"
    BY <1>u, <2>1, AheadCalls, EmitFields DEF Asked
  <2>3. n + 2 <= len /\ out'[n + 2] = rec[n + 2] /\ out'[n + 2].kind # "model.response"
    BY <1>u, <2>1, AheadIsAnswered, EmitFields
  <2>4. \A i \in n + 1 .. n + 2 : i = n + 1 \/ i = n + 2
    OBVIOUS
  <2>5. \A i \in n + 1 .. n + 2 : out'[i] = rec[i] /\ out'[i].kind # "model.response"
    BY <2>2, <2>3, <2>4
  <2>6. cursor' \in Nat /\ cursor <= cursor' /\ cursor' <= n + 2 /\ ~failed' /\ 2 \in Nat
    BY <1>i, <1>t, <2>1
  <2> QED
    BY <1>g, <2>1, <2>3, <2>5, <2>6
<1>4. ASSUME NEW r, pc = "wait", FromTape(r)
      PROVE  /\ rec[n + 1] = Emit("model.response", r)
             /\ cursor' = n + 1
             /\ Valid(r)
             /\ r.calls = <<>> => n + 2 \in 1 .. len /\ rec[n + 2] = End
  BY <1>4, <1>u, AheadTaken
<1>5. ASSUME NEW r, Answers(r)
      PROVE  n + 2 <= len /\ cursor' = n + 1 /\ ~failed'
             /\ Grown(out, out', 2)
             /\ out'[n + 1] = rec[n + 1] /\ out'[n + 2] = rec[n + 2]
             /\ out'[n + 2].kind # "model.response"
  BY <1>4, <1>5, <1>i, EmitFields DEF Answers, End
<1>6. ASSUME NEW r, Answers(r)
      PROVE  /\ ~failed'
             /\ Len(out') <= Len(rec')
             /\ \A i \in 1 .. Len(out') : out'[i] = rec'[i]
             /\ cursor' <= Len(out')
             /\ \A i \in 1 .. Len(out') : out'[i].kind = "model.response" => i <= cursor'
  <2>1. \A i \in n + 1 .. n + 2 : i = n + 1 \/ i = n + 2
    OBVIOUS
  <2> QED
    BY <1>5, <1>6, <1>g, <1>i, <1>t, <2>1, SMTT(30)
<1>7. ASSUME NEW r, Calls(r)
      PROVE  /\ ~failed'
             /\ Len(out') <= Len(rec')
             /\ \A i \in 1 .. Len(out') : out'[i] = rec'[i]
             /\ cursor' <= Len(out')
             /\ \A i \in 1 .. Len(out') : out'[i].kind = "model.response" => i <= cursor'
  <2>1. /\ pc = "wait" /\ FromTape(r) /\ Grown(out, out', 1) /\ failed' = failed
        /\ out'[n + 1] = Emit("model.response", r)
    BY <1>7 DEF Calls
  <2>2. out'[n + 1] = rec[n + 1] /\ cursor' = n + 1
    BY <1>4, <2>1
  <2> QED
    BY <1>g, <1>i, <1>p, <1>t, <2>1, <2>2
<1>8. ASSUME NEW r, Useless(r)  PROVE FALSE
  BY <1>4, <1>8 DEF Useless
<1>9. ASSUME NoResponse  PROVE FALSE
  <2>1. ASSUME pc = "ask", step > settings.maxSteps  PROVE FALSE
    <3>1. step <= settings.maxSteps /\ step \in Nat /\ settings.maxSteps \in Nat
      BY <1>u, <2>1, AheadAsks DEF Typed, TypeOK, Settings
    <3> QED
      BY <2>1, <3>1
  <2>2. ASSUME pc = "wait"
        PROVE  Remaining # {} /\ \A at \in Tape : Least(at) => Matches(at)
    BY <1>u, <2>2, AheadResponds
  <2> QED
    BY <1>9, <2>1, <2>2 DEF NoResponse
<1> QED
  BY <1>1, <1>2, <1>3, <1>6, <1>7, <1>8, <1>9, <1>f DEF LoopSteps

-----------------------------------------------------------------------------
(* The steps that are none of the loop's, and the initial states.          *)

Inert == [calls |-> <<>>, text |-> FALSE]

LEMMA InertIsAReply ==
  Inert \in Replies
<1>1. <<>> \in [1 .. 0 -> Names] /\ 0 \in 0 .. MaxCalls
  BY ReplayAssumption
<1> QED
  BY <1>1 DEF Inert, Replies

LEMMA ReplaySettingsTyped ==
  ASSUME NEW f \in Fronts, NEW s \in Settings
  PROVE  ReplaySettings(f, s) \in Settings
  BY ReplayAssumption DEF ReplaySettings, Settings

LEMMA InitInv ==
  ASSUME Init
  PROVE  ReplayInv
<1>1. settings \in Settings
  <2>1. front \in {"cli", "library"} /\ settings \in RunSettings(front)
    BY ReplayAssumption DEF Init
  <2>2. \A n \in RunSteps : n \in Nat
    BY ReplayAssumption
  <2> QED
    BY <2>1, <2>2 DEF RunSettings, Settings
<1>2. <<>> \in Seq(Event) /\ <<>> \in Seq(Message)
  OBVIOUS
<1>3. Typed
  <2>1. reply \in Replies
    BY InertIsAReply DEF Init, Inert
  <2>2. call \in 1 .. MaxCalls + 1 /\ pc # "call"
    BY ReplayAssumption DEF Init
  <2>3. /\ mode = "record" /\ front \in Fronts /\ recorded = settings /\ pc = "start"
        /\ step = 1 /\ messages = <<>> /\ out = <<>> /\ rec = <<>> /\ failed = FALSE
        /\ files = 0 /\ changed = FALSE /\ faulted = FALSE /\ cursor = 0 /\ verdict = "none"
    BY DEF Init
  <2> QED
    BY <1>1, <1>2, <2>1, <2>2, <2>3 DEF Typed, TypeOK
<1>4. Modes
  BY DEF Init, Modes
<1>5. LoopAtEvents
  BY DEF Init, LoopAtEvents, WroteBefore, From
<1>6. Ends /\ Whole
  BY DEF Init, Ends, Whole, Has
<1>7. Stream(out, settings, From) /\ Stream(rec, recorded, 0)
  BY DEF Init, Stream
<1>8. ServesOnlyItsOwnQuestion /\ InStep
  BY DEF Init, ServesOnlyItsOwnQuestion, InStep, Undisturbed
<1> QED
  BY <1>3, <1>4, <1>5, <1>6, <1>7, <1>8 DEF ReplayInv

\* The recording is a prefix of what was journaled.
LEMMA RecordingIsCut ==
  ASSUME ReplayInv, BeginReplay
  PROVE  /\ rec' \in Seq(Event) /\ Len(rec') <= Len(out)
         /\ \A i \in 1 .. Len(rec') : rec'[i] = out[i]
         /\ Stream(rec', recorded', 0)
<1>1. /\ out \in Seq(Event) /\ Stream(out, settings, 0) /\ recorded' = settings
  BY DEF ReplayInv, Typed, Modes, BeginReplay, From
<1>2. CASE rec' = out
  BY <1>1, <1>2
<1>3. ASSUME NEW n \in 0 .. Len(out), rec' = SubSeq(out, 1, n)
      PROVE  /\ rec' \in Seq(Event) /\ Len(rec') <= Len(out)
             /\ \A i \in 1 .. Len(rec') : rec'[i] = out[i]
             /\ Stream(rec', recorded', 0)
  <2>1. /\ rec' \in Seq(Event) /\ Len(rec') = n
        /\ \A i \in 1 .. n : rec'[i] = out[i]
        /\ Stream(rec', settings, 0)
    BY <1>1, <1>3, StreamIsCut
  <2> QED
    BY <1>1, <2>1
<1> QED
  BY <1>2, <1>3 DEF BeginReplay

LEMMA BeginReplayInv ==
  ASSUME ReplayInv, BeginReplay
  PROVE  ReplayInv'
<1>t. /\ out \in Seq(Event) /\ settings \in Settings /\ front \in Fronts
      /\ faulted = FALSE /\ cursor = 0 /\ verdict = "none"
  BY DEF ReplayInv, Typed, TypeOK, Modes, BeginReplay
<1>1. /\ rec' \in Seq(Event) /\ Len(rec') <= Len(out) /\ Len(rec') \in Nat
      /\ \A i \in 1 .. Len(rec') : rec'[i] = out[i]
      /\ Stream(rec', recorded', 0)
  BY RecordingIsCut
<1>2. /\ recorded' = settings /\ settings' = ReplaySettings(front, settings)
      /\ files' \in {0, 1} /\ changed' = (files' # 0) /\ mode' = "replay"
      /\ pc' = "start" /\ step' = 1 /\ reply' = Inert /\ call' = 1
      /\ messages' = <<>> /\ out' = <<>> /\ failed' = FALSE
      /\ verdict' = (IF Replayable' THEN "none" ELSE "refused")
      /\ front' = front /\ faulted' = FALSE /\ cursor' = 0
  BY <1>t DEF BeginReplay, Inert
<1>3. changed' \in BOOLEAN /\ (~changed' => files' = 0) /\ (changed' => files' = 1)
  BY <1>2
<1>4. Typed'
  <2>1. settings' \in Settings
    BY <1>t, <1>2, ReplaySettingsTyped
  <2>2. reply' \in Replies /\ call' \in 1 .. MaxCalls + 1
    BY <1>2, InertIsAReply, ReplayAssumption
  <2>3. <<>> \in Seq(Event) /\ <<>> \in Seq(Message)
    OBVIOUS
  <2>4. verdict' \in {"none", "refused", "diverged", "ok"}
    BY <1>2
  <2>5. cursor' \in Tape' \cup {0}
    BY <1>2
  <2>6. {failed', changed', faulted'} \subseteq BOOLEAN
    BY <1>2, <1>3
  <2> QED
    BY <1>t, <1>1, <1>2, <2>1, <2>2, <2>3, <2>4, <2>5, <2>6 DEF Typed, TypeOK
<1>5. Modes'
  BY <1>2 DEF Modes
<1>6. LoopAtEvents'
  <2>1. Len(out') = 0 /\ ~WroteBefore(out', Len(out') + 1)
    BY <1>2 DEF WroteBefore
  <2>2. From' = files'
    BY <1>2, <1>3 DEF From
  <2> QED
    BY <1>2, <2>1, <2>2 DEF LoopAtEvents
<1>7. Ends'
  BY <1>2 DEF Ends, Has
<1>8. Whole'
  <2> SUFFICES ASSUME NEW i \in 1 .. Len(rec'), rec'[i] = End
               PROVE  i = Len(rec') /\ ~Has(rec', "error")
    BY DEF Whole
  <2>1. i \in 1 .. Len(out) /\ out[i] = End /\ out[i].kind = "turn.end"
    BY <1>1, <1>t, EmitFields DEF End
  <2>2. pc = "return" /\ ~failed /\ ~Has(out, "error")
    BY <2>1 DEF ReplayInv, Ends, Has
  <2>3. i = Len(out)
    <3>1. ASSUME i < Len(out)  PROVE FALSE
      <4>1. i + 1 \in 1 .. Len(out) /\ i + 1 > 1 /\ i + 1 - 1 = i
        BY <1>t, <2>1, <3>1
      <4>2. Follows(out, i + 1, settings, From)
        BY <4>1 DEF ReplayInv, Stream
      <4> QED
        BY <2>1, <4>1, <4>2 DEF Follows
    <3> QED
      BY <1>t, <2>1, <3>1
  <2>4. i = Len(rec')
    BY <1>t, <1>1, <2>3
  <2>5. ~Has(rec', "error")
    BY <1>t, <1>1, <2>2, <2>3, <2>4 DEF Has
  <2> QED
    BY <2>4, <2>5
<1>9. Stream(out', settings', From')
  BY <1>2 DEF Stream
<1>10. ServesOnlyItsOwnQuestion'
  BY <1>2 DEF ServesOnlyItsOwnQuestion
<1>11. InStep'
  BY <1>1, <1>2 DEF InStep
<1> QED
  BY <1>1, <1>4, <1>5, <1>6, <1>7, <1>8, <1>9, <1>10, <1>11 DEF ReplayInv

LEMMA ConcludeInv ==
  ASSUME ReplayInv, Conclude
  PROVE  ReplayInv'
<1>1. /\ mode = "replay" /\ pc = "return" /\ verdict = "none"
      /\ verdict' = (IF ~failed /\ Verified THEN "ok" ELSE "diverged")
      /\ UNCHANGED <<loopVars, historyVars, mode, settings, files, faulted, cursor>>
  BY DEF Conclude
<1>2. UNCHANGED <<pc, step, reply, call, messages, out, failed, front, rec, recorded, changed>>
  BY <1>1 DEF loopVars, historyVars
<1>3. Verified' <=> Verified
  BY <1>2 DEF Verified, SameEvent
<1>4. Typed'
  <2>1. verdict' \in {"none", "refused", "diverged", "ok"}
    BY <1>1
  <2>2. Tape' = Tape
    BY <1>2 DEF Tape
  <2> QED
    BY <1>1, <1>2, <2>1, <2>2 DEF ReplayInv, Typed, TypeOK
<1>5. Modes'
  BY <1>1, <1>2, <1>3 DEF ReplayInv, Modes
<1>6. LoopAtEvents'
  <2>1. Request' = Request /\ From' = From
    BY <1>1, <1>2 DEF Request, From
  <2> QED
    BY <1>1, <1>2 DEF LoopAtEvents
<1>7. Ends' /\ Whole'
  BY <1>2 DEF ReplayInv, Ends, Whole
<1>8. Stream(out', settings', From') /\ Stream(rec', recorded', 0)
  BY <1>1, <1>2 DEF ReplayInv, From
<1>9. ServesOnlyItsOwnQuestion'
  BY <1>1, <1>2 DEF ReplayInv, ServesOnlyItsOwnQuestion
<1>10. InStep'
  BY <1>1, <1>2 DEF ReplayInv, InStep, Undisturbed
<1> QED
  BY <1>4, <1>5, <1>6, <1>7, <1>8, <1>9, <1>10 DEF ReplayInv

LEMMA LoopInv ==
  ASSUME ReplayInv, LoopSteps
  PROVE  ReplayInv'
<1>1. /\ Typed /\ Modes /\ LoopAtEvents /\ Ends /\ Whole
      /\ Stream(out, settings, From) /\ Stream(rec, recorded, 0)
      /\ ServesOnlyItsOwnQuestion /\ InStep
  BY DEF ReplayInv
<1>2. UNCHANGED <<settings, recorded, rec, changed>>
  BY LoopKeeps DEF Kept, historyVars
<1>3. Typed' /\ Modes'
  BY <1>1, LoopTyped, LoopModes
<1>4. LoopAtEvents' /\ Ends'
  BY <1>1, LoopStaysAtEvents, LoopEnds
<1>5. Whole' /\ Stream(rec', recorded', 0)
  BY <1>1, <1>2 DEF Whole
<1>6. Stream(out', settings', From')
  <2>1. From' = From
    BY <1>2 DEF From
  <2> QED
    BY <1>1, <1>2, <2>1, LoopStream
<1>7. ServesOnlyItsOwnQuestion' /\ InStep'
  BY <1>1, LoopServes, LoopInStep
<1> QED
  BY <1>3, <1>4, <1>5, <1>6, <1>7 DEF ReplayInv

LEMMA StutterInv ==
  ASSUME ReplayInv, UNCHANGED vars
  PROVE  ReplayInv'
<1>1. UNCHANGED <<pc, step, reply, call, messages, out, failed, front, rec, recorded,
                  changed, mode, settings, files, faulted, cursor, verdict>>
  BY DEF vars, loopVars, historyVars
<1>2. Typed'
  BY <1>1 DEF ReplayInv, Typed, TypeOK, Tape
<1>3. Modes'
  BY <1>1 DEF ReplayInv, Modes, Replayable, Tape, Verified, SameEvent
<1>4. LoopAtEvents'
  BY <1>1 DEF ReplayInv, LoopAtEvents, Request, From
<1>5. /\ Ends' /\ Whole' /\ Stream(out', settings', From') /\ Stream(rec', recorded', 0)
  BY <1>1 DEF ReplayInv, Ends, Whole, From
<1>6. ServesOnlyItsOwnQuestion' /\ InStep'
  BY <1>1 DEF ReplayInv, ServesOnlyItsOwnQuestion, InStep, Undisturbed
<1> QED
  BY <1>2, <1>3, <1>4, <1>5, <1>6 DEF ReplayInv

LEMMA AlwaysReplayInv ==
  Spec => []ReplayInv
<1>1. ReplayInv /\ [Next]_vars => ReplayInv'
  <2> SUFFICES ASSUME ReplayInv, [Next]_vars  PROVE ReplayInv'
    OBVIOUS
  <2>1. CASE Next
    <3>1. LoopSteps \/ BeginReplay \/ Conclude
      BY <2>1, StepShapes DEF ReplayInv
    <3> QED
      BY <3>1, LoopInv, BeginReplayInv, ConcludeInv
  <2>2. CASE UNCHANGED vars
    BY <2>2, StutterInv
  <2> QED
    BY <2>1, <2>2
<1> QED
  BY <1>1, InitInv, PTL DEF Spec

-----------------------------------------------------------------------------
(* The theorems.                                                           *)

\* The recorder, the player and the cassette stay within their types; the cassette's
\* cursor is at a response it has served, or at the start (replay.go: Cassette.Next).
THEOREM ReplayTypesHold == Spec => []TypeOK
<1>1. ReplayInv => TypeOK
  BY DEF ReplayInv, Typed
<1> QED
  BY <1>1, AlwaysReplayInv, PTL

\* Strict replay serves a response only where the recording has it, after the request
\* it answered and with nothing before it left out (record.go: Replay).
THEOREM OwnQuestionsOnly == Spec => []ServesOnlyItsOwnQuestion
<1>1. ReplayInv => ServesOnlyItsOwnQuestion
  BY DEF ReplayInv
<1> QED
  BY <1>1, AlwaysReplayInv, PTL

\* A turn that finished replays to its own events, whatever the model said in it, as
\* long as settings, workspace and tools are those of the recording: what the loop
\* journals is settled by the responses (agent.go: Run; replay.go: Cassette).
THEOREM FinishedTurnsDoReplay == Spec => []FinishedTurnsReplay
<1>1. ReplayInv => FinishedTurnsReplay
  <2> SUFFICES ASSUME ReplayInv,
                      verdict \in {"refused", "diverged"},
                      NEW i \in 1 .. Len(rec),
                      rec[i].kind = "turn.end", rec[i].body = "end",
                      settings.maxTokens = recorded.maxTokens,
                      settings.delegate = recorded.delegate,
                      settings.maxSteps >= recorded.maxSteps,
                      ~changed, ~faulted
               PROVE  FALSE
    BY DEF FinishedTurnsReplay
  <2>1. mode = "replay" /\ out \in Seq(Event) /\ rec \in Seq(Event)
    BY DEF ReplayInv, Modes, Typed, TypeOK
  <2>2. rec[i] = End
    BY <2>1, EventFields DEF End
  <2>3. Undisturbed
    BY <2>1, <2>2 DEF Undisturbed
  <2>4. /\ ~failed /\ Len(out) <= Len(rec)
        /\ \A j \in 1 .. Len(out) : out[j] = rec[j]
    BY <2>3 DEF ReplayInv, InStep
  <2>5. CASE verdict = "refused"
    <3>1. i > 1 /\ rec[i - 1].kind = "model.response"
      BY <2>2 DEF ReplayInv, Stream, Follows
    <3>2. 1 \in 1 .. Len(rec) /\ i - 1 \in 1 .. Len(rec)
      BY <2>1, <3>1
    <3>3. rec[1].kind = "turn.start"
      BY <3>2, EmitFields DEF ReplayInv, Stream, Follows
    <3>4. Replayable
      BY <3>1, <3>2, <3>3 DEF Replayable, Tape
    <3> QED
      BY <2>5, <3>4 DEF ReplayInv, Modes
  <2>6. CASE verdict = "diverged"
    <3>1. pc = "return" /\ ~Verified
      BY <2>4, <2>6 DEF ReplayInv, Modes
    <3>2. out # <<>> /\ out[Len(out)] = End
      BY <2>4, <3>1 DEF ReplayInv, Ends
    <3>3. Len(out) \in 1 .. Len(out) /\ Len(out) \in 1 .. Len(rec)
      BY <2>1, <2>4, <3>2
    <3>4. Len(out) = Len(rec)
      BY <2>4, <3>2, <3>3 DEF ReplayInv, Whole
    <3> QED
      BY <2>4, <3>1, <3>4 DEF Verified, SameEvent
  <2> QED
    BY <2>5, <2>6
<1> QED
  BY <1>1, AlwaysReplayInv, PTL

\* Only a turn that ran to its end, and in which nothing failed, is ever called
\* reproducible (replay.go: Verify).
THEOREM VerifiedTurnsAreWhole == Spec => []OnlyWholeTurnsVerify
<1>1. ReplayInv => OnlyWholeTurnsVerify
  <2> SUFFICES ASSUME ReplayInv, verdict = "ok"
               PROVE  /\ rec[Len(rec)].kind = "turn.end"
                      /\ \A i \in 1 .. Len(rec) : rec[i].kind # "error"
    BY DEF OnlyWholeTurnsVerify
  <2>1. pc = "return" /\ ~failed /\ Verified /\ out \in Seq(Event)
    BY DEF ReplayInv, Modes, Typed
  <2>2. out # <<>> /\ out[Len(out)] = End /\ ~Has(out, "error")
    BY <2>1 DEF ReplayInv, Ends
  <2>3. /\ Len(out) = Len(rec)
        /\ \A i \in 1 .. Len(rec) : rec[i].kind = out[i].kind
    BY <2>1 DEF Verified, SameEvent
  <2>4. Len(rec) \in 1 .. Len(rec)
    BY <2>1, <2>2, <2>3
  <2> QED
    BY <2>2, <2>3, <2>4, EmitFields DEF End, Has
<1> QED
  BY <1>1, AlwaysReplayInv, PTL

\* A turn is not called reproducible in a workspace that has changed, if it read
\* before it wrote: what the tools answer is compared too (replay.go: Verify).
THEOREM ChangesAreSeen == Spec => []ChangedWorkspaceIsSeen
<1>1. ReplayInv => ChangedWorkspaceIsSeen
  <2> SUFFICES ASSUME ReplayInv, verdict = "ok", changed,
                      NEW i \in 1 .. Len(rec),
                      rec[i].kind = "tool.call", rec[i].body[3] = "read"
               PROVE  WroteBefore(rec, i)
    BY DEF ChangedWorkspaceIsSeen, WroteBefore
  <2>1. pc = "return" /\ ~failed /\ Verified /\ out \in Seq(Event)
    BY DEF ReplayInv, Modes, Typed
  <2>2. out # <<>> /\ out[Len(out)] = End /\ ~Has(out, "error")
    BY <2>1 DEF ReplayInv, Ends
  <2>3. /\ Len(out) = Len(rec)
        /\ \A k \in 1 .. Len(rec) : rec[k].kind = out[k].kind /\ rec[k].body = out[k].body
    BY <2>1 DEF Verified, SameEvent
  <2>4. i # Len(rec)
    BY <2>2, <2>3, EmitFields DEF End
  <2>5. i + 1 \in 1 .. Len(rec) /\ i + 1 > 1 /\ i + 1 - 1 = i
    BY <2>1, <2>3, <2>4
  <2>6. rec[i + 1].kind # "error" /\ out[i + 1].kind # "error"
    BY <2>2, <2>3, <2>5 DEF Has
  <2>7. Follows(rec, i + 1, recorded, 0) /\ Follows(out, i + 1, settings, From)
    BY <2>3, <2>5 DEF ReplayInv, Stream
  <2>8. AfterCall(rec, i + 1, recorded, 0) /\ AfterCall(out, i + 1, settings, From)
    BY <2>3, <2>5, <2>7 DEF Follows
  <2>9. /\ rec[i + 1].body[3] = AnswerTo(rec, i, recorded, 0)
        /\ out[i + 1].body[3] = AnswerTo(out, i, settings, From)
    BY <2>5, <2>6, <2>8, EmitFields DEF AfterCall
  <2>10. AnswerTo(out, i, settings, From) = 1
    BY <2>3 DEF AnswerTo, From
  <2>11. AnswerTo(rec, i, recorded, 0) = 1
    BY <2>3, <2>5, <2>9, <2>10
  <2> QED
    BY <2>11 DEF AnswerTo
<1> QED
  BY <1>1, AlwaysReplayInv, PTL
=============================================================================
