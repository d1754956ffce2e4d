------------------------------- MODULE HttpTurns -------------------------------
(***************************************************************************)
(* internal/httpapi and `nemuz serve': a completion request passes the key *)
(* check, the rate limiter and the semaphore, runs a turn, and is counted  *)
(* on its way out; the server is shut down while requests are in flight.   *)
(* Time is counted in units of which a rate window has RateWindow.         *)
(***************************************************************************)
EXTENDS Integers, FiniteSets

CONSTANTS
  MaxRequests,         \* Bound: requests, numbered as they arrive
  Clients,             \* clientIdentity: an address with a token
  MaxConcurrentTurns,
  RateLimit,
  RateWindow,
  MaxTime              \* Bound: of the clock

ASSUME LimitsAssumption ==
  /\ MaxConcurrentTurns \in Nat \ {0} /\ RateLimit \in Nat \ {0}
  /\ RateWindow \in Nat \ {0} /\ MaxTime \in Nat /\ MaxRequests \in Nat

VARIABLES
  now,
  request,   \* per request: where its handler is, its client, the status written
  bucket,    \* rateLimiter.bucket: when a client's window started (-1: never), its count
  turns,     \* tokens in Server.turns
  counted,   \* Metrics.turns by outcome, and Metrics.requests by status
  server,    \* up, closing, or exited, after a clean or a cut shutdown
  let        \* history: when the limiter let a request through (-1: it has not)

httpVars == <<now, request, bucket, turns, counted, server, let>>

Requests == 1 .. MaxRequests
Times == 0 .. MaxTime
Statuses == {"200", "400", "401", "429", "500"}

HttpTypeOK ==
  /\ now \in Times
  /\ request \in [Requests ->
       [at : {"unsent", "let", "running", "leaving", "done", "cut"},
        client : Clients, status : {"none"} \cup Statuses]]
  /\ bucket \in [Clients -> [started : {-1} \cup Times, count : 0 .. RateLimit]]
  /\ turns \in 0 .. MaxConcurrentTurns
  /\ counted \in [{"ok", "error"} \cup Statuses -> 0 .. Cardinality(Requests)]
  /\ server \in {"up", "closing", "clean", "cut"}
  /\ let \in [Requests -> {-1} \cup Times]

HttpInit ==
  /\ now = 0
  /\ request \in [Requests -> [at : {"unsent"}, client : Clients, status : {"none"}]]
  /\ bucket = [c \in Clients |-> [started |-> -1, count |-> 0]]
  /\ turns = 0
  /\ counted = [k \in {"ok", "error"} \cup Statuses |-> 0]
  /\ server = "up"
  /\ let = [r \in Requests |-> -1]

Ticks ==
  /\ now < MaxTime
  /\ now' = now + 1
  /\ UNCHANGED <<request, bucket, turns, counted, server, let>>

-----------------------------------------------------------------------------
(* Handler: authenticated, ratelimited, limited, completions, observed.    *)

Alive == server \in {"up", "closing"}

\* observed: a response is counted when its handler is through.
Leaves(r, from, status) ==
  /\ Alive /\ request[r].at = from
  /\ request' = [request EXCEPT ![r].at = "done", ![r].status = status]
  /\ counted' = [counted EXCEPT ![status] = @ + 1]

\* The response is written, and the deferred functions have not run.
Answers(r, from, status) ==
  /\ Alive /\ request[r].at = from
  /\ request' = [request EXCEPT ![r].at = "leaving", ![r].status = status]

Passes(r, from, to) ==
  /\ Alive /\ request[r].at = from
  /\ request' = [request EXCEPT ![r].at = to]

\* The next request of the stream; a server that is shut down accepts nothing more.
Arrives(r) == server = "up" /\ \A q \in 1 .. r - 1 : request[q].at # "unsent"

\* authenticated.
IsStranger(r) ==
  /\ Arrives(r)
  /\ Leaves(r, "unsent", "401")
  /\ UNCHANGED <<now, bucket, turns, server, let>>

\* Mutant of WindowOver: a window is one unit short.
WindowOverEarly(b) == b.started = -1 \/ now - b.started >= RateWindow - 1

WindowOver(b) == b.started = -1 \/ now - b.started >= RateWindow

\* Mutant of Exhausted: the comparison with the limit is strict.
ExhaustedLate(b) == b.count > RateLimit

Exhausted(b) == b.count >= RateLimit

\* allow.
IsLet(r) ==
  LET c == request[r].client
      b == bucket[c]
  IN  /\ Arrives(r)
      /\ WindowOver(b) \/ ~Exhausted(b)
      /\ bucket' = [bucket EXCEPT ![c] =
           IF WindowOver(b) THEN [started |-> now, count |-> 1] ELSE [b EXCEPT !.count = @ + 1]]
      /\ let' = [let EXCEPT ![r] = now]
      /\ Passes(r, "unsent", "let")
      /\ UNCHANGED <<now, turns, counted, server>>

IsRateLimited(r) ==
  LET b == bucket[request[r].client]
  IN  /\ Arrives(r)
      /\ ~WindowOver(b) /\ Exhausted(b)
      /\ Leaves(r, "unsent", "429")
      /\ UNCHANGED <<now, bucket, turns, server, let>>

\* limited refuses at once.
IsTooMany(r) ==
  /\ turns = MaxConcurrentTurns
  /\ Leaves(r, "let", "429")
  /\ UNCHANGED <<now, bucket, turns, server, let>>

\* completions cannot read the body, or finds no user message to end on; or runs a turn.
Acquires(r) ==
  /\ turns < MaxConcurrentTurns
  /\ turns' = turns + 1
  /\ Answers(r, "let", "400") \/ Passes(r, "let", "running")
  /\ UNCHANGED <<now, bucket, counted, server, let>>

\* The turn ends, with an error also when its time is up or the client is gone; it is
\* counted, and then the response is written.
TurnEnds(r) ==
  /\ \/ Answers(r, "running", "200") /\ counted' = [counted EXCEPT !["ok"] = @ + 1]
     \/ Answers(r, "running", "500") /\ counted' = [counted EXCEPT !["error"] = @ + 1]
  /\ UNCHANGED <<now, bucket, turns, server, let>>

\* Mutant of TokenBack: the token is given back only after a turn.
TokenBackAfterTurn(r) == turns' = IF request[r].status = "400" THEN turns ELSE turns - 1

\* The deferred receive of limited.
TokenBack(r) == turns' = turns - 1

Finishes(r) ==
  /\ Leaves(r, "leaving", request[r].status)
  /\ TokenBack(r)
  /\ UNCHANGED <<now, bucket, server, let>>

-----------------------------------------------------------------------------
(* listen.                                                                 *)

Idle == \A r \in Requests : request[r].at \in {"unsent", "done"}

ShutsDown ==
  /\ server = "up"
  /\ server' = "closing"
  /\ UNCHANGED <<now, request, bucket, turns, counted, let>>

\* Shutdown returns when no request is active, or after its 30 seconds, which is less
\* than a turn may take; the process ends either way.
Exits ==
  /\ server = "closing"
  /\ IF Idle THEN server' = "clean" /\ UNCHANGED request
     ELSE /\ server' = "cut"
          /\ request' = [r \in Requests |-> IF request[r].at \in {"unsent", "done"} THEN request[r]
                                            ELSE [request[r] EXCEPT !.at = "cut"]]
  /\ UNCHANGED <<now, bucket, turns, counted, let>>

HttpNext ==
  \/ Ticks \/ ShutsDown \/ Exits
  \/ \E r \in Requests :
       \/ IsStranger(r) \/ IsLet(r) \/ IsRateLimited(r) \/ IsTooMany(r) \/ Acquires(r)
       \/ TurnEnds(r) \/ Finishes(r)

-----------------------------------------------------------------------------
\* The requests of a client that were let through from one time to before another.
LetBetween(c, from, to) == {r \in Requests : /\ request[r].client = c
                                             /\ from <= let[r] /\ let[r] < to}

\* The limiter's windows are fixed and start with a client's request: RateLimit requests
\* get through in one of them, and in any other stretch of time as long as one, wherever
\* it lies, fewer than twice as many (rateLimiter.allow).
RateHolds ==
  \A c \in Clients, t \in Times :
    /\ Cardinality(LetBetween(c, t, t + RateWindow)) < 2 * RateLimit
    /\ bucket[c].started = t => Cardinality(LetBetween(c, t, t + RateWindow)) <= RateLimit

With(S) == {r \in Requests : request[r].at \in S}
WithStatus(s) == {r \in Requests : request[r].status = s}

\* A token of Server.turns is out for each request inside limited and for no other,
\* however it got there and will leave; every turn whose response a client may have is
\* in the metrics already; and every response is counted once (limited, recordTurn,
\* observed).
SlotsComeBack ==
  /\ server # "cut" => turns = Cardinality(With({"running", "leaving"}))
  /\ counted["ok"] = Cardinality(WithStatus("200"))
  /\ counted["error"] = Cardinality(WithStatus("500"))
  /\ \A s \in Statuses : counted[s] = Cardinality(With({"done"}) \cap WithStatus(s))
=============================================================================
