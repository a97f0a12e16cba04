----------------------------- MODULE ApiGateway -----------------------------
(***************************************************************************)
(* The HTTP gateway (orchestrator/api.py): requests of several clients pass*)
(* authentication and a fixed-window rate limit on one event loop and are  *)
(* executed by a handler that does not yield to it.                        *)
(*                                                                         *)
(* A coroutine runs from one suspension to the next, so an action is all   *)
(* that a request does in between.  There are two suspensions: before the  *)
(* first middleware, and in request.json().  The rate limiter's lock is not*)
(* a third: nothing is awaited while it is held, so on one loop it is      *)
(* always free.  Steps take no time, except the synchronous execute(),     *)
(* which holds the loop for up to ExecTicks, and the body, which comes when*)
(* the client sends it.  An answered request is forgotten.                 *)
(***************************************************************************)
EXTENDS Integers, FiniteSets

CONSTANTS
  Clients,      \* remote addresses; "unknown" (api.py:163) is one more
  Limits,       \* the rate limits create_app may be given; 0 disables
  Window,       \* _RATE_WINDOW_S, in ticks
  ExecTicks,    \* how long one execution may hold the loop
  MaxRequests,  \* bound of the model: the requests sent
  MaxWaiting,   \* bound of the model: the requests unanswered at a time
  MaxTime       \* bound of the model: the clock stops there

ASSUME GatewayAssumption ==
  /\ Limits \subseteq Nat
  /\ Window \in Nat \ {0}
  /\ ExecTicks \in Nat
  /\ MaxRequests \in Nat /\ MaxWaiting \in Nat
  /\ MaxTime \in Nat

VARIABLES
  app,       \* create_app's settings: the limit, and whether a key is configured
  now,       \* time.monotonic()
  table,     \* app[_RATE_DATA_KEY]: the window of each client it knows
  sent,      \* how many requests have been sent; the n-th one is number n
  request,   \* those not answered yet
  began,     \* when the execution that holds the loop began
  answer,    \* the last answer given
  passed     \* history: what the rate limiter let through, and when

vars == <<app, now, table, sent, request, began, answer, passed>>

----------------------------------------------------------------------------
(* Routes, stages and answers *)

OpenPath == "/health, /ready"     \* _OPEN_PATHS, authenticated by nobody
Routed   == "/query, /ask"
Paths    == {OpenPath, Routed, "no route"}

Stages == {"queued", "reading", "readable", "executing"}

\* "executed" stands for all that a handler may answer once it has called the
\* orchestrator or, for /ask, the pipeline before it (200, 400, 500, 501, 504),
\* "unusable" for what it answers instead when the body is no request (400), or is
\* too large (413).
Statuses == {"none", "open", "unauthorized", "too many requests", "not found",
             "unusable", "executed"}

Numbers == 1..MaxRequests

At(stage) == {r \in DOMAIN request : request[r].stage = stage}

\* Mutant: the body is read synchronously too.
BusyReading == At("executing") \cup At("reading") # {}

\* Nothing else runs while a handler executes.
Busy == At("executing") # {}

Authorized(r) == app.keyed => request[r].authentic

\* Request r is answered.  An answer that goes back through the middlewares gets
\* its correlation header (and its line in the access log); an exception that none
\* of them catches becomes an answer outside of them.
Answer(r, status) ==
  /\ request' = [q \in DOMAIN request \ {r} |-> request[q]]
  /\ answer' = [status |-> status, correlated |-> status # "not found"]

Move(r, stage) ==
  /\ request' = [request EXCEPT ![r].stage = stage]
  /\ UNCHANGED answer

----------------------------------------------------------------------------
(* The rate limiter's table *)

KnownWindow(c) ==
  IF c \in DOMAIN table THEN table[c] ELSE [start |-> now, count |-> 0]

\* Mutant: a window that ends one tick early.
ExpiredEarly(c) == now - KnownWindow(c).start >= Window - 1

\* Mutant: a window that lasts one tick longer.
ExpiredLate(c) == now - KnownWindow(c).start > Window

Expired(c) == now - KnownWindow(c).start >= Window

Exhausted(c) == ~Expired(c) /\ KnownWindow(c).count >= app.limit

NextWindow(c) ==
  IF Expired(c) THEN [start |-> now, count |-> 1]
  ELSE [KnownWindow(c) EXCEPT !.count = @ + 1]

\* Mutant: all clients in one window, as behind a proxy that hides their addresses.
CountedTogether(c) ==
  [d \in DOMAIN table \cup {"unknown"} |->
    IF d = "unknown" THEN NextWindow("unknown") ELSE table[d]]

Counted(c) ==
  [d \in DOMAIN table \cup {c} |-> IF d = c THEN NextWindow(c) ELSE table[d]]

----------------------------------------------------------------------------
(* Actions *)

Init ==
  /\ app \in [limit : Limits, keyed : BOOLEAN]
  /\ now = 0
  /\ table = << >>
  /\ sent = 0
  /\ request = << >>
  /\ began = 0
  /\ answer = [status |-> "none", correlated |-> TRUE]
  /\ passed = {}

\* A client sends a request, whether or not the loop has time for it.
Arrive(c) ==
  /\ sent < MaxRequests /\ Cardinality(DOMAIN request) < MaxWaiting
  /\ sent' = sent + 1
  /\ \E p \in Paths, k \in BOOLEAN :
       request' = [r \in DOMAIN request \cup {sent'} |->
                    IF r = sent' THEN [client |-> c, path |-> p, authentic |-> k,
                                       arrived |-> now, stage |-> "queued"]
                    ELSE request[r]]
  /\ UNCHANGED <<app, now, table, began, answer, passed>>

\* Health and readiness skip authentication and the rate limit.
AnswerOpen(r) ==
  /\ r \in At("queued") /\ ~Busy
  /\ request[r].path = OpenPath
  /\ Answer(r, "open")
  /\ UNCHANGED <<app, now, table, sent, began, passed>>

\* Mutant: the rate limit comes before the authentication.
RefuseStrangerCounted(r) ==
  /\ r \in At("queued") /\ ~Busy
  /\ request[r].path # OpenPath /\ ~Authorized(r)
  /\ Answer(r, "unauthorized")
  /\ table' = Counted(request[r].client)
  /\ UNCHANGED <<app, now, sent, began, passed>>

\* auth_middleware
RefuseStranger(r) ==
  /\ r \in At("queued") /\ ~Busy
  /\ request[r].path # OpenPath /\ ~Authorized(r)
  /\ Answer(r, "unauthorized")
  /\ UNCHANGED <<app, now, table, sent, began, passed>>

\* rate_limit_middleware, window exhausted: the table is left as it is.
RefuseRate(r) ==
  /\ r \in At("queued") /\ ~Busy
  /\ request[r].path # OpenPath /\ Authorized(r)
  /\ app.limit # 0 /\ Exhausted(request[r].client)
  /\ Answer(r, "too many requests")
  /\ UNCHANGED <<app, now, table, sent, began, passed>>

\* rate_limit_middleware, otherwise: the request is counted and goes on to its
\* handler, which waits for the body.  aiohttp's handler of an unknown route
\* raises HTTPNotFound instead.
Pass(r) ==
  /\ r \in At("queued") /\ ~Busy
  /\ request[r].path # OpenPath /\ Authorized(r)
  /\ app.limit # 0 => ~Exhausted(request[r].client)
  /\ table' = IF app.limit = 0 THEN table ELSE Counted(request[r].client)
  /\ passed' = passed \cup {[number |-> r, client |-> request[r].client,
                             authorized |-> Authorized(r), at |-> now]}
  /\ IF request[r].path = Routed THEN Move(r, "reading") ELSE Answer(r, "not found")
  /\ UNCHANGED <<app, now, sent, began>>

\* The rest of the body comes in, or the connection breaks.
BodyArrives(r) ==
  /\ r \in At("reading")
  /\ Move(r, "readable")
  /\ UNCHANGED <<app, now, table, sent, began, passed>>

\* Too large, no JSON, no object, no valid request, or no prompt.
RefuseBody(r) ==
  /\ r \in At("readable") /\ ~Busy
  /\ Answer(r, "unusable")
  /\ UNCHANGED <<app, now, table, sent, began, passed>>

BeginExecute(r) ==
  /\ r \in At("readable") /\ ~Busy
  /\ Move(r, "executing")
  /\ began' = now
  /\ UNCHANGED <<app, now, table, sent, passed>>

\* Mutant: the handler may execute the request once more, after a timeout say.
EndExecuteOrRepeat(r) ==
  /\ r \in At("executing")
  /\ Answer(r, "executed") \/ Move(r, "readable")
  /\ UNCHANGED <<app, now, table, sent, began, passed>>

EndExecute(r) ==
  /\ r \in At("executing")
  /\ Answer(r, "executed")
  /\ UNCHANGED <<app, now, table, sent, began, passed>>

\* Time passes while a request executes, or while the loop has nothing to do.
Tick ==
  /\ now < MaxTime
  /\ IF Busy THEN now - began < ExecTicks
             ELSE At("queued") \cup At("readable") = {}
  /\ now' = now + 1
  /\ UNCHANGED <<app, table, sent, request, began, answer, passed>>

\* All answered: the server waits for the next request.
Rest == request = << >> /\ UNCHANGED vars

LoopStep ==
  \E r \in Numbers :
    \/ AnswerOpen(r) \/ RefuseStranger(r) \/ RefuseRate(r) \/ Pass(r)
    \/ RefuseBody(r) \/ BeginExecute(r) \/ EndExecute(r)

Next ==
  \/ \E c \in Clients : Arrive(c)
  \/ \E r \in Numbers : BodyArrives(r)
  \/ LoopStep
  \/ Tick
  \/ Rest

Spec == Init /\ [][Next]_vars

\* The event loop goes on while it has something to run.  Nobody promises that a
\* client sends a request, or the body of one.
FairSpec == Spec /\ WF_vars(LoopStep)

----------------------------------------------------------------------------
(* Properties *)

\* What the limiter let through of client c from time t to time u - 1.
PassedIn(c, t, u) == {p \in passed : p.client = c /\ t <= p.at /\ p.at < u}

\* The variables have their types.
GatewayTypeOK ==
  /\ app \in [limit : Limits, keyed : BOOLEAN]
  /\ now \in Nat /\ began \in Nat /\ sent \in Nat
  /\ DOMAIN table \subseteq Clients
  /\ \A c \in DOMAIN table : table[c] \in [start : Nat, count : Nat]
  /\ DOMAIN request \subseteq Numbers
  /\ \A r \in DOMAIN request :
       request[r] \in [client : Clients, path : Paths, authentic : BOOLEAN,
                       arrived : Nat, stage : Stages]
  /\ answer \in [status : Statuses, correlated : BOOLEAN]
  /\ passed \subseteq [number : Numbers, client : Clients, authorized : BOOLEAN, at : Nat]

\* The table says of each client how many of its requests were let through since its
\* window began, no more than the limit, the first one at that time: a request that was
\* refused, for its key (api.py:137-143) or for the rate (174-180), has left no trace in
\* it, and neither has another client's.
TableAccounts ==
  /\ \A c \in DOMAIN table :
       /\ table[c].count \in 1..app.limit
       /\ Cardinality(PassedIn(c, table[c].start, now + 1)) = table[c].count
       /\ \A p \in passed : p.client = c => p.at < table[c].start + Window
       /\ \E p \in passed : p.client = c /\ p.at = table[c].start
  /\ app.limit # 0 => \A p \in passed : p.authorized /\ p.client \in DOMAIN table

\* What a fixed window guarantees of a span of time that is not one of its windows: of a
\* burst around the end of a window at most 2 * limit - 1 requests pass within Window
\* ticks (not limit, as .env.example:47 may be read, and not 2 * limit either, because a
\* window begins with a request and not with the clock).
BurstBounded ==
  app.limit # 0 =>
    \A c \in Clients, t \in 0..now :
      Cardinality(PassedIn(c, t, t + Window)) <= 2 * app.limit - 1

\* Nobody is refused for what others did, or for requests that were refused themselves:
\* who gets a 429 has had a full limit of requests passed within the last Window ticks.
RefusalEarned ==
  [][\A r \in DOMAIN request \ DOMAIN request' :
       answer'.status = "too many requests" =>
         Cardinality(PassedIn(request[r].client, now - Window + 1, now + 1)) >= app.limit
    ]_vars

\* Execution blocks the event loop, health checks included (api.py:310); but a request
\* waits for its turn no longer than the requests that passed the limiter take to execute.
WaitBounded ==
  \A r \in At("queued") :
    now - request[r].arrived <= ExecTicks * Cardinality(passed)

\* While the event loop runs, every request is answered or waits for its client to send
\* the body; a client that does not send its body stops nobody else.
EveryRequestServed ==
  \A r \in Numbers :
    (r \in At("queued") \cup At("readable")) ~> (r \in At("reading") \/ r \notin DOMAIN request)
=============================================================================
