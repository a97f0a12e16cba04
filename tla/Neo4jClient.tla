---------------------------- MODULE Neo4jClient ----------------------------
(***************************************************************************)
(* The read-only graph client every agent queries through:                 *)
(* agents/shared/neo4j_client.py, Neo4jClient.query.                       *)
(*                                                                         *)
(* One query is a loop of at most MaxRetries + 1 attempts.  An attempt     *)
(* either returns records or raises an exception of the Neo4j driver.  The *)
(* loop looks at two facts of the exception only: does its text mention a  *)
(* timeout, and is its type one of the two transient ones.  Time is counted*)
(* from the start of the query, in ticks; time.sleep between two attempts  *)
(* is part of the step that decides to retry.                              *)
(***************************************************************************)
EXTENDS Integers, Sequences

CONSTANTS
  MaxRetries,     \* _MAX_RETRIES: retries after the first attempt
  RetryBackoff,   \* _RETRY_BACKOFF: the pauses between attempts, in ticks
  MaxBackoff,     \* no pause is longer than this
  AttemptTicks,   \* one attempt at the driver ends within this many ticks
  MaxRows         \* bound of the model: the most rows a query returns

ASSUME RetriesAssumption == MaxRetries \in Nat
ASSUME BackoffAssumption ==
  /\ RetryBackoff \in Seq(Nat) /\ RetryBackoff # <<>>
  /\ MaxBackoff \in Nat
  /\ \A i \in DOMAIN RetryBackoff : RetryBackoff[i] <= MaxBackoff
ASSUME AttemptAssumption == AttemptTicks \in Nat /\ MaxRows \in Nat

VARIABLES
  phase,     \* "idle" before the first query, "running" in the loop, "returned"
  attempt,   \* the loop variable: retries made so far
  elapsed,   \* ticks since the query began
  outcome,   \* how the query ended: records, or one of the two exceptions
  raised     \* history: the driver exceptions of this query, oldest first

clientVars == <<phase, attempt, elapsed, outcome, raised>>

----------------------------------------------------------------------------
\* What the loop distinguishes in a driver exception: isinstance(exc, _RETRYABLE_EXC)
\* and "timeout" in str(exc).lower().
DriverExceptions == [transient : BOOLEAN, mentionsTimeout : BOOLEAN]

Pending    == [kind |-> "pending", rows |-> 0]
Records(n) == [kind |-> "records", rows |-> n]
TimedOut   == [kind |-> "TimeoutError", rows |-> 0]
Failed     == [kind |-> "ValueError", rows |-> 0]

Outcomes == {Pending, TimedOut, Failed} \cup {Records(n) : n \in 0..MaxRows}

\* Mutant: a pause that grows without the table.
BackoffGrowing(a) == (a + 1) * RetryBackoff[Len(RetryBackoff)]

\* The pause after attempt a: _RETRY_BACKOFF[min(attempt, len(_RETRY_BACKOFF) - 1)].
Backoff(a) == RetryBackoff[IF a < Len(RetryBackoff) THEN a + 1 ELSE Len(RetryBackoff)]

\* Mutant: the retry test of an off-by-one loop.
MayRetryOnceMore(e) == e.transient /\ ~e.mentionsTimeout /\ attempt <= MaxRetries
\* Mutant: the transient test made before the timeout test.
MayRetryTimeouts(e) == e.transient /\ attempt < MaxRetries
\* Mutant: a loop that never gives up on a lost database.
MayRetryForever(e) == e.transient /\ ~e.mentionsTimeout /\ attempt <= MaxRetries + attempt

\* The exception leads to another attempt: the timeout test comes first, then the type,
\* then the number of attempts left.
MayRetry(e) == ~e.mentionsTimeout /\ e.transient /\ attempt < MaxRetries

----------------------------------------------------------------------------
ClientInit ==
  /\ phase = "idle"
  /\ attempt = 0
  /\ elapsed = 0
  /\ outcome = Pending
  /\ raised = <<>>

\* An agent calls query(cypher, params).
Query ==
  /\ phase # "running"
  /\ phase' = "running"
  /\ attempt' = 0
  /\ elapsed' = 0
  /\ outcome' = Pending
  /\ raised' = <<>>

\* The query ends with o, d ticks into the current attempt.
Return(o, d) ==
  /\ phase' = "returned"
  /\ elapsed' = elapsed + d
  /\ outcome' = o
  /\ UNCHANGED attempt

\* session.run succeeded and the records were fetched.
ReturnRecords ==
  /\ phase = "running"
  /\ \E d \in 0..AttemptTicks, n \in 0..MaxRows : Return(Records(n), d)
  /\ UNCHANGED raised

\* Any exception that mentions a timeout becomes TimeoutError at once.
RaiseTimeout ==
  /\ phase = "running"
  /\ \E e \in DriverExceptions, d \in 0..AttemptTicks :
       /\ e.mentionsTimeout
       /\ ~MayRetry(e)
       /\ raised' = Append(raised, e)
       /\ Return(TimedOut, d)

\* A transient exception with attempts left: sleep, then try again.
Retry ==
  /\ phase = "running"
  /\ \E e \in DriverExceptions, d \in 0..AttemptTicks :
       /\ MayRetry(e)
       /\ raised' = Append(raised, e)
       /\ elapsed' = elapsed + d + Backoff(attempt)
  /\ attempt' = attempt + 1
  /\ UNCHANGED <<phase, outcome>>

\* A permanent exception, or a transient one after the last attempt: ValueError.
RaiseFailure ==
  /\ phase = "running"
  /\ \E e \in DriverExceptions, d \in 0..AttemptTicks :
       /\ ~e.mentionsTimeout
       /\ ~MayRetry(e)
       /\ raised' = Append(raised, e)
       /\ Return(Failed, d)

\* The loop's own steps.
AttemptEnds == ReturnRecords \/ RaiseTimeout \/ Retry \/ RaiseFailure

ClientNext == Query \/ AttemptEnds

ClientSpec == ClientInit /\ [][ClientNext]_clientVars

\* Every attempt ends: the driver answers or raises (AttemptAssumption), and the
\* synchronous loop is never descheduled for ever.
ClientFairSpec == ClientSpec /\ WF_clientVars(AttemptEnds)

----------------------------------------------------------------------------
\* Bound on a whole query: every attempt as long as it can be, every pause the longest.
QueryTicks == MaxRetries * (AttemptTicks + MaxBackoff) + AttemptTicks

\* The client's variables have their types.
ClientTypeOK ==
  /\ phase \in {"idle", "running", "returned"}
  /\ attempt \in 0..MaxRetries
  /\ elapsed \in Nat
  /\ outcome \in Outcomes
  /\ raised \in Seq(DriverExceptions)

\* The exceptions of a query tell its story (neo4j_client.py:130-144).  Every exception
\* but the last was transient and said nothing of a timeout; the number of attempts
\* is the number of exceptions that were retried; and the caller is told TimeoutError,
\* ValueError or records according to the last attempt alone.
AttemptsAccountForOutcome ==
  LET last == Len(raised) IN
  /\ \A i \in 1..attempt : raised[i].transient /\ ~raised[i].mentionsTimeout
  /\ phase = "running" => last = attempt
  /\ outcome.kind = "records" => last = attempt
  /\ outcome.kind = "TimeoutError" =>
        last = attempt + 1 /\ raised[last].mentionsTimeout
  /\ outcome.kind = "ValueError" =>
        /\ last = attempt + 1
        /\ ~raised[last].mentionsTimeout
        /\ raised[last].transient => attempt = MaxRetries

\* However the attempts fall, a query holds its caller (and the server's event loop)
\* no longer than QueryTicks, pauses included; what is left of the budget covers the
\* attempts that are left.
QueryTimeBounded ==
  /\ elapsed <= QueryTicks
  /\ phase = "running" =>
       elapsed + (MaxRetries - attempt) * (AttemptTicks + MaxBackoff) + AttemptTicks
         <= QueryTicks

\* What the agents rely on: QueryService, a query that ends once, with one outcome, in
\* bounded time.  The attempts are internal to the client.
Service == INSTANCE QueryService
             WITH elapsed <- IF phase = "returned" THEN elapsed ELSE 0

ImplementsQueryService == Service!FairSpec
=============================================================================
