------------------------- MODULE Neo4jClientProofs -------------------------
(***************************************************************************)
(* The graph client, for every number of retries, every table of pauses    *)
(* and every length of an attempt: its types, the bound on a query, the    *)
(* story its exceptions tell, and that it implements QueryService.         *)
(***************************************************************************)
EXTENDS Neo4jClient, TLAPS

(* A pause is one of the table, so no longer than the longest. *)
LEMMA BackoffBounded ==
  ASSUME NEW a \in Nat
  PROVE  Backoff(a) \in Nat /\ Backoff(a) <= MaxBackoff
<1> DEFINE i == IF a < Len(RetryBackoff) THEN a + 1 ELSE Len(RetryBackoff)
<1>1. RetryBackoff \in Seq(Nat) /\ Len(RetryBackoff) \in Nat \ {0}
  BY BackoffAssumption
<1>2. i \in DOMAIN RetryBackoff
  BY <1>1
<1>3. RetryBackoff[i] \in Nat /\ RetryBackoff[i] <= MaxBackoff
  BY <1>1, <1>2, BackoffAssumption
<1> QED
  BY <1>3 DEF Backoff

(* A retry spends at most one attempt and one pause of what the budget reserves *)
(* for the retries that are left.                                               *)
LEMMA BudgetOfRetry ==
  ASSUME NEW K \in Nat, NEW m \in Nat, NEW a \in Nat, a < m
  PROVE  (m - a) * K = (m - (a + 1)) * K + K
  OBVIOUS

(* What is left of the budget is never negative. *)
LEMMA BudgetIsNat ==
  ASSUME NEW K \in Nat, NEW n \in Nat
  PROVE  n * K \in Nat
  OBVIOUS

(* The invariant behind the theorems: the types, the budget of the attempts that *)
(* are left, and the story of the exceptions.                                    *)
ClientInv ==
  /\ ClientTypeOK
  /\ QueryTimeBounded
  /\ AttemptsAccountForOutcome
  /\ phase # "returned" <=> outcome = Pending

LEMMA ClientInvInit == ClientInit => ClientInv
<1> SUFFICES ASSUME ClientInit PROVE ClientInv
  OBVIOUS
<1> USE DEF ClientInit
<1>1. ClientTypeOK
  BY RetriesAssumption DEF ClientTypeOK, Outcomes
<1>2. QueryTimeBounded
  <2>1. AttemptTicks + MaxBackoff \in Nat
    BY AttemptAssumption, BackoffAssumption
  <2>2. MaxRetries * (AttemptTicks + MaxBackoff) \in Nat
    BY <2>1, RetriesAssumption, BudgetIsNat
  <2> QED
    BY <2>2, AttemptAssumption DEF QueryTimeBounded, QueryTicks
<1>3. AttemptsAccountForOutcome
  BY DEF AttemptsAccountForOutcome, Pending
<1>4. phase # "returned" <=> outcome = Pending
  OBVIOUS
<1> QED
  BY <1>1, <1>2, <1>3, <1>4 DEF ClientInv

(* Every step keeps the variables typed: attempt is raised only while retries are *)
(* left, and the time spent only grows by natural numbers.                        *)
LEMMA ClientTypeStep == ClientInv /\ [ClientNext]_clientVars => ClientTypeOK'
<1> SUFFICES ASSUME ClientInv, [ClientNext]_clientVars PROVE ClientTypeOK'
  OBVIOUS
<1> USE RetriesAssumption, AttemptAssumption DEF ClientInv, ClientTypeOK
<1>1. CASE Query
  BY <1>1 DEF Query, Outcomes
<1>2. CASE ReturnRecords
  BY <1>2 DEF ReturnRecords, Return, Outcomes
<1>3. CASE RaiseTimeout
  BY <1>3 DEF RaiseTimeout, Return, Outcomes
<1>4. CASE Retry
  <2>1. PICK e \in DriverExceptions, d \in 0..AttemptTicks :
          /\ MayRetry(e)
          /\ raised' = Append(raised, e)
          /\ elapsed' = elapsed + d + Backoff(attempt)
    BY <1>4 DEF Retry
  <2>2. Backoff(attempt) \in Nat
    BY BackoffBounded
  <2> QED
    BY <1>4, <2>1, <2>2 DEF Retry, MayRetry
<1>5. CASE RaiseFailure
  BY <1>5 DEF RaiseFailure, Return, Outcomes
<1>6. CASE UNCHANGED clientVars
  BY <1>6 DEF clientVars
<1> QED
  BY <1>1, <1>2, <1>3, <1>4, <1>5, <1>6 DEF ClientNext, AttemptEnds

(* Every step keeps the budget: an attempt fits into the AttemptTicks reserved for *)
(* it, a retry into its share of the rest.                                         *)
LEMMA BudgetStep == ClientInv /\ [ClientNext]_clientVars => QueryTimeBounded'
<1> SUFFICES ASSUME ClientInv, [ClientNext]_clientVars PROVE QueryTimeBounded'
  OBVIOUS
<1> DEFINE K == AttemptTicks + MaxBackoff
<1> DEFINE Rest(a) == (MaxRetries - a) * K
<1>0. K \in Nat /\ AttemptTicks \in Nat /\ MaxRetries \in Nat /\ MaxBackoff \in Nat
  BY AttemptAssumption, BackoffAssumption, RetriesAssumption
<1>1. attempt \in 0..MaxRetries /\ elapsed \in Nat
  BY DEF ClientInv, ClientTypeOK
<1>2. QueryTicks = Rest(0) + AttemptTicks /\ Rest(0) \in Nat
  BY <1>0, BudgetIsNat DEF QueryTicks
<1>3. Rest(attempt) \in Nat
  BY <1>0, <1>1, BudgetIsNat
<1>4. elapsed <= QueryTicks
  BY DEF ClientInv, QueryTimeBounded
<1>5. phase = "running" => elapsed + Rest(attempt) + AttemptTicks <= QueryTicks
  BY DEF ClientInv, QueryTimeBounded
<1>6. SUFFICES /\ elapsed' <= QueryTicks
               /\ phase' = "running" =>
                    elapsed' + Rest(attempt') + AttemptTicks <= QueryTicks
  BY DEF QueryTimeBounded, QueryTicks
<1> HIDE DEF K
<1>7. ASSUME NEW o, NEW d \in 0..AttemptTicks, phase = "running", Return(o, d)
      PROVE  elapsed' <= QueryTicks /\ phase' # "running"
  <2>1. elapsed' = elapsed + d /\ phase' = "returned"
    BY <1>7 DEF Return
  <2> HIDE DEF Rest
  <2> QED
    BY <2>1, <1>0, <1>1, <1>2, <1>3, <1>5, <1>7
<1>8. CASE Query
  <2>1. elapsed' = 0 /\ attempt' = 0
    BY <1>8 DEF Query
  <2> HIDE DEF Rest
  <2> QED
    BY <2>1, <1>0, <1>2
<1>9. CASE ReturnRecords
  BY <1>7, <1>9 DEF ReturnRecords
<1>10. CASE RaiseTimeout
  BY <1>7, <1>10 DEF RaiseTimeout
<1>11. CASE Retry
  <2>1. PICK e \in DriverExceptions, d \in 0..AttemptTicks :
          /\ MayRetry(e)
          /\ elapsed' = elapsed + d + Backoff(attempt)
    BY <1>11 DEF Retry
  <2>2. phase = "running" /\ attempt' = attempt + 1 /\ attempt < MaxRetries
    BY <1>11, <2>1 DEF Retry, MayRetry
  <2>3. Backoff(attempt) \in Nat /\ Backoff(attempt) <= MaxBackoff
    BY <1>1, BackoffBounded
  <2>4. Rest(attempt) = Rest(attempt') + K
    BY <1>0, <1>1, <2>2, BudgetOfRetry
  <2>5. Rest(attempt') \in Nat
    BY <1>0, <1>1, <2>2, BudgetIsNat
  <2>6. d + Backoff(attempt) <= K
    BY <1>0, <2>3 DEF K
  <2> HIDE DEF Rest
  <2> QED
    BY <2>1, <2>2, <2>3, <2>4, <2>5, <2>6, <1>0, <1>1, <1>2, <1>5
<1>12. CASE RaiseFailure
  BY <1>7, <1>12 DEF RaiseFailure
<1>13. CASE UNCHANGED clientVars
  BY <1>4, <1>5, <1>13 DEF clientVars
<1> QED
  BY <1>8, <1>9, <1>10, <1>11, <1>12, <1>13 DEF ClientNext, AttemptEnds

(* Every step keeps the story: a retried exception was transient and no timeout, and *)
(* the exception that ends the query decides what its caller is told.                *)
LEMMA StoryStep ==
  ClientInv /\ [ClientNext]_clientVars
    => AttemptsAccountForOutcome' /\ (phase # "returned" <=> outcome = Pending)'
<1> SUFFICES ASSUME ClientInv, [ClientNext]_clientVars
             PROVE  /\ AttemptsAccountForOutcome'
                    /\ (phase # "returned" <=> outcome = Pending)'
  OBVIOUS
<1> USE DEF AttemptsAccountForOutcome, Pending
<1>0. /\ attempt \in 0..MaxRetries /\ raised \in Seq(DriverExceptions)
      /\ MaxRetries \in Nat
      /\ phase \in {"idle", "running", "returned"}
      /\ AttemptsAccountForOutcome
      /\ phase # "returned" <=> outcome = Pending
  BY RetriesAssumption DEF ClientInv, ClientTypeOK
<1>1. CASE Query
  BY <1>0, <1>1 DEF Query
<1>2. CASE ReturnRecords
  BY <1>0, <1>2 DEF ReturnRecords, Return, Records
<1>3. CASE RaiseTimeout
  BY <1>0, <1>3 DEF RaiseTimeout, Return, TimedOut
<1>4. CASE Retry
  BY <1>0, <1>4 DEF Retry, MayRetry
<1>5. CASE RaiseFailure
  BY <1>0, <1>5 DEF RaiseFailure, Return, Failed, MayRetry
<1>6. CASE UNCHANGED clientVars
  BY <1>0, <1>6 DEF clientVars
<1> QED
  BY <1>1, <1>2, <1>3, <1>4, <1>5, <1>6 DEF ClientNext, AttemptEnds

LEMMA ClientInvStep == ClientInv /\ [ClientNext]_clientVars => ClientInv'
  BY ClientTypeStep, BudgetStep, StoryStep DEF ClientInv

THEOREM ClientInvariant == ClientSpec => []ClientInv
  BY ClientInvInit, ClientInvStep, PTL DEF ClientSpec

(* The variables of the client keep their types, whatever the database does. *)
THEOREM ClientTypeCorrect == ClientSpec => []ClientTypeOK
<1>1. ClientInv => ClientTypeOK
  BY DEF ClientInv
<1> QED
  BY <1>1, ClientInvariant, PTL

(* No query, for any number of retries and any table of pauses, holds its caller *)
(* longer than QueryTicks (neo4j_client.py:114-144).                             *)
THEOREM ClientTimeBounded == ClientSpec => []QueryTimeBounded
<1>1. ClientInv => QueryTimeBounded
  BY DEF ClientInv
<1> QED
  BY <1>1, ClientInvariant, PTL

(* Only transient exceptions that say nothing of a timeout are retried, and the last *)
(* one decides between records, TimeoutError and ValueError.                         *)
THEOREM ClientStoryTrue == ClientSpec => []AttemptsAccountForOutcome
<1>1. ClientInv => AttemptsAccountForOutcome
  BY DEF ClientInv
<1> QED
  BY <1>1, ClientInvariant, PTL

(* The client implements QueryService: a query ends once, in time, with an outcome; *)
(* the attempts in between do not show.                                             *)
THEOREM ClientImplementsService == ClientSpec => Service!Spec
<1>1. ClientInit => Service!Init
  BY DEF ClientInit, Service!Init
<1>2. ClientInv /\ ClientInv' /\ [ClientNext]_clientVars
        => [Service!Next]_(Service!serviceVars)
  <2> SUFFICES ASSUME ClientInv, ClientInv', [ClientNext]_clientVars
               PROVE  Service!Next \/ UNCHANGED Service!serviceVars
    OBVIOUS
  <2> USE DEF Service!Next, Service!serviceVars
  <2>0. /\ outcome' \in Outcomes /\ elapsed' \in Nat
        /\ elapsed' <= QueryTicks' /\ QueryTicks' = QueryTicks
        /\ (phase' # "returned" <=> outcome' = Pending)
    BY DEF ClientInv, ClientTypeOK, QueryTimeBounded, QueryTicks, Outcomes,
           Pending, TimedOut, Failed, Records
  <2>1. CASE Query
    BY <2>1 DEF Query, Service!Ask
  <2>2. ASSUME NEW o, NEW d, phase = "running", Return(o, d) PROVE Service!Reply
    <3>1. QueryTicks \in Nat
      BY RetriesAssumption, AttemptAssumption, BackoffAssumption, BudgetIsNat
      DEF QueryTicks
    <3> QED
      BY <2>0, <2>2, <3>1 DEF Return, Service!Reply
  <2>3. CASE ReturnRecords
    BY <2>2, <2>3 DEF ReturnRecords
  <2>4. CASE RaiseTimeout
    BY <2>2, <2>4 DEF RaiseTimeout
  <2>5. CASE Retry
    BY <2>5 DEF Retry
  <2>6. CASE RaiseFailure
    BY <2>2, <2>6 DEF RaiseFailure
  <2>7. CASE UNCHANGED clientVars
    BY <2>7 DEF clientVars
  <2> QED
    BY <2>1, <2>3, <2>4, <2>5, <2>6, <2>7 DEF ClientNext, AttemptEnds
<1> QED
  BY <1>1, <1>2, ClientInvariant, PTL DEF ClientSpec, Service!Spec
=============================================================================
