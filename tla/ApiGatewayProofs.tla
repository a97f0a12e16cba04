-------------------------- MODULE ApiGatewayProofs --------------------------
(***************************************************************************)
(* The gateway's rate limiter, for every limit, window and number of       *)
(* clients.                                                                *)
(***************************************************************************)
EXTENDS ApiGateway, FiniteSetTheorems, TLAPS

----------------------------------------------------------------------------
(* One client's window and what has passed                                   *)

Passage == [number : Numbers, client : Clients, authorized : BOOLEAN, at : Nat]

\* Of the passages P, those of client c from time t on, and those before u of them.
Since(P, c, t)      == {p \in P : p.client = c /\ t <= p.at}
Between(P, c, t, u) == {p \in P : p.client = c /\ t <= p.at /\ p.at < u}

\* The window [start |-> s, count |-> n] of client c accounts for the passages P under
\* limit l.  The last conjunct is the bound to be proved; the one before it is what
\* makes it inductive: what passed in the last Window ticks before the window began is
\* less than a limit, because a window begins with a passage that lies before them.
WindowFits(P, c, s, n, l) ==
  /\ s \in Nat /\ l \in Nat /\ n \in 1..l
  /\ Cardinality(Since(P, c, s)) = n
  /\ \A p \in P : p.client = c => p.at < s + Window
  /\ \E p \in P : p.client = c /\ p.at = s
  /\ \A t \in Nat : t > s - Window => Cardinality(Between(P, c, t, s)) <= l - 1
  /\ \A t \in Nat : Cardinality(Between(P, c, t, t + Window)) <= 2 * l - 1

(* The passages of a client, from a time or between two, are finitely many. *)
LEMMA SomeOfPassed ==
  ASSUME NEW P, IsFiniteSet(P), NEW c, NEW t, NEW u
  PROVE  /\ IsFiniteSet(Since(P, c, t)) /\ Cardinality(Since(P, c, t)) \in Nat
         /\ IsFiniteSet(Between(P, c, t, u)) /\ Cardinality(Between(P, c, t, u)) \in Nat
<1>1. Since(P, c, t) \in SUBSET P /\ Between(P, c, t, u) \in SUBSET P
  BY DEF Since, Between
<1>2. IsFiniteSet(Since(P, c, t)) /\ IsFiniteSet(Between(P, c, t, u))
  BY <1>1, FS_Subset
<1> QED
  BY <1>2, FS_CardinalityType

(* A request that passes for the first time opens a window. *)
LEMMA FirstPassage ==
  ASSUME NEW P \in SUBSET Passage, IsFiniteSet(P), NEW e \in Passage,
         \A p \in P : p.client # e.client, NEW l \in Nat \ {0}
  PROVE  WindowFits(P \cup {e}, e.client, e.at, 1, l)
<1> DEFINE Q == P \cup {e}
<1> DEFINE c == e.client
<1>0. e.at \in Nat /\ Window \in Nat \ {0}
  BY GatewayAssumption DEF Passage
<1>1. Since(Q, c, e.at) = {e}
  BY <1>0 DEF Since
<1>2. \A t, u \in Nat : Between(Q, c, t, u) \subseteq {e}
  BY DEF Between
<1>3. \A t, u \in Nat : Cardinality(Between(Q, c, t, u)) <= 1
  <2> SUFFICES ASSUME NEW t \in Nat, NEW u \in Nat
               PROVE  Cardinality(Between(Q, c, t, u)) <= 1
    OBVIOUS
  <2>1. Between(Q, c, t, u) \in SUBSET {e}
    BY <1>2
  <2>2. IsFiniteSet({e}) /\ Cardinality({e}) = 1
    BY FS_Singleton
  <2> HIDE DEF Q, c
  <2> QED
    BY <2>1, <2>2, FS_Subset
<1>4. \A t \in Nat : Between(Q, c, t, e.at) = {}
  BY <1>0 DEF Between
<1>5. Cardinality({}) = 0 /\ Cardinality({e}) = 1
  BY FS_EmptySet, FS_Singleton
<1>6. \A t \in Nat : t + Window \in Nat
  BY <1>0
<1>7. \A t \in Nat : Cardinality(Between(Q, c, t, t + Window)) <= 2 * l - 1
  <2> SUFFICES ASSUME NEW t \in Nat
               PROVE  Cardinality(Between(Q, c, t, t + Window)) <= 2 * l - 1
    OBVIOUS
  <2>1. Cardinality(Between(Q, c, t, t + Window)) <= 1
    BY <1>3, <1>6
  <2>2. IsFiniteSet(Q)
    BY FS_AddElement
  <2>3. Cardinality(Between(Q, c, t, t + Window)) \in Nat
    BY <2>2, SomeOfPassed
  <2> QED
    BY <2>1, <2>3
<1>8. \A p \in Q : p.client = c => p.at < e.at + Window
  BY <1>0
<1>9. \A t \in Nat : Cardinality(Between(Q, c, t, e.at)) <= l - 1
  BY <1>4, <1>5
<1>10. \E p \in Q : p.client = c /\ p.at = e.at
  OBVIOUS
<1>11. Cardinality(Since(Q, c, e.at)) = 1
  BY <1>1, <1>5
<1> HIDE DEF Q, c
<1>12. WindowFits(Q, c, e.at, 1, l)
  BY <1>0, <1>7, <1>8, <1>9, <1>10, <1>11 DEF WindowFits
<1> QED
  BY <1>12 DEF Q, c

(* The passage of another client leaves a client's window as it was. *)
LEMMA OthersPassage ==
  ASSUME NEW P, NEW e, NEW c, e.client # c, NEW s, NEW n, NEW l,
         WindowFits(P, c, s, n, l)
  PROVE  WindowFits(P \cup {e}, c, s, n, l)
<1>1. \A t : Since(P \cup {e}, c, t) = Since(P, c, t)
  BY DEF Since
<1>2. \A t, u : Between(P \cup {e}, c, t, u) = Between(P, c, t, u)
  BY DEF Between
<1>3. \A p \in P \cup {e} : p.client = c => p \in P
  OBVIOUS
<1> QED
  BY <1>1, <1>2, <1>3 DEF WindowFits

(* A request that passes after the window's end opens the next one. *)
LEMMA NextPassage ==
  ASSUME NEW P \in SUBSET Passage, IsFiniteSet(P), NEW e \in Passage, e \notin P,
         \A p \in P : p.at <= e.at,
         NEW s, NEW n, NEW l, WindowFits(P, e.client, s, n, l), e.at - s >= Window
  PROVE  WindowFits(P \cup {e}, e.client, e.at, 1, l)
<1> DEFINE Q == P \cup {e}
<1> DEFINE c == e.client
<1>0. /\ e.at \in Nat /\ Window \in Nat \ {0} /\ s \in Nat /\ l \in Nat /\ n \in 1..l
      /\ \A p \in P : p.at \in Nat
  BY GatewayAssumption DEF Passage, WindowFits
<1>1. PICK first \in P : first.client = c /\ first.at = s
  BY DEF WindowFits
<1>2. \A p \in P : p.client = c => p.at < e.at
  BY <1>0 DEF WindowFits
<1>3. Since(Q, c, e.at) = {e}
  BY <1>0, <1>2 DEF Since
<1>4. Cardinality(Since(Q, c, e.at)) = 1
  BY <1>3, FS_Singleton
<1>5. \A p \in Q : p.client = c => p.at < e.at + Window
  BY <1>0, <1>2
<1>6. \E p \in Q : p.client = c /\ p.at = e.at
  OBVIOUS
<1>7. ASSUME NEW t \in Nat, t > e.at - Window
      PROVE  /\ Cardinality(Between(Q, c, t, e.at)) <= l - 1
             /\ IsFiniteSet(Between(Q, c, t, e.at))
  <2>1. t > s
    BY <1>0, <1>7
  <2>2. Between(Q, c, t, e.at) \in SUBSET (Since(P, c, s) \ {first})
    BY <1>0, <1>1, <2>1 DEF Between, Since
  <2>3. first \in Since(P, c, s)
    BY <1>0, <1>1 DEF Since
  <2>4. IsFiniteSet(Since(P, c, s)) /\ Cardinality(Since(P, c, s)) = n
    BY SomeOfPassed DEF WindowFits
  <2>5. /\ IsFiniteSet(Since(P, c, s) \ {first})
        /\ Cardinality(Since(P, c, s) \ {first}) = n - 1
    BY <2>3, <2>4, FS_RemoveElement
  <2> DEFINE R == Since(P, c, s) \ {first}
  <2> DEFINE B == Between(Q, c, t, e.at)
  <2>6. B \in SUBSET R /\ IsFiniteSet(R) /\ Cardinality(R) = n - 1
    BY <2>2, <2>5
  <2> HIDE DEF B, R
  <2>7. IsFiniteSet(B) /\ Cardinality(B) <= n - 1 /\ Cardinality(B) \in Nat
    BY <2>6, FS_Subset, FS_CardinalityType
  <2>8. Cardinality(B) <= l - 1
    BY <1>0, <2>7
  <2> QED
    BY <2>7, <2>8 DEF B
<1>8. ASSUME NEW t \in Nat
      PROVE  Cardinality(Between(Q, c, t, t + Window)) <= 2 * l - 1
  <2>1. CASE t + Window <= e.at
    <3>1. Between(Q, c, t, t + Window) = Between(P, c, t, t + Window)
      BY <1>0, <2>1 DEF Between
    <3> QED
      BY <3>1 DEF WindowFits
  <2>2. CASE t + Window > e.at
    <3> DEFINE B == Between(Q, c, t, e.at)
    <3> DEFINE D == Between(Q, c, t, t + Window)
    <3>1. t > e.at - Window
      BY <1>0, <2>2
    <3>2. Cardinality(B) <= l - 1 /\ IsFiniteSet(B)
      BY <1>7, <3>1
    <3>3. D \in SUBSET (B \cup {e})
      BY <1>0, <1>2 DEF Between
    <3> HIDE DEF B, D
    <3>a. Cardinality(B) \in Nat
      BY <3>2, FS_CardinalityType
    <3>b. /\ IsFiniteSet(B \cup {e})
          /\ Cardinality(B \cup {e}) = IF e \in B THEN Cardinality(B) ELSE Cardinality(B) + 1
      BY <3>2, FS_AddElement
    <3>4. IsFiniteSet(B \cup {e}) /\ Cardinality(B \cup {e}) <= l
      BY <1>0, <3>2, <3>a, <3>b
    <3>5. IsFiniteSet(D) /\ Cardinality(D) <= Cardinality(B \cup {e})
      BY <3>3, <3>4, FS_Subset
    <3>6. Cardinality(D) \in Nat /\ Cardinality(B \cup {e}) \in Nat
      BY <3>4, <3>5, FS_CardinalityType
    <3>7. Cardinality(D) <= 2 * l - 1
      BY <1>0, <3>4, <3>5, <3>6
    <3> QED
      BY <3>7 DEF D
  <2> QED
    BY <1>0, <2>1, <2>2
<1>9. \A t \in Nat : t > e.at - Window => Cardinality(Between(Q, c, t, e.at)) <= l - 1
  BY <1>7
<1>10. \A t \in Nat : Cardinality(Between(Q, c, t, t + Window)) <= 2 * l - 1
  BY <1>8
<1> HIDE DEF Q, c
<1>11. WindowFits(Q, c, e.at, 1, l)
  BY <1>0, <1>4, <1>5, <1>6, <1>9, <1>10 DEF WindowFits
<1> QED
  BY <1>11 DEF Q, c

(* A request that passes within the window counts one more. *)
LEMMA FurtherPassage ==
  ASSUME NEW P \in SUBSET Passage, IsFiniteSet(P), NEW e \in Passage, e \notin P,
         \A p \in P : p.at <= e.at,
         NEW s, NEW n, NEW l, WindowFits(P, e.client, s, n, l), e.at - s < Window, n < l
  PROVE  WindowFits(P \cup {e}, e.client, s, n + 1, l)
<1> DEFINE Q == P \cup {e}
<1> DEFINE c == e.client
<1>0. /\ e.at \in Nat /\ Window \in Nat \ {0} /\ s \in Nat /\ l \in Nat /\ n \in 1..l
      /\ \A p \in P : p.at \in Nat
  BY GatewayAssumption DEF Passage, WindowFits
<1>1. PICK first \in P : first.client = c /\ first.at = s
  BY DEF WindowFits
<1>2. s <= e.at
  BY <1>1
<1>3. Since(Q, c, s) = Since(P, c, s) \cup {e}
  BY <1>0, <1>2 DEF Since
<1>4. /\ e \notin Since(P, c, s)
      /\ IsFiniteSet(Since(P, c, s))
      /\ Cardinality(Since(P, c, s)) = n
  <2>1. e \notin Since(P, c, s)
    BY DEF Since
  <2>2. IsFiniteSet(Since(P, c, s))
    BY SomeOfPassed
  <2>3. Cardinality(Since(P, c, s)) = n
    BY DEF WindowFits
  <2> QED
    BY <2>1, <2>2, <2>3
<1>5. Cardinality(Since(Q, c, s)) = n + 1 /\ IsFiniteSet(Since(Q, c, s))
  <2> DEFINE S == Since(P, c, s)
  <2>1. e \notin S /\ IsFiniteSet(S) /\ Cardinality(S) = n
    BY <1>4
  <2> HIDE DEF S
  <2>2. IsFiniteSet(S \cup {e}) /\ Cardinality(S \cup {e}) = n + 1
    BY <2>1, FS_AddElement
  <2> QED
    BY <1>3, <2>2 DEF S
<1>6. \A p \in Q : p.client = c => p.at < s + Window
  BY <1>0 DEF WindowFits
<1>7. \E p \in Q : p.client = c /\ p.at = s
  BY <1>1
<1>8. ASSUME NEW t \in Nat
      PROVE  Between(Q, c, t, s) = Between(P, c, t, s)
  BY <1>0, <1>2 DEF Between
<1>9. \A t \in Nat : t > s - Window => Cardinality(Between(Q, c, t, s)) <= l - 1
  BY <1>8 DEF WindowFits
<1>10. ASSUME NEW t \in Nat
       PROVE  Cardinality(Between(Q, c, t, t + Window)) <= 2 * l - 1
  <2>1. CASE t + Window <= e.at
    <3>1. Between(Q, c, t, t + Window) = Between(P, c, t, t + Window)
      BY <1>0, <2>1 DEF Between
    <3> QED
      BY <3>1 DEF WindowFits
  <2>2. CASE t + Window > e.at
    <3> DEFINE A == Between(P, c, t, s)
    <3> DEFINE B == Since(Q, c, s)
    <3> DEFINE D == Between(Q, c, t, t + Window)
    <3>1. t > s - Window
      BY <1>0, <1>2, <2>2
    <3>2. Cardinality(A) <= l - 1 /\ IsFiniteSet(A)
      BY <3>1, SomeOfPassed DEF WindowFits
    <3>3. D \in SUBSET (A \cup B)
      BY <1>0, <1>2 DEF Between, Since
    <3>4. IsFiniteSet(B) /\ Cardinality(B) = n + 1
      BY <1>5
    <3> HIDE DEF A, B, D
    <3>5. /\ IsFiniteSet(A \cup B)
          /\ Cardinality(A \cup B) = Cardinality(A) + Cardinality(B) - Cardinality(A \cap B)
      BY <3>2, <3>4, FS_Union
    <3>6. Cardinality(A) \in Nat /\ Cardinality(A \cap B) \in Nat
      BY <3>2, FS_Intersection, FS_CardinalityType
    <3>7. Cardinality(A \cup B) <= 2 * l - 1
      BY <1>0, <3>2, <3>4, <3>5, <3>6
    <3>8. IsFiniteSet(D) /\ Cardinality(D) <= Cardinality(A \cup B)
      BY <3>3, <3>5, FS_Subset
    <3>9. Cardinality(D) \in Nat /\ Cardinality(A \cup B) \in Nat
      BY <3>5, <3>8, FS_CardinalityType
    <3>10. Cardinality(D) <= 2 * l - 1
      BY <1>0, <3>7, <3>8, <3>9
    <3> QED
      BY <3>10 DEF D
  <2> QED
    BY <1>0, <2>1, <2>2
<1>11. \A t \in Nat : Cardinality(Between(Q, c, t, t + Window)) <= 2 * l - 1
  BY <1>10
<1> HIDE DEF Q, c
<1>12. WindowFits(Q, c, s, n + 1, l)
  BY <1>0, <1>5, <1>6, <1>7, <1>9, <1>11 DEF WindowFits
<1> QED
  BY <1>12 DEF Q, c

----------------------------------------------------------------------------
(* The invariant                                                             *)

RequestRecord == [client : Clients, path : Paths, authentic : BOOLEAN,
                  arrived : Nat, stage : Stages]

\* Requests are numbered as they come; one that is queued has not passed yet.
RequestInv ==
  /\ sent \in 0..MaxRequests
  /\ DOMAIN request \subseteq 1..sent
  /\ \A r \in DOMAIN request : request[r] \in RequestRecord
  /\ answer \in [status : Statuses, correlated : BOOLEAN]
  /\ \A r \in At("queued"), p \in passed : p.number # r

\* What has passed was authorized and is not of the future.
PassedInv ==
  /\ app \in [limit : Limits, keyed : BOOLEAN]
  /\ now \in Nat /\ began \in Nat
  /\ passed \in SUBSET Passage /\ IsFiniteSet(passed)
  /\ \A p \in passed : p.number <= sent /\ p.at <= now /\ p.authorized

\* The table has a fitting window of every client that has passed.
TableInv ==
  /\ DOMAIN table \subseteq Clients
  /\ IF app.limit = 0 THEN DOMAIN table = {}
     ELSE \A p \in passed : p.client \in DOMAIN table
  /\ \A c \in DOMAIN table :
       /\ table[c] \in [start : Nat, count : Nat]
       /\ WindowFits(passed, c, table[c].start, table[c].count, app.limit)

GatewayInv == RequestInv /\ PassedInv /\ TableInv

(* At the start there are neither requests nor windows. *)
LEMMA GatewayInvInit == Init => GatewayInv
<1> SUFFICES ASSUME Init PROVE GatewayInv
  OBVIOUS
<1>1. DOMAIN request = {} /\ DOMAIN table = {} /\ passed = {} /\ IsFiniteSet({})
  BY FS_EmptySet DEF Init
<1>2. RequestInv
  BY <1>1, GatewayAssumption DEF Init, RequestInv, Statuses, At
<1>3. PassedInv
  BY <1>1 DEF Init, PassedInv
<1>4. TableInv
  BY <1>1 DEF TableInv
<1> QED
  BY <1>2, <1>3, <1>4 DEF GatewayInv

(* A request that is answered or moved on leaves no other request queued. *)
LEMMA RequestsStayTyped ==
  ASSUME RequestInv, NEW r \in DOMAIN request, UNCHANGED <<sent, passed>>,
         \/ \E status \in Statuses : Answer(r, status)
         \/ \E stage \in Stages \ {"queued"} : Move(r, stage)
  PROVE  RequestInv'
<1>1. CASE \E status \in Statuses : Answer(r, status)
  <2>1. PICK status \in Statuses : Answer(r, status)
    BY <1>1
  <2>2. /\ DOMAIN request' = DOMAIN request \ {r}
        /\ \A q \in DOMAIN request' : request'[q] = request[q]
    BY <2>1 DEF Answer
  <2>3. answer' \in [status : Statuses, correlated : BOOLEAN]
    BY <2>1 DEF Answer
  <2> QED
    BY <2>2, <2>3 DEF RequestInv, At
<1>2. CASE \E stage \in Stages \ {"queued"} : Move(r, stage)
  <2>1. PICK stage \in Stages \ {"queued"} : Move(r, stage)
    BY <1>2
  <2>2. /\ DOMAIN request' = DOMAIN request
        /\ \A q \in DOMAIN request' \ {r} : request'[q] = request[q]
        /\ request'[r] = [request[r] EXCEPT !.stage = stage]
        /\ answer' = answer
    BY <2>1 DEF Move
  <2>3. request'[r] \in RequestRecord /\ request'[r].stage = stage
    BY <2>1, <2>2 DEF RequestInv, RequestRecord
  <2> QED
    BY <2>1, <2>2, <2>3 DEF RequestInv, At
<1> QED
  BY <1>1, <1>2

(* What passes counts against the client's window, and against no other's. *)
LEMMA CountedFits ==
  ASSUME GatewayInv, app.limit # 0, NEW c \in Clients, ~Exhausted(c),
         NEW e \in Passage, e.client = c, e.at = now, e \notin passed,
         table' = Counted(c), passed' = passed \cup {e}, app' = app
  PROVE  TableInv'
<1>0. /\ now \in Nat /\ app.limit \in Nat \ {0} /\ Window \in Nat \ {0}
      /\ passed \in SUBSET Passage /\ IsFiniteSet(passed)
      /\ \A p \in passed : p.at <= e.at
  BY GatewayAssumption DEF GatewayInv, PassedInv
<1>1. /\ DOMAIN table' = DOMAIN table \cup {c}
      /\ table'[c] = NextWindow(c)
      /\ \A d \in DOMAIN table \ {c} : table'[d] = table[d]
  BY DEF Counted
<1>2. /\ NextWindow(c) \in [start : Nat, count : Nat]
      /\ WindowFits(passed', c, NextWindow(c).start, NextWindow(c).count, app.limit)
  <2>1. CASE c \notin DOMAIN table
    <3>1. \A p \in passed : p.client # c
      BY <2>1 DEF GatewayInv, TableInv
    <3>2. KnownWindow(c) = [start |-> now, count |-> 0]
      BY <2>1 DEF KnownWindow
    <3>3. ~Expired(c)
      BY <1>0, <3>2 DEF Expired
    <3>4. NextWindow(c) = [start |-> now, count |-> 1]
      BY <3>2, <3>3 DEF NextWindow
    <3>5. WindowFits(passed \cup {e}, e.client, e.at, 1, app.limit)
      BY <1>0, <3>1, FirstPassage
    <3> QED
      BY <1>0, <3>4, <3>5
  <2>2. CASE c \in DOMAIN table
    <3>1. /\ KnownWindow(c) = table[c]
          /\ table[c] \in [start : Nat, count : Nat]
          /\ WindowFits(passed, e.client, table[c].start, table[c].count, app.limit)
      BY <2>2 DEF KnownWindow, GatewayInv, TableInv
    <3>2. CASE Expired(c)
      <4>1. NextWindow(c) = [start |-> now, count |-> 1]
        BY <3>2 DEF NextWindow
      <4>2. e.at - table[c].start >= Window
        BY <3>1, <3>2 DEF Expired
      <4>3. WindowFits(passed \cup {e}, e.client, e.at, 1, app.limit)
        BY <1>0, <3>1, <4>2, NextPassage
      <4> QED
        BY <1>0, <4>1, <4>3
    <3>3. CASE ~Expired(c)
      <4>1. NextWindow(c) = [start |-> table[c].start, count |-> table[c].count + 1]
        BY <3>1, <3>3 DEF NextWindow
      <4>2. e.at - table[c].start < Window /\ table[c].count < app.limit
        BY <1>0, <3>1, <3>3 DEF Expired, Exhausted
      <4>3. WindowFits(passed \cup {e}, e.client, table[c].start, table[c].count + 1, app.limit)
        BY <1>0, <3>1, <4>2, FurtherPassage
      <4> QED
        BY <3>1, <4>1, <4>3
    <3> QED
      BY <3>2, <3>3
  <2> QED
    BY <2>1, <2>2
<1>3. ASSUME NEW d \in DOMAIN table, d # c
      PROVE  WindowFits(passed', d, table[d].start, table[d].count, app.limit)
  <2>1. WindowFits(passed, d, table[d].start, table[d].count, app.limit)
    BY DEF GatewayInv, TableInv
  <2> QED
    BY <1>3, <2>1, OthersPassage
<1>4. \A p \in passed' : p.client \in DOMAIN table'
  BY <1>0, <1>1 DEF GatewayInv, TableInv
<1>5. DOMAIN table' \subseteq Clients
  BY <1>1 DEF GatewayInv, TableInv
<1>6. ASSUME NEW d \in DOMAIN table'
      PROVE  /\ table'[d] \in [start : Nat, count : Nat]
             /\ WindowFits(passed', d, table'[d].start, table'[d].count, app.limit)
  <2>1. CASE d = c
    BY <1>1, <1>2, <2>1
  <2>2. CASE d # c
    <3>1. d \in DOMAIN table /\ table'[d] = table[d]
      BY <1>1, <2>2
    <3>2. table[d] \in [start : Nat, count : Nat]
      BY <3>1 DEF GatewayInv, TableInv
    <3> QED
      BY <1>3, <2>2, <3>1, <3>2
  <2> QED
    BY <2>1, <2>2
<1> QED
  BY <1>4, <1>5, <1>6 DEF TableInv

(* Every step keeps the invariant. *)
LEMMA GatewayInvStep == GatewayInv /\ [Next]_vars => GatewayInv'
<1> SUFFICES ASSUME GatewayInv, [Next]_vars PROVE GatewayInv'
  OBVIOUS
<1> USE DEF GatewayInv
<1>1. ASSUME NEW c \in Clients, Arrive(c)
      PROVE  GatewayInv'
  <2>1. PICK p \in Paths, k \in BOOLEAN :
          request' = [r \in DOMAIN request \cup {sent'} |->
                       IF r = sent' THEN [client |-> c, path |-> p, authentic |-> k,
                                          arrived |-> now, stage |-> "queued"]
                       ELSE request[r]]
    BY <1>1 DEF Arrive
  <2>2. sent' = sent + 1 /\ sent < MaxRequests /\ UNCHANGED <<app, now, table, began, answer, passed>>
    BY <1>1 DEF Arrive
  <2>3. sent \in Nat /\ MaxRequests \in Nat /\ now \in Nat
    BY GatewayAssumption DEF RequestInv, PassedInv
  <2>4. /\ DOMAIN request' = DOMAIN request \cup {sent'}
        /\ request'[sent'] \in RequestRecord
        /\ \A r \in DOMAIN request : request'[r] = request[r]
    <3>1. sent' \notin DOMAIN request
      BY <2>2, <2>3 DEF RequestInv
    <3>2. [client |-> c, path |-> p, authentic |-> k, arrived |-> now, stage |-> "queued"]
             \in RequestRecord
      BY <2>3 DEF RequestRecord, Stages
    <3> QED
      BY <2>1, <3>1, <3>2
  <2>5. \A r \in At("queued")', q \in passed' : q.number # r
    <3> SUFFICES ASSUME NEW r \in At("queued")', NEW q \in passed' PROVE q.number # r
      OBVIOUS
    <3>1. q \in passed /\ q.number <= sent /\ q.number \in Nat
      BY <2>2 DEF PassedInv, Passage, Numbers
    <3>2. CASE r = sent'
      BY <2>2, <2>3, <3>1, <3>2
    <3>3. CASE r # sent'
      <4>1. r \in At("queued")
        BY <2>4, <3>3 DEF At
      <4> QED
        BY <3>1, <4>1 DEF RequestInv
    <3> QED
      BY <3>2, <3>3
  <2>6. sent' \in 0..MaxRequests /\ DOMAIN request' \subseteq 1..sent'
    BY <2>2, <2>3, <2>4 DEF RequestInv
  <2>7. \A r \in DOMAIN request' : request'[r] \in RequestRecord
    BY <2>4 DEF RequestInv
  <2>8. RequestInv'
    BY <2>2, <2>5, <2>6, <2>7 DEF RequestInv
  <2>9. PassedInv'
    <3>1. \A q \in passed : q.number \in Nat /\ q.number <= sent
      BY DEF PassedInv, Passage, Numbers
    <3> QED
      BY <2>2, <2>3, <3>1 DEF PassedInv
  <2> QED
    BY <2>2, <2>8, <2>9 DEF TableInv
<1>2. ASSUME NEW r \in Numbers, Pass(r)
      PROVE  GatewayInv'
  <2> DEFINE e == [number |-> r, client |-> request[r].client,
                   authorized |-> Authorized(r), at |-> now]
  <2>1. /\ r \in At("queued") /\ r \in DOMAIN request
        /\ request[r] \in RequestRecord
        /\ passed' = passed \cup {e}
        /\ UNCHANGED <<app, now, sent, began>>
        /\ Authorized(r)
    BY <1>2 DEF Pass, At, RequestInv
  <2>2. e \in Passage /\ e.authorized /\ e.client \in Clients
    <3>1. Authorized(r) = TRUE
      BY <2>1 DEF Authorized
    <3> QED
      BY <2>1, <3>1 DEF Passage, PassedInv, RequestRecord
  <2>3. e \notin passed /\ e.number <= sent /\ e.at <= now
    BY <2>1 DEF RequestInv, PassedInv
  <2>4. PassedInv'
    <3>1. IsFiniteSet(passed')
      BY <2>1, FS_AddElement DEF PassedInv
    <3>2. \A p \in passed' : p.number <= sent /\ p.at <= now /\ p.authorized
      BY <2>1, <2>2, <2>3 DEF PassedInv
    <3> QED
      BY <2>1, <2>2, <3>1, <3>2 DEF PassedInv
  <2>5. TableInv'
    <3>1. CASE app.limit = 0
      <4>1. table' = table /\ app' = app
        BY <1>2, <2>1, <3>1 DEF Pass
      <4> QED
        BY <3>1, <4>1 DEF TableInv
    <3>2. CASE app.limit # 0
      <4>1. ~Exhausted(e.client) /\ table' = Counted(e.client)
        BY <1>2, <3>2 DEF Pass
      <4>2. e.at = now
        OBVIOUS
      <4> HIDE DEF e
      <4> QED
        BY <2>1, <2>2, <2>3, <3>2, <4>1, <4>2, CountedFits
    <3> QED
      BY <3>1, <3>2
  <2>6. RequestInv'
    <3> DEFINE Moved == [request EXCEPT ![r].stage = "reading"]
    <3>1. \/ /\ DOMAIN request' = DOMAIN request
             /\ request'[r] = [request[r] EXCEPT !.stage = "reading"]
             /\ \A q \in DOMAIN request \ {r} : request'[q] = request[q]
             /\ answer' = answer
          \/ /\ DOMAIN request' = DOMAIN request \ {r}
             /\ \A q \in DOMAIN request' : request'[q] = request[q]
             /\ answer' \in [status : Statuses, correlated : BOOLEAN]
      <4>1. CASE request[r].path = Routed
        <5>1. Move(r, "reading")
          BY <1>2, <4>1 DEF Pass
        <5> QED
          BY <2>1, <5>1 DEF Move
      <4>2. CASE request[r].path # Routed
        <5>1. Answer(r, "not found")
          BY <1>2, <4>2 DEF Pass
        <5> QED
          BY <5>1 DEF Answer, Statuses
      <4> QED
        BY <4>1, <4>2
    <3>2. /\ DOMAIN request' \subseteq DOMAIN request
          /\ \A q \in DOMAIN request' \ {r} : request'[q] = request[q]
          /\ \A q \in DOMAIN request' : request'[q] \in RequestRecord
          /\ answer' \in [status : Statuses, correlated : BOOLEAN]
          /\ r \notin At("queued")'
      <4>1. [request[r] EXCEPT !.stage = "reading"] \in RequestRecord
        BY <2>1 DEF RequestRecord, Stages
      <4>2. [request[r] EXCEPT !.stage = "reading"].stage = "reading"
        BY <2>1 DEF RequestRecord
      <4> QED
        BY <3>1, <4>1, <4>2 DEF RequestInv, At
    <3>3. \A q \in At("queued")', p \in passed' : p.number # q
      <4> SUFFICES ASSUME NEW q \in At("queued")', NEW p \in passed' PROVE p.number # q
        OBVIOUS
      <4>1. q # r /\ q \in At("queued")
        BY <3>2 DEF At
      <4> QED
        BY <2>1, <4>1 DEF RequestInv
    <3> QED
      BY <2>1, <3>2, <3>3 DEF RequestInv
  <2> QED
    BY <2>4, <2>5, <2>6
<1>3. ASSUME NEW r \in Numbers,
             \/ AnswerOpen(r) \/ RefuseStranger(r) \/ RefuseRate(r) \/ BodyArrives(r)
             \/ RefuseBody(r) \/ BeginExecute(r) \/ EndExecute(r)
      PROVE  GatewayInv'
  <2>1. r \in DOMAIN request /\ UNCHANGED <<app, now, table, sent, passed>>
    BY <1>3 DEF AnswerOpen, RefuseStranger, RefuseRate, BodyArrives, RefuseBody,
                BeginExecute, EndExecute, At
  <2>2. \/ \E status \in Statuses : Answer(r, status)
        \/ \E stage \in Stages \ {"queued"} : Move(r, stage)
    BY <1>3 DEF AnswerOpen, RefuseStranger, RefuseRate, BodyArrives, RefuseBody,
                BeginExecute, EndExecute, Statuses, Stages
  <2>3. RequestInv'
    BY <2>1, <2>2, RequestsStayTyped
  <2>4. began' = began \/ began' = now
    BY <1>3 DEF AnswerOpen, RefuseStranger, RefuseRate, BodyArrives, RefuseBody,
                BeginExecute, EndExecute
  <2>5. PassedInv' /\ TableInv'
    BY <2>1, <2>4 DEF PassedInv, TableInv
  <2> QED
    BY <2>3, <2>5
<1>4. CASE Tick
  <2>1. now' = now + 1 /\ UNCHANGED <<app, table, sent, request, began, answer, passed>>
    BY <1>4 DEF Tick
  <2>2. RequestInv' /\ TableInv'
    BY <2>1 DEF RequestInv, TableInv, At
  <2>3. PassedInv'
    <3>1. \A p \in passed : p.at \in Nat /\ p.at <= now /\ now \in Nat
      BY DEF PassedInv, Passage
    <3> QED
      BY <2>1, <3>1 DEF PassedInv
  <2> QED
    BY <2>2, <2>3
<1>5. CASE Rest \/ UNCHANGED vars
  BY <1>5 DEF Rest, vars, RequestInv, PassedInv, TableInv, At
<1> QED
  BY <1>1, <1>2, <1>3, <1>4, <1>5 DEF Next, LoopStep

----------------------------------------------------------------------------
(* Theorems                                                                  *)

(* The invariant above holds in every reachable state. *)
THEOREM GatewayInvariant == Spec => []GatewayInv
BY GatewayInvInit, GatewayInvStep, PTL DEF Spec

(* The gateway's variables keep their types, for every limit, window and number of
   clients and requests (api.py:148-184). *)
THEOREM GatewayTypeCorrect == Spec => []GatewayTypeOK
<1>1. GatewayInv => GatewayTypeOK
  <2> SUFFICES ASSUME GatewayInv PROVE GatewayTypeOK
    OBVIOUS
  <2> USE DEF GatewayInv
  <2>1. sent \in Nat /\ DOMAIN request \subseteq Numbers
    <3>1. sent \in 0..MaxRequests /\ MaxRequests \in Nat /\ DOMAIN request \subseteq 1..sent
      BY GatewayAssumption DEF RequestInv
    <3> QED
      BY <3>1 DEF Numbers
  <2>2. passed \subseteq [number : Numbers, client : Clients, authorized : BOOLEAN, at : Nat]
    BY DEF PassedInv, Passage
  <2> QED
    BY <2>1, <2>2 DEF RequestInv, PassedInv, TableInv, RequestRecord, GatewayTypeOK
<1> QED
  BY <1>1, GatewayInvariant, PTL

(* The two ways to say what has passed agree while no passage is of the future. *)
LEMMA PassedInIsBetween ==
  ASSUME GatewayInv, NEW c, NEW t
  PROVE  /\ \A u : PassedIn(c, t, u) = Between(passed, c, t, u)
         /\ PassedIn(c, t, now + 1) = Since(passed, c, t)
<1>1. \A p \in passed : p.at \in Nat /\ now \in Nat /\ p.at < now + 1
  BY DEF GatewayInv, PassedInv, Passage
<1> QED
  BY <1>1 DEF PassedIn, Between, Since

(* The table says how many requests of each client passed in its window, and nothing
   else: refused requests and other clients leave no trace (api.py:137-143, 171-182). *)
THEOREM TableIsAccurate == Spec => []TableAccounts
<1>1. GatewayInv => TableAccounts
  <2> SUFFICES ASSUME GatewayInv PROVE TableAccounts
    OBVIOUS
  <2>1. ASSUME NEW c \in DOMAIN table
        PROVE  /\ table[c].count \in 1..app.limit
               /\ Cardinality(PassedIn(c, table[c].start, now + 1)) = table[c].count
               /\ \A p \in passed : p.client = c => p.at < table[c].start + Window
               /\ \E p \in passed : p.client = c /\ p.at = table[c].start
    <3>1. WindowFits(passed, c, table[c].start, table[c].count, app.limit)
      BY DEF GatewayInv, TableInv
    <3>2. PassedIn(c, table[c].start, now + 1) = Since(passed, c, table[c].start)
      BY PassedInIsBetween
    <3> QED
      BY <3>1, <3>2 DEF WindowFits
  <2>2. app.limit # 0 => \A p \in passed : p.authorized /\ p.client \in DOMAIN table
    BY DEF GatewayInv, PassedInv, TableInv
  <2> QED
    BY <2>1, <2>2 DEF TableAccounts
<1> QED
  BY <1>1, GatewayInvariant, PTL

(* In any Window ticks at most 2 * limit - 1 requests of a client pass, wherever its
   windows begin and end (api.py:171-182). *)
THEOREM BurstsAreBounded == Spec => []BurstBounded
<1>1. GatewayInv => BurstBounded
  <2> SUFFICES ASSUME GatewayInv, app.limit # 0, NEW c \in Clients, NEW t \in 0..now
               PROVE  Cardinality(PassedIn(c, t, t + Window)) <= 2 * app.limit - 1
    BY DEF BurstBounded
  <2>1. PassedIn(c, t, t + Window) = Between(passed, c, t, t + Window)
    BY PassedInIsBetween
  <2>a. now \in Nat /\ app.limit \in Nat
    BY GatewayAssumption DEF GatewayInv, PassedInv
  <2>2. t \in Nat /\ app.limit \in Nat \ {0}
    BY <2>a
  <2>3. CASE c \in DOMAIN table
    <3>1. WindowFits(passed, c, table[c].start, table[c].count, app.limit)
      BY <2>3 DEF GatewayInv, TableInv
    <3> QED
      BY <2>1, <2>2, <3>1 DEF WindowFits
  <2>4. CASE c \notin DOMAIN table
    <3>1. Between(passed, c, t, t + Window) = {}
      BY <2>4 DEF Between, GatewayInv, TableInv
    <3>2. Cardinality({}) = 0
      BY FS_EmptySet
    <3> QED
      BY <2>1, <2>2, <3>1, <3>2
  <2> QED
    BY <2>3, <2>4
<1> QED
  BY <1>1, GatewayInvariant, PTL

(* An answer is given to one request, with one status. *)
LEMMA AnswerIs ==
  ASSUME NEW r, NEW status, Answer(r, status)
  PROVE  DOMAIN request' = DOMAIN request \ {r} /\ answer'.status = status
BY DEF Answer

(* A client whose window is exhausted has had a full limit passed lately. *)
LEMMA ExhaustedByPassed ==
  ASSUME GatewayInv, app.limit # 0, NEW c, Exhausted(c)
  PROVE  Cardinality(PassedIn(c, now - Window + 1, now + 1)) >= app.limit
<1>1. app.limit \in Nat \ {0} /\ now \in Nat /\ Window \in Nat \ {0}
  BY GatewayAssumption DEF GatewayInv, PassedInv
<1>2. c \in DOMAIN table
  BY <1>1 DEF Exhausted, KnownWindow
<1>3. /\ table[c] \in [start : Nat, count : Nat]
      /\ WindowFits(passed, c, table[c].start, table[c].count, app.limit)
  BY <1>2 DEF GatewayInv, TableInv
<1>4. table[c].count >= app.limit /\ now - table[c].start < Window
  BY <1>1, <1>2, <1>3 DEF Exhausted, Expired, KnownWindow
<1> DEFINE S == Since(passed, c, table[c].start)
<1> DEFINE T == PassedIn(c, now - Window + 1, now + 1)
<1>5. Cardinality(S) = table[c].count
  BY <1>3 DEF WindowFits
<1>6. T = Since(passed, c, now - Window + 1) /\ IsFiniteSet(T)
  BY PassedInIsBetween, SomeOfPassed DEF GatewayInv, PassedInv
<1>7. S \in SUBSET T
  <2>1. \A p \in passed : p.at \in Nat
    BY DEF GatewayInv, PassedInv, Passage
  <2> QED
    BY <1>1, <1>3, <1>4, <1>6, <2>1 DEF Since
<1> HIDE DEF S, T
<1>8. IsFiniteSet(S) /\ Cardinality(S) <= Cardinality(T)
  BY <1>6, <1>7, FS_Subset
<1>9. Cardinality(S) \in Nat /\ Cardinality(T) \in Nat
  BY <1>6, <1>8, FS_CardinalityType
<1>10. Cardinality(T) >= app.limit
  BY <1>1, <1>3, <1>4, <1>5, <1>8, <1>9
<1> QED
  BY <1>10 DEF T

(* Who is refused for the rate has had a full limit of requests passed within the last
   Window ticks (api.py:174-180). *)
THEOREM RefusalsAreEarned == Spec => RefusalEarned
<1> DEFINE Earned ==
      \A r \in DOMAIN request \ DOMAIN request' :
        answer'.status = "too many requests" =>
          Cardinality(PassedIn(request[r].client, now - Window + 1, now + 1)) >= app.limit
<1>1. GatewayInv /\ [Next]_vars => [Earned]_vars
  <2> SUFFICES ASSUME GatewayInv, Next, NEW r, r \in DOMAIN request, r \notin DOMAIN request',
                      answer'.status = "too many requests"
               PROVE  Cardinality(PassedIn(request[r].client, now - Window + 1, now + 1))
                        >= app.limit
    OBVIOUS
  <2> HIDE DEF Earned
  <2>1. ASSUME NEW c \in Clients, Arrive(c) PROVE FALSE
    <3>1. DOMAIN request' = DOMAIN request \cup {sent'}
      BY <2>1 DEF Arrive
    <3> QED
      BY <3>1
  <2>2. ASSUME NEW q \in Numbers, BodyArrives(q) \/ BeginExecute(q) PROVE FALSE
    <3>1. DOMAIN request' = DOMAIN request
      BY <2>2 DEF BodyArrives, BeginExecute, Move
    <3> QED
      BY <3>1
  <2>3. ASSUME NEW q \in Numbers,
               AnswerOpen(q) \/ RefuseStranger(q) \/ RefuseBody(q) \/ EndExecute(q)
        PROVE  FALSE
    <3>1. PICK status \in {"open", "unauthorized", "unusable", "executed"} : Answer(q, status)
      BY <2>3, Zenon DEF AnswerOpen, RefuseStranger, RefuseBody, EndExecute
    <3>2. answer'.status = status
      BY <3>1, AnswerIs
    <3> QED
      BY <3>2
  <2>4. ASSUME NEW q \in Numbers, Pass(q) PROVE FALSE
    <3>1. CASE request[q].path = Routed
      <4>1. DOMAIN request' = DOMAIN request
        BY <2>4, <3>1 DEF Pass, Move
      <4> QED
        BY <4>1
    <3>2. CASE request[q].path # Routed
      <4>1. Answer(q, "not found")
        BY <2>4, <3>2 DEF Pass
      <4>2. answer'.status = "not found"
        BY <4>1, AnswerIs
      <4> QED
        BY <4>2
    <3> QED
      BY <3>1, <3>2
  <2>5. ASSUME Tick \/ Rest PROVE FALSE
    BY <2>5 DEF Tick, Rest, vars
  <2>6. ASSUME NEW q \in Numbers, RefuseRate(q)
        PROVE  Cardinality(PassedIn(request[r].client, now - Window + 1, now + 1))
                 >= app.limit
    <3> DEFINE c == request[r].client
    <3>a. app.limit # 0 /\ Exhausted(request[q].client) /\ Answer(q, "too many requests")
      BY <2>6 DEF RefuseRate
    <3>b. r = q
      BY <3>a, AnswerIs
    <3>1. app.limit # 0 /\ Exhausted(c)
      BY <3>a, <3>b
    <3> QED
      BY <3>1, ExhaustedByPassed
  <2> QED
    BY <2>1, <2>2, <2>3, <2>4, <2>5, <2>6 DEF Next, LoopStep
<1> QED
  BY <1>1, GatewayInvariant, PTL DEF Spec, RefusalEarned

----------------------------------------------------------------------------
(* Waiting                                                                   *)

\* Of what has passed, the requests that will not execute any more.
Done == {p \in passed : p.number \notin DOMAIN request}

\* A queued request has waited for the executions that are done, and for the part of the
\* running one that is past.
WaitInv ==
  /\ \A q, r \in At("executing") : q = r
  /\ \A r \in DOMAIN request \ At("queued") : \E p \in passed : p.number = r
  /\ Busy => began <= now /\ now - began <= ExecTicks
  /\ \A r \in At("queued") :
       /\ request[r].arrived <= now
       /\ now - request[r].arrived
            <= ExecTicks * Cardinality(Done) + (IF Busy THEN now - began ELSE 0)

(* Multiples grow with their factor. *)
LEMMA MultiplesGrow ==
  ASSUME NEW e \in Nat, NEW j \in Nat, NEW k \in Nat, j <= k
  PROVE  /\ e * j \in Nat /\ e * k \in Nat
         /\ e * j <= e * k
         /\ e * (j + 1) = e * j + e
<1>1. PICK d \in Nat : k = j + d
  BY k - j \in Nat
<1>2. e * k = e * j + e * d
  BY <1>1
<1>3. e * j \in Nat /\ e * d \in Nat
  OBVIOUS
<1>4. e * (j + 1) = e * j + e
  OBVIOUS
<1> QED
  BY <1>2, <1>3, <1>4

(* What is done stays done, as long as no request comes under an old number. *)
LEMMA DoneGrows ==
  ASSUME GatewayInv, GatewayInv', passed \subseteq passed',
         \A p \in passed : p.number \in DOMAIN request' => p.number \in DOMAIN request
  PROVE  /\ Cardinality(Done) \in Nat /\ Cardinality(Done') \in Nat
         /\ Cardinality(Done) <= Cardinality(Done')
         /\ ExecTicks * Cardinality(Done) \in Nat /\ ExecTicks * Cardinality(Done') \in Nat
         /\ ExecTicks * Cardinality(Done) <= ExecTicks * Cardinality(Done')
         /\ IsFiniteSet(Done) /\ IsFiniteSet(Done') /\ Done \subseteq Done'
<1>1. IsFiniteSet(passed) /\ IsFiniteSet(passed')
  BY DEF GatewayInv, PassedInv
<1>2. Done \in SUBSET passed /\ Done' \in SUBSET passed'
  BY DEF Done
<1>3. IsFiniteSet(Done) /\ IsFiniteSet(Done')
  BY <1>1, <1>2, FS_Subset
<1>4. Done \in SUBSET Done'
  BY DEF Done
<1>5. Cardinality(Done) <= Cardinality(Done')
  BY <1>3, <1>4, FS_Subset
<1>6. Cardinality(Done) \in Nat /\ Cardinality(Done') \in Nat
  BY <1>3, FS_CardinalityType
<1>7. ExecTicks \in Nat
  BY GatewayAssumption
<1> QED
  BY <1>3, <1>4, <1>5, <1>6, <1>7, MultiplesGrow

(* Nothing has been waited for at the start. *)
LEMMA WaitInvInit == Init => WaitInv
<1> SUFFICES ASSUME Init PROVE WaitInv
  OBVIOUS
<1>1. DOMAIN request = {}
  BY DEF Init
<1> QED
  BY <1>1 DEF WaitInv, At, Busy

(* Every step keeps the account of what has been waited for. *)
LEMMA WaitInvStep == GatewayInv /\ GatewayInv' /\ WaitInv /\ [Next]_vars => WaitInv'
<1> SUFFICES ASSUME GatewayInv, GatewayInv', WaitInv, [Next]_vars PROVE WaitInv'
  OBVIOUS
<1>t. /\ now \in Nat /\ began \in Nat /\ ExecTicks \in Nat
      /\ \A r \in DOMAIN request : request[r] \in RequestRecord /\ request[r].arrived \in Nat
  BY GatewayAssumption DEF GatewayInv, PassedInv, RequestInv, RequestRecord
<1>1. ASSUME NEW c \in Clients, Arrive(c)
      PROVE  WaitInv'
  <2>1. /\ DOMAIN request' = DOMAIN request \cup {sent'}
        /\ \A r \in DOMAIN request : request'[r] = request[r]
        /\ sent' \notin DOMAIN request
        /\ request'[sent'].stage = "queued" /\ request'[sent'].arrived = now
        /\ sent' = sent + 1 /\ sent \in Nat
        /\ UNCHANGED <<now, began, passed>>
    <3>1. sent' = sent + 1 /\ sent \in Nat
      BY <1>1, GatewayAssumption DEF Arrive, GatewayInv, RequestInv
    <3>2. sent' \notin DOMAIN request
      BY <3>1 DEF GatewayInv, RequestInv
    <3>3. PICK p \in Paths, k \in BOOLEAN :
            request' = [r \in DOMAIN request \cup {sent'} |->
                         IF r = sent' THEN [client |-> c, path |-> p, authentic |-> k,
                                            arrived |-> now, stage |-> "queued"]
                         ELSE request[r]]
      BY <1>1 DEF Arrive
    <3> QED
      BY <1>1, <3>1, <3>2, <3>3 DEF Arrive
  <2>2. At("executing")' = At("executing") /\ At("queued")' = At("queued") \cup {sent'}
    BY <2>1 DEF At
  <2>3. Busy' <=> Busy
    BY <2>2 DEF Busy
  <2>4. \A p \in passed : p.number \in Nat /\ p.number <= sent
    BY DEF GatewayInv, PassedInv, Passage, Numbers
  <2>5. /\ Cardinality(Done) \in Nat /\ Cardinality(Done') \in Nat
        /\ ExecTicks * Cardinality(Done) \in Nat /\ ExecTicks * Cardinality(Done') \in Nat
        /\ ExecTicks * Cardinality(Done) <= ExecTicks * Cardinality(Done')
    BY <2>1, <2>4, DoneGrows
  <2>6. \A r \in DOMAIN request' \ At("queued")' : \E p \in passed' : p.number = r
    BY <2>1, <2>2 DEF WaitInv
  <2>7. \A q, r \in At("executing")' : q = r
    BY <2>2 DEF WaitInv
  <2>8. Busy' => began' <= now' /\ now' - began' <= ExecTicks
    BY <2>1, <2>3 DEF WaitInv
  <2>9. ASSUME NEW r \in At("queued")'
        PROVE  /\ request'[r].arrived <= now'
               /\ now' - request'[r].arrived
                    <= ExecTicks * Cardinality(Done') + (IF Busy' THEN now' - began' ELSE 0)
    <3>1. CASE r = sent'
      BY <1>t, <2>1, <2>3, <2>5, <2>8, <3>1
    <3>2. CASE r # sent'
      <4>1. r \in At("queued") /\ r \in DOMAIN request /\ request'[r] = request[r]
        BY <2>1, <2>2, <3>2 DEF At
      <4>2. /\ request[r].arrived <= now
            /\ now - request[r].arrived
                 <= ExecTicks * Cardinality(Done) + (IF Busy THEN now - began ELSE 0)
        BY <4>1 DEF WaitInv
      <4> QED
        BY <1>t, <2>1, <2>3, <2>5, <4>1, <4>2
    <3> QED
      BY <3>1, <3>2
  <2> QED
    BY <2>6, <2>7, <2>8, <2>9 DEF WaitInv
<1>2. ASSUME NEW r \in Numbers,
             AnswerOpen(r) \/ RefuseStranger(r) \/ RefuseRate(r) \/ Pass(r) \/ RefuseBody(r)
      PROVE  WaitInv'
  <2>1. /\ ~Busy /\ r \in DOMAIN request
        /\ UNCHANGED <<now, began>>
        /\ passed \subseteq passed'
        /\ (\E status \in Statuses : Answer(r, status))
             \/ (Move(r, "reading") /\ \E p \in passed' : p.number = r)
    <3>1. CASE Pass(r)
      <4>1. ~Busy /\ r \in DOMAIN request /\ UNCHANGED <<now, began>>
        BY <3>1 DEF Pass, At
      <4>2. Move(r, "reading") \/ Answer(r, "not found")
        BY <3>1 DEF Pass
      <4>3. passed' = passed \cup {[number |-> r, client |-> request[r].client,
                                    authorized |-> Authorized(r), at |-> now]}
        BY <3>1 DEF Pass
      <4> DEFINE p == [number |-> r, client |-> request[r].client,
                       authorized |-> Authorized(r), at |-> now]
      <4>4. p \in passed' /\ p.number = r
        BY <4>3
      <4>5. passed \subseteq passed' /\ \E q \in passed' : q.number = r
        BY <4>3, <4>4
      <4>6. "not found" \in Statuses
        BY DEF Statuses
      <4> HIDE DEF p
      <4> QED
        BY <4>1, <4>2, <4>5, <4>6
    <3>2. CASE AnswerOpen(r)
      BY <3>2 DEF AnswerOpen, At, Statuses
    <3>3. CASE RefuseStranger(r)
      BY <3>3 DEF RefuseStranger, At, Statuses
    <3>4. CASE RefuseRate(r)
      BY <3>4 DEF RefuseRate, At, Statuses
    <3>5. CASE RefuseBody(r)
      BY <3>5 DEF RefuseBody, At, Statuses
    <3> QED
      BY <1>2, <3>1, <3>2, <3>3, <3>4, <3>5
  <2>2. /\ DOMAIN request' \subseteq DOMAIN request
        /\ \A q \in DOMAIN request' \ {r} : request'[q] = request[q]
        /\ r \in DOMAIN request' =>
             request'[r].stage = "reading" /\ \E p \in passed' : p.number = r
    <3>1. CASE \E status \in Statuses : Answer(r, status)
      BY <3>1 DEF Answer
    <3>2. CASE Move(r, "reading") /\ \E p \in passed' : p.number = r
      BY <1>t, <2>1, <3>2 DEF Move, RequestRecord
    <3> QED
      BY <2>1, <3>1, <3>2
  <2>3. At("executing")' = {} /\ At("queued")' \subseteq At("queued") \ {r}
    <3>1. At("executing") = {}
      BY <2>1 DEF Busy
    <3> QED
      BY <2>2, <3>1 DEF At
  <2>4. ~Busy'
    BY <2>3 DEF Busy
  <2>5. /\ ExecTicks * Cardinality(Done) \in Nat /\ ExecTicks * Cardinality(Done') \in Nat
        /\ ExecTicks * Cardinality(Done) <= ExecTicks * Cardinality(Done')
    BY <2>1, <2>2, DoneGrows
  <2>6. \A q \in DOMAIN request' \ At("queued")' : \E p \in passed' : p.number = q
    <3> SUFFICES ASSUME NEW q \in DOMAIN request' \ At("queued")'
                 PROVE  \E p \in passed' : p.number = q
      OBVIOUS
    <3>1. CASE q = r
      BY <2>2, <3>1
    <3>2. CASE q # r
      <4>1. q \in DOMAIN request \ At("queued")
        BY <2>2, <3>2 DEF At
      <4> QED
        BY <2>1, <4>1 DEF WaitInv
    <3> QED
      BY <3>1, <3>2
  <2>7. ASSUME NEW q \in At("queued")'
        PROVE  /\ request'[q].arrived <= now'
               /\ now' - request'[q].arrived <= ExecTicks * Cardinality(Done')
    <3>1. q \in At("queued") /\ q \in DOMAIN request /\ request'[q] = request[q]
      BY <2>2, <2>3 DEF At
    <3>2. /\ request[q].arrived <= now
          /\ now - request[q].arrived <= ExecTicks * Cardinality(Done) + 0
      BY <2>1, <3>1 DEF WaitInv
    <3> QED
      BY <1>t, <2>1, <2>5, <3>1, <3>2
  <2>8. ASSUME NEW q \in At("queued")'
        PROVE  /\ request'[q].arrived <= now'
               /\ now' - request'[q].arrived
                    <= ExecTicks * Cardinality(Done') + (IF Busy' THEN now' - began' ELSE 0)
    BY <2>4, <2>5, <2>7
  <2> QED
    BY <2>3, <2>4, <2>6, <2>8 DEF WaitInv
<1>3. ASSUME NEW r \in Numbers, BodyArrives(r) \/ BeginExecute(r)
      PROVE  WaitInv'
  <2>1. /\ r \in DOMAIN request \ At("queued")
        /\ r \notin At("executing")
        /\ UNCHANGED <<now, passed>>
        /\ DOMAIN request' = DOMAIN request
        /\ \A q \in DOMAIN request \ {r} : request'[q] = request[q]
        /\ request'[r].stage # "queued"
        /\ \/ request'[r].stage = "readable" /\ began' = began
           \/ request'[r].stage = "executing" /\ ~Busy /\ began' = now
    <3>1. CASE BodyArrives(r)
      BY <1>t, <3>1 DEF BodyArrives, Move, At, RequestRecord
    <3>2. CASE BeginExecute(r)
      BY <1>t, <3>2 DEF BeginExecute, Move, At, RequestRecord
    <3> QED
      BY <1>3, <3>1, <3>2
  <2>2. At("queued")' = At("queued")
    BY <2>1 DEF At
  <2>3. \/ At("executing")' = At("executing") /\ began' = began
        \/ At("executing")' = {r} /\ ~Busy /\ began' = now
    BY <2>1 DEF At, Busy
  <2>4. Busy' => began' <= now' /\ now' - began' <= ExecTicks
    BY <1>t, <2>1, <2>3 DEF Busy, WaitInv
  <2>5. /\ ExecTicks * Cardinality(Done) \in Nat /\ ExecTicks * Cardinality(Done') \in Nat
        /\ ExecTicks * Cardinality(Done) <= ExecTicks * Cardinality(Done')
    BY <2>1, DoneGrows
  <2>6. \A q \in DOMAIN request' \ At("queued")' : \E p \in passed' : p.number = q
    BY <2>1, <2>2 DEF WaitInv
  <2>7. \A q, s \in At("executing")' : q = s
    BY <2>3 DEF WaitInv
  <2>8. ASSUME NEW q \in At("queued")'
        PROVE  /\ request'[q].arrived <= now'
               /\ now' - request'[q].arrived
                    <= ExecTicks * Cardinality(Done') + (IF Busy' THEN now' - began' ELSE 0)
    <3>1. q \in At("queued") /\ q \in DOMAIN request /\ request'[q] = request[q]
      BY <2>1, <2>2 DEF At
    <3>2. /\ request[q].arrived <= now
          /\ now - request[q].arrived
               <= ExecTicks * Cardinality(Done) + (IF Busy THEN now - began ELSE 0)
      BY <3>1 DEF WaitInv
    <3>3. CASE At("executing")' = At("executing") /\ began' = began
      <4>1. Busy' <=> Busy
        BY <3>3 DEF Busy
      <4> QED
        BY <1>t, <2>1, <2>5, <3>1, <3>2, <3>3, <4>1
    <3>4. CASE ~Busy /\ began' = now
      BY <1>t, <2>1, <2>5, <3>1, <3>2, <3>4
    <3> QED
      BY <2>3, <3>3, <3>4
  <2> QED
    BY <2>4, <2>6, <2>7, <2>8 DEF WaitInv
<1>4. ASSUME NEW r \in Numbers, EndExecute(r)
      PROVE  WaitInv'
  <2>1. /\ r \in At("executing") /\ r \in DOMAIN request \ At("queued")
        /\ UNCHANGED <<now, began, passed>>
        /\ DOMAIN request' = DOMAIN request \ {r}
        /\ \A q \in DOMAIN request' : request'[q] = request[q]
    BY <1>4 DEF EndExecute, Answer, At
  <2>2. At("executing")' = {} /\ At("queued")' = At("queued")
    <3>1. \A q \in At("executing") : q = r
      BY <2>1 DEF WaitInv
    <3> QED
      BY <2>1, <3>1 DEF At
  <2>3. ~Busy' /\ Busy
    BY <2>1, <2>2 DEF Busy
  <2>4. /\ Cardinality(Done) \in Nat /\ Cardinality(Done') \in Nat
        /\ IsFiniteSet(Done) /\ IsFiniteSet(Done') /\ Done \subseteq Done'
    BY <2>1, DoneGrows
  <2>5. Cardinality(Done) + 1 <= Cardinality(Done')
    <3>1. PICK p \in passed : p.number = r
      BY <2>1 DEF WaitInv
    <3>2. p \notin Done /\ p \in Done'
      BY <2>1, <3>1 DEF Done
    <3>3. IsFiniteSet(Done \cup {p}) /\ Cardinality(Done \cup {p}) = Cardinality(Done) + 1
      BY <2>4, <3>2, FS_AddElement
    <3>4. Done \cup {p} \in SUBSET Done'
      BY <2>4, <3>2
    <3>5. Cardinality(Done \cup {p}) <= Cardinality(Done')
      BY <2>4, <3>4, FS_Subset
    <3> QED
      BY <3>3, <3>5
  <2>6. /\ ExecTicks * Cardinality(Done) + ExecTicks <= ExecTicks * Cardinality(Done')
        /\ ExecTicks * Cardinality(Done) \in Nat /\ ExecTicks * Cardinality(Done') \in Nat
    <3> DEFINE j == Cardinality(Done)
    <3> DEFINE k == Cardinality(Done')
    <3>1. j \in Nat /\ k \in Nat /\ j + 1 \in Nat /\ j + 1 <= k /\ j <= k
      BY <2>4, <2>5
    <3> HIDE DEF j, k
    <3>2. ExecTicks * (j + 1) <= ExecTicks * k /\ ExecTicks * k \in Nat
      BY <1>t, <3>1, MultiplesGrow
    <3>3. ExecTicks * (j + 1) = ExecTicks * j + ExecTicks /\ ExecTicks * j \in Nat
      BY <1>t, <3>1, MultiplesGrow
    <3>4. ExecTicks * j + ExecTicks <= ExecTicks * k
      BY <3>2, <3>3
    <3> QED
      BY <3>2, <3>3, <3>4 DEF j, k
  <2>7. \A q \in DOMAIN request' \ At("queued")' : \E p \in passed' : p.number = q
    BY <2>1, <2>2 DEF WaitInv
  <2>8. ASSUME NEW q \in At("queued")'
        PROVE  /\ request'[q].arrived <= now'
               /\ now' - request'[q].arrived
                    <= ExecTicks * Cardinality(Done') + (IF Busy' THEN now' - began' ELSE 0)
    <3>1. q \in At("queued") /\ q \in DOMAIN request /\ request'[q] = request[q]
      BY <2>1, <2>2 DEF At
    <3>2. /\ request[q].arrived <= now
          /\ now - request[q].arrived <= ExecTicks * Cardinality(Done) + (now - began)
          /\ now - began <= ExecTicks
      BY <2>3, <3>1 DEF WaitInv
    <3> QED
      BY <1>t, <2>1, <2>3, <2>6, <3>1, <3>2
  <2> QED
    BY <2>2, <2>3, <2>7, <2>8 DEF WaitInv
<1>5. CASE Tick
  <2>1. /\ now' = now + 1 /\ UNCHANGED <<request, began, passed>>
        /\ Busy => now - began < ExecTicks
        /\ ~Busy => At("queued") = {}
    BY <1>5 DEF Tick
  <2>2. /\ At("queued")' = At("queued") /\ At("executing")' = At("executing")
        /\ Done' = Done /\ (Busy' <=> Busy)
    BY <2>1 DEF At, Done, Busy
  <2>3. Busy' => began' <= now' /\ now' - began' <= ExecTicks
    BY <1>t, <2>1, <2>2 DEF WaitInv
  <2>4. ExecTicks * Cardinality(Done) \in Nat
    BY <2>1, DoneGrows
  <2>5. ASSUME NEW q \in At("queued")'
        PROVE  /\ request'[q].arrived <= now'
               /\ now' - request'[q].arrived
                    <= ExecTicks * Cardinality(Done') + (IF Busy' THEN now' - began' ELSE 0)
    <3>1. q \in At("queued") /\ q \in DOMAIN request /\ request'[q] = request[q] /\ Busy
      BY <2>1, <2>2 DEF At
    <3>2. /\ request[q].arrived <= now
          /\ now - request[q].arrived <= ExecTicks * Cardinality(Done) + (now - began)
      BY <3>1 DEF WaitInv
    <3> QED
      BY <1>t, <2>1, <2>2, <2>4, <3>1, <3>2
  <2>6. /\ \A q, r \in At("executing")' : q = r
        /\ \A r \in DOMAIN request' \ At("queued")' : \E p \in passed' : p.number = r
    BY <2>1, <2>2 DEF WaitInv
  <2> QED
    BY <2>3, <2>5, <2>6 DEF WaitInv
<1>6. CASE Rest \/ UNCHANGED vars
  <2>1. UNCHANGED <<now, request, began, passed>>
    BY <1>6 DEF Rest, vars
  <2> QED
    BY <2>1 DEF WaitInv, At, Busy, Done
<1> QED
  BY <1>1, <1>2, <1>3, <1>4, <1>5, <1>6 DEF Next, LoopStep

(* A request waits for its turn no longer than the requests that passed the limiter take
   to execute, one after the other (api.py:310). *)
THEOREM WaitsAreBounded == Spec => []WaitBounded
<1>1. Spec => [](GatewayInv /\ WaitInv)
  BY GatewayInvInit, GatewayInvStep, WaitInvInit, WaitInvStep, PTL DEF Spec
<1>2. GatewayInv /\ WaitInv => WaitBounded
  <2> SUFFICES ASSUME GatewayInv, WaitInv, NEW r \in At("queued")
               PROVE  now - request[r].arrived <= ExecTicks * Cardinality(passed)
    BY DEF WaitBounded
  <2>1. /\ IsFiniteSet(passed) /\ Cardinality(passed) \in Nat
        /\ now \in Nat /\ began \in Nat /\ ExecTicks \in Nat
    BY GatewayAssumption, FS_CardinalityType DEF GatewayInv, PassedInv
  <2>2. request[r].arrived \in Nat
    BY DEF At, GatewayInv, RequestInv, RequestRecord
  <2>3. Done \in SUBSET passed
    BY DEF Done
  <2>4. /\ IsFiniteSet(Done) /\ Cardinality(Done) \in Nat
        /\ Cardinality(Done) <= Cardinality(passed)
    BY <2>1, <2>3, FS_Subset, FS_CardinalityType
  <2> DEFINE j == Cardinality(Done)
  <2> DEFINE k == Cardinality(passed)
  <2>5. CASE ~Busy
    <3>1. now - request[r].arrived <= ExecTicks * j
      <4>1. now - request[r].arrived <= ExecTicks * Cardinality(Done) + 0
        BY <2>5 DEF WaitInv
      <4> QED
        BY <2>1, <2>4, <4>1
    <3>2. j \in Nat /\ k \in Nat /\ j <= k
      BY <2>1, <2>4
    <3> HIDE DEF j, k
    <3>3. ExecTicks * j <= ExecTicks * k /\ ExecTicks * j \in Nat /\ ExecTicks * k \in Nat
      BY <2>1, <3>2, MultiplesGrow
    <3>4. now - request[r].arrived <= ExecTicks * k
      BY <2>1, <2>2, <3>1, <3>3
    <3> QED
      BY <3>4 DEF k
  <2>6. CASE Busy
    <3>1. /\ now - request[r].arrived <= ExecTicks * j + (now - began)
          /\ now - began <= ExecTicks
      BY <2>6 DEF WaitInv
    <3>2. j + 1 <= k
      <4>1. PICK q : q \in At("executing")
        BY <2>6 DEF Busy
      <4>2. q \in DOMAIN request \ At("queued")
        BY <4>1 DEF At
      <4>3. PICK p \in passed : p.number = q
        BY <4>2 DEF WaitInv
      <4>4. p \notin Done
        BY <4>2, <4>3 DEF Done
      <4>5. Done \cup {p} \in SUBSET passed
        BY <2>3, <4>3
      <4>6. Cardinality(Done \cup {p}) <= k
        BY <2>1, <4>5, FS_Subset
      <4>7. Cardinality(Done \cup {p}) = j + 1
        BY <2>4, <4>4, FS_AddElement
      <4> QED
        BY <4>6, <4>7
    <3>3. j \in Nat /\ k \in Nat /\ j + 1 \in Nat
      BY <2>1, <2>4
    <3> HIDE DEF j, k
    <3>4. ExecTicks * (j + 1) <= ExecTicks * k /\ ExecTicks * k \in Nat
      BY <2>1, <3>2, <3>3, MultiplesGrow
    <3>5. ExecTicks * (j + 1) = ExecTicks * j + ExecTicks /\ ExecTicks * j \in Nat
      BY <2>1, <3>3, MultiplesGrow
    <3>6. now - request[r].arrived <= ExecTicks * k
      BY <2>1, <2>2, <3>1, <3>4, <3>5
    <3> QED
      BY <3>6 DEF k
  <2> QED
    BY <2>5, <2>6
<1> QED
  BY <1>1, <1>2, PTL

=============================================================================
