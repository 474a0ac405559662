--------------------------- MODULE ReportsProofs ---------------------------
(***************************************************************************)
(* Safety of the report tracker for every set of members and messages,     *)
(* every threshold of at least two and every TTL.  The inductive invariant *)
(* adds to the wanted ones that the reporters of a record are finitely     *)
(* many.                                                                   *)
(***************************************************************************)
EXTENDS Reports, FiniteSetTheorems, TLAPS

\* The inductive invariant.
FiniteReporters == \A m \in Messages : IsFiniteSet(Live(m))

IInv == TypeOK /\ FiniteReporters /\ LiveBelowThreshold /\ BansPaidByReports

-----------------------------------------------------------------------------
\* Adding one reporter adds at most one to the count.
LEMMA AddReporter ==
    ASSUME NEW S, IsFiniteSet(S), NEW u
    PROVE  /\ IsFiniteSet(S \cup {u})
           /\ Cardinality(S) \in Nat
           /\ Cardinality(S \cup {u}) \in Nat
           /\ Cardinality(S \cup {u}) <= Cardinality(S) + 1
<1>1. Cardinality(S) \in Nat
  BY FS_CardinalityType
<1>2. CASE u \in S
  <2>1. S \cup {u} = S
    BY <1>2
  <2>2. IsFiniteSet(S \cup {u}) /\ Cardinality(S \cup {u}) = Cardinality(S)
    BY <2>1, Zenon
  <2> QED
    BY <1>1, <2>2
<1>3. CASE u \notin S
  BY <1>1, <1>3, FS_AddElement
<1> QED
  BY <1>2, <1>3

\* WithReport is a record whose reporters are the live ones and the new one.
LEMMA WithReportProperties ==
    ASSUME TypeOK, NEW m \in Messages, NEW u \in Users
    PROVE  /\ WithReport(m, u) \in Record
           /\ WithReport(m, u) # NoRecord
           /\ WithReport(m, u).createdAt <= clock
           /\ WithReport(m, u).reporters = Live(m) \cup {u}
<1> DEFINE rec == WithReport(m, u)
<1>1. clock \in Nat /\ (records[m] = NoRecord \/ records[m] \in Record)
  BY DEF TypeOK
<1>2. CASE records[m] = NoRecord
  <2>1. rec = [reporters |-> {u}, createdAt |-> clock]
    BY <1>2 DEF WithReport, CreatedNow
  <2> QED
    BY <1>1, <1>2, <2>1, ReportsAssumption DEF Live, Record
<1>3. CASE records[m] # NoRecord
  <2>1. records[m] \in Record /\ records[m].createdAt <= clock
    BY <1>1, <1>3 DEF TypeOK
  <2>2. rec = [records[m] EXCEPT !.reporters = @ \cup {u}]
    BY <1>3 DEF WithReport
  <2>3. /\ rec \in Record
        /\ rec.createdAt = records[m].createdAt
        /\ rec.reporters = records[m].reporters \cup {u}
    BY <2>1, <2>2 DEF Record
  <2>4. rec # NoRecord
    BY <2>3, ReportsAssumption DEF Record
  <2> QED
    BY <1>3, <2>1, <2>3, <2>4 DEF Live
<1> QED
  BY <1>2, <1>3

\* Report preserves the invariant: it either leaves a record below the
\* threshold, or turns at least Threshold reporters into one ban.
LEMMA ReportStep ==
    ASSUME IInv, NEW m \in Messages, NEW u \in Users, Report(u, m),
           UNCHANGED <<clock, author, present, sweep>>,
           sent' = sent, inflight' \subseteq inflight
    PROVE  IInv'
<1> DEFINE rec == WithReport(m, u)
           n == Cardinality(rec.reporters)
<1>1. /\ rec \in Record
      /\ rec # NoRecord
      /\ rec.createdAt <= clock
      /\ rec.reporters = Live(m) \cup {u}
  BY WithReportProperties DEF IInv
<1>2. IsFiniteSet(Live(m)) /\ Cardinality(Live(m)) \in Nat
  BY FS_CardinalityType DEF IInv, FiniteReporters
<1>3. IsFiniteSet(rec.reporters) /\ n \in Nat /\ n <= Cardinality(Live(m)) + 1
  BY <1>1, <1>2, AddReporter
<1>4. /\ triggers[m] \in Nat /\ handled[m] \in Nat /\ banning[m] \in Nat
      /\ Threshold \in Nat /\ triggers[m] * Threshold \in Nat
  BY ReportsAssumption DEF IInv, TypeOK
<1>5. triggers[m] * Threshold + Cardinality(Live(m)) <= handled[m]
  BY DEF IInv, BansPaidByReports
<1>6. handled' = [handled EXCEPT ![m] = @ + 1]
  BY DEF Report
\* Other messages are not touched.
<1>7. \A q \in Messages \ {m} :
         /\ Live(q)' = Live(q)
         /\ triggers'[q] = triggers[q]
         /\ handled'[q] = handled[q]
  BY DEF Report, Live, IInv, TypeOK
<1>8. handled'[m] = handled[m] + 1
  BY <1>6 DEF IInv, TypeOK
<1>9. CASE Reached(n)
  <2>1. /\ records' = [records EXCEPT ![m] = NoRecord]
        /\ triggers' = [triggers EXCEPT ![m] = @ + 1]
        /\ banning' = [banning EXCEPT ![m] = @ + 1]
    BY <1>9 DEF Report, AfterTrigger
  <2>2. Live(m)' = {} /\ triggers'[m] = triggers[m] + 1
    BY <2>1 DEF Live, IInv, TypeOK
  <2>3. TypeOK'
    BY <1>6, <2>1 DEF IInv, TypeOK
  <2>4. FiniteReporters'
    BY <1>7, <2>2, FS_EmptySet DEF IInv, FiniteReporters
  <2>5. LiveBelowThreshold'
    <3>1. Cardinality({}) < Threshold
      BY FS_EmptySet, ReportsAssumption
    <3> QED
      BY <1>7, <2>2, <3>1 DEF IInv, LiveBelowThreshold
  <2>6. BansPaidByReports'
    <3>1. n >= Threshold
      BY <1>9 DEF Reached
    <3>2. triggers'[m] * Threshold = triggers[m] * Threshold + Threshold
      BY <1>4, <2>2
    <3>3. triggers'[m] * Threshold + Cardinality(Live(m)') <= handled'[m]
      BY <1>2, <1>3, <1>4, <1>5, <1>8, <2>2, <3>1, <3>2, FS_EmptySet
    <3> QED
      BY <1>7, <3>3 DEF IInv, BansPaidByReports
  <2> QED
    BY <2>3, <2>4, <2>5, <2>6 DEF IInv
<1>10. CASE ~Reached(n)
  <2>1. records' = [records EXCEPT ![m] = rec] /\ UNCHANGED <<triggers, banning>>
    BY <1>10 DEF Report
  <2>2. Live(m)' = rec.reporters
    BY <1>1, <2>1 DEF Live, IInv, TypeOK
  <2>3. TypeOK'
    <3>1. records' \in [Messages -> Record \cup {NoRecord}]
      BY <1>1, <2>1 DEF IInv, TypeOK
    <3>2. \A q \in Messages : records'[q] # NoRecord => records'[q].createdAt <= clock
      BY <1>1, <2>1 DEF IInv, TypeOK
    <3> QED
      BY <1>6, <2>1, <3>1, <3>2 DEF IInv, TypeOK
  <2>4. FiniteReporters'
    BY <1>3, <1>7, <2>2 DEF IInv, FiniteReporters
  <2>5. LiveBelowThreshold'
    <3>1. n < Threshold
      BY <1>3, <1>4, <1>10 DEF Reached
    <3> QED
      BY <1>7, <2>2, <3>1 DEF IInv, LiveBelowThreshold
  <2>6. BansPaidByReports'
    <3>1. triggers'[m] * Threshold + n <= handled'[m]
      BY <1>2, <1>3, <1>4, <1>5, <1>8, <2>1
    <3> QED
      BY <1>7, <2>2, <3>1 DEF IInv, BansPaidByReports
  <2> QED
    BY <2>3, <2>4, <2>5, <2>6 DEF IInv
<1> QED
  BY <1>9, <1>10

\* cleanup only takes records away.
LEMMA SweepStep ==
    ASSUME IInv, Sweep
    PROVE  IInv'
<1>1. /\ UNCHANGED <<clock, author, present, inflight, sent, banning, handled, triggers>>
      /\ sweep' = [sweep EXCEPT !.ready = FALSE]
      /\ records' \in [Messages -> Record \cup {NoRecord}]
      /\ \A m \in Messages : records'[m] = NoRecord \/ records'[m] = records[m]
  BY DEF Sweep, chatVars, IInv, TypeOK
<1>2. \A m \in Messages : Live(m)' = {} \/ Live(m)' = Live(m)
  BY <1>1 DEF Live
<1>3. TypeOK'
  BY <1>1 DEF IInv, TypeOK
<1>4. FiniteReporters'
  BY <1>2, FS_EmptySet DEF IInv, FiniteReporters
<1>5. LiveBelowThreshold'
  BY <1>2, FS_EmptySet, ReportsAssumption DEF IInv, LiveBelowThreshold
<1>6. BansPaidByReports'
  <2> SUFFICES ASSUME NEW m \in Messages
               PROVE  triggers'[m] * Threshold + Cardinality(Live(m)') <= handled'[m]
    BY DEF BansPaidByReports
  <2>1. triggers[m] * Threshold \in Nat /\ handled[m] \in Nat
    BY ReportsAssumption DEF IInv, TypeOK
  <2>2. triggers[m] * Threshold + Cardinality(Live(m)) <= handled[m]
    BY DEF IInv, BansPaidByReports
  <2>3. Cardinality(Live(m)) \in Nat
    BY FS_CardinalityType DEF IInv, FiniteReporters
  <2> QED
    BY <1>1, <1>2, <2>1, <2>2, <2>3, FS_EmptySet
<1> QED
  BY <1>3, <1>4, <1>5, <1>6 DEF IInv

\* Steps that leave the records and the counts alone.
LEMMA QuietStep ==
    ASSUME IInv, TypeOK', UNCHANGED <<records, handled, triggers>>
    PROVE  IInv'
BY DEF IInv, FiniteReporters, LiveBelowThreshold, BansPaidByReports, Live

\* The invariant holds initially.
LEMMA InitInvariant == Init => IInv
<1> SUFFICES ASSUME Init
             PROVE  IInv
  OBVIOUS
<1>1. \A m \in Messages : Live(m) = {}
  BY DEF Init, Live
<1>2. TypeOK
  <2>1. sweep \in [ready : BOOLEAN, at : Nat] /\ sweep.at <= clock
    BY DEF Init
  <2> QED
    BY <2>1 DEF Init, TypeOK
<1>3. FiniteReporters
  BY <1>1, FS_EmptySet DEF FiniteReporters
<1>4. LiveBelowThreshold
  BY <1>1, FS_EmptySet, ReportsAssumption DEF LiveBelowThreshold
<1>5. BansPaidByReports
  <2>1. 0 * Threshold + Cardinality({}) <= 0
    BY FS_EmptySet, ReportsAssumption
  <2> QED
    BY <1>1, <2>1 DEF Init, BansPaidByReports
<1> QED
  BY <1>2, <1>3, <1>4, <1>5 DEF IInv

\* Every step keeps the invariant.
LEMMA NextInvariant == IInv /\ [Next]_vars => IInv'
<1> SUFFICES ASSUME IInv, [Next]_vars
             PROVE  IInv'
  OBVIOUS
<1> USE DEF chatVars
<1>1. CASE Tick
  <2>1. clock \in Nat /\ clock' = clock + 1
    BY <1>1 DEF Tick, IInv, TypeOK
  <2>2. sweep.at \in Nat /\ sweep.at <= clock'
    BY <2>1 DEF IInv, TypeOK
  <2>3. \A m \in Messages : records[m] # NoRecord => records[m].createdAt <= clock'
    <3>1. ASSUME NEW m \in Messages, records[m] # NoRecord
          PROVE  records[m].createdAt <= clock'
      <4>1. records[m] \in Record /\ records[m].createdAt <= clock
        BY <3>1 DEF IInv, TypeOK
      <4>2. records[m].createdAt \in Nat
        BY <4>1 DEF Record
      <4> QED
        BY <2>1, <4>1, <4>2
    <3> QED
      BY <3>1
  <2>4. TypeOK'
    BY <1>1, <2>1, <2>2, <2>3 DEF Tick, IInv, TypeOK
  <2> QED
    BY <1>1, <2>4, QuietStep DEF Tick
<1>2. ASSUME NEW u \in Users, NEW m \in Messages, SendReport(u, m)
      PROVE  IInv'
  <2>1. TypeOK'
    BY <1>2 DEF SendReport, IInv, TypeOK
  <2> QED
    BY <1>2, <2>1, QuietStep DEF SendReport
<1>3. ASSUME NEW u \in Users, NEW m \in Messages, HandleReport(u, m)
      PROVE  IInv'
  <2>1. CASE Report(u, m)
    BY <1>3, <2>1, ReportStep DEF HandleReport
  <2>2. CASE UNCHANGED <<records, triggers, banning, handled>>
    <3>1. TypeOK'
      BY <1>3, <2>2 DEF HandleReport, IInv, TypeOK
    <3> QED
      BY <2>2, <3>1, QuietStep
  <2> QED
    BY <1>3, <2>1, <2>2 DEF HandleReport
<1>4. ASSUME NEW m \in Messages, FinishBan(m)
      PROVE  IInv'
  <2>1. banning[m] - 1 \in Nat
    BY <1>4 DEF FinishBan, IInv, TypeOK
  <2>2. TypeOK'
    BY <1>4, <2>1 DEF FinishBan, IInv, TypeOK
  <2> QED
    BY <1>4, <2>2, QuietStep DEF FinishBan
<1>5. CASE SweepNow
  <2>1. TypeOK'
    BY <1>5 DEF SweepNow, IInv, TypeOK
  <2> QED
    BY <1>5, <2>1, QuietStep DEF SweepNow
<1>6. CASE Sweep
  BY <1>6, SweepStep
<1>7. CASE UNCHANGED vars
  <2>1. TypeOK'
    BY <1>7 DEF vars, IInv, TypeOK
  <2> QED
    BY <1>7, <2>1, QuietStep DEF vars
<1> QED
  BY <1>1, <1>2, <1>3, <1>4, <1>5, <1>6, <1>7 DEF Next

-----------------------------------------------------------------------------
\* Every reachable state satisfies the inductive invariant.
THEOREM Invariance == Spec => []IInv
BY InitInvariant, NextInvariant, PTL DEF Spec

\* Type correctness of the tracker.
THEOREM TypeCorrect == Spec => []TypeOK
<1>1. IInv => TypeOK
  BY DEF IInv
<1> QED
  BY <1>1, Invariance, PTL

\* No record that reached the threshold stays in the map.
THEOREM NoneOverdue == Spec => []LiveBelowThreshold
<1>1. IInv => LiveBelowThreshold
  BY DEF IInv
<1> QED
  BY <1>1, Invariance, PTL

\* Each ban of a message's author used up Threshold reports of its own.
THEOREM BansPaid == Spec => []BansPaidByReports
<1>1. IInv => BansPaidByReports
  BY DEF IInv
<1> QED
  BY <1>1, Invariance, PTL

\* cleanup never takes a record whose TTL is not over: the clock it read is
\* not ahead of the clock when it gets the mutex.
THEOREM SweepIsPatient == Spec => OnlyExpiredSwept
<1> DEFINE A == \A m \in Messages :
                   records[m] # NoRecord /\ records'[m] = NoRecord /\ handled' = handled =>
                      records[m].createdAt + TTL < clock
<1>1. IInv /\ [Next]_vars => [A]_vars
  <2> SUFFICES ASSUME IInv, Next
               PROVE  A
    OBVIOUS
  <2> SUFFICES ASSUME NEW m \in Messages,
                      records[m] # NoRecord, records'[m] = NoRecord, handled' = handled
               PROVE  records[m].createdAt + TTL < clock
    OBVIOUS
  <2> USE DEF chatVars
  <2>1. CASE Sweep
    <3>1. Expired(records[m], sweep.at)
      BY <2>1 DEF Sweep
    <3>2. sweep.at \in Nat /\ sweep.at <= clock /\ clock \in Nat /\ TTL \in Nat
      BY ReportsAssumption DEF IInv, TypeOK
    <3>3. records[m].createdAt \in Nat
      BY DEF IInv, TypeOK, Record
    <3> QED
      BY <3>1, <3>2, <3>3 DEF Expired
  <2>2. ASSUME NEW u \in Users, NEW q \in Messages, HandleReport(u, q)
        PROVE  FALSE
    <3>1. CASE Report(u, q)
      <4>1. handled' = [handled EXCEPT ![q] = @ + 1]
        BY <3>1 DEF Report
      <4>2. handled'[q] = handled[q] + 1 /\ handled[q] \in Nat
        BY <4>1 DEF IInv, TypeOK
      <4> QED
        BY <4>2
    <3>2. CASE UNCHANGED records
      BY <3>2
    <3> QED
      BY <2>2, <3>1, <3>2 DEF HandleReport
  <2>3. CASE UNCHANGED records
    BY <2>3
  <2> QED
    BY <2>1, <2>2, <2>3 DEF Next, Tick, SendReport, FinishBan, SweepNow
<1> QED
  BY <1>1, Invariance, PTL DEF Spec, OnlyExpiredSwept
=============================================================================
