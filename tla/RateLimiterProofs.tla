------------------------- MODULE RateLimiterProofs -------------------------
(***************************************************************************)
(* Safety of the flood limiter for every set of messages and keys, every   *)
(* limit, window and number of workers.  The first lemmas say what         *)
(* filterAfter and the slice header it leaves behind contain; the          *)
(* inductive invariant IInv adds to the wanted invariants that a history   *)
(* never outgrows Limit and holds nothing but accepted messages of its     *)
(* key.  RaceInv counts the calls that are overtaken by a later clock      *)
(* value, which is how far the limit can be exceeded in a window.          *)
(***************************************************************************)
EXTENDS RateLimiter, PositionsProofs, SequenceTheorems, TLAPS

-----------------------------------------------------------------------------
\* filterAfter returns a sequence no longer than the history, of entries of
\* the history that are inside the window, and leaves none of these out.
LEMMA FilterAfterProperties ==
    ASSUME NEW h \in Seq(Messages), NEW now \in Nat
    PROVE  /\ IsFiniteSet(Kept(h, now))
           /\ filterAfter(h, now) \in Seq(Messages)
           /\ Len(filterAfter(h, now)) = Cardinality(Kept(h, now))
           /\ Len(filterAfter(h, now)) <= Len(h)
           /\ \A j \in DOMAIN filterAfter(h, now) :
                 \E i \in Kept(h, now) : filterAfter(h, now)[j] = h[i]
           /\ \A i \in Kept(h, now) :
                 \E j \in DOMAIN filterAfter(h, now) :
                    filterAfter(h, now)[j] = h[i]
<1> DEFINE K == Kept(h, now)
           F == filterAfter(h, now)
           n == Cardinality(K)
<1>1. Len(h) \in Nat /\ DOMAIN h = 1 .. Len(h)
  OBVIOUS
<1>2. K \in SUBSET (1 .. Len(h)) /\ K \in SUBSET Nat
  BY <1>1 DEF Kept
<1>3. IsFiniteSet(1 .. Len(h)) /\ Cardinality(1 .. Len(h)) = Len(h)
  BY <1>1, FS_Interval
<1>4. IsFiniteSet(K) /\ n <= Len(h)
  BY <1>2, <1>3, FS_Subset
<1>5. n \in Nat
  BY <1>4, FS_CardinalityType
<1>6. F = [j \in 1 .. n |-> h[Nth(K, j)]]
  BY DEF filterAfter, Picked
<1>7. \A j \in 1 .. n : Nth(K, j) \in K
  BY <1>2, <1>4, RankOfNth
<1>8. F \in Seq(Messages) /\ Len(F) = n /\ DOMAIN F = 1 .. n
  <2>1. \A j \in 1 .. n : h[Nth(K, j)] \in Messages
    BY <1>2, <1>7
  <2> QED
    BY <1>5, <1>6, <2>1
<1>9. ASSUME NEW i \in K
      PROVE  \E j \in DOMAIN F : F[j] = h[i]
  <2>1. Rank(K, i) \in 1 .. n
    BY <1>2, <1>4, RankBounds
  <2>2. Nth(K, Rank(K, i)) = i
    BY <1>2, <1>4, NthOfRank
  <2> QED
    BY <1>6, <1>8, <2>1, <2>2
<1> QED
  BY <1>4, <1>6, <1>7, <1>8, <1>9

\* A sequence that shows nothing twice.
Distinct(s) == \A i, j \in DOMAIN s : s[i] = s[j] => i = j

\* filterAfter repeats nothing that the history does not repeat.
LEMMA FilterAfterDistinct ==
    ASSUME NEW h \in Seq(Messages), NEW now \in Nat, Distinct(h)
    PROVE  Distinct(filterAfter(h, now))
<1> DEFINE K == Kept(h, now)
           F == filterAfter(h, now)
<1>1. K \in SUBSET Nat /\ K \subseteq DOMAIN h
  BY DEF Kept
<1>2. IsFiniteSet(K)
  BY FilterAfterProperties
<1>3. F = [j \in 1 .. Cardinality(K) |-> h[Nth(K, j)]]
  BY DEF filterAfter, Picked
<1>4. ASSUME NEW i \in DOMAIN F, NEW j \in DOMAIN F, F[i] = F[j]
      PROVE  i = j
  <2>1. i \in 1 .. Cardinality(K) /\ j \in 1 .. Cardinality(K)
    BY <1>3
  <2>2. Nth(K, i) \in K /\ Rank(K, Nth(K, i)) = i
    BY <1>1, <1>2, <2>1, RankOfNth
  <2>3. Nth(K, j) \in K /\ Rank(K, Nth(K, j)) = j
    BY <1>1, <1>2, <2>1, RankOfNth
  <2>4. h[Nth(K, i)] = h[Nth(K, j)]
    BY <1>3, <1>4, <2>1
  <2>5. Nth(K, i) = Nth(K, j)
    BY <1>1, <2>2, <2>3, <2>4 DEF Distinct
  <2> QED
    BY <2>2, <2>3, <2>5
<1> QED
  BY <1>4 DEF Distinct

\* The slice header that cleanup leaves in the map keeps the length of the
\* history, still shows only entries of the history, and shows every entry
\* that is inside the window.
LEMMA OldHeaderProperties ==
    ASSUME NEW h \in Seq(Messages), NEW now \in Nat
    PROVE  /\ OldHeader(h, now) \in Seq(Messages)
           /\ Len(OldHeader(h, now)) = Len(h)
           /\ \A j \in DOMAIN OldHeader(h, now) :
                 \E i \in DOMAIN h : OldHeader(h, now)[j] = h[i]
           /\ \A i \in Kept(h, now) :
                 \E j \in DOMAIN OldHeader(h, now) :
                    OldHeader(h, now)[j] = h[i]
<1> DEFINE F == filterAfter(h, now)
           T == SubSeq(h, Len(F) + 1, Len(h))
           O == OldHeader(h, now)
<1>1. F \in Seq(Messages) /\ Len(F) \in Nat /\ Len(h) \in Nat /\ Len(F) <= Len(h)
  BY FilterAfterProperties
<1>2. /\ T \in Seq(Messages)
      /\ Len(T) = Len(h) - Len(F)
      /\ \A i \in 1 .. Len(T) : T[i] = h[Len(F) + i]
  BY <1>1
<1>3. /\ O \in Seq(Messages)
      /\ Len(O) = Len(h)
      /\ \A i \in 1 .. Len(h) :
            O[i] = IF i <= Len(F) THEN F[i] ELSE T[i - Len(F)]
  BY <1>1, <1>2 DEF OldHeader
<1>4. ASSUME NEW j \in DOMAIN O
      PROVE  \E i \in DOMAIN h : O[j] = h[i]
  <2>1. j \in 1 .. Len(h)
    BY <1>3
  <2>2. CASE j <= Len(F)
    <3>1. j \in DOMAIN F /\ O[j] = F[j]
      BY <1>1, <1>3, <2>1, <2>2
    <3>2. PICK i \in Kept(h, now) : F[j] = h[i]
      BY <3>1, FilterAfterProperties
    <3> QED
      BY <3>1, <3>2 DEF Kept
  <2>3. CASE j > Len(F)
    <3>1. O[j] = h[j]
      BY <1>1, <1>2, <1>3, <2>1, <2>3
    <3> QED
      BY <2>1, <3>1
  <2> QED
    BY <1>1, <2>1, <2>2, <2>3
<1>5. ASSUME NEW i \in Kept(h, now)
      PROVE  \E j \in DOMAIN O : O[j] = h[i]
  <2>1. PICK j \in DOMAIN F : F[j] = h[i]
    BY FilterAfterProperties
  <2>2. j \in 1 .. Len(F) /\ j \in 1 .. Len(h)
    BY <1>1, <2>1
  <2> QED
    BY <1>1, <1>3, <2>1, <2>2
<1> QED
  BY <1>3, <1>4, <1>5

-----------------------------------------------------------------------------
\* A history never holds more than Limit entries.
Capacity == \A k \in Keys : Len(records[k]) <= Limit

\* A history holds only messages that were accepted for its key.
OnlyAccepted ==
    \A k \in Keys : \A i \in DOMAIN records[k] : records[k][i] \in Accepted(k)

IInv == TypeOK /\ Capacity /\ OnlyAccepted /\ RecentKept /\ FloodHasPredecessor

\* The variables keep their types: every step of Allow and of cleanup puts a
\* sequence of messages back and takes its times from the clock.
LEMMA TypeStep ==
    ASSUME TypeOK, [Next]_vars
    PROVE  TypeOK'
<1> USE DEF TypeOK, Stages
<1>1. CASE Tick
  <2>1. clock' = clock + 1 /\ clock \in Nat
    BY <1>1 DEF Tick
  <2>2. \A m \in Messages : stamp[m] <= clock'
    BY <2>1
  <2> QED
    BY <1>1, <2>1, <2>2 DEF Tick
<1>2. ASSUME NEW m \in Messages, TakeNow(m)
      PROVE  TypeOK'
  BY <1>2 DEF TakeNow, Now
<1>3. ASSUME NEW m \in Messages, Decide(m)
      PROVE  TypeOK'
  <2> DEFINE k == sender[m]
             fresh == filterAfter(records[k], stamp[m])
  <2>1. k \in Keys /\ records[k] \in Seq(Messages) /\ stamp[m] \in Nat
    OBVIOUS
  <2>2. fresh \in Seq(Messages)
    BY <2>1, FilterAfterProperties
  <2>3. Append(fresh, m) \in Seq(Messages)
    BY <2>2
  <2>4. records' \in [Keys -> Seq(Messages)]
    BY <1>3, <2>2, <2>3 DEF Decide
  <2>5. stage' \in [Messages -> Stages] /\ horizon' \in Nat
    BY <1>3 DEF Decide, Later
  <2> QED
    BY <1>3, <2>4, <2>5 DEF Decide
<1>4. CASE SweepNow
  BY <1>4 DEF SweepNow
<1>5. CASE Sweep
  <2>1. \A k \in Keys : OldHeader(records[k], sweep.at) \in Seq(Messages)
    BY OldHeaderProperties
  <2>2. records' \in [Keys -> Seq(Messages)]
    BY <1>5, <2>1 DEF Sweep
  <2>3. horizon' \in Nat
    BY <1>5 DEF Sweep, Later
  <2> QED
    BY <1>5, <2>2, <2>3 DEF Sweep
<1>6. CASE UNCHANGED vars
  BY <1>6 DEF vars
<1> QED
  BY <1>1, <1>2, <1>3, <1>4, <1>5, <1>6 DEF Next

\* What a step does to the messages that still count: the window only moves
\* forward, so apart from the message being decided none is added.
LEMMA CountedShrinks ==
    ASSUME TypeOK, NEW k \in Keys, NEW m \in AcceptedSince(k, horizon)',
           sender' = sender, stamp' = stamp, horizon' >= horizon, horizon' \in Nat,
           stage[m] = "allowed"
    PROVE  m \in AcceptedSince(k, horizon)
<1>1. m \in Messages /\ sender[m] = k /\ stamp[m] + Window > horizon'
  BY DEF AcceptedSince, Accepted
<1>2. stamp[m] \in Nat /\ horizon \in Nat /\ Window \in Nat
  BY <1>1, LimiterAssumption DEF TypeOK
<1> QED
  BY <1>1, <1>2 DEF AcceptedSince, Accepted

\* A call that holds the mutex preserves the inductive invariant.
LEMMA DecideStep ==
    ASSUME IInv, NEW m \in Messages, Decide(m), TypeOK',
           NEW k \in Keys, k = sender[m], NEW now \in Nat, now = stamp[m]
    PROVE  IInv'
<1> DEFINE h == records[k]
           fresh == filterAfter(h, now)
<1>1. k \in Keys /\ h \in Seq(Messages) /\ now \in Nat /\ horizon \in Nat /\ Window \in Nat
  BY LimiterAssumption DEF IInv, TypeOK
<1>2. /\ fresh \in Seq(Messages)
      /\ Len(fresh) \in Nat
      /\ Len(fresh) = Cardinality(Kept(h, now))
      /\ Len(fresh) <= Len(h)
      /\ \A j \in DOMAIN fresh : \E i \in Kept(h, now) : fresh[j] = h[i]
      /\ \A i \in Kept(h, now) : \E j \in DOMAIN fresh : fresh[j] = h[i]
  <2> HIDE DEF h
  <2>1. fresh \in Seq(Messages)
    BY <1>1, FilterAfterProperties
  <2> QED
    BY <1>1, <2>1, FilterAfterProperties
<1>3. /\ sender' = sender
      /\ stamp' = stamp
      /\ stage[m] = "sampled"
      /\ horizon' = Later(horizon, now)
      /\ \A x \in Messages \ {m} : stage'[x] = stage[x]
      /\ \A q \in Keys \ {k} : records'[q] = records[q]
  BY <1>1 DEF Decide, IInv, TypeOK
<1>4. horizon' \in Nat /\ horizon' >= horizon /\ horizon' >= now
  BY <1>1, <1>3 DEF Later
<1>5. \A q \in Keys : Accepted(q) \subseteq Accepted(q)'
  BY <1>3 DEF Accepted
\* Every entry of the old history still counted is in the filtered one.
<1>6. ASSUME NEW x \in AcceptedSince(k, horizon), x \in AcceptedSince(k, horizon)'
      PROVE  \E j \in DOMAIN fresh : fresh[j] = x
  <2>1. PICK i \in DOMAIN h : h[i] = x
    BY <1>1 DEF IInv, RecentKept, Entries
  <2>2. x \in Messages /\ stamp[x] + Window > horizon' /\ stamp[x] \in Nat
    BY <1>3, <1>6 DEF AcceptedSince, Accepted, IInv, TypeOK
  <2>3. After(x, now)
    BY <1>1, <1>4, <2>2 DEF After
  <2>4. i \in Kept(h, now)
    BY <2>1, <2>3 DEF Kept
  <2> QED
    BY <1>2, <2>1, <2>4
<1>7. CASE Len(fresh) >= Limit
  <2>1. records'[k] = fresh /\ stage'[m] = "flooded"
    BY <1>1, <1>7 DEF Decide, OverLimit, IInv, TypeOK
  <2>2. Capacity'
    <3>1. Len(fresh) <= Limit
      <4>1. Len(h) \in Nat /\ Len(h) <= Limit
        BY <1>1 DEF IInv, Capacity
      <4> QED
        BY <1>2, <4>1, LimiterAssumption
    <3>2. \A q \in Keys \ {k} : Len(records'[q]) <= Limit
      BY <1>3 DEF IInv, Capacity
    <3> QED
      BY <2>1, <3>1, <3>2 DEF Capacity
  <2>3. OnlyAccepted'
    <3>1. \A j \in DOMAIN fresh : fresh[j] \in Accepted(k)
      BY <1>1, <1>2 DEF IInv, OnlyAccepted, Kept
    <3> QED
      BY <1>1, <1>3, <1>5, <2>1, <3>1 DEF IInv, OnlyAccepted
  <2>4. RecentKept'
    <3> SUFFICES ASSUME NEW q \in Keys, NEW x \in AcceptedSince(q, horizon)'
                 PROVE  x \in Entries(q)'
      BY DEF RecentKept
    <3>1. x \in Messages /\ stage[x] = "allowed"
      BY <1>3, <2>1 DEF AcceptedSince, Accepted
    <3>2. x \in AcceptedSince(q, horizon)
      BY <1>3, <1>4, <3>1, CountedShrinks DEF IInv
    <3>3. CASE q = k
      BY <1>6, <2>1, <3>2, <3>3 DEF Entries
    <3>4. CASE q # k
      BY <1>3, <3>2, <3>4 DEF IInv, RecentKept, Entries
    <3> QED
      BY <3>3, <3>4
  <2>5. FloodHasPredecessor'
    <3>1. PICK i \in Kept(h, now) : TRUE
      <4>1. Cardinality(Kept(h, now)) # 0
        BY <1>2, <1>7, LimiterAssumption
      <4> QED
        BY <4>1, FS_EmptySet
    <3>2. h[i] \in Accepted(k) /\ stamp[h[i]] + Window > now
      BY <1>1, <3>1 DEF IInv, OnlyAccepted, Kept, After
    <3>3. h[i] \in AcceptedSince(k, now)'
      BY <1>3, <1>5, <1>1, <3>2 DEF AcceptedSince
    <3>4. \A x \in Messages \ {m} : stage'[x] = "flooded" =>
             AcceptedSince(sender[x], stamp[x])' # {}
      BY <1>3, <1>5 DEF IInv, TypeOK, FloodHasPredecessor, AcceptedSince
    <3> QED
      BY <1>3, <3>3, <3>4 DEF FloodHasPredecessor
  <2> QED
    BY <2>2, <2>3, <2>4, <2>5 DEF IInv
<1>8. CASE Len(fresh) < Limit
  <2>1. records'[k] = Append(fresh, m) /\ stage'[m] = "allowed"
    BY <1>1, <1>2, <1>8, LimiterAssumption DEF Decide, OverLimit, IInv, TypeOK
  <2>2. /\ DOMAIN Append(fresh, m) = 1 .. Len(fresh) + 1
        /\ DOMAIN fresh = 1 .. Len(fresh)
        /\ Len(Append(fresh, m)) = Len(fresh) + 1
        /\ \A j \in 1 .. Len(fresh) : Append(fresh, m)[j] = fresh[j]
        /\ Append(fresh, m)[Len(fresh) + 1] = m
    BY <1>2
  <2>3. Capacity'
    <3>1. Len(Append(fresh, m)) <= Limit
      BY <1>2, <1>8, <2>2, LimiterAssumption
    <3>2. \A q \in Keys \ {k} : Len(records'[q]) <= Limit
      BY <1>3 DEF IInv, Capacity
    <3> QED
      BY <2>1, <3>1, <3>2 DEF Capacity
  <2>4. m \in Accepted(k)'
    BY <1>3, <2>1 DEF Accepted
  <2>5. OnlyAccepted'
    <3>1. \A j \in DOMAIN fresh : fresh[j] \in Accepted(k)'
      BY <1>1, <1>2, <1>5 DEF IInv, OnlyAccepted, Kept
    <3>2. \A j \in DOMAIN Append(fresh, m) : Append(fresh, m)[j] \in Accepted(k)'
      BY <1>2, <2>2, <2>4, <3>1
    <3> QED
      BY <1>1, <1>3, <1>5, <2>1, <3>2 DEF IInv, OnlyAccepted
  <2>6. RecentKept'
    <3> SUFFICES ASSUME NEW q \in Keys, NEW x \in AcceptedSince(q, horizon)'
                 PROVE  x \in Entries(q)'
      BY DEF RecentKept
    <3>1. CASE x = m
      <4>1. q = k
        BY <1>3, <3>1 DEF AcceptedSince, Accepted
      <4> QED
        BY <1>2, <2>1, <2>2, <3>1, <4>1 DEF Entries
    <3>2. CASE x # m
      <4>1. x \in Messages /\ stage[x] = "allowed"
        BY <1>3, <3>2 DEF AcceptedSince, Accepted
      <4>2. x \in AcceptedSince(q, horizon)
        BY <1>3, <1>4, <4>1, CountedShrinks DEF IInv
      <4>3. CASE q = k
        <5>1. PICK j \in DOMAIN fresh : fresh[j] = x
          BY <1>6, <4>2, <4>3
        <5> QED
          BY <1>2, <2>1, <2>2, <4>3, <5>1 DEF Entries
      <4>4. CASE q # k
        BY <1>3, <4>2, <4>4 DEF IInv, RecentKept, Entries
      <4> QED
        BY <4>3, <4>4
    <3> QED
      BY <3>1, <3>2
  <2>7. FloodHasPredecessor'
    BY <1>3, <1>5, <2>1 DEF IInv, TypeOK, FloodHasPredecessor, AcceptedSince
  <2> QED
    BY <2>3, <2>5, <2>6, <2>7 DEF IInv
<1> QED
  <2>1. Len(fresh) \in Nat /\ Limit \in Nat
    BY <1>2, LimiterAssumption
  <2> QED
    BY <1>7, <1>8, <2>1

\* cleanup preserves the inductive invariant: it may repeat live entries but
\* drops none.
LEMMA SweepStep ==
    ASSUME IInv, Sweep, TypeOK', NEW at \in Nat, at = sweep.at
    PROVE  IInv'
<1>1. /\ \A k \in Keys : records[k] \in Seq(Messages)
      /\ horizon \in Nat /\ Window \in Nat
      /\ stamp \in [Messages -> Nat]
  BY LimiterAssumption DEF IInv, TypeOK
<1>2. /\ sender' = sender /\ stamp' = stamp /\ stage' = stage
      /\ horizon' = Later(horizon, at)
      /\ \A k \in Keys : records'[k] = IF Kept(records[k], at) = {}
                                       THEN << >>
                                       ELSE OldHeader(records[k], at)
  BY DEF Sweep
<1>3. horizon' \in Nat /\ horizon' >= horizon /\ horizon' >= at
  BY <1>1, <1>2 DEF Later
<1>4. \A k \in Keys : Accepted(k)' = Accepted(k)
  BY <1>2 DEF Accepted
<1>5. Capacity'
  <2> SUFFICES ASSUME NEW k \in Keys
               PROVE  Len(records'[k]) <= Limit
    BY DEF Capacity
  <2>1. Len(OldHeader(records[k], at)) = Len(records[k])
    BY <1>1, OldHeaderProperties
  <2> QED
    BY <1>2, <2>1, LimiterAssumption DEF IInv, Capacity
<1>6. OnlyAccepted'
  <2> SUFFICES ASSUME NEW k \in Keys, NEW j \in DOMAIN records'[k]
               PROVE  records'[k][j] \in Accepted(k)'
    BY DEF OnlyAccepted
  <2>1. records'[k] = OldHeader(records[k], at)
    BY <1>2
  <2>2. PICK i \in DOMAIN records[k] : records'[k][j] = records[k][i]
    BY <1>1, <2>1, OldHeaderProperties
  <2> QED
    BY <1>4, <2>2 DEF IInv, OnlyAccepted
<1>7. RecentKept'
  <2> SUFFICES ASSUME NEW k \in Keys, NEW x \in AcceptedSince(k, horizon)'
               PROVE  x \in Entries(k)'
    BY DEF RecentKept
  <2>1. x \in Messages /\ stage[x] = "allowed" /\ stamp[x] + Window > horizon'
    BY <1>2 DEF AcceptedSince, Accepted
  <2>2. x \in AcceptedSince(k, horizon)
    BY <1>2, <1>3, <2>1, CountedShrinks DEF IInv
  <2>3. PICK i \in DOMAIN records[k] : records[k][i] = x
    BY <2>2 DEF IInv, RecentKept, Entries
  <2>4. After(x, at)
    BY <1>1, <1>3, <2>1 DEF After
  <2>5. i \in Kept(records[k], at)
    BY <2>3, <2>4 DEF Kept
  <2>6. records'[k] = OldHeader(records[k], at)
    BY <1>2, <2>5
  <2>7. PICK j \in DOMAIN records'[k] : records'[k][j] = records[k][i]
    BY <1>1, <2>5, <2>6, OldHeaderProperties
  <2> QED
    BY <2>3, <2>7 DEF Entries
<1>8. FloodHasPredecessor'
  BY <1>2 DEF IInv, FloodHasPredecessor, AcceptedSince, Accepted
<1> QED
  BY <1>5, <1>6, <1>7, <1>8 DEF IInv

\* The steps that leave the histories and the decisions alone.
LEMMA QuietStep ==
    ASSUME IInv, TypeOK', UNCHANGED <<sender, records, horizon>>,
           \A m \in Messages :
              \/ stage'[m] = stage[m] /\ stamp'[m] = stamp[m]
              \/ stage[m] = "new" /\ stage'[m] = "sampled"
    PROVE  IInv'
<1>1. \A k \in Keys : Accepted(k)' = Accepted(k)
  BY DEF Accepted
<1>2. \A k \in Keys : \A t \in Nat : AcceptedSince(k, t)' = AcceptedSince(k, t)
  BY DEF AcceptedSince, Accepted
<1>3. Capacity'
  BY DEF IInv, Capacity
<1>4. OnlyAccepted'
  BY <1>1 DEF IInv, OnlyAccepted
<1>5. RecentKept'
  BY DEF IInv, RecentKept, Entries, AcceptedSince, Accepted
<1>6. FloodHasPredecessor'
  BY DEF IInv, FloodHasPredecessor, AcceptedSince, Accepted
<1> QED
  BY <1>3, <1>4, <1>5, <1>6 DEF IInv

\* The invariant holds initially.
LEMMA InitInvariant == Init => IInv
<1> SUFFICES ASSUME Init
             PROVE  IInv
  OBVIOUS
<1>1. TypeOK
  <2>1. records \in [Keys -> Seq(Messages)]
    BY DEF Init
  <2>2. stage \in [Messages -> Stages] /\ sweep \in [ready : BOOLEAN, at : Nat]
    BY DEF Init, Stages
  <2>3. /\ stamp \in [Messages -> Nat] /\ sender \in [Messages -> Keys]
        /\ \A m \in Messages : stamp[m] <= clock
        /\ sweep.at <= clock
    BY DEF Init
  <2> QED
    BY <2>1, <2>2, <2>3 DEF Init, TypeOK
<1>2. Capacity /\ OnlyAccepted
  BY LimiterAssumption DEF Init, Capacity, OnlyAccepted
<1>3. RecentKept /\ FloodHasPredecessor
  BY DEF Init, RecentKept, FloodHasPredecessor, AcceptedSince, Accepted
<1> QED
  BY <1>1, <1>2, <1>3 DEF IInv

\* Every step keeps the invariant.
LEMMA NextInvariant == IInv /\ [Next]_vars => IInv'
<1> SUFFICES ASSUME IInv, [Next]_vars
             PROVE  IInv'
  OBVIOUS
<1>1. TypeOK'
  BY TypeStep DEF IInv
<1>2. CASE Tick
  BY <1>1, <1>2, QuietStep DEF Tick
<1>3. ASSUME NEW m \in Messages, TakeNow(m)
      PROVE  IInv'
  <2>1. \A x \in Messages :
           \/ stage'[x] = stage[x] /\ stamp'[x] = stamp[x]
           \/ stage[x] = "new" /\ stage'[x] = "sampled"
    BY <1>3 DEF TakeNow, IInv, TypeOK
  <2> QED
    BY <1>1, <1>3, <2>1, QuietStep DEF TakeNow
<1>4. ASSUME NEW m \in Messages, Decide(m)
      PROVE  IInv'
  <2>1. sender[m] \in Keys /\ stamp[m] \in Nat
    BY DEF IInv, TypeOK
  <2> QED
    BY <1>1, <1>4, <2>1, DecideStep
<1>5. CASE SweepNow
  BY <1>1, <1>5, QuietStep DEF SweepNow
<1>6. CASE Sweep
  <2>1. sweep.at \in Nat
    BY DEF IInv, TypeOK
  <2> QED
    BY <1>1, <1>6, <2>1, SweepStep
<1>7. CASE UNCHANGED vars
  BY <1>1, <1>7, QuietStep DEF vars
<1> QED
  BY <1>2, <1>3, <1>4, <1>5, <1>6, <1>7 DEF Next

-----------------------------------------------------------------------------
\* Every reachable state satisfies the inductive invariant.
THEOREM Invariance == Spec => []IInv
<1>1. Init => IInv
  BY InitInvariant
<1>2. IInv /\ [Next]_vars => IInv'
  BY NextInvariant
<1> QED
  BY <1>1, <1>2, PTL DEF Spec

\* Type correctness of the limiter.
THEOREM TypeCorrect == Spec => []TypeOK
<1>1. IInv => TypeOK
  BY DEF IInv
<1> QED
  BY <1>1, Invariance, PTL

\* Allow and cleanup never forget an accepted message that still counts, for
\* any number of workers reading the clock too early.
THEOREM NothingForgotten == Spec => []RecentKept
<1>1. IInv => RecentKept
  BY DEF IInv
<1> QED
  BY <1>1, Invariance, PTL

-----------------------------------------------------------------------------
\* At most Limit accepted messages of a key lie inside the window that ends at
\* the latest time used under the mutex: they are all in the history of the
\* key, and a history has at most Limit entries.
HorizonWithin ==
    \A k \in Keys : /\ IsFiniteSet(AcceptedSince(k, horizon))
                    /\ Cardinality(AcceptedSince(k, horizon)) <= Limit

LEMMA HorizonLimit == IInv => HorizonWithin
<1> SUFFICES ASSUME IInv, NEW k \in Keys
             PROVE  /\ IsFiniteSet(AcceptedSince(k, horizon))
                    /\ Cardinality(AcceptedSince(k, horizon)) <= Limit
  BY DEF HorizonWithin
<1> DEFINE h == records[k]
           A == AcceptedSince(k, horizon)
           first(x) == CHOOSE i \in DOMAIN h : h[i] = x
           f == [x \in A |-> first(x)]
<1>1. Len(h) \in Nat /\ DOMAIN h = 1 .. Len(h) /\ Len(h) <= Limit
  BY DEF IInv, TypeOK, Capacity
<1>2. \A x \in A : first(x) \in 1 .. Len(h) /\ h[first(x)] = x
  BY <1>1 DEF IInv, RecentKept, Entries
<1>3. f \in Injection(A, 1 .. Len(h))
  <2>1. f \in [A -> 1 .. Len(h)]
    BY <1>2
  <2>2. ASSUME NEW x \in A, NEW y \in A, f[x] = f[y]
        PROVE  x = y
    <3>1. first(x) = first(y)
      BY <2>2
    <3>2. h[first(x)] = x /\ h[first(y)] = y
      BY <1>2
    <3> HIDE DEF first
    <3> QED
      BY <3>1, <3>2
  <2> QED
    BY <2>1, <2>2 DEF Injection, IsInjective
<1>4. IsFiniteSet(1 .. Len(h)) /\ Cardinality(1 .. Len(h)) = Len(h)
  BY <1>1, FS_Interval
<1>5. IsFiniteSet(A) /\ Cardinality(A) <= Len(h)
  BY <1>3, <1>4, FS_Injection
<1>6. Cardinality(A) \in Nat
  BY <1>5, FS_CardinalityType
<1> QED
  BY <1>1, <1>5, <1>6, LimiterAssumption

\* The accepted messages of a window that were decided in time.
InTime(k, t) == {m \in AcceptedIn(k, t) : ~Overtaken(m, t)}

\* The calls between their reading of the clock and their decision.
Sampled == {m \in Messages : stage[m] = "sampled"}

\* The calls with a now of at most t that are still to be decided, or were
\* decided after a later time had been used.
Late(t) == {m \in Messages : /\ stage[m] # "new" /\ stamp[m] <= t
                             /\ stage[m] = "sampled" \/ Overtaken(m, t)}

\* Once a time behind t has been used, nothing new gets into Late(t): whoever
\* reads the clock from now on reads more than t.
RaceInv ==
    /\ horizon <= clock
    /\ \A m \in Messages : found[m] <= horizon
    /\ IsFiniteSet(Sampled) /\ Cardinality(Sampled) <= WorkerCount
    /\ \A t \in Nat : t < horizon =>
          IsFiniteSet(Late(t)) /\ Cardinality(Late(t)) <= WorkerCount
    /\ \A k \in Keys, t \in Nat :
          IsFiniteSet(InTime(k, t)) /\ Cardinality(InTime(k, t)) <= Limit

\* A subset of a set within a bound is within it.
LEMMA SubsetWithin ==
    ASSUME NEW A, IsFiniteSet(A), NEW n \in Nat, Cardinality(A) <= n,
           NEW B, B \subseteq A
    PROVE  IsFiniteSet(B) /\ Cardinality(B) <= n
<1>1. IsFiniteSet(B) /\ Cardinality(B) <= Cardinality(A)
  BY FS_Subset
<1>2. Cardinality(B) \in Nat /\ Cardinality(A) \in Nat
  BY <1>1, FS_CardinalityType
<1> QED
  BY <1>1, <1>2

\* What moves the horizon: calls leave Sampled only by being decided with the
\* horizon they found, and a window behind the horizon gains nothing.
LEMMA HorizonMoves ==
    ASSUME IInv, IInv', RaceInv, HorizonWithin',
           UNCHANGED <<clock, sender, stamp>>,
           horizon' >= horizon, horizon' <= clock,
           Sampled' \subseteq Sampled,
           \A x \in Messages :
              \/ stage'[x] = stage[x] /\ found'[x] = found[x]
              \/ /\ stage[x] = "sampled" /\ stage'[x] # "new"
                 /\ found'[x] = horizon
                 /\ stamp[x] <= horizon' /\ (horizon < horizon' => stamp[x] = horizon')
    PROVE  RaceInv'
<1>1. /\ horizon \in Nat /\ horizon' \in Nat /\ clock \in Nat
      /\ Window \in Nat /\ Limit \in Nat /\ WorkerCount \in Nat
      /\ stamp \in [Messages -> Nat] /\ found \in [Messages -> Nat]
      /\ found' \in [Messages -> Nat]
  BY LimiterAssumption DEF IInv, TypeOK
<1>2. \A x \in Messages : found'[x] <= horizon'
  BY <1>1 DEF RaceInv
<1>3. IsFiniteSet(Sampled') /\ Cardinality(Sampled') <= WorkerCount
  BY <1>1, SubsetWithin DEF RaceInv
<1>4. ASSUME NEW t \in Nat, t < horizon'
      PROVE  IsFiniteSet(Late(t)') /\ Cardinality(Late(t)') <= WorkerCount
  <2>1. CASE t < horizon
    <3>1. Late(t)' \subseteq Late(t)
      BY <1>1, <2>1 DEF Late, Overtaken
    <3> QED
      BY <1>1, <2>1, <3>1, SubsetWithin DEF RaceInv
  <2>2. CASE horizon <= t
    <3>1. Late(t)' \subseteq Sampled
      BY <1>1, <2>2 DEF Late, Overtaken, Sampled, RaceInv
    <3> QED
      BY <1>1, <3>1, SubsetWithin DEF RaceInv
  <2> QED
    BY <1>1, <2>1, <2>2
<1>5. ASSUME NEW k \in Keys, NEW t \in Nat
      PROVE  IsFiniteSet(InTime(k, t)') /\ Cardinality(InTime(k, t)') <= Limit
  <2>1. CASE t < horizon'
    <3>1. InTime(k, t)' \subseteq InTime(k, t)
      BY <1>1, <2>1 DEF InTime, AcceptedIn, AcceptedSince, Accepted, Overtaken
    <3> QED
      BY <1>1, <3>1, SubsetWithin DEF RaceInv
  <2>2. CASE horizon' <= t
    <3>1. InTime(k, t)' \subseteq AcceptedSince(k, horizon)'
      BY <1>1, <2>2 DEF InTime, AcceptedIn, AcceptedSince, Accepted
    <3> QED
      BY <1>1, <3>1, SubsetWithin DEF HorizonWithin
  <2> QED
    BY <1>1, <2>1, <2>2
<1> QED
  BY <1>2, <1>3, <1>4, <1>5 DEF RaceInv

\* The steps that use no time under the mutex.
LEMMA HorizonStays ==
    ASSUME IInv, IInv', RaceInv, UNCHANGED <<sender, horizon, found>>,
           horizon' <= clock',
           \A x \in Messages : stage'[x] = stage[x] /\ stamp'[x] = stamp[x]
    PROVE  RaceInv'
<1>1. Sampled' = Sampled
  BY DEF Sampled
<1>2. \A t \in Nat : Late(t)' = Late(t)
  BY DEF Late, Overtaken
<1>3. \A k \in Keys, t \in Nat : InTime(k, t)' = InTime(k, t)
  BY DEF InTime, AcceptedIn, AcceptedSince, Accepted, Overtaken
<1> QED
  BY <1>1, <1>2, <1>3 DEF RaceInv

\* Reading the clock: there was a free caller, and what it reads is not
\* before the horizon.
LEMMA TakeNowRaces ==
    ASSUME IInv, IInv', RaceInv, NEW m \in Messages, TakeNow(m)
    PROVE  RaceInv'
<1>1. /\ stage[m] = "new" /\ Cardinality(Sampled) < WorkerCount
      /\ stage' = [stage EXCEPT ![m] = "sampled"]
      /\ stamp' = [stamp EXCEPT ![m] = clock]
      /\ UNCHANGED <<clock, sender, horizon, found>>
  BY DEF TakeNow, Sampled, Now
<1>2. /\ clock \in Nat /\ horizon \in Nat /\ WorkerCount \in Nat /\ Limit \in Nat
      /\ stage \in [Messages -> Stages] /\ stamp \in [Messages -> Nat]
      /\ found \in [Messages -> Nat]
  BY LimiterAssumption DEF IInv, TypeOK
<1>3. IsFiniteSet(Sampled') /\ Cardinality(Sampled') <= WorkerCount
  <2>1. Sampled' = Sampled \cup {m} /\ m \notin Sampled
    BY <1>1, <1>2 DEF Sampled
  <2>2. /\ IsFiniteSet(Sampled \cup {m})
        /\ Cardinality(Sampled \cup {m}) = Cardinality(Sampled) + 1
    BY <2>1, FS_AddElement DEF RaceInv
  <2>3. Cardinality(Sampled) \in Nat
    BY FS_CardinalityType DEF RaceInv
  <2> QED
    BY <1>1, <1>2, <2>1, <2>2, <2>3
<1>4. ASSUME NEW t \in Nat, t < horizon
      PROVE  IsFiniteSet(Late(t)') /\ Cardinality(Late(t)') <= WorkerCount
  <2>1. Late(t)' \subseteq Late(t)
    BY <1>1, <1>2, <1>4 DEF Late, Overtaken, RaceInv
  <2> QED
    BY <1>2, <1>4, <2>1, SubsetWithin DEF RaceInv
<1>5. \A k \in Keys, t \in Nat : InTime(k, t)' = InTime(k, t)
  BY <1>1, <1>2 DEF InTime, AcceptedIn, AcceptedSince, Accepted, Overtaken
<1> QED
  BY <1>1, <1>3, <1>4, <1>5 DEF RaceInv

\* Every step keeps the races within their bounds.
LEMMA RaceStep ==
    IInv /\ IInv' /\ HorizonWithin' /\ RaceInv /\ [Next]_vars => RaceInv'
<1> SUFFICES ASSUME IInv, IInv', HorizonWithin', RaceInv, [Next]_vars
             PROVE  RaceInv'
  OBVIOUS
<1>1. /\ clock \in Nat /\ horizon \in Nat /\ sweep.at \in Nat /\ horizon <= clock
      /\ stage \in [Messages -> Stages] /\ stamp \in [Messages -> Nat]
      /\ found \in [Messages -> Nat]
      /\ \A x \in Messages : stamp[x] <= clock
      /\ sweep.at <= clock
  BY DEF IInv, TypeOK, RaceInv
<1>2. CASE Tick
  BY <1>1, <1>2, HorizonStays DEF Tick
<1>3. ASSUME NEW m \in Messages, TakeNow(m)
      PROVE  RaceInv'
  BY <1>3, TakeNowRaces
<1>4. ASSUME NEW m \in Messages, Decide(m)
      PROVE  RaceInv'
  <2>1. /\ stage[m] = "sampled" /\ stage'[m] \in {"allowed", "flooded"}
        /\ \A x \in Messages \ {m} : stage'[x] = stage[x] /\ found'[x] = found[x]
        /\ found'[m] = horizon
        /\ horizon' = Later(horizon, stamp[m])
        /\ UNCHANGED <<clock, sender, stamp>>
    BY <1>1, <1>4 DEF Decide
  <2>2. Sampled' \subseteq Sampled
    BY <2>1 DEF Sampled
  <2>3. /\ horizon' >= horizon /\ horizon' <= clock /\ stamp[m] <= horizon'
        /\ horizon < horizon' => stamp[m] = horizon'
    BY <1>1, <2>1 DEF Later
  <2> QED
    BY <2>1, <2>2, <2>3, HorizonMoves
<1>5. CASE SweepNow
  BY <1>1, <1>5, HorizonStays DEF SweepNow
<1>6. CASE Sweep
  <2>1. horizon' >= horizon /\ horizon' <= clock
    BY <1>1, <1>6 DEF Sweep, Later
  <2>2. UNCHANGED <<clock, sender, stage, stamp, found>>
    BY <1>6 DEF Sweep
  <2>3. Sampled' \subseteq Sampled
    BY <2>2 DEF Sampled
  <2> QED
    BY <2>1, <2>2, <2>3, HorizonMoves
<1>7. CASE UNCHANGED vars
  BY <1>1, <1>7, HorizonStays DEF vars
<1> QED
  BY <1>2, <1>3, <1>4, <1>5, <1>6, <1>7 DEF Next

\* Nothing is accepted and nobody races at the start.
LEMMA RaceInit == Init => RaceInv
<1> SUFFICES ASSUME Init
             PROVE  RaceInv
  OBVIOUS
<1>1. Limit \in Nat /\ WorkerCount \in Nat
  BY LimiterAssumption
<1>2. Sampled = {}
  BY DEF Init, Sampled
<1>3. \A k \in Keys, t \in Nat : InTime(k, t) = {}
  BY DEF Init, InTime, AcceptedIn, AcceptedSince, Accepted
<1>4. IsFiniteSet({}) /\ Cardinality({}) = 0
  BY FS_EmptySet
<1>5. IsFiniteSet(Sampled) /\ Cardinality(Sampled) <= WorkerCount
  BY <1>1, <1>2, <1>4
<1>6. \A k \in Keys, t \in Nat :
         IsFiniteSet(InTime(k, t)) /\ Cardinality(InTime(k, t)) <= Limit
  BY <1>1, <1>3, <1>4
<1>7. horizon = 0 /\ horizon <= clock /\ \A m \in Messages : found[m] <= horizon
  BY DEF Init
<1> QED
  BY <1>5, <1>6, <1>7 DEF RaceInv

\* In every reachable state the races stay within their bounds.
THEOREM Races == Spec => []RaceInv
BY RaceInit, RaceStep, HorizonLimit, Invariance, PTL DEF Spec

\* How far the flood limit holds for every window of the past: at most Limit
\* accepted messages were decided before a time behind the window was used
\* under the mutex, and at most WorkerCount after it, those whose callers had
\* read the clock already.
THEOREM WindowsLimited == Spec => []WindowLimit
<1>1. ASSUME IInv, RaceInv, NEW k \in Keys, NEW t \in Nat
      PROVE  /\ Cardinality({m \in AcceptedIn(k, t) : ~Overtaken(m, t)}) <= Limit
             /\ Cardinality({m \in AcceptedIn(k, t) : Overtaken(m, t)}) <= WorkerCount
  <2> DEFINE L == {m \in AcceptedIn(k, t) : Overtaken(m, t)}
  <2>1. Cardinality({m \in AcceptedIn(k, t) : ~Overtaken(m, t)}) <= Limit
    BY <1>1 DEF RaceInv, InTime
  <2>2. /\ horizon \in Nat /\ WorkerCount \in Nat /\ found \in [Messages -> Nat]
        /\ \A m \in Messages : found[m] <= horizon
    BY <1>1, LimiterAssumption DEF IInv, TypeOK, RaceInv
  <2>3. CASE t < horizon
    <3>1. L \subseteq Late(t)
      BY DEF Late, AcceptedIn, AcceptedSince, Accepted
    <3>2. IsFiniteSet(Late(t)) /\ Cardinality(Late(t)) <= WorkerCount
      BY <1>1, <2>3 DEF RaceInv
    <3> HIDE DEF L
    <3>3. Cardinality(L) <= WorkerCount
      BY <2>2, <3>1, <3>2, SubsetWithin
    <3> QED
      BY <2>1, <3>3 DEF L
  <2>4. CASE ~(t < horizon)
    <3>1. L = {}
      BY <2>2, <2>4 DEF Overtaken, AcceptedIn, AcceptedSince, Accepted
    <3>2. Cardinality(L) <= WorkerCount
      BY <2>2, <3>1, FS_EmptySet
    <3> QED
      BY <2>1, <3>2
  <2> QED
    BY <2>3, <2>4
<1>2. ASSUME IInv, RaceInv
      PROVE  WindowLimit
  <2>1. \A t \in 0 .. clock : t \in Nat
    BY <1>2 DEF IInv, TypeOK
  <2> QED
    BY <1>1, <1>2, <2>1 DEF WindowLimit
<1> QED
  BY <1>2, Invariance, Races, PTL

\* What remains of the promise of New under stale clock values: no window ever
\* holds more than Limit + WorkerCount accepted messages of a key.
THEOREM LimitStretched ==
    Spec => [](\A k \in Keys, t \in 0 .. clock :
                  Cardinality(AcceptedIn(k, t)) <= Limit + WorkerCount)
<1>1. ASSUME IInv, RaceInv, WindowLimit, NEW k \in Keys, NEW t \in 0 .. clock
      PROVE  Cardinality(AcceptedIn(k, t)) <= Limit + WorkerCount
  <2> DEFINE A == AcceptedIn(k, t)
             P == {m \in A : ~Overtaken(m, t)}
             L == {m \in A : Overtaken(m, t)}
  <2>1. /\ t \in Nat /\ horizon \in Nat /\ Limit \in Nat /\ WorkerCount \in Nat
        /\ found \in [Messages -> Nat]
        /\ \A m \in Messages : found[m] <= horizon
    BY <1>1, LimiterAssumption DEF IInv, TypeOK, RaceInv
  <2>2. Cardinality(P) <= Limit /\ Cardinality(L) <= WorkerCount
    BY <1>1 DEF WindowLimit
  <2>3. IsFiniteSet(P)
    BY <1>1, <2>1 DEF RaceInv, InTime
  <2>4. IsFiniteSet(L)
    <3>1. CASE t < horizon
      <4>1. IsFiniteSet(Late(t)) /\ L \subseteq Late(t)
        BY <1>1, <2>1, <3>1 DEF RaceInv, Late, AcceptedIn, AcceptedSince, Accepted
      <4> HIDE DEF L
      <4> QED
        BY <4>1, FS_Subset
    <3>2. CASE ~(t < horizon)
      <4>1. L = {}
        BY <2>1, <3>2 DEF Overtaken, AcceptedIn, AcceptedSince, Accepted
      <4> QED
        BY <4>1, FS_EmptySet
    <3> QED
      BY <3>1, <3>2
  <2>5. A = P \cup L /\ P \cap L = {}
    OBVIOUS
  <2> HIDE DEF A, P, L
  <2>6. /\ IsFiniteSet(A)
        /\ Cardinality(A) = Cardinality(P) + Cardinality(L) - Cardinality(P \cap L)
    BY <2>3, <2>4, <2>5, FS_Union
  <2>7. Cardinality(P) \in Nat /\ Cardinality(L) \in Nat /\ Cardinality(P \cap L) = 0
    BY <2>3, <2>4, <2>5, FS_CardinalityType, FS_EmptySet
  <2>8. Cardinality(A) <= Limit + WorkerCount
    BY <2>1, <2>2, <2>6, <2>7
  <2> QED
    BY <2>8 DEF A
<1>2. IInv /\ RaceInv /\ WindowLimit =>
         \A k \in Keys, t \in 0 .. clock :
            Cardinality(AcceptedIn(k, t)) <= Limit + WorkerCount
  BY <1>1
<1> QED
  BY <1>2, Invariance, Races, WindowsLimited, PTL

\* A message is never called flood on its own: the sender had a message
\* accepted inside its window, even when cleanup has garbled the history.
THEOREM FloodNeverAlone == Spec => []FloodHasPredecessor
<1>1. IInv => FloodHasPredecessor
  BY DEF IInv
<1> QED
  BY <1>1, Invariance, PTL

-----------------------------------------------------------------------------
\* Until cleanup runs, no history shows a message twice, so a full history is
\* Limit different messages.
NoRepeats == \A k \in Keys : Distinct(records[k])

FinitelyAccepted == \A k \in Keys : IsFiniteSet(Accepted(k))

CountInv ==
    /\ FinitelyAccepted
    /\ ~sweeps => NoRepeats
    /\ FloodJustifiedBeforeSweep

\* The messages accepted for a key grow by at most the one being decided.
LEMMA AcceptedGrows ==
    ASSUME IInv, NEW m \in Messages, Decide(m), NEW k \in Keys
    PROVE  Accepted(k) \subseteq Accepted(k)' /\ Accepted(k)' \subseteq Accepted(k) \cup {m}
BY DEF Decide, Accepted, IInv, TypeOK

\* A finite set into which a sequence without repetitions goes has at least as
\* many elements as the sequence is long.
LEMMA DistinctFills ==
    ASSUME NEW A, IsFiniteSet(A), NEW s \in Seq(A), Distinct(s)
    PROVE  Cardinality(A) >= Len(s)
<1>1. Len(s) \in Nat /\ DOMAIN s = 1 .. Len(s) /\ s \in [1 .. Len(s) -> A]
  OBVIOUS
<1>2. s \in Injection(1 .. Len(s), A)
  BY <1>1 DEF Injection, IsInjective, Distinct
<1>3. IsFiniteSet(1 .. Len(s)) /\ Cardinality(1 .. Len(s)) = Len(s)
  BY <1>1, FS_Interval
<1>4. Cardinality(1 .. Len(s)) <= Cardinality(A)
  BY <1>2, FS_Injection
<1>5. Cardinality(A) \in Nat
  BY FS_CardinalityType
<1> QED
  BY <1>1, <1>3, <1>4, <1>5

\* A message that was flooded already stays justified: acceptances only add up.
LEMMA StillJustified ==
    ASSUME FinitelyAccepted, FinitelyAccepted', NEW x \in Messages,
           sender[x] \in Keys, sender'[x] = sender[x], stamp' = stamp,
           Accepted(sender[x]) \subseteq Accepted(sender[x])',
           Limit \in Nat,
           Cardinality(AcceptedSince(sender[x], stamp[x])) >= Limit
    PROVE  Cardinality(AcceptedSince(sender[x], stamp[x])') >= Limit
<1> DEFINE A == AcceptedSince(sender[x], stamp[x])
           B == AcceptedSince(sender[x], stamp[x])'
<1>1. B = {m \in Accepted(sender[x])' : stamp[m] + Window > stamp[x]}
  BY DEF AcceptedSince, Accepted
<1>2. A = {m \in Accepted(sender[x]) : stamp[m] + Window > stamp[x]}
  BY DEF AcceptedSince
<1>3. A \subseteq B /\ B \subseteq Accepted(sender[x])'
  BY <1>1, <1>2
<1>4. IsFiniteSet(Accepted(sender[x])')
  BY DEF FinitelyAccepted, Accepted
<1>5. IsFiniteSet(B)
  BY <1>3, <1>4, FS_Subset
<1>6. IsFiniteSet(A) /\ Cardinality(A) <= Cardinality(B)
  BY <1>3, <1>5, FS_Subset
<1>7. Cardinality(A) \in Nat /\ Cardinality(B) \in Nat
  BY <1>5, <1>6, FS_CardinalityType
<1> HIDE DEF A, B
<1>8. Cardinality(A) >= Limit
  BY DEF A
<1>9. Cardinality(B) >= Limit
  BY <1>6, <1>7, <1>8
<1> QED
  BY <1>9 DEF B

\* A decision keeps the counts right: what is counted against a message are
\* different accepted messages of its own key and window.
LEMMA DecideCounts ==
    ASSUME IInv, CountInv, NEW m \in Messages, Decide(m), TypeOK',
           NEW k \in Keys, k = sender[m], NEW now \in Nat, now = stamp[m]
    PROVE  CountInv'
<1> DEFINE h == records[k]
           fresh == filterAfter(h, now)
<1>1. h \in Seq(Messages) /\ Limit \in Nat /\ Window \in Nat
  BY LimiterAssumption DEF IInv, TypeOK
<1>2. /\ sender' = sender /\ stamp' = stamp /\ sweeps' = sweeps
      /\ stage[m] = "sampled"
      /\ \A x \in Messages \ {m} : stage'[x] = stage[x]
      /\ \A q \in Keys \ {k} : records'[q] = records[q]
      /\ \/ records'[k] = fresh /\ stage'[m] = "flooded" /\ Len(fresh) >= Limit
         \/ records'[k] = Append(fresh, m) /\ stage'[m] = "allowed"
  BY DEF Decide, IInv, TypeOK, OverLimit
<1>3. FinitelyAccepted'
  <2> SUFFICES ASSUME NEW q \in Keys
               PROVE  IsFiniteSet(Accepted(q)')
    BY DEF FinitelyAccepted, Accepted
  <2>1. IsFiniteSet(Accepted(q) \cup {m})
    BY FS_AddElement DEF CountInv, FinitelyAccepted
  <2> QED
    BY <2>1, AcceptedGrows, FS_Subset
<1>4. /\ fresh \in Seq(Messages) /\ Len(fresh) \in Nat /\ DOMAIN fresh = 1 .. Len(fresh)
      /\ \A j \in DOMAIN fresh : \E i \in Kept(h, now) : fresh[j] = h[i]
  <2>1. fresh \in Seq(Messages)
    BY <1>1, FilterAfterProperties
  <2> HIDE DEF fresh
  <2>2. Len(fresh) \in Nat /\ DOMAIN fresh = 1 .. Len(fresh)
    BY <2>1
  <2> QED
    BY <1>1, <2>1, <2>2, FilterAfterProperties DEF fresh
\* What is counted was accepted for this key, inside the window of m.
<1>5. \A j \in DOMAIN fresh : fresh[j] \in AcceptedSince(k, now) /\ fresh[j] # m
  <2> SUFFICES ASSUME NEW j \in DOMAIN fresh
               PROVE  fresh[j] \in AcceptedSince(k, now) /\ fresh[j] # m
    OBVIOUS
  <2>1. PICK i \in Kept(h, now) : fresh[j] = h[i]
    BY <1>4
  <2>2. h[i] \in Accepted(k) /\ stamp[h[i]] + Window > now
    BY <2>1 DEF IInv, OnlyAccepted, Kept, After
  <2> QED
    BY <1>2, <2>1, <2>2 DEF AcceptedSince, Accepted
<1>6. ~sweeps => Distinct(fresh)
  BY <1>1, FilterAfterDistinct DEF CountInv, NoRepeats
<1>7. ~sweeps' => NoRepeats'
  <2> HIDE DEF fresh
  <2> SUFFICES ASSUME ~sweeps, NEW q \in Keys
               PROVE  Distinct(records'[q])
    BY <1>2 DEF NoRepeats
  <2>1. CASE q # k
    BY <1>2, <2>1 DEF CountInv, NoRepeats
  <2>2. CASE q = k /\ records'[k] = fresh
    BY <1>6, <2>2
  <2>3. CASE q = k /\ records'[k] = Append(fresh, m)
    <3>1. /\ DOMAIN Append(fresh, m) = 1 .. Len(fresh) + 1
          /\ \A j \in 1 .. Len(fresh) : Append(fresh, m)[j] = fresh[j]
          /\ Append(fresh, m)[Len(fresh) + 1] = m
      BY <1>4
    <3> SUFFICES ASSUME NEW i \in 1 .. Len(fresh) + 1, NEW j \in 1 .. Len(fresh) + 1,
                        Append(fresh, m)[i] = Append(fresh, m)[j]
                 PROVE  i = j
      BY <2>3, <3>1 DEF Distinct
    <3>2. CASE i \in 1 .. Len(fresh) /\ j \in 1 .. Len(fresh)
      BY <1>4, <1>6, <3>1, <3>2 DEF Distinct
    <3>3. CASE i = Len(fresh) + 1 /\ j \in 1 .. Len(fresh)
      BY <1>4, <1>5, <3>1, <3>3
    <3>4. CASE j = Len(fresh) + 1 /\ i \in 1 .. Len(fresh)
      BY <1>4, <1>5, <3>1, <3>4
    <3> QED
      BY <1>4, <3>2, <3>3, <3>4
  <2> QED
    BY <1>2, <2>1, <2>2, <2>3
<1>8. FloodJustifiedBeforeSweep'
  <2> SUFFICES ASSUME ~sweeps, NEW x \in Messages, stage'[x] = "flooded"
               PROVE  Cardinality(AcceptedSince(sender[x], stamp[x])') >= Limit
    BY <1>2 DEF FloodJustifiedBeforeSweep, FloodJustified, AcceptedSince, Accepted
  <2>1. CASE x # m
    <3>1. Cardinality(AcceptedSince(sender[x], stamp[x])) >= Limit
      BY <1>2, <2>1 DEF CountInv, FloodJustifiedBeforeSweep, FloodJustified
    <3>2. sender[x] \in Keys
      BY DEF IInv, TypeOK
    <3> QED
      BY <1>1, <1>2, <1>3, <3>1, <3>2, AcceptedGrows, StillJustified DEF CountInv
  <2>2. CASE x = m
    <3> DEFINE A == AcceptedSince(k, now)'
    <3>1. Len(fresh) >= Limit
      BY <1>2, <2>2
    <3>2. \A j \in DOMAIN fresh : fresh[j] \in A
      BY <1>2, <1>5, AcceptedGrows DEF AcceptedSince
    <3>3. fresh \in Seq(A)
      <4> HIDE DEF fresh, A
      <4> QED
        BY <1>4, <3>2
    <3>4. IsFiniteSet(A)
      <4>1. IsFiniteSet(Accepted(k)')
        BY <1>3 DEF FinitelyAccepted, Accepted
      <4>2. A \subseteq Accepted(k)'
        BY DEF AcceptedSince
      <4> QED
        BY <4>1, <4>2, FS_Subset
    <3>5. Cardinality(A) >= Len(fresh)
      BY <1>6, <3>3, <3>4, DistinctFills
    <3>6. Cardinality(A) \in Nat
      BY <3>4, FS_CardinalityType
    <3>7. Cardinality(A) >= Limit
      <4> HIDE DEF fresh, A
      <4> QED
        BY <1>1, <1>4, <3>1, <3>5, <3>6
    <3>8. AcceptedSince(sender[x], stamp[x])' = A
      BY <1>2, <2>2 DEF AcceptedSince, Accepted
    <3> QED
      BY <3>7, <3>8
  <2> QED
    BY <2>1, <2>2
<1> QED
  BY <1>3, <1>7, <1>8 DEF CountInv

\* The steps that decide nothing and filter nothing; cleanup, after which
\* nothing is promised of repetitions, is one of them.
LEMMA QuietCounts ==
    ASSUME IInv, CountInv, UNCHANGED sender,
           sweeps' \/ UNCHANGED <<sweeps, records>>,
           \A m \in Messages :
              \/ stage'[m] = stage[m] /\ stamp'[m] = stamp[m]
              \/ stage[m] = "new" /\ stage'[m] = "sampled"
    PROVE  CountInv'
<1>1. \A k \in Keys : Accepted(k)' = Accepted(k)
  BY DEF Accepted
<1>2. FinitelyAccepted'
  BY <1>1 DEF CountInv, FinitelyAccepted, Accepted
<1>3. ~sweeps' => NoRepeats'
  BY DEF CountInv, NoRepeats
<1>4. FloodJustifiedBeforeSweep'
  <2> SUFFICES ASSUME ~sweeps, UNCHANGED <<sweeps, records>>,
                      NEW x \in Messages, stage'[x] = "flooded"
               PROVE  Cardinality(AcceptedSince(sender[x], stamp[x])') >= Limit
    BY DEF FloodJustifiedBeforeSweep, FloodJustified, AcceptedSince, Accepted
  <2>1. stage[x] = "flooded" /\ stamp'[x] = stamp[x] /\ sender[x] \in Keys
    BY DEF IInv, TypeOK
  <2>2. AcceptedSince(sender[x], stamp[x])' = AcceptedSince(sender[x], stamp[x])
    BY <2>1 DEF AcceptedSince, Accepted
  <2> QED
    BY <2>1, <2>2 DEF CountInv, FloodJustifiedBeforeSweep, FloodJustified
<1> QED
  BY <1>2, <1>3, <1>4 DEF CountInv

\* What the comment on Allow promises, for any number of workers with a stale
\* now, as long as cleanup has not run: a message is called flood only if its
\* sender had Limit messages accepted inside its window.
THEOREM FloodDeserved == Spec => []FloodJustifiedBeforeSweep
<1>1. Init => CountInv
  <2> SUFFICES ASSUME Init
               PROVE  CountInv
    OBVIOUS
  <2>1. \A k \in Keys : Accepted(k) = {}
    BY DEF Init, Accepted
  <2>2. FinitelyAccepted
    BY <2>1, FS_EmptySet DEF FinitelyAccepted
  <2> QED
    BY <2>2 DEF Init, CountInv, NoRepeats, Distinct, FloodJustifiedBeforeSweep, FloodJustified
<1>2. IInv /\ CountInv /\ [Next]_vars => CountInv'
  <2> SUFFICES ASSUME IInv, CountInv, [Next]_vars
               PROVE  CountInv'
    OBVIOUS
  <2>1. TypeOK'
    BY TypeStep DEF IInv
  <2>2. CASE Tick
    BY <2>2, QuietCounts DEF Tick
  <2>3. ASSUME NEW m \in Messages, TakeNow(m)
        PROVE  CountInv'
    <3>1. \A x \in Messages :
             \/ stage'[x] = stage[x] /\ stamp'[x] = stamp[x]
             \/ stage[x] = "new" /\ stage'[x] = "sampled"
      BY <2>3 DEF TakeNow, IInv, TypeOK
    <3> QED
      BY <2>3, <3>1, QuietCounts DEF TakeNow
  <2>4. ASSUME NEW m \in Messages, Decide(m)
        PROVE  CountInv'
    <3>1. sender[m] \in Keys /\ stamp[m] \in Nat
      BY DEF IInv, TypeOK
    <3> QED
      BY <2>1, <2>4, <3>1, DecideCounts
  <2>5. CASE SweepNow
    BY <2>5, QuietCounts DEF SweepNow
  <2>6. CASE Sweep
    BY <2>6, QuietCounts DEF Sweep
  <2>7. CASE UNCHANGED vars
    BY <2>7, QuietCounts DEF vars
  <2> QED
    BY <2>2, <2>3, <2>4, <2>5, <2>6, <2>7 DEF Next
<1>3. CountInv => FloodJustifiedBeforeSweep
  BY DEF CountInv
<1> QED
  BY <1>1, <1>2, <1>3, Invariance, PTL DEF Spec
=============================================================================
