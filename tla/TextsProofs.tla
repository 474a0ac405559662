---------------------------- MODULE TextsProofs ----------------------------
(***************************************************************************)
(* What the bot makes of a text, for every text: what bans teach           *)
(* (Blacklist), for any number of bans, texts of any length and any cut of *)
(* the samples; that the loop of normalizeText computes the canonical form *)
(* (TextFilter), for any phrases; and which links are read (Links), for    *)
(* any names and zones.  The lengths MaxRunes, MaxMarks and MaxTokens are  *)
(* arbitrary: nothing is assumed of them.                                  *)
(***************************************************************************)
EXTENDS Links, TextFilter, Blacklist, PositionsProofs, SequenceTheorems, TLAPS

-----------------------------------------------------------------------------
(* What bans teach.                                                          *)

Stages == {"text", "domains", "done"}

\* One goroutine for every ban; what it has reached is its own.
GoroutinesOK ==
    /\ banned \in Seq(Texts)
    /\ stage \in Seq(Stages) /\ Len(stage) = Len(banned)
    /\ reached \subseteq (DOMAIN banned) \X {"text", "domains"}

\* A statement that reached the database left its lesson there, if the text is
\* one that can be stored.
LessonsStored ==
    \A i \in DOMAIN banned : ~Torn(banned[i]) =>
        /\ <<i, "text">> \in reached /\ Hash(banned[i]) # <<>> => Hash(banned[i]) \in blacklist
        /\ <<i, "domains">> \in reached => DomainsIn(banned[i]) \subseteq badDomains

\* The tables hold nothing else.
NothingElse ==
    /\ \A h \in blacklist : h # <<>> /\ \E i \in DOMAIN banned : Hash(banned[i]) = h
    /\ \A d \in badDomains : \E i \in DOMAIN banned : d \in DomainsIn(banned[i])

LearningInv == GoroutinesOK /\ LessonsStored /\ NothingElse

\* A new ban has reached nothing yet, and its text accuses nobody.
LEMMA BanKeeps ==
    ASSUME LearningInv, Ban
    PROVE  LearningInv'
<1>1. PICK s \in Texts : banned' = Append(banned, s)
  BY DEF Ban
<1>2. stage' = Append(stage, "text") /\ UNCHANGED <<blacklist, badDomains, reached>>
  BY DEF Ban
<1>3. /\ Len(banned) \in Nat /\ DOMAIN banned = 1 .. Len(banned)
      /\ DOMAIN banned' = 1 .. Len(banned) + 1
      /\ \A i \in DOMAIN banned : banned'[i] = banned[i]
      /\ DOMAIN banned \subseteq DOMAIN banned'
      /\ Len(banned) + 1 \notin DOMAIN banned
  BY <1>1 DEF LearningInv, GoroutinesOK
<1>4. GoroutinesOK'
  <2>1. banned' \in Seq(Texts) /\ Len(banned') = Len(banned) + 1
    BY <1>1 DEF LearningInv, GoroutinesOK
  <2>2. stage' \in Seq(Stages) /\ Len(stage') = Len(stage) + 1
    BY <1>2 DEF LearningInv, GoroutinesOK, Stages
  <2> QED
    BY <1>2, <1>3, <2>1, <2>2 DEF LearningInv, GoroutinesOK
<1>5. LessonsStored'
  <2> SUFFICES ASSUME NEW i \in DOMAIN banned', ~Torn(banned'[i]), NEW w \in {"text", "domains"},
                      <<i, w>> \in reached
               PROVE  i \in DOMAIN banned
    BY <1>2, <1>3 DEF LearningInv, LessonsStored
  <2> QED
    BY DEF LearningInv, GoroutinesOK
<1>6. NothingElse'
  BY <1>2, <1>3 DEF LearningInv, NothingElse
<1> QED
  BY <1>4, <1>5, <1>6 DEF LearningInv

\* LearnSpam stores the hash of its text.
LEMMA LearnSpamKeeps ==
    ASSUME LearningInv, NEW i \in DOMAIN stage, LearnSpam(i)
    PROVE  LearningInv'
<1>1. /\ UNCHANGED <<badDomains, banned>> /\ stage' = [stage EXCEPT ![i] = "domains"]
      /\ i \in DOMAIN banned
  BY DEF LearnSpam, LearningInv, GoroutinesOK
<1>2. /\ banned \in Seq(Texts) /\ banned' \in Seq(Texts)
      /\ stage' \in Seq(Stages) /\ Len(stage') = Len(banned)
  BY <1>1 DEF LearningInv, GoroutinesOK, Stages
<1>3. CASE /\ blacklist' = blacklist \cup
                  {h \in {Hash(banned[i])} : h # <<>> /\ Accepted(banned[i])}
           /\ reached' = reached \cup {<<i, "text">>}
  <2>1. GoroutinesOK'
    BY <1>1, <1>2, <1>3 DEF LearningInv, GoroutinesOK
  <2>2. LessonsStored'
    BY <1>1, <1>3 DEF LearningInv, LessonsStored, Accepted
  <2>3. NothingElse'
    BY <1>1, <1>3 DEF LearningInv, NothingElse
  <2> QED
    BY <2>1, <2>2, <2>3 DEF LearningInv
<1>4. CASE UNCHANGED <<blacklist, reached>>
  BY <1>1, <1>2, <1>4 DEF LearningInv, GoroutinesOK, LessonsStored, NothingElse
<1> QED
  BY <1>3, <1>4 DEF LearnSpam

\* LearnDomains stores the domains of its text.
LEMMA LearnDomainsKeeps ==
    ASSUME LearningInv, NEW i \in DOMAIN stage, LearnDomains(i)
    PROVE  LearningInv'
<1>1. /\ UNCHANGED <<blacklist, banned>> /\ stage' = [stage EXCEPT ![i] = "done"]
      /\ i \in DOMAIN banned
  BY DEF LearnDomains, LearningInv, GoroutinesOK
<1>2. /\ banned \in Seq(Texts) /\ banned' \in Seq(Texts)
      /\ stage' \in Seq(Stages) /\ Len(stage') = Len(banned)
  BY <1>1 DEF LearningInv, GoroutinesOK, Stages
<1>3. CASE /\ badDomains' = badDomains \cup
                  {d \in DomainsIn(banned[i]) : Accepted(banned[i])}
           /\ reached' = reached \cup {<<i, "domains">>}
  <2>1. GoroutinesOK'
    BY <1>1, <1>2, <1>3 DEF LearningInv, GoroutinesOK
  <2>2. LessonsStored'
    BY <1>1, <1>3 DEF LearningInv, LessonsStored, Accepted
  <2>3. NothingElse'
    BY <1>1, <1>3 DEF LearningInv, NothingElse
  <2> QED
    BY <2>1, <2>2, <2>3 DEF LearningInv
<1>4. CASE UNCHANGED <<badDomains, reached>>
  BY <1>1, <1>2, <1>4 DEF LearningInv, GoroutinesOK, LessonsStored, NothingElse
<1> QED
  BY <1>3, <1>4 DEF LearnDomains

\* The invariant of the learning goroutines.
LEMMA LearningInvariant ==
    /\ BlacklistInit => LearningInv
    /\ LearningInv /\ [BlacklistNext]_learning => LearningInv'
<1>1. BlacklistInit => LearningInv
  BY DEF BlacklistInit, LearningInv, GoroutinesOK, LessonsStored, NothingElse
<1>2. ASSUME LearningInv, Exit
      PROVE  LearningInv'
  <2>1. UNCHANGED <<blacklist, badDomains, banned, reached>>
    BY <1>2 DEF Exit
  <2>2. stage' \in Seq(Stages) /\ Len(stage') = Len(banned)
    <3>1. DOMAIN stage = 1 .. Len(banned) /\ Len(banned) \in Nat
      BY <1>2 DEF LearningInv, GoroutinesOK
    <3>2. stage' = [n \in 1 .. Len(banned) |-> "done"]
      BY <1>2, <3>1 DEF Exit
    <3> QED
      BY <3>1, <3>2 DEF Stages
  <2> QED
    BY <1>2, <2>1, <2>2 DEF LearningInv, GoroutinesOK, LessonsStored, NothingElse
<1>3. ASSUME LearningInv, UNCHANGED learning
      PROVE  LearningInv'
  BY <1>3 DEF learning, LearningInv, GoroutinesOK, LessonsStored, NothingElse
<1> QED
  BY <1>1, <1>2, <1>3, BanKeeps, LearnSpamKeeps, LearnDomainsKeeps DEF BlacklistNext

\* However many goroutines learn at once and whenever the process ends, a text
\* that could be stored is recognised in every disguise and its domains are
\* known, and no text is accused that does not share its form or a domain with
\* one of a ban.
THEOREM LessonsTaught == BlacklistSpec => []BansTeach
<1>1. ASSUME LearningInv
      PROVE  BansTeach
  <2>1. LessonsStored /\ NothingElse
    BY <1>1 DEF LearningInv
  <2> QED
    BY <2>1 DEF LessonsStored, NothingElse, BansTeach, IsKnownSpam, IsKnownBadDomain, Hash
<1> QED
  BY <1>1, LearningInvariant, PTL DEF BlacklistSpec

-----------------------------------------------------------------------------
(* The levelled text.                                                        *)

\* What the loop has copied of the first n marks: as in the canonical form, but
\* it cannot know of a blank whether a word will follow.
Taken(s, n) ==
    {k \in 1 .. n : IsWord(s[k]) \/ (s[k] = Blank /\ FollowsWord(s, 1, k))}

\* The flag says whether a blank would be copied now.
LoopInv ==
    /\ text \in Seq(Marks)
    /\ pos \in 0 .. Len(text)
    /\ lastWasSpace \in BOOLEAN
    /\ lastWasSpace <=> ~FollowsWord(text, 1, pos + 1)
    /\ out = Picked(text, Taken(text, pos))

\* A mark is a word, the blank, or dropped.
LEMMA KindsOfMark ==
    ASSUME NEW r
    PROVE  /\ IsWord(r) => ~Dropped(r) /\ r # Blank
           /\ ~IsWord(r) /\ ~Dropped(r) => r = Blank
           /\ ~Dropped(r) /\ IsSpace(r) <=> r = Blank
BY DEF IsWord, Dropped, IsSpace, Blank, Break, Hidden

\* What is behind a word, one mark later.
LEMMA FollowsNext ==
    ASSUME NEW s, NEW n \in Nat
    PROVE  FollowsWord(s, 1, n + 2) <=>
              IsWord(s[n + 1]) \/ (Dropped(s[n + 1]) /\ FollowsWord(s, 1, n + 1))
<1>1. ASSUME FollowsWord(s, 1, n + 2)
      PROVE  IsWord(s[n + 1]) \/ (Dropped(s[n + 1]) /\ FollowsWord(s, 1, n + 1))
  <2>1. PICK m \in 1 .. n + 1 : IsWord(s[m]) /\ \A x \in m + 1 .. n + 1 : Dropped(s[x])
    BY <1>1 DEF FollowsWord
  <2>2. CASE m = n + 1
    BY <2>1, <2>2
  <2>3. CASE m # n + 1
    <3>1. m \in 1 .. n /\ n + 1 \in m + 1 .. n + 1
      BY <2>3
    <3>2. \A x \in m + 1 .. n : Dropped(s[x])
      BY <2>1, <3>1
    <3> QED
      BY <2>1, <3>1, <3>2 DEF FollowsWord
  <2> QED
    BY <2>2, <2>3
<1>2. ASSUME IsWord(s[n + 1])
      PROVE  FollowsWord(s, 1, n + 2)
  <2>1. n + 1 \in 1 .. (n + 2) - 1 /\ (n + 1) + 1 .. (n + 2) - 1 = {}
    OBVIOUS
  <2> QED
    BY <1>2, <2>1 DEF FollowsWord
<1>3. ASSUME Dropped(s[n + 1]), FollowsWord(s, 1, n + 1)
      PROVE  FollowsWord(s, 1, n + 2)
  <2>1. PICK m \in 1 .. n : IsWord(s[m]) /\ \A x \in m + 1 .. n : Dropped(s[x])
    BY <1>3 DEF FollowsWord
  <2>2. \A x \in m + 1 .. n + 1 : x = n + 1 \/ x \in m + 1 .. n
    OBVIOUS
  <2>3. m \in 1 .. (n + 2) - 1 /\ \A x \in m + 1 .. (n + 2) - 1 : Dropped(s[x])
    BY <1>3, <2>1, <2>2
  <2> QED
    BY <2>1, <2>3 DEF FollowsWord
<1> QED
  BY <1>1, <1>2, <1>3

\* What is taken of a text is finite.
LEMMA TakenFinite ==
    ASSUME NEW s, NEW n \in Nat
    PROVE  Taken(s, n) \in SUBSET Nat /\ IsFiniteSet(Taken(s, n))
<1>1. Taken(s, n) \in SUBSET (1 .. n)
  BY DEF Taken
<1>2. IsFiniteSet(1 .. n)
  BY FS_Interval
<1> QED
  BY <1>1, <1>2, FS_Subset

\* The loop keeps what it has copied and its flag in step with the text.
LEMMA LoopInvariant ==
    /\ FilterInit => LoopInv
    /\ LoopInv /\ [Step]_filtering => LoopInv'
<1>1. ASSUME FilterInit
      PROVE  LoopInv
  <2>1. text \in Seq(Marks) /\ pos = 0 /\ out = <<>> /\ lastWasSpace = TRUE
    BY <1>1 DEF FilterInit
  <2>2. ~FollowsWord(text, 1, 0 + 1)
    BY DEF FollowsWord
  <2>3. Taken(text, 0) = {}
    BY DEF Taken
  <2>4. Picked(text, {}) = <<>>
    BY FS_EmptySet DEF Picked
  <2>5. 0 \in 0 .. Len(text)
    BY <2>1
  <2>6. lastWasSpace \in BOOLEAN /\ (lastWasSpace <=> ~FollowsWord(text, 1, pos + 1))
    BY <2>1, <2>2
  <2> QED
    BY <2>1, <2>3, <2>4, <2>5, <2>6 DEF LoopInv
<1>2. ASSUME LoopInv, Step
      PROVE  LoopInv'
  <2> DEFINE n == pos
             r == text[n + 1]
  <2>1. /\ text' = text /\ pos' = n + 1 /\ n \in Nat /\ n + 1 \in 1 .. Len(text)
        /\ text \in Seq(Marks)
    BY <1>2 DEF LoopInv, Step
  <2>2. FollowsWord(text, 1, n + 2) <=>
              IsWord(r) \/ (Dropped(r) /\ ~lastWasSpace)
    BY <1>2, <2>1, FollowsNext DEF LoopInv
  <2>3. Taken(text, n + 1) =
              IF IsWord(r) \/ (r = Blank /\ ~lastWasSpace)
              THEN Taken(text, n) \cup {n + 1} ELSE Taken(text, n)
    <3> DEFINE P(k) == IsWord(text[k]) \/ (text[k] = Blank /\ FollowsWord(text, 1, k))
    <3>1. \A k : k \in 1 .. n + 1 <=> k \in 1 .. n \/ k = n + 1
      BY <2>1
    <3>2. P(n + 1) <=> IsWord(r) \/ (r = Blank /\ ~lastWasSpace)
      <4>1. ~lastWasSpace <=> FollowsWord(text, 1, n + 1)
        BY <1>2, Zenon DEF LoopInv
      <4> QED
        BY <4>1
    <3>3. Taken(text, n) = {k \in 1 .. n : P(k)} /\ Taken(text, n + 1) = {k \in 1 .. n + 1 : P(k)}
      BY DEF Taken
    <3> HIDE DEF P
    <3> QED
      BY <3>1, <3>2, <3>3
  <2>4. Picked(text, Taken(text, n) \cup {n + 1}) = Append(out, r)
    <3>1. \A k \in Taken(text, n) : k < n + 1
      BY <2>1 DEF Taken
    <3>2. Taken(text, n) \in SUBSET Nat /\ IsFiniteSet(Taken(text, n)) /\ n + 1 \in Nat
      BY <2>1, TakenFinite
    <3>3. Picked(text, Taken(text, n) \cup {n + 1}) = Append(Picked(text, Taken(text, n)), r)
      BY <3>1, <3>2, PickedAppend
    <3> QED
      BY <1>2, <3>3 DEF LoopInv
  <2>5. n + 1 \in 0 .. Len(text) /\ (n + 1) + 1 = n + 2
    BY <2>1
  <2>6. CASE Dropped(r) /\ UNCHANGED <<out, lastWasSpace>>
    <3>1. ~IsWord(r) /\ r # Blank
      BY <2>6, KindsOfMark
    <3> QED
      BY <1>2, <2>1, <2>2, <2>3, <2>5, <2>6, <3>1 DEF LoopInv
  <2>7. CASE /\ ~Dropped(r) /\ IsSpace(r) /\ lastWasSpace' = TRUE
             /\ out' = IF lastWasSpace THEN out ELSE Append(out, Blank)
    <3>1. ~IsWord(r) /\ r = Blank
      BY <2>7, KindsOfMark
    <3> QED
      BY <1>2, <2>1, <2>2, <2>3, <2>4, <2>5, <2>7, <3>1 DEF LoopInv
  <2>8. CASE ~Dropped(r) /\ ~IsSpace(r) /\ out' = Append(out, r) /\ lastWasSpace' = FALSE
    <3>1. IsWord(r)
      BY <2>8 DEF IsWord
    <3> QED
      BY <1>2, <2>1, <2>2, <2>3, <2>4, <2>5, <2>8, <3>1 DEF LoopInv
  <2> QED
    BY <1>2, <2>6, <2>7, <2>8 DEF Step
<1>3. ASSUME LoopInv, UNCHANGED filtering
      PROVE  LoopInv'
  BY <1>3 DEF filtering, LoopInv
<1> QED
  BY <1>1, <1>2, <1>3

\* After the loop there is at most one mark too many, the blank behind the last
\* word, and TrimSpace takes it away.
LEMMA TrimmedIsCanonical ==
    ASSUME LoopInv, Done
    PROVE  Normalized = Canonical(text)
<1> DEFINE n == Len(text)
           K == Taken(text, n)
           L == Left(text, 1, n)
           c == Cardinality(K)
<1>1. /\ n \in Nat /\ K \in SUBSET (1 .. n) /\ K \in SUBSET Nat /\ IsFiniteSet(K) /\ c \in Nat
      /\ out = Picked(text, K)
  BY TakenFinite, FS_CardinalityType DEF LoopInv, Done, Taken
<1>2. L \in SUBSET K
  BY DEF Left, Taken
<1>3. \A k \in K : IsWord(text[k]) \/ (text[k] = Blank /\ FollowsWord(text, 1, k))
  BY DEF Taken
<1>4. \A k \in K : k \in L <=> IsWord(text[k]) \/ \E m \in k + 1 .. n : IsWord(text[m])
  BY DEF Taken, Left
<1>5. \A m \in 1 .. n : IsWord(text[m]) => m \in K
  BY DEF Taken
<1>6. Canonical(text) = Picked(text, L)
  BY DEF Canonical, CanonicalPart
<1>7. /\ Len(out) = c /\ DOMAIN out = 1 .. c
      /\ \A j \in 1 .. c : out[j] = text[Nth(K, j)]
  BY <1>1, PickedSequence
<1> HIDE DEF n, K, L, c
<1>8. CASE K = {}
  <2>1. L = K /\ c = 0
    BY <1>2, <1>8, FS_EmptySet DEF c
  <2>2. out = <<>>
    BY <1>1, <1>7, <2>1 DEF Picked, c
  <2> QED
    BY <1>1, <1>6, <2>1, <2>2 DEF Normalized
<1>9. CASE K # {}
  <2> DEFINE z == Nth(K, c)
  <2>1. c # 0 /\ c \in 1 .. c
    BY <1>1, <1>9, FS_EmptySet DEF c
  <2>2. z \in K /\ Rank(K, z) = c
    BY <1>1, <2>1, RankOfNth DEF c
  <2>3. out # <<>> /\ out[Len(out)] = text[z]
    BY <1>7, <2>1
  <2> HIDE DEF z
  <2>4. \A k \in K : k <= z
    <3>1. {x \in K : x <= z} = K
      BY <1>1, <2>2, FS_Subset, {x \in K : x <= z} \in SUBSET K DEF Rank, c
    <3> QED
      BY <3>1
  <2>5. CASE IsWord(text[z])
    <3>1. L = K
      <4> SUFFICES ASSUME NEW k \in K, k # z
                   PROVE  z \in k + 1 .. n
        BY <1>2, <1>4, <2>5
      <4> QED
        BY <1>1, <2>2, <2>4
    <3>2. text[z] # Blank
      BY <2>5, KindsOfMark
    <3> QED
      BY <1>1, <1>6, <2>3, <3>1, <3>2 DEF Normalized
  <2>6. CASE ~IsWord(text[z])
    <3> DEFINE M == K \ {z}
    <3>1. text[z] = Blank /\ FollowsWord(text, 1, z)
      BY <1>3, <2>2, <2>6
    <3>2. z \notin L
      <4> SUFFICES ASSUME NEW m \in z + 1 .. n, IsWord(text[m])
                   PROVE  FALSE
        BY <1>4, <2>2, <2>6
      <4>1. m \in 1 .. n /\ m > z
        BY <1>1, <2>2
      <4> QED
        BY <1>1, <1>5, <2>2, <2>4, <4>1
    <3>3. ASSUME NEW k \in K, k # z
          PROVE  k \in L
      <4>1. PICK m \in 1 .. z - 1 : IsWord(text[m]) /\ \A x \in m + 1 .. z - 1 : Dropped(text[x])
        BY <3>1 DEF FollowsWord
      <4>2. k \in Nat /\ z \in 1 .. n /\ k < z /\ n \in Nat
        BY <1>1, <2>2, <2>4, <3>3
      <4>3. ~Dropped(text[k])
        BY <1>3, KindsOfMark DEF Dropped, Blank, Break, Hidden
      <4>4. k \notin m + 1 .. z - 1
        BY <4>1, <4>3
      <4>5. k <= m
        BY <4>1, <4>2, <4>4
      <4>6. k = m \/ m \in k + 1 .. n
        BY <4>1, <4>2, <4>5
      <4> QED
        BY <1>4, <4>1, <4>6
    <3>4. L = M
      BY <1>2, <3>2, <3>3
    <3>5. M \in SUBSET Nat /\ IsFiniteSet(M) /\ K = M \cup {z} /\ z \in Nat
      BY <1>1, <2>2, FS_Subset, M \in SUBSET K
    <3>6. \A k \in M : k < z
      BY <1>1, <2>2, <2>4
    <3> HIDE DEF M
    <3>7. out = Append(Picked(text, M), Blank)
      BY <1>1, <3>1, <3>5, <3>6, PickedAppend
    <3>8. Picked(text, M) \in Seq({text[k] : k \in M})
      BY <3>5, PickedSequence
    <3>9. SubSeq(out, 1, Len(out) - 1) = Picked(text, M)
      <4> DEFINE Q == Picked(text, M)
                 V == {text[k] : k \in M} \cup {Blank}
      <4>1. Q \in Seq(V) /\ Blank \in V
        BY <3>8
      <4> HIDE DEF Q, V
      <4>2. SubSeq(Append(Q, Blank), 1, Len(Append(Q, Blank)) - 1) = Q
        BY <4>1
      <4> QED
        BY <3>7, <4>2 DEF Q
    <3> QED
      BY <1>6, <2>3, <3>1, <3>4, <3>9 DEF Normalized
  <2> QED
    BY <2>5, <2>6
<1> QED
  BY <1>8, <1>9

\* The canonical form of a part of a text is a part of the canonical form.
LEMMA PartOfCanonical ==
    ASSUME NEW s, Len(s) \in Nat, NEW i \in 1 .. Len(s), NEW j \in 1 .. Len(s),
           CanonicalPart(s, i, j) # <<>>
    PROVE  HasPart(Canonical(s), CanonicalPart(s, i, j))
<1> DEFINE n == Len(s)
           C == Left(s, 1, n)
           D == Left(s, i, j)
           d == Cardinality(D)
<1>1. n \in Nat /\ i \in 1 .. n /\ j \in 1 .. n
  OBVIOUS
<1>2. /\ C \in SUBSET (1 .. n) /\ D \in SUBSET (i .. j) /\ D \in SUBSET (1 .. n)
      /\ C \in SUBSET Nat /\ D \in SUBSET Nat
  BY DEF Left
<1>3. IsFiniteSet(C) /\ IsFiniteSet(D) /\ d \in Nat
  <2>1. IsFiniteSet(1 .. n)
    BY FS_Interval
  <2> QED
    BY <1>2, <2>1, FS_Subset, FS_CardinalityType
<1>4. CanonicalPart(s, i, j) = Picked(s, D) /\ Canonical(s) = Picked(s, C)
  BY DEF CanonicalPart, Canonical
<1>5. \A k : k \in D <=> /\ k \in i .. j
                         /\ \/ IsWord(s[k])
                            \/ /\ s[k] = Blank /\ FollowsWord(s, i, k)
                               /\ \E m \in k + 1 .. j : IsWord(s[m])
  BY DEF Left
<1>6. \A k : k \in C <=> /\ k \in 1 .. n
                         /\ \/ IsWord(s[k])
                            \/ /\ s[k] = Blank /\ FollowsWord(s, 1, k)
                               /\ \E m \in k + 1 .. n : IsWord(s[m])
  BY DEF Left
<1> HIDE DEF n, C, D, d
<1>7. D # {}
  BY <1>2, <1>3, <1>4, PickedNothing
<1>8. PICK a \in D : \A k \in D : a <= k
  BY <1>2, <1>3, <1>7, LeastGreatest
<1>9. PICK b \in D : \A k \in D : k <= b
  BY <1>2, <1>3, <1>7, LeastGreatest
<1>10. D = {k \in C : a <= k /\ k <= b}
  <2>1. ASSUME NEW k \in D
        PROVE  k \in C
    <3>1. k \in 1 .. n /\ k \in i .. j
      BY <1>2
    <3>2. FollowsWord(s, i, k) => FollowsWord(s, 1, k)
      BY <1>1 DEF FollowsWord
    <3>3. \A m \in k + 1 .. j : m \in k + 1 .. n
      BY <1>1, <3>1
    <3> QED
      BY <1>5, <1>6, <3>1, <3>2, <3>3
  <2>2. ASSUME NEW k \in C, a <= k, k <= b
        PROVE  k \in D
    <3>1. k \in i .. j /\ k \in Nat
      BY <1>1, <1>2, <1>8, <1>9, <2>2
    <3>2. CASE IsWord(s[k])
      BY <1>5, <3>1, <3>2
    <3>3. CASE ~IsWord(s[k]) /\ k # a /\ k # b
      <4>1. a \in i .. j /\ b \in i .. j /\ a < k /\ k < b
        BY <1>2, <1>8, <1>9, <2>2, <3>1, <3>3
      <4>2. s[k] = Blank /\ FollowsWord(s, 1, k)
        BY <1>6, <3>3
      <4>3. PICK m \in 1 .. k - 1 : IsWord(s[m]) /\ \A x \in m + 1 .. k - 1 : Dropped(s[x])
        BY <4>2 DEF FollowsWord
      <4>4. ~Dropped(s[a])
        BY <1>5, <1>8, KindsOfMark DEF Dropped, Blank, Break, Hidden
      <4>5. a \notin m + 1 .. k - 1
        BY <4>3, <4>4
      <4>6. m \in i .. k - 1
        BY <3>1, <4>1, <4>3, <4>5
      <4>7. FollowsWord(s, i, k)
        BY <4>3, <4>6 DEF FollowsWord
      <4>8. \E m2 \in k + 1 .. j : IsWord(s[m2])
        <5>1. CASE IsWord(s[b])
          <6>1. b \in k + 1 .. j
            BY <3>1, <4>1
          <6> QED
            BY <5>1, <6>1
        <5>2. CASE \E m2 \in b + 1 .. j : IsWord(s[m2])
          <6>1. \A m2 \in b + 1 .. j : m2 \in k + 1 .. j
            BY <3>1, <4>1
          <6> QED
            BY <5>2, <6>1
        <5> QED
          BY <1>5, <1>9, <5>1, <5>2
      <4> QED
        BY <1>5, <3>1, <4>2, <4>7, <4>8
    <3> QED
      BY <1>8, <1>9, <3>2, <3>3
  <2> QED
    BY <1>8, <1>9, <2>1, <2>2
<1> DEFINE A == {k \in C : k < a}
           off == Cardinality(A)
<1>11. /\ off \in Nat /\ off + d <= Cardinality(C)
       /\ \A m \in 1 .. d : Picked(s, D)[m] = Picked(s, C)[off + m]
  <2>1. a \in Nat /\ b \in Nat
    BY <1>2, <1>8, <1>9
  <2>2. A = {k \in C : k < a}
    OBVIOUS
  <2> HIDE DEF A
  <2>3. C \in SUBSET Nat /\ IsFiniteSet(C)
    BY <1>2, <1>3
  <2>4. Cardinality(A) \in Nat /\ Cardinality(A) + Cardinality(D) <= Cardinality(C)
    BY <1>10, <2>1, <2>2, <2>3, PickedStretch
  <2>5. \A m \in 1 .. Cardinality(D) : Picked(s, D)[m] = Picked(s, C)[Cardinality(A) + m]
    BY <1>10, <2>1, <2>2, <2>3, PickedStretch
  <2> QED
    BY <2>4, <2>5 DEF d
<1> HIDE DEF off
<1> DEFINE P == Picked(s, C)
           Q == Picked(s, D)
           V == {s[k] : k \in C}
<1>12. P \in Seq(V) /\ Len(P) = Cardinality(C)
  BY <1>2, <1>3, PickedSequence
<1>13. Len(Q) = d /\ Q = [m \in 1 .. d |-> Q[m]]
  BY <1>2, <1>3, PickedSequence DEF Picked, d
<1> HIDE DEF P, Q, V
<1>14. off \in 0 .. Len(P) - Len(Q)
  BY <1>3, <1>11, <1>12, <1>13
<1>15. SubSeq(P, off + 1, off + Len(Q)) = Q
  <2>1. \A m \in 1 .. d : Q[m] = P[off + m]
    BY <1>11 DEF P, Q
  <2>2. SubSeq(P, off + 1, off + d) = [m \in 1 .. d |-> P[off + m]]
    BY <1>3, <1>11, <1>12
  <2> QED
    BY <1>13, <2>1, <2>2
<1> QED
  BY <1>4, <1>14, <1>15 DEF HasPart, P, Q

\* The loop computes the canonical form of every text, and a text with an
\* allowed phrase in it is spared however both are spaced.
THEOREM SpacingLevelled == FilterSpec => []LevelledAlike
<1>1. ASSUME LoopInv
      PROVE  LevelledAlike
  <2> SUFFICES ASSUME Done
               PROVE  /\ Normalized = Canonical(text)
                      /\ Matched =>
                            \A p \in Phrases, i, j \in 1 .. Len(text) :
                                Canonical(p) # <<>> => CanonicalPart(text, i, j) # Canonical(p)
    BY DEF LevelledAlike
  <2>1. Normalized = Canonical(text)
    BY <1>1, TrimmedIsCanonical
  <2>2. ASSUME Matched, NEW p \in Phrases, NEW i \in 1 .. Len(text), NEW j \in 1 .. Len(text),
               Canonical(p) # <<>>, CanonicalPart(text, i, j) = Canonical(p)
        PROVE  FALSE
    <3>1. HasPart(Normalized, Canonical(p))
      BY <1>1, <2>1, <2>2, PartOfCanonical DEF LoopInv
    <3> QED
      BY <2>2, <3>1 DEF Matched, Excused
  <2> QED
    BY <2>1, <2>2
<1> QED
  BY <1>1, LoopInvariant, PTL DEF FilterSpec

-----------------------------------------------------------------------------
(* The links of a text.                                                      *)

\* Where a token that is not white space stands is one word of the text.
LEMMA SpanAround ==
    ASSUME NEW s, Len(s) \in Nat, NEW i \in 1 .. Len(s), s[i] # Space
    PROVE  \E p \in Spans(s) : p[1] <= i /\ i <= p[2]
<1> DEFINE before == {n \in 1 .. i - 1 : s[n] = Space}
           after == {n \in i + 1 .. Len(s) : s[n] = Space}
<1>1. PICK a \in 1 .. i : /\ \A n \in a .. i : s[n] # Space
                          /\ a > 1 => s[a - 1] = Space
  <2>1. CASE before = {}
    <3>1. \A n \in 1 .. i : n = i \/ n \in 1 .. i - 1
      OBVIOUS
    <3>2. 1 \in 1 .. i /\ \A n \in 1 .. i : s[n] # Space
      BY <2>1, <3>1
    <3> QED
      BY <3>2
  <2>2. CASE before # {}
    <3>1. before \in SUBSET Nat /\ IsFiniteSet(before)
      <4>1. i - 1 \in Int /\ 1 \in Int /\ before \in SUBSET (1 .. i - 1)
        OBVIOUS
      <4>2. IsFiniteSet(1 .. i - 1)
        BY <4>1, FS_Interval
      <4> QED
        BY <4>1, <4>2, FS_Subset
    <3>2. PICK b \in before : \A k \in before : k <= b
      BY <2>2, <3>1, LeastGreatest
    <3>3. b \in 1 .. i - 1 /\ s[b] = Space
      OBVIOUS
    <3>4. \A n \in b + 1 .. i : s[n] # Space
      <4> SUFFICES ASSUME NEW n \in b + 1 .. i, s[n] = Space
                   PROVE  FALSE
        OBVIOUS
      <4>1. n # i /\ n \in 1 .. i - 1
        BY <3>3
      <4> QED
        BY <3>2, <3>3, <4>1
    <3> QED
      BY <3>3, <3>4, b + 1 \in 1 .. i, (b + 1) - 1 = b
  <2> QED
    BY <2>1, <2>2
<1>2. PICK b \in i .. Len(s) : /\ \A n \in i .. b : s[n] # Space
                               /\ b < Len(s) => s[b + 1] = Space
  <2>1. CASE after = {}
    <3>1. \A n \in i .. Len(s) : n = i \/ n \in i + 1 .. Len(s)
      OBVIOUS
    <3>2. Len(s) \in i .. Len(s) /\ \A n \in i .. Len(s) : s[n] # Space
      BY <2>1, <3>1
    <3> QED
      BY <3>2
  <2>2. CASE after # {}
    <3>1. after \in SUBSET Nat /\ IsFiniteSet(after)
      <4>1. IsFiniteSet(i + 1 .. Len(s)) /\ after \in SUBSET (i + 1 .. Len(s))
        BY FS_Interval
      <4> QED
        BY <4>1, FS_Subset
    <3>2. PICK b \in after : \A k \in after : b <= k
      BY <2>2, <3>1, LeastGreatest
    <3>3. b \in i + 1 .. Len(s) /\ s[b] = Space
      OBVIOUS
    <3>4. \A n \in i .. b - 1 : s[n] # Space
      <4> SUFFICES ASSUME NEW n \in i .. b - 1, s[n] = Space
                   PROVE  FALSE
        OBVIOUS
      <4>1. n # i /\ n \in i + 1 .. Len(s)
        BY <3>3
      <4> QED
        BY <3>2, <3>3, <4>1
    <3> QED
      BY <3>3, <3>4, b - 1 \in i .. Len(s), (b - 1) + 1 = b
  <2> QED
    BY <2>1, <2>2
<1>3. \A n \in a .. b : n \in a .. i \/ n \in i .. b
  OBVIOUS
<1>4. <<a, b>> \in Spans(s)
  BY <1>1, <1>2, <1>3 DEF Spans
<1> QED
  BY <1>4

\* A span is a stretch of the text.
LEMMA SpanType ==
    ASSUME NEW s, NEW p \in Spans(s)
    PROVE  /\ p[1] \in 1 .. Len(s) /\ p[2] \in 1 .. Len(s) /\ p[1] <= p[2]
           /\ \A n \in p[1] .. p[2] : s[n] # Space
           /\ p[1] > 1 => s[p[1] - 1] = Space
           /\ p[2] < Len(s) => s[p[2] + 1] = Space
BY DEF Spans

\* A link begins at a token that is not white space; what the pattern reads from
\* there stays within the word.
LEMMA StartIsShown ==
    ASSUME NEW s, Len(s) \in Nat, NEW i \in 1 .. Len(s), StartsLink(s, i)
    PROVE  s[i] # Space
<1>1. CASE s[i] = Scheme
  BY <1>1 DEF Scheme, Space
<1>2. CASE \E k \in i + 1 .. Len(s) : IsDomain(s, i, k)
  <2>1. PICK k \in i + 1 .. Len(s) : IsDomain(s, i, k)
    BY <1>2
  <2>2. i \in i .. k /\ (i - i) % 2 = 0
    OBVIOUS
  <2>3. s[i] \in Words
    BY <2>1, <2>2 DEF IsDomain
  <2> QED
    BY <2>3, LinksAssumption
<1> QED
  BY <1>1, <1>2 DEF StartsLink

\* A domain has no white space in it.
LEMMA DomainIsShown ==
    ASSUME NEW s, NEW i \in Nat, NEW k \in Nat, IsDomain(s, i, k), NEW n \in i .. k
    PROVE  s[n] # Space
<1>1. s[n] \in Words \/ s[n] = "."
  BY DEF IsDomain
<1> QED
  BY <1>1, LinksAssumption DEF Space

\* A stretch of a text and the text have the same domains there.
LEMMA SameDomain ==
    ASSUME NEW s, NEW q, NEW off \in Nat, NEW i \in Nat, NEW k \in Nat,
           \A n \in i .. k : q[n] = s[off + n]
    PROVE  IsDomain(q, i, k) <=> IsDomain(s, off + i, off + k)
<1> DEFINE Read(t, n, m) == IF m % 2 = 0 THEN t[n] \in Words ELSE t[n] = "."
<1>1. \A n \in i .. k : off + n \in off + i .. off + k /\ (off + n) - (off + i) = n - i
  OBVIOUS
<1>2. \A m \in off + i .. off + k : m - off \in i .. k /\ off + (m - off) = m
  OBVIOUS
<1>3. (off + k) - (off + i) = k - i /\ (off + k > off + i <=> k > i)
  OBVIOUS
<1>4. IsDomain(q, i, k) <=> /\ k > i /\ (k - i) % 2 = 0 /\ q[k] \in TLDs
                            /\ \A n \in i .. k : Read(q, n, n - i)
  BY DEF IsDomain
<1>5. IsDomain(s, off + i, off + k) <=>
          /\ off + k > off + i /\ ((off + k) - (off + i)) % 2 = 0 /\ s[off + k] \in TLDs
          /\ \A m \in off + i .. off + k : Read(s, m, m - (off + i))
  BY DEF IsDomain
<1>6. \A n \in i .. k : Read(q, n, n - i) <=> Read(s, off + n, (off + n) - (off + i))
  BY <1>1
<1> HIDE DEF Read
<1>7. (\A n \in i .. k : Read(q, n, n - i)) <=>
          (\A m \in off + i .. off + k : Read(s, m, m - (off + i)))
  BY <1>1, <1>2, <1>6
<1>8. k > i => q[k] = s[off + k]
  OBVIOUS
<1> QED
  BY <1>3, <1>4, <1>5, <1>7, <1>8

\* Of a text s, the word q follows the first off tokens.
WordAt(s, q, off) ==
    /\ off \in Nat /\ Len(s) \in Nat /\ Len(q) \in Nat \ {0} /\ off + Len(q) <= Len(s)
    /\ \A n \in 1 .. Len(q) : q[n] = s[off + n] /\ q[n] # Space
    /\ off > 0 => s[off] = Space
    /\ off + Len(q) < Len(s) => s[off + Len(q) + 1] = Space

\* A word by itself.
LEMMA WordItself ==
    ASSUME NEW s, NEW q, NEW off, WordAt(s, q, off)
    PROVE  WordAt(q, q, 0)
<1>1. Len(q) \in Nat \ {0} /\ \A n \in 1 .. Len(q) : 0 + n = n /\ q[n] # Space
  BY DEF WordAt
<1> QED
  BY <1>1 DEF WordAt

\* The piece of a span is such a word.
LEMMA PieceIsWord ==
    ASSUME NEW s \in Seq(Tokens), NEW p \in Spans(s)
    PROVE  /\ SubSeq(s, p[1], p[2]) \in Seq(Tokens)
           /\ Len(SubSeq(s, p[1], p[2])) = p[2] - (p[1] - 1)
           /\ WordAt(s, SubSeq(s, p[1], p[2]), p[1] - 1)
<1> DEFINE q == SubSeq(s, p[1], p[2])
<1>1. /\ p[1] \in 1 .. Len(s) /\ p[2] \in 1 .. Len(s) /\ p[1] <= p[2]
      /\ \A n \in p[1] .. p[2] : s[n] # Space
      /\ Len(s) \in Nat
      /\ p[1] > 1 => s[p[1] - 1] = Space
      /\ p[2] < Len(s) => s[p[2] + 1] = Space
  BY SpanType
<1>2. q \in Seq(Tokens) /\ Len(q) = p[2] - (p[1] - 1)
  BY <1>1
<1>3. \A n \in 1 .. p[2] - (p[1] - 1) : (p[1] - 1) + n \in p[1] .. p[2]
  BY <1>1
<1>4. \A n \in 1 .. Len(q) : q[n] = s[(p[1] - 1) + n]
  BY <1>1, <1>2
<1> HIDE DEF q
<1>5. \A n \in 1 .. Len(q) : q[n] = s[(p[1] - 1) + n] /\ q[n] # Space
  BY <1>1, <1>2, <1>3, <1>4
<1>6. /\ p[1] - 1 \in Nat /\ Len(q) \in Nat \ {0} /\ (p[1] - 1) + Len(q) = p[2]
      /\ p[1] - 1 > 0 => p[1] > 1
  <2> DEFINE a == p[1]
             b == p[2]
  <2>1. a \in Nat \ {0} /\ b \in Nat /\ a <= b /\ Len(q) = b - (a - 1)
    BY <1>1, <1>2
  <2> HIDE DEF a, b
  <2>2. a - 1 \in Nat /\ Len(q) \in Nat \ {0} /\ (a - 1) + Len(q) = b /\ (a - 1 > 0 => a > 1)
    BY <2>1
  <2> QED
    BY <2>2 DEF a, b
<1>7. WordAt(s, q, p[1] - 1)
  BY <1>1, <1>5, <1>6 DEF WordAt
<1> QED
  BY <1>2, <1>7 DEF q

\* The pattern begins at the same places in a word and in the text around it.
LEMMA SameStarts ==
    ASSUME NEW s, NEW q, NEW off, WordAt(s, q, off), NEW i \in 1 .. Len(q)
    PROVE  StartsLink(q, i) <=> StartsLink(s, off + i)
<1> DEFINE len == Len(q)
           N == Len(s)
<1>1. /\ off \in Nat /\ N \in Nat /\ len \in Nat /\ off + len <= N /\ i \in 1 .. len
      /\ off + len < N => s[off + len + 1] = Space
  BY DEF WordAt
<1>2. \A n \in 1 .. len : q[n] = s[off + n] /\ q[n] # Space
  BY DEF WordAt
<1>3. StartsLink(q, i) <=> \/ q[i] = Scheme /\ i < len /\ q[i + 1] # Space
                           \/ \E k \in i + 1 .. len : IsDomain(q, i, k)
  BY DEF StartsLink
<1>4. StartsLink(s, off + i) <=>
          \/ s[off + i] = Scheme /\ off + i < N /\ s[off + i + 1] # Space
          \/ \E m \in off + i + 1 .. N : IsDomain(s, off + i, m)
  BY DEF StartsLink
<1> HIDE DEF len, N
<1>5. (q[i] = Scheme /\ i < len /\ q[i + 1] # Space) <=>
          (s[off + i] = Scheme /\ off + i < N /\ s[off + i + 1] # Space)
  <2>1. CASE i < len
    <3>1. i + 1 \in 1 .. len /\ off + (i + 1) = off + i + 1 /\ off + i < N
      BY <1>1, <2>1
    <3> QED
      BY <1>1, <1>2, <2>1, <3>1
  <2>2. CASE i = len
    BY <1>1, <1>2, <2>2
  <2> QED
    BY <1>1, <2>1, <2>2
<1>6. \A k \in i + 1 .. len : IsDomain(q, i, k) <=> IsDomain(s, off + i, off + k)
  <2> SUFFICES ASSUME NEW k \in i + 1 .. len
               PROVE  IsDomain(q, i, k) <=> IsDomain(s, off + i, off + k)
    OBVIOUS
  <2>1. i \in Nat /\ k \in Nat /\ \A n \in i .. k : n \in 1 .. len
    BY <1>1
  <2>2. \A n \in i .. k : q[n] = s[off + n]
    BY <1>2, <2>1
  <2> QED
    BY <1>1, <2>1, <2>2, SameDomain
<1>7. ASSUME NEW m \in off + i + 1 .. N, IsDomain(s, off + i, m)
      PROVE  m - off \in i + 1 .. len /\ off + (m - off) = m
  <2>1. CASE m > off + len
    <3>1. off + len + 1 \in off + i .. m /\ off + len < N /\ off + i \in Nat /\ m \in Nat
      BY <1>1, <2>1
    <3> QED
      BY <1>1, <1>7, <3>1, DomainIsShown
  <2>2. CASE m <= off + len
    BY <1>1, <2>2
  <2> QED
    BY <1>1, <2>1, <2>2
<1>8. (\E k \in i + 1 .. len : IsDomain(q, i, k)) <=>
          (\E m \in off + i + 1 .. N : IsDomain(s, off + i, m))
  <2>1. \A k \in i + 1 .. len : off + k \in off + i + 1 .. N
    BY <1>1
  <2>2. ASSUME NEW m \in off + i + 1 .. N, IsDomain(s, off + i, m)
        PROVE  \E k \in i + 1 .. len : IsDomain(q, i, k)
    <3>1. m - off \in i + 1 .. len /\ off + (m - off) = m
      BY <1>7, <2>2
    <3> QED
      BY <1>6, <2>2, <3>1
  <2> QED
    BY <1>6, <2>1, <2>2
<1> QED
  BY <1>3, <1>4, <1>5, <1>8

\* A link goes to the end of its word.
LEMMA LinkEndsWithWord ==
    ASSUME NEW s, NEW q, NEW off, WordAt(s, q, off), NEW i \in 1 .. Len(q)
    PROVE  EndOfLink(s, off + i) = off + Len(q)
<1> DEFINE len == Len(q)
           N == Len(s)
           P(j) == /\ \A n \in off + i .. j : s[n] # Space
                   /\ j < N => s[j + 1] = Space
<1>1. /\ off \in Nat /\ N \in Nat /\ len \in Nat /\ off + len <= N /\ i \in 1 .. len
      /\ off + len < N => s[off + len + 1] = Space
      /\ \A n \in 1 .. len : s[off + n] # Space
  BY DEF WordAt
<1>2. EndOfLink(s, off + i) = CHOOSE j \in off + i .. N : P(j)
  BY DEF EndOfLink
<1> HIDE DEF len, N
<1>3. \A n \in off + i .. off + len : s[n] # Space
  <2> SUFFICES ASSUME NEW n \in off + i .. off + len
               PROVE  n - off \in 1 .. len /\ off + (n - off) = n
    BY <1>1
  <2> QED
    BY <1>1
<1>4. off + len \in off + i .. N /\ P(off + len)
  BY <1>1, <1>3
<1>5. ASSUME NEW j \in off + i .. N, P(j)
      PROVE  j = off + len
  <2>1. CASE j < off + len
    <3>1. s[j + 1] = Space /\ j + 1 \in off + i .. off + len
      BY <1>1, <1>5, <2>1
    <3> QED
      BY <1>3, <3>1
  <2>2. CASE j > off + len
    <3>1. s[off + len + 1] = Space /\ off + len + 1 \in off + i .. j
      BY <1>1, <1>5, <2>2
    <3> QED
      BY <1>5, <3>1
  <2> QED
    BY <1>1, <2>1, <2>2
<1> HIDE DEF P
<1>6. (CHOOSE j \in off + i .. N : P(j)) = off + len
  BY <1>4, <1>5
<1> QED
  BY <1>2, <1>6 DEF len

\* Where FindAllString finds a match.
MatchAt(s, n) ==
    /\ StartsLink(s, n)
    /\ \A m \in 1 .. n - 1 : StartsLink(s, m) => EndOfLink(s, m) < n

\* What is found in a text within one of its words is what is found in the word.
LEMMA SameMatch ==
    ASSUME NEW s \in Seq(Tokens), NEW q, NEW off, WordAt(s, q, off), NEW i \in 1 .. Len(q)
    PROVE  MatchAt(s, off + i) <=> MatchAt(q, i)
<1> DEFINE len == Len(q)
           N == Len(s)
<1>1. /\ off \in Nat /\ N \in Nat /\ len \in Nat /\ off + len <= N /\ i \in 1 .. len
      /\ off > 0 => s[off] = Space
  BY DEF WordAt
<1>2. WordAt(q, q, 0)
  BY WordItself
<1>3. \A m \in 1 .. len : StartsLink(q, m) <=> StartsLink(s, off + m)
  BY SameStarts
<1>4. \A m \in 1 .. len : EndOfLink(s, off + m) = off + len /\ EndOfLink(q, m) = len
  <2> SUFFICES ASSUME NEW m \in 1 .. len
               PROVE  EndOfLink(s, off + m) = off + len /\ EndOfLink(q, m) = len
    OBVIOUS
  <2>1. EndOfLink(q, 0 + m) = 0 + len
    BY <1>2, LinkEndsWithWord
  <2>2. 0 + m = m /\ 0 + len = len
    BY <1>1
  <2> QED
    BY <2>1, <2>2, LinkEndsWithWord
<1>5. ASSUME NEW m \in 1 .. off, StartsLink(s, m)
      PROVE  EndOfLink(s, m) < off + i
  <2>1. m \in 1 .. N /\ off > 0 /\ s[off] = Space /\ off \in Nat
    BY <1>1
  <2>2. s[m] # Space
    BY <1>1, <1>5, <2>1, StartIsShown
  <2>3. PICK r \in Spans(s) : r[1] <= m /\ m <= r[2]
    BY <1>1, <2>1, <2>2, SpanAround
  <2> DEFINE a == r[1]
             b == r[2]
             w == SubSeq(s, a, b)
  <2>4. /\ a \in 1 .. N /\ b \in 1 .. N /\ a <= m /\ m <= b
        /\ \A n \in a .. b : s[n] # Space
    BY <2>3, SpanType
  <2>5. WordAt(s, w, a - 1) /\ Len(w) = b - (a - 1)
    BY PieceIsWord
  <2> HIDE DEF a, b, w
  <2>6. m - (a - 1) \in 1 .. Len(w) /\ (a - 1) + (m - (a - 1)) = m /\ (a - 1) + Len(w) = b
    BY <1>1, <2>4, <2>5
  <2>7. EndOfLink(s, (a - 1) + (m - (a - 1))) = (a - 1) + Len(w)
    BY <2>5, <2>6, LinkEndsWithWord
  <2>8. b < off
    <3> SUFFICES ASSUME off <= b
                 PROVE  FALSE
      BY <1>1, <2>4
    <3>1. off \in a .. b
      BY <1>1, <2>4
    <3> QED
      BY <2>1, <2>4, <3>1
  <2> QED
    BY <1>1, <2>4, <2>6, <2>7, <2>8
<1> HIDE DEF len, N
<1>6. ASSUME MatchAt(s, off + i)
      PROVE  MatchAt(q, i)
  <2>1. StartsLink(q, i)
    BY <1>1, <1>3, <1>6 DEF MatchAt
  <2>2. ASSUME NEW m \in 1 .. i - 1, StartsLink(q, m)
        PROVE  FALSE
    <3>1. m \in 1 .. len /\ off + m \in 1 .. (off + i) - 1
      BY <1>1
    <3>2. EndOfLink(s, off + m) < off + i
      BY <1>3, <1>6, <2>2, <3>1 DEF MatchAt
    <3> QED
      BY <1>1, <1>4, <3>1, <3>2
  <2> QED
    BY <2>1, <2>2 DEF MatchAt
<1>7. ASSUME MatchAt(q, i)
      PROVE  MatchAt(s, off + i)
  <2>1. StartsLink(s, off + i)
    BY <1>1, <1>3, <1>7 DEF MatchAt
  <2>2. ASSUME NEW m \in 1 .. (off + i) - 1, StartsLink(s, m)
        PROVE  EndOfLink(s, m) < off + i
    <3>1. CASE m <= off
      BY <1>1, <1>5, <2>2, <3>1
    <3>2. CASE m > off
      <4>1. m - off \in 1 .. i - 1 /\ m - off \in 1 .. len /\ off + (m - off) = m
        BY <1>1, <3>2
      <4>2. EndOfLink(q, m - off) < i
        BY <1>3, <1>7, <2>2, <4>1 DEF MatchAt
      <4> QED
        BY <1>1, <1>4, <4>1, <4>2
    <3> QED
      BY <1>1, <3>1, <3>2
  <2> QED
    BY <2>1, <2>2 DEF MatchAt
<1> QED
  BY <1>6, <1>7

\* And it is the same text: both go to the end of the word.
LEMMA SameMatchText ==
    ASSUME NEW s \in Seq(Tokens), NEW q \in Seq(Tokens), NEW off, WordAt(s, q, off),
           NEW i \in 1 .. Len(q)
    PROVE  SubSeq(s, off + i, EndOfLink(s, off + i)) = SubSeq(q, i, EndOfLink(q, i))
<1> DEFINE len == Len(q)
           N == Len(s)
           u == SubSeq(s, off + i, off + len)
           v == SubSeq(q, i, len)
<1>1. /\ off \in Nat /\ N \in Nat /\ len \in Nat /\ off + len <= N /\ i \in 1 .. len
      /\ \A n \in 1 .. len : q[n] = s[off + n]
  BY DEF WordAt
<1>2. EndOfLink(s, off + i) = off + len
  BY LinkEndsWithWord
<1>3. EndOfLink(q, i) = len
  <2>1. WordAt(q, q, 0)
    BY WordItself
  <2>2. EndOfLink(q, 0 + i) = 0 + len
    BY <2>1, LinkEndsWithWord
  <2>3. 0 + i = i /\ 0 + len = len
    BY <1>1
  <2> QED
    BY <2>2, <2>3
<1>4. /\ u \in Seq(Tokens) /\ Len(u) = len - i + 1
      /\ \A n \in 1 .. len - i + 1 : u[n] = s[off + i + n - 1]
  BY <1>1
<1>5. /\ v \in Seq(Tokens) /\ Len(v) = len - i + 1
      /\ \A n \in 1 .. len - i + 1 : v[n] = q[i + n - 1]
  BY <1>1
<1> HIDE DEF u, v, len, N
<1>6. \A n \in 1 .. len - i + 1 : i + n - 1 \in 1 .. len /\ off + (i + n - 1) = off + i + n - 1
  BY <1>1
<1>7. \A n \in 1 .. len - i + 1 : u[n] = v[n]
  BY <1>1, <1>4, <1>5, <1>6
<1>8. u = v
  BY <1>4, <1>5, <1>7, SeqEqual
<1> QED
  BY <1>2, <1>3, <1>8 DEF u, v, len

\* What is found in a text is what is found in its words.
LEMMA MatchesOfPieces ==
    ASSUME NEW s \in Seq(Tokens)
    PROVE  Matches(s) = UNION {Matches(q) : q \in Pieces(s)}
<1>1. \A t : Matches(t) = {SubSeq(t, i, EndOfLink(t, i)) : i \in {n \in 1 .. Len(t) : MatchAt(t, n)}}
  BY DEF Matches, MatchAt
<1>2. Len(s) \in Nat
  OBVIOUS
<1>3. ASSUME NEW i \in 1 .. Len(s), MatchAt(s, i)
      PROVE  \E q \in Pieces(s) : SubSeq(s, i, EndOfLink(s, i)) \in Matches(q)
  <2>1. s[i] # Space
    BY <1>2, <1>3, StartIsShown DEF MatchAt
  <2>2. PICK p \in Spans(s) : p[1] <= i /\ i <= p[2]
    BY <1>2, <2>1, SpanAround
  <2> DEFINE a == p[1]
             b == p[2]
             q == SubSeq(s, a, b)
  <2>3. q \in Seq(Tokens) /\ Len(q) = b - (a - 1) /\ WordAt(s, q, a - 1)
    BY PieceIsWord
  <2>4. a \in 1 .. Len(s) /\ b \in 1 .. Len(s) /\ a <= i /\ i <= b
    BY <2>2, SpanType
  <2>5. q \in Pieces(s)
    BY DEF Pieces
  <2> HIDE DEF a, b, q
  <2>6. i - (a - 1) \in 1 .. Len(q) /\ (a - 1) + (i - (a - 1)) = i
    BY <1>2, <2>3, <2>4
  <2>7. MatchAt(s, (a - 1) + (i - (a - 1))) <=> MatchAt(q, i - (a - 1))
    BY <2>3, <2>6, SameMatch
  <2>8. SubSeq(s, (a - 1) + (i - (a - 1)), EndOfLink(s, (a - 1) + (i - (a - 1))))
            = SubSeq(q, i - (a - 1), EndOfLink(q, i - (a - 1)))
    BY <2>3, <2>6, SameMatchText
  <2>9. SubSeq(s, i, EndOfLink(s, i)) \in Matches(q)
    BY <1>1, <1>3, <2>6, <2>7, <2>8
  <2> QED
    BY <2>5, <2>9
<1>4. ASSUME NEW p \in Spans(s), NEW i \in 1 .. Len(SubSeq(s, p[1], p[2])),
             MatchAt(SubSeq(s, p[1], p[2]), i)
      PROVE  SubSeq(SubSeq(s, p[1], p[2]), i, EndOfLink(SubSeq(s, p[1], p[2]), i)) \in Matches(s)
  <2> DEFINE a == p[1]
             b == p[2]
             q == SubSeq(s, a, b)
  <2>1. q \in Seq(Tokens) /\ Len(q) = b - (a - 1) /\ WordAt(s, q, a - 1)
    BY PieceIsWord
  <2>2. a \in 1 .. Len(s) /\ b \in 1 .. Len(s) /\ i \in 1 .. Len(q) /\ MatchAt(q, i)
    BY <1>4, SpanType
  <2> HIDE DEF a, b, q
  <2>3. (a - 1) + i \in 1 .. Len(s)
    BY <1>2, <2>1, <2>2
  <2>4. MatchAt(s, (a - 1) + i)
    BY <2>1, <2>2, SameMatch
  <2>5. SubSeq(s, (a - 1) + i, EndOfLink(s, (a - 1) + i)) = SubSeq(q, i, EndOfLink(q, i))
    BY <2>1, <2>2, SameMatchText
  <2>6. SubSeq(q, i, EndOfLink(q, i)) \in Matches(s)
    BY <1>1, <2>3, <2>4, <2>5
  <2> QED
    BY <2>6 DEF q, a, b
<1>5. ASSUME NEW m \in Matches(s)
      PROVE  \E q \in Pieces(s) : m \in Matches(q)
  <2>1. PICK i \in 1 .. Len(s) : MatchAt(s, i) /\ m = SubSeq(s, i, EndOfLink(s, i))
    BY <1>1
  <2> QED
    BY <1>3, <2>1
<1>6. ASSUME NEW q \in Pieces(s), NEW m \in Matches(q)
      PROVE  m \in Matches(s)
  <2>1. PICK p \in Spans(s) : q = SubSeq(s, p[1], p[2])
    BY DEF Pieces
  <2>2. PICK i \in 1 .. Len(q) : MatchAt(q, i) /\ m = SubSeq(q, i, EndOfLink(q, i))
    BY <1>1
  <2> QED
    BY <1>4, <2>1, <2>2
<1> QED
  BY <1>5, <1>6

\* So are the domains.
LEMMA DomainsOfPieces ==
    ASSUME NEW s \in Seq(Tokens)
    PROVE  ExtractDomains(s) = UNION {ExtractDomains(q) : q \in Pieces(s)}
<1>1. Matches(s) = UNION {Matches(q) : q \in Pieces(s)}
  BY MatchesOfPieces
<1> QED
  BY <1>1 DEF ExtractDomains

\* A path begins with a slash, and the host is what is before it.
LEMMA BeforeSlashIs ==
    ASSUME NEW t \in Seq(Tokens), NEW k \in 1 .. Len(t),
           \A n \in 1 .. k : t[n] # "/",
           k < Len(t) => t[k + 1] = "/"
    PROVE  BeforeSlash(t) = SubSeq(t, 1, k)
<1> DEFINE slashes == {n \in 1 .. Len(t) : t[n] = "/"}
           first == CHOOSE n \in slashes : \A m \in slashes : n <= m
<1>1. BeforeSlash(t) = IF slashes = {} THEN t ELSE SubSeq(t, 1, first - 1)
  BY DEF BeforeSlash
<1>2. Len(t) \in Nat /\ k \in 1 .. Len(t)
  OBVIOUS
<1>3. CASE k = Len(t)
  <2>1. slashes = {}
    BY <1>2, <1>3
  <2>2. t = SubSeq(t, 1, k)
    <3>1. /\ SubSeq(t, 1, k) \in Seq(Tokens) /\ Len(SubSeq(t, 1, k)) = Len(t)
          /\ \A n \in 1 .. Len(t) : SubSeq(t, 1, k)[n] = t[n]
      BY <1>3
    <3> QED
      BY <3>1, SeqEqual
  <2> QED
    BY <1>1, <2>1, <2>2
<1>4. CASE k < Len(t)
  <2>1. k + 1 \in slashes
    BY <1>2, <1>4
  <2>2. \A m \in slashes : k + 1 <= m
    BY <1>2, <1>4
  <2>3. \A n \in slashes : n \in Nat
    BY <1>2
  <2> HIDE DEF slashes
  <2>4. first = k + 1
    BY <1>2, <2>1, <2>2, <2>3
  <2> HIDE DEF first
  <2>5. first - 1 = k
    BY <1>2, <2>4
  <2> QED
    BY <1>1, <2>1, <2>5
<1> QED
  BY <1>2, <1>3, <1>4

\* The kinds of token of a domain are told apart.
LEMMA DomainTokens ==
    ASSUME NEW a \in Names, NEW b \in TLDs
    PROVE  /\ a \in Words /\ b \in Words /\ Www \in Words
           /\ a # Www /\ b # Www /\ Www # "/"
           /\ a # "/" /\ b # "/" /\ a # Scheme /\ b # Scheme /\ Www # Scheme
           /\ a # Space /\ Www # Space
BY LinksAssumption DEF Words

\* A host is found with "www." and without.
LEMMA HostIs ==
    ASSUME NEW t \in Seq(Tokens), NEW a \in Names, NEW b \in TLDs, NEW k \in {3, 5}, k <= Len(t),
           k = 5 => t[1] = Www /\ t[2] = ".",
           t[k - 2] = a, t[k - 1] = ".", t[k] = b,
           k < Len(t) => t[k + 1] = "/"
    PROVE  TrimWww(BeforeSlash(t)) = <<a, ".", b>>
<1> DEFINE h == SubSeq(t, 1, k)
           d == <<a, ".", b>>
<1>1. a # "/" /\ b # "/" /\ a # Www /\ Www # "/" /\ a \in Tokens /\ b \in Tokens
  BY DomainTokens DEF Tokens
<1>2. k \in 1 .. Len(t) /\ k \in Nat
  OBVIOUS
<1>3. \A n \in 1 .. k : t[n] # "/"
  <2>1. CASE k = 3
    <3>1. t[1] = a /\ t[2] = "." /\ t[3] = b
      BY <2>1
    <3>2. \A n \in 1 .. 3 : n = 1 \/ n = 2 \/ n = 3
      OBVIOUS
    <3> QED
      BY <1>1, <2>1, <3>1, <3>2
  <2>2. CASE k = 5
    <3>1. t[1] = Www /\ t[2] = "." /\ t[3] = a /\ t[4] = "." /\ t[5] = b
      BY <2>2
    <3>2. \A n \in 1 .. 5 : n = 1 \/ n = 2 \/ n = 3 \/ n = 4 \/ n = 5
      OBVIOUS
    <3> QED
      BY <1>1, <2>2, <3>1, <3>2
  <2> QED
    BY <2>1, <2>2
<1>4. BeforeSlash(t) = h
  BY <1>2, <1>3, BeforeSlashIs
<1>5. h \in Seq(Tokens) /\ Len(h) = k /\ \A n \in 1 .. k : h[n] = t[n]
  BY <1>2
<1>6. d \in Seq(Tokens) /\ Len(d) = 3 /\ d[1] = a /\ d[2] = "." /\ d[3] = b
  BY <1>1 DEF Tokens
<1> HIDE DEF h, d
<1>7. CASE k = 3
  <2>1. h[1] = a /\ h[2] = "." /\ h[3] = b
    BY <1>5, <1>7
  <2>2. TrimWww(h) = h
    BY <1>1, <2>1 DEF TrimWww
  <2>3. \A n \in 1 .. 3 : h[n] = d[n]
    <3>1. \A n \in 1 .. 3 : n = 1 \/ n = 2 \/ n = 3
      OBVIOUS
    <3> QED
      BY <1>6, <2>1, <3>1
  <2>4. h = d
    BY <1>5, <1>6, <1>7, <2>3, SeqEqual
  <2> QED
    BY <1>4, <2>2, <2>4 DEF d
<1>8. CASE k = 5
  <2>1. h[1] = Www /\ h[2] = "." /\ h[3] = a /\ h[4] = "." /\ h[5] = b
    BY <1>5, <1>8
  <2> DEFINE r == SubSeq(h, 3, Len(h))
  <2>2. TrimWww(h) = r
    BY <1>5, <1>8, <2>1 DEF TrimWww
  <2>3. r \in Seq(Tokens) /\ Len(r) = 3 /\ r[1] = h[3] /\ r[2] = h[4] /\ r[3] = h[5]
    BY <1>5, <1>8
  <2> HIDE DEF r
  <2>4. \A n \in 1 .. 3 : r[n] = d[n]
    <3>1. \A n \in 1 .. 3 : n = 1 \/ n = 2 \/ n = 3
      OBVIOUS
    <3> QED
      BY <1>6, <2>1, <2>3, <3>1
  <2>5. r = d
    BY <1>6, <2>3, <2>4, SeqEqual
  <2> QED
    BY <1>4, <2>2, <2>5 DEF d
<1> QED
  BY <1>7, <1>8

\* A word that begins with a link is found whole.
LEMMA WholeWordFound ==
    ASSUME NEW q \in Seq(Tokens), NEW s, NEW off, WordAt(s, q, off), StartsLink(q, 1)
    PROVE  q \in Matches(q)
<1>1. WordAt(q, q, 0) /\ Len(q) \in Nat \ {0}
  BY WordItself DEF WordAt
<1>2. 1 \in 1 .. Len(q) /\ 0 + 1 = 1 /\ 0 + Len(q) = Len(q)
  BY <1>1
<1>3. EndOfLink(q, 0 + 1) = 0 + Len(q)
  BY <1>1, <1>2, LinkEndsWithWord
<1>4. SubSeq(q, 1, Len(q)) = q
  <2>1. /\ SubSeq(q, 1, Len(q)) \in Seq(Tokens) /\ Len(SubSeq(q, 1, Len(q))) = Len(q)
        /\ \A n \in 1 .. Len(q) : SubSeq(q, 1, Len(q))[n] = q[n]
    BY <1>1
  <2> QED
    BY <2>1, SeqEqual
<1>5. \A m \in 1 .. 1 - 1 : FALSE
  OBVIOUS
<1>6. SubSeq(q, 1, EndOfLink(q, 1)) \in Matches(q)
  BY <1>2, <1>5 DEF Matches
<1> QED
  BY <1>2, <1>3, <1>4, <1>6

\* "name.zone" is a domain wherever it stands, and "www.name.zone" is one.
LEMMA IsDomainOfThree ==
    ASSUME NEW q, NEW a \in Names, NEW b \in TLDs, q[1] = a, q[2] = ".", q[3] = b
    PROVE  IsDomain(q, 1, 3)
<1>1. \A n \in 1 .. 3 : n = 1 \/ n = 2 \/ n = 3
  OBVIOUS
<1>2. (3 - 1) % 2 = 0 /\ (1 - 1) % 2 = 0 /\ (2 - 1) % 2 # 0
  OBVIOUS
<1>3. a \in Words /\ b \in Words
  BY DomainTokens
<1>4. \A n \in 1 .. 3 : IF (n - 1) % 2 = 0 THEN q[n] \in Words ELSE q[n] = "."
  BY <1>1, <1>2, <1>3
<1> QED
  BY <1>2, <1>4 DEF IsDomain

LEMMA IsDomainOfFive ==
    ASSUME NEW q, NEW a \in Names, NEW b \in TLDs,
           q[1] = Www, q[2] = ".", q[3] = a, q[4] = ".", q[5] = b
    PROVE  IsDomain(q, 1, 5)
<1>1. \A n \in 1 .. 5 : n = 1 \/ n = 2 \/ n = 3 \/ n = 4 \/ n = 5
  OBVIOUS
<1>2. /\ (5 - 1) % 2 = 0 /\ (1 - 1) % 2 = 0 /\ (3 - 1) % 2 = 0
      /\ (2 - 1) % 2 # 0 /\ (4 - 1) % 2 # 0
  OBVIOUS
<1>3. a \in Words /\ b \in Words /\ Www \in Words
  BY DomainTokens
<1>4. \A n \in 1 .. 5 : IF (n - 1) % 2 = 0 THEN q[n] \in Words ELSE q[n] = "."
  BY <1>1, <1>2, <1>3
<1> QED
  BY <1>2, <1>4 DEF IsDomain

\* The tokens of a word that begins with a given prefix.
LEMMA Beginning ==
    ASSUME NEW q \in Seq(Tokens), NEW p \in Seq(Tokens), StartsWith(q, p)
    PROVE  Len(p) <= Len(q) /\ \A n \in 1 .. Len(p) : q[n] = p[n]
<1>1. Len(p) \in Nat /\ Len(q) \in Nat /\ Len(p) <= Len(q) /\ SubSeq(q, 1, Len(p)) = p
  BY DEF StartsWith
<1>2. \A n \in 1 .. Len(p) : SubSeq(q, 1, Len(p))[n] = q[n]
  BY <1>1
<1> QED
  BY <1>1, <1>2

\* A link to a domain leads to it, in each of the four ways to write it.
LEMMA LinkLeadsToDomain ==
    ASSUME NEW q \in Seq(Tokens), NEW s, NEW off, WordAt(s, q, off),
           NEW a \in Names, NEW b \in TLDs,
           LinkTo(q, <<a, ".", b>>), ~Nested(q)
    PROVE  <<a, ".", b>> \in ExtractDomains(q)
<1> DEFINE d == <<a, ".", b>>
<1>1. /\ a \in Words /\ a \in Tokens /\ b \in Tokens /\ Www \in Tokens /\ Scheme \in Tokens
      /\ "." \in Tokens /\ a # Scheme /\ Www # Scheme /\ a # Space /\ Www # Space
  BY DomainTokens DEF Tokens
<1>2. Len(q) \in Nat /\ \A n \in 2 .. Len(q) : q[n] # Scheme
  BY DEF Nested
<1>3. PICK prefix \in {<<>>, <<Scheme>>, <<Www, ".">>, <<Scheme, Www, ".">>} :
          /\ StartsWith(q, prefix \o d)
          /\ Rest(q, Len(prefix) + Len(d)) # <<>> => Rest(q, Len(prefix) + Len(d))[1] = "/"
  BY DEF LinkTo
<1> DEFINE p == prefix \o d
<1>4. d \in Seq(Tokens) /\ Len(d) = 3 /\ d[1] = a /\ d[2] = "." /\ d[3] = b
  BY <1>1
<1> HIDE DEF d
<1>5. prefix \in Seq(Tokens) /\ Len(prefix) \in Nat
  <2>1. /\ <<>> \in Seq(Tokens) /\ <<Scheme>> \in Seq(Tokens)
        /\ <<Www, ".">> \in Seq(Tokens) /\ <<Scheme, Www, ".">> \in Seq(Tokens)
    BY <1>1
  <2> QED
    BY <1>3, <2>1
<1>6. /\ p \in Seq(Tokens) /\ Len(p) = Len(prefix) + 3
      /\ \A n \in 1 .. Len(prefix) : p[n] = prefix[n]
      /\ p[Len(prefix) + 1] = a /\ p[Len(prefix) + 2] = "." /\ p[Len(prefix) + 3] = b
  <2> HIDE DEF p
  <2>1. /\ p \in Seq(Tokens) /\ Len(p) = Len(prefix) + Len(d)
        /\ \A n \in 1 .. Len(prefix) + Len(d) :
              p[n] = IF n <= Len(prefix) THEN prefix[n] ELSE d[n - Len(prefix)]
    <3>1. prefix \in Seq(Tokens) /\ d \in Seq(Tokens)
      BY <1>4, <1>5
    <3> QED
      BY <3>1, ConcatProperties, Zenon DEF p
  <2>2. \A n \in 1 .. Len(prefix) : n \in 1 .. Len(prefix) + 3 /\ n <= Len(prefix)
    BY <1>5
  <2>3. \A n \in 1 .. 3 : /\ Len(prefix) + n \in 1 .. Len(prefix) + 3
                          /\ ~(Len(prefix) + n <= Len(prefix))
                          /\ (Len(prefix) + n) - Len(prefix) = n
    BY <1>5
  <2>4. \A n \in 1 .. 3 : p[Len(prefix) + n] = d[n]
    BY <1>4, <2>1, <2>3
  <2> QED
    BY <1>4, <2>1, <2>2, <2>4, 1 \in 1 .. 3, 2 \in 1 .. 3, 3 \in 1 .. 3
<1>7. Len(p) <= Len(q) /\ \A n \in 1 .. Len(p) : q[n] = p[n]
  BY <1>3, <1>6, Beginning
<1> DEFINE k == Len(prefix) + 3
<1>8. k < Len(q) => q[k + 1] = "/"
  <2> SUFFICES ASSUME k < Len(q)
               PROVE  q[k + 1] = "/"
    OBVIOUS
  <2>1. Rest(q, k) = SubSeq(q, k + 1, Len(q))
    BY DEF Rest
  <2>2. Len(SubSeq(q, k + 1, Len(q))) > 0 /\ SubSeq(q, k + 1, Len(q))[1] = q[k + 1]
    BY <1>2, <1>5
  <2> QED
    BY <1>3, <1>4, <2>1, <2>2
<1>9. /\ k <= Len(q)
      /\ \A n \in 1 .. Len(prefix) : q[n] = prefix[n]
      /\ q[k - 2] = a /\ q[k - 1] = "." /\ q[k] = b
  <2>1. /\ \A n \in 1 .. Len(prefix) : n \in 1 .. Len(prefix) + 3
        /\ Len(prefix) + 1 \in 1 .. Len(prefix) + 3 /\ k - 2 = Len(prefix) + 1
        /\ Len(prefix) + 2 \in 1 .. Len(prefix) + 3 /\ k - 1 = Len(prefix) + 2
        /\ Len(prefix) + 3 \in 1 .. Len(prefix) + 3
    BY <1>5
  <2> HIDE DEF p
  <2> QED
    BY <1>6, <1>7, <2>1
<1> HIDE DEF p
<1>10. ASSUME StartsLink(q, 1), ExtractHost(q) = d
       PROVE  d \in ExtractDomains(q)
  <2>1. q \in Matches(q)
    BY <1>10, WholeWordFound
  <2>2. d # <<>>
    <3>1. Len(d) # 0 /\ Len(<<>>) = 0
      BY <1>4
    <3> QED
      BY <3>1
  <2> QED
    BY <1>10, <2>1, <2>2 DEF ExtractDomains
\* Without a scheme.
<1>11. CASE prefix = <<>> \/ prefix = <<Www, ".">>
  <2>1. /\ k \in {3, 5}
        /\ k = 5 => q[1] = Www /\ q[2] = "."
        /\ k = 3 => q[1] = a /\ q[2] = "." /\ q[3] = b
        /\ k = 5 => q[3] = a /\ q[4] = "." /\ q[5] = b
    <3>1. CASE prefix = <<>>
      <4>1. Len(prefix) = 0
        BY <3>1
      <4> QED
        BY <1>9, <4>1
    <3>2. CASE prefix = <<Www, ".">>
      <4>1. Len(prefix) = 2 /\ prefix[1] = Www /\ prefix[2] = "."
        BY <3>2
      <4> QED
        BY <1>9, <4>1
    <3> QED
      BY <1>11, <3>1, <3>2
  <2> HIDE DEF k
  <2>2. StartsLink(q, 1)
    <3>1. IsDomain(q, 1, k)
      BY <2>1, IsDomainOfThree, IsDomainOfFive
    <3>2. k \in 1 + 1 .. Len(q)
      BY <1>2, <1>9, <2>1
    <3> QED
      BY <3>1, <3>2 DEF StartsLink
  <2>3. Scheme \notin {q[n] : n \in DOMAIN q}
    <3>1. DOMAIN q = 1 .. Len(q) /\ \A n \in 1 .. Len(q) : n = 1 \/ n \in 2 .. Len(q)
      BY <1>2
    <3>2. q[1] # Scheme
      BY <1>1, <2>1
    <3> QED
      BY <1>2, <3>1, <3>2
  <2>4. TrimWww(BeforeSlash(q)) = d
    BY <1>8, <1>9, <2>1, HostIs DEF d
  <2>5. ExtractHost(q) = d
    BY <2>3, <2>4 DEF ExtractHost
  <2> QED
    BY <1>10, <2>2, <2>5 DEF d
\* With a scheme, which the parser takes off.
<1>12. CASE prefix = <<Scheme>> \/ prefix = <<Scheme, Www, ".">>
  <2> DEFINE t == Tail(q)
             j == k - 1
  <2>1. /\ k \in {4, 6} /\ q[1] = Scheme
        /\ k = 6 => q[2] = Www /\ q[3] = "."
        /\ k = 4 => q[2] = a
    <3>1. CASE prefix = <<Scheme>>
      <4>1. Len(prefix) = 1 /\ prefix[1] = Scheme
        BY <3>1
      <4> QED
        BY <1>9, <4>1
    <3>2. CASE prefix = <<Scheme, Www, ".">>
      <4>1. Len(prefix) = 3 /\ prefix[1] = Scheme /\ prefix[2] = Www /\ prefix[3] = "."
        BY <3>2
      <4> QED
        BY <1>9, <4>1
    <3> QED
      BY <1>12, <3>1, <3>2
  <2> HIDE DEF k
  <2>2. /\ t \in Seq(Tokens) /\ Len(t) = Len(q) - 1
        /\ \A n \in 1 .. Len(q) - 1 : t[n] = q[n + 1]
    BY <1>2, <1>9, <2>1
  <2> HIDE DEF t
  <2>3. /\ j \in {3, 5} /\ j <= Len(t)
        /\ j = 5 => k = 6 /\ 1 \in 1 .. Len(q) - 1 /\ 2 \in 1 .. Len(q) - 1
        /\ j - 2 \in 1 .. Len(q) - 1 /\ (j - 2) + 1 = k - 2
        /\ j - 1 \in 1 .. Len(q) - 1 /\ (j - 1) + 1 = k - 1
        /\ j \in 1 .. Len(q) - 1 /\ j + 1 = k
        /\ j < Len(t) => k < Len(q) /\ j + 1 \in 1 .. Len(q) - 1 /\ (j + 1) + 1 = k + 1
    BY <1>2, <1>9, <2>1, <2>2
  <2> HIDE DEF j
  <2>4. /\ j = 5 => t[1] = Www /\ t[2] = "."
        /\ t[j - 2] = a /\ t[j - 1] = "." /\ t[j] = b
        /\ j < Len(t) => t[j + 1] = "/"
    <3>1. j = 5 => t[1] = Www /\ t[2] = "."
      BY <2>1, <2>2, <2>3, 1 + 1 = 2, 2 + 1 = 3
    <3>2. t[j - 2] = a /\ t[j - 1] = "." /\ t[j] = b
      BY <1>9, <2>2, <2>3
    <3>3. j < Len(t) => t[j + 1] = "/"
      BY <1>8, <2>2, <2>3
    <3> QED
      BY <3>1, <3>2, <3>3
  <2>5. TrimWww(BeforeSlash(t)) = d
    BY <2>2, <2>3, <2>4, HostIs DEF d
  <2>6. 1 \in DOMAIN q /\ Len(q) > 1
    BY <1>2, <1>9, <2>1
  <2>7. ExtractHost(q) = d
    BY <2>1, <2>5, <2>6 DEF ExtractHost, t
  <2>8. StartsLink(q, 1)
    BY <1>1, <2>1, <2>6, 1 + 1 = 2 DEF StartsLink
  <2> QED
    BY <1>10, <2>7, <2>8 DEF d
<1> QED
  BY <1>3, <1>11, <1>12 DEF d

\* A message is a text.
TextInv == message \in Seq(Tokens)

LEMMA MessageInvariant ==
    /\ MessageInit => TextInv
    /\ TextInv /\ [MessageNext]_message => TextInv'
<1>1. ASSUME TextInv, NEW t \in Tokens, Write(t)
      PROVE  TextInv'
  BY <1>1, AppendProperties DEF TextInv, Write
<1>2. MessageInit => TextInv
  BY DEF MessageInit, TextInv
<1>3. TextInv /\ UNCHANGED message => TextInv'
  BY DEF TextInv
<1> QED
  BY <1>1, <1>2, <1>3 DEF MessageNext

\* However long a message is and whatever its words, the links in it are those of
\* its words taken one by one, and a link leads to its domain in whichever of
\* the usual ways it is written.
THEOREM LinksRead == MessageSpec => []LinksFound
<1>1. ASSUME TextInv
      PROVE  LinksFound
  <2>1. ExtractDomains(message) = UNION {ExtractDomains(piece) : piece \in Pieces(message)}
    BY <1>1, DomainsOfPieces DEF TextInv
  <2>2. ASSUME NEW piece \in Pieces(message), NEW d \in Domains, LinkTo(piece, d), ~Nested(piece)
        PROVE  d \in ExtractDomains(piece)
    <3>1. PICK p \in Spans(message) : piece = SubSeq(message, p[1], p[2])
      BY DEF Pieces
    <3>2. piece \in Seq(Tokens) /\ WordAt(message, piece, p[1] - 1)
      BY <1>1, <3>1, PieceIsWord DEF TextInv
    <3>3. PICK a \in Names, b \in TLDs : d = <<a, ".", b>>
      BY DEF Domains
    <3> QED
      BY <2>2, <3>2, <3>3, LinkLeadsToDomain
  <2> QED
    BY <2>1, <2>2 DEF LinksFound
<1> QED
  BY <1>1, MessageInvariant, PTL DEF MessageSpec
=============================================================================
