-------------------------- MODULE DispatcherProofs --------------------------
(***************************************************************************)
(* Safety of the dispatcher for any number of workers, handlers, messages  *)
(* and texts, and that it implements Moderation.  In order:                *)
(*                                                                         *)
(* 1. Types: what each kind of step does to actors, stages and causes.     *)
(*                                                                         *)
(* 2. Bans.  That only texts of punished members are learned needs         *)
(* PunishedFirst: an actor after banChatMember, and every learning         *)
(* goroutine, has the message of a punished author.  That the owner is not *)
(* banned while Telegram tells who he is needs OwnerRight: what isOwner    *)
(* has in its cache, or in its hands on the way there, is the owner.       *)
(*                                                                         *)
(* 3. Warnings.  A ban for warnings is paid for with trigger messages in a *)
(* row: the counter of a member is bounded by the number of his counted    *)
(* messages that no reset has come after (Live).  A message is counted     *)
(* once, because the queue holds it once and one worker holds it after     *)
(* that; a message that breaks a row is dealt with in the very step that   *)
(* resets the counter; and what was settled before a message was taken     *)
(* stays so, hence a row that paid for a ban is never broken later.        *)
(*                                                                         *)
(* 4. Moderation.  A worker that finishes gives a verdict to a message     *)
(* nobody else holds (OneHolder).  If no command asks for bans, the author *)
(* of a message was punished by the worker that still holds it or that     *)
(* judged it (PunishedHeld).  A full queue holds as many waiting messages  *)
(* as it has places (QueueFresh).                                          *)
(*                                                                         *)
(* 5. Known texts.  A message whose text was known goes to ban(): a worker *)
(* has it at the first level or in ban() (KnownHeld), because what is      *)
(* learned stays learned and is never the empty text (Lessons).            *)
(***************************************************************************)
EXTENDS DispatcherRefinement, FiniteSetTheorems, SequenceTheorems, TLAPS

\* 1. Types.

BusySteps == Steps \ {"idle", "stopped"}

ActorStates == [step : Steps, msg : Messages \cup {None}, why : Causes,
                seen : Users \cup {None, NoOwner}, tries : 1 .. MaxAttempts]

\* The part of TypeOK about the actors.
ActorsOK ==
    /\ actor \in [Actors -> ActorStates]
    /\ \A a \in Actors : actor[a].msg = None <=> actor[a].step \in {"idle", "stopped"}

\* An actor at work holds a message.
LEMMA BusyActor ==
    ASSUME ActorsOK, NEW a \in Actors, actor[a].step \in BusySteps
    PROVE  actor[a] \in ActorStates /\ actor[a].msg \in Messages
<1>1. actor[a] \in ActorStates /\ actor[a].msg # None
  BY DEF ActorsOK, BusySteps
<1> QED
  BY <1>1 DEF ActorStates

\* The actor that goes on keeps its message, and no other actor moves.
LEMMA GoProperties ==
    ASSUME ActorsOK, NEW a \in Actors, NEW s \in BusySteps,
           actor[a].step \in BusySteps, Go(a, s)
    PROVE  /\ ActorsOK'
           /\ actor'[a].step = s /\ actor'[a].msg = actor[a].msg
           /\ actor'[a].why = actor[a].why
           /\ \A b \in Actors \ {a} : actor'[b] = actor[b]
<1> DEFINE r == [actor[a] EXCEPT !.step = s, !.tries = 1]
<1>1. actor' = [actor EXCEPT ![a] = r]
  BY DEF Go, ActorsOK
<1>2. r \in ActorStates /\ r.step = s /\ r.msg = actor[a].msg /\ r.why = actor[a].why
  <2>1. s \in Steps /\ 1 \in 1 .. MaxAttempts
    BY DispatcherAssumption DEF BusySteps
  <2> QED
    BY <2>1, BusyActor DEF ActorStates
<1>3. actor'[a] = r /\ \A b \in Actors \ {a} : actor'[b] = actor[b]
  BY <1>1 DEF ActorsOK
<1>4. actor' \in [Actors -> ActorStates]
  BY <1>1, <1>2 DEF ActorsOK
<1>5. \A b \in Actors : actor'[b].msg = None <=> actor'[b].step \in {"idle", "stopped"}
  <2>1. r.msg # None /\ r.step \notin {"idle", "stopped"}
    BY <1>2 DEF ActorsOK, BusySteps
  <2> QED
    BY <1>3, <2>1 DEF ActorsOK
<1> QED
  BY <1>2, <1>3, <1>4, <1>5 DEF ActorsOK

\* Entering ban() is going on to its first call, with the cause noted.
LEMMA BanForProperties ==
    ASSUME ActorsOK, cause \in [Messages -> Causes], NEW a \in Actors, NEW w \in Causes,
           actor[a].step \in BusySteps, BanFor(a, w)
    PROVE  /\ ActorsOK'
           /\ actor'[a].step = "banDelete" /\ actor'[a].msg = actor[a].msg
           /\ actor'[a].why = w
           /\ \A b \in Actors \ {a} : actor'[b] = actor[b]
           /\ cause' \in [Messages -> Causes]
           /\ cause' = [cause EXCEPT ![actor[a].msg] = w]
<1>1. actor[a].msg \in Messages
  BY BusyActor
<1>2. "banDelete" \in Steps \ {"idle", "stopped"}
  BY DEF Steps
<1> DEFINE r == [actor[a] EXCEPT !.step = "banDelete", !.why = w, !.tries = 1]
<1>3. actor' = [actor EXCEPT ![a] = r]
  BY DEF BanFor, ActorsOK
<1>4. r \in ActorStates /\ r.step = "banDelete" /\ r.msg = actor[a].msg /\ r.why = w
  <2>1. 1 \in 1 .. MaxAttempts
    BY DispatcherAssumption
  <2> QED
    BY <1>2, <2>1, BusyActor DEF ActorStates
<1>5. actor'[a] = r /\ \A b \in Actors \ {a} : actor'[b] = actor[b]
  BY <1>3 DEF ActorsOK
<1>6. ActorsOK'
  BY <1>1, <1>2, <1>3, <1>4, <1>5, DispatcherAssumption DEF ActorsOK
<1>7. cause' = [cause EXCEPT ![actor[a].msg] = w] /\ cause' \in [Messages -> Causes]
  BY <1>1 DEF BanFor
<1> QED
  BY <1>4, <1>5, <1>6, <1>7

StagesOK == stage \in [Messages -> {"new", "queued", "dropped", "taken"} \cup Outcomes]

\* An actor that is done holds no message any more; a worker has given its
\* message an outcome.
LEMMA FinishProperties ==
    ASSUME ActorsOK, StagesOK, NEW a \in Actors, NEW o \in Outcomes,
           actor[a].step \in BusySteps, Finish(a, o)
    PROVE  /\ ActorsOK' /\ StagesOK'
           /\ actor'[a].msg = None /\ actor'[a].step \in {"idle", "stopped"}
           /\ \A b \in Actors \ {a} : actor'[b] = actor[b]
           /\ \A m \in Messages \ {actor[a].msg} : stage'[m] = stage[m]
           /\ a \in Workers => stage'[actor[a].msg] = o
           /\ a \notin Workers => stage' = stage
<1>1. actor[a].msg \in Messages
  BY BusyActor
<1>2. /\ {"idle", "stopped"} \subseteq Steps
      /\ "none" \in Causes
      /\ 1 \in 1 .. MaxAttempts
  BY DispatcherAssumption DEF Steps, Causes
<1>3. \A s \in {"idle", "stopped"} : Idle(s) \in ActorStates
  BY <1>2 DEF Idle, ActorStates
<1>4. PICK s \in {"idle", "stopped"} : actor' = [actor EXCEPT ![a] = Idle(s)]
  BY DEF Finish
<1>5. ActorsOK' /\ actor'[a].msg = None /\ actor'[a].step \in {"idle", "stopped"}
  <2>1. actor'[a] = Idle(s) /\ \A b \in Actors \ {a} : actor'[b] = actor[b]
    BY <1>4 DEF ActorsOK
  <2>2. Idle(s).msg = None /\ Idle(s).step = s
    BY DEF Idle
  <2> QED
    BY <1>3, <1>4, <2>1, <2>2 DEF ActorsOK
<1>6. StagesOK' /\ \A m \in Messages \ {actor[a].msg} : stage'[m] = stage[m]
  BY <1>1 DEF Finish, StagesOK
<1>7. /\ a \in Workers => stage'[actor[a].msg] = o
      /\ a \notin Workers => stage' = stage
  BY <1>1 DEF Finish, StagesOK
<1> QED
  BY <1>4, <1>5, <1>6, <1>7 DEF ActorsOK

-----------------------------------------------------------------------------
QueueOK == queue \in Seq(Messages) /\ Len(queue) <= QueueSize

TablesOK ==
    /\ warnings \in [Users -> Nat]
    /\ blacklist \subseteq Texts
    /\ badDomains \subseteq Domains
    /\ learning \subseteq Messages \X {"spam", "domains"}

OwnerOK ==
    /\ owner \in Users
    /\ ownerCache \in Users \cup {None, NoOwner}
    /\ transfers \in Nat
    /\ adminFailed \in BOOLEAN

HistoryOK ==
    /\ log \in Seq(Messages)
    /\ known \subseteq Messages /\ punished \subseteq Messages
    /\ cause \in [Messages -> Causes]
    /\ before \in [Messages -> SUBSET Messages] /\ counted \subseteq Messages
    /\ dbFailed \in BOOLEAN

\* TypeOK in the parts that actions change together.
LEMMA TypeParts ==
    TypeOK <=> /\ QueueOK /\ StagesOK /\ ActorsOK /\ TablesOK /\ OwnerOK /\ HistoryOK
               /\ cancelled \in BOOLEAN /\ exited \in BOOLEAN
BY Zenon DEF TypeOK, QueueOK, StagesOK, ActorsOK, ActorStates, TablesOK, OwnerOK, HistoryOK

\* The same of the next state.
LEMMA TypePartsNext ==
    TypeOK' <=> /\ QueueOK' /\ StagesOK' /\ ActorsOK' /\ TablesOK' /\ OwnerOK' /\ HistoryOK'
                /\ cancelled' \in BOOLEAN /\ exited' \in BOOLEAN
BY Zenon DEF TypeOK, QueueOK, StagesOK, ActorsOK, ActorStates, TablesOK, OwnerOK, HistoryOK

\* The steps of an actor are different strings; those of ban() are work.
LEMMA StepNames ==
    /\ {"known", "domain", "flood", "filter", "allowOff", "allowDelete", "allowBan",
        "trigger", "reset", "warn", "warnDelete", "warnNotice", "softDelete", "notice",
        "banDelete", "ownerLook", "ownerFetch", "ownerStore", "ban", "banNotice",
        "spawn", "resetAfter"} = BusySteps
    /\ RetrySteps \subseteq BusySteps
BY DEF Steps, BusySteps, RetrySteps

\* A step of the actor that goes on to one of the steps S, is done or enters
\* ban(), in one fact.
MovesTo(a, S) ==
    \/ \E s \in S : Go(a, s) /\ UNCHANGED <<stage, cause>>
    \/ \E o \in Outcomes : Finish(a, o) /\ UNCHANGED cause
    \/ \E w \in Causes : BanFor(a, w) /\ UNCHANGED stage

Moves(a) == MovesTo(a, BusySteps)

\* The steps at which an actor has neither learned who the owner is nor banned.
PlainSteps == BusySteps \ {"ownerStore", "ban", "banNotice", "spawn"}

\* An action that moves one actor keeps the types of actors, stages and causes.
LEMMA MovesType ==
    ASSUME ActorsOK, StagesOK, cause \in [Messages -> Causes],
           NEW a \in Actors, actor[a].step \in BusySteps, Moves(a)
    PROVE  ActorsOK' /\ StagesOK' /\ cause' \in [Messages -> Causes]
<1>1. ASSUME NEW s \in BusySteps, Go(a, s), UNCHANGED <<stage, cause>>
      PROVE  ActorsOK' /\ StagesOK' /\ cause' \in [Messages -> Causes]
  <2>1. ActorsOK'
    BY <1>1, GoProperties
  <2> QED
    BY <1>1, <2>1 DEF StagesOK
<1>2. ASSUME NEW o \in Outcomes, Finish(a, o), UNCHANGED cause
      PROVE  ActorsOK' /\ StagesOK' /\ cause' \in [Messages -> Causes]
  BY <1>2, FinishProperties
<1>3. ASSUME NEW w \in Causes, BanFor(a, w), UNCHANGED stage
      PROVE  ActorsOK' /\ StagesOK' /\ cause' \in [Messages -> Causes]
  <2>1. ActorsOK' /\ cause' \in [Messages -> Causes]
    BY <1>3, BanForProperties
  <2> QED
    BY <1>3, <2>1 DEF StagesOK
<1> QED
  BY <1>1, <1>2, <1>3 DEF Moves, MovesTo

\* What is known of an actor after such a step.
LEMMA PlainMoves ==
    ASSUME ActorsOK, StagesOK, cause \in [Messages -> Causes], NEW a \in Actors,
           actor[a].step \in BusySteps, MovesTo(a, PlainSteps)
    PROVE  /\ Moves(a)
           /\ actor'[a].step \notin {"ownerStore", "ban", "banNotice", "spawn"}
           /\ \A b \in Actors \ {a} : actor'[b] = actor[b]
<1>1. ASSUME NEW s \in PlainSteps, Go(a, s)
      PROVE  /\ actor'[a].step \notin {"ownerStore", "ban", "banNotice", "spawn"}
             /\ \A b \in Actors \ {a} : actor'[b] = actor[b]
  BY <1>1, GoProperties DEF PlainSteps
<1>2. ASSUME NEW o \in Outcomes, Finish(a, o)
      PROVE  /\ actor'[a].step \notin {"ownerStore", "ban", "banNotice", "spawn"}
             /\ \A b \in Actors \ {a} : actor'[b] = actor[b]
  BY <1>2, FinishProperties
<1>3. ASSUME NEW w \in Causes, BanFor(a, w)
      PROVE  /\ actor'[a].step \notin {"ownerStore", "ban", "banNotice", "spawn"}
             /\ \A b \in Actors \ {a} : actor'[b] = actor[b]
  BY <1>3, BanForProperties
<1>4. Moves(a)
  BY DEF Moves, MovesTo, PlainSteps
<1> QED
  BY <1>1, <1>2, <1>3, <1>4 DEF MovesTo

\* The levels of processUpdate.
Level(w) ==
    \/ CheckKnown(w) \/ CheckDomain(w) \/ CheckFlood(w)
    \/ CheckMode(w) \/ (\E s \in Settings : CheckAllow(w, s)) \/ CheckTrigger(w)

\* The steps that count warnings, delete softly and give notice.
Mild(w) ==
    \/ ResetSeries(w) \/ Warn(w) \/ WarnDelete(w) \/ WarnNotice(w)
    \/ SoftDelete(w) \/ Notice(w) \/ ResetAfter(w)

\* What the content filter goes by, and where it leads.
LEMMA FilterSettings ==
    /\ Global \in Settings /\ \A mode \in ChatModes : Setting(mode) \in Settings
    /\ \A s \in Settings : AllowStep(s) \in {"allowOff", "allowDelete", "allowBan"}
BY DispatcherAssumption DEF Global, Setting, Settings, AllowStep

LEMMA FilterMoves ==
    ASSUME NEW w, NEW s \in Settings, NEW x \in BOOLEAN, FilterDecides(w, s, x), UNCHANGED stage
    PROVE  MovesTo(w, PlainSteps)
<1>1. {"trigger", "softDelete"} \subseteq PlainSteps /\ "filter" \in Causes
  BY StepNames DEF PlainSteps, Causes
<1> QED
  BY <1>1 DEF FilterDecides, MovesTo

\* What the levels do to the tables and the history: nothing, but an error of
\* the database is noted.
LEMMA LevelStep ==
    ASSUME TypeOK, NEW w \in Workers, Level(w)
    PROVE  /\ MovesTo(w, PlainSteps) /\ actor[w].step \in BusySteps
           /\ UNCHANGED <<queue, tables, learning, ownerVars, life, log, known, punished, series>>
           /\ dbFailed' \in BOOLEAN
<1> USE DEF At, DbOk, DbErr, TextOk, TextErr
<1>1. /\ {"known", "domain", "flood", "filter", "allowOff", "allowDelete", "allowBan", "trigger",
           "warn", "reset", "softDelete"} \subseteq PlainSteps
      /\ {"known", "domain", "flood", "filter"} \subseteq Causes
      /\ "accepted" \in Outcomes
      /\ PlainSteps \subseteq BusySteps
      /\ dbFailed \in BOOLEAN
  BY StepNames DEF PlainSteps, Causes, Outcomes, TypeOK
<1>2. CASE CheckKnown(w)
  BY <1>1, <1>2 DEF CheckKnown, MovesTo
<1>3. CASE CheckDomain(w)
  BY <1>1, <1>3 DEF CheckDomain, MovesTo
<1>4. CASE CheckFlood(w)
  BY <1>1, <1>4 DEF CheckFlood, MovesTo
<1>5. CASE CheckMode(w)
  <2>1. CASE \E mode \in ChatModes : Go(w, AllowStep(Setting(mode))) /\ UNCHANGED cause
    BY <1>1, <1>5, <2>1, FilterSettings DEF CheckMode, MovesTo
  <2>2. CASE FilterDecides(w, Global, FALSE)
    <3>1. Global \in Settings /\ FALSE \in BOOLEAN /\ UNCHANGED stage
      BY <1>5, FilterSettings DEF CheckMode
    <3>2. MovesTo(w, PlainSteps)
      BY <2>2, <3>1, FilterMoves
    <3> QED
      BY <1>1, <1>5, <3>2 DEF CheckMode
  <2> QED
    BY <1>1, <1>5, <2>1, <2>2 DEF CheckMode
<1>6. CASE \E s \in Settings : CheckAllow(w, s)
  <2>1. PICK s \in Settings : CheckAllow(w, s)
    BY <1>6
  <2>2. PICK t \in Settings, x \in BOOLEAN : FilterDecides(w, t, x)
    BY <2>1, FilterSettings DEF CheckAllow
  <2>3. MovesTo(w, PlainSteps)
    BY <2>1, <2>2, FilterMoves DEF CheckAllow
  <2> QED
    BY <1>1, <2>1, <2>3, FilterSettings DEF CheckAllow
<1>7. CASE CheckTrigger(w)
  BY <1>1, <1>7 DEF CheckTrigger, MovesTo
<1> QED
  BY <1>2, <1>3, <1>4, <1>5, <1>6, <1>7 DEF Level

LEMMA MildStep ==
    ASSUME TypeOK, NEW w \in Workers, Mild(w)
    PROVE  /\ MovesTo(w, PlainSteps) /\ actor[w].step \in BusySteps
           /\ UNCHANGED <<queue, blacklist, badDomains, learning, ownerVars, life, log, known,
                          punished, before>>
           /\ dbFailed' \in BOOLEAN
           /\ warnings' \in [Users -> Nat]
           /\ counted' \subseteq Messages
<1> USE DEF At, DbOk, DbErr, ApiOk, tables, history, series
<1>1. /\ {"reset", "warn", "warnDelete", "warnNotice", "softDelete", "notice", "resetAfter"}
           \subseteq PlainSteps
      /\ "warnings" \in Causes
      /\ {"accepted", "removed", "judged"} \subseteq Outcomes
      /\ PlainSteps \subseteq BusySteps
      /\ dbFailed \in BOOLEAN
      /\ warnings \in [Users -> Nat]
      /\ counted \subseteq Messages
  BY StepNames DEF PlainSteps, Causes, Outcomes, TypeOK
<1>2. CASE ResetSeries(w)
  <2>1. actor[w].step \in BusySteps /\ MovesTo(w, PlainSteps)
    BY <1>1, <1>2 DEF ResetSeries, MovesTo
  <2>2. warnings' \in [Users -> Nat]
    BY <1>1, <1>2 DEF ResetSeries
  <2> QED
    BY <1>1, <1>2, <2>1, <2>2 DEF ResetSeries
<1>3. CASE Warn(w)
  <2>1. actor[w].step \in BusySteps
    BY <1>1, <1>3 DEF Warn
  <2>2. MovesTo(w, PlainSteps)
    BY <1>1, <1>3 DEF Warn, MovesTo
  <2>3. warnings' \in [Users -> Nat]
    BY <1>1, <1>3 DEF Warn
  <2>4. actor[w].msg \in Messages
    BY <2>1, BusyActor, TypeParts DEF Actors
  <2>5. counted' \subseteq Messages
    BY <1>1, <1>3, <2>4 DEF Warn
  <2> QED
    BY <1>1, <1>3, <2>1, <2>2, <2>3, <2>5 DEF Warn
<1>4. CASE WarnDelete(w)
  BY <1>1, <1>4 DEF WarnDelete, MovesTo
<1>5. CASE WarnNotice(w)
  BY <1>1, <1>5 DEF WarnNotice, MovesTo
<1>6. CASE SoftDelete(w)
  BY <1>1, <1>6 DEF SoftDelete, MovesTo
<1>7. CASE Notice(w)
  BY <1>1, <1>7 DEF Notice, MovesTo
<1>8. CASE ResetAfter(w)
  <2>1. actor[w].step \in BusySteps /\ MovesTo(w, PlainSteps)
    BY <1>1, <1>8 DEF ResetAfter, MovesTo
  <2>2. warnings' \in [Users -> Nat]
    BY <1>1, <1>8 DEF ResetAfter
  <2> QED
    BY <1>1, <1>8, <2>1, <2>2 DEF ResetAfter
<1> QED
  BY <1>2, <1>3, <1>4, <1>5, <1>6, <1>7, <1>8 DEF Mild

\* ban() hands the actor back: it goes on to the reset or is done.
LEMMA BanReturnsMoves ==
    ASSUME NEW a \in Actors, BanReturns(a), UNCHANGED cause
    PROVE  Moves(a)
<1>1. "resetAfter" \in BusySteps /\ "judged" \in Outcomes
  BY StepNames, Zenon DEF Outcomes
<1> QED
  BY <1>1 DEF BanReturns, Moves, MovesTo

\* The steps of ban() but for the question to Telegram.
LEMMA BanStep ==
    ASSUME TypeOK, NEW a \in Actors,
           \/ BanDelete(a) \/ OwnerLook(a) \/ OwnerStore(a) \/ Ban(a) \/ BanNotice(a) \/ Spawn(a)
    PROVE  /\ Moves(a) /\ actor[a].step \in BusySteps
           /\ UNCHANGED <<queue, tables, owner, transfers, adminFailed, life, log, known, series,
                          dbFailed>>
           /\ ownerCache' \in Users \cup {None, NoOwner}
           /\ punished' \subseteq Messages
           /\ learning' \subseteq Messages \X {"spam", "domains"}
<1> USE DEF At, ApiOk, history, series, ownerVars
<1>1. /\ {"banDelete", "ownerLook", "ownerFetch", "ownerStore", "ban", "banNotice", "spawn"}
           \subseteq BusySteps
      /\ ownerCache \in Users \cup {None, NoOwner}
      /\ punished \subseteq Messages
      /\ learning \subseteq Messages \X {"spam", "domains"}
  BY StepNames, Zenon DEF TypeOK
<1>a. ActorsOK
  BY TypeParts
<1>2. CASE BanDelete(a)
  BY <1>1, <1>2 DEF BanDelete, Moves, MovesTo
<1>3. CASE OwnerLook(a)
  <2>1. Decide(a, ownerCache) /\ UNCHANGED cause => Moves(a)
    BY <1>1, BanReturnsMoves DEF Decide, Moves, MovesTo
  <2> QED
    BY <1>1, <1>3, <2>1 DEF OwnerLook, Moves, MovesTo
<1>4. CASE OwnerStore(a)
  <2>1. Decide(a, actor[a].seen) /\ UNCHANGED cause => Moves(a)
    BY <1>1, BanReturnsMoves DEF Decide, Moves, MovesTo
  <2>2. actor[a].seen \in Users \cup {None, NoOwner}
    BY <1>a DEF ActorsOK, ActorStates
  <2> QED
    BY <1>1, <1>4, <2>1, <2>2 DEF OwnerStore
<1>5. CASE Ban(a)
  <2>1. actor[a].step \in BusySteps
    BY <1>1, <1>5 DEF Ban
  <2>2. actor[a].msg \in Messages
    BY <1>a, <2>1, BusyActor
  <2>3. Moves(a)
    BY <1>1, <1>5, BanReturnsMoves DEF Ban, BanFailed, Moves, MovesTo
  <2> QED
    BY <1>1, <1>5, <2>1, <2>2, <2>3 DEF Ban
<1>6. CASE BanNotice(a)
  BY <1>1, <1>6 DEF BanNotice, Moves, MovesTo
<1>7. CASE Spawn(a)
  <2>1. actor[a].step \in BusySteps
    BY <1>1, <1>7 DEF Spawn
  <2>2. actor[a].msg \in Messages
    BY <1>a, <2>1, BusyActor
  <2>3. Moves(a)
    BY <1>7, BanReturnsMoves DEF Spawn
  <2> QED
    BY <1>1, <1>7, <2>1, <2>2, <2>3 DEF Spawn
<1> QED
  BY <1>2, <1>3, <1>4, <1>5, <1>6, <1>7

\* The actors that a worker step, a handler step or BanSpammer moves otherwise:
\* a worker takes a message, the question to Telegram is answered, a call is
\* tried again, a handler calls BanSpammer.
LEMMA TakeType ==
    ASSUME TypeOK, NEW w \in Workers, Take(w)
    PROVE  TypeOK'
<1> DEFINE m == Head(queue)
           s == IF Text[m] = NoText THEN "flood" ELSE "known"
           r == [actor[w] EXCEPT !.msg = m, !.step = s]
<1>1. QueueOK /\ StagesOK /\ ActorsOK /\ w \in Actors
  BY TypeParts DEF Actors
<1>2. m \in Messages /\ Tail(queue) \in Seq(Messages) /\ Len(Tail(queue)) <= QueueSize
  BY <1>1, DispatcherAssumption DEF Take, QueueOK
<1>3. s \in Steps /\ s \notin {"idle", "stopped"}
  BY DEF Steps
<1>4. actor' = [actor EXCEPT ![w] = r]
  BY <1>1 DEF Take, ActorsOK
<1>5. actor[w] \in ActorStates
  BY <1>1 DEF ActorsOK
<1>6. r \in ActorStates /\ r.msg = m /\ r.step = s
  BY <1>2, <1>3, <1>5 DEF ActorStates
<1>7. m # None
  BY <1>2, DispatcherAssumption
<1>8. ActorsOK'
  BY <1>1, <1>3, <1>4, <1>6, <1>7 DEF ActorsOK
<1>9. QueueOK' /\ StagesOK'
  BY <1>1, <1>2 DEF Take, QueueOK, StagesOK
<1>10. HistoryOK'
  <2>1. HistoryOK
    BY TypeParts
  <2>2. before' = [before EXCEPT ![m] = Settled] /\ Settled \subseteq Messages
    BY DEF Take, Settled
  <2> QED
    BY <1>2, <2>1, <2>2 DEF Take, HistoryOK
<1> QED
  BY <1>8, <1>9, <1>10, TypeParts, TypePartsNext
  DEF Take, tables, ownerVars, life, TablesOK, OwnerOK

\* getChatAdministrators names a member or nobody, or goes on to the ban.
LEMMA FetchType ==
    ASSUME TypeOK, NEW a \in Actors, OwnerFetch(a)
    PROVE  TypeOK'
<1>1. ActorsOK /\ OwnerOK
  BY TypeParts, TypePartsNext
<1>2. actor[a].step = "ownerFetch"
  BY DEF OwnerFetch, At
<1>3. {"ownerFetch", "ownerStore", "ban"} \subseteq BusySteps
  BY StepNames, Zenon
<1>4. ActorsOK'
  <2>1. CASE Go(a, "ban")
    BY <1>1, <1>2, <1>3, <2>1, GoProperties
  <2>2. ASSUME NEW id \in {owner, NoOwner},
               actor' = [actor EXCEPT ![a].step = "ownerStore", ![a].seen = id]
        PROVE  ActorsOK'
    <3> DEFINE r == [actor[a] EXCEPT !.step = "ownerStore", !.seen = id]
    <3>1. actor' = [actor EXCEPT ![a] = r]
      BY <1>1, <2>2 DEF ActorsOK
    <3>2. actor[a] \in ActorStates /\ actor[a].msg \in Messages
      BY <1>1, <1>2, <1>3, BusyActor
    <3>3. id \in Users \cup {NoOwner} /\ "ownerStore" \in Steps \ {"idle", "stopped"}
      BY <1>1 DEF OwnerOK, Steps
    <3>4. r \in ActorStates /\ r.msg = actor[a].msg /\ r.step = "ownerStore"
      BY <3>2, <3>3 DEF ActorStates
    <3> QED
      BY <1>1, <3>1, <3>2, <3>3, <3>4, DispatcherAssumption DEF ActorsOK
  <2> QED
    BY <2>1, <2>2 DEF OwnerFetch
<1>5. OwnerOK'
  BY <1>1 DEF OwnerFetch, OwnerOK
<1> QED
  BY <1>4, <1>5, TypeParts, TypePartsNext
  DEF OwnerFetch, tables, life, history, series, QueueOK, StagesOK, TablesOK, HistoryOK

\* A retry counts up to MaxAttempts.
LEMMA ThrottledType ==
    ASSUME TypeOK, NEW a \in Actors, Throttled(a)
    PROVE  TypeOK'
<1>1. ActorsOK
  BY TypeParts, TypePartsNext
<1> DEFINE r == [actor[a] EXCEPT !.tries = @ + 1]
<1>2. actor' = [actor EXCEPT ![a] = r] /\ actor[a].tries < MaxAttempts
  BY <1>1 DEF Throttled, ActorsOK
<1>3. actor[a] \in ActorStates
  BY <1>1 DEF ActorsOK
<1>4. actor[a].tries + 1 \in 1 .. MaxAttempts
  BY <1>2, <1>3, DispatcherAssumption DEF ActorStates
<1>5. r \in ActorStates /\ r.msg = actor[a].msg /\ r.step = actor[a].step
  BY <1>3, <1>4 DEF ActorStates
<1>6. ActorsOK'
  BY <1>1, <1>2, <1>5 DEF ActorsOK
<1> QED
  BY <1>6, TypeParts, TypePartsNext
  DEF Throttled, tables, ownerVars, life, history, series, QueueOK, StagesOK, TablesOK, OwnerOK, HistoryOK

\* BanSpammer puts a handler to work on the reported message.
LEMMA BanSpammerType ==
    ASSUME TypeOK, NEW h \in Handlers, NEW m \in Messages, BanSpammer(h, m)
    PROVE  TypeOK'
<1>1. ActorsOK /\ h \in Actors
  BY TypeParts DEF Actors
<1> DEFINE r == [Idle("banDelete") EXCEPT !.msg = m, !.why = "manual"]
<1>2. actor' = [actor EXCEPT ![h] = r]
  BY DEF BanSpammer
<1>3. /\ "banDelete" \in Steps \ {"idle", "stopped"}
      /\ {"none", "manual"} \subseteq Causes
      /\ 1 \in 1 .. MaxAttempts
      /\ m # None
  BY DispatcherAssumption DEF Steps, Causes
<1>4. r \in ActorStates /\ r.msg = m /\ r.step = "banDelete"
  BY <1>3 DEF Idle, ActorStates
<1>5. ActorsOK'
  BY <1>1, <1>2, <1>3, <1>4 DEF ActorsOK
<1> QED
  BY <1>5, TypeParts, TypePartsNext
  DEF BanSpammer, tables, ownerVars, life, history, series, QueueOK, StagesOK, TablesOK, OwnerOK, HistoryOK

\* Submit appends to the queue while it has room.
LEMMA SubmitType ==
    ASSUME TypeOK, NEW m \in Messages, Submit(m)
    PROVE  TypeOK'
<1>1. QueueOK /\ StagesOK /\ HistoryOK
  BY TypeParts, TypePartsNext
<1>2. QueueOK'
  <2>1. CASE HasRoom
    <3>1. queue' = Append(queue, m) /\ queue \in Seq(Messages) /\ Len(queue) < QueueSize
      BY <1>1, <2>1 DEF Submit, HasRoom, QueueOK
    <3>2. queue' \in Seq(Messages) /\ Len(queue') = Len(queue) + 1 /\ Len(queue) \in Nat
      BY <3>1
    <3> QED
      BY <3>1, <3>2, DispatcherAssumption DEF QueueOK
  <2>2. CASE ~HasRoom
    BY <1>1, <2>2 DEF Submit, QueueOK
  <2> QED
    BY <2>1, <2>2
<1>3. StagesOK'
  BY <1>1 DEF Submit, StagesOK
<1>4. HistoryOK'
  <2>1. log' \in Seq(Messages)
    <3>1. log \in Seq(Messages) /\ (log' = log \/ log' = Append(log, m))
      BY <1>1 DEF Submit, HistoryOK
    <3> QED
      BY <3>1
  <2>2. known' \subseteq Messages
    BY <1>1 DEF Submit, HistoryOK
  <2>3. punished' = punished /\ cause' = cause /\ UNCHANGED series /\ dbFailed' = dbFailed
    BY DEF Submit
  <2> QED
    BY <1>1, <2>1, <2>2, <2>3 DEF HistoryOK, series
<1> QED
  BY <1>2, <1>3, <1>4, TypeParts, TypePartsNext
  DEF Submit, tables, ownerVars, life, ActorsOK, TablesOK, OwnerOK

\* The learning goroutine writes texts and domains of messages.
LEMMA LearnType ==
    ASSUME TypeOK, NEW m \in Messages, LearnSpam(m) \/ LearnDomains(m)
    PROVE  TypeOK'
<1>1. TablesOK /\ HistoryOK
  BY TypeParts, TypePartsNext
<1>2. Text[m] \in Texts /\ DomainsIn[Text[m]] \subseteq Domains
  BY DispatcherAssumption
<1>3. TablesOK'
  BY <1>1, <1>2 DEF LearnSpam, LearnDomains, Lesson, TablesOK
<1>4. HistoryOK'
  BY <1>1 DEF LearnSpam, LearnDomains, TextErr, DbErr, series, HistoryOK
<1> QED
  BY <1>3, <1>4, TypeParts, TypePartsNext
  DEF LearnSpam, LearnDomains, ownerVars, life, QueueOK, StagesOK, ActorsOK, OwnerOK

-----------------------------------------------------------------------------
\* Initially the variables have their types.
LEMMA InitType == Init => TypeOK
<1> SUFFICES ASSUME Init
             PROVE  TypeOK
  OBVIOUS
<1>1. /\ "idle" \in Steps /\ "none" \in Causes /\ 1 \in 1 .. MaxAttempts
  BY DispatcherAssumption DEF Steps, Causes
<1>2. Idle("idle") \in ActorStates /\ Idle("idle").msg = None /\ Idle("idle").step = "idle"
  BY <1>1 DEF Idle, ActorStates
<1>3. ActorsOK
  BY <1>2 DEF Init, ActorsOK
<1>4. QueueOK
  BY DispatcherAssumption DEF Init, QueueOK
<1>5. StagesOK /\ TablesOK /\ OwnerOK
  BY DEF Init, StagesOK, TablesOK, OwnerOK
<1>6. HistoryOK
  <2>1. log \in Seq(Messages) /\ cause \in [Messages -> Causes]
    BY <1>1 DEF Init
  <2>2. known = {} /\ punished = {} /\ counted = {} /\ dbFailed \in BOOLEAN
    BY DEF Init
  <2>3. before \in [Messages -> SUBSET Messages]
    BY DEF Init
  <2> QED
    BY <2>1, <2>2, <2>3 DEF HistoryOK
<1> QED
  BY <1>3, <1>4, <1>5, <1>6, TypeParts DEF Init

\* Every step keeps the types.
LEMMA TypeStep == TypeOK /\ [Next]_vars => TypeOK'
<1> SUFFICES ASSUME TypeOK, [Next]_vars
             PROVE  TypeOK'
  OBVIOUS
<1> USE DEF tables, ownerVars, life
<1>1. /\ QueueOK /\ StagesOK /\ ActorsOK /\ TablesOK /\ OwnerOK /\ HistoryOK
      /\ cancelled \in BOOLEAN /\ exited \in BOOLEAN
  BY TypeParts, TypePartsNext
<1>2. Workers \subseteq Actors /\ Handlers \subseteq Actors
  BY DEF Actors
<1>3. ASSUME NEW w \in Workers,
             Level(w)
      PROVE  TypeOK'
  <2>1. ActorsOK' /\ StagesOK' /\ cause' \in [Messages -> Causes]
    BY <1>1, <1>2, <1>3, LevelStep, PlainMoves, MovesType DEF HistoryOK
  <2> QED
    BY <1>1, <1>3, <2>1, LevelStep, TypeParts, TypePartsNext
    DEF series, QueueOK, TablesOK, OwnerOK, HistoryOK
<1>4. ASSUME NEW w \in Workers,
             Mild(w)
      PROVE  TypeOK'
  <2>1. ActorsOK' /\ StagesOK' /\ cause' \in [Messages -> Causes]
    BY <1>1, <1>2, <1>4, MildStep, PlainMoves, MovesType DEF HistoryOK
  <2> QED
    BY <1>1, <1>4, <2>1, MildStep, TypeParts, TypePartsNext DEF QueueOK, TablesOK, OwnerOK, HistoryOK
<1>5. ASSUME NEW a \in Actors, BanSteps(a)
      PROVE  TypeOK'
  <2>1. CASE OwnerFetch(a)
    BY <2>1, FetchType
  <2>2. CASE \/ BanDelete(a) \/ OwnerLook(a) \/ OwnerStore(a) \/ Ban(a) \/ BanNotice(a)
             \/ Spawn(a)
    <3>1. ActorsOK' /\ StagesOK' /\ cause' \in [Messages -> Causes]
      BY <1>1, <2>2, BanStep, MovesType DEF HistoryOK
    <3> QED
      BY <1>1, <2>2, <3>1, BanStep, TypeParts, TypePartsNext
      DEF series, QueueOK, TablesOK, OwnerOK, HistoryOK
  <2> QED
    BY <1>5, <2>1, <2>2 DEF BanSteps
<1>6. ASSUME NEW w \in Workers, Stop(w)
      PROVE  TypeOK'
  <2> DEFINE r == [actor[w] EXCEPT !.step = "stopped", !.tries = 1]
  <2>1. actor' = [actor EXCEPT ![w] = r] /\ actor[w].step = "idle"
    BY <1>1, <1>6 DEF Stop, Go, At, ActorsOK
  <2>2. actor[w] \in ActorStates /\ w \in Actors /\ actor[w].msg = None
    BY <1>1, <1>2, <2>1 DEF ActorsOK
  <2>3. "stopped" \in Steps /\ 1 \in 1 .. MaxAttempts
    BY DispatcherAssumption DEF Steps
  <2>4. r \in ActorStates /\ r.step = "stopped" /\ r.msg = None
    BY <2>2, <2>3 DEF ActorStates
  <2>5. ActorsOK'
    BY <1>1, <2>1, <2>2, <2>4 DEF ActorsOK
  <2> QED
    BY <1>1, <1>6, <2>5, TypeParts, TypePartsNext
    DEF Stop, history, series, QueueOK, StagesOK, TablesOK, OwnerOK, HistoryOK
<1>7. CASE ExpireOwner \/ TransferOwner \/ Cancel \/ Exit
  <2>1. OwnerOK' /\ cancelled' \in BOOLEAN /\ exited' \in BOOLEAN
    <3>1. CASE ExpireOwner
      BY <1>1, <3>1 DEF ExpireOwner, OwnerOK
    <3>2. CASE TransferOwner
      <4>1. owner' \in Users /\ transfers' \in Nat
        BY <1>1, <3>2 DEF TransferOwner, OwnerOK
      <4> QED
        BY <1>1, <3>2, <4>1 DEF TransferOwner, OwnerOK
    <3>3. CASE Cancel \/ Exit
      BY <1>1, <3>3 DEF Cancel, Exit, OwnerOK
    <3> QED
      BY <1>7, <3>1, <3>2, <3>3
  <2> QED
    BY <1>1, <1>7, <2>1, TypeParts, TypePartsNext
    DEF ExpireOwner, TransferOwner, Cancel, Exit, history, series, QueueOK, StagesOK, ActorsOK,
        TablesOK, HistoryOK
<1>8. CASE UNCHANGED vars
  BY <1>1, <1>8, TypeParts, TypePartsNext
  DEF vars, history, series, QueueOK, StagesOK, ActorsOK, TablesOK, OwnerOK, HistoryOK
<1>9. ASSUME NEW w \in Workers, Worker(w)
      PROVE  TypeOK'
  BY <1>2, <1>3, <1>4, <1>5, <1>6, <1>9, TakeType, ThrottledType DEF Worker, WorkerSteps, Level, Mild
<1>10. ASSUME NEW h \in Handlers, Handler(h)
       PROVE  TypeOK'
  BY <1>2, <1>5, <1>10, ThrottledType DEF Handler
<1> QED
  BY <1>7, <1>8, <1>9, <1>10, SubmitType, LearnType, BanSpammerType DEF Next, Learner

\* Type correctness of the dispatcher.
THEOREM TypeCorrect == Spec => []TypeOK
BY InitType, TypeStep, PTL DEF Spec

-----------------------------------------------------------------------------
\* 2. Bans.

\* Whoever is past banChatMember, actor or learning goroutine, has a message
\* whose author was banned.
PunishedFirst ==
    /\ \A a \in Actors : actor[a].step \in {"banNotice", "spawn"} => actor[a].msg \in punished
    /\ \A m \in Messages :
          <<m, "spam">> \in learning \/ <<m, "domains">> \in learning => m \in punished

\* As long as the owner stays the same and Telegram answers, what isOwner has
\* in its cache, or is about to put there, is right.
OwnerRight ==
    transfers = 0 /\ ~adminFailed =>
        /\ ownerCache \in {None, owner}
        /\ \A a \in Actors : actor[a].step = "ownerStore" => actor[a].seen = owner

BanInv == PunishedFirst /\ LearnedFromBans /\ OwnerRight /\ OwnerNotTried

\* What BanInv speaks of, besides the actors.
banVars == <<blacklist, badDomains, learning, punished, ownerVars>>

\* A step that leaves one actor at a plain step, and the rest as it was.
LEMMA PlainKeeps ==
    ASSUME TypeOK, BanInv, NEW a \in Actors, UNCHANGED banVars,
           actor'[a].step \notin {"ownerStore", "ban", "banNotice", "spawn"},
           \A b \in Actors \ {a} : actor'[b] = actor[b]
    PROVE  BanInv'
<1>1. PunishedFirst'
  BY DEF BanInv, PunishedFirst, banVars
<1>2. LearnedFromBans'
  BY DEF BanInv, LearnedFromBans, banVars
<1>3. OwnerRight'
  BY DEF BanInv, OwnerRight, banVars, ownerVars
<1>4. OwnerNotTried'
  BY DEF BanInv, OwnerNotTried, banVars, ownerVars
<1> QED
  BY <1>1, <1>2, <1>3, <1>4 DEF BanInv

\* ban() hands the actor back at a plain step.
LEMMA BanReturnsPlain ==
    ASSUME TypeOK, NEW a \in Actors, actor[a].step \in BusySteps, BanReturns(a)
    PROVE  /\ actor'[a].step \notin {"ownerStore", "ban", "banNotice", "spawn"}
           /\ \A b \in Actors \ {a} : actor'[b] = actor[b]
<1>1. ActorsOK /\ StagesOK
  BY TypeParts
<1>2. CASE Go(a, "resetAfter")
  <2>1. "resetAfter" \in BusySteps
    BY StepNames, Zenon
  <2> QED
    BY <1>1, <1>2, <2>1, GoProperties
<1>3. CASE Finish(a, "judged")
  BY <1>1, <1>3, FinishProperties DEF Outcomes
<1> QED
  BY <1>2, <1>3 DEF BanReturns

\* isOwner decides, with an answer that is right as long as nothing failed.
LEMMA DecideKeeps ==
    ASSUME TypeOK, BanInv, NEW a \in Actors, NEW id, Decide(a, id),
           actor[a].step \in BusySteps,
           UNCHANGED <<blacklist, badDomains, learning, punished, owner, transfers, adminFailed>>,
           transfers = 0 /\ ~adminFailed => id = owner /\ ownerCache' \in {None, owner}
    PROVE  BanInv'
<1>1. ActorsOK /\ "ban" \in BusySteps
  BY TypeParts, StepNames, Zenon
<1>2. /\ \A b \in Actors \ {a} : actor'[b] = actor[b]
      /\ \/ actor'[a].step \notin {"ownerStore", "ban", "banNotice", "spawn"}
         \/ /\ actor'[a].step = "ban" /\ actor'[a].msg = actor[a].msg
            /\ Sender[actor[a].msg] # id
  <2>1. CASE BanReturns(a)
    BY <2>1, BanReturnsPlain
  <2>2. CASE Go(a, "ban") /\ id # Sender[actor[a].msg]
    BY <1>1, <2>2, GoProperties
  <2> QED
    BY <2>1, <2>2 DEF Decide
<1>3. PunishedFirst'
  BY <1>2 DEF BanInv, PunishedFirst
<1>4. LearnedFromBans'
  BY DEF BanInv, LearnedFromBans
<1>5. OwnerRight'
  BY <1>2 DEF BanInv, OwnerRight
<1>6. OwnerNotTried'
  BY <1>2 DEF BanInv, OwnerNotTried
<1> QED
  BY <1>3, <1>4, <1>5, <1>6 DEF BanInv

\* What getChatAdministrators tells is the owner, as long as he stays the same.
LEMMA FetchKeeps ==
    ASSUME TypeOK, BanInv, NEW a \in Actors, OwnerFetch(a)
    PROVE  BanInv'
<1>1. ActorsOK
  BY TypeParts
<1>2. /\ \A b \in Actors \ {a} : actor'[b] = actor[b]
      /\ actor'[a].step \in {"ownerStore", "ban"}
      /\ actor'[a].step = "ownerStore" => actor'[a].seen = owner \/ adminFailed' = TRUE
      /\ actor'[a].step = "ban" => adminFailed' = TRUE
  <2>1. CASE Go(a, "ban") /\ adminFailed' = TRUE
    <3>1. {"ban", "ownerFetch"} \subseteq BusySteps /\ actor[a].step = "ownerFetch"
      BY StepNames, Zenon DEF OwnerFetch, At
    <3> QED
      BY <1>1, <2>1, <3>1, GoProperties
  <2>2. ASSUME NEW id, actor' = [actor EXCEPT ![a].step = "ownerStore", ![a].seen = id],
               id = owner \/ adminFailed' = TRUE
        PROVE  /\ \A b \in Actors \ {a} : actor'[b] = actor[b]
               /\ actor'[a].step = "ownerStore"
               /\ actor'[a].seen = owner \/ adminFailed' = TRUE
    BY <1>1, <2>2 DEF ActorsOK, ActorStates
  <2> QED
    BY <2>1, <2>2 DEF OwnerFetch
<1>3. /\ UNCHANGED <<blacklist, badDomains, learning, punished, owner, ownerCache, transfers>>
      /\ adminFailed' = adminFailed \/ adminFailed' = TRUE
  BY DEF OwnerFetch, tables, history, series
<1>4. PunishedFirst'
  BY <1>2, <1>3 DEF BanInv, PunishedFirst
<1>5. LearnedFromBans'
  BY <1>3 DEF BanInv, LearnedFromBans
<1>6. OwnerRight'
  BY <1>2, <1>3 DEF BanInv, OwnerRight
<1>7. OwnerNotTried'
  BY <1>2, <1>3 DEF BanInv, OwnerNotTried
<1> QED
  BY <1>4, <1>5, <1>6, <1>7 DEF BanInv

\* banChatMember punishes before the notice and the learning follow, and it is
\* not called for a member the bot takes for the owner.
LEMMA BanKeeps ==
    ASSUME TypeOK, BanInv, NEW a \in Actors, Ban(a)
    PROVE  BanInv'
<1>1. ActorsOK /\ actor[a].step \in BusySteps
  <2>1. actor[a].step = "ban" /\ "ban" \in BusySteps
    BY StepNames, Zenon DEF Ban, At
  <2> QED
    BY <2>1, TypeParts
<1>2. /\ \A b \in Actors \ {a} : actor'[b] = actor[b]
      /\ actor'[a].step \notin {"ownerStore", "ban"}
      /\ actor'[a].step \in {"banNotice", "spawn"} =>
            actor'[a].msg = actor[a].msg /\ punished' = punished \cup {actor[a].msg}
  <2>1. CASE BanFailed(a)
    BY <1>1, <2>1, BanReturnsPlain DEF BanFailed
  <2>2. CASE /\ punished' = punished \cup {actor[a].msg}
             /\ Go(a, IF Silent THEN "spawn" ELSE "banNotice")
    <3>1. (IF Silent THEN "spawn" ELSE "banNotice") \in BusySteps
      BY StepNames
    <3> QED
      BY <1>1, <2>2, <3>1, GoProperties
  <2> QED
    BY <2>1, <2>2 DEF Ban
<1>3. /\ UNCHANGED <<blacklist, badDomains, learning, ownerVars>>
      /\ punished \subseteq punished'
  BY DEF Ban, tables
<1>4. PunishedFirst'
  BY <1>2, <1>3 DEF BanInv, PunishedFirst
<1>5. LearnedFromBans'
  BY <1>3 DEF BanInv, LearnedFromBans
<1>6. OwnerRight'
  BY <1>2, <1>3 DEF BanInv, OwnerRight, ownerVars
<1>7. OwnerNotTried'
  BY <1>2, <1>3 DEF BanInv, OwnerNotTried, ownerVars
<1> QED
  BY <1>4, <1>5, <1>6, <1>7 DEF BanInv

\* The notice keeps the message, whose author is punished.
LEMMA NoticeKeeps ==
    ASSUME TypeOK, BanInv, NEW a \in Actors, BanNotice(a)
    PROVE  BanInv'
<1>1. ActorsOK /\ actor[a].step = "banNotice" /\ {"banNotice", "spawn"} \subseteq BusySteps
  BY TypeParts, StepNames, Zenon DEF BanNotice, At
<1>2. /\ \A b \in Actors \ {a} : actor'[b] = actor[b]
      /\ actor'[a].step = "spawn" /\ actor'[a].msg = actor[a].msg
  BY <1>1, GoProperties DEF BanNotice
<1>3. UNCHANGED banVars
  BY DEF BanNotice, banVars, tables, history, series
<1>4. PunishedFirst'
  BY <1>1, <1>2, <1>3 DEF BanInv, PunishedFirst, banVars
<1>5. LearnedFromBans'
  BY <1>3 DEF BanInv, LearnedFromBans, banVars
<1>6. OwnerRight'
  BY <1>2, <1>3 DEF BanInv, OwnerRight, banVars, ownerVars
<1>7. OwnerNotTried'
  BY <1>2, <1>3 DEF BanInv, OwnerNotTried, banVars, ownerVars
<1> QED
  BY <1>4, <1>5, <1>6, <1>7 DEF BanInv

\* The learning goroutines begin with the message of a punished author.
LEMMA SpawnKeeps ==
    ASSUME TypeOK, BanInv, NEW a \in Actors, Spawn(a)
    PROVE  BanInv'
<1>1. actor[a].step = "spawn" /\ actor[a].step \in BusySteps
  <2>1. actor[a].step = "spawn" /\ "spawn" \in BusySteps
    BY StepNames, Zenon DEF Spawn, At
  <2> QED
    BY <2>1
<1>2. /\ \A b \in Actors \ {a} : actor'[b] = actor[b]
      /\ actor'[a].step \notin {"ownerStore", "ban", "banNotice", "spawn"}
  BY <1>1, BanReturnsPlain DEF Spawn
<1>3. UNCHANGED <<blacklist, badDomains, punished, ownerVars>>
  BY DEF Spawn, tables, history, series
<1>4. learning' \subseteq learning \cup {<<actor[a].msg, "spam">>} /\ actor[a].msg \in punished
  BY <1>1 DEF Spawn, BanInv, PunishedFirst
<1>5. PunishedFirst'
  BY <1>2, <1>3, <1>4 DEF BanInv, PunishedFirst
<1>6. LearnedFromBans'
  BY <1>3 DEF BanInv, LearnedFromBans
<1>7. OwnerRight'
  BY <1>2, <1>3 DEF BanInv, OwnerRight, ownerVars
<1>8. OwnerNotTried'
  BY <1>2, <1>3 DEF BanInv, OwnerNotTried, ownerVars
<1> QED
  BY <1>5, <1>6, <1>7, <1>8 DEF BanInv

\* The learning goroutine of a punished message.
LEMMA LearnKeeps ==
    ASSUME TypeOK, BanInv, NEW m \in Messages, LearnSpam(m) \/ LearnDomains(m)
    PROVE  BanInv'
<1>1. m \in punished
  BY DEF LearnSpam, LearnDomains, BanInv, PunishedFirst
<1>2. UNCHANGED <<actor, punished, ownerVars>>
  BY DEF LearnSpam, LearnDomains
<1>3. /\ blacklist' \subseteq blacklist \cup {Text[m]}
      /\ badDomains' \subseteq badDomains \cup DomainsIn[Text[m]]
      /\ learning' \subseteq learning \cup {<<m, "domains">>}
  BY DEF LearnSpam, LearnDomains, Lesson
<1>4. PunishedFirst'
  BY <1>1, <1>2, <1>3 DEF BanInv, PunishedFirst
<1>5. LearnedFromBans'
  <2>1. m \in Messages /\ m \in punished'
    BY <1>1, <1>2
  <2>2. \A t \in blacklist' : \E n \in punished' : Text[n] = t
    BY <1>2, <1>3, <2>1 DEF BanInv, LearnedFromBans
  <2>3. \A d \in badDomains' : \E n \in punished' : d \in DomainsIn[Text[n]]
    BY <1>2, <1>3, <2>1 DEF BanInv, LearnedFromBans
  <2> QED
    BY <2>2, <2>3 DEF LearnedFromBans
<1>6. OwnerRight' /\ OwnerNotTried'
  BY <1>2 DEF BanInv, OwnerRight, OwnerNotTried, ownerVars
<1> QED
  BY <1>4, <1>5, <1>6 DEF BanInv

\* Initially nobody is punished and nothing is learned.
LEMMA InitBan == Init => BanInv
<1> SUFFICES ASSUME Init
             PROVE  BanInv
  OBVIOUS
<1>1. \A a \in Actors : actor[a].step = "idle"
  BY DEF Init, Idle
<1> QED
  BY <1>1 DEF Init, BanInv, PunishedFirst, LearnedFromBans, OwnerRight, OwnerNotTried

\* The steps of ban() keep the invariant.
LEMMA BanStepsKeep ==
    ASSUME TypeOK, BanInv, NEW a \in Actors, BanSteps(a)
    PROVE  BanInv'
<1>1. ActorsOK
  BY TypeParts
<1>2. {"banDelete", "ownerLook", "ownerFetch", "ownerStore"} \subseteq BusySteps
  BY StepNames, Zenon
<1>3. CASE BanDelete(a)
  <2>1. actor[a].step = "banDelete"
    BY <1>3 DEF BanDelete, At
  <2>2. /\ actor'[a].step = "ownerLook"
        /\ \A b \in Actors \ {a} : actor'[b] = actor[b]
    BY <1>1, <1>2, <1>3, <2>1, GoProperties DEF BanDelete
  <2>3. UNCHANGED banVars
    BY <1>3 DEF BanDelete, banVars, tables, history, series
  <2> QED
    BY <2>2, <2>3, PlainKeeps
<1>4. CASE OwnerLook(a)
  <2>1. actor[a].step = "ownerLook" /\ UNCHANGED banVars
    BY <1>4 DEF OwnerLook, At, banVars, tables, history, series
  <2>2. CASE Go(a, "ownerFetch")
    <3>1. /\ actor'[a].step = "ownerFetch"
          /\ \A b \in Actors \ {a} : actor'[b] = actor[b]
      BY <1>1, <1>2, <2>1, <2>2, GoProperties
    <3> QED
      BY <2>1, <3>1, PlainKeeps
  <2>3. CASE ownerCache # None /\ Decide(a, ownerCache)
    <3>1. transfers = 0 /\ ~adminFailed => ownerCache = owner /\ ownerCache' \in {None, owner}
      BY <2>1, <2>3 DEF BanInv, OwnerRight, banVars, ownerVars
    <3> QED
      BY <1>2, <2>1, <2>3, <3>1, DecideKeeps DEF banVars, ownerVars
  <2> QED
    BY <1>4, <2>2, <2>3 DEF OwnerLook
<1>5. CASE OwnerFetch(a)
  BY <1>5, FetchKeeps
<1>6. CASE OwnerStore(a)
  <2>1. /\ actor[a].step = "ownerStore" /\ Decide(a, actor[a].seen)
        /\ ownerCache' = actor[a].seen
        /\ UNCHANGED <<blacklist, badDomains, learning, punished, owner, transfers, adminFailed>>
    BY <1>6 DEF OwnerStore, At, tables, history, series
  <2>2. transfers = 0 /\ ~adminFailed =>
           actor[a].seen = owner /\ ownerCache' \in {None, owner}
    BY <2>1 DEF BanInv, OwnerRight
  <2> QED
    BY <1>2, <2>1, <2>2, DecideKeeps
<1>7. CASE Ban(a)
  BY <1>7, BanKeeps
<1>8. CASE BanNotice(a)
  BY <1>8, NoticeKeeps
<1>9. CASE Spawn(a)
  BY <1>9, SpawnKeeps
<1> QED
  BY <1>3, <1>4, <1>5, <1>6, <1>7, <1>8, <1>9 DEF BanSteps

\* A call that is tried again stays where it is.
LEMMA ThrottledKeeps ==
    ASSUME TypeOK, BanInv, NEW a \in Actors, Throttled(a)
    PROVE  BanInv'
<1>1. /\ actor'[a].step = actor[a].step /\ actor'[a].msg = actor[a].msg
      /\ actor'[a].seen = actor[a].seen
      /\ \A b \in Actors \ {a} : actor'[b] = actor[b]
  <2>1. ActorsOK
    BY TypeParts
  <2> QED
    BY <2>1 DEF Throttled, ActorsOK, ActorStates
<1>2. UNCHANGED banVars
  BY DEF Throttled, banVars, tables, history, series
<1>3. PunishedFirst'
  BY <1>1, <1>2 DEF BanInv, PunishedFirst, banVars
<1>4. LearnedFromBans'
  BY <1>2 DEF BanInv, LearnedFromBans, banVars
<1>5. OwnerRight'
  BY <1>1, <1>2 DEF BanInv, OwnerRight, banVars, ownerVars
<1>6. OwnerNotTried'
  BY <1>1, <1>2 DEF BanInv, OwnerNotTried, banVars, ownerVars
<1> QED
  BY <1>3, <1>4, <1>5, <1>6 DEF BanInv

\* A worker that takes a message or stops, a handler that calls BanSpammer.
LEMMA StartKeeps ==
    ASSUME TypeOK, BanInv, NEW a \in Actors,
           \/ a \in Workers /\ (Take(a) \/ Stop(a))
           \/ a \in Handlers /\ \E m \in Messages : BanSpammer(a, m)
    PROVE  BanInv'
<1>1. ActorsOK
  BY TypeParts
<1>2. /\ actor'[a].step \in {"known", "flood", "stopped", "banDelete"}
      /\ \A b \in Actors \ {a} : actor'[b] = actor[b]
  <2>1. CASE Take(a)
    BY <1>1, <2>1 DEF Take, ActorsOK, ActorStates
  <2>2. CASE Stop(a)
    BY <1>1, <2>2 DEF Stop, Go, ActorsOK, ActorStates
  <2>3. ASSUME NEW m \in Messages, BanSpammer(a, m)
        PROVE  /\ actor'[a].step = "banDelete"
               /\ \A b \in Actors \ {a} : actor'[b] = actor[b]
    <3> DEFINE r == [Idle("banDelete") EXCEPT !.msg = m, !.why = "manual"]
    <3>1. actor' = [actor EXCEPT ![a] = r]
      BY <2>3 DEF BanSpammer
    <3>2. r.step = "banDelete"
      BY DEF Idle
    <3> QED
      BY <1>1, <3>1, <3>2 DEF ActorsOK
  <2> QED
    BY <2>1, <2>2, <2>3
<1>3. UNCHANGED banVars
  BY DEF Take, Stop, BanSpammer, banVars, tables, history, series
<1> QED
  BY <1>2, <1>3, PlainKeeps

\* Every step of the dispatcher keeps the invariant.
LEMMA BanInvStep == TypeOK /\ BanInv /\ [Next]_vars => BanInv'
<1> SUFFICES ASSUME TypeOK, BanInv, [Next]_vars
             PROVE  BanInv'
  OBVIOUS
<1>1. ActorsOK /\ StagesOK /\ cause \in [Messages -> Causes]
  BY TypeParts DEF HistoryOK
<1>2. Workers \subseteq Actors /\ Handlers \subseteq Actors
  BY DEF Actors
<1>3. ASSUME NEW w \in Workers,
             Level(w)
      PROVE  BanInv'
  <2>1. /\ actor'[w].step \notin {"ownerStore", "ban", "banNotice", "spawn"}
        /\ \A b \in Actors \ {w} : actor'[b] = actor[b]
    BY <1>1, <1>2, <1>3, LevelStep, PlainMoves
  <2>2. UNCHANGED banVars
    BY <1>3, LevelStep DEF banVars, tables
  <2> QED
    BY <1>2, <2>1, <2>2, PlainKeeps
<1>4. ASSUME NEW w \in Workers,
             Mild(w)
      PROVE  BanInv'
  <2>1. /\ actor'[w].step \notin {"ownerStore", "ban", "banNotice", "spawn"}
        /\ \A b \in Actors \ {w} : actor'[b] = actor[b]
    BY <1>1, <1>2, <1>4, MildStep, PlainMoves
  <2>2. UNCHANGED banVars
    BY <1>4, MildStep DEF banVars
  <2> QED
    BY <1>2, <2>1, <2>2, PlainKeeps
<1>5. ASSUME NEW w \in Workers, Worker(w)
      PROVE  BanInv'
  BY <1>2, <1>3, <1>4, <1>5, StartKeeps, BanStepsKeep, ThrottledKeeps DEF Worker, WorkerSteps, Level, Mild
<1>6. ASSUME NEW h \in Handlers, Handler(h) \/ \E m \in Messages : BanSpammer(h, m)
      PROVE  BanInv'
  BY <1>2, <1>6, StartKeeps, BanStepsKeep, ThrottledKeeps DEF Handler
<1>7. ASSUME NEW m \in Messages, Submit(m)
      PROVE  BanInv'
  BY <1>7 DEF Submit, tables, ownerVars, BanInv, PunishedFirst, LearnedFromBans, OwnerRight,
              OwnerNotTried
<1>8. CASE ExpireOwner
  BY <1>8 DEF ExpireOwner, tables, history, series, BanInv, PunishedFirst, LearnedFromBans, OwnerRight,
              OwnerNotTried
<1>9. CASE TransferOwner
  <2>1. transfers' # 0
    <3>1. transfers \in Nat
      BY TypeParts DEF OwnerOK
    <3> QED
      BY <1>9, <3>1 DEF TransferOwner
  <2>2. PunishedFirst' /\ LearnedFromBans'
    BY <1>9 DEF TransferOwner, tables, history, series, BanInv, PunishedFirst, LearnedFromBans
  <2> QED
    BY <2>1, <2>2 DEF BanInv, OwnerRight, OwnerNotTried
<1>10. CASE Cancel \/ Exit \/ UNCHANGED vars
  BY <1>10 DEF Cancel, Exit, vars, tables, ownerVars, history, series, BanInv, PunishedFirst,
               LearnedFromBans, OwnerRight, OwnerNotTried
<1> QED
  BY <1>5, <1>6, <1>7, <1>8, <1>9, <1>10, LearnKeeps DEF Next, Learner

\* The invariant about bans holds in every behaviour.
THEOREM BanInvariance == Spec => []BanInv
BY InitBan, BanInvStep, TypeCorrect, PTL DEF Spec

\* The blacklists hold only what came from messages whose author was banned,
\* whatever the actors, the failures and the end of the program do.
THEOREM BlacklistHonest == Spec => []LearnedFromBans
<1>1. BanInv => LearnedFromBans
  BY DEF BanInv
<1> QED
  BY <1>1, BanInvariance, PTL

\* The owner of the chat is not tried while the owner stays the same and
\* Telegram answers.
THEOREM OwnerSpared == Spec => []OwnerNotTried
<1>1. BanInv => OwnerNotTried
  BY DEF BanInv
<1> QED
  BY <1>1, BanInvariance, PTL

-----------------------------------------------------------------------------
\* 3. Warnings.

\* The steps of a worker up to the one that counts the warning.
Levels == {"known", "domain", "flood", "filter", "allowOff", "allowDelete", "allowBan",
           "trigger", "warn"}

Busy(a) == actor[a].step \in BusySteps

\* The queue holds a message once, and no message that was taken before.
QueueFresh ==
    /\ \A i \in DOMAIN queue : stage[queue[i]] = "queued"
    /\ \A i, j \in DOMAIN queue : queue[i] = queue[j] => i = j

\* A message in the hands of a worker is in the hands of that worker only.
OneHolder ==
    /\ \A w \in Workers : Busy(w) => stage[actor[w].msg] = "taken"
    /\ \A v, w \in Workers : Busy(v) /\ Busy(w) /\ actor[v].msg = actor[w].msg => v = w

Handled(m) == stage[m] \notin {"new", "queued", "dropped"}
AllHandled == {m \in Messages : Handled(m)}

\* A trigger message is counted when a worker has carried it past the levels.
CountedOnce ==
    /\ counted \subseteq AllHandled
    /\ \A x \in counted : Text[x] \in Triggers
    /\ \A w \in Workers : actor[w].step \in Levels => actor[w].msg \notin counted

BeforeDone == \A m \in Messages : \A x \in before[m] : stage[x] \in Outcomes

\* A worker whose message led to a ban for warnings knows it.
HeldCause ==
    /\ \A m \in Messages : cause[m] = "warnings" => Handled(m)
    /\ \A w \in Workers :
          Busy(w) /\ cause[actor[w].msg] = "warnings" => actor[w].why = "warnings"

\* The counted messages of a member that no message after them has cleared.
Live(u) ==
    {x \in counted :
        /\ Sender[x] = u
        /\ ~\E o \in Messages :
              Sender[o] = u /\ EndsSeries(o) /\ (x = o \/ x \in before[o])}

CounterPaid == ~dbFailed => \A u \in Users : warnings[u] <= Cardinality(Live(u))

WarnsTrigger == \A w \in Workers : actor[w].step = "warn" => Text[actor[w].msg] \in Triggers

WarnInv ==
    /\ QueueFresh /\ OneHolder /\ IsFiniteSet(AllHandled)
    /\ CountedOnce /\ BeforeDone /\ HeldCause
    /\ CounterPaid /\ WarnsTrigger /\ WarningsInARow

-----------------------------------------------------------------------------
\* A step on which counted messages stay counted, what came before a message
\* in hand stays, and a row is broken only by a message that is settled now,
\* with the count of its sender reset or the database failing.
RowsStay ==
    /\ counted \subseteq counted'
    /\ \A m \in Messages : Handled(m) => before'[m] = before[m]
    /\ \A o \in Messages :
          EndsSeries(o)' => \/ EndsSeries(o)
                            \/ /\ stage[o] \notin Outcomes
                               /\ warnings'[Sender[o]] = 0 \/ dbFailed'

\* Whoever broke a row is settled, and so handled.
LEMMA EnderHandled ==
    ASSUME NEW o \in Messages, stage[o] \in Outcomes \/ EndsSeries(o)
    PROVE  Handled(o)
BY DEF Handled, EndsSeries, Outcomes

\* The row that paid for a ban only grows.
LEMMA RowKept ==
    ASSUME TypeOK, WarnInv, RowsStay, NEW m \in Messages, cause[m] = "warnings"
    PROVE  InRow(m) \subseteq InRow(m)'
<1>1. before[m] \subseteq Messages /\ before'[m] = before[m]
  BY TypeParts DEF HistoryOK, WarnInv, HeldCause, RowsStay
<1>2. ASSUME NEW o \in before'[m], EndsSeries(o)'
      PROVE  o \in before[m] /\ EndsSeries(o) /\ before'[o] = before[o]
  <2>1. o \in before[m] /\ o \in Messages /\ stage[o] \in Outcomes
    BY <1>1 DEF WarnInv, BeforeDone
  <2>2. Handled(o) /\ EndsSeries(o)
    BY <1>2, <2>1, EnderHandled DEF RowsStay
  <2> QED
    BY <2>1, <2>2 DEF RowsStay
<1>3. ASSUME NEW x \in InRow(m)
      PROVE  x \in InRow(m)'
  <2>1. x \in counted' /\ Sender[x] = Sender[m] /\ Text[x] \in Triggers
    BY <1>3 DEF InRow, RowsStay
  <2>2. ~\E o \in before'[m] : Sender[o] = Sender[m] /\ EndsSeries(o)' /\ (x = o \/ x \in before'[o])
    BY <1>2, <1>3 DEF InRow
  <2> QED
    BY <2>1, <2>2 DEF InRow
<1> QED
  BY <1>3

\* Without a reset the live messages of a member stay live.
LEMMA LiveKept ==
    ASSUME TypeOK, WarnInv, RowsStay, NEW u \in Users, warnings'[u] # 0, ~dbFailed'
    PROVE  Live(u) \subseteq Live(u)'
<1>1. ASSUME NEW o \in Messages, Sender[o] = u, EndsSeries(o)'
      PROVE  EndsSeries(o) /\ before'[o] = before[o]
  <2>1. EndsSeries(o)
    BY <1>1 DEF RowsStay
  <2> QED
    BY <2>1, EnderHandled DEF RowsStay
<1>2. ASSUME NEW x \in Live(u)
      PROVE  x \in Live(u)'
  <2>1. x \in counted' /\ Sender[x] = u
    BY <1>2 DEF Live, RowsStay
  <2>2. ~\E o \in Messages : Sender[o] = u /\ EndsSeries(o)' /\ (x = o \/ x \in before'[o])
    BY <1>1, <1>2 DEF Live
  <2> QED
    BY <2>1, <2>2 DEF Live
<1> QED
  BY <1>2

\* The sets that are counted are finite.
LEMMA RowsFinite ==
    ASSUME IsFiniteSet(AllHandled), counted \subseteq AllHandled
    PROVE  /\ \A u : IsFiniteSet(Live(u)) /\ Cardinality(Live(u)) \in Nat
           /\ \A m : IsFiniteSet(InRow(m)) /\ Cardinality(InRow(m)) \in Nat
<1>1. IsFiniteSet(counted)
  BY FS_Subset
<1>2. \A S \in SUBSET counted : IsFiniteSet(S) /\ Cardinality(S) \in Nat
  BY <1>1, FS_Subset, FS_CardinalityType
<1>3. \A u : Live(u) \in SUBSET counted
  BY DEF Live
<1>4. \A m : InRow(m) \in SUBSET counted
  BY DEF InRow
<1> QED
  BY <1>2, <1>3, <1>4

LEMMA RowsFiniteNext ==
    ASSUME IsFiniteSet(AllHandled'), counted' \subseteq AllHandled'
    PROVE  /\ \A u : IsFiniteSet(Live(u)') /\ Cardinality(Live(u)') \in Nat
           /\ \A m : IsFiniteSet(InRow(m)') /\ Cardinality(InRow(m)') \in Nat
<1>1. IsFiniteSet(counted')
  BY FS_Subset
<1>2. \A S \in SUBSET counted' : IsFiniteSet(S) /\ Cardinality(S) \in Nat
  BY <1>1, FS_Subset, FS_CardinalityType
<1>3. \A u : Live(u)' \in SUBSET counted'
  BY DEF Live
<1>4. \A m : InRow(m)' \in SUBSET counted'
  BY DEF InRow
<1> QED
  BY <1>2, <1>3, <1>4

\* With the rows kept, no higher counters and no new reason for a ban, the
\* counters and the bans stay paid.
LEMMA MorePaid ==
    ASSUME TypeOK, WarnInv, RowsStay, IsFiniteSet(AllHandled'), counted' \subseteq AllHandled',
           \A u \in Users : warnings'[u] \in {0, warnings[u]},
           \A m \in Messages : cause'[m] = "warnings" => cause[m] = "warnings",
           dbFailed => dbFailed'
    PROVE  CounterPaid' /\ WarningsInARow'
<1>1. /\ \A u : IsFiniteSet(Live(u)) /\ Cardinality(Live(u)) \in Nat
      /\ \A m : IsFiniteSet(InRow(m)) /\ Cardinality(InRow(m)) \in Nat
  BY RowsFinite DEF WarnInv, CountedOnce
<1>2. /\ \A u : IsFiniteSet(Live(u)') /\ Cardinality(Live(u)') \in Nat
      /\ \A m : IsFiniteSet(InRow(m)') /\ Cardinality(InRow(m)') \in Nat
  BY RowsFiniteNext
<1>3. CounterPaid'
  <2> SUFFICES ASSUME NEW u \in Users, ~dbFailed'
               PROVE  warnings'[u] <= Cardinality(Live(u)')
    BY DEF CounterPaid
  <2>1. CASE warnings'[u] = 0
    BY <1>2, <2>1
  <2>2. CASE warnings'[u] # 0
    <3>1. Cardinality(Live(u)) <= Cardinality(Live(u)')
      BY <1>2, <2>2, LiveKept, FS_Subset
    <3>2. warnings[u] <= Cardinality(Live(u)) /\ warnings[u] \in Nat /\ warnings'[u] = warnings[u]
      BY <2>2, TypeParts DEF WarnInv, CounterPaid, TablesOK
    <3> QED
      BY <1>1, <1>2, <3>1, <3>2
  <2> QED
    BY <2>1, <2>2
<1>4. WarningsInARow'
  <2> SUFFICES ASSUME NEW m \in Messages, cause'[m] = "warnings", ~dbFailed'
               PROVE  Cardinality(InRow(m)') >= WarnThreshold
    BY DEF WarningsInARow
  <2>1. Cardinality(InRow(m)) >= WarnThreshold
    BY DEF WarnInv, WarningsInARow
  <2>2. Cardinality(InRow(m)) <= Cardinality(InRow(m)')
    BY <1>2, RowKept, FS_Subset
  <2> QED
    BY <1>1, <1>2, <2>1, <2>2, DispatcherAssumption
<1> QED
  BY <1>3, <1>4

-----------------------------------------------------------------------------
\* A step on which every worker goes on with its message, without coming back
\* to the levels, or is done with it.
CalmWorkers ==
    /\ \A w \in Workers :
          \/ /\ Busy(w) /\ Busy(w)' /\ actor'[w].msg = actor[w].msg
             /\ actor'[w].why \in {actor[w].why, cause'[actor[w].msg]}
             /\ actor'[w].step \in Levels => actor[w].step \in Levels
             /\ actor'[w].step = "warn" =>
                   actor[w].step = "warn" \/ Text[actor[w].msg] \in Triggers
          \/ ~Busy(w)'
    /\ \A m \in Messages :
          \/ stage'[m] = stage[m]
          \/ /\ stage'[m] \in Outcomes
             /\ \E w \in Workers : Busy(w) /\ actor[w].msg = m /\ ~Busy(w)'

\* A row is broken only where the count is reset or the database fails.
RowsPaid ==
    \A o \in Messages :
        EndsSeries(o)' => EndsSeries(o) \/ warnings'[Sender[o]] = 0 \/ dbFailed'

\* Nobody is warned, and no ban for warnings decided.
NoWarning ==
    /\ \A u \in Users : warnings'[u] \in {0, warnings[u]}
    /\ \A m \in Messages : cause'[m] = "warnings" => cause[m] = "warnings"
    /\ dbFailed => dbFailed'
    /\ queue' = queue /\ UNCHANGED series
    /\ RowsPaid

\* While the stages stay, no row is broken.
LEMMA StagesPaid ==
    ASSUME stage' = stage,
           \A m \in Messages : cause'[m] = "warnings" => cause[m] = "warnings"
    PROVE  RowsPaid
BY DEF RowsPaid, EndsSeries

\* A step that takes no message, counts no warning and bans nobody for warnings
\* keeps the invariant.
LEMMA CalmKeeps ==
    ASSUME TypeOK, WarnInv, CalmWorkers, NoWarning
    PROVE  WarnInv'
<1>1. queue \in Seq(Messages) /\ QueueFresh /\ OneHolder
  BY TypeParts DEF QueueOK, WarnInv
<1>a. ASSUME NEW w \in Workers, Busy(w)
      PROVE  actor[w].msg \in Messages
  <2>1. ActorsOK /\ w \in Actors
    BY TypeParts DEF Actors
  <2> QED
    BY <1>a, <2>1, BusyActor DEF Busy
<1>2. QueueFresh'
  <2>1. \A i \in DOMAIN queue : queue[i] \in Messages /\ stage[queue[i]] = "queued"
    BY <1>1 DEF QueueFresh
  <2>2. \A i \in DOMAIN queue : stage'[queue[i]] = "queued"
    BY <1>1, <2>1 DEF CalmWorkers, OneHolder
  <2> QED
    BY <1>1, <2>2 DEF QueueFresh, NoWarning
<1>3. OneHolder'
  <2>1. ASSUME NEW w \in Workers, Busy(w)'
        PROVE  stage'[actor'[w].msg] = "taken"
    <3>1. Busy(w) /\ actor'[w].msg = actor[w].msg /\ stage[actor[w].msg] = "taken"
      BY <1>1, <2>1 DEF CalmWorkers, OneHolder
    <3>2. actor[w].msg \in Messages
      BY <1>a, <3>1
    <3>3. \A v \in Workers : Busy(v) /\ actor[v].msg = actor[w].msg => v = w
      BY <1>1, <3>1 DEF OneHolder
    <3> QED
      BY <2>1, <3>1, <3>2, <3>3 DEF CalmWorkers
  <2>2. \A v, w \in Workers : Busy(v)' /\ Busy(w)' /\ actor'[v].msg = actor'[w].msg => v = w
    BY <1>1 DEF CalmWorkers, OneHolder
  <2> QED
    BY <2>1, <2>2 DEF OneHolder
<1>4. ASSUME NEW m \in Messages
      PROVE  /\ Handled(m)' <=> Handled(m)
             /\ stage'[m] = stage[m] \/ (stage[m] = "taken" /\ stage'[m] \in Outcomes)
  <2>1. stage'[m] = stage[m] \/ (stage[m] = "taken" /\ stage'[m] \in Outcomes)
    BY <1>1 DEF CalmWorkers, OneHolder
  <2> QED
    BY <2>1 DEF Handled, Outcomes
<1>5. AllHandled' = AllHandled /\ IsFiniteSet(AllHandled')
  BY <1>4 DEF AllHandled, WarnInv
<1>6. CountedOnce'
  <2>1. \A w \in Workers : actor'[w].step \in Levels =>
           actor[w].step \in Levels /\ actor'[w].msg = actor[w].msg
    BY StepNames DEF CalmWorkers, Busy, Levels
  <2> QED
    BY <1>5, <2>1 DEF WarnInv, CountedOnce, NoWarning, series
<1>7. BeforeDone'
  <2>1. before' = before /\ before \in [Messages -> SUBSET Messages]
    BY TypeParts DEF NoWarning, series, HistoryOK
  <2>2. "taken" \notin Outcomes
    BY DEF Outcomes
  <2> QED
    BY <1>4, <2>1, <2>2 DEF WarnInv, BeforeDone
<1>8. HeldCause'
  <2>1. \A m \in Messages : cause'[m] = "warnings" => Handled(m)'
    BY <1>4 DEF WarnInv, HeldCause, NoWarning
  <2>2. ASSUME NEW w \in Workers, Busy(w)', cause'[actor'[w].msg] = "warnings"
        PROVE  actor'[w].why = "warnings"
    <3>1. /\ Busy(w) /\ actor'[w].msg = actor[w].msg
          /\ actor'[w].why \in {actor[w].why, cause'[actor[w].msg]}
      BY <2>2 DEF CalmWorkers
    <3>2. cause[actor[w].msg] = "warnings"
      BY <1>a, <2>2, <3>1 DEF NoWarning
    <3> QED
      BY <2>2, <3>1, <3>2 DEF WarnInv, HeldCause
  <2> QED
    BY <2>1, <2>2 DEF HeldCause
<1>9. RowsStay
  <2>1. ASSUME NEW o \in Messages, EndsSeries(o)', ~EndsSeries(o)
        PROVE  stage[o] \notin Outcomes /\ (warnings'[Sender[o]] = 0 \/ dbFailed')
    <3>1. warnings'[Sender[o]] = 0 \/ dbFailed'
      BY <2>1 DEF NoWarning, RowsPaid
    <3>2. stage'[o] # stage[o]
      BY <2>1 DEF EndsSeries, NoWarning
    <3> QED
      BY <1>4, <3>1, <3>2 DEF Outcomes
  <2> QED
    BY <2>1 DEF RowsStay, NoWarning, series
<1>10. CounterPaid' /\ WarningsInARow'
  <2>1. counted' \subseteq AllHandled'
    BY <1>6 DEF CountedOnce
  <2> QED
    BY <1>5, <1>9, <2>1, MorePaid DEF NoWarning
<1>11. WarnsTrigger'
  BY StepNames DEF CalmWorkers, Busy, WarnInv, WarnsTrigger
<1> QED
  BY <1>2, <1>3, <1>5, <1>6, <1>7, <1>8, <1>10, <1>11 DEF WarnInv

-----------------------------------------------------------------------------
\* The ways in which an actor moves are calm.
LEMMA GoCalm ==
    ASSUME TypeOK, NEW a \in Actors, Busy(a), NEW s \in BusySteps, Go(a, s), stage' = stage,
           s \in Levels => actor[a].step \in Levels,
           s = "warn" => Text[actor[a].msg] \in Triggers
    PROVE  CalmWorkers
<1>1. ActorsOK /\ Workers \subseteq Actors
  BY TypeParts DEF Actors
<1>2. /\ actor'[a].step = s /\ actor'[a].msg = actor[a].msg
      /\ actor'[a].why = actor[a].why
      /\ \A b \in Actors \ {a} : actor'[b] = actor[b]
  BY <1>1, GoProperties DEF Busy
<1> QED
  BY <1>1, <1>2 DEF CalmWorkers, Busy

\* The worker that finishes holds nothing, and its message stays handled.
LEMMA FinishCalm ==
    ASSUME TypeOK, NEW a \in Actors, Busy(a), NEW o \in Outcomes, Finish(a, o)
    PROVE  CalmWorkers
<1>1. ActorsOK /\ StagesOK /\ Workers \subseteq Actors
  BY TypeParts DEF Actors
<1>2. /\ actor'[a].step \in {"idle", "stopped"}
      /\ \A b \in Actors \ {a} : actor'[b] = actor[b]
      /\ \A m \in Messages \ {actor[a].msg} : stage'[m] = stage[m]
      /\ a \in Workers => stage'[actor[a].msg] = o
      /\ a \notin Workers => stage' = stage
  BY <1>1, FinishProperties DEF Busy
<1>3. ~Busy(a)'
  BY <1>2 DEF Busy, BusySteps
<1> QED
  BY <1>1, <1>2, <1>3 DEF CalmWorkers, Busy

\* Entering ban() is past the counter, and notes its own cause.
LEMMA BanForCalm ==
    ASSUME TypeOK, NEW a \in Actors, Busy(a), NEW w \in Causes, BanFor(a, w), stage' = stage
    PROVE  /\ CalmWorkers
           /\ \A m \in Messages : cause'[m] = cause[m] \/ cause'[m] = w
<1>1. ActorsOK /\ cause \in [Messages -> Causes] /\ Workers \subseteq Actors
  BY TypeParts DEF HistoryOK, Actors
<1>2. /\ actor'[a].step = "banDelete" /\ actor'[a].msg = actor[a].msg /\ actor'[a].why = w
      /\ \A b \in Actors \ {a} : actor'[b] = actor[b]
      /\ cause' = [cause EXCEPT ![actor[a].msg] = w]
  BY <1>1, BanForProperties DEF Busy
<1>3. "banDelete" \in BusySteps
  BY StepNames, Zenon
<1>4. cause'[actor[a].msg] = w
  BY <1>1, <1>2, BusyActor DEF Busy
<1> QED
  BY <1>1, <1>2, <1>3, <1>4 DEF CalmWorkers, Busy, Levels

\* So is the return from ban().
LEMMA BanReturnsCalm ==
    ASSUME TypeOK, NEW a \in Actors, Busy(a), BanReturns(a)
    PROVE  CalmWorkers
<1>1. "resetAfter" \in BusySteps /\ "judged" \in Outcomes
  BY StepNames, Zenon DEF Outcomes
<1>2. CASE Go(a, "resetAfter") /\ UNCHANGED stage
  BY <1>1, <1>2, GoCalm DEF Levels
<1>3. CASE Finish(a, "judged")
  BY <1>1, <1>3, FinishCalm
<1> QED
  BY <1>2, <1>3 DEF BanReturns

\* A step that moves no worker to or from its work.
LEMMA StillCalm ==
    ASSUME stage' = stage,
           \A w \in Workers : \/ actor'[w] = actor[w]
                              \/ ~Busy(w)'
                              \/ /\ actor'[w].step = actor[w].step
                                 /\ actor'[w].msg = actor[w].msg
                                 /\ actor'[w].why = actor[w].why
    PROVE  CalmWorkers
BY DEF CalmWorkers, Busy

-----------------------------------------------------------------------------
\* The content filter goes on to the next level, to a soft deletion or a ban.
LEMMA FilterGoes ==
    ASSUME NEW w, NEW s \in Settings, NEW x \in BOOLEAN, FilterDecides(w, s, x)
    PROVE  \/ \E t \in {"trigger", "softDelete"} : Go(w, t) /\ UNCHANGED cause
           \/ BanFor(w, "filter")
BY DEF FilterDecides

\* The levels before the counter.
LEMMA LevelCalm ==
    ASSUME TypeOK, NEW w \in Workers, Level(w)
    PROVE  CalmWorkers /\ NoWarning
<1>1. /\ Levels \cup {"reset", "softDelete"} \subseteq BusySteps
      /\ {"known", "domain", "flood", "filter"} \subseteq Causes \ {"warnings"}
      /\ "accepted" \in Outcomes
      /\ w \in Actors
  BY StepNames DEF Levels, Causes, Outcomes, Actors
<1>2. actor[w].step \in Levels \ {"warn"} /\ Busy(w)
  BY <1>1, FilterSettings
  DEF Level, CheckKnown, CheckDomain, CheckFlood, CheckMode, CheckAllow, CheckTrigger, At,
      Levels, Busy
<1>3. /\ UNCHANGED <<queue, warnings, series>>
      /\ dbFailed => dbFailed'
  <2>1. dbFailed' = dbFailed \/ dbFailed' = TRUE
    <3>1. CASE CheckKnown(w)
      BY <3>1, Zenon DEF CheckKnown, TextOk, TextErr, DbOk, DbErr
    <3>2. CASE CheckDomain(w)
      BY <3>2, Zenon DEF CheckDomain, DbOk, DbErr
    <3>3. CASE CheckFlood(w)
      BY <3>3, Zenon DEF CheckFlood
    <3>4. CASE CheckMode(w) \/ \E s \in Settings : CheckAllow(w, s)
      BY <3>4, Zenon DEF CheckMode, CheckAllow, DbOk, DbErr
    <3>5. CASE CheckTrigger(w)
      BY <3>5, Zenon DEF CheckTrigger, TextOk, TextErr, DbOk, DbErr
    <3> QED
      BY <3>1, <3>2, <3>3, <3>4, <3>5 DEF Level
  <2>2. UNCHANGED <<queue, warnings, series>>
    BY LevelStep DEF tables
  <2> QED
    BY <2>1, <2>2
<1>4. \/ \E s \in Levels \cup {"reset", "softDelete"} :
            /\ Go(w, s) /\ UNCHANGED <<stage, cause>>
            /\ s = "warn" => Text[actor[w].msg] \in Triggers
      \/ /\ Finish(w, "accepted") /\ UNCHANGED cause
         /\ Text[actor[w].msg] = NoText \/ dbFailed'
      \/ \E c \in {"known", "domain", "flood", "filter"} : BanFor(w, c) /\ UNCHANGED stage
  <2>a. {"softDelete", "trigger"} \subseteq Levels \cup {"reset", "softDelete"}
    BY DEF Levels
  <2>1. CASE CheckKnown(w)
    BY <2>1 DEF CheckKnown, Levels
  <2>2. CASE CheckDomain(w)
    BY <2>2 DEF CheckDomain, Levels
  <2>3. CASE CheckFlood(w)
    BY <2>3 DEF CheckFlood, Levels
  <2>4. CASE CheckMode(w)
    <3>1. CASE \E mode \in ChatModes : Go(w, AllowStep(Setting(mode))) /\ UNCHANGED cause
      BY <2>4, <3>1, FilterSettings DEF CheckMode, Levels
    <3>2. CASE FilterDecides(w, Global, FALSE)
      BY <2>a, <2>4, <3>2, FilterSettings, FilterGoes DEF CheckMode
    <3> QED
      BY <2>4, <3>1, <3>2 DEF CheckMode
  <2>5. CASE \E s \in Settings : CheckAllow(w, s)
    <3>1. PICK s \in Settings : CheckAllow(w, s)
      BY <2>5
    <3>2. PICK t \in Settings, x \in BOOLEAN : FilterDecides(w, t, x)
      BY <3>1, FilterSettings DEF CheckAllow
    <3> QED
      BY <2>a, <3>1, <3>2, FilterGoes DEF CheckAllow
  <2>6. CASE CheckTrigger(w)
    BY <2>6 DEF CheckTrigger, TextErr, DbErr, Levels
  <2> QED
    BY <2>1, <2>2, <2>3, <2>4, <2>5, <2>6 DEF Level
<1>5. ASSUME NEW s \in Levels \cup {"reset", "softDelete"}, Go(w, s), UNCHANGED <<stage, cause>>,
             s = "warn" => Text[actor[w].msg] \in Triggers
      PROVE  CalmWorkers /\ NoWarning
  <2>1. CalmWorkers
    BY <1>1, <1>2, <1>5, GoCalm
  <2> QED
    BY <1>3, <1>5, <2>1, StagesPaid DEF NoWarning
<1>6. CASE /\ Finish(w, "accepted") /\ UNCHANGED cause
           /\ Text[actor[w].msg] = NoText \/ dbFailed'
  <2>1. CalmWorkers
    BY <1>1, <1>2, <1>6, FinishCalm
  <2>2. /\ \A m \in Messages \ {actor[w].msg} : stage'[m] = stage[m]
        /\ stage'[actor[w].msg] = "accepted"
    BY <1>1, <1>2, <1>6, FinishProperties, TypeParts DEF Busy
  <2>3. RowsPaid
    BY <1>6, <2>2 DEF RowsPaid, EndsSeries
  <2> QED
    BY <1>3, <1>6, <2>1, <2>3 DEF NoWarning
<1>7. ASSUME NEW c \in {"known", "domain", "flood", "filter"}, BanFor(w, c), UNCHANGED stage
      PROVE  CalmWorkers /\ NoWarning
  <2>1. /\ CalmWorkers
        /\ \A m \in Messages : cause'[m] = cause[m] \/ cause'[m] = c
    BY <1>1, <1>2, <1>7, BanForCalm
  <2>2. \A m \in Messages : cause'[m] = "warnings" => cause[m] = "warnings"
    BY <1>1, <2>1
  <2> QED
    BY <1>3, <1>7, <2>1, <2>2, StagesPaid DEF NoWarning
<1> QED
  BY <1>4, <1>5, <1>6, <1>7

\* The steps beside the counter: resets, soft deletions and notices.
LEMMA MildCalm ==
    ASSUME TypeOK, NEW w \in Workers, Mild(w), ~Warn(w)
    PROVE  CalmWorkers /\ NoWarning
<1> DEFINE m == actor[w].msg
<1>1. /\ {"reset", "warnDelete", "warnNotice", "softDelete", "notice", "resetAfter"} \subseteq BusySteps
      /\ {"accepted", "removed", "judged"} \subseteq Outcomes
      /\ w \in Actors
      /\ warnings \in [Users -> Nat]
  BY StepNames, TypeParts DEF Outcomes, Actors, TablesOK
<1>2. Busy(w)
  BY <1>1 DEF Mild, ResetSeries, WarnDelete, WarnNotice, SoftDelete, Notice, ResetAfter, At, Busy
<1>a. m \in Messages
  BY <1>1, <1>2, BusyActor, TypeParts DEF Busy
<1>3. \/ \E s \in {"warnNotice", "notice"} : Go(w, s) /\ UNCHANGED stage
      \/ Finish(w, "removed")
      \/ \E o \in Outcomes : Finish(w, o) /\ (warnings'[Sender[m]] = 0 \/ dbFailed')
  <2>1. CASE ResetSeries(w) \/ ResetAfter(w)
    <3>1. warnings'[Sender[m]] = 0 \/ dbFailed'
      BY <1>1, <1>a, <2>1, DispatcherAssumption DEF ResetSeries, ResetAfter, DbErr
    <3> QED
      BY <1>1, <2>1, <3>1 DEF ResetSeries, ResetAfter
  <2>2. CASE WarnDelete(w) \/ WarnNotice(w) \/ SoftDelete(w) \/ Notice(w)
    BY <2>2 DEF WarnDelete, WarnNotice, SoftDelete, Notice
  <2> QED
    BY <2>1, <2>2 DEF Mild
<1>4. CalmWorkers
  <2>1. ASSUME NEW s \in {"warnNotice", "notice"}, Go(w, s), UNCHANGED stage
        PROVE  CalmWorkers
    BY <1>1, <1>2, <2>1, GoCalm DEF Levels
  <2>2. ASSUME NEW o \in Outcomes, Finish(w, o)
        PROVE  CalmWorkers
    BY <1>1, <1>2, <2>2, FinishCalm
  <2> QED
    BY <1>1, <1>3, <2>1, <2>2
<1>5. \A u \in Users : warnings'[u] \in {0, warnings[u]}
  BY <1>1 DEF Mild, ResetSeries, WarnDelete, WarnNotice, SoftDelete, Notice, ResetAfter, tables
<1>6. /\ UNCHANGED <<queue, cause, series>>
      /\ dbFailed => dbFailed'
  BY DEF Mild, ResetSeries, WarnDelete, WarnNotice, SoftDelete, Notice, ResetAfter, DbOk, DbErr,
         history
<1>7. RowsPaid
  <2>1. CASE stage' = stage
    BY <1>6, <2>1, StagesPaid
  <2>2. ASSUME NEW o \in Outcomes, Finish(w, o)
        PROVE  /\ \A n \in Messages \ {m} : stage'[n] = stage[n]
               /\ stage'[m] = o
    BY <1>1, <1>2, <2>2, FinishProperties, TypeParts DEF Busy
  <2>3. CASE Finish(w, "removed")
    BY <1>1, <1>6, <2>2, <2>3 DEF RowsPaid, EndsSeries
  <2>4. CASE \E o \in Outcomes : Finish(w, o) /\ (warnings'[Sender[m]] = 0 \/ dbFailed')
    BY <1>6, <2>2, <2>4 DEF RowsPaid, EndsSeries
  <2> QED
    BY <1>3, <2>1, <2>3, <2>4
<1> QED
  BY <1>4, <1>5, <1>6, <1>7 DEF NoWarning

\* ban(), by a worker or by a handler.
LEMMA BanCalm ==
    ASSUME TypeOK, HeldCause, NEW a \in Actors, BanSteps(a)
    PROVE  CalmWorkers /\ NoWarning
<1>1. {"banDelete", "ownerLook", "ownerFetch", "ownerStore", "ban", "banNotice", "spawn"}
         \subseteq BusySteps \ Levels
  BY StepNames DEF Levels
<1>2. Busy(a)
  BY <1>1 DEF BanSteps, BanDelete, OwnerLook, OwnerFetch, OwnerStore, Ban, BanNotice, Spawn, At,
              Busy
<1>3. UNCHANGED <<queue, warnings, cause, series, dbFailed>>
  BY DEF BanSteps, BanDelete, OwnerLook, OwnerFetch, OwnerStore, Ban, BanNotice, Spawn, tables,
         history
<1>4. \/ \E s \in {"ownerLook", "ownerFetch", "ban", "banNotice", "spawn"} :
            Go(a, s) /\ UNCHANGED stage
      \/ BanReturns(a)
      \/ \E id \in {owner, NoOwner} :
            /\ actor' = [actor EXCEPT ![a].step = "ownerStore", ![a].seen = id]
            /\ UNCHANGED stage
  <2>1. CASE BanDelete(a) \/ BanNotice(a)
    BY <2>1 DEF BanDelete, BanNotice
  <2>2. CASE OwnerLook(a) \/ OwnerStore(a)
    BY <2>2 DEF OwnerLook, OwnerStore, Decide
  <2>3. CASE OwnerFetch(a)
    BY <2>3 DEF OwnerFetch
  <2>4. CASE Ban(a)
    BY <2>4 DEF Ban, BanFailed
  <2>5. CASE Spawn(a)
    BY <2>5 DEF Spawn
  <2> QED
    BY <2>1, <2>2, <2>3, <2>4, <2>5 DEF BanSteps
<1>5. CalmWorkers
  <2>1. ASSUME NEW s \in {"ownerLook", "ownerFetch", "ban", "banNotice", "spawn"},
               Go(a, s), UNCHANGED stage
        PROVE  CalmWorkers
    BY <1>1, <1>2, <2>1, GoCalm DEF Levels
  <2>2. CASE BanReturns(a)
    BY <1>2, <2>2, BanReturnsCalm
  <2>3. ASSUME NEW id \in {owner, NoOwner}, UNCHANGED stage,
               actor' = [actor EXCEPT ![a].step = "ownerStore", ![a].seen = id]
        PROVE  CalmWorkers
    <3>1. ActorsOK /\ Workers \subseteq Actors
      BY TypeParts DEF Actors
    <3>2. /\ actor'[a].step = "ownerStore" /\ actor'[a].msg = actor[a].msg
          /\ actor'[a].why = actor[a].why
          /\ \A b \in Actors \ {a} : actor'[b] = actor[b]
      BY <2>3, <3>1 DEF ActorsOK, ActorStates
    <3> QED
      BY <1>1, <1>2, <2>3, <3>1, <3>2 DEF CalmWorkers, Busy
  <2> QED
    BY <1>4, <2>1, <2>2, <2>3
<1>6. RowsPaid
  <2>1. CASE stage' = stage
    BY <1>3, <2>1, StagesPaid
  <2>2. CASE Finish(a, "judged") /\ actor[a].why # "warnings" /\ a \in Workers
    <3>1. /\ ActorsOK /\ StagesOK /\ "judged" \in Outcomes
      BY TypeParts DEF Outcomes
    <3>2. \A m \in Messages \ {actor[a].msg} : stage'[m] = stage[m]
      BY <1>2, <2>2, <3>1, FinishProperties DEF Busy
    <3>3. cause'[actor[a].msg] # "warnings" /\ stage'[actor[a].msg] # "accepted"
      BY <1>2, <1>3, <2>2, <3>1, FinishProperties DEF HeldCause, Busy
    <3> QED
      BY <1>3, <3>2, <3>3 DEF RowsPaid, EndsSeries
  <2> QED
    BY <1>4, <2>1, <2>2 DEF BanReturns, Finish
<1> QED
  BY <1>3, <1>5, <1>6 DEF NoWarning

\* Steps that leave the messages of the workers alone.
LEMMA OtherCalm ==
    ASSUME TypeOK,
           \/ \E a \in Actors : Throttled(a)
           \/ \E w \in Workers : Stop(w)
           \/ \E h \in Handlers, m \in Messages : BanSpammer(h, m)
           \/ \E m \in Messages : LearnSpam(m) \/ LearnDomains(m)
           \/ ExpireOwner \/ TransferOwner \/ Cancel \/ Exit \/ UNCHANGED vars
    PROVE  CalmWorkers /\ NoWarning
<1>1. ActorsOK /\ Workers \subseteq Actors /\ Handlers \subseteq Actors
  BY TypeParts DEF Actors
<1>2. ASSUME NEW a \in Actors, Throttled(a)
      PROVE  CalmWorkers /\ NoWarning
  <2>1. /\ actor'[a].step = actor[a].step /\ actor'[a].msg = actor[a].msg
        /\ actor'[a].why = actor[a].why
        /\ \A b \in Actors \ {a} : actor'[b] = actor[b]
    BY <1>1, <1>2 DEF Throttled, ActorsOK, ActorStates
  <2>2. CalmWorkers
    BY <1>1, <1>2, <2>1, StillCalm DEF Throttled
  <2> QED
    BY <1>2, <2>2, StagesPaid DEF Throttled, tables, history, NoWarning
<1>3. ASSUME NEW w \in Workers, Stop(w)
      PROVE  CalmWorkers /\ NoWarning
  <2>1. /\ actor'[w].step = "stopped"
        /\ \A b \in Actors \ {w} : actor'[b] = actor[b]
    BY <1>1, <1>3 DEF Stop, Go, ActorsOK, ActorStates
  <2>2. CalmWorkers
    BY <1>1, <1>3, <2>1, StillCalm DEF Stop, Busy, BusySteps
  <2> QED
    BY <1>3, <2>2, StagesPaid DEF Stop, tables, history, NoWarning
<1>4. ASSUME NEW h \in Handlers, NEW m \in Messages, BanSpammer(h, m)
      PROVE  CalmWorkers /\ NoWarning
  <2>1. \A w \in Workers : actor'[w] = actor[w]
    <3>1. \A w \in Workers : w # h /\ w \in Actors
      BY <1>1, DispatcherAssumption
    <3>2. PICK r : actor' = [actor EXCEPT ![h] = r]
      BY <1>4 DEF BanSpammer
    <3> QED
      BY <1>1, <3>1, <3>2 DEF ActorsOK
  <2>2. UNCHANGED <<queue, stage, tables, history>>
    BY <1>4 DEF BanSpammer
  <2>3. CalmWorkers
    BY <2>1, <2>2, StillCalm
  <2> QED
    BY <2>2, <2>3, StagesPaid DEF tables, history, NoWarning
<1>5. ASSUME NEW m \in Messages, LearnSpam(m) \/ LearnDomains(m)
      PROVE  CalmWorkers /\ NoWarning
  <2>1. CalmWorkers
    BY <1>5, StillCalm DEF LearnSpam, LearnDomains
  <2> QED
    BY <1>5, <2>1, StagesPaid DEF LearnSpam, LearnDomains, TextErr, DbErr, NoWarning
<1>6. CASE ExpireOwner \/ TransferOwner \/ Cancel \/ Exit \/ UNCHANGED vars
  <2>1. UNCHANGED <<queue, stage, actor, tables, history>>
    BY <1>6 DEF ExpireOwner, TransferOwner, Cancel, Exit, vars
  <2>2. CalmWorkers
    BY <2>1, StillCalm
  <2> QED
    BY <2>1, <2>2, StagesPaid DEF tables, history, NoWarning
<1> QED
  BY <1>2, <1>3, <1>4, <1>5, <1>6

-----------------------------------------------------------------------------
\* A new update is in the queue once, or dropped.
LEMMA SubmitKeeps ==
    ASSUME TypeOK, WarnInv, NEW m \in Messages, Submit(m)
    PROVE  WarnInv'
<1>1. queue \in Seq(Messages) /\ StagesOK /\ QueueFresh /\ OneHolder
  BY TypeParts DEF QueueOK, WarnInv
<1>2. /\ stage[m] = "new"
      /\ \A n \in Messages \ {m} : stage'[n] = stage[n]
      /\ stage'[m] \in {"queued", "dropped"}
  BY <1>1 DEF Submit, StagesOK
<1>3. UNCHANGED <<actor, warnings, cause, before, counted, dbFailed>>
  BY DEF Submit, tables, series
<1>4. \A i \in DOMAIN queue : queue[i] \in Messages \ {m}
  BY <1>1, <1>2 DEF QueueFresh
<1>5. QueueFresh'
  <2>1. CASE HasRoom
    <3>1. queue' = Append(queue, m) /\ stage'[m] = "queued"
      BY <1>1, <2>1 DEF Submit, StagesOK
    <3>2. /\ DOMAIN queue' = 1 .. (Len(queue) + 1) /\ Len(queue) \in Nat
          /\ queue'[Len(queue) + 1] = m
          /\ \A i \in 1 .. Len(queue) : queue'[i] = queue[i]
      BY <1>1, <3>1
    <3> QED
      BY <1>1, <1>2, <1>4, <3>1, <3>2 DEF QueueFresh
  <2>2. CASE ~HasRoom
    BY <1>1, <1>2, <1>4, <2>2 DEF Submit, QueueFresh
  <2> QED
    BY <2>1, <2>2
<1>6. OneHolder'
  <2>1. ASSUME NEW w \in Workers, Busy(w)
        PROVE  actor[w].msg \in Messages \ {m}
    <3>1. ActorsOK /\ w \in Actors
      BY TypeParts DEF Actors
    <3>2. actor[w].msg \in Messages /\ stage[actor[w].msg] = "taken"
      BY <1>1, <2>1, <3>1, BusyActor DEF Busy, OneHolder
    <3> QED
      BY <1>2, <3>2
  <2> QED
    BY <1>1, <1>2, <1>3, <2>1 DEF OneHolder, Busy
<1>7. \A n \in Messages : /\ Handled(n)' <=> Handled(n)
                          /\ EndsSeries(n)' => EndsSeries(n)
                          /\ stage[n] \in Outcomes => stage'[n] \in Outcomes
  BY <1>2, <1>3 DEF Handled, EndsSeries, Outcomes
<1>8. AllHandled' = AllHandled
  BY <1>7 DEF AllHandled
<1>9. CountedOnce' /\ WarnsTrigger'
  BY <1>3, <1>8 DEF WarnInv, CountedOnce, WarnsTrigger
<1>10. BeforeDone' /\ HeldCause'
  <2>1. before \in [Messages -> SUBSET Messages]
    BY TypeParts DEF HistoryOK
  <2> QED
    BY <1>3, <1>7, <2>1 DEF WarnInv, BeforeDone, HeldCause, Busy
<1>11. CounterPaid' /\ WarningsInARow'
  <2>1. RowsStay
    BY <1>3, <1>7 DEF RowsStay
  <2> QED
    BY <1>3, <1>8, <2>1, MorePaid DEF WarnInv, CountedOnce
<1> QED
  BY <1>5, <1>6, <1>8, <1>9, <1>10, <1>11 DEF WarnInv

\* The message a worker takes leaves the queue and is now handled; what came
\* before it is settled.
LEMMA TakeKeeps ==
    ASSUME TypeOK, WarnInv, NEW w \in Workers, Take(w), NEW m, m = Head(queue)
    PROVE  WarnInv'
<1>1. queue \in Seq(Messages) /\ queue # << >> /\ StagesOK /\ ActorsOK /\ QueueFresh /\ OneHolder
  BY TypeParts DEF QueueOK, WarnInv, Take
<1>2. /\ m = queue[1] /\ 1 \in DOMAIN queue /\ m \in Messages
      /\ queue' = Tail(queue) /\ Len(queue) \in Nat \ {0} /\ DOMAIN queue = 1 .. Len(queue)
      /\ DOMAIN queue' = 1 .. (Len(queue) - 1)
      /\ \A i \in DOMAIN queue' : queue'[i] = queue[i + 1]
  BY <1>1 DEF Take
<1>3. stage[m] = "queued"
  BY <1>1, <1>2 DEF QueueFresh
<1>4. /\ stage'[m] = "taken"
      /\ \A n \in Messages \ {m} : stage'[n] = stage[n]
  BY <1>1, <1>2 DEF Take, StagesOK
<1>5. /\ actor'[w].msg = m /\ actor'[w].step \in {"flood", "known"}
      /\ \A v \in Workers \ {w} : actor'[v] = actor[v]
  BY <1>1 DEF Take, ActorsOK, ActorStates, Actors
<1>6. UNCHANGED <<warnings, cause, counted, dbFailed>>
  BY DEF Take, tables
<1>7. QueueFresh'
  <2>1. \A i \in DOMAIN queue' : i + 1 \in DOMAIN queue /\ i + 1 # 1
    BY <1>2
  <2>2. \A i \in DOMAIN queue' : queue'[i] \in Messages \ {m} /\ stage[queue'[i]] = "queued"
    BY <1>1, <1>2, <2>1 DEF QueueFresh
  <2>3. \A i \in DOMAIN queue' : stage'[queue'[i]] = "queued"
    BY <1>4, <2>2
  <2>4. ASSUME NEW i \in DOMAIN queue', NEW j \in DOMAIN queue', queue'[i] = queue'[j]
        PROVE  i = j
    <3>1. i + 1 = j + 1
      BY <1>1, <1>2, <2>1, <2>4 DEF QueueFresh
    <3> QED
      BY <1>2, <3>1
  <2> QED
    BY <2>3, <2>4 DEF QueueFresh
<1>8. ASSUME NEW v \in Workers \ {w}, Busy(v)
      PROVE  actor[v].msg \in Messages \ {m} /\ stage[actor[v].msg] = "taken"
  <2>1. v \in Actors
    BY DEF Actors
  <2>2. actor[v].msg \in Messages /\ stage[actor[v].msg] = "taken"
    BY <1>1, <1>8, <2>1, BusyActor DEF Busy, OneHolder
  <2> QED
    BY <1>3, <2>2
<1>9. OneHolder'
  BY <1>1, <1>4, <1>5, <1>8 DEF OneHolder, Busy
<1>10. /\ ~Handled(m) /\ Handled(m)'
       /\ \A n \in Messages \ {m} : Handled(n)' <=> Handled(n)
       /\ \A n \in Messages : stage[n] \in Outcomes => n # m /\ stage'[n] \in Outcomes
       /\ \A n \in Messages : EndsSeries(n)' => EndsSeries(n)
  BY <1>3, <1>4, <1>6 DEF Handled, Outcomes, EndsSeries
<1>11. AllHandled' = AllHandled \cup {m}
  BY <1>2, <1>10 DEF AllHandled
<1>12. IsFiniteSet(AllHandled') /\ counted' \subseteq AllHandled'
  BY <1>6, <1>11, FS_AddElement DEF WarnInv, CountedOnce
<1>13. CountedOnce' /\ WarnsTrigger'
  <2>1. m \notin counted
    BY <1>10 DEF WarnInv, CountedOnce, AllHandled
  <2> QED
    BY <1>5, <1>6, <1>12, <2>1 DEF WarnInv, CountedOnce, WarnsTrigger
<1>14. BeforeDone' /\ RowsStay
  <2>1. before' = [before EXCEPT ![m] = Settled] /\ before \in [Messages -> SUBSET Messages]
    BY TypeParts DEF Take, HistoryOK
  <2>2. /\ before'[m] = Settled
        /\ \A n \in Messages \ {m} : before'[n] = before[n]
    BY <1>2, <2>1
  <2>3. \A n \in Messages : \A x \in before'[n] : x \in Messages /\ stage[x] \in Outcomes
    BY <2>1, <2>2 DEF WarnInv, BeforeDone, Settled
  <2> QED
    BY <1>6, <1>10, <2>2, <2>3 DEF BeforeDone, RowsStay
<1>15. HeldCause'
  <2>1. cause[m] # "warnings"
    BY <1>2, <1>10 DEF WarnInv, HeldCause
  <2> QED
    BY <1>5, <1>6, <1>10, <2>1 DEF WarnInv, HeldCause, Busy
<1>16. CounterPaid' /\ WarningsInARow'
  BY <1>6, <1>12, <1>14, MorePaid
<1> QED
  BY <1>7, <1>9, <1>12, <1>13, <1>14, <1>15, <1>16 DEF WarnInv

\* The counter goes up by one, for a message that had not been counted.
LEMMA WarnKeeps ==
    ASSUME TypeOK, WarnInv, NEW w \in Workers, Warn(w), NEW m, m = actor[w].msg
    PROVE  WarnInv'
<1>1. /\ ActorsOK /\ w \in Actors /\ warnings \in [Users -> Nat] /\ cause \in [Messages -> Causes]
      /\ before \in [Messages -> SUBSET Messages] /\ counted \subseteq Messages
  BY TypeParts DEF Actors, TablesOK, HistoryOK
<1>2. actor[w].step = "warn" /\ Busy(w)
  BY StepNames DEF Warn, At, Busy
<1>3. m \in Messages /\ stage[m] = "taken" /\ Text[m] \in Triggers /\ m \notin counted
  BY <1>1, <1>2, BusyActor DEF Busy, WarnInv, OneHolder, WarnsTrigger, CountedOnce, Levels
<1> DEFINE u == Sender[m]
           count == warnings[u] + 1
<1>4. u \in Users /\ count \in Nat
  BY <1>1, <1>3, DispatcherAssumption
<1>5. CalmWorkers
  <2>1. "warnDelete" \in BusySteps /\ "warnings" \in Causes
    BY StepNames DEF Causes
  <2>2. Go(w, "warnDelete") \/ BanFor(w, "warnings")
    BY DEF Warn
  <2>3. stage' = stage
    BY DEF Warn
  <2>4. CASE Go(w, "warnDelete")
    BY <1>1, <1>2, <2>1, <2>3, <2>4, GoCalm DEF Levels
  <2>5. CASE BanFor(w, "warnings")
    BY <1>1, <1>2, <2>1, <2>3, <2>5, BanForCalm
  <2> QED
    BY <2>2, <2>4, <2>5
<1>6. UNCHANGED <<queue, stage, before>>
  BY DEF Warn
<1>7. \A o \in Messages \ {m} : cause'[o] = cause[o]
  BY <1>1, <1>3 DEF Warn, BanFor
<1>8. counted' = counted \cup {m} \/ (counted' = counted /\ dbFailed')
  BY DEF Warn, DbErr
<1>9. QueueFresh' /\ OneHolder' /\ AllHandled' = AllHandled
  <2>1. QueueFresh' /\ AllHandled' = AllHandled
    BY <1>6 DEF WarnInv, QueueFresh, AllHandled, Handled
  <2>2. OneHolder'
    BY <1>5, <1>6 DEF WarnInv, OneHolder, CalmWorkers
  <2> QED
    BY <2>1, <2>2
<1>10. WarnsTrigger'
  BY StepNames, <1>5 DEF CalmWorkers, Busy, WarnInv, WarnsTrigger
<1>11. /\ actor'[w].step \in {"warnDelete", "banDelete"} /\ actor'[w].msg = m
       /\ cause'[m] = "warnings" => cause[m] = "warnings" \/ actor'[w].why = "warnings"
       /\ cause[m] = "warnings" => actor'[w].why = "warnings"
       /\ \A b \in Actors \ {w} : actor'[b] = actor[b]
  <2>1. CASE Go(w, "warnDelete") /\ UNCHANGED cause
    <3>1. "warnDelete" \in BusySteps
      BY StepNames, Zenon
    <3> QED
      BY <1>1, <1>2, <2>1, <3>1, GoProperties DEF WarnInv, HeldCause, Busy
  <2>2. CASE BanFor(w, "warnings")
    <3>1. "warnings" \in Causes
      BY DEF Causes
    <3> QED
      BY <1>1, <1>2, <2>2, <3>1, BanForProperties DEF Busy
  <2> QED
    BY <2>1, <2>2 DEF Warn
<1>12. ASSUME NEW v \in Workers \ {w}, Busy(v)
       PROVE  actor[v].msg \in Messages \ {m}
  <2>1. v \in Actors
    BY DEF Actors
  <2> QED
    BY <1>1, <1>2, <1>12, <2>1, BusyActor DEF WarnInv, OneHolder, Busy
<1>13. CountedOnce'
  <2>1. m \in AllHandled
    BY <1>3 DEF AllHandled, Handled
  <2>2. ASSUME NEW v \in Workers, actor'[v].step \in Levels
        PROVE  actor'[v].msg \notin counted'
    <3>1. v # w /\ actor'[v] = actor[v]
      BY <1>11, <2>2 DEF Levels, Actors
    <3>2. Busy(v)
      BY <2>2, <3>1, StepNames DEF Busy, Levels
    <3> QED
      BY <1>8, <1>12, <2>2, <3>1, <3>2 DEF WarnInv, CountedOnce
  <2> QED
    BY <1>3, <1>8, <1>9, <2>1, <2>2 DEF WarnInv, CountedOnce
<1>14. BeforeDone'
  BY <1>6 DEF WarnInv, BeforeDone
<1>15. HeldCause'
  <2>1. \A n \in Messages : cause'[n] = "warnings" => Handled(n)'
    BY <1>3, <1>6, <1>7 DEF WarnInv, HeldCause, Handled
  <2>2. ASSUME NEW v \in Workers, Busy(v)', cause'[actor'[v].msg] = "warnings"
        PROVE  actor'[v].why = "warnings"
    <3>1. CASE v = w
      BY <1>11, <2>2, <3>1
    <3>2. CASE v # w
      <4>1. actor'[v] = actor[v] /\ Busy(v)
        BY <1>11, <2>2, <3>2 DEF Actors, Busy
      <4> QED
        BY <1>7, <1>12, <2>2, <3>2, <4>1 DEF WarnInv, HeldCause
    <3> QED
      BY <3>1, <3>2
  <2> QED
    BY <2>1, <2>2 DEF HeldCause
<1>16. RowsStay /\ \A o \in Messages : EndsSeries(o)' => EndsSeries(o)
  <2>1. ASSUME NEW o \in Messages, EndsSeries(o)'
        PROVE  EndsSeries(o)
    BY <1>3, <1>6, <1>7, <2>1 DEF EndsSeries
  <2> QED
    BY <1>6, <1>8, <2>1 DEF RowsStay
<1>17. counted' \subseteq AllHandled' /\ IsFiniteSet(AllHandled')
  BY <1>9, <1>13 DEF WarnInv, CountedOnce
<1>18. /\ \A v : IsFiniteSet(Live(v)) /\ Cardinality(Live(v)) \in Nat
       /\ \A n : IsFiniteSet(InRow(n)) /\ Cardinality(InRow(n)) \in Nat
       /\ \A v : IsFiniteSet(Live(v)') /\ Cardinality(Live(v)') \in Nat
       /\ \A n : IsFiniteSet(InRow(n)') /\ Cardinality(InRow(n)') \in Nat
  BY <1>17, RowsFinite, RowsFiniteNext DEF WarnInv, CountedOnce
<1>19. \A v \in Users : Live(v) \subseteq Live(v)'
  BY <1>6, <1>8, <1>16 DEF Live
<1>20. ASSUME ~dbFailed'
       PROVE  count <= Cardinality(Live(u)') /\ ~dbFailed
  <2>1. counted' = counted \cup {m} /\ ~dbFailed
    <3>1. dbFailed' = dbFailed \/ dbFailed' = TRUE
      BY Zenon DEF Warn, DbOk, DbErr
    <3> QED
      BY <1>8, <1>20, <3>1
  <2>2. m \in Live(u)' /\ m \notin Live(u)
    <3>1. \A o \in Messages : m \notin before[o]
      BY <1>3 DEF WarnInv, BeforeDone, Outcomes
    <3>2. ~EndsSeries(m)'
      BY <1>3, <1>6 DEF EndsSeries
    <3> QED
      BY <1>3, <1>6, <2>1, <3>1, <3>2 DEF Live
  <2>3. Cardinality(Live(u) \cup {m}) = Cardinality(Live(u)) + 1
    BY <1>18, <2>2, FS_AddElement
  <2>4. Cardinality(Live(u) \cup {m}) <= Cardinality(Live(u)')
    BY <1>4, <1>18, <1>19, <2>2, FS_Subset
  <2>5. warnings[u] <= Cardinality(Live(u)) /\ warnings[u] \in Nat
    BY <1>1, <1>4, <2>1 DEF WarnInv, CounterPaid
  <2> QED
    BY <1>4, <1>18, <2>1, <2>3, <2>4, <2>5
<1>21. CounterPaid'
  <2> SUFFICES ASSUME NEW v \in Users, ~dbFailed'
               PROVE  warnings'[v] <= Cardinality(Live(v)')
    BY DEF CounterPaid
  <2>1. /\ v = u => warnings'[v] \in {warnings[v], count}
        /\ v # u => warnings'[v] = warnings[v]
    BY <1>1, <1>4 DEF Warn
  <2>2. warnings[v] <= Cardinality(Live(v)')
    <3>1. warnings[v] <= Cardinality(Live(v)) /\ warnings[v] \in Nat
      BY <1>1, <1>20 DEF WarnInv, CounterPaid
    <3>2. Cardinality(Live(v)) <= Cardinality(Live(v)')
      BY <1>18, <1>19, FS_Subset
    <3> QED
      BY <1>18, <3>1, <3>2
  <2> QED
    BY <1>20, <2>1, <2>2
<1>22. WarningsInARow'
  <2> SUFFICES ASSUME NEW n \in Messages, cause'[n] = "warnings", ~dbFailed'
               PROVE  Cardinality(InRow(n)') >= WarnThreshold
    BY DEF WarningsInARow
  <2>1. CASE cause[n] = "warnings"
    <3>1. Cardinality(InRow(n)) >= WarnThreshold
      BY <1>20, <2>1 DEF WarnInv, WarningsInARow
    <3>2. Cardinality(InRow(n)) <= Cardinality(InRow(n)')
      BY <1>16, <1>18, <2>1, RowKept, FS_Subset
    <3> QED
      BY <1>18, <3>1, <3>2, DispatcherAssumption
  <2>2. CASE cause[n] # "warnings"
    <3>1. n = m /\ count >= WarnThreshold
      BY <1>1, <1>3, <2>2 DEF Warn, DbErr, BanFor, IsLast
    <3>2. Live(u)' \subseteq InRow(m)'
      <4>1. before'[m] \subseteq Messages
        BY <1>1, <1>3, <1>6
      <4>2. \A x \in counted' : Text[x] \in Triggers
        BY <1>13 DEF CountedOnce
      <4> QED
        BY <4>1, <4>2 DEF Live, InRow
    <3>3. Cardinality(Live(u)') <= Cardinality(InRow(m)')
      BY <1>18, <3>2, FS_Subset
    <3> QED
      BY <1>4, <1>18, <1>20, <3>1, <3>3, DispatcherAssumption
  <2> QED
    BY <2>1, <2>2
<1> QED
  BY <1>9, <1>10, <1>13, <1>14, <1>15, <1>17, <1>21, <1>22 DEF WarnInv

-----------------------------------------------------------------------------
\* Initially nothing is counted.
LEMMA InitWarn == Init => WarnInv
<1> SUFFICES ASSUME Init
             PROVE  WarnInv
  OBVIOUS
<1>1. \A w \in Workers : actor[w].step = "idle"
  BY DEF Init, Idle, Actors
<1>2. \A w \in Workers : ~Busy(w)
  BY <1>1 DEF Busy, BusySteps
<1>3. QueueFresh /\ OneHolder /\ WarnsTrigger
  BY <1>1, <1>2 DEF Init, QueueFresh, OneHolder, WarnsTrigger
<1>4. AllHandled = {}
  BY DEF Init, AllHandled, Handled
<1>5. \A m \in Messages : cause[m] # "warnings" /\ before[m] = {}
  BY DEF Init
<1>6. CountedOnce /\ BeforeDone /\ HeldCause
  BY <1>2, <1>5 DEF Init, CountedOnce, BeforeDone, HeldCause
<1>7. IsFiniteSet(AllHandled)
  BY <1>4, FS_EmptySet
<1>8. CounterPaid
  <2>1. \A u \in Users : warnings[u] = 0
    BY DEF Init
  <2>2. \A u \in Users : Live(u) = {}
    BY DEF Init, Live
  <2>3. \A u \in Users : Cardinality(Live(u)) = 0
    BY <2>2, FS_EmptySet
  <2> QED
    BY <2>1, <2>3 DEF CounterPaid
<1>9. WarningsInARow
  BY <1>5 DEF WarningsInARow
<1> QED
  BY <1>3, <1>6, <1>7, <1>8, <1>9 DEF WarnInv

\* Every step of the dispatcher keeps the invariant.
LEMMA WarnInvStep == TypeOK /\ WarnInv /\ [Next]_vars => WarnInv'
<1> SUFFICES ASSUME TypeOK, WarnInv, [Next]_vars
             PROVE  WarnInv'
  OBVIOUS
<1>1. Workers \subseteq Actors /\ Handlers \subseteq Actors
  BY DEF Actors
<1>2. ASSUME NEW w \in Workers, Worker(w)
      PROVE  WarnInv'
  <2>1. CASE Take(w)
    BY <2>1, TakeKeeps
  <2>2. CASE Warn(w)
    BY <2>2, WarnKeeps
  <2>3. CASE Level(w)
    BY <2>3, LevelCalm, CalmKeeps
  <2>4. CASE Mild(w) /\ ~Warn(w)
    BY <2>4, MildCalm, CalmKeeps
  <2>5. CASE BanSteps(w)
    BY <1>1, <2>5, BanCalm, CalmKeeps DEF WarnInv
  <2>6. CASE Throttled(w) \/ Stop(w)
    BY <1>1, <2>6, OtherCalm, CalmKeeps
  <2> QED
    BY <1>2, <2>1, <2>2, <2>3, <2>4, <2>5, <2>6 DEF Worker, WorkerSteps, Level, Mild
<1>3. ASSUME NEW h \in Handlers, Handler(h) \/ \E m \in Messages : BanSpammer(h, m)
      PROVE  WarnInv'
  <2>1. CASE BanSteps(h)
    BY <1>1, <2>1, BanCalm, CalmKeeps DEF WarnInv
  <2>2. CASE Throttled(h) \/ \E m \in Messages : BanSpammer(h, m)
    BY <1>1, <2>2, OtherCalm, CalmKeeps
  <2> QED
    BY <1>3, <2>1, <2>2 DEF Handler
<1>4. ASSUME NEW m \in Messages, Submit(m) \/ Learner(m)
      PROVE  WarnInv'
  BY <1>4, SubmitKeeps, OtherCalm, CalmKeeps DEF Learner
<1>5. CASE ExpireOwner \/ TransferOwner \/ Cancel \/ Exit \/ UNCHANGED vars
  BY <1>5, OtherCalm, CalmKeeps
<1> QED
  BY <1>2, <1>3, <1>4, <1>5 DEF Next

\* The invariant about warnings holds in every behaviour.
THEOREM WarnInvariance == Spec => []WarnInv
BY InitWarn, WarnInvStep, TypeCorrect, PTL DEF Spec

\* A ban for warnings needs WarnThreshold trigger messages of that member in a
\* row, the last of them the one that leads to the ban, unless the database
\* failed.
THEOREM WarningsEarned == Spec => []WarningsInARow
<1>1. WarnInv => WarningsInARow
  BY DEF WarnInv
<1> QED
  BY <1>1, WarnInvariance, PTL

-----------------------------------------------------------------------------

\* 4. Moderation.

\* The steps of ban() after banChatMember.
After == {"banNotice", "spawn", "resetAfter"}

PunishedHeld ==
    Handlers = {} =>
        \A m \in punished :
            \/ stage[m] = "judged"
            \/ \E w \in Workers : actor[w].msg = m /\ actor[w].step \in After

\* Who has a message has one that arrived.
HeldArrived == \A a \in Actors : actor[a].msg # None => stage[actor[a].msg] # "new"
HeldInv == PunishedHeld /\ HeldArrived

ModInv == TypeOK /\ BanInv /\ WarnInv /\ HeldInv

\* The actor goes on with its message, and not back from behind the ban, or
\* gives it a verdict, which is "judged" after a ban.
Careful(a) ==
    /\ \A b \in Actors \ {a} : actor'[b] = actor[b]
    /\ actor'[a].msg \in {actor[a].msg, None}
    /\ \/ /\ stage' = stage
          /\ actor[a].step \in After => /\ actor'[a].msg = actor[a].msg
                                        /\ actor'[a].step \in After
       \/ /\ Busy(a)
          /\ \E o \in Outcomes :
                /\ stage' = IF a \in Workers THEN [stage EXCEPT ![actor[a].msg] = o] ELSE stage
                /\ actor[a].step \in After => o = "judged"

chatTables == <<punished, blacklist, badDomains, owner>>

-----------------------------------------------------------------------------
\* The messages in the queue or taken are those that wait in Moderation.
LEMMA FateOf ==
    ASSUME TypeOK, NEW m \in Messages
    PROVE  /\ Fate[m] = "waiting" <=> stage[m] \in {"queued", "taken"}
           /\ Fate[m] = "new" <=> stage[m] = "new"
<1>1. StagesOK
  BY TypeParts
<1> QED
  BY <1>1 DEF Fate, StagesOK, Outcomes

\* A worker that works on a message is the only one, and the message is taken.
LEMMA Holder ==
    ASSUME TypeOK, WarnInv, NEW w \in Workers, Busy(w)
    PROVE  /\ actor[w].msg \in Messages /\ stage[actor[w].msg] = "taken"
           /\ \A v \in Workers : Busy(v) /\ actor[v].msg = actor[w].msg => v = w
<1>1. ActorsOK /\ w \in Actors
  BY TypeParts DEF Actors
<1>2. actor[w].msg \in Messages
  BY <1>1, BusyActor DEF Busy
<1> QED
  BY <1>2 DEF WarnInv, OneHolder

\* A careful step keeps the invariant.
LEMMA CarefulKeeps ==
    ASSUME ModInv, NEW a \in Actors, Careful(a), punished' = punished
    PROVE  HeldInv'
<1>1. /\ TypeOK /\ WarnInv /\ PunishedHeld /\ HeldArrived /\ StagesOK /\ ActorsOK
      /\ punished \subseteq Messages
  BY TypeParts DEF ModInv, HeldInv, HistoryOK
<1>2. After \subseteq BusySteps /\ Outcomes = {"accepted", "removed", "judged"}
  BY StepNames DEF After, Outcomes
<1>3. CASE stage' = stage /\ (actor[a].step \in After =>
                                 actor'[a].msg = actor[a].msg /\ actor'[a].step \in After)
  <2>1. \A w \in Workers : actor[w].step \in After =>
                              actor'[w].msg = actor[w].msg /\ actor'[w].step \in After
    BY <1>3 DEF Careful, Actors
  <2>2. PunishedHeld'
    BY <1>1, <1>3, <2>1 DEF PunishedHeld
  <2>3. HeldArrived'
    BY <1>1, <1>3 DEF HeldArrived, Careful
  <2> QED
    BY <2>2, <2>3 DEF HeldInv, ModInv
<1>4. ASSUME Busy(a), NEW o \in Outcomes, a \in Workers,
             stage' = [stage EXCEPT ![actor[a].msg] = o],
             actor[a].step \in After => o = "judged"
      PROVE  HeldInv'
  <2> DEFINE n == actor[a].msg
  <2>1. n \in Messages /\ stage[n] = "taken"
    BY <1>1, <1>4, Holder
  <2>2. stage'[n] = o /\ \A m \in Messages \ {n} : stage'[m] = stage[m]
    BY <1>1, <1>4, <2>1 DEF StagesOK
  <2>3. PunishedHeld'
    <3> SUFFICES ASSUME Handlers = {}, NEW m \in punished
                 PROVE  \/ stage'[m] = "judged"
                        \/ \E w \in Workers : actor'[w].msg = m /\ actor'[w].step \in After
      BY DEF PunishedHeld
    <3>1. CASE stage[m] = "judged"
      BY <1>1, <2>1, <2>2, <3>1
    <3>2. ASSUME NEW w \in Workers, actor[w].msg = m, actor[w].step \in After
          PROVE  \/ stage'[m] = "judged"
                 \/ \E v \in Workers : actor'[v].msg = m /\ actor'[v].step \in After
      <4>1. CASE w = a
        BY <1>4, <2>2, <3>2, <4>1
      <4>2. CASE w # a
        BY <3>2, <4>2 DEF Careful, Actors
      <4> QED
        BY <4>1, <4>2
    <3> QED
      BY <1>1, <3>1, <3>2 DEF PunishedHeld
  <2>4. HeldArrived'
    BY <1>1, <1>2, <2>1, <2>2 DEF HeldArrived, Careful, ActorsOK, ActorStates
  <2> QED
    BY <2>3, <2>4 DEF HeldInv, ModInv
<1>5. CASE a \notin Workers /\ stage' = stage
  <2>1. Handlers # {}
    BY <1>5 DEF Actors
  <2>2. HeldArrived'
    BY <1>1, <1>5 DEF HeldArrived, Careful
  <2> QED
    BY <2>1, <2>2 DEF HeldInv, ModInv, PunishedHeld
<1> QED
  BY <1>3, <1>4, <1>5 DEF Careful

\* A careful step is a verdict of Moderation, or nothing to it.
LEMMA CarefulSettles ==
    ASSUME ModInv, NEW a \in Actors, Careful(a), UNCHANGED chatTables
    PROVE  [Chat!Next]_(Chat!vars)
<1>1. TypeOK /\ WarnInv /\ PunishedHeld /\ StagesOK
  BY TypeParts DEF ModInv, HeldInv
<1>2. After \subseteq BusySteps /\ Outcomes = {"accepted", "removed", "judged"}
  BY StepNames DEF After, Outcomes
<1>3. CASE stage' = stage
  BY <1>3 DEF Chat!vars, Fate, chatTables
<1>4. ASSUME Busy(a), NEW o \in Outcomes, a \in Workers,
             stage' = [stage EXCEPT ![actor[a].msg] = o],
             actor[a].step \in After => o = "judged"
      PROVE  Chat!Next
  <2> DEFINE n == actor[a].msg
  <2>1. n \in Messages /\ stage[n] = "taken"
    BY <1>1, <1>4, Holder
  <2>2. Fate[n] = "waiting" /\ Fate' = [Fate EXCEPT ![n] = o]
    BY <1>1, <1>2, <1>4, <2>1 DEF Fate, StagesOK
  <2>3. n \in punished /\ Handlers = {} => o = "judged"
    <3> SUFFICES ASSUME n \in punished, Handlers = {}
                 PROVE  o = "judged"
      OBVIOUS
    <3>1. PICK w \in Workers : actor[w].msg = n /\ actor[w].step \in After
      BY <1>1, <2>1 DEF PunishedHeld
    <3>2. w = a
      BY <1>1, <1>2, <1>4, <3>1, Holder DEF Busy
    <3> QED
      BY <1>4, <3>1, <3>2
  <2>4. Chat!Settle(n, o)
    BY <2>2, <2>3 DEF Chat!Settle, chatTables
  <2> QED
    BY <1>2, <2>1, <2>4 DEF Chat!Next, Chat!Verdicts
<1> QED
  BY <1>3, <1>4 DEF Careful

-----------------------------------------------------------------------------
\* The ways in which an actor moves are careful.
LEMMA MovesCareful ==
    ASSUME TypeOK, NEW a \in Actors, Busy(a), actor[a].step \notin After, Moves(a)
    PROVE  Careful(a)
<1>1. ActorsOK /\ StagesOK /\ cause \in [Messages -> Causes]
  BY TypeParts DEF HistoryOK
<1>2. ASSUME NEW s \in BusySteps, Go(a, s), UNCHANGED stage
      PROVE  Careful(a)
  BY <1>1, <1>2, GoProperties DEF Careful, Busy
<1>3. ASSUME NEW o \in Outcomes, Finish(a, o)
      PROVE  Careful(a)
  <2>1. actor'[a].msg = None /\ \A b \in Actors \ {a} : actor'[b] = actor[b]
    BY <1>1, <1>3, FinishProperties DEF Busy
  <2> QED
    BY <1>3, <2>1 DEF Careful, Finish
<1>4. ASSUME NEW w \in Causes, BanFor(a, w), UNCHANGED stage
      PROVE  Careful(a)
  BY <1>1, <1>4, BanForProperties DEF Careful, Busy
<1> QED
  BY <1>2, <1>3, <1>4 DEF Moves, MovesTo

\* The return from ban() is careful.
LEMMA ReturnCareful ==
    ASSUME TypeOK, NEW a \in Actors, Busy(a), BanReturns(a)
    PROVE  Careful(a)
<1>1. ActorsOK /\ StagesOK /\ "resetAfter" \in BusySteps /\ "judged" \in Outcomes
  BY TypeParts, StepNames, Zenon DEF Outcomes
<1>2. CASE Go(a, "resetAfter") /\ UNCHANGED stage
  <2>1. /\ actor'[a].step = "resetAfter" /\ actor'[a].msg = actor[a].msg
        /\ \A b \in Actors \ {a} : actor'[b] = actor[b]
    BY <1>1, <1>2, GoProperties DEF Busy
  <2> QED
    BY <1>2, <2>1 DEF Careful, After
<1>3. CASE Finish(a, "judged")
  <2>1. actor'[a].msg = None /\ \A b \in Actors \ {a} : actor'[b] = actor[b]
    BY <1>1, <1>3, FinishProperties DEF Busy
  <2> QED
    BY <1>1, <1>3, <2>1 DEF Careful, Finish
<1> QED
  BY <1>2, <1>3 DEF BanReturns

\* The levels, the warnings and the notices are careful.
LEMMA LevelCareful ==
    ASSUME TypeOK, NEW w \in Workers,
           Level(w) \/ Mild(w)
    PROVE  Careful(w) /\ UNCHANGED chatTables
<1>1. w \in Actors /\ ActorsOK /\ StagesOK /\ cause \in [Messages -> Causes] /\ "judged" \in Outcomes
  BY TypeParts DEF Actors, HistoryOK, Outcomes
<1>2. /\ MovesTo(w, PlainSteps) /\ Busy(w)
      /\ UNCHANGED chatTables
  BY LevelStep, MildStep DEF Busy, chatTables, tables, ownerVars
<1>3. CASE ResetAfter(w)
  <2>1. actor'[w].msg = None /\ \A b \in Actors \ {w} : actor'[b] = actor[b]
    BY <1>1, <1>2, <1>3, FinishProperties DEF Busy, ResetAfter
  <2> QED
    BY <1>1, <1>2, <1>3, <2>1 DEF ResetAfter, Finish, Careful
<1>4. CASE ~ResetAfter(w)
  <2>1. actor[w].step \notin After
    BY <1>4 DEF Level, Mild, CheckKnown, CheckDomain, CheckFlood, CheckMode, CheckAllow,
                CheckTrigger, ResetSeries, Warn, WarnDelete, WarnNotice, SoftDelete, Notice, At,
                After, AllowStep, Settings
  <2>2. Moves(w)
    BY <1>1, <1>2, PlainMoves DEF Busy
  <2> QED
    BY <1>1, <1>2, <2>1, <2>2, MovesCareful
<1> QED
  BY <1>3, <1>4

\* ban() but for the call that bans is careful.
LEMMA BanCareful ==
    ASSUME TypeOK, NEW a \in Actors,
           \/ BanDelete(a) \/ OwnerLook(a) \/ OwnerFetch(a) \/ OwnerStore(a) \/ BanNotice(a)
           \/ Spawn(a)
    PROVE  Careful(a) /\ UNCHANGED chatTables
<1>1. /\ {"banDelete", "ownerLook", "ownerFetch", "ownerStore", "banNotice", "spawn"}
           \subseteq BusySteps
      /\ ActorsOK
  BY StepNames, TypeParts
<1>2. Busy(a)
  BY <1>1 DEF BanDelete, OwnerLook, OwnerFetch, OwnerStore, BanNotice, Spawn, At, Busy
<1>3. UNCHANGED chatTables
  BY DEF BanDelete, OwnerLook, OwnerFetch, OwnerStore, BanNotice, Spawn, chatTables, tables,
         ownerVars, history, series
<1>4. CASE BanDelete(a) \/ OwnerLook(a) \/ OwnerStore(a)
  <2>1. Moves(a)
    BY <1>4, BanStep
  <2>2. actor[a].step \notin After
    BY <1>4 DEF BanDelete, OwnerLook, OwnerStore, At, After
  <2> QED
    BY <1>2, <1>3, <2>1, <2>2, MovesCareful
<1>5. CASE OwnerFetch(a)
  <2>1. actor[a].step \notin After /\ stage' = stage
    BY <1>5 DEF OwnerFetch, At, After
  <2>2. actor'[a].msg = actor[a].msg /\ \A b \in Actors \ {a} : actor'[b] = actor[b]
    BY <1>1, <1>5 DEF OwnerFetch, Go, ActorsOK, ActorStates
  <2> QED
    BY <1>3, <2>1, <2>2 DEF Careful
<1>6. CASE BanNotice(a)
  <2>1. Go(a, "spawn") /\ stage' = stage
    BY <1>6 DEF BanNotice
  <2>2. /\ actor'[a].step = "spawn" /\ actor'[a].msg = actor[a].msg
        /\ \A b \in Actors \ {a} : actor'[b] = actor[b]
    BY <1>1, <1>2, <2>1, GoProperties DEF Busy
  <2> QED
    BY <1>3, <2>1, <2>2 DEF Careful, After
<1>7. CASE Spawn(a)
  BY <1>2, <1>3, <1>7, ReturnCareful DEF Spawn
<1> QED
  BY <1>4, <1>5, <1>6, <1>7

\* Retries and the end of a worker are careful.
LEMMA IdleCareful ==
    ASSUME TypeOK, NEW a \in Actors, Throttled(a) \/ Stop(a)
    PROVE  Careful(a) /\ UNCHANGED chatTables
<1>1. ActorsOK
  BY TypeParts
<1>2. UNCHANGED chatTables /\ stage' = stage
  BY DEF Throttled, Stop, chatTables, tables, ownerVars, history, series
<1>3. \A b \in Actors \ {a} : actor'[b] = actor[b]
  BY <1>1 DEF Throttled, Stop, Go, ActorsOK
<1>4. /\ actor'[a].msg = actor[a].msg
      /\ actor[a].step \in After => actor'[a].step = actor[a].step
  BY <1>1 DEF Throttled, Stop, Go, At, After, ActorsOK, ActorStates
<1> QED
  BY <1>2, <1>3, <1>4 DEF Careful

-----------------------------------------------------------------------------
\* A full queue has a waiting message in every place, each time another.
LEMMA QueueFull ==
    ASSUME ModInv, ~HasRoom
    PROVE  Chat!Full
<1>1. /\ queue \in Seq(Messages) /\ QueueFresh /\ TypeOK
      /\ QueueSize \in Nat
  BY TypeParts, DispatcherAssumption DEF ModInv, WarnInv, QueueOK
<1>2. \A i \in 1 .. QueueSize : i \in DOMAIN queue
  BY <1>1 DEF HasRoom
<1>3. \A i \in 1 .. QueueSize : queue[i] \in Messages /\ stage[queue[i]] = "queued"
  BY <1>1, <1>2 DEF QueueFresh
<1>4. \A i \in 1 .. QueueSize : queue[i] \in Chat!Waiting
  BY <1>1, <1>3, FateOf DEF Chat!Waiting
<1> DEFINE place == [i \in 1 .. QueueSize |-> queue[i]]
<1>5. place \in [1 .. QueueSize -> Chat!Waiting]
  BY <1>4
<1>6. \A i, j \in 1 .. QueueSize : place[i] = place[j] => i = j
  BY <1>1, <1>2 DEF QueueFresh
<1> QED
  BY <1>5, <1>6 DEF Chat!Full

\* Submit is an arrival.
LEMMA SubmitArrives ==
    ASSUME ModInv, NEW m \in Messages, Submit(m)
    PROVE  Chat!Next /\ HeldInv'
<1>1. /\ TypeOK /\ StagesOK /\ stage[m] = "new"
      /\ PunishedHeld /\ HeldArrived
  BY TypeParts DEF ModInv, HeldInv, Submit
<1>2. PICK s \in {"queued", "dropped"} :
         /\ stage' = [stage EXCEPT ![m] = s]
         /\ s = "dropped" => ~HasRoom
  BY DEF Submit
<1>3. UNCHANGED <<chatTables, actor>>
  BY DEF Submit, chatTables, tables, ownerVars
<1>4. /\ stage'[m] = s
      /\ \A n \in Messages \ {m} : stage'[n] = stage[n]
  BY <1>1, <1>2 DEF StagesOK
<1>5. Fate' = [Fate EXCEPT ![m] = IF s = "queued" THEN "waiting" ELSE "dropped"]
  BY <1>1, <1>2, <1>4 DEF Fate
<1>6. Fate[m] = "new"
  BY <1>1, FateOf
<1>7. Chat!Arrive(m)
  <2>1. CASE s = "queued"
    BY <1>3, <1>5, <1>6, <2>1 DEF Chat!Arrive, chatTables
  <2>2. CASE s = "dropped"
    <3>1. Chat!Full
      BY <1>2, <2>2, QueueFull
    <3>2. Fate' = [Fate EXCEPT ![m] = "dropped"]
      BY <1>5, <2>2
    <3> QED
      BY <1>3, <1>6, <3>1, <3>2 DEF Chat!Arrive, chatTables
  <2> QED
    BY <2>1, <2>2
<1>8. PunishedHeld'
  BY <1>1, <1>3, <1>4, TypeParts DEF PunishedHeld, chatTables, HistoryOK
<1>9. HeldArrived'
  BY <1>1, <1>2, <1>3, <1>4, TypeParts DEF HeldArrived, ActorsOK, ActorStates
<1> QED
  BY <1>7, <1>8, <1>9 DEF Chat!Next, HeldInv

\* A worker that takes a message leaves it waiting.
LEMMA TakeWaits ==
    ASSUME ModInv, NEW w \in Workers, Take(w)
    PROVE  UNCHANGED Chat!vars /\ HeldInv'
<1> DEFINE m == Head(queue)
<1>1. /\ TypeOK /\ StagesOK /\ ActorsOK /\ QueueFresh
      /\ PunishedHeld /\ HeldArrived
      /\ queue \in Seq(Messages) /\ queue # << >> /\ w \in Actors /\ punished \subseteq Messages
  BY TypeParts DEF ModInv, HeldInv, WarnInv, QueueOK, Take, Actors, HistoryOK
<1>2. m \in Messages /\ stage[m] = "queued"
  <2>1. m = queue[1] /\ 1 \in DOMAIN queue /\ m \in Messages
    BY <1>1
  <2> QED
    BY <1>1, <2>1 DEF QueueFresh
<1>3. /\ stage'[m] = "taken" /\ stage' = [stage EXCEPT ![m] = "taken"]
      /\ \A n \in Messages \ {m} : stage'[n] = stage[n]
  BY <1>1, <1>2 DEF Take, StagesOK
<1>4. UNCHANGED chatTables
  BY DEF Take, chatTables, tables, ownerVars, history, series
<1>5. Fate' = Fate
  BY <1>1, <1>2, <1>3 DEF Fate
<1>6. /\ actor[w].step = "idle" /\ actor'[w].msg = m
      /\ \A b \in Actors \ {w} : actor'[b] = actor[b]
  BY <1>1 DEF Take, At, ActorsOK, ActorStates
<1>7. PunishedHeld'
  BY <1>1, <1>2, <1>3, <1>4, <1>6 DEF PunishedHeld, After, chatTables, Actors
<1>8. HeldArrived'
  BY <1>1, <1>2, <1>3, <1>6 DEF HeldArrived, ActorsOK, ActorStates
<1> QED
  BY <1>1, <1>4, <1>5, <1>7, <1>8 DEF Chat!vars, chatTables, HeldInv

\* banChatMember of a worker is for a message that waits, of a handler for one
\* that has arrived.
LEMMA BanPunishes ==
    ASSUME ModInv, NEW a \in Actors, Ban(a)
    PROVE  [Chat!Next]_(Chat!vars) /\ HeldInv'
<1> DEFINE m == actor[a].msg
<1>1. TypeOK /\ ActorsOK /\ WarnInv /\ PunishedHeld /\ HeldArrived /\ "ban" \in BusySteps
  BY TypeParts, StepNames, Zenon DEF ModInv, HeldInv
<1>2. Busy(a) /\ m \in Messages
  <2>1. Busy(a)
    BY <1>1 DEF Ban, At, Busy
  <2> QED
    BY <1>1, <2>1, BusyActor DEF Busy
<1>3. CASE BanFailed(a) /\ UNCHANGED punished
  <2>1. Careful(a)
    BY <1>1, <1>2, <1>3, ReturnCareful DEF BanFailed
  <2>2. UNCHANGED chatTables
    BY <1>3 DEF Ban, chatTables, tables, ownerVars
  <2> QED
    BY <1>3, <2>1, <2>2, CarefulKeeps, CarefulSettles
<1>4. CASE /\ Sender[m] # owner
           /\ punished' = punished \cup {m}
           /\ Go(a, IF Silent THEN "spawn" ELSE "banNotice")
           /\ UNCHANGED stage
  <2>1. PICK s \in After : Go(a, s) /\ s \in BusySteps
    BY <1>4, StepNames DEF After
  <2>2. /\ actor'[a].step = s /\ actor'[a].msg = m
        /\ \A b \in Actors \ {a} : actor'[b] = actor[b]
    BY <1>1, <1>2, <2>1, GoProperties DEF Busy
  <2>3. Fate[m] = "waiting" \/ (Handlers # {} /\ Fate[m] # "new")
    <3>1. CASE a \in Workers
      BY <1>1, <1>2, <3>1, Holder, FateOf
    <3>2. CASE a \in Handlers
      <4>1. stage[m] # "new"
        BY <1>1, <1>2, DispatcherAssumption DEF HeldArrived
      <4> QED
        BY <1>1, <1>2, <3>2, <4>1, FateOf
    <3> QED
      BY <3>1, <3>2 DEF Actors
  <2>4. UNCHANGED <<Fate, owner, blacklist, badDomains>>
    BY <1>4 DEF Ban, Fate, tables, ownerVars
  <2>5. Chat!Punish(m)
    BY <1>4, <2>3, <2>4 DEF Chat!Punish
  <2>6. PunishedHeld'
    <3> SUFFICES ASSUME Handlers = {}, NEW n \in punished \cup {m}
                 PROVE  \/ stage[n] = "judged"
                        \/ \E w \in Workers : actor'[w].msg = n /\ actor'[w].step \in After
      BY <1>4 DEF PunishedHeld
    <3>1. a \in Workers /\ Workers \subseteq Actors
      BY DEF Actors
    <3>2. CASE n = m
      BY <2>1, <2>2, <3>1, <3>2
    <3>3. CASE n # m
      <4>1. \A w \in Workers : actor[w].msg = n => actor'[w] = actor[w]
        BY <2>2, <3>1, <3>3
      <4> QED
        BY <1>1, <3>3, <4>1 DEF PunishedHeld
    <3> QED
      BY <3>2, <3>3
  <2>7. HeldArrived'
    BY <1>1, <1>4, <2>2 DEF HeldArrived
  <2> QED
    BY <1>2, <2>5, <2>6, <2>7 DEF Chat!Next, HeldInv, ModInv
<1> QED
  BY <1>3, <1>4 DEF Ban

\* BanSpammer begins the work on a message that arrived.
LEMMA CommandStarts ==
    ASSUME ModInv, NEW h \in Handlers, NEW m \in Messages, BanSpammer(h, m)
    PROVE  UNCHANGED Chat!vars /\ HeldInv'
<1>1. ActorsOK /\ h \in Actors /\ Handlers # {} /\ HeldArrived
  BY TypeParts DEF Actors, ModInv, HeldInv
<1>2. UNCHANGED <<stage, chatTables>>
  BY DEF BanSpammer, chatTables, tables, ownerVars, history, series
<1>3. actor'[h].msg = m /\ \A b \in Actors \ {h} : actor'[b] = actor[b]
  BY <1>1 DEF BanSpammer, ActorsOK, Idle
<1>4. HeldArrived'
  BY <1>1, <1>2, <1>3 DEF HeldArrived, BanSpammer
<1> QED
  BY <1>1, <1>2, <1>4 DEF HeldInv, PunishedHeld, Chat!vars, chatTables, Fate

\* The learning goroutine learns from a punished message; the owner of the chat
\* changes in both; the rest does not concern the chat.
LEMMA WorldSteps ==
    ASSUME ModInv,
           \/ \E m \in Messages : Learner(m)
           \/ ExpireOwner \/ TransferOwner \/ Cancel \/ Exit \/ UNCHANGED vars
    PROVE  [Chat!Next]_(Chat!vars) /\ HeldInv'
<1>1. UNCHANGED <<stage, actor, punished>>
  BY DEF Learner, LearnSpam, LearnDomains, ExpireOwner, TransferOwner, Cancel, Exit, vars, history, series
<1>2. HeldInv'
  BY <1>1 DEF ModInv, HeldInv, PunishedHeld, HeldArrived
<1>3. Fate' = Fate
  BY <1>1 DEF Fate
<1>4. ASSUME NEW m \in Messages, Learner(m)
      PROVE  [Chat!Next]_(Chat!vars)
  <2>1. m \in punished
    BY <1>4 DEF Learner, LearnSpam, LearnDomains, ModInv, BanInv, PunishedFirst
  <2>2. /\ owner' = owner
        /\ \/ blacklist' = blacklist \cup {Text[m]} /\ UNCHANGED badDomains
           \/ badDomains' = badDomains \cup DomainsIn[Text[m]] /\ UNCHANGED blacklist
           \/ UNCHANGED <<blacklist, badDomains>>
    BY <1>4, Zenon DEF Learner, LearnSpam, LearnDomains, Lesson, ownerVars
  <2>3. Chat!Learn(m) \/ UNCHANGED Chat!vars
    BY <1>1, <1>3, <2>1, <2>2 DEF Chat!Learn, Chat!vars
  <2> QED
    BY <2>3 DEF Chat!Next
<1>5. CASE TransferOwner
  <2>1. owner' \in Users \ {owner} /\ UNCHANGED <<blacklist, badDomains>>
    BY <1>5 DEF TransferOwner, tables
  <2>2. Chat!Transfer
    BY <1>1, <1>3, <2>1 DEF Chat!Transfer
  <2> QED
    BY <1>2, <2>2 DEF Chat!Next
<1>6. CASE ExpireOwner \/ Cancel \/ Exit \/ UNCHANGED vars
  <2>1. UNCHANGED <<owner, blacklist, badDomains>>
    BY <1>6 DEF ExpireOwner, Cancel, Exit, vars, tables, ownerVars
  <2> QED
    BY <1>1, <1>2, <1>3, <2>1 DEF Chat!vars
<1> QED
  BY <1>2, <1>4, <1>5, <1>6

-----------------------------------------------------------------------------
\* Every step of the dispatcher is one of Moderation, or nothing to it.
LEMMA StepImplements == ModInv /\ [Next]_vars => [Chat!Next]_(Chat!vars) /\ HeldInv'
<1> SUFFICES ASSUME ModInv, [Next]_vars
             PROVE  [Chat!Next]_(Chat!vars) /\ HeldInv'
  OBVIOUS
<1>1. Workers \subseteq Actors /\ Handlers \subseteq Actors /\ TypeOK
  BY DEF Actors, ModInv
<1>2. ASSUME NEW a \in Actors, Careful(a), UNCHANGED chatTables
      PROVE  [Chat!Next]_(Chat!vars) /\ HeldInv'
  BY <1>2, CarefulKeeps, CarefulSettles DEF chatTables
<1>3. ASSUME NEW a \in Actors, BanSteps(a)
      PROVE  [Chat!Next]_(Chat!vars) /\ HeldInv'
  <2>1. CASE Ban(a)
    BY <2>1, BanPunishes
  <2>2. CASE ~Ban(a)
    BY <1>1, <1>2, <1>3, <2>2, BanCareful DEF BanSteps
  <2> QED
    BY <2>1, <2>2
<1>4. ASSUME NEW w \in Workers, Worker(w)
      PROVE  [Chat!Next]_(Chat!vars) /\ HeldInv'
  <2>1. CASE Take(w)
    BY <2>1, TakeWaits
  <2>2. CASE BanSteps(w)
    BY <1>1, <1>3, <2>2
  <2>3. CASE Throttled(w) \/ Stop(w)
    BY <1>1, <1>2, <2>3, IdleCareful
  <2>4. CASE Level(w) \/ Mild(w)
    BY <1>1, <1>2, <2>4, LevelCareful
  <2> QED
    BY <1>4, <2>1, <2>2, <2>3, <2>4 DEF Worker, WorkerSteps, Level, Mild
<1>5. ASSUME NEW h \in Handlers, Handler(h) \/ \E m \in Messages : BanSpammer(h, m)
      PROVE  [Chat!Next]_(Chat!vars) /\ HeldInv'
  <2>1. CASE BanSteps(h)
    BY <1>1, <1>3, <2>1
  <2>2. CASE Throttled(h)
    BY <1>1, <1>2, <2>2, IdleCareful
  <2>3. CASE \E m \in Messages : BanSpammer(h, m)
    BY <2>3, CommandStarts
  <2> QED
    BY <1>5, <2>1, <2>2, <2>3 DEF Handler
<1>6. ASSUME NEW m \in Messages, Submit(m)
      PROVE  [Chat!Next]_(Chat!vars) /\ HeldInv'
  BY <1>6, SubmitArrives
<1>7. CASE \/ \E m \in Messages : Learner(m)
           \/ ExpireOwner \/ TransferOwner \/ Cancel \/ Exit \/ UNCHANGED vars
  BY <1>7, WorldSteps
<1> QED
  BY <1>4, <1>5, <1>6, <1>7 DEF Next

\* The dispatcher starts as Moderation does.
LEMMA InitImplements == Init => Chat!Init /\ HeldInv
<1> SUFFICES ASSUME Init
             PROVE  Chat!Init /\ HeldInv
  OBVIOUS
<1>1. Chat!Init
  BY DEF Init, Chat!Init, Fate
<1>2. PunishedHeld /\ HeldArrived
  BY DEF Init, PunishedHeld, HeldArrived, Idle
<1> QED
  BY <1>1, <1>2 DEF HeldInv

\* The dispatcher implements Moderation.
THEOREM Implements == Spec => ModerationKept
<1>1. Spec => [](TypeOK /\ BanInv /\ WarnInv)
  BY TypeCorrect, BanInvariance, WarnInvariance, PTL
<1>2. (TypeOK /\ BanInv /\ WarnInv) /\ HeldInv /\ [Next]_vars
         => [Chat!Next]_(Chat!vars) /\ HeldInv'
  BY StepImplements DEF ModInv
<1>3. Spec => []HeldInv
  BY <1>1, <1>2, InitImplements, PTL DEF Spec
<1> QED
  BY <1>1, <1>2, <1>3, InitImplements, PTL DEF Spec, ModerationKept, Chat!Spec

-----------------------------------------------------------------------------
\* 5. Known texts.

\* The steps of a worker with a message whose text was known when it came: the
\* first level, and ban().
KnownPath == {"known", "banDelete", "ownerLook", "ownerFetch", "ownerStore", "ban",
              "banNotice", "spawn", "resetAfter"}

\* What was known stays known, and nobody learns the empty text, with which a
\* message would pass by the first level.
Lessons ==
    /\ \A m \in known : Text[m] \in blacklist
    /\ NoText \notin blacklist
    /\ \A m \in Messages : <<m, "spam">> \in learning => Text[m] # NoText

KnownHeld ==
    ~dbFailed =>
        /\ \A w \in Workers : actor[w].msg \in known => actor[w].step \in KnownPath
        /\ \A m \in known : stage[m] \notin {"accepted", "removed"}

KnownInv == Lessons /\ KnownHeld

\* The step of an actor with such a message: on along the path, or to its end.
OnPath(a) ==
    \/ actor'[a].step \in KnownPath /\ stage' = stage
    \/ actor'[a].msg = None /\ stage' = [stage EXCEPT ![actor[a].msg] = "judged"]

\* A careful step of an actor that keeps to the path with a known message keeps
\* everyone on it.
LEMMA PathKeeps ==
    ASSUME TypeOK, KnownInv, NEW a \in Actors, Careful(a), UNCHANGED known,
           dbFailed => dbFailed',
           a \in Workers /\ actor[a].msg \in known /\ ~dbFailed' => OnPath(a)
    PROVE  KnownHeld'
<1> SUFFICES ASSUME ~dbFailed'
             PROVE  /\ \A w \in Workers : actor'[w].msg \in known => actor'[w].step \in KnownPath
                    /\ \A m \in known : stage'[m] \notin {"accepted", "removed"}
  BY DEF KnownHeld
<1>1. /\ \A w \in Workers : actor[w].msg \in known => actor[w].step \in KnownPath
      /\ \A m \in known : stage[m] \notin {"accepted", "removed"}
  BY DEF KnownInv, KnownHeld
<1>2. None \notin known /\ known \subseteq Messages /\ StagesOK /\ Workers \subseteq Actors
  BY TypeParts, DispatcherAssumption DEF HistoryOK, Actors
<1>3. ASSUME NEW w \in Workers, actor'[w].msg \in known
      PROVE  actor'[w].step \in KnownPath
  <2>1. CASE w # a
    BY <1>1, <1>2, <1>3, <2>1 DEF Careful
  <2>2. CASE w = a
    <3>1. actor'[a].msg = actor[a].msg /\ actor'[a].msg # None
      BY <1>2, <1>3, <2>2 DEF Careful
    <3> QED
      BY <1>3, <2>2, <3>1 DEF OnPath
  <2> QED
    BY <2>1, <2>2
<1>4. ASSUME NEW m \in known
      PROVE  stage'[m] \notin {"accepted", "removed"}
  <2>1. CASE stage' = stage
    BY <1>1, <2>1
  <2>2. ASSUME a \in Workers, NEW o, stage' = [stage EXCEPT ![actor[a].msg] = o]
        PROVE  stage'[m] \notin {"accepted", "removed"}
    <3>1. CASE m # actor[a].msg
      BY <1>1, <1>2, <2>2, <3>1 DEF StagesOK
    <3>2. CASE m = actor[a].msg
      <4>1. OnPath(a)
        BY <2>2, <3>2
      <4>2. stage' = stage \/ stage' = [stage EXCEPT ![actor[a].msg] = "judged"]
        BY <4>1 DEF OnPath
      <4> QED
        BY <1>1, <1>2, <3>2, <4>2 DEF StagesOK
    <3> QED
      BY <3>1, <3>2
  <2> QED
    BY <2>1, <2>2 DEF Careful
<1> QED
  BY <1>3, <1>4

\* All of ban() is careful, the call that bans included.
LEMMA BanStepsCareful ==
    ASSUME TypeOK, NEW a \in Actors, BanSteps(a)
    PROVE  Careful(a)
<1>1. CASE Ban(a)
  <2>1. Moves(a) /\ Busy(a) /\ actor[a].step \notin After
    BY <1>1, BanStep DEF Ban, At, After, Busy
  <2> QED
    BY <2>1, MovesCareful
<1>2. CASE ~Ban(a)
  BY <1>2, BanCareful DEF BanSteps
<1> QED
  BY <1>1, <1>2

\* ban() leads to "judged" and nowhere else.
LEMMA BanOnPath ==
    ASSUME TypeOK, NEW a \in Workers, BanSteps(a)
    PROVE  Careful(a) /\ OnPath(a)
<1>1. /\ ActorsOK /\ StagesOK /\ a \in Actors
      /\ KnownPath \subseteq BusySteps /\ "judged" \in Outcomes
  BY TypeParts, StepNames, Zenon DEF Actors, KnownPath, Outcomes
<1>2. /\ {"banDelete", "ownerLook", "ownerFetch", "ownerStore", "ban", "banNotice", "spawn"}
           \subseteq KnownPath
      /\ "resetAfter" \in KnownPath
  BY DEF KnownPath
<1>3. Busy(a)
  BY <1>1, <1>2 DEF BanSteps, BanDelete, OwnerLook, OwnerFetch, OwnerStore, Ban, BanNotice,
                    Spawn, At, Busy
<1>4. ASSUME NEW s \in KnownPath, Go(a, s), stage' = stage
      PROVE  OnPath(a)
  BY <1>1, <1>3, <1>4, GoProperties DEF OnPath, Busy
<1>5. ASSUME Finish(a, "judged")
      PROVE  OnPath(a)
  BY <1>1, <1>3, <1>5, FinishProperties DEF OnPath, Busy, Finish
<1>6. ASSUME BanReturns(a)
      PROVE  OnPath(a)
  BY <1>2, <1>4, <1>5, <1>6 DEF BanReturns
<1>7. Careful(a)
  BY <1>1, BanStepsCareful
<1>8. OnPath(a)
  <2>1. CASE BanDelete(a)
    BY <1>2, <1>4, <2>1 DEF BanDelete
  <2>2. CASE OwnerLook(a)
    BY <1>2, <1>4, <1>6, <2>2 DEF OwnerLook, Decide
  <2>3. CASE OwnerFetch(a)
    <3>1. CASE Go(a, "ban")
      BY <1>2, <1>4, <2>3, <3>1 DEF OwnerFetch
    <3>2. ASSUME NEW id, actor' = [actor EXCEPT ![a].step = "ownerStore", ![a].seen = id]
          PROVE  OnPath(a)
      <4>1. actor'[a].step = "ownerStore"
        BY <1>1, <3>2 DEF ActorsOK, ActorStates
      <4> QED
        BY <1>2, <2>3, <4>1 DEF OwnerFetch, OnPath
    <3> QED
      BY <2>3, <3>1, <3>2 DEF OwnerFetch
  <2>4. CASE OwnerStore(a)
    BY <1>2, <1>4, <1>6, <2>4 DEF OwnerStore, Decide
  <2>5. CASE Ban(a)
    BY <1>2, <1>4, <1>6, <2>5 DEF Ban, BanFailed
  <2>6. CASE BanNotice(a)
    BY <1>2, <1>4, <2>6 DEF BanNotice
  <2>7. CASE Spawn(a)
    BY <1>6, <2>7 DEF Spawn
  <2> QED
    BY <2>1, <2>2, <2>3, <2>4, <2>5, <2>6, <2>7 DEF BanSteps
<1> QED
  BY <1>7, <1>8

\* The first level sends a known message to ban(), unless the database fails;
\* no other level sees it.
LEMMA LevelOnPath ==
    ASSUME TypeOK, Lessons, NEW w \in Workers, actor[w].msg \in known, ~dbFailed',
           actor[w].step \in KnownPath,
           Level(w) \/ Mild(w)
    PROVE  OnPath(w)
<1>1. /\ ActorsOK /\ StagesOK /\ w \in Actors /\ cause \in [Messages -> Causes]
      /\ "judged" \in Outcomes /\ "known" \in Causes
      /\ {"known", "resetAfter"} \subseteq BusySteps
  BY TypeParts, StepNames, Zenon DEF Actors, HistoryOK, Outcomes, Causes
<1>2. CheckKnown(w) \/ ResetAfter(w)
  BY DEF Level, Mild, CheckDomain, CheckFlood, CheckMode, CheckAllow, CheckTrigger, ResetSeries,
         Warn, WarnDelete, WarnNotice, SoftDelete, Notice, At, KnownPath, AllowStep, Settings
<1>3. CASE CheckKnown(w)
  <2>1. BanFor(w, "known") /\ stage' = stage
    BY <1>3 DEF CheckKnown, TextErr, DbErr, IsKnown, Lessons
  <2>2. actor'[w].step = "banDelete"
    BY <1>1, <1>3, <2>1, BanForProperties DEF CheckKnown, At
  <2> QED
    BY <2>1, <2>2 DEF OnPath, KnownPath
<1>4. CASE ResetAfter(w)
  BY <1>1, <1>4, FinishProperties DEF ResetAfter, At, Finish, OnPath
<1> QED
  BY <1>2, <1>3, <1>4

\* Texts are only ever added to the blacklist, and no empty one.
LEMMA LessonsKept ==
    ASSUME TypeOK, KnownInv, [Next]_vars
    PROVE  Lessons' /\ (dbFailed => dbFailed') /\ blacklist \subseteq blacklist'
<1>1. CASE /\ UNCHANGED <<blacklist, learning, known>>
           /\ dbFailed => dbFailed'
  BY <1>1 DEF KnownInv, Lessons
<1>2. Workers \subseteq Actors /\ Handlers \subseteq Actors
  BY DEF Actors
<1>3. ASSUME NEW a \in Actors, BanSteps(a)
      PROVE  Lessons' /\ (dbFailed => dbFailed') /\ blacklist \subseteq blacklist'
  <2>1. UNCHANGED <<blacklist, known>> /\ (dbFailed => dbFailed')
    BY <1>3 DEF BanSteps, BanDelete, OwnerLook, OwnerFetch, OwnerStore, Ban, BanNotice, Spawn,
                tables, history, series
  <2>2. CASE Spawn(a)
    <3>1. \A m \in Messages : <<m, "spam">> \in learning' =>
             <<m, "spam">> \in learning \/ Text[m] # NoText
      BY <2>2 DEF Spawn
    <3> QED
      BY <2>1, <3>1 DEF KnownInv, Lessons
  <2>3. CASE ~Spawn(a)
    <3>1. UNCHANGED learning
      BY <1>3, <2>3 DEF BanSteps, BanDelete, OwnerLook, OwnerFetch, OwnerStore, Ban, BanNotice
    <3> QED
      BY <1>1, <2>1, <3>1
  <2> QED
    BY <2>2, <2>3
<1>4. ASSUME NEW a \in Actors, Throttled(a) \/ Stop(a) \/ \E m \in Messages : BanSpammer(a, m)
      PROVE  UNCHANGED <<blacklist, learning, known, dbFailed>>
  <2>1. UNCHANGED <<tables, learning, history>>
    BY <1>4 DEF Throttled, Stop, BanSpammer
  <2> QED
    BY <2>1 DEF tables, history
<1>5. ASSUME NEW w \in Workers, WorkerSteps(w)
      PROVE  UNCHANGED <<blacklist, learning, known>> /\ (dbFailed => dbFailed')
  <2>1. CASE Level(w)
    BY <2>1, LevelStep, LevelCalm DEF NoWarning, tables
  <2>2. CASE Mild(w) /\ ~Warn(w)
    BY <2>2, MildStep, MildCalm DEF NoWarning
  <2>3. CASE Warn(w)
    <3>1. UNCHANGED <<blacklist, learning, known>>
      BY <2>3 DEF Warn
    <3>2. dbFailed' = dbFailed \/ dbFailed' = TRUE
      BY <2>3, Zenon DEF Warn, DbOk, DbErr
    <3> QED
      BY <3>1, <3>2
  <2>4. CASE Take(w) \/ Stop(w)
    BY <2>4 DEF Take, Stop, tables, history, series
  <2> QED
    BY <1>5, <2>1, <2>2, <2>3, <2>4 DEF WorkerSteps, Level, Mild
<1>6. ASSUME NEW m \in Messages, Submit(m)
      PROVE  Lessons' /\ (dbFailed => dbFailed') /\ blacklist \subseteq blacklist'
  <2>1. /\ UNCHANGED <<blacklist, learning, dbFailed>>
        /\ known' = known \/ (known' = known \cup {m} /\ Text[m] \in blacklist)
    BY <1>6 DEF Submit, tables
  <2> QED
    BY <2>1 DEF KnownInv, Lessons
<1>7. ASSUME NEW m \in Messages, Learner(m)
      PROVE  Lessons' /\ (dbFailed => dbFailed') /\ blacklist \subseteq blacklist'
  <2>1. UNCHANGED known /\ (dbFailed => dbFailed')
    BY <1>7 DEF Learner, LearnSpam, LearnDomains, TextErr, DbErr
  <2>2. \A n \in Messages : <<n, "spam">> \in learning' => <<n, "spam">> \in learning
    BY <1>7 DEF Learner, LearnSpam, LearnDomains
  <2>3. /\ blacklist \subseteq blacklist'
        /\ NoText \notin blacklist'
    <3>1. \/ UNCHANGED blacklist
          \/ blacklist' = blacklist \cup Lesson(m) /\ <<m, "spam">> \in learning
      BY <1>7 DEF Learner, LearnSpam, LearnDomains
    <3> QED
      BY <3>1 DEF KnownInv, Lessons, Lesson
  <2> QED
    BY <2>1, <2>2, <2>3 DEF KnownInv, Lessons
<1>8. CASE ExpireOwner \/ TransferOwner \/ Cancel \/ Exit \/ UNCHANGED vars
  BY <1>1, <1>8 DEF ExpireOwner, TransferOwner, Cancel, Exit, vars, tables, history, series
<1> QED
  BY <1>1, <1>2, <1>3, <1>4, <1>5, <1>6, <1>7, <1>8 DEF Next, Worker, Handler

\* A message that is submitted is in nobody's hands and has no verdict.
LEMMA SubmitOnPath ==
    ASSUME TypeOK, WarnInv, KnownInv, NEW m \in Messages, Submit(m)
    PROVE  KnownHeld'
<1>1. StagesOK /\ ActorsOK /\ known \subseteq Messages /\ None \notin Messages
  BY TypeParts, DispatcherAssumption DEF HistoryOK
<1>2. /\ stage[m] = "new" /\ known' \subseteq known \cup {m}
      /\ UNCHANGED <<actor, dbFailed>>
      /\ stage'[m] \in {"queued", "dropped"}
      /\ \A n \in Messages \ {m} : stage'[n] = stage[n]
  BY <1>1 DEF Submit, StagesOK
<1>3. \A w \in Workers : actor[w].msg # m
  <2> SUFFICES ASSUME NEW w \in Workers, actor[w].msg = m
               PROVE  FALSE
    OBVIOUS
  <2>1. w \in Actors
    BY DEF Actors
  <2>2. Busy(w)
    BY <1>1, <2>1 DEF ActorsOK, ActorStates, Busy, BusySteps
  <2> QED
    BY <1>2, <2>2, Holder
<1> QED
  BY <1>1, <1>2, <1>3 DEF KnownInv, KnownHeld

\* A worker takes a message with a text to the first level.
LEMMA TakeOnPath ==
    ASSUME TypeOK, WarnInv, KnownInv, NEW w \in Workers, Take(w)
    PROVE  KnownHeld'
<1> DEFINE m == Head(queue)
<1>1. /\ StagesOK /\ ActorsOK /\ w \in Actors /\ Workers \subseteq Actors /\ m \in Messages
      /\ known \subseteq Messages
  BY TypeParts DEF Actors, QueueOK, Take, HistoryOK
<1>2. UNCHANGED <<known, dbFailed>>
  BY DEF Take, history, series
<1>3. /\ stage'[m] = "taken"
      /\ \A n \in Messages \ {m} : stage'[n] = stage[n]
  BY <1>1 DEF Take, StagesOK
<1>4. /\ actor'[w].msg = m
      /\ m \in known => actor'[w].step = "known"
      /\ \A v \in Workers \ {w} : actor'[v] = actor[v]
  BY <1>1 DEF Take, ActorsOK, ActorStates, KnownInv, Lessons
<1> QED
  BY <1>1, <1>2, <1>3, <1>4 DEF KnownInv, KnownHeld, KnownPath

\* Every step keeps known messages on the path to ban().
LEMMA KnownInvStep == TypeOK /\ WarnInv /\ KnownInv /\ [Next]_vars => KnownInv'
<1> SUFFICES ASSUME TypeOK, WarnInv, KnownInv, [Next]_vars
             PROVE  KnownInv'
  OBVIOUS
<1>1. Lessons' /\ (dbFailed => dbFailed')
  BY LessonsKept
<1>2. /\ Workers \subseteq Actors /\ Handlers \subseteq Actors /\ Workers \cap Handlers = {}
      /\ ActorsOK
  BY TypeParts, DispatcherAssumption DEF Actors
<1>3. ASSUME NEW w \in Workers, Worker(w)
      PROVE  KnownHeld'
  <2>1. CASE Take(w)
    BY <2>1, TakeOnPath
  <2>2. CASE BanSteps(w)
    <3>1. UNCHANGED known
      BY <2>2 DEF BanSteps, BanDelete, OwnerLook, OwnerFetch, OwnerStore, Ban, BanNotice, Spawn,
                  history, series
    <3> QED
      BY <1>1, <1>2, <2>2, <3>1, BanOnPath, PathKeeps
  <2>3. CASE Throttled(w)
    <3>1. Careful(w) /\ UNCHANGED <<known, stage>> /\ actor'[w].step = actor[w].step
      BY <1>2, <2>3, IdleCareful DEF Throttled, history, series, ActorsOK, ActorStates
    <3>2. actor[w].msg \in known /\ ~dbFailed' => OnPath(w)
      BY <1>1, <3>1 DEF KnownInv, KnownHeld, OnPath
    <3> QED
      BY <1>1, <1>2, <3>1, <3>2, PathKeeps
  <2>4. CASE Stop(w)
    <3>1. Careful(w) /\ UNCHANGED <<known, stage>> /\ actor[w].step = "idle"
      BY <1>2, <2>4, IdleCareful DEF Stop, At, history, series
    <3>2. actor[w].msg \notin known
      <4>1. actor[w].msg = None
        BY <1>2, <3>1 DEF ActorsOK
      <4> QED
        BY <4>1, TypeParts, DispatcherAssumption DEF HistoryOK
    <3> QED
      BY <1>1, <1>2, <3>1, <3>2, PathKeeps
  <2>5. CASE Level(w) \/ Mild(w)
    <3>1. UNCHANGED known
      BY <2>5, LevelStep, MildStep
    <3>2. Careful(w)
      BY <2>5, LevelCareful
    <3>3. actor[w].msg \in known /\ ~dbFailed' => OnPath(w)
      BY <1>1, <2>5, LevelOnPath DEF KnownInv, KnownHeld
    <3> QED
      BY <1>1, <1>2, <3>1, <3>2, <3>3, PathKeeps
  <2> QED
    BY <1>3, <2>1, <2>2, <2>3, <2>4, <2>5 DEF Worker, WorkerSteps, Level, Mild
<1>4. ASSUME NEW h \in Handlers, Handler(h) \/ \E m \in Messages : BanSpammer(h, m)
      PROVE  KnownHeld'
  <2>1. h \in Actors /\ h \notin Workers
    BY <1>2
  <2>2. CASE BanSteps(h)
    <3>1. UNCHANGED known
      BY <2>2 DEF BanSteps, BanDelete, OwnerLook, OwnerFetch, OwnerStore, Ban, BanNotice, Spawn,
                  history, series
    <3>2. Careful(h)
      BY <2>1, <2>2, BanStepsCareful
    <3> QED
      BY <1>1, <2>1, <3>1, <3>2, PathKeeps
  <2>3. CASE Throttled(h)
    <3>1. Careful(h) /\ UNCHANGED known
      BY <2>1, <2>3, IdleCareful DEF Throttled, history, series
    <3> QED
      BY <1>1, <2>1, <3>1, PathKeeps
  <2>4. ASSUME NEW m \in Messages, BanSpammer(h, m)
        PROVE  KnownHeld'
    <3>1. UNCHANGED <<known, stage>> /\ \A w \in Workers : actor'[w] = actor[w]
      BY <1>2, <2>1, <2>4 DEF BanSpammer, history, series, ActorsOK
    <3> QED
      BY <1>1, <3>1 DEF KnownInv, KnownHeld
  <2> QED
    BY <1>4, <2>2, <2>3, <2>4 DEF Handler
<1>5. ASSUME NEW m \in Messages, Submit(m)
      PROVE  KnownHeld'
  BY <1>5, SubmitOnPath
<1>6. CASE \/ \E m \in Messages : Learner(m)
           \/ ExpireOwner \/ TransferOwner \/ Cancel \/ Exit \/ UNCHANGED vars
  <2>1. UNCHANGED <<known, stage, actor>>
    BY <1>6 DEF Learner, LearnSpam, LearnDomains, ExpireOwner, TransferOwner, Cancel, Exit, vars,
                history, series
  <2> QED
    BY <1>1, <2>1 DEF KnownInv, KnownHeld
<1> QED
  BY <1>1, <1>3, <1>4, <1>5, <1>6 DEF Next, KnownInv

\* A message whose text was on the blacklist when it came goes to ban(), and no
\* other level lets it pass before, as long as the database answers: however
\* the workers interleave, and whatever else is learned meanwhile.
THEOREM KnownJudged == Spec => []KnownNotSpared
<1>1. Init => KnownInv
  <2> SUFFICES ASSUME Init
               PROVE  KnownInv
    OBVIOUS
  <2>1. known = {} /\ blacklist = {} /\ learning = {}
    BY DEF Init
  <2> QED
    BY <2>1 DEF KnownInv, KnownHeld, Lessons
<1>2. Spec => []KnownInv
  BY <1>1, KnownInvStep, TypeCorrect, WarnInvariance, PTL DEF Spec
<1>3. KnownInv => KnownNotSpared
  BY DEF KnownInv, KnownHeld, KnownNotSpared
<1> QED
  BY <1>2, <1>3, PTL
=============================================================================
