--------------------------- MODULE CaptchaProofs ---------------------------
(***************************************************************************)
(* Safety of the captcha for every set of users and joins and every number *)
(* of concurrent press handlers, failures and restarts.  The inductive     *)
(* invariant adds that an entry of pending belongs to the user it is filed *)
(* under and that Track starts the timer before it files the entry.  The   *)
(* last part is about the messages of newcomers (CaptchaGate).             *)
(***************************************************************************)
EXTENDS CaptchaGate, CaptchaRefinement, TLAPS

\* pending[u] is a challenge of u whose Track has returned.
OwnEntry ==
    \A u \in Users :
        pending[u] # None => who[pending[u]] = u /\ handler[pending[u]] = "done"

\* Between the two halves of Track the timer is already running.
ArmedFirst == \A j \in Joins : handler[j] = "insert" => timer[j] = "running"

IInv == TypeOK /\ OwnEntry /\ ArmedFirst /\ OpenHasTimer /\ OneOutcome

-----------------------------------------------------------------------------
\* The steps that change neither pending nor the counters, and move no timer
\* that an open challenge relies on.
LEMMA QuietStep ==
    ASSUME IInv, TypeOK', UNCHANGED <<who, pending, tracked, passed, kicked>>,
           \A j \in Joins : handler'[j] = "insert" => timer'[j] = "running",
           \A j \in Joins : handler[j] = "done" => handler'[j] = "done",
           \A j \in Joins : timer[j] \in {"running", "fired"} => timer'[j] \in {"running", "fired"}
    PROVE  IInv'
<1>1. OwnEntry' /\ ArmedFirst'
  BY DEF IInv, OwnEntry, ArmedFirst, TypeOK
<1>2. OpenHasTimer'
  BY DEF IInv, OpenHasTimer, TypeOK
<1>3. OneOutcome'
  BY DEF IInv, OneOutcome, Open
<1> QED
  BY <1>1, <1>2, <1>3 DEF IInv

\* The first half of a join: mute, send the challenge, start the timer.
LEMMA JoinStep ==
    ASSUME IInv, NEW j \in Joins, Join(j) \/ Restrict(j) \/ SendChallenge(j) \/ TrackArm(j)
    PROVE  IInv'
<1> USE DEF HandlerSteps, TimerSteps, PressSteps, chatVars, history, botVars, Failed, Succeeded
<1>1. CASE Join(j)
  <2>1. TypeOK'
    BY <1>1 DEF Join, IInv, TypeOK
  <2>2. \A i \in Joins :
           /\ handler'[i] = "insert" => timer'[i] = "running"
           /\ handler[i] = "done" => handler'[i] = "done"
    BY <1>1 DEF Join, IInv, ArmedFirst, TypeOK
  <2> QED
    BY <1>1, <2>1, <2>2, QuietStep DEF Join
<1>2. CASE Restrict(j)
  <2>1. TypeOK'
    <3>1. failures' \in Nat
      BY <1>2 DEF Restrict, IInv, TypeOK
    <3>2. muted' \in [Users -> BOOLEAN] /\ handler' \in [Joins -> HandlerSteps]
      BY <1>2 DEF Restrict, IInv, TypeOK
    <3> QED
      BY <1>2, <3>1, <3>2 DEF Restrict, IInv, TypeOK
  <2>2. \A i \in Joins :
           /\ handler'[i] = "insert" => timer'[i] = "running"
           /\ handler[i] = "done" => handler'[i] = "done"
    BY <1>2 DEF Restrict, IInv, ArmedFirst, TypeOK
  <2> QED
    BY <1>2, <2>1, <2>2, QuietStep DEF Restrict
<1>3. CASE SendChallenge(j)
  <2>1. TypeOK'
    BY <1>3 DEF SendChallenge, IInv, TypeOK
  <2>2. \A i \in Joins :
           /\ handler'[i] = "insert" => timer'[i] = "running"
           /\ handler[i] = "done" => handler'[i] = "done"
    BY <1>3 DEF SendChallenge, IInv, ArmedFirst, TypeOK
  <2> QED
    BY <1>3, <2>1, <2>2, QuietStep DEF SendChallenge
<1>4. CASE TrackArm(j)
  <2>1. TypeOK'
    BY <1>4 DEF TrackArm, IInv, TypeOK
  <2>2. \A i \in Joins :
           /\ handler'[i] = "insert" => timer'[i] = "running"
           /\ handler[i] = "done" => handler'[i] = "done"
    BY <1>4 DEF TrackArm, IInv, ArmedFirst, TypeOK
  <2>3. \A i \in Joins : timer[i] \in {"running", "fired"} => timer'[i] \in {"running", "fired"}
    BY <1>4 DEF TrackArm, IInv, TypeOK
  <2> QED
    BY <1>4, <2>1, <2>2, <2>3, QuietStep DEF TrackArm
<1> QED
  BY <1>1, <1>2, <1>3, <1>4

\* Filing the entry opens a challenge: the count of challenges grows with it.
LEMMA InsertStep ==
    ASSUME IInv, NEW j \in Joins, TrackInsert(j), NEW u \in Users, u = who[j]
    PROVE  IInv'
<1> USE DEF HandlerSteps, TimerSteps, PressSteps, chatVars
<1>1. TypeOK'
  BY DEF TrackInsert, IInv, TypeOK
<1>2. /\ pending' = [pending EXCEPT ![u] = j]
      /\ tracked' = [tracked EXCEPT ![u] = @ + 1]
      /\ handler' = [handler EXCEPT ![j] = "done"]
      /\ UNCHANGED <<who, timer, passed, kicked>>
      /\ timer[j] = "running"
  BY DEF TrackInsert, IInv, ArmedFirst
<1>3. OwnEntry'
  BY <1>2 DEF IInv, OwnEntry, TypeOK
<1>4. ArmedFirst'
  BY DEF TrackInsert, IInv, ArmedFirst, TypeOK
<1>5. OpenHasTimer'
  BY <1>2 DEF IInv, OpenHasTimer, TypeOK
<1>6. OneOutcome'
  <2> SUFFICES ASSUME NEW v \in Users
               PROVE  passed'[v] + kicked'[v] + Open(v)' <= tracked'[v]
    BY DEF OneOutcome
  <2>1. passed[v] + kicked[v] + Open(v) <= tracked[v]
    BY DEF IInv, OneOutcome
  <2>2. passed[v] \in Nat /\ kicked[v] \in Nat /\ tracked[v] \in Nat
    BY DEF IInv, TypeOK
  <2>3. Open(v) \in {0, 1} /\ Open(v)' \in {0, 1}
    BY DEF Open
  <2>4. CASE v = u
    BY <1>2, <2>1, <2>2, <2>3, <2>4 DEF IInv, TypeOK
  <2>5. CASE v # u
    BY <1>2, <2>1, <2>5 DEF Open, IInv, TypeOK
  <2> QED
    BY <2>4, <2>5
<1> QED
  BY <1>1, <1>3, <1>4, <1>5, <1>6 DEF IInv

\* Taking the entry out of pending pays for one outcome.
LEMMA TakeEntry ==
    ASSUME IInv, NEW u \in Users, pending[u] # None,
           pending' = [pending EXCEPT ![u] = None], tracked' = tracked,
           \/ passed' = [passed EXCEPT ![u] = @ + 1] /\ kicked' = kicked
           \/ kicked' = [kicked EXCEPT ![u] = @ + 1] /\ passed' = passed
    PROVE  OneOutcome'
<1> SUFFICES ASSUME NEW v \in Users
             PROVE  passed'[v] + kicked'[v] + Open(v)' <= tracked'[v]
  BY DEF OneOutcome
<1>1. passed[v] + kicked[v] + Open(v) <= tracked[v]
  BY DEF IInv, OneOutcome
<1>2. passed[v] \in Nat /\ kicked[v] \in Nat /\ tracked[v] \in Nat
  BY DEF IInv, TypeOK
<1>3. CASE v = u
  <2>1. Open(v) = 1 /\ Open(v)' = 0
    BY <1>3 DEF Open, IInv, TypeOK
  <2>2. passed'[v] + kicked'[v] = passed[v] + kicked[v] + 1
    BY <1>2, <1>3 DEF IInv, TypeOK
  <2> QED
    BY <1>1, <1>2, <2>1, <2>2
<1>4. CASE v # u
  BY <1>1, <1>4 DEF Open, IInv, TypeOK
<1> QED
  BY <1>3, <1>4

\* The callback of a timer: it kicks only if it took an entry.
LEMMA TimeoutStep ==
    ASSUME IInv, NEW j \in Joins, Timeout(j), NEW u \in Users, u = who[j]
    PROVE  IInv'
<1> USE DEF HandlerSteps, TimerSteps, PressSteps, chatVars, StillPending
<1>1. timer[j] = "fired" /\ UNCHANGED <<handler, who, tracked, passed>>
  BY DEF Timeout
<1>2. CASE pending[u] # None
  <2>1. /\ kicked' = [kicked EXCEPT ![u] = @ + 1]
        /\ endedBy' = [endedBy EXCEPT ![pending[u]] = j]
        /\ pending' = [pending EXCEPT ![u] = None]
        /\ timer' = [timer EXCEPT ![j] = "ban"]
    BY <1>2 DEF Timeout
  <2>2. TypeOK'
    BY <2>1 DEF Timeout, IInv, TypeOK
  <2>3. OwnEntry'
    BY <1>1, <2>1 DEF IInv, OwnEntry, TypeOK
  <2>4. ArmedFirst'
    BY <1>1, <2>1 DEF IInv, ArmedFirst, TypeOK
  <2>5. OpenHasTimer'
    BY <1>1, <2>1 DEF IInv, OpenHasTimer, OwnEntry, TypeOK
  <2>6. OneOutcome'
    BY <1>1, <1>2, <2>1, TakeEntry
  <2> QED
    BY <2>2, <2>3, <2>4, <2>5, <2>6 DEF IInv
<1>3. CASE pending[u] = None
  <2>1. timer' = [timer EXCEPT ![j] = "over"] /\ UNCHANGED <<kicked, endedBy, pending>>
    BY <1>3 DEF Timeout
  <2>2. TypeOK'
    BY <2>1 DEF Timeout, IInv, TypeOK
  <2>3. OwnEntry' /\ OneOutcome'
    BY <1>1, <2>1 DEF IInv, OwnEntry, OneOutcome, Open
  <2>4. ArmedFirst'
    BY <1>1, <2>1 DEF IInv, ArmedFirst, TypeOK
  <2>5. OpenHasTimer'
    BY <1>1, <1>3, <2>1 DEF IInv, OpenHasTimer, OwnEntry, TypeOK
  <2> QED
    BY <2>2, <2>3, <2>4, <2>5 DEF IInv
<1> QED
  BY <1>2, <1>3

\* Resolve: it passes only if it took an entry, and then stops its timer.
LEMMA ResolveStep ==
    ASSUME IInv, NEW p \in Presses, Resolve(p), NEW u \in Users, u = press[p].user
    PROVE  IInv'
<1> USE DEF HandlerSteps, TimerSteps, PressSteps, chatVars
<1>1. UNCHANGED <<handler, who, tracked, kicked>>
  BY DEF Resolve
<1>2. CASE pending[u] # None
  <2> DEFINE j == pending[u]
  <2>1. /\ timer' = [timer EXCEPT ![j] = IF @ = "running" THEN "stopped" ELSE @]
        /\ pending' = [pending EXCEPT ![u] = None]
        /\ passed' = [passed EXCEPT ![u] = @ + 1]
        /\ press' = [press EXCEPT ![p].step = "unmute", ![p].msg = j]
    BY <1>2 DEF Resolve
  <2>2. j \in Joins /\ handler[j] = "done"
    BY <1>2 DEF IInv, TypeOK, OwnEntry
  <2>3. TypeOK'
    BY <2>1, <2>2 DEF Resolve, IInv, TypeOK
  <2>4. OwnEntry'
    BY <1>1, <2>1 DEF IInv, OwnEntry, TypeOK
  <2>5. ArmedFirst'
    <3> SUFFICES ASSUME NEW i \in Joins, handler[i] = "insert"
                 PROVE  timer'[i] = "running"
      BY <1>1 DEF ArmedFirst
    <3>1. timer[i] = "running"
      BY DEF IInv, ArmedFirst
    <3> QED
      BY <2>1, <2>2, <3>1 DEF IInv, TypeOK
  <2>6. OpenHasTimer'
    BY <1>1, <2>1 DEF IInv, OpenHasTimer, OwnEntry, TypeOK
  <2>7. OneOutcome'
    BY <1>1, <1>2, <2>1, TakeEntry
  <2> QED
    BY <2>3, <2>4, <2>5, <2>6, <2>7 DEF IInv
<1>3. CASE pending[u] = None
  <2>1. press' = [press EXCEPT ![p].step = "idle"] /\ UNCHANGED <<timer, pending, passed>>
    BY <1>3 DEF Resolve
  <2>2. TypeOK'
    BY <2>1 DEF Resolve, IInv, TypeOK
  <2> QED
    BY <1>1, <2>1, <2>2, QuietStep DEF IInv, ArmedFirst
<1> QED
  BY <1>2, <1>3

\* The remaining steps touch neither pending nor the counters.
LEMMA TimerStep ==
    ASSUME IInv, NEW j \in Joins, Fire(j) \/ KickBan(j) \/ KickUnban(j) \/ KickDelete(j)
    PROVE  IInv'
<1> USE DEF HandlerSteps, TimerSteps, PressSteps, chatVars, history, botVars, Failed, Succeeded
<1>1. UNCHANGED <<who, handler, pending, tracked, passed, kicked>>
  BY DEF Fire, KickBan, KickUnban, KickDelete
<1>2. TypeOK'
  <2>1. CASE Fire(j)
    BY <2>1 DEF Fire, IInv, TypeOK
  <2>2. CASE KickBan(j)
    <3>1. failures' \in Nat /\ timer' \in [Joins -> TimerSteps]
      BY <2>2 DEF KickBan, IInv, TypeOK
    <3>2. muted' \in [Users -> BOOLEAN] /\ chat' \in [Users -> {"in", "out", "banned"}]
      BY <2>2 DEF KickBan, IInv, TypeOK
    <3> QED
      BY <2>2, <3>1, <3>2 DEF KickBan, IInv, TypeOK
  <2>3. CASE KickUnban(j)
    <3>1. failures' \in Nat /\ timer' \in [Joins -> TimerSteps]
      BY <2>3 DEF KickUnban, IInv, TypeOK
    <3>2. chat' \in [Users -> {"in", "out", "banned"}]
      BY <2>3 DEF KickUnban, IInv, TypeOK
    <3> QED
      BY <2>3, <3>1, <3>2 DEF KickUnban, IInv, TypeOK
  <2>4. CASE KickDelete(j)
    BY <2>4 DEF KickDelete, IInv, TypeOK
  <2> QED
    BY <2>1, <2>2, <2>3, <2>4
<1>3. \A i \in Joins :
         /\ timer[i] \in {"running", "fired"} => timer'[i] \in {"running", "fired"}
         /\ handler[i] = "insert" => timer'[i] = timer[i]
  <2>1. CASE Fire(j)
    BY <2>1 DEF Fire, IInv, TypeOK
  <2>2. CASE ~Fire(j)
    <3>1. /\ timer[j] \in {"ban", "unban", "delete"}
          /\ \A i \in Joins \ {j} : timer'[i] = timer[i]
      BY <2>2 DEF KickBan, KickUnban, KickDelete, IInv, TypeOK
    <3> QED
      BY <3>1 DEF IInv, ArmedFirst
  <2> QED
    BY <2>1, <2>2
<1> QED
  BY <1>1, <1>2, <1>3, QuietStep DEF IInv, ArmedFirst

\* The steps of a press outside Resolve leave challenges and timers alone.
LEMMA PressStep ==
    ASSUME IInv, NEW p \in Presses,
           \/ \E j \in Joins : Press(p, j)
           \/ Unmute(p)
           \/ DeleteChallenge(p)
    PROVE  IInv'
<1> USE DEF HandlerSteps, TimerSteps, PressSteps, chatVars, history, botVars, Failed, Succeeded
<1>1. UNCHANGED <<who, handler, timer, pending, tracked, passed, kicked>>
  BY DEF Press, Unmute, DeleteChallenge
<1>2. TypeOK'
  <2>1. ASSUME NEW j \in Joins, Press(p, j)
        PROVE  TypeOK'
    <3>1. press' \in [Presses -> [step : PressSteps, user : Users, msg : Joins \cup {None}]]
      BY <2>1 DEF Press, CallbackUser, IInv, TypeOK
    <3> QED
      BY <2>1, <3>1 DEF Press, IInv, TypeOK
  <2>2. CASE Unmute(p)
    <3>1. failures' \in Nat
      BY <2>2 DEF Unmute, IInv, TypeOK
    <3>2. muted' = muted \/ muted' = [muted EXCEPT ![press[p].user] = FALSE]
      BY <2>2 DEF Unmute
    <3>3. muted' \in [Users -> BOOLEAN]
      BY <3>2 DEF IInv, TypeOK
    <3>4. press' \in [Presses -> [step : PressSteps, user : Users, msg : Joins \cup {None}]]
      BY <2>2 DEF Unmute, IInv, TypeOK
    <3> QED
      BY <2>2, <3>1, <3>3, <3>4 DEF Unmute, IInv, TypeOK
  <2>3. CASE DeleteChallenge(p)
    <3>1. failures' \in Nat /\ posted' \subseteq Joins
      BY <2>3 DEF DeleteChallenge, IInv, TypeOK
    <3>2. press' \in [Presses -> [step : PressSteps, user : Users, msg : Joins \cup {None}]]
      BY <2>3 DEF DeleteChallenge, IInv, TypeOK
    <3> QED
      BY <2>3, <3>1, <3>2 DEF DeleteChallenge, IInv, TypeOK
  <2> QED
    BY <2>1, <2>2, <2>3
<1> QED
  BY <1>1, <1>2, QuietStep DEF IInv, ArmedFirst

\* A restart empties pending: what was open stays without an outcome.
LEMMA RestartStep ==
    ASSUME IInv, Restart
    PROVE  IInv'
<1> USE DEF HandlerSteps, TimerSteps, PressSteps, chatVars, history
<1>1. \A u \in Users : pending'[u] = None
  BY DEF Restart
<1>2. TypeOK'
  <2>1. press' \in [Presses -> [step : PressSteps, user : Users, msg : Joins \cup {None}]]
    <3>1. press' = [p \in Presses |-> [press[p] EXCEPT !.step = "idle"]]
      BY DEF Restart
    <3>2. \A p \in Presses : press[p] \in [step : PressSteps, user : Users, msg : Joins \cup {None}]
      BY DEF IInv, TypeOK
    <3> QED
      BY <3>1, <3>2
  <2> QED
    BY <2>1 DEF Restart, IInv, TypeOK
<1>3. OwnEntry' /\ OpenHasTimer'
  BY <1>1 DEF OwnEntry, OpenHasTimer
<1>4. ArmedFirst'
  BY DEF Restart, ArmedFirst
<1>5. OneOutcome'
  <2> SUFFICES ASSUME NEW u \in Users
               PROVE  passed'[u] + kicked'[u] + Open(u)' <= tracked'[u]
    BY DEF OneOutcome
  <2>1. passed[u] + kicked[u] + Open(u) <= tracked[u]
    BY DEF IInv, OneOutcome
  <2>2. passed[u] \in Nat /\ kicked[u] \in Nat /\ tracked[u] \in Nat
    BY DEF IInv, TypeOK
  <2>3. Open(u)' = 0 /\ Open(u) \in {0, 1}
    BY <1>1 DEF Open
  <2>4. passed'[u] = passed[u] /\ kicked'[u] = kicked[u] /\ tracked'[u] = tracked[u]
    BY DEF Restart
  <2> QED
    BY <2>1, <2>2, <2>3, <2>4
<1> QED
  BY <1>2, <1>3, <1>4, <1>5 DEF IInv

\* Initially there is no challenge.
LEMMA InitInvariant == Init => IInv
<1> SUFFICES ASSUME Init
             PROVE  IInv
  OBVIOUS
<1>1. TypeOK
  <2>1. press \in [Presses -> [step : PressSteps, user : Users, msg : Joins \cup {None}]]
    BY DEF Init, PressSteps
  <2> QED
    BY <2>1 DEF Init, TypeOK, HandlerSteps, TimerSteps
<1>2. OwnEntry /\ ArmedFirst /\ OpenHasTimer
  BY DEF Init, OwnEntry, ArmedFirst, OpenHasTimer
<1>3. OneOutcome
  BY DEF Init, OneOutcome, Open
<1> QED
  BY <1>1, <1>2, <1>3 DEF IInv

\* Every step of the captcha keeps the invariant.
LEMMA NextInvariant == IInv /\ [Next]_vars => IInv'
<1> SUFFICES ASSUME IInv, [Next]_vars
             PROVE  IInv'
  OBVIOUS
<1>1. ASSUME NEW j \in Joins, Join(j) \/ JoinHandler(j)
      PROVE  IInv'
  <2>1. who[j] \in Users
    BY DEF IInv, TypeOK
  <2> QED
    BY <1>1, <2>1, JoinStep, InsertStep DEF JoinHandler
<1>2. ASSUME NEW j \in Joins, TimerGoroutine(j)
      PROVE  IInv'
  <2>1. who[j] \in Users
    BY DEF IInv, TypeOK
  <2> QED
    BY <1>2, <2>1, TimerStep, TimeoutStep DEF TimerGoroutine
<1>3. ASSUME NEW u \in Users, Leave(u)
      PROVE  IInv'
  <2>1. TypeOK'
    BY <1>3 DEF Leave, botVars, history, IInv, TypeOK
  <2> QED
    BY <1>3, <2>1, QuietStep DEF Leave, botVars, history, IInv, ArmedFirst
<1>4. ASSUME NEW p \in Presses, PressHandler(p) \/ \E j \in Joins : Press(p, j)
      PROVE  IInv'
  <2>1. press[p].user \in Users
    BY DEF IInv, TypeOK
  <2> QED
    BY <1>4, <2>1, PressStep, ResolveStep DEF PressHandler
<1>5. CASE Restart
  BY <1>5, RestartStep
<1>6. CASE UNCHANGED vars
  <2>1. TypeOK'
    BY <1>6 DEF vars, botVars, chatVars, history, IInv, TypeOK
  <2> QED
    BY <1>6, <2>1, QuietStep DEF vars, botVars, chatVars, history, IInv, ArmedFirst
<1> QED
  BY <1>1, <1>2, <1>3, <1>4, <1>5, <1>6 DEF Next

-----------------------------------------------------------------------------
\* A challenge that Track has not seen yet has no timer.
Unarmed ==
    \A j \in Joins :
        handler[j] \in {"unused", "restrict", "send", "arm"} => timer[j] = "off"

\* A timer is started by Track alone.
LEMMA UnarmedStep ==
    ASSUME IInv, Unarmed, [Next]_vars
    PROVE  Unarmed'
<1> SUFFICES ASSUME NEW i \in Joins, handler'[i] \in {"unused", "restrict", "send", "arm"}
             PROVE  timer'[i] = "off"
  BY DEF Unarmed
<1>1. ASSUME NEW j \in Joins, Join(j) \/ Restrict(j) \/ SendChallenge(j) \/ TrackArm(j) \/ TrackInsert(j)
      PROVE  timer'[i] = "off"
  BY <1>1 DEF Join, Restrict, SendChallenge, TrackArm, TrackInsert, Unarmed, IInv, TypeOK
<1>2. ASSUME NEW j \in Joins, Fire(j) \/ Timeout(j) \/ KickBan(j) \/ KickUnban(j) \/ KickDelete(j)
      PROVE  timer'[i] = "off"
  BY <1>2 DEF Fire, Timeout, KickBan, KickUnban, KickDelete, Unarmed, IInv, TypeOK
<1>3. ASSUME NEW u \in Users, Leave(u)
      PROVE  timer'[i] = "off"
  BY <1>3 DEF Leave, botVars, Unarmed
<1>4. ASSUME NEW p \in Presses, PressHandler(p) \/ \E j \in Joins : Press(p, j)
      PROVE  timer'[i] = "off"
  <2>1. handler' = handler /\ timer[i] = "off"
    BY <1>4 DEF PressHandler, Press, Resolve, Unmute, DeleteChallenge, Unarmed
  <2>2. CASE Resolve(p)
    <3>1. press[p].user \in Users
      BY DEF IInv, TypeOK
    <3> QED
      BY <2>1, <2>2, <3>1 DEF Resolve, IInv, TypeOK, OpenHasTimer
  <2> QED
    BY <1>4, <2>1, <2>2 DEF PressHandler, Press, Unmute, DeleteChallenge
<1>5. CASE Restart
  BY <1>5 DEF Restart, Unarmed, IInv, TypeOK
<1>6. CASE UNCHANGED vars
  BY <1>6 DEF vars, botVars, Unarmed
<1> QED
  BY <1>1, <1>2, <1>3, <1>4, <1>5, <1>6 DEF Next, JoinHandler, TimerGoroutine

\* A step after which neither a failure nor a restart has happened is none
\* itself.
LEMMA StillFailureFree ==
    ASSUME IInv, [Next]_vars, failures' = 0, restarts' = 0
    PROVE  failures = 0 /\ restarts = 0 /\ ~Restart /\ ~Failed
<1>1. failures \in Nat /\ restarts \in Nat
  BY DEF IInv, TypeOK
<1>2. ~Failed /\ ~Restart
  BY <1>1 DEF Failed, Restart
<1>3. failures' = failures /\ restarts' = restarts
  <2>1. ASSUME NEW j \in Joins, Join(j) \/ JoinHandler(j)
        PROVE  failures' = failures /\ restarts' = restarts
    BY <1>2, <2>1 DEF Join, JoinHandler, Restrict, SendChallenge, TrackArm, TrackInsert, Succeeded
  <2>2. ASSUME NEW j \in Joins, TimerGoroutine(j)
        PROVE  failures' = failures /\ restarts' = restarts
    BY <1>2, <2>2 DEF TimerGoroutine, Fire, Timeout, KickBan, KickUnban, KickDelete, Succeeded
  <2>3. ASSUME NEW u \in Users, Leave(u)
        PROVE  failures' = failures /\ restarts' = restarts
    BY <2>3 DEF Leave
  <2>4. ASSUME NEW p \in Presses, PressHandler(p) \/ \E j \in Joins : Press(p, j)
        PROVE  failures' = failures /\ restarts' = restarts
    BY <1>2, <2>4 DEF PressHandler, Press, Resolve, Unmute, DeleteChallenge, Succeeded
  <2>5. CASE UNCHANGED vars
    BY <2>5 DEF vars
  <2> QED
    BY <1>2, <2>1, <2>2, <2>3, <2>4, <2>5 DEF Next
<1> QED
  BY <1>2, <1>3

\* The ban of a kick is followed by its unban.
LEMMA KickStep ==
    ASSUME IInv, Unarmed, KickIsNoBan, [Next]_vars
    PROVE  KickIsNoBan'
<1> SUFFICES ASSUME failures' = 0, restarts' = 0, NEW u \in Users, chat'[u] = "banned"
             PROVE  \E j \in Joins : who'[j] = u /\ timer'[j] = "unban"
  BY DEF KickIsNoBan, BannedInPassing
<1>1. failures = 0 /\ restarts = 0 /\ ~Restart /\ ~Failed
  BY StillFailureFree
<1>2. chat[u] = "banned" => \E j \in Joins : who[j] = u /\ timer[j] = "unban"
  BY <1>1 DEF KickIsNoBan, BannedInPassing
<1>3. ASSUME who' = who, chat'[u] = "banned" => chat[u] = "banned",
             \A j \in Joins : timer[j] = "unban" => timer'[j] = "unban"
      PROVE  \E j \in Joins : who'[j] = u /\ timer'[j] = "unban"
  BY <1>2, <1>3
<1>4. ASSUME NEW j \in Joins, Join(j) \/ JoinHandler(j)
      PROVE  \E i \in Joins : who'[i] = u /\ timer'[i] = "unban"
  <2>1. who' = who /\ (chat'[u] = "banned" => chat[u] = "banned")
    BY <1>4 DEF Join, JoinHandler, Restrict, SendChallenge, TrackArm, TrackInsert, chatVars, IInv, TypeOK
  <2>2. \A i \in Joins : timer[i] = "unban" => timer'[i] = "unban"
    <3>1. CASE TrackArm(j)
      BY <3>1 DEF TrackArm, Unarmed, IInv, TypeOK
    <3>2. CASE ~TrackArm(j)
      BY <1>4, <3>2 DEF Join, JoinHandler, Restrict, SendChallenge, TrackInsert
    <3> QED
      BY <3>1, <3>2
  <2> QED
    BY <1>3, <2>1, <2>2
<1>5. ASSUME NEW j \in Joins, TimerGoroutine(j)
      PROVE  \E i \in Joins : who'[i] = u /\ timer'[i] = "unban"
  <2>1. CASE KickBan(j)
    <3>1. /\ who' = who
          /\ chat' = [chat EXCEPT ![who[j]] = "banned"]
          /\ timer' = [timer EXCEPT ![j] = "unban"]
      BY <1>1, <2>1 DEF KickBan
    <3>2. CASE who[j] = u
      BY <3>1, <3>2 DEF IInv, TypeOK
    <3>3. CASE who[j] # u
      BY <1>2, <3>1, <3>3 DEF IInv, TypeOK
    <3> QED
      BY <3>2, <3>3
  <2>2. CASE KickUnban(j)
    <3>1. /\ who' = who
          /\ chat' = [chat EXCEPT ![who[j]] = IF @ = "banned" THEN "out" ELSE @]
          /\ timer' = [timer EXCEPT ![j] = "delete"]
      BY <1>1, <2>2 DEF KickUnban
    <3>2. who[j] # u /\ chat[u] = "banned"
      BY <3>1 DEF IInv, TypeOK
    <3> QED
      BY <1>2, <3>1, <3>2 DEF IInv, TypeOK
  <2>3. CASE Fire(j) \/ Timeout(j) \/ KickDelete(j)
    <3>1. who' = who /\ chat' = chat
      BY <2>3 DEF Fire, Timeout, KickDelete, chatVars
    <3>2. \A i \in Joins : timer[i] = "unban" => timer'[i] = "unban"
      BY <2>3 DEF Fire, Timeout, KickDelete, IInv, TypeOK
    <3> QED
      BY <1>3, <3>1, <3>2
  <2> QED
    BY <1>5, <2>1, <2>2, <2>3 DEF TimerGoroutine
<1>6. ASSUME NEW v \in Users, Leave(v)
      PROVE  \E i \in Joins : who'[i] = u /\ timer'[i] = "unban"
  BY <1>3, <1>6 DEF Leave, botVars, IInv, TypeOK
<1>7. ASSUME NEW p \in Presses, PressHandler(p) \/ \E j \in Joins : Press(p, j)
      PROVE  \E i \in Joins : who'[i] = u /\ timer'[i] = "unban"
  <2>1. who' = who /\ chat' = chat
    BY <1>7 DEF PressHandler, Press, Resolve, Unmute, DeleteChallenge, chatVars
  <2>2. \A i \in Joins : timer[i] = "unban" => timer'[i] = "unban"
    BY <1>7 DEF PressHandler, Press, Resolve, Unmute, DeleteChallenge, IInv, TypeOK
  <2> QED
    BY <1>3, <2>1, <2>2
<1>8. CASE UNCHANGED vars
  BY <1>3, <1>8 DEF vars, botVars, chatVars
<1> QED
  BY <1>1, <1>4, <1>5, <1>6, <1>7, <1>8 DEF Next

\* A member who is muted, and in the chat, is somebody's business.
LEMMA CareStep ==
    ASSUME IInv, NoOrphanMute, [Next]_vars
    PROVE  NoOrphanMute'
<1> SUFFICES ASSUME failures' = 0, restarts' = 0, NEW u \in Users, Waiting(u)'
             PROVE  Cared(u)'
  BY DEF NoOrphanMute
<1>1. failures = 0 /\ restarts = 0 /\ ~Restart /\ ~Failed
  BY StillFailureFree
<1>2. Waiting(u) => Cared(u)
  BY <1>1 DEF NoOrphanMute
<1>3. ASSUME NEW j \in Joins, Join(j) \/ JoinHandler(j)
      PROVE  Cared(u)'
  <2>1. CASE who[j] = u
    <3>1. CASE TrackInsert(j)
      BY <2>1, <3>1, CaptchaAssumption DEF TrackInsert, Cared, IInv, TypeOK
    <3>2. CASE ~TrackInsert(j)
      <4>1. who' = who /\ handler'[j] \in {"restrict", "send", "arm", "insert"}
        BY <1>1, <1>3, <3>2 DEF Join, JoinHandler, Restrict, SendChallenge, TrackArm, chatVars, IInv, TypeOK
      <4> QED
        BY <2>1, <4>1 DEF Cared
    <3> QED
      BY <3>1, <3>2
  <2>2. CASE who[j] # u
    <3>1. /\ who' = who /\ press' = press /\ pending'[u] = pending[u]
          /\ \A i \in Joins \ {j} : handler'[i] = handler[i] /\ timer'[i] = timer[i]
      BY <1>3, <2>2 DEF Join, JoinHandler, Restrict, SendChallenge, TrackArm, TrackInsert, chatVars, IInv, TypeOK
    <3>2. Waiting(u)
      BY <1>3, <2>2 DEF Join, JoinHandler, Restrict, SendChallenge, TrackArm, TrackInsert, chatVars, Waiting, IInv, TypeOK
    <3>3. Cared(u)
      BY <1>2, <3>2
    <3> QED
      BY <2>2, <3>1, <3>3 DEF Cared
  <2> QED
    BY <2>1, <2>2
<1>4. ASSUME NEW j \in Joins, TimerGoroutine(j)
      PROVE  Cared(u)'
  <2>1. who' = who /\ handler' = handler /\ press' = press
    BY <1>4 DEF TimerGoroutine, Fire, Timeout, KickBan, KickUnban, KickDelete, chatVars
  <2>2. \A i \in Joins \ {j} : timer'[i] = timer[i]
    BY <1>4 DEF TimerGoroutine, Fire, Timeout, KickBan, KickUnban, KickDelete, IInv, TypeOK
  <2>3. Waiting(u)
    BY <1>1, <1>4 DEF TimerGoroutine, Fire, Timeout, KickBan, KickUnban, KickDelete, chatVars, Waiting, IInv, TypeOK
  <2>4. Cared(u)
    BY <1>2, <2>3
  <2>5. CASE Timeout(j) /\ who[j] = u /\ StillPending(u)
    BY <2>1, <2>5 DEF Timeout, Cared, IInv, TypeOK
  <2>6. CASE KickBan(j)
    <3>1. who[j] # u /\ pending' = pending
      BY <1>1, <2>6 DEF KickBan, Waiting, IInv, TypeOK
    <3> QED
      BY <2>1, <2>2, <2>4, <3>1 DEF Cared
  <2>7. CASE ~(Timeout(j) /\ who[j] = u /\ StillPending(u)) /\ ~KickBan(j)
    <3>1. pending'[u] = pending[u] /\ timer[j] # "ban"
      BY <1>4, <2>7 DEF TimerGoroutine, Fire, Timeout, KickUnban, KickDelete, IInv, TypeOK
    <3> QED
      BY <2>1, <2>2, <2>4, <3>1 DEF Cared
  <2> QED
    BY <2>5, <2>6, <2>7
<1>5. ASSUME NEW v \in Users, Leave(v)
      PROVE  Cared(u)'
  <2>1. Waiting(u) /\ UNCHANGED <<botVars, who>>
    BY <1>5 DEF Leave, Waiting, IInv, TypeOK
  <2> QED
    BY <1>2, <2>1 DEF Cared, botVars
<1>6. ASSUME NEW p \in Presses, PressHandler(p) \/ \E j \in Joins : Press(p, j)
      PROVE  Cared(u)'
  <2>1. /\ who' = who /\ handler' = handler
        /\ \A q \in Presses \ {p} : press'[q] = press[q]
    BY <1>6 DEF PressHandler, Press, Resolve, Unmute, DeleteChallenge, chatVars, IInv, TypeOK
  <2>2. Waiting(u)
    BY <1>1, <1>6 DEF PressHandler, Press, Resolve, Unmute, DeleteChallenge, chatVars, Waiting, IInv, TypeOK
  <2>3. Cared(u)
    BY <1>2, <2>2
  <2>4. \A j \in Joins : timer[j] = "ban" => timer'[j] = "ban"
    BY <1>6 DEF PressHandler, Press, Resolve, Unmute, DeleteChallenge, IInv, TypeOK
  <2>5. CASE Resolve(p) /\ press[p].user = u /\ pending[u] # None
    <3>1. press'[p].step = "unmute" /\ press'[p].user = u
      BY <2>5 DEF Resolve, IInv, TypeOK
    <3> QED
      BY <3>1 DEF Cared
  <2>6. CASE Unmute(p)
    <3>1. press[p].user # u /\ pending' = pending
      BY <1>1, <2>6 DEF Unmute, Waiting, IInv, TypeOK
    <3> QED
      BY <2>1, <2>3, <2>4, <3>1 DEF Cared
  <2>7. CASE ~(Resolve(p) /\ press[p].user = u /\ pending[u] # None) /\ ~Unmute(p)
    <3>1. pending'[u] = pending[u] /\ press[p].step # "unmute"
      BY <1>6, <2>7 DEF PressHandler, Press, Resolve, DeleteChallenge, IInv, TypeOK
    <3> QED
      BY <2>1, <2>3, <2>4, <3>1 DEF Cared
  <2> QED
    BY <2>5, <2>6, <2>7
<1>7. CASE UNCHANGED vars
  BY <1>2, <1>7 DEF vars, botVars, chatVars, Waiting, Cared
<1> QED
  BY <1>1, <1>3, <1>4, <1>5, <1>6, <1>7 DEF Next

-----------------------------------------------------------------------------
\* Every reachable state satisfies the inductive invariant.
THEOREM Invariance == Spec => []IInv
BY InitInvariant, NextInvariant, PTL DEF Spec

\* Type correctness of the captcha.
THEOREM TypeCorrect == Spec => []TypeOK
<1>1. IInv => TypeOK
  BY DEF IInv
<1> QED
  BY <1>1, Invariance, PTL

\* A tracked challenge is passed or kicked at most once, whatever the presses,
\* the timers, new joins of the same user and restarts do.
THEOREM AtMostOneOutcome == Spec => []OneOutcome
<1>1. IInv => OneOutcome
  BY DEF IInv
<1> QED
  BY <1>1, Invariance, PTL

\* Whoever waits for a challenge has a timer that will end the wait.
THEOREM NobodyForgotten == Spec => []OpenHasTimer
<1>1. IInv => OpenHasTimer
  BY DEF IInv
<1> QED
  BY <1>1, Invariance, PTL

\* While calls work, a kick is no ban: whoever is banned is being let in again.
THEOREM KickLetsBackIn == Spec => []KickIsNoBan
<1>1. Init => Unarmed /\ KickIsNoBan
  BY DEF Init, Unarmed, KickIsNoBan, BannedInPassing
<1>2. IInv /\ (Unarmed /\ KickIsNoBan) /\ [Next]_vars => (Unarmed /\ KickIsNoBan)'
  BY UnarmedStep, KickStep
<1> QED
  BY <1>1, <1>2, Invariance, PTL DEF Spec

\* While calls work, a muted member is never forgotten.
THEOREM NobodyLeftMuted == Spec => []NoOrphanMute
<1>1. Init => NoOrphanMute
  BY DEF Init, NoOrphanMute, Waiting
<1>2. IInv /\ NoOrphanMute /\ [Next]_vars => NoOrphanMute'
  BY CareStep
<1> QED
  BY <1>1, <1>2, Invariance, PTL DEF Spec

-----------------------------------------------------------------------------
\* A member settled at the time of a message stays so until he joins again.
Quiet(u) == pending[u] = None /\ ~BeingAsked(u)

GInv ==
    \A m \in Messages :
        /\ since[m] \subseteq JoinsOf(author[m])
        /\ settled[m] /\ JoinsOf(author[m]) \ since[m] = {} =>
              Quiet(author[m]) /\ talk[m] \notin {"delete", "removed", "left"}

\* The gate adds no step to the captcha itself.
LEMMA GateStep == [GNext]_gvars => [Next]_vars
<1> SUFFICES ASSUME [GNext]_gvars
             PROVE  [Next]_vars
  OBVIOUS
<1>1. CASE CaptchaStep
  BY <1>1 DEF CaptchaStep, Next
<1>2. CASE GRestart
  BY <1>2 DEF GRestart, Next
<1>3. ASSUME NEW m \in Messages, Write(m) \/ Look(m) \/ Drop(m)
      PROVE  UNCHANGED vars
  BY <1>3 DEF Write, Look, Drop
<1>4. CASE UNCHANGED gvars
  BY <1>4 DEF gvars
<1> QED
  BY <1>1, <1>2, <1>3, <1>4 DEF GNext

\* The gate keeps the types of its own variables.
LEMMA GateTypes ==
    ASSUME GTypeOK, TypeOK', [GNext]_gvars
    PROVE  GTypeOK'
<1> USE DEF TalkSteps
<1>1. ASSUME NEW m \in Messages, Write(m)
      PROVE  GTypeOK'
  <2>1. since' \in [Messages -> SUBSET Joins]
    BY <1>1 DEF Write, JoinsOf, GTypeOK
  <2>2. settled' \in [Messages -> BOOLEAN]
    BY <1>1, ZenonT(20) DEF Write, GTypeOK
  <2> QED
    BY <1>1, <2>1, <2>2 DEF Write, GTypeOK
<1>2. ASSUME NEW m \in Messages, Look(m) \/ Drop(m)
      PROVE  GTypeOK'
  BY <1>2 DEF Look, Drop, GTypeOK
<1>3. CASE CaptchaStep \/ UNCHANGED gvars
  BY <1>3 DEF CaptchaStep, gvars, gateVars, GTypeOK
<1>4. CASE GRestart
  BY <1>4 DEF GRestart, GTypeOK
<1> QED
  BY <1>1, <1>2, <1>3, <1>4 DEF GNext

\* What the captcha does to a member who is quiet: only a join ends that.
LEMMA StaysQuiet ==
    ASSUME IInv, [Next]_vars, NEW u \in Users
    PROVE  /\ JoinsOf(u) \subseteq JoinsOf(u)'
           /\ Quiet(u) => Quiet(u)' \/ JoinsOf(u)' \ JoinsOf(u) # {}
<1>1. CASE \E j \in Joins : Join(j)
  <2> PICK j \in Joins : Join(j)
    BY <1>1
  <2>1. JoinsOf(u) \subseteq JoinsOf(u)'
    BY DEF Join, JoinsOf, IInv, TypeOK
  <2>2. CASE who[j] = u
    BY <2>1, <2>2 DEF Join, JoinsOf, IInv, TypeOK
  <2>3. CASE who[j] # u
    <3>1. JoinsOf(u)' = JoinsOf(u) /\ pending' = pending
      BY <2>3 DEF Join, JoinsOf, IInv, TypeOK
    <3>2. \A i \in JoinsOf(u) : handler'[i] = handler[i]
      BY <2>3 DEF Join, JoinsOf, IInv, TypeOK
    <3> QED
      BY <3>1, <3>2 DEF Quiet, BeingAsked
  <2> QED
    BY <2>2, <2>3, <2>1
<1>2. ASSUME NEW j \in Joins, JoinHandler(j)
      PROVE  /\ JoinsOf(u) = JoinsOf(u)'
             /\ Quiet(u) => Quiet(u)'
  <2>1. who' = who /\ handler[j] \in {"restrict", "send", "arm", "insert"} /\ handler'[j] # "unused"
    BY <1>2 DEF JoinHandler, Restrict, SendChallenge, TrackArm, TrackInsert, chatVars, IInv, TypeOK
  <2>2. \A i \in Joins \ {j} : handler'[i] = handler[i]
    BY <1>2 DEF JoinHandler, Restrict, SendChallenge, TrackArm, TrackInsert, IInv, TypeOK
  <2>3. JoinsOf(u)' = JoinsOf(u)
    BY <2>1, <2>2 DEF JoinsOf
  <2>4. CASE who[j] = u
    <3>1. BeingAsked(u)
      BY <2>1, <2>4 DEF BeingAsked, JoinsOf
    <3> QED
      BY <2>3, <3>1 DEF Quiet
  <2>5. CASE who[j] # u
    <3>1. pending'[u] = pending[u]
      BY <1>2, <2>5 DEF JoinHandler, Restrict, SendChallenge, TrackArm, TrackInsert, IInv, TypeOK
    <3>2. \A i \in JoinsOf(u) : handler'[i] = handler[i]
      BY <2>2, <2>5 DEF JoinsOf
    <3> QED
      BY <2>3, <3>1, <3>2 DEF Quiet, BeingAsked
  <2> QED
    BY <2>4, <2>5
<1>3. CASE Restart
  <2>1. JoinsOf(u)' = JoinsOf(u)
    BY <1>3 DEF Restart, chatVars, JoinsOf, IInv, TypeOK
  <2>2. Quiet(u)'
    <3>1. \A i \in Joins : handler'[i] \in {"unused", "done"}
      BY <1>3 DEF Restart
    <3>2. pending'[u] = None
      BY <1>3 DEF Restart
    <3> QED
      BY <3>1, <3>2 DEF Quiet, BeingAsked, JoinsOf
  <2> QED
    BY <2>1, <2>2
<1>4. ASSUME UNCHANGED <<who, handler>>, pending[u] = None => pending'[u] = None
      PROVE  /\ JoinsOf(u) = JoinsOf(u)'
             /\ Quiet(u) => Quiet(u)'
  BY <1>4 DEF JoinsOf, Quiet, BeingAsked
<1>5. ASSUME NEW j \in Joins, TimerGoroutine(j)
      PROVE  UNCHANGED <<who, handler>> /\ (pending[u] = None => pending'[u] = None)
  BY <1>5 DEF TimerGoroutine, Fire, Timeout, KickBan, KickUnban, KickDelete, chatVars, IInv, TypeOK
<1>6. ASSUME NEW v \in Users, Leave(v)
      PROVE  UNCHANGED <<who, handler>> /\ (pending[u] = None => pending'[u] = None)
  BY <1>6 DEF Leave, botVars
<1>7. ASSUME NEW p \in Presses, PressHandler(p) \/ \E j \in Joins : Press(p, j)
      PROVE  UNCHANGED <<who, handler>> /\ (pending[u] = None => pending'[u] = None)
  BY <1>7 DEF PressHandler, Press, Resolve, Unmute, DeleteChallenge, chatVars, IInv, TypeOK
<1>8. CASE UNCHANGED vars
  BY <1>4, <1>8 DEF vars, botVars, chatVars
<1> QED
  BY <1>1, <1>2, <1>3, <1>4, <1>5, <1>6, <1>7, <1>8 DEF Next

\* Whoever is settled is not pending when a handler asks.
LEMMA GateInvStep ==
    ASSUME IInv, GTypeOK, GInv, [GNext]_gvars
    PROVE  GInv'
<1>1. [Next]_vars
  BY GateStep
<1>2. author' = author
  BY DEF GNext, CaptchaStep, GRestart, gateVars, gvars, Write, Look, Drop
<1> SUFFICES ASSUME NEW m \in Messages, NEW u \in Users, author[m] = u
             PROVE  /\ since'[m] \subseteq JoinsOf(u)'
                    /\ settled'[m] /\ JoinsOf(u)' \ since'[m] = {} =>
                          Quiet(u)' /\ talk'[m] \notin {"delete", "removed", "left"}
  <2>1. \A m \in Messages : author[m] \in Users
    BY DEF GTypeOK
  <2> QED
    BY <1>2, <2>1 DEF GInv
<1>3. /\ since[m] \subseteq JoinsOf(u)
      /\ settled[m] /\ JoinsOf(u) \ since[m] = {} =>
            Quiet(u) /\ talk[m] \notin {"delete", "removed", "left"}
  BY DEF GInv
<1>4. /\ JoinsOf(u) \subseteq JoinsOf(u)'
      /\ Quiet(u) => Quiet(u)' \/ JoinsOf(u)' \ JoinsOf(u) # {}
  BY <1>1, StaysQuiet
<1>5. CASE /\ since'[m] = since[m] /\ settled'[m] = settled[m]
           /\ talk'[m] \in {"delete", "removed", "left"} => talk[m] \in {"delete", "removed", "left"}
  BY <1>3, <1>4, <1>5
<1>6. CASE Write(m)
  <2>1. JoinsOf(u)' = JoinsOf(u) /\ (Quiet(u)' <=> Quiet(u))
    BY <1>6 DEF Write, vars, botVars, chatVars, JoinsOf, Quiet, BeingAsked
  <2>2. since'[m] = JoinsOf(u) /\ settled'[m] = Quiet(u) /\ talk'[m] = "look"
    BY <1>6 DEF Write, Quiet, GTypeOK
  <2> QED
    BY <2>1, <2>2
<1>7. CASE Look(m)
  <2>1. UNCHANGED <<since, settled>> /\ (talk'[m] = "delete" <=> pending[u] # None)
           /\ talk'[m] \in {"delete", "submitted"}
    BY <1>7 DEF Look, IsPending, GTypeOK
  <2> QED
    BY <1>3, <1>4, <2>1 DEF Quiet
<1>8. ASSUME NEW n \in Messages \ {m}, Write(n) \/ Look(n) \/ Drop(n)
      PROVE  since'[m] = since[m] /\ settled'[m] = settled[m] /\ talk'[m] = talk[m]
  BY <1>8 DEF Write, Look, Drop, GTypeOK
<1>9. CASE Drop(m)
  <2>1. since' = since /\ settled' = settled /\ talk[m] = "delete"
    BY <1>9 DEF Drop
  <2> QED
    BY <1>5, <2>1
<1>10. CASE CaptchaStep \/ UNCHANGED gvars
  BY <1>5, <1>10 DEF CaptchaStep, gvars, gateVars
<1>11. CASE GRestart
  BY <1>5, <1>11 DEF GRestart, GTypeOK
<1> QED
  BY <1>5, <1>6, <1>7, <1>8, <1>9, <1>10, <1>11 DEF GNext

\* With the gate the captcha keeps its own invariant.
LEMMA GateInvariance == GSpec => [](IInv /\ GTypeOK /\ GInv)
<1>1. GInit => IInv /\ GTypeOK /\ GInv
  <2>1. GInit => IInv
    BY InitInvariant DEF GInit
  <2>2. GInit => GTypeOK
    BY <2>1 DEF GInit, GTypeOK, IInv, TalkSteps
  <2>3. GInit => GInv
    BY DEF GInit, GInv
  <2> QED
    BY <2>1, <2>2, <2>3
<1>2. (IInv /\ GTypeOK /\ GInv) /\ [GNext]_gvars => (IInv /\ GTypeOK /\ GInv)'
  <2> SUFFICES ASSUME IInv, GTypeOK, GInv, [GNext]_gvars
               PROVE  (IInv /\ GTypeOK /\ GInv)'
    OBVIOUS
  <2>1. IInv' /\ TypeOK'
    BY GateStep, NextInvariant DEF IInv
  <2> QED
    BY <2>1, GateTypes, GateInvStep
<1> QED
  BY <1>1, <1>2, PTL DEF GSpec

\* Nothing a settled member writes is deleted for the captcha.
THEOREM SettledAreHeard == GSpec => []HeardWhenSettled
<1>1. GInv => HeardWhenSettled
  BY DEF GInv, HeardWhenSettled
<1> QED
  BY <1>1, GateInvariance, PTL

\* Type correctness of the gate.
THEOREM GateTypeCorrect == GSpec => []GTypeOK
BY GateInvariance, PTL

-----------------------------------------------------------------------------
(* The captcha implements Gatekeeping.                                       *)

\* What a step of the mapped join starts from.
Tidy == IInv /\ Unarmed

\* The variables as functions, and the joins whose Track has returned: they
\* alone have a timer that has fired.
LEMMA TidyFacts ==
    ASSUME Tidy
    PROVE  /\ handler \in [Joins -> HandlerSteps] /\ timer \in [Joins -> TimerSteps]
           /\ who \in [Joins -> Users] /\ pending \in [Users -> Joins \cup {None}]
           /\ press \in [Presses -> [step : PressSteps, user : Users, msg : Joins \cup {None}]]
           /\ \A j \in Joins : timer[j] = "fired" => handler[j] = "done"
           /\ \A j \in Joins : handler[j] \in {"restrict", "send"} => timer[j] = "off"
           /\ \A j \in Joins : handler[j] = "insert" => timer[j] = "running"
<1>1. TypeOK /\ ArmedFirst /\ Unarmed
  BY DEF Tidy, IInv
<1>2. \A j \in Joins : handler[j] \in {"unused", "restrict", "send", "arm", "insert", "done"}
  BY <1>1 DEF TypeOK, HandlerSteps
<1> QED
  BY <1>1, <1>2 DEF TypeOK, ArmedFirst, Unarmed

\* The phase of a join changes with its handler and its timer only.
LEMMA SamePhase ==
    ASSUME NEW k \in Joins, handler'[k] = handler[k], timer'[k] = timer[k]
    PROVE  Phase(k)' = Phase(k)
BY DEF Phase

\* One join goes on to another phase.
LEMMA PhaseMoves ==
    ASSUME NEW j \in Joins, NEW from, NEW to, Phase(j) = from, Phase(j)' = to,
           \A k \in Joins \ {j} : Phase(k)' = Phase(k)
    PROVE  Door!Advance(j, from, to)
BY DEF Door!Advance, Phases

\* No join does.
LEMMA PhasesStay ==
    ASSUME \A k \in Joins : Phase(k)' = Phase(k)
    PROVE  Phases' = Phases
BY DEF Phases

\* A timer that starts, fires or is stopped makes nothing due.
LEMMA NothingDue ==
    ASSUME \A k \in Joins : timer'[k] = timer[k] \/ /\ timer[k] \notin {"ban", "unban"}
                                                    /\ timer'[k] \notin {"ban", "unban"}
    PROVE  Due' = Due /\ LetIn' = LetIn
BY DEF Due, LetIn

\* The steps of a join's handler.
LEMMA HandlerImplements ==
    ASSUME Tidy, NEW j \in Joins, Join(j) \/ JoinHandler(j)
    PROVE  Door!Next \/ UNCHANGED Door!vars
<1>1. /\ handler \in [Joins -> HandlerSteps] /\ timer \in [Joins -> TimerSteps]
      /\ who[j] \in Users /\ pending \in [Users -> Joins \cup {None}] /\ j # None
      /\ handler[j] \in {"restrict", "send"} => timer[j] = "off"
      /\ handler[j] = "insert" => timer[j] = "running"
  BY TidyFacts, CaptchaAssumption
<1>2. UNCHANGED <<who, press>> /\ Confirmed' = Confirmed
  BY DEF Join, JoinHandler, Restrict, SendChallenge, TrackArm, TrackInsert, chatVars, Confirmed
<1>3. \A k \in Joins \ {j} : Phase(k)' = Phase(k)
  <2> SUFFICES ASSUME NEW k \in Joins \ {j}
               PROVE  handler'[k] = handler[k] /\ timer'[k] = timer[k]
    BY SamePhase
  <2> QED
    BY <1>1 DEF Join, JoinHandler, Restrict, SendChallenge, TrackArm, TrackInsert
<1>4. CASE Join(j)
  <2>1. Phase(j) = "new" /\ Phase(j)' = "entered"
    BY <1>1, <1>4 DEF Join, Phase
  <2>2. UNCHANGED <<muted, OpenChallenges, Due, LetIn>>
    BY <1>4, NothingDue DEF Join, OpenChallenges
  <2>3. Door!Enter(j)
    BY <1>2, <1>3, <1>4, <2>1, <2>2, PhaseMoves DEF Join, Door!Enter
  <2> QED
    BY <2>3 DEF Door!Next
<1>5. CASE Restrict(j)
  <2>1. UNCHANGED <<chat, OpenChallenges, Due, LetIn>>
    BY <1>5, NothingDue DEF Restrict, OpenChallenges
  <2>2. CASE muted' = [muted EXCEPT ![who[j]] = TRUE] /\ handler' = [handler EXCEPT ![j] = "send"]
    <3>1. Phase(j) = "entered" /\ Phase(j)' = "silenced"
      BY <1>1, <1>5, <2>2 DEF Restrict, Phase
    <3>2. Door!Silence(j)
      BY <1>2, <1>3, <2>1, <2>2, <3>1, PhaseMoves DEF Door!Silence
    <3> QED
      BY <3>2 DEF Door!Next
  <2>3. CASE UNCHANGED muted /\ handler' = [handler EXCEPT ![j] = "done"]
    <3>1. Phase(j) = "entered" /\ Phase(j)' = "over"
      BY <1>1, <1>5, <2>3 DEF Restrict, Phase
    <3>2. Door!Silence(j)
      BY <1>2, <1>3, <2>1, <2>3, <3>1, PhaseMoves DEF Door!Silence
    <3> QED
      BY <3>2 DEF Door!Next
  <2> QED
    BY <1>5, <2>2, <2>3 DEF Restrict
<1>6. CASE SendChallenge(j)
  <2>1. UNCHANGED <<chat, muted, OpenChallenges, Due, LetIn>>
    BY <1>6, NothingDue DEF SendChallenge, OpenChallenges
  <2>2. CASE handler' = [handler EXCEPT ![j] = "arm"]
    <3>1. Phase(j)' = Phase(j)
      BY <1>1, <1>6, <2>2 DEF SendChallenge, Phase
    <3>2. Phases' = Phases
      BY <1>3, <3>1, PhasesStay
    <3> QED
      BY <1>2, <2>1, <3>2 DEF Door!vars
  <2>3. CASE handler' = [handler EXCEPT ![j] = "done"]
    <3>1. Phase(j) = "silenced" /\ Phase(j)' = "over"
      BY <1>1, <1>6, <2>3 DEF SendChallenge, Phase
    <3>2. Door!Challenge(j)
      BY <1>2, <1>3, <2>1, <3>1, PhaseMoves DEF Door!Challenge
    <3> QED
      BY <3>2 DEF Door!Next
  <2> QED
    BY <1>6, <2>2, <2>3 DEF SendChallenge
<1>7. CASE TrackArm(j)
  <2>1. UNCHANGED <<chat, muted, OpenChallenges>>
    BY <1>7 DEF TrackArm, chatVars, OpenChallenges
  <2>2. timer[j] = "off"
    BY <1>7 DEF TrackArm, Tidy, Unarmed
  <2>3. UNCHANGED <<Due, LetIn>>
    BY <1>1, <1>7, <2>2, NothingDue DEF TrackArm
  <2>4. Phase(j)' = Phase(j)
    BY <1>1, <1>7 DEF TrackArm, Phase
  <2>5. Phases' = Phases
    BY <1>3, <2>4, PhasesStay
  <2> QED
    BY <1>2, <2>1, <2>3, <2>5 DEF Door!vars
<1>8. CASE TrackInsert(j)
  <2>1. UNCHANGED <<chat, muted, Due, LetIn>>
    BY <1>8, NothingDue DEF TrackInsert, chatVars
  <2>2. Phase(j) = "silenced" /\ Phase(j)' = "challenged"
    BY <1>1, <1>8 DEF TrackInsert, Phase
  <2>3. OpenChallenges' = [OpenChallenges EXCEPT ![who[j]] = TRUE]
    BY <1>1, <1>8 DEF TrackInsert, OpenChallenges
  <2>4. Door!Challenge(j)
    BY <1>2, <1>3, <2>1, <2>2, <2>3, PhaseMoves DEF Door!Challenge
  <2> QED
    BY <2>4 DEF Door!Next
<1> QED
  BY <1>4, <1>5, <1>6, <1>7, <1>8 DEF JoinHandler

\* The steps of a timer goroutine.
LEMMA TimerImplements ==
    ASSUME Tidy, NEW j \in Joins, TimerGoroutine(j)
    PROVE  Door!Next \/ UNCHANGED Door!vars
<1>1. /\ handler \in [Joins -> HandlerSteps] /\ timer \in [Joins -> TimerSteps]
      /\ who[j] \in Users /\ pending \in [Users -> Joins \cup {None}]
      /\ timer[j] = "fired" => handler[j] = "done"
  BY TidyFacts
<1>2. UNCHANGED <<who, press, handler>> /\ Confirmed' = Confirmed
  BY DEF TimerGoroutine, Fire, Timeout, KickBan, KickUnban, KickDelete, chatVars, Confirmed
<1>3. \A k \in Joins \ {j} : timer'[k] = timer[k]
  BY <1>1 DEF TimerGoroutine, Fire, Timeout, KickBan, KickUnban, KickDelete
<1>4. \A k \in Joins \ {j} : Phase(k)' = Phase(k)
  BY <1>2, <1>3, SamePhase
<1>5. CASE Fire(j)
  <2>1. UNCHANGED <<chat, muted, OpenChallenges>>
    BY <1>5 DEF Fire, chatVars, OpenChallenges
  <2>2. UNCHANGED <<Due, LetIn>>
    BY <1>1, <1>3, <1>5, NothingDue DEF Fire
  <2>3. Phase(j)' = Phase(j)
    BY <1>1, <1>5 DEF Fire, Phase
  <2>4. Phases' = Phases
    BY <1>4, <2>3, PhasesStay
  <2> QED
    BY <1>2, <2>1, <2>2, <2>4 DEF Door!vars
<1>6. CASE Timeout(j)
  <2>1. UNCHANGED <<chat, muted>>
    BY <1>6 DEF Timeout, chatVars
  <2>2. Phase(j) = "challenged" /\ Phase(j)' = "over"
    BY <1>1, <1>6 DEF Timeout, Phase
  <2>3. LetIn' = LetIn
    BY <1>1, <1>3, <1>6 DEF Timeout, LetIn
  <2>4. Due' = IF pending[who[j]] # None THEN Due \cup {j} ELSE Due
    BY <1>1, <1>3, <1>6 DEF Timeout, StillPending, Due
  <2>5. OpenChallenges' = [OpenChallenges EXCEPT ![who[j]] = FALSE]
    BY <1>1, <1>6 DEF Timeout, StillPending, OpenChallenges
  <2>6. OpenChallenges[who[j]] = (pending[who[j]] # None)
    BY <1>1 DEF OpenChallenges
  <2>7. Door!RunOut(j)
    BY <1>2, <1>4, <2>1, <2>2, <2>3, <2>4, <2>5, <2>6, PhaseMoves DEF Door!RunOut
  <2> QED
    BY <2>7 DEF Door!Next
<1>7. ASSUME timer[j] \in {"ban", "unban", "delete"},
             timer'[j] \in {"unban", "delete", "over"}, UNCHANGED pending
      PROVE  UNCHANGED <<Phases, OpenChallenges>>
  <2>1. Phase(j)' = Phase(j)
    BY <1>1, <1>2, <1>7 DEF Phase
  <2> QED
    BY <1>4, <1>7, <2>1, PhasesStay DEF OpenChallenges
<1>8. CASE KickBan(j)
  <2>1. j \in Due /\ Due' = Due \ {j}
    BY <1>1, <1>3, <1>8 DEF KickBan, Due
  <2>2. UNCHANGED <<Phases, OpenChallenges>>
    BY <1>1, <1>7, <1>8 DEF KickBan
  <2>3. CASE /\ chat' = [chat EXCEPT ![who[j]] = "banned"]
             /\ muted' = [muted EXCEPT ![who[j]] = FALSE]
             /\ timer' = [timer EXCEPT ![j] = "unban"]
    <3>1. LetIn' = LetIn \cup {j}
      BY <1>1, <2>3 DEF LetIn
    <3>2. Door!Remove(j)
      BY <1>2, <2>1, <2>2, <2>3, <3>1 DEF Door!Remove
    <3> QED
      BY <3>2 DEF Door!Next
  <2>4. CASE timer' = [timer EXCEPT ![j] = "over"] /\ UNCHANGED <<chat, muted>>
    <3>1. LetIn' = LetIn
      BY <1>1, <1>8, <2>4 DEF KickBan, LetIn
    <3>2. Door!Remove(j)
      BY <1>2, <2>1, <2>2, <2>4, <3>1 DEF Door!Remove
    <3> QED
      BY <3>2 DEF Door!Next
  <2> QED
    BY <1>8, <2>3, <2>4 DEF KickBan
<1>9. CASE KickUnban(j)
  <2>1. UNCHANGED <<Phases, OpenChallenges>>
    BY <1>1, <1>7, <1>9 DEF KickUnban
  <2>2. j \in LetIn /\ LetIn' = LetIn \ {j} /\ Due' = Due
    BY <1>1, <1>3, <1>9 DEF KickUnban, LetIn, Due
  <2>3. Door!Readmit(j)
    BY <1>2, <1>9, <2>1, <2>2 DEF KickUnban, Door!Readmit
  <2> QED
    BY <2>3 DEF Door!Next
<1>10. CASE KickDelete(j)
  <2>1. UNCHANGED <<Phases, OpenChallenges>>
    BY <1>1, <1>7, <1>10 DEF KickDelete
  <2>2. UNCHANGED <<Due, LetIn>>
    BY <1>1, <1>3, <1>10, NothingDue DEF KickDelete
  <2> QED
    BY <1>2, <1>10, <2>1, <2>2 DEF KickDelete, Door!vars
<1> QED
  BY <1>5, <1>6, <1>8, <1>9, <1>10 DEF TimerGoroutine

\* The steps of a button handler.
LEMMA PressImplements ==
    ASSUME Tidy, NEW p \in Presses, PressHandler(p) \/ \E j \in Joins : Press(p, j)
    PROVE  Door!Next \/ UNCHANGED Door!vars
<1>1. /\ handler \in [Joins -> HandlerSteps] /\ timer \in [Joins -> TimerSteps]
      /\ pending \in [Users -> Joins \cup {None}]
      /\ press \in [Presses -> [step : PressSteps, user : Users, msg : Joins \cup {None}]]
      /\ press[p].user \in Users
  BY TidyFacts
<1>2. UNCHANGED <<who, chat, handler>>
  BY DEF PressHandler, Press, Resolve, Unmute, DeleteChallenge, chatVars
<1>3. \A q \in Presses \ {p} : press'[q] = press[q]
  BY <1>1 DEF PressHandler, Press, Resolve, Unmute, DeleteChallenge
<1>4. ASSUME UNCHANGED <<timer, pending>>
      PROVE  UNCHANGED <<Phases, OpenChallenges, Due, LetIn>>
  BY <1>2, <1>4, SamePhase, PhasesStay, NothingDue DEF OpenChallenges
<1>5. ASSUME press[p].step # "unmute", press'[p].step # "unmute"
      PROVE  Confirmed' = Confirmed
  BY <1>3, <1>5 DEF Confirmed
<1>6. ASSUME NEW j \in Joins, Press(p, j)
      PROVE  UNCHANGED Door!vars
  <2>1. press[p].step = "idle" /\ press'[p].step = "resolve"
    BY <1>1, <1>6 DEF Press
  <2>2. UNCHANGED <<timer, pending, muted>>
    BY <1>6 DEF Press, chatVars
  <2> QED
    BY <1>2, <1>4, <1>5, <2>1, <2>2 DEF Door!vars
<1>7. CASE Resolve(p)
  <2> DEFINE u == press[p].user
             j == pending[u]
  <2>1. press[p].step = "resolve" /\ UNCHANGED muted
    BY <1>7 DEF Resolve, chatVars
  <2>2. CASE j = None
    <3>1. UNCHANGED <<timer, pending>> /\ press'[p].step = "idle"
      BY <1>1, <1>7, <2>2 DEF Resolve
    <3> QED
      BY <1>2, <1>4, <1>5, <2>1, <3>1 DEF Door!vars
  <2>3. CASE j # None
    <3>1. /\ timer' = [timer EXCEPT ![j] = IF @ = "running" THEN "stopped" ELSE @]
          /\ pending' = [pending EXCEPT ![u] = None]
          /\ press'[p].step = "unmute" /\ press'[p].user = u
      BY <1>1, <1>7, <2>3 DEF Resolve
    <3>2. \A k \in Joins : \/ timer'[k] = timer[k]
                           \/ timer[k] = "running" /\ timer'[k] = "stopped"
      BY <1>1, <3>1
    <3>3. \A k \in Joins : Phase(k)' = Phase(k)
      BY <1>2, <3>2 DEF Phase
    <3>4. UNCHANGED <<Phases, Due, LetIn>>
      BY <3>2, <3>3, PhasesStay, NothingDue
    <3>5. OpenChallenges[u] /\ OpenChallenges' = [OpenChallenges EXCEPT ![u] = FALSE]
      BY <1>1, <2>3, <3>1 DEF OpenChallenges
    <3>6. Confirmed' = Confirmed \cup {<<p, u>>}
      BY <1>3, <2>1, <3>1 DEF Confirmed
    <3>7. Door!Pass(p, u)
      BY <1>2, <2>1, <3>4, <3>5, <3>6 DEF Door!Pass
    <3> QED
      BY <1>1, <3>7 DEF Door!Next
  <2> QED
    BY <2>2, <2>3
<1>8. CASE Unmute(p)
  <2> DEFINE u == press[p].user
  <2>1. /\ UNCHANGED <<timer, pending>> /\ press[p].step = "unmute"
        /\ press'[p].step = "delete"
        /\ muted' \in {muted, [muted EXCEPT ![u] = FALSE]}
    BY <1>1, <1>8 DEF Unmute
  <2>2. <<p, u>> \in Confirmed /\ Confirmed' = Confirmed \ {<<p, u>>}
    BY <1>3, <2>1 DEF Confirmed
  <2>3. Door!GiveBack(p, u)
    BY <1>2, <1>4, <2>1, <2>2 DEF Door!GiveBack
  <2> QED
    BY <1>1, <2>3 DEF Door!Next
<1>9. CASE DeleteChallenge(p)
  <2>1. /\ UNCHANGED <<timer, pending, muted>> /\ press[p].step = "delete"
        /\ press'[p].step = "idle"
    BY <1>1, <1>9 DEF DeleteChallenge
  <2> QED
    BY <1>2, <1>4, <1>5, <2>1 DEF Door!vars
<1> QED
  BY <1>6, <1>7, <1>8, <1>9 DEF PressHandler

\* A restart forgets what is due.
LEMMA RestartImplements ==
    ASSUME Tidy, Restart
    PROVE  Door!Next
<1>1. /\ UNCHANGED <<who, chat, muted>>
      /\ handler' = [j \in Joins |-> IF handler[j] = "unused" THEN "unused" ELSE "done"]
      /\ timer' = [j \in Joins |-> IF timer[j] = "off" THEN "off" ELSE "over"]
      /\ pending' = [u \in Users |-> None]
      /\ press' = [p \in Presses |-> [press[p] EXCEPT !.step = "idle"]]
  BY DEF Restart, chatVars
<1>2. \A j \in Joins : Phase(j)' = IF Phase(j) = "new" THEN "new" ELSE "over"
  <2>1. \A j \in Joins : Phase(j) = "new" <=> handler[j] = "unused"
    BY DEF Phase
  <2>2. \A j \in Joins : Phase(j)' = IF handler[j] = "unused" THEN "new" ELSE "over"
    BY <1>1 DEF Phase
  <2> QED
    BY <2>1, <2>2
<1>3. Phases' = [j \in Joins |-> IF Phases[j] = "new" THEN "new" ELSE "over"]
  BY <1>2 DEF Phases
<1>4. OpenChallenges' = [u \in Users |-> FALSE]
  BY <1>1 DEF OpenChallenges
<1>5. Due' = {} /\ LetIn' = {}
  BY <1>1 DEF Due, LetIn
<1>6. Confirmed' = {}
  <2>1. \A p \in Presses : press'[p].step = "idle"
    BY <1>1, TidyFacts
  <2> QED
    BY <2>1 DEF Confirmed
<1>7. Door!Forget
  BY <1>1, <1>3, <1>4, <1>5, <1>6 DEF Door!Forget
<1> QED
  BY <1>7 DEF Door!Next

\* The beginning is the beginning of the promise.
LEMMA InitKeepsDoor == Init => Door!Init
<1> SUFFICES ASSUME Init
             PROVE  Door!Init
  OBVIOUS
<1>1. Phases = [j \in Joins |-> "new"]
  BY DEF Init, Phases, Phase
<1>2. OpenChallenges = [u \in Users |-> FALSE]
  BY DEF Init, OpenChallenges
<1>3. Due = {} /\ LetIn = {}
  BY DEF Init, Due, LetIn
<1>4. Confirmed = {}
  BY DEF Init, Confirmed
<1> QED
  BY <1>1, <1>2, <1>3, <1>4 DEF Init, Door!Init

\* Every step is one of the promise, or none that a newcomer sees.
LEMMA StepKeepsDoor == Tidy /\ [Next]_vars => [Door!Next]_(Door!vars)
<1> SUFFICES ASSUME Tidy, [Next]_vars
             PROVE  Door!Next \/ UNCHANGED Door!vars
  OBVIOUS
<1>1. ASSUME NEW u \in Users, Leave(u)
      PROVE  Door!Next
  <2>1. UNCHANGED <<who, muted, handler, timer, pending, press>>
    BY <1>1 DEF Leave, botVars
  <2>2. UNCHANGED <<Phases, OpenChallenges, Due, LetIn, Confirmed>>
    BY <2>1, SamePhase, PhasesStay, NothingDue DEF OpenChallenges, Confirmed
  <2>3. Door!Depart(u)
    BY <1>1, <2>1, <2>2 DEF Leave, Door!Depart
  <2> QED
    BY <2>3 DEF Door!Next
<1>2. CASE UNCHANGED vars
  <2>1. UNCHANGED <<who, chat, muted, handler, timer, pending, press>>
    BY <1>2 DEF vars, botVars, chatVars
  <2>2. UNCHANGED <<Phases, OpenChallenges, Due, LetIn, Confirmed>>
    BY <2>1, SamePhase, PhasesStay, NothingDue DEF OpenChallenges, Confirmed
  <2> QED
    BY <2>1, <2>2 DEF Door!vars
<1> QED
  BY <1>1, <1>2, HandlerImplements, TimerImplements, PressImplements, RestartImplements DEF Next

\* The captcha is one careful doorkeeper: whatever members, joins, presses,
\* failures and restarts there are, every change of a newcomer's rights and
\* presence follows from his join, his press or his time, each of them once.
THEOREM KeepsTheDoor == Spec => GatekeepingKept
<1>1. Init => Unarmed
  BY DEF Init, Unarmed
<1>2. IInv /\ Unarmed /\ [Next]_vars => Unarmed'
  BY UnarmedStep
<1>3. Spec => []Tidy
  BY <1>1, <1>2, Invariance, PTL DEF Spec, Tidy
<1> QED
  BY <1>3, InitKeepsDoor, StepKeepsDoor, PTL DEF Spec, GatekeepingKept, Door!Spec
=============================================================================
