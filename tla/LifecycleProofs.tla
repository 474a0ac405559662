-------------------------- MODULE LifecycleProofs --------------------------
(***************************************************************************)
(* Safety of the life of the process.  The run, for any number of workers  *)
(* and of goroutines nothing waits for, and any capacity of the queue      *)
(* (Lifecycle): alerts and recoveries are balanced by the active           *)
(* incidents; a worker is off before main serves and silent once main is   *)
(* past Wait, and main is silent once the queue is closed, so neither      *)
(* sends on a closed queue.  The start: the database is waited for, for    *)
(* any number of attempts and any delays that leave room for the pauses    *)
(* within the timeout (Startup), and the two readings of the settings      *)
(* agree, for any number of variables set (Config).                        *)
(***************************************************************************)
EXTENDS Lifecycle, Startup, Config, TLAPS

-----------------------------------------------------------------------------
(* The run: alerts, workers and the queue of the logger.                     *)

\* An active incident is one alert without its recovery.
Balanced == \A k \in Keys : alerts[k] = resolved[k] + (IF k \in incidents THEN 1 ELSE 0)

\* Before main starts the dispatcher no worker runs or logs; after Wait neither.
EarlyOff ==
    /\ main \in {"config", "store", "bot"} => \A w \in Workers : worker[w] = "off"
    /\ \A w \in Workers : worker[w] # "run" => note[w] = "none"

LateQuiet ==
    main \notin {"config", "store", "bot", "serve", "wait"} => \A w \in Workers : worker[w] # "run"

\* The pool and the queue are closed by main, at the end.
ClosedLate ==
    /\ store = "closed" => main \in {"cancel", "stopLog", "closeQueue", "drain", "exited"}
    /\ queueClosed => main \in {"drain", "exited"} /\ note[Main] = "none"

IInv ==
    /\ TypeOK /\ Balanced /\ EarlyOff /\ LateQuiet /\ ClosedLate /\ PanicOnlyFromStrays

-----------------------------------------------------------------------------
\* The actors are different goroutines.
LEMMA Goroutines ==
    /\ Main \in Loggers /\ Workers \subseteq Loggers /\ Strays \subseteq Loggers
    /\ \A w \in Workers : w # Main /\ w \notin Strays
    /\ \A s \in Strays : s # Main /\ s \notin Workers
    /\ \A s \in Strays \cup {Reminder} : s # Main
BY LifecycleAssumption DEF Loggers

\* Handle of an error record keeps the balance, and touches the note of the
\* goroutine that logs only.
LEMMA LogErrorKeeps ==
    ASSUME TypeOK, Balanced, NEW g \in Loggers, NEW k \in Keys, LogError(g, k)
    PROVE  /\ incidents' \subseteq Keys
           /\ note' \in [Loggers -> Keys \cup {"none"}]
           /\ alerts' \in [Keys -> Nat] /\ resolved' \in [Keys -> Nat]
           /\ Balanced'
           /\ \A h \in Loggers \ {g} : note'[h] = note[h]
<1>1. /\ incidents \subseteq Keys /\ note \in [Loggers -> Keys \cup {"none"}]
      /\ alerts \in [Keys -> Nat] /\ resolved \in [Keys -> Nat]
  BY DEF TypeOK
<1>2. CASE k \in incidents
  <2>1. alerts' = alerts /\ resolved' = resolved /\ incidents' = incidents
    BY <1>1, <1>2 DEF LogError, IsNew
  <2> QED
    BY <1>1, <2>1 DEF LogError, Balanced
<1>3. CASE k \notin incidents
  <2>1. /\ alerts' = [alerts EXCEPT ![k] = alerts[k] + 1]
        /\ resolved' = resolved /\ incidents' = incidents \cup {k}
    BY <1>1, <1>3 DEF LogError, IsNew
  <2>2. alerts' \in [Keys -> Nat] /\ alerts'[k] = alerts[k] + 1
    BY <1>1, <2>1
  <2>3. \A j \in Keys \ {k} : alerts'[j] = alerts[j] /\ (j \in incidents' <=> j \in incidents)
    BY <1>1, <2>1
  <2>4. Balanced'
    BY <1>1, <1>3, <2>1, <2>2, <2>3 DEF Balanced
  <2> QED
    BY <1>1, <2>1, <2>2, <2>4 DEF LogError
<1> QED
  BY <1>2, <1>3

\* Handle of a recovery record keeps the balance.
LEMMA LogRecoveryKeeps ==
    ASSUME TypeOK, Balanced, NEW g \in Loggers, NEW k \in Keys, LogRecovery(g, k)
    PROVE  /\ incidents' \subseteq Keys
           /\ note' \in [Loggers -> Keys \cup {"none"}]
           /\ alerts' \in [Keys -> Nat] /\ resolved' \in [Keys -> Nat]
           /\ Balanced'
           /\ \A h \in Loggers \ {g} : note'[h] = note[h]
<1>1. /\ incidents \subseteq Keys /\ note \in [Loggers -> Keys \cup {"none"}]
      /\ alerts \in [Keys -> Nat] /\ resolved \in [Keys -> Nat]
  BY DEF TypeOK
<1>2. CASE k \notin incidents
  <2>1. alerts' = alerts /\ resolved' = resolved /\ incidents' = incidents
    BY <1>1, <1>2 DEF LogRecovery
  <2> QED
    BY <1>1, <2>1 DEF LogRecovery, Balanced
<1>3. CASE k \in incidents
  <2>1. /\ resolved' = [resolved EXCEPT ![k] = resolved[k] + 1]
        /\ alerts' = alerts /\ incidents' = incidents \ {k}
    BY <1>1, <1>3 DEF LogRecovery
  <2>2. resolved' \in [Keys -> Nat] /\ resolved'[k] = resolved[k] + 1
    BY <1>1, <2>1
  <2>3. \A j \in Keys \ {k} : resolved'[j] = resolved[j] /\ (j \in incidents' <=> j \in incidents)
    BY <1>1, <2>1
  <2>4. Balanced'
    BY <1>1, <1>3, <2>1, <2>2, <2>3 DEF Balanced
  <2> QED
    BY <1>1, <2>1, <2>2, <2>4 DEF LogRecovery
<1> QED
  BY <1>2, <1>3

\* A send stays within the capacity, or is the end of the process.
LEMMA SendKeeps ==
    ASSUME TypeOK, NEW g \in Loggers \cup {Reminder}, Send(g)
    PROVE  /\ queued' \in 0 .. QueueCap /\ crashed' \in BOOLEAN
           /\ culprit' \in Loggers \cup {Reminder}
           /\ (crashed' = crashed /\ culprit' = culprit) \/ (queueClosed /\ culprit' = g)
<1>1. queued \in 0 .. QueueCap /\ crashed \in BOOLEAN /\ culprit \in Loggers \cup {Reminder}
  BY DEF TypeOK
<1>2. CASE queueClosed
  BY <1>1, <1>2 DEF Send
<1>3. CASE ~queueClosed
  <2>1. queued' = (IF queued < QueueCap THEN queued + 1 ELSE queued)
    BY <1>3 DEF Send, HasRoom
  <2>2. queued' \in 0 .. QueueCap
    BY <1>1, <2>1, LifecycleAssumption
  <2> QED
    BY <1>1, <1>3, <2>2 DEF Send, crashVars
<1> QED
  BY <1>2, <1>3

\* Initially nothing runs.
LEMMA InitInvariant == Init => IInv
<1> SUFFICES ASSUME Init
             PROVE  IInv
  OBVIOUS
<1>1. queued \in 0 .. QueueCap /\ outages \in 0 .. MaxOutages
  BY LifecycleAssumption DEF Init
<1>2. note \in [Loggers -> Keys \cup {"none"}]
  BY DEF Init
<1>3. worker \in [Workers -> {"off", "run", "stopped"}]
  BY DEF Init
<1>4. alerts \in [Keys -> Nat] /\ resolved \in [Keys -> Nat]
  BY DEF Init
<1>5. TypeOK
  BY <1>1, <1>2, <1>3, <1>4, Goroutines DEF Init, TypeOK, MainSteps
<1>6. Balanced /\ EarlyOff /\ LateQuiet /\ ClosedLate /\ PanicOnlyFromStrays
  BY Goroutines DEF Init, Balanced, EarlyOff, LateQuiet, ClosedLate, PanicOnlyFromStrays
<1> QED
  BY <1>5, <1>6 DEF IInv

\* The moves of main: each keeps the order in which things are opened and closed.
LEMMA MainStep == IInv /\ MainGoroutine => IInv'
<1> SUFFICES ASSUME IInv, MainGoroutine
             PROVE  IInv'
  OBVIOUS
<1>1. /\ TypeOK /\ Balanced /\ EarlyOff /\ LateQuiet /\ ClosedLate /\ PanicOnlyFromStrays
      /\ {"config", "database", "other"} \subseteq Keys
  BY DEF IInv, Keys
<1>2. CASE Enqueue(Main)
  <2>1. ~queueClosed
    BY <1>1, <1>2 DEF Enqueue, ClosedLate
  <2>2. queued' \in 0 .. QueueCap /\ UNCHANGED crashVars
    BY <1>1, <1>2, <2>1, SendKeeps, Goroutines DEF Enqueue, Send, crashVars
  <2>3. TypeOK'
    BY <1>1, <1>2, <2>2 DEF Enqueue, TypeOK, crashVars, dbVars
  <2>4. \A w \in Workers : note'[w] = note[w]
    BY <1>1, <1>2, Goroutines DEF Enqueue, TypeOK
  <2> QED
    BY <1>1, <1>2, <2>1, <2>2, <2>3, <2>4
    DEF Enqueue, IInv, Balanced, EarlyOff, LateQuiet, ClosedLate, PanicOnlyFromStrays, crashVars
<1>3. CASE LoadConfig \/ ConnectStore \/ Serve
  <2>1. /\ \/ UNCHANGED loggerVars
           \/ \E k \in Keys : LogError(Main, k) \/ LogRecovery(Main, k)
        /\ UNCHANGED <<worker, cancelled, dbVars, channelVars, sender, reminder, due, crashVars>>
        /\ main' \in MainSteps /\ store' \in {"none", "open", "closed"}
    BY <1>1, <1>3, Zenon DEF LoadConfig, ConnectStore, Serve, TypeOK, MainSteps
  <2>2. /\ incidents' \subseteq Keys
        /\ note' \in [Loggers -> Keys \cup {"none"}]
        /\ alerts' \in [Keys -> Nat] /\ resolved' \in [Keys -> Nat]
        /\ Balanced'
        /\ \A w \in Workers : note'[w] = note[w]
    <3>1. CASE UNCHANGED loggerVars
      BY <1>1, <3>1 DEF loggerVars, TypeOK, Balanced
    <3>2. CASE \E k \in Keys : LogError(Main, k) \/ LogRecovery(Main, k)
      BY <1>1, <3>2, LogErrorKeeps, LogRecoveryKeeps, Goroutines
    <3> QED
      BY <2>1, <3>1, <3>2
  <2>3. TypeOK'
    BY <1>1, <2>1, <2>2 DEF TypeOK, dbVars, channelVars, crashVars
  <2>4. EarlyOff' /\ LateQuiet'
    BY <1>1, <1>3, <2>1, <2>2 DEF LoadConfig, ConnectStore, Serve, MainAt, EarlyOff, LateQuiet
  <2>5. ClosedLate' /\ PanicOnlyFromStrays'
    BY <1>1, <1>3, <2>1
    DEF LoadConfig, ConnectStore, Serve, MainAt, ClosedLate, PanicOnlyFromStrays,
        channelVars, crashVars
  <2> QED
    BY <2>2, <2>3, <2>4, <2>5 DEF IInv
<1>4. CASE StartBot
  <2>1. /\ \E k \in Keys : LogError(Main, k) \/ LogRecovery(Main, k)
        /\ main = "bot"
        /\ worker' \in [Workers -> {"off", "run", "stopped"}]
        /\ \/ main' = "serve"
           \/ main' = "closeStore" /\ worker' = worker
        /\ UNCHANGED <<store, cancelled, dbVars, channelVars, sender, reminder, due, crashVars>>
    BY <1>1, <1>4 DEF StartBot, MainAt, TypeOK
  <2>2. /\ incidents' \subseteq Keys
        /\ note' \in [Loggers -> Keys \cup {"none"}]
        /\ alerts' \in [Keys -> Nat] /\ resolved' \in [Keys -> Nat]
        /\ Balanced'
        /\ \A w \in Workers : note'[w] = note[w]
    BY <1>1, <2>1, LogErrorKeeps, LogRecoveryKeeps, Goroutines
  <2>3. TypeOK'
    BY <1>1, <2>1, <2>2 DEF TypeOK, MainSteps, dbVars, channelVars, crashVars
  <2>4. \A w \in Workers : note'[w] = "none"
    BY <1>1, <2>1, <2>2 DEF EarlyOff
  <2>5. EarlyOff' /\ LateQuiet'
    BY <1>1, <2>1, <2>4 DEF EarlyOff, LateQuiet
  <2>6. ClosedLate' /\ PanicOnlyFromStrays'
    BY <1>1, <2>1 DEF ClosedLate, PanicOnlyFromStrays, channelVars, crashVars
  <2> QED
    BY <2>2, <2>3, <2>5, <2>6 DEF IInv
<1>5. CASE Wait \/ CloseStore \/ DeferredCancel \/ CloseStop \/ CloseQueue \/ Drain
  <2>1. UNCHANGED <<worker, loggerVars, crashVars, queued, sender, reminder, due, dbVars>>
    BY <1>5 DEF Wait, CloseStore, DeferredCancel, CloseStop, CloseQueue, Drain, channelVars
  <2>2. /\ main' \in MainSteps /\ store' \in {"none", "open", "closed"}
        /\ cancelled' \in BOOLEAN /\ stopClosed' \in BOOLEAN /\ queueClosed' \in BOOLEAN
    BY <1>1, <1>5
    DEF Wait, CloseStore, DeferredCancel, CloseStop, CloseQueue, Drain, TypeOK, MainSteps,
        channelVars
  <2>3. TypeOK'
    BY <1>1, <2>1, <2>2 DEF TypeOK, loggerVars, crashVars, dbVars
  <2>4. EarlyOff' /\ LateQuiet'
    BY <1>1, <1>5, <2>1
    DEF Wait, CloseStore, DeferredCancel, CloseStop, CloseQueue, Drain, MainAt, AllDone,
        EarlyOff, LateQuiet, loggerVars
  <2>5. ClosedLate'
    BY <1>1, <1>5, <2>1
    DEF Wait, CloseStore, DeferredCancel, CloseStop, CloseQueue, Drain, MainAt, ClosedLate,
        loggerVars, channelVars
  <2>6. Balanced' /\ PanicOnlyFromStrays'
    BY <1>1, <2>1 DEF Balanced, PanicOnlyFromStrays, loggerVars, crashVars
  <2> QED
    BY <2>3, <2>4, <2>5, <2>6 DEF IInv
<1> QED
  BY <1>2, <1>3, <1>4, <1>5 DEF MainGoroutine

\* A worker logs only while it runs, and main is not past Wait while it does.
LEMMA WorkerStep ==
    ASSUME IInv, NEW w \in Workers, WorkerGoroutine(w)
    PROVE  IInv'
<1>1. /\ TypeOK /\ Balanced /\ EarlyOff /\ LateQuiet /\ ClosedLate /\ PanicOnlyFromStrays
      /\ w \in Loggers /\ w # Main
  BY Goroutines DEF IInv
<1>2. CASE Enqueue(w)
  <2>1. ~queueClosed
    BY <1>1, <1>2 DEF Enqueue, ClosedLate, LateQuiet, EarlyOff
  <2>2. queued' \in 0 .. QueueCap /\ UNCHANGED crashVars
    BY <1>1, <1>2, <2>1, SendKeeps DEF Enqueue, Send, crashVars
  <2>3. TypeOK'
    BY <1>1, <1>2, <2>2 DEF Enqueue, TypeOK, crashVars, dbVars
  <2>4. \A v \in Workers : note'[v] = note[v] \/ note'[v] = "none"
    BY <1>1, <1>2, Goroutines DEF Enqueue, TypeOK
  <2> QED
    BY <1>1, <1>2, <2>1, <2>2, <2>3, <2>4
    DEF Enqueue, IInv, Balanced, EarlyOff, LateQuiet, ClosedLate, PanicOnlyFromStrays, crashVars
<1>3. CASE WorkerStop(w)
  <2>1. TypeOK'
    BY <1>1, <1>3 DEF WorkerStop, TypeOK, dbVars, loggerVars, channelVars, crashVars
  <2>2. /\ worker'[w] = "stopped" /\ note[w] = "none" /\ worker[w] = "run"
        /\ \A v \in Workers \ {w} : worker'[v] = worker[v]
    BY <1>1, <1>3 DEF WorkerStop, TypeOK
  <2> QED
    BY <1>1, <1>3, <2>1, <2>2
    DEF WorkerStop, IInv, Balanced, EarlyOff, LateQuiet, ClosedLate, PanicOnlyFromStrays,
        loggerVars, channelVars, crashVars
<1>4. ASSUME NEW k \in Keys, WorkerError(w, k)
      PROVE  IInv'
  <2>1. LogError(w, k) /\ worker[w] = "run"
    BY <1>4 DEF WorkerError
  <2>2. TypeOK' /\ Balanced' /\ \A h \in Loggers \ {w} : note'[h] = note[h]
    BY <1>1, <1>4, <2>1, LogErrorKeeps
    DEF WorkerError, TypeOK, dbVars, channelVars, crashVars
  <2> QED
    BY <1>1, <1>4, <2>1, <2>2, Goroutines
    DEF WorkerError, IInv, EarlyOff, LateQuiet, ClosedLate, PanicOnlyFromStrays,
        channelVars, crashVars
<1> QED
  BY <1>2, <1>3, <1>4 DEF WorkerGoroutine

\* A stray may log at any time: it disturbs nothing but can end the process.
LEMMA StrayStep ==
    ASSUME IInv, NEW s \in Strays, Enqueue(s) \/ \E k \in Keys : StrayError(s, k)
    PROVE  IInv'
<1>1. /\ TypeOK /\ Balanced /\ EarlyOff /\ LateQuiet /\ ClosedLate /\ PanicOnlyFromStrays
      /\ s \in Loggers /\ s # Main /\ s \notin Workers
  BY Goroutines DEF IInv
<1>2. CASE Enqueue(s)
  <2>1. /\ queued' \in 0 .. QueueCap /\ crashed' \in BOOLEAN
        /\ culprit' \in Loggers \cup {Reminder}
        /\ (crashed' = crashed /\ culprit' = culprit) \/ culprit' = s
    BY <1>1, <1>2, SendKeeps DEF Enqueue
  <2>2. TypeOK' /\ \A h \in Loggers \ {s} : note'[h] = note[h]
    BY <1>1, <1>2, <2>1 DEF Enqueue, TypeOK, dbVars
  <2> QED
    BY <1>1, <1>2, <2>1, <2>2, Goroutines
    DEF Enqueue, IInv, Balanced, EarlyOff, LateQuiet, ClosedLate, PanicOnlyFromStrays
<1>3. ASSUME NEW k \in Keys, StrayError(s, k)
      PROVE  IInv'
  <2>1. LogError(s, k)
    BY <1>3 DEF StrayError
  <2>2. TypeOK' /\ Balanced' /\ \A h \in Loggers \ {s} : note'[h] = note[h]
    BY <1>1, <1>3, <2>1, LogErrorKeeps
    DEF StrayError, TypeOK, dbVars, channelVars, crashVars
  <2> QED
    BY <1>1, <1>3, <2>1, <2>2, Goroutines
    DEF StrayError, IInv, EarlyOff, LateQuiet, ClosedLate, PanicOnlyFromStrays,
        channelVars, crashVars
<1> QED
  BY <1>2, <1>3

\* The goroutines of the logger and the world outside leave incidents, main and
\* the workers alone; the reminder may end the process.
LEMMA OtherStep ==
    IInv /\ (SenderGoroutine \/ ReminderGoroutine \/ Signal \/ Outage \/ DbBack \/ UNCHANGED vars)
        => IInv'
<1> SUFFICES ASSUME IInv,
                    \/ SenderGoroutine \/ ReminderGoroutine
                    \/ Signal \/ Outage \/ DbBack \/ UNCHANGED vars
             PROVE  IInv'
  OBVIOUS
<1>1. /\ TypeOK /\ Balanced /\ EarlyOff /\ LateQuiet /\ ClosedLate /\ PanicOnlyFromStrays
  BY DEF IInv
<1>2. UNCHANGED <<main, worker, store, loggerVars, stopClosed, queueClosed>>
  BY DEF SenderGoroutine, SenderTake, SenderSent, SenderStop, ReminderGoroutine, RemindScan,
         RemindSend, RemindStop, Signal, Outage, DbBack, vars, loggerVars, channelVars
<1>3. /\ queued' \in 0 .. QueueCap /\ crashed' \in BOOLEAN
      /\ culprit' \in Loggers \cup {Reminder}
      /\ (crashed' = crashed /\ culprit' = culprit) \/ culprit' = Reminder
  <2>1. CASE \E k \in Keys : RemindSend(k)
    BY <1>1, <2>1, SendKeeps DEF RemindSend
  <2>2. CASE ~\E k \in Keys : RemindSend(k)
    <3>1. UNCHANGED crashVars /\ (queued' = queued \/ (queued > 0 /\ queued' = queued - 1))
      BY <2>2 DEF SenderGoroutine, SenderTake, SenderSent, SenderStop, ReminderGoroutine,
         RemindScan, RemindStop, Signal, Outage, DbBack, vars, channelVars
    <3> QED
      BY <1>1, <3>1, LifecycleAssumption DEF TypeOK, crashVars
  <2> QED
    BY <2>1, <2>2
<1>4. /\ sender' \in {"wait", "send", "done"} /\ reminder' \in {"wait", "send", "done"}
      /\ due' \subseteq Keys
  BY <1>1 DEF TypeOK, SenderGoroutine, SenderTake, SenderSent, SenderStop, ReminderGoroutine,
     RemindScan, RemindSend, RemindStop, Signal, Outage, DbBack, vars
<1>5. cancelled' \in BOOLEAN /\ dbUp' \in BOOLEAN /\ outages' \in 0 .. MaxOutages
  <2>1. CASE Outage
    <3>1. outages' = outages + 1 /\ outages < MaxOutages /\ outages \in 0 .. MaxOutages
      BY <1>1, <2>1 DEF Outage, TypeOK
    <3>2. outages' \in 0 .. MaxOutages
      BY <3>1, LifecycleAssumption
    <3> QED
      BY <1>1, <2>1, <3>2 DEF Outage, TypeOK
  <2>2. CASE ~Outage
    <3>1. cancelled' \in BOOLEAN /\ dbUp' \in BOOLEAN /\ outages' = outages
      BY <1>1, <2>2
      DEF TypeOK, SenderGoroutine, SenderTake, SenderSent, SenderStop, ReminderGoroutine,
          RemindScan, RemindSend, RemindStop, Signal, DbBack, vars, dbVars
    <3> QED
      BY <1>1, <3>1 DEF TypeOK
  <2> QED
    BY <2>1, <2>2
<1>6. TypeOK'
  BY <1>1, <1>2, <1>3, <1>4, <1>5 DEF TypeOK, loggerVars
<1> QED
  BY <1>1, <1>2, <1>3, <1>6
  DEF IInv, Balanced, EarlyOff, LateQuiet, ClosedLate, PanicOnlyFromStrays, loggerVars

\* Every step of the process keeps the invariant.
LEMMA NextInvariant == IInv /\ [Next]_vars => IInv'
BY MainStep, WorkerStep, StrayStep, OtherStep DEF Next

\* The invariant holds in every behaviour.
THEOREM Invariance == Spec => []IInv
BY InitInvariant, NextInvariant, PTL DEF Spec

\* Type correctness of the process and its logger.
THEOREM TypeCorrect == Spec => []TypeOK
<1>1. IInv => TypeOK
  BY DEF IInv
<1> QED
  BY <1>1, Invariance, PTL

\* A second alert for an incident needs a recovery in between, however many
\* goroutines run into it at the same time.
THEOREM ToldOnce == Spec => []OneAlertPerIncident
<1>1. IInv => OneAlertPerIncident
  BY DEF IInv, TypeOK, Balanced, OneAlertPerIncident
<1> QED
  BY <1>1, Invariance, PTL

\* A worker or main never sends on the closed queue of the logger.
THEOREM WorkersNeverPanic == Spec => []PanicOnlyFromStrays
<1>1. IInv => PanicOnlyFromStrays
  BY DEF IInv
<1> QED
  BY <1>1, Invariance, PTL

\* The connection pool outlives the workers.
THEOREM PoolOutlivesWorkers == Spec => []StoreOutlivesWorkers
<1>1. IInv => StoreOutlivesWorkers
  BY DEF IInv, LateQuiet, ClosedLate, StoreOutlivesWorkers
<1> QED
  BY <1>1, Invariance, PTL

-----------------------------------------------------------------------------
(* The connection: a database that comes up late is waited for.              *)

Pinging == {"ping", "pause"}
Connected == {"ping", "pause", "migrate", "open"}

ConnectionOK ==
    /\ step \in {"pool", "failed"} \cup Connected
    /\ clock \in Nat /\ upSince \in Nat
    /\ interrupted \in BOOLEAN /\ hung \in BOOLEAN
    /\ attempt \in Nat
    /\ step \in Pinging => attempt \in 1 .. PingMaxAttempts

\* A pool is open from its opening to the end of New, or closed by it.
PoolKept ==
    /\ step = "pool" => pool = "none" /\ clock = 0
    /\ step \in Connected => pool = "open"
    /\ step = "failed" => pool # "open"

\* While nothing holds New up, an attempt begins when the pauses before it are
\* over, and a failed one found the database down.
OnTime ==
    ~interrupted /\ ~hung =>
        /\ step \in Pinging => clock = (attempt - 1) * PingRetryDelay
        /\ step = "pause" => clock < upSince
        /\ step = "failed" /\ reason \in {"attempts", "context"} =>
              upSince > (PingMaxAttempts - 1) * PingRetryDelay

ConnectionInv == ConnectionOK /\ PoolKept /\ OnTime

\* The pauses before an attempt are over within the timeout, and the next one
\* takes no longer than that unless the attempt is the last.
LEMMA PausesFit ==
    ASSUME NEW n \in 1 .. PingMaxAttempts
    PROVE  /\ (n - 1) * PingRetryDelay \in Nat
           /\ (n - 1) * PingRetryDelay + PingRetryDelay = n * PingRetryDelay
           /\ (n - 1) * PingRetryDelay < DbInitTimeout
           /\ n # PingMaxAttempts => n * PingRetryDelay < DbInitTimeout
<1> DEFINE P == PingMaxAttempts
           D == PingRetryDelay
<1>1. P \in Nat /\ D \in Nat /\ n \in Nat /\ n >= 1 /\ n <= P
  BY StartupAssumption
<1>2. DbInitTimeout \in Nat /\ DbInitTimeout > (P - 1) * D
  BY StartupAssumption
<1> HIDE DEF P, D
<1>3. \A i \in Nat : i * D \in Nat
  BY <1>1
<1>4. (P - 1) * D = (n - 1) * D + (P - n) * D
  BY <1>1
<1>5. (n - 1) * D \in Nat /\ (P - n) * D \in Nat
  BY <1>1, <1>3, n - 1 \in Nat, P - n \in Nat
<1>6. (n - 1) * D + D = n * D
  BY <1>1
<1>7. (n - 1) * D < DbInitTimeout
  <2> DEFINE a == (n - 1) * D
             b == (P - n) * D
             c == (P - 1) * D
  <2>1. c = a + b /\ a \in Nat /\ b \in Nat /\ DbInitTimeout > c
    BY <1>2, <1>4, <1>5
  <2> HIDE DEF a, b, c
  <2>2. a < DbInitTimeout
    BY <1>2, <2>1
  <2> QED
    BY <2>2 DEF a
<1>8. ASSUME n # P
      PROVE  n * D < DbInitTimeout
  <2> DEFINE a == n * D
             b == (P - 1 - n) * D
             c == (P - 1) * D
  <2>1. P - 1 - n \in Nat
    BY <1>1, <1>8
  <2>2. c = a + b /\ a \in Nat /\ b \in Nat /\ DbInitTimeout > c
    <3>1. c = a + b
      BY <1>1
    <3> QED
      BY <1>1, <1>2, <1>3, <2>1, <3>1
  <2> HIDE DEF a, b, c
  <2>3. a < DbInitTimeout
    BY <1>2, <2>2
  <2> QED
    BY <2>3 DEF a
<1> QED
  BY <1>5, <1>6, <1>7, <1>8 DEF P, D

\* A ping that fails, without a signal and at once, found the database down:
\* the context is not done yet.
LEMMA PingKeeps ==
    ASSUME ConnectionInv, Ping
    PROVE  ConnectionInv'
<1>1. /\ step = "ping" /\ attempt \in 1 .. PingMaxAttempts /\ clock \in Nat /\ upSince \in Nat
      /\ interrupted \in BOOLEAN /\ hung \in BOOLEAN /\ pool = "open"
  BY DEF Ping, ConnectionInv, ConnectionOK, PoolKept, Pinging, Connected
<1>2. UNCHANGED <<attempt, upSince, pool, interrupted, reason>>
  BY DEF Ping
<1>3. CASE step' = "migrate" /\ UNCHANGED <<clock, hung>>
  <2>1. ConnectionOK' /\ PoolKept'
    BY <1>1, <1>2, <1>3 DEF ConnectionInv, ConnectionOK, PoolKept, Connected, Pinging
  <2>2. OnTime'
    BY <1>1, <1>2, <1>3 DEF ConnectionInv, OnTime, Pinging
  <2> QED
    BY <2>1, <2>2 DEF ConnectionInv
<1>4. ASSUME clock < upSince \/ ContextDone, step' = "pause", NEW d \in 0 .. MaxPing,
             clock' = clock + d, hung' = (hung \/ d > 0)
      PROVE  ConnectionInv'
  <2>1. d \in Nat /\ clock' \in Nat /\ hung' \in BOOLEAN
    BY <1>1, <1>4, StartupAssumption
  <2>2. ConnectionOK' /\ PoolKept'
    BY <1>1, <1>2, <1>4, <2>1 DEF ConnectionInv, ConnectionOK, PoolKept, Connected, Pinging
  <2>3. OnTime'
    <3> SUFFICES ASSUME ~interrupted, ~hung'
                 PROVE  clock' = (attempt - 1) * PingRetryDelay /\ clock' < upSince
      BY <1>1, <1>2, <1>4 DEF OnTime, Pinging
    <3>1. ~hung /\ clock' = clock
      <4>1. ~(hung \/ d > 0)
        BY <1>4, Zenon
      <4>2. ~hung /\ ~(d > 0)
        BY <4>1, Zenon
      <4>3. d = 0
        BY <2>1, <4>2
      <4> QED
        BY <1>1, <1>4, <4>2, <4>3
    <3>2. clock = (attempt - 1) * PingRetryDelay
      BY <1>1, <3>1 DEF ConnectionInv, OnTime, Pinging
    <3>3. clock < DbInitTimeout
      BY <1>1, <3>2, PausesFit
    <3>4. clock < upSince
      BY <1>1, <1>4, <3>3, StartupAssumption DEF ContextDone
    <3> QED
      BY <3>1, <3>2, <3>4
  <2> QED
    BY <2>2, <2>3 DEF ConnectionInv
<1> QED
  BY <1>3, <1>4 DEF Ping

\* The pause of the last attempt, or the timeout, which comes no earlier, ends
\* the loop.
LEMMA PauseKeeps ==
    ASSUME ConnectionInv, Pause
    PROVE  ConnectionInv'
<1>1. /\ step = "pause" /\ attempt \in 1 .. PingMaxAttempts /\ clock \in Nat /\ upSince \in Nat
      /\ interrupted \in BOOLEAN /\ hung \in BOOLEAN /\ pool = "open"
      /\ PingMaxAttempts \in Nat \ {0} /\ PingRetryDelay \in Nat /\ DbInitTimeout \in Nat
  BY StartupAssumption
  DEF Pause, ConnectionInv, ConnectionOK, PoolKept, Pinging, Connected
<1>2. UNCHANGED <<upSince, interrupted, hung>>
  BY DEF Pause
<1>3. ~interrupted /\ ~hung => clock = (attempt - 1) * PingRetryDelay /\ clock < upSince
  BY <1>1 DEF ConnectionInv, OnTime, Pinging
<1>4. /\ (attempt - 1) * PingRetryDelay \in Nat
      /\ (attempt - 1) * PingRetryDelay + PingRetryDelay = attempt * PingRetryDelay
      /\ (attempt - 1) * PingRetryDelay < DbInitTimeout
      /\ attempt # PingMaxAttempts => attempt * PingRetryDelay < DbInitTimeout
  BY <1>1, PausesFit
<1>5. CASE /\ ContextDone \/ clock + PingRetryDelay >= DbInitTimeout
           /\ clock' = (IF interrupted THEN clock ELSE DbInitTimeout)
           /\ pool' = "closed" /\ Fail("context") /\ UNCHANGED attempt
  <2>1. step' = "failed" /\ reason' = "context" /\ clock' \in Nat
    BY <1>1, <1>5 DEF Fail
  <2>2. ConnectionOK' /\ PoolKept'
    BY <1>1, <1>2, <1>5, <2>1 DEF ConnectionInv, ConnectionOK, PoolKept, Connected, Pinging
  <2>3. ASSUME ~interrupted, ~hung
        PROVE  upSince > (PingMaxAttempts - 1) * PingRetryDelay
    <3>1. clock = (attempt - 1) * PingRetryDelay /\ clock < upSince
      BY <1>3, <2>3
    <3>2. clock + PingRetryDelay >= DbInitTimeout
      BY <1>1, <1>4, <1>5, <2>3, <3>1 DEF ContextDone
    <3>3. attempt * PingRetryDelay >= DbInitTimeout
      BY <1>4, <3>1, <3>2
    <3>4. attempt = PingMaxAttempts
      <4>1. attempt * PingRetryDelay \in Nat
        BY <1>1
      <4> QED
        BY <1>1, <1>4, <3>3, <4>1
    <3> QED
      BY <3>1, <3>4
  <2> QED
    BY <1>2, <2>1, <2>2, <2>3 DEF ConnectionInv, OnTime, Pinging
<1>6. CASE /\ clock' = clock + PingRetryDelay
           /\ LastAttempt /\ pool' = "closed" /\ Fail("attempts") /\ UNCHANGED attempt
  <2>1. step' = "failed" /\ reason' = "attempts" /\ clock' \in Nat /\ attempt = PingMaxAttempts
    BY <1>1, <1>6 DEF Fail, LastAttempt
  <2>2. ConnectionOK' /\ PoolKept'
    BY <1>1, <1>2, <1>6, <2>1 DEF ConnectionInv, ConnectionOK, PoolKept, Connected, Pinging
  <2>3. OnTime'
    BY <1>2, <1>3, <2>1 DEF OnTime, Pinging
  <2> QED
    BY <2>2, <2>3 DEF ConnectionInv
<1>7. CASE /\ clock' = clock + PingRetryDelay
           /\ ~LastAttempt /\ attempt' = attempt + 1 /\ step' = "ping" /\ UNCHANGED <<pool, reason>>
  <2>1. clock' \in Nat /\ attempt' \in 1 .. PingMaxAttempts /\ attempt' - 1 = attempt
    BY <1>1, <1>7 DEF LastAttempt
  <2>2. ConnectionOK' /\ PoolKept'
    BY <1>1, <1>2, <1>7, <2>1 DEF ConnectionInv, ConnectionOK, PoolKept, Connected, Pinging
  <2>3. ~interrupted /\ ~hung => clock' = (attempt' - 1) * PingRetryDelay
    BY <1>3, <1>4, <1>7, <2>1
  <2>4. OnTime'
    BY <1>2, <1>7, <2>3 DEF OnTime, Pinging
  <2> QED
    BY <2>2, <2>4 DEF ConnectionInv
<1> QED
  BY <1>5, <1>6, <1>7 DEF Pause

\* The invariant of the connection.
LEMMA ConnectionInvariant ==
    /\ ConnectionInit => ConnectionInv
    /\ ConnectionInv /\ [ConnectionNext]_connection => ConnectionInv'
<1> USE DEF Pinging, Connected
<1>1. ASSUME ConnectionInit
      PROVE  ConnectionInv
  <2>1. /\ step = "pool" /\ attempt = 0 /\ clock = 0 /\ pool = "none"
        /\ interrupted = FALSE /\ hung = FALSE
    BY <1>1 DEF ConnectionInit
  <2>2. upSince \in Nat
    BY <1>1, StartupAssumption DEF ConnectionInit
  <2> QED
    BY <2>1, <2>2 DEF ConnectionInv, ConnectionOK, PoolKept, OnTime
<1>2. ASSUME ConnectionInv, OpenPool
      PROVE  ConnectionInv'
  <2>1. /\ step = "pool" /\ pool = "none" /\ clock = 0 /\ attempt \in Nat
        /\ UNCHANGED <<clock, upSince, interrupted, hung>>
        /\ clock \in Nat /\ upSince \in Nat /\ interrupted \in BOOLEAN /\ hung \in BOOLEAN
    BY <1>2 DEF OpenPool, ConnectionInv, ConnectionOK, PoolKept
  <2>2. CASE step' = "ping" /\ attempt' = 1 /\ pool' = "open" /\ UNCHANGED reason
    <3>1. 1 \in 1 .. PingMaxAttempts /\ (1 - 1) * PingRetryDelay = 0
      BY StartupAssumption
    <3> QED
      BY <2>1, <2>2, <3>1 DEF ConnectionInv, ConnectionOK, PoolKept, OnTime
  <2>3. CASE Fail("dsn") /\ UNCHANGED <<attempt, pool>>
    BY <2>1, <2>3 DEF Fail, ConnectionInv, ConnectionOK, PoolKept, OnTime
  <2> QED
    BY <1>2, <2>2, <2>3 DEF OpenPool
<1>3. ASSUME ConnectionInv, Migrate
      PROVE  ConnectionInv'
  BY <1>3 DEF Migrate, Fail, ConnectionInv, ConnectionOK, PoolKept, OnTime
<1>4. ASSUME ConnectionInv, Interrupt
      PROVE  ConnectionInv'
  BY <1>4 DEF Interrupt, ConnectionInv, ConnectionOK, PoolKept, OnTime
<1>5. ASSUME ConnectionInv, UNCHANGED connection
      PROVE  ConnectionInv'
  BY <1>5 DEF connection, ConnectionInv, ConnectionOK, PoolKept, OnTime
<1> QED
  BY <1>1, <1>2, <1>3, <1>4, <1>5, PingKeeps, PauseKeeps DEF ConnectionNext

\* A database that is up before the last attempt is not given up while every
\* refusal comes at once; no failure leaves a pool open, and a store has one.
THEOREM DatabaseWaitedFor == ConnectionSpec => []DatabaseAwaited
<1>1. ConnectionInv => DatabaseAwaited
  BY DEF ConnectionInv, PoolKept, OnTime, Connected, DatabaseAwaited
<1> QED
  BY <1>1, ConnectionInvariant, PTL DEF ConnectionSpec

-----------------------------------------------------------------------------
(* The settings: the bootstrap and Load read the same.                       *)

LogKeys == {"BOT_TOKEN", "ERROR_LOG_CHAT_ID", "ERROR_LOG_MESSAGE_THREAD_ID"}

\* A logger that was built has read what the environment says; it stays as it
\* is, as the environment does once the bot starts.
LoggerRead ==
    /\ stage = "edit" => ~logger.on
    /\ logger.on =>
          /\ LoggerWanted
          /\ logger.chat = Value("ERROR_LOG_CHAT_ID")
          /\ logger.thread = Value("ERROR_LOG_MESSAGE_THREAD_ID")
          /\ logger.remind = ReminderRead

\* A bot runs with no wrong variable.  One that is refused for a variable that
\* does not decide whether there is a log has none of those that do wrong,
\* because Load looks at them first.
WrongKeys == {key \in Variables : Wrong(key)}

LoadHasJudged ==
    /\ stage = "run" => WrongKeys = {}
    /\ stage = "refused" /\ refused \notin LogKeys => WrongKeys \cap LogKeys = {}

SettingsInv == LoggerRead /\ LoadHasJudged

\* What the variables of the log are in the tables of Load.
LEMMA LogVariables ==
    /\ DOMAIN Order = 1 .. 18
    /\ Order[1] = "BOT_TOKEN" /\ Order[2] = "ERROR_LOG_CHAT_ID"
    /\ Order[3] = "ERROR_LOG_MESSAGE_THREAD_ID" /\ Order[4] = "ERROR_LOG_REMINDER_MINUTES"
    /\ {"ERROR_LOG_CHAT_ID", "ERROR_LOG_MESSAGE_THREAD_ID", "ERROR_LOG_REMINDER_MINUTES"}
          \subseteq NumberKeys
    /\ Default["ERROR_LOG_CHAT_ID"] = 0
    /\ Default["ERROR_LOG_REMINDER_MINUTES"] = 30
<1>1. /\ DOMAIN Order = 1 .. 18
      /\ Order[1] = "BOT_TOKEN" /\ Order[2] = "ERROR_LOG_CHAT_ID"
      /\ Order[3] = "ERROR_LOG_MESSAGE_THREAD_ID" /\ Order[4] = "ERROR_LOG_REMINDER_MINUTES"
  BY DEF Order
<1>2. {"ERROR_LOG_CHAT_ID", "ERROR_LOG_MESSAGE_THREAD_ID", "ERROR_LOG_REMINDER_MINUTES"}
          \subseteq Variables
  BY <1>1 DEF Variables
<1>3. {"ERROR_LOG_CHAT_ID", "ERROR_LOG_MESSAGE_THREAD_ID", "ERROR_LOG_REMINDER_MINUTES"}
          \subseteq NumberKeys
  BY <1>2 DEF NumberKeys, Switches, Secrets
<1>4. Default["ERROR_LOG_CHAT_ID"] = 0 /\ Default["ERROR_LOG_REMINDER_MINUTES"] = 30
  BY <1>3 DEF Default
<1> QED
  BY <1>1, <1>3, <1>4

\* A raw value that is a number is an integer; an unset variable is none.
LEMMA NumbersRead ==
    /\ \A raw : IsNumber(raw) => Number(raw) \in Int
    /\ \A raw : ~IsNumber(raw) => Number(raw) = 0
    /\ ~IsNumber(Unset)
<1>1. \A raw \in {"-1", "0", "1", "2"} : Numerals[raw] \in Int
  BY DEF Numerals
<1>2. DOMAIN Numerals = {"-1", "0", "1", "2"}
  BY DEF Numerals
<1> QED
  BY <1>1, <1>2 DEF IsNumber, Number, Unset

\* If one of the first three variables is wrong, the first wrong one is one of
\* them.
LEMMA FirstWrong ==
    ASSUME NEW wrong \in SUBSET DOMAIN Order, NEW i \in 1 .. 3, i \in wrong
    PROVE  Order[CHOOSE n \in wrong : \A m \in wrong : n <= m] \in LogKeys
<1> DEFINE first == CHOOSE n \in wrong : \A m \in wrong : n <= m
<1>1. wrong \subseteq 1 .. 18
  BY LogVariables
<1>2. \E n \in wrong : \A m \in wrong : n <= m
  <2>1. CASE 1 \in wrong
    BY <1>1, <2>1
  <2>2. CASE 1 \notin wrong /\ 2 \in wrong
    BY <1>1, <2>2
  <2>3. CASE 1 \notin wrong /\ 2 \notin wrong /\ 3 \in wrong
    BY <1>1, <2>3
  <2> QED
    BY <2>1, <2>2, <2>3
<1>3. first \in wrong /\ \A m \in wrong : first <= m
  BY <1>2
<1> HIDE DEF first
<1>4. first \in 1 .. 3
  BY <1>1, <1>3
<1>5. Order[first] \in LogKeys
  BY <1>4, LogVariables DEF LogKeys
<1> QED
  BY <1>5 DEF first

\* The invariant of the settings.
LEMMA SettingsInvariant ==
    /\ SettingsInit => SettingsInv
    /\ SettingsInv /\ [SettingsNext]_settings => SettingsInv'
<1>1. SettingsInit => SettingsInv
  BY DEF SettingsInit, SettingsInv, LoggerRead, LoadHasJudged
<1>2. ASSUME SettingsInv, NEW key \in Variables, Edit(key)
      PROVE  SettingsInv'
  <2>1. stage = "edit" /\ stage' = "edit" /\ logger' = logger
    BY <1>2 DEF Edit
  <2>2. ~logger'.on
    BY <1>2, <2>1 DEF SettingsInv, LoggerRead
  <2> QED
    BY <2>1, <2>2 DEF SettingsInv, LoggerRead, LoadHasJudged
<1>3. ASSUME SettingsInv, Bootstrap
      PROVE  SettingsInv'
  <2>1. stage = "edit" /\ stage' = "load" /\ env' = env
    BY <1>3 DEF Bootstrap
  <2>2. CASE /\ LoggerWanted
             /\ logger' = [on |-> TRUE, chat |-> Value("ERROR_LOG_CHAT_ID"),
                           thread |-> Value("ERROR_LOG_MESSAGE_THREAD_ID"), remind |-> ReminderRead]
    BY <2>1, <2>2 DEF SettingsInv, LoggerRead, LoadHasJudged, LoggerWanted, Value, ReminderRead
  <2>3. CASE UNCHANGED logger
    BY <1>3, <2>1, <2>3 DEF SettingsInv, LoggerRead, LoadHasJudged
  <2> QED
    BY <1>3, <2>2, <2>3 DEF Bootstrap
<1>4. ASSUME SettingsInv, Load
      PROVE  SettingsInv'
  <2>1. stage = "load" /\ env' = env /\ logger' = logger
    BY <1>4 DEF Load
  <2>2. LoggerRead'
    <3>1. stage' # "edit"
      BY <1>4 DEF Load
    <3> QED
      BY <1>4, <2>1, <3>1 DEF SettingsInv, LoggerRead, LoggerWanted, Value, ReminderRead
  <2> DEFINE wrong == {n \in DOMAIN Order : Wrong(Order[n])}
  <2>3. WrongKeys' = WrongKeys
    BY <2>1 DEF WrongKeys, Wrong, Value
  <2>4. CASE wrong = {} /\ stage' = "run"
    <3>1. WrongKeys = {}
      BY <2>4 DEF WrongKeys, Variables
    <3> QED
      BY <2>2, <2>3, <2>4, <3>1 DEF SettingsInv, LoadHasJudged
  <2>5. CASE /\ wrong # {} /\ stage' = "refused"
             /\ refused' = Order[CHOOSE n \in wrong : \A m \in wrong : n <= m]
    <3> SUFFICES ASSUME refused' \notin LogKeys, NEW key \in LogKeys, key \in WrongKeys
                 PROVE  FALSE
      BY <2>2, <2>3, <2>5 DEF SettingsInv, LoadHasJudged, LogKeys
    <3>1. PICK i \in 1 .. 3 : key = Order[i]
      BY LogVariables DEF LogKeys
    <3>2. i \in wrong
      BY <3>1, LogVariables DEF WrongKeys
    <3> HIDE DEF wrong
    <3>3. wrong \in SUBSET DOMAIN Order
      BY DEF wrong
    <3> QED
      BY <2>5, <3>2, <3>3, FirstWrong
  <2> QED
    BY <1>4, <2>4, <2>5 DEF Load
<1>5. ASSUME SettingsInv, UNCHANGED settings
      PROVE  SettingsInv'
  BY <1>5 DEF settings, SettingsInv, LoggerRead, LoadHasJudged, WrongKeys, LoggerWanted, Value,
     ReminderRead, Wrong
<1> QED
  BY <1>1, <1>2, <1>3, <1>4, <1>5 DEF SettingsNext

\* With no wrong variable of the log and a chat, bootstrap comes to its end.
LEMMA ChatMeansLogger ==
    ASSUME WrongKeys \cap LogKeys = {}, Value("ERROR_LOG_CHAT_ID") # 0
    PROVE  LoggerWanted
<1>1. \A key \in LogKeys : ~Wrong(key)
  BY LogVariables DEF WrongKeys, LogKeys, Variables
<1>2. env["BOT_TOKEN"] # Unset
  BY <1>1 DEF LogKeys, Wrong
<1>3. \A key \in LogKeys \ {"BOT_TOKEN"} : env[key] = Unset \/ IsNumber(env[key])
  BY <1>1, LogVariables DEF LogKeys, Wrong
<1>4. env["ERROR_LOG_CHAT_ID"] # Unset
  BY LogVariables DEF Value
<1> QED
  BY <1>2, <1>3, <1>4 DEF LogKeys, LoggerWanted

\* Bootstrap and Load have read the same in a bot that runs, and an error in
\* any other setting has the chat for errors to go to, if there is one.
THEOREM LoggerMatches == SettingsSpec => []LoggerAsConfigured
<1>1. ASSUME SettingsInv
      PROVE  LoggerAsConfigured
  <2>1. ASSUME stage = "run"
        PROVE  /\ Value("ERROR_LOG_CHAT_ID") # 0 => LoggerWanted
               /\ ReminderRead = Value("ERROR_LOG_REMINDER_MINUTES")
    <3> DEFINE minutes == Number(env["ERROR_LOG_REMINDER_MINUTES"])
    <3>1. WrongKeys = {}
      BY <1>1, <2>1 DEF SettingsInv, LoadHasJudged
    <3>2. ~Wrong("ERROR_LOG_REMINDER_MINUTES")
      BY <3>1, LogVariables DEF WrongKeys, NumberKeys
    <3>3. CASE env["ERROR_LOG_REMINDER_MINUTES"] = Unset
      <4>1. minutes = 0
        BY <3>3, NumbersRead
      <4>2. ReminderRead = 30 /\ Value("ERROR_LOG_REMINDER_MINUTES") = 30
        BY <3>3, <4>1, LogVariables DEF ReminderRead, Value
      <4> QED
        BY <3>1, <4>2, ChatMeansLogger
    <3>4. CASE env["ERROR_LOG_REMINDER_MINUTES"] # Unset
      <4>1. IsNumber(env["ERROR_LOG_REMINDER_MINUTES"])
        BY <3>2, <3>4, LogVariables DEF Wrong
      <4>2. Value("ERROR_LOG_REMINDER_MINUTES") = minutes
        BY <3>4 DEF Value
      <4>3. ~(minutes < 1) /\ minutes \in Int
        BY <3>2, <4>1, <4>2, LogVariables, NumbersRead DEF Wrong, Least
      <4>4. minutes > 0
        BY <4>3
      <4>5. ReminderRead = minutes
        BY <4>4 DEF ReminderRead
      <4> QED
        BY <3>1, <4>2, <4>5, ChatMeansLogger
    <3> QED
      BY <3>3, <3>4
  <2>2. ASSUME stage = "refused", refused \notin LogKeys, Value("ERROR_LOG_CHAT_ID") # 0
        PROVE  LoggerWanted
    BY <1>1, <2>2, ChatMeansLogger DEF SettingsInv, LoadHasJudged
  <2> QED
    BY <1>1, <2>1, <2>2 DEF SettingsInv, LoggerRead, LoggerAsConfigured, LogKeys
<1> QED
  BY <1>1, SettingsInvariant, PTL DEF SettingsSpec
=============================================================================
