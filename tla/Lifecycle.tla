----------------------------- MODULE Lifecycle -----------------------------
(***************************************************************************)
(* The life of the process: run() of cmd/bot/main.go from the              *)
(* configuration to the deferred calls, runWebhook, the workers that       *)
(* Dispatcher.Wait waits for, and the error logger of internal/tglog,      *)
(* whose sender and reminder goroutines and queue main closes last.        *)
(*                                                                         *)
(* Handlers, learning goroutines, captcha timers and auto-deletions are    *)
(* strays: nothing waits for them and they may log an error at any time.   *)
(* Logging an error is two steps, the incident under the mutex and the     *)
(* message into the queue after it.  Only the length of the queue matters, *)
(* not what it holds.  A definition named Mut... is a faulty variant of    *)
(* the definition below it, used to see that the properties notice it.     *)
(***************************************************************************)
EXTENDS Naturals, FiniteSets

CONSTANTS
    Workers,       \* worker goroutines of the dispatcher
    Strays,        \* goroutines nothing waits for
    Main,          \* the main goroutine
    Reminder,      \* the reminder goroutine of the logger
    QueueCap,      \* capacity of notifier.queue
    Webhook,       \* is WEBHOOK_URL set
    MaxOutages     \* bound on failures of the database while the bot runs

ASSUME LifecycleAssumption ==
    /\ QueueCap \in Nat \ {0}
    /\ Webhook \in BOOLEAN
    /\ MaxOutages \in Nat
    /\ Workers \cap Strays = {}
    /\ Main \notin Workers \cup Strays
    /\ Reminder \notin Workers \cup Strays \cup {Main}

VARIABLES
    main,          \* where main is
    worker,        \* state of each worker
    store,         \* the connection pool: "none", "open" or "closed"
    cancelled,     \* the context is done
    dbUp,          \* does PostgreSQL answer
    incidents,     \* incidentRegistry: keys of the active incidents
    note,          \* the message a goroutine is about to enqueue, or "none"
    queued,        \* number of messages in notifier.queue
    stopClosed,    \* notifier.stop is closed
    queueClosed,   \* notifier.queue is closed
    sender,        \* the sender goroutine
    reminder,      \* the reminder goroutine
    due,           \* incidents it has yet to remind of
    crashed,       \* a goroutine sent on the closed queue: the process panics
    culprit,       \* history: the goroutine that did
    alerts,        \* history: alerts per key
    resolved,      \* history: recoveries per key
    outages        \* history: failures of the database

loggerVars == <<incidents, note, alerts, resolved>>
channelVars == <<queued, stopClosed, queueClosed>>
crashVars == <<crashed, culprit>>
dbVars == <<dbUp, outages>>
vars == <<main, worker, store, cancelled, dbVars, loggerVars, channelVars,
          sender, reminder, due, crashVars>>

Keys == {"database", "config", "other"}
MainSteps == {"config", "store", "bot", "serve", "wait", "closeStore", "cancel",
              "stopLog", "closeQueue", "drain", "exited"}
Loggers == Workers \cup Strays \cup {Main}

Init ==
    /\ main = "config"
    /\ worker = [w \in Workers |-> "off"]
    /\ store = "none"
    /\ cancelled = FALSE
    /\ dbUp \in BOOLEAN
    /\ incidents = {}
    /\ note = [g \in Loggers |-> "none"]
    /\ queued = 0
    /\ stopClosed = FALSE
    /\ queueClosed = FALSE
    /\ sender = "wait"
    /\ reminder = "wait"
    /\ due = {}
    /\ crashed = FALSE
    /\ culprit = Main
    /\ alerts = [k \in Keys |-> 0]
    /\ resolved = [k \in Keys |-> 0]
    /\ outages = 0

Ended == main = "exited" \/ crashed

-----------------------------------------------------------------------------
\* upsertIncident: is the incident new, or active already.
MutIsNew(k) == TRUE
IsNew(k) == k \notin incidents

\* Handle of an error record: an active incident is only updated, a new one is
\* an alert that the goroutine g then enqueues.
LogError(g, k) ==
    /\ incidents' = incidents \cup {k}
    /\ note' = [note EXCEPT ![g] = IF IsNew(k) THEN k ELSE "none"]
    /\ alerts' = [alerts EXCEPT ![k] = IF IsNew(k) THEN @ + 1 ELSE @]
    /\ UNCHANGED resolved

\* Handle of a recovery record: resolveIncident of an active incident.
LogRecovery(g, k) ==
    /\ incidents' = incidents \ {k}
    /\ note' = [note EXCEPT ![g] = IF k \in incidents THEN k ELSE "none"]
    /\ resolved' = [resolved EXCEPT ![k] = IF k \in incidents THEN @ + 1 ELSE @]
    /\ UNCHANGED alerts

MutHasRoom == queued <= QueueCap
HasRoom == queued < QueueCap

\* enqueue: a full queue drops the message, a closed one panics.
Send(g) ==
    IF queueClosed
    THEN crashed' = TRUE /\ culprit' = g /\ UNCHANGED queued
    ELSE queued' = (IF HasRoom THEN queued + 1 ELSE queued) /\ UNCHANGED crashVars

Enqueue(g) ==
    /\ ~Ended
    /\ note[g] # "none"
    /\ Send(g)
    /\ note' = [note EXCEPT ![g] = "none"]
    /\ UNCHANGED <<main, worker, store, cancelled, dbVars, incidents, alerts, resolved,
                   stopClosed, queueClosed, sender, reminder, due>>

-----------------------------------------------------------------------------
\* main is at step s and not inside a call of the logger.
MainAt(s) == ~crashed /\ main = s /\ note[Main] = "none"

\* config.Load; on an error run() returns and only the logger is closed.
LoadConfig ==
    /\ MainAt("config")
    /\ \/ main' = "store" /\ UNCHANGED loggerVars
       \/ main' = "stopLog" /\ LogError(Main, "config")
    /\ UNCHANGED <<worker, store, cancelled, dbVars, channelVars, sender, reminder, due, crashVars>>

\* storage.New, once, unless there is no DSN.  It can fail with a database that
\* answers, for the DSN, the migration or the time it takes (see Startup); the
\* bot then goes on without one.
ConnectStore ==
    /\ MainAt("store")
    /\ main' = "bot"
    /\ \/ UNCHANGED <<store, loggerVars>>
       \/ dbUp /\ store' = "open" /\ LogRecovery(Main, "database")
       \/ LogError(Main, "database") /\ UNCHANGED store
    /\ UNCHANGED <<worker, cancelled, dbVars, channelVars, sender, reminder, due, crashVars>>

\* tgbot.New; then the handlers, Dispatcher.Start and the message that the bot
\* runs, or run() returns.
StartBot ==
    /\ MainAt("bot")
    /\ \/ /\ main' = "serve"
          /\ worker' = [w \in Workers |-> "run"]
          /\ LogRecovery(Main, "config")
       \/ /\ main' = "closeStore"
          /\ LogError(Main, "other")
          /\ UNCHANGED worker
    /\ UNCHANGED <<store, cancelled, dbVars, channelVars, sender, reminder, due, crashVars>>

\* b.Start or runWebhook: it returns when the context is done, runWebhook also
\* when setWebhook or the HTTP server fails.
Serve ==
    /\ MainAt("serve")
    /\ main' = "wait"
    /\ \/ cancelled /\ UNCHANGED loggerVars
       \/ Webhook /\ LogError(Main, "other")
    /\ UNCHANGED <<worker, store, cancelled, dbVars, channelVars, sender, reminder, due, crashVars>>

\* The WaitGroup of the dispatcher is at zero.
MutAllDone == TRUE
AllDone == \A w \in Workers : worker[w] # "run" /\ note[w] = "none"

\* Dispatcher.Wait.
Wait ==
    /\ MainAt("wait")
    /\ AllDone
    /\ main' = "closeStore"
    /\ UNCHANGED <<worker, store, cancelled, dbVars, loggerVars, channelVars, sender, reminder,
                   due, crashVars>>

\* The deferred calls in their order: store.Close, cancel, closeFn.
CloseStore ==
    /\ MainAt("closeStore")
    /\ main' = "cancel"
    /\ store' = IF store = "open" THEN "closed" ELSE store
    /\ UNCHANGED <<worker, cancelled, dbVars, loggerVars, channelVars, sender, reminder, due, crashVars>>

DeferredCancel ==
    /\ MainAt("cancel")
    /\ main' = "stopLog"
    /\ cancelled' = TRUE
    /\ UNCHANGED <<worker, store, dbVars, loggerVars, channelVars, sender, reminder, due, crashVars>>

\* closeFn: close(stop), close(queue), wait for sender and reminder.
CloseStop ==
    /\ MainAt("stopLog")
    /\ main' = "closeQueue"
    /\ stopClosed' = TRUE
    /\ UNCHANGED <<worker, store, cancelled, dbVars, loggerVars, queued, queueClosed, sender,
                   reminder, due, crashVars>>

CloseQueue ==
    /\ MainAt("closeQueue")
    /\ main' = "drain"
    /\ queueClosed' = TRUE
    /\ UNCHANGED <<worker, store, cancelled, dbVars, loggerVars, queued, stopClosed, sender,
                   reminder, due, crashVars>>

Drain ==
    /\ MainAt("drain")
    /\ sender = "done" /\ reminder = "done"
    /\ main' = "exited"
    /\ UNCHANGED <<worker, store, cancelled, dbVars, loggerVars, channelVars, sender, reminder,
                   due, crashVars>>

-----------------------------------------------------------------------------
\* An error of the database is one of key "database" while it is down.
Possible(k) == k = "other" \/ (k = "database" /\ ~dbUp /\ store # "none")

\* A worker logs an error while it processes an update.
WorkerError(w, k) ==
    /\ ~Ended
    /\ worker[w] = "run" /\ note[w] = "none"
    /\ Possible(k)
    /\ LogError(w, k)
    /\ UNCHANGED <<main, worker, store, cancelled, dbVars, channelVars, sender, reminder, due, crashVars>>

WorkerStop(w) ==
    /\ ~Ended
    /\ worker[w] = "run" /\ note[w] = "none"
    /\ cancelled
    /\ worker' = [worker EXCEPT ![w] = "stopped"]
    /\ UNCHANGED <<main, store, cancelled, dbVars, loggerVars, channelVars, sender, reminder,
                   due, crashVars>>

\* A stray logs an error, at any time after updates began to arrive.
StrayError(s, k) ==
    /\ ~Ended
    /\ \E w \in Workers : worker[w] # "off"
    /\ note[s] = "none"
    /\ Possible(k)
    /\ LogError(s, k)
    /\ UNCHANGED <<main, worker, store, cancelled, dbVars, channelVars, sender, reminder, due, crashVars>>

-----------------------------------------------------------------------------
\* The goroutines of the logger read from stop.
MutStopSeen == FALSE
StopSeen == stopClosed

\* The sender goroutine: it takes a message and sends it, whatever comes of it.
SenderTake ==
    /\ ~Ended
    /\ sender = "wait" /\ queued > 0
    /\ queued' = queued - 1
    /\ sender' = "send"
    /\ UNCHANGED <<main, worker, store, cancelled, dbVars, loggerVars, stopClosed, queueClosed,
                   reminder, due, crashVars>>

SenderSent ==
    /\ ~Ended
    /\ sender = "send"
    /\ sender' = "wait"
    /\ UNCHANGED <<main, worker, store, cancelled, dbVars, loggerVars, channelVars, reminder,
                   due, crashVars>>

SenderStop ==
    /\ ~Ended
    /\ sender = "wait"
    /\ StopSeen \/ (queueClosed /\ queued = 0)
    /\ sender' = "done"
    /\ UNCHANGED <<main, worker, store, cancelled, dbVars, loggerVars, channelVars, reminder,
                   due, crashVars>>

\* The reminder goroutine: at a tick it notes under the mutex which active
\* incidents are due, and enqueues the reminders after it.
RemindScan ==
    /\ ~Ended
    /\ reminder = "wait"
    /\ due' \in SUBSET incidents \ {{}}
    /\ reminder' = "send"
    /\ UNCHANGED <<main, worker, store, cancelled, dbVars, loggerVars, channelVars, sender, crashVars>>

RemindSend(k) ==
    /\ ~Ended
    /\ reminder = "send" /\ k \in due
    /\ Send(Reminder)
    /\ due' = due \ {k}
    /\ reminder' = IF due = {k} THEN "wait" ELSE "send"
    /\ UNCHANGED <<main, worker, store, cancelled, dbVars, loggerVars, stopClosed, queueClosed, sender>>

RemindStop ==
    /\ ~Ended
    /\ reminder = "wait"
    /\ StopSeen
    /\ reminder' = "done"
    /\ UNCHANGED <<main, worker, store, cancelled, dbVars, loggerVars, channelVars, sender, due, crashVars>>

-----------------------------------------------------------------------------
\* SIGTERM or SIGINT while signal.NotifyContext listens.
Signal ==
    /\ ~Ended /\ ~cancelled
    /\ main \in {"store", "bot", "serve", "wait", "closeStore", "cancel"}
    /\ cancelled' = TRUE
    /\ UNCHANGED <<main, worker, store, dbVars, loggerVars, channelVars, sender, reminder, due, crashVars>>

\* PostgreSQL goes down, or comes back.
Outage ==
    /\ ~Ended /\ dbUp /\ outages < MaxOutages
    /\ dbUp' = FALSE
    /\ outages' = outages + 1
    /\ UNCHANGED <<main, worker, store, cancelled, loggerVars, channelVars, sender, reminder, due, crashVars>>

DbBack ==
    /\ ~Ended /\ ~dbUp
    /\ dbUp' = TRUE
    /\ UNCHANGED <<main, worker, store, cancelled, outages, loggerVars, channelVars, sender,
                   reminder, due, crashVars>>

MainGoroutine ==
    \/ Enqueue(Main) \/ LoadConfig \/ ConnectStore \/ StartBot \/ Serve \/ Wait
    \/ CloseStore \/ DeferredCancel \/ CloseStop \/ CloseQueue \/ Drain

WorkerGoroutine(w) == Enqueue(w) \/ WorkerStop(w) \/ \E k \in Keys : WorkerError(w, k)

SenderGoroutine == SenderTake \/ SenderSent \/ SenderStop

ReminderGoroutine == RemindScan \/ RemindStop \/ \E k \in Keys : RemindSend(k)

Next ==
    \/ MainGoroutine
    \/ \E w \in Workers : WorkerGoroutine(w)
    \/ \E s \in Strays : Enqueue(s) \/ \E k \in Keys : StrayError(s, k)
    \/ SenderGoroutine \/ ReminderGoroutine
    \/ Signal \/ Outage \/ DbBack

\* Goroutines that can run do run.  Nothing makes a signal come, an error
\* happen or the database return.
Fairness ==
    /\ WF_vars(MainGoroutine)
    /\ \A w \in Workers : WF_vars(WorkerGoroutine(w))
    /\ WF_vars(SenderGoroutine)
    /\ WF_vars(ReminderGoroutine)

Spec == Init /\ [][Next]_vars /\ Fairness

-----------------------------------------------------------------------------
\* Every variable has its type.
TypeOK ==
    /\ main \in MainSteps
    /\ worker \in [Workers -> {"off", "run", "stopped"}]
    /\ store \in {"none", "open", "closed"}
    /\ cancelled \in BOOLEAN /\ dbUp \in BOOLEAN
    /\ incidents \subseteq Keys
    /\ note \in [Loggers -> Keys \cup {"none"}]
    /\ queued \in 0 .. QueueCap
    /\ stopClosed \in BOOLEAN /\ queueClosed \in BOOLEAN
    /\ sender \in {"wait", "send", "done"}
    /\ reminder \in {"wait", "send", "done"}
    /\ due \subseteq Keys
    /\ crashed \in BOOLEAN
    /\ culprit \in Loggers \cup {Reminder}
    /\ alerts \in [Keys -> Nat] /\ resolved \in [Keys -> Nat]
    /\ outages \in 0 .. MaxOutages

\* The chat is told of an incident once, however many goroutines run into it at
\* the same time: a second alert needs a recovery in between.
OneAlertPerIncident == \A k \in Keys : alerts[k] <= resolved[k] + 1

\* Wait keeps the workers and main out of the race between the closing logger
\* and late errors: a send on the closed queue, which ends the process with a
\* panic, can only come from a stray or from the reminder goroutine.
PanicOnlyFromStrays == crashed => culprit \in Strays \cup {Reminder}

\* The pool is closed only when no worker will ask it again.
StoreOutlivesWorkers ==
    store = "closed" => \A w \in Workers : worker[w] # "run"

\* After a signal the process comes to an end, one way or the other.
SignalEndsProcess == cancelled ~> Ended

\* The comment on Wait: it is for the time after the context was cancelled, so
\* it returns when the workers have finished.
WaitReturns == main = "wait" ~> (main # "wait" \/ crashed)
=============================================================================
