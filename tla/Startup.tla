------------------------------ MODULE Startup ------------------------------
(***************************************************************************)
(* Connecting to PostgreSQL at the start: storage.New with pingWithRetry,  *)
(* called once by run() with a context of dbInitTimeout.  In docker-       *)
(* compose the bot is often up before the database, so it pings several    *)
(* times with pauses; if that fails it goes on without a database for      *)
(* good.  Time is counted in seconds.  A definition named Mut... is a      *)
(* faulty variant of the one below it, used to see that the properties     *)
(* notice it.                                                              *)
(***************************************************************************)
EXTENDS Naturals

CONSTANTS
    PingMaxAttempts,   \* pingMaxAttempts
    PingRetryDelay,    \* pingRetryDelay
    DbInitTimeout,     \* dbInitTimeout
    MaxPing            \* bound on the time a ping takes to fail

\* The timeout leaves room for every pause: 5 of 2 seconds within 30.
ASSUME StartupAssumption ==
    /\ PingMaxAttempts \in Nat \ {0}
    /\ PingRetryDelay \in Nat
    /\ DbInitTimeout \in Nat
    /\ DbInitTimeout > (PingMaxAttempts - 1) * PingRetryDelay
    /\ MaxPing \in Nat

VARIABLES
    step,          \* where New is: "pool", "ping", "pause", "migrate", "open", "failed"
    attempt,       \* the attempt pingWithRetry is at
    clock,         \* time since New was called
    upSince,       \* when PostgreSQL accepts connections
    pool,          \* "none", "open" or "closed"
    interrupted,   \* a signal has cancelled the context
    hung,          \* history: a ping has taken time
    reason         \* why New failed

connection == <<step, attempt, clock, upSince, pool, interrupted, hung, reason>>

ConnectionInit ==
    /\ step = "pool"
    /\ attempt = 0
    /\ clock = 0
    /\ upSince \in 0 .. DbInitTimeout
    /\ pool = "none"
    /\ interrupted = FALSE
    /\ hung = FALSE
    /\ reason = "none"

ContextDone == interrupted \/ clock >= DbInitTimeout

Fail(why) == step' = "failed" /\ reason' = why

\* pgxpool.New parses the DSN and connects to nothing yet.
OpenPool ==
    /\ step = "pool"
    /\ \/ step' = "ping" /\ attempt' = 1 /\ pool' = "open" /\ UNCHANGED reason
       \/ Fail("dsn") /\ UNCHANGED <<attempt, pool>>
    /\ UNCHANGED <<clock, upSince, interrupted, hung>>

\* pool.Ping: it works as soon as the database is up, and fails, at once or
\* after a while, if not; only the context limits how long it takes.
Ping ==
    /\ step = "ping"
    /\ \/ /\ clock >= upSince /\ ~ContextDone
          /\ step' = "migrate"
          /\ UNCHANGED <<clock, hung>>
       \/ /\ clock < upSince \/ ContextDone
          /\ \E d \in 0 .. MaxPing :
                /\ clock + d <= DbInitTimeout
                /\ clock' = clock + d
                /\ hung' = (hung \/ d > 0)
          /\ step' = "pause"
    /\ UNCHANGED <<attempt, upSince, pool, interrupted, reason>>

\* The loop ends with this attempt.
MutLastAttempt == attempt + 1 = PingMaxAttempts
LastAttempt == attempt = PingMaxAttempts

\* The select after a failed ping: the context is done, or the pause is over
\* and the loop goes on or ends.  New closes the pool.
Pause ==
    /\ step = "pause"
    /\ \/ /\ ContextDone \/ clock + PingRetryDelay >= DbInitTimeout
          /\ clock' = IF interrupted THEN clock ELSE DbInitTimeout
          /\ pool' = "closed"
          /\ Fail("context")
          /\ UNCHANGED attempt
       \/ /\ ~interrupted /\ clock + PingRetryDelay <= DbInitTimeout
          /\ clock' = clock + PingRetryDelay
          /\ IF LastAttempt
             THEN pool' = "closed" /\ Fail("attempts") /\ UNCHANGED attempt
             ELSE /\ attempt' = attempt + 1
                  /\ step' = "ping"
                  /\ UNCHANGED <<pool, reason>>
    /\ UNCHANGED <<upSince, interrupted, hung>>

\* pool.Exec of the migration.
Migrate ==
    /\ step = "migrate"
    /\ \/ ~ContextDone /\ step' = "open" /\ UNCHANGED <<pool, reason>>
       \/ Fail("migration") /\ pool' = "closed"
    /\ UNCHANGED <<attempt, clock, upSince, interrupted, hung>>

\* SIGINT or SIGTERM while New works.
Interrupt ==
    /\ step \notin {"open", "failed"} /\ ~interrupted
    /\ interrupted' = TRUE
    /\ UNCHANGED <<step, attempt, clock, upSince, pool, hung, reason>>

ConnectionNext == OpenPool \/ Ping \/ Pause \/ Migrate \/ Interrupt

ConnectionSpec == ConnectionInit /\ [][ConnectionNext]_connection

-----------------------------------------------------------------------------
\* The comment on pingMaxAttempts: the bot waits for a database that starts
\* later.  If every refusal comes at once, a database that is up before the
\* last attempt is not given up; whichever of the steps fails, no pool is left
\* open behind, and a store is returned only with a pool that is open.
DatabaseAwaited ==
    /\ step = "failed" /\ reason \in {"attempts", "context"} /\ ~interrupted /\ ~hung =>
          upSince > (PingMaxAttempts - 1) * PingRetryDelay
    /\ step = "failed" => pool # "open"
    /\ step = "open" => pool = "open"
=============================================================================
