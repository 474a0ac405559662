---------------------------- MODULE RateLimiter ----------------------------
(***************************************************************************)
(* internal/ratelimit: the sliding-window flood limiter shared by all      *)
(* workers of the dispatcher.                                              *)
(*                                                                         *)
(* Allow reads the clock first and takes the mutex afterwards, so a call   *)
(* is two steps, TakeNow and Decide, and other calls (or the cleanup) may  *)
(* run between them.  cleanup has the same two steps.  A history is a      *)
(* sequence of the messages it counted; stamp[m] is the time.Time the Go   *)
(* slice holds for message m.  A key that is absent from the Go map and a  *)
(* key with an empty slice behave alike; both are << >> here.              *)
(* A definition named Mut... is a faulty variant of the definition below   *)
(* it, used to see that the properties notice the fault.                   *)
(***************************************************************************)
EXTENDS Naturals, Sequences, FiniteSets, Positions

CONSTANTS
    Messages,      \* the calls of Allow, one for every message that reaches it
    Keys,          \* (chat, user) pairs
    Limit,         \* Limiter.limit
    Window,        \* Limiter.window, in clock units
    WorkerCount,   \* calls of Allow that may be in progress together
    MaxTime        \* bound on the clock

ASSUME LimiterAssumption ==
    /\ Limit \in Nat \ {0}        \* config.Load refuses RATE_LIMIT_COUNT < 1
    /\ Window \in Nat \ {0}       \* and RATE_LIMIT_WINDOW_SECONDS < 1
    /\ WorkerCount \in Nat \ {0}
    /\ MaxTime \in Nat

VARIABLES
    clock,         \* time.Now()
    sender,        \* key of each message
    stage,         \* progress of each message through Allow
    stamp,         \* the local variable now of each call
    records,       \* Limiter.records
    sweep,         \* the cleanup goroutine: has it read the clock, and when
    horizon,       \* history: the latest now that was used under the mutex
    found,         \* history: the horizon each decision found under the mutex
    sweeps         \* history: has cleanup run yet

vars == <<clock, sender, stage, stamp, records, sweep, horizon, found, sweeps>>

Stages == {"new", "sampled", "allowed", "flooded"}

Init ==
    /\ clock = 0
    /\ sender \in [Messages -> Keys]
    /\ stage = [m \in Messages |-> "new"]
    /\ stamp = [m \in Messages |-> 0]
    /\ records = [k \in Keys |-> << >>]
    /\ sweep = [ready |-> FALSE, at |-> 0]
    /\ horizon = 0
    /\ found = [m \in Messages |-> 0]
    /\ sweeps = FALSE

-----------------------------------------------------------------------------
Later(a, b) == IF a > b THEN a ELSE b

\* t.After(cutoff) for the entry of message m, with cutoff = now - Window.
MutShortWindow(m, now) == stamp[m] + Window > now + 1
MutNeverExpires(m, now) == TRUE
After(m, now) == stamp[m] + Window > now

\* Positions of a history that are inside the window ending at now.
Kept(history, now) == {i \in DOMAIN history : After(history[i], now)}

\* filterAfter: the entries inside the window, in their order.
filterAfter(history, now) == Picked(history, Kept(history, now))

\* filterAfter compacts the backing array in place.  A slice header taken
\* before the call still spans the old length: it sees the kept entries at the
\* front and, behind them, whatever the array held there before.
OldHeader(history, now) ==
    LET fresh == filterAfter(history, now)
    IN  fresh \o SubSeq(history, Len(fresh) + 1, Len(history))

-----------------------------------------------------------------------------
Tick ==
    /\ clock < MaxTime
    /\ clock' = clock + 1
    /\ UNCHANGED <<sender, stage, stamp, records, sweep, horizon, found, sweeps>>

MutNow == clock + Window
Now == clock

MutOverLimit(fresh) == Len(fresh) > Limit
OverLimit(fresh) == Len(fresh) >= Limit

\* Allow up to l.mu.Lock(): now := time.Now(), still outside the mutex.
TakeNow(m) ==
    /\ stage[m] = "new"
    /\ Cardinality({x \in Messages : stage[x] = "sampled"}) < WorkerCount
    /\ stage' = [stage EXCEPT ![m] = "sampled"]
    /\ stamp' = [stamp EXCEPT ![m] = Now]
    /\ UNCHANGED <<clock, sender, records, sweep, horizon, found, sweeps>>

\* Allow inside the mutex.
Decide(m) ==
    /\ stage[m] = "sampled"
    /\ LET k     == sender[m]
           fresh == filterAfter(records[k], stamp[m])
       IN  IF OverLimit(fresh)
           THEN /\ records' = [records EXCEPT ![k] = fresh]
                /\ stage' = [stage EXCEPT ![m] = "flooded"]
           ELSE /\ records' = [records EXCEPT ![k] = Append(fresh, m)]
                /\ stage' = [stage EXCEPT ![m] = "allowed"]
    /\ horizon' = Later(horizon, stamp[m])
    /\ found' = [found EXCEPT ![m] = horizon]
    /\ UNCHANGED <<clock, sender, stamp, sweep, sweeps>>

\* cleanup before its mutex: cutoff := time.Now().Add(-l.window).
SweepNow ==
    /\ ~sweep.ready
    /\ sweep' = [ready |-> TRUE, at |-> clock]
    /\ UNCHANGED <<clock, sender, stage, stamp, records, horizon, found, sweeps>>

\* cleanup inside its mutex: a key whose history is out of the window is
\* deleted; every other key keeps the slice header it had before filterAfter.
Sweep ==
    /\ sweep.ready
    /\ records' = [k \in Keys |->
                     IF Kept(records[k], sweep.at) = {}
                     THEN << >>
                     ELSE OldHeader(records[k], sweep.at)]
    /\ horizon' = Later(horizon, sweep.at)
    /\ sweep' = [sweep EXCEPT !.ready = FALSE]
    /\ sweeps' = TRUE
    /\ UNCHANGED <<clock, sender, stage, stamp, found>>

Next ==
    \/ Tick
    \/ \E m \in Messages : TakeNow(m) \/ Decide(m)
    \/ SweepNow
    \/ Sweep

Spec == Init /\ [][Next]_vars

-----------------------------------------------------------------------------
\* Every variable has its type, and no sampled time is in the future.
TypeOK ==
    /\ clock \in Nat
    /\ sender \in [Messages -> Keys]
    /\ stage \in [Messages -> Stages]
    /\ stamp \in [Messages -> Nat]
    /\ \A m \in Messages : stamp[m] <= clock
    /\ records \in [Keys -> Seq(Messages)]
    /\ sweep \in [ready : BOOLEAN, at : Nat]
    /\ sweep.at <= clock
    /\ horizon \in Nat
    /\ found \in [Messages -> Nat]
    /\ sweeps \in BOOLEAN

Entries(k) == {records[k][i] : i \in DOMAIN records[k]}

Accepted(k) == {m \in Messages : stage[m] = "allowed" /\ sender[m] = k}

\* The messages of key k accepted inside the window that ends at time t.
AcceptedSince(k, t) == {m \in Accepted(k) : stamp[m] + Window > t}

\* No accepted message is forgotten while it still counts: neither a stale
\* now of another worker nor the cleanup may drop an entry that is inside the
\* window ending at the latest time used so far.
RecentKept ==
    \A k \in Keys : AcceptedSince(k, horizon) \subseteq Entries(k)

\* The messages of key k accepted inside the window (t - Window, t].
AcceptedIn(k, t) == {m \in AcceptedSince(k, t) : stamp[m] <= t}

\* m was decided after a later time than t had been used under the mutex.
Overtaken(m, t) == found[m] > t

\* How far the limit holds, for every window of the past and not only for the
\* latest one.  Of the messages accepted in a window, at most Limit were
\* decided while nobody had used a time behind the window.  The others held a
\* now from inside the window and lost the race for the mutex to a later one,
\* whose cutoff took entries away that they should have counted; there are at
\* most as many of them as Allow has callers at a time.
WindowLimit ==
    \A k \in Keys, t \in 0 .. clock :
        /\ Cardinality({m \in AcceptedIn(k, t) : ~Overtaken(m, t)}) <= Limit
        /\ Cardinality({m \in AcceptedIn(k, t) : Overtaken(m, t)}) <= WorkerCount

\* What the comment on New promises: no more than Limit messages within a
\* Window.  A now that is read before the mutex breaks this.
LimitKept ==
    \A k \in Keys, t \in 0 .. clock : Cardinality(AcceptedIn(k, t)) <= Limit

\* Nobody is banned for a message that stands alone: a flooded message has an
\* accepted one of the same sender inside its window.
FloodHasPredecessor ==
    \A m \in Messages :
        stage[m] = "flooded" => AcceptedSince(sender[m], stamp[m]) # {}

\* What the comment on Allow promises: it returns false when the user went
\* over the limit of messages in the window.  Cleanup breaks this (see
\* OldHeader): it leaves duplicates of live entries in the slots of dead ones.
FloodJustified ==
    \A m \in Messages :
        stage[m] = "flooded" =>
            Cardinality(AcceptedSince(sender[m], stamp[m])) >= Limit

\* The promise holds as long as the cleanup has not run.
FloodJustifiedBeforeSweep == ~sweeps => FloodJustified
=============================================================================
