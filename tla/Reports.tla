------------------------------ MODULE Reports ------------------------------
(***************************************************************************)
(* internal/reports (Tracker) and the /report command of cmd/bot/main.go.  *)
(*                                                                         *)
(* A member replies /report to a message while it is in the chat; the      *)
(* update is handled later by a goroutine of its own, so several reports   *)
(* of the same message may be under way when the first of them bans the    *)
(* author.  Report is atomic under the mutex; cleanup reads the clock      *)
(* before it takes the mutex and is two steps.  A definition named Mut...  *)
(* is a faulty variant of the definition below it, used to see that the    *)
(* properties notice the fault.                                            *)
(***************************************************************************)
EXTENDS Naturals, FiniteSets

CONSTANTS
    Users,         \* chat members
    Messages,      \* (chat, message) pairs that get reported
    Threshold,     \* Tracker.threshold
    TTL,           \* Tracker.ttl, in clock units
    NoRecord,      \* no entry for a message
    MaxTime,       \* bound on the clock
    MaxReports     \* bound on the reports of a message

ASSUME ReportsAssumption ==
    /\ Threshold \in Nat /\ Threshold >= 2     \* config.Load
    /\ TTL \in Nat
    /\ MaxTime \in Nat
    /\ MaxReports \in Nat
    /\ NoRecord \notin [reporters : SUBSET Users, createdAt : Nat]

VARIABLES
    clock,         \* time.Now()
    author,        \* the author of each message
    present,       \* messages that are still in the chat
    inflight,      \* reports sent and not yet handled
    records,       \* Tracker.records
    sweep,         \* the cleanup goroutine: has it read the clock, and when
    banning,       \* calls of BanSpammer under way, per message
    sent,          \* history: reports sent, per message
    handled,       \* history: reports counted by Report, per message
    triggers       \* history: reports that returned triggered, per message

chatVars == <<author, present, inflight, sent>>
vars == <<clock, chatVars, records, sweep, banning, handled, triggers>>

Record == [reporters : SUBSET Users, createdAt : Nat]

Init ==
    /\ clock = 0
    /\ author \in [Messages -> Users]
    /\ present = Messages
    /\ inflight = {}
    /\ records = [m \in Messages |-> NoRecord]
    /\ sweep = [ready |-> FALSE, at |-> 0]
    /\ banning = [m \in Messages |-> 0]
    /\ sent = [m \in Messages |-> 0]
    /\ handled = [m \in Messages |-> 0]
    /\ triggers = [m \in Messages |-> 0]

-----------------------------------------------------------------------------
Tick ==
    /\ clock < MaxTime
    /\ clock' = clock + 1
    /\ UNCHANGED <<chatVars, records, sweep, banning, handled, triggers>>

\* A member replies /report to a message he can see.
SendReport(u, m) ==
    /\ m \in present
    /\ <<u, m>> \notin inflight
    /\ sent[m] < MaxReports
    /\ inflight' = inflight \cup {<<u, m>>}
    /\ sent' = [sent EXCEPT ![m] = @ + 1]
    /\ UNCHANGED <<clock, author, present, records, sweep, banning, handled, triggers>>

CreatedNow == clock

\* The record Report works on, with the reporter added: an existing one, or a
\* new one created now.
WithReport(m, u) ==
    IF records[m] = NoRecord
    THEN [reporters |-> {u}, createdAt |-> CreatedNow]
    ELSE [records[m] EXCEPT !.reporters = @ \cup {u}]

MutAfterTrigger(rec) == rec     \* the entry is kept
\* The entry after a triggering report: delete(t.records, k).
AfterTrigger(rec) == NoRecord

MutReached(count) == count > Threshold
Reached(count) == count >= Threshold

\* Tracker.Report, and the handler's reaction: a triggering report calls
\* BanSpammer, any other is only acknowledged.
Report(u, m) ==
    LET rec       == WithReport(m, u)
        triggered == Reached(Cardinality(rec.reporters))
    IN  /\ handled' = [handled EXCEPT ![m] = @ + 1]
        /\ IF triggered
           THEN /\ records' = [records EXCEPT ![m] = AfterTrigger(rec)]
                /\ triggers' = [triggers EXCEPT ![m] = @ + 1]
                /\ banning' = [banning EXCEPT ![m] = @ + 1]
           ELSE /\ records' = [records EXCEPT ![m] = rec]
                /\ UNCHANGED <<triggers, banning>>

\* The /report handler runs for one report; nobody reports his own message.
HandleReport(u, m) ==
    /\ <<u, m>> \in inflight
    /\ inflight' = inflight \ {<<u, m>>}
    /\ \/ u = author[m] /\ UNCHANGED <<records, triggers, banning, handled>>
       \/ u # author[m] /\ Report(u, m)
    /\ UNCHANGED <<clock, author, present, sent, sweep>>

\* BanSpammer removes the message from the chat, or fails to.
FinishBan(m) ==
    /\ banning[m] > 0
    /\ banning' = [banning EXCEPT ![m] = @ - 1]
    /\ present' \in {present, present \ {m}}
    /\ UNCHANGED <<clock, author, inflight, sent, records, sweep, handled, triggers>>

\* cleanup before its mutex: cutoff := time.Now().Add(-t.ttl).
SweepNow ==
    /\ ~sweep.ready
    /\ sweep' = [ready |-> TRUE, at |-> clock]
    /\ UNCHANGED <<clock, chatVars, records, banning, handled, triggers>>

MutExpired(rec, now) == rec.createdAt <= now
\* rec.createdAt.Before(cutoff)
Expired(rec, now) == rec.createdAt + TTL < now

\* cleanup inside its mutex.
Sweep ==
    /\ sweep.ready
    /\ records' = [m \in Messages |->
                     IF records[m] # NoRecord /\ Expired(records[m], sweep.at)
                     THEN NoRecord
                     ELSE records[m]]
    /\ sweep' = [sweep EXCEPT !.ready = FALSE]
    /\ UNCHANGED <<clock, chatVars, banning, handled, triggers>>

Next ==
    \/ Tick
    \/ \E u \in Users, m \in Messages : SendReport(u, m) \/ HandleReport(u, m)
    \/ \E m \in Messages : FinishBan(m)
    \/ SweepNow
    \/ Sweep

Spec == Init /\ [][Next]_vars

-----------------------------------------------------------------------------
\* Every variable has its type, and no record is from the future.
TypeOK ==
    /\ clock \in Nat
    /\ author \in [Messages -> Users]
    /\ present \subseteq Messages
    /\ inflight \subseteq Users \X Messages
    /\ records \in [Messages -> Record \cup {NoRecord}]
    /\ \A m \in Messages : records[m] # NoRecord => records[m].createdAt <= clock
    /\ sweep \in [ready : BOOLEAN, at : Nat]
    /\ sweep.at <= clock
    /\ banning \in [Messages -> Nat]
    /\ sent \in [Messages -> Nat]
    /\ handled \in [Messages -> Nat]
    /\ triggers \in [Messages -> Nat]

Live(m) == IF records[m] = NoRecord THEN {} ELSE records[m].reporters

\* A record that stays in the map has not reached the threshold: no report
\* that should have banned the author is left unanswered.
LiveBelowThreshold == \A m \in Messages : Cardinality(Live(m)) < Threshold

\* Every ban is paid for: the bans of a message used up Threshold reports
\* each, and none of these is in the record that counts towards the next ban,
\* whatever the reporters repeat and whenever cleanup runs.
BansPaidByReports ==
    \A m \in Messages :
        triggers[m] * Threshold + Cardinality(Live(m)) <= handled[m]

\* cleanup takes a record only when its TTL is over, however late it gets the
\* mutex after it read the clock.
OnlyExpiredSwept ==
    [][\A m \in Messages :
          records[m] # NoRecord /\ records'[m] = NoRecord /\ handled' = handled =>
              records[m].createdAt + TTL < clock]_vars
=============================================================================
