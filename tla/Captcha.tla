------------------------------ MODULE Captcha ------------------------------
(***************************************************************************)
(* The "not a bot" check for new chat members: internal/captcha (Manager)  *)
(* together with the handlers of cmd/bot/captcha.go that drive it.         *)
(*                                                                         *)
(* Three kinds of goroutine meet in Manager.pending: the handler of a join *)
(* (mute, send the challenge, Track), the time.AfterFunc callback of that  *)
(* challenge (kick) and the handlers of button presses (Resolve, unmute).  *)
(* Every Telegram call is a step of its own and may fail; Telegram's own   *)
(* view of the member (in the chat or not, muted, banned) is modelled from *)
(* the calls the bot makes.  A definition named Mut... is a faulty variant *)
(* of the definition below it, used to see that the properties notice it.  *)
(***************************************************************************)
EXTENDS Naturals, FiniteSets

CONSTANTS
    Users,         \* (chat, user) pairs
    Joins,         \* join events; a join also names its challenge message
    Presses,       \* handlers of button presses that may run together
    None,          \* no join
    MaxFailures,   \* bound on failing Telegram calls
    MaxRestarts    \* bound on restarts of the bot

ASSUME CaptchaAssumption ==
    /\ None \notin Joins
    /\ MaxFailures \in Nat
    /\ MaxRestarts \in Nat

VARIABLES
    \* the bot
    handler,       \* handleNewChatMember of a join: its next step
    timer,         \* the AfterFunc timer of a join, then its onTimeout
    pending,       \* Manager.pending: the join whose challenge is open
    press,         \* captcha callback handlers: next step, user, message
    \* Telegram
    who,           \* the member of each join
    chat,          \* "in", "out" or "banned"
    muted,         \* are the member's rights restricted
    posted,        \* challenge messages that are in the chat
    \* history
    tracked,       \* challenges opened by Track, per user
    passed,        \* challenges ended by Resolve, per user
    kicked,        \* challenges ended by a timeout, per user
    endedBy,       \* the join whose timer ended the challenge of a join
    failures,      \* failed Telegram calls
    restarts       \* restarts of the bot

botVars == <<handler, timer, pending, press>>
chatVars == <<who, chat, muted, posted>>
history == <<tracked, passed, kicked, endedBy>>
vars == <<botVars, chatVars, history, failures, restarts>>

HandlerSteps == {"unused", "restrict", "send", "arm", "insert", "done"}
TimerSteps == {"off", "running", "stopped", "fired", "ban", "unban", "delete", "over"}
PressSteps == {"idle", "resolve", "unmute", "delete"}

Init ==
    /\ handler = [j \in Joins |-> "unused"]
    /\ timer = [j \in Joins |-> "off"]
    /\ pending = [u \in Users |-> None]
    /\ press \in [Presses -> [step : {"idle"}, user : Users, msg : {None}]]
    /\ who \in [Joins -> Users]
    /\ chat = [u \in Users |-> "out"]
    /\ muted = [u \in Users |-> FALSE]
    /\ posted = {}
    /\ tracked = [u \in Users |-> 0]
    /\ passed = [u \in Users |-> 0]
    /\ kicked = [u \in Users |-> 0]
    /\ endedBy = [j \in Joins |-> None]
    /\ failures = 0
    /\ restarts = 0

-----------------------------------------------------------------------------
\* A Telegram call fails: an error answer, or the context was cancelled.
Failed == failures < MaxFailures /\ failures' = failures + 1

Succeeded == UNCHANGED failures

\* The user enters the chat; Telegram reports it in NewChatMembers.
Join(j) ==
    /\ handler[j] = "unused"
    /\ chat[who[j]] = "out"
    /\ chat' = [chat EXCEPT ![who[j]] = "in"]
    /\ handler' = [handler EXCEPT ![j] = "restrict"]
    /\ UNCHANGED <<timer, pending, press, who, muted, posted, history, failures, restarts>>

\* The user leaves.  The bot has no handler for it: an open challenge stays,
\* and Telegram keeps the restriction for the next join.
Leave(u) ==
    /\ chat[u] = "in"
    /\ chat' = [chat EXCEPT ![u] = "out"]
    /\ UNCHANGED <<botVars, who, muted, posted, history, failures, restarts>>

\* handleNewChatMember: RestrictChatMember with no permissions; on an error
\* the newcomer is let in without a challenge.
Restrict(j) ==
    /\ handler[j] = "restrict"
    /\ \/ /\ Succeeded
          /\ muted' = [muted EXCEPT ![who[j]] = TRUE]
          /\ handler' = [handler EXCEPT ![j] = "send"]
       \/ /\ Failed
          /\ handler' = [handler EXCEPT ![j] = "done"]
          /\ UNCHANGED muted
    /\ UNCHANGED <<timer, pending, press, who, chat, posted, history, restarts>>

\* handleNewChatMember: SendMessage with the button; on an error the handler
\* returns and the member stays muted.
SendChallenge(j) ==
    /\ handler[j] = "send"
    /\ \/ /\ Succeeded
          /\ posted' = posted \cup {j}
          /\ handler' = [handler EXCEPT ![j] = "arm"]
       \/ /\ Failed
          /\ handler' = [handler EXCEPT ![j] = "done"]
          /\ UNCHANGED posted
    /\ UNCHANGED <<timer, pending, press, who, chat, muted, history, restarts>>

\* Track, first half: time.AfterFunc starts the timer outside the mutex.
MutTrackArm(j) ==
    /\ handler[j] = "arm"
    /\ handler' = [handler EXCEPT ![j] = "insert"]
    /\ UNCHANGED <<timer, pending, press, chatVars, history, failures, restarts>>

TrackArm(j) ==
    /\ handler[j] = "arm"
    /\ timer' = [timer EXCEPT ![j] = "running"]
    /\ handler' = [handler EXCEPT ![j] = "insert"]
    /\ UNCHANGED <<pending, press, chatVars, history, failures, restarts>>

\* Track, second half: the entry goes into pending under the mutex, replacing
\* whatever entry the key had; the timer of a replaced entry keeps running.
TrackInsert(j) ==
    /\ handler[j] = "insert"
    /\ pending' = [pending EXCEPT ![who[j]] = j]
    /\ handler' = [handler EXCEPT ![j] = "done"]
    /\ tracked' = [tracked EXCEPT ![who[j]] = @ + 1]
    /\ UNCHANGED <<timer, press, chatVars, passed, kicked, endedBy, failures, restarts>>

-----------------------------------------------------------------------------
\* The timeout elapses and the runtime starts the callback goroutine.  The
\* timeout is at least one second, so the insertion that follows the AfterFunc
\* call is assumed to be over.
Fire(j) ==
    /\ timer[j] = "running"
    /\ handler[j] = "done"
    /\ timer' = [timer EXCEPT ![j] = "fired"]
    /\ UNCHANGED <<handler, pending, press, chatVars, history, failures, restarts>>

\* _, stillPending := m.pending[k]
MutStillPending(u) == TRUE
StillPending(u) == pending[u] # None

\* The callback under the mutex: it deletes the entry of its key, whichever
\* challenge that entry belongs to, and goes on to onTimeout if there was one.
Timeout(j) ==
    LET u == who[j]
    IN  /\ timer[j] = "fired"
        /\ IF StillPending(u)
           THEN /\ kicked' = [kicked EXCEPT ![u] = @ + 1]
                /\ endedBy' = [endedBy EXCEPT ![pending[u]] = j]
                /\ pending' = [pending EXCEPT ![u] = None]
                /\ timer' = [timer EXCEPT ![j] = "ban"]
           ELSE /\ timer' = [timer EXCEPT ![j] = "over"]
                /\ UNCHANGED <<kicked, endedBy, pending>>
        /\ UNCHANGED <<handler, press, chatVars, tracked, passed, failures, restarts>>

\* onTimeout: BanChatMember; on an error it returns and the member stays.
MutKickBan(j) ==
    LET u == who[j]
    IN  /\ timer[j] = "ban"
        /\ chat' = [chat EXCEPT ![u] = "banned"]
        /\ muted' = [muted EXCEPT ![u] = FALSE]
        /\ timer' = [timer EXCEPT ![j] = "delete"]
        /\ UNCHANGED <<handler, pending, press, who, posted, history, failures, restarts>>

KickBan(j) ==
    LET u == who[j]
    IN  /\ timer[j] = "ban"
        /\ \/ /\ Succeeded
              /\ chat' = [chat EXCEPT ![u] = "banned"]
              /\ muted' = [muted EXCEPT ![u] = FALSE]
              /\ timer' = [timer EXCEPT ![j] = "unban"]
           \/ /\ Failed
              /\ timer' = [timer EXCEPT ![j] = "over"]
              /\ UNCHANGED <<chat, muted>>
        /\ UNCHANGED <<handler, pending, press, who, posted, history, restarts>>

\* onTimeout: UnbanChatMember with OnlyIfBanned; an error is only logged.
KickUnban(j) ==
    LET u == who[j]
    IN  /\ timer[j] = "unban"
        /\ \/ /\ Succeeded
              /\ chat' = [chat EXCEPT ![u] = IF @ = "banned" THEN "out" ELSE @]
           \/ /\ Failed
              /\ UNCHANGED chat
        /\ timer' = [timer EXCEPT ![j] = "delete"]
        /\ UNCHANGED <<handler, pending, press, who, muted, posted, history, restarts>>

\* onTimeout: DeleteMessage of the challenge; an error is only logged.
KickDelete(j) ==
    /\ timer[j] = "delete"
    /\ \/ Succeeded /\ posted' = posted \ {j}
       \/ Failed /\ UNCHANGED posted
    /\ timer' = [timer EXCEPT ![j] = "over"]
    /\ UNCHANGED <<handler, pending, press, who, chat, muted, history, restarts>>

-----------------------------------------------------------------------------
CallbackUser(j) == who[j]

\* A press of the button by the member it is meant for (any other sender only
\* gets an alert).
Press(p, j) ==
    /\ press[p].step = "idle"
    /\ j \in posted
    /\ chat[who[j]] = "in"
    /\ press' = [press EXCEPT ![p] = [step |-> "resolve", user |-> CallbackUser(j), msg |-> None]]
    /\ UNCHANGED <<handler, timer, pending, chatVars, history, failures, restarts>>

\* Manager.Resolve under the mutex.  Stop has no effect on a timer that has
\* fired.  Without an entry the handler answers and returns.
MutResolve(p) ==
    LET u == press[p].user
        j == pending[u]
    IN  /\ press[p].step = "resolve"
        /\ IF j # None
           THEN /\ timer' = [timer EXCEPT ![j] = IF @ = "running" THEN "stopped" ELSE @]
                /\ UNCHANGED pending
                /\ passed' = [passed EXCEPT ![u] = @ + 1]
                /\ press' = [press EXCEPT ![p].step = "unmute", ![p].msg = j]
           ELSE /\ press' = [press EXCEPT ![p].step = "idle"]
                /\ UNCHANGED <<timer, pending, passed>>
        /\ UNCHANGED <<handler, chatVars, tracked, kicked, endedBy, failures, restarts>>

Resolve(p) ==
    LET u == press[p].user
        j == pending[u]
    IN  /\ press[p].step = "resolve"
        /\ IF j # None
           THEN /\ timer' = [timer EXCEPT ![j] = IF @ = "running" THEN "stopped" ELSE @]
                /\ pending' = [pending EXCEPT ![u] = None]
                /\ passed' = [passed EXCEPT ![u] = @ + 1]
                /\ press' = [press EXCEPT ![p].step = "unmute", ![p].msg = j]
           ELSE /\ press' = [press EXCEPT ![p].step = "idle"]
                /\ UNCHANGED <<timer, pending, passed>>
        /\ UNCHANGED <<handler, chatVars, tracked, kicked, endedBy, failures, restarts>>

\* unmuteChatMember: GetChat for the chat's own permissions, then
\* RestrictChatMember with them; an error of either is only logged.
MutUnmute(p) ==
    /\ press[p].step = "unmute"
    /\ press' = [press EXCEPT ![p].step = "delete"]
    /\ UNCHANGED <<handler, timer, pending, chatVars, history, failures, restarts>>

Unmute(p) ==
    /\ press[p].step = "unmute"
    /\ \/ Succeeded /\ muted' = [muted EXCEPT ![press[p].user] = FALSE]
       \/ Failed /\ UNCHANGED muted
    /\ press' = [press EXCEPT ![p].step = "delete"]
    /\ UNCHANGED <<handler, timer, pending, who, chat, posted, history, restarts>>

\* The callback handler deletes the challenge message and answers.
DeleteChallenge(p) ==
    /\ press[p].step = "delete"
    /\ \/ Succeeded /\ posted' = posted \ {press[p].msg}
       \/ Failed /\ UNCHANGED posted
    /\ press' = [press EXCEPT ![p].step = "idle"]
    /\ UNCHANGED <<handler, timer, pending, who, chat, muted, history, restarts>>

\* The process stops and starts again: handlers, timers and pending are only
\* in memory.  Joins already reported by Telegram are not reported again.
Restart ==
    /\ restarts < MaxRestarts
    /\ restarts' = restarts + 1
    /\ handler' = [j \in Joins |-> IF handler[j] = "unused" THEN "unused" ELSE "done"]
    /\ timer' = [j \in Joins |-> IF timer[j] = "off" THEN "off" ELSE "over"]
    /\ pending' = [u \in Users |-> None]
    /\ press' = [p \in Presses |-> [press[p] EXCEPT !.step = "idle"]]
    /\ UNCHANGED <<chatVars, history, failures>>

-----------------------------------------------------------------------------
JoinHandler(j) == Restrict(j) \/ SendChallenge(j) \/ TrackArm(j) \/ TrackInsert(j)

TimerGoroutine(j) == Fire(j) \/ Timeout(j) \/ KickBan(j) \/ KickUnban(j) \/ KickDelete(j)

PressHandler(p) == Resolve(p) \/ Unmute(p) \/ DeleteChallenge(p)

Next ==
    \/ \E j \in Joins : Join(j) \/ JoinHandler(j) \/ TimerGoroutine(j)
    \/ \E u \in Users : Leave(u)
    \/ \E p \in Presses : PressHandler(p) \/ \E j \in Joins : Press(p, j)
    \/ Restart

\* Goroutines that can run do run, and a running timer fires: the Go scheduler
\* and runtime timers.  Nothing makes users join, leave or press the button.
Fairness ==
    /\ \A j \in Joins : WF_vars(JoinHandler(j)) /\ WF_vars(TimerGoroutine(j))
    /\ \A p \in Presses : WF_vars(PressHandler(p))

Spec == Init /\ [][Next]_vars /\ Fairness

-----------------------------------------------------------------------------
\* Every variable has its type.
TypeOK ==
    /\ handler \in [Joins -> HandlerSteps]
    /\ timer \in [Joins -> TimerSteps]
    /\ pending \in [Users -> Joins \cup {None}]
    /\ press \in [Presses -> [step : PressSteps, user : Users, msg : Joins \cup {None}]]
    /\ who \in [Joins -> Users]
    /\ chat \in [Users -> {"in", "out", "banned"}]
    /\ muted \in [Users -> BOOLEAN]
    /\ posted \subseteq Joins
    /\ tracked \in [Users -> Nat]
    /\ passed \in [Users -> Nat]
    /\ kicked \in [Users -> Nat]
    /\ endedBy \in [Joins -> Joins \cup {None}]
    /\ failures \in Nat
    /\ restarts \in Nat

Open(u) == IF pending[u] = None THEN 0 ELSE 1

\* Resolve and the timeout exclude each other: each tracked challenge has at
\* most one outcome, passed or kicked, and an open one has none yet, however
\* presses, late timers, new joins and restarts interleave.
OneOutcome == \A u \in Users : passed[u] + kicked[u] + Open(u) <= tracked[u]

\* An open challenge always has a timer that will end it.
OpenHasTimer ==
    \A u \in Users : pending[u] # None => timer[pending[u]] \in {"running", "fired"}

\* A member waiting for the outcome of a challenge.
Waiting(u) == chat[u] = "in" /\ muted[u]

\* Somebody in the bot still has something to do for the member.
Cared(u) ==
    \/ pending[u] # None
    \/ \E j \in Joins : who[j] = u /\ handler[j] \in {"restrict", "send", "arm", "insert"}
    \/ \E j \in Joins : who[j] = u /\ timer[j] = "ban"
    \/ \E p \in Presses : press[p].user = u /\ press[p].step = "unmute"

\* The muting is never left behind: without failed calls and restarts, a muted
\* member always has an open challenge or a goroutine about to act.
NoOrphanMute ==
    failures = 0 /\ restarts = 0 => \A u \in Users : Waiting(u) => Cared(u)

\* Whoever is banned is about to be let in again: a timer is between the two
\* calls of the kick.
BannedInPassing ==
    \A u \in Users :
        chat[u] = "banned" => \E j \in Joins : who[j] = u /\ timer[j] = "unban"

\* The kick is no ban, however several timers of one member interleave, as
\* long as no call fails and the bot is not restarted.
KickIsNoBan == failures = 0 /\ restarts = 0 => BannedInPassing

\* A newcomer is eventually let speak or is out, unless a call fails or the
\* bot restarts.
NewcomerDecided ==
    \A u \in Users :
        Waiting(u) ~> (~Waiting(u) \/ failures > 0 \/ restarts > 0)

\* The comment on Track: onTimeout of a challenge is called if that challenge
\* was not resolved within its timeout.  So the timer that ends a challenge is
\* the timer of that challenge, never one left over from an earlier join.
EndedByOwnTimer == \A j \in Joins : endedBy[j] \in {None, j}
=============================================================================
