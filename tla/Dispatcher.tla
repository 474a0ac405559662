----------------------------- MODULE Dispatcher -----------------------------
(***************************************************************************)
(* internal/dispatcher: the queue, the workers and what they do to one     *)
(* chat message after another, with the tables of internal/storage that    *)
(* they share (global_blacklist, bad_domains, warnings).                   *)
(*                                                                         *)
(* An actor is a worker or a command handler that calls BanSpammer.  Every *)
(* call to PostgreSQL or to Telegram is one step of an actor, so that the  *)
(* steps of the others come in between; actor[a].step names the call that  *)
(* is next.  A call may fail, and does fail once the context is cancelled. *)
(* What the limiter answers is left open (RateLimiter models it).          *)
(* A definition named Mut... is a faulty variant of the definition below   *)
(* it, used to see that the properties notice the fault.                   *)
(***************************************************************************)
EXTENDS Naturals, Sequences, FiniteSets

CONSTANTS
    Workers,         \* worker goroutines
    Handlers,        \* goroutines of /report and /ban
    Messages,        \* updates that reach the default handler
    Users, Domains,
    Texts,           \* texts up to normalizeText
    Sender,          \* [Messages -> Users]
    Text,            \* [Messages -> Texts]
    NoText,          \* the text of a message without one
    Blanks,          \* other texts of which normalizeText leaves nothing
    Triggers,        \* texts that contain a trigger phrase of the chat
    BadContext,      \* texts that match the content filter, global allowlist included
    DomainsIn,       \* linkcheck.ExtractDomains, [Texts -> SUBSET Domains]
    QueueSize, WarnThreshold, Silent,
    MaxAttempts,     \* maxRetryAttempts
    FilterEnabled, FilterAction,    \* the global content filter settings
    ChatModes,       \* what admins set as the mode of the filter in the chat
    NoOwner,         \* a list of administrators without an owner
    None,
    MaxTransfers     \* bound on changes of the chat owner

ASSUME DispatcherAssumption ==
    /\ Sender \in [Messages -> Users]
    /\ Text \in [Messages -> Texts]
    /\ NoText \in Texts
    /\ Blanks \subseteq Texts \ {NoText}
    /\ Triggers \subseteq Texts \ (Blanks \cup {NoText})
    /\ BadContext \subseteq Texts \ (Blanks \cup {NoText})
    /\ DomainsIn \in [Texts -> SUBSET Domains]
    /\ \A t \in Blanks \cup {NoText} : DomainsIn[t] = {}
    /\ QueueSize \in Nat \ {0}
    /\ WarnThreshold \in Nat \ {0}
    /\ MaxAttempts \in Nat \ {0}
    /\ FilterEnabled \in BOOLEAN /\ Silent \in BOOLEAN
    /\ FilterAction \in {"ban", "delete"}
    /\ ChatModes \subseteq {"none", "off", "delete", "ban"}
    /\ Workers \cap Handlers = {}
    /\ None \notin Users \cup Messages
    /\ NoOwner \notin Users \cup {None}
    /\ MaxTransfers \in Nat

VARIABLES
    queue,           \* Dispatcher.jobQueue
    stage,           \* where each message is, or its outcome
    actor,           \* the actors
    warnings,        \* table warnings of the chat
    blacklist,       \* table global_blacklist
    badDomains,      \* table bad_domains
    learning,        \* learning goroutines: message and next step
    owner,           \* Telegram's owner of the chat
    ownerCache,      \* ownerGuard.entries of the chat; None if not fresh
    cancelled,       \* the context of the program is done
    exited,          \* main has returned
    log,             \* history: submitted messages in order
    known,           \* history: messages whose text was known when submitted
    cause,           \* history: why a message led to ban()
    punished,        \* history: messages whose author Telegram banned
    before,          \* history: Settled when each message was taken
    counted,         \* history: messages that raised a warning count
    dbFailed,        \* history: has a call to PostgreSQL failed
    adminFailed,     \* history: has GetChatAdministrators failed or named no owner
    transfers        \* history: changes of the owner

tables == <<warnings, blacklist, badDomains>>
ownerVars == <<owner, ownerCache, transfers, adminFailed>>
life == <<cancelled, exited>>
series == <<before, counted>>
history == <<log, known, cause, punished, series, dbFailed>>
vars == <<queue, stage, actor, tables, learning, ownerVars, life, history>>

Actors == Workers \cup Handlers

Steps == {"idle", "known", "domain", "flood", "filter", "allowOff",
          "allowDelete", "allowBan", "trigger", "reset", "warn", "warnDelete",
          "warnNotice", "softDelete", "notice",
          "banDelete", "ownerLook", "ownerFetch", "ownerStore", "ban",
          "banNotice", "spawn", "resetAfter", "stopped"}

\* The steps inside withRetry.
RetrySteps == {"warnDelete", "warnNotice", "softDelete", "notice",
               "banDelete", "ban", "banNotice"}

Causes == {"none", "known", "domain", "flood", "filter", "warnings", "manual"}

\* accepted; deleted without a ban; dealt with by ban().
Outcomes == {"accepted", "removed", "judged"}

Idle(step) == [step |-> step, msg |-> None, why |-> "none", seen |-> None, tries |-> 1]

Init ==
    /\ queue = << >>
    /\ stage = [m \in Messages |-> "new"]
    /\ actor = [a \in Actors |-> Idle("idle")]
    /\ warnings = [u \in Users |-> 0]
    /\ blacklist = {}
    /\ badDomains = {}
    /\ learning = {}
    /\ owner \in Users
    /\ ownerCache = None
    /\ cancelled = FALSE
    /\ exited = FALSE
    /\ log = << >>
    /\ known = {}
    /\ cause = [m \in Messages |-> "none"]
    /\ punished = {}
    /\ before = [m \in Messages |-> {}]
    /\ counted = {}
    /\ dbFailed = FALSE
    /\ adminFailed = FALSE
    /\ transfers = 0

-----------------------------------------------------------------------------
\* The channel jobQueue takes another update.
MutHasRoom == Len(queue) <= QueueSize
MutFullEarly == Len(queue) + 1 < QueueSize
HasRoom == Len(queue) < QueueSize

\* IsKnownSpam: the text is in global_blacklist.
MutIsKnown(m) == Text[m] \in blacklist \ Triggers
IsKnown(m) == Text[m] \in blacklist

\* Submit: a full queue drops the update.
Submit(m) ==
    /\ ~exited
    /\ stage[m] = "new"
    /\ IF HasRoom
       THEN /\ queue' = Append(queue, m)
            /\ stage' = [stage EXCEPT ![m] = "queued"]
            /\ log' = Append(log, m)
            /\ known' = IF Text[m] \in blacklist THEN known \cup {m} ELSE known
       ELSE /\ stage' = [stage EXCEPT ![m] = "dropped"]
            /\ UNCHANGED <<queue, log, known>>
    /\ UNCHANGED <<actor, tables, learning, ownerVars, life, cause, punished, series, dbFailed>>

\* The actor goes on to step s.
Go(a, s) == actor' = [actor EXCEPT ![a].step = s, ![a].tries = 1]

\* The actor enters ban() because of w.
BanFor(a, w) ==
    /\ actor' = [actor EXCEPT ![a].step = "banDelete", ![a].why = w, ![a].tries = 1]
    /\ cause' = [cause EXCEPT ![actor[a].msg] = w]

\* The actor is done with its message, whose outcome is o.
Finish(a, o) ==
    /\ actor' = [actor EXCEPT ![a] = Idle(IF a \in Workers THEN "idle" ELSE "stopped")]
    /\ stage' = IF a \in Workers THEN [stage EXCEPT ![actor[a].msg] = o] ELSE stage

At(a, s) == ~exited /\ actor[a].step = s

\* A call to PostgreSQL on the actor's context succeeds, or fails.
DbOk == ~cancelled /\ UNCHANGED dbFailed
DbErr == dbFailed' = TRUE

\* The same for a query about the text of m, which is not even sent when
\* normalizeText leaves nothing of it.
TextOk(m) == IF Text[m] \in Blanks THEN UNCHANGED dbFailed ELSE DbOk
TextErr(m) == Text[m] \notin Blanks /\ DbErr

\* A message that is dealt with and breaks a row of trigger messages: it resets
\* the count of its sender.
EndsSeries(o) ==
    \/ stage[o] = "accepted" /\ Text[o] \notin Triggers \cup {NoText}
    \/ stage[o] = "judged" /\ cause[o] = "warnings"

\* The messages dealt with that mattered for a count.
Settled == {x \in Messages : stage[x] \in Outcomes /\ (x \in counted \/ EndsSeries(x))}

\* worker: with both channels ready, select takes either.
Take(w) ==
    /\ At(w, "idle") /\ w \in Workers
    /\ queue # << >>
    /\ LET m == Head(queue)
       IN  /\ queue' = Tail(queue)
           /\ stage' = [stage EXCEPT ![m] = "taken"]
           /\ actor' = [actor EXCEPT ![w].msg = m,
                                     ![w].step = IF Text[m] = NoText THEN "flood" ELSE "known"]
           /\ before' = [before EXCEPT ![m] = Settled]
    /\ UNCHANGED <<tables, learning, ownerVars, life, log, known, cause, punished, counted, dbFailed>>

MutStop(w) ==
    /\ At(w, "idle") /\ w \in Workers
    /\ cancelled /\ queue # << >>
    /\ Go(w, "stopped")
    /\ UNCHANGED <<queue, stage, tables, learning, ownerVars, life, history>>

Stop(w) ==
    /\ At(w, "idle") /\ w \in Workers
    /\ cancelled
    /\ Go(w, "stopped")
    /\ UNCHANGED <<queue, stage, tables, learning, ownerVars, life, history>>

\* processUpdate, level 1: IsKnownSpam; an error falls through to the next.
CheckKnown(w) ==
    LET m == actor[w].msg
    IN  /\ At(w, "known")
        /\ \/ TextOk(m) /\ IsKnown(m) /\ BanFor(w, "known")
           \/ TextOk(m) /\ ~IsKnown(m) /\ Go(w, "domain") /\ UNCHANGED cause
           \/ TextErr(m) /\ Go(w, "domain") /\ UNCHANGED cause
        /\ UNCHANGED <<queue, stage, tables, learning, ownerVars, life, log, known, punished, series>>

\* Level 2: IsKnownBadDomain, asked only for a text with links.
CheckDomain(w) ==
    LET links == DomainsIn[Text[actor[w].msg]]
    IN  /\ At(w, "domain")
        /\ \/ links = {} /\ Go(w, "flood") /\ UNCHANGED <<cause, dbFailed>>
           \/ links \cap badDomains # {} /\ DbOk /\ BanFor(w, "domain")
           \/ links # {} /\ links \cap badDomains = {} /\ DbOk /\ Go(w, "flood") /\ UNCHANGED cause
           \/ links # {} /\ DbErr /\ Go(w, "flood") /\ UNCHANGED cause
        /\ UNCHANGED <<queue, stage, tables, learning, ownerVars, life, log, known, punished, series>>

\* Level 3: the limiter; a message without text is done when it passes.
CheckFlood(w) ==
    /\ At(w, "flood")
    /\ \/ BanFor(w, "flood") /\ UNCHANGED stage
       \/ /\ Text[actor[w].msg] # NoText
          /\ Go(w, "filter")
          /\ UNCHANGED <<stage, cause>>
       \/ /\ Text[actor[w].msg] = NoText
          /\ Finish(w, "accepted")
          /\ UNCHANGED cause
    /\ UNCHANGED <<queue, tables, learning, ownerVars, life, log, known, punished, series, dbFailed>>

\* The mode row of the chat, if there is one, overrides the global settings of
\* the content filter.
Settings == {"off", "delete", "ban"}
Global == IF FilterEnabled THEN FilterAction ELSE "off"
Setting(mode) == IF mode = "none" THEN Global ELSE mode

\* The step of the second settings query, whatever the first one answered.
AllowStep(setting) ==
    CASE setting = "off"    -> "allowOff"
      [] setting = "delete" -> "allowDelete"
      [] setting = "ban"    -> "allowBan"

\* Level 4: the content filter with its settings at hand.
FilterDecides(w, setting, excused) ==
    LET matched == Text[actor[w].msg] \in BadContext /\ ~excused
    IN  \/ matched /\ setting = "delete" /\ Go(w, "softDelete") /\ UNCHANGED cause
        \/ matched /\ setting = "ban" /\ BanFor(w, "filter")
        \/ (~matched \/ setting = "off") /\ Go(w, "trigger") /\ UNCHANGED cause

\* resolveContentFilterSettings: GetChatContentFilterMode; an error leaves the
\* global settings.
CheckMode(w) ==
    /\ At(w, "filter")
    /\ \/ DbOk /\ (\E mode \in ChatModes : Go(w, AllowStep(Setting(mode)))) /\ UNCHANGED cause
       \/ DbErr /\ FilterDecides(w, Global, FALSE)
    /\ UNCHANGED <<queue, stage, tables, learning, ownerVars, life, log, known, punished, series>>

\* resolveContentFilterSettings: ListContentFilterAllow; a phrase of the chat
\* may excuse the text, and an error undoes the mode of the chat as well.
CheckAllow(w, setting) ==
    /\ At(w, AllowStep(setting))
    /\ \/ DbOk /\ \E excused \in BOOLEAN : FilterDecides(w, setting, excused)
       \/ DbErr /\ FilterDecides(w, Global, FALSE)
    /\ UNCHANGED <<queue, stage, tables, learning, ownerVars, life, log, known, punished, series>>

\* Level 5: MatchTrigger; an error accepts the message and keeps the count.
CheckTrigger(w) ==
    LET m         == actor[w].msg
        triggered == Text[m] \in Triggers
    IN  /\ At(w, "trigger")
        /\ \/ TextOk(m) /\ triggered /\ Go(w, "warn") /\ UNCHANGED stage
           \/ TextOk(m) /\ ~triggered /\ Go(w, "reset") /\ UNCHANGED stage
           \/ TextErr(m) /\ Finish(w, "accepted")
        /\ UNCHANGED <<queue, tables, learning, ownerVars, life, log, known, cause, punished, series>>

\* ResetWarnings after a message without trigger words, a blank text included;
\* then it is accepted.
MutResetSeries(w) ==
    /\ At(w, "reset")
    /\ DbOk \/ DbErr
    /\ Finish(w, "accepted")
    /\ UNCHANGED <<queue, tables, learning, ownerVars, life, log, known, cause, punished, series>>

ResetSeries(w) ==
    /\ At(w, "reset")
    /\ \/ DbOk /\ warnings' = [warnings EXCEPT ![Sender[actor[w].msg]] = 0]
       \/ DbErr /\ UNCHANGED warnings
    /\ Finish(w, "accepted")
    /\ UNCHANGED <<queue, blacklist, badDomains, learning, ownerVars, life, log, known, cause, punished, series>>
-----------------------------------------------------------------------------
\* A call to Telegram inside withRetry ends well, or with an error: another
\* error than 429, the last 429 or the end of the context.
ApiOk == ~cancelled

\* withRetry: after a 429 the call is tried again, MaxAttempts times in all.
Throttled(a) ==
    /\ ~exited /\ actor[a].step \in RetrySteps
    /\ ~cancelled
    /\ actor[a].tries < MaxAttempts
    /\ actor' = [actor EXCEPT ![a].tries = @ + 1]
    /\ UNCHANGED <<queue, stage, tables, learning, ownerVars, life, history>>

\* The warnings of a member are used up.
IsLast(count) == count >= WarnThreshold

\* handleTriggerMatch: AddWarning, one atomic upsert that returns the count.
\* Without the database every trigger word means a ban.
Warn(w) ==
    LET u     == Sender[actor[w].msg]
        count == warnings[u] + 1
    IN  /\ At(w, "warn")
        /\ \/ /\ DbOk
              /\ warnings' = [warnings EXCEPT ![u] = count]
              /\ counted' = counted \cup {actor[w].msg}
              /\ \/ IsLast(count) /\ BanFor(w, "warnings")
                 \/ ~IsLast(count) /\ Go(w, "warnDelete") /\ UNCHANGED cause
           \/ DbErr /\ UNCHANGED <<warnings, counted>> /\ BanFor(w, "warnings")
        /\ UNCHANGED <<queue, stage, blacklist, badDomains, learning, ownerVars, life,
                       log, known, punished, before>>

\* handleTriggerMatch: the message is deleted; an error is only logged.
WarnDelete(w) ==
    /\ At(w, "warnDelete")
    /\ IF Silent THEN Finish(w, "removed") ELSE Go(w, "warnNotice") /\ UNCHANGED stage
    /\ UNCHANGED <<queue, tables, learning, ownerVars, life, history>>

\* handleTriggerMatch: the warning to the chat; an error is only logged.
WarnNotice(w) ==
    /\ At(w, "warnNotice")
    /\ Finish(w, "removed")
    /\ UNCHANGED <<queue, tables, learning, ownerVars, life, history>>

\* deleteOnly: after an error there is no notice.
SoftDelete(w) ==
    /\ At(w, "softDelete")
    /\ \/ ApiOk /\ ~Silent /\ Go(w, "notice") /\ UNCHANGED stage
       \/ Finish(w, "removed")
    /\ UNCHANGED <<queue, tables, learning, ownerVars, life, history>>

\* deleteOnly: the notice to the chat; an error is only logged.
Notice(w) ==
    /\ At(w, "notice")
    /\ Finish(w, "removed")
    /\ UNCHANGED <<queue, tables, learning, ownerVars, life, history>>

\* BanSpammer, called for a message of the chat by /report or /ban.
BanSpammer(h, m) ==
    /\ At(h, "idle") /\ h \in Handlers
    /\ stage[m] # "new"
    /\ actor' = [actor EXCEPT ![h] = [Idle("banDelete") EXCEPT !.msg = m, !.why = "manual"]]
    /\ UNCHANGED <<queue, stage, tables, learning, ownerVars, life, history>>

-----------------------------------------------------------------------------
\* ban: DeleteMessage; an error is only logged.
BanDelete(a) ==
    /\ At(a, "banDelete")
    /\ Go(a, "ownerLook")
    /\ UNCHANGED <<queue, stage, tables, learning, ownerVars, life, history>>

\* ban returns: after a ban for warnings the count is still to be reset.
BanReturns(a) ==
    IF actor[a].why = "warnings"
    THEN Go(a, "resetAfter") /\ UNCHANGED stage
    ELSE Finish(a, "judged")

\* isOwner has its answer: the owner is spared, anyone else is banned.
MutDecide(a, ownerId) ==
    IF ownerCache = Sender[actor[a].msg]
    THEN BanReturns(a)
    ELSE Go(a, "ban") /\ UNCHANGED stage

Decide(a, ownerId) ==
    IF ownerId = Sender[actor[a].msg]
    THEN BanReturns(a)
    ELSE Go(a, "ban") /\ UNCHANGED stage

\* isOwner: the cached entry, read under the mutex, if it has not expired.
OwnerLook(a) ==
    /\ At(a, "ownerLook")
    /\ IF ownerCache # None
       THEN Decide(a, ownerCache)
       ELSE Go(a, "ownerFetch") /\ UNCHANGED stage
    /\ UNCHANGED <<queue, tables, learning, ownerVars, life, history>>

\* isOwner: GetChatAdministrators without the mutex: its answer names the owner
\* or nobody, and an error means "not the owner".
OwnerFetch(a) ==
    /\ At(a, "ownerFetch")
    /\ \/ /\ ApiOk
          /\ actor' = [actor EXCEPT ![a].step = "ownerStore", ![a].seen = owner]
          /\ UNCHANGED adminFailed
       \/ /\ ApiOk
          /\ actor' = [actor EXCEPT ![a].step = "ownerStore", ![a].seen = NoOwner]
          /\ adminFailed' = TRUE
       \/ /\ Go(a, "ban")
          /\ adminFailed' = TRUE
    /\ UNCHANGED <<queue, stage, tables, learning, owner, ownerCache, transfers, life, history>>

\* isOwner: the answer, "no owner" too, goes into the cache, however old it is.
OwnerStore(a) ==
    /\ At(a, "ownerStore")
    /\ ownerCache' = actor[a].seen
    /\ Decide(a, actor[a].seen)
    /\ UNCHANGED <<queue, tables, learning, owner, transfers, adminFailed, life, history>>

\* What ban does after a failed banChatMember.
MutBanAgain(a) == Go(a, "banDelete") /\ UNCHANGED stage
MutBanFailed(a) == Go(a, "spawn") /\ UNCHANGED stage
BanFailed(a) == BanReturns(a)

\* ban: BanChatMember, which Telegram refuses for the owner of the chat.
Ban(a) ==
    LET m == actor[a].msg
    IN  /\ At(a, "ban")
        /\ \/ /\ ApiOk /\ Sender[m] # owner
              /\ punished' = punished \cup {m}
              /\ Go(a, IF Silent THEN "spawn" ELSE "banNotice")
              /\ UNCHANGED stage
           \/ BanFailed(a) /\ UNCHANGED punished
        /\ UNCHANGED <<queue, tables, learning, ownerVars, life, log, known, cause, series, dbFailed>>

BanNotice(a) ==
    /\ At(a, "banNotice")
    /\ Go(a, "spawn")
    /\ UNCHANGED <<queue, stage, tables, learning, ownerVars, life, history>>

\* ban(ctx, u, learn): the calls with learn = true.
Learns(why) == why \in {"flood", "filter", "warnings", "manual"}

\* ban starts the learning goroutine and returns.
Spawn(a) ==
    LET m == actor[a].msg
    IN  /\ At(a, "spawn")
        /\ learning' = IF Learns(actor[a].why) /\ Text[m] # NoText
                       THEN learning \cup {<<m, "spam">>}
                       ELSE learning
        /\ BanReturns(a)
        /\ UNCHANGED <<queue, tables, ownerVars, life, history>>

\* handleTriggerMatch: ResetWarnings after ban() returned, banned or not.
ResetAfter(w) ==
    /\ At(w, "resetAfter")
    /\ \/ DbOk /\ warnings' = [warnings EXCEPT ![Sender[actor[w].msg]] = 0]
       \/ DbErr /\ UNCHANGED warnings
    /\ Finish(w, "judged")
    /\ UNCHANGED <<queue, blacklist, badDomains, learning, ownerVars, life, log, known, cause, punished, series>>

-----------------------------------------------------------------------------
\* The learning goroutine, on a context of its own: LearnSpam, then
\* LearnDomains whether or not that worked.  Goroutines at the same step of
\* the same message are one: both statements are idempotent upserts.
MutLesson(m) == IF DomainsIn[Text[m]] = {} THEN {Text[m]} \ Blanks ELSE {}
Lesson(m) == {Text[m]} \ Blanks

LearnSpam(m) ==
    /\ ~exited /\ <<m, "spam">> \in learning
    /\ \/ blacklist' = blacklist \cup Lesson(m) /\ UNCHANGED dbFailed
       \/ TextErr(m) /\ UNCHANGED blacklist
    /\ learning' = (learning \ {<<m, "spam">>}) \cup
                      (IF DomainsIn[Text[m]] = {} THEN {} ELSE {<<m, "domains">>})
    /\ UNCHANGED <<queue, stage, actor, warnings, badDomains, ownerVars, life,
                   log, known, cause, punished, series>>

LearnDomains(m) ==
    /\ ~exited /\ <<m, "domains">> \in learning
    /\ \/ badDomains' = badDomains \cup DomainsIn[Text[m]] /\ UNCHANGED dbFailed
       \/ DbErr /\ UNCHANGED badDomains
    /\ learning' = learning \ {<<m, "domains">>}
    /\ UNCHANGED <<queue, stage, actor, warnings, blacklist, ownerVars, life,
                   log, known, cause, punished, series>>

\* Five minutes pass: the cached owner expires.
ExpireOwner ==
    /\ ~exited
    /\ ownerCache # None
    /\ ownerCache' = None
    /\ UNCHANGED <<queue, stage, actor, tables, learning, owner, transfers, adminFailed, life, history>>

TransferOwner ==
    /\ ~exited
    /\ transfers < MaxTransfers
    /\ transfers' = transfers + 1
    /\ owner' \in Users \ {owner}
    /\ UNCHANGED <<queue, stage, actor, tables, learning, ownerCache, adminFailed, life, history>>

\* SIGTERM or SIGINT.
Cancel ==
    /\ ~cancelled
    /\ cancelled' = TRUE
    /\ UNCHANGED <<queue, stage, actor, tables, learning, ownerVars, exited, history>>

\* Wait returns when all workers have, and main with it: whatever still runs
\* is gone.
Exit ==
    /\ ~exited
    /\ \A w \in Workers : actor[w].step = "stopped"
    /\ exited' = TRUE
    /\ UNCHANGED <<queue, stage, actor, tables, learning, ownerVars, cancelled, history>>

-----------------------------------------------------------------------------
BanSteps(a) ==
    BanDelete(a) \/ OwnerLook(a) \/ OwnerFetch(a) \/ OwnerStore(a) \/ Ban(a)
        \/ BanNotice(a) \/ Spawn(a)

WorkerSteps(w) ==
    Take(w) \/ Stop(w) \/ CheckKnown(w) \/ CheckDomain(w) \/ CheckFlood(w)
        \/ CheckMode(w) \/ (\E s \in Settings : CheckAllow(w, s)) \/ CheckTrigger(w)
        \/ ResetSeries(w) \/ Warn(w) \/ WarnDelete(w) \/ WarnNotice(w)
        \/ SoftDelete(w) \/ Notice(w) \/ ResetAfter(w)

Worker(w) == WorkerSteps(w) \/ BanSteps(w) \/ Throttled(w)

Handler(h) == BanSteps(h) \/ Throttled(h)

Learner(m) == LearnSpam(m) \/ LearnDomains(m)

Next ==
    \/ \E m \in Messages : Submit(m) \/ Learner(m)
    \/ \E w \in Workers : Worker(w)
    \/ \E h \in Handlers : Handler(h) \/ \E m \in Messages : BanSpammer(h, m)
    \/ ExpireOwner \/ TransferOwner \/ Cancel \/ Exit

\* Goroutines that can run do run, and calls to Telegram and PostgreSQL return
\* at last.  Nothing makes updates arrive or the program stop.
Fairness ==
    /\ \A w \in Workers : WF_vars(Worker(w))
    /\ \A h \in Handlers : WF_vars(Handler(h))
    /\ \A m \in Messages : WF_vars(Learner(m))
    /\ WF_vars(Exit)

Spec == Init /\ [][Next]_vars /\ Fairness

-----------------------------------------------------------------------------
\* Every variable has its type; only an actor with a message is at work.
TypeOK ==
    /\ queue \in Seq(Messages) /\ Len(queue) <= QueueSize
    /\ stage \in [Messages -> {"new", "queued", "dropped", "taken"} \cup Outcomes]
    /\ actor \in [Actors -> [step : Steps, msg : Messages \cup {None}, why : Causes,
                             seen : Users \cup {None, NoOwner}, tries : 1 .. MaxAttempts]]
    /\ \A a \in Actors : actor[a].msg = None <=> actor[a].step \in {"idle", "stopped"}
    /\ warnings \in [Users -> Nat]
    /\ blacklist \subseteq Texts
    /\ badDomains \subseteq Domains
    /\ learning \subseteq Messages \X {"spam", "domains"}
    /\ owner \in Users
    /\ ownerCache \in Users \cup {None, NoOwner}
    /\ cancelled \in BOOLEAN /\ exited \in BOOLEAN
    /\ log \in Seq(Messages)
    /\ known \subseteq Messages /\ punished \subseteq Messages
    /\ cause \in [Messages -> Causes]
    /\ before \in [Messages -> SUBSET Messages]
    /\ counted \subseteq Messages
    /\ dbFailed \in BOOLEAN /\ adminFailed \in BOOLEAN
    /\ transfers \in Nat

\* The global blacklist, which punishes the same text in every chat, learns
\* only from messages whose author Telegram did ban, however the actors and
\* the errors of Telegram interleave; so never from the chat's owner.
LearnedFromBans ==
    /\ \A t \in blacklist : \E m \in punished : Text[m] = t
    /\ \A d \in badDomains : \E m \in punished : d \in DomainsIn[Text[m]]

\* A text that was known when its message was submitted leads to ban(): no
\* other level decides about the message first, unless the database failed.
KnownNotSpared ==
    \A m \in known : stage[m] \in {"accepted", "removed"} => dbFailed

\* A ban for warnings needs WarnThreshold trigger messages of that member in a
\* row, each of them counted, unless the database failed.  A message of his that
\* was dealt with between two of them breaks the row: an accepted one with a
\* text, and one that led to a ban for warnings.  So the
\* counter is not fed by other members, by one message twice or across a reset,
\* though two workers may handle the messages of a member side by side.
\* The last message of the row is not warned about: the ban comes with the
\* WarnThreshold-th trigger message, after WarnThreshold - 1 warnings.
InRow(m) ==
    {x \in counted :
        /\ Sender[x] = Sender[m] /\ Text[x] \in Triggers
        /\ ~\E o \in before[m] :
              Sender[o] = Sender[m] /\ EndsSeries(o) /\ (x = o \/ x \in before[o])}

WarningsInARow ==
    \A m \in Messages :
        cause[m] = "warnings" /\ ~dbFailed => Cardinality(InRow(m)) >= WarnThreshold

\* The owner of the chat is not even tried, as long as the owner stays the same
\* and Telegram names him among the administrators.
OwnerNotTried ==
    transfers = 0 /\ ~adminFailed =>
        \A a \in Actors : actor[a].step = "ban" => Sender[actor[a].msg] # owner

\* A queued message is dealt with, unless the program is stopped.
QueuedHandled ==
    \A m \in Messages : stage[m] = "queued" ~> (stage[m] \in Outcomes \/ cancelled)

\* After the signal the program comes to its end.
ShutdownCompletes == cancelled ~> exited

\* What a ban taught is learned, unless the database fails or main returns.
LessonLearned ==
    \A m \in Messages :
        <<m, "spam">> \in learning ~> (Text[m] \in blacklist \cup Blanks \/ dbFailed \/ exited)
=============================================================================
