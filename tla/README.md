# A formal model of AntiSpamBotTG

AntiSpamBotTG (`src/go`) is a Telegram bot that watches group chats. It deletes
messages, bans their authors, learns from every ban, asks newcomers to press a
button, counts `/report` votes and tells an operator about its own errors. It is
one process with many goroutines, three in-memory structures under mutexes, a
bounded queue and a PostgreSQL database.

This directory holds TLA+ modules for the parts whose correctness depends on the
order of events, and for the pure functions the verdicts rest on; TLC configurations
that check them on small instances; and proofs of the main invariants for every value
of the constants.

Paths below are relative to `src/go`.

## 1. Inventory

| component | state | operations | hard behaviour | what makes it correct |
|---|---|---|---|---|
| **rate limiter** `internal/ratelimit` | `records`: a slice of times per (chat, user) | `Allow`, `cleanup` (ticker) | the clock is read before the mutex; slices share their backing array | at most Limit messages in a window, and no more beyond it than races can explain; nobody is a flooder without cause |
| **captcha** `internal/captcha`, `cmd/bot/captcha.go` | `pending`: one entry with its timer per (chat, user); rights of the member in Telegram | `Track`, `Resolve`, `IsPending`, the timer callback; the handlers around them | three kinds of goroutine on one entry; leave and join again; failed calls; restarts | one outcome per challenge; nobody stays muted and forgotten, or banned by a kick; members who confirmed are heard |
| **report tracker** `internal/reports`, `/report` in `cmd/bot/main.go` | `records`: reporters and time of creation per message | `Report`, `cleanup` | reports under way while the ban they caused is executed | no ban without its own reports |
| **dispatcher** `internal/dispatcher` | `jobQueue`, workers, owner cache | `Submit`, `Start`, `Wait`, `processUpdate` (five levels), `handleTriggerMatch`, `deleteOnly`, `ban`, `BanSpammer`, `withRetry` | workers race on one member's messages; every call may fail; learning outlives the worker | learn only from real bans; queued work is done; shutdown ends |
| **storage** `internal/storage` | tables `global_blacklist`, `bad_domains`, `warnings`, `chat_triggers`, `chat_content_filter_settings`, `chat_content_filter_allowlist` | `New` with its pings and the migration, one SQL statement per operation, `normalizeText` | a database that starts later than the bot; errors in the middle of a handler; texts cut to a length | statements are atomic; what was learned is recognised, nothing else is |
| **process life** `cmd/bot/main.go`, `webhook.go` | position of `main`, context, pool | configuration, `storage.New`, `tgbot.New`, `Start`/`runWebhook`, `Wait`, deferred calls | order of the deferred calls; error paths; signals | resources outlive their users; the process ends |
| **error logger** `internal/tglog` | `incidentRegistry`, bounded queue, sender and reminder goroutines | `Handle`, `enqueue`, `sendDueReminders`, `closeFn` | a queue closed under its senders; many errors at once | one alert per incident; recovery reported |
| **administrator commands** `cmd/bot/admin.go`, `internal/corewords`, `/help` | the tables | add, remove and list phrases, allowed phrases and domains; mode of the filter; `/ban` | change the tables under the workers, the learning goroutines and each other; several statements for one command | only administrators change anything; a removal lasts; a reported success is complete |
| **auto-deletion** `cmd/bot/autodelete.go` | a sleeping goroutine per command | | lost at a restart | commands and replies go away |
| **link extraction** `internal/linkcheck` | none | `ExtractDomains` | many spellings of one link | one domain for all of them |
| **content filter** `internal/contentfilter` | none | `MatchWithAllowlist` | what normalisation does to words, blanks and phrases | only combinations are punished, allowed phrases never |
| **configuration** `internal/config`, `bootstrapTelegramErrorLogger` | none | `Load`, once | two parsers for the same variables | what is accepted is usable; both parsers agree |
| **formatting** `cmd/bot/{help,commands,message_text}.go` | none | pure | | |

How they interact. Telegram's updates come in through the bot library, which
runs every matching handler in a goroutine of its own. The default handler calls
`Dispatcher.Submit`; workers take the updates from the queue and call the rate
limiter, the filter, the storage and Telegram. `/report` and `/ban` call
`BanSpammer`, that is `ban`, from handler goroutines, beside the workers. `ban`
starts a learning goroutine. Captcha handlers and timers call Telegram directly.
Everything logs through `tglog`, which turns error records into messages to the
operator. At the end `main` waits for the workers, then closes the pool, cancels
the context and closes the logger. Handlers, learning goroutines, timers and
auto-deletions are waited for by nobody.

The hazards of each component, at the lines where they bite, are listed in
`PROJECT.json`, with the properties that watch them or the reason why none does.

## 2. The modules

| module | models | state and actions |
|---|---|---|
| `RateLimiter` | `internal/ratelimit` | `TakeNow`/`Decide` are the two halves of `Allow` (clock, mutex); `SweepNow`/`Sweep` those of `cleanup`. `records[k]` is the slice of Go as a sequence of the messages it counted |
| `Captcha` | `internal/captcha` and its handlers | one action per Telegram call and per critical section, of the join handler, the timer goroutine and the button handler; `Join`, `Leave`, `Press` are the members, `Restart` the loss of all memory |
| `CaptchaGate` | `IsPending` and the default handler, on top of `Captcha` | `Write` is a member, `Look` the question and the branch it decides, `Drop` the deletion; the steps of `Captcha` go on around them |
| `Reports` | `internal/reports` and `/report` | `SendReport` and `HandleReport` separate the sending of a command from its handling; `FinishBan` is the effect of `BanSpammer` on the chat |
| `Dispatcher` | `internal/dispatcher`, the tables it uses | one action per call to PostgreSQL or Telegram of a worker or a handler; `actor[a].step` names the next one. `LearnSpam`, `LearnDomains` are the learning goroutine |
| `Lifecycle` | `cmd/bot/main.go` `run`, `runWebhook`, `internal/tglog` | one action per step of `run` and of its deferred calls; `LogError`/`LogRecovery` are `Handle` under the registry's mutex, `Enqueue` the send that follows it |
| `Admin` | `cmd/bot/admin.go`, `/help`, `autodelete.go`, the tables they change | `cmd[c].step` is the next call of the handler of command `c`: rights, statement, reply, deletions; `Punish`/`LearnDomains` are bans that write the same table |
| `Filtering` | level 4 of the dispatcher on top of `Admin` | `Begin`, `ReadMode`, `ReadAllow`, `Match`: the two queries of a worker and its verdict, between commands that change what they read |
| `Blacklist` | `LearnSpam`, `IsKnownSpam`, `LearnDomains`, `IsKnownBadDomain`, the learning goroutine | one action per statement; a text has a width in bytes, and the sample its cut |
| `Startup` | `storage.New`, `pingWithRetry` | one action per ping, pause and statement; a clock in seconds |
| `Config` | `config.Load`, `bootstrapTelegramErrorLogger` | `Edit` sets a variable, `Bootstrap` and `Load` are the two parsers in their order |
| `Links` | `internal/linkcheck` | operators on a sequence of tokens; `Write` lets a text grow |
| `Positions` | the loop that copies some elements of a slice in order | `Picked(s, K)`; `RateLimiter` (`filterAfter`) and `TextFilter` (the canonical form) use it |
| `TextFilter` | `internal/contentfilter`, `normalizeText` | `Step` is one round of the loop of `normalizeText`; the rest are operators |
| `MC<Module>` | | sets, functions and symmetry for TLC |
| `MCFiltering` | `Admin` and `Filtering` | which requests meet: about words, domains, without a store, or about the filter |
| `MCTexts` | `Links`, `TextFilter`, `Blacklist` | extends the three, whose variables and specifications have names of their own, and runs one at a time |
| `MCProcess` | `run()` from its settings to its end | extends `Config`, `Startup` and `Lifecycle`; the initial state says which of the three runs |
| `Moderation` | what `internal/dispatcher` promises to a chat | abstract: the fate of each message, bans, lessons, the owner |
| `DispatcherRefinement` | | the refinement mapping: a message waits while it is in the queue or in a worker's hands |
| `Gatekeeping` | what the captcha promises to a newcomer | abstract: rights, the way of each join, challenges that ran out or were passed |
| `CaptchaRefinement` | | the refinement mapping: a challenge is open while it has an entry in `pending`, a join has its time while its timer is not spent |
| `<Module>Proofs` | | theorems about the module. `AdminProofs` is about `Admin` and `Filtering`, `CaptchaProofs` about `Captcha`, `CaptchaGate` and the refinement, `DispatcherProofs` also about its refinement, `LifecycleProofs` about `Lifecycle`, `Startup` and `Config`, `TextsProofs` about `Links`, `TextFilter` and `Blacklist` |

Names follow the source where TLA+ allows it. Variables marked *history* are not
in the code: they remember what the properties speak of.

A definition called `Mut...` stands directly above the definition it varies. It is
the same definition with a plausible programming error; `PROJECT.json` pairs each
checked property with one of them, and with the error put in, TLC finds the
property violated. So each property can be broken by an error in the code it is
about, in the very instance that is checked.

### What the models abstract

* **Time.** `RateLimiter` and `Reports` have a clock that ticks at any moment.
  `Captcha` has no clock: a running timer may fire at any time. The one assumption
  about its duration is that it does not fire between `time.AfterFunc` and the
  insertion into the map two statements later (the configuration demands at least
  one second).
* **Text.** In `Dispatcher` a text is a value up to `normalizeText`. Which texts contain a
  trigger phrase, match the filter or have links is a constant function (`Triggers`,
  `BadContext`, `DomainsIn`), and the mode of a chat (out of `ChatModes`) and its allowlist
  are chosen anew at each look; these are two queries, `CheckMode` and `CheckAllow`. A
  message without text (`NoText`) is told from one with a blank text (`Blanks`): the former
  ends after the limiter, the latter goes through all levels without a query about its text
  and resets the count of its author. What these functions compute is the subject of modules of their own: in
  `Links` a text is a sequence of tokens (a scheme, words, top-level domains, dots,
  slashes, other punctuation, blanks; ports, queries and fragments, other characters of a
  host and the errors of `url.Parse` have no token), in `TextFilter` of marks (one for each kind of
  keyword, a handle, a link, and each kind of character that `normalizeText` tells apart),
  in `Blacklist` of marks with a width in bytes. Letter case is left out: every function
  lowers it first. The two copies of `normalizeText`, in `storage` and `contentfilter`,
  are the same. In `Admin` an argument has a canonical form (`Canon`).
* **PostgreSQL.** One statement is one atomic step that succeeds or fails; a failed
  one has no effect, but in `Admin`, where it may have been executed all the same and only its
  answer be lost. It fails after the end of the context. `Dispatcher` models the
  bot with a store; without one the levels that need it are skipped.
* **Telegram.** A call succeeds or fails. What it does is taken from how the code
  uses it, and marked external: it refuses to ban the owner of a chat, keeps a restriction
  when a member leaves and returns, and lifts it with a ban. `GetChatAdministrators`
  answers with the owner of that moment, with a list that names none (adminguard.go caches
  that as well), or with an error. In `CaptchaGate` a restriction
  does not keep a message from arriving, as the comment in the handler expects.
* **The limiter inside the dispatcher.** `Dispatcher` leaves its answer open, which
  allows every answer `RateLimiter` can give.
* **The logger's queue** is its length; wording and classification of a message are
  one of three keys. Which reminders are due is open.
* **One chat** in `Dispatcher`: warnings and the owner are per chat, and the global
  tables are what several chats share.

## 3. The runs

`tlc -config X.cfg M` for each line. The first group must find no error. The
last column is the number of distinct states.

| configuration | module | instance | checks | states |
|---|---|---|---|---|
| `limiter.cfg` | `MCRateLimiter` | 4 messages, 2 members, Limit 2, Window 2, clock to 4, 2 workers | `TypeOK`, `RecentKept`, `WindowLimit`, `FloodHasPredecessor`, `FloodJustifiedBeforeSweep` | 905 k |
| `captcha.cfg` | `MCCaptchaGate` | 1 member, 2 joins, 2 presses, 1 message, 2 failures, 1 restart | `OneOutcome`, `OpenHasTimer`, `NoOrphanMute`, `KickIsNoBan`, `HeardWhenSettled`, `NewcomerDecided`, `GatekeepingKept` | 1.1 M |
| `reports.cfg` | `MCReports` | 3 members, 2 messages, Threshold 2, TTL 1, clock to 2, 4 reports each | `LiveBelowThreshold`, `BansPaidByReports`, `OnlyExpiredSwept` | 1.1 M |
| `dispatcher.cfg` | `MCDispatcher` | 2 workers, 3 messages of one member, one of them blank, WarnThreshold 2, queue 2 | `TypeOK`, `LearnedFromBans`, `KnownNotSpared`, `WarningsInARow`, `OwnerNotTried`, `ModerationKept` | 2.0 M |
| `dispatcher_live.cfg` | `MCDispatcher` | 1 worker, 1 handler, 2 messages, queue 1, 2 attempts per call, 1 change of owner, notices on, a chat with a mode of its own | `QueuedHandled`, `ShutdownCompletes`, `LessonLearned` | 130 k |
| `process.cfg` | `MCProcess` | settings: 4 variables set; connection: 6 pings 2 s apart in 30 s, as in the code; process: 2 workers, 1 stray, queue 1, webhook mode, 1 outage | `LoggerAsConfigured`, `DatabaseAwaited`, `TypeOK`, `OneAlertPerIncident`, `PanicOnlyFromStrays`, `StoreOutlivesWorkers`, `SignalEndsProcess` | 234 k |
| `admin.cfg` | `MCFiltering` | 2 commands out of 25 requests in 2 chats, 1 ban that teaches, 1 change of rights, 2 posts | `RemovedStaysOut`, `AddedUnlessRemoved`, `ChangedByAdmins`, `PunishedAsSet`, `SparedAsSet`, `TidiedUp` | 1.1 M |
| `texts.cfg` | `MCTexts` | texts of 7 tokens, texts of 5 marks, 2 bans of texts of 3 marks | `LinksFound`, `LevelledAlike`, `BansTeach` | 1.3 M |

What they show:

* **The limit can be missed by a known number** (`WindowLimit`). A worker reads the clock
  before it has the mutex, so it may decide with a time older than the one another worker
  or the cleanup has used already, and count in a history from which the older window
  has been dropped. Of the messages accepted in any window, at any time in the past, at most
  Limit were decided before a time behind that window had been used, and at most one more
  for each worker after it. The exact limit, which ratelimit.go:26 promises, is not
  kept (`limiter_stale.cfg` below). Nothing that can still count for a window not yet left
  behind is dropped (`RecentKept`). A refused message always has company
  (`FloodHasPredecessor`); before the first cleanup it is refused rightly.
* **A challenge ends once** (`OneOutcome`): the button and the timer may race, a
  timer of an earlier join may fire, the bot may restart. As long as calls succeed
  and the bot keeps running, nobody stays muted without somebody in charge
  (`NoOrphanMute`), and everybody is let in or out in the end (`NewcomerDecided`).
  A kick is no ban, however the timers of a member interleave (`KickIsNoBan`).
  With one failed call (the challenge cannot be sent) or a restart a member does
  stay muted for good; the properties say so in their premise.
* **Who has confirmed is heard** (`HeardWhenSettled`): a message written when no
  challenge of its author was open or under way is deleted only if he has joined once
  more since, however late its handler asks and whatever timers are left over.
* **A newcomer sees one careful doorkeeper** (`GatekeepingKept`): `Captcha` implements
  `Gatekeeping`. However handlers, timers and presses interleave, whatever fails and whenever
  the bot restarts, a member is muted only because he joined, removed only for a
  challenge that ran out, once for each join, let in again only after that, and given his
  rights back only for a challenge that he passed. A challenge that was passed is not open
  any more, for another press or for a timer. What the abstract side leaves out is whose
  time a timer counts: a stale timer may end a later challenge of its member, and does.
* **Votes are not used twice** (`BansPaidByReports`): late reports start a record of
  their own, and a second ban of a message needs a full number of further reports.
* **The blacklist is honest** (`LearnedFromBans`): a text gets into the global
  table only if Telegram banned an author of it, whatever fails on the way and
  whoever else punishes the same message. A text known when its message was queued is
  not handled more mildly by another level (`KnownNotSpared`), the owner is not tried while
  the cache can be right (`OwnerNotTried`).
* **A ban for warnings has its row** (`WarningsInARow`): WarnThreshold different trigger
  messages of that member, each of them counted, whichever workers had them, and none
  followed by a message of his that breaks the row: one taken after it was through, and
  through before the banned one was taken. The last of the row is not warned about: see the threshold among the
  differences below.
* **A chat sees moderation of one message at a time** (`ModerationKept`): `Dispatcher`
  implements `Moderation`. A message is lost only when every place of the queue is taken,
  gets one verdict, its author is banned before the verdict or by a command, never while
  he owns the chat, and where there is no command a message that led to a ban is not
  accepted afterwards. The run has no commands; the proof covers them.
* **Work ends**: queued messages are dealt with, a signal ends the program, a ban's
  lesson is written unless the database or the end of the process prevents it.
* **The shutdown order is right for everybody that is waited for**: the pool
  outlives the workers, and a send on the closed queue of the logger, which panics,
  can only come from a stray or the reminder goroutine. The model does reach that panic.
* **A removal lasts** (`RemovedStaysOut`): a word, phrase or domain that an administrator
  took out comes back only by a request or a ban after that, or by one that was under way
  already, however the argument was spelled; a learning goroutine in flight is the
  exception the model found, and the history `cleared` states it. **A success is
  complete** (`AddedUnlessRemoved`), `/addcorewords` with its statement per word included.
  **Only administrators** change a table (`ChangedByAdmins`), whatever calls fail.
* **A post is judged by settings of its own chat** (`PunishedAsSet`, `SparedAsSet`): the
  two queries of the worker may see settings that never held together, but each of them
  held during the check, and no phrase of another chat helps. Commands and their replies
  go away (`TidiedUp`).
* **Texts are treated alike**: a domain is found in each of the usual spellings of its
  link, and the words around it change nothing (`LinksFound`); the loop of
  `normalizeText` with its flag computes the canonical form, and an allowed phrase
  excuses in whatever spacing (`LevelledAlike`); what bans teach is recognised in every
  disguise, and nothing else is (`BansTeach`).
* **The start**: the two parsers of the log settings agree in a bot that runs, and an
  error in a setting that is not about the log can be reported to the chat, because `Load` looks at the
  log's own settings first (`LoggerAsConfigured`). A database that starts before the last
  ping is waited for, and no failure leaves a pool behind (`DatabaseAwaited`).

The other runs each find one property violated, and state a difference between the
code and what its documentation says:

| configuration | property | what happens |
|---|---|---|
| `limiter_cleanup.cfg` | `FloodJustified` | `cleanup` calls `filterAfter`, which compacts the slice in place, and drops the result (ratelimit.go:83). The map keeps the old header, in which live times now stand twice. A member below the limit is then refused, and banned as a flooder. The comment on `filterAfter` warns of just this use |
| `limiter_stale.cfg` | `LimitKept` | Limit 2, Window 2: two messages are accepted at time 0; one worker reads the clock at 1 (ratelimit.go:40), another at 2, takes the mutex first and drops the two old entries; the first then accepts its message at 1, the third within (-1, 1]. The comment on `New` (ratelimit.go:26) allows two |
| `captcha_stale_timer.cfg` | `EndedByOwnTimer` | Join, leave, join: `Track` overwrites the entry but not the timer. The first timer ends the second challenge, and the newcomer is kicked early |
| `lifecycle_hang.cfg` | `WaitReturns` | `runWebhook` fails, nobody cancels the context, `Wait` waits for workers that do not stop |

Further differences between code and documentation, met while modelling. The models
behave like the code in each of them; the properties above exclude the case in their
premise, say nothing of it or, for the threshold of warnings, state what the code does.

| where | the documentation | the code |
|---|---|---|
| internal/dispatcher/dispatcher.go:314 | WARN_THRESHOLD warnings are tolerated before the ban: dispatcher.go:58, :165 and :303, internal/config/config.go:66, .env.example:65, README.md:295 | `count >= warnThreshold` bans with the trigger message number WARN_THRESHOLD, after one warning less; with 1 the first trigger message is a ban without any warning. `WarningsInARow` states what the code does |
| internal/dispatcher/dispatcher.go:248 | README.md: a ban after N warnings in a row; an ordinary message breaks the series | an ordinary message breaks the series when its worker resets the counter. Between messages that several workers have at once the order of writing means nothing: the reset may come after a trigger message that was written later was counted, or before one that was written earlier |
| internal/dispatcher/dispatcher.go:470 | learning has a context of its own so that a stop does not cut it off | nothing waits for the goroutine: the process ends first |
| internal/dispatcher/dispatcher.go:430 | README.md:320: a manual `/ban` or `/report` does not use the check for the owner | `BanSpammer` calls `ban`, which calls `isOwner`; after a change of the owner the former one is skipped until the cache expires |
| internal/dispatcher/dispatcher.go:277 | README.md:217: `/contextmode off` switches the filter off in this chat | if the query for the allowlist fails, the mode just read is thrown away with it and the global settings punish |
| internal/tglog/handler.go:332 | the bot reports when a problem is gone | recovery is recognised from messages of the start only; a database incident of a running bot stays active |
| internal/tglog/handler.go:79 | README.md:94: error logs are repeated in a group | the sender may choose `stop` while an alert waits, such as the error that made `run` return |
| cmd/bot/captcha.go:76 | the unban follows at once, the aim is not to block for good | an unban that fails is not tried again, and no timer is left |
| internal/captcha/captcha.go:49 | messages before the confirmation are discarded, in case of a race with the restriction | the entry exists only after `Track`, which follows restriction and challenge |
| cmd/bot/autodelete.go:31 | a context of its own, because the handler's would doom the deletion when the bot stops | the goroutine ends with the process |
| internal/linkcheck/linkcheck.go:72 | a link to a learned domain is cut off in any chat | in `name.com.` at the end of a sentence the full stop is part of the host |
| internal/linkcheck/linkcheck.go:63 | the scheme is added if there is none | a bare link with an address in its path is taken to have one, and yields no domain |
| internal/contentfilter/contentfilter.go:111 | a subject with a `@username` is caught | a line break is dropped as a control character: a handle on a line of its own is glued to the word above |
| internal/storage/storage.go:501 | copies that differ in blanks have one hash | the same: with a line break for a blank the hash differs |
| internal/storage/storage.go:119 | README.md:267: a ban adds the text to `global_blacklist` | a sample cut inside a rune is refused by PostgreSQL, and the text with it |
| internal/storage/storage.go:461 | cmd/bot/main.go:29: the timeout covers all attempts with room to spare | a ping that hangs has no timeout of its own and may use it up |
| cmd/bot/main.go:287 | internal/config/config.go:16: 0 switches the log chat off | the other parser looks for an empty string only, and builds a logger for chat 0 |

### The bounds, and why they are enough

* `RateLimiter`: Window 2 in a clock to 4 lets an entry expire twice over; four
  messages fill a history of Limit 2, pass it, and leave one for after the cleanup.
  Two workers give a stale clock value; a third adds no new order of two clock values.
  Two members show that histories do not mix.
* `Captcha`: two joins of one member are needed for a stale timer; entries of
  different members share nothing but the map. Two presses race with each other and
  with both timers. Two failures allow a failure in each of two goroutines.
* `Reports`: four reports of a message at threshold 2 are two full bans, or one and a
  started record. TTL 1 in a clock to 2 lets a record be one tick too young and old
  enough.
* `Dispatcher`, first run: three messages of one member are two with a trigger word and a
  link, and a blank one that breaks the row, in any order of arrival. WarnThreshold is 2, so
  the row is complete, or broken before, between or after. Two workers have a
  message each, with one behind them. Bans are silent, with one attempt per call, and the
  cached owner does not expire within the run (`RowSpec`); he does in the second run.
* `Dispatcher`, second run: a worker, a handler, notices, throttling, and the modes of
  the chat. Either both messages arrive, and the second may find the one place of the queue
  taken; or the first alone, members report it and the owner may change (`PairSpec`).
  Only steps that have no fairness condition (arrivals, commands, changes of the owner)
  are held back, so what must happen still must. Notices and retries change nothing
  the properties of the first run speak of.
* `CaptchaGate`: a message more than the captcha shows every order of its handler
  with joins, presses and timers; messages do not meet each other.
* `Admin`, `Filtering`: interference needs two commands, or a command and a learning
  goroutine, and every pair of requests on the same rows is tried in one of the orders of
  sending, all orders of their steps following. Categories of two words stop halfway or not.
  Requests about other tables share nothing but the rights. Two posts in two chats show
  that settings do not mix; each check is two queries, and two commands of administrators
  can change both between them. There the end of the context is left to the failing
  query, which looks the same to a worker.
* `Links`: seven tokens are `https://`, `www`, dot, name, dot, zone and one more thing:
  punctuation, a path or a blank; or two short links. `TextFilter`: in five marks fit a
  phrase of two words with every kind of character between and around. `Blacklist`: a cut at
  three bytes falls before, inside and after runes of one, two and three bytes; two bans
  are two goroutines.
* The three parts of `MCProcess` follow each other in the program and share no state that a
  property relates, so the run takes one of them at a time.
* `Config`: a setting is judged on its own or with one other, and the token and the
  chat make four. `Startup` has the constants of the code, and every second of the thirty.
* `Lifecycle`: QueueCap 1 gives a full and an empty queue; two workers give a
  shared incident and a late worker; one outage is down and up once. Webhook mode
  contains all steps of polling mode.

Reports, presses, joins, changes of the owner and outages are bounded by constants
(`MaxReports`, `Presses`, `Joins`, `MaxTransfers`, `MaxOutages`), the clock by
`MaxTime`; failures and restarts of the captcha by `MaxFailures` and `MaxRestarts`;
bans that teach and changes of rights by `MaxLessons` and `MaxRights`, bans in `Blacklist`
by `MaxBans`, edits by `MaxEdits`, lengths of texts by `MaxTokens`, `MaxMarks` and `MaxRunes`, a hanging ping by `MaxPing`.
The proofs have no such bounds on the data: sets and constants are arbitrary.

Deadlock is not reported: all these systems may stop, when the clock has reached
its bound, everybody has joined and pressed, or the process has ended.

### Fairness

Weak fairness is given to each goroutine that can go on by itself: a
worker, a command handler, an auto-deletion, a learning goroutine, a join handler, a timer, a button handler, `main`,
sender and reminder. This is what the Go scheduler provides for runnable goroutines,
together with the assumption that a call to Telegram or PostgreSQL returns at last,
with an answer or an error. `withRetry` waits as long as Telegram asks and
tries a limited number of times, so it too returns. There is one condition per
goroutine, not per action: no choice of `select` and no success of a call is promised.
Nothing makes a member write, join, leave or press, a signal come, an
error happen, or the database return.

## 4. The proofs

All of them are safety theorems for arbitrary constants, subject to the assumption
named in each module: what `config.Load` enforces, and for `Startup` and `Links` what
holds of the constants in the source.

**`PositionsProofs`.** Lemmas only. `RankBounds`, `RankInjective`, `NthOfRank`,
`RankOfNth` show that "the j-th smallest position" is well defined; from them come what
`Picked` returns (`PickedSequence`), that a further position behind all others appends one
element (`PickedAppend`), and that a stretch of the positions gives a stretch of the result
(`PickedStretch`). This stands in for an induction over the loops.

**`RateLimiterProofs`.** The heart is what the in-place filter does to a
sequence: `FilterAfterProperties` and `OldHeaderProperties` tell what each of the two
sequences keeps. The inductive invariant

    IInv == TypeOK /\ Capacity /\ OnlyAccepted /\ RecentKept /\ FloodHasPredecessor

adds to the checked properties that a history never has more than Limit entries,
duplicates included (`Capacity`), and holds only accepted messages of its own key (`OnlyAccepted`).
For the window that ends at the latest time used so far the limit follows: what counts
is in the history (`RecentKept`), and the history has at most Limit entries
(`HorizonWithin`). A history that had lost an entry would accept one message too many.
`WindowsLimited` (`WindowLimit`) says what is left of it for every window of the past, with

    RaceInv == finitely many sampled messages, at most one for each worker
               /\ for every t < horizon: those sampled at or before t, and those
                  accepted there after t was overtaken, are together at most WorkerCount
               /\ for every key and every t: at most Limit accepted in time in the
                  window that ends at t

The moment the latest time passes t, `HorizonWithin` bounds what was accepted up to t;
whoever is accepted there later had read the clock already, and from then on nobody joins
them. `LimitStretched` draws the conclusion: no window holds more than
Limit + WorkerCount messages. The theorems are `TypeCorrect`, `NothingForgotten`,
`WindowsLimited`, `LimitStretched`, `FloodNeverAlone`. On top of it `FloodDeserved`
(`FloodJustifiedBeforeSweep`), with

    CountInv == FinitelyAccepted /\ (~sweeps => NoRepeats) /\ FloodJustifiedBeforeSweep

`NoRepeats` is what the cleanup breaks: while no message stands twice in a history, Limit
entries are Limit different accepted messages. `FilterAfterDistinct` says that
`filterAfter` keeps it so.

**`CaptchaProofs`.** The inductive invariant is

    IInv == TypeOK /\ OwnEntry /\ ArmedFirst /\ OpenHasTimer /\ OneOutcome

`OwnEntry` says that the entry of a member is of one of his own, fully tracked,
joins, and `ArmedFirst` that a handler about to insert has a running timer; without
them `TrackInsert` could open a challenge without a timer. Theorems: `TypeCorrect`,
`AtMostOneOutcome`, `NobodyForgotten`, for any number of members, joins, presses,
failures and restarts. On top of it `KickLetsBackIn` (`KickIsNoBan`, with `Unarmed`: a
join that was not tracked has no timer) and `NobodyLeftMuted` (`NoOrphanMute`). For the
gate, `SettledAreHeard` (`HeardWhenSettled`) and `GateTypeCorrect`, with

    GInv == for every message: if it was settled when written and its author has not
            joined since, he is Quiet, and the message is not about to be deleted

where `Quiet` says that none of his joins has an entry, or a handler that may still make
one. That is what keeps a late `IsPending` from answering yes.

`KeepsTheDoor`: `Spec => GatekeepingKept`, the second refinement. `Silence` is the
call that restricts, `Challenge` the insertion by `Track`, `RunOut` the critical section of a
timer, `Remove` and `Readmit` its two calls, `Pass` the critical section of `Resolve`,
`GiveBack` the call that unmutes, `Forget` a restart; everything else is a stutter. It needs
`Unarmed` next to `IInv`: what is due is read off the timers, so a join whose handler
is not through must have none that has fired (`TidyFacts`). `Resolve` stops the timer of
whatever join the entry is of, which is not always the one of the button pressed; a
stopped timer leaves the phase of that join as it was, so it is one step of `Pass`.

**`AdminProofs`.** `AdminTypeCorrect`, `RemovalLasts`, `SuccessIsComplete`,
`OnlyAdminsChange` with

    IInv == TypeOK /\ HandlersKnow /\ RemovedStaysOut /\ ClearedIdle
            /\ AddedSoFar /\ AddedUnlessRemoved /\ ChangedByAdmins

`HandlersKnow` says that a handler past the check has a sender who was an administrator;
`ClearedIdle` that nobody under way adds a row that counts as cleared; `AddedSoFar` that
`/addcorewords` has put the words before the current one into the table. Without each, its neighbour
is not inductive. For the filter, `PunishmentIsSet` and `SparingIsSet` (`PunishedAsSet`,
`SparedAsSet`) and `FilteringTypeCorrect`, with

    FInv == FTypeOK /\ NowRecorded /\ (for every post) Sound /\ PunishedAsSet /\ SparedAsSet

`NowRecorded` says that the settings of the chat at this instant are among the moments of a check under way,
and `Sound` that what the worker holds after each query is what some moment gives.
Both hold for any number of commands, requests, chats, words and posts.

**`ReportsProofs`.** `TypeCorrect`, `NoneOverdue`, `BansPaid`, and the action
property `SweepIsPatient`. The invariant adds that the set of reporters of a record is
finite, which `Cardinality` needs, so `TypeCorrect` is proved here and left out of the run; that cleanup is patient rests on the sampled time
being no later than the clock.

**`DispatcherProofs`.** `TypeCorrect`, and from it `BlacklistHonest`
(`LearnedFromBans`) and `OwnerSpared` (`OwnerNotTried`) with the inductive invariant

    BanInv == PunishedFirst /\ LearnedFromBans /\ OwnerRight /\ OwnerNotTried

`PunishedFirst` says that every actor past `banChatMember`, and every learning
goroutine, has the message of an author who was banned: without it, nothing keeps a
goroutine in flight from writing the text of a member whose ban failed.
`OwnerRight` says that the cache, and what an actor is about to put into it, is the owner.
The proof sorts the actions by what they do to an actor (`MovesTo`: it goes on,
finishes, or enters `ban()`), so that most of them are one lemma, `PlainKeeps`.

There too: `WarningsEarned` (`WarningsInARow`), with

    WarnInv == QueueFresh /\ OneHolder /\ AllHandled is finite /\ WarnsTrigger
               /\ CountedOnce /\ BeforeDone /\ HeldCause
               /\ CounterPaid /\ WarningsInARow

`Live(u)` are the counted trigger messages of a member that no message of his has cleared:
neither themselves, by a ban, nor one taken after they were through. The counter is at most their
number (`CounterPaid`): a message adds itself to both, a reset brings the counter to zero.
A message is counted once although there are several workers, because the queue holds it
once and no worker has it meanwhile (`QueueFresh`), after that one worker holds it (`OneHolder`),
and what is counted and not yet dealt with is past the counter (`CountedOnce`). `BeforeDone`
says that what was settled before a message was taken stays settled; `HeldCause` that the
ban of a message still under way is not taken for one that has ended a row. From these,
`RowsStay`: a row that paid for a ban is never broken later.

`KnownJudged` (`KnownNotSpared`), with

    KnownInv == Lessons /\ KnownHeld

`Lessons` says that what was known when a message was submitted is still in the table, and
that the empty text, with which a message would pass the first level, is never learned.
`KnownHeld` says that, unless the database failed, a worker with such a message is on the
path from the queue through the first level into `ban()` and nowhere else. A handler may
have the same message; that it leaves the verdict alone is part of the proof.

`Implements`: `Spec => ModerationKept`, the refinement. Each action
maps to one of `Moderation` or to a stutter: `Submit` to an arrival, `Ban` to a
punishment, the learning goroutine to learning, the last step of a worker to a
verdict, everything else to nothing. It uses the two invariants above, and

    HeldInv == PunishedHeld /\ HeldArrived

for the rest: without commands the author of a message was punished by the worker that
still holds it, or that judged it (`PunishedHeld`), and what a worker or a handler holds has arrived
(`HeldArrived`). That a verdict is given once comes from `OneHolder`, and that a
full queue means as many waiting messages as places from `QueueFresh`.

**`LifecycleProofs`.** `TypeCorrect`, `ToldOnce` (`OneAlertPerIncident`),
`WorkersNeverPanic` (`PanicOnlyFromStrays`) and `PoolOutlivesWorkers`
(`StoreOutlivesWorkers`), with

    IInv == TypeOK /\ Balanced /\ EarlyOff /\ LateQuiet /\ ClosedLate /\ PanicOnlyFromStrays

Alerts are recoveries plus the active incident (`Balanced`). A worker is off before main
serves and off or stopped, hence silent, when main is past `Wait`, on the error paths of
`run()` too (`EarlyOff`, `LateQuiet`); pool and queue are closed by main after that, and main
itself is silent once the queue is closed (`ClosedLate`).

In the same module, for the way to that point: `DatabaseWaitedFor`
(`DatabaseAwaited`) for every number of attempts, pause and timeout that leaves room for
the pauses (`StartupAssumption`; the constants of the code are 6, 2 s and 30 s), with

    ConnectionInv == ConnectionOK /\ PoolKept /\ OnTime

`OnTime` says that without a hanging ping and a signal attempt n is made after n - 1 pauses,
with the database still down when a pause begins. `LoggerMatches` (`LoggerAsConfigured`),
for any number of variables set, with

    SettingsInv == LoggerRead /\ LoadHasJudged

that is, the logger has what its own parser reads of the variables, and `Load` has refused at
the first wrong variable in its order: an error behind the log's own settings means that
these are right.

**`TextsProofs`.** Nothing is assumed of the lengths of texts, so the theorems are
about all texts.

* `LessonsTaught` (`BansTeach`), with `LearningInv == GoroutinesOK /\ LessonsStored /\
  NothingElse`: a statement that reached the database left its lesson there, and the
  tables hold nothing else. What `Sample` and `Bytes` compute does not matter to it.
* `SpacingLevelled` (`LevelledAlike`). The loop of `normalizeText` has the invariant
  `LoopInv`: the flag says whether a blank would be copied now, and what is copied is
  `Picked` from the marks read so far. `TrimmedIsCanonical` shows that the trim at the end takes away
  the one mark the loop could not judge, a blank with no word behind it; `PartOfCanonical` that the
  canonical form of a stretch of the text is a stretch of its canonical form, so
  that an allowed phrase is found.
* `LinksRead` (`LinksFound`). A word of a text and the text agree on where the pattern
  begins (`SameStarts`), where a link ends (`LinkEndsWithWord`), where a search finds a match
  (`SameMatch`) and on the match itself (`SameMatchText`); every match lies in one word
  (`StartIsShown`, `SpanAround`). So the matches of a text are those of its words
  (`MatchesOfPieces`). `HostIs` and `LinkLeadsToDomain` go through the four spellings
  of a link. `LinksAssumption` says that the kinds of token are different and that `www` is
  neither a name nor a zone.

**Only model-checked.** Every invariant that a run checks has a theorem. Left to TLC are
the five liveness properties (`NewcomerDecided`, `QueuedHandled`, `ShutdownCompletes`,
`LessonLearned`, `SignalEndsProcess`) and `TidiedUp`, because the prover has no reasoning about
fairness and `ENABLED`; and the four violations, which need a counterexample and no proof.
Not proved either, because it takes an induction over data, is what `Bytes`, a fold, computes.

## 5. Not modelled

* **`MatchTrigger`, keyword lists, lists and addresses of the configuration**: their
  contents are data; what is matched is a constant function of `Dispatcher`.
* **The migration's SQL, wording, `registerBotCommands`, `displayName`, the fields of a
  message**: no choice in them that another part depends on.
* **Delivery of alerts**: the logger's queue has no contents in the model, so a dropped
  alert (tglog/handler.go:253) and one lost at the end are seen as counts only.
* **The age of a message**: the limiter stamps a message when a worker gets to it, so a
  backlog of the queue counts as a burst; the way from the queue into `RateLimiter` is open.
* **The bot library**: its goroutine per handler is assumed.

## 6. Plan

Done: every component of the inventory but formatting has a module, and every invariant
and action property of a run a theorem. What would add most, in this order:

1. The contents of the logger's queue: what is delivered, dropped, or lost at the end.
2. An abstract sliding window that `RateLimiter` with one worker and without the cleanup
   implements (with more workers only `WindowLimit` holds), with the proof of the refinement.
3. Liveness in `Moderation`: every waiting message gets its verdict unless the program
   stops, as a property of the refinement (today it is `QueuedHandled`).
4. The composition of queue and limiter, with the age of a message.
