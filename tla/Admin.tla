------------------------------- MODULE Admin -------------------------------
(***************************************************************************)
(* The commands of cmd/bot/admin.go and /help, the tables of               *)
(* internal/storage they change (chat_triggers, the allowlist and the mode *)
(* of the content filter, bad_domains) and the automatic deletion of       *)
(* cmd/bot/autodelete.go.                                                  *)
(*                                                                         *)
(* Each command has a handler goroutine of its own.  Its calls to Telegram *)
(* and PostgreSQL are its steps, any of which may fail; the goroutines     *)
(* that learn domains from bans write the same table.  A statement that    *)
(* fails for the bot may have been executed all the same.                  *)
(* A definition named Mut... is a faulty variant of the definition below   *)
(* it, used to see that the properties notice the fault.                   *)
(***************************************************************************)
EXTENDS Naturals, Sequences

CONSTANTS
    Commands,        \* command messages with a sender
    Requests,        \* what a command may ask for: name, chat, argument
    Chats,
    Global,          \* the chat of the rows of bad_domains
    Args,            \* arguments, as written after the command
    NoArg,           \* the empty argument
    Canon,           \* an argument in the form the tables compare: normalizeText
                     \* of a phrase, a domain in lower case without "www."
    Core,            \* corewords: the words of each category
    MaxLessons,      \* bound on the bans that teach domains
    MaxRights        \* bound on changes of the administrators

Listers == {"triggers", "allowcontexts", "domains"}
Adders == {"addspam", "allowcontext", "addcorewords", "blockdomain"}
Removers == {"removespam", "unallowcontext", "unblockdomain"}
Names == Listers \cup Adders \cup Removers \cup {"contextmode", "ban", "help"}

ASSUME AdminAssumption ==
    /\ Requests \subseteq [name : Names, chat : Chats, arg : Args]
    /\ NoArg \in Args
    /\ Canon \in [Args -> Args] /\ Canon[NoArg] = NoArg
    /\ \A k \in DOMAIN Core : Core[k] \in Seq(Args) /\ Core[k] # << >>
    /\ MaxLessons \in Nat /\ MaxRights \in Nat

VARIABLES
    cmd,             \* the handler of each command
    isAdmin,         \* Telegram: is the sender an administrator of the chat
    shown,           \* Telegram: commands and replies in the chats
    rows,            \* the rows of the three tables
    mode,            \* chat_content_filter_settings
    lessons,         \* goroutines about to learn a row of bad_domains
    storeOpen,       \* did PostgreSQL answer when the bot started
    autoDelete,      \* AutoDeleteDelay > 0 and the chats are groups
    cancelled,       \* the context of the program is done
    exited,          \* main has returned
    wasAdmin,        \* history: commands whose sender was an administrator since
    changed,         \* history: commands that may have changed a table
    removed,         \* history: rows that a command removed
    cleared,         \* history: rows removed while nothing was to add them
    apiFailed,       \* history: has a call to Telegram failed
    bans, rights     \* history: bans that taught, changes of the administrators

tables == <<rows, mode>>
life == <<storeOpen, autoDelete, cancelled, exited>>
traces == <<wasAdmin, changed, removed, cleared>>
bounds == <<bans, rights>>
vars == <<cmd, isAdmin, shown, tables, lessons, life, traces, apiFailed, bounds>>

ChatModes == {"", "off", "delete", "ban"}
Steps == {"unsent", "check", "act", "reply", "deleteCommand", "deleteReply", "over"}
Answers == {"none", "unavailable", "refused", "usage", "failed", "absent", "done"}

Init ==
    /\ cmd \in [Commands -> [step : {"unsent"}, req : Requests, next : {1}, answer : {"none"}]]
    /\ isAdmin \in [Commands -> BOOLEAN]
    /\ shown = {}
    /\ rows = {}
    /\ mode = [c \in Chats |-> ""]
    /\ lessons = {}
    /\ storeOpen \in BOOLEAN /\ autoDelete \in BOOLEAN
    /\ cancelled = FALSE /\ exited = FALSE
    /\ wasAdmin = {} /\ changed = {} /\ removed = {} /\ cleared = {}
    /\ apiFailed = FALSE
    /\ bans = 0 /\ rights = 0

-----------------------------------------------------------------------------
TableOf(name) ==
    CASE name \in {"addspam", "removespam", "addcorewords"} -> "triggers"
      [] name \in {"allowcontext", "unallowcontext"}        -> "allowlist"
      [] OTHER                                              -> "domains"  \* and /ban

\* The row of a request for the entry a.
Row(r, a) == <<TableOf(r.name), IF TableOf(r.name) = "domains" THEN Global ELSE r.chat, a>>

\* What a request adds, in order: its argument, or the words of the category.
Words(r) == IF r.name = "addcorewords" THEN Core[r.arg] ELSE <<r.arg>>

\* Can the command be carried out with this argument, or is the reply the
\* usage?  For /ban the argument stands for what the message it replies to
\* links to, and NoArg for a target that is missing, a bot or the sender.
Understood(r) ==
    CASE r.name \in Listers \cup {"contextmode"} -> TRUE
      [] r.name = "addcorewords"                -> r.arg \in DOMAIN Core
      [] r.name = "blockdomain"                 -> Canon[r.arg] # NoArg
      [] OTHER                                  -> r.arg # NoArg

\* The rows that the request will add unless it fails.
Adds(r) ==
    IF r.name \in Adders \cup {"ban"} /\ Understood(r)
    THEN {Row(r, Canon[Words(r)[i]]) : i \in DOMAIN Words(r)}
    ELSE {}

\* Something that began earlier may still add the row.
InFlight(row) ==
    \/ row \in lessons
    \/ \E c \in Commands : cmd[c].step \in {"check", "act"} /\ row \in Adds(cmd[c].req)

At(c, s) == ~exited /\ cmd[c].step = s

\* The handler goes on to the reply.
Answer(c, a) == cmd' = [cmd EXCEPT ![c].step = "reply", ![c].answer = a]

\* Calls on the handler's context, which is the program's.
DbOk == ~cancelled
ApiOk == ~cancelled /\ UNCHANGED apiFailed
ApiErr == apiFailed' = TRUE

\* An update with the command reaches its handler.  Without a store only /ban
\* and /help go on; /help asks for no rights.
Send(c) ==
    LET r == cmd[c].req
    IN  /\ At(c, "unsent")
        /\ shown' = shown \cup {<<c, "command">>}
        /\ wasAdmin' = IF isAdmin[c] THEN wasAdmin \cup {c} ELSE wasAdmin
        /\ \/ /\ r.name = "help"
              /\ cmd' = [cmd EXCEPT ![c].step = "act"]
              /\ UNCHANGED cleared
           \/ /\ r.name # "help" /\ ~storeOpen /\ r.name # "ban"
              /\ Answer(c, "unavailable")
              /\ UNCHANGED cleared
           \/ /\ r.name # "help" /\ (storeOpen \/ r.name = "ban")
              /\ cmd' = [cmd EXCEPT ![c].step = "check"]
              /\ cleared' = cleared \ Adds(r)
        /\ UNCHANGED <<isAdmin, tables, lessons, life, changed, removed, apiFailed, bounds>>

\* requireAdmin: GetChatMember says whether to go on; after an error or without
\* rights the handler only replies.
MutRequireAdmin(c) ==
    \/ ApiOk /\ isAdmin[c]
    \/ ApiErr

RequireAdmin(c) == ApiOk /\ isAdmin[c]

Check(c) ==
    LET r == cmd[c].req
    IN  /\ At(c, "check")
        /\ \/ RequireAdmin(c) /\ Understood(r) /\ cmd' = [cmd EXCEPT ![c].step = "act"]
           \/ RequireAdmin(c) /\ ~Understood(r) /\ Answer(c, "usage")
           \/ ApiOk /\ ~isAdmin[c] /\ Answer(c, "refused")
           \/ ApiErr /\ Answer(c, "failed")
        /\ UNCHANGED <<isAdmin, shown, tables, lessons, life, traces, bounds>>

-----------------------------------------------------------------------------
\* The handler of a command with this name is about to send its statement.
Acts(c, name) == At(c, "act") /\ cmd[c].req.name = name

\* AddTrigger, AddContentFilterAllow, LearnDomains: an insert that skips a row
\* there is.  /addcorewords goes on to the next word, and stops at an error.
MutAfterError(c) ==
    IF cmd[c].next < Len(Words(cmd[c].req))
    THEN cmd' = [cmd EXCEPT ![c].next = @ + 1]
    ELSE Answer(c, "done")

AfterError(c) == Answer(c, "failed")

Insert(c) ==
    LET r    == cmd[c].req
        word == Canon[Words(r)[cmd[c].next]]
        row  == Row(r, word)
    IN  /\ \/ /\ word # NoArg /\ DbOk
              /\ rows' = rows \cup {row}
              /\ IF cmd[c].next = Len(Words(r))
                 THEN Answer(c, "done")
                 ELSE cmd' = [cmd EXCEPT ![c].next = @ + 1]
              /\ changed' = changed \cup {c}
           \/ /\ word # NoArg
              /\ rows' \in {rows, rows \cup {row}}
              /\ AfterError(c)
              /\ changed' = changed \cup {c}
           \/ /\ word = NoArg
              /\ AfterError(c)
              /\ UNCHANGED <<rows, changed>>
        /\ UNCHANGED <<isAdmin, shown, mode, lessons, life, wasAdmin, removed, cleared,
                       apiFailed, bounds>>

AddSpam(c) == Acts(c, "addspam") /\ Insert(c)
AllowContext(c) == Acts(c, "allowcontext") /\ Insert(c)
AddCoreWords(c) == Acts(c, "addcorewords") /\ Insert(c)
BlockDomain(c) == Acts(c, "blockdomain") /\ Insert(c)

Add(c) == AddSpam(c) \/ AllowContext(c) \/ AddCoreWords(c) \/ BlockDomain(c)

\* The entry that RemoveTrigger, RemoveContentFilterAllow or RemoveDomain
\* deletes.
MutEntry(r) == r.arg
Entry(r) == Canon[r.arg]

\* The deletion: the reply says whether there was such a row.
Delete(c) ==
    LET r     == cmd[c].req
        row   == Row(r, Entry(r))
        asked == Row(r, Canon[r.arg])
    IN  /\ \/ /\ Entry(r) # NoArg /\ DbOk
              /\ rows' = rows \ {row}
              /\ removed' = removed \cup ({row} \cap rows)
              /\ cleared' = IF InFlight(asked) THEN cleared ELSE cleared \cup {asked}
              /\ Answer(c, IF row \in rows THEN "done" ELSE "absent")
              /\ changed' = changed \cup {c}
           \/ /\ Entry(r) # NoArg
              /\ rows' \in {rows, rows \ {row}}
              /\ removed' = removed \cup (rows \ rows')
              /\ Answer(c, "failed")
              /\ changed' = changed \cup {c}
              /\ UNCHANGED cleared
           \/ /\ Entry(r) = NoArg
              /\ Answer(c, "absent")
              /\ UNCHANGED <<rows, removed, cleared, changed>>
        /\ UNCHANGED <<isAdmin, shown, mode, lessons, life, wasAdmin, apiFailed, bounds>>

RemoveSpam(c) == Acts(c, "removespam") /\ Delete(c)
UnallowContext(c) == Acts(c, "unallowcontext") /\ Delete(c)
UnblockDomain(c) == Acts(c, "unblockdomain") /\ Delete(c)

Remove(c) == RemoveSpam(c) \/ UnallowContext(c) \/ UnblockDomain(c)

\* A query and its reply.
Query(c) ==
    /\ \/ DbOk /\ Answer(c, "done")
       \/ Answer(c, "failed")
    /\ UNCHANGED <<isAdmin, shown, tables, lessons, life, traces, apiFailed, bounds>>

Triggers(c) == Acts(c, "triggers") /\ Query(c)
AllowContexts(c) == Acts(c, "allowcontexts") /\ Query(c)
RecentDomains(c) == Acts(c, "domains") /\ Query(c)
ShowMode(c) == Acts(c, "contextmode") /\ cmd[c].req.arg = NoArg /\ Query(c)

List(c) == Triggers(c) \/ AllowContexts(c) \/ RecentDomains(c) \/ ShowMode(c)

\* SetChatContentFilterMode accepts four words.
ModeOf(arg) == IF arg = "default" THEN "" ELSE arg

SetMode(c) ==
    LET r == cmd[c].req
    IN  /\ Acts(c, "contextmode") /\ r.arg # NoArg
        /\ \/ /\ r.arg \in {"default", "off", "delete", "ban"} /\ DbOk
              /\ mode' = [mode EXCEPT ![r.chat] = ModeOf(r.arg)]
              /\ Answer(c, "done")
              /\ changed' = changed \cup {c}
           \/ /\ r.arg \in {"default", "off", "delete", "ban"}
              /\ mode' \in {mode, [mode EXCEPT ![r.chat] = ModeOf(r.arg)]}
              /\ Answer(c, "failed")
              /\ changed' = changed \cup {c}
           \/ /\ r.arg \notin {"default", "off", "delete", "ban"}
              /\ Answer(c, "failed")
              /\ UNCHANGED <<mode, changed>>
        /\ UNCHANGED <<isAdmin, shown, rows, lessons, life, wasAdmin, removed, cleared,
                       apiFailed, bounds>>

\* /ban: BanSpammer, which replies itself; if it bans, a goroutine learns the
\* links of the message.
Ban(c) ==
    /\ Acts(c, "ban")
    /\ lessons' \in {lessons, lessons \cup (IF storeOpen THEN Adds(cmd[c].req) ELSE {})}
    /\ cmd' = [cmd EXCEPT ![c].step = "over"]
    /\ changed' = changed \cup {c}
    /\ UNCHANGED <<isAdmin, shown, tables, life, wasAdmin, removed, cleared, apiFailed, bounds>>

\* sendHelp: the settings of the chat, or the global ones after an error.
Help(c) ==
    /\ Acts(c, "help")
    /\ Answer(c, "done")
    /\ UNCHANGED <<isAdmin, shown, tables, lessons, life, traces, apiFailed, bounds>>

-----------------------------------------------------------------------------
\* sendAndScheduleDelete: after an error nothing is scheduled.
Reply(c) ==
    /\ At(c, "reply")
    /\ \/ /\ ApiOk
          /\ shown' = shown \cup {<<c, "reply">>}
          /\ cmd' = [cmd EXCEPT ![c].step = IF autoDelete THEN "deleteCommand" ELSE "over"]
       \/ /\ ApiErr
          /\ cmd' = [cmd EXCEPT ![c].step = "over"]
          /\ UNCHANGED shown
    /\ UNCHANGED <<isAdmin, tables, lessons, life, traces, bounds>>

\* scheduleAutoDelete: its goroutine sleeps, then deletes the command and the
\* reply on a context of its own; errors are only logged.
MutGone(c) == {}
Gone(c) == {<<c, "command">>}

DeleteCommand(c) ==
    /\ At(c, "deleteCommand")
    /\ \/ shown' = shown \ Gone(c) /\ UNCHANGED apiFailed
       \/ ApiErr /\ UNCHANGED shown
    /\ cmd' = [cmd EXCEPT ![c].step = "deleteReply"]
    /\ UNCHANGED <<isAdmin, tables, lessons, life, traces, bounds>>

DeleteReply(c) ==
    /\ At(c, "deleteReply")
    /\ \/ shown' = shown \ {<<c, "reply">>} /\ UNCHANGED apiFailed
       \/ ApiErr /\ UNCHANGED shown
    /\ cmd' = [cmd EXCEPT ![c].step = "over"]
    /\ UNCHANGED <<isAdmin, tables, lessons, life, traces, bounds>>

-----------------------------------------------------------------------------
\* The rows of bad_domains that the requests speak of.
Domains ==
    {Row(r, Canon[r.arg]) :
        r \in {q \in Requests : q.name \in {"blockdomain", "unblockdomain", "ban"} /\ Understood(q)}}

\* A worker or /report bans the author of a message with a link; the goroutine
\* that learns the domain starts.
Punish(row) ==
    /\ ~exited
    /\ storeOpen /\ bans < MaxLessons
    /\ bans' = bans + 1
    /\ lessons' = lessons \cup {row}
    /\ cleared' = cleared \ {row}
    /\ UNCHANGED <<cmd, isAdmin, shown, tables, life, wasAdmin, changed, removed, apiFailed, rights>>

\* LearnDomains, on a context of its own.
LearnDomains(row) ==
    /\ ~exited /\ row \in lessons
    /\ rows' \in {rows, rows \cup {row}}
    /\ lessons' = lessons \ {row}
    /\ UNCHANGED <<cmd, isAdmin, shown, mode, life, traces, apiFailed, bounds>>

\* The sender of a command becomes an administrator, or is one no longer.
ChangeRights(c) ==
    /\ ~exited
    /\ rights < MaxRights
    /\ rights' = rights + 1
    /\ isAdmin' = [isAdmin EXCEPT ![c] = ~@]
    /\ wasAdmin' = IF cmd[c].step # "unsent" THEN wasAdmin \cup {c} ELSE wasAdmin
    /\ UNCHANGED <<cmd, shown, tables, lessons, life, changed, removed, cleared, apiFailed, bans>>

\* SIGTERM or SIGINT; main returns without waiting for handlers, learning
\* goroutines and pending deletions.
Cancel ==
    /\ ~cancelled
    /\ cancelled' = TRUE
    /\ UNCHANGED <<cmd, isAdmin, shown, tables, lessons, storeOpen, autoDelete, exited, traces, apiFailed, bounds>>

Exit ==
    /\ cancelled /\ ~exited
    /\ exited' = TRUE
    /\ UNCHANGED <<cmd, isAdmin, shown, tables, lessons, storeOpen, autoDelete, cancelled, traces, apiFailed, bounds>>

Handler(c) ==
    \/ Check(c) \/ Add(c) \/ Remove(c) \/ List(c) \/ SetMode(c) \/ Ban(c) \/ Help(c) \/ Reply(c)

Deletion(c) == DeleteCommand(c) \/ DeleteReply(c)

Next ==
    \/ \E c \in Commands : Send(c) \/ Handler(c) \/ Deletion(c) \/ ChangeRights(c)
    \/ \E row \in Domains : Punish(row) \/ LearnDomains(row)
    \/ Cancel \/ Exit

\* Goroutines that can run do run, and their calls return.
Fairness ==
    /\ \A c \in Commands : WF_vars(Handler(c)) /\ WF_vars(Deletion(c))
    /\ \A row \in Domains : WF_vars(LearnDomains(row))
    /\ WF_vars(Exit)

Spec == Init /\ [][Next]_vars /\ Fairness

-----------------------------------------------------------------------------
Rows == {"triggers", "allowlist", "domains"} \X (Chats \cup {Global}) \X Args

\* Every variable has its type; a mode is one that the dispatcher knows.
TypeOK ==
    /\ cmd \in [Commands -> [step : Steps, req : Requests, next : Nat \ {0}, answer : Answers]]
    /\ isAdmin \in [Commands -> BOOLEAN]
    /\ shown \subseteq Commands \X {"command", "reply"}
    /\ rows \subseteq Rows
    /\ mode \in [Chats -> ChatModes]
    /\ lessons \subseteq Rows
    /\ storeOpen \in BOOLEAN /\ autoDelete \in BOOLEAN
    /\ cancelled \in BOOLEAN /\ exited \in BOOLEAN
    /\ wasAdmin \subseteq Commands /\ changed \subseteq Commands
    /\ removed \subseteq Rows /\ cleared \subseteq Rows
    /\ apiFailed \in BOOLEAN
    /\ bans \in Nat /\ rights \in Nat

\* What an administrator takes out of a table stays out until somebody asks
\* for it, or a ban teaches it, after that; only what was under way already
\* may bring it back, however the argument was spelled.
RemovedStaysOut == cleared \cap rows = {}

\* A command that reports success for a word, or for every word of a category,
\* has put them all into the table: one that is missing was removed by another
\* command in between.
AddedUnlessRemoved ==
    \A c \in Commands :
        cmd[c].req.name \in Adders /\ cmd[c].answer = "done" => Adds(cmd[c].req) \subseteq rows \cup removed

\* Nobody changes a table, or has somebody banned, who was not an administrator
\* of the chat at some time since the command was sent, whatever calls fail
\* and whenever rights are given or taken.
ChangedByAdmins == changed \subseteq wasAdmin

\* The README: command and reply are deleted after the delay; unless a call to
\* Telegram fails or the process ends first.
TidiedUp ==
    autoDelete => \A c \in Commands :
        <<c, "reply">> \in shown ~>
            ({<<c, "command">>, <<c, "reply">>} \cap shown = {} \/ apiFailed \/ exited)
=============================================================================
