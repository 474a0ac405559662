------------------------------- MODULE Config -------------------------------
(***************************************************************************)
(* The settings: config.Load with its readers, and the part of run() that  *)
(* reads three of the same variables before it, bootstrapTelegramError-    *)
(* Logger of cmd/bot/main.go, to have somewhere to report what Load finds. *)
(*                                                                         *)
(* An operator edits the environment variable by variable and starts the   *)
(* bot.  A raw value is one of a few strings that the readers tell apart;  *)
(* secrets and addresses are "set" or not.  A definition named Mut... is a *)
(* faulty variant of the one below it, used to see that the properties     *)
(* notice it.                                                              *)
(***************************************************************************)
EXTENDS Integers, Sequences, FiniteSets

CONSTANT MaxEdits    \* bound on the variables that are set

ASSUME ConfigAssumption == MaxEdits \in Nat

VARIABLES
    env,       \* the environment
    stage,     \* "edit", "load", "run" or "refused"
    logger,    \* the logger to Telegram: is there one, and its settings
    refused,   \* the variable Load complains of
    edits      \* history: variables set

settings == <<env, stage, logger, refused, edits>>

\* The variables in the order in which Load looks at them.
MutOrder ==
         <<"BOT_TOKEN", "ERROR_LOG_CHAT_ID", "RATE_LIMIT_COUNT", "RATE_LIMIT_WINDOW_SECONDS",
           "WORKER_COUNT", "QUEUE_SIZE", "WEBHOOK_URL", "WEBHOOK_SECRET_TOKEN",
           "REPORT_THRESHOLD", "SILENT_BAN", "WARN_THRESHOLD", "CONTENT_FILTER_ENABLED",
           "CONTENT_FILTER_ACTION", "CAPTCHA_ENABLED", "CAPTCHA_TIMEOUT_SECONDS",
           "AUTO_DELETE_DELAY_SECONDS", "ERROR_LOG_MESSAGE_THREAD_ID", "ERROR_LOG_REMINDER_MINUTES">>

Order == <<"BOT_TOKEN", "ERROR_LOG_CHAT_ID", "ERROR_LOG_MESSAGE_THREAD_ID",
           "ERROR_LOG_REMINDER_MINUTES", "RATE_LIMIT_COUNT", "RATE_LIMIT_WINDOW_SECONDS",
           "WORKER_COUNT", "QUEUE_SIZE", "WEBHOOK_URL", "WEBHOOK_SECRET_TOKEN",
           "REPORT_THRESHOLD", "SILENT_BAN", "WARN_THRESHOLD", "CONTENT_FILTER_ENABLED",
           "CONTENT_FILTER_ACTION", "CAPTCHA_ENABLED", "CAPTCHA_TIMEOUT_SECONDS",
           "AUTO_DELETE_DELAY_SECONDS">>

Variables == {Order[n] : n \in DOMAIN Order}

Switches == {"SILENT_BAN", "CONTENT_FILTER_ENABLED", "CAPTCHA_ENABLED"}
Secrets == {"BOT_TOKEN", "WEBHOOK_SECRET_TOKEN"}
NumberKeys == Variables \ (Switches \cup Secrets \cup {"WEBHOOK_URL", "CONTENT_FILTER_ACTION"})

Unset == ""
Default ==
    [key \in NumberKeys |->
        CASE key \in {"ERROR_LOG_CHAT_ID", "ERROR_LOG_MESSAGE_THREAD_ID"} -> 0
          [] key \in {"ERROR_LOG_REMINDER_MINUTES", "AUTO_DELETE_DELAY_SECONDS"} -> 30
          [] key = "RATE_LIMIT_COUNT" -> 5
          [] key \in {"RATE_LIMIT_WINDOW_SECONDS", "REPORT_THRESHOLD", "WARN_THRESHOLD"} -> 3
          [] key = "WORKER_COUNT" -> 10
          [] key = "QUEUE_SIZE" -> 5000
          [] key = "CAPTCHA_TIMEOUT_SECONDS" -> 120]

\* What is tried for a variable; "junk" is no number, no switch and no action.
Numerals == [raw \in {"-1", "0", "1", "2"} |->
                CASE raw = "-1" -> -1 [] raw = "0" -> 0 [] raw = "1" -> 1 [] raw = "2" -> 2]

Raws(key) ==
    CASE key \in Secrets -> {"set"}
      [] key = "WEBHOOK_URL" -> {"http", "https"}
      [] key = "CONTENT_FILTER_ACTION" -> {"ban", "delete", "junk"}
      [] key \in Switches -> {"true", "0", "2", "junk"}
      [] OTHER -> DOMAIN Numerals \cup {"junk"}

-----------------------------------------------------------------------------
\* strconv.Atoi and strconv.ParseInt, with 0 for an error, and strconv.ParseBool
IsNumber(raw) == raw \in DOMAIN Numerals
Number(raw) == IF IsNumber(raw) THEN Numerals[raw] ELSE 0
IsBool(raw) == raw \in {"true", "false", "1", "0"}

\* intEnv and int64Env
Value(key) == IF env[key] = Unset THEN Default[key] ELSE Number(env[key])

\* The least number Load accepts for a variable; any for the chat, of which -1
\* is the least tried.
Least(key) ==
    CASE key = "ERROR_LOG_CHAT_ID" -> -1
      [] key \in {"ERROR_LOG_MESSAGE_THREAD_ID", "AUTO_DELETE_DELAY_SECONDS"} -> 0
      [] key = "REPORT_THRESHOLD" -> 2
      [] OTHER -> 1

\* Load returns an error at this variable.
Wrong(key) ==
    \/ key = "BOT_TOKEN" /\ env[key] = Unset
    \/ key \in NumberKeys /\ env[key] # Unset /\ ~IsNumber(env[key])
    \/ key \in NumberKeys /\ IsNumber(env[key]) /\ Value(key) < Least(key)
    \/ key = "ERROR_LOG_MESSAGE_THREAD_ID" /\ Value(key) > 0 /\ Value("ERROR_LOG_CHAT_ID") = 0
    \/ key = "WEBHOOK_URL" /\ env[key] = "http"
    \/ key = "WEBHOOK_SECRET_TOKEN" /\ env[key] = Unset /\ env["WEBHOOK_URL"] # Unset
    \/ key \in Switches /\ env[key] # Unset /\ ~IsBool(env[key])
    \/ key = "CONTENT_FILTER_ACTION" /\ env[key] \notin {Unset, "ban", "delete"}

-----------------------------------------------------------------------------
SettingsInit ==
    /\ env = [key \in Variables |-> Unset]
    /\ stage = "edit"
    /\ logger = [on |-> FALSE, chat |-> 0, thread |-> 0, remind |-> 0]
    /\ refused = Unset
    /\ edits = 0

Edit(key) ==
    /\ stage = "edit" /\ edits < MaxEdits
    /\ env[key] = Unset
    /\ \E raw \in Raws(key) : env' = [env EXCEPT ![key] = raw]
    /\ edits' = edits + 1
    /\ UNCHANGED <<stage, logger, refused>>

\* bootstrapTelegramErrorLogger comes as far as NewAsyncHandler.
LoggerWanted ==
    /\ env["BOT_TOKEN"] # Unset
    /\ IsNumber(env["ERROR_LOG_CHAT_ID"])
    /\ env["ERROR_LOG_MESSAGE_THREAD_ID"] = Unset \/ IsNumber(env["ERROR_LOG_MESSAGE_THREAD_ID"])

\* Its own reading of the interval: whatever is no positive number is 30.
ReminderRead ==
    LET minutes == Number(env["ERROR_LOG_REMINDER_MINUTES"])
    IN  IF minutes > 0 THEN minutes ELSE 30

\* The logger is built, unless tgbot.New, which asks Telegram, fails.
Bootstrap ==
    /\ stage = "edit"
    /\ stage' = "load"
    /\ \/ /\ LoggerWanted
          /\ logger' = [on |-> TRUE, chat |-> Value("ERROR_LOG_CHAT_ID"),
                        thread |-> Value("ERROR_LOG_MESSAGE_THREAD_ID"), remind |-> ReminderRead]
       \/ UNCHANGED logger
    /\ UNCHANGED <<env, refused, edits>>

\* config.Load: the first wrong variable is its error.
Load ==
    /\ stage = "load"
    /\ LET wrong == {n \in DOMAIN Order : Wrong(Order[n])}
       IN  IF wrong = {} THEN stage' = "run" /\ UNCHANGED refused
           ELSE /\ stage' = "refused"
                /\ refused' = Order[CHOOSE n \in wrong : \A m \in wrong : n <= m]
    /\ UNCHANGED <<env, logger, edits>>

SettingsNext == (\E key \in Variables : Edit(key)) \/ Bootstrap \/ Load

SettingsSpec == SettingsInit /\ [][SettingsNext]_settings

-----------------------------------------------------------------------------
\* The variables of the log are read twice, by two parsers.  In a bot that runs
\* both have read the same: the logger writes to the chat and the topic of the
\* configuration, and reminds as often.  In one that does not, an error in any
\* setting that is not about the log has the chat for errors to go to.
LoggerAsConfigured ==
    /\ stage = "run" =>
          /\ Value("ERROR_LOG_CHAT_ID") # 0 => LoggerWanted
          /\ logger.on =>
                /\ logger.chat = Value("ERROR_LOG_CHAT_ID")
                /\ logger.thread = Value("ERROR_LOG_MESSAGE_THREAD_ID")
                /\ logger.remind = Value("ERROR_LOG_REMINDER_MINUTES")
    /\ /\ stage = "refused"
       /\ refused \notin {"BOT_TOKEN", "ERROR_LOG_CHAT_ID", "ERROR_LOG_MESSAGE_THREAD_ID"}
       /\ Value("ERROR_LOG_CHAT_ID") # 0
       => LoggerWanted
=============================================================================
