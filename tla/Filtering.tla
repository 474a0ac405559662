----------------------------- MODULE Filtering -----------------------------
(***************************************************************************)
(* The content filter of the dispatcher (internal/dispatcher, level 4)     *)
(* together with the commands that set it for a chat (Admin): while a      *)
(* worker reads the mode and then the allowlist of the chat, the           *)
(* administrators change both, and either query may fail.                  *)
(***************************************************************************)
EXTENDS Admin

CONSTANTS
    Posts,           \* messages that reach the content filter
    PostChat,        \* the chat of each
    Mentions,        \* phrases, in the form of the tables, that its text contains
    Suspect,         \* posts that the heuristics of contentfilter find suspicious
    GlobalOn,        \* CONTENT_FILTER_ENABLED
    GlobalAction,    \* CONTENT_FILTER_ACTION
    GlobalAllow      \* CONTENT_FILTER_ALLOW_SUBSTRINGS

ASSUME FilteringAssumption ==
    /\ PostChat \in [Posts -> Chats]
    /\ Mentions \in [Posts -> SUBSET Args]
    /\ Suspect \subseteq Posts
    /\ GlobalOn \in BOOLEAN /\ GlobalAction \in {"delete", "ban"}
    /\ GlobalAllow \subseteq Args

VARIABLES
    post,            \* how far the worker of each post is, with the settings it has
    moments          \* history: modes and allowlists of the chat during the check

fvars == <<vars, post, moments>>

Settings == [on : BOOLEAN, action : {"delete", "ban"}, allow : SUBSET Args]

Globals ==
    [on |-> GlobalOn, action |-> GlobalAction, allow |-> {Canon[a] : a \in GlobalAllow}]

FInit ==
    /\ Init
    /\ post = [m \in Posts |-> [step |-> "new", set |-> Globals, failed |-> FALSE]]
    /\ moments = [m \in Posts |-> {}]

Allowlist(chat) == {a \in Args : <<"allowlist", chat, a>> \in rows}

\* What a check could have read at this instant.
Now(m) == <<mode[PostChat[m]], Allowlist(PostChat[m])>>

UnderCheck(m) == post[m].step \in {"mode", "allow", "match"}

Recorded ==
    moments' = [m \in Posts |-> moments[m] \cup IF UnderCheck(m)' THEN {Now(m)'} ELSE {}]

At4(m, s) == ~exited /\ post[m].step = s

\* A post reaches level 4; without a store the global settings hold.
Begin(m) ==
    /\ At4(m, "new")
    /\ post' = [post EXCEPT ![m].step = IF storeOpen THEN "mode" ELSE "match"]
    /\ UNCHANGED vars
    /\ Recorded

MutApplyMode(settings, md) ==
    IF md = "" THEN settings ELSE [settings EXCEPT !.on = TRUE, !.action = "ban"]

ApplyMode(settings, md) ==
    CASE md = ""    -> settings
      [] md = "off" -> [settings EXCEPT !.on = FALSE]
      [] OTHER      -> [settings EXCEPT !.on = TRUE, !.action = md]

\* After an error of a query the worker goes on with the global settings.
Unread(m) == post' = [post EXCEPT ![m] = [step |-> "match", set |-> Globals, failed |-> TRUE]]

ReadMode(m) ==
    /\ At4(m, "mode")
    /\ \/ /\ DbOk
          /\ post' = [post EXCEPT ![m].step = "allow", ![m].set = ApplyMode(@, mode[PostChat[m]])]
       \/ Unread(m)
    /\ UNCHANGED vars
    /\ Recorded

ReadAllow(m) ==
    /\ At4(m, "allow")
    /\ \/ /\ DbOk
          /\ post' = [post EXCEPT ![m].step = "match",
                                  ![m].set.allow = @ \cup Allowlist(PostChat[m])]
       \/ Unread(m)
    /\ UNCHANGED vars
    /\ Recorded

\* The slice that MatchWithAllowlist is given: each check appends to a copy of
\* the global one.
MutSubstrings(m) == UNION {post[n].set.allow : n \in Posts}
Substrings(m) == post[m].set.allow

\* containsNormalizedAny: an empty phrase is part of every text, so it is
\* skipped.
Excused(m, allow) == \E a \in allow : a # NoArg /\ a \in Mentions[m]

Verdict(m) ==
    IF m \in Suspect /\ post[m].set.on /\ ~Excused(m, Substrings(m))
    THEN post[m].set.action
    ELSE "pass"

Match(m) ==
    /\ At4(m, "match")
    /\ post' = [post EXCEPT ![m].step = Verdict(m)]
    /\ UNCHANGED vars
    /\ Recorded

FNext ==
    \/ Next /\ UNCHANGED post /\ Recorded
    \/ \E m \in Posts : Begin(m) \/ ReadMode(m) \/ ReadAllow(m) \/ Match(m)

FSpec == FInit /\ [][FNext]_fvars

-----------------------------------------------------------------------------
\* Every variable has its type.
FTypeOK ==
    /\ post \in [Posts -> [step : {"new", "mode", "allow", "match", "pass", "delete", "ban"},
                           set : Settings, failed : BOOLEAN]]
    /\ moments \in [Posts -> SUBSET (ChatModes \X SUBSET Args)]

\* What the administrators meant by a mode, md, and an allowlist.
Calls(md) == IF md # "" THEN md ELSE IF GlobalOn THEN GlobalAction ELSE "off"
Spares(m, allow) == Excused(m, allow \cup {Canon[a] : a \in GlobalAllow})

\* When both queries succeed a post is removed, or its author banned, only if
\* that was the mode of its chat at some moment of the check, and if at some
\* moment no phrase that the chat allows was in it.
PunishedAsSet ==
    \A m \in Posts :
        post[m].step \in {"delete", "ban"} /\ ~post[m].failed /\ storeOpen =>
            /\ \E s \in moments[m] : Calls(s[1]) = post[m].step
            /\ \E s \in moments[m] : ~Spares(m, s[2])

\* When both queries succeed a suspicious post gets past the filter only if at
\* some moment of the check the filter was off in its own chat, or a phrase
\* that its own chat allows was in it: the settings of no other chat help it.
SparedAsSet ==
    \A m \in Suspect :
        post[m].step = "pass" /\ ~post[m].failed /\ storeOpen =>
            \E s \in moments[m] : Calls(s[1]) = "off" \/ Spares(m, s[2])
=============================================================================
