---------------------------- MODULE MCFiltering ----------------------------
(* Two commands, in a family of requests chosen initially: about the words  *)
(* of a chat, about domains, rights and the mode, without a store, or about *)
(* the content filter, with a post in each of two chats and a global        *)
(* allowlist whose only phrase is empty once normalised.  Bans teach and    *)
(* rights change only among the requests about domains; posts come only     *)
(* among those about the filter, where a query that fails stands for the    *)
(* end of the bot.                                                          *)
EXTENDS Filtering, TLC

Ask(name, chat, arg) == [name |-> name, chat |-> chat, arg |-> arg]

Spellings == {"", "zw", "casino", "Casino", "win", "www.", "spam", "off", "default", "delete",
              "ban", "loud"}
Canonical ==
    [a \in Spellings |-> CASE a = "Casino" -> "casino" [] a \in {"zw", "www."} -> "" [] OTHER -> a]

CoreWords == "spam" :> <<"Casino", "win">>

WordRequests ==
    {Ask("addspam", "here", "Casino"), Ask("addspam", "here", "zw"),
     Ask("removespam", "here", "Casino"), Ask("removespam", "here", "zw"),
     Ask("addcorewords", "here", "spam"), Ask("addcorewords", "here", "win")}

DomainRequests ==
    {Ask("blockdomain", "here", "casino"), Ask("blockdomain", "here", "www."),
     Ask("unblockdomain", "there", "Casino"), Ask("ban", "there", "Casino"),
     Ask("ban", "here", ""), Ask("domains", "here", ""), Ask("triggers", "here", ""),
     Ask("allowcontexts", "here", ""), Ask("contextmode", "here", "loud")}

\* Without a store only /ban and /help go on.
StorelessRequests ==
    {Ask("addspam", "here", "Casino"), Ask("ban", "here", "Casino"), Ask("help", "here", "")}

FilterRequests ==
    {Ask("contextmode", "here", ""), Ask("contextmode", "here", "off"),
     Ask("contextmode", "here", "ban"), Ask("contextmode", "there", "default"),
     Ask("allowcontext", "here", "Casino"), Ask("allowcontext", "there", "Casino"),
     Ask("unallowcontext", "here", "Casino")}

AllRequests == WordRequests \cup DomainRequests \cup StorelessRequests \cup FilterRequests

Two == {"first", "second"}
AllChats == {"here", "there"}
AllPosts == {"p", "q"}
Where == [m \in AllPosts |-> IF m = "p" THEN "here" ELSE "there"]
Says == [m \in AllPosts |-> {"casino"}]
Blank == {"zw"}

About(family) == \A c \in Commands : cmd[c].req \in family

MCInit ==
    /\ FInit
    /\ autoDelete <=> ~storeOpen
    /\ IF storeOpen
       THEN \/ About(WordRequests) /\ cmd["first"].req.name # "removespam"
            \/ About(DomainRequests) /\ cmd["first"].req.name \in {"blockdomain", "ban", "unblockdomain"}
            \/ /\ About(FilterRequests) /\ \A c \in Commands : isAdmin[c]
               /\ cmd["first"].req.name = "contextmode" /\ cmd["first"].req.chat = "here"
       ELSE About(StorelessRequests)

MCNext ==
    \/ /\ Next /\ UNCHANGED post /\ Recorded
       /\ bounds' # bounds => About(DomainRequests)
       /\ cancelled' # cancelled => ~storeOpen \/ ~About(FilterRequests)
    \/ /\ About(FilterRequests) /\ storeOpen
       /\ \E m \in Posts : Begin(m) \/ ReadMode(m) \/ ReadAllow(m) \/ Match(m)

MCSpec == MCInit /\ [][MCNext]_fvars /\ Fairness
=============================================================================
