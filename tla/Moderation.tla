----------------------------- MODULE Moderation -----------------------------
(***************************************************************************)
(* What the dispatcher promises to a chat, without queue, workers, levels, *)
(* caches and calls: every message has one fate, a message is lost only    *)
(* when enough others wait, a member is banned while his message waits, or *)
(* after a report, and never while he owns the chat, and only texts and    *)
(* domains of banned members are learned.                                  *)
(***************************************************************************)
EXTENDS Naturals

CONSTANTS
    Messages, Users, Texts, Domains,
    Sender, Text, DomainsIn,
    Capacity,      \* places for messages that wait
    Reported       \* can a command ask for a ban

VARIABLES
    fate,          \* what became of each message
    banned,        \* messages whose author was banned for them
    owner,         \* owner of the chat
    spam,          \* texts learned
    domains        \* domains learned

vars == <<fate, banned, owner, spam, domains>>

Verdicts == {"accepted", "removed", "judged"}

Waiting == {m \in Messages : fate[m] = "waiting"}

\* Every place is taken, each by another waiting message.
Full ==
    \E place \in [1 .. Capacity -> Waiting] :
        \A i, j \in 1 .. Capacity : place[i] = place[j] => i = j

Init ==
    /\ fate = [m \in Messages |-> "new"]
    /\ banned = {}
    /\ owner \in Users
    /\ spam = {}
    /\ domains = {}

\* A message arrives, or is lost because the bot has enough to do.
Arrive(m) ==
    /\ fate[m] = "new"
    /\ \/ fate' = [fate EXCEPT ![m] = "waiting"]
       \/ Full /\ fate' = [fate EXCEPT ![m] = "dropped"]
    /\ UNCHANGED <<banned, owner, spam, domains>>

\* A waiting message gets its verdict.  Where nobody reports, a message that
\* led to a ban is neither accepted nor merely removed.
Settle(m, v) ==
    /\ fate[m] = "waiting"
    /\ m \in banned /\ ~Reported => v = "judged"
    /\ fate' = [fate EXCEPT ![m] = v]
    /\ UNCHANGED <<banned, owner, spam, domains>>

\* The author is banned for a message that waits, or for a reported one.
Punish(m) ==
    /\ fate[m] = "waiting" \/ (Reported /\ fate[m] # "new")
    /\ Sender[m] # owner
    /\ banned' = banned \cup {m}
    /\ UNCHANGED <<fate, owner, spam, domains>>

Learn(m) ==
    /\ m \in banned
    /\ \/ spam' = spam \cup {Text[m]} /\ UNCHANGED domains
       \/ domains' = domains \cup DomainsIn[Text[m]] /\ UNCHANGED spam
    /\ UNCHANGED <<fate, banned, owner>>

Transfer ==
    /\ owner' \in Users \ {owner}
    /\ UNCHANGED <<fate, banned, spam, domains>>

Next ==
    \/ \E m \in Messages : Arrive(m) \/ Punish(m) \/ Learn(m) \/ \E v \in Verdicts : Settle(m, v)
    \/ Transfer

Spec == Init /\ [][Next]_vars
=============================================================================
