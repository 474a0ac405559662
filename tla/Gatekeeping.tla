---------------------------- MODULE Gatekeeping ----------------------------
(***************************************************************************)
(* What the captcha promises to a newcomer, without the map, the timers,   *)
(* the messages and the handlers.  A member is restricted only because he  *)
(* joined, and challenged only then; a challenge gives its member one      *)
(* outcome; he is removed only for a challenge that ran out, once for each *)
(* join, and then let in again; he is given his rights back only for a     *)
(* challenge that he passed.  What is due may come to nothing: a call may  *)
(* fail, and at any time all that is due may be forgotten.                 *)
(***************************************************************************)
CONSTANTS Users, Joins, Presses

VARIABLES
    member,      \* the member of each join
    chat,        \* "in", "out" or "banned"
    muted,       \* are the member's rights restricted
    phase,       \* how far a join has come
    open,        \* has the member an open challenge
    due,         \* joins whose time ran out: the member is to be removed
    letIn,       \* joins whose member has been removed: he may come back
    confirmed    \* presses that passed, with their members: rights to return

vars == <<member, chat, muted, phase, open, due, letIn, confirmed>>

Init ==
    /\ member \in [Joins -> Users]
    /\ chat = [u \in Users |-> "out"]
    /\ muted = [u \in Users |-> FALSE]
    /\ phase = [j \in Joins |-> "new"]
    /\ open = [u \in Users |-> FALSE]
    /\ due = {} /\ letIn = {} /\ confirmed = {}

\* A join goes on from one phase to another.
Advance(j, from, to) == phase[j] = from /\ phase' = [phase EXCEPT ![j] = to]

Enter(j) ==
    /\ chat[member[j]] = "out"
    /\ chat' = [chat EXCEPT ![member[j]] = "in"]
    /\ Advance(j, "new", "entered")
    /\ UNCHANGED <<member, muted, open, due, letIn, confirmed>>

Depart(u) ==
    /\ chat[u] = "in"
    /\ chat' = [chat EXCEPT ![u] = "out"]
    /\ UNCHANGED <<member, muted, phase, open, due, letIn, confirmed>>

Silence(j) ==
    /\ \/ Advance(j, "entered", "silenced") /\ muted' = [muted EXCEPT ![member[j]] = TRUE]
       \/ Advance(j, "entered", "over") /\ UNCHANGED muted
    /\ UNCHANGED <<member, chat, open, due, letIn, confirmed>>

\* The challenge of a join; it takes the place of an open one.
Challenge(j) ==
    /\ \/ Advance(j, "silenced", "challenged") /\ open' = [open EXCEPT ![member[j]] = TRUE]
       \/ Advance(j, "silenced", "over") /\ UNCHANGED open
    /\ UNCHANGED <<member, chat, muted, due, letIn, confirmed>>

\* The press of a button passes the challenge.
Pass(p, u) ==
    /\ open[u]
    /\ open' = [open EXCEPT ![u] = FALSE]
    /\ confirmed' = confirmed \cup {<<p, u>>}
    /\ UNCHANGED <<member, chat, muted, phase, due, letIn>>

\* The time of a join is over, which ends the open challenge, if there is one.
RunOut(j) ==
    LET u == member[j]
    IN  /\ Advance(j, "challenged", "over")
        /\ due' = IF open[u] THEN due \cup {j} ELSE due
        /\ open' = [open EXCEPT ![u] = FALSE]
        /\ UNCHANGED <<member, chat, muted, letIn, confirmed>>

\* Removal takes the restriction away too.
Remove(j) ==
    LET u == member[j]
    IN  /\ j \in due /\ due' = due \ {j}
        /\ \/ /\ chat' = [chat EXCEPT ![u] = "banned"]
              /\ muted' = [muted EXCEPT ![u] = FALSE]
              /\ letIn' = letIn \cup {j}
           \/ UNCHANGED <<chat, muted, letIn>>
        /\ UNCHANGED <<member, phase, open, confirmed>>

Readmit(j) ==
    LET u == member[j]
    IN  /\ j \in letIn /\ letIn' = letIn \ {j}
        /\ chat' \in {chat, [chat EXCEPT ![u] = IF @ = "banned" THEN "out" ELSE @]}
        /\ UNCHANGED <<member, muted, phase, open, due, confirmed>>

GiveBack(p, u) ==
    /\ <<p, u>> \in confirmed /\ confirmed' = confirmed \ {<<p, u>>}
    /\ muted' \in {muted, [muted EXCEPT ![u] = FALSE]}
    /\ UNCHANGED <<member, chat, phase, open, due, letIn>>

\* A restart: joins under way are over, and nothing is open or due any more.
Forget ==
    /\ phase' = [j \in Joins |-> IF phase[j] = "new" THEN "new" ELSE "over"]
    /\ open' = [u \in Users |-> FALSE]
    /\ due' = {} /\ letIn' = {} /\ confirmed' = {}
    /\ UNCHANGED <<member, chat, muted>>

Next ==
    \/ \E j \in Joins :
          Enter(j) \/ Silence(j) \/ Challenge(j) \/ RunOut(j) \/ Remove(j) \/ Readmit(j)
    \/ \E u \in Users : Depart(u) \/ \E p \in Presses : Pass(p, u) \/ GiveBack(p, u)
    \/ Forget

Spec == Init /\ [][Next]_vars
=============================================================================
