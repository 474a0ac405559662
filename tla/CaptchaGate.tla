---------------------------- MODULE CaptchaGate ----------------------------
(***************************************************************************)
(* Messages of newcomers: the default handler of cmd/bot/main.go asks      *)
(* Manager.IsPending for every message and deletes those of members whose  *)
(* challenge is open instead of submitting them to the dispatcher.  Each   *)
(* update has a goroutine of its own, so the question may be asked at any  *)
(* time during the join, the press of the button or the timeout that       *)
(* module Captcha describes.                                               *)
(***************************************************************************)
EXTENDS Captcha

CONSTANT Messages      \* messages that newcomers write

VARIABLES
    talk,       \* defaultHandler of a message: its next step or its end
    author,     \* the member who writes it
    settled,    \* no challenge was open or under way when it was written
    since       \* the joins of its author by then

gateVars == <<talk, author, settled, since>>
gvars == <<vars, gateVars>>

TalkSteps == {"unwritten", "look", "delete", "removed", "left", "submitted", "lost"}

\* The joins of a member that Telegram has reported.
JoinsOf(u) == {j \in Joins : who[j] = u /\ handler[j] # "unused"}

\* handleNewChatMember is busy with the member.
BeingAsked(u) == \E j \in JoinsOf(u) : handler[j] # "done"

GInit ==
    /\ Init
    /\ talk = [m \in Messages |-> "unwritten"]
    /\ author \in [Messages -> Users]
    /\ settled = [m \in Messages |-> FALSE]
    /\ since = [m \in Messages |-> {}]

-----------------------------------------------------------------------------
\* A member writes.  Rights are no guard: a message may be on its way when
\* they are taken, and basic groups do not keep to them strictly.
Write(m) ==
    LET u == author[m]
    IN  /\ talk[m] = "unwritten"
        /\ chat[u] = "in"
        /\ talk' = [talk EXCEPT ![m] = "look"]
        /\ settled' = [settled EXCEPT ![m] = pending[u] = None /\ ~BeingAsked(u)]
        /\ since' = [since EXCEPT ![m] = JoinsOf(u)]
        /\ UNCHANGED <<vars, author>>

\* Manager.IsPending under the mutex.
MutIsPending(u) == muted[u]
IsPending(u) == pending[u] # None

\* defaultHandler: a message of a pending member is to be deleted, any other
\* goes to Dispatcher.Submit.
Look(m) ==
    /\ talk[m] = "look"
    /\ talk' = [talk EXCEPT ![m] = IF IsPending(author[m]) THEN "delete" ELSE "submitted"]
    /\ UNCHANGED <<vars, author, settled, since>>

\* defaultHandler: DeleteMessage, which may fail; an error is ignored and the
\* message stays, without having been moderated.
Drop(m) ==
    /\ talk[m] = "delete"
    /\ \E end \in {"removed", "left"} : talk' = [talk EXCEPT ![m] = end]
    /\ UNCHANGED <<vars, author, settled, since>>

\* A restart ends the handlers of messages with everything else.
GRestart ==
    /\ Restart
    /\ talk' = [m \in Messages |-> IF talk[m] \in {"look", "delete"} THEN "lost" ELSE talk[m]]
    /\ UNCHANGED <<author, settled, since>>

CaptchaStep ==
    /\ \/ \E j \in Joins : Join(j) \/ JoinHandler(j) \/ TimerGoroutine(j)
       \/ \E u \in Users : Leave(u)
       \/ \E p \in Presses : PressHandler(p) \/ \E j \in Joins : Press(p, j)
    /\ UNCHANGED gateVars

GNext ==
    \/ CaptchaStep
    \/ GRestart
    \/ \E m \in Messages : Write(m) \/ Look(m) \/ Drop(m)

\* The goroutines of the captcha go on as in Captcha; messages need no promise.
GSpec == GInit /\ [][GNext]_gvars /\ Fairness

-----------------------------------------------------------------------------
\* Every variable has its type.
GTypeOK ==
    /\ TypeOK
    /\ talk \in [Messages -> TalkSteps]
    /\ author \in [Messages -> Users]
    /\ settled \in [Messages -> BOOLEAN]
    /\ since \in [Messages -> SUBSET Joins]

\* A member who has confirmed, or was here before, is heard: nothing he writes
\* is deleted for the captcha, however late its handler asks and whatever
\* timers and presses are left over, unless he joins once more meanwhile.
HeardWhenSettled ==
    \A m \in Messages :
        talk[m] \in {"delete", "removed", "left"} /\ settled[m] =>
            JoinsOf(author[m]) \ since[m] # {}
=============================================================================
