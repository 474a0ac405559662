------------------------- MODULE CaptchaRefinement -------------------------
(***************************************************************************)
(* The captcha keeps the promise of Gatekeeping.  A challenge is open      *)
(* while it has an entry in pending; a join has its time while its timer   *)
(* is not spent; what is due is what a goroutine is about to ask Telegram  *)
(* for.                                                                    *)
(***************************************************************************)
EXTENDS Captcha

Phase(j) ==
    CASE handler[j] = "unused" -> "new"
      [] handler[j] = "restrict" -> "entered"
      [] handler[j] \in {"send", "arm", "insert"} -> "silenced"
      [] OTHER -> IF timer[j] \in {"running", "stopped", "fired"} THEN "challenged" ELSE "over"

Phases == [j \in Joins |-> Phase(j)]
OpenChallenges == [u \in Users |-> pending[u] # None]
Due == {j \in Joins : timer[j] = "ban"}
LetIn == {j \in Joins : timer[j] = "unban"}
Confirmed == {<<p, press[p].user>> : p \in {q \in Presses : press[q].step = "unmute"}}

Door == INSTANCE Gatekeeping
           WITH member <- who, phase <- Phases, open <- OpenChallenges,
                due <- Due, letIn <- LetIn, confirmed <- Confirmed

\* However handlers, timers and presses interleave, whatever fails and whenever
\* the bot restarts, what a newcomer sees is one careful doorkeeper: nobody is
\* muted but for a join, removed but for a challenge that ran out, or given his
\* rights back but for one that he passed, and no challenge counts twice.
GatekeepingKept == Door!Spec
=============================================================================
