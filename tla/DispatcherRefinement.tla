------------------------ MODULE DispatcherRefinement ------------------------
(***************************************************************************)
(* The dispatcher keeps the promise of Moderation.  A message waits while  *)
(* it is in the queue or in the hands of a worker.                         *)
(***************************************************************************)
EXTENDS Dispatcher

Fate == [m \in Messages |-> IF stage[m] \in {"queued", "taken"} THEN "waiting" ELSE stage[m]]

Chat == INSTANCE Moderation
           WITH fate <- Fate, banned <- punished, spam <- blacklist, domains <- badDomains,
                Capacity <- QueueSize, Reported <- Handlers # {}

\* However many workers, handlers and learning goroutines interleave, and
\* whatever fails, what the chat sees is moderation of one message at a time:
\* one fate for each message, none lost while the queue has room, no ban after
\* the verdict unless reported, nothing learned without a ban.
ModerationKept == Chat!Spec
=============================================================================
