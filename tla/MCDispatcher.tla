---------------------------- MODULE MCDispatcher ----------------------------
\* Model-checking instances of Dispatcher: which member sends which text.
EXTENDS DispatcherRefinement, TLC

CONSTANTS m1, m2, m3, alice, bob, link, blank, site, empty

\* A member repeats a trigger text with a link, perhaps with a blank between.
RowSender == m1 :> alice @@ m2 :> alice @@ m3 :> alice
RowText == m1 :> link @@ m2 :> link @@ m3 :> blank

\* They arrive within five minutes: a cached owner does not expire meanwhile.
RowSpec == Init /\ [][Next /\ (ownerCache # None => ownerCache' # None)]_vars

\* A link and a message without text.
PairSender == m1 :> alice @@ m2 :> bob
PairText == m1 :> link @@ m2 :> empty

\* Two instances in one: either both messages compete for a place in the queue,
\* or the link alone arrives, members report it and the owner may change.
\* Only steps that no fairness condition speaks of are left out.
Alone == stage[m2] = "new"
Unreported == transfers = 0 /\ \A h \in Handlers : actor[h].step = "idle"
PairSpec == Init /\ [][Next /\ (Alone \/ Unreported)']_vars /\ Fairness

\* The workers are alike, and so are the two links of RowText; only for runs
\* without liveness.
Perms == {ws @@ ms : ws \in Permutations(Workers), ms \in Permutations({m1, m2})}

AllTexts == {link, blank, empty}
Links == [t \in AllTexts |-> IF t = link THEN {site} ELSE {}]
=============================================================================
