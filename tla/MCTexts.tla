------------------------------- MODULE MCTexts -------------------------------
(* The three models of what the bot makes of a text, one at a time: the      *)
(* first step of a run decides which, and the others stay where they are.    *)
(*   Links       every text of up to seven tokens over one name and one zone *)
(*   TextFilter  every text of up to five marks, and one allowed phrase,     *)
(*               written with blanks too many                                *)
(*   Blacklist   two bans; the cut at three bytes falls before, inside and   *)
(*               after a rune of two or three                                *)
EXTENDS Links, TextFilter, Blacklist

VARIABLE subject    \* which of the three

OnePhrase == {<<Blank, Money, Blank, Blank, Subject>>}

Init ==
    /\ subject \in {"links", "filter", "blacklist"}
    /\ MessageInit /\ BlacklistInit /\ FilterInit
    /\ subject # "filter" => text = <<>>

Next ==
    \/ subject = "links" /\ MessageNext /\ UNCHANGED <<subject, filtering, learning>>
    \/ subject = "filter" /\ Step /\ UNCHANGED <<subject, message, learning>>
    \/ subject = "blacklist" /\ BlacklistNext /\ UNCHANGED <<subject, message, filtering>>

Spec == Init /\ [][Next]_<<subject, message, filtering, learning>>
=============================================================================
