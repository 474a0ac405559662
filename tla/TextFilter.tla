---------------------------- MODULE TextFilter ----------------------------
(***************************************************************************)
(* internal/contentfilter, and normalizeText, which it shares word for     *)
(* word with internal/storage, where the canonical form of a text is what  *)
(* the global blacklist and the trigger phrases of a chat are compared by. *)
(*                                                                         *)
(* A text is a sequence of marks: a word that names a subject, the words   *)
(* of a call to write in private, a handle, a link, and the characters     *)
(* that normalizeText treats specially.  Letter case is left out.  A       *)
(* definition named Mut... is a faulty variant of the one below it, used   *)
(* to see that the properties notice it.                                   *)
(***************************************************************************)
EXTENDS Naturals, Sequences, FiniteSets, Positions

CONSTANTS
    Phrases,    \* allowlistSubstrings as they were written
    MaxMarks    \* bound on the length of a text

Subject == "casino"             \* adult, gambling and scam keywords
Money == "income"               \* moneyKeywords that are no subject
Handle == "@name"               \* telegramHandlePattern without what precedes it
Link == "t.me"                  \* telegramLinkPattern, or a domain
Blank == "blank"                \* unicode.IsSpace, no control character
CallWords == <<"in", Blank, "dm">>  \* callToActionKeywords
Break == "newline"              \* a new line or a tab: both classes at once
Hidden == "zero-width"          \* isInvisible, or another control character

WordMarks == {Subject, Money, "in", "dm", Handle, Link}
Marks == WordMarks \cup {Blank, Break, Hidden}

VARIABLES
    text,            \* the argument of normalizeText
    pos,             \* the runes the loop has read
    out,             \* the strings.Builder
    lastWasSpace

filtering == <<text, pos, out, lastWasSpace>>

FilterInit ==
    /\ text \in UNION {[1 .. n -> Marks] : n \in 0 .. MaxMarks}
    /\ pos = 0
    /\ out = <<>>
    /\ lastWasSpace = TRUE

-----------------------------------------------------------------------------
\* unicode.IsControl(r) || isInvisible(r)
Dropped(r) == r \in {Break, Hidden}

\* unicode.IsSpace(r)
IsSpace(r) == r \in {Blank, Break}

\* One round of the loop of normalizeText.
Step ==
    /\ pos < Len(text)
    /\ pos' = pos + 1
    /\ LET r == text[pos + 1]
       IN  \/ Dropped(r) /\ UNCHANGED <<out, lastWasSpace>>
           \/ /\ ~Dropped(r) /\ IsSpace(r)
              /\ out' = IF lastWasSpace THEN out ELSE Append(out, Blank)
              /\ lastWasSpace' = TRUE
           \/ /\ ~Dropped(r) /\ ~IsSpace(r)
              /\ out' = Append(out, r)
              /\ lastWasSpace' = FALSE
    /\ UNCHANGED text

FilterSpec == FilterInit /\ [][Step]_filtering

Done == pos = Len(text)

\* strings.TrimSpace(b.String())
Normalized ==
    IF out # <<>> /\ out[Len(out)] = Blank THEN SubSeq(out, 1, Len(out) - 1) ELSE out

-----------------------------------------------------------------------------
IsWord(r) == ~Dropped(r) /\ ~IsSpace(r)

\* Between k and a word before it, from i on, is nothing that is not dropped.
FollowsWord(s, i, k) ==
    \E m \in i .. k - 1 : IsWord(s[m]) /\ \A n \in m + 1 .. k - 1 : Dropped(s[n])

\* normalizeText by what it returns for the marks of s from i to j: every word,
\* and of the blanks between two words the first.
Left(s, i, j) ==
    {k \in i .. j :
        \/ IsWord(s[k])
        \/ /\ s[k] = Blank /\ FollowsWord(s, i, k)
           /\ \E m \in k + 1 .. j : IsWord(s[m])}

CanonicalPart(s, i, j) == Picked(s, Left(s, i, j))
Canonical(s) == CanonicalPart(s, 1, Len(s))

\* strings.Contains
HasPart(s, sub) ==
    \E i \in 0 .. Len(s) - Len(sub) : SubSeq(s, i + 1, i + Len(sub)) = sub

Has(s, word) == HasPart(s, <<word>>)

\* The handle stands at the start or after white space.
HasHandle(s) ==
    \E i \in DOMAIN s : s[i] = Handle /\ (i = 1 \/ s[i - 1] = Blank)

HasContact(s) == Has(s, Link) \/ HasHandle(s)

HasReachout(s) == HasPart(s, CallWords)

\* containsNormalizedAny over the allowlist.
MutExcused(s) == \E p \in Phrases : p # <<>> /\ HasPart(s, p)
Excused(s) == \E p \in Phrases : Canonical(p) # <<>> /\ HasPart(s, Canonical(p))

\* The four combinations of MatchWithAllowlist; a link is a domain or a
\* contact, and the first three combinations differ in the reason alone.
Suspicious(s) ==
    \/ Has(s, Subject) /\ (HasContact(s) \/ HasReachout(s))
    \/ Has(s, Money) /\ HasReachout(s) /\ HasContact(s)

\* MatchWithAllowlist of the normalized text.
Matched == Normalized # <<>> /\ ~Excused(Normalized) /\ Suspicious(Normalized)

-----------------------------------------------------------------------------
\* The loop, with its flag and the final trim, computes the canonical form: no
\* blank in front, at the end or twice in a row, no word lost, and what has no
\* width leaves no trace, neither in the verdict nor in the blacklist.  So a
\* text with an allowed phrase is spared, however the phrase was spaced in the
\* setting and however it is spaced in the text.
LevelledAlike ==
    Done =>
        /\ Normalized = Canonical(text)
        /\ Matched =>
              \A p \in Phrases, i, j \in 1 .. Len(text) :
                  Canonical(p) # <<>> => CanonicalPart(text, i, j) # Canonical(p)
=============================================================================
