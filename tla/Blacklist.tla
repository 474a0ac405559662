----------------------------- MODULE Blacklist -----------------------------
(***************************************************************************)
(* What a ban teaches (storage.go: LearnSpam, IsKnownSpam, LearnDomains,   *)
(* IsKnownBadDomain; the learning goroutine of Dispatcher.ban).            *)
(*                                                                         *)
(* Each ban starts a goroutine that writes the text, then the domains of   *)
(* its links, and gives each a sample of the text cut at a number of       *)
(* BYTES.  A text is a sequence of marks with a width in bytes; blanks     *)
(* and letter case, which normalizeText also levels, are in TextFilter.    *)
(* A hash stands for the normalized text it is the SHA-256 of.  A          *)
(* definition named Mut... is a faulty variant of the one below it.        *)
(***************************************************************************)
EXTENDS Naturals, Sequences, SequencesExt, TLC

CONSTANTS
    SampleMaxLen,   \* sampleMaxLen, in bytes
    MaxRunes,       \* bound on the marks of a text
    MaxBans         \* bound on the bans

Latin == "latin"
Cyrillic == "cyrillic"
ZeroWidth == "zero-width"
Site == "site"       \* a link, set off from what surrounds it

Width == Latin :> 1 @@ Site :> 1 @@ Cyrillic :> 2 @@ ZeroWidth :> 3

Texts == UNION {[1 .. n -> DOMAIN Width] : n \in 1 .. MaxRunes}

VARIABLES
    blacklist,     \* global_blacklist: the hashes
    badDomains,    \* bad_domains
    banned,        \* the texts of the bans, in their order
    stage,         \* of each ban: what its goroutine is about to write
    reached        \* the statements that got to a working database

learning == <<blacklist, badDomains, banned, stage, reached>>

BlacklistInit ==
    /\ blacklist = {} /\ badDomains = {}
    /\ banned = <<>> /\ stage = <<>> /\ reached = {}

-----------------------------------------------------------------------------
Bytes(s) == FoldLeft(LAMBDA n, r : n + Width[r], 0, s)

\* The whole runes of sample[:sampleMaxLen].
Sample(s) ==
    SubSeq(s, 1, Max({n \in 0 .. Len(s) : Bytes(SubSeq(s, 1, n)) <= SampleMaxLen}))

\* The cut falls inside the next rune.
Torn(s) == Sample(s) # s /\ Bytes(Sample(s)) < SampleMaxLen

Levelled(s) == SelectSeq(s, LAMBDA r : r # ZeroWidth)

\* normalizedHash
Hash(s) == Levelled(s)

\* linkcheck.ExtractDomains
DomainsIn(s) == {s[i] : i \in DOMAIN s} \cap {Site}

\* PostgreSQL refuses a text that is no valid UTF-8.
Accepted(s) == ~Torn(s)

IsKnownSpam(s) == Hash(s) # <<>> /\ Hash(s) \in blacklist

IsKnownBadDomain(s) == DomainsIn(s) \cap badDomains # {}

-----------------------------------------------------------------------------
\* The end of ban for a message with a text: the goroutine starts.
Ban ==
    /\ Len(banned) < MaxBans
    /\ \E s \in Texts : banned' = Append(banned, s)
    /\ stage' = Append(stage, "text")
    /\ UNCHANGED <<blacklist, badDomains, reached>>

\* An error is logged, and the domains are next all the same.
LearnSpam(i) ==
    /\ stage[i] = "text"
    /\ stage' = [stage EXCEPT ![i] = "domains"]
    /\ \/ /\ blacklist' = blacklist \cup
               {h \in {Hash(banned[i])} : h # <<>> /\ Accepted(banned[i])}
          /\ reached' = reached \cup {<<i, "text">>}
       \/ UNCHANGED <<blacklist, reached>>
    /\ UNCHANGED <<badDomains, banned>>

\* One batch, all of it or nothing.
MutLearnDomains(i) ==
    /\ stage[i] = "domains"
    /\ stage' = [stage EXCEPT ![i] = "done"]
    /\ \/ /\ badDomains' = badDomains \cup
               {d \in DomainsIn(banned[i]) : Hash(banned[i]) \in blacklist}
          /\ reached' = reached \cup {<<i, "domains">>}
       \/ UNCHANGED <<badDomains, reached>>
    /\ UNCHANGED <<blacklist, banned>>

LearnDomains(i) ==
    /\ stage[i] = "domains"
    /\ stage' = [stage EXCEPT ![i] = "done"]
    /\ \/ /\ badDomains' = badDomains \cup
               {d \in DomainsIn(banned[i]) : Accepted(banned[i])}
          /\ reached' = reached \cup {<<i, "domains">>}
       \/ UNCHANGED <<badDomains, reached>>
    /\ UNCHANGED <<blacklist, banned>>

\* The process ends; nothing waits for the goroutines, the tables stay.
Exit ==
    /\ \E i \in DOMAIN stage : stage[i] # "done"
    /\ stage' = [i \in DOMAIN stage |-> "done"]
    /\ UNCHANGED <<blacklist, badDomains, banned, reached>>

BlacklistNext == Ban \/ Exit \/ \E i \in DOMAIN stage : LearnSpam(i) \/ LearnDomains(i)

BlacklistSpec == BlacklistInit /\ [][BlacklistNext]_learning

-----------------------------------------------------------------------------
\* Every goroutine learns, however many do at once, what may be learned: a text
\* whose sample is cut between two runes is recognised from then on in every
\* disguise, and its domains are learned even if the text was not.  And nobody
\* is accused of more: what is known is a banned text up to hidden characters,
\* to its very end and not only up to the cut of its sample, never the empty
\* text, and a bad domain stood in a banned text.
BansTeach ==
    /\ \A i \in {n \in DOMAIN banned : ~Torn(banned[n])} :
          /\ <<i, "text">> \in reached =>
                \A s \in Texts :
                    Levelled(s) = Levelled(banned[i]) /\ Levelled(s) # <<>> => IsKnownSpam(s)
          /\ <<i, "domains">> \in reached => DomainsIn(banned[i]) \subseteq badDomains
    /\ \A s \in Texts :
          /\ IsKnownSpam(s) =>
                /\ Levelled(s) # <<>>
                /\ \E i \in DOMAIN banned : Levelled(banned[i]) = Levelled(s)
          /\ IsKnownBadDomain(s) =>
                \E i \in DOMAIN banned : DomainsIn(banned[i]) \cap DomainsIn(s) # {}
=============================================================================
