------------------------------- MODULE Links -------------------------------
(***************************************************************************)
(* internal/linkcheck: which domains ExtractDomains finds in a message.    *)
(*                                                                         *)
(* A text is a sequence of tokens: the scheme, words of letters and digits *)
(* (some of them top-level domains, one is "www"), dots, slashes, other    *)
(* punctuation and white space.  The text grows token by token, so that    *)
(* every text up to MaxTokens is looked at.  A host is the sequence of its *)
(* tokens.                                                                 *)
(*                                                                         *)
(* Ports, '?', '#', ':' outside the scheme, characters that a domain may   *)
(* have beside letters and digits, and texts that url.Parse refuses are    *)
(* not among the tokens: nothing here speaks of them.                      *)
(*                                                                         *)
(* A definition named Mut... is a faulty variant of the one below it, used *)
(* to see that the properties notice it.                                   *)
(***************************************************************************)
EXTENDS Naturals, Sequences, FiniteSets

CONSTANTS
    Names,      \* words that are no top-level domains, nor "www"
    TLDs,       \* commonTLD
    MaxTokens   \* bound on the length of a text

VARIABLE message

Www == "www"
Scheme == "https://"
Space == "space"       \* white space
Comma == "comma"       \* punctuation that is part of no domain
Words == Names \cup TLDs \cup {Www}
Tokens == Words \cup {Scheme, ".", "/", Comma, Space}

\* The kinds of token are told apart.
ASSUME LinksAssumption ==
    /\ Www \notin Names \cup TLDs
    /\ Words \cap {Scheme, ".", "/", Comma, Space} = {}

\* Two words in a row would be one word; a scheme opens a text, a word of it
\* or the parameter of another link.
MayFollow(a, b) ==
    /\ a \in Words => b \notin Words
    /\ b = Scheme => a \in {Space, "/"}

MessageInit == message = <<>>

Write(t) ==
    /\ Len(message) < MaxTokens
    /\ message # <<>> => MayFollow(message[Len(message)], t)
    /\ message' = Append(message, t)

MessageNext == \E t \in Tokens : Write(t)

MessageSpec == MessageInit /\ [][MessageNext]_message

-----------------------------------------------------------------------------
\* s[i..k] reads word . word . ... . tld
IsDomain(s, i, k) ==
    /\ k > i /\ (k - i) % 2 = 0
    /\ \A n \in i .. k : IF (n - i) % 2 = 0 THEN s[n] \in Words ELSE s[n] = "."
    /\ s[k] \in TLDs

\* urlPattern may begin at i: a scheme with something after it, or a domain in
\* one of the known zones, with "www." or without.
StartsLink(s, i) ==
    \/ s[i] = Scheme /\ i < Len(s) /\ s[i + 1] # Space
    \/ \E k \in i + 1 .. Len(s) : IsDomain(s, i, k)

\* \S* at the end of urlPattern: to the last token before white space.
MutEndOfLink(s, i) == Len(s)
EndOfLink(s, i) ==
    CHOOSE j \in i .. Len(s) :
        /\ \A n \in i .. j : s[n] # Space
        /\ j < Len(s) => s[j + 1] = Space

\* FindAllString: from left to right, without overlaps.  A match takes the rest
\* of its word, so it is the first place in a word where the pattern begins.
Matches(s) ==
    {SubSeq(s, i, EndOfLink(s, i)) :
        i \in {n \in 1 .. Len(s) :
                  /\ StartsLink(s, n)
                  /\ \A m \in 1 .. n - 1 :
                        StartsLink(s, m) => EndOfLink(s, m) < n}}

\* The text before the first slash.
BeforeSlash(s) ==
    LET slashes == {n \in 1 .. Len(s) : s[n] = "/"}
    IN  IF slashes = {} THEN s
        ELSE SubSeq(s, 1, (CHOOSE n \in slashes : \A m \in slashes : n <= m) - 1)

\* strings.TrimPrefix(host, "www.")
TrimWww(host) ==
    IF Len(host) >= 2 /\ host[1] = Www /\ host[2] = "." THEN SubSeq(host, 3, Len(host)) ELSE host

\* extractHost: http:// is put before a match without "://".  net/url finds a
\* host only in an address that begins with a scheme; a match whose "://" is
\* further on is a path to it, and the host is empty.
ExtractHost(m) ==
    IF Scheme \notin {m[n] : n \in DOMAIN m} THEN TrimWww(BeforeSlash(m))
    ELSE IF m[1] = Scheme THEN TrimWww(BeforeSlash(Tail(m)))
    ELSE <<>>

\* ExtractDomains: the hosts found, each once.
ExtractDomains(s) == {ExtractHost(m) : m \in Matches(s)} \ {<<>>}

-----------------------------------------------------------------------------
\* The words of a text between white space, and where they begin and end.
Spans(s) ==
    {p \in (1 .. Len(s)) \X (1 .. Len(s)) :
        /\ p[1] <= p[2]
        /\ \A n \in p[1] .. p[2] : s[n] # Space
        /\ p[1] > 1 => s[p[1] - 1] = Space
        /\ p[2] < Len(s) => s[p[2] + 1] = Space}

Pieces(s) == {SubSeq(s, p[1], p[2]) : p \in Spans(s)}

\* A domain of two words in a known zone.
Domains == {<<a, ".", b>> : a \in Names, b \in TLDs}

StartsWith(s, p) == Len(s) >= Len(p) /\ SubSeq(s, 1, Len(p)) = p

Rest(s, n) == SubSeq(s, n + 1, Len(s))

\* The piece is a link to domain d: with a scheme or without, with "www." or
\* without, and what follows the domain is nothing or a path.
LinkTo(piece, d) ==
    \E prefix \in {<<>>, <<Scheme>>, <<Www, ".">>, <<Scheme, Www, ".">>} :
        /\ StartsWith(piece, prefix \o d)
        /\ LET path == Rest(piece, Len(prefix) + Len(d))
           IN  path # <<>> => path[1] = "/"

\* One address inside another.
Nested(piece) == \E n \in 2 .. Len(piece) : piece[n] = Scheme

\* The words around a link neither hide it nor become part of it: the domains
\* of a text are those of its words taken one by one.  And a domain is found in
\* whichever of the usual ways its link is written, so that what was learned
\* from one message is found in another.
LinksFound ==
    /\ ExtractDomains(message) = UNION {ExtractDomains(piece) : piece \in Pieces(message)}
    /\ \A piece \in Pieces(message), d \in Domains :
          LinkTo(piece, d) /\ ~Nested(piece) => d \in ExtractDomains(piece)
=============================================================================
