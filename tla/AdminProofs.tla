---------------------------- MODULE AdminProofs ----------------------------
(***************************************************************************)
(* Safety of the administrators' commands, and of the content filter that  *)
(* runs beside them, for every set of commands, requests, chats, words and *)
(* posts.  The inductive invariant of Admin adds what a handler knows at   *)
(* each of its steps: that its sender was an administrator, which word     *)
(* comes next, and that a row that somebody is about to add is not one     *)
(* that stays out.  The one of Filtering adds which moment of the check    *)
(* each half of a worker's settings comes from.                            *)
(***************************************************************************)
EXTENDS Filtering, TLAPS

\* What is known of a handler at its step.
Knows(c) ==
    /\ cmd[c].step \in {"unsent", "check"} => cmd[c].next = 1 /\ cmd[c].answer = "none"
    /\ cmd[c].step = "act" =>
          /\ cmd[c].answer = "none"
          /\ cmd[c].req.name # "help" => Understood(cmd[c].req) /\ c \in wasAdmin
          /\ cmd[c].req.name \in Adders => cmd[c].next \in 1 .. Len(Words(cmd[c].req))
    /\ cmd[c].step # "unsent" /\ isAdmin[c] => c \in wasAdmin

HandlersKnow == \A c \in Commands : Knows(c)

\* What stays out is not about to be added.
ClearedIdle == \A row \in cleared : ~InFlight(row)

\* The words that a handler is past are in the table, or were removed.
Added(c) ==
    cmd[c].step = "act" /\ cmd[c].req.name \in Adders =>
        \A i \in 1 .. (cmd[c].next - 1) : Row(cmd[c].req, Canon[Words(cmd[c].req)[i]]) \in rows \cup removed

AddedSoFar == \A c \in Commands : Added(c)

IInv ==
    /\ TypeOK /\ HandlersKnow
    /\ RemovedStaysOut /\ ClearedIdle
    /\ AddedSoFar /\ AddedUnlessRemoved
    /\ ChangedByAdmins

-----------------------------------------------------------------------------
\* An understood request adds at least one word.
LEMMA WordsType ==
    ASSUME NEW r \in Requests, Understood(r), r.name \in Adders \cup {"ban"}
    PROVE  /\ Words(r) \in Seq(Args)
           /\ Len(Words(r)) \in Nat \ {0}
           /\ DOMAIN Words(r) = 1 .. Len(Words(r))
<1>1. r.arg \in Args
  BY AdminAssumption
<1>2. CASE r.name = "addcorewords"
  <2>1. r.arg \in DOMAIN Core
    BY <1>2 DEF Understood, Listers
  <2>2. Words(r) \in Seq(Args) /\ Words(r) # << >>
    BY <1>2, <2>1, AdminAssumption DEF Words
  <2> QED
    BY <2>2
<1>3. CASE r.name # "addcorewords"
  BY <1>1, <1>3 DEF Words
<1> QED
  BY <1>2, <1>3

\* The row of an entry is a row.
LEMMA RowType ==
    ASSUME NEW r \in Requests, NEW a \in Args
    PROVE  Row(r, a) \in Rows
<1>1. r.chat \in Chats
  BY AdminAssumption
<1>2. TableOf(r.name) \in {"triggers", "allowlist", "domains"}
  BY DEF TableOf
<1> QED
  BY <1>1, <1>2 DEF Row, Rows

\* The rows of a request are rows.
LEMMA AddsType ==
    ASSUME NEW r \in Requests
    PROVE  Adds(r) \subseteq Rows
<1>1. CASE r.name \in Adders \cup {"ban"} /\ Understood(r)
  <2>1. \A i \in DOMAIN Words(r) : Canon[Words(r)[i]] \in Args
    BY <1>1, WordsType, AdminAssumption
  <2> QED
    BY <1>1, <2>1, RowType DEF Adds
<1>2. CASE ~(r.name \in Adders \cup {"ban"} /\ Understood(r))
  BY <1>2 DEF Adds
<1> QED
  BY <1>1, <1>2

\* The rows about bans are rows.
LEMMA DomainsType == Domains \subseteq Rows
<1>1. \A r \in Requests : Canon[r.arg] \in Args
  BY AdminAssumption
<1> QED
  BY <1>1, RowType DEF Domains

\* In the initial state nothing was sent or removed.
LEMMA InitIInv == Init => IInv
<1> SUFFICES ASSUME Init
             PROVE  IInv
  OBVIOUS
<1>1. \A c \in Commands :
         /\ cmd[c].step = "unsent" /\ cmd[c].next = 1 /\ cmd[c].answer = "none"
         /\ cmd[c].req \in Requests
  BY DEF Init
<1>2. TypeOK
  <2> DEFINE Fresh == [step : {"unsent"}, req : Requests, next : {1}, answer : {"none"}]
  <2>1. cmd \in [Commands -> Fresh]
    BY DEF Init
  <2>2. Fresh \subseteq [step : Steps, req : Requests, next : Nat \ {0}, answer : Answers]
    BY DEF Steps, Answers
  <2>3. cmd \in [Commands -> [step : Steps, req : Requests, next : Nat \ {0}, answer : Answers]]
    BY <2>1, <2>2, Zenon
  <2> QED
    BY <2>3 DEF Init, TypeOK, ChatModes
<1>3. HandlersKnow
  BY <1>1 DEF HandlersKnow, Knows
<1>4. RemovedStaysOut /\ ClearedIdle /\ ChangedByAdmins
  BY DEF Init, RemovedStaysOut, ClearedIdle, ChangedByAdmins
<1>5. AddedSoFar /\ AddedUnlessRemoved
  BY <1>1 DEF AddedSoFar, Added, AddedUnlessRemoved
<1> QED
  BY <1>2, <1>3, <1>4, <1>5 DEF IInv

-----------------------------------------------------------------------------
\* A step that leaves handlers, rights and tables alone keeps the invariant,
\* if it takes nothing out of the histories and puts nothing into cleared.
LEMMA Untouched ==
    ASSUME IInv, TypeOK', UNCHANGED <<cmd, isAdmin, rows, lessons, removed, changed>>,
           wasAdmin \subseteq wasAdmin', cleared' \subseteq cleared
    PROVE  IInv'
<1>1. HandlersKnow'
  BY DEF IInv, HandlersKnow, Knows
<1>2. RemovedStaysOut' /\ ClearedIdle'
  BY DEF IInv, RemovedStaysOut, ClearedIdle, InFlight
<1>3. AddedSoFar' /\ AddedUnlessRemoved'
  BY DEF IInv, AddedSoFar, Added, AddedUnlessRemoved
<1>4. ChangedByAdmins'
  BY DEF IInv, ChangedByAdmins
<1> QED
  BY <1>1, <1>2, <1>3, <1>4 DEF IInv

\* A step of one handler to an answer, a deletion or its end, which adds no
\* row and reports no success of an adding command.
LEMMA HandlerLeaves ==
    ASSUME IInv, NEW c \in Commands, NEW s \in Steps \ {"unsent", "check", "act"}, NEW a \in Answers,
           cmd[c].step # "unsent",
           cmd' = [cmd EXCEPT ![c].step = s, ![c].answer = a],
           a = "done" /\ cmd[c].req.name \in Adders => cmd[c].answer = "done",
           rows \cup removed \subseteq rows' \cup removed',
           UNCHANGED <<isAdmin, lessons, wasAdmin>>
    PROVE  /\ cmd' \in [Commands -> [step : Steps, req : Requests, next : Nat \ {0}, answer : Answers]]
           /\ HandlersKnow' /\ AddedSoFar' /\ AddedUnlessRemoved'
           /\ \A row : InFlight(row)' => InFlight(row)
<1>1. cmd \in [Commands -> [step : Steps, req : Requests, next : Nat \ {0}, answer : Answers]]
  BY DEF IInv, TypeOK
<1>2. /\ \A d \in Commands \ {c} : cmd'[d] = cmd[d]
      /\ cmd'[c].step = s /\ cmd'[c].answer = a
      /\ cmd'[c].req = cmd[c].req /\ cmd'[c].next = cmd[c].next
  BY <1>1
<1>3. cmd' \in [Commands -> [step : Steps, req : Requests, next : Nat \ {0}, answer : Answers]]
  BY <1>1
<1>4. HandlersKnow'
  BY <1>2 DEF IInv, HandlersKnow, Knows
<1>5. AddedSoFar'
  BY <1>2 DEF IInv, AddedSoFar, Added
<1>6. AddedUnlessRemoved'
  BY <1>2 DEF IInv, AddedUnlessRemoved
<1>7. \A row : InFlight(row)' => InFlight(row)
  BY <1>2 DEF InFlight
<1> QED
  BY <1>3, <1>4, <1>5, <1>6, <1>7

-----------------------------------------------------------------------------
\* A command arrives: what it may add is no longer taken to stay out.
LEMMA SendStep ==
    ASSUME IInv, NEW c \in Commands, Send(c)
    PROVE  IInv'
<1> DEFINE r == cmd[c].req
<1>1. cmd \in [Commands -> [step : Steps, req : Requests, next : Nat \ {0}, answer : Answers]]
  BY DEF IInv, TypeOK
<1>2. /\ cmd[c].step = "unsent" /\ cmd[c].next = 1 /\ cmd[c].answer = "none"
      /\ wasAdmin' = IF isAdmin[c] THEN wasAdmin \cup {c} ELSE wasAdmin
      /\ UNCHANGED <<isAdmin, rows, mode, lessons, removed, changed>>
  BY DEF Send, At, tables, IInv, HandlersKnow, Knows
<1>3. TypeOK'
  BY DEF IInv, TypeOK, Send, Answer, tables, life, bounds, Steps, Answers
<1>4. /\ \A d \in Commands \ {c} : cmd'[d] = cmd[d]
      /\ cmd'[c].req = r /\ cmd'[c].next = 1
      /\ \/ r.name = "help" /\ cmd'[c].step = "act" /\ cmd'[c].answer = "none" /\ cleared' = cleared
         \/ cmd'[c].step = "reply" /\ cmd'[c].answer = "unavailable" /\ cleared' = cleared
         \/ /\ cmd'[c].step = "check" /\ cmd'[c].answer = "none"
            /\ cleared' = cleared \ Adds(r)
  BY <1>1, <1>2 DEF Send, Answer
<1>5. HandlersKnow'
  BY <1>2, <1>4 DEF IInv, HandlersKnow, Knows, Adders
<1>6. RemovedStaysOut'
  BY <1>2, <1>4 DEF IInv, RemovedStaysOut
<1>7. ClearedIdle'
  <2>1. "help" \notin Adders \cup {"ban"}
    BY DEF Adders
  <2>2. r.name = "help" => Adds(r) = {}
    BY <2>1 DEF Adds
  <2>3. \A row \in cleared' : row \in cleared /\ (cmd'[c].step \in {"check", "act"} => row \notin Adds(r))
    BY <1>4, <2>2
  <2>4. \A row \in cleared' : ~InFlight(row)'
    BY <1>2, <1>4, <2>3 DEF IInv, ClearedIdle, InFlight
  <2> QED
    BY <2>4 DEF ClearedIdle
<1>8. AddedSoFar' /\ AddedUnlessRemoved'
  BY <1>2, <1>4 DEF IInv, AddedSoFar, Added, AddedUnlessRemoved, Adders
<1>9. ChangedByAdmins'
  BY <1>2 DEF IInv, ChangedByAdmins
<1> QED
  BY <1>3, <1>5, <1>6, <1>7, <1>8, <1>9 DEF IInv

\* The check of the rights lets administrators with a request that can be
\* carried out through.
LEMMA CheckStep ==
    ASSUME IInv, NEW c \in Commands, Check(c)
    PROVE  IInv'
<1> DEFINE r == cmd[c].req
<1>1. cmd \in [Commands -> [step : Steps, req : Requests, next : Nat \ {0}, answer : Answers]]
  BY DEF IInv, TypeOK
<1>2. /\ cmd[c].step = "check" /\ cmd[c].next = 1 /\ cmd[c].answer = "none"
      /\ UNCHANGED <<isAdmin, rows, mode, lessons, removed, changed, wasAdmin, cleared>>
  BY DEF Check, At, tables, traces, IInv, HandlersKnow, Knows
<1>3. TypeOK'
  <2>1. cmd' \in [Commands -> [step : Steps, req : Requests, next : Nat \ {0}, answer : Answers]]
    BY <1>1 DEF Check, Answer, Steps, Answers
  <2>2. apiFailed' \in BOOLEAN
    BY DEF Check, RequireAdmin, ApiOk, ApiErr, IInv, TypeOK
  <2> QED
    BY <2>1, <2>2 DEF IInv, TypeOK, Check, tables, life, traces, bounds
<1>4. /\ \A d \in Commands \ {c} : cmd'[d] = cmd[d]
      /\ cmd'[c].req = r /\ cmd'[c].next = 1 /\ cmd'[c].answer # "done"
      /\ \/ /\ cmd'[c].step = "act" /\ cmd'[c].answer = "none"
            /\ isAdmin[c] /\ Understood(r)
         \/ cmd'[c].step = "reply"
  BY <1>1, <1>2 DEF Check, Answer, RequireAdmin
<1>5. r.name \in Adders /\ Understood(r) => 1 \in 1 .. Len(Words(r))
  BY <1>1, WordsType
<1>6. isAdmin[c] => c \in wasAdmin
  BY <1>2 DEF IInv, HandlersKnow, Knows
<1>7. HandlersKnow'
  BY <1>2, <1>4, <1>5, <1>6 DEF IInv, HandlersKnow, Knows
<1>8. ClearedIdle'
  <2>1. \A row : InFlight(row)' => InFlight(row)
    BY <1>2, <1>4 DEF InFlight
  <2> QED
    BY <1>2, <2>1 DEF IInv, ClearedIdle
<1>9. AddedSoFar' /\ AddedUnlessRemoved'
  BY <1>2, <1>4 DEF IInv, AddedSoFar, Added, AddedUnlessRemoved
<1>10. RemovedStaysOut' /\ ChangedByAdmins'
  BY <1>2 DEF IInv, RemovedStaysOut, ChangedByAdmins
<1> QED
  BY <1>3, <1>7, <1>8, <1>9, <1>10 DEF IInv

\* The statement of an adding command: its row was about to be added, so it is
\* not one that stays out.
LEMMA AddStep ==
    ASSUME IInv, NEW c \in Commands, Add(c)
    PROVE  IInv'
<1> DEFINE r   == cmd[c].req
           i   == cmd[c].next
           row == Row(r, Canon[Words(r)[i]])
<1>0. Insert(c) /\ At(c, "act") /\ r.name \in Adders
  BY DEF Add, AddSpam, AllowContext, AddCoreWords, BlockDomain, Acts, Adders
<1>1. cmd \in [Commands -> [step : Steps, req : Requests, next : Nat \ {0}, answer : Answers]]
  BY DEF IInv, TypeOK
<1>2. /\ cmd[c].step = "act" /\ cmd[c].answer = "none"
      /\ r.name \in Adders /\ r \in Requests /\ Understood(r) /\ c \in wasAdmin
      /\ i \in 1 .. Len(Words(r))
      /\ UNCHANGED <<isAdmin, mode, lessons, removed, wasAdmin, cleared>>
  BY <1>0, <1>1 DEF Insert, Acts, At, IInv, HandlersKnow, Knows, Adders
<1>3. row \in Rows /\ row \in Adds(r) /\ DOMAIN Words(r) = 1 .. Len(Words(r)) /\ Len(Words(r)) \in Nat
  BY <1>2, WordsType, AddsType DEF Adds
<1>4. /\ rows \subseteq rows' /\ rows' \subseteq rows \cup {row}
      /\ changed' \subseteq changed \cup {c}
  BY <1>0 DEF Insert
<1>5. /\ \A d \in Commands \ {c} : cmd'[d] = cmd[d]
      /\ cmd'[c].req = r
      /\ \/ /\ cmd'[c].step = "act" /\ cmd'[c].answer = "none"
            /\ i # Len(Words(r)) /\ cmd'[c].next = i + 1 /\ row \in rows'
         \/ /\ cmd'[c].step = "reply" /\ cmd'[c].answer = "done"
            /\ i = Len(Words(r)) /\ row \in rows'
         \/ cmd'[c].step = "reply" /\ cmd'[c].answer = "failed"
  BY <1>0, <1>1, <1>2 DEF Insert, Answer, AfterError
<1>6. TypeOK'
  <2>1. cmd' \in [Commands -> [step : Steps, req : Requests, next : Nat \ {0}, answer : Answers]]
    <3>1. \/ cmd' = [cmd EXCEPT ![c].next = @ + 1]
          \/ cmd' = [cmd EXCEPT ![c].step = "reply", ![c].answer = "done"]
          \/ cmd' = [cmd EXCEPT ![c].step = "reply", ![c].answer = "failed"]
      BY <1>0 DEF Insert, Answer, AfterError
    <3> QED
      BY <1>1, <3>1 DEF Steps, Answers
  <2>2. rows' \subseteq Rows /\ changed' \subseteq Commands
    BY <1>3, <1>4 DEF IInv, TypeOK
  <2> QED
    BY <1>0, <2>1, <2>2 DEF IInv, TypeOK, Insert, life, bounds
<1>7. HandlersKnow'
  <2>1. cmd'[c].step = "act" => cmd'[c].next \in 1 .. Len(Words(r))
    BY <1>2, <1>3, <1>5
  <2> QED
    BY <1>2, <1>5, <2>1 DEF IInv, HandlersKnow, Knows
<1>8. RemovedStaysOut'
  <2>1. InFlight(row)
    BY <1>2, <1>3 DEF InFlight
  <2> QED
    BY <1>2, <1>4, <2>1 DEF IInv, ClearedIdle, RemovedStaysOut
<1>9. ClearedIdle'
  <2>1. \A q : InFlight(q)' => InFlight(q)
    BY <1>2, <1>5 DEF InFlight
  <2> QED
    BY <1>2, <2>1 DEF IInv, ClearedIdle
<1>10. \A j \in 1 .. i : row \in rows' => Row(r, Canon[Words(r)[j]]) \in rows' \cup removed'
  BY <1>2, <1>4 DEF IInv, AddedSoFar, Added
<1>11. AddedSoFar'
  <2>1. Added(c)'
    BY <1>2, <1>5, <1>10 DEF Added
  <2>2. \A d \in Commands \ {c} : Added(d)'
    BY <1>2, <1>4, <1>5 DEF IInv, AddedSoFar, Added
  <2> QED
    BY <2>1, <2>2 DEF AddedSoFar
<1>12. AddedUnlessRemoved'
  <2>1. cmd'[c].answer = "done" => Adds(r) \subseteq rows' \cup removed'
    BY <1>2, <1>3, <1>5, <1>10 DEF Adds
  <2> QED
    BY <1>2, <1>4, <1>5, <2>1 DEF IInv, AddedUnlessRemoved
<1>13. ChangedByAdmins'
  BY <1>2, <1>4 DEF IInv, ChangedByAdmins
<1> QED
  BY <1>6, <1>7, <1>8, <1>9, <1>11, <1>12, <1>13 DEF IInv

\* The statement of a removing command: the row it answers for is out, and
\* counts as such only if nobody is about to add it.
LEMMA RemoveStep ==
    ASSUME IInv, NEW c \in Commands, Remove(c)
    PROVE  IInv'
<1> DEFINE r     == cmd[c].req
           asked == Row(r, Canon[r.arg])
<1>0. Delete(c) /\ At(c, "act") /\ r.name \in Removers
  BY DEF Remove, RemoveSpam, UnallowContext, UnblockDomain, Acts, Removers
<1>1. cmd \in [Commands -> [step : Steps, req : Requests, next : Nat \ {0}, answer : Answers]]
  BY DEF IInv, TypeOK
<1>2. /\ cmd[c].step = "act" /\ r.name \notin Adders /\ r.name # "help"
      /\ r \in Requests /\ c \in wasAdmin
      /\ UNCHANGED <<isAdmin, mode, lessons, wasAdmin>>
  BY <1>0, <1>1 DEF Delete, Acts, At, IInv, HandlersKnow, Knows, Adders, Removers
<1>3. asked \in Rows
  BY <1>2, RowType, AdminAssumption
<1>4. /\ rows' \subseteq rows
      /\ rows \cup removed \subseteq rows' \cup removed'
      /\ removed' \subseteq removed \cup rows
      /\ changed' \subseteq changed \cup {c}
      /\ \/ cleared' = cleared
         \/ cleared' = cleared \cup {asked} /\ ~InFlight(asked) /\ asked \notin rows'
  BY <1>0 DEF Delete, Entry
<1>5. PICK a \in Answers : cmd' = [cmd EXCEPT ![c].step = "reply", ![c].answer = a]
  BY <1>0 DEF Delete, Answer, Answers
<1>6. "reply" \in Steps \ {"unsent", "check", "act"}
  BY DEF Steps
<1>7. /\ cmd' \in [Commands -> [step : Steps, req : Requests, next : Nat \ {0}, answer : Answers]]
      /\ HandlersKnow' /\ AddedSoFar' /\ AddedUnlessRemoved'
      /\ \A row : InFlight(row)' => InFlight(row)
  BY <1>2, <1>4, <1>5, <1>6, HandlerLeaves
<1>8. TypeOK'
  <2>1. rows' \subseteq Rows /\ removed' \subseteq Rows /\ cleared' \subseteq Rows /\ changed' \subseteq Commands
    BY <1>3, <1>4 DEF IInv, TypeOK
  <2> QED
    BY <1>0, <1>7, <2>1 DEF IInv, TypeOK, Delete, life, bounds
<1>9. RemovedStaysOut' /\ ClearedIdle'
  BY <1>4, <1>7 DEF IInv, RemovedStaysOut, ClearedIdle
<1>10. ChangedByAdmins'
  BY <1>2, <1>4 DEF IInv, ChangedByAdmins
<1> QED
  BY <1>7, <1>8, <1>9, <1>10 DEF IInv

\* The other steps of a handler add no row.
LEMMA OtherHandlerStep ==
    ASSUME IInv, NEW c \in Commands,
           List(c) \/ SetMode(c) \/ Ban(c) \/ Help(c) \/ Reply(c) \/ Deletion(c)
    PROVE  IInv'
<1> DEFINE r == cmd[c].req
<1>1. cmd \in [Commands -> [step : Steps, req : Requests, next : Nat \ {0}, answer : Answers]]
  BY DEF IInv, TypeOK
<1>2. CASE Ban(c)
  <2>1. /\ cmd[c].step = "act" /\ r.name = "ban" /\ c \in wasAdmin /\ r \in Requests
        /\ cmd' = [cmd EXCEPT ![c].step = "over"]
        /\ UNCHANGED <<isAdmin, rows, mode, storeOpen, autoDelete, cancelled, exited, wasAdmin, removed, cleared, apiFailed, bans, rights>>
        /\ changed' = changed \cup {c}
        /\ lessons \subseteq lessons' /\ lessons' \subseteq lessons \cup Adds(r)
    BY <1>1, <1>2 DEF Ban, Acts, At, tables, life, bounds, IInv, HandlersKnow, Knows
  <2>2. Adds(r) \subseteq Rows
    BY <2>1, AddsType
  <2>3. /\ \A d \in Commands \ {c} : cmd'[d] = cmd[d]
        /\ cmd'[c].req = r /\ cmd'[c].step = "over" /\ cmd'[c].answer = cmd[c].answer
    BY <1>1, <2>1
  <2>4. TypeOK'
    <3>1. cmd' \in [Commands -> [step : Steps, req : Requests, next : Nat \ {0}, answer : Answers]]
      BY <1>1, <2>1 DEF Steps
    <3> QED
      BY <2>1, <2>2, <3>1, <1>2 DEF IInv, TypeOK, Ban
  <2>5. HandlersKnow'
    BY <2>1, <2>3 DEF IInv, HandlersKnow, Knows
  <2>6. \A row : InFlight(row)' => InFlight(row)
    BY <2>1, <2>3 DEF InFlight
  <2>7. AddedSoFar' /\ AddedUnlessRemoved'
    BY <2>1, <2>3 DEF IInv, AddedSoFar, Added, AddedUnlessRemoved
  <2>8. RemovedStaysOut' /\ ClearedIdle' /\ ChangedByAdmins'
    BY <2>1, <2>6 DEF IInv, RemovedStaysOut, ClearedIdle, ChangedByAdmins
  <2> QED
    BY <2>4, <2>5, <2>7, <2>8 DEF IInv
<1>3. CASE List(c) \/ SetMode(c) \/ Help(c) \/ Reply(c) \/ Deletion(c)
  <2>1. /\ UNCHANGED <<isAdmin, rows, lessons, wasAdmin, removed, cleared>>
        /\ cmd[c].step # "unsent"
        /\ changed' = changed \/ (cmd[c].step = "act" /\ r.name # "help" /\ changed' = changed \cup {c})
    BY <1>3 DEF List, Triggers, AllowContexts, RecentDomains, ShowMode, Query, SetMode, Help, Reply, Deletion, DeleteCommand, DeleteReply, Acts, At,
                tables, traces
  <2>2. PICK s \in Steps \ {"unsent", "check", "act"}, a \in Answers :
           /\ cmd' = [cmd EXCEPT ![c].step = s, ![c].answer = a]
           /\ a = "done" /\ r.name \in Adders => cmd[c].answer = "done"
    <3>1. CASE List(c) \/ SetMode(c) \/ Help(c)
      <4>1. r.name \notin Adders
        BY <3>1 DEF List, Triggers, AllowContexts, RecentDomains, ShowMode, Query, SetMode, Help, Acts, Adders, Listers
      <4>2. \E a \in Answers : cmd' = [cmd EXCEPT ![c].step = "reply", ![c].answer = a]
        BY <3>1 DEF List, Triggers, AllowContexts, RecentDomains, ShowMode, Query, SetMode, Help, Answer, Answers
      <4> QED
        BY <4>1, <4>2 DEF Steps
    <3>2. CASE Reply(c) \/ Deletion(c)
      <4>1. \E s \in Steps \ {"unsent", "check", "act"} : cmd' = [cmd EXCEPT ![c].step = s]
        BY <3>2 DEF Reply, Deletion, DeleteCommand, DeleteReply, Steps
      <4>2. PICK s \in Steps \ {"unsent", "check", "act"} : cmd' = [cmd EXCEPT ![c].step = s]
        BY <4>1
      <4>3. cmd[c].answer \in Answers
            /\ cmd' = [cmd EXCEPT ![c].step = s, ![c].answer = cmd[c].answer]
        BY <1>1, <4>2
      <4> QED
        BY <4>3
    <3> QED
      BY <1>3, <3>1, <3>2
  <2>3. /\ cmd' \in [Commands -> [step : Steps, req : Requests, next : Nat \ {0}, answer : Answers]]
        /\ HandlersKnow' /\ AddedSoFar' /\ AddedUnlessRemoved'
        /\ \A row : InFlight(row)' => InFlight(row)
    BY <2>1, <2>2, HandlerLeaves
  <2>4. mode' \in [Chats -> ChatModes]
    BY <1>3 DEF IInv, TypeOK, List, Triggers, AllowContexts, RecentDomains, ShowMode, Query, SetMode, Help, Reply, Deletion, DeleteCommand, DeleteReply,
                tables, ModeOf, ChatModes
  <2>5. /\ UNCHANGED <<storeOpen, autoDelete, cancelled, exited, bans, rights>>
        /\ shown' \subseteq shown \cup {<<c, "reply">>}
        /\ apiFailed' \in BOOLEAN
    BY <1>3 DEF IInv, TypeOK, List, Triggers, AllowContexts, RecentDomains, ShowMode, Query, SetMode, Help, Reply, Deletion, DeleteCommand, DeleteReply,
                life, bounds, ApiOk, ApiErr
  <2>6. changed' \subseteq Commands
    BY <2>1 DEF IInv, TypeOK
  <2>7. TypeOK'
    BY <2>1, <2>3, <2>4, <2>5, <2>6 DEF IInv, TypeOK
  <2>8. RemovedStaysOut' /\ ClearedIdle'
    BY <2>1, <2>3 DEF IInv, RemovedStaysOut, ClearedIdle
  <2>9. ChangedByAdmins'
    BY <2>1 DEF IInv, HandlersKnow, Knows, ChangedByAdmins
  <2> QED
    BY <2>3, <2>7, <2>8, <2>9 DEF IInv
<1> QED
  BY <1>2, <1>3

\* A ban that teaches puts its row back among those that may come.
LEMMA LessonStep ==
    ASSUME IInv, NEW row \in Domains, Punish(row) \/ LearnDomains(row)
    PROVE  IInv'
<1>1. row \in Rows
  BY DomainsType
<1>2. UNCHANGED <<cmd, isAdmin, wasAdmin, removed, changed>>
  BY DEF Punish, LearnDomains, traces
<1>3. CASE Punish(row)
  <2>1. TypeOK'
    BY <1>1, <1>3 DEF IInv, TypeOK, Punish, tables, life
  <2>2. rows' = rows /\ cleared' = cleared \ {row} /\ lessons' = lessons \cup {row}
    BY <1>3 DEF Punish, tables
  <2>3. RemovedStaysOut' /\ ClearedIdle'
    BY <1>2, <2>2 DEF IInv, RemovedStaysOut, ClearedIdle, InFlight
  <2>4. HandlersKnow' /\ AddedSoFar' /\ AddedUnlessRemoved' /\ ChangedByAdmins'
    BY <1>2, <2>2 DEF IInv, HandlersKnow, Knows, AddedSoFar, Added, AddedUnlessRemoved, ChangedByAdmins
  <2> QED
    BY <2>1, <2>3, <2>4 DEF IInv
<1>4. CASE LearnDomains(row)
  <2>1. TypeOK'
    BY <1>1, <1>4 DEF IInv, TypeOK, LearnDomains, life, traces, bounds
  <2>2. /\ row \in lessons /\ cleared' = cleared /\ lessons' = lessons \ {row}
        /\ rows \subseteq rows' /\ rows' \subseteq rows \cup {row}
    BY <1>4 DEF LearnDomains, traces
  <2>3. row \notin cleared
    BY <2>2 DEF IInv, ClearedIdle, InFlight
  <2>4. RemovedStaysOut' /\ ClearedIdle'
    BY <1>2, <2>2, <2>3 DEF IInv, RemovedStaysOut, ClearedIdle, InFlight
  <2>5. HandlersKnow' /\ AddedSoFar' /\ AddedUnlessRemoved' /\ ChangedByAdmins'
    BY <1>2, <2>2 DEF IInv, HandlersKnow, Knows, AddedSoFar, Added, AddedUnlessRemoved, ChangedByAdmins
  <2> QED
    BY <2>1, <2>4, <2>5 DEF IInv
<1> QED
  BY <1>3, <1>4

\* Telegram changes rights; a sender that has become an administrator is noted.
LEMMA RightsStep ==
    ASSUME IInv, NEW c \in Commands, ChangeRights(c)
    PROVE  IInv'
<1>1. TypeOK'
  BY DEF IInv, TypeOK, ChangeRights, tables, life
<1>2. /\ UNCHANGED <<cmd, rows, lessons, removed, changed, cleared>>
      /\ isAdmin' = [isAdmin EXCEPT ![c] = ~@]
      /\ wasAdmin' = IF cmd[c].step # "unsent" THEN wasAdmin \cup {c} ELSE wasAdmin
  BY DEF ChangeRights, tables
<1>3. \A d \in Commands \ {c} : isAdmin'[d] = isAdmin[d]
  BY <1>2 DEF IInv, TypeOK
<1>4. HandlersKnow'
  BY <1>2, <1>3 DEF IInv, HandlersKnow, Knows
<1>5. RemovedStaysOut' /\ ClearedIdle'
  BY <1>2 DEF IInv, RemovedStaysOut, ClearedIdle, InFlight
<1>6. AddedSoFar' /\ AddedUnlessRemoved' /\ ChangedByAdmins'
  BY <1>2 DEF IInv, AddedSoFar, Added, AddedUnlessRemoved, ChangedByAdmins
<1> QED
  BY <1>1, <1>4, <1>5, <1>6 DEF IInv

\* Every step preserves the invariant.
LEMMA IInvStep == IInv /\ [Next]_vars => IInv'
<1> SUFFICES ASSUME IInv, [Next]_vars
             PROVE  IInv'
  OBVIOUS
<1>1. CASE UNCHANGED vars
  <2>1. UNCHANGED <<cmd, isAdmin, rows, mode, lessons, removed, changed, wasAdmin, cleared>>
    BY <1>1 DEF vars, tables, traces
  <2>2. TypeOK'
    BY <1>1 DEF IInv, TypeOK, vars, tables, life, traces, bounds
  <2> QED
    BY <2>1, <2>2, Untouched
<1>2. ASSUME NEW c \in Commands, Send(c) \/ Handler(c) \/ Deletion(c) \/ ChangeRights(c)
      PROVE  IInv'
  <2>1. CASE Send(c)
    BY <2>1, SendStep
  <2>2. CASE Check(c)
    BY <2>2, CheckStep
  <2>3. CASE Add(c)
    BY <2>3, AddStep
  <2>4. CASE Remove(c)
    BY <2>4, RemoveStep
  <2>5. CASE List(c) \/ SetMode(c) \/ Ban(c) \/ Help(c) \/ Reply(c) \/ Deletion(c)
    BY <2>5, OtherHandlerStep
  <2>6. CASE ChangeRights(c)
    BY <2>6, RightsStep
  <2> QED
    BY <1>2, <2>1, <2>2, <2>3, <2>4, <2>5, <2>6 DEF Handler
<1>3. ASSUME NEW row \in Domains, Punish(row) \/ LearnDomains(row)
      PROVE  IInv'
  BY <1>3, LessonStep
<1>4. CASE Cancel \/ Exit
  <2>1. UNCHANGED <<cmd, isAdmin, rows, mode, lessons, removed, changed, wasAdmin, cleared>>
    BY <1>4 DEF Cancel, Exit, tables, traces
  <2>2. TypeOK'
    BY <1>4 DEF IInv, TypeOK, Cancel, Exit, tables, traces, bounds
  <2> QED
    BY <2>1, <2>2, Untouched
<1> QED
  BY <1>1, <1>2, <1>3, <1>4 DEF Next

\* The inductive invariant holds in every reachable state, whatever main, the
\* handlers and Telegram do and whichever calls fail.
THEOREM AlwaysIInv == Spec => []IInv
<1> QED
  BY InitIInv, IInvStep, PTL DEF Spec

\* Every variable of the commands keeps its type.
THEOREM AdminTypeCorrect == Spec => []TypeOK
<1>1. IInv => TypeOK
  BY DEF IInv
<1> QED
  BY <1>1, AlwaysIInv, PTL

\* What an administrator took out of a table stays out until somebody asks for
\* it, or a ban teaches it, later.
THEOREM RemovalLasts == Spec => []RemovedStaysOut
<1>1. IInv => RemovedStaysOut
  BY DEF IInv
<1> QED
  BY <1>1, AlwaysIInv, PTL

\* After a reported success all the words of the request are in the table,
\* those excepted that another command removed.
THEOREM SuccessIsComplete == Spec => []AddedUnlessRemoved
<1>1. IInv => AddedUnlessRemoved
  BY DEF IInv
<1> QED
  BY <1>1, AlwaysIInv, PTL

\* Only administrators change the tables or have members banned.
THEOREM OnlyAdminsChange == Spec => []ChangedByAdmins
<1>1. IInv => ChangedByAdmins
  BY DEF IInv
<1> QED
  BY <1>1, AlwaysIInv, PTL

-----------------------------------------------------------------------------
\* The instant is among the moments of every check under way.
NowRecorded == \A m \in Posts : UnderCheck(m) => Now(m) \in moments[m]

\* Where the settings of a worker come from at each of its steps.
ModeRead(m) ==
    \E s \in moments[m] :
        /\ post[m].set.on = ApplyMode(Globals, s[1]).on
        /\ post[m].set.action = ApplyMode(Globals, s[1]).action

AllowRead(m) == \E s \in moments[m] : post[m].set.allow = Globals.allow \cup s[2]

Sound(m) ==
    /\ post[m].step \in {"new", "mode", "allow"} => post[m].set.allow = Globals.allow
    /\ post[m].step \in {"new", "mode"} => post[m].set = Globals
    /\ post[m].step = "allow" => ModeRead(m)
    /\ post[m].step = "match" /\ ~post[m].failed /\ storeOpen => ModeRead(m) /\ AllowRead(m)

FInv ==
    /\ FTypeOK /\ NowRecorded
    /\ \A m \in Posts : Sound(m)
    /\ PunishedAsSet /\ SparedAsSet

\* The settings read for a mode are what the administrators meant by it.
LEMMA ModeMeaning ==
    ASSUME NEW md \in ChatModes
    PROVE  /\ ApplyMode(Globals, md) \in Settings
           /\ ApplyMode(Globals, md).allow = Globals.allow
           /\ ApplyMode(Globals, md).on => Calls(md) = ApplyMode(Globals, md).action
           /\ ~ApplyMode(Globals, md).on => Calls(md) = "off"
<1>1. Globals \in Settings /\ Globals.on = GlobalOn /\ Globals.action = GlobalAction
  BY FilteringAssumption, AdminAssumption DEF Globals, Settings
<1>2. CASE md = ""
  BY <1>1, <1>2 DEF ApplyMode, Calls
<1>3. CASE md = "off"
  BY <1>1, <1>3 DEF ApplyMode, Calls, Settings
<1>4. CASE md \in {"delete", "ban"}
  BY <1>1, <1>4 DEF ApplyMode, Calls, Settings
<1> QED
  BY <1>2, <1>3, <1>4 DEF ChatModes

\* A moment has a mode and a set of phrases.
LEMMA NowType ==
    ASSUME TypeOK, NEW m \in Posts
    PROVE  /\ Now(m) \in ChatModes \X SUBSET Args
           /\ Now(m)[1] = mode[PostChat[m]]
           /\ Now(m)[2] = Allowlist(PostChat[m])
BY FilteringAssumption DEF Now, TypeOK, Allowlist

\* A step records the instant for the checks under way and forgets none.
LEMMA RecordedStep ==
    ASSUME TypeOK', FTypeOK, Recorded
    PROVE  /\ moments' \in [Posts -> SUBSET (ChatModes \X SUBSET Args)]
           /\ \A m \in Posts : moments[m] \subseteq moments'[m]
           /\ NowRecorded'
<1>1. \A m \in Posts : Now(m)' \in ChatModes \X SUBSET Args
  BY FilteringAssumption DEF Now, TypeOK, Allowlist
<1>2. \A m \in Posts : moments'[m] = moments[m] \cup IF UnderCheck(m)' THEN {Now(m)'} ELSE {}
  BY DEF Recorded
<1>3. moments' \in [Posts -> SUBSET (ChatModes \X SUBSET Args)]
  BY <1>1 DEF Recorded, FTypeOK
<1> QED
  BY <1>2, <1>3 DEF NowRecorded

\* More moments leave what is known of a post that does not move.
LEMMA SoundKept ==
    ASSUME FInv, NEW m \in Posts, post'[m] = post[m], moments[m] \subseteq moments'[m],
           UNCHANGED storeOpen
    PROVE  /\ Sound(m)'
           /\ post[m].step \in {"delete", "ban"} /\ ~post[m].failed /\ storeOpen =>
                 /\ \E s \in moments'[m] : Calls(s[1]) = post[m].step
                 /\ \E s \in moments'[m] : ~Spares(m, s[2])
           /\ m \in Suspect /\ post[m].step = "pass" /\ ~post[m].failed /\ storeOpen =>
                 \E s \in moments'[m] : Calls(s[1]) = "off" \/ Spares(m, s[2])
<1>1. Sound(m)'
  BY DEF FInv, Sound, ModeRead, AllowRead
<1> QED
  BY <1>1 DEF FInv, PunishedAsSet, SparedAsSet

\* A verdict follows the settings that the worker holds.
LEMMA MatchStep ==
    ASSUME FInv, NEW m \in Posts, post[m].step = "match", ~post[m].failed, storeOpen
    PROVE  /\ Verdict(m) \in {"delete", "ban"} =>
                 /\ \E s \in moments[m] : Calls(s[1]) = Verdict(m)
                 /\ \E s \in moments[m] : ~Spares(m, s[2])
           /\ m \in Suspect /\ Verdict(m) = "pass" =>
                 \E s \in moments[m] : Calls(s[1]) = "off" \/ Spares(m, s[2])
<1>1. moments[m] \subseteq ChatModes \X SUBSET Args /\ post[m].set \in Settings
  BY DEF FInv, FTypeOK
<1>2. PICK s \in moments[m] :
         /\ post[m].set.on = ApplyMode(Globals, s[1]).on
         /\ post[m].set.action = ApplyMode(Globals, s[1]).action
  BY DEF FInv, Sound, ModeRead
<1>3. PICK t \in moments[m] : post[m].set.allow = Globals.allow \cup t[2]
  BY DEF FInv, Sound, AllowRead
<1>4. s[1] \in ChatModes
  BY <1>1
<1>5. /\ post[m].set.on => Calls(s[1]) = post[m].set.action
      /\ ~post[m].set.on => Calls(s[1]) = "off"
  BY <1>2, <1>4, ModeMeaning
<1>6. Excused(m, Substrings(m)) <=> Spares(m, t[2])
  BY <1>3 DEF Excused, Substrings, Spares, Globals
<1>7. post[m].set.action \in {"delete", "ban"}
  BY <1>1 DEF Settings
<1> QED
  BY <1>5, <1>6, <1>7 DEF Verdict

\* A post's step of its worker.
LEMMA PostStep ==
    ASSUME FInv, TypeOK, TypeOK', UNCHANGED vars, Recorded, NEW m \in Posts,
           Begin(m) \/ ReadMode(m) \/ ReadAllow(m) \/ Match(m)
    PROVE  FInv'
<1>0. UNCHANGED storeOpen
  BY DEF vars, life
<1>1. /\ moments' \in [Posts -> SUBSET (ChatModes \X SUBSET Args)]
      /\ \A n \in Posts : moments[n] \subseteq moments'[n]
      /\ NowRecorded'
  BY RecordedStep DEF FInv
<1>2. post \in [Posts -> [step : {"new", "mode", "allow", "match", "pass", "delete", "ban"},
                          set : Settings, failed : BOOLEAN]]
  BY DEF FInv, FTypeOK
<1>3. Globals \in Settings
  BY FilteringAssumption, AdminAssumption DEF Globals, Settings
<1>4. mode[PostChat[m]] \in ChatModes /\ Allowlist(PostChat[m]) \subseteq Args
  BY FilteringAssumption DEF TypeOK, Allowlist
<1>5. UnderCheck(m) => /\ \E s \in moments'[m] : s[1] = mode[PostChat[m]]
                       /\ \E s \in moments'[m] : s[2] = Allowlist(PostChat[m])
  BY <1>1, NowType DEF FInv, NowRecorded
<1>6. \E p \in [step : {"new", "mode", "allow", "match", "pass", "delete", "ban"},
               set : Settings, failed : BOOLEAN] :
         /\ post' = [post EXCEPT ![m] = p]
         /\ Sound(m)'
         /\ p.step \in {"delete", "ban"} /\ ~p.failed /\ storeOpen =>
               /\ \E s \in moments'[m] : Calls(s[1]) = p.step
               /\ \E s \in moments'[m] : ~Spares(m, s[2])
         /\ m \in Suspect /\ p.step = "pass" /\ ~p.failed /\ storeOpen =>
               \E s \in moments'[m] : Calls(s[1]) = "off" \/ Spares(m, s[2])
  <2>1. CASE Begin(m)
    <3> DEFINE p == [post[m] EXCEPT !.step = IF storeOpen THEN "mode" ELSE "match"]
    <3>1. post' = [post EXCEPT ![m] = p]
      BY <1>2, <2>1 DEF Begin
    <3>2. p.step # "delete" /\ p.step # "ban" /\ p.step # "pass" /\ post'[m] = p
      BY <1>2, <3>1
    <3>3. Sound(m)'
      BY <1>2, <2>1, <3>1, <3>2, <1>0 DEF FInv, Sound, Begin, At4
    <3> QED
      BY <1>2, <3>1, <3>2, <3>3
  <2>2. CASE Unread(m)
    <3> DEFINE p == [step |-> "match", set |-> Globals, failed |-> TRUE]
    <3>1. post' = [post EXCEPT ![m] = p] /\ post'[m] = p
      BY <1>2, <2>2 DEF Unread
    <3>2. Sound(m)'
      BY <3>1 DEF Sound
    <3>3. /\ p \in [step : {"new", "mode", "allow", "match", "pass", "delete", "ban"},
                    set : Settings, failed : BOOLEAN]
          /\ p.step = "match"
      BY <1>3
    <3> QED
      BY <3>1, <3>2, <3>3
  <2>3. CASE ReadMode(m) /\ ~Unread(m)
    <3> DEFINE set == ApplyMode(post[m].set, mode[PostChat[m]])
               p   == [post[m] EXCEPT !.step = "allow", !.set = set]
    <3>1. post' = [post EXCEPT ![m] = p] /\ post'[m] = p /\ post[m].step = "mode"
      BY <1>2, <2>3 DEF ReadMode, At4
    <3>2. post[m].set = Globals
      BY <3>1 DEF FInv, Sound
    <3>3. set \in Settings /\ set.allow = Globals.allow
      BY <1>4, <3>2, ModeMeaning
    <3>4. p.step = "allow" /\ p.set = set /\ p.failed = post[m].failed
      BY <1>2, <3>3
    <3>5. Sound(m)'
      <4>1. ModeRead(m)'
        BY <1>5, <3>1, <3>2, <3>4 DEF ModeRead, UnderCheck
      <4> QED
        BY <3>1, <3>3, <3>4, <4>1 DEF Sound
    <3> QED
      BY <1>2, <3>1, <3>3, <3>4, <3>5
  <2>4. CASE ReadAllow(m) /\ ~Unread(m)
    <3> DEFINE set == [post[m].set EXCEPT !.allow = @ \cup Allowlist(PostChat[m])]
               p   == [post[m] EXCEPT !.step = "match", !.set = set]
    <3>1. post' = [post EXCEPT ![m] = p] /\ post'[m] = p /\ post[m].step = "allow"
      BY <1>2, <2>4 DEF ReadAllow, At4, Settings
    <3>2. post[m].set \in Settings /\ post[m].set.allow = Globals.allow /\ ModeRead(m)
      BY <1>2, <3>1 DEF FInv, Sound
    <3>3. /\ set \in Settings
          /\ set.on = post[m].set.on /\ set.action = post[m].set.action
          /\ set.allow = Globals.allow \cup Allowlist(PostChat[m])
      BY <1>4, <3>2 DEF Settings
    <3>4. p.step = "match" /\ p.set = set /\ p.failed = post[m].failed
      BY <1>2, <3>3
    <3>5. Sound(m)'
      <4>1. ModeRead(m)'
        BY <1>1, <3>1, <3>2, <3>3, <3>4 DEF ModeRead
      <4>2. AllowRead(m)'
        <5>1. PICK s \in moments'[m] : s[2] = Allowlist(PostChat[m])
          BY <1>5, <3>1 DEF UnderCheck
        <5>2. post'[m].set.allow = Globals.allow \cup s[2]
          BY <3>1, <3>3, <3>4, <5>1
        <5>3. Globals' = Globals
          BY DEF Globals
        <5> QED
          BY <5>2, <5>3 DEF AllowRead
      <4> QED
        BY <3>1, <3>4, <4>1, <4>2 DEF Sound
    <3> QED
      BY <1>2, <3>1, <3>3, <3>4, <3>5
  <2>5. CASE Match(m)
    <3> DEFINE p == [post[m] EXCEPT !.step = Verdict(m)]
    <3>1. post' = [post EXCEPT ![m] = p] /\ post'[m] = p /\ post[m].step = "match"
      BY <1>2, <2>5 DEF Match, At4
    <3>2. Verdict(m) \in {"pass", "delete", "ban"}
      BY <1>2 DEF Verdict, Settings
    <3>3. p.step = Verdict(m) /\ p.failed = post[m].failed
      BY <1>2
    <3>4. Sound(m)'
      BY <3>1, <3>2, <3>3 DEF Sound
    <3> QED
      BY <1>1, <1>2, <3>1, <3>2, <3>3, <3>4, MatchStep
  <2> QED
    BY <2>1, <2>2, <2>3, <2>4, <2>5
<1>7. /\ post' \in [Posts -> [step : {"new", "mode", "allow", "match", "pass", "delete", "ban"},
                              set : Settings, failed : BOOLEAN]]
      /\ \A n \in Posts \ {m} : post'[n] = post[n]
  BY <1>2, <1>6
<1>8. \A n \in Posts \ {m} :
         /\ Sound(n)'
         /\ post'[n].step \in {"delete", "ban"} /\ ~post'[n].failed /\ storeOpen =>
               /\ \E s \in moments'[n] : Calls(s[1]) = post'[n].step
               /\ \E s \in moments'[n] : ~Spares(n, s[2])
         /\ n \in Suspect /\ post'[n].step = "pass" /\ ~post'[n].failed /\ storeOpen =>
               \E s \in moments'[n] : Calls(s[1]) = "off" \/ Spares(n, s[2])
  BY <1>0, <1>1, <1>7, SoundKept
<1>9. \A n \in Posts :
         /\ Sound(n)'
         /\ post'[n].step \in {"delete", "ban"} /\ ~post'[n].failed /\ storeOpen =>
               /\ \E s \in moments'[n] : Calls(s[1]) = post'[n].step
               /\ \E s \in moments'[n] : ~Spares(n, s[2])
         /\ n \in Suspect /\ post'[n].step = "pass" /\ ~post'[n].failed /\ storeOpen =>
               \E s \in moments'[n] : Calls(s[1]) = "off" \/ Spares(n, s[2])
  BY <1>2, <1>6, <1>8
<1>10. PunishedAsSet' /\ SparedAsSet'
  BY <1>0, <1>9, FilteringAssumption DEF PunishedAsSet, SparedAsSet, Calls, Spares, Excused
<1> QED
  BY <1>1, <1>7, <1>9, <1>10 DEF FInv, FTypeOK

\* Nothing opens or closes the store while the bot runs.
LEMMA StoreFixed == [FNext]_fvars => UNCHANGED storeOpen
<1> SUFFICES ASSUME [FNext]_fvars
             PROVE  UNCHANGED storeOpen
  OBVIOUS
<1>1. CASE UNCHANGED vars
  BY <1>1 DEF vars, life
<1>2. ASSUME NEW c \in Commands, Send(c) \/ Handler(c) \/ Deletion(c) \/ ChangeRights(c)
      PROVE  UNCHANGED storeOpen
  <2>1. CASE Send(c) \/ Check(c) \/ ChangeRights(c)
    BY <2>1 DEF Send, Check, ChangeRights, life
  <2>2. CASE Add(c) \/ Remove(c)
    BY <2>2 DEF Add, AddSpam, AllowContext, AddCoreWords, BlockDomain, Insert,
                Remove, RemoveSpam, UnallowContext, UnblockDomain, Delete, life
  <2>3. CASE List(c) \/ SetMode(c) \/ Ban(c) \/ Help(c)
    BY <2>3 DEF List, Triggers, AllowContexts, RecentDomains, ShowMode, Query, SetMode, Ban, Help, life
  <2>4. CASE Reply(c) \/ Deletion(c)
    BY <2>4 DEF Reply, Deletion, DeleteCommand, DeleteReply, life
  <2> QED
    BY <1>2, <2>1, <2>2, <2>3, <2>4 DEF Handler
<1>3. CASE \E row \in Domains : Punish(row) \/ LearnDomains(row)
  BY <1>3 DEF Punish, LearnDomains, life
<1>4. CASE Cancel \/ Exit
  BY <1>4 DEF Cancel, Exit
<1>5. CASE \E m \in Posts : Begin(m) \/ ReadMode(m) \/ ReadAllow(m) \/ Match(m)
  BY <1>1, <1>5 DEF Begin, ReadMode, ReadAllow, Match
<1>6. CASE UNCHANGED fvars
  BY <1>1, <1>6 DEF fvars
<1> QED
  BY <1>2, <1>3, <1>4, <1>5, <1>6 DEF FNext, Next

\* Every step of the composition preserves the invariant of the posts.
LEMMA FInvStep == FInv /\ TypeOK /\ TypeOK' /\ [FNext]_fvars => FInv'
<1> SUFFICES ASSUME FInv, TypeOK, TypeOK', [FNext]_fvars
             PROVE  FInv'
  OBVIOUS
<1>0. UNCHANGED storeOpen
  BY StoreFixed
<1>1. ASSUME post' = post, \A m \in Posts : moments[m] \subseteq moments'[m], NowRecorded',
             moments' \in [Posts -> SUBSET (ChatModes \X SUBSET Args)]
      PROVE  FInv'
  <2>1. \A m \in Posts : Sound(m)'
    BY <1>0, <1>1, SoundKept
  <2>2. PunishedAsSet' /\ SparedAsSet'
    BY <1>0, <1>1, SoundKept, FilteringAssumption DEF PunishedAsSet, SparedAsSet
  <2> QED
    BY <1>1, <2>1, <2>2 DEF FInv, FTypeOK
<1>2. CASE UNCHANGED fvars
  <2>1. UNCHANGED <<mode, rows, post, moments>>
    BY <1>2 DEF fvars, vars, tables
  <2>2. NowRecorded'
    BY <2>1 DEF FInv, NowRecorded, UnderCheck, Now, Allowlist
  <2> QED
    BY <1>1, <2>1, <2>2 DEF FInv, FTypeOK
<1>3. CASE Next /\ UNCHANGED post /\ Recorded
  BY <1>1, <1>3, RecordedStep DEF FInv
<1>4. ASSUME NEW m \in Posts, Begin(m) \/ ReadMode(m) \/ ReadAllow(m) \/ Match(m)
      PROVE  FInv'
  <2>1. UNCHANGED vars /\ Recorded
    BY <1>4 DEF Begin, ReadMode, ReadAllow, Match
  <2> QED
    BY <1>4, <2>1, PostStep
<1> QED
  BY <1>2, <1>3, <1>4 DEF FNext

\* At first no post is under check.
LEMMA InitFInv == FInit => FInv
<1> SUFFICES ASSUME FInit
             PROVE  FInv
  OBVIOUS
<1>1. Globals \in Settings
  BY FilteringAssumption, AdminAssumption DEF Globals, Settings
<1>2. /\ post = [m \in Posts |-> [step |-> "new", set |-> Globals, failed |-> FALSE]]
      /\ moments = [m \in Posts |-> {}]
  BY DEF FInit
<1>3. \A m \in Posts : post[m] = [step |-> "new", set |-> Globals, failed |-> FALSE]
  BY <1>2
<1>4. FTypeOK
  BY <1>1, <1>2 DEF FTypeOK
<1>5. NowRecorded /\ \A m \in Posts : Sound(m)
  BY <1>3 DEF NowRecorded, UnderCheck, Sound
<1>6. PunishedAsSet /\ SparedAsSet
  BY <1>3, FilteringAssumption DEF PunishedAsSet, SparedAsSet
<1> QED
  BY <1>4, <1>5, <1>6 DEF FInv

\* The composition keeps the invariant of the commands: the workers only read
\* what the commands change.
LEMMA FNextIInv == IInv /\ [FNext]_fvars => IInv'
<1> SUFFICES ASSUME IInv, [FNext]_fvars
             PROVE  IInv'
  OBVIOUS
<1>1. [Next]_vars
  BY DEF FNext, fvars, Begin, ReadMode, ReadAllow, Match
<1> QED
  BY <1>1, IInvStep

\* The content filter keeps its invariant beside the commands.
THEOREM AlwaysFInv == FSpec => [](IInv /\ FInv)
<1>1. FInit => IInv /\ FInv
  BY InitIInv, InitFInv DEF FInit
<1>2. IInv => TypeOK
  BY DEF IInv
<1>3. IInv /\ FInv /\ [FNext]_fvars => (IInv /\ FInv)'
  BY <1>2, FNextIInv, FInvStep DEF IInv
<1> QED
  BY <1>1, <1>3, PTL DEF FSpec

\* The variables of the filter keep their types.
THEOREM FilteringTypeCorrect == FSpec => []FTypeOK
<1>1. IInv /\ FInv => FTypeOK
  BY DEF FInv
<1> QED
  BY <1>1, AlwaysFInv, PTL

\* Nobody is punished against the settings of his chat, as long as they can be
\* read.
THEOREM PunishmentIsSet == FSpec => []PunishedAsSet
<1>1. IInv /\ FInv => PunishedAsSet
  BY DEF FInv
<1> QED
  BY <1>1, AlwaysFInv, PTL

\* Nothing suspicious gets past the filter by the settings of another chat.
THEOREM SparingIsSet == FSpec => []SparedAsSet
<1>1. IInv /\ FInv => SparedAsSet
  BY DEF FInv
<1> QED
  BY <1>1, AlwaysFInv, PTL
=============================================================================
