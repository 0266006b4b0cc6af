------------------------ MODULE RelayStoreStepProofs ------------------------
(***************************************************************************)
(* What a step of RelayStore may never do, for any number of endpoints,    *)
(* links, sessions and concurrent invocations: the three action            *)
(* properties, from the invariant of RelayStoreProofs and PurposeInv.      *)
(***************************************************************************)
EXTENDS RelayStoreProofs

\* PurposeInv for one invocation.
Purpose(i) ==
  /\ \A s \in req[i].late : Spent(s)
  /\ req[i].op = "OpenSession" /\ pc[i] # "link" => Me(i) = LinkController[req[i].l]
  /\ req[i].op = "OpenSession" /\ pc[i] \in {"session", "locks", "repair"} => Spent(seen[i].s)
  /\ req[i].op = "OpenSession" /\ pc[i] = "commit" => seen[i].conn # None
  /\ req[i].op \in {"CloseSession", "Reap"} /\ pc[i] \in {"locks", "commit"} =>
       /\ seen[i].s = req[i].s
       /\ req[i].op = "CloseSession" => Party(seen[i].tl, Me(i))

\* No step brings a session back to life, or renews one that expired.
Aging == /\ \A s \in SessionId : Spent(s) => Spent(s)'
         /\ ExpiryInv => ExpiryInv'

LEMMA PurposeParts == PurposeInv <=> ExpiryInv /\ \A i \in Invocation : Purpose(i)
  BY DEF PurposeInv, Purpose

LEMMA PurposeFrame ==
  ASSUME LocalType, NEW j \in Invocation, LocalInv(j), Purpose(j), Aging,
         pc'[j] = pc[j], req'[j] = req[j], seen'[j] = seen[j]
  PROVE  Purpose(j)'
<1>1. req[j].late \subseteq SessionId /\ seen[j].s \in SessionId \cup {None}
  BY DEF LocalType, Request, Snapshot
<1>2. req[j].op = "OpenSession" /\ pc[j] \in {"session", "locks", "repair"} => seen[j].s # None
  BY DEF LocalInv, SeenInv
<1>3. Me(j)' = Me(j)
  BY DEF Me
<1>4. \A s \in req'[j].late : Spent(s)'
  BY <1>1 DEF Purpose, Aging
<1>5. req[j].op = "OpenSession" /\ pc[j] \in {"session", "locks", "repair"} => Spent(seen[j].s)'
  BY <1>1, <1>2 DEF Purpose, Aging
<1>6. QED
  BY <1>3, <1>4, <1>5 DEF Purpose, Party, Spent

LEMMA PurposeCompose ==
  ASSUME IInv, PurposeInv, NEW i \in Invocation, Others(i), Aging, Purpose(i)'
  PROVE  PurposeInv'
<1>1. ASSUME NEW j \in Invocation, j # i PROVE Purpose(j)'
  BY <1>1, PurposeFrame, IInvParts, PurposeParts DEF Others
<1>2. \A j \in Invocation : Purpose(j)'
  BY <1>1
<1>3. QED
  BY <1>2, PurposeParts DEF PurposeInv, Purpose, Aging

-----------------------------------------------------------------------------
(***************************************************************************)
(* How an invocation moves on, whatever it has read.                       *)
(***************************************************************************)
LEMMA GotoMoves ==
  ASSUME LocalType, NEW i \in Invocation, NEW p, NEW v, Goto(i, p, v)
  PROVE  Others(i) /\ pc'[i] = p /\ req'[i] = req[i] /\ seen'[i] = v
  BY DEF Goto, LocalType, Others

LEMMA BecomeMoves ==
  ASSUME LocalType, NEW i \in Invocation, NEW p, NEW r, Become(i, p, r)
  PROVE  Others(i) /\ pc'[i] = p /\ req'[i] = r
  BY DEF Become, LocalType, Others

\* A step along the operation keeps its purpose if what it reads does.
LEMMA GotoPurpose ==
  ASSUME IInv, PurposeInv, NEW i \in Invocation, NEW p, NEW v, Goto(i, p, v), UNCHANGED session,
         req[i].op = "OpenSession" /\ p # "link" =>
           pc[i] # "link" \/ Me(i) = LinkController[req[i].l],
         req[i].op = "OpenSession" /\ p \in {"session", "locks", "repair"} => Spent(v.s),
         req[i].op = "OpenSession" /\ p = "commit" => v.conn # None,
         req[i].op \in {"CloseSession", "Reap"} /\ p \in {"locks", "commit"} =>
           v.s = req[i].s /\ (req[i].op = "CloseSession" => Party(v.tl, Me(i)))
  PROVE  PurposeInv'
<1>1. Others(i) /\ pc'[i] = p /\ req'[i] = req[i] /\ seen'[i] = v /\ Purpose(i)
  BY GotoMoves, IInvParts, PurposeParts
<1>2. Aging
  BY DEF Aging, ExpiryInv, Spent, Active
<1>3. Purpose(i)'
  BY <1>1 DEF Purpose, Spent, Active, Me, Party
<1>4. QED
  BY <1>1, <1>2, <1>3, PurposeCompose

\* An operation that begins has no purpose to lose.
LEMMA BecomePurpose ==
  ASSUME IInv, PurposeInv, NEW i \in Invocation, NEW p, NEW r, Become(i, p, r), Aging,
         r.op = "OpenSession" => p = "link",
         r.op \in {"CloseSession", "Reap"} => p \notin {"locks", "commit"},
         \A s \in r.late : Spent(s)'
  PROVE  PurposeInv'
<1>1. Others(i) /\ pc'[i] = p /\ req'[i] = r
  BY BecomeMoves, IInvParts
<1>2. Purpose(i)'
  BY <1>1 DEF Purpose
<1>3. QED
  BY <1>1, <1>2, PurposeCompose

LEMMA ReturnPurpose ==
  ASSUME IInv, PurposeInv, NEW i \in Invocation, Return(i), Aging
  PROVE  PurposeInv'
  BY BecomePurpose DEF Return, NoRequest

LEMMA StartOverPurpose ==
  ASSUME IInv, PurposeInv, NEW i \in Invocation, StartOver(i), Aging, req[i].op # "none"
  PROVE  PurposeInv'
<1>1. CASE ~(tries[i] + 1 < MaxAttempts)
  BY <1>1, ReturnPurpose DEF StartOver
<1>2. CASE tries[i] + 1 < MaxAttempts
  <2>1. Others(i) /\ pc'[i] = FirstStep(req[i].op) /\ req'[i] = req[i]
    BY <1>2, IInvParts DEF StartOver, LocalType, Others
  <2>2. req[i].late \subseteq SessionId /\ Purpose(i)
    BY IInvParts, PurposeParts DEF LocalType, Request
  <2>3. \A s \in req'[i].late : Spent(s)'
    BY <2>1, <2>2 DEF Purpose, Aging
  <2>4. Purpose(i)'
    BY <2>1, <2>3 DEF Purpose, FirstStep
  <2>5. QED
    BY <2>1, <2>4, PurposeCompose
<1>3. QED
  BY <1>1, <1>2

LEMMA RepairedPurpose ==
  ASSUME IInv, PurposeInv, NEW i \in Invocation, Repaired(i), Aging,
         req[i].op = "OpenSession", pc[i] # "link"
  PROVE  PurposeInv'
<1> DEFINE rest == seen[i].stale \ {seen[i].s}
           v == [Blank EXCEPT !.stale = rest]
<1>1. CASE rest = {}
  BY <1>1, StartOverPurpose DEF Repaired
<1>2. CASE rest # {}
  <2>1. Others(i) /\ pc'[i] = "stale" /\ req'[i] = req[i] /\ Purpose(i)
    BY <1>2, GotoMoves, IInvParts, PurposeParts DEF Repaired
  <2>2. req[i].late \subseteq SessionId
    BY IInvParts DEF LocalType, Request
  <2>3. \A s \in req'[i].late : Spent(s)'
    BY <2>1, <2>2 DEF Purpose, Aging
  <2>4. Purpose(i)'
    BY <2>1, <2>3 DEF Purpose, Me
  <2>5. QED
    BY <2>1, <2>4, PurposeCompose
<1>3. QED
  BY <1>1, <1>2

-----------------------------------------------------------------------------
(***************************************************************************)
(* PurposeInv is preserved by every action.                                *)
(***************************************************************************)
\* Reads of the operations PurposeInv says nothing about.
LEMMA OtherReads ==
  ASSUME IInv, PurposeInv, NEW i \in Invocation, NEW p, NEW v, Goto(i, p, v), UNCHANGED store,
         req[i].op \in {"Connect", "Disconnect", "RevokeLink", "RevokeEndpoint"}
  PROVE  PurposeInv'
  BY GotoPurpose DEF store

LEMMA Returns ==
  ASSUME IInv, PurposeInv, NEW i \in Invocation, Return(i), UNCHANGED store
  PROVE  PurposeInv'
<1>1. Aging
  BY DEF Aging, ExpiryInv, Spent, Active, store
<1>2. QED
  BY <1>1, ReturnPurpose

LEMMA ConnectReadsPurpose ==
  ASSUME IInv, PurposeInv, NEW i \in Invocation,
         ConnectReadsEndpoint(i) \/ ConnectReadsConnection(i) \/ ConnectReadsSession(i)
  PROVE  PurposeInv'
<1>1. req[i].op = "Connect" /\ UNCHANGED store
  BY DEF ConnectReadsEndpoint, ConnectReadsConnection, ConnectReadsSession
<1>2. Return(i) \/ \E p, v : Goto(i, p, v)
  BY DEF ConnectReadsEndpoint, ConnectReadsConnection, ConnectReadsSession, ConnectGoesOn, Release
<1>3. QED
  BY <1>1, <1>2, Returns, OtherReads

LEMMA DisconnectReadsPurpose ==
  ASSUME IInv, PurposeInv, NEW i \in Invocation,
         DisconnectReadsConnection(i) \/ DisconnectReadsEndpoint(i) \/ DisconnectReadsSession(i)
  PROVE  PurposeInv'
<1>1. req[i].op = "Disconnect" /\ UNCHANGED store
  BY DEF DisconnectReadsConnection, DisconnectReadsEndpoint, DisconnectReadsSession
<1>2. Return(i) \/ \E p, v : Goto(i, p, v)
  BY DEF DisconnectReadsConnection, DisconnectReadsEndpoint, DisconnectReadsSession, Release
<1>3. QED
  BY <1>1, <1>2, Returns, OtherReads

LEMMA RevokeReadsPurpose ==
  ASSUME IInv, PurposeInv, NEW i \in Invocation,
         RevokeLinkReadsLink(i) \/ RevokeLinkReadsSession(i) \/ RevokeEndpointReadsSession(i)
  PROVE  PurposeInv'
<1>1. req[i].op \in {"RevokeLink", "RevokeEndpoint"} /\ UNCHANGED store
  BY DEF RevokeLinkReadsLink, RevokeLinkReadsSession, RevokeEndpointReadsSession
<1>2. Return(i) \/ \E p, v : Goto(i, p, v)
  BY DEF RevokeLinkReadsLink, RevokeLinkReadsSession, RevokeEndpointReadsSession, Release
<1>3. QED
  BY <1>1, <1>2, Returns, OtherReads

LEMMA AuthorizePurpose ==
  ASSUME IInv, PurposeInv, NEW i \in Invocation, Authorize(i)
  PROVE  PurposeInv'
<1>1. req[i].op \in {"CloseSession", "RevokeLink", "RevokeEndpoint"} /\ UNCHANGED store
  BY DEF Authorize
<1>2. \/ Return(i)
      \/ req[i].op = "CloseSession" /\ Goto(i, "session", seen[i])
      \/ req[i].op # "CloseSession" /\ \E p, v : Goto(i, p, v)
  BY DEF Authorize
<1>3. CASE req[i].op = "CloseSession" /\ Goto(i, "session", seen[i])
  BY <1>1, <1>3, GotoPurpose DEF store
<1>4. QED
  BY <1>1, <1>2, <1>3, Returns, OtherReads

LEMMA FrameReadsSessionPurpose ==
  ASSUME IInv, PurposeInv, NEW i \in Invocation, FrameReadsSession(i)
  PROVE  PurposeInv'
<1>1. req[i].op = "Reap" /\ UNCHANGED store
  BY IInvParts DEF FrameReadsSession, LocalInv, RequestInv, StepsOf, LocalType, Request, Ops
<1>2. CASE Goto(i, "session", seen[i])
  BY <1>1, <1>2, GotoPurpose DEF store
<1>3. QED
  BY <1>1, <1>2, Returns DEF FrameReadsSession

LEMMA CloseReadsSessionPurpose ==
  ASSUME IInv, PurposeInv, NEW i \in Invocation, CloseReadsSession(i)
  PROVE  PurposeInv'
<1> DEFINE s == req[i].s
           l == session[s].linkId
           v == [seen[i] EXCEPT !.s = s, !.ss = Status(s), !.tl = l, !.todo = Roles \ {}, !.held = {}]
<1>1. /\ req[i].op \in {"CloseSession", "Reap"} /\ UNCHANGED store
      /\ seen[i] \in Snapshot
  BY IInvParts DEF CloseReadsSession, LocalType
<1>2. CASE Return(i)
  BY <1>1, <1>2, Returns
<1>3. CASE Goto(i, "locks", v) /\ (req[i].op = "CloseSession" => Party(l, Me(i)))
  <2>1. v.s = s /\ v.tl = l
    BY <1>1 DEF Snapshot
  <2> HIDE DEF v
  <2>2. QED
    BY <1>1, <1>3, <2>1, GotoPurpose DEF store
<1>4. QED
  BY <1>2, <1>3 DEF CloseReadsSession, Release

LEMMA ReadLockPurpose ==
  ASSUME IInv, PurposeInv, NEW i \in Invocation, ReadLock(i)
  PROVE  PurposeInv'
<1> DEFINE u == seen[i]
           role == NextRole(u.todo)
           rest == u.todo \ {role}
           p == IF rest = {} THEN IF req[i].op = "OpenSession" THEN "repair" ELSE "commit" ELSE "locks"
           v == [u EXCEPT !.todo = rest,
                          !.held = IF Lock(role, u.tl) = u.s THEN @ \cup {role} ELSE @]
<1>1. pc[i] = "locks" /\ UNCHANGED store /\ u \in Snapshot /\ Purpose(i)
  BY IInvParts, PurposeParts DEF ReadLock, LocalType
<1>2. v.s = u.s /\ v.tl = u.tl
  BY <1>1 DEF Snapshot
<1>3. Goto(i, p, v)
  BY DEF ReadLock
<1>4. /\ req[i].op = "OpenSession" => Spent(v.s) /\ p # "commit"
      /\ req[i].op \in {"CloseSession", "Reap"} =>
           v.s = req[i].s /\ (req[i].op = "CloseSession" => Party(v.tl, Me(i)))
  BY <1>1, <1>2 DEF Purpose
<1> HIDE DEF p, v
<1>5. QED
  BY <1>1, <1>3, <1>4, GotoPurpose DEF store

LEMMA OpenReadsPurpose ==
  ASSUME IInv, PurposeInv, NEW i \in Invocation,
         OpenReadsLink(i) \/ OpenReadsController(i) \/ OpenReadsCompanion(i)
  PROVE  PurposeInv'
<1>1. UNCHANGED store /\ pc[i] \in {"link", "controller", "companion"}
  BY DEF OpenReadsLink, OpenReadsController, OpenReadsCompanion
<1>2. req[i].op = "OpenSession"
  BY IInvParts
  DEF OpenReadsLink, OpenReadsController, OpenReadsCompanion, LocalInv, RequestInv, StepsOf,
      LocalType, Request, Ops
<1>3. \/ Return(i)
      \/ /\ \E v : \E p \in {"controller", "companion", "stale"} : Goto(i, p, v)
         /\ pc[i] = "link" => Me(i) = LinkController[req[i].l]
      \/ /\ pc[i] = "companion"
         /\ \E c : c # None /\ Goto(i, "commit", [seen[i] EXCEPT !.conn = c])
  BY DEF OpenReadsLink, OpenReadsController, OpenReadsCompanion
<1>4. ASSUME NEW v, NEW p \in {"controller", "companion", "stale"}, Goto(i, p, v),
             pc[i] = "link" => Me(i) = LinkController[req[i].l]
      PROVE  PurposeInv'
  BY <1>1, <1>2, <1>4, GotoPurpose DEF store
<1>5. ASSUME NEW c, pc[i] = "companion", c # None, Goto(i, "commit", [seen[i] EXCEPT !.conn = c])
      PROVE  PurposeInv'
  <2> DEFINE v == [seen[i] EXCEPT !.conn = c]
  <2>1. v.conn = c
    BY IInvParts DEF LocalType, Snapshot
  <2>2. Goto(i, "commit", v)
    BY <1>5
  <2> HIDE DEF v
  <2>3. QED
    BY <1>1, <1>2, <1>5, <2>1, <2>2, GotoPurpose DEF store
<1>6. QED
  BY <1>1, <1>3, <1>4, <1>5, Returns

LEMMA RepairReadsSessionPurpose ==
  ASSUME IInv, PurposeInv, NEW i \in Invocation, NEW s \in SessionId, RepairReadsSession(i, s)
  PROVE  PurposeInv'
<1> DEFINE v == [seen[i] EXCEPT !.s = s]
           w == [seen[i] EXCEPT !.s = s, !.ss = "none", !.tl = req[i].l, !.todo = Roles \ {}, !.held = {}]
<1>1. /\ UNCHANGED store /\ pc[i] = "stale" /\ s \in seen[i].stale
      /\ seen[i] \in Snapshot /\ Purpose(i) /\ LocalInv(i)
  BY IInvParts, PurposeParts DEF RepairReadsSession, LocalType
<1>2. req[i].op = "OpenSession"
  BY <1>1, IInvParts DEF LocalInv, RequestInv, StepsOf, LocalType, Request, Ops
<1>3. v.s = s /\ w.s = s
  BY <1>1 DEF Snapshot
<1>4. session[s].status # "unused"
  BY <1>1 DEF LocalInv, SeenInv
<1>5. CASE Status(s) = "ACTIVE" /\ s \notin req[i].late
  BY <1>1, <1>5, Returns DEF RepairReadsSession
<1>6. CASE ~(Status(s) = "ACTIVE" /\ s \notin req[i].late)
  <2>1. Spent(s)
    BY <1>1, <1>4, <1>6 DEF Purpose, Spent, Active, Status, Found
  <2>2. Goto(i, "session", v) \/ Goto(i, "locks", w)
    BY <1>6 DEF RepairReadsSession, Release
  <2> HIDE DEF v, w
  <2>3. QED
    BY <1>1, <1>2, <1>3, <2>1, <2>2, GotoPurpose DEF store
<1>7. QED
  BY <1>5, <1>6

LEMMA RepairRereadsSessionPurpose ==
  ASSUME IInv, PurposeInv, NEW i \in Invocation, RepairRereadsSession(i)
  PROVE  PurposeInv'
<1> DEFINE s == seen[i].s
           w == [seen[i] EXCEPT !.s = s, !.ss = Status(s), !.tl = session[s].linkId,
                                !.todo = Roles \ {}, !.held = {}]
<1>1. /\ UNCHANGED store /\ pc[i] = "session" /\ req[i].op = "OpenSession"
      /\ seen[i] \in Snapshot /\ Purpose(i)
  BY IInvParts, PurposeParts DEF RepairRereadsSession, LocalType
<1>2. w.s = s /\ Spent(s)
  BY <1>1 DEF Snapshot, Purpose
<1>3. Aging
  BY <1>1 DEF Aging, ExpiryInv, Spent, Active, store
<1>4. Goto(i, "locks", w) \/ Repaired(i)
  BY DEF RepairRereadsSession, Release
<1> HIDE DEF w
<1>5. QED
  BY <1>1, <1>2, <1>3, <1>4, GotoPurpose, RepairedPurpose DEF store

LEMMA RepairConflictPurpose ==
  ASSUME IInv, PurposeInv, NEW i \in Invocation, RepairConflict(i)
  PROVE  PurposeInv'
<1> DEFINE v == seen[i]
           w == [Blank EXCEPT !.s = v.s, !.stale = v.stale, !.again = v.again + 1]
<1>1. /\ UNCHANGED store /\ pc[i] = "repair" /\ req[i].op = "OpenSession" /\ Purpose(i)
  BY OnlyOpen, IInvParts, PurposeParts DEF RepairConflict
<1>2. w.s = v.s /\ Spent(v.s)
  BY <1>1 DEF Blank, Purpose
<1>3. Aging
  BY <1>1 DEF Aging, ExpiryInv, Spent, Active, store
<1>4. Repaired(i) \/ Return(i) \/ Goto(i, "session", w)
  BY DEF RepairConflict
<1> HIDE DEF w
<1>5. QED
  BY <1>1, <1>2, <1>3, <1>4, GotoPurpose, RepairedPurpose, Returns DEF store

\* A transition only closes: every other session stays as it is.
LEMMA EndedSessions ==
  ASSUME StoreType, NEW i \in Invocation, NEW s \in SessionId
  PROVE  /\ Ended(i)[s] # session[s] => s = seen[i].s /\ seen[i].ss = "ACTIVE"
         /\ Ended(i)[s] = session[s] \/ (Ended(i)[s].status = "CLOSED" /\ ~Ended(i)[s].expired)
  BY DEF Ended, StoreType, SessionItem

LEMMA EndedAges ==
  ASSUME StoreType, NEW i \in Invocation, session' = Ended(i) \/ session' = session
  PROVE  Aging
  BY EndedSessions DEF Aging, ExpiryInv, Spent, Active

LEMMA CommitPurpose ==
  ASSUME IInv, PurposeInv, NEW i \in Invocation, Commit(i)
  PROVE  PurposeInv'
<1>1. StoreType
  BY IInvParts
<1>2. CASE CommitConnect(i) \/ CommitClose(i) \/ CommitRevokeLink(i) \/ CommitRevokeEndpoint(i)
  BY <1>1, <1>2, EndedAges, ReturnPurpose
  DEF CommitConnect, CommitClose, CommitRevokeLink, CommitRevokeEndpoint
<1>3. CASE CommitDisconnect(i)
  BY <1>1, <1>3, EndedAges, ReturnPurpose DEF CommitDisconnect
<1>4. CASE CommitRepair(i)
  <2>1. req[i].op = "OpenSession" /\ pc[i] = "repair"
    BY <1>4, OnlyOpen DEF CommitRepair
  <2>2. QED
    BY <1>1, <1>4, <2>1, EndedAges, RepairedPurpose DEF CommitRepair
<1>5. ASSUME NEW s \in SessionId, CommitOpen(i, s) PROVE PurposeInv'
  <2>1. Aging
    BY <1>1, <1>5 DEF CommitOpen, StoreType, SessionItem, Aging, ExpiryInv, Spent, Active
  <2>2. CASE Become(i, "session", [NoRequest EXCEPT !.op = "Reap", !.s = s])
    BY <2>1, <2>2, BecomePurpose DEF NoRequest
  <2>3. QED
    BY <1>5, <2>1, <2>2, ReturnPurpose DEF CommitOpen
<1>6. QED
  BY <1>2, <1>3, <1>4, <1>5 DEF Commit

LEMMA BeginPurpose ==
  ASSUME IInv, PurposeInv, NEW i \in Invocation, Begin(i) \/ \E s \in SessionId : BeginFrame(i, s)
  PROVE  PurposeInv'
<1>1. UNCHANGED store
  BY DEF Begin, BeginFrame
<1>2. Aging
  BY <1>1 DEF Aging, ExpiryInv, Spent, Active, store
<1>3. \A s \in Late : Spent(s)'
  BY <1>1, PurposeParts DEF Late, ExpiryInv, Spent, Active, store
<1>4. ASSUME NEW c \in ConnectionId, NEW r \in Callback(c) \cup Message(c), Become(i, FirstStep(r.op), r)
      PROVE  PurposeInv'
  <2>1. r.late = {} \/ r.late = Late
    BY <1>4 DEF Callback, Message, NoRequest
  <2>2. r.op \in {"OpenSession", "CloseSession"} \/ r.op \notin {"OpenSession", "CloseSession", "Reap"}
    BY <1>4 DEF Callback, Message, NoRequest
  <2>3. QED
    BY <1>2, <1>3, <1>4, <2>1, <2>2, BecomePurpose DEF FirstStep
<1>5. CASE Begin(i)
  BY <1>4, <1>5 DEF Begin
<1>6. ASSUME NEW s \in SessionId, BeginFrame(i, s) PROVE PurposeInv'
  <2> DEFINE r == [NoRequest EXCEPT !.op = "Reap", !.s = s, !.late = Late \cap {s}]
  <2>1. r.op = "Reap" /\ r.late \subseteq Late
    BY DEF NoRequest
  <2>2. Become(i, "frame", r)
    BY <1>6 DEF BeginFrame
  <2> HIDE DEF r
  <2>3. QED
    BY <1>2, <1>3, <2>1, <2>2, BecomePurpose
<1>7. QED
  BY <1>5, <1>6

LEMMA ConflictPurpose ==
  ASSUME IInv, PurposeInv, NEW i \in Invocation, Conflict(i)
  PROVE  PurposeInv'
<1>1. UNCHANGED store /\ StartOver(i) /\ pc[i] = "commit"
  BY DEF Conflict
<1>2. req[i].op # "none"
  BY <1>1, IInvParts DEF LocalInv, RequestInv, StepsOf
<1>3. Aging
  BY <1>1 DEF Aging, ExpiryInv, Spent, Active, store
<1>4. QED
  BY <1>1, <1>2, <1>3, StartOverPurpose

\* A step of no invocation, or none at all.
LEMMA WorldPurpose ==
  ASSUME IInv, PurposeInv, UNCHANGED <<pc, req, seen>>, Aging
  PROVE  PurposeInv'
<1>1. ASSUME NEW j \in Invocation PROVE Purpose(j)'
  BY PurposeFrame, IInvParts, PurposeParts
<1>2. QED
  BY <1>1, PurposeParts DEF PurposeInv, Purpose, Aging

LEMMA NextPurpose == IInv /\ PurposeInv /\ [Next]_vars => PurposeInv'
<1> SUFFICES ASSUME IInv, PurposeInv, [Next]_vars PROVE PurposeInv'
  OBVIOUS
<1>1. ASSUME NEW i \in Invocation, Begin(i) \/ \E s \in SessionId : BeginFrame(i, s) PROVE PurposeInv'
  BY <1>1, BeginPurpose
<1>2. ASSUME NEW i \in Invocation, Read(i) PROVE PurposeInv'
  BY <1>2, ConnectReadsPurpose, DisconnectReadsPurpose, RevokeReadsPurpose, AuthorizePurpose,
     FrameReadsSessionPurpose, CloseReadsSessionPurpose, ReadLockPurpose, OpenReadsPurpose,
     RepairReadsSessionPurpose, RepairRereadsSessionPurpose
  DEF Read
<1>3. ASSUME NEW i \in Invocation, Commit(i) PROVE PurposeInv'
  BY <1>3, CommitPurpose
<1>4. ASSUME NEW i \in Invocation, RepairConflict(i) \/ Conflict(i) \/ Crash(i) PROVE PurposeInv'
  BY <1>4, RepairConflictPurpose, ConflictPurpose, Returns DEF Crash
<1>5. CASE UNCHANGED <<session, pc, req, seen>>
  BY <1>5, WorldPurpose DEF Aging, ExpiryInv, Spent, Active
<1>6. ASSUME NEW s \in SessionId, Expire(s) \/ SweepSession(s) PROVE PurposeInv'
  <2>1. Aging
    BY <1>6, IInvParts
    DEF Expire, SweepSession, NoSession, StoreType, SessionItem, Aging, ExpiryInv, Spent, Active
  <2>2. QED
    BY <1>6, <2>1, WorldPurpose DEF Expire, SweepSession
<1>7. QED
  BY <1>1, <1>2, <1>3, <1>4, <1>5, <1>6 DEF Next, vars, RotateEndpoint, SweepConnection

LEMMA Purposeful == Spec => [](IInv /\ PurposeInv)
<1>1. Init => IInv /\ PurposeInv
  <2>1. Init => PurposeInv
    BY DEF Init, PurposeInv, ExpiryInv, NoRequest, NoSession
  <2>2. QED
    BY <2>1, InitIInv
<1>2. IInv /\ PurposeInv /\ [Next]_vars => (IInv /\ PurposeInv)'
  BY NextIInv, NextPurpose
<1>3. QED
  BY <1>1, <1>2, PTL DEF Spec

-----------------------------------------------------------------------------
(***************************************************************************)
(* Only a commit, a rotation, the clock and the sweeps change an item.     *)
(***************************************************************************)
LEMMA Changes ==
  ASSUME [Next]_vars
  PROVE  \/ UNCHANGED store
         \/ \E i \in Invocation : Commit(i)
         \/ /\ UNCHANGED <<pc, req, seen, tries>>
            /\ \/ \E c \in ConnectionId : SweepConnection(c) \/ \E k \in Credential : RotateEndpoint(c, k)
               \/ \E s \in SessionId : Expire(s) \/ SweepSession(s)
<1>1. ASSUME NEW i \in Invocation, Begin(i) \/ (\E s \in SessionId : BeginFrame(i, s))
      PROVE  UNCHANGED store
  BY <1>1 DEF Begin, BeginFrame
<1>2. ASSUME NEW i \in Invocation, Read(i) PROVE UNCHANGED store
  BY <1>2
  DEF Read, ReadLock, ConnectReadsEndpoint, ConnectReadsConnection, ConnectReadsSession,
      DisconnectReadsConnection, DisconnectReadsEndpoint, DisconnectReadsSession,
      Authorize, FrameReadsSession, CloseReadsSession, RevokeLinkReadsLink, RevokeLinkReadsSession,
      RevokeEndpointReadsSession, OpenReadsLink, OpenReadsController, OpenReadsCompanion,
      RepairReadsSession, RepairRereadsSession
<1>3. ASSUME NEW i \in Invocation, RepairConflict(i) \/ Conflict(i) \/ Crash(i) PROVE UNCHANGED store
  BY <1>3 DEF RepairConflict, Conflict, Crash
<1>4. ASSUME NEW c \in ConnectionId, SweepConnection(c) \/ \E k \in Credential : RotateEndpoint(c, k)
      PROVE  UNCHANGED <<pc, req, seen, tries>>
  BY <1>4 DEF SweepConnection, RotateEndpoint
<1>5. ASSUME NEW s \in SessionId, Expire(s) \/ SweepSession(s) PROVE UNCHANGED <<pc, req, seen, tries>>
  BY <1>5 DEF Expire, SweepSession
<1>6. CASE UNCHANGED vars
  BY <1>6 DEF vars, store
<1>7. QED
  BY <1>1, <1>2, <1>3, <1>4, <1>5, <1>6 DEF Next

LEMMA CommitMoves ==
  ASSUME IInv, NEW i \in Invocation, Commit(i)
  PROVE  /\ Others(i)
         /\ \/ pc[i] = "commit" /\ pc'[i] # "commit"
            \/ pc[i] = "repair" /\ req[i].op = "OpenSession"
<1>1. LocalType
  BY IInvParts
<1>2. CASE \/ CommitConnect(i) \/ CommitDisconnect(i) \/ CommitClose(i)
           \/ CommitRevokeLink(i) \/ CommitRevokeEndpoint(i)
  BY <1>1, <1>2, BecomeMoves
  DEF CommitConnect, CommitDisconnect, CommitClose, CommitRevokeLink, CommitRevokeEndpoint, Return
<1>3. ASSUME NEW s \in SessionId, CommitOpen(i, s)
      PROVE  Others(i) /\ pc[i] = "commit" /\ pc'[i] # "commit"
  <2>1. \E r : \E p \in {"idle", "session"} : Become(i, p, r)
    BY <1>3 DEF CommitOpen, Return
  <2>2. QED
    BY <1>1, <1>3, <2>1, BecomeMoves DEF CommitOpen
<1>4. CASE CommitRepair(i)
  <2>1. Repaired(i) /\ pc[i] = "repair" /\ req[i].op = "OpenSession"
    BY <1>4, OnlyOpen DEF CommitRepair
  <2>2. CASE StartOver(i)
    <3>1. CASE Return(i)
      BY <1>1, <2>1, <3>1, BecomeMoves DEF Return
    <3>2. QED
      BY <1>1, <2>1, <2>2, <3>1 DEF StartOver, LocalType, Others
  <2>3. CASE \E v : Goto(i, "stale", v)
    BY <1>1, <2>1, <2>3, GotoMoves
  <2>4. QED
    BY <2>1, <2>2, <2>3 DEF Repaired
<1>5. QED
  BY <1>2, <1>3, <1>4 DEF Commit

-----------------------------------------------------------------------------
\* An open, a close or a revocation takes effect only while its caller's
\* connection is its endpoint's current one (the endpoint conditions of
\* OpenSession, RevokeLink, RevokeEndpoint and the fences of CloseSession).
THEOREM Fenced == Spec => FencedLifecycle
<1> DEFINE F(i) == /\ req[i].op \in {"OpenSession", "CloseSession", "RevokeLink", "RevokeEndpoint"}
                   /\ pc[i] = "commit" /\ pc'[i] # pc[i]
                   /\ store' # store
                   => Current(Me(i), req[i].c)
<1>1. ASSUME IInv, PurposeInv, [Next]_vars, NEW i \in Invocation,
             req[i].op \in {"OpenSession", "CloseSession", "RevokeLink", "RevokeEndpoint"},
             pc[i] = "commit", pc'[i] # pc[i], store' # store
      PROVE  Current(Me(i), req[i].c)
  <2>1. \E j \in Invocation : Commit(j)
    BY <1>1, Changes
  <2>2. Commit(i)
    BY <1>1, <2>1, CommitMoves DEF Others
  <2>3. CASE CommitClose(i) \/ CommitRevokeLink(i) \/ CommitRevokeEndpoint(i)
    BY <1>1, <2>3
    DEF CommitClose, CommitRevokeLink, CommitRevokeEndpoint, CloseHolds, RevokeLinkHolds, RevokeEndpointHolds
  <2>4. ASSUME NEW s \in SessionId, CommitOpen(i, s) PROVE Current(Me(i), req[i].c)
    <3>1. Me(i) = LinkController[req[i].l]
      BY <1>1, <2>4, PurposeParts DEF CommitOpen, Purpose
    <3>2. QED
      BY <2>4, <3>1 DEF CommitOpen, OpenHolds, Current
  <2>5. QED
    BY <1>1, <2>2, <2>3, <2>4 DEF Commit, CommitConnect, CommitDisconnect, CommitRepair
<1>2. IInv /\ PurposeInv /\ [Next]_vars => [\A i \in Invocation : F(i)]_vars
  BY <1>1
<1>3. QED
  BY <1>2, Purposeful, PTL DEF Spec, FencedLifecycle

\* A transition moves no connection.
LEMMA UnlockedConnections ==
  ASSUME StoreType, NEW i \in Invocation, NEW e \in Endpoint
  PROVE  /\ UnlockedEndpoints(i)[e].connectionId = endpoint[e].connectionId
         /\ UnlockedEndpoints(i) \in [Endpoint -> EndpointItem]
  BY DEF UnlockedEndpoints, StoreType, EndpointItem

\* Which connections a step changes, and how.
LEMMA NewConnection ==
  ASSUME IInv, [Next]_vars, NEW e \in Endpoint,
         endpoint'[e].connectionId \notin {endpoint[e].connectionId, None}
  PROVE  \E i \in Invocation :
           CommitConnect(i) /\ Me(i) = e /\ req[i].c = endpoint'[e].connectionId
<1>1. StoreType
  BY IInvParts
<1>2. ASSUME NEW i \in Invocation, CommitConnect(i)
      PROVE  Me(i) = e /\ req[i].c = endpoint'[e].connectionId
  <2> DEFINE u == UnlockedEndpoints(i)
  <2>1. u \in [Endpoint -> EndpointItem] /\ u[e].connectionId = endpoint[e].connectionId
    BY <1>1, UnlockedConnections
  <2>2. endpoint' = [u EXCEPT ![Me(i)].connectionId = req[i].c, ![Me(i)].activeSessionId = None]
    BY <1>2 DEF CommitConnect
  <2> HIDE DEF u
  <2>3. QED
    BY <2>1, <2>2 DEF EndpointItem
<1>3. ASSUME NEW i \in Invocation, CommitDisconnect(i) \/ CommitRevokeEndpoint(i) PROVE FALSE
  <2> DEFINE u == UnlockedEndpoints(i)
  <2>1. u \in [Endpoint -> EndpointItem] /\ u[e].connectionId = endpoint[e].connectionId
    BY <1>1, UnlockedConnections
  <2>2. \/ endpoint' = [u EXCEPT ![Me(i)].connectionId = None, ![Me(i)].activeSessionId = None]
        \/ endpoint' = [u EXCEPT ![Me(i)] = [NoEndpoint EXCEPT !.revoked = TRUE]]
        \/ endpoint' = endpoint
    BY <1>3 DEF CommitDisconnect, CommitRevokeEndpoint
  <2> HIDE DEF u
  <2>3. QED
    BY <2>1, <2>2 DEF EndpointItem, NoEndpoint
<1>4. ASSUME NEW i \in Invocation, CommitClose(i) \/ CommitRevokeLink(i) \/ CommitRepair(i) PROVE FALSE
  BY <1>1, <1>4, UnlockedConnections DEF CommitClose, CommitRevokeLink, CommitRepair
<1>5. ASSUME NEW i \in Invocation, NEW s \in SessionId, CommitOpen(i, s) PROVE FALSE
  BY <1>1, <1>5 DEF CommitOpen, StoreType, EndpointItem
<1>6. CASE UNCHANGED store
  BY <1>6 DEF store
<1>7. ASSUME NEW c \in ConnectionId, SweepConnection(c) \/ \E k \in Credential : RotateEndpoint(c, k)
      PROVE  FALSE
  <2>1. CASE SweepConnection(c)
    BY <2>1 DEF SweepConnection
  <2>2. ASSUME NEW k \in Credential, RotateEndpoint(c, k) PROVE FALSE
    <3> DEFINE x == ConnectionEndpoint[c]
    <3>1. endpoint' = [endpoint EXCEPT ![x].credential = k]
      BY <2>2 DEF RotateEndpoint
    <3>2. endpoint[e] \in EndpointItem
      BY <1>1 DEF StoreType
    <3> HIDE DEF x
    <3>3. QED
      BY <1>1, <3>1, <3>2 DEF StoreType, EndpointItem
  <2>3. QED
    BY <1>7, <2>1, <2>2
<1>8. ASSUME NEW s \in SessionId, Expire(s) \/ SweepSession(s) PROVE FALSE
  BY <1>8 DEF Expire, SweepSession
<1>9. QED
  BY <1>2, <1>3, <1>4, <1>5, <1>6, <1>7, <1>8, Changes DEF Commit

\* A socket takes an endpoint over only with the credential the endpoint has at
\* that moment (the condition of Connect's transaction).
THEOREM CurrentCredential == Spec => ConnectsWithCurrentCredential
<1>1. ASSUME IInv, [Next]_vars, NEW e \in Endpoint,
             endpoint'[e].connectionId \notin {endpoint[e].connectionId, None}
      PROVE  /\ ~endpoint[e].revoked
             /\ \E i \in Invocation : /\ req[i].op = "Connect" /\ Me(i) = e
                                      /\ req[i].c = endpoint'[e].connectionId
                                      /\ req[i].cred = endpoint[e].credential
  <2>1. PICK i \in Invocation : CommitConnect(i) /\ Me(i) = e /\ req[i].c = endpoint'[e].connectionId
    BY <1>1, NewConnection
  <2>2. req[i].op = "Connect" /\ ~endpoint[e].revoked /\ req[i].cred = endpoint[e].credential
    BY <2>1 DEF CommitConnect, ConnectHolds
  <2>3. QED
    BY <2>1, <2>2
<1> DEFINE F(e) == endpoint'[e].connectionId \notin {endpoint[e].connectionId, None} =>
                     /\ ~endpoint[e].revoked
                     /\ \E i \in Invocation : /\ req[i].op = "Connect" /\ Me(i) = e
                                              /\ req[i].c = endpoint'[e].connectionId
                                              /\ req[i].cred = endpoint[e].credential
<1>2. IInv /\ [Next]_vars => [\A e \in Endpoint : F(e)]_vars
  BY <1>1
<1>3. QED
  BY <1>2, Inductive, PTL DEF Spec, ConnectsWithCurrentCredential

-----------------------------------------------------------------------------
(***************************************************************************)
(* Why a session ends.                                                     *)
(***************************************************************************)
\* The causes EndsForCause names.
Cause(s) ==
  \/ session[s].expired
  \/ link'[session[s].linkId].revoked
  \/ \E e \in {ControllerOf(s), CompanionOf(s)} :
       endpoint'[e].connectionId # endpoint[e].connectionId
  \/ \E i \in Invocation :
       /\ pc[i] = "commit" /\ pc'[i] = "idle"
       /\ \/ req[i].op = "Reap" /\ req[i].s = s
          \/ req[i].op = "Connect" /\ Party(session[s].linkId, Me(i))
          \/ /\ req[i].op = "CloseSession" /\ req[i].s = s
             /\ Party(session[s].linkId, Me(i)) /\ Current(Me(i), req[i].c)

\* What an invocation knows of the live session its transition closes.
LEMMA ClosingKnows ==
  ASSUME IInv, NEW i \in Invocation, NEW s \in SessionId, pc[i] \in {"commit", "repair"},
         Active(s), s = seen[i].s, seen[i].ss = "ACTIVE"
  PROVE  /\ seen[i].tl = session[s].linkId
         /\ req[i].op \in {"Connect", "Disconnect", "RevokeEndpoint"} => Party(session[s].linkId, Me(i))
         /\ req[i].op = "RevokeLink" => session[s].linkId = req[i].l
<1>1. SeenInv(i) /\ s # None
  BY IInvParts, RelayStoreAssumption DEF LocalInv
<1>2. TransitionInv(i)
  BY <1>1 DEF SeenInv
<1>3. QED
  BY <1>2 DEF TransitionInv, Active

\* A commit that returns.
LEMMA CommitReturns ==
  ASSUME IInv, NEW i \in Invocation, Return(i)
  PROVE  pc'[i] = "idle"
  BY BecomeMoves, IInvParts DEF Return

\* What a transition writes over the endpoints, other than locks.
LEMMA OwnConnectionGone ==
  ASSUME IInv, NEW i \in Invocation, Me(i) \in Endpoint,
         endpoint[Me(i)].connectionId = req[i].c, req[i].c # None,
         \/ endpoint' = [UnlockedEndpoints(i) EXCEPT ![Me(i)].connectionId = None,
                                                     ![Me(i)].activeSessionId = None]
         \/ endpoint' = [UnlockedEndpoints(i) EXCEPT ![Me(i)] = [NoEndpoint EXCEPT !.revoked = TRUE]]
  PROVE  endpoint'[Me(i)].connectionId # endpoint[Me(i)].connectionId
<1> DEFINE u == UnlockedEndpoints(i)
<1>1. u \in [Endpoint -> EndpointItem]
  BY IInvParts, UnlockedConnections
<1> HIDE DEF u
<1>2. endpoint' = [u EXCEPT ![Me(i)].connectionId = None, ![Me(i)].activeSessionId = None]
      => endpoint'[Me(i)].connectionId = None
  BY <1>1 DEF EndpointItem
<1>3. endpoint' = [u EXCEPT ![Me(i)] = [NoEndpoint EXCEPT !.revoked = TRUE]]
      => endpoint'[Me(i)].connectionId = None
  BY <1>1 DEF NoEndpoint
<1>4. QED
  BY <1>2, <1>3 DEF u

LEMMA CommitCause ==
  ASSUME IInv, PurposeInv, NEW i \in Invocation, Commit(i),
         NEW s \in SessionId, Active(s), ~Active(s)'
  PROVE  Cause(s)
<1>1. StoreType /\ LocalInv(i) /\ Purpose(i) /\ pc[i] \in {"commit", "repair"}
  BY IInvParts, PurposeParts, CommitMoves
<1>2. session' = Ended(i) => s = seen[i].s /\ seen[i].ss = "ACTIVE"
  BY <1>1, EndedSessions DEF Active
<1>3. session' # session
  BY DEF Active
<1>4. req[i].op \notin {"none", "Reap"} => Me(i) \in Endpoint /\ req[i].c # None
  BY <1>1, RelayStoreAssumption DEF LocalInv, RequestInv, Me
<1>5. CASE CommitConnect(i)
  <2>1. req[i].op = "Connect" /\ pc[i] = "commit" /\ session' = Ended(i) /\ Return(i)
    BY <1>5 DEF CommitConnect
  <2>2. Party(session[s].linkId, Me(i))
    BY <1>1, <1>2, <2>1, ClosingKnows
  <2>3. QED
    BY <2>1, <2>2, CommitReturns DEF Cause
<1>6. CASE CommitClose(i)
  <2>1. /\ req[i].op \in {"CloseSession", "Reap"} /\ pc[i] = "commit"
        /\ session' = Ended(i) /\ Return(i)
        /\ req[i].op = "CloseSession" => Current(Me(i), req[i].c)
    BY <1>6 DEF CommitClose, CloseHolds
  <2>2. /\ req[i].s = s
        /\ req[i].op = "CloseSession" => Party(session[s].linkId, Me(i))
    BY <1>1, <1>2, <2>1, ClosingKnows DEF Purpose
  <2>3. QED
    BY <2>1, <2>2, CommitReturns DEF Cause
<1>7. CASE CommitDisconnect(i)
  <2>1. /\ req[i].op = "Disconnect" /\ session' = Ended(i) /\ endpoint[Me(i)].connectionId = req[i].c
        /\ endpoint' = [UnlockedEndpoints(i) EXCEPT ![Me(i)].connectionId = None,
                                                    ![Me(i)].activeSessionId = None]
    BY <1>3, <1>7 DEF CommitDisconnect, DisconnectHolds
  <2>2. Party(session[s].linkId, Me(i))
    BY <1>1, <1>2, <2>1, ClosingKnows
  <2>3. QED
    BY <1>4, <2>1, <2>2, OwnConnectionGone DEF Cause, Party, ControllerOf, CompanionOf
<1>8. CASE CommitRevokeEndpoint(i)
  <2>1. /\ req[i].op = "RevokeEndpoint" /\ session' = Ended(i) /\ endpoint[Me(i)].connectionId = req[i].c
        /\ endpoint' = [UnlockedEndpoints(i) EXCEPT ![Me(i)] = [NoEndpoint EXCEPT !.revoked = TRUE]]
    BY <1>8 DEF CommitRevokeEndpoint, RevokeEndpointHolds, Current
  <2>2. Party(session[s].linkId, Me(i))
    BY <1>1, <1>2, <2>1, ClosingKnows
  <2>3. QED
    BY <1>4, <2>1, <2>2, OwnConnectionGone DEF Cause, Party, ControllerOf, CompanionOf
<1>9. CASE CommitRevokeLink(i)
  <2>1. /\ req[i].op = "RevokeLink" /\ session' = Ended(i) /\ req[i].l \in Link
        /\ link' = [link EXCEPT ![req[i].l] = [revoked |-> TRUE, activeSessionId |-> None]]
    BY <1>1, <1>9 DEF CommitRevokeLink, LocalInv, RequestInv
  <2>2. session[s].linkId = req[i].l
    BY <1>1, <1>2, <2>1, ClosingKnows
  <2>3. QED
    BY <1>1, <2>1, <2>2 DEF Cause, StoreType
<1>10. CASE CommitRepair(i)
  <2>1. req[i].op = "OpenSession" /\ pc[i] = "repair" /\ session' = Ended(i)
    BY <1>10, OnlyOpen DEF CommitRepair
  <2>2. Spent(s)
    BY <1>1, <1>2, <2>1 DEF Purpose
  <2>3. QED
    BY <2>2 DEF Cause, Spent
<1>11. ASSUME NEW x \in SessionId, CommitOpen(i, x) PROVE FALSE
  BY <1>1, <1>11 DEF CommitOpen, StoreType, Active
<1>12. QED
  BY <1>5, <1>6, <1>7, <1>8, <1>9, <1>10, <1>11 DEF Commit

\* A live session ends only for cause: it expired, its link is revoked, one of
\* its sockets is gone or replaced, it could not be announced, or one of its
\* parties closes it (every caller of transactSessionTransition).
THEOREM OnlyForCause == Spec => EndsForCause
<1>1. ASSUME IInv, PurposeInv, [Next]_vars, NEW s \in SessionId, Active(s), ~Active(s)'
      PROVE  Cause(s)
  <2>1. CASE UNCHANGED store
    BY <1>1, <2>1 DEF store, Active
  <2>2. ASSUME NEW i \in Invocation, Commit(i) PROVE Cause(s)
    BY <1>1, <2>2, CommitCause
  <2>3. ASSUME NEW c \in ConnectionId, SweepConnection(c) \/ \E k \in Credential : RotateEndpoint(c, k)
        PROVE  Cause(s)
    BY <1>1, <2>3 DEF SweepConnection, RotateEndpoint, Active
  <2>4. ASSUME NEW x \in SessionId, Expire(x) \/ SweepSession(x) PROVE Cause(s)
    <3>1. StoreType
      BY <1>1, IInvParts
    <3>2. QED
      BY <1>1, <2>4, <3>1 DEF Expire, SweepSession, Active, Cause, StoreType, SessionItem
  <2>5. QED
    BY <1>1, <2>1, <2>2, <2>3, <2>4, Changes
<1>2. IInv /\ PurposeInv /\ [Next]_vars => [\A s \in SessionId : Active(s) /\ ~Active(s)' => Cause(s)]_vars
  BY <1>1
<1>3. QED
  BY <1>2, Purposeful, PTL DEF Spec, EndsForCause, Cause

\* CloseSession returns with a session still active only to a stranger: what it
\* read of the session stays true enough until its transaction, whoever else
\* closes, repairs or deletes it meanwhile.
THEOREM Closes == Spec => ClosesWhatItMust
<1>1. ASSUME IInv, PurposeInv, NEW i \in Invocation, CloseReadsSession(i), pc'[i] = "idle",
             session'[req[i].s].status = "ACTIVE"
      PROVE  req[i].op = "CloseSession" /\ ~Party(session[req[i].s].linkId, Me(i))
  <2> DEFINE s == req[i].s
  <2>1. session' = session /\ req[i].op \in {"CloseSession", "Reap"} /\ pc[i] = "session"
    BY <1>1 DEF CloseReadsSession, store
  <2>2. Found(s)
    BY <1>1, <2>1 DEF Found
  <2>3. ~Release(i, s, Status(s), session[s].linkId, {})
    BY <1>1, IInvParts DEF Release, Goto, LocalType
  <2>4. QED
    BY <1>1, <2>1, <2>2, <2>3 DEF CloseReadsSession
<1>2. ASSUME IInv, PurposeInv, NEW i \in Invocation, CommitClose(i)
      PROVE  session'[req[i].s].status # "ACTIVE"
  <2>1. /\ req[i].op \in {"CloseSession", "Reap"} /\ pc[i] = "commit"
        /\ session' = Ended(i)
    BY <1>2 DEF CommitClose
  <2>2. StoreType /\ RequestInv(i) /\ SeenInv(i) /\ Purpose(i)
    BY <1>2, IInvParts, PurposeParts DEF LocalInv
  <2>3. seen[i].s = req[i].s /\ req[i].s \in SessionId /\ req[i].s # None
    BY <2>1, <2>2, RelayStoreAssumption DEF RequestInv, Purpose
  <2>4. TransitionInv(i)
    BY <2>1, <2>2, <2>3 DEF SeenInv
  <2>5. CASE seen[i].ss = "ACTIVE"
    BY <2>1, <2>2, <2>3, <2>5 DEF Ended, StoreType, SessionItem
  <2>6. CASE seen[i].ss # "ACTIVE"
    <3>1. seen[i].ss \in {"none", "CLOSED"}
      BY <1>2, <2>6, IInvParts DEF LocalType, Snapshot
    <3>2. session[req[i].s].status # "ACTIVE"
      BY <2>3, <2>4, <3>1 DEF TransitionInv
    <3>3. QED
      BY <2>1, <2>6, <3>2 DEF Ended
  <2>7. QED
    BY <2>5, <2>6
<1>3. IInv /\ PurposeInv /\ [Next]_vars =>
        [\A i \in Invocation :
           LET s == req[i].s IN
           /\ CloseReadsSession(i) \/ CommitClose(i)
           /\ pc'[i] = "idle" /\ session'[s].status = "ACTIVE"
           => req[i].op = "CloseSession" /\ ~Party(session[s].linkId, Me(i))]_vars
  BY <1>1, <1>2
<1>4. QED
  BY <1>3, Purposeful, PTL DEF Spec, ClosesWhatItMust

=============================================================================
