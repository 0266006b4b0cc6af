-------------------------- MODULE RelayStoreProofs --------------------------
(***************************************************************************)
(* Proofs about RelayStore, for any number of endpoints, links, sessions   *)
(* and concurrent invocations.                                             *)
(***************************************************************************)
EXTENDS RelayStore, TLAPS

StoreType ==
  /\ endpoint \in [Endpoint -> EndpointItem]
  /\ connection \subseteq ConnectionId
  /\ link \in [Link -> LinkItem]
  /\ session \in [SessionId -> SessionItem]
LocalType ==
  /\ pc \in [Invocation -> Steps]
  /\ req \in [Invocation -> Request]
  /\ seen \in [Invocation -> Snapshot]
  /\ tries \in [Invocation -> Nat]
StoreInv == SessionInv /\ ActiveHoldsLocks /\ ActiveIsAuthorized /\ LocksAreLive /\ RevokedHoldsNothing
LocalInv(i) == RequestInv(i) /\ SeenInv(i)

\* A step of invocation i leaves the other invocations alone.
Others(i) == \A j \in Invocation \ {i} : pc'[j] = pc[j] /\ req'[j] = req[j] /\ seen'[j] = seen[j]

\* How a session may change in one step: its status moves forward, and its link
\* and connections stay until it is deleted.
Advance ==
  \A s \in SessionId :
    LET a == session[s]
        b == session'[s]
    IN /\ a.status = "deleted" => b.status = "deleted"
       /\ a.status = "CLOSED" => b.status \in {"CLOSED", "deleted"}
       /\ a.status # "unused" => b.status # "unused"
       /\ a.status # "unused" /\ b.status # "deleted" =>
            /\ b.linkId = a.linkId /\ b.controllerConn = a.controllerConn
            /\ b.companionConn = a.companionConn

\* Snapshot v holds nothing of a transition yet.
Clean(v) == /\ v.todo = {} /\ v.ss = "none" /\ v.held = {}
            /\ \A s \in v.stale : session[s].status # "unused"

-----------------------------------------------------------------------------
LEMMA IInvParts == IInv <=> StoreType /\ LocalType /\ StoreInv /\ \A i \in Invocation : LocalInv(i)
  BY DEF IInv, TypeOK, StoreType, LocalType, StoreInv, LocalInv

\* An invocation's knowledge survives the steps of others.
LEMMA Frame ==
  ASSUME LocalType, StoreType, StoreType', NEW j \in Invocation, LocalInv(j), Advance,
         pc'[j] = pc[j], req'[j] = req[j], seen'[j] = seen[j]
  PROVE  LocalInv(j)'
<1>1. RequestInv(j)'
  BY DEF LocalInv, RequestInv
<1>2. Me(j)' = Me(j) /\ Omitted(j)' = Omitted(j)
  BY DEF Me, Omitted, MyRole
<1>3. seen[j].s \in SessionId \cup {None}
  BY DEF LocalType, Snapshot
<1>4. ASSUME seen[j].s # None, NamedInv(j, seen[j].s) PROVE NamedInv(j, seen[j].s)'
  BY <1>2, <1>3, <1>4 DEF NamedInv, Advance, Party
<1>5. ASSUME seen[j].s # None, TransitionInv(j) PROVE TransitionInv(j)'
  <2> DEFINE a == session[seen[j].s]
             b == session'[seen[j].s]
  <2>1. /\ a.status = "deleted" => b.status = "deleted"
        /\ a.status = "CLOSED" => b.status \in {"CLOSED", "deleted"}
        /\ a.status # "unused" => b.status # "unused"
        /\ a.status # "unused" /\ b.status # "deleted" => b.linkId = a.linkId
    BY <1>3, <1>5 DEF Advance
  <2>2. a.status \in {"unused", "ACTIVE", "CLOSED", "deleted"}
    BY <1>3, <1>5 DEF StoreType, SessionItem
  <2>3. QED
    BY <1>2, <1>5, <2>1, <2>2 DEF TransitionInv, Party
<1>6. ASSUME NEW s \in seen[j].stale, session[s].status # "unused"
      PROVE  session'[s].status # "unused"
  BY <1>6 DEF LocalType, Snapshot, Advance
<1>7. QED
  BY <1>1, <1>4, <1>5, <1>6 DEF LocalInv, SeenInv

LEMMA Compose ==
  ASSUME IInv, NEW i \in Invocation, StoreType', StoreInv', Advance,
         LocalType', LocalInv(i)', Others(i)
  PROVE  IInv'
<1>1. ASSUME NEW j \in Invocation, j # i PROVE LocalInv(j)'
  BY <1>1, Frame, IInvParts DEF Others
<1>2. \A j \in Invocation : LocalInv(j)'
  BY <1>1
<1>3. QED
  BY <1>2 DEF IInv, TypeOK, StoreType, LocalType, StoreInv, LocalInv

LEMMA ItemsStay ==
  ASSUME IInv, UNCHANGED <<endpoint, link, session>>, connection' \subseteq ConnectionId
  PROVE  StoreType' /\ StoreInv' /\ Advance
<1>1. StoreType'
  BY IInvParts DEF StoreType
<1>2. Advance
  BY DEF Advance
<1>3. SessionInv' /\ ActiveHoldsLocks' /\ ActiveIsAuthorized' /\ LocksAreLive' /\ RevokedHoldsNothing'
  BY DEF IInv, SessionInv, ActiveHoldsLocks, ActiveIsAuthorized, LocksAreLive,
         RevokedHoldsNothing, Found, Active, ControllerOf, CompanionOf, Current, Party
<1>4. QED
  BY <1>1, <1>2, <1>3 DEF StoreInv

\* A step that only reads.
LEMMA ReadOnly ==
  ASSUME IInv, UNCHANGED store
  PROVE  StoreType' /\ StoreInv' /\ Advance
  BY ItemsStay, IInvParts DEF store, StoreType

-----------------------------------------------------------------------------
(***************************************************************************)
(* How an invocation moves on.                                             *)
(***************************************************************************)
LEMMA GotoStep ==
  ASSUME LocalType, NEW i \in Invocation, NEW p \in Steps, NEW v \in Snapshot, Goto(i, p, v)
  PROVE  /\ LocalType' /\ Others(i)
         /\ pc'[i] = p /\ seen'[i] = v /\ req'[i] = req[i]
  BY DEF LocalType, Goto, Others

LEMMA BlankType == Blank \in Snapshot /\ NoRequest \in Request
  BY DEF Blank, Snapshot, NoRequest, Request, Ops

LEMMA BecomeStep ==
  ASSUME LocalType, NEW i \in Invocation, NEW p \in Steps, NEW r \in Request, Become(i, p, r)
  PROVE  /\ LocalType' /\ Others(i)
         /\ pc'[i] = p /\ seen'[i] = Blank /\ req'[i] = r
<1>1. Blank \in Snapshot
  BY BlankType
<1>2. QED
  BY <1>1 DEF LocalType, Become, Others

\* An invocation that has read nothing has nothing to keep true.
LEMMA FreshLocal ==
  ASSUME NEW i \in Invocation, RequestInv(i)', seen'[i] = Blank,
         \/ pc'[i] \in {"idle", "endpoint", "connection", "link", "frame"}
         \/ pc'[i] = "session" /\ req'[i].op \in {"CloseSession", "Reap"}
  PROVE  LocalInv(i)'
  BY DEF LocalInv, SeenInv, Blank

LEMMA ReturnStep ==
  ASSUME LocalType, NEW i \in Invocation, Return(i)
  PROVE  LocalType' /\ LocalInv(i)' /\ Others(i)
<1>1. /\ LocalType' /\ Others(i)
      /\ pc'[i] = "idle" /\ seen'[i] = Blank /\ req'[i] = NoRequest
  BY BecomeStep, BlankType DEF Return, Steps
<1>2. RequestInv(i)'
  BY <1>1 DEF RequestInv, NoRequest, StepsOf
<1>3. QED
  BY <1>1, <1>2, FreshLocal

LEMMA StartOverStep ==
  ASSUME LocalType, NEW i \in Invocation, RequestInv(i), req[i].op # "none", StartOver(i)
  PROVE  LocalType' /\ LocalInv(i)' /\ Others(i)
<1>1. CASE ~(tries[i] + 1 < MaxAttempts)
  BY <1>1, ReturnStep DEF StartOver
<1>2. CASE tries[i] + 1 < MaxAttempts
  <2>1. FirstStep(req[i].op) \in Steps /\ Blank \in Snapshot /\ tries[i] + 1 \in Nat
    BY BlankType DEF FirstStep, Steps, LocalType
  <2>2. LocalType' /\ Others(i)
    BY <1>2, <2>1 DEF StartOver, LocalType, Others
  <2>3. pc'[i] = FirstStep(req[i].op) /\ seen'[i] = Blank /\ req'[i] = req[i]
    BY <1>2, <2>1 DEF StartOver, LocalType
  <2>4. FirstStep(req[i].op) \in StepsOf(req[i].op)
    BY DEF RequestInv, FirstStep, StepsOf, LocalType, Request, Ops
  <2>5. RequestInv(i)'
    BY <2>3, <2>4 DEF RequestInv
  <2>6. QED
    BY <2>2, <2>3, <2>5, FreshLocal DEF FirstStep
<1>3. QED
  BY <1>1, <1>2

LEMMA RepairedStep ==
  ASSUME LocalType, NEW i \in Invocation, RequestInv(i), req[i].op = "OpenSession", Repaired(i),
         \A s \in seen[i].stale : session'[s].status # "unused"
  PROVE  LocalType' /\ LocalInv(i)' /\ Others(i)
<1> DEFINE rest == seen[i].stale \ {seen[i].s}
           v == [Blank EXCEPT !.stale = rest]
<1>1. CASE rest = {}
  BY <1>1, StartOverStep DEF Repaired
<1>2. CASE rest # {}
  <2>1. v \in Snapshot
    BY BlankType DEF Snapshot, LocalType
  <2>2. /\ LocalType' /\ Others(i)
        /\ pc'[i] = "stale" /\ seen'[i] = v /\ req'[i] = req[i]
    BY <1>2, <2>1, GotoStep DEF Repaired, Steps
  <2>3. RequestInv(i)'
    BY <2>2 DEF RequestInv, StepsOf
  <2>4. SeenInv(i)'
    BY <2>2 DEF SeenInv, Blank
  <2>5. QED
    BY <2>2, <2>3, <2>4 DEF LocalInv
<1>3. QED
  BY <1>1, <1>2

\* A lock transition starts with what a session read has just shown.
LEMMA ReleaseStep ==
  ASSUME IInv, NEW i \in Invocation, NEW s \in SessionId,
         NEW ss \in {"none", "ACTIVE", "CLOSED"}, NEW l \in Link, NEW omit,
         Roles \ omit # {}, Release(i, s, ss, l, omit), UNCHANGED store,
         "locks" \in StepsOf(req[i].op),
         ss = "none" => session[s].status = "deleted",
         ss # "none" => session[s].status = ss /\ session[s].linkId = l,
         req[i].op \in {"Connect", "Disconnect", "RevokeEndpoint"} =>
           Party(l, Me(i)) /\ omit = {MyRole(i, l)},
         req[i].op = "RevokeLink" => l = req[i].l /\ omit = {"link"},
         req[i].op \in {"CloseSession", "Reap", "OpenSession"} => omit = {}
  PROVE  LocalType' /\ LocalInv(i)' /\ Others(i)
<1> DEFINE v == [seen[i] EXCEPT !.s = s, !.ss = ss, !.tl = l, !.todo = Roles \ omit, !.held = {}]
<1>1. /\ LocalType /\ RequestInv(i) /\ session' = session
      /\ \A x \in seen[i].stale : session[x].status # "unused"
  BY IInvParts DEF LocalInv, SeenInv, store
<1>2. v \in Snapshot
  BY <1>1 DEF Snapshot, LocalType
<1>3. /\ LocalType' /\ Others(i)
      /\ pc'[i] = "locks" /\ seen'[i] = v /\ req'[i] = req[i]
  BY <1>1, <1>2, GotoStep DEF Release, Steps
<1>4. /\ v.s = s /\ v.ss = ss /\ v.tl = l /\ v.todo = Roles \ omit /\ v.held = {}
      /\ v.stale = seen[i].stale
  BY <1>1 DEF LocalType, Snapshot
<1>5. RequestInv(i)'
  BY <1>1, <1>3 DEF RequestInv
<1>6. s # None
  BY RelayStoreAssumption
<1>7. omit = Omitted(i)'
  BY <1>1, <1>3, <1>4 DEF Omitted, MyRole, Me, LocalType, Request, Ops, StepsOf
<1>8. TransitionInv(i)'
  BY <1>3, <1>4, <1>7 DEF TransitionInv, store, Party, Me
<1>9. SeenInv(i)'
  BY <1>1, <1>3, <1>4, <1>6, <1>8 DEF SeenInv
<1>10. QED
  BY <1>3, <1>5, <1>9 DEF LocalInv

-----------------------------------------------------------------------------
(***************************************************************************)
(* Reads: the store stays, and what the invocation has now read is true.   *)
(***************************************************************************)
LEMMA ReadDone ==
  ASSUME IInv, UNCHANGED store, NEW i \in Invocation, LocalType', LocalInv(i)', Others(i)
  PROVE  IInv'
  BY ReadOnly, Compose

LEMMA ReadReturns ==
  ASSUME IInv, UNCHANGED store, NEW i \in Invocation, Return(i)
  PROVE  IInv'
  BY IInvParts, ReturnStep, ReadDone

LEMMA MeType ==
  ASSUME LocalType, NEW i \in Invocation, RequestInv(i), req[i].op \notin {"none", "Reap"}
  PROVE  Me(i) \in Endpoint
  BY RelayStoreAssumption DEF RequestInv, Me

\* Going on before any lock was read, having read v.
LEMMA GotoPlain ==
  ASSUME IInv, UNCHANGED store, NEW i \in Invocation,
         NEW p \in Steps \ {"locks", "repair"}, NEW v \in Snapshot, Goto(i, p, v),
         p \in StepsOf(req[i].op),
         Clean(v),
         \/ p \in {"endpoint", "link", "controller", "companion"}
         \/ p = "connection" /\ req[i].op = "Disconnect"
         => v.s = None,
         /\ p \in {"connection", "session"} /\ v.s # None
         /\ req[i].op \in {"Connect", "Disconnect", "RevokeLink", "RevokeEndpoint"}
         => NamedInv(i, v.s),
         p = "session" /\ req[i].op \notin {"CloseSession", "Reap"} => v.s # None,
         p = "commit" /\ v.s # None => session[v.s].status = "deleted"
  PROVE  IInv'
<1>1. LocalType /\ RequestInv(i) /\ SeenInv(i)
  BY IInvParts DEF LocalInv
<1>2. /\ LocalType' /\ Others(i)
      /\ pc'[i] = p /\ seen'[i] = v /\ req'[i] = req[i]
  BY <1>1, GotoStep
<1>3. RequestInv(i)'
  BY <1>1, <1>2 DEF RequestInv
<1>4. session' = session
  BY DEF store
<1>5. ASSUME p \in {"connection", "session"}, v.s # None,
             req[i].op \in {"Connect", "Disconnect", "RevokeLink", "RevokeEndpoint"}
      PROVE  NamedInv(i, v.s)'
  BY <1>2, <1>4, <1>5 DEF NamedInv, Party, Me
<1>6. ASSUME p = "commit", v.s # None PROVE TransitionInv(i)'
  BY <1>2, <1>4, <1>6 DEF TransitionInv, Clean
<1>7. SeenInv(i)'
  BY <1>2, <1>4, <1>5, <1>6 DEF SeenInv, Clean
<1>8. QED
  BY <1>2, <1>3, <1>7, ReadDone DEF LocalInv

LEMMA ReadLockStep ==
  ASSUME IInv, NEW i \in Invocation, ReadLock(i)
  PROVE  IInv'
<1> DEFINE v == seen[i]
           role == NextRole(v.todo)
           rest == v.todo \ {role}
           done == IF req[i].op = "OpenSession" THEN "repair" ELSE "commit"
           p == IF rest = {} THEN done ELSE "locks"
           w == [v EXCEPT !.todo = rest,
                          !.held = IF Lock(role, v.tl) = v.s THEN v.held \cup {role} ELSE v.held]
<1>1. LocalType /\ StoreType /\ RequestInv(i) /\ SeenInv(i) /\ UNCHANGED store
  BY IInvParts DEF LocalInv, ReadLock
<1>2. pc[i] = "locks" /\ v \in Snapshot /\ v.todo # {} /\ v.s \in SessionId /\ TransitionInv(i)
  BY <1>1 DEF ReadLock, SeenInv, LocalType, Snapshot
<1>3. role \in v.todo /\ role \in Roles
  BY <1>2 DEF NextRole, Snapshot, Roles
<1>4. p \in Steps /\ w \in Snapshot
  BY <1>2, <1>3 DEF Steps, Snapshot
<1>5. /\ LocalType' /\ Others(i)
      /\ pc'[i] = p /\ seen'[i] = w /\ req'[i] = req[i]
  BY <1>1, <1>4, GotoStep DEF ReadLock
<1>6. /\ w.s = v.s /\ w.ss = v.ss /\ w.tl = v.tl /\ w.todo = rest
      /\ w.held = IF Lock(role, v.tl) = v.s THEN v.held \cup {role} ELSE v.held
  BY <1>2 DEF Snapshot
<1>7. v.tl \in Link /\ session' = session /\ Omitted(i)' = Omitted(i)
  BY <1>1, <1>2, <1>5, <1>6 DEF TransitionInv, store, Omitted, MyRole, Me
<1>8. ASSUME v.ss = "ACTIVE", session[v.s].status = "ACTIVE" PROVE Lock(role, v.tl) = v.s
  <2>1. v.tl = session[v.s].linkId
    BY <1>2, <1>8 DEF TransitionInv
  <2>2. ActiveHoldsLocks
    BY DEF IInv
  <2>3. QED
    BY <1>2, <1>3, <1>8, <2>1, <2>2
    DEF ActiveHoldsLocks, Active, ControllerOf, CompanionOf, Lock, Roles
<1>9. TransitionInv(i)'
  <2>1. ASSUME v.ss = "ACTIVE", session[v.s].status = "ACTIVE"
        PROVE  Roles \ (w.todo \cup Omitted(i)) \subseteq w.held
    BY <1>2, <1>3, <1>6, <1>8, <2>1 DEF TransitionInv
  <2>2. QED
    BY <1>2, <1>5, <1>6, <1>7, <2>1 DEF TransitionInv, Party, Me
<1>10. RequestInv(i)'
  BY <1>1, <1>2, <1>5 DEF RequestInv, StepsOf
<1>11. SeenInv(i)'
  BY <1>1, <1>2, <1>5, <1>6, <1>7, <1>9, RelayStoreAssumption DEF SeenInv
<1>12. QED
  BY <1>1, <1>5, <1>10, <1>11, ReadDone DEF LocalInv

\* What an invocation has read, before any lock.
LEMMA PlainSnapshot ==
  ASSUME IInv, NEW i \in Invocation, pc[i] \notin {"locks", "repair", "commit"}
  PROVE  /\ seen[i] \in Snapshot /\ Clean(seen[i])
         /\ LocalType /\ StoreType /\ RequestInv(i) /\ SeenInv(i)
  BY IInvParts DEF LocalInv, SeenInv, LocalType, Clean

\* The session that the lock of an endpoint or link names belongs to it.
LEMMA EndpointLockNames ==
  ASSUME IInv, NEW e \in Endpoint, endpoint[e].activeSessionId # None
  PROVE  LET s == endpoint[e].activeSessionId IN
           /\ s \in SessionId
           /\ \/ session[s].status = "deleted"
              \/ /\ session[s].status = "ACTIVE" /\ session[s].linkId \in Link
                 /\ Party(session[s].linkId, e)
<1>1. StoreType /\ LocksAreLive /\ SessionInv
  BY IInvParts DEF StoreInv
<1>2. endpoint[e].activeSessionId \in SessionId
  BY <1>1 DEF StoreType, EndpointItem
<1>3. QED
  BY <1>1, <1>2 DEF LocksAreLive, Active, SessionInv, Found

LEMMA LinkLockNames ==
  ASSUME IInv, NEW l \in Link, link[l].activeSessionId # None
  PROVE  LET s == link[l].activeSessionId IN
           /\ s \in SessionId
           /\ \/ session[s].status = "deleted"
              \/ session[s].status = "ACTIVE" /\ session[s].linkId = l
<1>1. StoreType /\ LocksAreLive
  BY IInvParts DEF StoreInv
<1>2. link[l].activeSessionId \in SessionId
  BY <1>1 DEF StoreType, LinkItem
<1>3. QED
  BY <1>1, <1>2 DEF LocksAreLive, Active

\* A connection of e names the side of the active session that e is.
LEMMA LockConnection ==
  ASSUME IInv, NEW e \in Endpoint, endpoint[e].activeSessionId # None,
         endpoint[e].connectionId # None
  PROVE  LET s == endpoint[e].activeSessionId IN
           \/ session[s].status = "deleted"
           \/ endpoint[e].connectionId \in {session[s].controllerConn, session[s].companionConn}
<1> DEFINE s == endpoint[e].activeSessionId
<1>1. s \in SessionId /\ (session[s].status = "deleted" \/ (Active(s) /\ Party(session[s].linkId, e)))
  BY IInvParts DEF StoreInv, LocksAreLive, StoreType, EndpointItem
<1>2. ActiveIsAuthorized
  BY DEF IInv
<1>3. QED
  BY <1>1, <1>2 DEF ActiveIsAuthorized, Party, Current, ControllerOf, CompanionOf

LEMMA BeginStep ==
  ASSUME IInv, NEW i \in Invocation, Begin(i)
  PROVE  IInv'
<1>1. PICK c \in ConnectionId :
        \E r \in Callback(c) \cup (IF c \in connection THEN Message(c) ELSE {}) :
          r.op \in Operations /\ Become(i, FirstStep(r.op), r)
  BY DEF Begin
<1>2. PICK r \in Callback(c) \cup Message(c) : Become(i, FirstStep(r.op), r)
  BY <1>1
<1>3. /\ r \in Request /\ r.op \in Ops \ {"none", "Reap"}
      /\ r.c = c
      /\ r.op \in {"OpenSession", "RevokeLink"} => r.l \in Link
      /\ r.op = "CloseSession" => r.s \in SessionId
  BY DEF Callback, Message, NoRequest, Request, Ops, Late
<1>4. FirstStep(r.op) \in Steps /\ FirstStep(r.op) \in StepsOf(r.op)
  BY <1>3 DEF FirstStep, Steps, StepsOf, Ops
<1>5. /\ LocalType' /\ Others(i)
      /\ pc'[i] = FirstStep(r.op) /\ seen'[i] = Blank /\ req'[i] = r
  BY <1>2, <1>3, <1>4, BecomeStep, IInvParts
<1>6. RequestInv(i)'
  BY <1>3, <1>4, <1>5 DEF RequestInv
<1>7. LocalInv(i)'
  BY <1>3, <1>5, <1>6, FreshLocal DEF FirstStep
<1>8. QED
  BY <1>5, <1>7, ReadDone DEF Begin

LEMMA BeginFrameStep ==
  ASSUME IInv, NEW i \in Invocation, NEW s \in SessionId, BeginFrame(i, s)
  PROVE  IInv'
<1> DEFINE r == [NoRequest EXCEPT !.op = "Reap", !.s = s, !.late = Late \cap {s}]
<1>1. r \in Request /\ r.op = "Reap" /\ r.s = s
  BY DEF NoRequest, Request, Ops, Late
<1>2. /\ LocalType' /\ Others(i)
      /\ pc'[i] = "frame" /\ seen'[i] = Blank /\ req'[i] = r
  BY <1>1, BecomeStep, IInvParts DEF BeginFrame, Steps
<1>3. RequestInv(i)'
  BY <1>1, <1>2 DEF RequestInv, StepsOf
<1>4. QED
  BY <1>2, <1>3, FreshLocal, ReadDone DEF BeginFrame

LEMMA ConnectGoesOnStep ==
  ASSUME IInv, UNCHANGED store, NEW i \in Invocation, req[i].op = "Connect",
         NEW v \in Snapshot, Clean(v),
         v.s # None => NamedInv(i, v.s), ConnectGoesOn(i, v)
  PROVE  IInv'
<1>1. CASE v.s # None
  BY <1>1, GotoPlain DEF ConnectGoesOn, Steps, StepsOf
<1>2. CASE v.s = None /\ v.same
  BY <1>2, ReadReturns DEF ConnectGoesOn
<1>3. CASE v.s = None /\ ~v.same
  BY <1>3, GotoPlain DEF ConnectGoesOn, Steps, StepsOf
<1>4. QED
  BY <1>1, <1>2, <1>3

LEMMA ConnectReadsEndpointStep ==
  ASSUME IInv, NEW i \in Invocation, ConnectReadsEndpoint(i)
  PROVE  IInv'
<1> DEFINE ep == endpoint[Me(i)]
           v == [seen[i] EXCEPT !.conn = ep.connectionId, !.s = ep.activeSessionId]
<1>1. /\ UNCHANGED store /\ req[i].op = "Connect" /\ Me(i) \in Endpoint
      /\ seen[i] \in Snapshot /\ StoreType
  BY PlainSnapshot, MeType DEF ConnectReadsEndpoint
<1>2. /\ v \in Snapshot /\ v.s = ep.activeSessionId /\ Clean(v)
  BY <1>1, PlainSnapshot DEF ConnectReadsEndpoint, StoreType, EndpointItem, Snapshot, Clean
<1>3. v.s # None => NamedInv(i, v.s)
  BY <1>1, <1>2, EndpointLockNames DEF NamedInv
<1>4. CASE ep.revoked \/ ep.credential # req[i].cred
  BY <1>1, <1>4, ReadReturns DEF ConnectReadsEndpoint
<1>5. CASE ~(ep.revoked \/ ep.credential # req[i].cred) /\ ep.connectionId = req[i].c
  BY <1>1, <1>2, <1>3, <1>5, GotoPlain DEF ConnectReadsEndpoint, Steps, StepsOf
<1>6. CASE ~(ep.revoked \/ ep.credential # req[i].cred) /\ ep.connectionId # req[i].c
  BY <1>1, <1>2, <1>3, <1>6, ConnectGoesOnStep DEF ConnectReadsEndpoint
<1>7. QED
  BY <1>4, <1>5, <1>6

LEMMA ConnectReadsConnectionStep ==
  ASSUME IInv, NEW i \in Invocation, ConnectReadsConnection(i)
  PROVE  IInv'
<1> DEFINE v == [seen[i] EXCEPT !.same = req[i].c \in connection]
<1>1. /\ UNCHANGED store /\ req[i].op = "Connect" /\ pc[i] = "connection"
      /\ seen[i] \in Snapshot /\ SeenInv(i)
  BY PlainSnapshot DEF ConnectReadsConnection
<1>2. /\ v \in Snapshot /\ v.s = seen[i].s /\ Clean(v)
  <2>1. (req[i].c \in connection) \in BOOLEAN
    OBVIOUS
  <2>2. Clean(seen[i])
    BY <1>1, PlainSnapshot
  <2>3. QED
    BY <1>1, <2>1, <2>2 DEF Snapshot, Clean
<1>3. v.s # None => NamedInv(i, v.s)
  BY <1>1, <1>2 DEF SeenInv
<1>4. QED
  BY <1>1, <1>2, <1>3, ConnectGoesOnStep DEF ConnectReadsConnection

LEMMA ConnectReadsSessionStep ==
  ASSUME IInv, NEW i \in Invocation, ConnectReadsSession(i)
  PROVE  IInv'
<1> DEFINE s == seen[i].s
           it == session[s]
           mine == Found(s) /\ Party(it.linkId, Me(i))
<1>1. /\ UNCHANGED store /\ req[i].op = "Connect" /\ pc[i] = "session"
      /\ LocalType /\ StoreType /\ RequestInv(i)
      /\ s \in SessionId /\ NamedInv(i, s)
  BY PlainSnapshot DEF ConnectReadsSession, SeenInv, Snapshot
<1>2. CASE mine
  <2>1. it.linkId \in Link
    BY <1>1, <1>2 DEF NamedInv, Found
  <2>2. Status(s) \in {"ACTIVE", "CLOSED"} /\ session[s].status = Status(s)
    BY <1>2 DEF Status, Found
  <2>3. CASE Return(i)
    BY <1>1, <2>3, ReadReturns
  <2>4. CASE Release(i, s, Status(s), it.linkId, {MyRole(i, it.linkId)})
    <3>1. Roles \ {MyRole(i, it.linkId)} # {}
      BY DEF Roles, MyRole
    <3>2. LocalType' /\ LocalInv(i)' /\ Others(i)
      BY <1>1, <1>2, <2>1, <2>2, <2>4, <3>1, ReleaseStep DEF StepsOf
    <3>3. QED
      BY <1>1, <3>2, ReadDone
  <2>5. QED
    BY <1>2, <2>3, <2>4 DEF ConnectReadsSession
<1>3. CASE ~mine
  <2>1. session[s].status = "deleted"
    BY <1>1, <1>3 DEF NamedInv, Found, StoreType, SessionItem
  <2>2. Goto(i, "commit", seen[i])
    BY <1>3 DEF ConnectReadsSession
  <2>3. QED
    BY <1>1, <2>1, <2>2, PlainSnapshot, GotoPlain DEF Steps, StepsOf
<1>4. QED
  BY <1>2, <1>3

LEMMA DisconnectReadsConnectionStep ==
  ASSUME IInv, NEW i \in Invocation, DisconnectReadsConnection(i)
  PROVE  IInv'
<1>1. /\ UNCHANGED store /\ req[i].op = "Disconnect" /\ pc[i] = "connection"
      /\ seen[i] \in Snapshot /\ Clean(seen[i])
      /\ seen[i].s = None
  BY PlainSnapshot DEF DisconnectReadsConnection, SeenInv
<1>2. CASE req[i].c \in connection
  BY <1>1, <1>2, GotoPlain DEF DisconnectReadsConnection, Steps, StepsOf
<1>3. CASE req[i].c \notin connection
  BY <1>1, <1>3, ReadReturns DEF DisconnectReadsConnection
<1>4. QED
  BY <1>2, <1>3

LEMMA DisconnectReadsEndpointStep ==
  ASSUME IInv, NEW i \in Invocation, DisconnectReadsEndpoint(i)
  PROVE  IInv'
<1> DEFINE ep == endpoint[Me(i)]
           v == [seen[i] EXCEPT !.same = TRUE, !.s = ep.activeSessionId]
<1>1. /\ UNCHANGED store /\ req[i].op = "Disconnect" /\ pc[i] = "endpoint"
      /\ seen[i] \in Snapshot /\ Clean(seen[i])
      /\ StoreType /\ RequestInv(i) /\ SeenInv(i) /\ Me(i) \in Endpoint
  BY PlainSnapshot, MeType DEF DisconnectReadsEndpoint
<1>2. /\ v \in Snapshot /\ v.s = ep.activeSessionId /\ Clean(v)
  BY <1>1 DEF StoreType, EndpointItem, Snapshot, Clean
<1>3. CASE ep.connectionId # req[i].c
  <2>1. Goto(i, "commit", seen[i])
    BY <1>3 DEF DisconnectReadsEndpoint
  <2>2. seen[i].s = None
    BY <1>1 DEF SeenInv
  <2>3. QED
    BY <1>1, <2>1, <2>2, GotoPlain DEF Steps, StepsOf
<1>4. CASE ep.connectionId = req[i].c /\ v.s = None
  <2>1. Goto(i, "commit", v)
    BY <1>2, <1>4 DEF DisconnectReadsEndpoint
  <2>2. QED
    BY <1>1, <1>2, <1>4, <2>1, GotoPlain DEF Steps, StepsOf
<1>5. CASE ep.connectionId = req[i].c /\ v.s # None
  <2>1. Goto(i, "session", v)
    BY <1>2, <1>5 DEF DisconnectReadsEndpoint
  <2>2. req[i].c # None
    BY <1>1, RelayStoreAssumption DEF RequestInv
  <2>3. NamedInv(i, v.s)
    BY <1>1, <1>2, <1>5, <2>2, EndpointLockNames, LockConnection DEF NamedInv
  <2>4. QED
    BY <1>1, <1>2, <1>5, <2>1, <2>3, GotoPlain DEF Steps, StepsOf
<1>6. QED
  BY <1>3, <1>4, <1>5

LEMMA DisconnectReadsSessionStep ==
  ASSUME IInv, NEW i \in Invocation, DisconnectReadsSession(i)
  PROVE  IInv'
<1> DEFINE s == seen[i].s
           it == session[s]
           mine == Found(s) /\ req[i].c \in {it.controllerConn, it.companionConn}
<1>1. /\ UNCHANGED store /\ req[i].op = "Disconnect" /\ pc[i] = "session"
      /\ seen[i] \in Snapshot /\ Clean(seen[i])
      /\ StoreType /\ s \in SessionId /\ NamedInv(i, s)
  BY PlainSnapshot DEF DisconnectReadsSession, SeenInv, Snapshot
<1>2. CASE mine
  <2>1. it.linkId \in Link /\ Party(it.linkId, Me(i))
    BY <1>1, <1>2 DEF NamedInv, Found
  <2>2. Status(s) \in {"ACTIVE", "CLOSED"} /\ session[s].status = Status(s)
    BY <1>2 DEF Status, Found
  <2>3. Release(i, s, Status(s), it.linkId, {MyRole(i, it.linkId)})
    BY <1>2 DEF DisconnectReadsSession
  <2>4. Roles \ {MyRole(i, it.linkId)} # {}
    BY DEF Roles, MyRole
  <2>5. LocalType' /\ LocalInv(i)' /\ Others(i)
    BY <1>1, <2>1, <2>2, <2>3, <2>4, ReleaseStep DEF StepsOf
  <2>6. QED
    BY <1>1, <2>5, ReadDone
<1>3. CASE ~mine
  <2>1. session[s].status = "deleted"
    BY <1>1, <1>3 DEF NamedInv, Found, StoreType, SessionItem
  <2>2. Goto(i, "commit", seen[i])
    BY <1>3 DEF DisconnectReadsSession
  <2>3. QED
    BY <1>1, <2>1, <2>2, GotoPlain DEF Steps, StepsOf
<1>4. QED
  BY <1>2, <1>3

LEMMA AuthorizeStep ==
  ASSUME IInv, NEW i \in Invocation, Authorize(i)
  PROVE  IInv'
<1> DEFINE s == endpoint[Me(i)].activeSessionId
           v == [seen[i] EXCEPT !.s = s]
<1>1. /\ UNCHANGED store /\ pc[i] = "endpoint"
      /\ req[i].op \in {"CloseSession", "RevokeLink", "RevokeEndpoint"}
      /\ seen[i] \in Snapshot /\ Clean(seen[i])
      /\ StoreType /\ RequestInv(i) /\ seen[i].s = None /\ Me(i) \in Endpoint
  BY PlainSnapshot, MeType DEF Authorize, SeenInv
<1>2. /\ v \in Snapshot /\ v.s = s /\ Clean(v)
  BY <1>1 DEF StoreType, EndpointItem, Snapshot, Clean
<1>3. CASE ~Current(Me(i), req[i].c)
  BY <1>1, <1>3, ReadReturns DEF Authorize
<1>4. CASE Current(Me(i), req[i].c) /\ req[i].op = "CloseSession"
  BY <1>1, <1>4, GotoPlain DEF Authorize, Steps, StepsOf
<1>5. CASE Current(Me(i), req[i].c) /\ req[i].op = "RevokeLink"
  BY <1>1, <1>5, GotoPlain DEF Authorize, Steps, StepsOf
<1>6. CASE Current(Me(i), req[i].c) /\ req[i].op = "RevokeEndpoint"
  <2>1. CASE s = None
    <3>1. Goto(i, "commit", v)
      BY <1>6, <2>1 DEF Authorize
    <3>2. QED
      BY <1>1, <1>2, <1>6, <2>1, <3>1, GotoPlain DEF Steps, StepsOf
  <2>2. CASE s # None
    <3>1. Goto(i, "session", v)
      BY <1>6, <2>2 DEF Authorize
    <3>2. NamedInv(i, v.s)
      BY <1>1, <1>2, <1>6, <2>2, EndpointLockNames DEF NamedInv
    <3>3. QED
      BY <1>1, <1>2, <1>6, <2>2, <3>1, <3>2, GotoPlain DEF Steps, StepsOf
  <2>3. QED
    BY <2>1, <2>2
<1>7. QED
  BY <1>1, <1>3, <1>4, <1>5, <1>6

LEMMA FrameReadsSessionStep ==
  ASSUME IInv, NEW i \in Invocation, FrameReadsSession(i)
  PROVE  IInv'
<1>1. /\ UNCHANGED store /\ pc[i] = "frame"
      /\ seen[i] \in Snapshot /\ Clean(seen[i])
      /\ LocalType /\ RequestInv(i)
  BY PlainSnapshot DEF FrameReadsSession
<1>2. req[i].op = "Reap"
  BY <1>1 DEF RequestInv, StepsOf, LocalType, Request, Ops
<1>3. CASE Return(i)
  BY <1>1, <1>3, ReadReturns
<1>4. CASE Goto(i, "session", seen[i])
  BY <1>1, <1>2, <1>4, GotoPlain DEF Steps, StepsOf
<1>5. QED
  BY <1>3, <1>4 DEF FrameReadsSession

LEMMA CloseReadsSessionStep ==
  ASSUME IInv, NEW i \in Invocation, CloseReadsSession(i)
  PROVE  IInv'
<1> DEFINE s == req[i].s
           l == session[s].linkId
<1>1. /\ UNCHANGED store /\ req[i].op \in {"CloseSession", "Reap"} /\ pc[i] = "session"
      /\ RequestInv(i) /\ SessionInv /\ s \in SessionId
  BY PlainSnapshot, IInvParts DEF CloseReadsSession, RequestInv, StoreInv
<1>2. CASE Return(i)
  BY <1>1, <1>2, ReadReturns
<1>3. CASE Found(s) /\ Release(i, s, Status(s), l, {})
  <2>1. l \in Link /\ Status(s) \in {"ACTIVE", "CLOSED"} /\ session[s].status = Status(s)
    BY <1>1, <1>3 DEF SessionInv, Status, Found
  <2>2. Roles \ {} # {}
    BY DEF Roles
  <2>3. LocalType' /\ LocalInv(i)' /\ Others(i)
    BY <1>1, <1>3, <2>1, <2>2, ReleaseStep DEF StepsOf
  <2>4. QED
    BY <1>1, <2>3, ReadDone
<1>4. QED
  BY <1>2, <1>3 DEF CloseReadsSession

LEMMA RevokeLinkReadsLinkStep ==
  ASSUME IInv, NEW i \in Invocation, RevokeLinkReadsLink(i)
  PROVE  IInv'
<1> DEFINE s == link[req[i].l].activeSessionId
           v == [seen[i] EXCEPT !.s = s]
<1>1. /\ UNCHANGED store /\ pc[i] = "link" /\ req[i].op = "RevokeLink"
      /\ seen[i] \in Snapshot /\ Clean(seen[i])
      /\ StoreType /\ req[i].l \in Link
  BY PlainSnapshot DEF RevokeLinkReadsLink, RequestInv
<1>2. /\ v \in Snapshot /\ v.s = s /\ Clean(v)
  BY <1>1 DEF StoreType, LinkItem, Snapshot, Clean
<1>3. CASE Return(i)
  BY <1>1, <1>3, ReadReturns
<1>4. CASE s = None /\ Goto(i, "commit", v)
  BY <1>1, <1>2, <1>4, GotoPlain DEF Steps, StepsOf
<1>5. CASE s # None /\ Goto(i, "session", v)
  <2>1. NamedInv(i, v.s)
    BY <1>1, <1>2, <1>5, LinkLockNames DEF NamedInv
  <2>2. QED
    BY <1>1, <1>2, <1>5, <2>1, GotoPlain DEF Steps, StepsOf
<1>6. QED
  BY <1>3, <1>4, <1>5 DEF RevokeLinkReadsLink

LEMMA RevokeLinkReadsSessionStep ==
  ASSUME IInv, NEW i \in Invocation, RevokeLinkReadsSession(i)
  PROVE  IInv'
<1> DEFINE s == seen[i].s
           ss == IF session[s].linkId = req[i].l THEN Status(s) ELSE "none"
<1>1. /\ UNCHANGED store /\ req[i].op = "RevokeLink" /\ pc[i] = "session"
      /\ StoreType /\ s \in SessionId /\ NamedInv(i, s) /\ req[i].l \in Link
  BY PlainSnapshot DEF RevokeLinkReadsSession, SeenInv, RequestInv, Snapshot
<1>2. /\ ss \in {"none", "ACTIVE", "CLOSED"}
      /\ ss = "none" => session[s].status = "deleted"
      /\ ss # "none" => session[s].status = ss /\ session[s].linkId = req[i].l
  BY <1>1 DEF NamedInv, Status, Found, StoreType, SessionItem
<1>3. Release(i, s, ss, req[i].l, {"link"})
  BY DEF RevokeLinkReadsSession
<1>4. Roles \ {"link"} # {}
  BY DEF Roles
<1>5. LocalType' /\ LocalInv(i)' /\ Others(i)
  BY <1>1, <1>2, <1>3, <1>4, ReleaseStep DEF StepsOf
<1>6. QED
  BY <1>1, <1>5, ReadDone

LEMMA RevokeEndpointReadsSessionStep ==
  ASSUME IInv, NEW i \in Invocation, RevokeEndpointReadsSession(i)
  PROVE  IInv'
<1> DEFINE s == seen[i].s
           l == session[s].linkId
           mine == Found(s) /\ Party(l, Me(i))
<1>1. /\ UNCHANGED store /\ req[i].op = "RevokeEndpoint" /\ pc[i] = "session"
      /\ seen[i] \in Snapshot /\ Clean(seen[i])
      /\ StoreType /\ s \in SessionId /\ NamedInv(i, s)
  BY PlainSnapshot DEF RevokeEndpointReadsSession, SeenInv, Snapshot
<1>2. CASE mine
  <2>1. l \in Link /\ Status(s) \in {"ACTIVE", "CLOSED"} /\ session[s].status = Status(s)
    BY <1>1, <1>2 DEF NamedInv, Found, Status
  <2>2. Release(i, s, Status(s), l, {MyRole(i, l)})
    BY <1>2 DEF RevokeEndpointReadsSession
  <2>3. Roles \ {MyRole(i, l)} # {}
    BY DEF Roles, MyRole
  <2>4. LocalType' /\ LocalInv(i)' /\ Others(i)
    BY <1>1, <1>2, <2>1, <2>2, <2>3, ReleaseStep DEF StepsOf
  <2>5. QED
    BY <1>1, <2>4, ReadDone
<1>3. CASE ~mine
  <2>1. session[s].status = "deleted"
    BY <1>1, <1>3 DEF NamedInv, Found, StoreType, SessionItem
  <2>2. Goto(i, "commit", seen[i])
    BY <1>3 DEF RevokeEndpointReadsSession
  <2>3. QED
    BY <1>1, <2>1, <2>2, GotoPlain DEF Steps, StepsOf
<1>4. QED
  BY <1>2, <1>3

LEMMA OpenReadsLinkStep ==
  ASSUME IInv, NEW i \in Invocation, OpenReadsLink(i)
  PROVE  IInv'
<1> DEFINE s == link[req[i].l].activeSessionId
           v == [seen[i] EXCEPT !.stale = {s} \ {None}]
<1>1. /\ UNCHANGED store /\ pc[i] = "link" /\ req[i].op = "OpenSession"
      /\ seen[i] \in Snapshot /\ Clean(seen[i]) /\ seen[i].s = None
      /\ StoreType /\ req[i].l \in Link
  BY PlainSnapshot DEF OpenReadsLink, RequestInv, SeenInv
<1>2. /\ {s} \ {None} \subseteq SessionId
      /\ \A x \in {s} \ {None} : session[x].status # "unused"
  BY <1>1, LinkLockNames
<1>3. /\ v \in Snapshot /\ v.s = None /\ Clean(v)
  BY <1>1, <1>2 DEF Snapshot, Clean
<1>4. CASE Return(i)
  BY <1>1, <1>4, ReadReturns
<1>5. CASE Goto(i, "controller", v)
  BY <1>1, <1>3, <1>5, GotoPlain DEF Steps, StepsOf
<1>6. QED
  BY <1>4, <1>5 DEF OpenReadsLink

\* Only OpenSession reads the two endpoints and repairs locks.
LEMMA OnlyOpen ==
  ASSUME IInv, NEW i \in Invocation, pc[i] \in {"controller", "companion", "stale", "repair"}
  PROVE  req[i].op = "OpenSession" /\ req[i].l \in Link /\ req[i].c \in ConnectionId
  BY IInvParts DEF LocalInv, LocalType, RequestInv, StepsOf, Request, Ops

LEMMA OpenReadsControllerStep ==
  ASSUME IInv, NEW i \in Invocation, OpenReadsController(i)
  PROVE  IInv'
<1> DEFINE s == endpoint[Me(i)].activeSessionId
           same == Current(Me(i), req[i].c)
           stale == seen[i].stale \cup ({s} \ {None})
           v == [seen[i] EXCEPT !.same = same, !.stale = stale]
<1>1. /\ UNCHANGED store /\ pc[i] = "controller" /\ req[i].op = "OpenSession"
      /\ seen[i] \in Snapshot /\ Clean(seen[i]) /\ seen[i].s = None
      /\ StoreType /\ Me(i) \in Endpoint
  BY PlainSnapshot, MeType, OnlyOpen DEF OpenReadsController, SeenInv
<1>2. /\ stale \subseteq SessionId
      /\ \A x \in stale : session[x].status # "unused"
  BY <1>1, EndpointLockNames DEF Snapshot, Clean
<1>3. same \in BOOLEAN
  BY DEF Current
<1>4. /\ v \in Snapshot /\ v.s = None /\ Clean(v)
  BY <1>1, <1>2, <1>3 DEF Snapshot, Clean
<1>5. Goto(i, "companion", v)
  BY DEF OpenReadsController
<1>6. QED
  BY <1>1, <1>4, <1>5, GotoPlain DEF Steps, StepsOf

LEMMA OpenReadsCompanionStep ==
  ASSUME IInv, NEW i \in Invocation, OpenReadsCompanion(i)
  PROVE  IInv'
<1> DEFINE pe == endpoint[LinkCompanion[req[i].l]]
           stale == seen[i].stale \cup ({pe.activeSessionId} \ {None})
           v == [Blank EXCEPT !.stale = stale]
           w == [seen[i] EXCEPT !.conn = pe.connectionId]
<1>1. /\ UNCHANGED store /\ pc[i] = "companion" /\ req[i].op = "OpenSession"
      /\ seen[i] \in Snapshot /\ Clean(seen[i]) /\ seen[i].s = None
      /\ StoreType /\ LinkCompanion[req[i].l] \in Endpoint
  BY PlainSnapshot, OnlyOpen, RelayStoreAssumption DEF OpenReadsCompanion, SeenInv
<1>2. /\ stale \subseteq SessionId
      /\ \A x \in stale : session[x].status # "unused"
  BY <1>1, EndpointLockNames DEF Snapshot, Clean
<1>3. v \in Snapshot /\ Clean(v) /\ w \in Snapshot /\ w.s = None /\ Clean(w)
  BY <1>1, <1>2 DEF Blank, Snapshot, Clean, StoreType, EndpointItem
<1>4. CASE Return(i)
  BY <1>1, <1>4, ReadReturns
<1>5. CASE Goto(i, "stale", v)
  BY <1>1, <1>3, <1>5, GotoPlain DEF Steps, StepsOf
<1>6. CASE Goto(i, "commit", w)
  BY <1>1, <1>3, <1>6, GotoPlain DEF Steps, StepsOf
<1>7. QED
  BY <1>4, <1>5, <1>6 DEF OpenReadsCompanion

LEMMA RepairReadsSessionStep ==
  ASSUME IInv, NEW i \in Invocation, NEW s \in SessionId, RepairReadsSession(i, s)
  PROVE  IInv'
<1> DEFINE v == [seen[i] EXCEPT !.s = s]
<1>1. /\ UNCHANGED store /\ pc[i] = "stale" /\ req[i].op = "OpenSession" /\ req[i].l \in Link
      /\ seen[i] \in Snapshot /\ Clean(seen[i]) /\ StoreType
      /\ session[s].status # "unused" /\ s # None
  BY PlainSnapshot, OnlyOpen, RelayStoreAssumption DEF RepairReadsSession, Clean
<1>2. v \in Snapshot /\ v.s = s /\ Clean(v)
  BY <1>1 DEF Snapshot, Clean
<1>3. CASE Return(i)
  BY <1>1, <1>3, ReadReturns
<1>4. CASE Goto(i, "session", v)
  BY <1>1, <1>2, <1>4, GotoPlain DEF Steps, StepsOf
<1>5. CASE ~Found(s) /\ Release(i, s, "none", req[i].l, {})
  <2>1. session[s].status = "deleted"
    BY <1>1, <1>5 DEF Found, StoreType, SessionItem
  <2>2. Roles \ {} # {}
    BY DEF Roles
  <2>3. LocalType' /\ LocalInv(i)' /\ Others(i)
    BY <1>1, <1>5, <2>1, <2>2, ReleaseStep DEF StepsOf
  <2>4. QED
    BY <1>1, <2>3, ReadDone
<1>6. QED
  BY <1>3, <1>4, <1>5 DEF RepairReadsSession

LEMMA RepairRereadsSessionStep ==
  ASSUME IInv, NEW i \in Invocation, RepairRereadsSession(i)
  PROVE  IInv'
<1> DEFINE s == seen[i].s
<1>1. /\ UNCHANGED store /\ pc[i] = "session" /\ req[i].op = "OpenSession"
      /\ seen[i] \in Snapshot /\ Clean(seen[i]) /\ s # None /\ s \in SessionId
      /\ LocalType /\ RequestInv(i) /\ SessionInv /\ session' = session
  BY PlainSnapshot, IInvParts DEF RepairRereadsSession, SeenInv, Snapshot, StoreInv, store
<1>2. CASE Found(s) /\ Release(i, s, Status(s), session[s].linkId, {})
  <2>1. /\ session[s].linkId \in Link /\ Status(s) \in {"ACTIVE", "CLOSED"}
        /\ session[s].status = Status(s)
    BY <1>1, <1>2 DEF SessionInv, Status, Found
  <2>2. Roles \ {} # {}
    BY DEF Roles
  <2>3. LocalType' /\ LocalInv(i)' /\ Others(i)
    BY <1>1, <1>2, <2>1, <2>2, ReleaseStep DEF StepsOf
  <2>4. QED
    BY <1>1, <2>3, ReadDone
<1>3. CASE Repaired(i)
  BY <1>1, <1>3, RepairedStep, ReadDone DEF Clean
<1>4. QED
  BY <1>2, <1>3 DEF RepairRereadsSession

LEMMA RepairConflictStep ==
  ASSUME IInv, NEW i \in Invocation, RepairConflict(i)
  PROVE  IInv'
<1> DEFINE v == seen[i]
           w == [Blank EXCEPT !.s = v.s, !.stale = v.stale, !.again = v.again + 1]
<1>1. /\ UNCHANGED store /\ pc[i] = "repair" /\ req[i].op = "OpenSession"
      /\ v \in Snapshot /\ v.s # None /\ LocalType /\ RequestInv(i) /\ session' = session
      /\ \A s \in v.stale : session[s].status # "unused"
  BY OnlyOpen, IInvParts DEF RepairConflict, LocalInv, SeenInv, LocalType, store
<1>2. w \in Snapshot /\ w.s = v.s /\ Clean(w)
  <2>1. v.again \in Nat /\ v.s \in SessionId \cup {None} /\ v.stale \subseteq SessionId
    BY <1>1 DEF Snapshot
  <2>2. v.again + 1 \in Nat
    BY <2>1
  <2>3. w.s = v.s /\ w.stale = v.stale
    BY DEF Blank
  <2>4. w \in Snapshot
    BY <2>1, <2>2 DEF Blank, Snapshot
  <2>5. Clean(w)
    BY <1>1, <2>3 DEF Clean, Blank
  <2>6. QED
    BY <2>3, <2>4, <2>5
<1>3. CASE Repaired(i)
  BY <1>1, <1>3, RepairedStep, ReadDone
<1>4. CASE Return(i)
  BY <1>1, <1>4, ReadReturns
<1>5. CASE Goto(i, "session", w)
  BY <1>1, <1>2, <1>5, GotoPlain DEF Steps, StepsOf
<1>6. QED
  BY <1>3, <1>4, <1>5 DEF RepairConflict

LEMMA ConflictStep ==
  ASSUME IInv, NEW i \in Invocation, Conflict(i)
  PROVE  IInv'
<1>1. LocalType /\ RequestInv(i) /\ pc[i] = "commit" /\ UNCHANGED store /\ StartOver(i)
  BY IInvParts DEF LocalInv, Conflict
<1>2. req[i].op # "none"
  BY <1>1 DEF RequestInv, StepsOf
<1>3. QED
  BY <1>1, <1>2, StartOverStep, ReadDone

LEMMA CrashStep ==
  ASSUME IInv, NEW i \in Invocation, Crash(i)
  PROVE  IInv'
  BY ReadReturns DEF Crash

LEMMA ReadStep ==
  ASSUME IInv, NEW i \in Invocation, Read(i)
  PROVE  IInv'
  BY ReadLockStep, ConnectReadsEndpointStep, ConnectReadsConnectionStep, ConnectReadsSessionStep,
     DisconnectReadsConnectionStep, DisconnectReadsEndpointStep, DisconnectReadsSessionStep,
     AuthorizeStep, FrameReadsSessionStep, CloseReadsSessionStep, RevokeLinkReadsLinkStep,
     RevokeLinkReadsSessionStep, RevokeEndpointReadsSessionStep, OpenReadsLinkStep,
     OpenReadsControllerStep, OpenReadsCompanionStep, RepairReadsSessionStep,
     RepairRereadsSessionStep
  DEF Read

-----------------------------------------------------------------------------
(***************************************************************************)
(* Commits: the store changes, and every lock a closing session held is    *)
(* released with it.                                                       *)
(***************************************************************************)
LEMMA UnlockedLink ==
  ASSUME IInv, NEW i \in Invocation, LocksHold(i), NEW l \in Link
  PROVE  LET u == UnlockedLinks(i)[l] IN
           /\ u \in LinkItem
           /\ \/ u = link[l]
              \/ u.activeSessionId = None /\ link[l].activeSessionId = seen[i].s
           /\ "link" \in seen[i].held /\ l = seen[i].tl => u.activeSessionId = None
<1>1. link[l] \in LinkItem
  BY IInvParts DEF StoreType
<1>2. CASE "link" \in seen[i].held /\ l = seen[i].tl
  <2>1. link[l].activeSessionId = seen[i].s
    BY <1>2 DEF LocksHold, Lock
  <2>2. UnlockedLinks(i)[l] = [link[l] EXCEPT !.activeSessionId = None]
    BY <1>2 DEF UnlockedLinks
  <2>3. QED
    BY <1>1, <2>1, <2>2 DEF LinkItem
<1>3. CASE ~("link" \in seen[i].held /\ l = seen[i].tl)
  BY <1>1, <1>3 DEF UnlockedLinks
<1>4. QED
  BY <1>2, <1>3

LEMMA UnlockedEndpoint ==
  ASSUME IInv, NEW i \in Invocation, LocksHold(i), NEW e \in Endpoint
  PROVE  LET u == UnlockedEndpoints(i)[e]
             v == seen[i]
         IN /\ u \in EndpointItem
            /\ \/ u = endpoint[e]
               \/ /\ u.activeSessionId = None /\ endpoint[e].activeSessionId = v.s
                  /\ u.connectionId = endpoint[e].connectionId /\ u.revoked = endpoint[e].revoked
            /\ \/ "controller" \in v.held /\ e = LinkController[v.tl]
               \/ "companion" \in v.held /\ e = LinkCompanion[v.tl]
               => u.activeSessionId = None
<1> DEFINE v == seen[i]
           locked == \/ "controller" \in v.held /\ e = LinkController[v.tl]
                     \/ "companion" \in v.held /\ e = LinkCompanion[v.tl]
<1>1. endpoint[e] \in EndpointItem
  BY IInvParts DEF StoreType
<1>2. CASE locked
  <2>1. endpoint[e].activeSessionId = v.s
    BY <1>2 DEF LocksHold, Lock
  <2>2. UnlockedEndpoints(i)[e] = [endpoint[e] EXCEPT !.activeSessionId = None]
    BY <1>2 DEF UnlockedEndpoints
  <2>3. QED
    BY <1>1, <2>1, <2>2 DEF EndpointItem
<1>3. CASE ~locked
  BY <1>1, <1>3 DEF UnlockedEndpoints
<1>4. QED
  BY <1>2, <1>3

\* Any commit that closes what it read and unlocks only what that session held.
LEMMA TransitionStep ==
  ASSUME IInv, NEW i \in Invocation, pc[i] \in {"repair", "commit"}, TransitionHolds(i),
         session' = Ended(i),
         endpoint' \in [Endpoint -> EndpointItem], link' \in [Link -> LinkItem],
         connection' \subseteq ConnectionId,
         \A l \in Link : \/ link'[l] = link[l]
                         \/ /\ link'[l].activeSessionId = None
                            /\ link[l].activeSessionId \in {None, seen[i].s},
         \A e \in Endpoint : \/ endpoint'[e] = endpoint[e]
                             \/ /\ endpoint'[e].activeSessionId = None
                                /\ endpoint'[e].revoked => endpoint'[e].connectionId = None
                                /\ endpoint[e].activeSessionId \in {None, seen[i].s},
         seen[i].ss = "ACTIVE" =>
           LET l == session[seen[i].s].linkId IN
             /\ link'[l].activeSessionId = None
             /\ endpoint'[LinkController[l]].activeSessionId = None
             /\ endpoint'[LinkCompanion[l]].activeSessionId = None
  PROVE  StoreType' /\ StoreInv' /\ Advance
<1> DEFINE v == seen[i]
<1>1. /\ LocalType /\ StoreType /\ SeenInv(i) /\ v \in Snapshot
      /\ SessionInv /\ ActiveHoldsLocks /\ ActiveIsAuthorized /\ LocksAreLive /\ RevokedHoldsNothing
  BY IInvParts DEF LocalInv, StoreInv, LocalType
<1>2. v.s # None => v.s \in SessionId /\ TransitionInv(i)
  BY <1>1 DEF SeenInv, Snapshot
<1>3. v.ss = "ACTIVE" => v.s # None /\ v.s \in SessionId /\ session[v.s].status = "ACTIVE"
  BY <1>1, <1>2 DEF TransitionHolds, StatusHolds, SeenInv
<1>4. /\ session' \in [SessionId -> SessionItem]
      /\ \A s \in SessionId : /\ session'[s].linkId = session[s].linkId
                              /\ session'[s].controllerConn = session[s].controllerConn
                              /\ session'[s].companionConn = session[s].companionConn
                              /\ \/ session'[s].status = session[s].status
                                 \/ /\ s = v.s /\ v.ss = "ACTIVE"
                                    /\ session[s].status = "ACTIVE" /\ session'[s].status = "CLOSED"
  BY <1>1, <1>3 DEF Ended, StoreType, SessionItem
<1>5. v.s # None => session'[v.s].status # "ACTIVE"
  <2>1. CASE v.s # None /\ v.ss = "ACTIVE"
    BY <1>1, <1>3, <2>1 DEF Ended, StoreType, SessionItem
  <2>2. CASE v.s # None /\ v.ss # "ACTIVE"
    BY <1>1, <1>2, <1>4, <2>2 DEF TransitionInv, Snapshot
  <2>3. QED
    BY <2>1, <2>2
<1>6. Advance
  BY <1>4 DEF Advance
<1>7. SessionInv'
  BY <1>1, <1>4 DEF SessionInv, Found
<1>8. ASSUME NEW x \in SessionId, Active(x)'
      PROVE  LET l == session[x].linkId IN
               /\ Active(x) /\ l \in Link /\ session'[x].linkId = l
               /\ link'[l] = link[l]
               /\ endpoint'[LinkController[l]] = endpoint[LinkController[l]]
               /\ endpoint'[LinkCompanion[l]] = endpoint[LinkCompanion[l]]
  <2> DEFINE l == session[x].linkId
  <2>1. Active(x) /\ x # v.s /\ x # None /\ session'[x].linkId = l
    BY <1>4, <1>5, <1>8, RelayStoreAssumption DEF Active
  <2>2. l \in Link /\ LinkController[l] \in Endpoint /\ LinkCompanion[l] \in Endpoint
    BY <1>1, <2>1, RelayStoreAssumption DEF SessionInv, Active, Found
  <2>3. /\ link[l].activeSessionId = x
        /\ endpoint[LinkController[l]].activeSessionId = x
        /\ endpoint[LinkCompanion[l]].activeSessionId = x
    BY <1>1, <2>1 DEF ActiveHoldsLocks, ControllerOf, CompanionOf
  <2>4. QED
    BY <2>1, <2>2, <2>3
<1>9. ActiveHoldsLocks'
  BY <1>1, <1>8 DEF ActiveHoldsLocks, ControllerOf, CompanionOf
<1>10. ActiveIsAuthorized'
  BY <1>1, <1>4, <1>8 DEF ActiveIsAuthorized, ControllerOf, CompanionOf, Current
<1>11. ASSUME NEW s \in SessionId, Active(s), ~Active(s)'
       PROVE  s = v.s /\ v.ss = "ACTIVE"
  BY <1>4, <1>11 DEF Active
<1>12. ASSUME NEW s \in SessionId, session[s].status = "deleted" PROVE session'[s].status = "deleted"
  BY <1>4, <1>12
<1>13. LocksAreLive'
  <2>1. ASSUME NEW l \in Link, link'[l].activeSessionId # None
        PROVE  LET s == link'[l].activeSessionId IN
                 \/ session'[s].status = "ACTIVE" /\ session'[s].linkId = l
                 \/ session'[s].status = "deleted"
    <3> DEFINE s == link[l].activeSessionId
    <3>1. link'[l].activeSessionId = s /\ s # None /\ s \in SessionId
      BY <1>1, <2>1 DEF StoreType, LinkItem
    <3>2. (Active(s) /\ session[s].linkId = l) \/ session[s].status = "deleted"
      BY <1>1, <3>1 DEF LocksAreLive
    <3>3. Active(s) /\ session[s].linkId = l => session'[s].status = "ACTIVE"
      BY <1>11, <2>1, <3>1 DEF Active
    <3>4. QED
      BY <1>4, <1>12, <3>1, <3>2, <3>3
  <2>2. ASSUME NEW e \in Endpoint, endpoint'[e].activeSessionId # None
        PROVE  LET s == endpoint'[e].activeSessionId IN
                 \/ session'[s].status = "ACTIVE" /\ Party(session'[s].linkId, e)
                 \/ session'[s].status = "deleted"
    <3> DEFINE s == endpoint[e].activeSessionId
    <3>1. endpoint'[e].activeSessionId = s /\ s # None /\ s \in SessionId
      BY <1>1, <2>2 DEF StoreType, EndpointItem
    <3>2. (Active(s) /\ Party(session[s].linkId, e)) \/ session[s].status = "deleted"
      BY <1>1, <3>1 DEF LocksAreLive
    <3>3. Active(s) /\ Party(session[s].linkId, e) => session'[s].status = "ACTIVE"
      BY <1>11, <2>2, <3>1 DEF Party, Active
    <3>4. QED
      BY <1>4, <1>12, <3>1, <3>2, <3>3
  <2>3. QED
    BY <2>1, <2>2 DEF LocksAreLive, Party, Active
<1>14. RevokedHoldsNothing'
  BY <1>1 DEF RevokedHoldsNothing
<1>15. QED
  BY <1>4, <1>6, <1>7, <1>9, <1>10, <1>13, <1>14 DEF StoreType, StoreInv

\* A transition that closes a session has seen all of its locks held.
LEMMA HeldAll ==
  ASSUME IInv, NEW i \in Invocation, pc[i] \in {"repair", "commit"}, TransitionHolds(i),
         seen[i].ss = "ACTIVE"
  PROVE  /\ seen[i].s # None /\ seen[i].tl \in Link /\ seen[i].tl = session[seen[i].s].linkId
         /\ Roles \ Omitted(i) \subseteq seen[i].held
<1>1. SeenInv(i)
  BY IInvParts DEF LocalInv
<1>2. seen[i].s # None
  BY <1>1 DEF SeenInv
<1>3. TransitionInv(i) /\ seen[i].todo = {}
  BY <1>1, <1>2 DEF SeenInv
<1>4. QED
  BY <1>2, <1>3 DEF TransitionInv, TransitionHolds, StatusHolds

LEMMA UnlockedTypes ==
  ASSUME IInv, NEW i \in Invocation, LocksHold(i)
  PROVE  /\ UnlockedLinks(i) \in [Link -> LinkItem]
         /\ UnlockedEndpoints(i) \in [Endpoint -> EndpointItem]
<1>1. \A l \in Link : UnlockedLinks(i)[l] \in LinkItem
  BY UnlockedLink
<1>2. \A e \in Endpoint : UnlockedEndpoints(i)[e] \in EndpointItem
  BY UnlockedEndpoint
<1>3. QED
  BY <1>1, <1>2 DEF UnlockedLinks, UnlockedEndpoints

\* A transition that releases its locks and writes nothing else.
LEMMA PlainTransition ==
  ASSUME IInv, NEW i \in Invocation, pc[i] \in {"repair", "commit"}, TransitionHolds(i),
         Omitted(i) = {},
         endpoint' = UnlockedEndpoints(i), link' = UnlockedLinks(i), session' = Ended(i),
         UNCHANGED connection
  PROVE  StoreType' /\ StoreInv' /\ Advance
<1> DEFINE v == seen[i]
<1>1. LocksHold(i) /\ connection' \subseteq ConnectionId /\ RevokedHoldsNothing
  BY IInvParts DEF TransitionHolds, StoreType, StoreInv
<1>2. endpoint' \in [Endpoint -> EndpointItem] /\ link' \in [Link -> LinkItem]
  BY <1>1, UnlockedTypes
<1>3. ASSUME NEW l \in Link
      PROVE  \/ link'[l] = link[l]
             \/ /\ link'[l].activeSessionId = None
                /\ link[l].activeSessionId \in {None, v.s}
  BY <1>1, UnlockedLink
<1>4. ASSUME NEW e \in Endpoint
      PROVE  \/ endpoint'[e] = endpoint[e]
             \/ /\ endpoint'[e].activeSessionId = None
                /\ endpoint'[e].revoked => endpoint'[e].connectionId = None
                /\ endpoint[e].activeSessionId \in {None, v.s}
  BY <1>1, UnlockedEndpoint DEF RevokedHoldsNothing
<1>5. ASSUME v.ss = "ACTIVE"
      PROVE  LET l == session[v.s].linkId IN
               /\ link'[l].activeSessionId = None
               /\ endpoint'[LinkController[l]].activeSessionId = None
               /\ endpoint'[LinkCompanion[l]].activeSessionId = None
  <2>1. v.tl \in Link /\ v.tl = session[v.s].linkId /\ Roles \subseteq v.held
    BY <1>5, HeldAll
  <2>2. LinkController[v.tl] \in Endpoint /\ LinkCompanion[v.tl] \in Endpoint
    BY <2>1, RelayStoreAssumption
  <2>3. QED
    BY <1>1, <2>1, <2>2, UnlockedLink, UnlockedEndpoint DEF Roles
<1>6. QED
  BY <1>1, <1>2, <1>3, <1>4, <1>5, TransitionStep

LEMMA CommitCloseStep ==
  ASSUME IInv, NEW i \in Invocation, CommitClose(i)
  PROVE  IInv'
<1>1. Omitted(i) = {} /\ TransitionHolds(i)
  BY DEF CommitClose, CloseHolds, Omitted
<1>2. StoreType' /\ StoreInv' /\ Advance
  BY <1>1, PlainTransition DEF CommitClose
<1>3. LocalType' /\ LocalInv(i)' /\ Others(i)
  BY IInvParts, ReturnStep DEF CommitClose
<1>4. QED
  BY <1>2, <1>3, Compose

LEMMA CommitRepairStep ==
  ASSUME IInv, NEW i \in Invocation, CommitRepair(i)
  PROVE  IInv'
<1>1. req[i].op = "OpenSession" /\ LocalType /\ RequestInv(i) /\ SeenInv(i)
  BY OnlyOpen, IInvParts DEF CommitRepair, LocalInv
<1>2. Omitted(i) = {} /\ TransitionHolds(i)
  BY <1>1 DEF CommitRepair, Omitted
<1>3. StoreType' /\ StoreInv' /\ Advance
  BY <1>2, PlainTransition DEF CommitRepair
<1>4. \A s \in seen[i].stale : session'[s].status # "unused"
  BY <1>1, <1>3 DEF SeenInv, Advance, LocalType, Snapshot
<1>5. LocalType' /\ LocalInv(i)' /\ Others(i)
  BY <1>1, <1>4, RepairedStep DEF CommitRepair
<1>6. QED
  BY <1>3, <1>5, Compose

\* A transition in which the caller also rewrites its own endpoint to ep.
LEMMA OwnEndpointTransition ==
  ASSUME IInv, NEW i \in Invocation, pc[i] = "commit", TransitionHolds(i),
         req[i].op \in {"Connect", "Disconnect", "RevokeEndpoint"},
         NEW ep \in EndpointItem, ep.activeSessionId = None,
         ep.revoked => ep.connectionId = None,
         endpoint[Me(i)].activeSessionId = seen[i].s,
         endpoint' = [UnlockedEndpoints(i) EXCEPT ![Me(i)] = ep],
         link' = UnlockedLinks(i), session' = Ended(i), connection' \subseteq ConnectionId
  PROVE  StoreType' /\ StoreInv' /\ Advance
<1> DEFINE v == seen[i]
<1>1. LocksHold(i) /\ RevokedHoldsNothing /\ LocalType /\ RequestInv(i) /\ SeenInv(i)
  BY IInvParts DEF TransitionHolds, StoreInv, LocalInv
<1>2. Me(i) \in Endpoint
  BY <1>1, MeType
<1>3. UnlockedEndpoints(i) \in [Endpoint -> EndpointItem] /\ link' \in [Link -> LinkItem]
  BY <1>1, UnlockedTypes
<1>4. endpoint' \in [Endpoint -> EndpointItem]
  BY <1>3
<1>5. \A e \in Endpoint : endpoint'[e] = IF e = Me(i) THEN ep ELSE UnlockedEndpoints(i)[e]
  BY <1>3
<1>6. ASSUME NEW l \in Link
      PROVE  \/ link'[l] = link[l]
             \/ /\ link'[l].activeSessionId = None
                /\ link[l].activeSessionId \in {None, v.s}
  BY <1>1, UnlockedLink
<1>7. ASSUME NEW e \in Endpoint
      PROVE  \/ endpoint'[e] = endpoint[e]
             \/ /\ endpoint'[e].activeSessionId = None
                /\ endpoint'[e].revoked => endpoint'[e].connectionId = None
                /\ endpoint[e].activeSessionId \in {None, v.s}
  <2>1. CASE e = Me(i)
    BY <1>5, <2>1
  <2>2. CASE e # Me(i)
    BY <1>1, <1>5, <2>2, UnlockedEndpoint DEF RevokedHoldsNothing
  <2>3. QED
    BY <2>1, <2>2
<1>8. ASSUME v.ss = "ACTIVE"
      PROVE  LET l == session[v.s].linkId IN
               /\ link'[l].activeSessionId = None
               /\ endpoint'[LinkController[l]].activeSessionId = None
               /\ endpoint'[LinkCompanion[l]].activeSessionId = None
  <2>1. /\ v.s # None /\ v.tl \in Link /\ v.tl = session[v.s].linkId
        /\ Roles \ {MyRole(i, v.tl)} \subseteq v.held
    BY <1>1, <1>8, HeldAll DEF Omitted
  <2>2. LinkController[v.tl] \in Endpoint /\ LinkCompanion[v.tl] \in Endpoint
    BY <2>1, RelayStoreAssumption
  <2>3. Party(v.tl, Me(i))
    BY <1>1, <1>8, <2>1 DEF SeenInv, TransitionInv
  <2>4. link'[v.tl].activeSessionId = None
    BY <1>1, <2>1, UnlockedLink DEF Roles, MyRole
  <2>5. endpoint'[LinkController[v.tl]].activeSessionId = None
    BY <1>1, <1>5, <2>1, <2>2, <2>3, UnlockedEndpoint DEF Roles, MyRole, Party
  <2>6. endpoint'[LinkCompanion[v.tl]].activeSessionId = None
    BY <1>1, <1>5, <2>1, <2>2, <2>3, UnlockedEndpoint DEF Roles, MyRole, Party
  <2>7. QED
    BY <2>1, <2>4, <2>5, <2>6
<1>9. QED
  BY <1>1, <1>3, <1>4, <1>6, <1>7, <1>8, TransitionStep

LEMMA CommitConnectStep ==
  ASSUME IInv, NEW i \in Invocation, CommitConnect(i)
  PROVE  IInv'
<1> DEFINE ep == [UnlockedEndpoints(i)[Me(i)] EXCEPT !.connectionId = req[i].c, !.activeSessionId = None]
<1>1. LocalType /\ StoreType /\ RequestInv(i) /\ req[i].op = "Connect" /\ req[i].c \in ConnectionId
  BY IInvParts DEF CommitConnect, LocalInv, RequestInv
<1>2. /\ TransitionHolds(i) /\ LocksHold(i) /\ ~endpoint[Me(i)].revoked
      /\ endpoint[Me(i)].activeSessionId = seen[i].s
  BY DEF CommitConnect, ConnectHolds, TransitionHolds
<1>3. Me(i) \in Endpoint
  BY <1>1, MeType
<1>4. UnlockedEndpoints(i)[Me(i)] \in EndpointItem /\ ~UnlockedEndpoints(i)[Me(i)].revoked
  BY <1>2, <1>3, UnlockedEndpoint
<1>5. ep \in EndpointItem /\ ep.activeSessionId = None /\ ~ep.revoked
  BY <1>1, <1>4 DEF EndpointItem
<1>6. UnlockedEndpoints(i) \in [Endpoint -> EndpointItem]
  BY <1>2, UnlockedTypes
<1>7. endpoint' = [UnlockedEndpoints(i) EXCEPT ![Me(i)] = ep]
  BY <1>3, <1>6 DEF CommitConnect
<1>8. connection' \subseteq ConnectionId
  BY <1>1 DEF CommitConnect, StoreType
<1>9. StoreType' /\ StoreInv' /\ Advance
  BY <1>1, <1>2, <1>5, <1>7, <1>8, OwnEndpointTransition DEF CommitConnect
<1>10. LocalType' /\ LocalInv(i)' /\ Others(i)
  BY <1>1, ReturnStep DEF CommitConnect
<1>11. QED
  BY <1>9, <1>10, Compose

LEMMA CommitDisconnectStep ==
  ASSUME IInv, NEW i \in Invocation, CommitDisconnect(i)
  PROVE  IInv'
<1> DEFINE ep == [UnlockedEndpoints(i)[Me(i)] EXCEPT !.connectionId = None, !.activeSessionId = None]
<1>1. /\ LocalType /\ StoreType /\ RequestInv(i) /\ req[i].op = "Disconnect"
      /\ connection' \subseteq ConnectionId
  BY IInvParts DEF CommitDisconnect, LocalInv, StoreType
<1>2. StoreType' /\ StoreInv' /\ Advance
  <2>1. CASE seen[i].same
    <3>1. /\ TransitionHolds(i) /\ LocksHold(i)
          /\ endpoint[Me(i)].activeSessionId = seen[i].s
      BY <2>1 DEF CommitDisconnect, DisconnectHolds, TransitionHolds
    <3>2. Me(i) \in Endpoint
      BY <1>1, MeType
    <3>3. UnlockedEndpoints(i)[Me(i)] \in EndpointItem
      BY <3>1, <3>2, UnlockedEndpoint
    <3>4. ep \in EndpointItem /\ ep.activeSessionId = None /\ ep.connectionId = None
      BY <3>3 DEF EndpointItem
    <3>5. UnlockedEndpoints(i) \in [Endpoint -> EndpointItem]
      BY <3>1, UnlockedTypes
    <3>6. endpoint' = [UnlockedEndpoints(i) EXCEPT ![Me(i)] = ep]
      BY <2>1, <3>2, <3>5 DEF CommitDisconnect
    <3>7. QED
      BY <1>1, <2>1, <3>1, <3>4, <3>6, OwnEndpointTransition DEF CommitDisconnect
  <2>2. CASE ~seen[i].same
    BY <1>1, <2>2, ItemsStay DEF CommitDisconnect
  <2>3. QED
    BY <2>1, <2>2
<1>3. LocalType' /\ LocalInv(i)' /\ Others(i)
  BY <1>1, ReturnStep DEF CommitDisconnect
<1>4. QED
  BY <1>2, <1>3, Compose

LEMMA CommitRevokeEndpointStep ==
  ASSUME IInv, NEW i \in Invocation, CommitRevokeEndpoint(i)
  PROVE  IInv'
<1> DEFINE ep == [NoEndpoint EXCEPT !.revoked = TRUE]
<1>1. LocalType /\ StoreType /\ connection' \subseteq ConnectionId
  BY IInvParts DEF CommitRevokeEndpoint, StoreType
<1>2. TransitionHolds(i) /\ endpoint[Me(i)].activeSessionId = seen[i].s
  BY DEF CommitRevokeEndpoint, RevokeEndpointHolds
<1>3. ep \in EndpointItem /\ ep.activeSessionId = None /\ ep.connectionId = None
  BY DEF NoEndpoint, EndpointItem
<1>4. StoreType' /\ StoreInv' /\ Advance
  BY <1>1, <1>2, <1>3, OwnEndpointTransition DEF CommitRevokeEndpoint
<1>5. LocalType' /\ LocalInv(i)' /\ Others(i)
  BY <1>1, ReturnStep DEF CommitRevokeEndpoint
<1>6. QED
  BY <1>4, <1>5, Compose

LEMMA CommitRevokeLinkStep ==
  ASSUME IInv, NEW i \in Invocation, CommitRevokeLink(i)
  PROVE  IInv'
<1> DEFINE v == seen[i]
           lk == [revoked |-> TRUE, activeSessionId |-> None]
<1>1. /\ LocalType /\ StoreType /\ RevokedHoldsNothing /\ SeenInv(i)
      /\ req[i].op = "RevokeLink" /\ req[i].l \in Link
  BY IInvParts DEF CommitRevokeLink, LocalInv, RequestInv, StoreInv
<1>2. TransitionHolds(i) /\ LocksHold(i) /\ link[req[i].l].activeSessionId = v.s
  BY DEF CommitRevokeLink, RevokeLinkHolds, TransitionHolds
<1>3. endpoint' \in [Endpoint -> EndpointItem] /\ connection' \subseteq ConnectionId
  BY <1>1, <1>2, UnlockedTypes DEF CommitRevokeLink, StoreType
<1>4. /\ link' \in [Link -> LinkItem]
      /\ \A l \in Link : link'[l] = IF l = req[i].l THEN lk ELSE link[l]
  BY <1>1 DEF CommitRevokeLink, StoreType, LinkItem
<1>5. ASSUME NEW l \in Link
      PROVE  \/ link'[l] = link[l]
             \/ /\ link'[l].activeSessionId = None
                /\ link[l].activeSessionId \in {None, v.s}
  BY <1>2, <1>4
<1>6. ASSUME NEW e \in Endpoint
      PROVE  \/ endpoint'[e] = endpoint[e]
             \/ /\ endpoint'[e].activeSessionId = None
                /\ endpoint'[e].revoked => endpoint'[e].connectionId = None
                /\ endpoint[e].activeSessionId \in {None, v.s}
  BY <1>1, <1>2, UnlockedEndpoint DEF RevokedHoldsNothing, CommitRevokeLink
<1>7. ASSUME v.ss = "ACTIVE"
      PROVE  LET l == session[v.s].linkId IN
               /\ link'[l].activeSessionId = None
               /\ endpoint'[LinkController[l]].activeSessionId = None
               /\ endpoint'[LinkCompanion[l]].activeSessionId = None
  <2>1. /\ v.s # None /\ v.tl \in Link /\ v.tl = session[v.s].linkId
        /\ Roles \ {"link"} \subseteq v.held
    BY <1>1, <1>2, <1>7, HeldAll DEF Omitted, CommitRevokeLink
  <2>2. v.tl = req[i].l
    BY <1>1, <1>7, <2>1 DEF SeenInv, TransitionInv, CommitRevokeLink
  <2>3. LinkController[v.tl] \in Endpoint /\ LinkCompanion[v.tl] \in Endpoint
    BY <2>1, RelayStoreAssumption
  <2>4. QED
    BY <1>2, <1>4, <2>1, <2>2, <2>3, UnlockedEndpoint DEF Roles, CommitRevokeLink
<1>8. StoreType' /\ StoreInv' /\ Advance
  BY <1>2, <1>3, <1>4, <1>5, <1>6, <1>7, TransitionStep DEF CommitRevokeLink
<1>9. LocalType' /\ LocalInv(i)' /\ Others(i)
  BY <1>1, ReturnStep DEF CommitRevokeLink
<1>10. QED
  BY <1>8, <1>9, Compose

LEMMA CommitOpenStep ==
  ASSUME IInv, NEW i \in Invocation, NEW s \in SessionId, CommitOpen(i, s)
  PROVE  IInv'
<1> DEFINE l == req[i].l
           ec == LinkController[l]
           em == LinkCompanion[l]
           it == [status |-> "ACTIVE", expired |-> FALSE, linkId |-> l,
                  controllerConn |-> req[i].c, companionConn |-> seen[i].conn]
           r == [NoRequest EXCEPT !.op = "Reap", !.s = s]
<1>1. /\ LocalType /\ StoreType /\ RequestInv(i) /\ req[i].op = "OpenSession"
      /\ l \in Link /\ req[i].c \in ConnectionId /\ seen[i] \in Snapshot
      /\ SessionInv /\ ActiveHoldsLocks /\ ActiveIsAuthorized /\ LocksAreLive /\ RevokedHoldsNothing
  BY IInvParts DEF CommitOpen, LocalInv, RequestInv, LocalType, StoreInv
<1>2. /\ OpenHolds(i) /\ session[s].status = "unused" /\ s # None
      /\ ec \in Endpoint /\ em \in Endpoint /\ ec # em
  BY <1>1, RelayStoreAssumption DEF CommitOpen
<1>3. it \in SessionItem
  BY <1>1 DEF SessionItem, Snapshot
<1>4. /\ session' \in [SessionId -> SessionItem]
      /\ \A x \in SessionId : session'[x] = IF x = s THEN it ELSE session[x]
  BY <1>1, <1>3 DEF CommitOpen, StoreType
<1>5. /\ link' \in [Link -> LinkItem]
      /\ \A k \in Link : link'[k] = IF k = l THEN [link[k] EXCEPT !.activeSessionId = s] ELSE link[k]
  BY <1>1 DEF CommitOpen, StoreType, LinkItem
<1>6. /\ endpoint' \in [Endpoint -> EndpointItem]
      /\ \A e \in Endpoint :
           endpoint'[e] = IF e \in {ec, em} THEN [endpoint[e] EXCEPT !.activeSessionId = s]
                                            ELSE endpoint[e]
  BY <1>1, <1>2 DEF CommitOpen, StoreType, EndpointItem
<1>7. StoreType'
  BY <1>1, <1>4, <1>5, <1>6 DEF StoreType, CommitOpen
<1>8. Advance
  BY <1>2, <1>4 DEF Advance
<1>9. SessionInv'
  BY <1>1, <1>4 DEF SessionInv, Found
<1>10. /\ ~link[l].revoked /\ link[l].activeSessionId = None
       /\ endpoint[ec].connectionId = req[i].c /\ endpoint[ec].activeSessionId = None /\ ~endpoint[ec].revoked
       /\ endpoint[em].connectionId = seen[i].conn /\ endpoint[em].activeSessionId = None /\ ~endpoint[em].revoked
  BY <1>2 DEF OpenHolds
<1>11. /\ link[l] \in LinkItem /\ endpoint[ec] \in EndpointItem /\ endpoint[em] \in EndpointItem
  BY <1>1, <1>2 DEF StoreType
<1>12. /\ link'[l].activeSessionId = s /\ ~link'[l].revoked
       /\ endpoint'[ec].activeSessionId = s /\ endpoint'[ec].connectionId = req[i].c /\ ~endpoint'[ec].revoked
       /\ endpoint'[em].activeSessionId = s /\ endpoint'[em].connectionId = seen[i].conn /\ ~endpoint'[em].revoked
  BY <1>1, <1>2, <1>5, <1>6, <1>10, <1>11 DEF LinkItem, EndpointItem
<1>13. ASSUME NEW x \in SessionId, x # s, Active(x)
       PROVE  LET k == session[x].linkId IN
                /\ session'[x] = session[x] /\ k \in Link
                /\ link'[k] = link[k]
                /\ endpoint'[LinkController[k]] = endpoint[LinkController[k]]
                /\ endpoint'[LinkCompanion[k]] = endpoint[LinkCompanion[k]]
  <2> DEFINE k == session[x].linkId
  <2>1. k \in Link /\ x # None
    BY <1>1, <1>13, RelayStoreAssumption DEF SessionInv, Active, Found
  <2>2. /\ link[k].activeSessionId = x
        /\ endpoint[LinkController[k]].activeSessionId = x
        /\ endpoint[LinkCompanion[k]].activeSessionId = x
    BY <1>1, <1>13 DEF ActiveHoldsLocks, ControllerOf, CompanionOf
  <2>3. LinkController[k] \in Endpoint /\ LinkCompanion[k] \in Endpoint
    BY <2>1, RelayStoreAssumption
  <2>4. QED
    BY <1>4, <1>5, <1>6, <1>10, <1>13, <2>1, <2>2, <2>3
<1>14. ASSUME NEW x \in SessionId, x # s, Active(x)' PROVE Active(x)
  BY <1>4, <1>14 DEF Active
<1>15. session'[s].linkId = l /\ session'[s].controllerConn = req[i].c /\ session'[s].companionConn = seen[i].conn
  BY <1>4
<1>16. ActiveHoldsLocks'
  <2> SUFFICES ASSUME NEW x \in SessionId, Active(x)'
               PROVE  /\ link'[session'[x].linkId].activeSessionId = x
                      /\ endpoint'[LinkController[session'[x].linkId]].activeSessionId = x
                      /\ endpoint'[LinkCompanion[session'[x].linkId]].activeSessionId = x
    BY DEF ActiveHoldsLocks, ControllerOf, CompanionOf
  <2>1. CASE x = s
    BY <1>12, <1>15, <2>1
  <2>2. CASE x # s
    BY <1>1, <1>13, <1>14, <2>2 DEF ActiveHoldsLocks, ControllerOf, CompanionOf
  <2>3. QED
    BY <2>1, <2>2
<1>17. ActiveIsAuthorized'
  <2> SUFFICES ASSUME NEW x \in SessionId, Active(x)'
               PROVE  /\ ~link'[session'[x].linkId].revoked
                      /\ Current(ControllerOf(x), session[x].controllerConn)'
                      /\ Current(CompanionOf(x), session[x].companionConn)'
    BY DEF ActiveIsAuthorized
  <2>1. CASE x = s
    BY <1>12, <1>15, <2>1 DEF Current, ControllerOf, CompanionOf
  <2>2. CASE x # s
    BY <1>1, <1>13, <1>14, <2>2 DEF ActiveIsAuthorized, Current, ControllerOf, CompanionOf
  <2>3. QED
    BY <2>1, <2>2
<1>18. LocksAreLive'
  <2>1. ASSUME NEW k \in Link, link'[k].activeSessionId # None
        PROVE  LET x == link'[k].activeSessionId IN
                 \/ session'[x].status = "ACTIVE" /\ session'[x].linkId = k
                 \/ session'[x].status = "deleted"
    <3>1. CASE k = l
      BY <1>4, <1>12, <3>1
    <3>2. CASE k # l
      BY <1>1, <1>2, <1>4, <1>5, <2>1, <3>2 DEF LocksAreLive, Active, StoreType, LinkItem
    <3>3. QED
      BY <3>1, <3>2
  <2>2. ASSUME NEW e \in Endpoint, endpoint'[e].activeSessionId # None
        PROVE  LET x == endpoint'[e].activeSessionId IN
                 \/ session'[x].status = "ACTIVE" /\ Party(session'[x].linkId, e)
                 \/ session'[x].status = "deleted"
    <3>1. CASE e \in {ec, em}
      BY <1>4, <1>12, <3>1 DEF Party
    <3>2. CASE e \notin {ec, em}
      BY <1>1, <1>2, <1>4, <1>6, <2>2, <3>2 DEF LocksAreLive, Active, Party, StoreType, EndpointItem
    <3>3. QED
      BY <3>1, <3>2
  <2>3. QED
    BY <2>1, <2>2 DEF LocksAreLive, Active, Party
<1>19. RevokedHoldsNothing'
  BY <1>1, <1>5, <1>6, <1>12 DEF RevokedHoldsNothing
<1>20. LocalType' /\ LocalInv(i)' /\ Others(i)
  <2>1. CASE Return(i)
    BY <1>1, <2>1, ReturnStep
  <2>2. CASE Become(i, "session", r)
    <3>1. r \in Request /\ r.op = "Reap" /\ r.s = s
      BY DEF NoRequest, Request, Ops
    <3>2. /\ LocalType' /\ Others(i)
          /\ pc'[i] = "session" /\ seen'[i] = Blank /\ req'[i] = r
      BY <1>1, <2>2, <3>1, BecomeStep DEF Steps
    <3>3. RequestInv(i)'
      BY <3>1, <3>2 DEF RequestInv, StepsOf
    <3>4. QED
      BY <3>1, <3>2, <3>3, FreshLocal
  <2>3. QED
    BY <2>1, <2>2 DEF CommitOpen
<1>21. StoreInv'
  BY <1>9, <1>16, <1>17, <1>18, <1>19 DEF StoreInv
<1>22. QED
  BY <1>7, <1>8, <1>20, <1>21, Compose

-----------------------------------------------------------------------------
(***************************************************************************)
(* Steps of no invocation.                                                 *)
(***************************************************************************)
LEMMA AllStay ==
  ASSUME IInv, StoreType', StoreInv', Advance, UNCHANGED <<pc, req, seen, tries>>
  PROVE  IInv'
<1>1. LocalType'
  BY IInvParts DEF LocalType
<1>2. \A j \in Invocation : LocalInv(j)'
  BY <1>1, Frame, IInvParts
<1>3. QED
  BY <1>1, <1>2 DEF IInv, TypeOK, StoreType, LocalType, StoreInv, LocalInv

LEMMA RotateEndpointStep ==
  ASSUME IInv, NEW c \in ConnectionId, NEW k \in Credential, RotateEndpoint(c, k)
  PROVE  IInv'
<1>1. /\ StoreType
      /\ SessionInv /\ ActiveHoldsLocks /\ ActiveIsAuthorized /\ LocksAreLive /\ RevokedHoldsNothing
  BY IInvParts DEF StoreInv
<1>2. /\ endpoint' \in [Endpoint -> EndpointItem]
      /\ \A e \in Endpoint : /\ endpoint'[e].connectionId = endpoint[e].connectionId
                             /\ endpoint'[e].activeSessionId = endpoint[e].activeSessionId
                             /\ endpoint'[e].revoked = endpoint[e].revoked
  BY <1>1 DEF RotateEndpoint, StoreType, EndpointItem
<1>3. StoreType' /\ Advance
  BY <1>1, <1>2 DEF RotateEndpoint, StoreType, Advance
<1>4. SessionInv'
  BY <1>1 DEF RotateEndpoint, SessionInv, Found
<1>5. \A s \in SessionId : Active(s) =>
        ControllerOf(s) \in Endpoint /\ CompanionOf(s) \in Endpoint
  BY <1>1, RelayStoreAssumption DEF SessionInv, Found, Active, ControllerOf, CompanionOf
<1>6. ActiveHoldsLocks' /\ ActiveIsAuthorized'
  BY <1>1, <1>2, <1>5
  DEF RotateEndpoint, ActiveHoldsLocks, ActiveIsAuthorized, Active, ControllerOf, CompanionOf, Current
<1>7. LocksAreLive' /\ RevokedHoldsNothing'
  BY <1>1, <1>2 DEF RotateEndpoint, LocksAreLive, RevokedHoldsNothing, Active, Party
<1>8. QED
  BY <1>3, <1>4, <1>6, <1>7, AllStay DEF StoreInv, RotateEndpoint

LEMMA ExpireStep ==
  ASSUME IInv, NEW s \in SessionId, Expire(s)
  PROVE  IInv'
<1>1. /\ StoreType
      /\ SessionInv /\ ActiveHoldsLocks /\ ActiveIsAuthorized /\ LocksAreLive /\ RevokedHoldsNothing
  BY IInvParts DEF StoreInv
<1>2. /\ session' \in [SessionId -> SessionItem]
      /\ \A x \in SessionId : /\ session'[x].status = session[x].status
                              /\ session'[x].linkId = session[x].linkId
                              /\ session'[x].controllerConn = session[x].controllerConn
                              /\ session'[x].companionConn = session[x].companionConn
  BY <1>1 DEF Expire, StoreType, SessionItem
<1>3. StoreType' /\ Advance
  BY <1>1, <1>2 DEF Expire, StoreType, Advance
<1>4. SessionInv' /\ ActiveHoldsLocks' /\ ActiveIsAuthorized' /\ RevokedHoldsNothing'
  BY <1>1, <1>2
  DEF Expire, SessionInv, Found, ActiveHoldsLocks, ActiveIsAuthorized, RevokedHoldsNothing, Active,
      ControllerOf, CompanionOf, Current
<1>5. LocksAreLive'
  BY <1>1, <1>2 DEF Expire, LocksAreLive, Active, Party, StoreType, LinkItem, EndpointItem
<1>6. QED
  BY <1>3, <1>4, <1>5, AllStay DEF StoreInv, Expire

LEMMA SweepSessionStep ==
  ASSUME IInv, NEW s \in SessionId, SweepSession(s)
  PROVE  IInv'
<1>1. /\ StoreType
      /\ SessionInv /\ ActiveHoldsLocks /\ ActiveIsAuthorized /\ LocksAreLive /\ RevokedHoldsNothing
  BY IInvParts DEF StoreInv
<1>2. [NoSession EXCEPT !.status = "deleted"] \in SessionItem
  BY DEF NoSession, SessionItem
<1>3. /\ session' \in [SessionId -> SessionItem]
      /\ session'[s].status = "deleted"
      /\ \A x \in SessionId \ {s} : session'[x] = session[x]
  BY <1>1, <1>2 DEF SweepSession, StoreType, NoSession
<1>4. StoreType'
  BY <1>1, <1>3 DEF SweepSession, StoreType
<1>5. Advance
  BY <1>3 DEF SweepSession, Advance
<1>6. SessionInv' /\ ActiveHoldsLocks' /\ ActiveIsAuthorized' /\ RevokedHoldsNothing'
  BY <1>1, <1>3
  DEF SweepSession, SessionInv, Found, ActiveHoldsLocks, ActiveIsAuthorized, RevokedHoldsNothing, Active,
      ControllerOf, CompanionOf, Current
<1>7. LocksAreLive'
  BY <1>1, <1>3 DEF SweepSession, LocksAreLive, Active, Party, StoreType, LinkItem, EndpointItem
<1>8. QED
  BY <1>4, <1>5, <1>6, <1>7, AllStay DEF StoreInv, SweepSession

LEMMA SweepConnectionStep ==
  ASSUME IInv, NEW c \in ConnectionId, SweepConnection(c)
  PROVE  IInv'
<1>1. connection' \subseteq ConnectionId
  BY IInvParts DEF SweepConnection, StoreType
<1>2. StoreType' /\ StoreInv' /\ Advance
  BY <1>1, ItemsStay DEF SweepConnection
<1>3. QED
  BY <1>2, AllStay DEF SweepConnection

-----------------------------------------------------------------------------
(***************************************************************************)
(* The theorems.                                                           *)
(***************************************************************************)
LEMMA InitIInv == Init => IInv
<1> SUFFICES ASSUME Init PROVE IInv
  OBVIOUS
<1>1. TypeOK
  <2>1. endpoint \in [Endpoint -> EndpointItem]
    <3> DEFINE fresh == {[NoEndpoint EXCEPT !.credential = k] : k \in Credential}
    <3>1. fresh \subseteq EndpointItem
      BY DEF EndpointItem, NoEndpoint
    <3>2. endpoint \in [Endpoint -> fresh]
      BY DEF Init
    <3> HIDE DEF fresh
    <3>3. QED
      BY <3>1, <3>2
  <2>2. session \in [SessionId -> SessionItem] /\ link \in [Link -> LinkItem]
    BY DEF Init, SessionItem, NoSession, LinkItem
  <2>3. QED
    BY <2>1, <2>2, BlankType DEF Init, TypeOK, Steps
<1>2. \A e \in Endpoint : endpoint[e].connectionId = None /\ endpoint[e].activeSessionId = None
                          /\ ~endpoint[e].revoked
  BY DEF Init, NoEndpoint
<1>3. \A s \in SessionId : session[s].status = "unused"
  BY DEF Init, NoSession
<1>4. SessionInv /\ ActiveHoldsLocks /\ ActiveIsAuthorized /\ LocksAreLive /\ RevokedHoldsNothing
  BY <1>2, <1>3
  DEF Init, SessionInv, Found, ActiveHoldsLocks, ActiveIsAuthorized, LocksAreLive, RevokedHoldsNothing, Active
<1>5. ASSUME NEW i \in Invocation PROVE RequestInv(i) /\ SeenInv(i)
  BY DEF Init, RequestInv, SeenInv, NoRequest, Blank, StepsOf
<1>6. QED
  BY <1>1, <1>4, <1>5 DEF IInv

LEMMA StutterIInv == IInv /\ UNCHANGED vars => IInv'
<1> SUFFICES ASSUME IInv, UNCHANGED vars PROVE IInv'
  OBVIOUS
<1>1. UNCHANGED store /\ UNCHANGED <<pc, req, seen, tries>>
  BY DEF vars, store
<1>2. QED
  BY <1>1, ReadOnly, AllStay

LEMMA NextIInv == IInv /\ [Next]_vars => IInv'
<1> SUFFICES ASSUME IInv, [Next]_vars PROVE IInv'
  OBVIOUS
<1>1. ASSUME NEW i \in Invocation, Begin(i) PROVE IInv'
  BY <1>1, BeginStep
<1>2. ASSUME NEW i \in Invocation, NEW s \in SessionId, BeginFrame(i, s) PROVE IInv'
  BY <1>2, BeginFrameStep
<1>3. ASSUME NEW i \in Invocation, Read(i) PROVE IInv'
  BY <1>3, ReadStep
<1>4. ASSUME NEW i \in Invocation, Commit(i) PROVE IInv'
  BY <1>4, CommitConnectStep, CommitDisconnectStep, CommitCloseStep, CommitRevokeLinkStep,
     CommitRevokeEndpointStep, CommitRepairStep, CommitOpenStep
  DEF Commit
<1>5. ASSUME NEW i \in Invocation, RepairConflict(i) \/ Conflict(i) \/ Crash(i) PROVE IInv'
  BY <1>5, RepairConflictStep, ConflictStep, CrashStep
<1>6. ASSUME NEW c \in ConnectionId, SweepConnection(c) \/ \E k \in Credential : RotateEndpoint(c, k)
      PROVE  IInv'
  BY <1>6, SweepConnectionStep, RotateEndpointStep
<1>7. ASSUME NEW s \in SessionId, Expire(s) \/ SweepSession(s) PROVE IInv'
  BY <1>7, ExpireStep, SweepSessionStep
<1>8. CASE UNCHANGED vars
  BY <1>8, StutterIInv
<1>9. QED
  BY <1>1, <1>2, <1>3, <1>4, <1>5, <1>6, <1>7, <1>8 DEF Next

\* The inductive invariant holds in every reachable state: what each invocation
\* has read stays true enough until its transaction (store.go, all operations).
THEOREM Inductive == Spec => []IInv
<1>1. Init => IInv
  BY InitIInv
<1>2. IInv /\ [Next]_vars => IInv'
  BY NextIInv
<1>3. QED
  BY <1>1, <1>2, PTL DEF Spec

\* Every item and every snapshot keeps its shape.
THEOREM TypeCorrect == Spec => []TypeOK
<1>1. IInv => TypeOK
  BY DEF IInv
<1>2. QED
  BY <1>1, Inductive, PTL

\* No link and no endpoint ever serves two sessions: an active session holds its
\* three locks in every reachable state, for any number of invocations.
THEOREM LocksHeld == Spec => []ActiveHoldsLocks
<1>1. IInv => ActiveHoldsLocks
  BY DEF IInv
<1>2. QED
  BY <1>1, Inductive, PTL

\* An active session joins the current connections of unrevoked endpoints over
\* an unrevoked link.
THEOREM ActiveAuthorized == Spec => []ActiveIsAuthorized
<1>1. IInv => ActiveIsAuthorized
  BY DEF IInv
<1>2. QED
  BY <1>1, Inductive, PTL

\* No lock outlives its session, other than one whose item was swept.
THEOREM NoDeadLocks == Spec => []LocksAreLive
<1>1. IInv => LocksAreLive
  BY DEF IInv
<1>2. QED
  BY <1>1, Inductive, PTL

\* A revoked link or endpoint holds no session and no connection.
THEOREM RevocationIsFinal == Spec => []RevokedHoldsNothing
<1>1. IInv => RevokedHoldsNothing
  BY DEF IInv
<1>2. QED
  BY <1>1, Inductive, PTL

=============================================================================
