----------------------------- MODULE RelayStore -----------------------------
(***************************************************************************)
(* The endpoint, connection, link and session records of the rendezvous    *)
(* relay (services/rendezvous-relay/internal/relay/store.go) and every     *)
(* store operation that reads or writes them.                              *)
(*                                                                         *)
(* Each WebSocket event runs as a Lambda invocation of its own.  An        *)
(* invocation reads items of the one DynamoDB table one at a time, each    *)
(* read strongly consistent, and ends in one conditional transaction; when *)
(* a condition fails it starts over, MaxAttempts times at most.  Between   *)
(* any two of these steps other invocations run, the invocation may die,   *)
(* sessions expire and the table's TTL sweep deletes expired items.        *)
(***************************************************************************)
EXTENDS Naturals, FiniteSets

CONSTANTS
  Endpoint,             \* endpoint ids
  Link,                 \* link ids
  ConnectionId,         \* gateway connection ids, each used by one socket
  SessionId,            \* session ids, drawn fresh by every session.open
  Credential,           \* credential hashes
  Invocation,           \* Lambda invocations that run at the same time
  LinkController,       \* [Link -> Endpoint], the link's controller
  LinkCompanion,        \* [Link -> Endpoint], the link's companion
  ConnectionEndpoint,   \* [ConnectionId -> Endpoint], who authenticated it
  MaxAttempts,          \* 5 in the code
  Operations,           \* the operations, and sweeps, in play
  None                  \* an absent attribute

ASSUME RelayStoreAssumption ==
  /\ LinkController \in [Link -> Endpoint]
  /\ LinkCompanion \in [Link -> Endpoint]
  /\ \A l \in Link : LinkController[l] # LinkCompanion[l]
  /\ ConnectionEndpoint \in [ConnectionId -> Endpoint]
  /\ MaxAttempts \in Nat \ {0}
  /\ Operations \subseteq STRING
  /\ None \notin ConnectionId \cup SessionId \cup Link \cup Credential

VARIABLES
  endpoint,     \* ENDPOINT items
  connection,   \* the CONNECTION items stored
  link,         \* LINK items
  session,      \* SESSION items, and what became of the deleted ones
  pc,           \* the next step of each invocation
  req,          \* what each invocation was asked to do
  seen,         \* what each invocation has read in this attempt
  tries         \* attempts that failed on a condition

store == <<endpoint, connection, link, session>>
vars == <<endpoint, connection, link, session, pc, req, seen, tries>>

-----------------------------------------------------------------------------
(***************************************************************************)
(* Items.  A session keeps its link and connections for good; its status   *)
(* adds two values to the code's: "unused" before the item is put and      *)
(* "deleted" once the TTL sweep has removed it.                            *)
(***************************************************************************)
EndpointItem == [connectionId: ConnectionId \cup {None},
                 activeSessionId: SessionId \cup {None},
                 revoked: BOOLEAN, credential: Credential \cup {None}]
LinkItem == [revoked: BOOLEAN, activeSessionId: SessionId \cup {None}]
SessionItem == [status: {"unused", "ACTIVE", "CLOSED", "deleted"},
                expired: BOOLEAN, linkId: Link \cup {None},
                controllerConn: ConnectionId \cup {None},
                companionConn: ConnectionId \cup {None}]

NoEndpoint == [connectionId |-> None, activeSessionId |-> None,
               revoked |-> FALSE, credential |-> None]
NoSession == [status |-> "unused", expired |-> FALSE, linkId |-> None,
              controllerConn |-> None, companionConn |-> None]

(***************************************************************************)
(* An invocation: its request, and what it has read in this attempt.       *)
(***************************************************************************)
Roles == {"link", "controller", "companion"}
Ops == {"none", "Connect", "Disconnect", "OpenSession", "CloseSession",
        "Reap", "RevokeLink", "RevokeEndpoint"}
Steps == {"idle", "connection", "endpoint", "link", "controller", "companion",
          "stale", "frame", "session", "locks", "repair", "commit"}

\* late: the sessions already expired at the time stamped on the operation.
Request == [op: Ops, c: ConnectionId \cup {None}, l: Link \cup {None},
            s: SessionId \cup {None}, cred: Credential \cup {None},
            late: SUBSET SessionId]

\* conn, s: the connection and the session an endpoint or link item named;
\* same: that connection is the invocation's own; ss: the status of the session
\* item ("none": there is none); tl: the link whose locks are released; todo,
\* held: the locks still to read, and those seen held by s; stale: the locks
\* OpenSession has to repair; again: the failed attempts of one repair.
Snapshot == [conn: ConnectionId \cup {None}, same: BOOLEAN,
             s: SessionId \cup {None}, ss: {"none", "ACTIVE", "CLOSED"},
             tl: Link \cup {None}, todo: SUBSET Roles, held: SUBSET Roles,
             stale: SUBSET SessionId, again: Nat]

NoRequest == [op |-> "none", c |-> None, l |-> None, s |-> None,
              cred |-> None, late |-> {}]
Blank == [conn |-> None, same |-> FALSE, s |-> None, ss |-> "none", tl |-> None,
          todo |-> {}, held |-> {}, stale |-> {}, again |-> 0]

TypeOK ==
  /\ endpoint \in [Endpoint -> EndpointItem]
  /\ connection \subseteq ConnectionId
  /\ link \in [Link -> LinkItem]
  /\ session \in [SessionId -> SessionItem]
  /\ pc \in [Invocation -> Steps]
  /\ req \in [Invocation -> Request]
  /\ seen \in [Invocation -> Snapshot]
  /\ tries \in [Invocation -> Nat]

(***************************************************************************)
(* Paired endpoints, none connected yet.                                   *)
(***************************************************************************)
Init ==
  /\ endpoint \in [Endpoint -> {[NoEndpoint EXCEPT !.credential = k] : k \in Credential}]
  /\ connection = {}
  /\ link = [l \in Link |-> [revoked |-> FALSE, activeSessionId |-> None]]
  /\ session = [s \in SessionId |-> NoSession]
  /\ pc = [i \in Invocation |-> "idle"]
  /\ req = [i \in Invocation |-> NoRequest]
  /\ seen = [i \in Invocation |-> Blank]
  /\ tries = [i \in Invocation |-> 0]

-----------------------------------------------------------------------------
(***************************************************************************)
(* Helpers.                                                                *)
(***************************************************************************)
Found(s) == session[s].status \in {"ACTIVE", "CLOSED"}
Status(s) == IF Found(s) THEN session[s].status ELSE "none"
Party(l, e) == e \in {LinkController[l], LinkCompanion[l]}
Me(i) == ConnectionEndpoint[req[i].c]
MyRole(i, l) == IF Me(i) = LinkController[l] THEN "controller" ELSE "companion"

\* currentEndpoint: the caller's connection is its endpoint's current one.
Current(e, c) == ~endpoint[e].revoked /\ endpoint[e].connectionId = c

\* The lock a role of link l holds: attribute activeSessionId of its item.
Lock(role, l) ==
  IF role = "link" THEN link[l].activeSessionId
  ELSE endpoint[IF role = "controller" THEN LinkController[l]
                ELSE LinkCompanion[l]].activeSessionId

FirstStep(op) == IF op = "Disconnect" THEN "connection"
                 ELSE IF op = "OpenSession" THEN "link"
                 ELSE IF op = "Reap" THEN "session" ELSE "endpoint"

\* Invocation i goes on with step p, having read v.
Goto(i, p, v) ==
  /\ pc' = [pc EXCEPT ![i] = p]
  /\ seen' = [seen EXCEPT ![i] = v]
  /\ UNCHANGED <<req, tries>>

\* Invocation i turns to step p of request r; to "idle" when it returns.
Become(i, p, r) ==
  /\ pc' = [pc EXCEPT ![i] = p]
  /\ req' = [req EXCEPT ![i] = r]
  /\ seen' = [seen EXCEPT ![i] = Blank]
  /\ tries' = [tries EXCEPT ![i] = 0]

Return(i) == Become(i, "idle", NoRequest)

\* The next attempt of the operation, or the conflict it reports after the last.
StartOver(i) ==
  IF tries[i] + 1 < MaxAttempts
    THEN /\ pc' = [pc EXCEPT ![i] = FirstStep(req[i].op)]
         /\ seen' = [seen EXCEPT ![i] = Blank]
         /\ tries' = [tries EXCEPT ![i] = @ + 1]
         /\ UNCHANGED req
    ELSE Return(i)

-----------------------------------------------------------------------------
(***************************************************************************)
(* transactSessionTransition: close a session and release its locks.       *)
(***************************************************************************)
\* Start the transition of session s, on link l, read with status ss; omit are
\* the holders whose item the caller's own write covers.
Release(i, s, ss, l, omit) ==
  Goto(i, "locks", [seen[i] EXCEPT !.s = s, !.ss = ss, !.tl = l,
                                   !.todo = Roles \ omit, !.held = {}])

\* The lock items are read one by one: link, controller, companion.
NextRole(todo) == IF "link" \in todo THEN "link"
                  ELSE IF "controller" \in todo THEN "controller" ELSE "companion"

ReadLock(i) ==
  /\ pc[i] = "locks"
  /\ LET v == seen[i]
         role == NextRole(v.todo)
         rest == v.todo \ {role}
         done == IF req[i].op = "OpenSession" THEN "repair" ELSE "commit"
     IN Goto(i, IF rest = {} THEN done ELSE "locks",
             [v EXCEPT !.todo = rest,
                       !.held = IF Lock(role, v.tl) = v.s THEN @ \cup {role} ELSE @])
  /\ UNCHANGED store

\* Its conditions: the session is still active if it was read so, and every
\* lock seen held by it still is.
StatusHolds(i) == seen[i].ss = "ACTIVE" => session[seen[i].s].status = "ACTIVE"
LocksHold(i) == \A role \in seen[i].held : Lock(role, seen[i].tl) = seen[i].s
\* Mutant: locks are released without checking who holds them.
BugTransitionHolds(i) == StatusHolds(i)

TransitionHolds(i) == StatusHolds(i) /\ LocksHold(i)

\* Its writes.
Ended(i) ==
  IF seen[i].ss = "ACTIVE"
    THEN [session EXCEPT ![seen[i].s].status = "CLOSED", ![seen[i].s].expired = FALSE]
    ELSE session
UnlockedLinks(i) ==
  [l \in Link |-> IF "link" \in seen[i].held /\ l = seen[i].tl
                    THEN [link[l] EXCEPT !.activeSessionId = None] ELSE link[l]]
\* Mutant: the companion's lock is forgotten.
BugUnlockedEndpoints(i) ==
  [e \in Endpoint |->
    IF "controller" \in seen[i].held /\ e = LinkController[seen[i].tl]
      THEN [endpoint[e] EXCEPT !.activeSessionId = None] ELSE endpoint[e]]

UnlockedEndpoints(i) ==
  [e \in Endpoint |->
    IF \/ "controller" \in seen[i].held /\ e = LinkController[seen[i].tl]
       \/ "companion" \in seen[i].held /\ e = LinkCompanion[seen[i].tl]
      THEN [endpoint[e] EXCEPT !.activeSessionId = None] ELSE endpoint[e]]

-----------------------------------------------------------------------------
(***************************************************************************)
(* Connect: a socket of an endpoint opens and displaces the previous one.  *)
(***************************************************************************)
\* What Connect does once it has read the endpoint and the connection.
ConnectGoesOn(i, v) ==
  IF v.s # None THEN Goto(i, "session", v)
  ELSE IF v.same THEN Return(i)
  ELSE Goto(i, "commit", v)

ConnectReadsEndpoint(i) ==
  /\ pc[i] = "endpoint" /\ req[i].op = "Connect"
  /\ LET ep == endpoint[Me(i)]
         v == [seen[i] EXCEPT !.conn = ep.connectionId, !.s = ep.activeSessionId]
     IN IF ep.revoked \/ ep.credential # req[i].cred THEN Return(i)
        ELSE IF ep.connectionId = req[i].c THEN Goto(i, "connection", v)
        ELSE ConnectGoesOn(i, v)
  /\ UNCHANGED store

ConnectReadsConnection(i) ==
  /\ pc[i] = "connection" /\ req[i].op = "Connect"
  /\ ConnectGoesOn(i, [seen[i] EXCEPT !.same = req[i].c \in connection])
  /\ UNCHANGED store

ConnectReadsSession(i) ==
  /\ pc[i] = "session" /\ req[i].op = "Connect"
  /\ LET s == seen[i].s
         it == session[s]
         mine == Found(s) /\ Party(it.linkId, Me(i))
         conn == IF Me(i) = LinkController[it.linkId] THEN it.controllerConn ELSE it.companionConn
     IN IF mine /\ seen[i].same /\ Status(s) = "ACTIVE" /\ conn = req[i].c THEN Return(i)
        ELSE IF mine THEN Release(i, s, Status(s), it.linkId, {MyRole(i, it.linkId)})
        ELSE Goto(i, "commit", seen[i])
  /\ UNCHANGED store

\* Mutants: the session or the credential of the endpoint is not checked again.
BugConnectSession(i) ==
  LET ep == endpoint[Me(i)]
  IN /\ ~ep.revoked /\ ep.credential = req[i].cred /\ ep.connectionId = seen[i].conn
     /\ seen[i].same \/ req[i].c \notin connection
     /\ TransitionHolds(i)
BugConnectCredential(i) ==
  LET ep == endpoint[Me(i)]
  IN /\ ~ep.revoked /\ ep.connectionId = seen[i].conn /\ ep.activeSessionId = seen[i].s
     /\ seen[i].same \/ req[i].c \notin connection
     /\ TransitionHolds(i)

ConnectHolds(i) ==
  LET ep == endpoint[Me(i)]
  IN /\ ~ep.revoked
     /\ ep.credential = req[i].cred
     /\ ep.connectionId = seen[i].conn
     /\ ep.activeSessionId = seen[i].s
     /\ seen[i].same \/ req[i].c \notin connection
     /\ TransitionHolds(i)

CommitConnect(i) ==
  /\ pc[i] = "commit" /\ req[i].op = "Connect" /\ ConnectHolds(i)
  /\ endpoint' = [UnlockedEndpoints(i) EXCEPT
                    ![Me(i)].connectionId = req[i].c, ![Me(i)].activeSessionId = None]
  /\ connection' = IF seen[i].same THEN connection
                   ELSE (connection \ {seen[i].conn}) \cup {req[i].c}
  /\ link' = UnlockedLinks(i)
  /\ session' = Ended(i)
  /\ Return(i)

-----------------------------------------------------------------------------
(***************************************************************************)
(* Disconnect: the gateway reports a socket gone, or a post to it failed.  *)
(* Neither is ordered with the other callbacks, and either may come twice. *)
(***************************************************************************)
DisconnectReadsConnection(i) ==
  /\ pc[i] = "connection" /\ req[i].op = "Disconnect"
  /\ IF req[i].c \in connection THEN Goto(i, "endpoint", seen[i]) ELSE Return(i)
  /\ UNCHANGED store

\* A displaced connection (~same) only loses its own item.
DisconnectReadsEndpoint(i) ==
  /\ pc[i] = "endpoint" /\ req[i].op = "Disconnect"
  /\ LET ep == endpoint[Me(i)]
     IN IF ep.connectionId # req[i].c THEN Goto(i, "commit", seen[i])
        ELSE Goto(i, IF ep.activeSessionId = None THEN "commit" ELSE "session",
                  [seen[i] EXCEPT !.same = TRUE, !.s = ep.activeSessionId])
  /\ UNCHANGED store

DisconnectReadsSession(i) ==
  /\ pc[i] = "session" /\ req[i].op = "Disconnect"
  /\ LET s == seen[i].s
         it == session[s]
     IN IF Found(s) /\ req[i].c \in {it.controllerConn, it.companionConn}
          THEN Release(i, s, Status(s), it.linkId, {MyRole(i, it.linkId)})
          ELSE Goto(i, "commit", seen[i])
  /\ UNCHANGED store

DisconnectHolds(i) ==
  /\ req[i].c \in connection
  /\ seen[i].same => /\ endpoint[Me(i)].connectionId = req[i].c
                     /\ endpoint[Me(i)].activeSessionId = seen[i].s
                     /\ TransitionHolds(i)

CommitDisconnect(i) ==
  /\ pc[i] = "commit" /\ req[i].op = "Disconnect" /\ DisconnectHolds(i)
  /\ connection' = connection \ {req[i].c}
  /\ IF seen[i].same
       THEN /\ endpoint' = [UnlockedEndpoints(i) EXCEPT
                              ![Me(i)].connectionId = None, ![Me(i)].activeSessionId = None]
            /\ link' = UnlockedLinks(i)
            /\ session' = Ended(i)
       ELSE UNCHANGED <<endpoint, link, session>>
  /\ Return(i)

-----------------------------------------------------------------------------
(***************************************************************************)
(* CloseSession, for a client, fenced by its connection, or for the relay  *)
(* itself (op "Reap"): a frame found its session expired, or an opened     *)
(* session could not be announced.                                         *)
(***************************************************************************)
\* currentEndpoint at the head of CloseSession, RevokeLink and RevokeEndpoint.
Authorize(i) ==
  /\ pc[i] = "endpoint" /\ req[i].op \in {"CloseSession", "RevokeLink", "RevokeEndpoint"}
  /\ LET s == endpoint[Me(i)].activeSessionId
     IN IF ~Current(Me(i), req[i].c) THEN Return(i)
        ELSE IF req[i].op = "CloseSession" THEN Goto(i, "session", seen[i])
        ELSE IF req[i].op = "RevokeLink" THEN Goto(i, "link", seen[i])
        ELSE Goto(i, IF s = None THEN "commit" ELSE "session", [seen[i] EXCEPT !.s = s])
  /\ UNCHANGED store

\* Session: a frame's session must be active; an expired one is closed.
FrameReadsSession(i) ==
  /\ pc[i] = "frame"
  /\ IF Status(req[i].s) = "ACTIVE" /\ req[i].s \in req[i].late
       THEN Goto(i, "session", seen[i]) ELSE Return(i)
  /\ UNCHANGED store

\* Mutant: the relay, which names no endpoint, is refused as a stranger is.
BugCloseReadsSession(i) ==
  /\ pc[i] = "session" /\ req[i].op \in {"CloseSession", "Reap"}
  /\ LET s == req[i].s
         l == session[s].linkId
     IN IF Found(s) /\ req[i].op = "CloseSession" /\ Party(l, Me(i))
          THEN Release(i, s, Status(s), l, {})
          ELSE Return(i)
  /\ UNCHANGED store

CloseReadsSession(i) ==
  /\ pc[i] = "session" /\ req[i].op \in {"CloseSession", "Reap"}
  /\ LET s == req[i].s
         l == session[s].linkId
     IN IF Found(s) /\ (req[i].op = "CloseSession" => Party(l, Me(i)))
          THEN Release(i, s, Status(s), l, {})
          ELSE Return(i)
  /\ UNCHANGED store

CloseHolds(i) ==
  /\ TransitionHolds(i)
  /\ req[i].op = "CloseSession" => Current(Me(i), req[i].c)

CommitClose(i) ==
  /\ pc[i] = "commit" /\ req[i].op \in {"CloseSession", "Reap"} /\ CloseHolds(i)
  /\ endpoint' = UnlockedEndpoints(i)
  /\ link' = UnlockedLinks(i)
  /\ session' = Ended(i)
  /\ UNCHANGED connection
  /\ Return(i)

-----------------------------------------------------------------------------
(***************************************************************************)
(* RevokeLink, RevokeEndpoint and RotateEndpoint.                          *)
(***************************************************************************)
\* A revoked link has nothing left to do: it holds no session (RevokedHoldsNothing).
RevokeLinkReadsLink(i) ==
  /\ pc[i] = "link" /\ req[i].op = "RevokeLink"
  /\ LET lk == link[req[i].l]
     IN IF ~Party(req[i].l, Me(i)) \/ lk.revoked THEN Return(i)
        ELSE Goto(i, IF lk.activeSessionId = None THEN "commit" ELSE "session",
                  [seen[i] EXCEPT !.s = lk.activeSessionId])
  /\ UNCHANGED store

\* A session that is gone, or of another link, is replaced by a closed one of
\* this link, so that only locks of this link's endpoints are released.
RevokeLinkReadsSession(i) ==
  /\ pc[i] = "session" /\ req[i].op = "RevokeLink"
  /\ LET s == seen[i].s
     IN Release(i, s, IF session[s].linkId = req[i].l THEN Status(s) ELSE "none",
                req[i].l, {"link"})
  /\ UNCHANGED store

\* Mutant: the caller's connection is checked at the head of the call only.
BugRevokeLinkHolds(i) ==
  /\ ~link[req[i].l].revoked
  /\ link[req[i].l].activeSessionId = seen[i].s
  /\ TransitionHolds(i)

RevokeLinkHolds(i) ==
  /\ ~link[req[i].l].revoked
  /\ link[req[i].l].activeSessionId = seen[i].s
  /\ Current(Me(i), req[i].c)
  /\ TransitionHolds(i)

CommitRevokeLink(i) ==
  /\ pc[i] = "commit" /\ req[i].op = "RevokeLink" /\ RevokeLinkHolds(i)
  /\ link' = [link EXCEPT ![req[i].l] = [revoked |-> TRUE, activeSessionId |-> None]]
  /\ endpoint' = UnlockedEndpoints(i)
  /\ session' = Ended(i)
  /\ UNCHANGED connection
  /\ Return(i)

RevokeEndpointReadsSession(i) ==
  /\ pc[i] = "session" /\ req[i].op = "RevokeEndpoint"
  /\ LET s == seen[i].s
         l == session[s].linkId
     IN IF Found(s) /\ Party(l, Me(i))
          THEN Release(i, s, Status(s), l, {MyRole(i, l)})
          ELSE Goto(i, "commit", seen[i])
  /\ UNCHANGED store

RevokeEndpointHolds(i) ==
  /\ Current(Me(i), req[i].c)
  /\ endpoint[Me(i)].activeSessionId = seen[i].s
  /\ TransitionHolds(i)

CommitRevokeEndpoint(i) ==
  /\ pc[i] = "commit" /\ req[i].op = "RevokeEndpoint" /\ RevokeEndpointHolds(i)
  /\ endpoint' = [UnlockedEndpoints(i) EXCEPT ![Me(i)] = [NoEndpoint EXCEPT !.revoked = TRUE]]
  /\ connection' = connection \ {req[i].c}
  /\ link' = UnlockedLinks(i)
  /\ session' = Ended(i)
  /\ Return(i)

\* One conditional update, with nothing read before it.
RotateEndpoint(c, k) ==
  LET e == ConnectionEndpoint[c]
  IN /\ c \in connection /\ Current(e, c)
     /\ endpoint' = [endpoint EXCEPT ![e].credential = k]
     /\ UNCHANGED <<connection, link, session, pc, req, seen, tries>>

-----------------------------------------------------------------------------
(***************************************************************************)
(* OpenSession: read the link and both endpoints, repair the locks of dead *)
(* sessions, and take all three locks for a fresh session.                 *)
(***************************************************************************)
\* Mutant: a free link counts as a stale lock.
BugOpenReadsLink(i) ==
  /\ pc[i] = "link" /\ req[i].op = "OpenSession"
  /\ LET lk == link[req[i].l]
     IN IF lk.revoked \/ LinkController[req[i].l] # Me(i) THEN Return(i)
        ELSE Goto(i, "controller", [seen[i] EXCEPT !.stale = {lk.activeSessionId}])
  /\ UNCHANGED store

OpenReadsLink(i) ==
  /\ pc[i] = "link" /\ req[i].op = "OpenSession"
  /\ LET lk == link[req[i].l]
     IN IF lk.revoked \/ LinkController[req[i].l] # Me(i) THEN Return(i)
        ELSE Goto(i, "controller", [seen[i] EXCEPT !.stale = {lk.activeSessionId} \ {None}])
  /\ UNCHANGED store

OpenReadsController(i) ==
  /\ pc[i] = "controller"
  /\ Goto(i, "companion", [seen[i] EXCEPT
       !.same = Current(Me(i), req[i].c),
       !.stale = @ \cup ({endpoint[Me(i)].activeSessionId} \ {None})])
  /\ UNCHANGED store

\* Locks are repaired first; only without any are the endpoints checked.
OpenReadsCompanion(i) ==
  /\ pc[i] = "companion"
  /\ LET pe == endpoint[LinkCompanion[req[i].l]]
         stale == seen[i].stale \cup ({pe.activeSessionId} \ {None})
     IN IF stale # {} THEN Goto(i, "stale", [Blank EXCEPT !.stale = stale])
        ELSE IF ~seen[i].same \/ pe.revoked \/ pe.connectionId \in {None, req[i].c}
          THEN Return(i)
        ELSE Goto(i, "commit", [seen[i] EXCEPT !.conn = pe.connectionId])
  /\ UNCHANGED store

\* Mutant: a live session is repaired away too.
BugRepairReadsSession(i, s) ==
  /\ pc[i] = "stale" /\ s \in seen[i].stale
  /\ IF Found(s) THEN Goto(i, "session", [seen[i] EXCEPT !.s = s])
     ELSE Release(i, s, "none", req[i].l, {})
  /\ UNCHANGED store

\* repairStaleSession: a live session means the peer is busy; one that is closed
\* or expired is closed by CloseSession; the locks of a deleted one are released.
RepairReadsSession(i, s) ==
  /\ pc[i] = "stale" /\ s \in seen[i].stale
  /\ IF Status(s) = "ACTIVE" /\ s \notin req[i].late THEN Return(i)
     ELSE IF Found(s) THEN Goto(i, "session", [seen[i] EXCEPT !.s = s])
     ELSE Release(i, s, "none", req[i].l, {})
  /\ UNCHANGED store

\* One lock is repaired: go on with the next, then start the operation over.
Repaired(i) ==
  LET rest == seen[i].stale \ {seen[i].s}
  IN IF rest = {} THEN StartOver(i) ELSE Goto(i, "stale", [Blank EXCEPT !.stale = rest])

RepairRereadsSession(i) ==
  /\ pc[i] = "session" /\ req[i].op = "OpenSession"
  /\ LET s == seen[i].s
     IN IF Found(s) THEN Release(i, s, Status(s), session[s].linkId, {}) ELSE Repaired(i)
  /\ UNCHANGED store

CommitRepair(i) ==
  /\ pc[i] = "repair" /\ TransitionHolds(i)
  /\ endpoint' = UnlockedEndpoints(i)
  /\ link' = UnlockedLinks(i)
  /\ session' = Ended(i)
  /\ UNCHANGED connection
  /\ Repaired(i)

\* A lost race is ignored for a deleted session, and retried otherwise.
RepairConflict(i) ==
  /\ pc[i] = "repair" /\ ~TransitionHolds(i)
  /\ LET v == seen[i]
     IN IF v.ss = "none" THEN Repaired(i)
        ELSE IF v.again + 1 = MaxAttempts THEN Return(i)
        ELSE Goto(i, "session", [Blank EXCEPT !.s = v.s, !.stale = v.stale, !.again = v.again + 1])
  /\ UNCHANGED store

\* Mutants: what was read of the link, of the companion's lock or of its
\* connection is not checked again.
BugOpenRevoked(i) ==
  LET l == req[i].l
      ctl == endpoint[LinkController[l]]
      cmp == endpoint[LinkCompanion[l]]
  IN /\ link[l].activeSessionId = None
     /\ ctl.connectionId = req[i].c /\ ctl.activeSessionId = None
     /\ cmp.connectionId = seen[i].conn /\ cmp.activeSessionId = None
BugOpenBusy(i) ==
  LET l == req[i].l
      ctl == endpoint[LinkController[l]]
      cmp == endpoint[LinkCompanion[l]]
  IN /\ ~link[l].revoked /\ link[l].activeSessionId = None
     /\ ctl.connectionId = req[i].c /\ ctl.activeSessionId = None /\ ~ctl.revoked
     /\ cmp.connectionId = seen[i].conn /\ ~cmp.revoked
BugOpenStale(i) ==
  LET l == req[i].l
      ctl == endpoint[LinkController[l]]
      cmp == endpoint[LinkCompanion[l]]
  IN /\ ~link[l].revoked /\ link[l].activeSessionId = None
     /\ ctl.connectionId = req[i].c /\ ctl.activeSessionId = None /\ ~ctl.revoked
     /\ cmp.activeSessionId = None /\ ~cmp.revoked

OpenHolds(i) ==
  LET l == req[i].l
      ctl == endpoint[LinkController[l]]
      cmp == endpoint[LinkCompanion[l]]
  IN /\ ~link[l].revoked /\ link[l].activeSessionId = None
     /\ ctl.connectionId = req[i].c /\ ctl.activeSessionId = None /\ ~ctl.revoked
     /\ cmp.connectionId = seen[i].conn /\ cmp.activeSessionId = None /\ ~cmp.revoked

\* The session is then announced to both sides, and closed when that fails.
CommitOpen(i, s) ==
  /\ pc[i] = "commit" /\ req[i].op = "OpenSession" /\ OpenHolds(i)
  /\ session[s].status = "unused"
  /\ LET l == req[i].l
     IN /\ session' = [session EXCEPT ![s] =
              [status |-> "ACTIVE", expired |-> FALSE, linkId |-> l,
               controllerConn |-> req[i].c, companionConn |-> seen[i].conn]]
        /\ link' = [link EXCEPT ![l].activeSessionId = s]
        /\ endpoint' = [endpoint EXCEPT ![LinkController[l]].activeSessionId = s,
                                        ![LinkCompanion[l]].activeSessionId = s]
  /\ UNCHANGED connection
  /\ \/ Return(i)
     \/ Become(i, "session", [NoRequest EXCEPT !.op = "Reap", !.s = s])

-----------------------------------------------------------------------------
(***************************************************************************)
(* The events that start an operation.  Only a request needs a CONNECTION  *)
(* item (handleDefault, relaySessionFrame); the gateway's own callbacks    *)
(* come in any order.                                                      *)
(***************************************************************************)
Late == {s \in SessionId : session[s].expired}

Callback(c) ==
       {[NoRequest EXCEPT !.op = "Connect", !.c = c, !.cred = k] : k \in Credential}
  \cup {[NoRequest EXCEPT !.op = "Disconnect", !.c = c]}

Message(c) ==
  LET known == {s \in SessionId : session[s].status # "unused"}
  IN   {[NoRequest EXCEPT !.op = "OpenSession", !.c = c, !.l = l, !.late = Late] : l \in Link}
  \cup {[NoRequest EXCEPT !.op = "RevokeLink", !.c = c, !.l = l] : l \in Link}
  \cup {[NoRequest EXCEPT !.op = "CloseSession", !.c = c, !.s = s] : s \in known}
  \cup {[NoRequest EXCEPT !.op = "RevokeEndpoint", !.c = c]}

Begin(i) ==
  /\ pc[i] = "idle"
  /\ \E c \in ConnectionId :
       \E r \in Callback(c) \cup (IF c \in connection THEN Message(c) ELSE {}) :
         r.op \in Operations /\ Become(i, FirstStep(r.op), r)
  /\ UNCHANGED store

\* A frame; its sender does not matter to an expired session.
BeginFrame(i, s) ==
  /\ pc[i] = "idle" /\ "Reap" \in Operations
  /\ connection # {} /\ session[s].status # "unused"
  /\ Become(i, "frame", [NoRequest EXCEPT !.op = "Reap", !.s = s, !.late = Late \cap {s}])
  /\ UNCHANGED store

(***************************************************************************)
(* A transaction cancelled by a condition, a dead invocation, the clock    *)
(* and the TTL sweep.                                                      *)
(***************************************************************************)
Holds(i) ==
  CASE req[i].op = "Connect" -> ConnectHolds(i)
    [] req[i].op = "Disconnect" -> DisconnectHolds(i)
    [] req[i].op \in {"CloseSession", "Reap"} -> CloseHolds(i)
    [] req[i].op = "RevokeLink" -> RevokeLinkHolds(i)
    [] req[i].op = "RevokeEndpoint" -> RevokeEndpointHolds(i)
    [] req[i].op = "OpenSession" -> OpenHolds(i)

Conflict(i) ==
  /\ pc[i] = "commit" /\ ~Holds(i)
  /\ StartOver(i)
  /\ UNCHANGED store

\* A timeout, an error of the database or the end of the process.
Crash(i) ==
  /\ pc[i] # "idle"
  /\ Return(i)
  /\ UNCHANGED store

Expire(s) ==
  /\ session[s].status = "ACTIVE" /\ ~session[s].expired
  /\ session' = [session EXCEPT ![s].expired = TRUE]
  /\ UNCHANGED <<endpoint, connection, link, pc, req, seen, tries>>

SweepSession(s) ==
  /\ \/ session[s].status = "ACTIVE" /\ session[s].expired
     \/ session[s].status = "CLOSED"
  /\ session' = [session EXCEPT ![s] = [NoSession EXCEPT !.status = "deleted"]]
  /\ UNCHANGED <<endpoint, connection, link, pc, req, seen, tries>>

\* A CONNECTION item outlives its socket, so no request of that socket runs.
SweepConnection(c) ==
  /\ "SweepConnection" \in Operations /\ c \in connection
  /\ \A i \in Invocation : req[i].c = c => req[i].op = "Disconnect"
  /\ connection' = connection \ {c}
  /\ UNCHANGED <<endpoint, link, session, pc, req, seen, tries>>

-----------------------------------------------------------------------------
Read(i) ==
  \/ ReadLock(i)
  \/ ConnectReadsEndpoint(i) \/ ConnectReadsConnection(i) \/ ConnectReadsSession(i)
  \/ DisconnectReadsConnection(i) \/ DisconnectReadsEndpoint(i) \/ DisconnectReadsSession(i)
  \/ Authorize(i) \/ FrameReadsSession(i) \/ CloseReadsSession(i)
  \/ RevokeLinkReadsLink(i) \/ RevokeLinkReadsSession(i) \/ RevokeEndpointReadsSession(i)
  \/ OpenReadsLink(i) \/ OpenReadsController(i) \/ OpenReadsCompanion(i)
  \/ (\E s \in SessionId : RepairReadsSession(i, s)) \/ RepairRereadsSession(i)

Commit(i) ==
  \/ CommitConnect(i) \/ CommitDisconnect(i) \/ CommitClose(i)
  \/ CommitRevokeLink(i) \/ CommitRevokeEndpoint(i)
  \/ CommitRepair(i) \/ (\E s \in SessionId : CommitOpen(i, s))

Next ==
  \/ \E i \in Invocation : \/ Begin(i) \/ (\E s \in SessionId : BeginFrame(i, s))
                           \/ Read(i) \/ Commit(i)
                           \/ RepairConflict(i) \/ Conflict(i) \/ Crash(i)
  \/ \E c \in ConnectionId : SweepConnection(c) \/ \E k \in Credential : RotateEndpoint(c, k)
  \/ \E s \in SessionId : Expire(s) \/ SweepSession(s)

Spec == Init /\ [][Next]_vars

-----------------------------------------------------------------------------
(***************************************************************************)
(* Safety.                                                                 *)
(***************************************************************************)
\* The endpoint of session s, per side.
ControllerOf(s) == LinkController[session[s].linkId]
CompanionOf(s) == LinkCompanion[session[s].linkId]
Active(s) == session[s].status = "ACTIVE"

\* An active session holds all three of its locks: its link's and its two
\* endpoints'.  So no link and no endpoint ever serves two sessions at once,
\* whatever store operations ran in between reading a lock and writing it.
ActiveHoldsLocks ==
  \A s \in SessionId : Active(s) =>
    /\ link[session[s].linkId].activeSessionId = s
    /\ endpoint[ControllerOf(s)].activeSessionId = s
    /\ endpoint[CompanionOf(s)].activeSessionId = s

\* An active session's connections are its endpoints' current ones, neither its
\* link nor its endpoints are revoked: a frame that finds its session active
\* comes from, and goes to, the sockets that are entitled to it.
ActiveIsAuthorized ==
  \A s \in SessionId : Active(s) =>
    /\ ~link[session[s].linkId].revoked
    /\ Current(ControllerOf(s), session[s].controllerConn)
    /\ Current(CompanionOf(s), session[s].companionConn)

\* No lock outlives its session: whatever closes a session releases all its
\* locks in the same transaction, so a lock names an active session that owns
\* it, or one whose item the TTL sweep deleted (which session.open repairs).
LocksAreLive ==
  /\ \A l \in Link : LET s == link[l].activeSessionId IN
       s # None => \/ Active(s) /\ session[s].linkId = l
                  \/ session[s].status = "deleted"
  /\ \A e \in Endpoint : LET s == endpoint[e].activeSessionId IN
       s # None => \/ Active(s) /\ Party(session[s].linkId, e)
                  \/ session[s].status = "deleted"

\* What is revoked holds no session and no connection, though a session was
\* opening or a socket connecting when the revocation was written.
RevokedHoldsNothing ==
  /\ \A l \in Link : link[l].revoked => link[l].activeSessionId = None
  /\ \A e \in Endpoint : endpoint[e].revoked =>
       endpoint[e].connectionId = None /\ endpoint[e].activeSessionId = None

\* A lifecycle operation of a client takes effect only while its connection is
\* its endpoint's current one, not merely when it was when the operation began.
FencedLifecycle ==
  [][\A i \in Invocation :
       /\ req[i].op \in {"OpenSession", "CloseSession", "RevokeLink", "RevokeEndpoint"}
       /\ pc[i] = "commit" /\ pc'[i] # pc[i]
       /\ store' # store
       => Current(Me(i), req[i].c)]_vars

\* A live session ends only for cause: it expired, its link is revoked, one of
\* its own sockets is gone or replaced, the relay could not announce it, or one
\* of its two parties closes it over its current connection.  A displaced socket
\* whose disconnect arrives late, or a repair of old locks, ends no live session.
EndsForCause ==
  [][\A s \in SessionId : Active(s) /\ ~Active(s)' =>
       \/ session[s].expired
       \/ link'[session[s].linkId].revoked
       \/ \E e \in {ControllerOf(s), CompanionOf(s)} :
            endpoint'[e].connectionId # endpoint[e].connectionId
       \/ \E i \in Invocation :
            /\ pc[i] = "commit" /\ pc'[i] = "idle"
            /\ \/ req[i].op = "Reap" /\ req[i].s = s
               \/ req[i].op = "Connect" /\ Party(session[s].linkId, Me(i))
               \/ /\ req[i].op = "CloseSession" /\ req[i].s = s
                  /\ Party(session[s].linkId, Me(i)) /\ Current(Me(i), req[i].c)]_vars

\* CloseSession does not give up on a session that lives: when it returns without
\* having died or run out of attempts, the session is no longer active, unless the
\* caller was no party of it.  So a session that could not be announced, or whose
\* frame came too late, is closed by the invocation that found it so, though others
\* repair, close or replace it meanwhile.
ClosesWhatItMust ==
  [][\A i \in Invocation :
       LET s == req[i].s IN
       /\ CloseReadsSession(i) \/ CommitClose(i)
       /\ pc'[i] = "idle" /\ session'[s].status = "ACTIVE"
       => req[i].op = "CloseSession" /\ ~Party(session[s].linkId, Me(i))]_vars

\* A socket takes an endpoint over only with the credential the endpoint has at
\* that moment, though it was rotated or revoked after the credential was checked.
ConnectsWithCurrentCredential ==
  [][\A e \in Endpoint :
       endpoint'[e].connectionId \notin {endpoint[e].connectionId, None} =>
         /\ ~endpoint[e].revoked
         /\ \E i \in Invocation : /\ req[i].op = "Connect" /\ Me(i) = e
                                  /\ req[i].c = endpoint'[e].connectionId
                                  /\ req[i].cred = endpoint[e].credential]_vars

-----------------------------------------------------------------------------
(***************************************************************************)
(* Refinement: the store's interleaved reads and conditional transactions  *)
(* appear to a client as the atomic operations of SessionAuthority.        *)
(***************************************************************************)
LiveSessions ==
  {[id |-> s, link |-> session[s].linkId, controllerConn |-> session[s].controllerConn,
    companionConn |-> session[s].companionConn] : s \in {x \in SessionId : Active(x)}}

Authority == INSTANCE SessionAuthority WITH
  current <- [e \in Endpoint |-> endpoint[e].connectionId],
  live <- LiveSessions,
  opened <- {s \in SessionId : session[s].status # "unused"},
  revokedLinks <- {l \in Link : link[l].revoked},
  revokedEndpoints <- {e \in Endpoint : endpoint[e].revoked}

\* Every run of the store is a run of the abstract specification: each commit is
\* one atomic operation of it, and every read, retry, crash and repair changes
\* nothing a client can tell.
ImplementsAuthority == Authority!Spec

-----------------------------------------------------------------------------
(***************************************************************************)
(* The inductive invariant behind the four state properties: what an       *)
(* invocation has read stays true enough until its transaction.  Statuses  *)
(* only move forward and a session's link and connections never change, so *)
(* a session read active and still active at the transaction was active    *)
(* all along, and every lock read since then was seen held.                *)
(***************************************************************************)
StepsOf(op) ==
  IF op = "none" THEN {"idle"}
  ELSE IF op = "Connect" THEN {"endpoint", "connection", "session", "locks", "commit"}
  ELSE IF op = "Disconnect" THEN {"connection", "endpoint", "session", "locks", "commit"}
  ELSE IF op = "CloseSession" THEN {"endpoint", "session", "locks", "commit"}
  ELSE IF op = "Reap" THEN {"frame", "session", "locks", "commit"}
  ELSE IF op = "RevokeLink" THEN {"endpoint", "link", "session", "locks", "commit"}
  ELSE IF op = "RevokeEndpoint" THEN {"endpoint", "session", "locks", "commit"}
  ELSE {"link", "controller", "companion", "stale", "session", "locks", "repair", "commit"}

\* The lock the caller's own write covers.
Omitted(i) ==
  IF req[i].op = "RevokeLink" THEN {"link"}
  ELSE IF req[i].op \in {"Connect", "Disconnect", "RevokeEndpoint"} THEN {MyRole(i, seen[i].tl)}
  ELSE {}

RequestInv(i) ==
  /\ pc[i] \in StepsOf(req[i].op)
  /\ req[i].op \notin {"none", "Reap"} => req[i].c \in ConnectionId
  /\ req[i].op \in {"OpenSession", "RevokeLink"} => req[i].l \in Link
  /\ req[i].op \in {"CloseSession", "Reap"} => req[i].s \in SessionId

\* The session a lock named is the locked item's own, or deleted since.
NamedInv(i, s) ==
  LET it == session[s] IN
  \/ it.status = "deleted"
  \/ /\ it.status # "unused" /\ it.linkId \in Link
     /\ req[i].op # "RevokeLink" => Party(it.linkId, Me(i))
     /\ req[i].op = "RevokeLink" => it.linkId = req[i].l
     /\ req[i].op = "Disconnect" => req[i].c \in {it.controllerConn, it.companionConn}

\* What a transition has gathered.
TransitionInv(i) ==
  LET v == seen[i]
      status == session[v.s].status
  IN /\ v.ss = "none" => status = "deleted"
     /\ v.ss = "CLOSED" => status \in {"CLOSED", "deleted"}
     /\ v.ss = "ACTIVE" => /\ status # "unused"
                           /\ status = "ACTIVE" =>
                                /\ v.tl = session[v.s].linkId
                                /\ Roles \ (v.todo \cup Omitted(i)) \subseteq v.held
     /\ pc[i] = "locks" \/ v.ss # "none" =>
          /\ v.tl \in Link
          /\ req[i].op \in {"Connect", "Disconnect", "RevokeEndpoint"} => Party(v.tl, Me(i))
          /\ req[i].op = "RevokeLink" => v.tl = req[i].l

SeenInv(i) ==
  LET v == seen[i]
  IN /\ pc[i] = "locks" <=> v.todo # {}
     /\ \/ pc[i] \in {"endpoint", "link", "controller", "companion"}
        \/ pc[i] = "connection" /\ req[i].op = "Disconnect"
        => v.s = None
     /\ \A s \in v.stale : session[s].status # "unused"
     /\ pc[i] \in {"locks", "repair"} => v.s # None
     /\ pc[i] = "repair" \/ v.held # {} => v.tl \in Link
     /\ v.s = None \/ pc[i] \notin {"locks", "repair", "commit"} => v.ss = "none" /\ v.held = {}
     /\ /\ pc[i] \in {"connection", "session"} /\ v.s # None
        /\ req[i].op \in {"Connect", "Disconnect", "RevokeLink", "RevokeEndpoint"}
        => NamedInv(i, v.s)
     /\ pc[i] = "session" /\ req[i].op \notin {"CloseSession", "Reap"} => v.s # None
     /\ pc[i] \in {"locks", "repair", "commit"} /\ v.s # None => TransitionInv(i)

SessionInv == \A s \in SessionId : Found(s) => session[s].linkId \in Link

IInv ==
  /\ TypeOK /\ SessionInv
  /\ ActiveHoldsLocks /\ ActiveIsAuthorized /\ LocksAreLive /\ RevokedHoldsNothing
  /\ \A i \in Invocation : RequestInv(i) /\ SeenInv(i)

\* A session that is not live, or only until its expiry is acted on.
Spent(s) == session[s].status # "unused" /\ (Active(s) => session[s].expired)

\* Only a live session is waiting for its expiry to be acted on.
ExpiryInv == \A s \in SessionId : session[s].expired => Active(s)

\* What the action properties need besides: an invocation still does what its
\* request entitles it to, and repairs nothing that lives.
PurposeInv ==
  ExpiryInv /\ \A i \in Invocation : LET v == seen[i] IN
    /\ \A s \in req[i].late : Spent(s)
    /\ req[i].op = "OpenSession" /\ pc[i] # "link" => Me(i) = LinkController[req[i].l]
    /\ req[i].op = "OpenSession" /\ pc[i] \in {"session", "locks", "repair"} => Spent(v.s)
    /\ req[i].op = "OpenSession" /\ pc[i] = "commit" => v.conn # None
    /\ req[i].op \in {"CloseSession", "Reap"} /\ pc[i] \in {"locks", "commit"} =>
         /\ v.s = req[i].s
         /\ req[i].op = "CloseSession" => Party(v.tl, Me(i))

=============================================================================
