------------------------ MODULE RelayStoreRefinement ------------------------
(***************************************************************************)
(* RelayStore implements SessionAuthority, for any number of endpoints,    *)
(* links, sessions and concurrent invocations: every commit is one step of *)
(* the atomic specification, and every other step changes nothing it sees. *)
(***************************************************************************)
EXTENDS RelayStoreStepProofs

\* What SessionAuthority sees of the store.
Sockets == [e \in Endpoint |-> endpoint[e].connectionId]
Opened == {s \in SessionId : session[s].status # "unused"}
RevokedLinks == {l \in Link : link[l].revoked}
RevokedEndpoints == {e \in Endpoint : endpoint[e].revoked}
Live(s) == [id |-> s, link |-> session[s].linkId, controllerConn |-> session[s].controllerConn,
            companionConn |-> session[s].companionConn]

LEMMA LiveMembers ==
  /\ \A s \in SessionId : Active(s) => Live(s) \in LiveSessions
  /\ \A r \in LiveSessions : \E s \in SessionId : Active(s) /\ r = Live(s)
  BY DEF LiveSessions, Live

\* The live sessions left when those in K end.
LEMMA LiveShrinks ==
  ASSUME NEW K,
         \A s \in SessionId : Active(s)' <=> Active(s) /\ s \notin K,
         \A s \in SessionId : Active(s)' => Live(s)' = Live(s)
  PROVE  LiveSessions' = {r \in LiveSessions : r.id \notin K}
<1>1. ASSUME NEW r \in LiveSessions' PROVE r \in LiveSessions /\ r.id \notin K
  <2>1. PICK s \in SessionId : Active(s)' /\ r = Live(s)'
    BY <1>1 DEF LiveSessions, Live
  <2>2. QED
    BY <2>1, LiveMembers DEF Live
<1>2. ASSUME NEW r \in LiveSessions, r.id \notin K PROVE r \in LiveSessions'
  <2>1. PICK s \in SessionId : Active(s) /\ r = Live(s)
    BY <1>2, LiveMembers
  <2>2. Active(s)' /\ r = Live(s)'
    BY <1>2, <2>1 DEF Live
  <2>3. QED
    BY <2>2 DEF LiveSessions, Live
<1>3. QED
  BY <1>1, <1>2

LEMMA LiveStays ==
  ASSUME \A s \in SessionId : Active(s)' <=> Active(s),
         \A s \in SessionId : Active(s)' => Live(s)' = Live(s)
  PROVE  LiveSessions' = LiveSessions
<1>1. LiveSessions = {Live(s) : s \in {x \in SessionId : Active(x)}}
  BY DEF LiveSessions, Live
<1>2. LiveSessions' = {Live(s)' : s \in {x \in SessionId : Active(x)'}}
  BY DEF LiveSessions, Live
<1>3. QED
  BY <1>1, <1>2

\* A closing transition, and what SessionAuthority sees of it.
LEMMA EndedView ==
  ASSUME StoreType, NEW i \in Invocation, session' = Ended(i), StatusHolds(i)
  PROVE  /\ Opened' = Opened
         /\ \A s \in SessionId : Active(s)' => Active(s) /\ Live(s)' = Live(s)
         /\ \A s \in SessionId : Active(s) /\ ~Active(s)' => s = seen[i].s /\ seen[i].ss = "ACTIVE"
<1>1. \A s \in SessionId :
        \/ session'[s] = session[s]
        \/ /\ s = seen[i].s /\ seen[i].ss = "ACTIVE"
           /\ session[s].status = "ACTIVE" /\ session'[s].status = "CLOSED"
  BY DEF Ended, StoreType, SessionItem, StatusHolds
<1>2. QED
  BY <1>1 DEF Active, Live, Opened

LEMMA UnlockedView ==
  ASSUME StoreType, NEW i \in Invocation
  PROVE  /\ \A e \in Endpoint : /\ UnlockedEndpoints(i)[e].connectionId = endpoint[e].connectionId
                                /\ UnlockedEndpoints(i)[e].revoked = endpoint[e].revoked
         /\ \A l \in Link : UnlockedLinks(i)[l].revoked = link[l].revoked
         /\ UnlockedEndpoints(i) \in [Endpoint -> EndpointItem]
         /\ UnlockedLinks(i) \in [Link -> LinkItem]
  BY DEF UnlockedEndpoints, UnlockedLinks, StoreType, EndpointItem, LinkItem

\* A step that changes none of the five is a stutter.
LEMMA Stutters ==
  ASSUME Sockets' = Sockets, LiveSessions' = LiveSessions, Opened' = Opened,
         RevokedLinks' = RevokedLinks, RevokedEndpoints' = RevokedEndpoints
  PROVE  UNCHANGED Authority!vars
  BY DEF Authority!vars, Sockets, Opened, RevokedLinks, RevokedEndpoints

\* An active session of e holds e's lock, and joins its current connection.
LEMMA PartyHolds ==
  ASSUME IInv, NEW s \in SessionId, Active(s), NEW e \in Endpoint, Party(session[s].linkId, e)
  PROVE  endpoint[e].activeSessionId = s
  BY DEF IInv, ActiveHoldsLocks, Party, ControllerOf, CompanionOf

LEMMA AuthorityEnds ==
  ASSUME NEW l, NEW e
  PROVE  e \in Authority!Ends(l) <=> Party(l, e)
  BY DEF Authority!Ends, Party

-----------------------------------------------------------------------------
(***************************************************************************)
(* One lemma per commit.                                                   *)
(***************************************************************************)
LEMMA AttachSteps ==
  ASSUME NEW e \in Endpoint, NEW c \in ConnectionId, Authority!Attach(e, c)
  PROVE  Authority!Next
  BY DEF Authority!Next

LEMMA DetachSteps ==
  ASSUME NEW e \in Endpoint, Authority!Detach(e)
  PROVE  Authority!Next
  BY DEF Authority!Next

LEMMA RevokeEndpointSteps ==
  ASSUME NEW e \in Endpoint, Authority!RevokeEndpoint(e)
  PROVE  Authority!Next
  BY DEF Authority!Next

LEMMA LinkSteps ==
  ASSUME NEW l \in Link, Authority!RevokeLink(l) \/ \E s \in SessionId : Authority!Open(l, s)
  PROVE  Authority!Next
  BY DEF Authority!Next

\* What a transition releases leaves the other three views alone.
LEMMA UnlockedStays ==
  ASSUME StoreType, NEW i \in Invocation, endpoint' = UnlockedEndpoints(i), link' = UnlockedLinks(i)
  PROVE  Sockets' = Sockets /\ RevokedLinks' = RevokedLinks /\ RevokedEndpoints' = RevokedEndpoints
  BY UnlockedView DEF Sockets, RevokedLinks, RevokedEndpoints

\* The end of one session is Close, if it was active, or a stutter.
LEMMA OneEnds ==
  ASSUME NEW s \in SessionId,
         Sockets' = Sockets, RevokedLinks' = RevokedLinks, RevokedEndpoints' = RevokedEndpoints,
         Opened' = Opened,
         \A x \in SessionId : Active(x)' => Active(x) /\ Live(x)' = Live(x),
         \A x \in SessionId : Active(x) /\ ~Active(x)' => x = s
  PROVE  [Authority!Next]_(Authority!vars)
<1>1. CASE Active(s) /\ ~Active(s)'
  <2>1. \A x \in SessionId : Active(x)' <=> Active(x) /\ x \notin {s}
    BY <1>1
  <2>2. LiveSessions' = {r \in LiveSessions : r.id \notin {s}}
    BY <2>1, LiveShrinks
  <2>3. Live(s) \in LiveSessions /\ \A r \in LiveSessions : r.id = s <=> r = Live(s)
    BY <1>1, LiveMembers DEF Live
  <2>4. LiveSessions' = LiveSessions \ {Live(s)}
    BY <2>2, <2>3
  <2>5. Authority!Close(Live(s))
    BY <2>4 DEF Authority!Close, Sockets, Opened, RevokedLinks, RevokedEndpoints
  <2>6. QED
    BY <2>3, <2>5 DEF Authority!Next
<1>2. CASE ~(Active(s) /\ ~Active(s)')
  <2>1. LiveSessions' = LiveSessions
    BY <1>2, LiveStays
  <2>2. QED
    BY <2>1, Stutters
<1>3. QED
  BY <1>1, <1>2

LEMMA ClosesRefine ==
  ASSUME IInv, NEW i \in Invocation, CommitClose(i) \/ CommitRepair(i)
  PROVE  [Authority!Next]_(Authority!vars)
<1>1. /\ StoreType /\ session' = Ended(i) /\ StatusHolds(i)
      /\ endpoint' = UnlockedEndpoints(i) /\ link' = UnlockedLinks(i)
  BY IInvParts DEF CommitClose, CommitRepair, CloseHolds, TransitionHolds
<1>2. seen[i].s \in SessionId \cup {None}
  BY IInvParts DEF LocalType, Snapshot
<1>3. CASE seen[i].s \in SessionId
  BY <1>1, <1>3, EndedView, UnlockedStays, OneEnds
<1>4. CASE seen[i].s = None
  <2>1. session' = session
    BY <1>1, <1>4, RelayStoreAssumption DEF Ended, StoreType
  <2>2. LiveSessions' = LiveSessions /\ Opened' = Opened
    BY <2>1 DEF LiveSessions, Opened, Active
  <2>3. QED
    BY <1>1, <2>2, UnlockedStays, Stutters
<1>5. QED
  BY <1>2, <1>3, <1>4

\* An endpoint that holds no lock any more has no live session; the others keep
\* theirs.
LEMMA EndpointLoses ==
  ASSUME IInv, IInv', NEW e \in Endpoint, endpoint'[e].activeSessionId = None,
         \A x \in SessionId : Active(x)' => Active(x) /\ Live(x)' = Live(x),
         \A x \in SessionId : Active(x) /\ ~Active(x)' => Party(session[x].linkId, e)
  PROVE  LiveSessions' = Authority!LiveWithout(e)
<1> DEFINE K == {x \in SessionId : Party(session[x].linkId, e)}
<1>1. ASSUME NEW x \in SessionId, Active(x)' PROVE x \notin K
  <2>1. session'[x].linkId = session[x].linkId
    BY <1>1 DEF Live
  <2>2. Party(session'[x].linkId, e) => endpoint'[e].activeSessionId = x
    BY <1>1 DEF IInv, ActiveHoldsLocks, Party, ControllerOf, CompanionOf
  <2>3. x # None
    BY <1>1, RelayStoreAssumption
  <2>4. QED
    BY <2>1, <2>2, <2>3 DEF Party
<1>2. \A x \in SessionId : Active(x)' <=> Active(x) /\ x \notin K
  BY <1>1
<1>3. LiveSessions' = {r \in LiveSessions : r.id \notin K}
  BY <1>2, LiveShrinks
<1>4. \A r \in LiveSessions : r.id \notin K <=> e \notin Authority!Ends(r.link)
  <2> SUFFICES ASSUME NEW r \in LiveSessions PROVE r.id \notin K <=> e \notin Authority!Ends(r.link)
    OBVIOUS
  <2>1. PICK s \in SessionId : r = Live(s)
    BY LiveMembers
  <2>2. r.id = s /\ r.link = session[s].linkId
    BY <2>1 DEF Live
  <2>3. QED
    BY <2>2, AuthorityEnds
<1>5. QED
  BY <1>3, <1>4 DEF Authority!LiveWithout

LEMMA ConnectRefines ==
  ASSUME IInv, IInv', NEW i \in Invocation, CommitConnect(i)
  PROVE  [Authority!Next]_(Authority!vars)
<1> DEFINE e == Me(i)
           u == UnlockedEndpoints(i)
<1>1. /\ StoreType /\ LocalInv(i) /\ session' = Ended(i) /\ StatusHolds(i) /\ link' = UnlockedLinks(i)
      /\ req[i].op = "Connect" /\ pc[i] = "commit" /\ ~endpoint[e].revoked
  BY IInvParts DEF CommitConnect, ConnectHolds, TransitionHolds
<1>2. req[i].c \in ConnectionId /\ e \in Endpoint
  BY <1>1, RelayStoreAssumption DEF LocalInv, RequestInv, Me
<1>3. endpoint' = [u EXCEPT ![e].connectionId = req[i].c, ![e].activeSessionId = None]
  BY DEF CommitConnect
<1>4. /\ u \in [Endpoint -> EndpointItem]
      /\ \A x \in Endpoint : /\ u[x].connectionId = endpoint[x].connectionId
                             /\ u[x].revoked = endpoint[x].revoked
  BY <1>1, UnlockedView
<1> HIDE DEF e, u
<1>5. endpoint'[e].activeSessionId = None
  BY <1>2, <1>3, <1>4 DEF EndpointItem
<1>6. /\ Sockets' = [Sockets EXCEPT ![e] = req[i].c]
      /\ RevokedEndpoints' = RevokedEndpoints
  BY <1>2, <1>3, <1>4 DEF Sockets, RevokedEndpoints, EndpointItem
<1>7. RevokedLinks' = RevokedLinks
  BY <1>1, UnlockedView DEF RevokedLinks
<1>8. /\ Opened' = Opened
      /\ \A x \in SessionId : Active(x)' => Active(x) /\ Live(x)' = Live(x)
      /\ \A x \in SessionId : Active(x) /\ ~Active(x)' => Party(session[x].linkId, e)
  BY <1>1, EndedView, ClosingKnows DEF e
<1>9. LiveSessions' = Authority!LiveWithout(e)
  BY <1>2, <1>5, <1>8, EndpointLoses
<1>10. PICK x \in Endpoint, c \in ConnectionId : x = e /\ c = req[i].c
  BY <1>2
<1>11. Authority!Attach(x, c)
  BY <1>1, <1>6, <1>7, <1>8, <1>9, <1>10
  DEF Authority!Attach, Authority!LiveWithout, e, Sockets, Opened, RevokedLinks, RevokedEndpoints
<1>12. QED
  BY <1>11, AttachSteps

LEMMA DisconnectRefines ==
  ASSUME IInv, IInv', NEW i \in Invocation, CommitDisconnect(i)
  PROVE  [Authority!Next]_(Authority!vars)
<1> DEFINE e == Me(i)
           u == UnlockedEndpoints(i)
<1>1. StoreType /\ LocalInv(i) /\ req[i].op = "Disconnect" /\ pc[i] = "commit"
  BY IInvParts DEF CommitDisconnect
<1>2. e \in Endpoint
  BY <1>1, RelayStoreAssumption DEF LocalInv, RequestInv, Me
<1>3. CASE ~seen[i].same
  <2>1. UNCHANGED <<endpoint, link, session>>
    BY <1>3 DEF CommitDisconnect
  <2>2. QED
    BY <2>1, Stutters DEF Sockets, LiveSessions, Active, Opened, RevokedLinks, RevokedEndpoints
<1>4. CASE seen[i].same
  <2>1. session' = Ended(i) /\ StatusHolds(i) /\ link' = UnlockedLinks(i)
    BY <1>4 DEF CommitDisconnect, DisconnectHolds, TransitionHolds
  <2>2. endpoint' = [u EXCEPT ![e].connectionId = None, ![e].activeSessionId = None]
    BY <1>4 DEF CommitDisconnect
  <2>3. /\ u \in [Endpoint -> EndpointItem]
        /\ \A x \in Endpoint : /\ u[x].connectionId = endpoint[x].connectionId
                               /\ u[x].revoked = endpoint[x].revoked
    BY <1>1, UnlockedView
  <2> HIDE DEF e, u
  <2>4. endpoint'[e].activeSessionId = None
    BY <1>2, <2>2, <2>3 DEF EndpointItem
  <2>5. /\ Sockets' = [Sockets EXCEPT ![e] = None]
        /\ RevokedEndpoints' = RevokedEndpoints
    BY <1>2, <2>2, <2>3 DEF Sockets, RevokedEndpoints, EndpointItem
  <2>6. RevokedLinks' = RevokedLinks
    BY <1>1, <2>1, UnlockedView DEF RevokedLinks
  <2>7. /\ Opened' = Opened
        /\ \A x \in SessionId : Active(x)' => Active(x) /\ Live(x)' = Live(x)
        /\ \A x \in SessionId : Active(x) /\ ~Active(x)' => Party(session[x].linkId, e)
    BY <1>1, <2>1, EndedView, ClosingKnows DEF e
  <2>8. LiveSessions' = Authority!LiveWithout(e)
    BY <1>2, <2>4, <2>7, EndpointLoses
  <2>9. PICK x \in Endpoint : x = e
    BY <1>2
  <2>10. Authority!Detach(x)
    BY <2>5, <2>6, <2>7, <2>8, <2>9
    DEF Authority!Detach, Authority!LiveWithout, Sockets, Opened, RevokedLinks, RevokedEndpoints
  <2>11. QED
    BY <2>10, DetachSteps
<1>5. QED
  BY <1>3, <1>4

LEMMA RevokeEndpointRefines ==
  ASSUME IInv, IInv', NEW i \in Invocation, CommitRevokeEndpoint(i)
  PROVE  [Authority!Next]_(Authority!vars)
<1> DEFINE e == Me(i)
           u == UnlockedEndpoints(i)
<1>1. /\ StoreType /\ LocalInv(i) /\ session' = Ended(i) /\ StatusHolds(i) /\ link' = UnlockedLinks(i)
      /\ req[i].op = "RevokeEndpoint" /\ pc[i] = "commit"
  BY IInvParts DEF CommitRevokeEndpoint, RevokeEndpointHolds, TransitionHolds
<1>2. e \in Endpoint
  BY <1>1, RelayStoreAssumption DEF LocalInv, RequestInv, Me
<1>3. endpoint' = [u EXCEPT ![e] = [NoEndpoint EXCEPT !.revoked = TRUE]]
  BY DEF CommitRevokeEndpoint
<1>4. /\ u \in [Endpoint -> EndpointItem]
      /\ \A x \in Endpoint : /\ u[x].connectionId = endpoint[x].connectionId
                             /\ u[x].revoked = endpoint[x].revoked
  BY <1>1, UnlockedView
<1> HIDE DEF e, u
<1>5. endpoint'[e].activeSessionId = None
  BY <1>2, <1>3, <1>4 DEF NoEndpoint
<1>6. /\ Sockets' = [Sockets EXCEPT ![e] = None]
      /\ RevokedEndpoints' = RevokedEndpoints \cup {e}
  BY <1>2, <1>3, <1>4 DEF Sockets, RevokedEndpoints, NoEndpoint
<1>7. RevokedLinks' = RevokedLinks
  BY <1>1, UnlockedView DEF RevokedLinks
<1>8. /\ Opened' = Opened
      /\ \A x \in SessionId : Active(x)' => Active(x) /\ Live(x)' = Live(x)
      /\ \A x \in SessionId : Active(x) /\ ~Active(x)' => Party(session[x].linkId, e)
  BY <1>1, EndedView, ClosingKnows DEF e
<1>9. LiveSessions' = Authority!LiveWithout(e)
  BY <1>2, <1>5, <1>8, EndpointLoses
<1>10. PICK x \in Endpoint : x = e
  BY <1>2
<1>11. Authority!RevokeEndpoint(x)
  BY <1>6, <1>7, <1>8, <1>9, <1>10
  DEF Authority!RevokeEndpoint, Authority!LiveWithout, Sockets, Opened, RevokedLinks, RevokedEndpoints
<1>12. QED
  BY <1>11, RevokeEndpointSteps

\* A session on a revoked link ends with it: by ActiveIsAuthorized afterwards,
\* none is left, and by ClosingKnows no other session has ended.
LEMMA RevokeLinkRefines ==
  ASSUME IInv, IInv', NEW i \in Invocation, CommitRevokeLink(i)
  PROVE  [Authority!Next]_(Authority!vars)
<1>1. /\ StoreType /\ LocalInv(i) /\ session' = Ended(i) /\ StatusHolds(i)
      /\ endpoint' = UnlockedEndpoints(i) /\ req[i].op = "RevokeLink" /\ pc[i] = "commit"
  BY IInvParts DEF CommitRevokeLink, RevokeLinkHolds, TransitionHolds
<1>2. req[i].l \in Link
  BY <1>1 DEF LocalInv, RequestInv
<1>3. PICK l \in Link : l = req[i].l
  BY <1>2
<1>4. link' = [link EXCEPT ![l] = [revoked |-> TRUE, activeSessionId |-> None]]
  BY <1>3 DEF CommitRevokeLink
<1>5. RevokedLinks' = RevokedLinks \cup {l}
  BY <1>1, <1>4 DEF RevokedLinks, StoreType
<1>6. Sockets' = Sockets /\ RevokedEndpoints' = RevokedEndpoints
  BY <1>1, UnlockedView DEF Sockets, RevokedEndpoints
<1>7. /\ Opened' = Opened
      /\ \A x \in SessionId : Active(x)' => Active(x) /\ Live(x)' = Live(x)
      /\ \A x \in SessionId : Active(x) /\ ~Active(x)' => session[x].linkId = l
  BY <1>1, <1>3, EndedView, ClosingKnows
<1> DEFINE K == {x \in SessionId : session[x].linkId = l}
<1>8. ASSUME NEW x \in SessionId, Active(x)' PROVE x \notin K
  <2>1. ~link'[session'[x].linkId].revoked
    BY <1>8 DEF IInv, ActiveIsAuthorized
  <2>2. session'[x].linkId = session[x].linkId
    BY <1>7, <1>8 DEF Live
  <2>3. link'[l].revoked
    BY <1>1, <1>4 DEF StoreType
  <2>4. QED
    BY <2>1, <2>2, <2>3
<1>9. \A x \in SessionId : Active(x)' <=> Active(x) /\ x \notin K
  BY <1>7, <1>8
<1>10. LiveSessions' = {r \in LiveSessions : r.id \notin K}
  BY <1>7, <1>9, LiveShrinks
<1>11. \A r \in LiveSessions : r.id \notin K <=> r.link # l
  BY LiveMembers DEF Live
<1>12. Authority!RevokeLink(l)
  BY <1>5, <1>6, <1>7, <1>10, <1>11
  DEF Authority!RevokeLink, Sockets, Opened, RevokedLinks, RevokedEndpoints
<1>13. QED
  BY <1>12, LinkSteps

\* Two free locks mean two idle endpoints.
LEMMA OpenRefines ==
  ASSUME IInv, PurposeInv, NEW i \in Invocation, NEW s \in SessionId, CommitOpen(i, s)
  PROVE  [Authority!Next]_(Authority!vars)
<1>1. /\ StoreType /\ LocalInv(i) /\ Purpose(i) /\ OpenHolds(i)
      /\ req[i].op = "OpenSession" /\ pc[i] = "commit" /\ session[s].status = "unused"
  BY IInvParts, PurposeParts DEF CommitOpen
<1>2. req[i].l \in Link /\ req[i].c # None /\ seen[i].conn # None
  BY <1>1, RelayStoreAssumption DEF LocalInv, RequestInv, Purpose
<1>3. PICK l \in Link : l = req[i].l
  BY <1>2
<1>4. LinkController[l] \in Endpoint /\ LinkCompanion[l] \in Endpoint
  BY RelayStoreAssumption
<1>5. /\ ~link[l].revoked
      /\ \A e \in {LinkController[l], LinkCompanion[l]} :
           /\ e \in Endpoint /\ ~endpoint[e].revoked
           /\ endpoint[e].connectionId # None /\ endpoint[e].activeSessionId = None
      /\ endpoint[LinkController[l]].connectionId = req[i].c
      /\ endpoint[LinkCompanion[l]].connectionId = seen[i].conn
  BY <1>1, <1>2, <1>3, <1>4 DEF OpenHolds
<1>6. session' = [session EXCEPT ![s] = [status |-> "ACTIVE", expired |-> FALSE, linkId |-> l,
                                         controllerConn |-> req[i].c, companionConn |-> seen[i].conn]]
  BY <1>3 DEF CommitOpen
<1>7. link' = [link EXCEPT ![l].activeSessionId = s]
  BY <1>3 DEF CommitOpen
<1>8. endpoint' = [endpoint EXCEPT ![LinkController[l]].activeSessionId = s,
                                   ![LinkCompanion[l]].activeSessionId = s]
  BY <1>3 DEF CommitOpen
<1>9. /\ Sockets' = Sockets /\ RevokedEndpoints' = RevokedEndpoints
      /\ RevokedLinks' = RevokedLinks
  BY <1>1, <1>7, <1>8 DEF Sockets, RevokedEndpoints, RevokedLinks, StoreType, EndpointItem, LinkItem
<1>10. Opened' = Opened \cup {s} /\ s \notin Opened
  BY <1>1, <1>6 DEF Opened, StoreType
<1>11. /\ Active(s)' /\ ~Active(s)
       /\ Live(s)' = [id |-> s, link |-> l, controllerConn |-> endpoint[LinkController[l]].connectionId,
                      companionConn |-> endpoint[LinkCompanion[l]].connectionId]
       /\ \A x \in SessionId \ {s} : (Active(x)' <=> Active(x)) /\ Live(x)' = Live(x)
  BY <1>1, <1>5, <1>6 DEF StoreType, Active, Live
<1>12. LiveSessions' = LiveSessions \cup {Live(s)'}
  <2>1. LiveSessions = {Live(x) : x \in {y \in SessionId : Active(y)}}
    BY DEF LiveSessions, Live
  <2>2. LiveSessions' = {Live(x)' : x \in {y \in SessionId : Active(y)'}}
    BY DEF LiveSessions, Live
  <2>3. QED
    BY <1>11, <2>1, <2>2
<1>13. \A e \in {LinkController[l], LinkCompanion[l]} :
         \A r \in LiveSessions : e \notin Authority!Ends(r.link)
  <2> SUFFICES ASSUME NEW e \in {LinkController[l], LinkCompanion[l]}, NEW r \in LiveSessions,
                      e \in Authority!Ends(r.link)
               PROVE  FALSE
    OBVIOUS
  <2>1. PICK x \in SessionId : Active(x) /\ r = Live(x)
    BY LiveMembers
  <2>2. Party(session[x].linkId, e) /\ e \in Endpoint
    BY <1>5, <2>1, AuthorityEnds DEF Live
  <2>3. endpoint[e].activeSessionId = x /\ x # None
    BY <2>1, <2>2, PartyHolds, RelayStoreAssumption
  <2>4. QED
    BY <1>5, <2>3
<1>14. Authority!Open(l, s)
  BY <1>4, <1>5, <1>9, <1>10, <1>11, <1>12, <1>13
  DEF Authority!Open, Authority!Ends, Sockets, Opened, RevokedLinks, RevokedEndpoints
<1>15. QED
  BY <1>14, LinkSteps

-----------------------------------------------------------------------------
(***************************************************************************)
(* Every other step, and the whole.                                        *)
(***************************************************************************)
\* The TTL sweep of a live session is its Close.
LEMMA SweepRefines ==
  ASSUME IInv, NEW s \in SessionId, SweepSession(s)
  PROVE  [Authority!Next]_(Authority!vars)
<1>1. /\ StoreType /\ UNCHANGED <<endpoint, link>>
      /\ session' = [session EXCEPT ![s] = [NoSession EXCEPT !.status = "deleted"]]
      /\ session[s].status # "unused"
  BY IInvParts DEF SweepSession
<1>2. Sockets' = Sockets /\ RevokedLinks' = RevokedLinks /\ RevokedEndpoints' = RevokedEndpoints
  BY <1>1 DEF Sockets, RevokedLinks, RevokedEndpoints
<1>3. /\ session'[s].status = "deleted"
      /\ \A x \in SessionId \ {s} : session'[x] = session[x]
  BY <1>1 DEF StoreType, NoSession
<1>4. /\ Opened' = Opened
      /\ \A x \in SessionId : Active(x)' => Active(x) /\ Live(x)' = Live(x)
      /\ \A x \in SessionId : Active(x) /\ ~Active(x)' => x = s
  BY <1>1, <1>3 DEF Opened, Active, Live
<1>5. QED
  BY <1>2, <1>4, OneEnds

\* The clock moves and credentials rotate unseen.
LEMMA ExpireRefines ==
  ASSUME IInv, NEW s \in SessionId, Expire(s)
  PROVE  [Authority!Next]_(Authority!vars)
<1>1. /\ StoreType /\ UNCHANGED <<endpoint, link>>
      /\ session' = [session EXCEPT ![s].expired = TRUE]
  BY IInvParts DEF Expire
<1>2. \A x \in SessionId : /\ session'[x].status = session[x].status
                           /\ Active(x)' <=> Active(x)
                           /\ Live(x)' = Live(x)
  BY <1>1 DEF StoreType, SessionItem, Active, Live
<1>3. LiveSessions' = LiveSessions
  BY <1>2, LiveStays
<1>4. /\ Sockets' = Sockets /\ RevokedLinks' = RevokedLinks /\ RevokedEndpoints' = RevokedEndpoints
      /\ Opened' = Opened
  BY <1>1, <1>2 DEF Sockets, RevokedLinks, RevokedEndpoints, Opened
<1>5. QED
  BY <1>3, <1>4, Stutters

LEMMA RotateRefines ==
  ASSUME IInv, NEW c \in ConnectionId, NEW k \in Credential, RotateEndpoint(c, k)
  PROVE  [Authority!Next]_(Authority!vars)
<1> DEFINE x == ConnectionEndpoint[c]
<1>1. /\ StoreType /\ UNCHANGED <<link, session>>
      /\ endpoint' = [endpoint EXCEPT ![x].credential = k]
  BY IInvParts DEF RotateEndpoint
<1> HIDE DEF x
<1>2. Sockets' = Sockets /\ RevokedEndpoints' = RevokedEndpoints
  BY <1>1 DEF Sockets, RevokedEndpoints, StoreType, EndpointItem
<1>3. RevokedLinks' = RevokedLinks /\ Opened' = Opened /\ LiveSessions' = LiveSessions
  BY <1>1 DEF RevokedLinks, Opened, LiveSessions, Active
<1>4. QED
  BY <1>2, <1>3, Stutters

LEMMA Unseen ==
  ASSUME UNCHANGED <<endpoint, link, session>>
  PROVE  [Authority!Next]_(Authority!vars)
  BY Stutters DEF Sockets, RevokedLinks, RevokedEndpoints, Opened, LiveSessions, Active

LEMMA CommitRefines ==
  ASSUME IInv, PurposeInv, IInv', NEW i \in Invocation, Commit(i)
  PROVE  [Authority!Next]_(Authority!vars)
  BY ConnectRefines, DisconnectRefines, ClosesRefine, RevokeLinkRefines, RevokeEndpointRefines, OpenRefines
  DEF Commit

LEMMA InitRefines ==
  ASSUME Init
  PROVE  Authority!Init
<1>1. \A e \in Endpoint : endpoint[e].connectionId = None /\ ~endpoint[e].revoked
  BY DEF Init, NoEndpoint
<1>2. \A s \in SessionId : session[s].status = "unused"
  BY DEF Init, NoSession
<1>3. \A l \in Link : ~link[l].revoked
  BY DEF Init
<1>4. QED
  BY <1>1, <1>2, <1>3 DEF Authority!Init, LiveSessions, Active

\* Every run of the store is a run of SessionAuthority: a client cannot tell
\* store.go's separate reads and conditional transactions from operations that
\* each take effect at once, whatever else runs, dies, expires or is swept.
THEOREM Implements == Spec => ImplementsAuthority
<1>1. IInv /\ PurposeInv /\ IInv' /\ [Next]_vars => [Authority!Next]_(Authority!vars)
  <2> SUFFICES ASSUME IInv, PurposeInv, IInv', [Next]_vars PROVE [Authority!Next]_(Authority!vars)
    OBVIOUS
  <2>1. CASE UNCHANGED store
    BY <2>1, Unseen DEF store
  <2>2. ASSUME NEW i \in Invocation, Commit(i) PROVE [Authority!Next]_(Authority!vars)
    BY <2>2, CommitRefines
  <2>3. ASSUME NEW c \in ConnectionId, SweepConnection(c) \/ \E k \in Credential : RotateEndpoint(c, k)
        PROVE  [Authority!Next]_(Authority!vars)
    BY <2>3, Unseen, RotateRefines DEF SweepConnection
  <2>4. ASSUME NEW s \in SessionId, Expire(s) \/ SweepSession(s)
        PROVE  [Authority!Next]_(Authority!vars)
    BY <2>4, ExpireRefines, SweepRefines
  <2>5. QED
    BY <2>1, <2>2, <2>3, <2>4, Changes
<1>2. Init => Authority!Init
  BY InitRefines
<1>3. QED
  BY <1>1, <1>2, Purposeful, PTL DEF Spec, ImplementsAuthority, Authority!Spec

=============================================================================
