-------------------------- MODULE SessionAuthority --------------------------
(***************************************************************************)
(* What the relay's store promises about sessions, each operation in one   *)
(* atomic step and without locks, snapshots or retries: which connection   *)
(* speaks for an endpoint, which sessions are live between which           *)
(* connections, and what is revoked (protocol/README.md, "one active       *)
(* session per endpoint and link").  RelayStore implements it.             *)
(***************************************************************************)
CONSTANTS Endpoint, Link, ConnectionId, SessionId,
          LinkController, LinkCompanion, None

VARIABLES
  current,           \* the connection that speaks for each endpoint, or None
  live,              \* the sessions frames may pass through
  opened,            \* every session id used so far
  revokedLinks,
  revokedEndpoints

vars == <<current, live, opened, revokedLinks, revokedEndpoints>>

Ends(l) == {LinkController[l], LinkCompanion[l]}
LiveWithout(e) == {r \in live : e \notin Ends(r.link)}

Init ==
  /\ current = [e \in Endpoint |-> None]
  /\ live = {} /\ opened = {}
  /\ revokedLinks = {} /\ revokedEndpoints = {}

\* A socket of e takes over; whatever e was doing ends.
Attach(e, c) ==
  /\ e \notin revokedEndpoints
  /\ current' = [current EXCEPT ![e] = c]
  /\ live' = LiveWithout(e)
  /\ UNCHANGED <<opened, revokedLinks, revokedEndpoints>>

\* The socket of e is gone, and its session with it.
Detach(e) ==
  /\ current' = [current EXCEPT ![e] = None]
  /\ live' = LiveWithout(e)
  /\ UNCHANGED <<opened, revokedLinks, revokedEndpoints>>

\* Both ends of l are connected and idle: a fresh session joins their sockets.
Open(l, s) ==
  /\ s \notin opened /\ l \notin revokedLinks
  /\ \A e \in Ends(l) : /\ e \notin revokedEndpoints /\ current[e] # None
                        /\ \A r \in live : e \notin Ends(r.link)
  /\ opened' = opened \cup {s}
  /\ live' = live \cup {[id |-> s, link |-> l,
                         controllerConn |-> current[LinkController[l]],
                         companionConn |-> current[LinkCompanion[l]]]}
  /\ UNCHANGED <<current, revokedLinks, revokedEndpoints>>

\* A session is closed, or has expired and is dropped.
Close(r) ==
  /\ live' = live \ {r}
  /\ UNCHANGED <<current, opened, revokedLinks, revokedEndpoints>>

RevokeLink(l) ==
  /\ revokedLinks' = revokedLinks \cup {l}
  /\ live' = {r \in live : r.link # l}
  /\ UNCHANGED <<current, opened, revokedEndpoints>>

RevokeEndpoint(e) ==
  /\ revokedEndpoints' = revokedEndpoints \cup {e}
  /\ current' = [current EXCEPT ![e] = None]
  /\ live' = LiveWithout(e)
  /\ UNCHANGED <<opened, revokedLinks>>

Next ==
  \/ \E e \in Endpoint : Detach(e) \/ RevokeEndpoint(e) \/ \E c \in ConnectionId : Attach(e, c)
  \/ \E l \in Link : RevokeLink(l) \/ \E s \in SessionId : Open(l, s)
  \/ \E r \in live : Close(r)

Spec == Init /\ [][Next]_vars
=============================================================================
