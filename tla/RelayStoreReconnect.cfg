\* One link and one session; the phone reconnects and rotates its credential.
CONSTANTS
  phone = phone  tablet = tablet  mac = mac
  lp = lp  lt = lt
  p1 = p1  p2 = p2  t1 = t1  m1 = m1  m2 = m2
  None = None
  Endpoint = {phone, mac}
  Link = {lp}
  ConnectionId = {p1, p2, m1}
  SessionId = {s1}
  Credential = {k1, k2}
  Invocation = {i1, i2}
  MaxAttempts = 1
  Operations = {"Connect", "Disconnect", "OpenSession", "CloseSession", "Reap", "RevokeLink", "RevokeEndpoint", "SweepConnection"}
  LinkController <- MCLinkController
  LinkCompanion <- MCLinkCompanion
  ConnectionEndpoint <- MCConnectionEndpoint
SYMMETRY Symmetry
SPECIFICATION Spec
INVARIANTS TypeOK ActiveIsAuthorized RevokedHoldsNothing
PROPERTIES FencedLifecycle EndsForCause ClosesWhatItMust ConnectsWithCurrentCredential
