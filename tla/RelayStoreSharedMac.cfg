\* Two phones open sessions with the Mac they share; attempts are repeated.
CONSTANTS
  phone = phone  tablet = tablet  mac = mac
  lp = lp  lt = lt
  p1 = p1  p2 = p2  t1 = t1  m1 = m1  m2 = m2
  None = None
  Endpoint = {phone, tablet, mac}
  Link = {lp, lt}
  ConnectionId = {p1, t1, m1}
  SessionId = {s1, s2}
  Credential = {k1}
  Invocation = {i1, i2}
  MaxAttempts = 2
  Operations = {"Connect", "OpenSession", "RevokeLink"}
  LinkController <- MCLinkController
  LinkCompanion <- MCLinkCompanion
  ConnectionEndpoint <- MCConnectionEndpoint
SYMMETRY SymmetryShared
SPECIFICATION Spec
INVARIANTS ActiveHoldsLocks IInv
