---------------------------- MODULE MCRelayStore ----------------------------
(***************************************************************************)
(* Small instances of RelayStore: one link between a phone and a Mac, or   *)
(* two phones that share the Mac.                                          *)
(***************************************************************************)
EXTENDS RelayStore, TLC

CONSTANTS phone, tablet, mac,            \* endpoints
          lp, lt,                        \* links of the phone and the tablet
          p1, p2, t1, m1, m2             \* connections

MCLinkController == [l \in Link |-> IF l = lp THEN phone ELSE tablet]
MCLinkCompanion == [l \in Link |-> mac]
MCConnectionEndpoint ==
  [c \in ConnectionId |-> CASE c \in {p1, p2} -> phone
                            [] c = t1 -> tablet
                            [] c \in {m1, m2} -> mac]

\* Invocations, session ids and the phone's connections are interchangeable.
Symmetry == Permutations(Invocation) \cup Permutations(SessionId)
            \cup Permutations(Credential) \cup Permutations({p1, p2})

\* So are, when both have one connection, the phone and the tablet.
Swap == (phone :> tablet) @@ (tablet :> phone) @@ (lp :> lt) @@ (lt :> lp) @@ (p1 :> t1) @@ (t1 :> p1)
SymmetryShared == Permutations(Invocation) \cup Permutations(SessionId) \cup {Swap}
=============================================================================
