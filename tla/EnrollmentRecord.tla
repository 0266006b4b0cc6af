--------------------------- MODULE EnrollmentRecord ---------------------------
(***************************************************************************)
(* What the companion promises of its enrollments, whatever crashes, fails *)
(* or is repeated: a stored enrollment only moves forward, from pending to *)
(* confirmed to revoked, and one that the user was told is removed is gone *)
(* for good.  CompanionApp implements it.                                  *)
(***************************************************************************)
CONSTANT Enrollment

VARIABLES
  stage,     \* of each enrollment, as a launch of the application would find it
  removed    \* the enrollments the user was told are removed

vars == <<stage, removed>>

Init ==
  /\ stage \in [Enrollment -> {"new", "pending", "confirmed", "revoked", "gone"}]
  /\ removed = {}

Move(e, from, to) == stage[e] \in from /\ stage' = [stage EXCEPT ![e] = to] /\ UNCHANGED removed

Store(e) == Move(e, {"new"}, "pending")
Confirm(e) == Move(e, {"pending"}, "confirmed")
Revoke(e) == Move(e, {"pending", "confirmed"}, "revoked")
Remove(e) == Move(e, {"pending", "confirmed", "revoked"}, "gone")

\* An attempt that stores nothing leaves an enrollment that never was.
Abandon(e) == Move(e, {"new"}, "gone")

Tell(e) == stage[e] = "gone" /\ removed' = removed \cup {e} /\ UNCHANGED stage

Next ==
  \E e \in Enrollment :
    Store(e) \/ Confirm(e) \/ Revoke(e) \/ Remove(e) \/ Abandon(e) \/ Tell(e)

Spec == Init /\ [][Next]_vars
=============================================================================
