--------------------------- MODULE JointActivation ---------------------------
(***************************************************************************)
(* What a pairing promises its devices, without relay, sockets or          *)
(* messages: a link is activated for the Mac and one phone in one step, in *)
(* which both have their credentials prepared; neither withdraws after it. *)
(* Pairing implements it.                                                  *)
(***************************************************************************)
CONSTANTS Mac, Phone, None

VARIABLES
  stage,      \* of each device: "idle", "prepared", "active" or "out"
  partner     \* the phone the link was activated for, or None

vars == <<stage, partner>>
Party == {Mac, partner}

Init ==
  /\ stage = [d \in Phone \cup {Mac} |-> "idle"]
  /\ partner = None

Prepare(d) ==
  /\ stage[d] = "idle"
  /\ stage' = [stage EXCEPT ![d] = "prepared"]
  /\ UNCHANGED partner

\* A device may withdraw until it is a party of the link.
Withdraw(d) ==
  /\ stage[d] = "prepared" /\ (partner = None \/ d \notin Party)
  /\ stage' = [stage EXCEPT ![d] = "out"]
  /\ UNCHANGED partner

Activate(p) ==
  /\ partner = None
  /\ stage[Mac] = "prepared" /\ stage[p] = "prepared"
  /\ partner' = p
  /\ UNCHANGED stage

\* A party learns of the activation, whenever it does.
Learn(d) ==
  /\ partner # None /\ d \in Party /\ stage[d] = "prepared"
  /\ stage' = [stage EXCEPT ![d] = "active"]
  /\ UNCHANGED partner

\* A party resets its enrolment.
Leave(d) ==
  /\ partner # None /\ d \in Party /\ stage[d] \in {"prepared", "active"}
  /\ stage' = [stage EXCEPT ![d] = "out"]
  /\ UNCHANGED partner

Next ==
  \/ \E d \in Phone \cup {Mac} : Prepare(d) \/ Withdraw(d) \/ Learn(d) \/ Leave(d)
  \/ \E p \in Phone : Activate(p)

Spec == Init /\ [][Next]_vars
=============================================================================
