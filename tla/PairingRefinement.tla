------------------------- MODULE PairingRefinement -------------------------
(***************************************************************************)
(* Pairing implements JointActivation: the pair's commits and the link are *)
(* the relay's decision, and what each device has stored is how far it is. *)
(***************************************************************************)
EXTENDS PairingProofs

\* The ways in which what a device has stored changes.
DiskAdvances(d, c) ==
  \/ disk[d] = "none" /\ c = "pending"
  \/ disk[d] = "pending" /\ c \in {"refused", "active"}
  \/ Holds(d) /\ c = "revoked"

\* A step of a device leaves the pair alone, and the link as there or as absent
\* as it was; it saves at most one thing.
Saves ==
  /\ pair' = pair /\ (link' = "none" <=> link = "none")
  /\ \/ disk' = disk
     \/ \E d \in Device, c \in Credentials : DiskAdvances(d, c) /\ disk' = [disk EXCEPT ![d] = c]

LEMMA FinishSaves ==
  ASSUME IInv, NEW d \in Device, UNCHANGED <<pair, link>>,
         \/ Finish(d, disk[d]) \/ Finish(d, Kept(d))
         \/ Finish(d, "refused") /\ disk[d] = "pending"
  PROVE  Saves
  <1>1. CASE disk' = [disk EXCEPT ![d] = disk[d]]
    BY <1>1, Typed DEF Saves, DeviceTypes
  <1>2. CASE disk[d] = "pending" /\ disk' = [disk EXCEPT ![d] = "refused"]
    BY <1>2 DEF Saves, DiskAdvances, Credentials
  <1> QED BY <1>1, <1>2 DEF Finish, Save, Kept

LEMMA DeviceSaves ==
  ASSUME IInv, "forget" \notin Events, NEW d \in Device, DeviceStep(d)
  PROVE  Saves
  <1>1. CASE Stage(d)
    <2>1. disk[d] = "none" /\ UNCHANGED <<pair, link>>
      BY <1>1, DiskIs DEF Stage, DiskOf, items
    <2>2. CASE Save(d, "pending")
      BY <2>1, <2>2 DEF Saves, DiskAdvances, Save, Credentials
    <2> QED BY <1>1, <2>1, <2>2, FinishSaves DEF Stage
  <1>2. CASE SendCommit(d) \/ Unexpected(d) \/ GiveUp(d)
    <2>1. UNCHANGED <<pair, link>>
      BY <1>2 DEF SendCommit, Unexpected, GiveUp, items
    <2>2. CASE UNCHANGED disk
      BY <2>1, <2>2 DEF Saves
    <2> QED BY <1>2, <2>1, <2>2, FinishSaves DEF SendCommit, Unexpected, GiveUp
  <1>3. CASE Rejected(d)
    <2>1. disk[d] = "pending" /\ UNCHANGED <<pair, link>>
      BY <1>3, DiskIs DEF Rejected, DiskOf, items
    <2> QED BY <1>3, <2>1, FinishSaves DEF Rejected
  <1>4. CASE SaveActive(d) \/ Reconcile(d)
    <2>1. disk[d] = "pending" /\ UNCHANGED <<pair, link>> /\ (Save(d, "active") \/ UNCHANGED disk)
      BY <1>4, DiskIs DEF SaveActive, Reconcile, DiskOf, items
    <2> QED BY <2>1 DEF Saves, DiskAdvances, Save, Credentials
  <1>5. CASE Reset(d)
    BY <1>5 DEF Reset, Saves, DiskAdvances, Save, Credentials
  <1>6. CASE CommitPending(d) \/ Activated(d) \/ Die(d) \/ Cut(d) \/ Notice(d)
    BY <1>6 DEF CommitPending, Activated, Die, Cut, Notice, Saves, items, device
  <1> QED BY <1>1, <1>2, <1>3, <1>4, <1>5, <1>6 DEF DeviceStep

LEMMA OtherSaves ==
  ASSUME IInv, "forget" \notin Events,
         MacStep \/ Expire \/ UNCHANGED vars \/ \E p \in Phone : PhoneStep(p)
  PROVE  Saves
  <1>1. Mac \in Device
    BY DEF Device
  <1>2. CASE TakeDecision \/ BeginCommit \/ GrantSent
    <2>1. UNCHANGED <<pair, link>>
      BY <1>2 DEF TakeDecision, BeginCommit, GrantSent, items
    <2>2. CASE UNCHANGED disk
      BY <2>1, <2>2 DEF Saves
    <2> QED BY <1>1, <1>2, <2>1, <2>2, FinishSaves DEF TakeDecision, BeginCommit, GrantSent
  <1>3. CASE /\ MacStep \/ Expire \/ UNCHANGED vars \/ \E p \in Phone : PhoneStep(p)
             /\ ~(TakeDecision \/ BeginCommit \/ GrantSent)
    <2>1. UNCHANGED <<pair, link, disk>>
      BY <1>3 DEF MacStep, PhoneStep, ShowCode, CodeCreated, ControllerFound, IdentityReceived, Proceeds,
             Decide, Stop, StopReturns, Forget, Scan, Ready, Joined, Granted, Expire, vars, items, device
    <2> QED BY <2>1 DEF Saves
  <1> QED BY <1>2, <1>3

-----------------------------------------------------------------------------
\* What each of these is of JointActivation.
Partner == IF link = "none" THEN None ELSE pair.sideB
Stages == [d \in Device |-> StageOf(disk[d])]

LEMMA StagesIs ==
  ASSUME IInv, NEW d \in Device, NEW c \in Credentials, disk' = [disk EXCEPT ![d] = c]
  PROVE  Stages' = [Stages EXCEPT ![d] = StageOf(c)] /\ Stages[d] = StageOf(disk[d])
  BY Typed DEF Stages, DeviceTypes

\* After a step, too, the parties of the link hold credentials.
LEMMA CoveredAfter ==
  ASSUME IInv', link' # "none"
  PROVE  \A d \in {Mac, pair'.sideB} : disk'[d] \notin {"none", "refused"}
  <1>1. PairInv' /\ CommitInv'
    BY DEF IInv
  <1>2. /\ pair'.status = "ACTIVE" /\ pair'.sideB \in Phone
        /\ pair'.commits = {Mac, pair'.sideB}
    BY <1>1 DEF PairInv
  <1> QED BY <1>1, <1>2 DEF CommitInv, Device

LEMMA DiskAfter ==
  ASSUME IInv', NEW d \in Device
  PROVE  DiskOf(d)'
  BY DEF IInv, DiskInv, DiskOf

LEMMA SavesMaps ==
  ASSUME IInv, IInv', Saves
  PROVE  [Joint!Next]_Joint!vars
  <1>1. Partner' = Partner
    BY DEF Saves, Partner
  <1>2. CASE disk' = disk
    <2>1. Stages' = Stages
      BY <1>2 DEF Stages
    <2> QED BY <1>1, <2>1 DEF Joint!vars, Stages, Partner
  <1>3. ASSUME NEW d \in Device, NEW c \in Credentials, DiskAdvances(d, c),
               disk' = [disk EXCEPT ![d] = c]
        PROVE  Joint!Next
    <2>1. Stages' = [Stages EXCEPT ![d] = StageOf(c)] /\ Stages[d] = StageOf(disk[d])
      BY <1>3, StagesIs
    <2>2. disk'[d] = c /\ d \in Phone \cup {Mac}
      BY <1>3, Typed DEF DeviceTypes, Device
    <2>3. Partner # None => Partner = pair.sideB /\ link # "none"
      BY DEF Partner
    <2>4. link # "none" => Partner = pair.sideB /\ Partner # None
      BY Covered, PairingAssumption DEF Partner, Device
    <2>5. CASE disk[d] = "none" /\ c = "pending"
      <3>1. Joint!Prepare(d)
        BY <1>1, <2>1, <2>5 DEF Joint!Prepare, StageOf, Stages, Partner
      <3> QED BY <2>2, <3>1 DEF Joint!Next
    <2>6. CASE disk[d] = "pending" /\ c = "refused"
      <3>1. link # "none" => d \notin {Mac, pair.sideB}
        <4>1. link' = "none" <=> link = "none"
          BY DEF Saves
        <4>2. pair' = pair
          BY DEF Saves
        <4>3. link' # "none" => \A x \in {Mac, pair'.sideB} : disk'[x] # "refused"
          BY CoveredAfter
        <4> QED BY <2>2, <2>6, <4>1, <4>2, <4>3
      <3>2. Partner = None \/ d \notin {Mac, Partner}
        BY <2>3, <3>1
      <3>3. Joint!Withdraw(d)
        BY <1>1, <2>1, <2>6, <3>2 DEF Joint!Withdraw, Joint!Party, StageOf, Stages, Partner
      <3> QED BY <2>2, <3>3 DEF Joint!Next
    <2>7. CASE c \in {"active", "revoked"}
      <3>1. link # "none" /\ d \in {Mac, pair.sideB}
        BY <1>3, <2>2, <2>7, DiskAfter DEF DiskOf, Member, Saves
      <3>2. Partner # None /\ d \in {Mac, Partner}
        BY <2>4, <3>1
      <3>3. CASE c = "active"
        <4>1. disk[d] = "pending"
          BY <1>3, <3>3 DEF DiskAdvances
        <4>2. Joint!Learn(d)
          BY <1>1, <2>1, <3>2, <3>3, <4>1 DEF Joint!Learn, Joint!Party, StageOf, Stages, Partner
        <4> QED BY <2>2, <4>2 DEF Joint!Next
      <3>4. CASE c = "revoked"
        <4>1. disk[d] \in {"pending", "active"}
          BY <1>3, <3>4 DEF DiskAdvances, Holds
        <4>2. Joint!Leave(d)
          BY <1>1, <2>1, <3>2, <3>4, <4>1 DEF Joint!Leave, Joint!Party, StageOf, Stages, Partner
        <4> QED BY <2>2, <4>2 DEF Joint!Next
      <3> QED BY <2>7, <3>3, <3>4
    <2> QED BY <1>3, <2>5, <2>6, <2>7 DEF DiskAdvances
  <1> QED BY <1>2, <1>3 DEF Saves

LEMMA ActivationMaps ==
  ASSUME IInv, IInv', "forget" \notin Events, link = "none", link' = "active",
         pair'.sideB = pair.sideB, disk' = disk
  PROVE  Joint!Next
  <1>1. pair'.sideB \in Phone
    BY DEF IInv, PairInv
  <1>2. \A d \in {Mac, pair.sideB} : disk[d] = "pending"
    <2>1. ASSUME NEW d \in {Mac, pair.sideB} PROVE disk[d] = "pending"
      <3>1. d \in Device /\ disk[d] \notin {"none", "refused"}
        BY <1>1, <2>1, CoveredAfter DEF Device
      <3> QED BY <3>1, DiskIs DEF DiskOf, Credentials
    <2> QED BY <2>1
  <1>3. Stages' = Stages /\ Partner = None /\ Partner' = pair.sideB
    BY DEF Stages, Partner
  <1>4. Stages[Mac] = "prepared" /\ Stages[pair.sideB] = "prepared"
    BY <1>1, <1>2 DEF Stages, StageOf, Device
  <1>5. Joint!Activate(pair.sideB)
    BY <1>3, <1>4 DEF Joint!Activate, Stages, Partner
  <1> QED BY <1>1, <1>5 DEF Joint!Next

\* Of the relay's steps the activation is one of JointActivation, every other
\* changes nothing it speaks of.
LEMMA RelayMaps ==
  ASSUME IInv, IInv', "forget" \notin Events, NEW i \in Invocation, RelayStep(i)
  PROVE  [Joint!Next]_Joint!vars
  <1>1. disk' = disk
    BY DEF RelayStep, items, device, Receive, Throttle, Reject, DropSocket, SendReply, JoinReads, FrameReads,
           FrameForwards, CommitReads, QuotaRefuses, TellMac, TellPhone, CancelReads,
           CleanReadsConnection, CleanReadsPair, CleanReadsAgain, TellPeer, Crash,
           Create, JoinWrites, CommitHalf, Activate, StoreFails, CancelWrites, CleanWrites
  <1>2. \/ link' = link
        \/ ActivationHolds(i) /\ link' = "active" /\ pair' = [pair EXCEPT !.status = "ACTIVE", !.commits = @ \cup {inv[i].dev}]
    BY DEF RelayStep, items, device, Receive, Throttle, Reject, DropSocket, SendReply, JoinReads, FrameReads,
           FrameForwards, CommitReads, QuotaRefuses, TellMac, TellPhone, CancelReads,
           CleanReadsConnection, CleanReadsPair, CleanReadsAgain, TellPeer, Crash,
           Create, JoinWrites, CommitHalf, Activate, StoreFails, CancelWrites, CleanWrites
  <1>3. Advance
    BY RelayAdvances
  <1>4. CASE link' = link
    <2>1. link # "none" => pair'.sideB = pair.sideB
      BY <1>3, Covered, PairingAssumption DEF Advance, Device
    <2>2. Stages' = Stages /\ Partner' = Partner
      BY <1>1, <1>4, <2>1 DEF Stages, Partner
    <2> QED BY <2>2 DEF Joint!vars, Stages, Partner
  <1>5. CASE /\ ActivationHolds(i) /\ link' = "active"
             /\ pair' = [pair EXCEPT !.status = "ACTIVE", !.commits = @ \cup {inv[i].dev}]
    <2>1. pair'.sideB = pair.sideB /\ link = "none"
      BY <1>5, Typed DEF StoreTypes, PairItem, PairInv, ActivationHolds
    <2> QED BY <1>1, <1>5, <2>1, ActivationMaps
  <1> QED BY <1>2, <1>4, <1>5

\* Unless the user resets a device in the middle of its commit, pairing activates
\* both sides jointly, as JointActivation says: each step of the relay and of the
\* devices is a step of the abstract specification or leaves it alone.
THEOREM Implements ==
  ASSUME "forget" \notin Events
  PROVE  Spec => ImplementsJointActivation
  <1>1. Init => Joint!Init
    BY DEF Init, Joint!Init, StageOf, Device
  <1>2. IInv /\ IInv' /\ [Next]_vars => [Joint!Next]_(Joint!vars)
    <2> SUFFICES ASSUME IInv, IInv', [Next]_vars PROVE [Joint!Next]_(Joint!vars)
      OBVIOUS
    <2>1. CASE \E i \in Invocation : RelayStep(i)
      BY <2>1, RelayMaps
    <2>2. CASE \E d \in Device : DeviceStep(d)
      BY <2>2, DeviceSaves, SavesMaps
    <2>3. CASE MacStep \/ Expire \/ UNCHANGED vars \/ \E p \in Phone : PhoneStep(p)
      BY <2>3, OtherSaves, SavesMaps
    <2> QED BY <2>1, <2>2, <2>3 DEF Next
  <1> QED BY <1>1, <1>2, Inductive, PTL DEF Spec, ImplementsJointActivation, Joint!Spec

=============================================================================
