----------------------- MODULE CompanionAppRefinement -----------------------
(***************************************************************************)
(* CompanionApp implements EnrollmentRecord, for any number of enrollments *)
(* and crashes: every write of the Keychain, and the end of an attempt     *)
(* that wrote nothing, moves one enrollment one step forward, and every    *)
(* other step changes nothing that a launch could find.                    *)
(***************************************************************************)
EXTENDS CompanionAppProofs

\* The stage of an enrollment, without the set of what is found.
Unsaved(e) == e > used \/ (attempt.rec.id = e /\ attempt.step = "save")
StageOf(e) ==
  IF (keychain.id = e /\ keychain.revoked) \/ (legacy.id = e /\ legacy.revoked) THEN "revoked"
  ELSE IF (keychain.id = e /\ ~keychain.pending) \/ (legacy.id = e /\ ~legacy.pending) THEN "confirmed"
  ELSE IF keychain.id = e \/ legacy.id = e THEN "pending"
  ELSE IF Unsaved(e) THEN "new" ELSE "gone"

LEMMA StageIs ==
  ASSUME NEW e \in Enrollment
  PROVE  Stage(e) = StageOf(e) /\ Stage(e)' = StageOf(e)'
  <1>1. Stage(e) = StageOf(e)
    BY DEF Stage, StageOf, Unsaved
  <1>2. Stage(e)' = StageOf(e)'
    BY DEF Stage, StageOf, Unsaved
  <1> QED BY <1>1, <1>2

\* A step that changes no stage and tells nothing is a stutter.
LEMMA Stays ==
  ASSUME removed' = removed, \A e \in Enrollment : StageOf(e)' = StageOf(e)
  PROVE  UNCHANGED Record!vars
  <1>1. \A e \in Enrollment : Stage(e)' = Stage(e)
    BY StageIs
  <1> QED BY <1>1 DEF Record!vars

\* One enrollment moves.
LEMMA Moves ==
  ASSUME NEW e \in Enrollment, NEW from, NEW to, StageOf(e) \in from, StageOf(e)' = to,
         \A x \in Enrollment \ {e} : StageOf(x)' = StageOf(x), removed' = removed
  PROVE  Record!Move(e, from, to)
  <1>1. Stage(e) \in from /\ Stage(e)' = to
    BY StageIs
  <1>2. \A x \in Enrollment \ {e} : Stage(x)' = Stage(x)
    BY StageIs
  <1> QED BY <1>1, <1>2 DEF Record!Move

\* What the steps rest on: identifiers are positive, a running application has no
\* older store, and an attempt that has stored nothing finds nothing stored.
LEMMA Known ==
  ASSUME IInv
  PROVE  /\ used \in Nat /\ used <= MaxEnrollments
         /\ \A c \in {keychain, legacy, config} : c = NoConfig \/ c.id \in 1 .. used
         /\ up => legacy = NoConfig
         /\ Enrolled => config.id \in 1 .. used /\ config.id \in Enrollment
         /\ NoConfig.id = 0 /\ ~NoConfig.pending /\ ~NoConfig.revoked
         /\ attempt.step = "save" =>
              /\ keychain = NoConfig /\ legacy = NoConfig /\ used # 0 /\ up
              /\ attempt.rec.id = used /\ attempt.rec.pending /\ ~attempt.rec.revoked
         /\ attempt.step \in {"commit", "active", "rejected"} =>
              /\ keychain = attempt.rec /\ legacy = NoConfig /\ used # 0
              /\ attempt.rec.id = used /\ attempt.rec.pending /\ ~attempt.rec.revoked
         /\ op.step \in Handlers =>
              /\ attempt = NoAttempt /\ legacy = NoConfig
              /\ config.id \in 1 .. used /\ config.id \in Enrollment
              /\ op.rec.id = config.id /\ op.rec.revoked = config.revoked
              /\ op.step # "clear" => keychain = config
              /\ op.step = "clear" => keychain = NoConfig
  <1>1. used \in Nat /\ used <= MaxEnrollments
    BY CompanionAppAssumption DEF IInv, HistoryTypes
  <1>2. \A c \in {keychain, legacy, config} : c = NoConfig \/ c.id \in 1 .. used
    BY DEF IInv, RecordInv
  <1>3. Enrolled => config.id \in 1 .. used /\ config.id \in Enrollment
    <2>1. Enrolled => config.id \in 1 .. used
      BY <1>2 DEF Enrolled
    <2> QED BY <1>1, <2>1, CompanionAppAssumption DEF Enrollment
  <1>4. up => legacy = NoConfig
    BY DEF IInv, RecordInv
  <1>5. NoConfig.id = 0 /\ ~NoConfig.pending /\ ~NoConfig.revoked
    BY DEF NoConfig
  <1>6. attempt.step # "none" =>
          /\ up /\ ~Enrolled /\ op = Idle
          /\ attempt.rec.id = used /\ used # 0 /\ ~attempt.rec.revoked
          /\ attempt.step # "staged" => attempt.rec.pending
          /\ attempt.step # "save" => keychain = attempt.rec
          /\ attempt.step = "save" => keychain = NoConfig
    BY DEF IInv, AttemptInv, StoredInv
  <1>7. op.step \in Handlers =>
          /\ up /\ Enrolled /\ attempt = NoAttempt
          /\ op.rec.id = config.id /\ op.rec.revoked = config.revoked
          /\ op.step # "clear" => keychain = config
          /\ op.step = "clear" => keychain = NoConfig
    BY DEF IInv, HandlerInv, StoredInv, WorksWithWhatIsStored, AttemptInv, Handlers, Idle, NoAttempt
  <1> QED BY <1>1, <1>2, <1>3, <1>4, <1>5, <1>6, <1>7

LEMMA Unseen ==
  ASSUME UNCHANGED <<keychain, legacy, used, removed>>,
         attempt' = attempt \/ (attempt.step # "save" /\ attempt'.step # "save")
  PROVE  UNCHANGED Record!vars
  BY Stays DEF StageOf, Unsaved

-----------------------------------------------------------------------------
LEMMA InitRefines ==
  ASSUME Init
  PROVE  Record!Init
  <1>1. \A e \in Enrollment : Stage(e) \in {"new", "pending", "confirmed", "revoked", "gone"}
    BY StageIs DEF StageOf
  <1> QED BY <1>1 DEF Record!Init, Init

LEMMA LaunchRefines ==
  ASSUME IInv, Migrates \/ RemovesLegacy
  PROVE  UNCHANGED Record!vars
  <1>1. /\ UNCHANGED <<attempt, used, removed>>
        /\ \/ UNCHANGED <<keychain, legacy>>
           \/ keychain = NoConfig /\ keychain' = legacy /\ UNCHANGED legacy
           \/ legacy = keychain /\ legacy' = NoConfig /\ UNCHANGED keychain
    BY DEF Migrates, RemovesLegacy, history, app, IInv, RecordInv
  <1>2. \A e \in Enrollment : StageOf(e)' = StageOf(e)
    BY <1>1, CompanionAppAssumption DEF StageOf, Unsaved, NoConfig, Enrollment
  <1> QED BY <1>1, <1>2, Stays

\* An attempt ends, with the process or by an error, before anything is stored.
LEMMA AbandonRefines ==
  ASSUME IInv, Crash \/ Aborts
  PROVE  [Record!Next]_(Record!vars)
  <1>1. UNCHANGED <<keychain, legacy, used, removed>> /\ attempt' = NoAttempt
    BY DEF Crash, Aborts, stores, history
  <1>2. CASE attempt.step # "save"
    BY <1>1, <1>2, Unseen DEF NoAttempt
  <1>3. CASE attempt.step = "save"
    <2>1. used \in Enrollment
      BY <1>3, Known DEF Enrollment
    <2>2. StageOf(used) = "new" /\ StageOf(used)' = "gone"
      BY <1>1, <1>3, <2>1, Known DEF StageOf, Unsaved, NoConfig, NoAttempt, Enrollment
    <2>3. \A x \in Enrollment \ {used} : StageOf(x)' = StageOf(x)
      BY <1>1, <1>3, Known DEF StageOf, Unsaved, NoAttempt, Enrollment
    <2>4. Record!Abandon(used)
      BY <1>1, <2>1, <2>2, <2>3, Moves DEF Record!Abandon
    <2> QED BY <2>1, <2>4 DEF Record!Next
  <1> QED BY <1>2, <1>3

LEMMA BeginsRefines ==
  ASSUME IInv, NEW by \in {"pairing", "enroll"}, Begins(by)
  PROVE  UNCHANGED Record!vars
  <1>1. /\ UNCHANGED <<keychain, legacy, removed>> /\ attempt = NoAttempt /\ used' = used + 1
        /\ attempt'.rec.id = used + 1 /\ attempt'.step = "save"
    BY DEF Begins, New, stores
  <1>2. \A e \in Enrollment : StageOf(e)' = StageOf(e)
    BY <1>1, Known, CompanionAppAssumption DEF StageOf, Unsaved, NoAttempt, NoConfig, Enrollment
  <1> QED BY <1>1, <1>2, Stays

LEMMA SavesPendingRefines ==
  ASSUME IInv, SavesPending
  PROVE  [Record!Next]_(Record!vars)
  <1>1. /\ attempt.step = "save" /\ UNCHANGED <<legacy, used, removed>>
        /\ keychain' = attempt.rec /\ attempt'.step = "commit"
    BY DEF SavesPending, Continues, history
  <1>2. used \in Enrollment
    BY <1>1, Known DEF Enrollment
  <1>3. StageOf(used) = "new" /\ StageOf(used)' = "pending"
    BY <1>1, <1>2, Known DEF StageOf, Unsaved, NoConfig, Enrollment
  <1>4. \A x \in Enrollment \ {used} : StageOf(x)' = StageOf(x)
    BY <1>1, Known DEF StageOf, Unsaved, NoConfig, Enrollment
  <1>5. Record!Store(used)
    BY <1>1, <1>2, <1>3, <1>4, Moves DEF Record!Store
  <1> QED BY <1>2, <1>5 DEF Record!Next

LEMMA SavesActiveRefines ==
  ASSUME IInv, SavesActive
  PROVE  [Record!Next]_(Record!vars)
  <1>1. attempt.step = "active" /\ attempt'.step = "staged" /\ UNCHANGED <<legacy, used, removed>>
    BY DEF SavesActive, Continues, history
  <1>2. CASE UNCHANGED keychain
    BY <1>1, <1>2, Unseen
  <1>3. CASE keychain' = [id |-> attempt.rec.id, pending |-> FALSE, revoked |-> FALSE]
    <2>1. used \in Enrollment
      BY <1>1, Known DEF Enrollment
    <2>2. StageOf(used) = "pending" /\ StageOf(used)' = "confirmed"
      BY <1>1, <1>3, <2>1, Known DEF StageOf, Unsaved, NoConfig, Enrollment
    <2>3. \A x \in Enrollment \ {used} : StageOf(x)' = StageOf(x)
      BY <1>1, <1>3, Known DEF StageOf, Unsaved, NoConfig, Enrollment
    <2>4. Record!Confirm(used)
      BY <1>1, <2>1, <2>2, <2>3, Moves DEF Record!Confirm
    <2> QED BY <2>1, <2>4 DEF Record!Next
  <1> QED BY <1>2, <1>3 DEF SavesActive

LEMMA DiscardsRefines ==
  ASSUME IInv, Discards
  PROVE  [Record!Next]_(Record!vars)
  <1>1. attempt.step = "rejected" /\ attempt'.step # "save" /\ UNCHANGED <<legacy, used, removed>>
    BY DEF Discards, Continues, NoAttempt, history
  <1>2. CASE UNCHANGED keychain
    BY <1>1, <1>2, Unseen
  <1>3. CASE keychain' = NoConfig
    <2>1. used \in Enrollment
      BY <1>1, Known DEF Enrollment
    <2>2. StageOf(used) = "pending" /\ StageOf(used)' = "gone"
      BY <1>1, <1>3, <2>1, Known DEF StageOf, Unsaved, NoConfig, Enrollment
    <2>3. \A x \in Enrollment \ {used} : StageOf(x)' = StageOf(x)
      BY <1>1, <1>3, Known DEF StageOf, Unsaved, NoConfig, Enrollment
    <2>4. Record!Remove(used)
      BY <1>1, <2>1, <2>2, <2>3, Moves DEF Record!Remove
    <2> QED BY <2>1, <2>4 DEF Record!Next
  <1> QED BY <1>2, <1>3 DEF Discards

LEMMA ConfirmsRefines ==
  ASSUME IInv, Confirms
  PROVE  [Record!Next]_(Record!vars)
  <1>1. /\ loop.update /\ config.pending /\ keychain' = Confirmed
        /\ UNCHANGED <<legacy, attempt, used, removed>>
    BY DEF Confirms, Confirmable, history
  <1>2. up /\ loop.step = "up" /\ op.step # "clear" /\ Enrolled
    BY <1>1 DEF IInv, NothingLeft, LoopServesConfig, HandlerInv, Handlers, NoLoop, NoConfig, Enrolled
  <1>3. keychain = config /\ ~config.revoked
    BY <1>2 DEF IInv, StoredInv, WorksWithWhatIsStored, LoopInv, RevokedIsNotServed
  <1>4. PICK e \in Enrollment : legacy = NoConfig /\ e = config.id /\ e \in 1 .. used
    BY <1>2, Known
  <1>5. StageOf(e) = "pending" /\ StageOf(e)' = "confirmed"
    BY <1>1, <1>3, <1>4 DEF StageOf, Unsaved, Confirmed, NoConfig, Enrollment
  <1>6. \A x \in Enrollment \ {e} : StageOf(x)' = StageOf(x)
    BY <1>1, <1>3, <1>4 DEF StageOf, Unsaved, Confirmed, NoConfig, Enrollment
  <1>7. Record!Confirm(e)
    BY <1>1, <1>4, <1>5, <1>6, Moves DEF Record!Confirm
  <1> QED BY <1>4, <1>7 DEF Record!Next

LEMMA CheckpointsRefines ==
  ASSUME IInv, Checkpoints
  PROVE  [Record!Next]_(Record!vars)
  <1>1. /\ op.step \in Handlers /\ op.step # "clear"
        /\ UNCHANGED <<legacy, attempt, used, removed>>
        /\ UNCHANGED keychain \/ keychain' = [id |-> op.rec.id, pending |-> op.rec.pending, revoked |-> TRUE]
    BY DEF Checkpoints, Handlers, history
  <1>2. CASE UNCHANGED keychain
    BY <1>1, <1>2, Unseen
  <1>3. CASE keychain' = [id |-> op.rec.id, pending |-> op.rec.pending, revoked |-> TRUE]
    <2>1. PICK e \in Enrollment : e = config.id /\ e \in 1 .. used
      BY <1>1, Known
    <2>2. StageOf(e)' = "revoked"
      BY <1>1, <1>3, <2>1, Known DEF StageOf
    <2>3. \A x \in Enrollment \ {e} : StageOf(x)' = StageOf(x)
      BY <1>1, <1>3, <2>1, Known DEF StageOf, Unsaved, NoConfig, Enrollment
    <2>4. CASE config.revoked
      <3>1. StageOf(e) = "revoked"
        BY <1>1, <2>1, <2>4, Known DEF StageOf
      <3> QED BY <1>1, <2>2, <2>3, <3>1, Stays
    <2>5. CASE ~config.revoked
      <3>1. StageOf(e) \in {"pending", "confirmed"}
        BY <1>1, <2>1, <2>5, Known DEF StageOf, NoConfig, Enrollment
      <3>2. Record!Revoke(e)
        BY <1>1, <2>1, <2>2, <2>3, <3>1, Moves DEF Record!Revoke
      <3> QED BY <2>1, <3>2 DEF Record!Next
    <2> QED BY <2>4, <2>5
  <1> QED BY <1>1, <1>2, <1>3

LEMMA DeletesRefines ==
  ASSUME IInv, Deletes
  PROVE  [Record!Next]_(Record!vars)
  <1>1. op.step \in Handlers /\ op.step # "clear" /\ UNCHANGED <<legacy, attempt, used, removed>>
    BY DEF Deletes, Handlers, history
  <1>2. CASE UNCHANGED keychain
    BY <1>1, <1>2, Unseen
  <1>3. CASE keychain' = NoConfig
    <2>1. PICK e \in Enrollment : e = config.id /\ e \in 1 .. used
      BY <1>1, Known
    <2>2. StageOf(e) \in {"pending", "confirmed", "revoked"}
      BY <1>1, <2>1, Known DEF StageOf
    <2>3. StageOf(e)' = "gone"
      BY <1>1, <1>3, <2>1, Known DEF StageOf, Unsaved, NoAttempt, NoConfig, Enrollment
    <2>4. \A x \in Enrollment \ {e} : StageOf(x)' = StageOf(x)
      BY <1>1, <1>3, <2>1, Known DEF StageOf, Unsaved, NoConfig, Enrollment
    <2>5. Record!Remove(e)
      BY <1>1, <2>1, <2>2, <2>3, <2>4, Moves DEF Record!Remove
    <2> QED BY <2>1, <2>5 DEF Record!Next
  <1> QED BY <1>2, <1>3 DEF Deletes

LEMMA ClearsRefines ==
  ASSUME IInv, Clears
  PROVE  [Record!Next]_(Record!vars)
  <1>1. /\ op.step \in Handlers /\ op.step = "clear"
        /\ UNCHANGED <<keychain, legacy, attempt, used>> /\ removed' = removed \cup {op.rec.id}
    BY DEF Clears, Handlers, stores, history
  <1>2. PICK e \in Enrollment : e = op.rec.id /\ e \in 1 .. used
    BY <1>1, Known
  <1>3. Stage(e) = "gone"
    BY <1>1, <1>2, Known, StageIs DEF StageOf, Unsaved, NoAttempt, NoConfig, Enrollment
  <1>4. \A x \in Enrollment : Stage(x)' = Stage(x)
    BY <1>1, StageIs DEF StageOf, Unsaved
  <1>5. Record!Tell(e)
    BY <1>1, <1>2, <1>3, <1>4 DEF Record!Tell
  <1> QED BY <1>2, <1>5 DEF Record!Next

LEMMA OthersUnseen ==
  ASSUME \/ Loads \/ Unanswered \/ DialAnswered \/ LinkAnswered \/ Reports \/ ConnectionEnds
         \/ LinkRevoked \/ Retries \/ AppliesStatus \/ IgnoresStatus \/ Commits \/ Reconciles
         \/ Wakes \/ ResetBegins \/ ResetCancels \/ ResetDials \/ ResetRevokes \/ RevokesEndpoint
         \/ ForgetBegins \/ PeerRevokes \/ CommitArrives
  PROVE  UNCHANGED Record!vars
  <1>1. CASE Commits \/ Reconciles
    BY <1>1, Unseen DEF Commits, Reconciles, Continues, NoAttempt, stores, history
  <1>2. CASE \/ Unanswered \/ DialAnswered \/ LinkAnswered \/ Reports \/ ConnectionEnds
             \/ LinkRevoked \/ Retries \/ AppliesStatus \/ IgnoresStatus
    BY <1>2, Unseen
       DEF Unanswered, DialAnswered, LinkAnswered, Reports, ConnectionEnds, LinkRevoked, Retries,
           AppliesStatus, IgnoresStatus, LoopAlone, stores, history
  <1>3. CASE Loads \/ PeerRevokes \/ CommitArrives
    BY <1>3, Unseen DEF Loads, PeerRevokes, CommitArrives, stores, history
  <1>4. CASE \/ Wakes \/ ResetBegins \/ ResetCancels \/ ResetDials \/ ResetRevokes \/ RevokesEndpoint
             \/ ForgetBegins
    BY <1>4, Unseen
       DEF Wakes, ResetBegins, ResetCancels, ResetDials, ResetRevokes, RevokesEndpoint, ForgetBegins,
           stores, history
  <1> QED BY <1>1, <1>2, <1>3, <1>4

-----------------------------------------------------------------------------
\* The Keychain, through crashes, failed writes, late statuses and migrations,
\* keeps what EnrollmentRecord promises of it.
THEOREM Implements == Spec => ImplementsEnrollmentRecord
  <1>1. Init => Record!Init
    BY InitRefines
  <1>2. IInv /\ [Next]_vars => [Record!Next]_(Record!vars)
    <2> SUFFICES ASSUME IInv, [Next]_vars PROVE [Record!Next]_(Record!vars)
      OBVIOUS
    <2>1. CASE UNCHANGED vars
      <3>1. UNCHANGED <<keychain, legacy, used, removed, attempt>>
        BY <2>1 DEF vars, stores, history
      <3> QED BY <3>1, Unseen
    <2>2. CASE LoopStep
      BY <2>2, OthersUnseen, ConfirmsRefines DEF LoopStep
    <2>3. CASE AttemptStep
      BY <2>3, BeginsRefines, AbandonRefines, SavesPendingRefines, SavesActiveRefines,
         DiscardsRefines, OthersUnseen DEF AttemptStep
    <2>4. CASE HandlerStep
      BY <2>4, CheckpointsRefines, DeletesRefines, ClearsRefines, OthersUnseen DEF HandlerStep
    <2>5. CASE Migrates \/ RemovesLegacy \/ Loads \/ Crash \/ PeerRevokes \/ CommitArrives
      BY <2>5, LaunchRefines, AbandonRefines, OthersUnseen
    <2> QED BY <2>1, <2>2, <2>3, <2>4, <2>5 DEF Next
  <1> QED BY <1>1, <1>2, Inductive, PTL DEF Spec, ImplementsEnrollmentRecord, Record!Spec
=============================================================================
