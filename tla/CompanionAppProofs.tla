------------------------- MODULE CompanionAppProofs -------------------------
(***************************************************************************)
(* Proofs about CompanionApp, for any number of enrollments and crashes    *)
(* and whatever may go wrong: the inductive invariant, what follows from   *)
(* it about the stored enrollment and the relay loop, and the action       *)
(* property of reset.                                                      *)
(***************************************************************************)
EXTENDS CompanionApp, TLAPS

\* The types, in parts.
StoreTypes == keychain \in Config /\ legacy \in Config /\ config \in Config
LoopTypes == loop \in Loop /\ late \subseteq Enrollment
StepTypes == up \in BOOLEAN /\ op \in Op /\ attempt \in Attempt
HistoryTypes ==
  /\ used \in 0 .. MaxEnrollments /\ removed \subseteq Enrollment /\ crashes \in 0 .. MaxCrashes
  /\ relay \in [Enrollment -> {"absent", "committing", "active", "linkRevoked", "gone"}]
LoopServesConfig == loop.id \in {0, config.id} /\ (loop.update => loop.step = "up")
NothingLeft == ~up => config = NoConfig /\ loop = NoLoop /\ late = {} /\ attempt = NoAttempt

\* What is stored was enrolled before; the file of the earlier version is gone
\* before the application starts.
RecordInv ==
  /\ \A c \in {keychain, legacy, config} : c # NoConfig => c.id \in 1 .. used
  /\ up \/ op.step = "load" => legacy = NoConfig
  /\ op.step = "copied" => legacy = keychain

\* Steps of a launch and of a handler exclude each other.
ProcessInv ==
  /\ up => op.step \notin {"copied", "load"}
  /\ ~up => op.step \in {"idle", "copied", "load"}
  /\ op.step = "idle" => op = Idle

\* A handler works on the enrollment of the application, whose loop it has
\* stopped; what it knows of the relay stays true.
Handlers == {"cancel", "dial", "revoke", "checkpoint", "absence", "endpoint", "delete", "clear"}
HandlerInv ==
  op.step \in Handlers =>
    /\ up /\ Enrolled
    /\ op.rec.id = config.id /\ op.rec.revoked = config.revoked
    /\ op.step # "cancel" => loop = NoLoop
    /\ op.step = "absence" => op.rec.pending
    /\ op.step = "checkpoint" => relay[op.rec.id] \in {"linkRevoked", "gone"}

\* An attempt runs while nothing is enrolled, beside no handler; what it has
\* staged is what is stored.
AttemptInv ==
  /\ attempt.step = "none" => attempt = NoAttempt
  /\ attempt.step # "none" =>
       /\ up /\ ~Enrolled /\ op = Idle
       /\ attempt.rec.id = used /\ used # 0 /\ ~attempt.rec.revoked
       /\ attempt.step # "staged" => attempt.rec.pending
       /\ attempt.step # "save" => keychain = attempt.rec

StoredInv ==
  /\ WorksWithWhatIsStored
  /\ op.step = "clear" => keychain = NoConfig
  /\ up /\ ~Enrolled /\ attempt.step \in {"none", "save"} => keychain = NoConfig

LoopInv ==
  /\ RevokedIsNotServed
  /\ loop.step = "off" => loop = NoLoop
  /\ loop.step # "off" => loop.id # 0

\* A revocation without an activation in doubt was the relay's.
RevocationInv ==
  \A c \in {keychain, legacy, config, op.rec} :
    c.revoked /\ ~c.pending => relay[c.id] \in {"linkRevoked", "gone"}

Typed == StoreTypes /\ LoopTypes /\ StepTypes /\ HistoryTypes
Consistent ==
  /\ LoopServesConfig /\ NothingLeft /\ RecordInv /\ ProcessInv /\ HandlerInv /\ AttemptInv
  /\ StoredInv /\ LoopInv /\ RevocationInv

IInv ==
  /\ StoreTypes /\ LoopTypes /\ StepTypes /\ HistoryTypes /\ LoopServesConfig /\ NothingLeft
  /\ RecordInv /\ ProcessInv /\ HandlerInv /\ AttemptInv /\ StoredInv /\ LoopInv /\ RevocationInv

-----------------------------------------------------------------------------
\* What the records are, apart from the rest.

LEMMA ConfigIs ==
  /\ NoConfig \in Config
  /\ \A id \in 0 .. MaxEnrollments, pending, revoked \in BOOLEAN :
       [id |-> id, pending |-> pending, revoked |-> revoked] \in Config
  /\ \A c \in Config :
       c.id \in 0 .. MaxEnrollments /\ c.pending \in BOOLEAN /\ c.revoked \in BOOLEAN
  BY CompanionAppAssumption DEF Config, NoConfig

OpSteps == {"idle", "copied", "load", "cancel", "dial", "revoke", "checkpoint", "absence",
            "endpoint", "delete", "clear"}
LEMMA OpIs ==
  /\ Idle \in Op
  /\ \A s \in OpSteps, c \in Config : [step |-> s, rec |-> c] \in Op
  /\ \A o \in Op : o.step \in OpSteps /\ o.rec \in Config
  BY ConfigIs DEF Op, Idle, OpSteps

LoopSteps == {"off", "dial", "ask", "up", "retry", "ended"}
LEMMA LoopIs ==
  /\ NoLoop \in Loop
  /\ \A id \in 0 .. MaxEnrollments, s \in LoopSteps, u \in BOOLEAN :
       [id |-> id, step |-> s, update |-> u] \in Loop
  /\ \A l \in Loop : l.id \in 0 .. MaxEnrollments /\ l.step \in LoopSteps /\ l.update \in BOOLEAN
  BY CompanionAppAssumption DEF Loop, NoLoop, LoopSteps

AttemptSteps == {"none", "save", "commit", "active", "rejected", "staged"}
LEMMA AttemptIs ==
  /\ NoAttempt \in Attempt
  /\ \A by \in {"nobody", "pairing", "enroll"}, s \in AttemptSteps, c \in Config :
       [by |-> by, rec |-> c, step |-> s] \in Attempt
  /\ \A a \in Attempt :
       a.by \in {"nobody", "pairing", "enroll"} /\ a.step \in AttemptSteps /\ a.rec \in Config
  BY ConfigIs DEF Attempt, NoAttempt, AttemptSteps

LEMMA CancelledLate ==
  ASSUME LoopTypes, LoopServesConfig, LoopInv, Cancelled
  PROVE  late' \subseteq Enrollment
  <1>1. loop.update => loop.id \in Enrollment
    BY CompanionAppAssumption, LoopIs DEF LoopTypes, LoopServesConfig, LoopInv, LoopSteps, Enrollment
  <1>2. late \subseteq Enrollment
    BY DEF LoopTypes
  <1>3. CASE loop.update
    BY <1>1, <1>2, <1>3, Zenon DEF Cancelled
  <1>4. CASE ~loop.update
    BY <1>2, <1>4, Zenon DEF Cancelled
  <1> QED BY <1>3, <1>4

LEMMA StartRelayTypes ==
  ASSUME LoopTypes, LoopServesConfig, LoopInv, NEW c \in Config, StartRelay(c)
  PROVE  LoopTypes'
  <1>1. late' \subseteq Enrollment
    BY CancelledLate DEF StartRelay
  <1>2. c.id \in 0 .. MaxEnrollments
    BY ConfigIs
  <1>3. loop' \in Loop
    BY <1>2 DEF StartRelay, Loop
  <1> QED BY <1>1, <1>3 DEF LoopTypes

LEMMA CancelTypes ==
  ASSUME LoopTypes, LoopServesConfig, LoopInv, Cancel
  PROVE  LoopTypes'
  BY CancelledLate, LoopIs DEF Cancel, LoopTypes

LEMMA FailsTypes ==
  ASSUME LoopTypes, LoopServesConfig, LoopInv, op.rec \in Config, Fails
  PROVE  LoopTypes'
  <1>1. CASE op.rec.revoked
    BY <1>1 DEF Fails, LoopTypes
  <1>2. CASE ~op.rec.revoked
    BY <1>2, StartRelayTypes DEF Fails
  <1> QED BY <1>1, <1>2

-----------------------------------------------------------------------------
\* Every action keeps the types.
LEMMA MigratesTypes ==
  ASSUME IInv, Migrates
  PROVE  Typed'
  <1>1. LoopTypes' /\ HistoryTypes'
    BY DEF IInv, LoopTypes, HistoryTypes, Migrates, app, history
  <1>2. StoreTypes'
    BY ConfigIs DEF IInv, StoreTypes, Migrates, app, history
  <1>3. StepTypes'
    BY OpIs DEF IInv, StepTypes, OpSteps, Migrates, Go, app, history
  <1> QED BY <1>1, <1>2, <1>3 DEF Typed

LEMMA RemovesLegacyTypes ==
  ASSUME IInv, RemovesLegacy
  PROVE  Typed'
  <1>1. LoopTypes' /\ HistoryTypes'
    BY DEF IInv, LoopTypes, HistoryTypes, RemovesLegacy, app, history
  <1>2. StoreTypes'
    BY ConfigIs DEF IInv, StoreTypes, RemovesLegacy, StorageFails, app, history
  <1>3. StepTypes'
    BY OpIs DEF IInv, StepTypes, OpSteps, RemovesLegacy, Go, StorageFails, app, history
  <1> QED BY <1>1, <1>2, <1>3 DEF Typed

LEMMA LoadsTypes ==
  ASSUME IInv, Loads
  PROVE  Typed'
  <1>1. HistoryTypes'
    BY DEF IInv, HistoryTypes, Loads, stores, history
  <1>2. StoreTypes'
    BY ConfigIs DEF IInv, StoreTypes, Loads, stores, history
  <1>3. LoopTypes'
    <2>1. CASE keychain = NoConfig \/ keychain.revoked
      BY <2>1 DEF IInv, LoopTypes, Loads
    <2>2. CASE ~(keychain = NoConfig \/ keychain.revoked)
      BY <2>2, StartRelayTypes DEF IInv, StoreTypes, Loads
    <2> QED BY <2>1, <2>2
  <1>4. StepTypes'
    BY OpIs DEF IInv, StepTypes, OpSteps, Loads, stores, history
  <1> QED BY <1>1, <1>2, <1>3, <1>4 DEF Typed

LEMMA CrashTypes ==
  ASSUME IInv, Crash
  PROVE  Typed'
  <1>1. StoreTypes'
    BY ConfigIs DEF IInv, StoreTypes, Crash, stores
  <1>2. LoopTypes'
    BY LoopIs DEF IInv, LoopTypes, LoopSteps, Crash, stores
  <1>3. StepTypes'
    BY OpIs, AttemptIs DEF IInv, StepTypes, OpSteps, AttemptSteps, Crash, stores
  <1>4. HistoryTypes'
    BY CompanionAppAssumption DEF IInv, HistoryTypes, StepTypes, Enrollment, Crash, Relay,
                                  stores
  <1> QED BY <1>1, <1>2, <1>3, <1>4 DEF Typed

LEMMA UnansweredTypes ==
  ASSUME IInv, Unanswered
  PROVE  Typed'
  <1>1. StoreTypes' /\ StepTypes' /\ HistoryTypes'
    BY DEF IInv, StoreTypes, StepTypes, HistoryTypes, Unanswered, LoopAlone, stores,
           history, app
  <1>2. LoopTypes'
    BY LoopIs DEF IInv, LoopTypes, LoopSteps, Unanswered, NetworkFails, LoopGoes, LoopAlone,
                  stores, history
  <1> QED BY <1>1, <1>2 DEF Typed

LEMMA DialAnsweredTypes ==
  ASSUME IInv, DialAnswered
  PROVE  Typed'
  <1>1. StoreTypes' /\ StepTypes' /\ HistoryTypes'
    BY DEF IInv, StoreTypes, StepTypes, HistoryTypes, DialAnswered, LoopAlone, stores,
           history, app
  <1>2. LoopTypes'
    BY LoopIs DEF IInv, LoopTypes, LoopSteps, DialAnswered, LoopGoes, LoopAlone, stores,
                  history
  <1> QED BY <1>1, <1>2 DEF Typed

LEMMA LinkAnsweredTypes ==
  ASSUME IInv, LinkAnswered
  PROVE  Typed'
  <1>1. StoreTypes' /\ StepTypes' /\ HistoryTypes'
    BY DEF IInv, StoreTypes, StepTypes, HistoryTypes, LinkAnswered, LoopAlone, stores,
           history, app
  <1>2. LoopTypes'
    BY LoopIs DEF IInv, LoopTypes, LoopSteps, LinkAnswered, LoopGoes, LoopAlone, stores,
                  history
  <1> QED BY <1>1, <1>2 DEF Typed

LEMMA ReportsTypes ==
  ASSUME IInv, Reports
  PROVE  Typed'
  <1>1. StoreTypes' /\ StepTypes' /\ HistoryTypes'
    BY DEF IInv, StoreTypes, StepTypes, HistoryTypes, Reports, LoopAlone, stores, history,
           app
  <1>2. LoopTypes'
    BY LoopIs DEF IInv, LoopTypes, LoopSteps, Reports, LoopGoes, LoopAlone, stores, history
  <1> QED BY <1>1, <1>2 DEF Typed

LEMMA ConnectionEndsTypes ==
  ASSUME IInv, ConnectionEnds
  PROVE  Typed'
  <1>1. StoreTypes' /\ StepTypes' /\ HistoryTypes'
    BY DEF IInv, StoreTypes, StepTypes, HistoryTypes, ConnectionEnds, LoopAlone, stores,
           history, app
  <1>2. LoopTypes'
    BY LoopIs DEF IInv, LoopTypes, LoopSteps, ConnectionEnds, LoopGoes, LoopAlone, stores,
                  history
  <1> QED BY <1>1, <1>2 DEF Typed

LEMMA LinkRevokedTypes ==
  ASSUME IInv, LinkRevoked
  PROVE  Typed'
  <1>1. StoreTypes' /\ StepTypes' /\ HistoryTypes'
    BY DEF IInv, StoreTypes, StepTypes, HistoryTypes, LinkRevoked, LoopAlone, stores,
           history, app
  <1>2. LoopTypes'
    BY LoopIs DEF IInv, LoopTypes, LoopSteps, LinkRevoked, LoopGoes, LoopAlone, stores,
                  history
  <1> QED BY <1>1, <1>2 DEF Typed

LEMMA RetriesTypes ==
  ASSUME IInv, Retries
  PROVE  Typed'
  <1>1. StoreTypes' /\ StepTypes' /\ HistoryTypes'
    BY DEF IInv, StoreTypes, StepTypes, HistoryTypes, Retries, LoopAlone, stores, history,
           app
  <1>2. LoopTypes'
    BY LoopIs DEF IInv, LoopTypes, LoopSteps, Retries, LoopGoes, LoopAlone, stores, history
  <1> QED BY <1>1, <1>2 DEF Typed

LEMMA ConfirmsTypes ==
  ASSUME IInv, Confirms
  PROVE  Typed'
  <1>1. StepTypes' /\ HistoryTypes'
    BY DEF IInv, StepTypes, HistoryTypes, Confirms, history
  <1>2. StoreTypes'
    BY ConfigIs DEF IInv, StoreTypes, Confirms, Confirmable, Confirmed, history
  <1>3. LoopTypes'
    BY LoopIs DEF IInv, LoopTypes, LoopSteps, Confirms, Confirmable, Confirmed, LoopGoes,
                  history
  <1> QED BY <1>1, <1>2, <1>3 DEF Typed

LEMMA AppliesStatusTypes ==
  ASSUME IInv, AppliesStatus
  PROVE  Typed'
  <1>1. StoreTypes' /\ StepTypes' /\ HistoryTypes'
    BY DEF IInv, StoreTypes, StepTypes, HistoryTypes, AppliesStatus, LoopAlone, stores,
           history, app
  <1>2. LoopTypes'
    BY LoopIs DEF IInv, LoopTypes, LoopSteps, AppliesStatus, Confirmable, StorageFails,
                  LoopGoes, LoopAlone, stores, history
  <1> QED BY <1>1, <1>2 DEF Typed

LEMMA IgnoresStatusTypes ==
  ASSUME IInv, IgnoresStatus
  PROVE  Typed'
  <1>1. StoreTypes' /\ StepTypes' /\ HistoryTypes'
    BY DEF IInv, StoreTypes, StepTypes, HistoryTypes, IgnoresStatus, stores, history
  <1>2. LoopTypes'
    BY LoopIs DEF IInv, LoopTypes, LoopSteps, IgnoresStatus, stores, history
  <1> QED BY <1>1, <1>2 DEF Typed

LEMMA BeginsTypes ==
  ASSUME IInv, NEW by \in {"pairing", "enroll"}, Begins(by)
  PROVE  Typed'
  <1>1. StoreTypes' /\ LoopTypes'
    BY DEF IInv, StoreTypes, LoopTypes, Begins, app, stores
  <1>2. StepTypes'
    <2>1. New \in Config
      BY CompanionAppAssumption DEF IInv, HistoryTypes, Begins, New, Config
    <2>2. attempt' \in Attempt
      BY <2>1, AttemptIs DEF Begins, AttemptSteps
    <2> QED BY <2>2 DEF IInv, StepTypes, Begins, app
  <1>3. HistoryTypes'
    BY CompanionAppAssumption DEF IInv, HistoryTypes, StepTypes, Enrollment, Begins, Free,
                                  New, app, stores
  <1> QED BY <1>1, <1>2, <1>3 DEF Typed

LEMMA AbortsTypes ==
  ASSUME IInv, Aborts
  PROVE  Typed'
  <1>1. StoreTypes' /\ LoopTypes' /\ HistoryTypes'
    BY DEF IInv, StoreTypes, LoopTypes, HistoryTypes, Aborts, app, stores, history
  <1>2. StepTypes'
    BY ConfigIs, AttemptIs DEF IInv, StepTypes, AttemptSteps, Aborts, app, stores, history
  <1> QED BY <1>1, <1>2 DEF Typed

LEMMA SavesPendingTypes ==
  ASSUME IInv, SavesPending
  PROVE  Typed'
  <1>1. LoopTypes' /\ HistoryTypes'
    BY DEF IInv, LoopTypes, HistoryTypes, SavesPending, app, history
  <1>2. StoreTypes'
    BY ConfigIs, AttemptIs DEF IInv, StoreTypes, StepTypes, SavesPending, app, history
  <1>3. StepTypes'
    BY ConfigIs, AttemptIs DEF IInv, StepTypes, AttemptSteps, SavesPending, Continues, app,
                               history
  <1> QED BY <1>1, <1>2, <1>3 DEF Typed

LEMMA CommitsTypes ==
  ASSUME IInv, Commits
  PROVE  Typed'
  <1>1. StoreTypes' /\ LoopTypes'
    BY DEF IInv, StoreTypes, LoopTypes, Commits, app, stores, history
  <1>2. StepTypes'
    BY ConfigIs, AttemptIs DEF IInv, StepTypes, AttemptSteps, Commits, Continues,
                               NetworkFails, app, stores, history
  <1>3. HistoryTypes'
    BY DEF IInv, HistoryTypes, Commits, Relay, NetworkFails, app, stores, history
  <1> QED BY <1>1, <1>2, <1>3 DEF Typed

LEMMA SavesActiveTypes ==
  ASSUME IInv, SavesActive
  PROVE  Typed'
  <1>1. LoopTypes' /\ HistoryTypes'
    BY DEF IInv, LoopTypes, HistoryTypes, SavesActive, app, history
  <1>2. StoreTypes'
    BY ConfigIs, AttemptIs DEF IInv, StoreTypes, StepTypes, SavesActive, StorageFails, app,
                               history
  <1>3. StepTypes'
    <2>1. attempt.rec \in Config /\ attempt.by \in {"nobody", "pairing", "enroll"}
      BY AttemptIs DEF IInv, StepTypes
    <2>2. [id |-> attempt.rec.id, pending |-> FALSE, revoked |-> FALSE] \in Config
      BY <2>1, ConfigIs
    <2>3. ASSUME NEW c \in Config, attempt' = [by |-> attempt.by, rec |-> c, step |-> "staged"]
          PROVE  attempt' \in Attempt
      BY <2>1, <2>3, AttemptIs DEF AttemptSteps
    <2>4. attempt' \in Attempt
      BY <2>1, <2>2, <2>3 DEF SavesActive, Continues
    <2> QED BY <2>4 DEF IInv, StepTypes, SavesActive, app
  <1> QED BY <1>1, <1>2, <1>3 DEF Typed

LEMMA DiscardsTypes ==
  ASSUME IInv, Discards
  PROVE  Typed'
  <1>1. LoopTypes' /\ HistoryTypes'
    BY DEF IInv, LoopTypes, HistoryTypes, Discards, app, history
  <1>2. StoreTypes'
    BY ConfigIs DEF IInv, StoreTypes, Discards, StorageFails, app, history
  <1>3. StepTypes'
    BY ConfigIs, AttemptIs DEF IInv, StepTypes, AttemptSteps, Discards, StorageFails,
                               Continues, app, history
  <1> QED BY <1>1, <1>2, <1>3 DEF Typed

LEMMA ReconcilesTypes ==
  ASSUME IInv, Reconciles
  PROVE  Typed'
  <1>1. HistoryTypes'
    BY DEF IInv, HistoryTypes, Reconciles, stores, history
  <1>2. StoreTypes'
    BY ConfigIs, AttemptIs DEF IInv, StoreTypes, StepTypes, Reconciles, stores, history
  <1>3. LoopTypes'
    BY StartRelayTypes, AttemptIs DEF IInv, StepTypes, Reconciles
  <1>4. StepTypes'
    BY ConfigIs, AttemptIs DEF IInv, StepTypes, AttemptSteps, Reconciles, stores, history
  <1> QED BY <1>1, <1>2, <1>3, <1>4 DEF Typed

LEMMA WakesTypes ==
  ASSUME IInv, Wakes
  PROVE  Typed'
  <1>1. StoreTypes' /\ StepTypes' /\ HistoryTypes'
    BY DEF IInv, StoreTypes, StepTypes, HistoryTypes, Wakes, stores, history
  <1>2. LoopTypes'
    BY StartRelayTypes DEF IInv, StoreTypes, Wakes
  <1> QED BY <1>1, <1>2 DEF Typed

LEMMA ResetBeginsTypes ==
  ASSUME IInv, ResetBegins
  PROVE  Typed'
  <1>1. StoreTypes' /\ LoopTypes' /\ HistoryTypes'
    BY DEF IInv, StoreTypes, LoopTypes, HistoryTypes, ResetBegins, app, stores, history
  <1>2. StepTypes'
    BY OpIs DEF IInv, StoreTypes, StepTypes, OpSteps, ResetBegins, Free, app, stores,
                history
  <1> QED BY <1>1, <1>2 DEF Typed

LEMMA ResetCancelsTypes ==
  ASSUME IInv, ResetCancels
  PROVE  Typed'
  <1>1. StoreTypes' /\ HistoryTypes'
    BY DEF IInv, StoreTypes, HistoryTypes, ResetCancels, stores, history
  <1>2. LoopTypes'
    BY LoopIs, CancelTypes DEF IInv, LoopTypes, LoopSteps, ResetCancels, Cancel, Cancelled,
                               stores, history
  <1>3. StepTypes'
    BY OpIs DEF IInv, StepTypes, OpSteps, ResetCancels, Go, stores, history
  <1> QED BY <1>1, <1>2, <1>3 DEF Typed

LEMMA ResetDialsTypes ==
  ASSUME IInv, ResetDials
  PROVE  Typed'
  <1>1. StoreTypes' /\ HistoryTypes'
    BY DEF IInv, StoreTypes, HistoryTypes, ResetDials, stores, history
  <1>2. LoopTypes'
    <2>1. CASE UNCHANGED <<loop, late>>
      BY <2>1 DEF IInv, LoopTypes
    <2>2. CASE Fails
      BY <2>2, FailsTypes, OpIs DEF IInv, StepTypes
    <2> QED BY <2>1, <2>2 DEF ResetDials
  <1>3. StepTypes'
    BY OpIs DEF IInv, StepTypes, OpSteps, ResetDials, Go, Absent, NetworkFails,
                AbsenceProves, Fails, stores, history
  <1> QED BY <1>1, <1>2, <1>3 DEF Typed

LEMMA ResetRevokesTypes ==
  ASSUME IInv, ResetRevokes
  PROVE  Typed'
  <1>1. StoreTypes'
    BY DEF IInv, StoreTypes, ResetRevokes, stores, history
  <1>2. LoopTypes'
    <2>1. CASE UNCHANGED <<loop, late>>
      BY <2>1 DEF IInv, LoopTypes
    <2>2. CASE Fails
      BY <2>2, FailsTypes, OpIs DEF IInv, StepTypes
    <2> QED BY <2>1, <2>2 DEF ResetRevokes
  <1>3. StepTypes'
    BY OpIs DEF IInv, StepTypes, OpSteps, ResetRevokes, Go, NetworkFails, Fails, stores,
                history
  <1>4. HistoryTypes'
    BY DEF IInv, HistoryTypes, ResetRevokes, Relay, NetworkFails, stores, history
  <1> QED BY <1>1, <1>2, <1>3, <1>4 DEF Typed

LEMMA CheckpointsTypes ==
  ASSUME IInv, Checkpoints
  PROVE  Typed'
  <1>1. HistoryTypes'
    BY DEF IInv, HistoryTypes, Checkpoints, history
  <1>2. StoreTypes'
    <2>1. [id |-> op.rec.id, pending |-> op.rec.pending, revoked |-> TRUE] \in Config
      BY ConfigIs, OpIs DEF IInv, StepTypes
    <2> QED BY <2>1 DEF IInv, StoreTypes, Checkpoints
  <1>3. LoopTypes'
    <2>1. CASE UNCHANGED <<loop, late>>
      BY <2>1 DEF IInv, LoopTypes
    <2>2. CASE Fails
      BY <2>2, FailsTypes, OpIs DEF IInv, StepTypes
    <2> QED BY <2>1, <2>2 DEF Checkpoints
  <1>4. StepTypes'
    <2>1. [id |-> op.rec.id, pending |-> op.rec.pending, revoked |-> TRUE] \in Config
      BY ConfigIs, OpIs DEF IInv, StepTypes
    <2>2. CASE StorageFails /\ Fails /\ UNCHANGED <<keychain, config>>
      BY <2>2, OpIs DEF IInv, StepTypes, Checkpoints, Fails
    <2>3. CASE op' = [step |-> IF op.step = "checkpoint" THEN "endpoint" ELSE "delete",
                      rec |-> [id |-> op.rec.id, pending |-> op.rec.pending, revoked |-> TRUE]]
      <3>1. op' \in Op
        BY <2>1, <2>3, OpIs DEF OpSteps
      <3> QED BY <3>1 DEF IInv, StepTypes, Checkpoints
    <2> QED BY <2>2, <2>3 DEF Checkpoints
  <1> QED BY <1>1, <1>2, <1>3, <1>4 DEF Typed

LEMMA RevokesEndpointTypes ==
  ASSUME IInv, RevokesEndpoint
  PROVE  Typed'
  <1>1. StoreTypes' /\ LoopTypes'
    BY DEF IInv, StoreTypes, LoopTypes, RevokesEndpoint, app, stores, history
  <1>2. StepTypes'
    BY OpIs DEF IInv, StepTypes, OpSteps, RevokesEndpoint, Go, Absent, NetworkFails, app,
                stores, history
  <1>3. HistoryTypes'
    BY DEF IInv, HistoryTypes, RevokesEndpoint, Absent, Relay, NetworkFails, app, stores,
           history
  <1> QED BY <1>1, <1>2, <1>3 DEF Typed

LEMMA ForgetBeginsTypes ==
  ASSUME IInv, ForgetBegins
  PROVE  Typed'
  <1>1. StoreTypes' /\ HistoryTypes'
    BY DEF IInv, StoreTypes, HistoryTypes, ForgetBegins, stores, history
  <1>2. LoopTypes'
    BY LoopIs, CancelTypes DEF IInv, LoopTypes, LoopSteps, ForgetBegins, Free, Cancel,
                               Cancelled, stores, history
  <1>3. StepTypes'
    BY OpIs DEF IInv, StoreTypes, StepTypes, OpSteps, ForgetBegins, Free, stores, history
  <1> QED BY <1>1, <1>2, <1>3 DEF Typed

LEMMA DeletesTypes ==
  ASSUME IInv, Deletes
  PROVE  Typed'
  <1>1. LoopTypes' /\ HistoryTypes'
    BY DEF IInv, LoopTypes, HistoryTypes, Deletes, app, history
  <1>2. StoreTypes'
    BY ConfigIs DEF IInv, StoreTypes, Deletes, StorageFails, app, history
  <1>3. StepTypes'
    BY OpIs DEF IInv, StepTypes, OpSteps, Deletes, Go, StorageFails, app, history
  <1> QED BY <1>1, <1>2, <1>3 DEF Typed

LEMMA ClearsTypes ==
  ASSUME IInv, Clears
  PROVE  Typed'
  <1>1. LoopTypes'
    BY DEF IInv, LoopTypes, Clears, stores
  <1>2. StoreTypes'
    BY ConfigIs DEF IInv, StoreTypes, Clears, stores
  <1>3. StepTypes'
    BY OpIs DEF IInv, StepTypes, OpSteps, Clears, stores
  <1>4. HistoryTypes'
    <2>1. op.rec.id \in Enrollment
      BY CompanionAppAssumption, ConfigIs
         DEF IInv, HistoryTypes, StoreTypes, HandlerInv, Handlers, RecordInv, Enrolled,
             Clears, Enrollment
    <2>2. removed' \subseteq Enrollment
      BY <2>1, Zenon DEF IInv, HistoryTypes, Clears
    <2> QED BY <2>2 DEF IInv, HistoryTypes, Clears
  <1> QED BY <1>1, <1>2, <1>3, <1>4 DEF Typed

LEMMA PeerRevokesTypes ==
  ASSUME IInv, PeerRevokes
  PROVE  Typed'
  <1>1. StoreTypes' /\ LoopTypes' /\ StepTypes'
    BY DEF IInv, StoreTypes, LoopTypes, StepTypes, PeerRevokes, app, stores, history
  <1>2. HistoryTypes'
    BY DEF IInv, HistoryTypes, PeerRevokes, Relay, app, stores, history
  <1> QED BY <1>1, <1>2 DEF Typed

LEMMA CommitArrivesTypes ==
  ASSUME IInv, CommitArrives
  PROVE  Typed'
  <1>1. StoreTypes' /\ LoopTypes' /\ StepTypes'
    BY DEF IInv, StoreTypes, LoopTypes, StepTypes, CommitArrives, app, stores, history
  <1>2. HistoryTypes'
    BY DEF IInv, HistoryTypes, CommitArrives, Relay, app, stores, history
  <1> QED BY <1>1, <1>2 DEF Typed

-----------------------------------------------------------------------------
\* Every action keeps the rest of the invariant.
USE CompanionAppAssumption
USE DEF Enrollment, Config, NoConfig, Loop, NoLoop, Op, Idle, Attempt, NoAttempt, Enrolled,
        app, stores, history

LEMMA MigratesConsistent ==
  ASSUME IInv, Migrates
  PROVE  Consistent'
  <1>1. LoopServesConfig' /\ NothingLeft' /\ LoopInv'
    BY DEF IInv, LoopServesConfig, NothingLeft, LoopInv, RevokedIsNotServed, Migrates
  <1>2. RecordInv'
    BY DEF IInv, RecordInv, Migrates, Go
  <1>3. ProcessInv'
    BY DEF IInv, ProcessInv, Migrates, Go
  <1>4. HandlerInv'
    BY DEF IInv, HandlerInv, Handlers, Migrates, Go
  <1>5. AttemptInv'
    BY DEF IInv, AttemptInv, Migrates, Go
  <1>6. StoredInv'
    BY DEF IInv, StoredInv, WorksWithWhatIsStored, Migrates, Go
  <1>7. RevocationInv'
    BY DEF IInv, RecordInv, RevocationInv, Migrates, Go
  <1> QED BY <1>1, <1>2, <1>3, <1>4, <1>5, <1>6, <1>7 DEF Consistent

LEMMA RemovesLegacyConsistent ==
  ASSUME IInv, RemovesLegacy
  PROVE  Consistent'
  <1>1. LoopServesConfig' /\ NothingLeft' /\ LoopInv'
    BY DEF IInv, LoopServesConfig, NothingLeft, LoopInv, RevokedIsNotServed, RemovesLegacy
  <1>2. RecordInv'
    BY DEF IInv, RecordInv, RemovesLegacy, Go, StorageFails
  <1>3. ProcessInv'
    BY DEF IInv, ProcessInv, RemovesLegacy, Go, StorageFails
  <1>4. HandlerInv'
    BY DEF IInv, HandlerInv, Handlers, RemovesLegacy, Go, StorageFails
  <1>5. AttemptInv'
    BY DEF IInv, AttemptInv, RemovesLegacy, Go, StorageFails
  <1>6. StoredInv'
    BY DEF IInv, StoredInv, WorksWithWhatIsStored, RemovesLegacy, Go, StorageFails
  <1>7. RevocationInv'
    BY DEF IInv, RevocationInv, RemovesLegacy, Go, StorageFails
  <1> QED BY <1>1, <1>2, <1>3, <1>4, <1>5, <1>6, <1>7 DEF Consistent

LEMMA LoadsConsistent ==
  ASSUME IInv, Loads
  PROVE  Consistent'
  <1>1. LoopServesConfig'
    BY DEF IInv, LoopServesConfig, NothingLeft, StoredInv, WorksWithWhatIsStored, Loads,
           StartRelay
  <1>2. NothingLeft'
    BY DEF IInv, NothingLeft, Loads, StartRelay, Cancelled
  <1>3. RecordInv'
    BY DEF IInv, RecordInv, Loads
  <1>4. ProcessInv'
    BY DEF IInv, ProcessInv, Loads
  <1>5. HandlerInv'
    BY DEF IInv, HandlerInv, Handlers, Loads, StartRelay
  <1>6. AttemptInv'
    BY DEF IInv, AttemptInv, Loads
  <1>7. StoredInv'
    BY DEF IInv, StoredInv, WorksWithWhatIsStored, Loads
  <1>8. LoopInv'
    BY DEF IInv, NothingLeft, RecordInv, AttemptInv, StoredInv, WorksWithWhatIsStored,
           LoopInv, RevokedIsNotServed, Loads, StartRelay
  <1>9. RevocationInv'
    BY DEF IInv, RevocationInv, Loads
  <1> QED BY <1>1, <1>2, <1>3, <1>4, <1>5, <1>6, <1>7, <1>8, <1>9 DEF Consistent

LEMMA CrashConsistent ==
  ASSUME IInv, Crash
  PROVE  Consistent'
  <1>1. LoopServesConfig'
    BY DEF IInv, LoopServesConfig, Crash
  <1>2. NothingLeft'
    BY DEF IInv, NothingLeft, Crash
  <1>3. RecordInv'
    BY DEF IInv, RecordInv, Crash
  <1>4. ProcessInv'
    BY DEF IInv, ProcessInv, Crash
  <1>5. HandlerInv'
    BY DEF IInv, HandlerInv, Handlers, Crash, Relay
  <1>6. AttemptInv'
    BY DEF IInv, AttemptInv, Crash
  <1>7. StoredInv'
    BY DEF IInv, StoredInv, WorksWithWhatIsStored, Crash
  <1>8. LoopInv'
    BY DEF IInv, LoopInv, RevokedIsNotServed, Crash
  <1>9. RevocationInv'
    BY DEF IInv, RecordInv, AttemptInv, RevocationInv, Crash, Relay
  <1> QED BY <1>1, <1>2, <1>3, <1>4, <1>5, <1>6, <1>7, <1>8, <1>9 DEF Consistent

LEMMA UnansweredConsistent ==
  ASSUME IInv, Unanswered
  PROVE  Consistent'
  <1>1. RecordInv' /\ ProcessInv' /\ AttemptInv' /\ StoredInv' /\ RevocationInv'
    BY DEF IInv, RecordInv, ProcessInv, AttemptInv, StoredInv, WorksWithWhatIsStored,
           RevocationInv, Unanswered, LoopAlone
  <1>2. LoopServesConfig'
    BY DEF IInv, LoopServesConfig, Unanswered, NetworkFails, LoopGoes, LoopAlone
  <1>3. NothingLeft'
    BY DEF IInv, NothingLeft, Unanswered, NetworkFails, LoopGoes, LoopAlone
  <1>4. HandlerInv'
    BY DEF IInv, HandlerInv, Handlers, Unanswered, NetworkFails, LoopGoes, LoopAlone
  <1>5. LoopInv'
    BY DEF IInv, LoopInv, RevokedIsNotServed, Unanswered, NetworkFails, LoopGoes, LoopAlone
  <1> QED BY <1>1, <1>2, <1>3, <1>4, <1>5 DEF Consistent

LEMMA DialAnsweredConsistent ==
  ASSUME IInv, DialAnswered
  PROVE  Consistent'
  <1>1. RecordInv' /\ ProcessInv' /\ AttemptInv' /\ StoredInv' /\ RevocationInv'
    BY DEF IInv, RecordInv, ProcessInv, AttemptInv, StoredInv, WorksWithWhatIsStored,
           RevocationInv, DialAnswered, LoopAlone
  <1>2. LoopServesConfig'
    BY DEF IInv, LoopServesConfig, DialAnswered, LoopGoes, LoopAlone
  <1>3. NothingLeft'
    BY DEF IInv, NothingLeft, DialAnswered, LoopGoes, LoopAlone
  <1>4. HandlerInv'
    BY DEF IInv, HandlerInv, Handlers, DialAnswered, LoopGoes, LoopAlone
  <1>5. LoopInv'
    BY DEF IInv, LoopInv, RevokedIsNotServed, DialAnswered, LoopGoes, LoopAlone
  <1> QED BY <1>1, <1>2, <1>3, <1>4, <1>5 DEF Consistent

LEMMA LinkAnsweredConsistent ==
  ASSUME IInv, LinkAnswered
  PROVE  Consistent'
  <1>1. RecordInv' /\ ProcessInv' /\ AttemptInv' /\ StoredInv' /\ RevocationInv'
    BY DEF IInv, RecordInv, ProcessInv, AttemptInv, StoredInv, WorksWithWhatIsStored,
           RevocationInv, LinkAnswered, LoopAlone
  <1>2. LoopServesConfig'
    BY DEF IInv, LoopServesConfig, LinkAnswered, LoopGoes, LoopAlone
  <1>3. NothingLeft'
    BY DEF IInv, NothingLeft, LinkAnswered, LoopGoes, LoopAlone
  <1>4. HandlerInv'
    BY DEF IInv, HandlerInv, Handlers, LinkAnswered, LoopGoes, LoopAlone
  <1>5. LoopInv'
    BY DEF IInv, LoopInv, RevokedIsNotServed, LinkAnswered, LoopGoes, LoopAlone
  <1> QED BY <1>1, <1>2, <1>3, <1>4, <1>5 DEF Consistent

LEMMA ReportsConsistent ==
  ASSUME IInv, Reports
  PROVE  Consistent'
  <1>1. RecordInv' /\ ProcessInv' /\ AttemptInv' /\ StoredInv' /\ RevocationInv'
    BY DEF IInv, RecordInv, ProcessInv, AttemptInv, StoredInv, WorksWithWhatIsStored,
           RevocationInv, Reports, LoopAlone
  <1>2. LoopServesConfig'
    BY DEF IInv, LoopServesConfig, Reports, LoopGoes, LoopAlone
  <1>3. NothingLeft'
    BY DEF IInv, NothingLeft, Reports, LoopGoes, LoopAlone
  <1>4. HandlerInv'
    BY DEF IInv, HandlerInv, Handlers, Reports, LoopGoes, LoopAlone
  <1>5. LoopInv'
    BY DEF IInv, LoopInv, RevokedIsNotServed, Reports, LoopGoes, LoopAlone
  <1> QED BY <1>1, <1>2, <1>3, <1>4, <1>5 DEF Consistent

LEMMA ConnectionEndsConsistent ==
  ASSUME IInv, ConnectionEnds
  PROVE  Consistent'
  <1>1. RecordInv' /\ ProcessInv' /\ AttemptInv' /\ StoredInv' /\ RevocationInv'
    BY DEF IInv, RecordInv, ProcessInv, AttemptInv, StoredInv, WorksWithWhatIsStored,
           RevocationInv, ConnectionEnds, LoopAlone
  <1>2. LoopServesConfig'
    BY DEF IInv, LoopServesConfig, ConnectionEnds, LoopGoes, LoopAlone
  <1>3. NothingLeft'
    BY DEF IInv, NothingLeft, ConnectionEnds, LoopGoes, LoopAlone
  <1>4. HandlerInv'
    BY DEF IInv, HandlerInv, Handlers, ConnectionEnds, LoopGoes, LoopAlone
  <1>5. LoopInv'
    BY DEF IInv, LoopInv, RevokedIsNotServed, ConnectionEnds, LoopGoes, LoopAlone
  <1> QED BY <1>1, <1>2, <1>3, <1>4, <1>5 DEF Consistent

LEMMA LinkRevokedConsistent ==
  ASSUME IInv, LinkRevoked
  PROVE  Consistent'
  <1>1. RecordInv' /\ ProcessInv' /\ AttemptInv' /\ StoredInv' /\ RevocationInv'
    BY DEF IInv, RecordInv, ProcessInv, AttemptInv, StoredInv, WorksWithWhatIsStored,
           RevocationInv, LinkRevoked, LoopAlone
  <1>2. LoopServesConfig'
    BY DEF IInv, LoopServesConfig, LinkRevoked, LoopGoes, LoopAlone
  <1>3. NothingLeft'
    BY DEF IInv, NothingLeft, LinkRevoked, LoopGoes, LoopAlone
  <1>4. HandlerInv'
    BY DEF IInv, HandlerInv, Handlers, LinkRevoked, LoopGoes, LoopAlone
  <1>5. LoopInv'
    BY DEF IInv, LoopInv, RevokedIsNotServed, LinkRevoked, LoopGoes, LoopAlone
  <1> QED BY <1>1, <1>2, <1>3, <1>4, <1>5 DEF Consistent

LEMMA RetriesConsistent ==
  ASSUME IInv, Retries
  PROVE  Consistent'
  <1>1. RecordInv' /\ ProcessInv' /\ AttemptInv' /\ StoredInv' /\ RevocationInv'
    BY DEF IInv, RecordInv, ProcessInv, AttemptInv, StoredInv, WorksWithWhatIsStored,
           RevocationInv, Retries, LoopAlone
  <1>2. LoopServesConfig'
    BY DEF IInv, LoopServesConfig, Retries, LoopGoes, LoopAlone
  <1>3. NothingLeft'
    BY DEF IInv, NothingLeft, Retries, LoopGoes, LoopAlone
  <1>4. HandlerInv'
    BY DEF IInv, HandlerInv, Handlers, Retries, LoopGoes, LoopAlone
  <1>5. LoopInv'
    BY DEF IInv, LoopInv, RevokedIsNotServed, Retries, LoopGoes, LoopAlone
  <1> QED BY <1>1, <1>2, <1>3, <1>4, <1>5 DEF Consistent

LEMMA ConfirmsConsistent ==
  ASSUME IInv, Confirms
  PROVE  Consistent'
  <1>1. ProcessInv'
    BY DEF IInv, ProcessInv, Confirms
  <1>2. LoopServesConfig'
    BY DEF IInv, LoopServesConfig, Confirms, Confirmable, Confirmed, LoopGoes
  <1>3. NothingLeft'
    BY DEF IInv, NothingLeft, Confirms, Confirmable, Confirmed, LoopGoes
  <1>4. RecordInv'
    BY DEF IInv, NothingLeft, RecordInv, StoredInv, WorksWithWhatIsStored, Confirms,
           Confirmable, Confirmed
  <1>5. HandlerInv'
    BY DEF IInv, HandlerInv, Handlers, LoopInv, RevokedIsNotServed, Confirms, Confirmable,
           Confirmed, LoopGoes
  <1>6. AttemptInv'
    BY DEF IInv, AttemptInv, Confirms, Confirmable, Confirmed
  <1>7. StoredInv'
    BY DEF IInv, HandlerInv, Handlers, StoredInv, WorksWithWhatIsStored, Confirms,
           Confirmable, Confirmed
  <1>8. LoopInv'
    BY DEF IInv, LoopInv, RevokedIsNotServed, Confirms, Confirmable, Confirmed, LoopGoes
  <1>9. RevocationInv'
    BY DEF IInv, LoopServesConfig, LoopInv, RevokedIsNotServed, RevocationInv, Confirms,
           Confirmable, Confirmed
  <1> QED BY <1>1, <1>2, <1>3, <1>4, <1>5, <1>6, <1>7, <1>8, <1>9 DEF Consistent

LEMMA AppliesStatusConsistent ==
  ASSUME IInv, AppliesStatus
  PROVE  Consistent'
  <1>1. RecordInv' /\ ProcessInv' /\ AttemptInv' /\ StoredInv' /\ RevocationInv'
    BY DEF IInv, RecordInv, ProcessInv, AttemptInv, StoredInv, WorksWithWhatIsStored,
           RevocationInv, AppliesStatus, LoopAlone
  <1>2. LoopServesConfig'
    BY DEF IInv, LoopServesConfig, AppliesStatus, Confirmable, StorageFails, LoopGoes,
           LoopAlone
  <1>3. NothingLeft'
    BY DEF IInv, NothingLeft, AppliesStatus, Confirmable, StorageFails, LoopGoes, LoopAlone
  <1>4. HandlerInv'
    BY DEF IInv, HandlerInv, Handlers, AppliesStatus, Confirmable, StorageFails, LoopGoes,
           LoopAlone
  <1>5. LoopInv'
    BY DEF IInv, LoopInv, RevokedIsNotServed, AppliesStatus, Confirmable, StorageFails,
           LoopGoes, LoopAlone
  <1> QED BY <1>1, <1>2, <1>3, <1>4, <1>5 DEF Consistent

LEMMA IgnoresStatusConsistent ==
  ASSUME IInv, IgnoresStatus
  PROVE  Consistent'
  <1>1. /\ LoopServesConfig'
      /\ RecordInv'
      /\ ProcessInv'
      /\ HandlerInv'
      /\ AttemptInv'
      /\ StoredInv'
      /\ LoopInv'
      /\ RevocationInv'
    BY DEF IInv, LoopServesConfig, RecordInv, ProcessInv, HandlerInv, Handlers, AttemptInv,
           StoredInv, WorksWithWhatIsStored, LoopInv, RevokedIsNotServed, RevocationInv,
           IgnoresStatus
  <1>2. NothingLeft'
    BY DEF IInv, NothingLeft, IgnoresStatus
  <1> QED BY <1>1, <1>2 DEF Consistent

LEMMA BeginsConsistent ==
  ASSUME IInv, NEW by \in {"pairing", "enroll"}, Begins(by)
  PROVE  Consistent'
  <1>1. LoopServesConfig' /\ ProcessInv' /\ HandlerInv' /\ LoopInv' /\ RevocationInv'
    BY DEF IInv, LoopServesConfig, ProcessInv, HandlerInv, Handlers, LoopInv,
           RevokedIsNotServed, RevocationInv, Begins
  <1>2. NothingLeft'
    BY DEF IInv, NothingLeft, Begins, Free, New
  <1>3. RecordInv'
    BY DEF IInv, RecordInv, StoredInv, WorksWithWhatIsStored, Begins, Free, New
  <1>4. AttemptInv'
    BY DEF IInv, HistoryTypes, AttemptInv, Begins, Free, New
  <1>5. StoredInv'
    BY DEF IInv, StoredInv, WorksWithWhatIsStored, Begins, Free, New
  <1> QED BY <1>1, <1>2, <1>3, <1>4, <1>5 DEF Consistent

LEMMA AbortsConsistent ==
  ASSUME IInv, Aborts
  PROVE  Consistent'
  <1>1. /\ LoopServesConfig'
      /\ RecordInv'
      /\ ProcessInv'
      /\ HandlerInv'
      /\ LoopInv'
      /\ RevocationInv'
    BY DEF IInv, LoopServesConfig, RecordInv, ProcessInv, HandlerInv, Handlers, LoopInv,
           RevokedIsNotServed, RevocationInv, Aborts
  <1>2. NothingLeft'
    BY DEF IInv, NothingLeft, Aborts
  <1>3. AttemptInv'
    BY DEF IInv, AttemptInv, Aborts
  <1>4. StoredInv'
    BY DEF IInv, StoredInv, WorksWithWhatIsStored, Aborts
  <1> QED BY <1>1, <1>2, <1>3, <1>4 DEF Consistent

LEMMA SavesPendingConsistent ==
  ASSUME IInv, SavesPending
  PROVE  Consistent'
  <1>1. LoopServesConfig' /\ ProcessInv' /\ HandlerInv' /\ LoopInv'
    BY DEF IInv, LoopServesConfig, ProcessInv, HandlerInv, Handlers, LoopInv,
           RevokedIsNotServed, SavesPending
  <1>2. NothingLeft'
    BY DEF IInv, NothingLeft, SavesPending, Continues
  <1>3. RecordInv'
    BY DEF IInv, HistoryTypes, RecordInv, AttemptInv, SavesPending
  <1>4. AttemptInv'
    BY DEF IInv, AttemptInv, SavesPending, Continues
  <1>5. StoredInv'
    BY DEF IInv, AttemptInv, StoredInv, WorksWithWhatIsStored, SavesPending, Continues
  <1>6. RevocationInv'
    BY DEF IInv, AttemptInv, RevocationInv, SavesPending
  <1> QED BY <1>1, <1>2, <1>3, <1>4, <1>5, <1>6 DEF Consistent

LEMMA CommitsConsistent ==
  ASSUME IInv, Commits
  PROVE  Consistent'
  <1>1. LoopServesConfig' /\ RecordInv' /\ ProcessInv' /\ LoopInv'
    BY DEF IInv, LoopServesConfig, RecordInv, ProcessInv, LoopInv, RevokedIsNotServed,
           Commits
  <1>2. NothingLeft'
    BY DEF IInv, NothingLeft, Commits, Continues, NetworkFails
  <1>3. HandlerInv'
    BY DEF IInv, HandlerInv, Handlers, AttemptInv, Commits, Relay, NetworkFails
  <1>4. AttemptInv'
    BY DEF IInv, AttemptInv, Commits, Continues, NetworkFails
  <1>5. StoredInv'
    BY DEF IInv, StoredInv, WorksWithWhatIsStored, Commits, Continues, NetworkFails
  <1>6. RevocationInv'
    BY DEF IInv, RecordInv, AttemptInv, RevocationInv, Commits, Relay, NetworkFails
  <1> QED BY <1>1, <1>2, <1>3, <1>4, <1>5, <1>6 DEF Consistent

LEMMA SavesActiveConsistent ==
  ASSUME IInv, SavesActive
  PROVE  Consistent'
  <1>1. LoopServesConfig' /\ ProcessInv' /\ HandlerInv' /\ LoopInv'
    BY DEF IInv, LoopServesConfig, ProcessInv, HandlerInv, Handlers, LoopInv,
           RevokedIsNotServed, SavesActive
  <1>2. NothingLeft'
    BY DEF IInv, NothingLeft, SavesActive, StorageFails, Continues
  <1>3. RecordInv'
    BY DEF IInv, RecordInv, AttemptInv, SavesActive, StorageFails
  <1>4. AttemptInv'
    BY DEF IInv, AttemptInv, SavesActive, StorageFails, Continues
  <1>5. StoredInv'
    BY DEF IInv, AttemptInv, StoredInv, WorksWithWhatIsStored, SavesActive, StorageFails,
           Continues
  <1>6. RevocationInv'
    BY DEF IInv, RevocationInv, SavesActive, StorageFails
  <1> QED BY <1>1, <1>2, <1>3, <1>4, <1>5, <1>6 DEF Consistent

LEMMA DiscardsConsistent ==
  ASSUME IInv, Discards
  PROVE  Consistent'
  <1>1. LoopServesConfig' /\ ProcessInv' /\ HandlerInv' /\ LoopInv'
    BY DEF IInv, LoopServesConfig, ProcessInv, HandlerInv, Handlers, LoopInv,
           RevokedIsNotServed, Discards
  <1>2. NothingLeft'
    BY DEF IInv, NothingLeft, Discards, StorageFails, Continues
  <1>3. RecordInv'
    BY DEF IInv, RecordInv, AttemptInv, Discards, StorageFails
  <1>4. AttemptInv'
    BY DEF IInv, AttemptInv, Discards, StorageFails, Continues
  <1>5. StoredInv'
    BY DEF IInv, AttemptInv, StoredInv, WorksWithWhatIsStored, Discards, StorageFails,
           Continues
  <1>6. RevocationInv'
    BY DEF IInv, RevocationInv, Discards, StorageFails
  <1> QED BY <1>1, <1>2, <1>3, <1>4, <1>5, <1>6 DEF Consistent

LEMMA ReconcilesConsistent ==
  ASSUME IInv, Reconciles
  PROVE  Consistent'
  <1>1. ProcessInv'
    BY DEF IInv, ProcessInv, Reconciles
  <1>2. LoopServesConfig'
    BY DEF IInv, LoopServesConfig, Reconciles, StartRelay
  <1>3. NothingLeft'
    BY DEF IInv, NothingLeft, Reconciles, StartRelay, Cancelled
  <1>4. RecordInv'
    BY DEF IInv, RecordInv, AttemptInv, Reconciles
  <1>5. HandlerInv'
    BY DEF IInv, HandlerInv, Handlers, Reconciles, StartRelay
  <1>6. AttemptInv'
    BY DEF IInv, AttemptInv, Reconciles
  <1>7. StoredInv'
    BY DEF IInv, AttemptInv, StoredInv, WorksWithWhatIsStored, Reconciles
  <1>8. LoopInv'
    BY DEF IInv, AttemptInv, LoopInv, RevokedIsNotServed, Reconciles, StartRelay
  <1>9. RevocationInv'
    BY DEF IInv, AttemptInv, RevocationInv, Reconciles
  <1> QED BY <1>1, <1>2, <1>3, <1>4, <1>5, <1>6, <1>7, <1>8, <1>9 DEF Consistent

LEMMA WakesConsistent ==
  ASSUME IInv, Wakes
  PROVE  Consistent'
  <1>1. RecordInv' /\ ProcessInv' /\ AttemptInv' /\ StoredInv' /\ RevocationInv'
    BY DEF IInv, RecordInv, ProcessInv, AttemptInv, StoredInv, WorksWithWhatIsStored,
           RevocationInv, Wakes
  <1>2. LoopServesConfig'
    BY DEF IInv, LoopServesConfig, Wakes, Free, StartRelay
  <1>3. NothingLeft'
    BY DEF IInv, NothingLeft, Wakes, Free, StartRelay, Cancelled
  <1>4. HandlerInv'
    BY DEF IInv, HandlerInv, Handlers, Wakes, Free, StartRelay
  <1>5. LoopInv'
    BY DEF IInv, RecordInv, LoopInv, RevokedIsNotServed, Wakes, Free, StartRelay
  <1> QED BY <1>1, <1>2, <1>3, <1>4, <1>5 DEF Consistent

LEMMA ResetBeginsConsistent ==
  ASSUME IInv, ResetBegins
  PROVE  Consistent'
  <1>1. LoopServesConfig' /\ NothingLeft' /\ LoopInv'
    BY DEF IInv, LoopServesConfig, NothingLeft, LoopInv, RevokedIsNotServed, ResetBegins
  <1>2. RecordInv'
    BY DEF IInv, RecordInv, ResetBegins, Free
  <1>3. ProcessInv'
    BY DEF IInv, ProcessInv, ResetBegins, Free
  <1>4. HandlerInv'
    BY DEF IInv, HandlerInv, Handlers, ResetBegins, Free
  <1>5. AttemptInv'
    BY DEF IInv, AttemptInv, ResetBegins, Free
  <1>6. StoredInv'
    BY DEF IInv, StoredInv, WorksWithWhatIsStored, ResetBegins, Free
  <1>7. RevocationInv'
    BY DEF IInv, RevocationInv, ResetBegins, Free
  <1> QED BY <1>1, <1>2, <1>3, <1>4, <1>5, <1>6, <1>7 DEF Consistent

LEMMA ResetCancelsConsistent ==
  ASSUME IInv, ResetCancels
  PROVE  Consistent'
  <1>1. LoopServesConfig'
    BY DEF IInv, LoopServesConfig, ResetCancels, Cancel
  <1>2. NothingLeft'
    BY DEF IInv, NothingLeft, ResetCancels, Cancel, Cancelled
  <1>3. RecordInv'
    BY DEF IInv, RecordInv, ResetCancels, Go
  <1>4. ProcessInv'
    BY DEF IInv, ProcessInv, ResetCancels, Go
  <1>5. HandlerInv'
    BY DEF IInv, HandlerInv, Handlers, ResetCancels, Go, Cancel
  <1>6. AttemptInv'
    BY DEF IInv, AttemptInv, ResetCancels, Go
  <1>7. StoredInv'
    BY DEF IInv, StoredInv, WorksWithWhatIsStored, ResetCancels, Go
  <1>8. LoopInv'
    BY DEF IInv, LoopInv, RevokedIsNotServed, ResetCancels, Cancel
  <1>9. RevocationInv'
    BY DEF IInv, RevocationInv, ResetCancels, Go
  <1> QED BY <1>1, <1>2, <1>3, <1>4, <1>5, <1>6, <1>7, <1>8, <1>9 DEF Consistent

LEMMA ResetDialsConsistent ==
  ASSUME IInv, ResetDials
  PROVE  Consistent'
  <1>1. LoopServesConfig'
    BY DEF IInv, LoopServesConfig, HandlerInv, Handlers, ResetDials, Absent, NetworkFails,
           AbsenceProves, Fails, StartRelay
  <1>2. NothingLeft'
    BY DEF IInv, NothingLeft, HandlerInv, Handlers, ResetDials, Absent, NetworkFails,
           AbsenceProves, Fails, StartRelay, Cancelled
  <1>3. RecordInv'
    BY DEF IInv, RecordInv, ResetDials, Go, Absent, NetworkFails, AbsenceProves, Fails
  <1>4. ProcessInv'
    BY DEF IInv, ProcessInv, ResetDials, Go, Absent, NetworkFails, AbsenceProves, Fails
  <1>5. HandlerInv'
    BY DEF IInv, HandlerInv, Handlers, ResetDials, Go, Absent, NetworkFails, AbsenceProves,
           Fails, StartRelay
  <1>6. AttemptInv'
    BY DEF IInv, AttemptInv, ResetDials, Go, Absent, NetworkFails, AbsenceProves, Fails
  <1>7. StoredInv'
    BY DEF IInv, StoredInv, WorksWithWhatIsStored, ResetDials, Go, Absent, NetworkFails,
           AbsenceProves, Fails
  <1>8. LoopInv'
    BY DEF IInv, RecordInv, HandlerInv, Handlers, LoopInv, RevokedIsNotServed, ResetDials,
           Absent, NetworkFails, AbsenceProves, Fails, StartRelay
  <1>9. RevocationInv'
    BY DEF IInv, RevocationInv, ResetDials, Go, Absent, NetworkFails, AbsenceProves, Fails
  <1> QED BY <1>1, <1>2, <1>3, <1>4, <1>5, <1>6, <1>7, <1>8, <1>9 DEF Consistent

LEMMA ResetRevokesConsistent ==
  ASSUME IInv, ResetRevokes
  PROVE  Consistent'
  <1>1. LoopServesConfig'
    BY DEF IInv, LoopServesConfig, HandlerInv, Handlers, ResetRevokes, NetworkFails, Fails,
           StartRelay
  <1>2. NothingLeft'
    BY DEF IInv, NothingLeft, HandlerInv, Handlers, ResetRevokes, NetworkFails, Fails,
           StartRelay, Cancelled
  <1>3. RecordInv'
    BY DEF IInv, RecordInv, ResetRevokes, Go, NetworkFails, Fails
  <1>4. ProcessInv'
    BY DEF IInv, ProcessInv, ResetRevokes, Go, NetworkFails, Fails
  <1>5. HandlerInv'
    BY DEF IInv, HistoryTypes, RecordInv, HandlerInv, Handlers, ResetRevokes, Relay, Go,
           NetworkFails, Fails, StartRelay
  <1>6. AttemptInv'
    BY DEF IInv, AttemptInv, ResetRevokes, Go, NetworkFails, Fails
  <1>7. StoredInv'
    BY DEF IInv, StoredInv, WorksWithWhatIsStored, ResetRevokes, Go, NetworkFails, Fails
  <1>8. LoopInv'
    BY DEF IInv, RecordInv, HandlerInv, Handlers, LoopInv, RevokedIsNotServed, ResetRevokes,
           NetworkFails, Fails, StartRelay
  <1>9. RevocationInv'
    BY DEF IInv, HistoryTypes, RecordInv, HandlerInv, Handlers, StoredInv, WorksWithWhatIsStored,
           RevocationInv, ResetRevokes, Relay, Go, NetworkFails, Fails
  <1> QED BY <1>1, <1>2, <1>3, <1>4, <1>5, <1>6, <1>7, <1>8, <1>9 DEF Consistent

LEMMA CheckpointsConsistent ==
  ASSUME IInv, Checkpoints
  PROVE  Consistent'
  <1>1. LoopServesConfig'
    BY DEF IInv, LoopServesConfig, HandlerInv, Handlers, Checkpoints, StorageFails, Fails,
           StartRelay
  <1>2. NothingLeft'
    BY DEF IInv, NothingLeft, HandlerInv, Handlers, Checkpoints, StorageFails, Fails,
           StartRelay, Cancelled
  <1>3. RecordInv'
    BY DEF IInv, RecordInv, HandlerInv, Handlers, Checkpoints, StorageFails, Fails
  <1>4. ProcessInv'
    BY DEF IInv, ProcessInv, Checkpoints, StorageFails, Fails
  <1>5. HandlerInv'
    BY DEF IInv, HandlerInv, Handlers, Checkpoints, StorageFails, Fails, StartRelay
  <1>6. AttemptInv'
    BY DEF IInv, AttemptInv, Checkpoints, StorageFails, Fails
  <1>7. StoredInv'
    BY DEF IInv, StoredInv, WorksWithWhatIsStored, Checkpoints, StorageFails, Fails
  <1>8. LoopInv'
    BY DEF IInv, RecordInv, HandlerInv, Handlers, LoopInv, RevokedIsNotServed, Checkpoints,
           StorageFails, Fails, StartRelay
  <1>9. RevocationInv'
    BY DEF IInv, HandlerInv, Handlers, RevocationInv, Checkpoints, StorageFails, Fails
  <1> QED BY <1>1, <1>2, <1>3, <1>4, <1>5, <1>6, <1>7, <1>8, <1>9 DEF Consistent

LEMMA RevokesEndpointConsistent ==
  ASSUME IInv, RevokesEndpoint
  PROVE  Consistent'
  <1>1. LoopServesConfig' /\ NothingLeft' /\ LoopInv'
    BY DEF IInv, LoopServesConfig, NothingLeft, LoopInv, RevokedIsNotServed, RevokesEndpoint
  <1>2. RecordInv'
    BY DEF IInv, RecordInv, RevokesEndpoint, Go, Absent, NetworkFails
  <1>3. ProcessInv'
    BY DEF IInv, ProcessInv, RevokesEndpoint, Go, Absent, NetworkFails
  <1>4. HandlerInv'
    BY DEF IInv, HandlerInv, Handlers, RevokesEndpoint, Go, Absent, Relay, NetworkFails
  <1>5. AttemptInv'
    BY DEF IInv, AttemptInv, RevokesEndpoint, Go, Absent, NetworkFails
  <1>6. StoredInv'
    BY DEF IInv, StoredInv, WorksWithWhatIsStored, RevokesEndpoint, Go, Absent, NetworkFails
  <1>7. RevocationInv'
    BY DEF IInv, HistoryTypes, RecordInv, HandlerInv, Handlers, StoredInv, WorksWithWhatIsStored,
           RevocationInv, RevokesEndpoint, Go, Absent, Relay, NetworkFails
  <1> QED BY <1>1, <1>2, <1>3, <1>4, <1>5, <1>6, <1>7 DEF Consistent

LEMMA ForgetBeginsConsistent ==
  ASSUME IInv, ForgetBegins
  PROVE  Consistent'
  <1>1. LoopServesConfig'
    BY DEF IInv, LoopServesConfig, ForgetBegins, Free, Cancel
  <1>2. NothingLeft'
    BY DEF IInv, NothingLeft, ForgetBegins, Free, Cancel, Cancelled
  <1>3. RecordInv'
    BY DEF IInv, RecordInv, ForgetBegins, Free
  <1>4. ProcessInv'
    BY DEF IInv, ProcessInv, ForgetBegins, Free
  <1>5. HandlerInv'
    BY DEF IInv, HandlerInv, Handlers, ForgetBegins, Free, Cancel
  <1>6. AttemptInv'
    BY DEF IInv, AttemptInv, ForgetBegins, Free
  <1>7. StoredInv'
    BY DEF IInv, StoredInv, WorksWithWhatIsStored, ForgetBegins, Free
  <1>8. LoopInv'
    BY DEF IInv, LoopInv, RevokedIsNotServed, ForgetBegins, Free, Cancel
  <1>9. RevocationInv'
    BY DEF IInv, RevocationInv, ForgetBegins, Free
  <1> QED BY <1>1, <1>2, <1>3, <1>4, <1>5, <1>6, <1>7, <1>8, <1>9 DEF Consistent

LEMMA DeletesConsistent ==
  ASSUME IInv, Deletes
  PROVE  Consistent'
  <1>1. LoopServesConfig' /\ NothingLeft' /\ LoopInv'
    BY DEF IInv, LoopServesConfig, NothingLeft, LoopInv, RevokedIsNotServed, Deletes
  <1>2. RecordInv'
    BY DEF IInv, RecordInv, Deletes, Go, StorageFails
  <1>3. ProcessInv'
    BY DEF IInv, ProcessInv, Deletes, Go, StorageFails
  <1>4. HandlerInv'
    BY DEF IInv, HandlerInv, Handlers, Deletes, Go, StorageFails
  <1>5. AttemptInv'
    BY DEF IInv, AttemptInv, Deletes, Go, StorageFails
  <1>6. StoredInv'
    BY DEF IInv, StoredInv, WorksWithWhatIsStored, Deletes, Go, StorageFails
  <1>7. RevocationInv'
    BY DEF IInv, RevocationInv, Deletes, Go, StorageFails
  <1> QED BY <1>1, <1>2, <1>3, <1>4, <1>5, <1>6, <1>7 DEF Consistent

LEMMA ClearsConsistent ==
  ASSUME IInv, Clears
  PROVE  Consistent'
  <1>1. LoopServesConfig'
    BY DEF IInv, LoopServesConfig, HandlerInv, Handlers, Clears
  <1>2. NothingLeft'
    BY DEF IInv, NothingLeft, Clears
  <1>3. RecordInv'
    BY DEF IInv, RecordInv, Clears
  <1>4. ProcessInv'
    BY DEF IInv, ProcessInv, Clears
  <1>5. HandlerInv'
    BY DEF IInv, HandlerInv, Handlers, Clears
  <1>6. AttemptInv'
    BY DEF IInv, AttemptInv, Clears
  <1>7. StoredInv'
    BY DEF IInv, StoredInv, WorksWithWhatIsStored, Clears
  <1>8. LoopInv'
    BY DEF IInv, LoopInv, RevokedIsNotServed, Clears
  <1>9. RevocationInv'
    BY DEF IInv, RevocationInv, Clears
  <1> QED BY <1>1, <1>2, <1>3, <1>4, <1>5, <1>6, <1>7, <1>8, <1>9 DEF Consistent

LEMMA PeerRevokesConsistent ==
  ASSUME IInv, PeerRevokes
  PROVE  Consistent'
  <1>1. /\ LoopServesConfig'
      /\ NothingLeft'
      /\ RecordInv'
      /\ ProcessInv'
      /\ AttemptInv'
      /\ StoredInv'
      /\ LoopInv'
    BY DEF IInv, LoopServesConfig, NothingLeft, RecordInv, ProcessInv, AttemptInv,
           StoredInv, WorksWithWhatIsStored, LoopInv, RevokedIsNotServed, PeerRevokes
  <1>2. HandlerInv'
    BY DEF IInv, HandlerInv, Handlers, PeerRevokes, Relay
  <1>3. RevocationInv'
    BY DEF IInv, RevocationInv, PeerRevokes, Relay
  <1> QED BY <1>1, <1>2, <1>3 DEF Consistent

LEMMA CommitArrivesConsistent ==
  ASSUME IInv, CommitArrives
  PROVE  Consistent'
  <1>1. /\ LoopServesConfig'
       /\ NothingLeft'
       /\ RecordInv'
       /\ ProcessInv'
       /\ AttemptInv'
       /\ StoredInv'
       /\ LoopInv'
    BY DEF IInv, LoopServesConfig, NothingLeft, RecordInv, ProcessInv, AttemptInv,
           StoredInv, WorksWithWhatIsStored, LoopInv, RevokedIsNotServed, CommitArrives
  <1>2. HandlerInv'
    BY DEF IInv, HandlerInv, Handlers, CommitArrives, Relay
  <1>3. RevocationInv'
    BY DEF IInv, RevocationInv, CommitArrives, Relay
  <1> QED BY <1>1, <1>2, <1>3 DEF Consistent

-----------------------------------------------------------------------------
LEMMA StoredIs ==
  ASSUME NEW id \in Nat, NEW c \in Stored(id)
  PROVE  c \in Config /\ (c = NoConfig \/ c.id = id)
  BY ConfigIs DEF Stored

LEMMA InitIInv ==
  ASSUME Init
  PROVE  IInv
  <1>1. /\ legacy \in Stored(1) /\ keychain \in {NoConfig, legacy} \cup Stored(2)
        /\ used = IF keychain.id > legacy.id THEN keychain.id ELSE legacy.id
        /\ relay \in [Enrollment -> RelayState]
        /\ \A c \in {keychain, legacy} : c # NoConfig => relay[c.id] \in Held(c)
    BY DEF Init
  <1>2. /\ up = FALSE /\ config = NoConfig /\ loop = NoLoop /\ late = {}
        /\ op = Idle /\ attempt = NoAttempt
        /\ removed = {} /\ crashes = 0
    BY DEF Init
  <1>3. /\ legacy \in Config /\ keychain \in Config
        /\ legacy = NoConfig \/ legacy.id = 1
        /\ keychain = NoConfig \/ keychain.id \in {1, 2}
    <2>1. legacy \in Config /\ (legacy = NoConfig \/ legacy.id = 1)
      BY <1>1, StoredIs
    <2>2. CASE keychain \in {NoConfig, legacy}
      BY <2>1, <2>2, ConfigIs
    <2>3. CASE keychain \in Stored(2)
      <3>1. keychain \in Config /\ (keychain = NoConfig \/ keychain.id = 2)
        BY <2>3, StoredIs
      <3> QED BY <2>1, <3>1
    <2> QED BY <1>1, <2>2, <2>3
  <1>4. StoreTypes
    BY <1>2, <1>3, ConfigIs DEF StoreTypes
  <1>5. LoopTypes
    BY <1>2 DEF LoopTypes
  <1>6. StepTypes
    BY <1>2, OpIs, AttemptIs DEF StepTypes
  <1>7. HistoryTypes
    <2>1. used \in 0 .. MaxEnrollments
      BY <1>1, <1>3, ConfigIs
    <2> QED BY <1>1, <1>2, <2>1 DEF HistoryTypes, RelayState
  <1>8. RecordInv
    <2>1. \A c \in {keychain, legacy} : c # NoConfig => c.id \in 1 .. used
      <3>1. NoConfig.id = 0
        BY DEF NoConfig
      <3> QED BY <1>1, <1>3, <3>1
    <2> QED BY <1>2, <2>1 DEF RecordInv
  <1>9. LoopServesConfig /\ NothingLeft /\ ProcessInv /\ HandlerInv /\ AttemptInv /\ LoopInv
    BY <1>2 DEF LoopServesConfig, NothingLeft, ProcessInv, HandlerInv, Handlers, AttemptInv, LoopInv,
                RevokedIsNotServed
  <1>10. StoredInv
    BY <1>2 DEF StoredInv, WorksWithWhatIsStored
  <1>11. RevocationInv
    <2>1. ~NoConfig.revoked
      OBVIOUS
    <2>2. \A c \in {keychain, legacy} : c.revoked /\ ~c.pending => relay[c.id] \in {"linkRevoked", "gone"}
      BY <1>1, <2>1 DEF Held, RelayState
    <2> QED BY <1>2, <2>1, <2>2 DEF RevocationInv
  <1> QED BY <1>4, <1>5, <1>6, <1>7, <1>8, <1>9, <1>10, <1>11 DEF IInv

LEMMA StutterIInv ==
  ASSUME IInv, UNCHANGED vars
  PROVE  IInv'
  <1>1. /\ keychain' = keychain /\ legacy' = legacy /\ up' = up /\ config' = config /\ loop' = loop
        /\ late' = late /\ op' = op /\ attempt' = attempt /\ relay' = relay
        /\ used' = used /\ removed' = removed /\ crashes' = crashes
    BY DEF vars
  <1>2. (StoreTypes /\ LoopTypes /\ StepTypes /\ HistoryTypes /\ LoopServesConfig /\ NothingLeft)'
    BY <1>1 DEF IInv, StoreTypes, LoopTypes, StepTypes, HistoryTypes, LoopServesConfig, NothingLeft
  <1>3. (RecordInv /\ ProcessInv /\ HandlerInv /\ AttemptInv)'
    BY <1>1 DEF IInv, RecordInv, ProcessInv, HandlerInv, Handlers, AttemptInv
  <1>4. (StoredInv /\ LoopInv /\ RevocationInv)'
    BY <1>1 DEF IInv, StoredInv, WorksWithWhatIsStored, LoopInv, RevokedIsNotServed, RevocationInv
  <1> QED BY <1>2, <1>3, <1>4 DEF IInv

LEMMA NextIInv ==
  ASSUME IInv, [Next]_vars
  PROVE  IInv'
  <1>1. ASSUME Typed', Consistent' PROVE IInv'
    BY <1>1 DEF Typed, Consistent, IInv
  <1>2. CASE Migrates
    BY <1>1, <1>2, MigratesTypes, MigratesConsistent
  <1>3. CASE RemovesLegacy
    BY <1>1, <1>3, RemovesLegacyTypes, RemovesLegacyConsistent
  <1>4. CASE Loads
    BY <1>1, <1>4, LoadsTypes, LoadsConsistent
  <1>5. CASE Crash
    BY <1>1, <1>5, CrashTypes, CrashConsistent
  <1>6. CASE Unanswered
    BY <1>1, <1>6, UnansweredTypes, UnansweredConsistent
  <1>7. CASE DialAnswered
    BY <1>1, <1>7, DialAnsweredTypes, DialAnsweredConsistent
  <1>8. CASE LinkAnswered
    BY <1>1, <1>8, LinkAnsweredTypes, LinkAnsweredConsistent
  <1>9. CASE Reports
    BY <1>1, <1>9, ReportsTypes, ReportsConsistent
  <1>10. CASE ConnectionEnds
    BY <1>1, <1>10, ConnectionEndsTypes, ConnectionEndsConsistent
  <1>11. CASE LinkRevoked
    BY <1>1, <1>11, LinkRevokedTypes, LinkRevokedConsistent
  <1>12. CASE Retries
    BY <1>1, <1>12, RetriesTypes, RetriesConsistent
  <1>13. CASE Confirms
    BY <1>1, <1>13, ConfirmsTypes, ConfirmsConsistent
  <1>14. CASE AppliesStatus
    BY <1>1, <1>14, AppliesStatusTypes, AppliesStatusConsistent
  <1>15. CASE IgnoresStatus
    BY <1>1, <1>15, IgnoresStatusTypes, IgnoresStatusConsistent
  <1>16. ASSUME NEW by \in {"pairing", "enroll"}, Begins(by) PROVE IInv'
    BY <1>1, <1>16, BeginsTypes, BeginsConsistent
  <1>17. CASE Aborts
    BY <1>1, <1>17, AbortsTypes, AbortsConsistent
  <1>18. CASE SavesPending
    BY <1>1, <1>18, SavesPendingTypes, SavesPendingConsistent
  <1>19. CASE Commits
    BY <1>1, <1>19, CommitsTypes, CommitsConsistent
  <1>20. CASE SavesActive
    BY <1>1, <1>20, SavesActiveTypes, SavesActiveConsistent
  <1>21. CASE Discards
    BY <1>1, <1>21, DiscardsTypes, DiscardsConsistent
  <1>22. CASE Reconciles
    BY <1>1, <1>22, ReconcilesTypes, ReconcilesConsistent
  <1>23. CASE Wakes
    BY <1>1, <1>23, WakesTypes, WakesConsistent
  <1>24. CASE ResetBegins
    BY <1>1, <1>24, ResetBeginsTypes, ResetBeginsConsistent
  <1>25. CASE ResetCancels
    BY <1>1, <1>25, ResetCancelsTypes, ResetCancelsConsistent
  <1>26. CASE ResetDials
    BY <1>1, <1>26, ResetDialsTypes, ResetDialsConsistent
  <1>27. CASE ResetRevokes
    BY <1>1, <1>27, ResetRevokesTypes, ResetRevokesConsistent
  <1>28. CASE Checkpoints
    BY <1>1, <1>28, CheckpointsTypes, CheckpointsConsistent
  <1>29. CASE RevokesEndpoint
    BY <1>1, <1>29, RevokesEndpointTypes, RevokesEndpointConsistent
  <1>30. CASE ForgetBegins
    BY <1>1, <1>30, ForgetBeginsTypes, ForgetBeginsConsistent
  <1>31. CASE Deletes
    BY <1>1, <1>31, DeletesTypes, DeletesConsistent
  <1>32. CASE Clears
    BY <1>1, <1>32, ClearsTypes, ClearsConsistent
  <1>33. CASE PeerRevokes
    BY <1>1, <1>33, PeerRevokesTypes, PeerRevokesConsistent
  <1>34. CASE CommitArrives
    BY <1>1, <1>34, CommitArrivesTypes, CommitArrivesConsistent
  <1>35. CASE LoopStep
    BY <1>35, <1>6, <1>7, <1>8, <1>9, <1>10, <1>11, <1>12, <1>13, <1>14, <1>15 DEF LoopStep
  <1>36. CASE AttemptStep
    BY <1>36, <1>16, <1>17, <1>18, <1>19, <1>20, <1>21, <1>22 DEF AttemptStep
  <1>37. CASE HandlerStep
    BY <1>37, <1>23, <1>24, <1>25, <1>26, <1>27, <1>28, <1>29, <1>30, <1>31, <1>32 DEF HandlerStep
  <1>38. CASE UNCHANGED vars
    BY <1>38, StutterIInv
  <1> QED BY <1>2, <1>3, <1>4, <1>5, <1>33, <1>34, <1>35, <1>36, <1>37, <1>38 DEF Next

-----------------------------------------------------------------------------
\* What was activated once stays so at the relay: a link is revoked, an endpoint
\* removed, neither becomes unknown.  Where the application takes an enrollment for
\* confirmed, or is about to, it was; and an absence that is taken for the proof
\* that it was not is that of a pending enrollment, or of a removed endpoint.
Activated == {"active", "linkRevoked", "gone"}
ActivatedInv ==
  /\ \A c \in {keychain, legacy, config} : c # NoConfig /\ ~c.pending => relay[c.id] \in Activated
  /\ attempt.step = "active" => relay[attempt.rec.id] \in Activated
  /\ loop.step = "up" => relay[loop.id] \in Activated
  /\ op.step = "absence" => keychain.pending \/ relay[op.rec.id] \in {"linkRevoked", "gone"}

LEMMA InitActivated ==
  ASSUME Init
  PROVE  ActivatedInv
  <1>1. \A c \in {keychain, legacy} : c # NoConfig => relay[c.id] \in Held(c)
    BY DEF Init
  <1>2. \A c \in {keychain, legacy} : c # NoConfig /\ ~c.pending => relay[c.id] \in Activated
    BY <1>1 DEF Held, RelayState, Activated
  <1>3. config = NoConfig /\ loop = NoLoop /\ op = Idle /\ attempt = NoAttempt
    BY DEF Init
  <1> QED BY <1>2, <1>3 DEF ActivatedInv

\* The relay stays as it is.
LEMMA QuietActivated ==
  ASSUME IInv, ActivatedInv, UNCHANGED relay,
         \/ Migrates \/ RemovesLegacy \/ Loads \/ Wakes \/ ResetBegins \/ ResetCancels \/ ForgetBegins
         \/ Deletes \/ Clears \/ Reconciles \/ Aborts \/ SavesPending
         \/ \E by \in {"pairing", "enroll"} : Begins(by)
  PROVE  ActivatedInv'
  <1>1. CASE Migrates \/ RemovesLegacy \/ Loads
    BY <1>1 DEF IInv, ProcessInv, LoopInv, NothingLeft, ActivatedInv, Migrates, RemovesLegacy, Loads,
               Go, StartRelay
  <1>2. CASE Wakes \/ ResetBegins \/ ResetCancels \/ ForgetBegins
    BY <1>2 DEF ActivatedInv, Wakes, ResetBegins, ResetCancels, ForgetBegins, Go, StartRelay, Cancel,
               Free
  <1>3. CASE Deletes \/ Clears
    BY <1>3 DEF ActivatedInv, Deletes, Clears, Go
  <1>4. CASE Aborts \/ SavesPending \/ Reconciles
    BY <1>4 DEF IInv, AttemptInv, ActivatedInv, Aborts, SavesPending, Reconciles, Continues, StartRelay
  <1>5. ASSUME NEW by \in {"pairing", "enroll"}, Begins(by) PROVE ActivatedInv'
    BY <1>5 DEF ActivatedInv, Begins
  <1> QED BY <1>1, <1>2, <1>3, <1>4, <1>5

LEMMA LoopActivated ==
  ASSUME IInv, ActivatedInv, LoopStep
  PROVE  ActivatedInv'
  <1>1. CASE \/ Unanswered \/ DialAnswered \/ LinkAnswered \/ Reports \/ ConnectionEnds
             \/ LinkRevoked \/ Retries \/ AppliesStatus \/ IgnoresStatus
    BY <1>1 DEF ActivatedInv, Activated, Unanswered, DialAnswered, LinkAnswered, Reports,
               ConnectionEnds, LinkRevoked, Retries, AppliesStatus, IgnoresStatus, LoopGoes, LoopAlone
  <1>2. CASE Confirms
    BY <1>2 DEF IInv, HandlerInv, Handlers, LoopServesConfig, ActivatedInv, Confirms,
               Confirmable, Confirmed, LoopGoes
  <1> QED BY <1>1, <1>2 DEF LoopStep

LEMMA AttemptActivated ==
  ASSUME IInv, ActivatedInv, Commits \/ SavesActive \/ Discards
  PROVE  ActivatedInv'
  <1>1. CASE Commits
    BY <1>1 DEF IInv, HistoryTypes, StepTypes, RecordInv, AttemptInv, LoopServesConfig, LoopInv,
               ActivatedInv, Activated, Commits, Continues, Relay
  <1>2. CASE SavesActive
    BY <1>2 DEF IInv, RecordInv, AttemptInv, LoopServesConfig, LoopInv, ActivatedInv,
               SavesActive, Continues
  <1>3. CASE Discards
    BY <1>3 DEF IInv, AttemptInv, ActivatedInv, Discards, Continues
  <1> QED BY <1>1, <1>2, <1>3

LEMMA ResetActivated ==
  ASSUME IInv, ActivatedInv, ResetDials \/ ResetRevokes \/ Checkpoints \/ RevokesEndpoint
  PROVE  ActivatedInv'
  <1>1. CASE ResetDials
    BY <1>1 DEF IInv, HandlerInv, Handlers, StoredInv, WorksWithWhatIsStored, ActivatedInv, Activated,
               ResetDials, Absent, Go, Fails, StartRelay
  <1>2. CASE ResetRevokes
    BY <1>2 DEF IInv, HistoryTypes, RecordInv, HandlerInv, Handlers, AttemptInv, StoredInv,
               WorksWithWhatIsStored, ActivatedInv, Activated, ResetRevokes, Relay, Go, Fails, StartRelay
  <1>3. CASE Checkpoints
    BY <1>3 DEF IInv, HistoryTypes, RecordInv, HandlerInv, Handlers, AttemptInv, StoredInv,
               WorksWithWhatIsStored, ActivatedInv, Activated, Checkpoints, Fails, StartRelay
  <1>4. CASE RevokesEndpoint
    BY <1>4 DEF IInv, HistoryTypes, RecordInv, HandlerInv, Handlers, AttemptInv, StoredInv,
               WorksWithWhatIsStored, ActivatedInv, Activated, RevokesEndpoint, Relay, Go
  <1> QED BY <1>1, <1>2, <1>3, <1>4

LEMMA RelayActivated ==
  ASSUME IInv, ActivatedInv, Crash \/ PeerRevokes \/ CommitArrives
  PROVE  ActivatedInv'
  <1>1. CASE Crash
    BY <1>1 DEF IInv, HistoryTypes, RecordInv, AttemptInv, ActivatedInv, Activated, Crash, Relay
  <1>2. CASE PeerRevokes
    BY <1>2 DEF IInv, HistoryTypes, ActivatedInv, Activated, PeerRevokes, Relay
  <1>3. CASE CommitArrives
    BY <1>3 DEF IInv, HistoryTypes, ActivatedInv, Activated, CommitArrives, Relay
  <1> QED BY <1>1, <1>2, <1>3

LEMMA NextActivated ==
  ASSUME IInv, ActivatedInv, [Next]_vars
  PROVE  ActivatedInv'
  <1>1. CASE UNCHANGED vars
    BY <1>1 DEF vars, ActivatedInv
  <1>2. CASE \/ Migrates \/ RemovesLegacy \/ Loads \/ Wakes \/ ResetBegins \/ ResetCancels
             \/ ForgetBegins \/ Deletes \/ Clears \/ Reconciles \/ Aborts \/ SavesPending
             \/ \E by \in {"pairing", "enroll"} : Begins(by)
    <2>1. UNCHANGED relay
      BY <1>2 DEF Migrates, RemovesLegacy, Loads, Wakes, ResetBegins, ResetCancels, ForgetBegins,
                 Deletes, Clears, Reconciles, Aborts, SavesPending, Begins
    <2> QED BY <1>2, <2>1, QuietActivated
  <1>3. CASE LoopStep
    BY <1>3, LoopActivated
  <1>4. CASE AttemptStep
    BY <1>2, <1>4, AttemptActivated DEF AttemptStep
  <1>5. CASE HandlerStep
    BY <1>2, <1>5, ResetActivated DEF HandlerStep
  <1>6. CASE Crash \/ PeerRevokes \/ CommitArrives
    BY <1>6, RelayActivated
  <1> QED BY <1>1, <1>2, <1>3, <1>4, <1>5, <1>6 DEF Next

\* Only a checkpoint makes a stored enrollment revoked.
LEMMA CheckpointRevokes ==
  ASSUME IInv, ActivatedInv, Next,
         keychain # NoConfig, ~keychain.pending, ~keychain.revoked, keychain'.revoked
  PROVE  relay[keychain.id] # "active"
  <1>1. CASE Checkpoints
    BY <1>1 DEF IInv, HandlerInv, Handlers, StoredInv, WorksWithWhatIsStored, ActivatedInv, Checkpoints
  <1>2. CASE Confirms
    BY <1>2 DEF IInv, LoopServesConfig, LoopInv, RevokedIsNotServed, Confirms, Confirmed
  <1>3. CASE SavesPending \/ SavesActive \/ Discards \/ Deletes
    BY <1>3 DEF IInv, AttemptInv, SavesPending, SavesActive, Discards, Deletes
  <1>4. CASE Migrates
    BY <1>4 DEF Migrates
  <1>5. LoopStep => Confirms \/ UNCHANGED keychain
    BY DEF LoopStep, Unanswered, DialAnswered, LinkAnswered, Reports, ConnectionEnds, LinkRevoked,
           Retries, AppliesStatus, IgnoresStatus, LoopAlone
  <1>6. AttemptStep => SavesPending \/ SavesActive \/ Discards \/ UNCHANGED keychain
    BY DEF AttemptStep, Begins, Aborts, Commits, Reconciles
  <1>7. HandlerStep => Checkpoints \/ Deletes \/ UNCHANGED keychain
    BY DEF HandlerStep, Wakes, ResetBegins, ResetCancels, ResetDials, ResetRevokes, RevokesEndpoint,
           ForgetBegins, Clears
  <1>8. RemovesLegacy \/ Loads \/ Crash \/ PeerRevokes \/ CommitArrives => UNCHANGED keychain
    BY DEF RemovesLegacy, Loads, Crash, PeerRevokes, CommitArrives
  <1> QED BY <1>1, <1>2, <1>3, <1>4, <1>5, <1>6, <1>7, <1>8 DEF Next

-----------------------------------------------------------------------------
HIDE CompanionAppAssumption
HIDE DEF Enrollment, Config, NoConfig, Loop, NoLoop, Op, Idle, Attempt, NoAttempt, Enrolled,
         app, stores, history

\* The inductive invariant.
THEOREM Inductive == Spec => []IInv
  <1>1. Init => IInv
    BY InitIInv
  <1>2. IInv /\ [Next]_vars => IInv'
    BY NextIInv
  <1> QED BY <1>1, <1>2, PTL DEF Spec

\* Every store, handler, attempt and status keeps its type, and the loop serves the
\* enrollment of the application: no handler leaves it behind for another one.
THEOREM TypeCorrect == Spec => []TypeOK
  <1>1. IInv => TypeOK
    BY DEF IInv, StoreTypes, LoopTypes, StepTypes, HistoryTypes, LoopServesConfig, RelayState, TypeOK
  <1> QED BY <1>1, Inductive, PTL

\* applyRelayStatus, handleRelayWake, handleReset and a launch never serve an
\* enrollment whose revocation is known, however their steps interleave.
THEOREM RevokedNotServed == Spec => []RevokedIsNotServed
  <1>1. IInv => RevokedIsNotServed
    BY DEF IInv, LoopInv
  <1> QED BY <1>1, Inductive, PTL

\* After any step a crash and a launch would find the enrollment that the
\* application works with.
THEOREM WorksWithStored == Spec => []WorksWithWhatIsStored
  <1>1. IInv => WorksWithWhatIsStored
    BY DEF IInv, StoredInv
  <1> QED BY <1>1, Inductive, PTL

\* handleReset reports a confirmed enrollment as removed, and stores that it is
\* revoked, only after the relay has revoked its link, though the copy it began with
\* be from before the confirmation.
THEOREM RemovalRevokes == Spec => ResetRevokesLink
  <1>1. ASSUME IInv, Next
        PROVE  \A e \in removed' \ removed :
                 op.rec.revoked /\ ~op.rec.pending => relay[e] # "active"
    <2>1. CASE removed' = removed
      BY <2>1
    <2>2. CASE Clears
      <3>1. removed' \ removed \subseteq {op.rec.id}
        BY <2>2 DEF Clears
      <3>2. op.rec.revoked /\ ~op.rec.pending => relay[op.rec.id] \in {"linkRevoked", "gone"}
        BY <1>1 DEF IInv, RevocationInv
      <3> QED BY <3>1, <3>2
    <2>3. LoopStep => removed' = removed
      BY DEF LoopStep, Unanswered, DialAnswered, LinkAnswered, Reports, ConnectionEnds, LinkRevoked,
             Retries, Confirms, AppliesStatus, IgnoresStatus, LoopAlone, history
    <2>4. AttemptStep => removed' = removed
      BY DEF AttemptStep, Begins, Aborts, SavesPending, Commits, SavesActive, Discards, Reconciles,
             history
    <2>5. HandlerStep => removed' = removed \/ Clears
      BY DEF HandlerStep, Wakes, ResetBegins, ResetCancels, ResetDials, ResetRevokes, Checkpoints,
             RevokesEndpoint, ForgetBegins, Deletes, history
    <2>6. Migrates \/ RemovesLegacy \/ Loads \/ Crash \/ PeerRevokes \/ CommitArrives
            => removed' = removed
      BY DEF Migrates, RemovesLegacy, Loads, Crash, PeerRevokes, CommitArrives, history
    <2> QED BY <1>1, <2>1, <2>2, <2>3, <2>4, <2>5, <2>6 DEF Next
  <1>2. Init => ActivatedInv
    BY InitActivated
  <1>3. IInv /\ ActivatedInv /\ [Next]_vars => ActivatedInv'
    BY NextActivated
  <1>4. IInv /\ ActivatedInv /\ [Next]_vars =>
          [/\ \A e \in Enrollment :
                e \in removed' \ removed /\ op.rec.revoked /\ ~op.rec.pending => relay[e] # "active"
           /\ keychain # NoConfig /\ ~keychain.pending /\ ~keychain.revoked /\ keychain'.revoked =>
                relay[keychain.id] # "active"]_vars
    BY <1>1, CheckpointRevokes
  <1> QED BY <1>2, <1>3, <1>4, Inductive, PTL DEF Spec, ResetRevokesLink

=============================================================================
