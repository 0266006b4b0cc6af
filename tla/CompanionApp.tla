----------------------------- MODULE CompanionApp -----------------------------
(***************************************************************************)
(* The companion application: the enrollment it keeps in the Keychain and  *)
(* in memory, the loop that holds its connection to the relay, and the     *)
(* handlers that enroll, pair, wake, reset and forget.                     *)
(*                                                                         *)
(* The handlers exclude each other (enrollMu); the loop that reports its   *)
(* status, and a pairing attempt, run beside them and take only app.mu, a  *)
(* step at a time.  The process may end at any step.  How a pair is        *)
(* decided is the subject of Pairing; here a commit has one of the         *)
(* outcomes an attempt can tell apart.                                     *)
(***************************************************************************)
EXTENDS Naturals, FiniteSets

CONSTANTS
  MaxEnrollments, MaxCrashes,   \* bounds of an instance
  Events                        \* what may go wrong in this instance

Enrollment == 1 .. MaxEnrollments

ASSUME CompanionAppAssumption ==
  MaxEnrollments \in Nat \ {0} /\ MaxCrashes \in Nat /\ Events \subseteq STRING

VARIABLES
  keychain,   \* the stored configuration
  legacy,     \* the configuration file of a version before the Keychain
  up,         \* the application has been started
  config,     \* app.config
  loop,       \* the current RunRelay, and a status of it that waits for app.mu
  late,       \* enrollments of cancelled loops with such a status
  op,         \* the handler, or the launch, under way
  attempt,    \* the pairing attempt or enrollment under way
  used,       \* enrollments begun so far
  relay,      \* what the relay holds of each enrollment
  removed,    \* enrollments whose removal was reported
  crashes

app == <<config, loop, late>>
stores == <<keychain, legacy>>
history == <<used, removed, crashes>>
vars == <<stores, up, app, op, attempt, relay, history>>

Config == [id: 0 .. MaxEnrollments, pending: BOOLEAN, revoked: BOOLEAN]
NoConfig == [id |-> 0, pending |-> FALSE, revoked |-> FALSE]
New == [id |-> used + 1, pending |-> TRUE, revoked |-> FALSE]

Loop == [id: 0 .. MaxEnrollments, step: {"off", "dial", "ask", "up", "retry", "ended"}, update: BOOLEAN]
NoLoop == [id |-> 0, step |-> "off", update |-> FALSE]

Op == [step: {"idle", "copied", "load", "cancel", "dial", "revoke", "checkpoint", "absence",
              "endpoint", "delete", "clear"}, rec: Config]
Idle == [step |-> "idle", rec |-> NoConfig]

Attempt == [by: {"nobody", "pairing", "enroll"}, rec: Config,
            step: {"none", "save", "commit", "active", "rejected", "staged"}]
NoAttempt == [by |-> "nobody", rec |-> NoConfig, step |-> "none"]

RelayState == {"absent", "committing", "active", "linkRevoked", "gone"}

\* Types; the loop, when there is one, is that of the enrollment of the application.
TypeOK ==
  /\ keychain \in Config /\ legacy \in Config /\ config \in Config
  /\ up \in BOOLEAN /\ loop \in Loop /\ late \subseteq Enrollment
  /\ op \in Op /\ attempt \in Attempt
  /\ used \in 0 .. MaxEnrollments /\ removed \subseteq Enrollment /\ crashes \in 0 .. MaxCrashes
  /\ relay \in [Enrollment -> RelayState]
  /\ loop.id \in {0, config.id} /\ (loop.update => loop.step = "up")

\* What a store may hold of an enrollment: whatever an earlier life of the
\* application has left, pending and revoked ones included.
Stored(id) == {NoConfig} \cup {c \in Config : c.id = id}

\* What the relay may hold of an enrollment that is stored so.
Held(c) ==
  {state \in RelayState :
     /\ state \in {"absent", "committing"} => c.pending
     /\ state = "active" => c.pending \/ ~c.revoked
     /\ state = "gone" => c.revoked}

\* A first launch, or the first one after an update, or after one that failed: the
\* two stores hold nothing, one configuration, the same one, or two that differ.
Init ==
  /\ legacy \in Stored(1) /\ keychain \in {NoConfig, legacy} \cup Stored(2)
  /\ used = IF keychain.id > legacy.id THEN keychain.id ELSE legacy.id
  /\ relay \in [Enrollment -> RelayState]
  /\ \A e \in Enrollment \ {keychain.id, legacy.id} : relay[e] = "absent"
  /\ \A c \in {keychain, legacy} : c # NoConfig => relay[c.id] \in Held(c)
  /\ up = FALSE /\ config = NoConfig /\ loop = NoLoop /\ late = {}
  /\ op = Idle /\ attempt = NoAttempt
  /\ removed = {} /\ crashes = 0

-----------------------------------------------------------------------------
(***************************************************************************)
(* Helpers.                                                                *)
(***************************************************************************)
StorageFails == "storage" \in Events
NetworkFails == "network" \in Events

\* enrollMu is free.
Free == up /\ op = Idle /\ attempt.by # "enroll"
Enrolled == config # NoConfig

\* A loop that is cancelled may be about to report its status.
Cancelled == late' = late \cup (IF loop.update THEN {loop.id} ELSE {})
Cancel == loop' = NoLoop /\ Cancelled
StartRelay(c) == loop' = [id |-> c.id, step |-> "dial", update |-> FALSE] /\ Cancelled

Go(step) == op' = [step |-> step, rec |-> op.rec]
Relay(e, state) == relay' = [relay EXCEPT ![e] = state]

-----------------------------------------------------------------------------
(***************************************************************************)
(* Launch: MigrateConfigStore and NewAppWithStore.  A launch that fails is *)
(* repeated by the user; two stores that differ make every launch fail.    *)
(***************************************************************************)
Migrates ==
  /\ ~up /\ op = Idle
  /\ \/ /\ keychain = NoConfig /\ legacy # NoConfig
        /\ keychain' = legacy /\ Go("copied")
     \/ /\ keychain # NoConfig /\ legacy = keychain
        /\ Go("copied") /\ UNCHANGED keychain
     \/ /\ legacy = NoConfig
        /\ Go("load") /\ UNCHANGED keychain
  /\ UNCHANGED <<legacy, up, app, attempt, relay, history>>

RemovesLegacy ==
  /\ op.step = "copied"
  /\ \/ legacy' = NoConfig /\ Go("load")
     \/ StorageFails /\ op' = Idle /\ UNCHANGED legacy
  /\ UNCHANGED <<keychain, up, app, attempt, relay, history>>

Loads ==
  /\ op.step = "load"
  /\ up' = TRUE /\ op' = Idle
  /\ config' = keychain
  /\ IF keychain = NoConfig \/ keychain.revoked THEN UNCHANGED <<loop, late>> ELSE StartRelay(keychain)
  /\ UNCHANGED <<stores, attempt, relay, history>>

\* The process ends, by a crash or because the user quits it; a commit may be
\* on its way.
Crash ==
  /\ up \/ op # Idle
  /\ crashes < MaxCrashes /\ crashes' = crashes + 1
  /\ up' = FALSE /\ config' = NoConfig /\ loop' = NoLoop /\ late' = {}
  /\ op' = Idle /\ attempt' = NoAttempt
  /\ \/ UNCHANGED relay
     \/ attempt.step = "commit" /\ Relay(attempt.rec.id, "committing")
  /\ UNCHANGED <<stores, used, removed>>

-----------------------------------------------------------------------------
(***************************************************************************)
(* RunRelay and runRelayConnection.  What happens inside a connection is   *)
(* the subject of SessionChannel.                                          *)
(***************************************************************************)
LoopGoes(step, update) == loop' = [id |-> loop.id, step |-> step, update |-> update]
LoopAlone == UNCHANGED <<stores, up, config, late, op, attempt, relay, history>>

\* The dial, or the request after it, has no answer.
Unanswered ==
  /\ NetworkFails /\ loop.step \in {"dial", "ask"}
  /\ LoopGoes("retry", FALSE) /\ LoopAlone

\* The upgrade is refused to an endpoint the relay does not know.
DialAnswered ==
  /\ loop.step = "dial"
  /\ LoopGoes(IF relay[loop.id] \in {"active", "linkRevoked"} THEN "ask" ELSE "ended", FALSE)
  /\ LoopAlone

\* Mutant: the connection is reported only when a session is opened over it.
BugLinkAnswered ==
  /\ loop.step = "ask"
  /\ LoopGoes(IF relay[loop.id] = "active" THEN "up" ELSE "ended", FALSE)
  /\ LoopAlone

\* link.get.
LinkAnswered ==
  /\ loop.step = "ask"
  /\ IF relay[loop.id] = "active" THEN LoopGoes("up", TRUE) ELSE LoopGoes("ended", FALSE)
  /\ LoopAlone

\* A session is opened, secured or closed: another status.
Reports == loop.step = "up" /\ ~loop.update /\ LoopGoes("up", TRUE) /\ LoopAlone

\* The connection is lost, or has reached its age.
ConnectionEnds == loop.step = "up" /\ ~loop.update /\ LoopGoes("retry", FALSE) /\ LoopAlone

LinkRevoked ==
  /\ loop.step = "up" /\ ~loop.update /\ relay[loop.id] = "linkRevoked"
  /\ LoopGoes("ended", FALSE) /\ LoopAlone

\* Mutant: a loop that has confirmed its enrollment gives up when its connection is lost.
BugRetries == loop.step = "retry" /\ config.pending /\ LoopGoes("dial", FALSE) /\ LoopAlone

Retries == loop.step = "retry" /\ LoopGoes("dial", FALSE) /\ LoopAlone

\* applyRelayStatus: the first connection confirms a pending enrollment.
Confirmed == [id |-> config.id, pending |-> FALSE, revoked |-> config.revoked]
Confirmable(id) == config.id = id /\ config.pending

Confirms ==
  /\ loop.update /\ Confirmable(loop.id)
  /\ keychain' = Confirmed /\ config' = Confirmed
  /\ LoopGoes(loop.step, FALSE)
  /\ UNCHANGED <<legacy, up, late, op, attempt, relay, history>>

\* Mutant: the enrollment counts as confirmed whether or not that was stored.
BugAppliesStatus ==
  /\ loop.update /\ (Confirmable(loop.id) => StorageFails)
  /\ LoopGoes(loop.step, FALSE)
  /\ config' = [config EXCEPT !.pending = FALSE]
  /\ UNCHANGED <<stores, up, late, op, attempt, relay, history>>

AppliesStatus ==
  /\ loop.update /\ (Confirmable(loop.id) => StorageFails)
  /\ LoopGoes(loop.step, FALSE)
  /\ LoopAlone

\* Mutant: a cancelled loop still confirms.
BugIgnoresStatus ==
  /\ \E id \in late :
       /\ late' = late \ {id}
       /\ keychain' = IF Confirmable(id) THEN Confirmed ELSE keychain
       /\ config' = IF Confirmable(id) THEN Confirmed ELSE config
  /\ UNCHANGED <<legacy, up, loop, op, attempt, relay, history>>

\* The status of a cancelled loop is dropped.
IgnoresStatus ==
  /\ \E id \in late : late' = late \ {id}
  /\ UNCHANGED <<stores, up, config, loop, op, attempt, relay, history>>

-----------------------------------------------------------------------------
(***************************************************************************)
(* Enrollment, by hand (handleEnroll and Provision) or by pairing.         *)
(***************************************************************************)
Begins(by) ==
  /\ Free /\ ~Enrolled /\ attempt = NoAttempt /\ used < MaxEnrollments
  /\ attempt' = [by |-> by, rec |-> New, step |-> "save"]
  /\ used' = used + 1
  /\ UNCHANGED <<stores, up, app, op, relay, removed, crashes>>

Continues(step) == attempt' = [by |-> attempt.by, rec |-> attempt.rec, step |-> step]

\* It fails before anything is stored.
Aborts ==
  /\ attempt.step = "save" /\ attempt' = NoAttempt
  /\ UNCHANGED <<stores, up, app, op, relay, history>>

SavesPending ==
  /\ attempt.step = "save"
  /\ keychain' = attempt.rec /\ Continues("commit")
  /\ UNCHANGED <<legacy, up, app, op, relay, history>>

\* The commit that decides the pair: done, refused, or without an answer, and
\* then perhaps still on its way.
Commits ==
  /\ attempt.step = "commit"
  /\ \/ Relay(attempt.rec.id, "active") /\ Continues("active")
     \/ /\ UNCHANGED relay
        /\ Continues(IF attempt.by = "pairing" THEN "rejected" ELSE "staged")
     \/ /\ NetworkFails
        /\ \E state \in {"active", "committing"} : Relay(attempt.rec.id, state)
        /\ Continues("staged")
  /\ UNCHANGED <<stores, up, app, op, history>>

SavesActive ==
  /\ attempt.step = "active"
  /\ \/ /\ keychain' = [id |-> attempt.rec.id, pending |-> FALSE, revoked |-> FALSE]
        /\ attempt' = [by |-> attempt.by, rec |-> keychain', step |-> "staged"]
     \/ StorageFails /\ Continues("staged") /\ UNCHANGED keychain
  /\ UNCHANGED <<legacy, up, app, op, relay, history>>

\* resolveCommitFailure.
Discards ==
  /\ attempt.step = "rejected"
  /\ \/ keychain' = NoConfig /\ attempt' = NoAttempt
     \/ StorageFails /\ Continues("staged") /\ UNCHANGED keychain
  /\ UNCHANGED <<legacy, up, app, op, relay, history>>

\* reconcilePairing, or the end of handleEnroll.
Reconciles ==
  /\ up /\ op = Idle /\ attempt.step = "staged"
  /\ config' = attempt.rec /\ StartRelay(attempt.rec)
  /\ attempt' = NoAttempt
  /\ UNCHANGED <<stores, up, op, relay, history>>

\* Mutant: a wake starts the loop of an enrollment that is revoked.
BugWakes ==
  /\ Free /\ Enrolled
  /\ StartRelay(config)
  /\ UNCHANGED <<stores, up, config, op, attempt, relay, history>>

-----------------------------------------------------------------------------
(***************************************************************************)
(* handleRelayWake, handleReset with RevokeEnrollment, handleForget.       *)
(***************************************************************************)
Wakes ==
  /\ Free /\ Enrolled /\ ~config.revoked
  /\ StartRelay(config)
  /\ UNCHANGED <<stores, up, config, op, attempt, relay, history>>

\* The configuration is copied before the loop is cancelled.
ResetBegins ==
  /\ Free /\ Enrolled
  /\ op' = [step |-> "cancel", rec |-> config]
  /\ UNCHANGED <<stores, up, app, attempt, relay, history>>

\* Mutant: the loop is left running while the enrollment is revoked.
BugResetCancels ==
  /\ op.step = "cancel" /\ Go("dial")
  /\ UNCHANGED <<stores, up, app, attempt, relay, history>>

ResetCancels ==
  /\ op.step = "cancel" /\ Go("dial") /\ Cancel
  /\ UNCHANGED <<stores, up, config, attempt, relay, history>>

\* On an error the enrollment is retained and the loop started again.
Fails ==
  /\ op' = Idle
  /\ IF op.rec.revoked THEN UNCHANGED <<loop, late>> ELSE StartRelay(op.rec)

\* RevokeEnrollment takes a refused upgrade for the absence of a link only while
\* the activation is unconfirmed; what is revoked needs no relay.
Absent == relay[op.rec.id] \in {"absent", "committing", "gone"}
AbsenceProves == op.rec.pending

ResetDials ==
  /\ op.step = "dial"
  /\ \/ op.rec.revoked /\ Go(IF Absent THEN "delete" ELSE "endpoint") /\ UNCHANGED <<loop, late>>
     \/ op.rec.revoked /\ NetworkFails /\ Go("delete") /\ UNCHANGED <<loop, late>>
     \/ ~op.rec.revoked /\ ~Absent /\ Go("revoke") /\ UNCHANGED <<loop, late>>
     \/ ~op.rec.revoked /\ Absent /\ AbsenceProves /\ Go("absence") /\ UNCHANGED <<loop, late>>
     \/ ~op.rec.revoked /\ Absent /\ ~AbsenceProves /\ Fails
     \/ ~op.rec.revoked /\ NetworkFails /\ Fails
  /\ UNCHANGED <<stores, up, config, attempt, relay, history>>

\* Mutant: the checkpoint is written though the revocation was not acknowledged.
BugResetRevokes ==
  /\ op.step = "revoke" /\ Go("checkpoint")
  /\ UNCHANGED <<loop, late>>
  /\ Relay(op.rec.id, "linkRevoked") \/ (NetworkFails /\ UNCHANGED relay)
  /\ UNCHANGED <<stores, up, config, attempt, history>>

ResetRevokes ==
  /\ op.step = "revoke"
  /\ \/ /\ Relay(op.rec.id, "linkRevoked")
        /\ \/ Go("checkpoint") /\ UNCHANGED <<loop, late>>
           \/ NetworkFails /\ Fails
     \/ NetworkFails /\ Fails /\ UNCHANGED relay
  /\ UNCHANGED <<stores, up, config, attempt, history>>

\* The revocation, or the absence of a link, is stored before anything else is done.
Checkpoints ==
  /\ op.step \in {"checkpoint", "absence"}
  /\ \/ /\ keychain' = [id |-> op.rec.id, pending |-> op.rec.pending, revoked |-> TRUE]
        /\ config' = keychain'
        /\ op' = [step |-> IF op.step = "checkpoint" THEN "endpoint" ELSE "delete", rec |-> keychain']
        /\ UNCHANGED <<loop, late>>
     \/ StorageFails /\ Fails /\ UNCHANGED <<keychain, config>>
  /\ UNCHANGED <<legacy, up, attempt, relay, history>>

\* endpoint.revoke is best effort.
RevokesEndpoint ==
  /\ op.step = "endpoint" /\ Go("delete")
  /\ \/ ~Absent /\ Relay(op.rec.id, "gone")
     \/ (Absent \/ NetworkFails) /\ UNCHANGED relay
  /\ UNCHANGED <<stores, up, app, attempt, history>>

\* Mutant: the loop of the enrollment that is forgotten goes on.
BugForgetBegins ==
  /\ Free /\ Enrolled
  /\ op' = [step |-> "delete", rec |-> config]
  /\ UNCHANGED <<stores, up, app, attempt, relay, history>>

ForgetBegins ==
  /\ Free /\ Enrolled
  /\ op' = [step |-> "delete", rec |-> config] /\ Cancel
  /\ UNCHANGED <<stores, up, config, attempt, relay, history>>

\* When the deletion fails, the loop stays as it is.
Deletes ==
  /\ op.step = "delete"
  /\ \/ keychain' = NoConfig /\ Go("clear")
     \/ StorageFails /\ op' = Idle /\ UNCHANGED keychain
  /\ UNCHANGED <<legacy, up, app, attempt, relay, history>>

Clears ==
  /\ op.step = "clear" /\ op' = Idle
  /\ config' = NoConfig
  /\ removed' = removed \cup {op.rec.id}
  /\ UNCHANGED <<stores, up, loop, late, attempt, relay, used, crashes>>

-----------------------------------------------------------------------------
(***************************************************************************)
(* The relay: the controller revokes the link; a commit arrives late, or   *)
(* never.                                                                  *)
(***************************************************************************)
PeerRevokes ==
  /\ \E e \in Enrollment : relay[e] = "active" /\ Relay(e, "linkRevoked")
  /\ UNCHANGED <<stores, up, app, op, attempt, history>>

CommitArrives ==
  /\ \E e \in Enrollment, state \in {"active", "absent"} :
       relay[e] = "committing" /\ Relay(e, state)
  /\ UNCHANGED <<stores, up, app, op, attempt, history>>

-----------------------------------------------------------------------------
LoopStep ==
  \/ Unanswered \/ DialAnswered \/ LinkAnswered \/ Reports \/ ConnectionEnds \/ LinkRevoked \/ Retries
  \/ Confirms \/ AppliesStatus \/ IgnoresStatus

AttemptStep ==
  \/ \E by \in {"pairing", "enroll"} : Begins(by)
  \/ Aborts \/ SavesPending \/ Commits \/ SavesActive \/ Discards \/ Reconciles

HandlerStep ==
  \/ Wakes \/ ResetBegins \/ ResetCancels \/ ResetDials \/ ResetRevokes \/ Checkpoints
  \/ RevokesEndpoint \/ ForgetBegins \/ Deletes \/ Clears

Next ==
  \/ Migrates \/ RemovesLegacy \/ Loads \/ Crash
  \/ LoopStep \/ AttemptStep \/ HandlerStep \/ PeerRevokes \/ CommitArrives

\* The loop is never left waiting: a connection has a maximal age, a delay between
\* two attempts is finite.  A relay that is dialed again and again answers in the
\* end, and a Keychain that is written again and again takes it.
Fairness ==
  /\ WF_vars(ConnectionEnds) /\ WF_vars(Retries)
  /\ WF_vars(AppliesStatus) /\ WF_vars(Unanswered \/ DialAnswered \/ LinkAnswered)
  /\ SF_vars(DialAnswered) /\ SF_vars(LinkAnswered) /\ SF_vars(Confirms)

Spec == Init /\ [][Next]_vars
FairSpec == Spec /\ Fairness

-----------------------------------------------------------------------------
(***************************************************************************)
(* Properties.                                                             *)
(***************************************************************************)

\* An enrollment whose revocation is known is never served again.
RevokedIsNotServed == config.revoked => loop.step \in {"off", "ended"}

\* What the application works with is what a launch after a crash would find.
WorksWithWhatIsStored == up /\ op.step # "clear" /\ Enrolled => keychain = config

\* A reset revokes the link of a confirmed enrollment: before it reports the
\* enrollment as removed, and before it stores that it is revoked, also when the
\* copy it works with is from before the confirmation.
ResetRevokesLink ==
  [][/\ \A e \in Enrollment :
          e \in removed' \ removed /\ op.rec.revoked /\ ~op.rec.pending => relay[e] # "active"
     /\ keychain # NoConfig /\ ~keychain.pending /\ ~keychain.revoked /\ keychain'.revoked =>
          relay[keychain.id] # "active"]_vars

\* Stored enrollments move forward and stay removed, through crashes, failed
\* writes, late statuses and the migration of an older store.
Stage(e) ==
  LET found == {c \in {keychain, legacy} : c.id = e}
  IN IF \E c \in found : c.revoked THEN "revoked"
     ELSE IF \E c \in found : ~c.pending THEN "confirmed"
     ELSE IF found # {} THEN "pending"
     ELSE IF e > used \/ (attempt.rec.id = e /\ attempt.step = "save") THEN "new"
     ELSE "gone"
Record == INSTANCE EnrollmentRecord WITH stage <- [e \in Enrollment |-> Stage(e)]
ImplementsEnrollmentRecord == Record!Spec

\* A pending enrollment whose relay loop runs is confirmed in the end, unless the
\* loop ends because the relay refuses it or is cancelled.
Unconfirmed == up /\ config.pending /\ loop.step \notin {"off", "ended"}
PendingIsResolved == Unconfirmed ~> ~Unconfirmed

\* The loop comes back: however often the relay does not answer, connections are
\* lost and the user wakes it, it is connected in the end, or the relay has refused
\* it or it was cancelled.
Dialing == up /\ loop.step \in {"dial", "ask", "retry"}
LoopReturns == Dialing ~> ~Dialing

=============================================================================
