# Verification of remote-davinci

Remote DaVinci lets an iPhone control DaVinci Resolve on a Mac through a
rendezvous relay on AWS. This directory holds TLA+ models of the program, the
TLC configurations that check them on small instances, and TLAPS proofs for
instances of any size. `PROJECT.json` maps every definition to the lines it
models and lists hazards, runs, mutants and theorems.

    tlc -config RelayStoreReconnect.cfg MCRelayStore     # RelayStore*.cfg
    tlc -config PairingFaults.cfg MCPairing              # Pairing*.cfg
    tlc -config SessionCommands.cfg MCSessionChannel     # Session*.cfg
    tlc -config CompanionApp.cfg CompanionApp
    tlapm RelayStoreProofs.tla                           # and the other proof modules

## 1. The system

| Component | State it keeps | Operations | Interacts with |
| --- | --- | --- | --- |
| Relay store (`services/rendezvous-relay/internal/relay/store.go`, `model.go`) | one DynamoDB table: ENDPOINT, CONNECTION, PAIR (and its pointer items), LINK, SESSION, RATE | `Connect`, `Disconnect`, `Session`, `OpenSession`, `CloseSession`, `RevokeLink`, `RotateEndpoint`, `RevokeEndpoint`; `CreatePair`, `JoinPair`, `CommitPair`, `CancelPair`; `RateLimit` | called by the handler; the table's TTL deletes items on its own |
| Relay handler (`handler.go`) | none between invocations | one Lambda invocation per WebSocket event: `$connect`, `$disconnect`, frames, requests | posts replies, notifications and frames to sockets; a failed post cleans the dead socket up |
| Companion helper (`internal/companion`) | configuration with its checkpoints, the relay loop, the session channel, the response cache, a pairing attempt | `RunRelay`, `pairingAttempt`, `RevokeEnrollment`, `controlProcessor`, local web interface | socket to the relay, the DaVinci Resolve bridge, keychain or file |
| Companion macOS app (`apps/companion`) | the helper process, its restarts and deadlines | start, stop, retry, exit handling | starts the helper, talks to its web interface |
| iOS controller (`apps/controller`) | enrolment in the keychain, the life cycle of a connection, pending command, reorder buffer | pair, connect, suspend, resume, send, rotate, revoke | socket to the relay |
| Protocol (`protocol/`) | none | message types and validation | used by relay and companion |
| Tools and deployment (`cmd/*`, `infra/cdk`) | none | | |

A phone and a Mac are *endpoints*. Pairing gives each a credential and creates
a *link* between them. Each keeps one WebSocket (*connection*) to the relay;
the controller opens a *session* on the link, and while it is active the relay
forwards encrypted frames between the two sockets.

### What is hard about it

* Every WebSocket event is an invocation of its own, so the store's operations
  interleave freely. Each reads items one by one and ends in one conditional
  transaction; the conditions alone carry its correctness.
* Sessions are *locked* in three items (`activeSessionId` of the link and of both
  endpoints). Locks outlive an invocation that dies and an item TTL deletes, so
  `session.open` has to repair them.
* The gateway's callbacks come in any order and late, and notifications are posted
  after the transaction they report, so clients see them reordered or never.
* Pairing is a two-sided commit through an unreliable relay: both sides stage
  credentials on disk, and a lost reply leaves them unsure.
* Both clients juggle reconnects, deadlines, late answers, stale callbacks of old
  sockets and a user who cancels at any moment.

### What makes each component correct

* **Relay store**: an endpoint and a link serve one session at a time; an active
  session joins the current sockets of endpoints that are not revoked; no lock is
  lost for good; revocation is final; an operation acts only for the socket that
  owns its endpoint; a live session ends only for cause.
* **Pairing**: both sides activate or neither; no side keeps a refused enrolment
  or drops an activated one; a closed pair never activates.
* **Channel and control**: frames are delivered once and in order; a command runs
  at most once, and its repetition gets the same answer; no stale page is reported.
* **Handler**: every closed session is reported to both sides that still listen;
  clean-up ends.
* **Companion app and web interface**: one helper and one relay loop at a time; a
  status of an old loop never overwrites a new one; a crash loses no configuration.
* **Controller**: no old socket disturbs a new one; a command completes once;
  the connection comes back when the relay does.

`PROJECT.json` lists the hazards behind these, each at its line.

## 2. Modules

| Modules | Subject | Abstract specification |
| --- | --- | --- |
| `RelayStore` | sessions in the store, invocation by invocation | `SessionAuthority`: who may act, one step per operation |
| `Pairing` | one pairing: the relay's half, the Mac's, the phones' | `JointActivation`: all or nothing |
| `SessionChannel` | the frames of a session, the commands and page events they carry, on both sides | `CommandLog`: at most once, in order, honestly reported |
| `CompanionApp` | the companion's process: stored enrollment, relay loop, handlers, crashes | `EnrollmentRecord`: stored enrollments only move forward |

`MC...` modules bind the constants for TLC, `...Proofs`, `RelayStoreStepProofs` and
`RelayStoreRefinement` hold the theorems. The four models meet at their edges: what
`SessionChannel` needs of the relay (one session at a time, frames for another
refused, an end reported to its sides) is what `SessionAuthority` promises; the
outcomes of the commit step in `CompanionApp` are those a Mac in `Pairing` can tell
apart; the connection in `CompanionApp` is the one over which `SessionChannel` runs.

The handler has no module of its own: what it does depends on the operation, so its
replies, notifications and clean-up are steps of the invocations in `RelayStore`
and `Pairing`, and the order of its notifications is in `SessionChannel`.

Left to do, in this order: the Swift tasks of the controller's connection with their
generations and reconnects (and, with their fairness, that `session.open` succeeds in
the end); the supervisor of the helper process; rotation and its notifications.

## 3. `RelayStore`: sessions in the store

### State

| Variable | In the code |
| --- | --- |
| `endpoint` | ENDPOINT items: `connectionId`, `activeSessionId`, `revokedAt`, `credentialHash` |
| `connection` | which CONNECTION items exist; the endpoint of a connection is fixed when it authenticates (`ConnectionEndpoint`) |
| `link` | LINK items: `status`, `activeSessionId`; the two endpoints are fixed (`LinkController`, `LinkCompanion`) |
| `session` | SESSION items; status `unused` before the item is put, `deleted` after TTL removed it. A session's two endpoints are its link's |
| `pc`, `req`, `seen`, `tries` | each running invocation: its next step, what it was asked, what it has read in this attempt, failed attempts |

### Actions

Every read of an item is a step, every transaction is a step, and every other
invocation runs between them. Reads are strongly consistent (`ConsistentRead` in
`DynamoStore.get`), a transaction is atomic.

| Code | Actions |
| --- | --- |
| `Connect` | `ConnectReadsEndpoint`, `ConnectReadsConnection`, `ConnectReadsSession`, `CommitConnect` |
| `Disconnect` | `DisconnectReads…`, `CommitDisconnect` |
| `currentEndpoint` | `Authorize` |
| `CloseSession`, and `Session` when it finds one expired | `FrameReadsSession`, `CloseReadsSession`, `CommitClose` |
| `RevokeLink` | `RevokeLinkReads…`, `CommitRevokeLink` |
| `RevokeEndpoint`, `RotateEndpoint` | `RevokeEndpointReadsSession`, `CommitRevokeEndpoint`; `RotateEndpoint` |
| `OpenSession`, `repairStaleSession` | `OpenReads…`, `RepairReadsSession`, `RepairRereadsSession`, `CommitRepair`, `RepairConflict`, `CommitOpen` |
| `transactSessionTransition` | `Release` starts it, `ReadLock` reads each lock, `TransitionHolds`, `Ended`, `UnlockedLinks` and `UnlockedEndpoints` are its conditions and writes |
| `conditionalFailure` and `continue` | `Conflict`, `StartOver` |
| a new WebSocket event | `Begin`, `BeginFrame` |
| a Lambda that times out, any other database error, an exceeded rate limit | `Crash` |
| the clock and TTL | `Expire`, `SweepSession`, `SweepConnection` |

### What is abstracted

* Time is the flag `expired`. `late` holds the sessions already expired at the
  moment an operation took its time stamp, so a session may expire while an
  operation still takes it for live.
* A closed session may be swept at any time; the code keeps it until the expiry it
  was given when it opened.
* `handleConnect` reads the endpoint once before it calls `Connect`, which reads it
  again; the first read can only reject earlier, so it is left out.
* `SweepConnection` removes a CONNECTION item only when no request of its socket is
  running: the item expires five minutes after the gateway's own limit on a socket.
* With a connection's item still stored, `RotateEndpoint` is one step because the
  code makes one conditional update, with no read of its own.
* `MaxAttempts` is 5 in the code. An operation that gives up is the same, for every
  other, as one that stops, so 1 or 2 show what can happen.
* `RevokeLink` on a link already revoked has a branch that closes a session it
  still holds. `RevokedHoldsNothing`, proved below, says that it never holds one,
  and the model returns at once.
* Endpoints and links exist from the start (`Pairing` makes them), and sockets
  in pairing mode are not here. A pairing that meets an existing endpoint changes
  nothing of it (`endpointWrite` writes with `if_not_exists`).

### Properties

| Property | What it says |
| --- | --- |
| `TypeOK` | type invariant |
| `ActiveHoldsLocks` | an active session holds the locks of its link and of both endpoints: never two sessions on one |
| `ActiveIsAuthorized` | its two connections are its endpoints' current ones, and nothing of it is revoked |
| `LocksAreLive` | a lock names an active session that owns it, or one whose item TTL deleted |
| `RevokedHoldsNothing` | a revoked link or endpoint has no session and no connection |
| `FencedLifecycle` | open, close and revoke take effect only while the caller's connection is its endpoint's current one |
| `EndsForCause` | a live session ends only on expiry, revocation, loss of one of its sockets, failure to announce it, or a party's request |
| `ClosesWhatItMust` | a `CloseSession` that returns without having died or run out of attempts leaves its session closed, unless its caller is no party of it |
| `ConnectsWithCurrentCredential` | a socket takes an endpoint over only with the credential it has at that moment |
| `ImplementsAuthority` | every behaviour is one of `SessionAuthority` |
| `IInv` | the inductive invariant of the proofs |

`ClosesWhatItMust` is what the handler counts on when a session it opened cannot be
announced, or a frame comes too late: the invocation that found it so closes it, though
others repair, close or replace the session meanwhile.

The gateway runs the callbacks of a socket in any order. A disconnect that overtakes its
own connect finds nothing to delete, and the connect then makes a dead socket its
endpoint's current one. It stays so until a post to it fails, the endpoint connects
again or TTL removes its item. The model has these behaviours; the code accepts them,
and the properties say what holds meanwhile, not that the state ends.

`SessionAuthority` is what clients rely on: current connections, live sessions,
revocations, and operations in one step each. The refinement mapping takes the
active sessions for the live ones and forgets locks, snapshots and invocations, so
that all reads, retries, crashes and repairs are stuttering. The fence of
`CloseSession` alone is not needed for it: the session of a displaced socket is
closed already. The fences of the revocations are.

### Runs

All have two concurrent invocations, the least that can interleave, each of which
can start any number of operations, so that any number of operations follow one
another. Invocations, session ids, connections and credentials that are
interchangeable are symmetric; all properties are safety properties, for which
that is sound.

| Run | Instance | Distinct states | Question |
| --- | --- | --- | --- |
| `store_reconnect` | one link, two sockets of the phone, one of the Mac, one session, two credentials | 1.7 million | who may act, whose sockets a session joins, what survives revocation and rotation, whether what must be closed is |
| `store_one_link` | one link, two sessions | 2.0 million | locks of an old session against the next one, after deletions and repairs; refinement |
| `store_shared_mac` | two links that share the Mac, two sessions, two attempts; connect, open and revoke | 2.5 million | competing opens, retries; the inductive invariant |

`store_shared_mac` leaves out some operations to stay small; the other two have
them all. A session id is used once, so two ids give one session and its
successor, or two that race, and no hazard here needs a third. Deadlock is checked:
some event is always possible.

Fairness: none is assumed, all properties are safety properties. The code has no
retry beyond five attempts; that an endpoint gets its session in the end depends on
the controller's reconnects, which are not modelled.

### Proofs

`RelayStoreProofs` proves, for all values of the constants that satisfy
`RelayStoreAssumption` (a link has two different endpoints, each connection one,
at least one attempt):

    Inductive          Spec => []IInv
    TypeCorrect        Spec => []TypeOK
    LocksHeld          Spec => []ActiveHoldsLocks
    ActiveAuthorized   Spec => []ActiveIsAuthorized
    NoDeadLocks        Spec => []LocksAreLive
    RevocationIsFinal  Spec => []RevokedHoldsNothing

`RelayStoreStepProofs` proves the action properties, and `RelayStoreRefinement` the
refinement, under the same assumptions:

    Fenced             Spec => FencedLifecycle
    CurrentCredential  Spec => ConnectsWithCurrentCredential
    OnlyForCause       Spec => EndsForCause
    Closes             Spec => ClosesWhatItMust
    Implements         Spec => ImplementsAuthority

The four state properties are inductive neither alone nor together: whether a
commit preserves them depends on what its invocation read some steps before.
`IInv` adds what stays true of it:

* `NamedInv`: the session an endpoint or link item named belongs to that item, or
  was deleted since;
* `TransitionInv`: the status a transition read can only have moved forward, and
  if the session was read active and still is, every lock read since was seen held,
  because an active session holds all its locks;
* `RequestInv`, `SeenInv`: which steps and which parts of a snapshot go together.

The argument rests on two facts: statuses only move forward and a session never
changes its link or connections (`Advance`), so another invocation's step keeps
what this one knows (`Frame`, `Compose`); and a read step changes no item
(`ReadOnly`). One lemma per action follows, with one shared by every commit that
contains a transition (`TransitionStep`), and `NextIInv` puts them together.

What a step may not do needs one thing more, `PurposeInv`: an invocation still does
what its request entitles it to. The lock `OpenSession` repairs belongs to a session
that is spent (closed, deleted or expired) and stays so; the session `CloseSession`
ends is the one it was asked to end, of a link the caller is a party of; the
`OpenSession` that takes locks comes from the link's controller and has read a
connected companion. `Purposeful` adds it to the invariant, `Changes` says which
steps write at all, `CommitMoves` that only the invocation that commits moves, and
`ClosingKnows` what a commit knows of the session it ends.

For the refinement, `EndedView` is what a closing transition looks like from
outside; each commit then has one lemma. Where a whole endpoint or link loses its
session, the invariant *after* the step says that no session of it is left
(`EndpointLoses`, `RevokeLinkRefines`); where a session opens, free locks mean idle
endpoints (`OpenRefines`).

Every property of the runs is also proved: the runs show it at a fixed size, and
that its antecedents occur; the theorems for every size. That the bounded number
of attempts suffices, and anything about progress, is neither checked nor proved.

## 4. `Pairing`: the two-sided commit

The Mac asks for a pair and shows a code; a phone scans it and joins; both run a
handshake through the relay; the user approves on the Mac; both save their
credentials as *pending* and send `pair.commit`; the second commit activates the link.

### State and actions

| Variable | In the code |
| --- | --- |
| `pair`, `link`, `stored` | the PAIR item; LINK and ENDPOINT items the activation writes; CONNECTION items and whether `pairId` is set |
| `expired` | `expiresAt` of the pair has passed |
| `conn` | the gateway's view of a socket: open, cut without its knowledge, known to be gone |
| `request`, `inv` | events not yet started; running invocations, each with what it has read and what it does next |
| `inbox` | what was posted to a device, in order of posting |
| `phase`, `attempt` | how far `pairingAttempt.run` and `PairingClient` are; what the web interface of the Mac reads and writes of it (`phase`, `decision`, the cancelled context) |
| `disk` | the credentials a device has stored, or why it has none |

| Code | Actions |
| --- | --- |
| `handleDefault`, `rejectAndDrop`, replies, rate limits | `Receive`, `Throttle`, `Reject`, `DropSocket`, `SendReply` |
| `CreatePair`, `JoinPair`, `handlePairFrame` | `Create`, `JoinReads`, `JoinWrites`, `FrameReads`, `FrameForwards` |
| `CommitPair` | `CommitReads`, `CommitHalf`, `Activate`, `QuotaRefuses`, `StoreFails` |
| notifications of `pair.join` and `pair.commit` | `TellMac`, `TellPhone` |
| `CancelPair`; `Disconnect` and `notifyWithPairEvent` | `CancelReads`, `CancelWrites`; `CleanReadsConnection`, `CleanReadsPair`, `CleanWrites`, `CleanReadsAgain`, `TellPeer` |
| a Lambda that stops | `Crash` |
| `pairingAttempt.run`, `decide`, `stop`, `beginCommit` | `ShowCode`, `CodeCreated`, `ControllerFound`, `IdentityReceived`, `Decide`, `Stop`, `StopReturns`, `TakeDecision`, `BeginCommit`, `GrantSent` |
| `Pairing.swift` | `Scan`, `Ready`, `Joined`, `Granted` |
| both sides: checkpoint, commit, `resolveCommitFailure`, `pairingCheckpointDisposition` | `Stage`, `SendCommit`, `CommitPending`, `Activated`, `Rejected`, `SaveActive`, `Unexpected`, `GiveUp` |
| after the attempt | `Die`, `Reconcile`, `Reset`, `Forget` |
| network, clock | `Cut`, `Notice`, `Expire` |

### What is abstracted

* Handshake packets and the identity they carry are one frame each way.
* The check of `expiresAt` uses the time stamp of the invocation (`late`). A pair
  that TTL deleted is answered like one that has expired.
* A second `pair.commit` of the same side (store.go 633-642) is answered from the
  item; no client ever sends one, and it is left out.
* When a `CommitHalf` meets a pair the other side has just half committed, the
  relay answers with a retryable conflict. No client retries: the pair expires.
* `TellPeer` takes the peer from the pair as `CancelPair` read it, before its write: a
  phone that joined between the two is not told.
* Inside the clean-up, `CancelPair` finds a pair that is closed, active or
  expired, so only its read is kept.
* `Reset` is one step here and several in `CompanionApp`.
* `Events` names what may go wrong; an instance leaves out what its question does
  not need.

### Properties

| Property | What it says |
| --- | --- |
| `TypeOK` | type invariant |
| `ActivatedSidesHoldCredentials` | when the link exists, both of its devices have stored their credentials, until a reset |
| `ActiveMeansActivated` | a device that takes itself for paired is one the relay activated the pair for |
| `PairIsDecidedOnce` | ACTIVE and CLOSED are final, and the joiner never changes |
| `StopDuringApprovalHolds` | a pairing stopped while it awaits approval stages nothing and activates nothing |
| `ImplementsJointActivation` | all or nothing: both prepare, one step activates, no party withdraws after it |
| `ForgottenLeavesNoLink`, `DisconnectCancels` | violated, see Findings |

`StopDuringApprovalHolds` is about approval only: a stop during the handshake sets the
shown phase, which the next `setState` of the attempt overwrites. Such an attempt
ends when its context is found cancelled, and the code promises no more.

### Runs

| Run | Instance | Distinct states | Question |
| --- | --- | --- | --- |
| `pairing_faults` | one phone, two invocations; sockets, Lambdas, quotas and the database fail | 1.21 million | does an activation always find and leave both sides with credentials |
| `pairing_users` | one phone, one invocation; stop, reject, leave, deadlines, dying devices, failing stores, expiry, rate limits | 1.18 million | what a user's decision is worth against a commit on its way |
| `pairing_scanners` | two phones, two invocations; quota, failing stores | 0.33 million | who takes itself for paired when two race for one code |
| `pairing_forgotten`, `pairing_disconnect` | one phone, two invocations | violation | see Findings |

Two invocations are the least that can race for one item; the gateway can start
them for both commits, a commit and a cancellation, or a join and a disconnect. A
device lives through one attempt, as it has at most one at a time and a pair is
never used again. The runs allow the attempt to stop anywhere, so deadlock is
not checked. Phones and invocations are symmetric, and the properties are safety
properties.

### Proofs

`PairingProofs` proves for any number of phones and invocations, whatever
`Events` holds, from `PairingAssumption` and `NoneAssumption`:

    Inductive             Spec => []IInv
    TypeCorrect           Spec => []TypeOK
    SidesHoldCredentials  Spec => []ActivatedSidesHoldCredentials
    ActiveIsActivated     Spec => []ActiveMeansActivated
    StopHolds             Spec => []StopDuringApprovalHolds
    DecidedOnce           Spec => PairIsDecidedOnce

and `PairingRefinement`, for instances without `"forget"`,

    Implements            Spec => ImplementsJointActivation

That the credentials are there when the link is depends on messages sent long before.
`IInv` says of them:

* `TokenInv`: a device's one commit is either on its way, or handled by one
  invocation, or over; only a device that has staged can have sent it.
* `RefusalInv`: where a refusal of a commit is written down or posted, that
  commit is not recorded, nor can it be any more.
* `PostedInv`: what is in an inbox was true when it was posted, and stays so.
* `CommitInv`: a device without credentials has, unless the pair is closed, no
  commit recorded or still to be recorded. With it a link that exists has
  credentials on both sides.
* `DiskInv`, `PairInv`, `CreationInv`, `InvocationInv`, `StopInv` tie phases,
  items and what an invocation knows together; a phone past joining is the joiner.

`RelayKeeps` is what all steps of the relay have in common (devices stay, and
only one thing is posted), `DeviceKeeps` the same for steps of a device; one lemma
per action follows from one of them. For the refinement, `Saves` says what a device
step may do to `disk`, and a relay step is the activation or unseen.

## 5. `SessionChannel`: frames, commands and pages

### State and actions

`relay` is the session the relay holds (what `SessionAuthority` promises of it is
taken over: one at a time, others refused). `toMac` and `toPhone` are sets: each frame
is forwarded by an invocation of its own, so any may be delivered next. A message that
is lost is one that is never taken; a post may be repeated `MaxRepeats` times.
`mac.chan` is `secureChannel` with `controlProcessor`, `monitor` the page monitor,
`phone` the connection in `ControllerModel`, `resolve` the page Resolve shows and a
count of its changes. `executed`, `done` and `outcome` record what became of commands.

| Code | Actions |
| --- | --- |
| `runRelayConnection`, `secureChannel.receive` | `MacReads` with `OpensChannel`, `ClosesChannel`, `Receives`, `IgnoresFrame`, `Refuses`; `Cut`, `Reconnects` |
| `receivePacket`, `controlProcessor.handle` | `AnswersHandshake`, `AcceptsHello`, `RejectsRequest`, `Executes`, `RejectsPacket`, `SendsAnswers` |
| `ExecuteOperation`, `recordSuccessfulPageCommand` | `OpensPage`, `Succeeds`, `FailsCommand` |
| page monitor, `pageChangedEvent` | `Observes`, `ReportsPage` |
| `connectNow`, `teardownConnection`, receive loop | `Connects`, `Leaves`, `PhoneReads` with `LearnsSession`, `EndsSession`, `ReceivesFrame`, `IgnoresMessage` |
| `handleOrderedFrame`, `handleControl` | `FinishesHandshake`, `BecomesReady`, `SelectsPage`, `TakesResponse`, `IgnoresLateResponse`, `RefusesPacket` |
| `sendCommand`, `expireCommand` | `SendsCommand`, `Expires` |
| the relay | `Disconnects`; refusals and notices inside the steps above |

### What is abstracted

* A cipher is the number of the channel it was made for. What was sealed for one
  is not opened by another.
* A command is the selection of a page, the only kind whose effect the companion
  reports back later. Pages are interchangeable and symmetric; Resolve has one page
  more that cannot be selected.
* Deadlines may pass at any time when `"expire"` is an event.
* Cached responses (companion.go 802) are counted but not reused: a controller
  never sends an id twice, and a repeated frame is refused before it.
* The loss of the companion's socket and the closing of its session by the relay
  are one step (`Fails`): what the controller sends between the two reaches nobody.
* The controller reconnects only to a companion that is up, and
  `MaxSessions` bounds how often.

### Properties and runs

| Property | What it says |
| --- | --- |
| `TypeOK` | types, and no reorder buffer, cache or late window outgrows its limit |
| `ImplementsCommandLog` | commands execute at most once and in order, and none is reported as done that was not |
| `SelectedPageNeverGoesBack` | no observation from before a command is shown after it |
| `PageSettles` | violated, see Findings |

| Run | Instance | Distinct states | Question |
| --- | --- | --- | --- |
| `session_commands` | two sessions, two commands, lost connections, deadlines; windows of 2, 2 and 1 | 3.4 million | one execution and an honest report across replaced sessions |
| `session_pages` | one session, two commands, two changes by hand, one repeated post, a response cache of 1 | 0.24 million | page events against page commands, out of order |
| `session_page_returns` | one session, one command, two changes by hand | violation | see Findings |

A window of 2 is enough for a frame to wait, be repeated and be refused; two
sessions are what an answer of an old one needs to meet a new one; the cache and
the late window are filled by the commands there are. The runs may end once their
bounds are used up, so deadlock is not checked.

### Proofs

`SessionChannelProofs` proves for any number of sessions, commands, changes and
repeated posts, any size of the windows and the cache and whatever `Events` holds,
from `SessionChannelAssumption` (the bounds are natural numbers, the page no command
selects and the name for no page are not among `Pages`):

    Inductive         Spec => []IInv
    TypeCorrect       Spec => []TypeOK
    PagesInOrder      Spec => SelectedPageNeverGoesBack
    Implements        Spec => ImplementsCommandLog
    HonestlyReported  Spec => []HonestLog

What a frame says was decided when it was sent; by the time it is taken its session
may be replaced, its command expired and its page changed again. `IInv` says of the
frames under way, those in a buffer included (`ToMac`, `ToPhone`), and of the state
they will meet:

* `Ordered` (in `ChannelInv` and `PhoneInv`): a receiver holds frames of its session
  only, each sequence number once, a run of consecutive ones to handle and then
  those that wait. `ReceiveIs` proves it of a frame within the window, from what
  `Run` returns (`RunIs`) and the cardinalities the code tests. It bounds the buffers;
  a frame delivered twice is below `expected` or already held.
* `RequestInv`: requests of a session follow each other in the order of their
  commands, and one the present channel has still to handle is of a command later
  than all that were executed. A replaced channel has another key, so what is left
  of it cannot be opened; this is what makes a command run once.
* `LogInv`, `SuccessInv`: the command under execution is the last one of `executed`
  and has not succeeded; a confirmation, in a frame or not yet sent, is of a command
  that did; exactly the command the controller waits for is waiting.
* `OrderInv`: what a channel has told, has still to send and has observed tells of
  pages in the order in which Resolve showed them. `Succeeds` would break it, were
  not the observations begun before it marked stale (`lastPageCommandAt`).
* `SelectedInv`: nothing that can still reach the controller over the channel it has,
  or may yet have (`Its`), is older than the page it shows.
* `MessageInv`: frames are of sessions that were opened and of channels that were made.

Each part is insensitive to most steps. `RequestsStay`, `PagesStay`, `SelectedStays`,
`MessagesStay` say to which (`KnowsSession`, `GoesOn`, `Calm`, `Holds`), and
`MacStepKeeps`, `PhoneStepKeeps` and `TakesNextKeeps` put them together, so that the
lemma of an action shows only what that action disturbs. For `Implements` the
variables of `CommandLog` are those of the channel: `LogStep` names the step of
`CommandLog` that each action is, a tear-down being the report of a lost command or
no step. `HonestLog` is what that amounts to for the user, proved of `CommandLog`'s
steps: commands executed in increasing order, hence once, and a reported success is one.

`PageSettles` is false (see Findings).

## 6. `CompanionApp`: the companion's process

### State and actions

| Variable | In the code |
| --- | --- |
| `keychain`, `legacy` | the stored configuration; the file an earlier version kept |
| `up`, `config`, `loop`, `late` | the process; `app.config`; the current `RunRelay` and a status of it that waits for `app.mu`; statuses of loops cancelled since |
| `op` | the handler that holds `enrollMu`, or the launch, and the configuration it copied |
| `attempt` | a pairing attempt or `handleEnroll` under way |
| `relay`, `used`, `removed` | what the relay holds of each enrollment; enrollments begun; removals reported to the user |

| Code | Actions |
| --- | --- |
| `MigrateConfigStore`, `NewAppWithStore` | `Migrates`, `RemovesLegacy`, `Loads` |
| `RunRelay`, `runRelayConnection` | `Unanswered`, `DialAnswered`, `LinkAnswered`, `Reports`, `ConnectionEnds`, `LinkRevoked`, `Retries` |
| `applyRelayStatus` | `Confirms`, `AppliesStatus`; `IgnoresStatus` for a cancelled loop |
| `handleEnroll`, `Provision`, `pairingAttempt.run`, `reconcilePairing` | `Begins`, `Aborts`, `SavesPending`, `Commits`, `SavesActive`, `Discards`, `Reconciles` |
| `handleRelayWake` | `Wakes` |
| `handleReset`, `RevokeEnrollment` | `ResetBegins`, `ResetCancels`, `ResetDials`, `ResetRevokes`, `Checkpoints`, `RevokesEndpoint`, then `Deletes`, `Clears` |
| `handleForget` | `ForgetBegins`, `Deletes`, `Clears` |
| the process ends | `Crash` |
| the controller, a late commit | `PeerRevokes`, `CommitArrives` |

The first launch of a behaviour may find in the Keychain, and in the file of an earlier
version, whatever a life before could leave there: nothing, an enrollment that is
pending, confirmed or known to be revoked, the same in both, or two that conflict,
which `MigrateConfigStore` refuses. The relay holds of it what agrees with that
(`Stored`, `Held`). A checkpoint with the assignment of `app.config` after it, and the
same in `Reconciles` with `startRelay`, are one step each: the handler holds `enrollMu`,
and the loop is cancelled before or not yet started.

`Commits` has the outcomes a Mac in `Pairing` can tell apart. The first commit of
`Provision`, made for the other side, is part of it. The dial and the `link.get` after
it are two steps, as a link may be revoked between them.

Two things the model shows are how the code is and not violations: a commit that
takes effect after the loop was refused leaves an enrollment that only a wake or a
restart connects; and a forget whose deletion fails leaves the loop stopped though
the enrollment is retained. `PendingIsResolved` and `LoopReturns` allow for both.

### Properties and run

| Property | What it says |
| --- | --- |
| `TypeOK` | types, and the relay loop serves the enrollment the application works with |
| `RevokedIsNotServed` | an enrollment known to be revoked has no running loop |
| `WorksWithWhatIsStored` | a launch after a crash finds what the process works with |
| `ResetRevokesLink` | a reset reported of a confirmed enrollment has revoked its link; and a confirmed enrollment is stored as revoked only after its link was, even where the copy that is stored was made while it was pending |
| `ImplementsEnrollmentRecord` | stored enrollments only move forward, and what was reported as removed stays so |
| `PendingIsResolved` | liveness: a pending enrollment whose loop runs is confirmed, or its loop ends |
| `LoopReturns` | liveness: a loop that has lost its connection, or not made it yet, connects in the end, or the relay refuses it or it is cancelled |

`companion_app` has three enrollments, two crashes and writes and requests that may
fail: 128,138 states. Three enrollments are a migrated one, one that is removed, and
its successor, which statuses of the earlier ones could reach. Two crashes let the
recovery from one be interrupted by another.

Fairness, in `FairSpec`: weak on `ConnectionEnds` (a connection is closed after 90 to
110 minutes), `Retries` (back-off is finite), `AppliesStatus` and on a dial having some
outcome (requests have time limits). Strong on `DialAnswered` and `LinkAnswered`: a
relay that is dialed for ever answers in the end; and on `Confirms`: a Keychain
that is written for ever takes the write in the end. Nothing is assumed of users or
handlers. Without the last two the loop could fail for ever, and the code has
nothing against that.

### Proofs

`CompanionAppProofs` and `CompanionAppRefinement`, for any number of enrollments and
crashes and whatever may fail:

    Inductive        Spec => []IInv
    TypeCorrect      Spec => []TypeOK
    RevokedNotServed Spec => []RevokedIsNotServed
    WorksWithStored  Spec => []WorksWithWhatIsStored
    RemovalRevokes   Spec => ResetRevokesLink
    Implements       Spec => ImplementsEnrollmentRecord

The invariant relates the copies of a configuration. `RecordInv` says that what is
stored was enrolled before and that the old file is gone once the process works,
`HandlerInv` that a handler's copy is still the process's and what it learnt from
the relay still true, `AttemptInv` that an attempt meets no enrollment and no
handler, `StoredInv` and `LoopInv` what is in the Keychain and in the loop meanwhile,
and `RevocationInv` that a revocation stored without an activation in doubt is one
the relay made. Each action
has one lemma for types and one for the rest. `ResetRevokesLink` needs one fact more,
`ActivatedInv`: what the application takes for confirmed was activated, and what was
activated never becomes unknown to the relay. So when a reset made of a pending copy is
told that the relay does not know the enrollment, what is stored is still pending, or
its link is revoked: `CheckpointRevokes`. The refinement maps an enrollment to
what a launch would find (`StageOf`); one lemma per kind of action names its step
of `EnrollmentRecord`. `PendingIsResolved` and `LoopReturns` are model-checked only:
liveness is out of the prover's reach.

## 7. Findings

Three statements of the repository that the models contradict, each as a run that TLC
finds violated.

* `pairing_forgotten`: `RevokeEnrollment` takes a 401 during an unconfirmed enrollment
  for the proof that its activation left no link (companion.go 391-392). The socket of
  the Mac is lost after its commit was sent; the Mac dials, is refused, and removes
  its credentials; then the commit is handled and the link activated. The phone is
  paired with a Mac that has forgotten it. `ImplementsJointActivation` is checked and
  proved without this step.
* `pairing_disconnect`: `Disconnect` reads a connection without a pair and deletes it
  on the sole condition that it exists (store.go 285-294). A `pair.join` between the
  two leaves the pair READY with nobody there, until it expires.
* `session_page_returns`: `pageChangedEvent` drops a page equal to the last one it
  reported, which commands do not update (relay.go 490). After an event for one page,
  a command that selects another and a return by hand, the phone keeps showing the
  page of the command.

## 8. What is checked how

Each property has a mutant in its module (named `Bug…`, right before the definition
it replaces), a plausible slip in the code: a condition left out of a transaction, a
lock not released, an ambiguous error taken for a refusal, a stale status applied. A
run with the mutant in place must find the property violated.

Proved for every size of instance: every safety property, action property and
refinement that the passing runs check, of all four models. Model-checked only:
`PendingIsResolved` and `LoopReturns`, because liveness under fairness is out of the
prover's reach, and the three violations, which are counterexamples of small instances.

### Not modelled

* The supervisor of the helper process (`CompanionModel.swift`): its restarts and
  deadlines. `CompanionApp` has the start and the end of the process.
* The Swift tasks of the controller's connection (`Controller.swift`): generations
  that fence old tasks, delays, foreground and background. `SessionChannel` has
  `Connects` and `Leaves` instead, at any time. That `session.open` succeeds in the
  end depends on them.
* Notifications of `RotateEndpoint` and `RevokeEndpoint`; rate limits outside pairing.
* The Noise handshake, the validation of messages (`protocol/`) and their JSON:
  sequential computations on bytes. The models take an accepted message for what it
  says.
* File replacement inside `Save` (temporary file, fsync, rename) is taken as atomic.
* Views, menus, the camera scanner, wiring of the Lambda, measuring tools and
  deployment have no state of the protocol.
