------------------------------ MODULE Pairing ------------------------------
(***************************************************************************)
(* One pairing: the Mac shows a code, a phone scans it, both stage their   *)
(* credentials and commit, and the relay activates the link.               *)
(*                                                                         *)
(* The relay side is handler.go and store.go, each WebSocket event an      *)
(* invocation that reads, writes under a condition and posts, with other   *)
(* invocations in between.  The Mac is internal/companion/pairing.go, a    *)
(* phone ControllerCore/Pairing.swift.  Frames, replies and notifications  *)
(* are lost with their socket; either device may die, stop or give up.     *)
(***************************************************************************)
EXTENDS Naturals, Sequences, FiniteSets

CONSTANTS
  Mac, Phone,     \* the device that shows the code, those that scan it
  Invocation,     \* Lambda invocations that run at the same time
  Events,         \* what may go wrong, or be asked by a user, in this instance
  None            \* an absent value

Device == Phone \cup {Mac}

ASSUME PairingAssumption ==
  /\ Mac \notin Phone /\ None \notin Device
  /\ Events \subseteq STRING

VARIABLES
  pair,        \* the PAIR item
  expired,     \* expiresAt has passed
  link,        \* "none", "active" or "revoked": link and endpoints of the pair
  stored,      \* CONNECTION items, with the pairing each is assigned to or not
  conn,        \* the gateway's view of each device's socket
  request,     \* events the gateway has not yet started an invocation for
  inv,         \* the running invocations
  inbox,       \* what was posted to a device and not yet read
  phase,       \* how far each device is in its attempt
  attempt,     \* what the Mac's web interface reads and writes of its attempt
  disk         \* the credentials each device has saved for this link

items == <<pair, link, stored>>
device == <<phase, attempt, disk>>
vars == <<pair, link, stored, expired, conn, request, inv, inbox, phase, attempt, disk>>

-----------------------------------------------------------------------------
(***************************************************************************)
(* Items, invocations and messages.                                        *)
(***************************************************************************)
Statuses == {"none", "OPEN", "READY", "HALF_COMMITTED", "ACTIVE", "CLOSED"}
PairItem == [status: Statuses, sideB: Phone \cup {None}, commits: SUBSET Device]
NoPair == [status |-> "none", sideB |-> None, commits |-> {}]

Requests == {"create", "join", "frame", "commit", "cancel", "disconnect"}
Message == [type: {"ok", "active", "unsure", "refused", "ready", "frame", "completed", "closed"},
            re: Requests \cup {None}]
Reply(type, op) == [type |-> type, re |-> op]
Event(type) == [type |-> type, re |-> None]

\* op, dev: the event and its sender; late: expired when it was stamped; saw: the
\* pair as read; out: the reply; tgt, ev, then: the connection being cleaned up,
\* whether its peer is told, and the step after that; known: what cleanup read
\* of the connection.
Steps == {"idle", "read", "write", "toMac", "toPhone", "forward", "reply", "reject",
          "drop", "clean", "cleanPair", "cleanWrite", "cleanRead", "tellPeer"}
Running == [op: Requests \cup {None}, dev: Device \cup {None}, step: Steps, late: BOOLEAN,
            saw: PairItem, out: Message, tgt: Device \cup {None}, ev: BOOLEAN,
            then: Steps, known: BOOLEAN]
Idle == [op |-> None, dev |-> None, step |-> "idle", late |-> FALSE, saw |-> NoPair,
         out |-> Event("ok"), tgt |-> None, ev |-> FALSE, then |-> "idle", known |-> FALSE]

Phases == {"off", "creating", "showingQR", "joining", "joined", "handshaking",
           "awaitingApproval", "approved", "committing", "granted", "staged", "waiting",
           "activated", "ended"}

ASSUME NoneAssumption == None \notin Requests \cup Phases

\* shown: the phase a user sees and acts on; decision: theirs; stopAt, stopped:
\* the phase in which they stopped the attempt, and whether its context is
\* cancelled already.
Attempt == [shown: Phases \cup {"cancelled"}, decision: {"none", "approve", "reject"},
            stopAt: Phases \cup {None}, stopped: BOOLEAN]

\* Why a device has no credentials: none were saved, a proof that nothing was
\* activated ("refused"), a reset that took a 401 for one ("forgotten"), a
\* revocation.
Credentials == {"none", "pending", "active", "refused", "forgotten", "revoked"}
Holds(d) == disk[d] \in {"pending", "active"}

TypeOK ==
  /\ pair \in PairItem /\ expired \in BOOLEAN
  /\ link \in {"none", "active", "revoked"}
  /\ stored \in [Device -> {"absent", "free", "assigned"}]
  /\ conn \in [Device -> {"none", "up", "cut", "gone"}]
  /\ request \subseteq [op: Requests, dev: Device]
  /\ inv \in [Invocation -> Running]
  /\ inbox \in [Device -> Seq(Message)]
  /\ phase \in [Device -> Phases]
  /\ attempt \in Attempt
  /\ disk \in [Device -> Credentials]

Init ==
  /\ pair = NoPair /\ expired = FALSE /\ link = "none"
  /\ stored = [d \in Device |-> "absent"]
  /\ conn = [d \in Device |-> "none"]
  /\ request = {}
  /\ inv = [i \in Invocation |-> Idle]
  /\ inbox = [d \in Device |-> <<>>]
  /\ phase = [d \in Device |-> "off"]
  /\ attempt = [shown |-> "off", decision |-> "none", stopAt |-> None, stopped |-> FALSE]
  /\ disk = [d \in Device |-> "none"]

Member(p, d) == d = Mac \/ d = p.sideB
Peer(p, d) == IF d = Mac THEN p.sideB ELSE Mac

-----------------------------------------------------------------------------
(***************************************************************************)
(* Steps of an invocation.                                                 *)
(***************************************************************************)
At(i, step) == inv[i].step = step
Go(i, step) == inv' = [inv EXCEPT ![i].step = step]
End(i) == inv' = [inv EXCEPT ![i] = Idle]
Answer(i, type) == inv' = [inv EXCEPT ![i].step = "reply", ![i].out = Reply(type, inv[i].op)]
Drop(i, type) == inv' = [inv EXCEPT ![i].step = "reject", ![i].out = Reply(type, inv[i].op)]
Resume(i) == IF inv[i].then = "idle" THEN End(i) ELSE Go(i, inv[i].then)
CleanUp(i, d, ev, then) ==
  inv' = [inv EXCEPT ![i].step = "clean", ![i].tgt = d, ![i].ev = ev, ![i].then = then]

\* A socket that is cut swallows what is sent to it.
Deliver(d, m) == inbox' = IF conn[d] = "up" THEN [inbox EXCEPT ![d] = Append(@, m)] ELSE inbox

\* notifyWithPairEvent: a post to a socket the gateway knows to be gone cleans
\* its connection up first.
Notify(i, d, m, ev, next, undelivered) ==
  IF conn[d] = "gone"
  THEN CleanUp(i, d, ev, undelivered) /\ UNCHANGED inbox
  ELSE /\ Deliver(d, m)
       /\ IF next = "idle" THEN End(i) ELSE Go(i, next)

\* The gateway starts an invocation for an event; handleDefault looks the
\* connection up, a frame is not checked for one.
Receive(i) ==
  /\ At(i, "idle")
  /\ \E r \in request :
       /\ request' = request \ {r}
       /\ inv' = [inv EXCEPT ![i] =
            LET start == [Idle EXCEPT !.op = r.op, !.dev = r.dev, !.late = expired]
            IN IF r.op = "disconnect"
               THEN [start EXCEPT !.step = "clean", !.tgt = r.dev, !.ev = TRUE]
               ELSE IF r.op # "frame" /\ stored[r.dev] = "absent"
               THEN [start EXCEPT !.step = "reject", !.out = Reply("refused", r.op)]
               ELSE [start EXCEPT !.step = IF r.op = "create" THEN "write" ELSE "read"]]
  /\ UNCHANGED <<items, expired, conn, inbox, device>>

\* RateLimit refuses it: the caller may try again later, but its socket is dropped.
Throttle(i) ==
  /\ "throttle" \in Events
  /\ At(i, "read") \/ (At(i, "write") /\ inv[i].op = "create")
  /\ Drop(i, "unsure")
  /\ UNCHANGED <<items, expired, conn, request, inbox, device>>

\* rejectAndDrop: the error, then the end of the socket and its clean-up.
Reject(i) ==
  /\ At(i, "reject")
  /\ Notify(i, inv[i].dev, inv[i].out, FALSE, "drop", "drop")
  /\ UNCHANGED <<items, expired, conn, request, device>>

DropSocket(i) ==
  /\ At(i, "drop")
  /\ LET d == inv[i].dev
     IN /\ conn' = [conn EXCEPT ![d] = "gone"]
        /\ request' = IF conn[d] = "gone" THEN request
                      ELSE request \cup {[op |-> "disconnect", dev |-> d]}
        /\ CleanUp(i, d, TRUE, "idle")
  /\ UNCHANGED <<items, expired, inbox, device>>

\* The reply to a frame is posted, every other one returned to the gateway.
SendReply(i) ==
  /\ At(i, "reply")
  /\ IF inv[i].op = "frame" THEN Notify(i, inv[i].dev, inv[i].out, FALSE, "idle", "idle")
     ELSE Deliver(inv[i].dev, inv[i].out) /\ End(i)
  /\ UNCHANGED <<items, expired, conn, request, device>>

-----------------------------------------------------------------------------
(***************************************************************************)
(* pair.create, pair.join and pair.frame.                                  *)
(***************************************************************************)
Create(i) ==
  /\ At(i, "write") /\ inv[i].op = "create"
  /\ IF stored[Mac] = "free"
     THEN /\ pair' = [pair EXCEPT !.status = "OPEN"]
          /\ stored' = [stored EXCEPT ![Mac] = "assigned"]
          /\ Answer(i, "ok")
     ELSE Answer(i, "unsure") /\ UNCHANGED <<pair, stored>>
  /\ UNCHANGED <<link, expired, conn, request, inbox, device>>

JoinReads(i) ==
  /\ At(i, "read") /\ inv[i].op = "join"
  /\ IF inv[i].late \/ pair.status # "OPEN" \/ pair.sideB # None
     THEN Answer(i, "refused") ELSE Go(i, "write")
  /\ UNCHANGED <<items, expired, conn, request, inbox, device>>

\* Mutant: the write does not check again what the read saw.
BugJoinHolds(i) == ~inv[i].late /\ stored[inv[i].dev] = "free"

JoinHolds(i) ==
  pair.status = "OPEN" /\ ~inv[i].late /\ pair.sideB = None /\ stored[inv[i].dev] = "free"

JoinWrites(i) ==
  /\ At(i, "write") /\ inv[i].op = "join"
  /\ IF JoinHolds(i)
     THEN /\ pair' = [pair EXCEPT !.status = "READY", !.sideB = inv[i].dev]
          /\ stored' = [stored EXCEPT ![inv[i].dev] = "assigned"]
          /\ Go(i, "toMac")
     ELSE Answer(i, "refused") /\ UNCHANGED <<pair, stored>>
  /\ UNCHANGED <<link, expired, conn, request, inbox, device>>

FrameReads(i) ==
  /\ At(i, "read") /\ inv[i].op = "frame"
  /\ IF inv[i].late \/ pair.status \notin {"READY", "HALF_COMMITTED"}
        \/ ~Member(pair, inv[i].dev)
     THEN Answer(i, "refused") ELSE Go(i, "forward")
  /\ UNCHANGED <<items, expired, conn, request, inbox, device>>

FrameForwards(i) ==
  /\ At(i, "forward")
  /\ LET peer == Peer(pair, inv[i].dev)
     IN IF conn[peer] = "gone"
        THEN /\ inv' = [inv EXCEPT ![i].step = "clean", ![i].tgt = peer, ![i].ev = FALSE,
                                   ![i].then = "reply", ![i].out = Reply("unsure", "frame")]
             /\ UNCHANGED inbox
        ELSE Deliver(peer, Event("frame")) /\ End(i)
  /\ UNCHANGED <<items, expired, conn, request, device>>

-----------------------------------------------------------------------------
(***************************************************************************)
(* pair.commit: half committed by the first side, activated by the other.  *)
(***************************************************************************)
CommitReads(i) ==
  /\ At(i, "read") /\ inv[i].op = "commit"
  /\ IF inv[i].late \/ pair.status \notin {"READY", "HALF_COMMITTED"} \/ ~Member(pair, inv[i].dev)
     THEN Answer(i, "refused")
     ELSE inv' = [inv EXCEPT ![i].step = "write", ![i].saw = pair]
  /\ UNCHANGED <<items, expired, conn, request, inbox, device>>

\* The other side had not committed.
CommitHalf(i) ==
  /\ At(i, "write") /\ inv[i].op = "commit" /\ inv[i].saw.commits = {}
  /\ IF pair.status = "READY" /\ ~inv[i].late
     THEN /\ pair' = [pair EXCEPT !.status = "HALF_COMMITTED", !.commits = @ \cup {inv[i].dev}]
          /\ Answer(i, "ok")
     ELSE Answer(i, "unsure") /\ UNCHANGED pair
  /\ UNCHANGED <<link, stored, expired, conn, request, inbox, device>>

\* Mutant: a pair that was closed meanwhile can be activated.
BugActivationHolds(i) == pair.status # "ACTIVE" /\ ~inv[i].late

ActivationHolds(i) == pair.status = "HALF_COMMITTED" /\ ~inv[i].late

\* Mutant: the commit is recorded for the connection being cleaned up.
BugActivate(i) ==
  /\ At(i, "write") /\ inv[i].op = "commit" /\ inv[i].saw.commits # {}
  /\ IF ActivationHolds(i)
     THEN /\ pair' = [pair EXCEPT !.status = "ACTIVE", !.commits = @ \cup {inv[i].tgt}]
          /\ link' = "active"
          /\ inv' = [inv EXCEPT ![i].step = "toMac", ![i].out = Reply("active", "commit")]
     ELSE Answer(i, "unsure") /\ UNCHANGED <<pair, link>>
  /\ UNCHANGED <<stored, expired, conn, request, inbox, device>>

\* It had: one transaction activates the pair, writes link and endpoints and
\* counts against two quotas.
Activate(i) ==
  /\ At(i, "write") /\ inv[i].op = "commit" /\ inv[i].saw.commits # {}
  /\ IF ActivationHolds(i)
     THEN /\ pair' = [pair EXCEPT !.status = "ACTIVE", !.commits = @ \cup {inv[i].dev}]
          /\ link' = "active"
          /\ inv' = [inv EXCEPT ![i].step = "toMac", ![i].out = Reply("active", "commit")]
     ELSE Answer(i, "unsure") /\ UNCHANGED <<pair, link>>
  /\ UNCHANGED <<stored, expired, conn, request, inbox, device>>

QuotaRefuses(i) ==
  /\ "quota" \in Events
  /\ At(i, "write") /\ inv[i].op = "commit" /\ inv[i].saw.commits # {}
  /\ Drop(i, "refused")
  /\ UNCHANGED <<items, expired, conn, request, inbox, device>>

\* The database reports an error though the write may have been made; errors
\* the handler does not know are INTERNAL and retryable.
StoreFails(i) ==
  /\ "storeError" \in Events
  /\ At(i, "write") /\ inv[i].op = "commit"
  /\ \/ UNCHANGED <<pair, link>>
     \/ /\ inv[i].saw.commits = {} /\ pair.status = "READY" /\ ~inv[i].late
        /\ pair' = [pair EXCEPT !.status = "HALF_COMMITTED", !.commits = @ \cup {inv[i].dev}]
        /\ UNCHANGED link
     \/ /\ inv[i].saw.commits # {} /\ ActivationHolds(i)
        /\ pair' = [pair EXCEPT !.status = "ACTIVE", !.commits = @ \cup {inv[i].dev}]
        /\ link' = "active"
  /\ Answer(i, "unsure")
  /\ UNCHANGED <<stored, expired, conn, request, inbox, device>>

\* pair.ready and pair.completed go to the Mac first and then to the phone.
Announcement(i) == Event(IF inv[i].op = "join" THEN "ready" ELSE "completed")

Offline(i, d, ev) ==
  inv' = [inv EXCEPT ![i].step = "clean", ![i].tgt = d, ![i].ev = ev, ![i].then = "reply",
                     ![i].out = Reply("unsure", "join")]

TellMac(i) ==
  /\ At(i, "toMac")
  /\ IF inv[i].op = "join" /\ conn[Mac] = "gone"
     THEN Offline(i, Mac, FALSE) /\ UNCHANGED inbox
     ELSE Notify(i, Mac, Announcement(i), FALSE, "toPhone", "toPhone")
  /\ UNCHANGED <<items, expired, conn, request, device>>

TellPhone(i) ==
  /\ At(i, "toPhone")
  /\ LET p == pair.sideB
         done == [inv EXCEPT ![i].step = "reply",
                             ![i].out = IF inv[i].op = "join" THEN Reply("ok", "join") ELSE @]
     IN IF conn[p] # "gone" THEN Deliver(p, Announcement(i)) /\ inv' = done
        ELSE /\ UNCHANGED inbox
             /\ IF inv[i].op = "join" THEN Offline(i, p, TRUE) ELSE CleanUp(i, p, FALSE, "reply")
  /\ UNCHANGED <<items, expired, conn, request, device>>

-----------------------------------------------------------------------------
(***************************************************************************)
(* pair.cancel, and the clean-up of a connection, which cancels its pair.  *)
(***************************************************************************)
CancelReads(i) ==
  /\ At(i, "read") /\ inv[i].op = "cancel"
  /\ CASE inv[i].late              -> Answer(i, "ok")
       [] ~inv[i].late /\ pair.status = "ACTIVE" -> Answer(i, "refused")
       [] OTHER -> inv' = [inv EXCEPT ![i].tgt = inv[i].dev, ![i].saw = pair,
                             ![i].step = IF pair.status = "CLOSED" THEN "tellPeer" ELSE "write",
                             ![i].ev = TRUE, ![i].then = "reply", ![i].out = Reply("ok", "cancel")]
  /\ UNCHANGED <<items, expired, conn, request, inbox, device>>

\* Mutant: the update is not conditional on the pair's status.
BugCancelWrites(i) ==
  /\ At(i, "write") /\ inv[i].op = "cancel"
  /\ pair' = [pair EXCEPT !.status = "CLOSED"] /\ Go(i, "tellPeer")
  /\ UNCHANGED <<link, stored, expired, conn, request, inbox, device>>

\* When the condition fails the pair is active, which is final.
CancelWrites(i) ==
  /\ At(i, "write") /\ inv[i].op = "cancel"
  /\ IF pair.status # "ACTIVE"
     THEN pair' = [pair EXCEPT !.status = "CLOSED"] /\ Go(i, "tellPeer")
     ELSE Answer(i, "refused") /\ UNCHANGED pair
  /\ UNCHANGED <<link, stored, expired, conn, request, inbox, device>>

\* store.Disconnect: the CONNECTION item, the pair it is assigned to, and one
\* transaction that deletes the one and closes the other.
CleanReadsConnection(i) ==
  /\ At(i, "clean")
  /\ IF stored[inv[i].tgt] = "absent" THEN Resume(i)
     ELSE LET assigned == stored[inv[i].tgt] = "assigned"
          IN inv' = [inv EXCEPT ![i].known = assigned,
                                ![i].step = IF assigned THEN "cleanPair" ELSE "cleanWrite"]
  /\ UNCHANGED <<items, expired, conn, request, inbox, device>>

CleanReadsPair(i) ==
  /\ At(i, "cleanPair")
  /\ inv' = [inv EXCEPT ![i].saw = pair, ![i].step = "cleanWrite"]
  /\ UNCHANGED <<items, expired, conn, request, inbox, device>>

CleanWrites(i) ==
  /\ At(i, "cleanWrite")
  /\ LET closes == inv[i].known /\ inv[i].saw.status \notin {"ACTIVE", "CLOSED"}
     IN IF stored[inv[i].tgt] # "absent" /\ (closes => pair.status # "ACTIVE")
        THEN /\ stored' = [stored EXCEPT ![inv[i].tgt] = "absent"]
             /\ pair' = IF closes THEN [pair EXCEPT !.status = "CLOSED"] ELSE pair
             /\ IF inv[i].known THEN Go(i, "cleanRead") ELSE Resume(i)
        ELSE Go(i, "clean") /\ UNCHANGED <<pair, stored>>
  /\ UNCHANGED <<link, expired, conn, request, inbox, device>>

\* CancelPair finds the pair closed or active by now, or expired.
CleanReadsAgain(i) ==
  /\ At(i, "cleanRead")
  /\ IF inv[i].ev /\ ~expired /\ pair.status = "CLOSED"
     THEN inv' = [inv EXCEPT ![i].saw = pair, ![i].step = "tellPeer"]
     ELSE Resume(i)
  /\ UNCHANGED <<items, expired, conn, request, inbox, device>>

\* The peer of the pair as it was read: a phone that joined since is not told.
TellPeer(i) ==
  /\ At(i, "tellPeer")
  /\ LET peer == Peer(inv[i].saw, inv[i].tgt)
     IN IF peer = None THEN Resume(i) /\ UNCHANGED inbox
        ELSE Notify(i, peer, Event("closed"), FALSE, inv[i].then, inv[i].then)
  /\ UNCHANGED <<items, expired, conn, request, device>>

Crash(i) ==
  /\ "lambda" \in Events
  /\ ~At(i, "idle") /\ End(i)
  /\ UNCHANGED <<items, expired, conn, request, inbox, device>>

-----------------------------------------------------------------------------
(***************************************************************************)
(* Steps of a device.  A send over a socket that is cut is lost.           *)
(***************************************************************************)
Phase(d, p) == phase' = [phase EXCEPT ![d] = p]
Save(d, c) == disk' = [disk EXCEPT ![d] = c]
Send(d, op) == request' = IF conn[d] = "up" THEN request \cup {[op |-> op, dev |-> d]} ELSE request
HangUp(d) == conn' = [conn EXCEPT ![d] = IF @ = "up" THEN "cut" ELSE @]
Show(p) == attempt' = [attempt EXCEPT !.shown = p]

Busy(d) == phase[d] \notin {"off", "ended"}

\* The attempt ends with credentials c.  The Mac, once it has a pair and unless
\* that was activated, asks the relay to cancel it; both close the socket.
Finish(d, c) ==
  /\ Phase(d, "ended") /\ Save(d, c) /\ HangUp(d)
  /\ IF d = Mac THEN Show("ended") ELSE UNCHANGED attempt
  /\ IF d = Mac /\ phase[Mac] # "creating" THEN Send(Mac, "cancel") ELSE UNCHANGED request

\* Mutant: the phone discards its credentials on any failure.
BugKept(d) == IF disk[d] = "pending" /\ d # Mac THEN "refused" ELSE disk[d]

\* What a failure other than a refusal leaves: the Mac keeps what it staged,
\* the phone only once it has begun to send its commit.
Kept(d) == IF disk[d] = "pending" /\ d # Mac /\ phase[d] = "staged" THEN "refused" ELSE disk[d]

\* The Mac dials, and asks for a pair; a phone scans the code it shows.
ShowCode ==
  /\ phase[Mac] = "off"
  /\ conn' = [conn EXCEPT ![Mac] = "up"] /\ stored' = [stored EXCEPT ![Mac] = "free"]
  /\ request' = request \cup {[op |-> "create", dev |-> Mac]}
  /\ Phase(Mac, "creating")
  /\ UNCHANGED <<pair, link, expired, inv, inbox, attempt, disk>>

Scan(p) ==
  /\ phase[p] = "off" /\ phase[Mac] \notin {"off", "creating"}
  /\ conn' = [conn EXCEPT ![p] = "up"] /\ stored' = [stored EXCEPT ![p] = "free"]
  /\ request' = request \cup {[op |-> "join", dev |-> p]}
  /\ Phase(p, "joining")
  /\ UNCHANGED <<pair, link, expired, inv, inbox, attempt, disk>>

\* The next message of d is m.
Reads(d, m) == inbox[d] # <<>> /\ Head(inbox[d]) = m
Took(d) == inbox' = [inbox EXCEPT ![d] = Tail(@)]

\* The Mac's attempt goes on to p, which its web interface then shows, whatever
\* it showed before.
Proceeds(m, from, to) ==
  /\ phase[Mac] = from /\ Reads(Mac, m) /\ Took(Mac)
  /\ Phase(Mac, to) /\ Show(to)
  /\ UNCHANGED <<items, expired, conn, request, inv, disk>>

CodeCreated == Proceeds(Reply("ok", "create"), "creating", "showingQR")
ControllerFound == Proceeds(Event("ready"), "showingQR", "handshaking")
IdentityReceived == Proceeds(Event("frame"), "handshaking", "awaitingApproval")

\* decide, stop: requests of the user; stop cancels the context in a step of
\* its own, after it has released the lock.
Decide(what) ==
  /\ what = "approve" \/ "reject" \in Events
  /\ attempt.shown = "awaitingApproval" /\ attempt.decision = "none"
  /\ attempt' = [attempt EXCEPT !.decision = what]
  /\ UNCHANGED <<items, expired, conn, request, inv, inbox, phase, disk>>

Stop ==
  /\ "stop" \in Events /\ attempt.stopAt = None
  /\ attempt.shown \in {"showingQR", "handshaking", "awaitingApproval"}
  /\ attempt' = [attempt EXCEPT !.shown = "cancelled", !.stopAt = attempt.shown]
  /\ UNCHANGED <<items, expired, conn, request, inv, inbox, phase, disk>>

StopReturns ==
  /\ attempt.stopAt # None /\ ~attempt.stopped
  /\ attempt' = [attempt EXCEPT !.stopped = TRUE]
  /\ UNCHANGED <<items, expired, conn, request, inv, inbox, phase, disk>>

TakeDecision ==
  /\ phase[Mac] = "awaitingApproval" /\ attempt.decision # "none"
  /\ IF attempt.decision = "approve" /\ ~attempt.stopped
     THEN Phase(Mac, "approved") /\ UNCHANGED <<attempt, disk, conn, request>>
     ELSE Finish(Mac, disk[Mac])
  /\ UNCHANGED <<items, expired, inv, inbox>>

\* Mutant: the attempt does not check that it was not stopped meanwhile.
BugBeginCommit ==
  /\ phase[Mac] = "approved"
  /\ Phase(Mac, "committing") /\ Show("committing") /\ UNCHANGED <<disk, conn, request>>
  /\ UNCHANGED <<items, expired, inv, inbox>>

BeginCommit ==
  /\ phase[Mac] = "approved"
  /\ IF attempt.shown = "awaitingApproval"
     THEN Phase(Mac, "committing") /\ Show("committing") /\ UNCHANGED <<disk, conn, request>>
     ELSE Finish(Mac, disk[Mac])
  /\ UNCHANGED <<items, expired, inv, inbox>>

GrantSent ==
  /\ phase[Mac] = "committing"
  /\ IF attempt.stopped THEN Finish(Mac, disk[Mac])
     ELSE Send(Mac, "frame") /\ Phase(Mac, "granted") /\ UNCHANGED <<attempt, disk, conn>>
  /\ UNCHANGED <<items, expired, inv, inbox>>

\* The phone has joined once it has read pair.ready and, posted after it, the
\* reply; it then sends its identity and waits for the Mac's.
Ready(p) ==
  /\ phase[p] = "joining" /\ Reads(p, Event("ready")) /\ Took(p)
  /\ Phase(p, "joined")
  /\ UNCHANGED <<items, expired, conn, request, inv, attempt, disk>>

Joined(p) ==
  /\ phase[p] = "joined" /\ Reads(p, Reply("ok", "join")) /\ Took(p)
  /\ Send(p, "frame") /\ Phase(p, "handshaking")
  /\ UNCHANGED <<items, expired, conn, inv, attempt, disk>>

Granted(p) ==
  /\ phase[p] = "handshaking" /\ Reads(p, Event("frame")) /\ Took(p)
  /\ Phase(p, "granted")
  /\ UNCHANGED <<items, expired, conn, request, inv, attempt, disk>>

\* Both save their credentials as pending before they commit.
Stage(d) ==
  /\ phase[d] = "granted"
  /\ \/ Save(d, "pending") /\ Phase(d, "staged") /\ UNCHANGED <<attempt, conn, request>>
     \/ "storage" \in Events /\ Finish(d, disk[d])
  /\ UNCHANGED <<items, expired, inv, inbox>>

SendCommit(d) ==
  /\ phase[d] = "staged"
  /\ IF d = Mac /\ attempt.stopped THEN Finish(Mac, disk[Mac])
     ELSE Send(d, "commit") /\ Phase(d, "waiting") /\ UNCHANGED <<attempt, disk, conn>>
  /\ UNCHANGED <<items, expired, inv, inbox>>

-----------------------------------------------------------------------------
(***************************************************************************)
(* What the answer to a commit means.                                      *)
(***************************************************************************)
\* Mutant: the reply to the first commit is taken for the activation.
BugSuccess == {Event("completed"), Reply("active", "commit"), Reply("ok", "commit")}

Success == {Event("completed"), Reply("active", "commit")}
\* Mutant: a retryable error is taken for a proof.
BugRejection == {Event("closed"), Reply("refused", "commit"), Reply("unsure", "commit")}

Rejection == {Event("closed"), Reply("refused", "commit")}

CommitPending(d) ==
  /\ phase[d] = "waiting" /\ Reads(d, Reply("ok", "commit")) /\ Took(d)
  /\ UNCHANGED <<items, expired, conn, request, inv, device>>

Activated(d) ==
  /\ phase[d] = "waiting" /\ \E m \in Success : Reads(d, m)
  /\ Took(d) /\ Phase(d, "activated")
  /\ UNCHANGED <<items, expired, conn, request, inv, attempt, disk>>

\* Proof that nothing was activated: the staged credentials are deleted, or
\* stay when the store fails.
Rejected(d) ==
  /\ phase[d] = "waiting" /\ \E m \in Rejection : Reads(d, m)
  /\ Took(d)
  /\ \/ Finish(d, "refused")
     \/ "storage" \in Events /\ Finish(d, disk[d])
  /\ UNCHANGED <<items, expired, inv>>

SaveActive(d) ==
  /\ phase[d] = "activated"
  /\ Phase(d, "ended") /\ HangUp(d)
  /\ \/ Save(d, "active")
     \/ "storage" \in Events /\ UNCHANGED disk
  /\ UNCHANGED <<items, expired, request, inv, inbox, attempt>>

Expected(d, m) ==
  CASE phase[d] = "creating" -> m = Reply("ok", "create")
    [] phase[d] = "showingQR" -> m.type \notin {"closed", "unsure", "refused"}
    [] phase[d] = "joining" -> m = Event("ready")
    [] phase[d] = "joined" -> m = Reply("ok", "join")
    [] phase[d] = "handshaking" -> m = Event("frame")
    [] phase[d] = "waiting" -> m \in Success \cup Rejection \cup {Reply("ok", "commit")}
    [] OTHER -> FALSE

\* Any other message, read where one is read, fails the attempt.
Unexpected(d) ==
  /\ phase[d] \in {"creating", "showingQR", "joining", "joined", "handshaking",
                   "awaitingApproval", "waiting"}
  /\ inbox[d] # <<>> /\ ~Expected(d, Head(inbox[d]))
  /\ Took(d) /\ Finish(d, Kept(d))
  /\ UNCHANGED <<items, expired, inv>>

\* The socket fails, a deadline passes, the phone's user leaves, or the Mac's
\* context is cancelled.
GiveUp(d) ==
  /\ Busy(d) /\ phase[d] # "activated"
  /\ "giveUp" \in Events \/ conn[d] # "up" \/ (d = Mac /\ attempt.stopped)
  /\ Finish(d, Kept(d))
  /\ UNCHANGED <<items, expired, inv, inbox>>

\* The process dies.
Die(d) ==
  /\ "device" \in Events /\ Busy(d)
  /\ Phase(d, "ended") /\ HangUp(d)
  /\ IF d = Mac THEN Show("ended") ELSE UNCHANGED attempt
  /\ UNCHANGED <<items, expired, request, inv, inbox, disk>>

-----------------------------------------------------------------------------
(***************************************************************************)
(* After the attempt: the devices reconnect with what they saved.          *)
(***************************************************************************)
\* link.get answers that the link is active.
Reconcile(d) ==
  /\ phase[d] = "ended" /\ disk[d] = "pending" /\ link = "active"
  /\ Save(d, "active")
  /\ UNCHANGED <<items, expired, conn, request, inv, inbox, phase, attempt>>

\* A reset revokes the link, if the relay lets the device in to do so.
Reset(d) ==
  /\ "reset" \in Events
  /\ phase[d] = "ended" /\ Holds(d) /\ link # "none"
  /\ link' = "revoked" /\ Save(d, "revoked")
  /\ UNCHANGED <<pair, stored, expired, conn, request, inv, inbox, phase, attempt>>

\* RevokeEnrollment takes a 401 for the proof that an unconfirmed activation
\* never happened.
Forget ==
  /\ "forget" \in Events
  /\ phase[Mac] = "ended" /\ disk[Mac] = "pending" /\ link = "none"
  /\ Save(Mac, "forgotten")
  /\ UNCHANGED <<items, expired, conn, request, inv, inbox, phase, attempt>>

-----------------------------------------------------------------------------
(***************************************************************************)
(* The network and the clock.                                              *)
(***************************************************************************)
Cut(d) ==
  /\ "network" \in Events /\ conn[d] = "up"
  /\ conn' = [conn EXCEPT ![d] = "cut"]
  /\ UNCHANGED <<items, expired, request, inv, inbox, device>>

\* The gateway finds out that a socket is closed, and raises $disconnect.
Notice(d) ==
  /\ conn[d] = "cut"
  /\ conn' = [conn EXCEPT ![d] = "gone"]
  /\ request' = request \cup {[op |-> "disconnect", dev |-> d]}
  /\ UNCHANGED <<items, expired, inv, inbox, device>>

Expire ==
  /\ "expire" \in Events /\ ~expired /\ pair.status # "none"
  /\ expired' = TRUE
  /\ UNCHANGED <<items, conn, request, inv, inbox, device>>

-----------------------------------------------------------------------------
RelayStep(i) ==
  \/ Receive(i) \/ Throttle(i) \/ Reject(i) \/ DropSocket(i) \/ SendReply(i)
  \/ Create(i) \/ JoinReads(i) \/ JoinWrites(i) \/ FrameReads(i) \/ FrameForwards(i)
  \/ CommitReads(i) \/ CommitHalf(i) \/ Activate(i) \/ QuotaRefuses(i) \/ StoreFails(i)
  \/ TellMac(i) \/ TellPhone(i)
  \/ CancelReads(i) \/ CancelWrites(i) \/ CleanReadsConnection(i) \/ CleanReadsPair(i)
  \/ CleanWrites(i) \/ CleanReadsAgain(i) \/ TellPeer(i) \/ Crash(i)

MacStep ==
  \/ ShowCode \/ CodeCreated \/ ControllerFound \/ IdentityReceived
  \/ Decide("approve") \/ Decide("reject") \/ Stop \/ StopReturns
  \/ TakeDecision \/ BeginCommit \/ GrantSent \/ Forget

PhoneStep(p) == Scan(p) \/ Ready(p) \/ Joined(p) \/ Granted(p)

DeviceStep(d) ==
  \/ Stage(d) \/ SendCommit(d) \/ CommitPending(d) \/ Activated(d) \/ Rejected(d)
  \/ SaveActive(d) \/ Unexpected(d) \/ GiveUp(d) \/ Die(d) \/ Reconcile(d) \/ Reset(d)
  \/ Cut(d) \/ Notice(d)

Next ==
  \/ \E i \in Invocation : RelayStep(i)
  \/ MacStep
  \/ \E p \in Phone : PhoneStep(p)
  \/ \E d \in Device : DeviceStep(d)
  \/ Expire

Spec == Init /\ [][Next]_vars

-----------------------------------------------------------------------------
(***************************************************************************)
(* Properties.                                                             *)
(***************************************************************************)

\* Once the relay has activated the link, both of its devices hold the
\* credentials for it until they are reset: neither has discarded them on a
\* refusal, lost them, or never saved them (resolveCommitFailure and
\* pairingCheckpointDisposition).
ActivatedSidesHoldCredentials ==
  link # "none" => \A d \in {Mac, pair.sideB} : disk[d] \in {"pending", "active", "revoked", "forgotten"}

\* A device that takes its enrolment for active is one of the two the relay
\* activated the link for; a second phone that scanned the code is not.
ActiveMeansActivated ==
  \A d \in Device : disk[d] = "active" => link # "none" /\ pair.status = "ACTIVE" /\ Member(pair, d)

\* A pair never leaves ACTIVE or CLOSED, whatever cancellation, disconnect and
\* second commit are under way, and its joiner never changes.
PairIsDecidedOnce ==
  [][/\ pair.status \in {"ACTIVE", "CLOSED"} => pair'.status = pair.status
     /\ pair.sideB # None => pair'.sideB = pair.sideB]_vars

\* A pairing its user stopped while it awaited approval is never activated,
\* though the approval was already given (stop against beginCommit).
StopDuringApprovalHolds ==
  attempt.stopAt = "awaitingApproval" => disk[Mac] = "none" /\ link = "none"

\* A 401 while the activation is unconfirmed proves that it left no link.
ForgottenLeavesNoLink == disk[Mac] = "forgotten" => link = "none"

\* The disconnect of a side cancels the pair it owns: once it has been handled
\* the pair no longer waits for that side's commit.
DisconnectCancels ==
  \A d \in Device :
    /\ conn[d] = "gone" /\ stored[d] = "absent"
    /\ [op |-> "disconnect", dev |-> d] \notin request
    /\ \A i \in Invocation : At(i, "idle")
    => ~(Member(pair, d) /\ pair.status = "READY")

-----------------------------------------------------------------------------
(***************************************************************************)
(* Refinement: what a device has saved is its stage, the activation of the *)
(* pair the choice of its partner.                                         *)
(***************************************************************************)
StageOf(c) == CASE c = "none" -> "idle" [] c = "pending" -> "prepared"
                [] c = "active" -> "active" [] OTHER -> "out"

Joint == INSTANCE JointActivation WITH
           stage <- [d \in Device |-> StageOf(disk[d])],
           partner <- IF link = "none" THEN None ELSE pair.sideB

\* Pairing is all or nothing: through relay, crashes and lost replies, each
\* device prepares first, the activation finds both prepared, and no device
\* withdraws from an activated link other than by a reset.
ImplementsJointActivation == Joint!Spec

=============================================================================
