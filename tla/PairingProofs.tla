--------------------------- MODULE PairingProofs ---------------------------
(***************************************************************************)
(* Proofs about Pairing, for any number of phones and of concurrent        *)
(* invocations and whatever may go wrong: the inductive invariant, one     *)
(* lemma for each step of the relay and of the devices, and what follows   *)
(* about credentials, stopping and the decision on the pair.               *)
(***************************************************************************)
EXTENDS Pairing, TLAPS, SequenceTheorems

\* What is in a device's inbox.
Posted(d) == {inbox[d][n] : n \in 1 .. Len(inbox[d])}

Commit(d) == [op |-> "commit", dev |-> d]

\* Invocation i handles d's commit, and may still record it.
Handles(i, d) == inv[i].op = "commit" /\ inv[i].dev = d
Open(i, d) == Handles(i, d) /\ inv[i].step \in {"read", "write"}

\* A device that may have sent its commit.
MaySent(d) == phase[d] \in {"waiting", "activated", "ended"}

\* Before the pair is created there is nothing to join, to cancel or to close.
Uncreated == phase[Mac] = "off" \/ stored[Mac] = "free"
CreationInv ==
  /\ phase[Mac] = "off" => stored[Mac] = "absent"
  /\ Uncreated =>
       /\ pair = NoPair
       /\ phase[Mac] \in {"off", "creating", "ended"}
       /\ \A r \in request : r.op # "cancel"
       /\ \A i \in Invocation :
            inv[i].op # "cancel" /\ ~inv[i].known /\ inv[i].out # Reply("ok", "create")
       /\ \A d \in Device : stored[d] # "assigned" /\ Reply("ok", "create") \notin Posted(d)

\* The pair and the link.
PairInv ==
  /\ pair.status \in {"READY", "HALF_COMMITTED", "ACTIVE"} => pair.sideB \in Phone
  /\ pair.status \in {"none", "OPEN", "READY"} => pair.commits = {}
  /\ pair.status = "HALF_COMMITTED" => \E d \in {Mac, pair.sideB} : pair.commits = {d}
  /\ pair.status = "ACTIVE" => pair.commits = {Mac, pair.sideB}
  /\ link # "none" <=> pair.status = "ACTIVE"

\* What an invocation knows stays true: a join has a joiner, an announcement of
\* the activation follows it, and whoever is told that the pair is closed is
\* told the truth.
Cleaning == {"clean", "cleanPair", "cleanWrite"}
Knows(i) ==
  /\ inv[i].step = "idle" => inv[i] = Idle
  /\ inv[i].step # "idle" => inv[i].dev \in Device
  /\ inv[i].step \in {"read", "write"} => inv[i].out.type = "ok"
  /\ inv[i].out.type \in {"ok", "active", "unsure", "refused"} /\ inv[i].out.re \in {None, inv[i].op}
  /\ inv[i].out.type = "active" => link # "none"
  /\ inv[i].then \in {"idle", "drop", "reply", "toPhone"}
  /\ inv[i].then = "toPhone" => inv[i].op = "commit" /\ link # "none"
  /\ inv[i].step \in {"toMac", "toPhone"} =>
       \/ inv[i].op = "join" /\ pair.sideB \in Phone
       \/ inv[i].op = "commit" /\ link # "none"
  /\ inv[i].step = "tellPeer" => pair.status = "CLOSED"
  /\ inv[i].step = "forward" => inv[i].op = "frame" /\ pair.sideB \in Phone
  /\ inv[i].step \in Cleaning => inv[i].tgt \in Device
  /\ inv[i].step = "write" /\ inv[i].op = "commit" => Member(pair, inv[i].dev)
InvocationInv == \A i \in Invocation : Knows(i)

\* A device's one commit is on its way, handled by one invocation, recorded or
\* without effect.
TokenInv ==
  \A d \in Device :
    /\ Commit(d) \in request =>
         MaySent(d) /\ d \notin pair.commits /\ \A i \in Invocation : ~Handles(i, d)
    /\ \A i \in Invocation : Handles(i, d) => MaySent(d)
    /\ \A i \in Invocation : Open(i, d) => d \notin pair.commits
    /\ \A i, j \in Invocation : Handles(i, d) /\ Handles(j, d) => i = j
    /\ d \in pair.commits => MaySent(d)
    /\ \A m \in Posted(d) : m.re = "commit" => MaySent(d)

\* A refused commit was not recorded, and never will be.
RefusalInv ==
  /\ \A i \in Invocation, d \in Device :
       Handles(i, d) /\ inv[i].out.type = "refused" => d \notin pair.commits
  /\ \A d \in Device :
       Reply("refused", "commit") \in Posted(d) =>
         d \notin pair.commits /\ Commit(d) \notin request /\ \A i \in Invocation : ~Open(i, d)

\* What is posted is true.
PostedInv ==
  \A d \in Device :
    /\ Event("completed") \in Posted(d) \/ Reply("active", "commit") \in Posted(d) => link # "none"
    /\ Event("closed") \in Posted(d) => pair.status = "CLOSED"
    /\ Event("ready") \in Posted(d) => d = Mac \/ d = pair.sideB

\* How far a device is tells what it has saved, and a phone that is past joining
\* is the joiner.
DiskInv ==
  \A d \in Device :
    /\ phase[d] \in {"staged", "waiting", "activated"} => disk[d] = "pending"
    /\ phase[d] \notin {"staged", "waiting", "activated", "ended"} => disk[d] = "none"
    /\ phase[d] \notin {"off", "joining", "ended"} \/ disk[d] # "none" => Member(pair, d)
    /\ phase[d] = "activated" \/ disk[d] \in {"active", "revoked"} => link # "none"
    /\ disk[d] = "forgotten" => d = Mac /\ "forget" \in Events

\* A device without credentials has no commit that could count.
CommitInv ==
  \A d \in Device :
    disk[d] \in {"none", "refused"} /\ pair.status # "CLOSED" =>
      d \notin pair.commits /\ Commit(d) \notin request /\ \A i \in Invocation : ~Open(i, d)

\* A stop at the approval lets no commit begin.
StopInv ==
  /\ attempt.shown = "awaitingApproval" => phase[Mac] \in {"awaitingApproval", "approved"}
  /\ attempt.stopAt = "awaitingApproval" =>
       /\ phase[Mac] \in {"awaitingApproval", "approved", "ended"} /\ disk[Mac] = "none"
       /\ attempt.shown \in {"cancelled", "ended"}

IInv ==
  /\ TypeOK /\ CreationInv /\ PairInv /\ InvocationInv /\ TokenInv /\ RefusalInv /\ PostedInv
  /\ DiskInv /\ CommitInv /\ StopInv

StoreTypes ==
  /\ pair \in PairItem /\ expired \in BOOLEAN
  /\ link \in {"none", "active", "revoked"}
  /\ stored \in [Device -> {"absent", "free", "assigned"}]
  /\ conn \in [Device -> {"none", "up", "cut", "gone"}]
InvTypes == inv \in [Invocation -> Running]
RequestTypes == request \subseteq [op: Requests, dev: Device]
InboxTypes == inbox \in [Device -> Seq(Message)]
DeviceTypes ==
  /\ phase \in [Device -> Phases]
  /\ attempt \in Attempt
  /\ disk \in [Device -> Credentials]

Others(i) == \A j \in Invocation \ {i} : inv'[j] = inv[j]

\* Invocation i goes on, or ends.
Moved(i, step, out, then, known) ==
  /\ InvTypes' /\ Others(i)
  /\ inv'[i].op = inv[i].op /\ inv'[i].dev = inv[i].dev
  /\ inv'[i].step = step /\ inv'[i].out = out /\ inv'[i].then = then /\ inv'[i].known = known
  /\ step \in Cleaning =>
       \/ inv'[i].tgt \in Device
       \/ inv[i].step \in Cleaning /\ inv'[i].tgt = inv[i].tgt
Ended(i) == InvTypes' /\ Others(i) /\ inv'[i] = Idle

LEMMA MessageIs ==
  /\ \A m \in Message : m.type \in {"ok", "active", "unsure", "refused", "ready", "frame", "completed", "closed"}
                        /\ m.re \in Requests \cup {None}
  /\ \A t \in {"ok", "active", "unsure", "refused", "ready", "frame", "completed", "closed"},
        o \in Requests \cup {None} : 
       /\ Reply(t, o) \in Message /\ Reply(t, o).type = t /\ Reply(t, o).re = o
  /\ \A t \in {"ok", "active", "unsure", "refused", "ready", "frame", "completed", "closed"} :
       Event(t) \in Message /\ Event(t).type = t /\ Event(t).re = None
  BY DEF Message, Reply, Event

LEMMA RunningIs ==
  \A r \in Running :
    /\ r.op \in Requests \cup {None} /\ r.dev \in Device \cup {None} /\ r.step \in Steps
    /\ r.late \in BOOLEAN /\ r.saw \in PairItem /\ r.out \in Message /\ r.tgt \in Device \cup {None}
    /\ r.ev \in BOOLEAN /\ r.then \in Steps /\ r.known \in BOOLEAN
  BY DEF Running

LEMMA IdleIs ==
  /\ Idle \in Running
  /\ Idle.step = "idle" /\ Idle.op = None /\ Idle.dev = None /\ Idle.out = Event("ok")
  /\ Idle.then = "idle" /\ ~Idle.known
  BY DEF Idle, Running, Steps, Event, Message, PairItem, NoPair, Statuses

LEMMA Update ==
  ASSUME InvTypes, NEW i \in Invocation, NEW r \in Running, inv' = [inv EXCEPT ![i] = r]
  PROVE  InvTypes' /\ Others(i) /\ inv'[i] = r
  BY DEF InvTypes, Others

LEMMA EndIs ==
  ASSUME InvTypes, NEW i \in Invocation, End(i)
  PROVE  Ended(i)
  BY IdleIs, Update DEF End, Ended

LEMMA GoIs ==
  ASSUME InvTypes, NEW i \in Invocation, NEW s \in Steps, Go(i, s),
         s \in Cleaning => inv[i].step \in Cleaning
  PROVE  Moved(i, s, inv[i].out, inv[i].then, inv[i].known)
  <1> DEFINE r == [inv[i] EXCEPT !.step = s]
  <1>1. inv[i] \in Running
    BY DEF InvTypes
  <1>2. /\ r \in Running /\ r.op = inv[i].op /\ r.dev = inv[i].dev /\ r.step = s
        /\ r.out = inv[i].out /\ r.then = inv[i].then /\ r.known = inv[i].known /\ r.tgt = inv[i].tgt
    BY <1>1 DEF Running
  <1>3. inv' = [inv EXCEPT ![i] = r]
    BY DEF Go
  <1> HIDE DEF r
  <1> QED BY <1>2, <1>3, Update DEF Moved, Cleaning

LEMMA AnswerIs ==
  ASSUME InvTypes, NEW i \in Invocation, NEW t \in {"ok", "active", "unsure", "refused"}
  PROVE  /\ Answer(i, t) => Moved(i, "reply", Reply(t, inv[i].op), inv[i].then, inv[i].known)
         /\ Drop(i, t) => Moved(i, "reject", Reply(t, inv[i].op), inv[i].then, inv[i].known)
  <1> DEFINE m == Reply(t, inv[i].op)
  <1>1. inv[i] \in Running /\ m \in Message
    BY RunningIs, MessageIs DEF InvTypes
  <1> HIDE DEF m
  <1>2. ASSUME NEW s \in {"reply", "reject"}, inv' = [inv EXCEPT ![i].step = s, ![i].out = m]
        PROVE  Moved(i, s, m, inv[i].then, inv[i].known)
    <2> DEFINE r == [inv[i] EXCEPT !.step = s, !.out = m]
    <2>1. /\ r \in Running /\ r.op = inv[i].op /\ r.dev = inv[i].dev /\ r.step = s
          /\ r.out = m /\ r.then = inv[i].then /\ r.known = inv[i].known
      BY <1>1 DEF Running, Steps
    <2>2. inv' = [inv EXCEPT ![i] = r]
      BY <1>2
    <2> HIDE DEF r
    <2> QED BY <2>1, <2>2, Update DEF Moved, Cleaning
  <1> QED BY <1>2 DEF Answer, Drop, m

LEMMA CleanUpIs ==
  ASSUME InvTypes, NEW i \in Invocation, NEW d \in Device, NEW ev \in BOOLEAN,
         NEW then \in Steps, CleanUp(i, d, ev, then)
  PROVE  Moved(i, "clean", inv[i].out, then, inv[i].known)
  <1> DEFINE r == [inv[i] EXCEPT !.step = "clean", !.tgt = d, !.ev = ev, !.then = then]
  <1>1. inv[i] \in Running
    BY DEF InvTypes
  <1>2. /\ r \in Running /\ r.op = inv[i].op /\ r.dev = inv[i].dev /\ r.step = "clean"
        /\ r.out = inv[i].out /\ r.then = then /\ r.known = inv[i].known /\ r.tgt \in Device
    BY <1>1 DEF Running, Steps
  <1>3. inv' = [inv EXCEPT ![i] = r]
    BY DEF CleanUp
  <1> HIDE DEF r
  <1> QED BY <1>2, <1>3, Update DEF Moved

LEMMA RereadIs ==
  ASSUME InvTypes, NEW i \in Invocation, pair \in PairItem, inv[i].step = "cleanRead",
         inv' = [inv EXCEPT ![i].saw = pair, ![i].step = "tellPeer"]
  PROVE  Moved(i, "tellPeer", inv[i].out, inv[i].then, inv[i].known)
  <1> DEFINE r == [inv[i] EXCEPT !.saw = pair, !.step = "tellPeer"]
  <1>1. inv[i] \in Running
    BY DEF InvTypes
  <1>2. /\ r \in Running /\ r.op = inv[i].op /\ r.dev = inv[i].dev /\ r.step = "tellPeer"
        /\ r.out = inv[i].out /\ r.then = inv[i].then /\ r.known = inv[i].known /\ r.tgt = inv[i].tgt
    BY <1>1 DEF Running, Steps
  <1>3. inv' = [inv EXCEPT ![i] = r]
    OBVIOUS
  <1> HIDE DEF r
  <1> QED BY <1>2, <1>3, Update DEF Moved, Cleaning

LEMMA ResumeIs ==
  ASSUME InvTypes, NEW i \in Invocation, Resume(i), inv[i].then \notin Cleaning
  PROVE  \/ Ended(i)
         \/ inv[i].then # "idle" /\ Moved(i, inv[i].then, inv[i].out, inv[i].then, inv[i].known)
  <1>1. inv[i].then \in Steps
    BY RunningIs DEF InvTypes
  <1> QED BY <1>1, EndIs, GoIs DEF Resume

LEMMA OfflineIs ==
  ASSUME InvTypes, NEW i \in Invocation, NEW d \in Device, NEW ev \in BOOLEAN,
         Offline(i, d, ev)
  PROVE  Moved(i, "clean", Reply("unsure", "join"), "reply", inv[i].known)
  <1> DEFINE m == Reply("unsure", "join")
             r == [inv[i] EXCEPT !.step = "clean", !.tgt = d, !.ev = ev, !.then = "reply", !.out = m]
  <1>1. inv[i] \in Running /\ m \in Message
    BY MessageIs DEF InvTypes, Requests
  <1>2. inv' = [inv EXCEPT ![i] = r]
    BY DEF Offline
  <1> HIDE DEF m
  <1>3. /\ r \in Running /\ r.op = inv[i].op /\ r.dev = inv[i].dev /\ r.step = "clean"
        /\ r.out = m /\ r.then = "reply" /\ r.known = inv[i].known /\ r.tgt \in Device
    BY <1>1 DEF Running, Steps
  <1> HIDE DEF r
  <1> QED BY <1>2, <1>3, Update DEF Moved, m

\* Message m reaches d's inbox, or nothing does.
PostedTo(d, m) ==
  /\ InboxTypes'
  /\ \A x \in Device : Posted(x)' \subseteq Posted(x) \cup (IF x = d THEN {m} ELSE {})

LEMMA DeliverIs ==
  ASSUME InboxTypes, NEW d \in Device \cup {None}, NEW m \in Message, Deliver(d, m)
  PROVE  PostedTo(d, m)
  <1>1. CASE inbox' = inbox
    BY <1>1 DEF PostedTo, Posted, InboxTypes
  <1>2. CASE d \in Device /\ inbox' = [inbox EXCEPT ![d] = Append(@, m)]
    <2>1. inbox[d] \in Seq(Message) /\ Append(inbox[d], m) \in Seq(Message)
      BY <1>2 DEF InboxTypes
    <2>2. InboxTypes'
      BY <1>2, <2>1 DEF InboxTypes
    <2>3. \A x \in Device \ {d} : Posted(x)' = Posted(x)
      BY <1>2 DEF Posted, InboxTypes
    <2>4. inbox'[d] = Append(inbox[d], m)
      BY <1>2 DEF InboxTypes
    <2>5. Posted(d)' \subseteq Posted(d) \cup {m}
      BY <2>1, <2>4 DEF Posted
    <2> QED BY <2>2, <2>3, <2>5 DEF PostedTo
  <1>3. CASE d = None /\ inbox' = [inbox EXCEPT ![d] = Append(@, m)]
    <2>1. inbox' = inbox
      BY <1>3, PairingAssumption DEF InboxTypes
    <2> QED BY <2>1, <1>1
  <1> QED BY <1>1, <1>2, <1>3 DEF Deliver

LEMMA TookIs ==
  ASSUME InboxTypes, NEW d \in Device, inbox[d] # <<>>, Took(d)
  PROVE  /\ InboxTypes' /\ Head(inbox[d]) \in Posted(d) /\ Head(inbox[d]) \in Message
         /\ \A x \in Device : Posted(x)' \subseteq Posted(x)
  <1>1. inbox[d] \in Seq(Message) /\ Tail(inbox[d]) \in Seq(Message) /\ Len(inbox[d]) > 0
    BY DEF InboxTypes
  <1>2. inbox'[d] = Tail(inbox[d]) /\ InboxTypes'
    BY <1>1 DEF InboxTypes, Took
  <1>3. \A x \in Device \ {d} : Posted(x)' = Posted(x)
    BY DEF Posted, InboxTypes, Took
  <1>4. Posted(d)' \subseteq Posted(d)
    BY <1>1, <1>2 DEF Posted
  <1>5. Head(inbox[d]) \in Posted(d) /\ Head(inbox[d]) \in Message
    BY <1>1 DEF Posted
  <1> QED BY <1>2, <1>3, <1>4, <1>5

LEMMA NotifyIs ==
  ASSUME InvTypes, InboxTypes, NEW i \in Invocation, NEW d \in Device, NEW m \in Message,
         NEW ev \in BOOLEAN, NEW next \in Steps \ Cleaning, NEW undelivered \in Steps,
         Notify(i, d, m, ev, next, undelivered)
  PROVE  /\ PostedTo(d, m)
         /\ \/ Moved(i, "clean", inv[i].out, undelivered, inv[i].known)
            \/ next = "idle" /\ Ended(i)
            \/ next # "idle" /\ Moved(i, next, inv[i].out, inv[i].then, inv[i].known)
  <1>1. CASE CleanUp(i, d, ev, undelivered) /\ UNCHANGED inbox
    BY <1>1, CleanUpIs DEF PostedTo, Posted, InboxTypes
  <1>2. CASE next = "idle" /\ Deliver(d, m) /\ End(i)
    BY <1>2, DeliverIs, EndIs
  <1>3. CASE Deliver(d, m) /\ next # "idle" /\ Go(i, next)
    BY <1>3, DeliverIs, GoIs
  <1> QED BY <1>1, <1>2, <1>3 DEF Notify

-----------------------------------------------------------------------------
\* What each step of an invocation does to it.
LEMMA ReceiveIs ==
  ASSUME InvTypes, RequestTypes, StoreTypes, NEW i \in Invocation, Receive(i)
  PROVE  \E r \in request :
           /\ request' = request \ {r} /\ At(i, "idle") /\ InvTypes' /\ Others(i)
           /\ inv'[i].op = r.op /\ inv'[i].dev = r.dev /\ r.op \in Requests /\ r.dev \in Device
           /\ inv'[i].then = "idle" /\ ~inv'[i].known
           /\ (inv'[i].step = "clean" => inv'[i].tgt \in Device)
           /\ \/ inv'[i].step \in {"clean", "read"} /\ inv'[i].out = Event("ok")
              \/ inv'[i].step = "write" /\ r.op = "create" /\ inv'[i].out = Event("ok")
              \/ inv'[i].step = "reject" /\ inv'[i].out = Reply("refused", r.op)
  <1>1. PICK r \in request :
          /\ request' = request \ {r}
          /\ inv' = [inv EXCEPT ![i] =
               LET start == [Idle EXCEPT !.op = r.op, !.dev = r.dev, !.late = expired]
               IN IF r.op = "disconnect"
                  THEN [start EXCEPT !.step = "clean", !.tgt = r.dev, !.ev = TRUE]
                  ELSE IF r.op # "frame" /\ stored[r.dev] = "absent"
                  THEN [start EXCEPT !.step = "reject", !.out = Reply("refused", r.op)]
                  ELSE [start EXCEPT !.step = IF r.op = "create" THEN "write" ELSE "read"]]
    BY DEF Receive
  <1>2. r.op \in Requests /\ r.dev \in Device
    BY DEF RequestTypes
  <1> DEFINE start == [Idle EXCEPT !.op = r.op, !.dev = r.dev, !.late = expired]
             a == [start EXCEPT !.step = "clean", !.tgt = r.dev, !.ev = TRUE]
             b == [start EXCEPT !.step = "reject", !.out = Reply("refused", r.op)]
             s == IF r.op = "create" THEN "write" ELSE "read"
             c == [start EXCEPT !.step = s]
  <1>3. /\ start \in Running /\ start.op = r.op /\ start.dev = r.dev /\ start.then = "idle"
        /\ ~start.known /\ start.out = Event("ok")
    BY <1>2, IdleIs DEF Running, StoreTypes, Idle
  <1>4. inv' = [inv EXCEPT ![i] = a] \/ inv' = [inv EXCEPT ![i] = b] \/ inv' = [inv EXCEPT ![i] = c]
    BY <1>1
  <1> HIDE DEF start
  <1>5. /\ a \in Running /\ a.op = r.op /\ a.dev = r.dev /\ a.then = "idle"
        /\ ~a.known /\ a.out = Event("ok") /\ a.step = "clean" /\ a.tgt \in Device
    BY <1>2, <1>3 DEF Running, Steps
  <1>6. /\ b \in Running /\ b.op = r.op /\ b.dev = r.dev /\ b.then = "idle"
        /\ ~b.known /\ b.out = Reply("refused", r.op) /\ b.step = "reject"
    <2>1. Reply("refused", r.op) \in Message
      BY <1>2, MessageIs
    <2> QED BY <1>3, <2>1 DEF Running, Steps
  <1>7. /\ c \in Running /\ c.op = r.op /\ c.dev = r.dev /\ c.then = "idle"
        /\ ~c.known /\ c.out = Event("ok")
        /\ c.step = "read" \/ (c.step = "write" /\ r.op = "create")
    <2>1. s = "read" \/ (s = "write" /\ r.op = "create")
      OBVIOUS
    <2> HIDE DEF s
    <2> QED BY <1>3, <2>1 DEF Running, Steps
  <1> HIDE DEF a, b, c
  <1>8. InvTypes' /\ Others(i) /\ inv'[i] \in {a, b, c}
    BY <1>4, <1>5, <1>6, <1>7, Update
  <1>9. At(i, "idle")
    BY DEF Receive
  <1> QED BY <1>1, <1>2, <1>5, <1>6, <1>7, <1>8, <1>9

LEMMA FrameForwardsIs ==
  ASSUME InvTypes, InboxTypes, NEW i \in Invocation, FrameForwards(i),
         pair.sideB \in Phone
  PROVE  /\ PostedTo(Peer(pair, inv[i].dev), Event("frame"))
         /\ \/ Ended(i)
            \/ Moved(i, "clean", Reply("unsure", "frame"), "reply", inv[i].known)
  <1> DEFINE peer == Peer(pair, inv[i].dev)
             m == Reply("unsure", "frame")
             r == [inv[i] EXCEPT !.step = "clean", !.tgt = peer, !.ev = FALSE, !.then = "reply", !.out = m]
  <1>1. inv[i] \in Running /\ m \in Message /\ peer \in Device
    BY MessageIs DEF InvTypes, Requests, Peer, Device
  <1>2. \/ inv' = [inv EXCEPT ![i] = r] /\ UNCHANGED inbox
        \/ Deliver(peer, Event("frame")) /\ End(i)
    BY DEF FrameForwards
  <1> HIDE DEF m, peer
  <1>3. CASE inv' = [inv EXCEPT ![i] = r] /\ UNCHANGED inbox
    <2>1. /\ r \in Running /\ r.op = inv[i].op /\ r.dev = inv[i].dev /\ r.step = "clean"
          /\ r.out = m /\ r.then = "reply" /\ r.known = inv[i].known /\ r.tgt \in Device
      BY <1>1 DEF Running, Steps
    <2> HIDE DEF r
    <2>2. Moved(i, "clean", m, "reply", inv[i].known)
      BY <1>3, <2>1, Update DEF Moved
    <2> QED BY <1>3, <2>2 DEF PostedTo, Posted, InboxTypes, m, peer
  <1>4. CASE Deliver(peer, Event("frame")) /\ End(i)
    <2>1. PostedTo(peer, Event("frame")) /\ Ended(i)
      BY <1>1, <1>4, DeliverIs, EndIs, MessageIs
    <2> QED BY <2>1 DEF peer
  <1> QED BY <1>2, <1>3, <1>4

LEMMA CommitReadsIs ==
  ASSUME InvTypes, StoreTypes, NEW i \in Invocation, CommitReads(i)
  PROVE  \/ Moved(i, "reply", Reply("refused", inv[i].op), inv[i].then, inv[i].known)
         \/ /\ Member(pair, inv[i].dev)
            /\ Moved(i, "write", inv[i].out, inv[i].then, inv[i].known)
  <1> DEFINE r == [inv[i] EXCEPT !.step = "write", !.saw = pair]
  <1>1. inv[i] \in Running
    BY DEF InvTypes
  <1>2. /\ r \in Running /\ r.op = inv[i].op /\ r.dev = inv[i].dev /\ r.step = "write"
        /\ r.out = inv[i].out /\ r.then = inv[i].then /\ r.known = inv[i].known
    BY <1>1 DEF Running, Steps, StoreTypes
  <1>3. \/ Answer(i, "refused")
        \/ Member(pair, inv[i].dev) /\ inv' = [inv EXCEPT ![i] = r]
    BY DEF CommitReads
  <1> HIDE DEF r
  <1> QED BY <1>2, <1>3, AnswerIs, Update DEF Moved, Cleaning

LEMMA ActivateIs ==
  ASSUME InvTypes, NEW i \in Invocation, Activate(i)
  PROVE  \/ Moved(i, "reply", Reply("unsure", inv[i].op), inv[i].then, inv[i].known) /\ UNCHANGED <<pair, link>>
         \/ /\ ActivationHolds(i)
            /\ pair' = [pair EXCEPT !.status = "ACTIVE", !.commits = @ \cup {inv[i].dev}]
            /\ link' = "active"
            /\ Moved(i, "toMac", Reply("active", "commit"), inv[i].then, inv[i].known)
  <1> DEFINE m == Reply("active", "commit")
             r == [inv[i] EXCEPT !.step = "toMac", !.out = m]
  <1>1. inv[i] \in Running /\ m \in Message
    BY MessageIs DEF InvTypes, Requests
  <1>2. \/ Answer(i, "unsure") /\ UNCHANGED <<pair, link>>
        \/ /\ ActivationHolds(i)
           /\ pair' = [pair EXCEPT !.status = "ACTIVE", !.commits = @ \cup {inv[i].dev}]
           /\ link' = "active"
           /\ inv' = [inv EXCEPT ![i] = r]
    BY DEF Activate
  <1> HIDE DEF m
  <1>3. /\ r \in Running /\ r.op = inv[i].op /\ r.dev = inv[i].dev /\ r.step = "toMac"
        /\ r.out = m /\ r.then = inv[i].then /\ r.known = inv[i].known
    BY <1>1 DEF Running, Steps
  <1> HIDE DEF r
  <1>4. CASE Answer(i, "unsure") /\ UNCHANGED <<pair, link>>
    BY <1>4, AnswerIs
  <1>5. CASE /\ ActivationHolds(i)
             /\ pair' = [pair EXCEPT !.status = "ACTIVE", !.commits = @ \cup {inv[i].dev}]
             /\ link' = "active"
             /\ inv' = [inv EXCEPT ![i] = r]
    <2>1. Moved(i, "toMac", m, inv[i].then, inv[i].known)
      BY <1>3, <1>5, Update DEF Moved, Cleaning
    <2> QED BY <1>5, <2>1 DEF m
  <1> QED BY <1>2, <1>4, <1>5

LEMMA TellPhoneIs ==
  ASSUME InvTypes, InboxTypes, NEW i \in Invocation, TellPhone(i),
         pair.sideB \in Phone
  PROVE  /\ PostedTo(pair.sideB, Announcement(i))
         /\ \/ inv[i].op = "join" /\ Moved(i, "reply", Reply("ok", "join"), inv[i].then, inv[i].known)
            \/ inv[i].op # "join" /\ Moved(i, "reply", inv[i].out, inv[i].then, inv[i].known)
            \/ inv[i].op = "join" /\ Moved(i, "clean", Reply("unsure", "join"), "reply", inv[i].known)
            \/ inv[i].op # "join" /\ Moved(i, "clean", inv[i].out, "reply", inv[i].known)
  <1> DEFINE p == pair.sideB
             m == IF inv[i].op = "join" THEN Reply("ok", "join") ELSE inv[i].out
             r == [inv[i] EXCEPT !.step = "reply", !.out = m]
  <1>1. inv[i] \in Running /\ m \in Message /\ p \in Device /\ Announcement(i) \in Message
    BY MessageIs, RunningIs DEF InvTypes, Requests, Device, Announcement
  <1>2. \/ Deliver(p, Announcement(i)) /\ inv' = [inv EXCEPT ![i] = r]
        \/ UNCHANGED inbox /\ inv[i].op = "join" /\ Offline(i, p, TRUE)
        \/ UNCHANGED inbox /\ inv[i].op # "join" /\ CleanUp(i, p, FALSE, "reply")
    BY <1>1 DEF TellPhone, InvTypes
  <1>3. CASE Deliver(p, Announcement(i)) /\ inv' = [inv EXCEPT ![i] = r]
    <2> HIDE DEF m, p
    <2>1. /\ r \in Running /\ r.op = inv[i].op /\ r.dev = inv[i].dev /\ r.step = "reply"
          /\ r.out = m /\ r.then = inv[i].then /\ r.known = inv[i].known
      BY <1>1 DEF Running, Steps
    <2> HIDE DEF r
    <2>2. Moved(i, "reply", m, inv[i].then, inv[i].known) /\ PostedTo(p, Announcement(i))
      BY <1>1, <1>3, <2>1, Update, DeliverIs DEF Moved, Cleaning
    <2> QED BY <2>2 DEF m, p
  <1>4. CASE UNCHANGED inbox /\ inv[i].op = "join" /\ Offline(i, p, TRUE)
    BY <1>1, <1>4, OfflineIs DEF PostedTo, Posted, InboxTypes
  <1>5. CASE UNCHANGED inbox /\ inv[i].op # "join" /\ CleanUp(i, p, FALSE, "reply")
    BY <1>1, <1>5, CleanUpIs DEF PostedTo, Posted, InboxTypes, Steps
  <1> QED BY <1>2, <1>3, <1>4, <1>5

LEMMA CancelReadsIs ==
  ASSUME InvTypes, StoreTypes, NEW i \in Invocation, CancelReads(i)
  PROVE  \/ \E t \in {"ok", "refused"} : Moved(i, "reply", Reply(t, inv[i].op), inv[i].then, inv[i].known)
         \/ pair.status = "CLOSED" /\ Moved(i, "tellPeer", Reply("ok", "cancel"), "reply", inv[i].known)
         \/ Moved(i, "write", Reply("ok", "cancel"), "reply", inv[i].known)
  <1> DEFINE m == Reply("ok", "cancel")
             s == IF pair.status = "CLOSED" THEN "tellPeer" ELSE "write"
             r == [inv[i] EXCEPT !.tgt = inv[i].dev, !.saw = pair, !.step = s,
                                 !.ev = TRUE, !.then = "reply", !.out = m]
  <1>1. inv[i] \in Running /\ m \in Message /\ s \in Steps \ Cleaning /\ inv[i].dev \in Device \cup {None}
    BY MessageIs, RunningIs DEF InvTypes, Requests, Steps, Cleaning
  <1>2. Answer(i, "ok") \/ Answer(i, "refused") \/ inv' = [inv EXCEPT ![i] = r]
    BY DEF CancelReads
  <1> HIDE DEF m, s
  <1>3. /\ r \in Running /\ r.op = inv[i].op /\ r.dev = inv[i].dev /\ r.step = s
        /\ r.out = m /\ r.then = "reply" /\ r.known = inv[i].known
    BY <1>1 DEF Running, StoreTypes, Steps
  <1> HIDE DEF r
  <1>4. CASE inv' = [inv EXCEPT ![i] = r]
    <2>1. Moved(i, s, m, "reply", inv[i].known)
      BY <1>1, <1>3, <1>4, Update DEF Moved
    <2> QED BY <2>1 DEF m, s
  <1>5. CASE Answer(i, "ok") \/ Answer(i, "refused")
    BY <1>5, AnswerIs
  <1> QED BY <1>2, <1>4, <1>5

LEMMA CleanReadsIs ==
  ASSUME InvTypes, StoreTypes, NEW i \in Invocation, inv[i].then \notin Cleaning
  PROVE  /\ CleanReadsPair(i) => Moved(i, "cleanWrite", inv[i].out, inv[i].then, inv[i].known)
         /\ CleanReadsConnection(i) =>
              \/ Ended(i)
              \/ inv[i].then # "idle" /\ Moved(i, inv[i].then, inv[i].out, inv[i].then, inv[i].known)
              \/ \E s \in {"cleanPair", "cleanWrite"}, known \in BOOLEAN :
                   /\ known => stored[inv[i].tgt] = "assigned"
                   /\ Moved(i, s, inv[i].out, inv[i].then, known)
  <1>1. inv[i] \in Running
    BY DEF InvTypes
  <1>2. CASE CleanReadsPair(i)
    <2> DEFINE r == [inv[i] EXCEPT !.saw = pair, !.step = "cleanWrite"]
    <2>1. /\ r \in Running /\ r.op = inv[i].op /\ r.dev = inv[i].dev /\ r.step = "cleanWrite"
          /\ r.out = inv[i].out /\ r.then = inv[i].then /\ r.known = inv[i].known /\ r.tgt = inv[i].tgt
      BY <1>1 DEF Running, Steps, StoreTypes
    <2>2. inv' = [inv EXCEPT ![i] = r]
      BY <1>2 DEF CleanReadsPair
    <2> HIDE DEF r
    <2>3. Moved(i, "cleanWrite", inv[i].out, inv[i].then, inv[i].known)
      BY <1>2, <2>1, <2>2, Update DEF Moved, Cleaning, CleanReadsPair, At
    <2> QED BY <1>2, <2>3 DEF CleanReadsPair, CleanReadsConnection, At
  <1>3. CASE CleanReadsConnection(i)
    <2> DEFINE known == stored[inv[i].tgt] = "assigned"
               s == IF known THEN "cleanPair" ELSE "cleanWrite"
               r == [inv[i] EXCEPT !.known = known, !.step = s]
    <2>1. known \in BOOLEAN /\ s \in {"cleanPair", "cleanWrite"}
      OBVIOUS
    <2>2. Resume(i) \/ inv' = [inv EXCEPT ![i] = r]
      BY <1>3 DEF CleanReadsConnection
    <2>3. CASE inv' = [inv EXCEPT ![i] = r]
      <3> HIDE DEF known, s
      <3>1. /\ r \in Running /\ r.op = inv[i].op /\ r.dev = inv[i].dev /\ r.step = s
            /\ r.out = inv[i].out /\ r.then = inv[i].then /\ r.known = known /\ r.tgt = inv[i].tgt
        BY <1>1, <2>1 DEF Running, Steps
      <3> HIDE DEF r
      <3>2. Moved(i, s, inv[i].out, inv[i].then, known)
        BY <1>3, <2>3, <3>1, Update DEF Moved, Cleaning, CleanReadsConnection, At
      <3>3. known => stored[inv[i].tgt] = "assigned"
        BY DEF known
      <3> QED BY <1>3, <2>1, <3>2, <3>3 DEF CleanReadsPair, CleanReadsConnection, At
    <2>4. CASE Resume(i)
      BY <1>3, <2>4, ResumeIs DEF CleanReadsPair, CleanReadsConnection, At
    <2> QED BY <2>2, <2>3, <2>4
  <1> QED BY <1>2, <1>3

-----------------------------------------------------------------------------
\* What a step of invocation i may tell device d.
Truth(i, d, m) ==
  /\ m.re = "commit" => Handles(i, d)
  /\ m = Reply("refused", "commit") => inv[i].out.type = "refused"
  /\ m \in {Event("completed"), Reply("active", "commit")} => link # "none"
  /\ m = Event("closed") => pair.status = "CLOSED"
  /\ m = Event("ready") => d = Mac \/ d = pair.sideB
  /\ m = Reply("ok", "create") => ~Uncreated
Told(i) ==
  /\ InboxTypes'
  /\ \A d \in Device : \A m \in Posted(d)' : m \in Posted(d) \/ Truth(i, d, m)

\* It goes on with its call, and knows what it should.
Continues(i) ==
  /\ InvTypes' /\ Others(i) /\ inv[i].step # "idle"
  /\ \/ inv'[i] = Idle
     \/ inv'[i].op = inv[i].op /\ inv'[i].dev = inv[i].dev
  /\ inv'[i].step \in {"read", "write"} => inv[i].step \in {"read", "write"}
  /\ inv'[i].out.type = "refused" => inv[i].out.type = "refused" \/ inv[i].step \in {"read", "write"}
  /\ Knows(i)'

\* The store only moves forward.
Advance ==
  /\ pair.status \in {"ACTIVE", "CLOSED"} => pair'.status = pair.status
  /\ pair.sideB # None => pair'.sideB = pair.sideB
  /\ link # "none" => link' # "none"
Records(i) ==
  \/ pair'.commits = pair.commits
  \/ /\ inv[i].op = "commit" /\ inv[i].step = "write"
     /\ pair'.commits = pair.commits \cup {inv[i].dev}
     /\ inv'[i].step # "write" /\ inv'[i].step # "read" /\ inv'[i].out.type # "refused" /\ UNCHANGED inbox
Stores(i) ==
  /\ StoreTypes' /\ Advance /\ Records(i)
  /\ UNCHANGED <<phase, attempt, disk>>
  /\ \A r \in request' : r \in request \/ \E d \in Device : r = [op |-> "disconnect", dev |-> d]

LEMMA Typed ==
  IInv <=> /\ StoreTypes /\ InvTypes /\ RequestTypes /\ InboxTypes /\ DeviceTypes
           /\ CreationInv /\ PairInv /\ InvocationInv /\ TokenInv /\ RefusalInv /\ PostedInv
           /\ DiskInv /\ CommitInv /\ StopInv
  BY DEF IInv, TypeOK, StoreTypes, InvTypes, RequestTypes, InboxTypes, DeviceTypes

LEMMA RelayKeeps ==
  ASSUME IInv, NEW i \in Invocation, Continues(i), Told(i), Stores(i), PairInv', CreationInv'
  PROVE  IInv'
  <1> USE Typed
  <1>1. StoreTypes' /\ InvTypes' /\ InboxTypes' /\ DeviceTypes'
    BY DEF Continues, Told, Stores, DeviceTypes
  <1>2. RequestTypes'
    <2>1. \A r \in request' : r \in [op: Requests, dev: Device]
      BY DEF Stores, RequestTypes, Requests
    <2> QED BY <2>1 DEF RequestTypes
  <1>3. InvocationInv'
    <2>1. ASSUME NEW j \in Invocation, j # i PROVE Knows(j)'
      BY <2>1, PairingAssumption DEF InvocationInv, Knows, Continues, Others, Stores, Advance, Member,
            PairInv, Device
    <2> QED BY <2>1 DEF InvocationInv, Continues
  <1>4. \A j \in Invocation, d \in Device :
          /\ Handles(j, d)' => Handles(j, d)
          /\ Open(j, d)' => Open(j, d)
    BY IdleIs, PairingAssumption DEF Continues, Others, Handles, Open
  <1>5. \A d \in Device : d \in pair'.commits =>
          d \in pair.commits \/ (Open(i, d) /\ ~Open(i, d)' /\ UNCHANGED inbox /\ inv'[i].out.type # "refused")
    BY DEF Stores, Records, Open, Handles
  <1>6. \A d \in Device : Commit(d) \in request' => Commit(d) \in request
    BY DEF Stores, Commit
  <1>7. TokenInv'
    <2> SUFFICES ASSUME NEW d \in Device
        PROVE  (/\ Commit(d) \in request =>
                     MaySent(d) /\ d \notin pair.commits /\ \A j \in Invocation : ~Handles(j, d)
                /\ \A j \in Invocation : Handles(j, d) => MaySent(d)
                /\ \A j \in Invocation : Open(j, d) => d \notin pair.commits
                /\ \A j, k \in Invocation : Handles(j, d) /\ Handles(k, d) => j = k
                /\ d \in pair.commits => MaySent(d)
                /\ \A m \in Posted(d) : m.re = "commit" => MaySent(d))'
      BY DEF TokenInv
    <2>1. MaySent(d)' <=> MaySent(d)
      BY DEF Stores, MaySent
    <2>2. \A j \in Invocation : Open(j, d) => Handles(j, d)
      BY DEF Open
    <2>3. (Commit(d) \in request =>
             MaySent(d) /\ d \notin pair.commits /\ \A j \in Invocation : ~Handles(j, d))'
      BY <1>4, <1>5, <1>6, <2>1, <2>2 DEF TokenInv
    <2>4. (\A j \in Invocation : Handles(j, d) => MaySent(d))'
      BY <1>4, <2>1 DEF TokenInv
    <2>5. (\A j \in Invocation : Open(j, d) => d \notin pair.commits)'
      BY <1>4, <1>5, <2>2 DEF TokenInv
    <2>6. (\A j, k \in Invocation : Handles(j, d) /\ Handles(k, d) => j = k)'
      BY <1>4 DEF TokenInv
    <2>7. (d \in pair.commits => MaySent(d))'
      BY <1>5, <2>1, <2>2 DEF TokenInv
    <2>8. (\A m \in Posted(d) : m.re = "commit" => MaySent(d))'
      BY <2>1 DEF TokenInv, Told, Truth
    <2> QED BY <2>3, <2>4, <2>5, <2>6, <2>7, <2>8
  <1>8. RefusalInv'
    <2>1. ASSUME NEW j \in Invocation, NEW d \in Device, Handles(j, d)', inv'[j].out.type = "refused"
          PROVE  d \notin pair'.commits
      <3>1. Handles(j, d)
        BY <1>4, <2>1
      <3>2. inv[j].out.type = "refused" \/ Open(j, d)
        BY <2>1, <3>1 DEF Continues, Others, Open
      <3>3. d \notin pair.commits
        BY <3>1, <3>2 DEF RefusalInv, TokenInv
      <3>4. Open(i, d) => i = j
        BY <3>1 DEF TokenInv, Open
      <3> QED BY <1>5, <2>1, <3>3, <3>4
    <2>2. ASSUME NEW d \in Device, Reply("refused", "commit") \in Posted(d)'
          PROVE  d \notin pair'.commits /\ Commit(d) \notin request' /\ \A j \in Invocation : ~Open(j, d)'
      <3>1. CASE Reply("refused", "commit") \in Posted(d)
        BY <1>4, <1>5, <1>6, <3>1 DEF RefusalInv
      <3>2. CASE Reply("refused", "commit") \notin Posted(d)
        <4>1. Truth(i, d, Reply("refused", "commit")) /\ inbox' # inbox
          BY <2>2, <3>2 DEF Told, Posted
        <4>2. Handles(i, d) /\ inv[i].out.type = "refused"
          BY <4>1 DEF Truth, Reply
        <4>3. d \notin pair.commits /\ Commit(d) \notin request
          BY <4>2 DEF RefusalInv, TokenInv
        <4>4. ASSUME NEW j \in Invocation PROVE ~Open(j, d)
          BY <4>2 DEF TokenInv, Open, InvocationInv, Knows
        <4> QED BY <1>4, <1>5, <1>6, <4>1, <4>3, <4>4
      <3> QED BY <3>1, <3>2
    <2> QED BY <2>1, <2>2 DEF RefusalInv
  <1>9. PostedInv'
    BY PairingAssumption DEF PostedInv, Told, Truth, Stores, Advance, Device
  <1>10. DiskInv'
    BY PairingAssumption DEF DiskInv, Stores, Advance, Member, Device
  <1>11. CommitInv'
    BY <1>4, <1>5, <1>6 DEF CommitInv, Stores, Advance
  <1>12. StopInv'
    BY DEF StopInv, Stores
  <1> QED BY <1>1, <1>2, <1>3, <1>7, <1>8, <1>9, <1>10, <1>11, <1>12
          DEF IInv, TypeOK, StoreTypes, InvTypes, RequestTypes, InboxTypes, DeviceTypes

LEMMA EndedContinues ==
  ASSUME IInv, NEW i \in Invocation, inv[i].step # "idle", Ended(i)
  PROVE  Continues(i)
  BY IdleIs, MessageIs, NoneAssumption DEF Continues, Ended, Knows, Cleaning

\* A step to an answer or a clean-up.
Plain == {"reply", "reject", "drop", "forward", "clean", "cleanPair", "cleanWrite", "cleanRead"}
LEMMA PlainContinues ==
  ASSUME IInv, NEW i \in Invocation, inv[i].step # "idle", Advance,
         NEW step \in Plain, NEW out, NEW then, NEW known, Moved(i, step, out, then, known),
         step = "forward" => inv[i].op = "frame" /\ pair'.sideB \in Phone,
         \/ out = inv[i].out
         \/ \E t \in {"ok", "unsure", "refused"} :
              /\ out = Reply(t, inv[i].op)
              /\ t = "refused" => inv[i].step \in {"read", "write"},
         \/ then \in {inv[i].then, "idle", "drop", "reply"}
         \/ then = "toPhone" /\ inv[i].op = "commit" /\ link # "none"
  PROVE  Continues(i)
  <1>1. Knows(i) /\ inv[i] \in Running
    BY Typed DEF InvocationInv, InvTypes
  <1>2. \/ out = inv[i].out
        \/ /\ out.re = inv[i].op /\ out.type \in {"ok", "unsure", "refused"}
           /\ out.type = "refused" => inv[i].step \in {"read", "write"}
    BY <1>1, MessageIs, RunningIs
  <1>3. /\ out.type \in {"ok", "active", "unsure", "refused"} /\ out.re \in {None, inv[i].op}
        /\ out.type = "active" => link' # "none"
        /\ out.type = "refused" => inv[i].out.type = "refused" \/ inv[i].step \in {"read", "write"}
    BY <1>1, <1>2 DEF Knows, Advance
  <1>4. /\ then \in {"idle", "drop", "reply", "toPhone"}
        /\ then = "toPhone" => inv[i].op = "commit" /\ link' # "none"
    BY <1>1 DEF Knows, Advance
  <1>5. Knows(i)'
    BY <1>1, <1>3, <1>4 DEF Knows, Moved, Plain
  <1> QED BY <1>3, <1>5 DEF Continues, Moved, Plain

\* A step to another part of the call.
LEMMA OtherContinues ==
  ASSUME IInv, NEW i \in Invocation, inv[i].step # "idle", Advance,
         NEW step \in {"write", "toMac", "toPhone", "tellPeer"}, NEW out, NEW then, NEW known,
         Moved(i, step, out, then, known),
         \/ out = inv[i].out
         \/ \E r \in {"ok", "active"} : out = Reply(r, inv[i].op) /\ (r = "active" => link' # "none"),
         then \in {inv[i].then, "reply"},
         step = "write" => /\ inv[i].step = "read" /\ (out = inv[i].out \/ out = Reply("ok", inv[i].op))
                           /\ inv[i].op = "commit" => Member(pair', inv[i].dev),
         step \in {"toMac", "toPhone"} => \/ inv[i].op = "join" /\ pair'.sideB \in Phone
                                          \/ inv[i].op = "commit" /\ link' # "none",
         step = "tellPeer" => pair'.status = "CLOSED"
  PROVE  Continues(i)
  <1>1. Knows(i) /\ inv[i] \in Running
    BY Typed DEF InvocationInv, InvTypes
  <1>2. /\ \/ out = inv[i].out
           \/ /\ out.re = inv[i].op /\ out.type \in {"ok", "active"}
              /\ out.type = "active" => link' # "none"
        /\ step = "write" => out.type = "ok"
    <2>1. CASE out = inv[i].out
      BY <1>1, <2>1 DEF Knows
    <2>2. ASSUME NEW r \in {"ok", "active"}, out = Reply(r, inv[i].op), r = "active" => link' # "none",
                 step = "write" => out = inv[i].out \/ out = Reply("ok", inv[i].op)
          PROVE  /\ out.re = inv[i].op /\ out.type = r
                 /\ step = "write" => out.type = "ok"
      BY <1>1, <2>2, MessageIs, RunningIs DEF Knows
    <2> QED BY <2>1, <2>2
  <1>3. /\ out.type \in {"ok", "active", "unsure", "refused"} /\ out.re \in {None, inv[i].op}
        /\ out.type = "active" => link' # "none"
        /\ out.type = "refused" => inv[i].out.type = "refused"
    BY <1>1, <1>2 DEF Knows, Advance
  <1>4. /\ then \in {"idle", "drop", "reply", "toPhone"}
        /\ then = "toPhone" => inv[i].op = "commit" /\ link' # "none"
    BY <1>1 DEF Knows, Advance
  <1>5. Knows(i)'
    BY <1>1, <1>2, <1>3, <1>4 DEF Knows, Moved, Cleaning
  <1> QED BY <1>3, <1>5 DEF Continues, Moved

LEMMA ResumeContinues ==
  ASSUME IInv, NEW i \in Invocation, inv[i].step # "idle", Advance,
         \/ Ended(i)
         \/ inv[i].then # "idle" /\ Moved(i, inv[i].then, inv[i].out, inv[i].then, inv[i].known)
  PROVE  Continues(i)
  <1>1. Knows(i)
    BY Typed DEF InvocationInv
  <1>2. CASE Ended(i)
    BY <1>2, EndedContinues
  <1>3. CASE inv[i].then \in {"drop", "reply"} /\ Moved(i, inv[i].then, inv[i].out, inv[i].then, inv[i].known)
    BY <1>3, PlainContinues DEF Plain
  <1>4. CASE inv[i].then = "toPhone" /\ Moved(i, inv[i].then, inv[i].out, inv[i].then, inv[i].known)
    <2>1. inv[i].op = "commit" /\ link' # "none"
      BY <1>1, <1>4 DEF Knows, Advance
    <2> QED BY <1>4, <2>1, OtherContinues
  <1> QED BY <1>1, <1>2, <1>3, <1>4 DEF Knows

LEMMA QuietTells ==
  ASSUME IInv, NEW i \in Invocation, UNCHANGED inbox
  PROVE  Told(i)
  BY Typed DEF Told, Posted, InboxTypes

LEMMA TruthTells ==
  ASSUME NEW i \in Invocation, NEW d, NEW m, PostedTo(d, m), d \in Device => Truth(i, d, m)
  PROVE  Told(i)
  BY DEF PostedTo, Told

LEMMA OutIsTrue ==
  ASSUME IInv, NEW i \in Invocation, inv[i].step # "idle"
  PROVE  inv[i].dev \in Device /\ inv[i].out \in Message /\ Truth(i, inv[i].dev, inv[i].out)
  <1>1. Knows(i) /\ inv[i] \in Running
    BY Typed DEF InvocationInv, InvTypes
  <1>2. inv[i].out = Reply("ok", "create") => ~Uncreated
    BY Typed DEF CreationInv
  <1> QED BY <1>1, <1>2, RunningIs, MessageIs, NoneAssumption
          DEF Knows, Truth, Handles, Event, Reply, Requests

\* The three ways the pair is written.
LEMMA PairWrites ==
  ASSUME IInv
  PROVE  /\ \A s \in Statuses :
              LET q == [pair EXCEPT !.status = s]
              IN q \in PairItem /\ q.status = s /\ q.sideB = pair.sideB /\ q.commits = pair.commits
         /\ \A s \in Statuses, p \in Phone :
              LET q == [pair EXCEPT !.status = s, !.sideB = p]
              IN q \in PairItem /\ q.status = s /\ q.sideB = p /\ q.commits = pair.commits
         /\ \A s \in Statuses, d \in Device :
              LET q == [pair EXCEPT !.status = s, !.commits = @ \cup {d}]
              IN q \in PairItem /\ q.status = s /\ q.sideB = pair.sideB /\ q.commits = pair.commits \cup {d}
  BY Typed DEF StoreTypes, PairItem

LEMMA NothingStored ==
  ASSUME IInv, NEW i \in Invocation, UNCHANGED <<pair, link, stored>>
  PROVE  PairInv' /\ Advance /\ Records(i)
  BY Typed DEF PairInv, Advance, Records

LEMMA CreationStays ==
  ASSUME IInv, NEW i \in Invocation, Continues(i), Told(i), Stores(i),
         Uncreated' => /\ Uncreated /\ pair' = pair
                       /\ ~inv'[i].known /\ inv'[i].out # Reply("ok", "create")
                       /\ \A d \in Device : stored'[d] \in {stored[d], "absent"},
         phase[Mac] = "off" => stored'[Mac] = "absent"
  PROVE  CreationInv'
  <1>1. CASE Uncreated'
    <2>1. pair' = NoPair /\ phase'[Mac] \in {"off", "creating", "ended"}
      BY <1>1, Typed DEF CreationInv, Stores
    <2>2. \A r \in request' : r.op # "cancel"
      BY <1>1, Typed DEF CreationInv, Stores
    <2>3. \A j \in Invocation :
            inv'[j].op # "cancel" /\ ~inv'[j].known /\ inv'[j].out # Reply("ok", "create")
      BY <1>1, Typed, IdleIs, PairingAssumption, NoneAssumption DEF CreationInv, Continues, Others, Requests
    <2>4. \A d \in Device : stored'[d] # "assigned" /\ Reply("ok", "create") \notin Posted(d)'
      BY <1>1, Typed DEF CreationInv, Told, Truth
    <2> QED BY <1>1, <2>1, <2>2, <2>3, <2>4 DEF CreationInv, Stores
  <1>2. CASE ~Uncreated'
    BY <1>2 DEF CreationInv, Stores
  <1> QED BY <1>1, <1>2

\* A step that makes the pair, or writes it once it was made.
LEMMA WriteKeeps ==
  ASSUME IInv, NEW i \in Invocation, Continues(i), UNCHANGED <<request, inbox, device>>,
         StoreTypes', Advance, Records(i), PairInv', ~Uncreated'
  PROVE  IInv'
  <1>1. Told(i)
    BY QuietTells
  <1>2. Stores(i)
    BY DEF Stores, device
  <1>3. CreationInv'
    BY <1>1, <1>2, CreationStays DEF Uncreated, device
  <1> QED BY <1>1, <1>2, <1>3, RelayKeeps

\* A step that writes nothing.
LEMMA ReadKeeps ==
  ASSUME IInv, NEW i \in Invocation, Continues(i), Told(i), UNCHANGED <<items, expired, device>>,
         conn' \in [Device -> {"none", "up", "cut", "gone"}],
         \A r \in request' : r \in request \/ \E d \in Device : r = [op |-> "disconnect", dev |-> d],
         Uncreated => ~inv'[i].known /\ inv'[i].out # Reply("ok", "create")
  PROVE  IInv'
  <1>1. PairInv' /\ Advance /\ Records(i)
    BY NothingStored DEF items
  <1>2. Stores(i)
    BY <1>1, Typed DEF Stores, StoreTypes, items, device
  <1>3. /\ Uncreated' => Uncreated
        /\ phase[Mac] = "off" => stored'[Mac] = "absent"
    BY Typed DEF Uncreated, CreationInv, items, device
  <1>4. CreationInv'
    BY <1>2, <1>3, CreationStays DEF items
  <1> QED BY <1>1, <1>2, <1>4, RelayKeeps

\* ... and goes to an answer or a clean-up.
LEMMA PlainKeeps ==
  ASSUME IInv, NEW i \in Invocation, inv[i].step # "idle", Told(i), UNCHANGED <<items, expired, device>>,
         conn' \in [Device -> {"none", "up", "cut", "gone"}],
         \A r \in request' : r \in request \/ \E d \in Device : r = [op |-> "disconnect", dev |-> d],
         \/ Ended(i)
         \/ \E step \in Plain, out \in Message, then \in Steps, known \in BOOLEAN :
              /\ Moved(i, step, out, then, known) /\ (step = "forward" => inv[i].op = "frame" /\ pair.sideB \in Phone)
              /\ \/ out = inv[i].out
                 \/ \E t \in {"ok", "unsure", "refused"} :
                      /\ out = Reply(t, inv[i].op)
                      /\ t = "refused" => inv[i].step \in {"read", "write"}
                      /\ t = "ok" => inv[i].op # "create"
              /\ \/ then \in {inv[i].then, "idle", "drop", "reply"}
                 \/ then = "toPhone" /\ inv[i].op = "commit" /\ link # "none"
              /\ known => inv[i].known \/ \E d \in Device : stored[d] = "assigned"
  PROVE  IInv'
  <1>1. Advance
    BY NothingStored DEF items
  <1>2. CASE Ended(i)
    <2>1. Continues(i)
      BY <1>2, EndedContinues
    <2>2. ~inv'[i].known /\ inv'[i].out # Reply("ok", "create")
      BY <1>2, IdleIs, NoneAssumption DEF Ended, Event, Reply, Requests
    <2> QED BY <2>1, <2>2, ReadKeeps
  <1>3. ASSUME NEW step \in Plain, NEW out \in Message, NEW then \in Steps, NEW known \in BOOLEAN,
               Moved(i, step, out, then, known), step = "forward" => inv[i].op = "frame" /\ pair.sideB \in Phone,
               \/ out = inv[i].out
               \/ \E t \in {"ok", "unsure", "refused"} :
                    /\ out = Reply(t, inv[i].op)
                    /\ t = "refused" => inv[i].step \in {"read", "write"}
                    /\ t = "ok" => inv[i].op # "create",
               \/ then \in {inv[i].then, "idle", "drop", "reply"}
               \/ then = "toPhone" /\ inv[i].op = "commit" /\ link # "none",
               known => inv[i].known \/ \E d \in Device : stored[d] = "assigned"
        PROVE  IInv'
    <2>1. Continues(i)
      BY <1>1, <1>3, PlainContinues DEF items
    <2>2. out = Reply("ok", "create") => out = inv[i].out
      BY <1>3 DEF Reply
    <2>3. Uncreated => ~known /\ out # Reply("ok", "create")
      BY <1>3, <2>2, Typed DEF CreationInv
    <2> QED BY <1>3, <2>1, <2>3, ReadKeeps DEF Moved
  <1> QED BY <1>2, <1>3

LEMMA Quiet ==
  ASSUME IInv, UNCHANGED <<conn, request>>
  PROVE  /\ conn' \in [Device -> {"none", "up", "cut", "gone"}]
         /\ \A r \in request' : r \in request \/ \E d \in Device : r = [op |-> "disconnect", dev |-> d]
  BY Typed DEF StoreTypes

LEMMA Fields ==
  ASSUME IInv, NEW i \in Invocation
  PROVE  /\ inv[i].then \in Steps /\ inv[i].known \in BOOLEAN /\ inv[i].out \in Message
         /\ inv[i].op \in Requests \cup {None} /\ Knows(i) /\ inv[i].then \notin Cleaning
         /\ \A t \in {"ok", "unsure", "refused"} : Reply(t, inv[i].op) \in Message
  BY Typed, RunningIs, MessageIs DEF InvTypes, InvocationInv, Knows, Cleaning

LEMMA ThrottleKeeps ==
  ASSUME IInv, NEW i \in Invocation, Throttle(i)
  PROVE  IInv'
  <1>1. inv[i].step # "idle" /\ UNCHANGED <<items, expired, device, conn, request, inbox>>
    BY DEF Throttle, At
  <1>2. Moved(i, "reject", Reply("unsure", inv[i].op), inv[i].then, inv[i].known)
    BY Typed, AnswerIs DEF Throttle
  <1> QED BY <1>1, <1>2, Fields, Quiet, QuietTells, PlainKeeps DEF Plain

LEMMA RejectKeeps ==
  ASSUME IInv, NEW i \in Invocation, Reject(i)
  PROVE  IInv'
  <1>1. inv[i].step = "reject" /\ UNCHANGED <<items, expired, device, conn, request>>
    BY DEF Reject, At
  <1>2. PostedTo(inv[i].dev, inv[i].out) /\ Told(i)
    BY <1>1, Typed, NotifyIs, OutIsTrue, TruthTells DEF Reject, Steps, Cleaning
  <1>3. \/ Moved(i, "clean", inv[i].out, "drop", inv[i].known)
        \/ Moved(i, "drop", inv[i].out, inv[i].then, inv[i].known)
    BY <1>1, Typed, NotifyIs, OutIsTrue DEF Reject, Steps, Cleaning
  <1> QED BY <1>1, <1>2, <1>3, Fields, Quiet, PlainKeeps DEF Plain, Steps

LEMMA DropSocketKeeps ==
  ASSUME IInv, NEW i \in Invocation, DropSocket(i)
  PROVE  IInv'
  <1>1. inv[i].step = "drop" /\ UNCHANGED <<items, expired, device, inbox>> /\ inv[i].dev \in Device
    BY OutIsTrue DEF DropSocket, At
  <1>2. /\ conn' \in [Device -> {"none", "up", "cut", "gone"}]
        /\ \A r \in request' : r \in request \/ \E d \in Device : r = [op |-> "disconnect", dev |-> d]
    BY <1>1, Typed DEF DropSocket, StoreTypes
  <1>3. Moved(i, "clean", inv[i].out, "idle", inv[i].known)
    BY <1>1, Typed, CleanUpIs DEF DropSocket, Steps
  <1> QED BY <1>1, <1>2, <1>3, Fields, QuietTells, PlainKeeps DEF Plain, Steps

LEMMA SendReplyKeeps ==
  ASSUME IInv, NEW i \in Invocation, SendReply(i)
  PROVE  IInv'
  <1>1. inv[i].step = "reply" /\ UNCHANGED <<items, expired, device, conn, request>>
    BY DEF SendReply, At
  <1>2. PostedTo(inv[i].dev, inv[i].out)
    BY <1>1, Typed, NotifyIs, DeliverIs, OutIsTrue DEF SendReply, Steps, Cleaning
  <1>3. Told(i)
    BY <1>1, <1>2, OutIsTrue, TruthTells
  <1>4. Ended(i) \/ Moved(i, "clean", inv[i].out, "idle", inv[i].known)
    BY <1>1, Typed, NotifyIs, EndIs, OutIsTrue DEF SendReply, Steps, Cleaning
  <1> QED BY <1>1, <1>3, <1>4, Fields, Quiet, PlainKeeps DEF Plain, Steps

LEMMA FrameReadsKeeps ==
  ASSUME IInv, NEW i \in Invocation, FrameReads(i)
  PROVE  IInv'
  <1>1. /\ inv[i].step = "read" /\ inv[i].op = "frame"
        /\ UNCHANGED <<items, expired, device, conn, request, inbox>>
    BY DEF FrameReads, At
  <1>2. \/ Moved(i, "reply", Reply("refused", inv[i].op), inv[i].then, inv[i].known)
        \/ pair.sideB \in Phone /\ Moved(i, "forward", inv[i].out, inv[i].then, inv[i].known)
    BY Typed, AnswerIs, GoIs DEF FrameReads, Steps, Cleaning, PairInv
  <1> QED BY <1>1, <1>2, Fields, Quiet, QuietTells, PlainKeeps DEF Plain

LEMMA FrameForwardsKeeps ==
  ASSUME IInv, NEW i \in Invocation, FrameForwards(i)
  PROVE  IInv'
  <1>1. /\ inv[i].step = "forward" /\ UNCHANGED <<items, expired, device, conn, request>>
        /\ pair.sideB \in Phone
    BY Fields DEF FrameForwards, At, Knows
  <1>2. Truth(i, Peer(pair, inv[i].dev), Event("frame"))
    BY NoneAssumption DEF Truth, Event, Reply, Requests
  <1>3. Told(i)
    BY <1>1, <1>2, Typed, FrameForwardsIs, TruthTells
  <1>4. Ended(i) \/ Moved(i, "clean", Reply("unsure", inv[i].op), "reply", inv[i].known)
    BY <1>1, Typed, FrameForwardsIs, Fields DEF Knows
  <1> QED BY <1>1, <1>3, <1>4, Fields, Quiet, PlainKeeps DEF Plain, Steps

LEMMA JoinReadsKeeps ==
  ASSUME IInv, NEW i \in Invocation, JoinReads(i)
  PROVE  IInv'
  <1>1. /\ inv[i].step = "read" /\ inv[i].op = "join"
        /\ UNCHANGED <<items, expired, device, conn, request, inbox>>
    BY DEF JoinReads, At
  <1>2. CASE Moved(i, "reply", Reply("refused", inv[i].op), inv[i].then, inv[i].known)
    BY <1>1, <1>2, Fields, Quiet, QuietTells, PlainKeeps DEF Plain
  <1>3. CASE Moved(i, "write", inv[i].out, inv[i].then, inv[i].known)
    <2>1. Continues(i)
      BY <1>1, <1>3, Fields, NothingStored, OtherContinues DEF Knows, items
    <2>2. Uncreated => ~inv'[i].known /\ inv'[i].out # Reply("ok", "create")
      BY <1>3, Typed DEF CreationInv, Moved
    <2> QED BY <1>1, <2>1, <2>2, Quiet, QuietTells, ReadKeeps
  <1> QED BY <1>2, <1>3, Typed, AnswerIs, GoIs DEF JoinReads, Steps, Cleaning

LEMMA CommitReadsKeeps ==
  ASSUME IInv, NEW i \in Invocation, CommitReads(i)
  PROVE  IInv'
  <1>1. /\ inv[i].step = "read" /\ inv[i].op = "commit"
        /\ UNCHANGED <<items, expired, device, conn, request, inbox>>
    BY DEF CommitReads, At
  <1>2. CASE Moved(i, "reply", Reply("refused", inv[i].op), inv[i].then, inv[i].known)
    BY <1>1, <1>2, Fields, Quiet, QuietTells, PlainKeeps DEF Plain
  <1>3. CASE Member(pair, inv[i].dev) /\ Moved(i, "write", inv[i].out, inv[i].then, inv[i].known)
    <2>1. pair' = pair
      BY <1>1 DEF items
    <2>2. Continues(i)
      BY <1>1, <1>3, <2>1, Fields, NothingStored, OtherContinues DEF Knows, items
    <2>3. Uncreated => ~inv'[i].known /\ inv'[i].out # Reply("ok", "create")
      BY <1>3, Typed DEF CreationInv, Moved
    <2> QED BY <1>1, <2>2, <2>3, Quiet, QuietTells, ReadKeeps
  <1> QED BY <1>2, <1>3, Typed, CommitReadsIs

LEMMA QuotaRefusesKeeps ==
  ASSUME IInv, NEW i \in Invocation, QuotaRefuses(i)
  PROVE  IInv'
  <1>1. inv[i].step = "write" /\ UNCHANGED <<items, expired, device, conn, request, inbox>>
    BY DEF QuotaRefuses, At
  <1>2. Moved(i, "reject", Reply("refused", inv[i].op), inv[i].then, inv[i].known)
    BY Typed, AnswerIs DEF QuotaRefuses
  <1> QED BY <1>1, <1>2, Fields, Quiet, QuietTells, PlainKeeps DEF Plain

\* The announcement of a join, or of the activation.
LEMMA AnnouncementIsTrue ==
  ASSUME IInv, NEW i \in Invocation, inv[i].step \in {"toMac", "toPhone"}
  PROVE  /\ Announcement(i) \in Message /\ pair.sideB \in Phone
         /\ \A d \in {Mac, pair.sideB} : Truth(i, d, Announcement(i))
  <1>1. Knows(i)
    BY Fields
  <1>2. pair.sideB \in Phone /\ (inv[i].op # "join" => link # "none")
    BY <1>1, Typed DEF Knows, PairInv
  <1> QED BY <1>2, MessageIs, NoneAssumption DEF Announcement, Truth, Event, Reply, Requests

LEMMA TellMacKeeps ==
  ASSUME IInv, NEW i \in Invocation, TellMac(i)
  PROVE  IInv'
  <1>1. /\ inv[i].step = "toMac" /\ UNCHANGED <<items, expired, device, conn, request>>
        /\ Mac \in Device
    BY DEF TellMac, At, Device
  <1>2. CASE inv[i].op = "join" /\ Offline(i, Mac, FALSE) /\ UNCHANGED inbox
    <2>1. Moved(i, "clean", Reply("unsure", inv[i].op), "reply", inv[i].known)
      BY <1>1, <1>2, Typed, OfflineIs
    <2> QED BY <1>1, <1>2, <2>1, Fields, Quiet, QuietTells, PlainKeeps DEF Plain, Steps
  <1>3. CASE /\ ~(inv[i].op = "join" /\ conn[Mac] = "gone")
             /\ Notify(i, Mac, Announcement(i), FALSE, "toPhone", "toPhone")
    <2>1. PostedTo(Mac, Announcement(i)) /\ Told(i)
      BY <1>1, <1>3, Typed, NotifyIs, AnnouncementIsTrue, TruthTells DEF Steps, Cleaning
    <2>2. \/ Moved(i, "clean", inv[i].out, "toPhone", inv[i].known) /\ inv[i].op # "join"
          \/ Moved(i, "toPhone", inv[i].out, inv[i].then, inv[i].known)
      <3>1. CASE conn[Mac] = "gone"
        BY <1>1, <1>3, <3>1, Typed, CleanUpIs DEF Notify, Steps
      <3>2. CASE conn[Mac] # "gone"
        BY <1>3, <3>2, Typed, GoIs DEF Notify, Steps, Cleaning
      <3> QED BY <3>1, <3>2
    <2>3. CASE Moved(i, "clean", inv[i].out, "toPhone", inv[i].known) /\ inv[i].op # "join"
      <3>1. inv[i].op = "commit" /\ link # "none"
        BY <1>1, <2>3, Fields DEF Knows
      <3> QED BY <1>1, <2>1, <2>3, <3>1, Fields, Quiet, PlainKeeps DEF Plain, Steps
    <2>4. CASE Moved(i, "toPhone", inv[i].out, inv[i].then, inv[i].known)
      <3>1. Continues(i)
        BY <1>1, <2>4, Fields, NothingStored, OtherContinues DEF Knows, items
      <3>2. Uncreated => ~inv'[i].known /\ inv'[i].out # Reply("ok", "create")
        BY <2>4, Typed DEF CreationInv, Moved
      <3> QED BY <1>1, <2>1, <3>1, <3>2, Quiet, ReadKeeps
    <2> QED BY <2>2, <2>3, <2>4
  <1> QED BY <1>2, <1>3 DEF TellMac

LEMMA TellPhoneKeeps ==
  ASSUME IInv, NEW i \in Invocation, TellPhone(i)
  PROVE  IInv'
  <1>1. inv[i].step = "toPhone" /\ UNCHANGED <<items, expired, device, conn, request>>
    BY DEF TellPhone, At
  <1>2. Told(i)
    BY <1>1, Typed, TellPhoneIs, AnnouncementIsTrue, TruthTells
  <1> QED BY <1>1, <1>2, Typed, TellPhoneIs, AnnouncementIsTrue, Fields, Quiet, PlainKeeps DEF Plain, Steps

LEMMA CancelReadsKeeps ==
  ASSUME IInv, NEW i \in Invocation, CancelReads(i)
  PROVE  IInv'
  <1>1. /\ inv[i].step = "read" /\ inv[i].op = "cancel" /\ ~Uncreated
        /\ UNCHANGED <<items, expired, device, conn, request, inbox>>
    BY Typed DEF CancelReads, At, CreationInv
  <1>2. ASSUME NEW t \in {"ok", "refused"},
               Moved(i, "reply", Reply(t, inv[i].op), inv[i].then, inv[i].known)
        PROVE  IInv'
    BY <1>1, <1>2, Fields, Quiet, QuietTells, PlainKeeps DEF Plain
  <1>3. ASSUME NEW step \in {"write", "tellPeer"}, step = "tellPeer" => pair.status = "CLOSED",
               Moved(i, step, Reply("ok", "cancel"), "reply", inv[i].known)
        PROVE  IInv'
    <2>1. Moved(i, step, Reply("ok", inv[i].op), "reply", inv[i].known) /\ pair' = pair
      BY <1>1, <1>3 DEF items
    <2>2. Continues(i)
      BY <1>1, <1>3, <2>1, NothingStored, OtherContinues DEF items
    <2>3. Reply("ok", inv[i].op) # Reply("ok", "create")
      BY <1>1 DEF Reply
    <2> QED BY <1>1, <2>2, <2>3, Quiet, QuietTells, ReadKeeps DEF Moved
  <1> QED BY <1>2, <1>3, Typed, CancelReadsIs

LEMMA CleanReadsKeeps ==
  ASSUME IInv, NEW i \in Invocation, CleanReadsConnection(i) \/ CleanReadsPair(i)
  PROVE  IInv'
  <1>1. /\ inv[i].step \in {"clean", "cleanPair"}
        /\ UNCHANGED <<items, expired, device, conn, request, inbox>>
    BY DEF CleanReadsConnection, CleanReadsPair, At
  <1>2. CASE \/ Ended(i)
             \/ inv[i].then # "idle" /\ Moved(i, inv[i].then, inv[i].out, inv[i].then, inv[i].known)
    <2>1. Continues(i)
      BY <1>1, <1>2, NothingStored, ResumeContinues DEF items
    <2>2. Uncreated => ~inv'[i].known /\ inv'[i].out # Reply("ok", "create")
      BY <1>2, Typed, IdleIs, NoneAssumption DEF CreationInv, Moved, Ended, Event, Reply, Requests
    <2> QED BY <1>1, <2>1, <2>2, Quiet, QuietTells, ReadKeeps
  <1>3. ASSUME NEW s \in {"cleanPair", "cleanWrite"}, NEW known \in BOOLEAN,
               known => inv[i].known \/ \E d \in Device : stored[d] = "assigned",
               Moved(i, s, inv[i].out, inv[i].then, known)
        PROVE  IInv'
    BY <1>1, <1>3, Fields, Quiet, QuietTells, PlainKeeps DEF Plain
  <1>4. inv[i].tgt \in Device
    BY <1>1, Fields DEF Knows, Cleaning
  <1> QED BY <1>2, <1>3, <1>4, Typed, CleanReadsIs, Fields

LEMMA CleanReadsAgainKeeps ==
  ASSUME IInv, NEW i \in Invocation, CleanReadsAgain(i)
  PROVE  IInv'
  <1>1. /\ inv[i].step = "cleanRead" /\ pair' = pair
        /\ UNCHANGED <<items, expired, device, conn, request, inbox>>
    BY DEF CleanReadsAgain, At, items
  <1>2. \/ Ended(i)
        \/ inv[i].then # "idle" /\ Moved(i, inv[i].then, inv[i].out, inv[i].then, inv[i].known)
        \/ pair.status = "CLOSED" /\ Moved(i, "tellPeer", inv[i].out, inv[i].then, inv[i].known)
    BY <1>1, Typed, RereadIs, ResumeIs, Fields DEF CleanReadsAgain, StoreTypes
  <1>3. Continues(i)
    <2>1. CASE pair.status = "CLOSED" /\ Moved(i, "tellPeer", inv[i].out, inv[i].then, inv[i].known)
      BY <1>1, <2>1, NothingStored, OtherContinues DEF items
    <2> QED BY <1>1, <1>2, <2>1, NothingStored, ResumeContinues DEF items
  <1>4. Uncreated => ~inv'[i].known /\ inv'[i].out # Reply("ok", "create")
    BY <1>2, Typed, IdleIs, NoneAssumption DEF CreationInv, Moved, Ended, Event, Reply, Requests
  <1> QED BY <1>1, <1>3, <1>4, Quiet, QuietTells, ReadKeeps

LEMMA TellPeerKeeps ==
  ASSUME IInv, NEW i \in Invocation, TellPeer(i)
  PROVE  IInv'
  <1>1. /\ inv[i].step = "tellPeer" /\ pair.status = "CLOSED"
        /\ UNCHANGED <<items, expired, device, conn, request>>
    BY Fields DEF TellPeer, At, Knows
  <1> DEFINE peer == Peer(inv[i].saw, inv[i].tgt)
  <1>2. (peer # None => peer \in Device) /\ Event("closed") \in Message
    <2>1. inv[i].saw \in PairItem
      BY Typed, RunningIs DEF InvTypes
    <2> QED BY <2>1, MessageIs DEF PairItem, Peer, Device
  <1>3. \A d \in Device : Truth(i, d, Event("closed"))
    BY <1>1, NoneAssumption DEF Truth, Event, Reply, Requests
  <1>4. Told(i)
    <2>1. CASE UNCHANGED inbox
      BY <2>1, QuietTells
    <2>2. CASE peer # None /\ Notify(i, peer, Event("closed"), FALSE, inv[i].then, inv[i].then)
      BY <1>2, <1>3, <2>2, Typed, NotifyIs, TruthTells, Fields
    <2> QED BY <2>1, <2>2 DEF TellPeer
  <1>5. \/ Ended(i)
        \/ inv[i].then # "idle" /\ Moved(i, inv[i].then, inv[i].out, inv[i].then, inv[i].known)
        \/ Moved(i, "clean", inv[i].out, inv[i].then, inv[i].known)
    <2>1. CASE Resume(i)
      BY <2>1, Typed, ResumeIs, Fields
    <2>2. CASE peer # None /\ Notify(i, peer, Event("closed"), FALSE, inv[i].then, inv[i].then)
      BY <1>2, <2>2, Typed, NotifyIs, Fields
    <2> QED BY <2>1, <2>2 DEF TellPeer
  <1>6. CASE Moved(i, "clean", inv[i].out, inv[i].then, inv[i].known)
    BY <1>1, <1>4, <1>6, Fields, Quiet, PlainKeeps DEF Plain
  <1>7. CASE \/ Ended(i)
             \/ inv[i].then # "idle" /\ Moved(i, inv[i].then, inv[i].out, inv[i].then, inv[i].known)
    <2>1. Continues(i)
      BY <1>1, <1>7, NothingStored, ResumeContinues DEF items
    <2>2. Uncreated => ~inv'[i].known /\ inv'[i].out # Reply("ok", "create")
      BY <1>7, Typed, IdleIs, NoneAssumption DEF CreationInv, Moved, Ended, Event, Reply, Requests
    <2> QED BY <1>1, <1>4, <2>1, <2>2, Quiet, ReadKeeps
  <1> QED BY <1>5, <1>6, <1>7

LEMMA CrashKeeps ==
  ASSUME IInv, NEW i \in Invocation, Crash(i)
  PROVE  IInv'
  <1>1. inv[i].step # "idle" /\ UNCHANGED <<items, expired, device, conn, request, inbox>>
    BY DEF Crash, At
  <1>2. Ended(i)
    BY Typed, EndIs DEF Crash
  <1> QED BY <1>1, <1>2, Quiet, QuietTells, PlainKeeps

\* What an answer that nothing was written leads to.
LEMMA AnswerKeeps ==
  ASSUME IInv, NEW i \in Invocation, inv[i].step \in {"read", "write"}, NEW t \in {"unsure", "refused"},
         Answer(i, t), UNCHANGED <<items, expired, device, conn, request, inbox>>
  PROVE  IInv'
  <1>1. Moved(i, "reply", Reply(t, inv[i].op), inv[i].then, inv[i].known)
    BY Typed, AnswerIs
  <1> QED BY <1>1, Fields, Quiet, QuietTells, PlainKeeps DEF Plain

LEMMA CreateKeeps ==
  ASSUME IInv, NEW i \in Invocation, Create(i)
  PROVE  IInv'
  <1>1. inv[i].step = "write" /\ inv[i].op = "create" /\ UNCHANGED <<link, expired, conn, request, inbox, device>>
    BY DEF Create, At
  <1>2. CASE stored[Mac] # "free"
    BY <1>1, <1>2, AnswerKeeps DEF Create, items
  <1>3. CASE stored[Mac] = "free"
    <2>1. /\ pair' = [pair EXCEPT !.status = "OPEN"]
          /\ stored' = [stored EXCEPT ![Mac] = "assigned"]
          /\ Answer(i, "ok")
      BY <1>3 DEF Create
    <2>2. pair = NoPair /\ phase[Mac] # "off" /\ link = "none"
      BY <1>3, Typed DEF CreationInv, Uncreated, PairInv, NoPair
    <2>3. pair' \in PairItem /\ pair'.status = "OPEN" /\ pair'.sideB = None /\ pair'.commits = {}
      BY <2>1, <2>2 DEF PairItem, NoPair, Statuses
    <2>4. PairInv' /\ Advance /\ Records(i)
      BY <1>1, <2>2, <2>3 DEF PairInv, Advance, Records, NoPair
    <2>5. StoreTypes'
      BY <1>1, <2>1, <2>3, Typed DEF StoreTypes
    <2>6. Continues(i)
      <3>1. Moved(i, "reply", Reply("ok", inv[i].op), inv[i].then, inv[i].known)
        BY <2>1, Typed, AnswerIs
      <3> QED BY <1>1, <2>4, <3>1, PlainContinues DEF Plain
    <2>7. ~Uncreated'
      BY <1>1, <2>1, <2>2, Typed DEF Uncreated, StoreTypes, Device, device
    <2> QED BY <1>1, <2>4, <2>5, <2>6, <2>7, WriteKeeps
  <1> QED BY <1>2, <1>3

\* A pair that waits, or is closed, was made.
LEMMA PairMade ==
  ASSUME IInv, pair.status # "none"
  PROVE  ~Uncreated
  BY Typed DEF CreationInv, NoPair

LEMMA JoinWritesKeeps ==
  ASSUME IInv, NEW i \in Invocation, JoinWrites(i)
  PROVE  IInv'
  <1>1. inv[i].step = "write" /\ inv[i].op = "join" /\ UNCHANGED <<link, expired, conn, request, inbox, device>>
    BY DEF JoinWrites, At
  <1>2. CASE ~JoinHolds(i)
    BY <1>1, <1>2, AnswerKeeps DEF JoinWrites, items
  <1>3. CASE JoinHolds(i)
    <2>1. /\ pair' = [pair EXCEPT !.status = "READY", !.sideB = inv[i].dev]
          /\ stored' = [stored EXCEPT ![inv[i].dev] = "assigned"]
          /\ Go(i, "toMac")
      BY <1>3 DEF JoinWrites
    <2>2. pair.status = "OPEN" /\ pair.sideB = None /\ stored[inv[i].dev] = "free"
      BY <1>3 DEF JoinHolds
    <2>3. ~Uncreated /\ inv[i].dev \in Phone
      BY <1>1, <2>2, PairMade, Fields DEF Knows, Uncreated, Device
    <2>4. /\ pair' \in PairItem /\ pair'.status = "READY" /\ pair'.sideB = inv[i].dev
          /\ pair'.commits = pair.commits
      BY <2>1, <2>3, Typed DEF StoreTypes, PairItem, Statuses
    <2>5. PairInv' /\ Advance /\ Records(i)
      BY <1>1, <2>2, <2>3, <2>4, Typed DEF PairInv, Advance, Records
    <2>6. StoreTypes'
      BY <1>1, <2>1, <2>4, Typed DEF StoreTypes
    <2>7. Continues(i)
      <3>1. Moved(i, "toMac", inv[i].out, inv[i].then, inv[i].known)
        BY <2>1, Typed, GoIs DEF Steps, Cleaning
      <3> QED BY <1>1, <2>3, <2>4, <2>5, <3>1, OtherContinues
    <2>8. ~Uncreated'
      BY <1>1, <2>1, <2>3, Typed DEF Uncreated, StoreTypes, Device, device
    <2> QED BY <1>1, <2>5, <2>6, <2>7, <2>8, WriteKeeps
  <1> QED BY <1>2, <1>3

\* A commit that is recorded.
LEMMA HalfWritten ==
  ASSUME IInv, NEW i \in Invocation, inv[i].step = "write", inv[i].op = "commit", pair.status = "READY",
         pair' = [pair EXCEPT !.status = "HALF_COMMITTED", !.commits = @ \cup {inv[i].dev}],
         UNCHANGED <<link, stored, expired, conn, inbox, phase>>
  PROVE  /\ StoreTypes' /\ PairInv' /\ Advance /\ ~Uncreated'
         /\ pair'.commits = pair.commits \cup {inv[i].dev}
  <1>1. inv[i].dev \in Device /\ Member(pair, inv[i].dev)
    BY Fields DEF Knows
  <1>2. /\ pair' \in PairItem /\ pair'.status = "HALF_COMMITTED" /\ pair'.sideB = pair.sideB
        /\ pair'.commits = pair.commits \cup {inv[i].dev}
    BY <1>1, PairWrites DEF Statuses
  <1>3. pair.commits = {} /\ pair.sideB \in Phone /\ link = "none"
    BY Typed DEF PairInv
  <1>4. PairInv' /\ Advance
    BY <1>1, <1>2, <1>3 DEF PairInv, Advance, Member
  <1>5. StoreTypes'
    BY <1>2, Typed DEF StoreTypes
  <1>6. ~Uncreated'
    BY PairMade DEF Uncreated
  <1> QED BY <1>2, <1>4, <1>5, <1>6

LEMMA ActivationWritten ==
  ASSUME IInv, NEW i \in Invocation, inv[i].step = "write", inv[i].op = "commit", ActivationHolds(i),
         pair' = [pair EXCEPT !.status = "ACTIVE", !.commits = @ \cup {inv[i].dev}], link' = "active",
         UNCHANGED <<stored, expired, conn, inbox, phase>>
  PROVE  /\ StoreTypes' /\ PairInv' /\ Advance /\ ~Uncreated'
         /\ pair'.commits = pair.commits \cup {inv[i].dev}
  <1>1. inv[i].dev \in Device /\ Member(pair, inv[i].dev)
    BY Fields DEF Knows
  <1>2. /\ pair' \in PairItem /\ pair'.status = "ACTIVE" /\ pair'.sideB = pair.sideB
        /\ pair'.commits = pair.commits \cup {inv[i].dev}
    BY <1>1, PairWrites DEF Statuses
  <1>3. pair.status = "HALF_COMMITTED" /\ pair.sideB \in Phone /\ inv[i].dev \notin pair.commits
    BY <1>1, Typed DEF ActivationHolds, PairInv, TokenInv, Open, Handles
  <1>4. pair'.commits = {Mac, pair.sideB}
    BY <1>1, <1>2, <1>3, Typed DEF PairInv, Member
  <1>5. PairInv' /\ Advance
    BY <1>2, <1>3, <1>4 DEF PairInv, Advance
  <1>6. StoreTypes'
    BY <1>2, Typed DEF StoreTypes
  <1>7. ~Uncreated'
    BY <1>3, PairMade DEF Uncreated
  <1> QED BY <1>2, <1>5, <1>6, <1>7

LEMMA CommitHalfKeeps ==
  ASSUME IInv, NEW i \in Invocation, CommitHalf(i)
  PROVE  IInv'
  <1>1. /\ inv[i].step = "write" /\ inv[i].op = "commit"
        /\ UNCHANGED <<link, stored, expired, conn, request, inbox, device>>
    BY DEF CommitHalf, At
  <1>2. CASE Answer(i, "unsure") /\ UNCHANGED pair
    BY <1>1, <1>2, AnswerKeeps DEF items
  <1>3. CASE /\ pair.status = "READY"
             /\ pair' = [pair EXCEPT !.status = "HALF_COMMITTED", !.commits = @ \cup {inv[i].dev}]
             /\ Answer(i, "ok")
    <2>1. /\ StoreTypes' /\ PairInv' /\ Advance /\ ~Uncreated'
          /\ pair'.commits = pair.commits \cup {inv[i].dev}
      BY <1>1, <1>3, HalfWritten DEF device
    <2>2. Moved(i, "reply", Reply("ok", inv[i].op), inv[i].then, inv[i].known)
      BY <1>3, Typed, AnswerIs
    <2>3. Continues(i)
      BY <1>1, <2>1, <2>2, PlainContinues DEF Plain
    <2>4. Records(i)
      BY <1>1, <2>1, <2>2, Fields, MessageIs DEF Records, Moved
    <2> QED BY <1>1, <2>1, <2>3, <2>4, WriteKeeps
  <1> QED BY <1>2, <1>3 DEF CommitHalf

LEMMA ActivateKeeps ==
  ASSUME IInv, NEW i \in Invocation, Activate(i)
  PROVE  IInv'
  <1>1. /\ inv[i].step = "write" /\ inv[i].op = "commit"
        /\ UNCHANGED <<stored, expired, conn, request, inbox, device>>
    BY DEF Activate, At
  <1>2. CASE Moved(i, "reply", Reply("unsure", inv[i].op), inv[i].then, inv[i].known) /\ UNCHANGED <<pair, link>>
    BY <1>1, <1>2, Fields, Quiet, QuietTells, PlainKeeps DEF Plain, items
  <1>3. CASE /\ ActivationHolds(i)
             /\ pair' = [pair EXCEPT !.status = "ACTIVE", !.commits = @ \cup {inv[i].dev}]
             /\ link' = "active"
             /\ Moved(i, "toMac", Reply("active", inv[i].op), inv[i].then, inv[i].known)
    <2>1. /\ StoreTypes' /\ PairInv' /\ Advance /\ ~Uncreated'
          /\ pair'.commits = pair.commits \cup {inv[i].dev}
      BY <1>1, <1>3, ActivationWritten DEF device
    <2>2. Continues(i)
      BY <1>1, <1>3, <2>1, OtherContinues
    <2>3. Reply("active", inv[i].op).type = "active"
      BY DEF Reply
    <2>4. Records(i)
      BY <1>1, <1>3, <2>1, <2>3 DEF Records, Moved
    <2> QED BY <1>1, <2>1, <2>2, <2>4, WriteKeeps
  <1> QED BY <1>1, <1>2, <1>3, Typed, ActivateIs

LEMMA StoreFailsKeeps ==
  ASSUME IInv, NEW i \in Invocation, StoreFails(i)
  PROVE  IInv'
  <1>1. /\ inv[i].step = "write" /\ inv[i].op = "commit" /\ Answer(i, "unsure")
        /\ UNCHANGED <<stored, expired, conn, request, inbox, device>>
    BY DEF StoreFails, At
  <1>2. CASE UNCHANGED <<pair, link>>
    BY <1>1, <1>2, AnswerKeeps DEF items
  <1>3. ASSUME StoreTypes', PairInv', Advance, ~Uncreated', pair'.commits = pair.commits \cup {inv[i].dev}
        PROVE  IInv'
    <2>1. Moved(i, "reply", Reply("unsure", inv[i].op), inv[i].then, inv[i].known)
      BY <1>1, Typed, AnswerIs
    <2>2. Continues(i)
      BY <1>1, <1>3, <2>1, PlainContinues DEF Plain
    <2>3. Reply("unsure", inv[i].op).type = "unsure"
      BY DEF Reply
    <2>4. Records(i)
      BY <1>1, <1>3, <2>1, <2>3 DEF Records, Moved
    <2> QED BY <1>1, <1>3, <2>2, <2>4, WriteKeeps
  <1>4. CASE /\ pair.status = "READY" /\ UNCHANGED link
             /\ pair' = [pair EXCEPT !.status = "HALF_COMMITTED", !.commits = @ \cup {inv[i].dev}]
    BY <1>1, <1>3, <1>4, HalfWritten DEF device
  <1>5. CASE /\ ActivationHolds(i) /\ link' = "active"
             /\ pair' = [pair EXCEPT !.status = "ACTIVE", !.commits = @ \cup {inv[i].dev}]
    BY <1>1, <1>3, <1>5, ActivationWritten DEF device
  <1> QED BY <1>2, <1>4, <1>5 DEF StoreFails

\* A pair that is closed, unless it is active.
LEMMA ClosingWritten ==
  ASSUME IInv, pair.status # "ACTIVE", pair' = [pair EXCEPT !.status = "CLOSED"], link' = link
  PROVE  /\ PairInv' /\ Advance /\ pair' \in PairItem /\ pair'.status = "CLOSED"
         /\ pair'.commits = pair.commits
  <1>1. /\ pair' \in PairItem /\ pair'.status = "CLOSED" /\ pair'.sideB = pair.sideB
        /\ pair'.commits = pair.commits
    BY PairWrites DEF Statuses
  <1> QED BY <1>1, Typed DEF PairInv, Advance

LEMMA CancelWritesKeeps ==
  ASSUME IInv, NEW i \in Invocation, CancelWrites(i)
  PROVE  IInv'
  <1>1. /\ inv[i].step = "write" /\ inv[i].op = "cancel"
        /\ UNCHANGED <<link, stored, expired, conn, request, inbox, device>>
    BY DEF CancelWrites, At
  <1>2. CASE Answer(i, "refused") /\ UNCHANGED pair
    BY <1>1, <1>2, AnswerKeeps DEF items
  <1>3. CASE pair.status # "ACTIVE" /\ pair' = [pair EXCEPT !.status = "CLOSED"] /\ Go(i, "tellPeer")
    <2>1. /\ PairInv' /\ Advance /\ pair' \in PairItem /\ pair'.status = "CLOSED"
          /\ pair'.commits = pair.commits
      BY <1>1, <1>3, ClosingWritten
    <2>2. Moved(i, "tellPeer", inv[i].out, inv[i].then, inv[i].known)
      BY <1>3, Typed, GoIs DEF Steps, Cleaning
    <2>3. Continues(i)
      BY <1>1, <2>1, <2>2, OtherContinues
    <2>4. StoreTypes'
      BY <1>1, <2>1, Typed DEF StoreTypes
    <2>5. ~Uncreated'
      BY <1>1, Typed DEF CreationInv, Uncreated, device
    <2>6. Records(i)
      BY <2>1 DEF Records
    <2> QED BY <1>1, <2>1, <2>3, <2>4, <2>5, <2>6, WriteKeeps
  <1> QED BY <1>2, <1>3 DEF CancelWrites

LEMMA CleanWritesKeeps ==
  ASSUME IInv, NEW i \in Invocation, CleanWrites(i)
  PROVE  IInv'
  <1>1. /\ inv[i].step = "cleanWrite" /\ inv[i].tgt \in Device
        /\ UNCHANGED <<link, expired, conn, request, inbox, device>>
    BY Fields DEF CleanWrites, At, Knows, Cleaning
  <1>2. CASE Go(i, "clean") /\ UNCHANGED <<pair, stored>>
    <2>1. Moved(i, "clean", inv[i].out, inv[i].then, inv[i].known)
      BY <1>1, <1>2, Typed, GoIs DEF Steps, Cleaning
    <2> QED BY <1>1, <1>2, <2>1, Fields, Quiet, QuietTells, PlainKeeps DEF Plain, items
  <1>3. CASE /\ stored' = [stored EXCEPT ![inv[i].tgt] = "absent"]
             /\ \/ pair' = pair
                \/ inv[i].known /\ pair.status # "ACTIVE" /\ pair' = [pair EXCEPT !.status = "CLOSED"]
             /\ \/ Go(i, "cleanRead") 
                \/ Resume(i)
    <2>1. PairInv' /\ Advance /\ pair' \in PairItem /\ Records(i)
      <3>1. CASE pair' = pair
        BY <1>1, <3>1, Typed DEF PairInv, Advance, Records, StoreTypes
      <3>2. CASE pair.status # "ACTIVE" /\ pair' = [pair EXCEPT !.status = "CLOSED"]
        BY <1>1, <3>2, ClosingWritten DEF Records
      <3> QED BY <1>3, <3>1, <3>2
    <2>2. \/ Ended(i)
          \/ inv[i].then # "idle" /\ Moved(i, inv[i].then, inv[i].out, inv[i].then, inv[i].known)
          \/ Moved(i, "cleanRead", inv[i].out, inv[i].then, inv[i].known)
      BY <1>3, Typed, Fields, GoIs, ResumeIs DEF Steps, Cleaning
    <2>3. Continues(i)
      <3>1. CASE Moved(i, "cleanRead", inv[i].out, inv[i].then, inv[i].known)
        BY <1>1, <2>1, <3>1, PlainContinues DEF Plain
      <3> QED BY <1>1, <2>1, <2>2, <3>1, ResumeContinues
    <2>4. Told(i)
      BY <1>1, QuietTells
    <2>5. StoreTypes'
      BY <1>1, <1>3, <2>1, Typed DEF StoreTypes
    <2>6. Stores(i)
      BY <1>1, <2>1, <2>5 DEF Stores, device
    <2>7. stored'[inv[i].tgt] = "absent" /\ \A d \in Device : stored'[d] \in {stored[d], "absent"}
      BY <1>1, <1>3, Typed DEF StoreTypes
    <2>8. /\ Uncreated' => Uncreated
          /\ phase[Mac] = "off" => stored'[Mac] = "absent"
      BY <1>1, <2>7, Typed DEF Uncreated, CreationInv, device, Device
    <2>9. Uncreated => pair' = pair /\ ~inv'[i].known /\ inv'[i].out # Reply("ok", "create")
      BY <1>3, <2>2, Typed, IdleIs, NoneAssumption DEF CreationInv, Moved, Ended, Event, Reply, Requests
    <2>10. CreationInv'
      BY <2>3, <2>4, <2>6, <2>7, <2>8, <2>9, CreationStays
    <2> QED BY <2>1, <2>3, <2>4, <2>6, <2>10, RelayKeeps
  <1> QED BY <1>2, <1>3 DEF CleanWrites

LEMMA ReceiveKeeps ==
  ASSUME IInv, NEW i \in Invocation, Receive(i)
  PROVE  IInv'
  <1>1. PICK r \in request :
           /\ request' = request \ {r} /\ At(i, "idle") /\ InvTypes' /\ Others(i)
           /\ inv'[i].op = r.op /\ inv'[i].dev = r.dev /\ r.op \in Requests /\ r.dev \in Device
           /\ inv'[i].then = "idle" /\ ~inv'[i].known
           /\ (inv'[i].step = "clean" => inv'[i].tgt \in Device)
           /\ \/ inv'[i].step \in {"clean", "read"} /\ inv'[i].out = Event("ok")
              \/ inv'[i].step = "write" /\ r.op = "create" /\ inv'[i].out = Event("ok")
              \/ inv'[i].step = "reject" /\ inv'[i].out = Reply("refused", r.op)
    BY Typed, ReceiveIs
  <1>2. UNCHANGED <<items, expired, conn, inbox, device>> /\ r \in [op: Requests, dev: Device]
    BY Typed DEF Receive, RequestTypes
  <1>3. inv[i] = Idle
    BY <1>1, Fields DEF At, Knows
  <1>4. /\ Event("ok").type = "ok" /\ Event("ok").re = None
        /\ Reply("refused", r.op).type = "refused" /\ Reply("refused", r.op).re = r.op
    BY DEF Event, Reply
  <1>5. Knows(i)'
    BY <1>1, <1>4 DEF Knows, Cleaning
  <1>6. InvocationInv'
    BY <1>1, <1>2, <1>5, Typed DEF InvocationInv, Knows, Others, items, Member
  <1>7. \A j \in Invocation, d \in Device :
          /\ Handles(j, d)' => Handles(j, d) \/ (j = i /\ r = Commit(d))
          /\ Open(j, d)' => Open(j, d) \/ (j = i /\ r = Commit(d))
    BY <1>1, <1>2 DEF Handles, Open, Others, Commit
  <1>8. \A d \in Device : Commit(d) \in request' => Commit(d) \in request /\ r # Commit(d)
    BY <1>1
  <1>9. \A d \in Device : Posted(d)' = Posted(d)
    BY <1>2 DEF Posted
  <1>10. TokenInv'
    <2> SUFFICES ASSUME NEW d \in Device
        PROVE  (/\ Commit(d) \in request =>
                     MaySent(d) /\ d \notin pair.commits /\ \A j \in Invocation : ~Handles(j, d)
                /\ \A j \in Invocation : Handles(j, d) => MaySent(d)
                /\ \A j \in Invocation : Open(j, d) => d \notin pair.commits
                /\ \A j, k \in Invocation : Handles(j, d) /\ Handles(k, d) => j = k
                /\ d \in pair.commits => MaySent(d)
                /\ \A m \in Posted(d) : m.re = "commit" => MaySent(d))'
      BY DEF TokenInv
    <2>1. MaySent(d)' <=> MaySent(d)
      BY <1>2 DEF MaySent, device
    <2>2. pair' = pair
      BY <1>2 DEF items
    <2> QED BY <1>1, <1>7, <1>8, <1>9, <2>1, <2>2, Typed DEF TokenInv
  <1>11. RefusalInv'
    <2>1. pair' = pair
      BY <1>2 DEF items
    <2>2. ASSUME NEW j \in Invocation, NEW d \in Device, Handles(j, d)', inv'[j].out.type = "refused"
          PROVE  d \notin pair.commits
      <3>1. CASE j = i
        BY <1>1, <1>7, <2>2, <3>1, <1>3, IdleIs, NoneAssumption, Typed DEF Handles, TokenInv, Requests
      <3>2. CASE j # i
        BY <1>1, <2>2, <3>2, Typed DEF RefusalInv, Others, Handles
      <3> QED BY <3>1, <3>2
    <2>3. ASSUME NEW d \in Device, Reply("refused", "commit") \in Posted(d)
          PROVE  d \notin pair.commits /\ Commit(d) \notin request' /\ \A j \in Invocation : ~Open(j, d)'
      BY <1>1, <1>7, <1>8, <2>3, Typed DEF RefusalInv
    <2> QED BY <1>9, <2>1, <2>2, <2>3 DEF RefusalInv
  <1>12. CommitInv'
    BY <1>1, <1>2, <1>7, <1>8, Typed DEF CommitInv, items, device
  <1>13. CreationInv'
    <2>1. Uncreated' <=> Uncreated
      BY <1>2 DEF Uncreated, items, device
    <2>2. inv'[i].out # Reply("ok", "create")
      BY <1>1, NoneAssumption DEF Event, Reply, Requests
    <2>3. CASE Uncreated
      BY <1>1, <1>2, <1>9, <2>1, <2>2, <2>3, Typed DEF CreationInv, Others, items, device
    <2>4. CASE ~Uncreated
      BY <1>2, <2>1, <2>4, Typed DEF CreationInv, items, device
    <2> QED BY <2>3, <2>4
  <1>14. PairInv' /\ PostedInv' /\ DiskInv' /\ StopInv'
    BY <1>2, <1>9, Typed DEF PairInv, PostedInv, DiskInv, StopInv, Member, items, device
  <1>15. StoreTypes' /\ RequestTypes' /\ InboxTypes' /\ DeviceTypes'
    BY <1>1, <1>2, Typed DEF StoreTypes, RequestTypes, InboxTypes, DeviceTypes, items, device
  <1> QED BY <1>1, <1>6, <1>10, <1>11, <1>12, <1>13, <1>14, <1>15
          DEF IInv, TypeOK, StoreTypes, InvTypes, RequestTypes, InboxTypes, DeviceTypes

-----------------------------------------------------------------------------
\* Nothing of d's commit can count any more.
NoCount(d) ==
  \/ pair.status = "CLOSED"
  \/ d \notin pair.commits /\ Commit(d) \notin request /\ \A i \in Invocation : ~Open(i, d)

DiskOf(d) ==
  /\ phase[d] \in {"staged", "waiting", "activated"} => disk[d] = "pending"
  /\ phase[d] \notin {"staged", "waiting", "activated", "ended"} => disk[d] = "none"
  /\ phase[d] \notin {"off", "joining", "ended"} \/ disk[d] # "none" => Member(pair, d)
  /\ phase[d] = "activated" \/ disk[d] \in {"active", "revoked"} => link # "none"
  /\ disk[d] = "forgotten" => d = Mac /\ "forget" \in Events

LEMMA Unsent ==
  ASSUME IInv, NEW d \in Device, ~MaySent(d)
  PROVE  /\ NoCount(d) /\ Commit(d) \notin request /\ d \notin pair.commits
         /\ \A i \in Invocation : ~Handles(i, d)
         /\ Reply("refused", "commit") \notin Posted(d)
         /\ \A m \in Posted(d) : m.re # "commit"
  <1>1. \A i \in Invocation : ~Handles(i, d)
    BY Typed DEF TokenInv
  <1>2. \A m \in Posted(d) : m.re # "commit"
    BY Typed DEF TokenInv
  <1>3. Reply("refused", "commit") \notin Posted(d)
    BY <1>2 DEF Reply
  <1> QED BY <1>1, <1>2, <1>3, Typed DEF TokenInv, NoCount, Open

\* A step of device d: it may take a message, send one, and go on.
LEMMA DeviceKeeps ==
  ASSUME IInv, NEW d \in Device, UNCHANGED <<pair, inv>>,
         StoreTypes', RequestTypes', InboxTypes', DeviceTypes',
         link' # "none" <=> link # "none",
         \A x \in Device : Posted(x)' \subseteq Posted(x),
         \A x \in Device \ {d} : phase'[x] = phase[x] /\ disk'[x] = disk[x],
         MaySent(d) => MaySent(d)',
         \A r \in request' : \/ r \in request
                             \/ r.dev = d /\ r.op # "commit"
                             \/ r.dev \in Device /\ r.op = "disconnect"
                             \/ r = Commit(d) /\ ~MaySent(d) /\ MaySent(d)' /\ disk'[d] = "pending",
         DiskOf(d)',
         disk'[d] \in {"none", "refused"} => disk[d] \in {"none", "refused"} \/ NoCount(d),
         Uncreated' => /\ Uncreated /\ phase'[Mac] \in {"off", "creating", "ended"}
                       /\ \A r \in request' : r \in request \/ r.op # "cancel"
                       /\ \A x \in Device : stored'[x] \in {stored[x], "free"},
         phase'[Mac] = "off" => stored'[Mac] = "absent",
         StopInv'
  PROVE  IInv'
  <1>1. \A x \in Device : Commit(x) \in request' =>
          \/ Commit(x) \in request
          \/ x = d /\ ~MaySent(d) /\ MaySent(d)' /\ disk'[d] = "pending"
    BY DEF Commit
  <1>2. \A x \in Device : MaySent(x) => MaySent(x)'
    BY DEF MaySent
  <1>3. \A j \in Invocation, x \in Device : (Handles(j, x)' <=> Handles(j, x)) /\ (Open(j, x)' <=> Open(j, x))
    BY DEF Handles, Open
  <1>4. InvTypes' /\ PairInv' /\ InvocationInv'
    BY Typed DEF InvTypes, PairInv, InvocationInv, Knows, Member
  <1>5. TokenInv'
    <2> SUFFICES ASSUME NEW x \in Device
        PROVE  (/\ Commit(x) \in request =>
                     MaySent(x) /\ x \notin pair.commits /\ \A j \in Invocation : ~Handles(j, x)
                /\ \A j \in Invocation : Handles(j, x) => MaySent(x)
                /\ \A j \in Invocation : Open(j, x) => x \notin pair.commits
                /\ \A j, k \in Invocation : Handles(j, x) /\ Handles(k, x) => j = k
                /\ x \in pair.commits => MaySent(x)
                /\ \A m \in Posted(x) : m.re = "commit" => MaySent(x))'
      BY DEF TokenInv
    <2>1. (Commit(x) \in request =>
             MaySent(x) /\ x \notin pair.commits /\ \A j \in Invocation : ~Handles(j, x))'
      BY <1>1, <1>2, <1>3, Unsent, Typed DEF TokenInv
    <2>2. (\A m \in Posted(x) : m.re = "commit" => MaySent(x))'
      BY <1>2, Typed DEF TokenInv
    <2> QED BY <1>2, <1>3, <2>1, <2>2, Typed DEF TokenInv
  <1>6. RefusalInv'
    <2>1. ASSUME NEW j \in Invocation, NEW x \in Device, Handles(j, x), inv[j].out.type = "refused"
          PROVE  x \notin pair.commits
      BY <2>1, Typed DEF RefusalInv
    <2>2. ASSUME NEW x \in Device, Reply("refused", "commit") \in Posted(x)
          PROVE  x \notin pair.commits /\ Commit(x) \notin request' /\ \A j \in Invocation : ~Open(j, x)
      BY <1>1, <2>2, Unsent, Typed DEF RefusalInv
    <2> QED BY <1>3, <2>1, <2>2 DEF RefusalInv
  <1>7. PostedInv'
    BY Typed DEF PostedInv
  <1>8. DiskInv'
    <2>1. \A x \in Device : DiskOf(x)
      BY Typed DEF DiskInv, DiskOf
    <2>2. \A x \in Device : DiskOf(x)'
      BY <2>1 DEF DiskOf, Member
    <2> QED BY <2>2 DEF DiskInv, DiskOf
  <1>9. CommitInv'
    <2> SUFFICES ASSUME NEW x \in Device, disk'[x] \in {"none", "refused"}, pair.status # "CLOSED"
        PROVE  x \notin pair.commits /\ Commit(x) \notin request' /\ \A j \in Invocation : ~Open(j, x)
      BY <1>3 DEF CommitInv
    <2>1. NoCount(x)
      BY Typed DEF CommitInv, NoCount
    <2> QED BY <1>1, <2>1 DEF NoCount
  <1>10. CreationInv'
    <2>1. CASE Uncreated'
      BY <2>1, Typed DEF CreationInv
    <2>2. CASE ~Uncreated'
      BY <2>2 DEF CreationInv
    <2> QED BY <2>1, <2>2
  <1> QED BY <1>4, <1>5, <1>6, <1>7, <1>8, <1>9, <1>10
          DEF IInv, TypeOK, StoreTypes, InvTypes, RequestTypes, InboxTypes, DeviceTypes

\* Its parts.
LEMMA SendIs ==
  ASSUME IInv, NEW d \in Device, NEW op \in Requests, Send(d, op)
  PROVE  RequestTypes' /\ \A r \in request' : r \in request \/ r = [op |-> op, dev |-> d]
  BY Typed DEF Send, RequestTypes

LEMMA SameRequests ==
  ASSUME IInv, UNCHANGED request
  PROVE  RequestTypes'
  BY Typed DEF RequestTypes

LEMMA SameInbox ==
  ASSUME IInv, UNCHANGED inbox
  PROVE  InboxTypes' /\ \A x \in Device : Posted(x)' \subseteq Posted(x)
  BY Typed DEF InboxTypes, Posted

LEMMA HangUpIs ==
  ASSUME IInv, NEW d \in Device, HangUp(d), UNCHANGED <<pair, link, stored, expired>>
  PROVE  StoreTypes'
  BY Typed DEF HangUp, StoreTypes

LEMMA SameStore ==
  ASSUME IInv, UNCHANGED <<pair, link, stored, expired, conn>>
  PROVE  StoreTypes'
  BY Typed DEF StoreTypes

LEMMA ShowIs ==
  ASSUME IInv, NEW p \in Phases, Show(p)
  PROVE  /\ attempt' \in Attempt /\ attempt'.shown = p /\ attempt'.stopAt = attempt.stopAt
         /\ attempt'.stopped = attempt.stopped
  BY Typed DEF Show, DeviceTypes, Attempt

LEMMA PhaseIs ==
  ASSUME IInv, NEW d \in Device, NEW p \in Phases, Phase(d, p)
  PROVE  /\ phase' \in [Device -> Phases] /\ phase'[d] = p
         /\ \A x \in Device \ {d} : phase'[x] = phase[x]
  BY Typed DEF Phase, DeviceTypes

LEMMA SaveIs ==
  ASSUME IInv, NEW d \in Device, NEW c \in Credentials, Save(d, c)
  PROVE  /\ disk' \in [Device -> Credentials] /\ disk'[d] = c
         /\ \A x \in Device \ {d} : disk'[x] = disk[x]
  BY Typed DEF Save, DeviceTypes

LEMMA DiskIs ==
  ASSUME IInv, NEW d \in Device
  PROVE  DiskOf(d) /\ disk[d] \in Credentials /\ phase[d] \in Phases
  BY Typed DEF DiskInv, DiskOf, DeviceTypes

LEMMA FinishKeeps ==
  ASSUME IInv, NEW d \in Device, Busy(d), phase[d] # "activated",
         NEW c \in Credentials, Finish(d, c), c = disk[d] \/ (c = "refused" /\ disk[d] = "pending" /\ NoCount(d)),
         InboxTypes', \A x \in Device : Posted(x)' \subseteq Posted(x),
         UNCHANGED <<items, expired, inv>>
  PROVE  IInv'
  <1>1. /\ phase' \in [Device -> Phases] /\ phase'[d] = "ended"
        /\ \A x \in Device \ {d} : phase'[x] = phase[x]
    BY PhaseIs DEF Finish, Phases
  <1>2. /\ disk' \in [Device -> Credentials] /\ disk'[d] = c
        /\ \A x \in Device \ {d} : disk'[x] = disk[x]
    BY SaveIs DEF Finish
  <1>3. StoreTypes' /\ UNCHANGED <<pair, link, stored>>
    BY HangUpIs DEF Finish, items
  <1>4. /\ attempt' \in Attempt
        /\ d = Mac => attempt'.shown = "ended" /\ attempt'.stopAt = attempt.stopAt
        /\ d # Mac => attempt' = attempt
    BY ShowIs, Typed DEF Finish, Phases, DeviceTypes
  <1>5. /\ RequestTypes'
        /\ \A r \in request' : \/ r \in request
                               \/ d = Mac /\ phase[Mac] # "creating" /\ r = [op |-> "cancel", dev |-> d]
    BY SendIs, SameRequests DEF Finish, Requests
  <1>6. Mac \in Device
    BY DEF Device
  <1>7. DiskOf(d)'
    BY <1>1, <1>2, <1>3, DiskIs DEF DiskOf, Member
  <1>8. StopInv'
    BY <1>1, <1>2, <1>4, <1>6, Typed DEF StopInv
  <1>9. Uncreated' => /\ Uncreated /\ phase'[Mac] \in {"off", "creating", "ended"}
                      /\ \A r \in request' : r \in request \/ r.op # "cancel"
    BY <1>1, <1>3, <1>5, <1>6, Typed DEF Uncreated, CreationInv, Busy
  <1>10. phase'[Mac] = "off" => stored'[Mac] = "absent"
    BY <1>1, <1>3, <1>6, Typed DEF CreationInv
  <1>11. MaySent(d)'
    BY <1>1 DEF MaySent
  <1>12. DeviceTypes'
    BY <1>1, <1>2, <1>4 DEF DeviceTypes
  <1>13. disk'[d] \in {"none", "refused"} => disk[d] \in {"none", "refused"} \/ NoCount(d)
    BY <1>2
  <1>14. \A r \in request' : r \in request \/ (r.dev = d /\ r.op # "commit")
    BY <1>5
  <1> QED BY <1>1, <1>2, <1>3, <1>5, <1>7, <1>8, <1>9, <1>10, <1>11, <1>12, <1>13, <1>14, DeviceKeeps

\* Nothing but sockets, messages and the clock changes.
LEMMA NetworkKeeps ==
  ASSUME IInv, NEW d \in Device, UNCHANGED <<items, inv, device>>,
         conn' \in [Device -> {"none", "up", "cut", "gone"}], expired' \in BOOLEAN,
         InboxTypes', \A x \in Device : Posted(x)' \subseteq Posted(x),
         \A r \in request' : r \in request \/ r = [op |-> "disconnect", dev |-> d]
  PROVE  IInv'
  <1>1. StoreTypes' /\ DeviceTypes' /\ UNCHANGED <<pair, link, stored, phase, attempt, disk>>
    BY Typed DEF StoreTypes, DeviceTypes, items, device
  <1>2. RequestTypes'
    BY Typed DEF RequestTypes, Requests
  <1>3. DiskOf(d)' /\ StopInv'
    BY <1>1, DiskIs, Typed DEF DiskOf, Member, StopInv
  <1>4. Uncreated' => Uncreated /\ phase'[Mac] \in {"off", "creating", "ended"}
    BY <1>1, Typed DEF Uncreated, CreationInv
  <1>5. phase'[Mac] = "off" => stored'[Mac] = "absent"
    BY <1>1, Typed DEF CreationInv
  <1>6. \A r \in request' : r \in request \/ (r.dev \in Device /\ r.op = "disconnect")
    OBVIOUS
  <1> QED BY <1>1, <1>2, <1>3, <1>4, <1>5, <1>6, DeviceKeeps DEF MaySent

LEMMA CommitPendingKeeps ==
  ASSUME IInv, NEW d \in Device, CommitPending(d)
  PROVE  IInv'
  <1>1. InboxTypes' /\ \A x \in Device : Posted(x)' \subseteq Posted(x)
    BY Typed, TookIs DEF CommitPending, Reads
  <1>2. UNCHANGED <<items, inv, device, conn, expired, request>>
    BY DEF CommitPending
  <1> QED BY <1>1, <1>2, Typed, NetworkKeeps DEF StoreTypes

LEMMA SocketKeeps ==
  ASSUME IInv, NEW d \in Device, Cut(d) \/ Notice(d)
  PROVE  IInv'
  <1>1. UNCHANGED <<items, inv, device, expired, inbox>>
    BY DEF Cut, Notice
  <1>2. /\ conn' \in [Device -> {"none", "up", "cut", "gone"}]
        /\ \A r \in request' : r \in request \/ r = [op |-> "disconnect", dev |-> d]
    BY Typed DEF Cut, Notice, StoreTypes
  <1> QED BY <1>1, <1>2, SameInbox, Typed, NetworkKeeps DEF StoreTypes

LEMMA ClockKeeps ==
  ASSUME IInv, Expire \/ UNCHANGED vars
  PROVE  IInv'
  <1>1. UNCHANGED <<items, inv, device, conn, request, inbox>> /\ Mac \in Device
    BY DEF Expire, vars, items, device, Device
  <1>2. expired' \in BOOLEAN /\ conn' \in [Device -> {"none", "up", "cut", "gone"}]
    BY Typed DEF Expire, vars, StoreTypes
  <1> QED BY <1>1, <1>2, SameInbox, NetworkKeeps

\* The user's requests only change what is shown.
LEMMA AttemptKeeps ==
  ASSUME IInv, UNCHANGED <<items, expired, conn, request, inv, inbox, phase, disk>>,
         attempt' \in Attempt, StopInv'
  PROVE  IInv'
  <1>1. StoreTypes' /\ DeviceTypes' /\ UNCHANGED <<pair, link, stored>> /\ Mac \in Device
    BY Typed DEF StoreTypes, DeviceTypes, items, Device
  <1>2. DiskOf(Mac)'
    BY <1>1, DiskIs DEF DiskOf, Member
  <1>3. Uncreated' => Uncreated /\ phase'[Mac] \in {"off", "creating", "ended"}
    BY <1>1, Typed DEF Uncreated, CreationInv
  <1>4. phase'[Mac] = "off" => stored'[Mac] = "absent"
    BY <1>1, Typed DEF CreationInv
  <1> QED BY <1>1, <1>2, <1>3, <1>4, SameInbox, SameRequests, DeviceKeeps DEF MaySent

LEMMA UserKeeps ==
  ASSUME IInv, Decide("approve") \/ Decide("reject") \/ Stop \/ StopReturns
  PROVE  IInv'
  <1>1. UNCHANGED <<items, expired, conn, request, inv, inbox, phase, disk>>
    BY DEF Decide, Stop, StopReturns
  <1>2. attempt \in Attempt
    BY Typed DEF DeviceTypes
  <1>3. CASE Decide("approve") \/ Decide("reject")
    <2>1. attempt' \in Attempt /\ attempt'.shown = attempt.shown /\ attempt'.stopAt = attempt.stopAt
      BY <1>2, <1>3 DEF Decide, Attempt
    <2>2. StopInv'
      BY <1>1, <2>1, Typed DEF StopInv
    <2> QED BY <1>1, <2>1, <2>2, AttemptKeeps
  <1>4. CASE Stop
    <2>1. attempt' \in Attempt /\ attempt'.shown = "cancelled" /\ attempt'.stopAt = attempt.shown
      BY <1>2, <1>4 DEF Stop, Attempt, Phases
    <2>2. phase[Mac] \in {"awaitingApproval", "approved"} => disk[Mac] = "none"
      BY Typed DEF DiskInv, Device
    <2>3. StopInv'
      BY <1>1, <2>1, <2>2, Typed DEF StopInv
    <2> QED BY <1>1, <2>1, <2>3, AttemptKeeps
  <1>5. CASE StopReturns
    <2>1. attempt' \in Attempt /\ attempt'.shown = attempt.shown /\ attempt'.stopAt = attempt.stopAt
      BY <1>2, <1>5 DEF StopReturns, Attempt
    <2>2. StopInv'
      BY <1>1, <2>1, Typed DEF StopInv
    <2> QED BY <1>1, <2>1, <2>2, AttemptKeeps
  <1> QED BY <1>3, <1>4, <1>5

\* A device begins: it dials, and sends its request.
LEMMA DialKeeps ==
  ASSUME IInv, NEW d \in Device, phase[d] = "off", NEW p \in {"creating", "joining"}, Phase(d, p),
         conn' = [conn EXCEPT ![d] = "up"], stored' = [stored EXCEPT ![d] = "free"],
         NEW op \in {"create", "join"}, request' = request \cup {[op |-> op, dev |-> d]},
         p = "creating" <=> d = Mac,
         UNCHANGED <<pair, link, expired, inv, inbox, attempt, disk>>
  PROVE  IInv'
  <1>1. /\ phase' \in [Device -> Phases] /\ phase'[d] = p
        /\ \A x \in Device \ {d} : phase'[x] = phase[x]
    BY PhaseIs DEF Phases
  <1>2. /\ StoreTypes' /\ stored'[d] = "free" /\ \A x \in Device \ {d} : stored'[x] = stored[x]
    BY Typed DEF StoreTypes
  <1>3. RequestTypes' /\ \A r \in request' : r \in request \/ (r.dev = d /\ r.op \in {"create", "join"})
    BY Typed DEF RequestTypes, Requests
  <1>4. DeviceTypes' /\ DiskOf(d)'
    BY <1>1, DiskIs, Typed DEF DeviceTypes, DiskOf, Member
  <1>5. StopInv'
    BY <1>1, Typed DEF StopInv, Device
  <1>6. /\ Uncreated' => Uncreated /\ phase'[Mac] \in {"off", "creating", "ended"}
        /\ phase'[Mac] = "off" => stored'[Mac] = "absent"
    BY <1>1, <1>2, Typed DEF Uncreated, CreationInv, Device
  <1> QED BY <1>1, <1>2, <1>3, <1>4, <1>5, <1>6, SameInbox, DeviceKeeps DEF MaySent

LEMMA BeginKeeps ==
  ASSUME IInv, ShowCode \/ \E p \in Phone : Scan(p)
  PROVE  IInv'
  <1>1. CASE ShowCode
    <2>1. Mac \in Device
      BY DEF Device
    <2> QED BY <1>1, <2>1, DialKeeps DEF ShowCode
  <1>2. ASSUME NEW p \in Phone, Scan(p) PROVE IInv'
    <2>1. p \in Device /\ p # Mac
      BY PairingAssumption DEF Device
    <2> QED BY <1>2, <2>1, DialKeeps DEF Scan
  <1> QED BY <1>1, <1>2

\* It goes on to p, with the credentials it has.
LEMMA GoesOn ==
  ASSUME IInv, NEW d \in Device, NEW p \in Phases \ {"off", "ended", "joining", "staged"},
         phase[d] \notin {"off", "ended"}, Phase(d, p),
         UNCHANGED <<items, expired, conn, inv, disk>>, attempt' \in Attempt,
         p \in {"waiting", "activated"} <=> phase[d] \in {"staged", "waiting"},
         phase[d] # "activated", phase[d] = "waiting" => p = "activated" /\ link # "none",
         p = "activated" => phase[d] = "waiting",
         d # Mac /\ phase[d] = "joining" => Member(pair, d),
         InboxTypes', \A x \in Device : Posted(x)' \subseteq Posted(x),
         \/ UNCHANGED request
         \/ \E op \in {"frame", "commit"} :
              Send(d, op) /\ (op = "commit" => phase[d] = "staged" /\ p = "waiting"),
         d = Mac => ~Uncreated /\ StopInv', d # Mac => UNCHANGED attempt
  PROVE  IInv'
  <1>1. /\ phase' \in [Device -> Phases] /\ phase'[d] = p
        /\ \A x \in Device \ {d} : phase'[x] = phase[x]
    BY PhaseIs
  <1>2. StoreTypes' /\ DeviceTypes' /\ UNCHANGED <<pair, link, stored>>
    BY <1>1, SameStore, Typed DEF DeviceTypes, items
  <1>3. Member(pair, d)
    BY DiskIs DEF DiskOf, Member
  <1>4. DiskOf(d)'
    BY <1>1, <1>2, <1>3, DiskIs DEF DiskOf, Member, Phases
  <1>5. StopInv'
    BY <1>1, Typed DEF StopInv, Device
  <1>6. MaySent(d) => MaySent(d)'
    BY <1>1 DEF MaySent
  <1>7. /\ RequestTypes'
        /\ \A r \in request' : \/ r \in request
                               \/ r.dev = d /\ r.op = "frame"
                               \/ r = Commit(d) /\ phase[d] = "staged" /\ p = "waiting"
    <2>1. CASE UNCHANGED request
      BY <2>1, SameRequests
    <2>2. CASE Send(d, "frame")
      BY <2>2, SendIs DEF Requests
    <2>3. CASE Send(d, "commit") /\ phase[d] = "staged" /\ p = "waiting"
      BY <2>3, SendIs DEF Requests, Commit
    <2> QED BY <2>1, <2>2, <2>3
  <1>8. phase[d] = "staged" /\ p = "waiting" => ~MaySent(d) /\ MaySent(d)' /\ disk'[d] = "pending"
    BY <1>1, DiskIs DEF MaySent, DiskOf
  <1>9. \A r \in request' : \/ r \in request
                            \/ r.dev = d /\ r.op # "commit"
                            \/ r = Commit(d) /\ ~MaySent(d) /\ MaySent(d)' /\ disk'[d] = "pending"
    BY <1>7, <1>8
  <1>10. Uncreated' => /\ Uncreated /\ phase'[Mac] \in {"off", "creating", "ended"}
                       /\ \A r \in request' : r \in request \/ r.op # "cancel"
    BY <1>1, <1>2, <1>7, Typed DEF Uncreated, CreationInv, Device, Commit
  <1>11. phase'[Mac] = "off" => stored'[Mac] = "absent"
    BY <1>1, <1>2, Typed DEF CreationInv, Device
  <1> QED BY <1>1, <1>2, <1>4, <1>5, <1>6, <1>7, <1>9, <1>10, <1>11, DeviceKeeps

\* Once the Mac has its pair, the pair exists.
LEMMA MacMade ==
  ASSUME IInv, phase[Mac] \notin {"off", "creating", "ended"}
  PROVE  ~Uncreated
  BY Typed DEF CreationInv

LEMMA ProceedsKeeps ==
  ASSUME IInv, NEW m, NEW from \in {"creating", "showingQR", "handshaking"},
         NEW to \in {"showingQR", "handshaking", "awaitingApproval"}, Proceeds(m, from, to),
         from = "creating" => m = Reply("ok", "create")
  PROVE  IInv'
  <1>1. Mac \in Device
    BY DEF Device
  <1>2. /\ InboxTypes' /\ \A x \in Device : Posted(x)' \subseteq Posted(x)
        /\ Head(inbox[Mac]) \in Posted(Mac)
    BY <1>1, Typed, TookIs DEF Proceeds, Reads
  <1>3. ~Uncreated
    BY <1>1, <1>2, MacMade, Typed DEF Proceeds, Reads, CreationInv
  <1>4. attempt' \in Attempt /\ attempt'.shown = to /\ attempt'.stopAt = attempt.stopAt
    BY ShowIs DEF Proceeds, Phases
  <1>5. Phase(Mac, to) /\ phase'[Mac] = to /\ phase[Mac] = from
        /\ UNCHANGED <<items, expired, conn, request, inv, disk>>
    BY <1>1, PhaseIs DEF Proceeds, Phases
  <1>6. StopInv'
    BY <1>4, <1>5, Typed DEF StopInv
  <1> QED BY <1>1, <1>2, <1>3, <1>4, <1>5, <1>6, GoesOn DEF Phases

\* The attempt ends without a word about its commit.
LEMMA EndKeeps ==
  ASSUME IInv, NEW d \in Device, Busy(d), phase[d] # "activated", Finish(d, disk[d]),
         InboxTypes', \A x \in Device : Posted(x)' \subseteq Posted(x),
         UNCHANGED <<items, expired, inv>>
  PROVE  IInv'
  <1>1. disk[d] \in Credentials
    BY DiskIs
  <1> QED BY <1>1, FinishKeeps

LEMMA ApprovalKeeps ==
  ASSUME IInv, TakeDecision \/ BeginCommit \/ GrantSent
  PROVE  IInv'
  <1>1. /\ Mac \in Device /\ phase[Mac] \in {"awaitingApproval", "approved", "committing"}
        /\ UNCHANGED <<items, expired, inv, inbox>>
    BY DEF TakeDecision, BeginCommit, GrantSent, Device
  <1>2. ~Uncreated /\ Busy(Mac)
    BY <1>1, MacMade DEF Busy
  <1>3. CASE Finish(Mac, disk[Mac])
    BY <1>1, <1>2, <1>3, SameInbox, EndKeeps
  <1>4. CASE /\ phase[Mac] = "awaitingApproval" /\ Phase(Mac, "approved")
             /\ UNCHANGED <<attempt, disk, conn, request>>
    <2>1. attempt' \in Attempt /\ StopInv'
      BY <1>1, <1>4, PhaseIs, Typed DEF StopInv, DeviceTypes, Phases
    <2> QED BY <1>1, <1>2, <1>4, <2>1, SameInbox, GoesOn DEF Phases
  <1>5. CASE /\ phase[Mac] = "approved" /\ attempt.shown = "awaitingApproval" /\ Phase(Mac, "committing")
             /\ Show("committing") /\ UNCHANGED <<disk, conn, request>>
    <2>1. attempt' \in Attempt /\ attempt'.shown = "committing" /\ attempt'.stopAt = attempt.stopAt
      BY <1>5, ShowIs DEF Phases
    <2>2. StopInv'
      BY <1>1, <1>5, <2>1, PhaseIs, Typed DEF StopInv, Phases
    <2> QED BY <1>1, <1>2, <1>5, <2>1, <2>2, SameInbox, GoesOn DEF Phases
  <1>6. CASE /\ phase[Mac] = "committing" /\ Send(Mac, "frame") /\ Phase(Mac, "granted")
             /\ UNCHANGED <<attempt, disk, conn>>
    <2>1. attempt' \in Attempt /\ StopInv'
      BY <1>1, <1>6, PhaseIs, Typed DEF StopInv, DeviceTypes, Phases
    <2> QED BY <1>1, <1>2, <1>6, <2>1, SameInbox, GoesOn DEF Phases
  <1> QED BY <1>3, <1>4, <1>5, <1>6 DEF TakeDecision, BeginCommit, GrantSent

LEMMA PhoneKeeps ==
  ASSUME IInv, NEW p \in Phone, Ready(p) \/ Joined(p) \/ Granted(p)
  PROVE  IInv'
  <1>1. /\ p \in Device /\ p # Mac /\ UNCHANGED <<items, expired, conn, inv, attempt, disk>>
        /\ Took(p) /\ inbox[p] # <<>>
    BY PairingAssumption DEF Ready, Joined, Granted, Device, Reads
  <1>2. /\ InboxTypes' /\ \A x \in Device : Posted(x)' \subseteq Posted(x)
        /\ Head(inbox[p]) \in Posted(p)
    BY <1>1, Typed, TookIs
  <1>3. attempt' \in Attempt
    BY <1>1, Typed DEF DeviceTypes
  <1>4. CASE Ready(p)
    <2>1. phase[p] = "joining" /\ Phase(p, "joined") /\ UNCHANGED request
      BY <1>4 DEF Ready
    <2>2. Event("ready") \in Posted(p)
      BY <1>2, <1>4 DEF Ready, Reads
    <2>3. Member(pair, p)
      BY <1>1, <2>2, Typed DEF PostedInv, Member
    <2> QED BY <1>1, <1>2, <1>3, <2>1, <2>3, GoesOn DEF Phases
  <1>5. CASE Joined(p)
    BY <1>1, <1>2, <1>3, <1>5, GoesOn DEF Joined, Phases
  <1>6. CASE Granted(p)
    BY <1>1, <1>2, <1>3, <1>6, GoesOn DEF Granted, Phases
  <1> QED BY <1>4, <1>5, <1>6

\* A device saves something that no step of the relay depends on.
LEMMA SaveKeeps ==
  ASSUME IInv, NEW d \in Device, NEW p \in Phases, phase[d] # "off", p # "off", Phase(d, p),
         NEW c \in Credentials, Save(d, c), c \in {"none", "refused"} => disk[d] = c,
         UNCHANGED <<pair, stored, expired, inv>>, StoreTypes', link' # "none" <=> link # "none",
         MaySent(d) => p = "ended", DiskOf(d)', attempt' \in Attempt, StopInv',
         InboxTypes', \A x \in Device : Posted(x)' \subseteq Posted(x), UNCHANGED request,
         d = Mac => ~Uncreated \/ p = "ended"
  PROVE  IInv'
  <1>1. /\ phase' \in [Device -> Phases] /\ phase'[d] = p
        /\ \A x \in Device \ {d} : phase'[x] = phase[x]
    BY PhaseIs
  <1>2. /\ disk' \in [Device -> Credentials] /\ disk'[d] = c
        /\ \A x \in Device \ {d} : disk'[x] = disk[x]
    BY SaveIs
  <1>3. DeviceTypes' /\ (MaySent(d) => MaySent(d)')
    BY <1>1, <1>2 DEF DeviceTypes, MaySent
  <1>4. /\ Uncreated' => Uncreated /\ phase'[Mac] \in {"off", "creating", "ended"}
        /\ phase'[Mac] = "off" => stored'[Mac] = "absent"
    BY <1>1, Typed DEF Uncreated, CreationInv, Device
  <1> QED BY <1>1, <1>2, <1>3, <1>4, SameRequests, DeviceKeeps

LEMMA StageKeeps ==
  ASSUME IInv, NEW d \in Device, Stage(d)
  PROVE  IInv'
  <1>1. phase[d] = "granted" /\ UNCHANGED <<items, expired, inv, inbox>>
    BY DEF Stage
  <1>2. CASE Finish(d, disk[d])
    BY <1>1, <1>2, SameInbox, EndKeeps DEF Busy
  <1>3. CASE Save(d, "pending") /\ Phase(d, "staged") /\ UNCHANGED <<attempt, conn, request>>
    <2>1. StoreTypes' /\ attempt' \in Attempt /\ UNCHANGED <<pair, link, stored>>
      BY <1>1, <1>3, SameStore, Typed DEF items, DeviceTypes
    <2>2. phase'[d] = "staged" /\ disk'[d] = "pending"
      BY <1>3, PhaseIs, SaveIs DEF Phases, Credentials
    <2>3. DiskOf(d)'
      BY <1>1, <2>1, <2>2, DiskIs DEF DiskOf, Member
    <2>4. \A x \in Device \ {d} : phase'[x] = phase[x] /\ disk'[x] = disk[x]
      BY <1>3, PhaseIs, SaveIs DEF Phases, Credentials
    <2>5. StopInv'
      BY <1>1, <1>3, <2>2, <2>4, Typed DEF StopInv, Device
    <2>6. d = Mac => ~Uncreated
      BY <1>1, MacMade
    <2>7. ~MaySent(d)
      BY <1>1 DEF MaySent
    <2> QED BY <1>1, <1>3, <2>1, <2>3, <2>5, <2>6, <2>7, SameInbox, SaveKeeps DEF Phases, Credentials
  <1> QED BY <1>2, <1>3 DEF Stage

LEMMA SendCommitKeeps ==
  ASSUME IInv, NEW d \in Device, SendCommit(d)
  PROVE  IInv'
  <1>1. phase[d] = "staged" /\ UNCHANGED <<items, expired, inv, inbox>>
    BY DEF SendCommit
  <1>2. CASE Finish(d, disk[d])
    BY <1>1, <1>2, SameInbox, EndKeeps DEF Busy
  <1>3. CASE Send(d, "commit") /\ Phase(d, "waiting") /\ UNCHANGED <<attempt, disk, conn>>
    <2>1. attempt' \in Attempt /\ (d = Mac => ~Uncreated)
      BY <1>1, <1>3, MacMade, Typed DEF DeviceTypes
    <2>2. d = Mac => StopInv'
      BY <1>1, <1>3, PhaseIs, Typed DEF StopInv, Phases
    <2> QED BY <1>1, <1>3, <2>1, <2>2, SameInbox, GoesOn DEF Phases
  <1> QED BY <1>2, <1>3 DEF SendCommit

LEMMA ActivatedKeeps ==
  ASSUME IInv, NEW d \in Device, Activated(d)
  PROVE  IInv'
  <1>1. /\ phase[d] = "waiting" /\ Took(d) /\ Phase(d, "activated") /\ inbox[d] # <<>>
        /\ Head(inbox[d]) \in Success
        /\ UNCHANGED <<items, expired, conn, request, inv, attempt, disk>>
    BY DEF Activated, Reads
  <1>2. /\ InboxTypes' /\ \A x \in Device : Posted(x)' \subseteq Posted(x)
        /\ Head(inbox[d]) \in Posted(d)
    BY <1>1, Typed, TookIs
  <1>3. link # "none"
    BY <1>1, <1>2, Typed DEF Success, PostedInv
  <1>4. attempt' \in Attempt /\ (d = Mac => ~Uncreated)
    BY <1>1, MacMade, Typed DEF DeviceTypes
  <1>5. d = Mac => StopInv'
    BY <1>1, PhaseIs, Typed DEF StopInv, Phases
  <1>6. DiskOf(d)
    BY DiskIs
  <1> QED BY <1>1, <1>2, <1>3, <1>4, <1>5, <1>6, GoesOn DEF Phases

\* A refusal is a proof.
LEMMA RejectedKeeps ==
  ASSUME IInv, NEW d \in Device, Rejected(d)
  PROVE  IInv'
  <1>1. /\ phase[d] = "waiting" /\ Took(d) /\ inbox[d] # <<>> /\ Head(inbox[d]) \in Rejection
        /\ UNCHANGED <<items, expired, inv>>
    BY DEF Rejected, Reads
  <1>2. /\ InboxTypes' /\ \A x \in Device : Posted(x)' \subseteq Posted(x)
        /\ Head(inbox[d]) \in Posted(d)
    BY <1>1, Typed, TookIs
  <1>3. NoCount(d)
    BY <1>1, <1>2, Typed DEF Rejection, NoCount, PostedInv, RefusalInv
  <1>4. disk[d] = "pending" /\ Busy(d)
    BY <1>1, DiskIs DEF DiskOf, Busy
  <1>5. CASE Finish(d, "refused")
    BY <1>1, <1>2, <1>3, <1>4, <1>5, FinishKeeps DEF Credentials
  <1>6. CASE Finish(d, disk[d])
    BY <1>1, <1>2, <1>4, <1>6, EndKeeps
  <1> QED BY <1>5, <1>6 DEF Rejected

\* Any other failure: what is discarded was never sent.
LEMMA KeptKeeps ==
  ASSUME IInv, NEW d \in Device, Busy(d), phase[d] # "activated", Finish(d, Kept(d)),
         InboxTypes', \A x \in Device : Posted(x)' \subseteq Posted(x),
         UNCHANGED <<items, expired, inv>>
  PROVE  IInv'
  <1>1. CASE Kept(d) = disk[d]
    BY <1>1, EndKeeps
  <1>2. CASE Kept(d) = "refused" /\ disk[d] = "pending" /\ phase[d] = "staged"
    <2>1. NoCount(d)
      BY <1>2, Unsent DEF MaySent
    <2> QED BY <1>2, <2>1, FinishKeeps DEF Credentials
  <1> QED BY <1>1, <1>2 DEF Kept

LEMMA FailureKeeps ==
  ASSUME IInv, NEW d \in Device, Unexpected(d) \/ GiveUp(d)
  PROVE  IInv'
  <1>1. CASE Unexpected(d)
    <2>1. InboxTypes' /\ \A x \in Device : Posted(x)' \subseteq Posted(x)
      BY <1>1, Typed, TookIs DEF Unexpected
    <2> QED BY <1>1, <2>1, KeptKeeps DEF Unexpected, Busy
  <1>2. CASE GiveUp(d)
    BY <1>2, SameInbox, KeptKeeps DEF GiveUp
  <1> QED BY <1>1, <1>2

LEMMA DieKeeps ==
  ASSUME IInv, NEW d \in Device, Die(d)
  PROVE  IInv'
  <1>1. /\ Busy(d) /\ Phase(d, "ended") /\ HangUp(d) /\ (IF d = Mac THEN Show("ended") ELSE UNCHANGED attempt)
        /\ UNCHANGED <<items, expired, request, inv, inbox, disk>>
    BY DEF Die
  <1>2. /\ phase' \in [Device -> Phases] /\ phase'[d] = "ended"
        /\ \A x \in Device \ {d} : phase'[x] = phase[x]
    BY <1>1, PhaseIs DEF Phases
  <1>3. StoreTypes' /\ UNCHANGED <<pair, link, stored>>
    BY <1>1, HangUpIs DEF items
  <1>4. /\ attempt' \in Attempt
        /\ d = Mac => attempt'.shown = "ended" /\ attempt'.stopAt = attempt.stopAt
        /\ d # Mac => attempt' = attempt
    BY <1>1, ShowIs, Typed DEF Phases, DeviceTypes
  <1>5. DiskOf(d)' /\ DeviceTypes'
    BY <1>1, <1>2, <1>3, <1>4, DiskIs, Typed DEF DiskOf, Member, DeviceTypes
  <1>6. StopInv'
    BY <1>1, <1>2, <1>4, Typed DEF StopInv, Device
  <1>7. /\ Uncreated' => Uncreated /\ phase'[Mac] \in {"off", "creating", "ended"}
        /\ phase'[Mac] = "off" => stored'[Mac] = "absent"
    BY <1>1, <1>2, <1>3, Typed DEF Uncreated, CreationInv, Device, Busy
  <1> QED BY <1>1, <1>2, <1>3, <1>5, <1>6, <1>7, SameInbox, SameRequests, DeviceKeeps DEF MaySent

LEMMA LearnKeeps ==
  ASSUME IInv, NEW d \in Device, SaveActive(d) \/ Reconcile(d)
  PROVE  IInv'
  <1>1. /\ phase[d] \in {"activated", "ended"} /\ disk[d] = "pending" /\ link # "none"
        /\ UNCHANGED <<items, expired, request, inv, inbox, attempt>>
    BY DiskIs DEF SaveActive, Reconcile, DiskOf
  <1>2. StoreTypes' /\ UNCHANGED <<pair, link, stored>>
    BY <1>1, HangUpIs, SameStore DEF SaveActive, Reconcile, items
  <1>3. Phase(d, "ended") /\ (Save(d, "active") \/ Save(d, "pending"))
    <2>1. phase = [phase EXCEPT ![d] = phase[d]] /\ disk = [disk EXCEPT ![d] = disk[d]]
      BY Typed DEF DeviceTypes
    <2> QED BY <1>1, <2>1, Typed DEF SaveActive, Reconcile, Phase, Save
  <1>4. ASSUME NEW c \in {"active", "pending"}, Save(d, c) PROVE IInv'
    <2>1. phase'[d] = "ended" /\ disk'[d] = c /\ \A x \in Device \ {d} : phase'[x] = phase[x] /\ disk'[x] = disk[x]
      BY <1>3, <1>4, PhaseIs, SaveIs DEF Phases, Credentials
    <2>2. DiskOf(d)'
      BY <1>1, <1>2, <2>1, DiskIs DEF DiskOf, Member
    <2>3. StopInv' /\ attempt' \in Attempt
      BY <1>1, <2>1, Typed DEF StopInv, Device, DeviceTypes
    <2> QED BY <1>1, <1>2, <1>3, <1>4, <2>2, <2>3, SameInbox, SaveKeeps DEF Phases, Credentials
  <1> QED BY <1>3, <1>4

LEMMA ResetKeeps ==
  ASSUME IInv, NEW d \in Device, Reset(d) \/ (d = Mac /\ Forget)
  PROVE  IInv'
  <1>1. /\ phase[d] = "ended" /\ disk[d] \in {"pending", "active"}
        /\ UNCHANGED <<pair, stored, expired, conn, request, inv, inbox, phase, attempt>>
    BY DEF Reset, Forget, Holds, items
  <1>2. StoreTypes' /\ (link' # "none" <=> link # "none")
    BY <1>1, Typed DEF Reset, Forget, StoreTypes, items
  <1>3. Phase(d, "ended")
    BY <1>1, Typed DEF Phase, DeviceTypes
  <1>4. ASSUME NEW c \in {"revoked", "forgotten"}, Save(d, c), c = "revoked" => link' # "none",
               c = "forgotten" => d = Mac /\ "forget" \in Events
        PROVE  IInv'
    <2>1. disk'[d] = c /\ \A x \in Device \ {d} : disk'[x] = disk[x]
      BY <1>4, SaveIs DEF Credentials
    <2>2. DiskOf(d)'
      BY <1>1, <1>2, <1>4, <2>1, DiskIs DEF DiskOf, Member
    <2>3. StopInv' /\ attempt' \in Attempt
      BY <1>1, <2>1, Typed DEF StopInv, Device, DeviceTypes
    <2> QED BY <1>1, <1>2, <1>3, <1>4, <2>2, <2>3, SameInbox, SaveKeeps DEF Phases, Credentials
  <1> QED BY <1>4 DEF Reset, Forget

-----------------------------------------------------------------------------
LEMMA InitHolds == ASSUME Init PROVE IInv
  <1>1. Mac \in Device /\ Mac \notin Phone
    BY PairingAssumption DEF Device
  <1>2. StoreTypes /\ InvTypes /\ RequestTypes /\ DeviceTypes
    BY IdleIs DEF Init, StoreTypes, InvTypes, RequestTypes, DeviceTypes, PairItem, NoPair, Statuses,
                  Phases, Attempt, Credentials
  <1>3. InboxTypes /\ \A d \in Device : Posted(d) = {}
    BY DEF Init, InboxTypes, Posted
  <1>4. \A i \in Invocation : inv[i] = Idle
    BY DEF Init
  <1>5. /\ pair = NoPair /\ pair.status = "none" /\ pair.sideB = None /\ pair.commits = {}
        /\ link = "none" /\ request = {}
    BY DEF Init, NoPair
  <1>6. /\ \A d \in Device : phase[d] = "off" /\ disk[d] = "none" /\ stored[d] = "absent"
        /\ attempt.shown = "off" /\ attempt.stopAt = None
    BY DEF Init
  <1>7. CreationInv
    BY <1>1, <1>3, <1>4, <1>5, <1>6, IdleIs, NoneAssumption DEF CreationInv, Event, Reply, Requests
  <1>8. PairInv /\ PostedInv /\ DiskInv
    BY <1>3, <1>5, <1>6 DEF PairInv, PostedInv, DiskInv
  <1>9. InvocationInv
    <2>1. Idle.out.type = "ok" /\ Idle.out.re = None
      BY IdleIs DEF Event
    <2> QED BY <1>4, <2>1, IdleIs DEF InvocationInv, Knows, Cleaning
  <1>10. \A i \in Invocation, d \in Device : ~Handles(i, d) /\ ~Open(i, d)
    BY <1>4, IdleIs, NoneAssumption DEF Handles, Open, Requests
  <1>11. TokenInv /\ RefusalInv /\ CommitInv
    BY <1>3, <1>5, <1>10 DEF TokenInv, RefusalInv, CommitInv
  <1>12. StopInv
    BY <1>1, <1>6, NoneAssumption DEF StopInv, Phases
  <1> QED BY <1>2, <1>3, <1>7, <1>8, <1>9, <1>11, <1>12, Typed

LEMMA RelayStepKeeps ==
  ASSUME IInv, NEW i \in Invocation, RelayStep(i)
  PROVE  IInv'
  BY ReceiveKeeps, ThrottleKeeps, RejectKeeps, DropSocketKeeps, SendReplyKeeps, CreateKeeps,
     JoinReadsKeeps, JoinWritesKeeps, FrameReadsKeeps, FrameForwardsKeeps, CommitReadsKeeps,
     CommitHalfKeeps, ActivateKeeps, QuotaRefusesKeeps, StoreFailsKeeps, TellMacKeeps, TellPhoneKeeps,
     CancelReadsKeeps, CancelWritesKeeps, CleanReadsKeeps, CleanWritesKeeps, CleanReadsAgainKeeps,
     TellPeerKeeps, CrashKeeps
  DEF RelayStep

LEMMA MacStepKeeps ==
  ASSUME IInv, MacStep
  PROVE  IInv'
  <1>1. CASE CodeCreated \/ ControllerFound \/ IdentityReceived
    BY <1>1, ProceedsKeeps DEF CodeCreated, ControllerFound, IdentityReceived
  <1>2. CASE Forget
    BY <1>2, ResetKeeps DEF Device
  <1> QED BY <1>1, <1>2, BeginKeeps, UserKeeps, ApprovalKeeps DEF MacStep

LEMMA DeviceStepKeeps ==
  ASSUME IInv, NEW d \in Device, DeviceStep(d)
  PROVE  IInv'
  BY StageKeeps, SendCommitKeeps, CommitPendingKeeps, ActivatedKeeps, RejectedKeeps, LearnKeeps,
     FailureKeeps, DieKeeps, ResetKeeps, SocketKeeps
  DEF DeviceStep

LEMMA StepKeeps ==
  ASSUME IInv, [Next]_vars
  PROVE  IInv'
  <1>1. ASSUME NEW p \in Phone, PhoneStep(p) PROVE IInv'
    BY <1>1, BeginKeeps, PhoneKeeps DEF PhoneStep
  <1> QED BY <1>1, RelayStepKeeps, MacStepKeeps, DeviceStepKeeps, ClockKeeps DEF Next

\* IInv holds in every state: it is what the code's steps, each taken in any
\* state of the others, keep together.
THEOREM Inductive == Spec => []IInv
  <1>1. Init => IInv
    BY InitHolds
  <1>2. IInv /\ [Next]_vars => IInv'
    BY StepKeeps
  <1> QED BY <1>1, <1>2, PTL DEF Spec

-----------------------------------------------------------------------------
\* Every variable keeps its type, for any number of phones and invocations and
\* whatever may fail.
THEOREM TypeCorrect == Spec => []TypeOK
  <1>1. IInv => TypeOK
    BY DEF IInv
  <1> QED BY <1>1, Inductive, PTL

LEMMA Covered ==
  ASSUME IInv, link # "none"
  PROVE  /\ pair.status = "ACTIVE" /\ pair.sideB \in Phone
         /\ \A d \in {Mac, pair.sideB} : d \in Device /\ disk[d] \notin {"none", "refused"}
  <1>1. pair.status = "ACTIVE" /\ pair.sideB \in Phone /\ pair.commits = {Mac, pair.sideB}
    BY Typed DEF PairInv
  <1> QED BY <1>1, Typed DEF CommitInv, Device

\* Once the link exists, each of its two sides has stored what it needs to use it,
\* unless the user has reset that device: a commit is sent after the pending
\* credentials are saved, and an error removes them only when it proves that the
\* relay did not record the commit (resolveCommitFailure and
\* pairingCheckpointDisposition in pairing.go).
THEOREM SidesHoldCredentials == Spec => []ActivatedSidesHoldCredentials
  <1>1. IInv => ActivatedSidesHoldCredentials
    BY Covered, DiskIs DEF ActivatedSidesHoldCredentials, Credentials
  <1> QED BY <1>1, Inductive, PTL

\* A device that has saved its credentials as active is a side of the active pair:
\* it believes only replies and notices that were true when they were posted.
THEOREM ActiveIsActivated == Spec => []ActiveMeansActivated
  <1>1. ASSUME IInv PROVE ActiveMeansActivated
    <2>1. ASSUME NEW d \in Device, disk[d] = "active"
          PROVE  link # "none" /\ pair.status = "ACTIVE" /\ Member(pair, d)
      BY <1>1, <2>1, DiskIs, Covered DEF DiskOf
    <2> QED BY <2>1 DEF ActiveMeansActivated
  <1> QED BY <1>1, Inductive, PTL

\* A user who stops an attempt while it waits for approval is obeyed: beginCommit
\* in pairing.go checks the stop under the same lock as it starts the commit.
THEOREM StopHolds == Spec => []StopDuringApprovalHolds
  <1>1. ASSUME IInv PROVE StopDuringApprovalHolds
    BY <1>1, Covered, Typed DEF StopInv, StopDuringApprovalHolds
  <1> QED BY <1>1, Inductive, PTL

LEMMA RelayAdvances ==
  ASSUME IInv, NEW i \in Invocation, RelayStep(i)
  PROVE  Advance
  <1>1. pair \in PairItem
    BY Typed DEF StoreTypes
  <1>2. CASE UNCHANGED <<pair, link>>
    BY <1>2 DEF Advance
  <1>3. CASE Create(i)
    <2>1. stored[Mac] = "free" => pair.status = "none" /\ pair.sideB = None /\ link = "none"
      BY Typed DEF CreationInv, Uncreated, PairInv, NoPair
    <2> QED BY <1>1, <1>3, <2>1 DEF Create, Advance, PairItem
  <1>4. CASE JoinWrites(i)
    BY <1>1, <1>4 DEF JoinWrites, JoinHolds, Advance, PairItem
  <1>5. CASE CommitHalf(i)
    BY <1>1, <1>5 DEF CommitHalf, Advance, PairItem
  <1>6. CASE Activate(i)
    BY <1>1, <1>6 DEF Activate, ActivationHolds, Advance, PairItem
  <1>7. CASE StoreFails(i)
    BY <1>1, <1>7 DEF StoreFails, ActivationHolds, Advance, PairItem
  <1>8. CASE CancelWrites(i)
    BY <1>1, <1>8 DEF CancelWrites, Advance, PairItem
  <1>9. CASE CleanWrites(i)
    BY <1>1, <1>9 DEF CleanWrites, Advance, PairItem
  <1>10. \/ Create(i) \/ JoinWrites(i) \/ CommitHalf(i) \/ Activate(i) \/ StoreFails(i)
         \/ CancelWrites(i) \/ CleanWrites(i) \/ UNCHANGED <<pair, link>>
    BY DEF RelayStep, items, Receive, Throttle, Reject, DropSocket, SendReply, JoinReads, FrameReads,
           FrameForwards, CommitReads, QuotaRefuses, TellMac, TellPhone, CancelReads,
           CleanReadsConnection, CleanReadsPair, CleanReadsAgain, TellPeer, Crash
  <1> QED BY <1>2, <1>3, <1>4, <1>5, <1>6, <1>7, <1>8, <1>9, <1>10

LEMMA DevicesLeavePair ==
  ASSUME Next, ~ \E i \in Invocation : RelayStep(i)
  PROVE  UNCHANGED pair
  <1>1. CASE MacStep
    BY <1>1 DEF MacStep, items, ShowCode, CodeCreated, ControllerFound, IdentityReceived, Proceeds,
           Decide, Stop, StopReturns, TakeDecision, BeginCommit, GrantSent, Forget
  <1>2. ASSUME NEW p \in Phone, PhoneStep(p) PROVE UNCHANGED pair
    BY <1>2 DEF PhoneStep, items, Scan, Ready, Joined, Granted
  <1>3. ASSUME NEW d \in Device, DeviceStep(d) PROVE UNCHANGED pair
    BY <1>3 DEF DeviceStep, items, Stage, SendCommit, CommitPending, Activated, Rejected, SaveActive,
           Unexpected, GiveUp, Die, Reconcile, Reset, Cut, Notice
  <1>4. CASE Expire
    BY <1>4 DEF Expire, items
  <1> QED BY <1>1, <1>2, <1>3, <1>4 DEF Next

\* A pair that is active or closed stays so, and its joiner never changes:
\* what the conditions of the pair's writes in store.go are for.
THEOREM DecidedOnce == Spec => PairIsDecidedOnce
  <1>1. ASSUME IInv, [Next]_vars
        PROVE  [/\ pair.status \in {"ACTIVE", "CLOSED"} => pair'.status = pair.status
                /\ pair.sideB # None => pair'.sideB = pair.sideB]_vars
    <2>1. CASE \E i \in Invocation : RelayStep(i)
      BY <1>1, <2>1, RelayAdvances DEF Advance
    <2>2. CASE Next /\ ~ \E i \in Invocation : RelayStep(i)
      BY <2>2, DevicesLeavePair
    <2>3. CASE UNCHANGED vars
      BY <2>3
    <2> QED BY <1>1, <2>1, <2>2, <2>3
  <1> QED BY <1>1, Inductive, PTL DEF Spec, PairIsDecidedOnce

=============================================================================
