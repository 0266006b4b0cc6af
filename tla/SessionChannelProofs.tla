------------------------- MODULE SessionChannelProofs -------------------------
(***************************************************************************)
(* Proofs about SessionChannel, for any number of sessions and commands,   *)
(* any window and whatever may go wrong: the types and the bounds of the   *)
(* buffers, the order of the pages that the controller selects, and that   *)
(* the channel implements CommandLog.                                      *)
(***************************************************************************)
EXTENDS SessionChannel, TLAPS, FiniteSetTheorems, SequenceTheorems

Elements(s) == {s[n] : n \in 1 .. Len(s)}

\* All messages on their way to either side, those it has buffered included.
ToMac == toMac \cup chan.pending \cup Elements(chan.work)
ToPhone == toPhone \cup phone.pending \cup Elements(phone.work)

\* The sequence number of the next packet that a side handles.
MacNext == chan.expected - Len(chan.work) + (IF chan.running = 0 THEN 0 ELSE 1)
PhoneNext == phone.expected - Len(phone.work)

\* What a receiver holds are frames of its session, each sequence number once:
\* the packets under way, and after them those that wait.
Ordered(pending, expected, work, sid) ==
  /\ IsFiniteSet(pending) /\ Cardinality(pending) <= Window
  /\ \A f \in pending : f.type = "frame" /\ f.sid = sid /\ f.seq >= expected
  /\ \A f, g \in pending : f.seq = g.seq => f = g
  /\ \A n \in 1 .. Len(work) :
       work[n].type = "frame" /\ work[n].sid = sid /\ work[n].seq = expected - Len(work) + n - 1

\* The companion's channel belongs to a session, its monitor to the channel.
ChannelInv ==
  /\ chan.sid = 0 => chan = NoChannel /\ monitor = MonitorOff
  /\ chan.sid # 0 => mac.gen >= 1
  /\ chan.sid <= opened /\ (~mac.up => chan.sid = 0)
  /\ ~chan.busy => chan.work = <<>> /\ chan.out = <<>>
  /\ Ordered(chan.pending, chan.expected, chan.work, chan.sid)
  /\ IsFiniteSet(chan.cache) /\ Cardinality(chan.cache) <= MaxRequests
  /\ chan.running # 0 =>
       /\ chan.work # <<>> /\ Head(chan.work).packet.kind = "request"
       /\ Head(chan.work).packet.cmd = chan.running
       /\ Cardinality(chan.cache) < MaxRequests

\* The controller's connection is of the last session, and of no other.
Fresh(u) ==
  /\ u.secured = FALSE /\ u.ready = FALSE /\ u.key = 0 /\ u.cmd = 0
  /\ u.expected = 1 /\ u.pending = {} /\ u.work = <<>>
PhoneInv ==
  /\ phone.open \in {0, opened} /\ phone.sid \in {0, phone.open}
  /\ phone.sid = 0 => Fresh(phone)
  /\ phone.ready => phone.secured
  /\ phone.cmd # 0 => phone.ready
  /\ phone.secured => phone.key <= mac.gen
  /\ Ordered(phone.pending, phone.expected, phone.work, phone.sid)

\* Messages are of sessions that were opened, frames of channels that were made;
\* only the controller that waits for a session is told of it.
MessageInv ==
  /\ \A m \in ToMac \cup ToPhone : m.type \in {"frame", "opened"} => m.sid \in 1 .. opened
  /\ \A m \in ToMac \cup ToPhone : m.type # "frame" => m.packet.kind = "message1"
  /\ \A m \in ToMac \cup ToPhone : m.type = "frame" => m.key <= mac.gen
  /\ \A m \in toPhone : m.type = "opened" => m.sid = phone.open

\* The requests of a session were sent in the order of their commands, and one
\* that the companion's channel has still to handle was not executed, nor was
\* any after it.
IsRequest(f) == f.packet.kind = "request"
RequestsKnown ==
  \A f \in ToMac : IsRequest(f) =>
    /\ f.packet.cmd \in 1 .. phone.issued /\ f.packet.show.page \in Pages
    /\ phone.sid # 0 /\ f.sid = phone.sid => f.seq < phone.nextOut
    /\ phone.sid = 0 => f.sid # phone.open
RequestsInOrder ==
  \A f, g \in ToMac : IsRequest(f) /\ IsRequest(g) /\ f.sid = g.sid /\ f.seq < g.seq =>
    f.packet.cmd < g.packet.cmd
RequestsNew ==
  \A f \in ToMac : IsRequest(f) /\ f.sid = chan.sid /\ f.key = mac.gen /\ f.seq >= MacNext =>
    \A n \in 1 .. Len(executed) : executed[n] < f.packet.cmd
RequestInv == RequestsKnown /\ RequestsInOrder /\ RequestsNew

\* What was executed, and what became of it.
LogInv ==
  /\ \A n \in 1 .. Len(executed) : executed[n] <= phone.issued
  /\ done \subseteq Elements(executed)
  /\ chan.running # 0 =>
       executed # <<>> /\ executed[Len(executed)] = chan.running /\ chan.running \notin done
  /\ \A c \in Command : outcome[c] = "waiting" <=> c = phone.cmd

\* A success that is reported is one.
Confirms(p) == p.kind = "response" /\ p.ok
SuccessInv ==
  /\ \A f \in ToPhone : Confirms(f.packet) => f.packet.cmd \in done
  /\ \A n \in 1 .. Len(chan.out) : Confirms(chan.out[n]) => chan.out[n].cmd \in done

\* The packets that tell the controller which page is shown, in the order in
\* which a channel sends them, and the observation that it may still send, tell
\* of states of Resolve in the order in which these came to be.
Tells(p) == p.kind = "event" \/ Confirms(p)
Observed == monitor.step = "read" /\ ~monitor.stale
ToldOfThePast == \A f \in ToPhone : Tells(f.packet) => f.packet.show.at <= resolve.at
ToldInOrder ==
  \A f, g \in ToPhone : Tells(f.packet) /\ Tells(g.packet) /\ f.key = g.key /\ f.seq < g.seq =>
    f.packet.show.at <= g.packet.show.at
TellsInOrder ==
  \A n \in 1 .. Len(chan.out) : Tells(chan.out[n]) =>
    /\ chan.out[n].show.at <= resolve.at
    /\ \A k \in n .. Len(chan.out) : Tells(chan.out[k]) => chan.out[n].show.at <= chan.out[k].show.at
    /\ Observed => chan.out[n].show.at <= monitor.show.at
TellsWhatIsNewer ==
  \A f \in ToPhone : Tells(f.packet) /\ f.key = mac.gen /\ chan.sid # 0 =>
    /\ f.seq < chan.nextOut
    /\ \A n \in 1 .. Len(chan.out) : Tells(chan.out[n]) => f.packet.show.at <= chan.out[n].show.at
    /\ Observed => f.packet.show.at <= monitor.show.at
ObservesThePast == Observed => monitor.show.at <= resolve.at
OrderInv == ToldOfThePast /\ ToldInOrder /\ TellsInOrder /\ TellsWhatIsNewer /\ ObservesThePast

\* The channel the controller is connected over, or may yet be.
Its(sid, key) == sid = phone.open /\ (phone.secured => key = phone.key)

\* None of what it will be told over that channel is older than what it was told.
WillBeTold ==
  \A f \in ToPhone : Tells(f.packet) /\ Its(f.sid, f.key) /\ f.seq >= PhoneNext =>
    phone.selected.at <= f.packet.show.at
WillTell ==
  Its(chan.sid, mac.gen) =>
    /\ \A n \in 1 .. Len(chan.out) : Tells(chan.out[n]) => phone.selected.at <= chan.out[n].show.at
    /\ Observed => phone.selected.at <= monitor.show.at
SelectedInv == phone.selected.at <= resolve.at /\ WillBeTold /\ WillTell

IInv == /\ TypeOK /\ ChannelInv /\ PhoneInv /\ MessageInv /\ RequestInv /\ LogInv
        /\ SuccessInv /\ OrderInv /\ SelectedInv

-----------------------------------------------------------------------------
(***************************************************************************)
(* The run of frames that are in order.                                    *)
(***************************************************************************)
LEMMA Least ==
  ASSUME NEW N \in Nat, NEW T, T \subseteq 0 .. N, T # {}
  PROVE  \E n \in T : \A m \in T : n <= m
  <1> DEFINE S == 0 .. N
             Below(n) == 0 .. n
             Q == {Below(n) : n \in T}
             R == StrictSubsetOrdering(S)
  <1>1. IsWellFoundedOn(R, SUBSET S)
    <2>1. IsFiniteSet(S)
      BY FS_Interval
    <2> HIDE DEF S
    <2> QED BY <2>1, FS_StrictSubsetOrderingWellFounded, FS_FiniteSubsetsOfFinite
  <1>2. Q \subseteq SUBSET S /\ Q # {}
    <2>1. \A n \in T : n \in Nat /\ n <= N
      OBVIOUS
    <2>2. \A n \in T : Below(n) \subseteq S
      BY <2>1
    <2> QED BY <2>2
  <1>3. PICK q \in Q : \A r \in Q : <<r, q>> \notin R
    <2> HIDE DEF Q, R, S
    <2> QED BY <1>1, <1>2, WFMin
  <1>4. PICK n \in T : q = Below(n)
    BY <1>3
  <1>5. ASSUME NEW m \in T, m < n PROVE FALSE
    <2>1. Below(m) \in Q
      OBVIOUS
    <2>2. Below(m) \subseteq Below(n) /\ Below(m) # Below(n)
      BY <1>5
    <2>3. <<Below(m), Below(n)>> \in R
      BY <1>2, <1>4, <2>1, <2>2 DEF StrictSubsetOrdering
    <2> QED BY <1>3, <1>4, <2>1, <2>3
  <1> QED BY <1>5

\* A sequence number is missing within as many as there are frames, and one more.
LEMMA Missing ==
  ASSUME NEW pending \in SUBSET Message, IsFiniteSet(pending), NEW q \in Nat
  PROVE  \E n \in 0 .. Cardinality(pending) : ~\E f \in pending : f.seq = q + n
  <1> DEFINE k == Cardinality(pending)
             S == 0 .. k
             g == [n \in S |-> CHOOSE f \in pending : f.seq = q + n]
  <1>1. k \in Nat /\ IsFiniteSet(S) /\ k < Cardinality(S)
    BY FS_CardinalityType, FS_Interval
  <1>2. SUFFICES ASSUME \A n \in S : \E f \in pending : f.seq = q + n PROVE FALSE
    OBVIOUS
  <1>3. g \in [S -> pending] /\ \A n \in S : g[n].seq = q + n
    BY <1>2
  <1>4. PICK i, j \in S : i # j /\ g[i] = g[j]
    <2> HIDE DEF g, S
    <2> QED BY <1>1, <1>3, FS_PigeonHole
  <1> QED BY <1>1, <1>3, <1>4

LEMMA RunIs ==
  ASSUME NEW pending \in SUBSET Message, IsFiniteSet(pending), NEW q \in Nat
  PROVE  /\ Run(pending, q) \in Seq(pending)
         /\ \A n \in 1 .. Len(Run(pending, q)) : Run(pending, q)[n].seq = q + n - 1
         /\ ~\E f \in pending : f.seq = q + Len(Run(pending, q))
  <1> DEFINE k == Cardinality(pending)
             T == {n \in 0 .. k : ~\E f \in pending : f.seq = q + n}
             Ends(n) == /\ \A j \in 0 .. n - 1 : \E f \in pending : f.seq = q + j
                        /\ ~\E f \in pending : f.seq = q + n
             length == RunLength(pending, q)
             run == Run(pending, q)
  <1>1. k \in Nat /\ T # {}
    BY Missing, FS_CardinalityType
  <1>2. PICK n \in T : \A m \in T : n <= m
    <2> HIDE DEF T
    <2>1. T \subseteq 0 .. k
      BY DEF T
    <2> QED BY <1>1, <2>1, Least
  <1>3. Ends(n)
    BY <1>1, <1>2
  <1>4. length \in 0 .. k /\ Ends(length)
    BY <1>3 DEF RunLength
  <1>5. \A j \in 1 .. length : run[j] \in pending /\ run[j].seq = q + j - 1
    <2> SUFFICES ASSUME NEW j \in 1 .. length PROVE run[j] \in pending /\ run[j].seq = q + j - 1
      OBVIOUS
    <2>1. j - 1 \in 0 .. length - 1 /\ q + (j - 1) = q + j - 1
      BY <1>4, <1>1
    <2>2. \E f \in pending : f.seq = q + j - 1
      BY <1>4, <2>1
    <2>3. run[j] = CHOOSE f \in pending : f.seq = q + j - 1
      BY DEF Run
    <2> QED BY <2>2, <2>3
  <1>6. run \in Seq(pending) /\ Len(run) = length
    <2>1. run = [j \in 1 .. length |-> run[j]]
      BY DEF Run
    <2> HIDE DEF run, length
    <2>2. length \in Nat
      BY <1>1, <1>4
    <2> QED BY <1>5, <2>1, <2>2
  <1> QED BY <1>4, <1>5, <1>6

\* A run of what was received, in order from sequence number expected on.
RunOf(all, expected, run) ==
  /\ run \in Seq(all)
  /\ \A f \in all : f.seq \in Nat /\ f.seq >= expected
  /\ \A f, g \in all : f.seq = g.seq => f = g
  /\ \A n \in 1 .. Len(run) : run[n].seq = expected + n - 1

\* What is in order can be taken out of what was received.
LEMMA TakenOut ==
  ASSUME NEW all, NEW run, NEW expected \in Nat, RunOf(all, expected, run)
  PROVE  /\ DOMAIN run = 1 .. Len(run) /\ Len(run) \in Nat
         /\ \A n \in 1 .. Len(run) : run[n] \in all
         /\ \A f \in all : f.seq < expected + Len(run) => \E n \in DOMAIN run : f = run[n]
  <1>1. /\ DOMAIN run = 1 .. Len(run) /\ Len(run) \in Nat
        /\ \A n \in 1 .. Len(run) : run[n] \in all
    <2>1. run \in Seq(all)
      BY DEF RunOf
    <2> QED BY ONLY <2>1
  <1>2. ASSUME NEW f \in all, f.seq < expected + Len(run)
        PROVE  \E n \in DOMAIN run : f = run[n]
    <2>1. PICK n \in 1 .. Len(run) : f.seq = expected + n - 1
      <3>1. f.seq - expected + 1 \in 1 .. Len(run) /\ f.seq = expected + (f.seq - expected + 1) - 1
        BY <1>1, <1>2 DEF RunOf
      <3> QED BY <3>1
    <2>2. run[n] = f
      BY <1>1, <2>1 DEF RunOf
    <2> QED BY <1>1, <2>2
  <1> QED BY <1>1, <1>2

\* What waits when a run of frames has been taken out.
Rest(all, run) == all \ {run[j] : j \in DOMAIN run}

\* What a receiver holds once it has taken in a frame of its session.
Received(pending, expected, sid, m, rest, next, run) ==
  /\ rest \subseteq pending \cup {m} /\ run \in Seq(pending \cup {m}) /\ run \in Seq(Message)
  /\ next = expected + Len(run)
  /\ Ordered(rest, next, run, sid)

\* A frame within the window leaves order behind: all up to the first gap is
\* taken out, all that waits comes after it.
LEMMA ReceiveIs ==
  ASSUME NEW pending \in SUBSET Message, NEW expected \in Nat, NEW sid,
         Ordered(pending, expected, <<>>, sid),
         NEW m \in Message, m.type = "frame", m.sid = sid, ~OutOfWindow(pending, expected, m.seq),
         NEW run, run = Run(pending \cup {m}, expected)
  PROVE  Received(pending, expected, sid, m, Rest(pending \cup {m}, run), expected + Len(run), run)
  <1> SUFFICES ASSUME NEW all, all = pending \cup {m}, NEW rest, rest = Rest(all, run)
               PROVE  Received(pending, expected, sid, m, rest, expected + Len(run), run)
    OBVIOUS
  <1>1. /\ IsFiniteSet(pending) /\ Cardinality(pending) \in Nat /\ Cardinality(pending) <= Window
        /\ Window \in Nat /\ m.seq \in Nat
    BY FS_CardinalityType, SessionChannelAssumption DEF Ordered, Message
  <1>2. /\ IsFiniteSet(all)
        /\ Cardinality(all) = (IF m \in pending THEN Cardinality(pending) ELSE Cardinality(pending) + 1)
    BY <1>1, FS_AddElement
  <1>3. all \in SUBSET Message
    OBVIOUS
  <1>4. /\ run \in Seq(all) /\ \A n \in 1 .. Len(run) : run[n].seq = expected + n - 1
        /\ ~\E f \in all : f.seq = expected + Len(run)
    BY <1>2, <1>3, RunIs
  <1>5. run \in Seq(Message)
    BY <1>3, <1>4, SeqMonotonic
  <1>6. \A f \in all : f.type = "frame" /\ f.sid = sid /\ f.seq >= expected /\ f.seq \in Nat
    BY <1>1 DEF Ordered, OutOfWindow, Message
  <1>7. \A f, g \in all : f.seq = g.seq => f = g
    BY DEF Ordered, OutOfWindow
  <1>8. /\ Len(run) \in Nat /\ rest \subseteq all
        /\ \A n \in 1 .. Len(run) : run[n] \in all
        /\ \A f \in rest : f.seq >= expected + Len(run)
        /\ m.seq = expected => m \notin rest
    <2>1. /\ DOMAIN run = 1 .. Len(run) /\ Len(run) \in Nat
          /\ \A n \in 1 .. Len(run) : run[n] \in all
          /\ \A f \in all : f.seq < expected + Len(run) => \E n \in DOMAIN run : f = run[n]
      <3>1. RunOf(all, expected, run)
        BY ONLY <1>4, <1>6, <1>7 DEF RunOf
      <3> QED BY ONLY <3>1, expected \in Nat, TakenOut
    <2>2. \A f \in rest : f.seq \in Nat /\ ~(f.seq < expected + Len(run))
      BY <1>6, <2>1 DEF Rest
    <2>3. m.seq = expected => m.seq < expected + Len(run)
      <3>1. m \in all
        OBVIOUS
      <3>2. m.seq = expected => Len(run) # 0
        <4>1. expected + 0 = expected
          OBVIOUS
        <4> QED BY ONLY <1>4, <3>1, <4>1
      <3> QED BY ONLY <1>1, <2>1, <3>2, expected \in Nat
    <2>4. rest \subseteq all
      BY DEF Rest
    <2>5. \A f \in rest : f.seq >= expected + Len(run)
      BY ONLY <2>1, <2>2, expected \in Nat
    <2> QED BY ONLY <2>1, <2>2, <2>3, <2>4, <2>5
  <1>9. IsFiniteSet(rest) /\ Cardinality(rest) <= Window
    <2>1. CASE m.seq = expected
      <3>1. rest \in SUBSET pending
        BY <1>8, <2>1
      <3>2. IsFiniteSet(rest) /\ Cardinality(rest) <= Cardinality(pending) /\ Cardinality(rest) \in Nat
        BY <1>1, <3>1, FS_Subset, FS_CardinalityType
      <3> QED BY <1>1, <3>2
    <2>2. CASE m.seq > expected
      <3>1. Cardinality(all) <= Window /\ Cardinality(all) \in Nat
        BY <1>1, <1>2, <2>2 DEF OutOfWindow
      <3>2. rest \in SUBSET all
        BY <1>8
      <3>3. IsFiniteSet(rest) /\ Cardinality(rest) <= Cardinality(all) /\ Cardinality(rest) \in Nat
        BY <1>2, <3>2, FS_Subset, FS_CardinalityType
      <3> QED BY <1>1, <3>1, <3>3
    <2>3. m.seq >= expected
      BY DEF OutOfWindow, Message
    <2> QED BY <1>1, <2>1, <2>2, <2>3
  <1>10. \A n \in 1 .. Len(run) :
           run[n].type = "frame" /\ run[n].sid = sid
             /\ run[n].seq = (expected + Len(run)) - Len(run) + n - 1
    BY ONLY <1>4, <1>6, <1>8, expected \in Nat
  <1>11. Ordered(rest, expected + Len(run), run, sid)
    BY ONLY <1>4, <1>6, <1>7, <1>8, <1>9, <1>10 DEF Ordered
  <1> QED BY <1>4, <1>5, <1>8, <1>11 DEF Received

-----------------------------------------------------------------------------
(***************************************************************************)
(* What each step does to the channel and to the messages.                 *)
(***************************************************************************)
LEMMA Typed ==
  ASSUME TypeOK
  PROVE  /\ mac \in Mac /\ chan \in Channel /\ mac.gen \in Nat /\ mac.up \in BOOLEAN
         /\ phone \in Phone /\ monitor \in Monitor /\ resolve \in Shown
         /\ toMac \subseteq Message /\ toPhone \subseteq Message
         /\ opened \in 0 .. MaxSessions /\ relay \in 0 .. MaxSessions
         /\ chan.sid \in 0 .. MaxSessions /\ chan.expected \in Nat /\ chan.nextOut \in Nat /\ chan.running \in Nat
         /\ chan.work \in Seq(Message) /\ chan.out \in Seq(Packet)
         /\ chan.pending \subseteq Message /\ chan.cache \subseteq Packet
         /\ chan.result \in Shown
         /\ phone.open \in 0 .. MaxSessions /\ phone.sid \in 0 .. MaxSessions
         /\ phone.expected \in Nat /\ phone.nextOut \in Nat /\ phone.key \in Nat
         /\ phone.pending \subseteq Message /\ phone.work \in Seq(Message)
         /\ phone.cmd \in 0 .. MaxCommands /\ phone.issued \in 0 .. MaxCommands
         /\ phone.late \in Seq(Command) /\ phone.selected \in Shown
         /\ executed \in Seq(Command) /\ done \subseteq Command
         /\ phone.secured \in BOOLEAN /\ phone.ready \in BOOLEAN
         /\ MaxSessions \in Nat /\ MaxCommands \in Nat
  <1>1. mac \in Mac /\ chan \in Channel /\ phone \in Phone
    BY DEF TypeOK, Mac, chan
  <1>2. /\ chan.sid \in 0 .. MaxSessions /\ chan.expected \in Nat /\ chan.nextOut \in Nat /\ chan.running \in Nat
        /\ chan.work \in Seq(Message) /\ chan.out \in Seq(Packet)
        /\ chan.pending \subseteq Message /\ chan.cache \subseteq Packet
        /\ chan.result \in Shown
    BY <1>1 DEF Channel
  <1>3. /\ phone.open \in 0 .. MaxSessions /\ phone.sid \in 0 .. MaxSessions
        /\ phone.expected \in Nat /\ phone.nextOut \in Nat /\ phone.key \in Nat
        /\ phone.pending \subseteq Message /\ phone.work \in Seq(Message)
        /\ phone.cmd \in 0 .. MaxCommands /\ phone.issued \in 0 .. MaxCommands
        /\ phone.late \in Seq(Command) /\ phone.selected \in Shown
        /\ phone.secured \in BOOLEAN /\ phone.ready \in BOOLEAN
    BY <1>1 DEF Phone
  <1>4. mac.gen \in Nat /\ mac.up \in BOOLEAN
    BY <1>1 DEF Mac
  <1>5. MaxSessions \in Nat /\ MaxCommands \in Nat
    BY SessionChannelAssumption
  <1> QED BY <1>1, <1>2, <1>3, <1>4, <1>5 DEF TypeOK

LEMMA ShownIs ==
  /\ Nowhere \in Shown /\ Nowhere.at = 0 /\ Nowhere.page = None
  /\ \A s \in Shown : s.at \in Nat /\ s.page \in Pages \cup {Other, None}
  BY DEF Shown, Nowhere

LEMMA PacketIs ==
  /\ \A kind \in Kinds : Plain(kind) \in Packet /\ Plain(kind).kind = kind
  /\ \A c \in Nat, p \in Pages : LET r == Request(c, p) IN
       r \in Packet /\ r.kind = "request" /\ r.cmd = c /\ r.show.page = p
  /\ \A c \in Nat, ok \in BOOLEAN, s \in Shown : LET r == Response(c, ok, s) IN
       r \in Packet /\ r.kind = "response" /\ r.cmd = c /\ r.ok = ok /\ r.show = s
  /\ \A s \in Shown : LET r == PageEvent(s) IN
       r \in Packet /\ r.kind = "event" /\ r.show = s
  /\ \A p \in Packet : p.kind \in Kinds /\ p.cmd \in Nat /\ p.ok \in BOOLEAN /\ p.show \in Shown
  <1>1. \A kind \in Kinds : Plain(kind) \in Packet /\ Plain(kind).kind = kind
    BY ShownIs DEF Packet, Plain
  <1>2. ASSUME NEW c \in Nat, NEW p \in Pages
        PROVE  LET r == Request(c, p) IN
                 r \in Packet /\ r.kind = "request" /\ r.cmd = c /\ r.show.page = p
    BY ShownIs DEF Packet, Request, Plain, Kinds, Shown
  <1>3. ASSUME NEW c \in Nat, NEW ok \in BOOLEAN, NEW s \in Shown
        PROVE  LET r == Response(c, ok, s) IN
                 r \in Packet /\ r.kind = "response" /\ r.cmd = c /\ r.ok = ok /\ r.show = s
    BY DEF Packet, Response, Kinds
  <1>4. ASSUME NEW s \in Shown
        PROVE  LET r == PageEvent(s) IN r \in Packet /\ r.kind = "event" /\ r.show = s
    BY ShownIs DEF Packet, PageEvent, Plain, Kinds
  <1>5. \A p \in Packet : p.kind \in Kinds /\ p.cmd \in Nat /\ p.ok \in BOOLEAN /\ p.show \in Shown
    BY DEF Packet
  <1> QED BY <1>1, <1>2, <1>3, <1>4, <1>5

LEMMA MessageIs ==
  /\ \A m \in Message : m.sid \in Nat /\ m.seq \in Nat /\ m.key \in Nat /\ m.packet \in Packet
  /\ \A type \in {"opened", "closed", "error"}, s \in Nat : LET m == Notice(type, s) IN
       m \in Message /\ m.type = type /\ m.sid = s /\ m.packet.kind = "message1"
  /\ \A s, q, k \in Nat, p \in Packet : LET m == Frame(s, q, k, p) IN
       /\ m \in Message /\ m.type = "frame" /\ m.sid = s /\ m.seq = q /\ m.key = k /\ m.packet = p
  BY PacketIs DEF Message, Notice, Frame, Kinds

LEMMA ContinueIs ==
  ASSUME mac \in Mac, NEW u \in Channel, u.work # <<>>, Continue(u)
  PROVE  /\ mac' \in Mac /\ mac'.up = mac.up /\ mac'.gen = mac.gen /\ chan' \in Channel
         /\ chan'.work = Tail(u.work) /\ chan' = [u EXCEPT !.work = Tail(u.work)]
  <1> DEFINE v == [u EXCEPT !.work = Tail(u.work)]
  <1>1. v \in Channel /\ v.work = Tail(u.work)
    <2>1. u.work \in Seq(Message)
      BY DEF Channel
    <2>2. Tail(u.work) \in Seq(Message)
      BY <2>1
    <2> QED BY <2>2 DEF Channel
  <1>2. mac' = [mac EXCEPT !.chan = v]
    BY DEF Continue
  <1> HIDE DEF v
  <1>3. mac' \in Mac /\ mac'.up = mac.up /\ mac'.gen = mac.gen /\ chan' = v
    BY <1>1, <1>2 DEF Mac, chan
  <1> QED BY <1>1, <1>3 DEF v

LEMMA ChannelIs ==
  ASSUME NEW u \in Channel
  PROVE  /\ u.sid \in 0 .. MaxSessions /\ u.expected \in Nat /\ u.nextOut \in Nat /\ u.running \in Nat
         /\ u.busy \in BOOLEAN /\ u.work \in Seq(Message) /\ u.out \in Seq(Packet)
         /\ u.pending \subseteq Message /\ u.cache \subseteq Packet /\ u.result \in Shown
  BY DEF Channel

\* The companion has handled a packet.  What it answers to that tells of the
\* page that Resolve shows now, of a command that succeeded, and no observation
\* made before is reported after it.
OutGrows ==
  \A n \in 1 .. Len(chan'.out) : Tells(chan'.out[n]) =>
    \/ n \in 1 .. Len(chan.out) /\ chan'.out[n] = chan.out[n]
    \/ /\ n > Len(chan.out) /\ chan'.out[n].show = resolve /\ ~Observed'
       /\ chan'.out[n].cmd \in done'
TakesPacket ==
  /\ mac' \in Mac /\ mac'.up = mac.up /\ mac'.gen = mac.gen
  /\ chan' \in Channel /\ chan'.sid = chan.sid /\ chan'.expected = chan.expected
  /\ chan'.nextOut = chan.nextOut /\ chan'.pending = chan.pending /\ chan'.busy = chan.busy
  /\ chan.work # <<>> /\ chan'.work = Tail(chan.work) /\ chan'.running = 0
  /\ IsFiniteSet(chan'.cache) /\ Cardinality(chan'.cache) <= MaxRequests
  /\ OutGrows /\ (Observed' => Observed /\ monitor'.show = monitor.show)
  /\ monitor' \in Monitor /\ monitor'.step = monitor.step
  /\ UNCHANGED <<relay, opened, repeated, toMac, toPhone, phone, resolve, executed, outcome>>

\* u is the channel with the packet still to be taken away.
AnswerOf(u) ==
  /\ u \in Channel /\ u.work = chan.work /\ u.running = 0
  /\ u.sid = chan.sid /\ u.expected = chan.expected /\ u.nextOut = chan.nextOut
  /\ u.pending = chan.pending /\ u.busy = chan.busy
  /\ IsFiniteSet(u.cache) /\ Cardinality(u.cache) <= MaxRequests
  /\ \A n \in 1 .. Len(u.out) : Tells(u.out[n]) =>
       \/ n \in 1 .. Len(chan.out) /\ u.out[n] = chan.out[n]
       \/ n > Len(chan.out) /\ u.out[n].show = resolve /\ ~Observed' /\ u.out[n].cmd \in done'

LEMMA PacketTaken ==
  ASSUME TypeOK, chan.work # <<>>, NEW u, AnswerOf(u), Continue(u),
         monitor' \in Monitor, monitor'.step = monitor.step,
         Observed' => Observed /\ monitor'.show = monitor.show,
         UNCHANGED <<relay, opened, repeated, toMac, toPhone, phone, resolve, executed, outcome>>
  PROVE  TakesPacket
  <1>1. mac \in Mac
    BY DEF TypeOK
  <1>2. u \in Channel /\ u.work # <<>>
    BY DEF AnswerOf
  <1>3. /\ mac' \in Mac /\ mac'.up = mac.up /\ mac'.gen = mac.gen /\ chan' \in Channel
        /\ chan' = [u EXCEPT !.work = Tail(u.work)]
    BY <1>1, <1>2, ContinueIs
  <1>4. /\ chan'.work = Tail(u.work) /\ chan'.out = u.out
        /\ chan'.sid = u.sid /\ chan'.expected = u.expected /\ chan'.nextOut = u.nextOut
        /\ chan'.running = u.running /\ chan'.pending = u.pending /\ chan'.busy = u.busy /\ chan'.cache = u.cache
    BY <1>2, <1>3 DEF Channel
  <1>5. OutGrows
    BY <1>4 DEF OutGrows, AnswerOf
  <1> QED BY <1>3, <1>4, <1>5 DEF TakesPacket, AnswerOf

LEMMA AnswersHandshakeIs ==
  ASSUME IInv, AnswersHandshake
  PROVE  TakesPacket /\ UNCHANGED done
  <1> DEFINE ps == <<Plain("message2"), Plain("hello")>>
             u == [chan EXCEPT !.secured = TRUE, !.out = @ \o ps]
  <1>1. /\ TypeOK /\ chan \in Channel /\ chan.work # <<>> /\ monitor \in Monitor /\ chan.running = 0
        /\ chan.out \in Seq(Packet)
    BY Typed DEF IInv, AnswersHandshake, Handles
  <1>2. ps \in Seq(Packet) /\ \A n \in 1 .. Len(ps) : ~Tells(ps[n])
    BY PacketIs DEF Kinds, Tells, Confirms
  <1>3. u \in Channel /\ u.out = chan.out \o ps
    <2> HIDE DEF ps
    <2>1. chan.out \o ps \in Seq(Packet)
      BY <1>1, <1>2, ConcatProperties
    <2> QED BY <1>1, <2>1 DEF Channel
  <1>4. Continue(u)
    BY DEF AnswersHandshake
  <1>5. /\ u.sid = chan.sid /\ u.expected = chan.expected /\ u.nextOut = chan.nextOut /\ u.running = chan.running
        /\ u.pending = chan.pending /\ u.busy = chan.busy /\ u.cache = chan.cache /\ u.work = chan.work
    BY <1>1 DEF Channel
  <1> HIDE DEF u, ps
  <1>6. \A n \in 1 .. Len(u.out) : Tells(u.out[n]) => n <= Len(chan.out) /\ u.out[n] = chan.out[n]
    BY ONLY <1>1, <1>2, <1>3, ConcatProperties
  <1>7. IsFiniteSet(chan.cache) /\ Cardinality(chan.cache) <= MaxRequests
    BY DEF IInv, ChannelInv
  <1>8. AnswerOf(u)
    BY <1>1, <1>3, <1>5, <1>6, <1>7 DEF AnswerOf
  <1>9. UNCHANGED <<relay, opened, repeated, toMac, toPhone, phone, monitor, resolve, executed, outcome, done>>
    BY DEF AnswersHandshake, log
  <1>10. Observed' => Observed /\ monitor'.show = monitor.show
    BY <1>9 DEF Observed
  <1> QED BY <1>1, <1>4, <1>8, <1>9, <1>10, PacketTaken

LEMMA AcceptsHelloIs ==
  ASSUME IInv, AcceptsHello
  PROVE  TakesPacket /\ UNCHANGED done
  <1> DEFINE u == [chan EXCEPT !.hello = TRUE]
  <1>1. /\ TypeOK /\ chan \in Channel /\ chan.work # <<>> /\ monitor \in Monitor /\ chan.running = 0
        /\ chan.out \in Seq(Packet)
    BY Typed DEF IInv, AcceptsHello, Handles
  <1>2. /\ u \in Channel /\ u.out = chan.out
        /\ u.sid = chan.sid /\ u.expected = chan.expected /\ u.nextOut = chan.nextOut /\ u.running = chan.running
        /\ u.pending = chan.pending /\ u.busy = chan.busy /\ u.cache = chan.cache /\ u.work = chan.work
    BY <1>1 DEF Channel
  <1>3. Continue(u)
    BY DEF AcceptsHello
  <1> HIDE DEF u
  <1>4. IsFiniteSet(chan.cache) /\ Cardinality(chan.cache) <= MaxRequests
    BY DEF IInv, ChannelInv
  <1>5. AnswerOf(u)
    BY <1>1, <1>2, <1>4 DEF AnswerOf
  <1>6. UNCHANGED <<relay, opened, repeated, toMac, toPhone, phone, monitor, resolve, executed, outcome, done>>
    BY DEF AcceptsHello, log
  <1>7. Observed' => Observed /\ monitor'.show = monitor.show
    BY <1>6 DEF Observed
  <1> QED BY <1>1, <1>3, <1>5, <1>6, <1>7, PacketTaken

LEMMA RespondsIs ==
  ASSUME chan \in Channel, IsFiniteSet(chan.cache), Cardinality(chan.cache) < MaxRequests,
         NEW c, NEW ok \in BOOLEAN, NEW show \in Shown, NEW e \in Nat,
         ok => show = resolve /\ e \in done' /\ ~Observed'
  PROVE  AnswerOf(Responds(c, Response(e, ok, show)))
  <1> DEFINE p == Response(e, ok, show)
             u == Responds(c, p)
             cache == chan.cache \cup {p}
  <1>1. p \in Packet /\ p.kind = "response" /\ p.cmd = e /\ p.ok = ok /\ p.show = show
    BY PacketIs
  <1> HIDE DEF p
  <1>2. chan.out \in Seq(Packet) /\ Append(chan.out, p) \in Seq(Packet) /\ cache \subseteq Packet
    BY <1>1 DEF Channel
  <1>3. /\ u \in Channel /\ u.out = Append(chan.out, p) /\ u.cache = cache /\ u.running = 0
        /\ u.sid = chan.sid /\ u.expected = chan.expected /\ u.nextOut = chan.nextOut
        /\ u.pending = chan.pending /\ u.busy = chan.busy /\ u.work = chan.work
    BY <1>2, ShownIs DEF Responds, Channel
  <1>4. IsFiniteSet(cache) /\ Cardinality(cache) <= MaxRequests
    <2>1. /\ IsFiniteSet(cache)
          /\ Cardinality(cache) = IF p \in chan.cache THEN Cardinality(chan.cache) ELSE Cardinality(chan.cache) + 1
      BY FS_AddElement
    <2>2. Cardinality(chan.cache) \in Nat /\ MaxRequests \in Nat
      BY FS_CardinalityType, SessionChannelAssumption
    <2> QED BY <2>1, <2>2
  <1>5. \A n \in 1 .. Len(u.out) : Tells(u.out[n]) =>
          \/ n \in 1 .. Len(chan.out) /\ u.out[n] = chan.out[n]
          \/ n > Len(chan.out) /\ u.out[n].show = resolve /\ ~Observed' /\ u.out[n].cmd \in done'
    <2>1. ASSUME NEW n \in 1 .. Len(u.out), n # Len(chan.out) + 1
          PROVE  n \in 1 .. Len(chan.out) /\ u.out[n] = chan.out[n]
      BY ONLY <1>1, <1>2, <1>3, <2>1, AppendProperties
    <2>2. u.out[Len(chan.out) + 1] = p
      BY <1>1, <1>2, <1>3, AppendProperties
    <2>3. Tells(p) => ok
      BY <1>1 DEF Tells, Confirms
    <2> QED BY <1>1, <1>2, <2>1, <2>2, <2>3
  <1> HIDE DEF u
  <1>6. AnswerOf(u)
    BY <1>3, <1>4, <1>5 DEF AnswerOf
  <1> QED BY <1>6 DEF u, p

LEMMA RejectsRequestIs ==
  ASSUME IInv, RejectsRequest
  PROVE  TakesPacket /\ UNCHANGED done
  <1> DEFINE c == Head(chan.work).packet.cmd
  <1>1. /\ TypeOK /\ chan \in Channel /\ chan.work # <<>> /\ monitor \in Monitor
        /\ chan.work \in Seq(Message)
    BY Typed DEF IInv, RejectsRequest, Accepts, Handles
  <1>2. c \in Nat
    BY <1>1, MessageIs, PacketIs
  <1>3. IsFiniteSet(chan.cache) /\ Cardinality(chan.cache) < MaxRequests
    BY DEF IInv, ChannelInv, RejectsRequest, Accepts
  <1>4. Continue(Responds(c, Response(c, FALSE, Nowhere)))
    BY DEF RejectsRequest
  <1>5. UNCHANGED <<relay, opened, repeated, toMac, toPhone, phone, monitor, resolve, executed, outcome, done>>
    BY DEF RejectsRequest, log
  <1> HIDE DEF c
  <1>6. AnswerOf(Responds(c, Response(c, FALSE, Nowhere)))
    BY <1>1, <1>2, <1>3, ShownIs, RespondsIs
  <1>7. Observed' => Observed /\ monitor'.show = monitor.show
    BY <1>5 DEF Observed
  <1> QED BY <1>1, <1>4, <1>5, <1>6, <1>7, PacketTaken

LEMMA RunningIs ==
  ASSUME IInv, chan.running # 0
  PROVE  /\ TypeOK /\ chan \in Channel /\ chan.running \in Nat
         /\ chan.work # <<>> /\ chan.work \in Seq(Message)
         /\ Head(chan.work).packet.kind = "request" /\ Head(chan.work).packet.cmd = chan.running
         /\ IsFiniteSet(chan.cache) /\ Cardinality(chan.cache) < MaxRequests
  BY Typed DEF IInv, ChannelInv

LEMMA SucceedsIs ==
  ASSUME IInv, Succeeds
  PROVE  TakesPacket /\ chan.running # 0 /\ done' = done \cup {chan.running}
  <1> DEFINE c == chan.running
  <1>1. /\ TypeOK /\ chan \in Channel /\ chan.work # <<>> /\ c \in Nat
        /\ IsFiniteSet(chan.cache) /\ Cardinality(chan.cache) < MaxRequests
    BY RunningIs DEF Succeeds
  <1>2. monitor \in Monitor /\ resolve \in Shown
    BY <1>1 DEF TypeOK
  <1>3. Continue(Responds(c, Response(c, TRUE, resolve))) /\ c # 0 /\ done' = done \cup {c}
    BY DEF Succeeds
  <1>4. UNCHANGED <<relay, opened, repeated, toMac, toPhone, phone, resolve, executed, outcome>>
    BY DEF Succeeds
  <1>5. monitor' \in Monitor /\ monitor'.step = monitor.step /\ ~Observed'
    BY <1>2 DEF Succeeds, Monitor, Observed
  <1> HIDE DEF c
  <1>6. AnswerOf(Responds(c, Response(c, TRUE, resolve)))
    <2>1. c \in done'
      BY <1>3
    <2> QED BY <1>1, <1>2, <1>5, <2>1, RespondsIs
  <1> QED BY <1>1, <1>3, <1>4, <1>5, <1>6, PacketTaken DEF c

LEMMA FailsCommandIs ==
  ASSUME IInv, FailsCommand
  PROVE  TakesPacket /\ UNCHANGED done
  <1> DEFINE c == chan.running
  <1>1. /\ TypeOK /\ chan \in Channel /\ chan.work # <<>> /\ c \in Nat
        /\ IsFiniteSet(chan.cache) /\ Cardinality(chan.cache) < MaxRequests
    BY RunningIs DEF FailsCommand
  <1>2. Continue(Responds(c, Response(c, FALSE, Nowhere)))
    BY DEF FailsCommand
  <1>3. UNCHANGED <<relay, opened, repeated, toMac, toPhone, phone, monitor, resolve, executed, outcome, done>>
    BY DEF FailsCommand, log
  <1>4. monitor \in Monitor
    BY <1>1 DEF TypeOK
  <1> HIDE DEF c
  <1>5. AnswerOf(Responds(c, Response(c, FALSE, Nowhere)))
    BY <1>1, ShownIs, RespondsIs
  <1>6. Observed' => Observed /\ monitor'.show = monitor.show
    BY <1>3 DEF Observed
  <1> QED BY <1>1, <1>2, <1>3, <1>4, <1>5, <1>6, PacketTaken

\* What a step leaves of the channel if it handles nothing and sends nothing.
ChannelStays ==
  /\ mac' \in Mac /\ mac'.up = mac.up /\ mac'.gen = mac.gen
  /\ chan' \in Channel /\ chan'.sid = chan.sid /\ chan'.expected = chan.expected
  /\ chan'.nextOut = chan.nextOut /\ chan'.pending = chan.pending /\ chan'.busy = chan.busy
  /\ chan'.work = chan.work /\ chan'.out = chan.out /\ chan'.cache = chan.cache

LEMMA ExecutesIs ==
  ASSUME IInv, Executes
  PROVE  /\ ChannelStays /\ chan.work # <<>> /\ chan.running = 0
         /\ Head(chan.work).packet.kind = "request" /\ Head(chan.work).key = mac.gen
         /\ chan'.running = Head(chan.work).packet.cmd
         /\ executed' = Append(executed, chan'.running)
         /\ Cardinality(chan.cache) < MaxRequests
         /\ UNCHANGED <<relay, opened, repeated, toMac, toPhone, monitor, phone, resolve, done, outcome>>
  <1> DEFINE c == Head(chan.work).packet.cmd
  <1>1. /\ mac \in Mac /\ chan \in Channel /\ chan.work # <<>> /\ chan.work \in Seq(Message)
        /\ Handles("request") /\ chan.secured /\ Opens /\ Cardinality(chan.cache) < MaxRequests
    BY Typed DEF IInv, Executes, Accepts, Handles
  <1>2. c \in Nat
    BY <1>1, MessageIs, PacketIs
  <1>3. mac' = [mac EXCEPT !.chan.running = c] /\ executed' = Append(executed, c)
    BY DEF Executes
  <1>4. /\ Head(chan.work).packet.kind = "request" /\ Head(chan.work).key = mac.gen /\ chan.running = 0
    BY <1>1 DEF Handles, Opens
  <1> HIDE DEF c
  <1>5. ChannelStays /\ chan'.running = c
    BY <1>1, <1>2, <1>3 DEF ChannelStays, Mac, Channel, chan
  <1> QED BY <1>1, <1>3, <1>4, <1>5 DEF Executes, c

LEMMA ShowIs ==
  ASSUME resolve \in Shown, NEW p \in Pages \cup {Other, None}, Show(p)
  PROVE  resolve' \in Shown /\ resolve'.at >= resolve.at /\ (resolve'.at = resolve.at => resolve' = resolve)
  BY DEF Show, Shown

LEMMA OpensPageIs ==
  ASSUME IInv, OpensPage
  PROVE  /\ ChannelStays /\ chan'.running = chan.running
         /\ resolve' \in Shown /\ resolve'.at >= resolve.at
         /\ UNCHANGED <<relay, opened, repeated, toMac, toPhone, monitor, phone, log>>
  <1>1. mac \in Mac /\ chan \in Channel /\ resolve \in Shown
    BY Typed DEF IInv
  <1>2. /\ chan.work # <<>> /\ chan.work \in Seq(Message)
    BY RunningIs DEF OpensPage
  <1>3. Target \in Pages \cup {Other, None}
    BY <1>2, MessageIs, PacketIs, ShownIs DEF Target
  <1>4. resolve' \in Shown /\ resolve'.at >= resolve.at
    BY <1>1, <1>3, ShowIs DEF OpensPage
  <1>5. mac' = [mac EXCEPT !.chan.result = resolve']
    BY DEF OpensPage
  <1>6. ChannelStays /\ chan'.running = chan.running
    BY <1>1, <1>4, <1>5 DEF ChannelStays, Mac, Channel, chan
  <1> QED BY <1>4, <1>6 DEF OpensPage

LEMMA SendsIs ==
  ASSUME TypeOK, NEW left \in SUBSET Message, NEW ps \in Seq(Packet), Sends(left, ps)
  PROVE  /\ toMac' \subseteq Message /\ toPhone' \subseteq Message
         /\ \A m \in toMac' : m \in left \/ (m.type = "error" /\ m.packet.kind = "message1")
         /\ \A f \in toPhone' : f \in toPhone \/
              \E n \in 1 .. Len(ps) :
                /\ f.type = "frame" /\ f.sid = chan.sid /\ f.key = mac.gen
                /\ f.seq = chan.nextOut + n - 1 /\ f.packet = ps[n]
  <1> DEFINE F == Frames(chan.sid, chan.nextOut, mac.gen, ps)
             e == Notice("error", chan.sid)
  <1>1. /\ chan.sid \in Nat /\ chan.nextOut \in Nat /\ mac.gen \in Nat
        /\ toMac \subseteq Message /\ toPhone \subseteq Message
    <2>1. /\ chan.sid \in 0 .. MaxSessions /\ MaxSessions \in Nat /\ chan.nextOut \in Nat /\ mac.gen \in Nat
          /\ toMac \subseteq Message /\ toPhone \subseteq Message
      BY ONLY TypeOK, Typed
    <2> QED BY ONLY <2>1
  <1>2. /\ DOMAIN ps = 1 .. Len(ps) /\ Len(ps) \in Nat
        /\ \A n \in 1 .. Len(ps) : ps[n] \in Packet
    BY ONLY ps \in Seq(Packet)
  <1>3. \A f \in F : \E n \in 1 .. Len(ps) : f = Frame(chan.sid, chan.nextOut + n - 1, mac.gen, ps[n])
    BY <1>2 DEF Frames
  <1>4. \A f \in F : /\ f \in Message
                     /\ \E n \in 1 .. Len(ps) :
                          /\ f.type = "frame" /\ f.sid = chan.sid /\ f.key = mac.gen
                          /\ f.seq = chan.nextOut + n - 1 /\ f.packet = ps[n]
    <2> SUFFICES ASSUME NEW f \in F
                 PROVE  /\ f \in Message
                        /\ \E n \in 1 .. Len(ps) :
                             /\ f.type = "frame" /\ f.sid = chan.sid /\ f.key = mac.gen
                             /\ f.seq = chan.nextOut + n - 1 /\ f.packet = ps[n]
      OBVIOUS
    <2>1. PICK n \in 1 .. Len(ps) : f = Frame(chan.sid, chan.nextOut + n - 1, mac.gen, ps[n])
      BY <1>3
    <2>2. chan.nextOut + n - 1 \in Nat
      BY <1>1
    <2> DEFINE s == chan.nextOut + n - 1
    <2>3. ps[n] \in Packet
      BY <1>2
    <2>5. s \in Nat /\ f = Frame(chan.sid, s, mac.gen, ps[n])
      BY <2>1, <2>2
    <2> HIDE DEF s
    <2>4. /\ f \in Message /\ f.type = "frame" /\ f.sid = chan.sid /\ f.seq = s /\ f.key = mac.gen
          /\ f.packet = ps[n]
      BY ONLY <1>1, <2>3, <2>5 DEF Frame, Message
    <2> QED BY <2>4 DEF s
  <1>5. e \in Message /\ e.type = "error" /\ e.packet.kind = "message1"
    BY <1>1, MessageIs
  <1>6. \/ toPhone' = toPhone \cup F /\ toMac' = left
        \/ toMac' = left \cup {e} /\ toPhone' = toPhone
    BY DEF Sends
  <1> HIDE DEF F, e
  <1> QED BY <1>1, <1>4, <1>5, <1>6

\* The channel has sent packets ps; nothing that it had still to send is left.
Sent(ps) ==
  /\ mac' \in Mac /\ mac'.up = mac.up /\ mac'.gen = mac.gen
  /\ chan' \in Channel /\ chan'.sid = chan.sid /\ chan'.expected = chan.expected
  /\ chan'.pending = chan.pending /\ chan'.cache = chan.cache
  /\ chan.work = <<>> /\ chan'.work = <<>> /\ chan'.out = <<>> /\ chan'.running = chan.running
  /\ chan'.busy = FALSE /\ chan.sid # 0
  /\ chan'.nextOut = chan.nextOut + Len(ps)
  /\ monitor' \in Monitor
  /\ toMac' \subseteq Message /\ toPhone' \subseteq Message
  /\ \A m \in toMac' : m \in toMac \/ (m.type = "error" /\ m.packet.kind = "message1")
  /\ \A f \in toPhone' : f \in toPhone \/
       \E n \in 1 .. Len(ps) :
         /\ f.type = "frame" /\ f.sid = chan.sid /\ f.key = mac.gen
         /\ f.seq = chan.nextOut + n - 1 /\ f.packet = ps[n]
  /\ UNCHANGED <<relay, opened, repeated, phone, resolve, log>>

LEMMA SendsAnswersIs ==
  ASSUME IInv, SendsAnswers
  PROVE  Sent(chan.out) /\ (Observed' => Observed /\ monitor'.show = monitor.show)
  <1>1. /\ TypeOK /\ mac \in Mac /\ chan \in Channel /\ monitor \in Monitor
        /\ toMac \in SUBSET Message /\ chan.out \in Seq(Packet) /\ chan.nextOut \in Nat
    BY Typed DEF IInv
  <1>2. /\ chan.busy /\ chan.work = <<>> /\ Sends(toMac, chan.out)
        /\ mac' = [mac EXCEPT !.chan.busy = FALSE, !.chan.out = <<>>, !.chan.nextOut = @ + Len(chan.out)]
        /\ monitor' = IF chan.hello /\ monitor.step = "off" THEN [MonitorOff EXCEPT !.step = "on"] ELSE monitor
        /\ UNCHANGED <<relay, opened, repeated, phone, resolve, log>>
    BY DEF SendsAnswers
  <1>3. chan.sid # 0
    BY <1>2 DEF IInv, ChannelInv, NoChannel
  <1>4. monitor' \in Monitor /\ (Observed' => Observed /\ monitor'.show = monitor.show)
    BY <1>1, <1>2, ShownIs DEF Monitor, MonitorOff, Observed
  <1>5. Len(chan.out) \in Nat /\ <<>> \in Seq(Packet)
    BY <1>1
  <1>6. /\ mac' \in Mac /\ mac'.up = mac.up /\ mac'.gen = mac.gen
        /\ chan' \in Channel /\ chan'.sid = chan.sid /\ chan'.expected = chan.expected
        /\ chan'.pending = chan.pending /\ chan'.cache = chan.cache
        /\ chan'.work = chan.work /\ chan'.out = <<>> /\ chan'.running = chan.running
        /\ chan'.busy = FALSE /\ chan'.nextOut = chan.nextOut + Len(chan.out)
    <2> DEFINE q == chan.nextOut + Len(chan.out)
               u == [chan EXCEPT !.busy = FALSE, !.out = <<>>, !.nextOut = q]
    <2>1. q \in Nat
      BY <1>1, <1>5
    <2>2. mac' = [mac EXCEPT !.chan = u]
      BY <1>1, <1>2 DEF Mac, Channel, chan
    <2> HIDE DEF q
    <2>3. /\ u \in Channel /\ u.sid = chan.sid /\ u.expected = chan.expected /\ u.pending = chan.pending
          /\ u.cache = chan.cache /\ u.work = chan.work /\ u.out = <<>> /\ u.running = chan.running
          /\ u.busy = FALSE /\ u.nextOut = q
      BY <1>1, <1>5, <2>1 DEF Channel
    <2> HIDE DEF u
    <2>4. mac' \in Mac /\ mac'.up = mac.up /\ mac'.gen = mac.gen /\ chan' = u
      BY <1>1, <2>2, <2>3 DEF Mac, chan
    <2> QED BY <2>3, <2>4 DEF q
  <1>7. /\ toMac' \subseteq Message /\ toPhone' \subseteq Message
        /\ \A m \in toMac' : m \in toMac \/ (m.type = "error" /\ m.packet.kind = "message1")
        /\ \A f \in toPhone' : f \in toPhone \/
             \E n \in 1 .. Len(chan.out) :
               /\ f.type = "frame" /\ f.sid = chan.sid /\ f.key = mac.gen
               /\ f.seq = chan.nextOut + n - 1 /\ f.packet = chan.out[n]
    BY <1>1, <1>2, SendsIs
  <1> QED BY <1>2, <1>3, <1>4, <1>6, <1>7 DEF Sent

LEMMA ReportsPageIs ==
  ASSUME IInv, ReportsPage
  PROVE  /\ ~Observed'
         /\ \/ Sent(<<>>)
            \/ Observed /\ Sent(<<PageEvent(monitor.show)>>)
  <1>1. /\ TypeOK /\ mac \in Mac /\ chan \in Channel /\ monitor \in Monitor
        /\ toMac \in SUBSET Message /\ chan.out \in Seq(Packet) /\ chan.nextOut \in Nat
    BY Typed DEF IInv
  <1> DEFINE ps == IF Stale \/ Unchanged \/ monitor.show.page = Other THEN <<>> ELSE <<PageEvent(monitor.show)>>
             last == IF Stale THEN chan.last ELSE monitor.show.page
             seen == IF Stale THEN chan.seen ELSE monitor.show.at
             q == chan.nextOut + Len(ps)
             u == [chan EXCEPT !.last = last, !.seen = seen, !.nextOut = q]
  <1>2. /\ monitor.step = "read" /\ ~chan.busy /\ Sends(toMac, ps)
        /\ monitor' = [MonitorOff EXCEPT !.step = "on"]
        /\ UNCHANGED <<relay, opened, repeated, phone, resolve, log>>
    BY DEF ReportsPage
  <1>16. mac' = [mac EXCEPT !.chan.last = last, !.chan.seen = seen, !.chan.nextOut = @ + Len(ps)]
    BY DEF ReportsPage, chan
  <1>3. ps = <<>> \/ (Observed /\ ps = <<PageEvent(monitor.show)>>)
    BY <1>2 DEF Observed, Stale
  <1>4. monitor.show \in Shown /\ PageEvent(monitor.show) \in Packet
    BY <1>1, PacketIs DEF Monitor
  <1>5. ps \in Seq(Packet)
    BY <1>3, <1>4
  <1>6. last \in Pages \cup {Other, None} /\ seen \in Int
    BY <1>1, <1>4, ShownIs DEF Channel
  <1> HIDE DEF ps, last, seen
  <1>7. q \in Nat
    BY <1>1, <1>5
  <1>8. mac' = [mac EXCEPT !.chan = u]
    BY <1>1, <1>16 DEF Mac, Channel, chan
  <1> HIDE DEF q
  <1>9. /\ u \in Channel /\ u.sid = chan.sid /\ u.expected = chan.expected /\ u.pending = chan.pending
        /\ u.cache = chan.cache /\ u.work = chan.work /\ u.out = chan.out /\ u.running = chan.running
        /\ u.busy = chan.busy /\ u.nextOut = q
    BY <1>1, <1>6, <1>7 DEF Channel
  <1> HIDE DEF u
  <1>10. mac' \in Mac /\ mac'.up = mac.up /\ mac'.gen = mac.gen /\ chan' = u
    BY <1>1, <1>8, <1>9 DEF Mac, chan
  <1>11. chan.work = <<>> /\ chan.out = <<>> /\ chan.sid # 0
    BY <1>2 DEF IInv, ChannelInv, MonitorOff
  <1>12. /\ toMac' \subseteq Message /\ toPhone' \subseteq Message
         /\ \A m \in toMac' : m \in toMac \/ (m.type = "error" /\ m.packet.kind = "message1")
         /\ \A f \in toPhone' : f \in toPhone \/
              \E n \in 1 .. Len(ps) :
                /\ f.type = "frame" /\ f.sid = chan.sid /\ f.key = mac.gen
                /\ f.seq = chan.nextOut + n - 1 /\ f.packet = ps[n]
    BY <1>1, <1>2, <1>5, SendsIs
  <1>13. monitor' \in Monitor /\ ~Observed'
    BY <1>2, ShownIs DEF Monitor, MonitorOff, Observed
  <1>14. chan.busy = FALSE
    BY <1>1, <1>2, ChannelIs
  <1>15. Sent(ps)
    BY <1>2, <1>9, <1>10, <1>11, <1>12, <1>13, <1>14 DEF Sent, q
  <1> QED BY <1>3, <1>13, <1>15

\* The channel is closed, and what was to be observed over it is not.
ChannelEnds ==
  /\ mac' \in Mac /\ mac'.gen = mac.gen /\ chan' = NoChannel /\ monitor' = MonitorOff
  /\ UNCHANGED <<opened, phone, resolve, log>>

LEMMA NoChannelIs ==
  /\ NoChannel \in Channel /\ MonitorOff \in Monitor /\ MonitorOff.step = "off"
  /\ NoChannel.sid = 0 /\ NoChannel.expected = 1 /\ NoChannel.nextOut = 1 /\ NoChannel.running = 0
  /\ NoChannel.pending = {} /\ NoChannel.cache = {} /\ NoChannel.busy = FALSE
  /\ NoChannel.work = <<>> /\ NoChannel.out = <<>>
  <1>1. 0 \in 0 .. MaxSessions /\ <<>> \in Seq(Message) /\ <<>> \in Seq(Packet)
    BY SessionChannelAssumption
  <1> QED BY <1>1, ShownIs DEF NoChannel, Channel, MonitorOff, Monitor

LEMMA FailsIs ==
  ASSUME IInv, Fails
  PROVE  /\ ChannelEnds /\ UNCHANGED repeated /\ relay' = 0 /\ toMac' = {} /\ toPhone' \subseteq Message
         /\ \A m \in toPhone' : m \in toPhone \/ (m.type = "closed" /\ m.packet.kind = "message1")
  <1>1. mac \in Mac /\ relay \in Nat /\ toPhone \subseteq Message
    BY Typed DEF IInv
  <1> DEFINE m == Notice("closed", relay)
  <1>2. m \in Message /\ m.type = "closed" /\ m.packet.kind = "message1"
    BY <1>1, MessageIs
  <1>3. toPhone' = toPhone \/ toPhone' = toPhone \cup {m}
    BY DEF Fails, EndSession
  <1> HIDE DEF m
  <1>4. toPhone' \subseteq Message /\ \A f \in toPhone' : f \in toPhone \/ (f.type = "closed" /\ f.packet.kind = "message1")
    BY <1>1, <1>2, <1>3
  <1>5. mac' \in Mac /\ mac'.gen = mac.gen /\ chan' = NoChannel
    BY <1>1, NoChannelIs DEF Fails, Mac, chan
  <1> QED BY <1>4, <1>5 DEF ChannelEnds, Fails, EndSession

LEMMA ClosesChannelIs ==
  ASSUME IInv, NEW m \in toMac, NEW left \in SUBSET toMac, ClosesChannel(m, left)
  PROVE  /\ ChannelEnds \/ UNCHANGED <<mac, monitor, opened, phone, resolve, log>>
         /\ toMac' = left /\ UNCHANGED <<relay, toPhone>>
  <1>1. mac \in Mac
    BY Typed DEF IInv
  <1>2. CASE m.sid = chan.sid
    <2>1. mac' \in Mac /\ mac'.gen = mac.gen /\ chan' = NoChannel
      BY <1>1, <1>2, NoChannelIs DEF ClosesChannel, Mac, chan
    <2> QED BY <1>2, <2>1 DEF ChannelEnds, ClosesChannel
  <1> QED BY <1>2 DEF ClosesChannel

LEMMA OpensChannelIs ==
  ASSUME IInv, NEW m \in toMac, NEW left \in SUBSET toMac, OpensChannel(m, left)
  PROVE  /\ mac' \in Mac /\ mac'.gen = mac.gen + 1 /\ mac'.up = mac.up /\ monitor' = MonitorOff
         /\ chan' = [NoChannel EXCEPT !.sid = m.sid] /\ chan' \in Channel
         /\ m.sid \in 1 .. opened /\ toMac' = left /\ toPhone' \subseteq Message
         /\ \A f \in toPhone' : f \in toPhone \/
              (f.type = "opened" /\ f.sid = phone.open /\ f.sid = m.sid /\ f.packet.kind = "message1")
         /\ UNCHANGED <<relay, opened, phone, resolve, log>>
  <1>1. /\ mac \in Mac /\ m.sid \in 1 .. opened /\ opened \in 0 .. MaxSessions /\ toPhone \subseteq Message
        /\ mac.gen \in Nat
    BY Typed DEF IInv, MessageInv, ToMac, OpensChannel
  <1> DEFINE u == [NoChannel EXCEPT !.sid = m.sid]
             e == Notice("opened", m.sid)
  <1>2. m.sid \in 0 .. MaxSessions /\ m.sid \in Nat
    BY <1>1, SessionChannelAssumption
  <1>3. u \in Channel
    BY <1>2, NoChannelIs DEF Channel
  <1>4. e \in Message /\ e.type = "opened" /\ e.sid = m.sid /\ e.packet.kind = "message1"
    BY <1>2, MessageIs
  <1>5. mac' = [mac EXCEPT !.gen = @ + 1, !.chan = u]
    BY DEF OpensChannel
  <1>6. toPhone' = toPhone \/ (phone.open = m.sid /\ toPhone' = toPhone \cup {e})
    BY DEF OpensChannel
  <1> HIDE DEF u, e
  <1>7. mac' \in Mac /\ mac'.gen = mac.gen + 1 /\ mac'.up = mac.up /\ chan' = u
    <2> DEFINE gen == mac.gen + 1
    <2>1. gen \in Nat /\ mac' = [mac EXCEPT !.gen = gen, !.chan = u]
      BY <1>1, <1>5 DEF Mac
    <2> HIDE DEF gen
    <2>2. mac' \in Mac /\ mac'.gen = gen /\ mac'.up = mac.up /\ chan' = u
      BY <1>1, <1>3, <2>1 DEF Mac, chan
    <2> QED BY <2>2 DEF gen
  <1>8. /\ toPhone' \subseteq Message
        /\ \A f \in toPhone' : f \in toPhone \/
             (f.type = "opened" /\ f.sid = phone.open /\ f.sid = m.sid /\ f.packet.kind = "message1")
    BY <1>1, <1>4, <1>6
  <1> QED BY <1>1, <1>3, <1>7, <1>8 DEF OpensChannel, u

LEMMA ReceivesIs ==
  ASSUME IInv, mac.up, ~chan.busy, NEW m \in toMac, NEW left \in SUBSET toMac, Receives(m, left)
  PROVE  /\ mac' \in Mac /\ mac'.up = mac.up /\ mac'.gen = mac.gen
         /\ chan' \in Channel /\ chan'.sid = chan.sid /\ chan'.nextOut = chan.nextOut
         /\ chan'.cache = chan.cache /\ chan'.running = chan.running /\ chan'.out = chan.out
         /\ (~chan'.busy => chan'.work = <<>>) /\ chan.work = <<>>
         /\ Received(chan.pending, chan.expected, chan.sid, m, chan'.pending, chan'.expected, chan'.work)
         /\ toMac' = left
         /\ UNCHANGED <<relay, opened, toPhone, monitor, phone, resolve, log>>
  <1>1. /\ mac \in Mac /\ chan \in Channel /\ m \in Message /\ chan.pending \in SUBSET Message
        /\ chan.expected \in Nat /\ chan.work = <<>>
        /\ Ordered(chan.pending, chan.expected, <<>>, chan.sid)
    BY Typed DEF IInv, ChannelInv
  <1> DEFINE all == chan.pending \cup {m}
             run == Run(all, chan.expected)
             rest == Rest(all, run)
             next == chan.expected + Len(run)
             u == [chan EXCEPT !.pending = rest, !.expected = next, !.work = run, !.busy = run # <<>>]
  <1>2. /\ m.type = "frame" /\ m.sid = chan.sid /\ ~OutOfWindow(chan.pending, chan.expected, m.seq)
        /\ toMac' = left
        /\ UNCHANGED <<relay, opened, toPhone, monitor, phone, resolve, log>>
    BY DEF Receives
  <1>3. mac' = [mac EXCEPT !.chan.pending = rest, !.chan.expected = @ + Len(run), !.chan.work = run, !.chan.busy = run # <<>>]
    BY DEF Receives, Rest
  <1>4. Received(chan.pending, chan.expected, chan.sid, m, rest, next, run)
    <2> HIDE DEF run
    <2>1. run = Run(chan.pending \cup {m}, chan.expected)
      BY DEF run
    <2> QED BY <1>1, <1>2, <2>1, ReceiveIs
  <1>5. rest \subseteq Message /\ next \in Nat /\ run \in Seq(Message)
    <2> HIDE DEF rest, run
    <2> QED BY <1>1, <1>4 DEF Received
  <1>6. mac' = [mac EXCEPT !.chan = u]
    <2> HIDE DEF rest, run
    <2> QED BY <1>1, <1>3 DEF Mac, Channel, chan
  <1> HIDE DEF rest, run, next, all
  <1>8. /\ u \in Channel /\ u.sid = chan.sid /\ u.nextOut = chan.nextOut /\ u.cache = chan.cache
        /\ u.running = chan.running /\ u.out = chan.out /\ u.busy = (run # <<>>)
        /\ u.pending = rest /\ u.expected = next /\ u.work = run
    BY <1>1, <1>5 DEF Channel
  <1> HIDE DEF u
  <1>9. mac' \in Mac /\ mac'.up = mac.up /\ mac'.gen = mac.gen /\ chan' = u
    BY <1>1, <1>6, <1>8 DEF Mac, chan
  <1> QED BY <1>1, <1>2, <1>4, <1>8, <1>9

-----------------------------------------------------------------------------
(***************************************************************************)
(* What the parts of the invariant depend on, and the steps that leave it  *)
(* alone.                                                                  *)
(***************************************************************************)
LEMMA ElementsAre ==
  /\ Elements(<<>>) = {}
  /\ \A s : \A n \in 1 .. Len(s) : s[n] \in Elements(s)
  /\ \A S : \A s \in Seq(S) : Elements(s) \subseteq S
  BY DEF Elements

LEMMA HeadIs ==
  ASSUME NEW S, NEW s \in Seq(S), s # <<>>
  PROVE  /\ Head(s) = s[1] /\ Head(s) \in S /\ Head(s) \in Elements(s)
         /\ Tail(s) \in Seq(S) /\ Elements(Tail(s)) \subseteq Elements(s)
         /\ Len(s) \in Nat /\ Len(s) >= 1 /\ Len(Tail(s)) = Len(s) - 1
         /\ \A n \in 1 .. Len(Tail(s)) : Tail(s)[n] = s[n + 1]
  <1>1. /\ Head(s) = s[1] /\ Head(s) \in S /\ Tail(s) \in Seq(S)
        /\ Len(s) \in Nat /\ Len(s) >= 1 /\ Len(Tail(s)) = Len(s) - 1
        /\ \A n \in 1 .. Len(Tail(s)) : Tail(s)[n] = s[n + 1]
    BY EmptySeq, HeadTailProperties
  <1>2. Head(s) \in Elements(s)
    BY <1>1 DEF Elements
  <1>3. \A n \in 1 .. Len(Tail(s)) : n + 1 \in 1 .. Len(s)
    BY <1>1
  <1>4. Elements(Tail(s)) \subseteq Elements(s)
    BY <1>1, <1>3 DEF Elements
  <1> QED BY <1>1, <1>2, <1>4

\* The next packet of those under way.
LEMMA NextIs ==
  ASSUME NEW pending, NEW expected \in Nat, NEW work \in Seq(Message), NEW sid,
         Ordered(pending, expected, work, sid), work # <<>>
  PROVE  Head(work).type = "frame" /\ Head(work).sid = sid /\ Head(work).seq = expected - Len(work)
  <1>1. Len(work) \in Nat /\ Len(work) >= 1 /\ Head(work) = work[1]
    BY HeadIs
  <1>2. 1 \in 1 .. Len(work) /\ expected - Len(work) + 1 - 1 = expected - Len(work)
    BY <1>1
  <1> QED BY <1>1, <1>2 DEF Ordered

LEMMA OthersAre ==
  ASSUME NEW pending, NEW expected \in Nat, NEW work \in Seq(Message), NEW sid,
         Ordered(pending, expected, work, sid), work # <<>>
  PROVE  Ordered(pending, expected, Tail(work), sid)
  <1>1. /\ Len(work) \in Nat /\ Len(work) >= 1 /\ Len(Tail(work)) = Len(work) - 1
        /\ \A n \in 1 .. Len(Tail(work)) : Tail(work)[n] = work[n + 1]
    BY HeadIs
  <1>2. ASSUME NEW n \in 1 .. Len(Tail(work))
        PROVE  /\ Tail(work)[n].type = "frame" /\ Tail(work)[n].sid = sid
               /\ Tail(work)[n].seq = expected - Len(Tail(work)) + n - 1
    <2>1. n + 1 \in 1 .. Len(work) /\ Tail(work)[n] = work[n + 1]
      BY <1>1
    <2>2. expected - Len(work) + (n + 1) - 1 = expected - Len(Tail(work)) + n - 1
      BY <1>1
    <2> QED BY <2>1, <2>2 DEF Ordered
  <1> QED BY <1>2 DEF Ordered

LEMMA UnderWay ==
  ASSUME IInv
  PROVE  /\ ToMac \subseteq Message /\ ToPhone \subseteq Message
         /\ MacNext \in Int /\ PhoneNext \in Int
         /\ Len(chan.work) \in Nat /\ Len(phone.work) \in Nat /\ Len(chan.out) \in Nat
         /\ opened \in Nat /\ mac.gen \in Nat
  <1>1. /\ toMac \subseteq Message /\ toPhone \subseteq Message
        /\ chan.pending \subseteq Message /\ phone.pending \subseteq Message
        /\ chan.work \in Seq(Message) /\ phone.work \in Seq(Message) /\ chan.out \in Seq(Packet)
        /\ chan.expected \in Nat /\ phone.expected \in Nat /\ mac.gen \in Nat
        /\ opened \in 0 .. MaxSessions
    BY Typed DEF IInv
  <1>2. Elements(chan.work) \subseteq Message /\ Elements(phone.work) \subseteq Message
    BY <1>1, ElementsAre
  <1>3. Len(chan.work) \in Nat /\ Len(phone.work) \in Nat /\ Len(chan.out) \in Nat
    BY <1>1
  <1>4. MacNext \in Int /\ PhoneNext \in Int
    BY <1>1, <1>3 DEF MacNext, PhoneNext
  <1>5. ToMac \subseteq Message /\ ToPhone \subseteq Message
    BY <1>1, <1>2 DEF ToMac, ToPhone
  <1> QED BY <1>1, <1>3, <1>4, <1>5, SessionChannelAssumption

LEMMA RequestIs ==
  ASSUME IInv, NEW f \in ToMac, IsRequest(f)
  PROVE  /\ f \in Message /\ f.type = "frame" /\ f.sid \in 1 .. opened /\ f.key \in Nat /\ f.seq \in Nat
         /\ f.key <= mac.gen
         /\ f.packet.cmd \in 1 .. phone.issued /\ f.packet.cmd \in Command
  <1>1. f \in Message /\ f.key \in Nat /\ f.seq \in Nat
    BY UnderWay, MessageIs
  <1>2. f.type = "frame" /\ f.sid \in 1 .. opened /\ f.key <= mac.gen
    BY DEF IInv, MessageInv, IsRequest
  <1>3. phone.issued \in 0 .. MaxCommands /\ MaxCommands \in Nat
    BY Typed DEF IInv
  <1>4. f.packet.cmd \in 1 .. phone.issued
    BY DEF IInv, RequestInv, RequestsKnown
  <1> QED BY <1>1, <1>2, <1>3, <1>4 DEF Command

\* How the session that the controller knows may change.
KnowsSession ==
  \/ phone'.sid = phone.sid /\ phone'.open = phone.open /\ phone'.nextOut >= phone.nextOut
  \/ phone'.sid = 0 /\ phone'.open \notin 1 .. opened
  \/ phone.sid = 0 /\ phone'.sid = phone.open /\ phone'.open = phone.open
\* The companion's channel handles later packets only, or ends.
GoesOn ==
  \/ chan'.sid = chan.sid /\ mac'.gen = mac.gen /\ MacNext' \in Int /\ MacNext' >= MacNext
  \/ chan'.sid = 0
  \/ mac'.gen > mac.gen

LEMMA RequestsStay ==
  ASSUME IInv, phone' \in Phone, mac' \in Mac, \A f \in ToMac' : IsRequest(f) => f \in ToMac,
         phone'.issued >= phone.issued, KnowsSession, GoesOn, executed' = executed
  PROVE  RequestInv'
  <1>1. /\ phone \in Phone /\ phone'.issued \in Nat /\ phone.issued \in Nat
        /\ phone'.nextOut \in Nat /\ phone.nextOut \in Nat
        /\ mac.gen \in Nat /\ mac'.gen \in Nat /\ MacNext \in Int
    BY Typed, UnderWay DEF IInv, Phone, Mac
  <1>2. RequestsKnown'
    <2> SUFFICES ASSUME NEW f \in ToMac', IsRequest(f)
                 PROVE  /\ f.packet.cmd \in 1 .. phone'.issued /\ f.packet.show.page \in Pages
                        /\ phone'.sid # 0 /\ f.sid = phone'.sid => f.seq < phone'.nextOut
                        /\ phone'.sid = 0 => f.sid # phone'.open
      BY DEF RequestsKnown, IsRequest
    <2>1. f \in ToMac /\ f.sid \in 1 .. opened /\ f.seq \in Nat /\ f.packet.cmd \in 1 .. phone.issued
      BY RequestIs
    <2>2. /\ f.packet.show.page \in Pages
          /\ phone.sid # 0 /\ f.sid = phone.sid => f.seq < phone.nextOut
          /\ phone.sid = 0 => f.sid # phone.open
      BY <2>1 DEF IInv, RequestInv, RequestsKnown
    <2>3. f.packet.cmd \in 1 .. phone'.issued
      BY <1>1, <2>1
    <2> QED BY <1>1, <2>1, <2>2, <2>3 DEF KnowsSession
  <1>3. RequestsInOrder'
    BY DEF IInv, RequestInv, RequestsInOrder, IsRequest
  <1>4. RequestsNew'
    <2> SUFFICES ASSUME NEW f \in ToMac', IsRequest(f), f.sid = chan'.sid, f.key = mac'.gen, f.seq >= MacNext',
                        NEW n \in 1 .. Len(executed)
                 PROVE  executed[n] < f.packet.cmd
      BY DEF RequestsNew, IsRequest
    <2>1. f \in ToMac /\ f.sid # 0 /\ f.key <= mac.gen /\ f.key \in Nat /\ f.seq \in Nat
      BY RequestIs
    <2>2. chan'.sid = chan.sid /\ mac'.gen = mac.gen /\ f.seq >= MacNext
      BY <1>1, <2>1 DEF GoesOn
    <2> QED BY <2>1, <2>2 DEF IInv, RequestInv, RequestsNew
  <1> QED BY <1>2, <1>3, <1>4 DEF RequestInv

\* A message that was not under way before is one that MessageInv admits.
Proper(m) ==
  /\ m.type \in {"frame", "opened"} => m.sid \in 1 .. opened
  /\ m.type # "frame" => m.packet.kind = "message1"
  /\ m.type = "frame" => m.key <= mac.gen

LEMMA MessagesStay ==
  ASSUME IInv, opened' \in Nat, opened' >= opened, mac'.gen \in Nat, mac'.gen >= mac.gen,
         \A m \in ToMac' \cup ToPhone' : m \in ToMac \cup ToPhone \/ Proper(m)',
         \A m \in toPhone' : m.type = "opened" =>
           m.sid = phone'.open \/ (m \in toPhone /\ phone'.open = phone.open)
  PROVE  MessageInv'
  <1>1. opened \in Nat /\ mac.gen \in Nat /\ ToMac \cup ToPhone \subseteq Message
    BY UnderWay
  <1>2. ASSUME NEW m \in ToMac \cup ToPhone PROVE Proper(m)'
    <2>1. m.key \in Nat /\ m.sid \in Nat
      BY <1>1, MessageIs
    <2>2. Proper(m)
      BY DEF IInv, MessageInv, Proper
    <2> QED BY <1>1, <2>1, <2>2 DEF Proper
  <1>3. \A m \in ToMac' \cup ToPhone' : Proper(m)'
    BY <1>2
  <1>4. \A m \in toPhone' : m.type = "opened" => m.sid = phone'.open
    BY DEF IInv, MessageInv
  <1> QED BY <1>3, <1>4 DEF MessageInv, Proper

LEMMA TellsIs ==
  ASSUME IInv
  PROVE  /\ \A f \in ToPhone : f.seq \in Nat /\ f.key \in Nat /\ f.packet \in Packet /\ f.packet.show.at \in Nat
         /\ \A f \in ToPhone : Tells(f.packet) => f.sid \in 1 .. opened /\ f.key <= mac.gen
         /\ \A n \in 1 .. Len(chan.out) : chan.out[n] \in Packet /\ chan.out[n].show.at \in Nat
         /\ monitor.show.at \in Nat /\ resolve.at \in Nat /\ phone.selected.at \in Nat
         /\ chan.sid \in 0 .. opened /\ chan.nextOut \in Nat
         /\ chan.sid = 0 => chan.out = <<>> /\ ~Observed
  <1>1. /\ chan.out \in Seq(Packet) /\ monitor \in Monitor /\ resolve \in Shown /\ phone.selected \in Shown
        /\ chan.sid \in 0 .. MaxSessions /\ chan.nextOut \in Nat
    BY Typed DEF IInv
  <1>2. \A p \in Packet : p.show.at \in Nat
    BY PacketIs, ShownIs
  <1>3. ASSUME NEW f \in ToPhone
        PROVE  f.seq \in Nat /\ f.key \in Nat /\ f.packet \in Packet /\ f.packet.show.at \in Nat
    BY <1>2, UnderWay, MessageIs
  <1>4. ASSUME NEW f \in ToPhone, Tells(f.packet)
        PROVE  f.sid \in 1 .. opened /\ f.key <= mac.gen
    <2>1. f.type = "frame"
      BY <1>4 DEF IInv, MessageInv, Tells, Confirms
    <2> QED BY <2>1 DEF IInv, MessageInv
  <1>5. \A n \in 1 .. Len(chan.out) : chan.out[n] \in Packet /\ chan.out[n].show.at \in Nat
    BY <1>1, <1>2
  <1>6. monitor.show.at \in Nat /\ resolve.at \in Nat /\ phone.selected.at \in Nat
    BY <1>1, ShownIs DEF Monitor
  <1>7. chan.sid \in 0 .. opened /\ (chan.sid = 0 => chan.out = <<>> /\ ~Observed)
    BY <1>1, UnderWay, NoChannelIs DEF IInv, ChannelInv, Observed
  <1> QED BY <1>1, <1>3, <1>4, <1>5, <1>6, <1>7

\* A step that tells the controller nothing of a page: the channel stays as it
\* is, or one that has told nothing takes its place, or none does.
Calm ==
  \/ /\ chan'.sid = chan.sid /\ mac'.gen = mac.gen /\ chan'.out = chan.out /\ chan'.nextOut = chan.nextOut
     /\ Observed' => Observed /\ monitor'.show = monitor.show
  \/ /\ chan'.out = <<>> /\ ~Observed'
     /\ chan'.sid = 0 \/ mac'.gen > mac.gen

LEMMA PagesStay ==
  ASSUME IInv, mac'.gen \in Nat, resolve' \in Shown, resolve'.at >= resolve.at, done \subseteq done', Calm,
         \A f \in ToPhone' : Tells(f.packet) => f \in ToPhone
  PROVE  SuccessInv' /\ OrderInv'
  <1>1. /\ \A f \in ToPhone : f.seq \in Nat /\ f.key \in Nat /\ f.packet.show.at \in Nat
        /\ \A f \in ToPhone : Tells(f.packet) => f.key <= mac.gen
        /\ \A n \in 1 .. Len(chan.out) : chan.out[n].show.at \in Nat
        /\ monitor.show.at \in Nat /\ resolve.at \in Nat /\ resolve'.at \in Nat
        /\ mac.gen \in Nat
    BY TellsIs, UnderWay, ShownIs
  <1>2. Len(<<>>) = 0
    OBVIOUS
  <1>3. SuccessInv'
    BY <1>2 DEF IInv, SuccessInv, Tells, Calm
  <1>4. ToldOfThePast'
    BY <1>1 DEF IInv, OrderInv, ToldOfThePast
  <1>5. ToldInOrder'
    BY <1>1 DEF IInv, OrderInv, ToldInOrder
  <1>6. TellsInOrder'
    <2>1. TellsInOrder
      BY DEF IInv, OrderInv
    <2>2. CASE chan'.out = <<>>
      BY <1>2, <2>2 DEF TellsInOrder
    <2>3. CASE chan'.out = chan.out /\ (Observed' => Observed /\ monitor'.show = monitor.show)
      <3> SUFFICES ASSUME NEW n \in 1 .. Len(chan.out), Tells(chan.out[n])
                   PROVE  /\ chan.out[n].show.at <= resolve'.at
                          /\ \A k \in n .. Len(chan.out) :
                               Tells(chan.out[k]) => chan.out[n].show.at <= chan.out[k].show.at
                          /\ Observed' => chan.out[n].show.at <= monitor'.show.at
        BY <2>3 DEF TellsInOrder, Tells, Confirms
      <3>1. /\ chan.out[n].show.at <= resolve.at
            /\ \A k \in n .. Len(chan.out) :
                 Tells(chan.out[k]) => chan.out[n].show.at <= chan.out[k].show.at
            /\ Observed => chan.out[n].show.at <= monitor.show.at
        BY <2>1 DEF TellsInOrder
      <3>2. chan.out[n].show.at <= resolve'.at
        <4>1. chan.out[n].show.at \in Nat /\ resolve.at \in Nat /\ resolve'.at \in Nat
          BY <1>1
        <4> QED BY <3>1, <4>1
      <3>3. Observed' => chan.out[n].show.at <= monitor'.show.at
        BY <2>3, <3>1
      <3> QED BY <3>1, <3>2, <3>3
    <2> QED BY <2>2, <2>3 DEF Calm
  <1>7. TellsWhatIsNewer'
    <2> SUFFICES ASSUME NEW f \in ToPhone', Tells(f.packet), f.key = mac'.gen, chan'.sid # 0
                 PROVE  /\ f.seq < chan'.nextOut
                        /\ \A n \in 1 .. Len(chan'.out) :
                             Tells(chan'.out[n]) => f.packet.show.at <= chan'.out[n].show.at
                        /\ Observed' => f.packet.show.at <= monitor'.show.at
      BY DEF TellsWhatIsNewer
    <2>1. f \in ToPhone /\ f.key <= mac.gen /\ f.key \in Nat
      BY <1>1
    <2>2. ~(mac'.gen > mac.gen)
      BY <1>1, <2>1
    <2> QED BY <2>1, <2>2 DEF IInv, OrderInv, TellsWhatIsNewer, Calm
  <1>8. ObservesThePast'
    BY <1>1 DEF IInv, OrderInv, ObservesThePast, Calm
  <1> QED BY <1>3, <1>4, <1>5, <1>6, <1>7, <1>8 DEF OrderInv

\* The controller is connected over no other channel than before.
Holds ==
  \A sid \in 1 .. opened, key \in Nat : Its(sid, key)' =>
    Its(sid, key) /\ PhoneNext' \in Int /\ PhoneNext' >= PhoneNext

LEMMA SelectedStays ==
  ASSUME IInv, phone'.selected = phone.selected, mac'.gen \in Nat, resolve' \in Shown, resolve'.at >= resolve.at,
         Calm, Holds, \A f \in ToPhone' : Tells(f.packet) => f \in ToPhone
  PROVE  SelectedInv'
  <1>1. /\ \A f \in ToPhone : f.seq \in Nat /\ f.key \in Nat
        /\ \A f \in ToPhone : Tells(f.packet) => f.sid \in 1 .. opened
        /\ resolve.at \in Nat /\ resolve'.at \in Nat /\ phone.selected.at \in Nat
        /\ chan.sid \in 0 .. opened /\ opened \in Nat
        /\ chan.sid = 0 => chan.out = <<>> /\ ~Observed
        /\ PhoneNext \in Int /\ mac.gen \in Nat
    BY TellsIs, UnderWay, ShownIs
  <1>2. Len(<<>>) = 0
    OBVIOUS
  <1>3. phone'.selected.at <= resolve'.at
    BY <1>1 DEF IInv, SelectedInv
  <1>4. WillBeTold'
    <2> SUFFICES ASSUME NEW f \in ToPhone', Tells(f.packet), Its(f.sid, f.key)', f.seq >= PhoneNext'
                 PROVE  phone'.selected.at <= f.packet.show.at
      BY DEF WillBeTold
    <2>1. f \in ToPhone /\ f.sid \in 1 .. opened /\ f.key \in Nat /\ f.seq \in Nat
      BY <1>1
    <2>2. Its(f.sid, f.key) /\ f.seq >= PhoneNext
      BY <1>1, <2>1 DEF Holds
    <2> QED BY <2>1, <2>2 DEF IInv, SelectedInv, WillBeTold
  <1>5. WillTell'
    <2>1. CASE chan'.out = <<>> /\ ~Observed'
      BY <1>2, <2>1 DEF WillTell
    <2>2. CASE /\ chan'.sid = chan.sid /\ mac'.gen = mac.gen /\ chan'.out = chan.out /\ chan.sid # 0
               /\ Observed' => Observed /\ monitor'.show = monitor.show
      <3>1. chan.sid \in 1 .. opened
        BY <1>1, <2>2
      <3>2. Its(chan.sid, mac.gen)' => Its(chan.sid, mac.gen)
        BY <1>1, <2>2, <3>1 DEF Holds, Its
      <3> QED BY <2>2, <3>2 DEF IInv, SelectedInv, WillTell
    <2> QED BY <1>1, <2>1, <2>2 DEF Calm
  <1> QED BY <1>3, <1>4, <1>5 DEF SelectedInv

LEMMA LogStays ==
  ASSUME IInv, UNCHANGED <<executed, done, outcome>>, chan'.running \in {0, chan.running},
         phone'.cmd = phone.cmd, phone'.issued \in Nat, phone'.issued >= phone.issued
  PROVE  LogInv'
  <1>1. phone.issued \in 0 .. MaxCommands /\ MaxCommands \in Nat /\ executed \in Seq(Command)
    BY Typed DEF IInv
  <1>2. \A n \in 1 .. Len(executed) : executed[n] <= phone'.issued
    <2>1. \A n \in 1 .. Len(executed) : executed[n] \in Nat /\ executed[n] <= phone.issued
      BY <1>1 DEF IInv, LogInv, Command
    <2> QED BY <1>1, <2>1
  <1> QED BY <1>2 DEF IInv, LogInv

\* Everything has its type, given the bounds that ChannelInv and PhoneInv state.
LEMMA TypedAgain ==
  ASSUME relay' \in 0 .. MaxSessions, opened' \in 0 .. MaxSessions, repeated' \in 0 .. MaxRepeats,
         toMac' \subseteq Message, toPhone' \subseteq Message, mac' \in Mac, monitor' \in Monitor,
         phone' \in Phone, resolve' \in Shown, executed' \in Seq(Command), done' \subseteq Command,
         outcome' \in [Command -> {"none", "waiting", "succeeded", "failed", "expired", "lost"}],
         Len(phone'.late) <= LateWindow, ChannelInv', PhoneInv'
  PROVE  TypeOK'
  <1>1. \A pending \in {chan'.pending, phone'.pending} : Cardinality(pending) <= Window
    BY DEF ChannelInv, PhoneInv, Ordered
  <1>2. Cardinality(chan'.cache) <= MaxRequests
    BY DEF ChannelInv
  <1> QED BY <1>1, <1>2 DEF TypeOK

\* Steps of the companion's side: the controller's is as it was.
LEMMA MacStepTyped ==
  ASSUME IInv, UNCHANGED <<opened, phone, outcome>>,
         relay' \in 0 .. MaxSessions, repeated' \in 0 .. MaxRepeats,
         toMac' \subseteq Message, toPhone' \subseteq Message, mac' \in Mac, monitor' \in Monitor,
         resolve' \in Shown, executed' \in Seq(Command), done' \subseteq Command,
         mac'.gen >= mac.gen, ChannelInv',
         \A m \in ToMac' : m \in ToMac \/ Proper(m)',
         \A m \in toPhone' : m \in toPhone \/ (Proper(m)' /\ (m.type = "opened" => m.sid = phone.open))
  PROVE  TypeOK' /\ PhoneInv' /\ MessageInv'
  <1>1. mac.gen \in Nat /\ mac'.gen \in Nat /\ opened \in Nat /\ phone.key \in Nat
    BY UnderWay, Typed DEF IInv, Mac
  <1>2. PhoneInv'
    BY <1>1 DEF IInv, PhoneInv
  <1>3. /\ phone' \in Phone /\ opened' \in 0 .. MaxSessions /\ Len(phone'.late) <= LateWindow
        /\ outcome' \in [Command -> {"none", "waiting", "succeeded", "failed", "expired", "lost"}]
    BY DEF IInv, TypeOK
  <1>4. TypeOK'
    BY <1>2, <1>3, TypedAgain
  <1>5. \A m \in ToPhone' : m \in ToPhone \/ Proper(m)'
    BY DEF ToPhone
  <1>6. MessageInv'
    <2>1. \A m \in ToMac' \cup ToPhone' : m \in ToMac \cup ToPhone \/ Proper(m)'
      BY <1>5
    <2> QED BY <1>1, <2>1, MessagesStay
  <1> QED BY <1>2, <1>4, <1>6

LEMMA PhoneSame ==
  ASSUME IInv, UNCHANGED phone
  PROVE  KnowsSession /\ Holds /\ phone' \in Phone /\ phone.issued \in Nat /\ phone'.issued >= phone.issued
  <1>1. phone \in Phone /\ phone.nextOut \in Nat /\ phone.issued \in 0 .. MaxCommands /\ MaxCommands \in Nat
    BY Typed DEF IInv
  <1>2. PhoneNext' = PhoneNext /\ PhoneNext \in Int
    BY UnderWay DEF PhoneNext
  <1>3. \A sid \in 1 .. opened, key \in Nat : Its(sid, key)' <=> Its(sid, key)
    BY DEF Its
  <1>4. Holds
    BY <1>2, <1>3 DEF Holds
  <1> QED BY <1>1, <1>4 DEF KnowsSession

\* What the relay and the companion say of a session, apart from its frames.
Notifies(m) == m.type \in {"closed", "error"} /\ m.packet.kind = "message1"

LEMMA MacStepKeeps ==
  ASSUME IInv, UNCHANGED <<opened, phone, log>>,
         relay' \in 0 .. MaxSessions, repeated' \in 0 .. MaxRepeats,
         toMac' \subseteq Message, toPhone' \subseteq Message, mac' \in Mac, monitor' \in Monitor,
         resolve' \in Shown, resolve'.at >= resolve.at, mac'.gen >= mac.gen,
         ChannelInv', Calm, GoesOn, chan'.running \in {0, chan.running},
         \A m \in ToMac' : m \in ToMac \/ Notifies(m),
         \A m \in toPhone' : m \in toPhone \/ Notifies(m) \/
           (m.type = "opened" /\ m.packet.kind = "message1" /\ m.sid = phone.open /\ m.sid \in 1 .. opened)
  PROVE  IInv'
  <1>1. UNCHANGED <<opened, phone, outcome, executed, done>>
    BY DEF log
  <1>2. executed' \in Seq(Command) /\ done' \subseteq Command /\ mac'.gen \in Nat
    BY <1>1, Typed DEF IInv, Mac
  <1>3. /\ \A m \in ToMac' : m \in ToMac \/ Proper(m)'
        /\ \A m \in toPhone' : m \in toPhone \/ (Proper(m)' /\ (m.type = "opened" => m.sid = phone.open))
    BY <1>1 DEF Proper, Notifies
  <1>4. TypeOK' /\ PhoneInv' /\ MessageInv'
    BY <1>1, <1>2, <1>3, MacStepTyped
  <1>5. KnowsSession /\ Holds /\ phone' \in Phone /\ phone.issued \in Nat /\ phone'.issued >= phone.issued
    BY <1>1, PhoneSame
  <1>6. \A f \in ToMac' : IsRequest(f) => f \in ToMac
    BY DEF IsRequest, Notifies
  <1>7. \A f \in ToPhone' : Tells(f.packet) => f \in ToPhone
    BY <1>1 DEF ToPhone, Tells, Confirms, Notifies
  <1>8. RequestInv'
    BY <1>1, <1>5, <1>6, RequestsStay
  <1>9. LogInv'
    BY <1>1, <1>5, LogStays
  <1>10. SuccessInv' /\ OrderInv'
    BY <1>1, <1>2, <1>7, PagesStay
  <1>11. SelectedInv'
    BY <1>1, <1>2, <1>5, <1>7, SelectedStays
  <1> QED BY <1>4, <1>8, <1>9, <1>10, <1>11 DEF IInv

\* What most steps leave as it is.
LEMMA Quiet ==
  ASSUME IInv
  PROVE  /\ relay \in 0 .. MaxSessions /\ repeated \in 0 .. MaxRepeats /\ 0 \in 0 .. MaxSessions
         /\ toMac \subseteq Message /\ toPhone \subseteq Message
         /\ resolve \in Shown /\ resolve.at \in Nat /\ opened \in Nat /\ relay \in Nat /\ chan.sid \in Nat
         /\ executed \in Seq(Command) /\ done \subseteq Command /\ mac \in Mac /\ monitor \in Monitor
  <1>1. TypeOK /\ 0 \in 0 .. MaxSessions /\ 0 .. MaxSessions \subseteq Nat
    BY SessionChannelAssumption DEF IInv
  <1>2. resolve \in Shown /\ repeated \in 0 .. MaxRepeats /\ mac \in Mac /\ monitor \in Monitor
    BY <1>1 DEF TypeOK
  <1>3. /\ relay \in 0 .. MaxSessions /\ opened \in 0 .. MaxSessions /\ chan.sid \in 0 .. MaxSessions
        /\ toMac \subseteq Message /\ toPhone \subseteq Message
        /\ executed \in Seq(Command) /\ done \subseteq Command
    BY <1>1, Typed
  <1> QED BY <1>1, <1>2, <1>3, ShownIs

LEMMA SameChannel ==
  ASSUME IInv, UNCHANGED <<mac, monitor>>, opened' \in Nat, opened' >= opened
  PROVE  /\ mac' \in Mac /\ mac'.gen \in Nat /\ mac'.gen >= mac.gen /\ monitor' \in Monitor /\ chan' = chan
         /\ ChannelInv' /\ Calm /\ GoesOn /\ chan'.running \in {0, chan.running}
  <1>1. mac \in Mac /\ monitor \in Monitor /\ chan' = chan /\ opened \in Nat /\ mac.gen \in Nat /\ chan.sid \in Nat
    <2>1. chan' = chan
      BY DEF chan
    <2> QED BY <2>1, Quiet, UnderWay
  <1>2. ChannelInv'
    BY <1>1 DEF IInv, ChannelInv
  <1>3. Calm
    BY <1>1 DEF Calm, Observed
  <1>4. GoesOn
    BY <1>1, UnderWay DEF GoesOn, MacNext
  <1> QED BY <1>1, <1>2, <1>3, <1>4

LEMMA EndedChannel ==
  ASSUME IInv, ChannelEnds
  PROVE  /\ mac' \in Mac /\ mac'.gen \in Nat /\ mac'.gen >= mac.gen /\ monitor' \in Monitor
         /\ chan'.pending = {} /\ chan'.work = <<>> /\ UNCHANGED opened
         /\ ChannelInv' /\ Calm /\ GoesOn /\ chan'.running \in {0, chan.running}
  <1>1. /\ mac' \in Mac /\ mac'.gen \in Nat /\ mac'.gen >= mac.gen /\ monitor' \in Monitor
        /\ chan' = NoChannel /\ monitor' = MonitorOff /\ opened' = opened /\ opened \in Nat
    BY NoChannelIs, UnderWay DEF ChannelEnds
  <1>2. Ordered({}, 1, <<>>, 0) /\ IsFiniteSet({}) /\ Cardinality({}) <= MaxRequests
    BY FS_EmptySet, SessionChannelAssumption DEF Ordered
  <1>3. ChannelInv'
    BY <1>1, <1>2, NoChannelIs DEF ChannelInv
  <1>4. Calm /\ GoesOn
    BY <1>1, NoChannelIs DEF Calm, GoesOn, Observed
  <1> QED BY <1>1, <1>3, <1>4, NoChannelIs

LEMMA LeftIs ==
  ASSUME IInv, NEW messages, NEW m, NEW left \in Left(messages, m),
         repeated' = repeated + (IF m \in left THEN 1 ELSE 0)
  PROVE  left \in SUBSET messages /\ repeated' \in 0 .. MaxRepeats
  <1>1. repeated \in 0 .. MaxRepeats /\ MaxRepeats \in Nat
    BY SessionChannelAssumption DEF IInv, TypeOK
  <1>2. left = messages \ {m} \/ (left = messages /\ repeated < MaxRepeats)
    BY DEF Left
  <1>3. m \in left => repeated < MaxRepeats
    BY <1>2
  <1> QED BY <1>1, <1>2, <1>3

LEMMA FailsKeeps ==
  ASSUME IInv, Fails, repeated' \in 0 .. MaxRepeats
  PROVE  IInv'
  <1>1. /\ ChannelEnds /\ relay' = 0 /\ toMac' = {} /\ toPhone' \subseteq Message
        /\ \A m \in toPhone' : m \in toPhone \/ Notifies(m)
    BY FailsIs DEF Notifies
  <1>2. /\ mac' \in Mac /\ mac'.gen >= mac.gen /\ monitor' \in Monitor
        /\ chan'.pending = {} /\ chan'.work = <<>> /\ UNCHANGED <<opened, phone, log, resolve>>
        /\ ChannelInv' /\ Calm /\ GoesOn /\ chan'.running \in {0, chan.running}
    BY <1>1, EndedChannel DEF ChannelEnds
  <1>3. ToMac' = {}
    BY <1>1, <1>2, ElementsAre DEF ToMac
  <1>4. resolve' \in Shown /\ resolve'.at >= resolve.at /\ relay' \in 0 .. MaxSessions
    BY <1>1, <1>2, Quiet
  <1> QED BY <1>1, <1>2, <1>3, <1>4, MacStepKeeps

LEMMA CutKeeps ==
  ASSUME IInv, Cut
  PROVE  IInv'
  <1>1. Fails /\ repeated' = repeated
    BY FailsIs DEF Cut
  <1>2. repeated \in 0 .. MaxRepeats
    BY DEF IInv, TypeOK
  <1> QED BY <1>1, <1>2, FailsKeeps

LEMMA RejectsPacketKeeps ==
  ASSUME IInv, RejectsPacket
  PROVE  IInv'
  <1>1. Fails /\ repeated' = repeated
    BY FailsIs DEF RejectsPacket
  <1>2. repeated \in 0 .. MaxRepeats
    BY DEF IInv, TypeOK
  <1> QED BY <1>1, <1>2, FailsKeeps

LEMMA ReconnectsKeeps ==
  ASSUME IInv, Reconnects
  PROVE  IInv'
  <1>1. /\ mac \in Mac /\ mac' = [mac EXCEPT !.up = TRUE] /\ mac.gen \in Nat
        /\ UNCHANGED <<relay, opened, repeated, toMac, toPhone, monitor, phone, resolve, log>>
    BY Typed DEF IInv, Reconnects
  <1>2. mac' \in Mac /\ mac'.gen = mac.gen /\ chan' = chan /\ mac'.up = TRUE
    BY <1>1 DEF Mac, chan
  <1>3. monitor' \in Monitor /\ ChannelInv'
    BY <1>1, <1>2 DEF IInv, TypeOK, ChannelInv
  <1>4. Calm /\ GoesOn
    BY <1>1, <1>2, UnderWay DEF Calm, Observed, GoesOn, MacNext
  <1>5. ToMac' = ToMac
    BY <1>1, <1>2 DEF ToMac
  <1>6. resolve' \in Shown /\ resolve'.at >= resolve.at /\ mac'.gen >= mac.gen /\ chan'.running \in {0, chan.running}
    BY <1>1, <1>2, Quiet
  <1>7. relay' \in 0 .. MaxSessions /\ repeated' \in 0 .. MaxRepeats /\ toMac' \subseteq Message /\ toPhone' \subseteq Message
    BY <1>1, Quiet
  <1> QED BY <1>1, <1>2, <1>3, <1>4, <1>5, <1>6, <1>7, MacStepKeeps

\* Steps that change neither channel: the relay's, and messages that are ignored.
LEMMA OthersKeep ==
  ASSUME IInv, UNCHANGED <<opened, mac, monitor, phone, log>>,
         relay' \in 0 .. MaxSessions, repeated' \in 0 .. MaxRepeats,
         toMac' \subseteq Message, \A m \in toMac' : m \in toMac \/ Notifies(m),
         toPhone' \subseteq toPhone, resolve' \in Shown, resolve'.at >= resolve.at
  PROVE  IInv'
  <1>1. /\ mac' \in Mac /\ mac'.gen >= mac.gen /\ monitor' \in Monitor /\ chan' = chan
        /\ ChannelInv' /\ Calm /\ GoesOn /\ chan'.running \in {0, chan.running}
    BY Quiet, SameChannel
  <1>2. \A m \in ToMac' : m \in ToMac \/ Notifies(m)
    BY <1>1 DEF ToMac
  <1>3. toPhone' \subseteq Message
    BY Quiet
  <1> QED BY <1>1, <1>2, <1>3, MacStepKeeps

LEMMA DisconnectsKeeps ==
  ASSUME IInv, Disconnects
  PROVE  IInv'
  <1> DEFINE m == Notice("closed", relay)
  <1>1. m \in Message /\ Notifies(m)
    <2>1. relay \in Nat
      BY Quiet
    <2>2. m \in Message /\ m.type = "closed" /\ m.packet.kind = "message1"
      BY <2>1, MessageIs
    <2> QED BY <2>2 DEF Notifies
  <1>2. /\ relay' = 0 /\ toMac' = toMac \cup {m}
        /\ UNCHANGED <<opened, repeated, toPhone, mac, monitor, phone, resolve, log>>
    BY DEF Disconnects
  <1> HIDE DEF m
  <1>3. relay' \in 0 .. MaxSessions
    BY <1>2, SessionChannelAssumption
  <1> QED BY <1>1, <1>2, <1>3, Quiet, OthersKeep

LEMMA ChangesKeeps ==
  ASSUME IInv, Changes
  PROVE  IInv'
  <1>1. resolve' \in Shown /\ resolve'.at >= resolve.at
    BY Quiet, ShowIs DEF Changes
  <1>2. UNCHANGED <<relay, opened, repeated, toMac, toPhone, mac, monitor, phone, log>>
    BY DEF Changes
  <1> QED BY <1>1, <1>2, Quiet, OthersKeep

LEMMA IgnoresFrameKeeps ==
  ASSUME IInv, NEW m \in toMac, NEW left \in SUBSET toMac, IgnoresFrame(m, left), repeated' \in 0 .. MaxRepeats
  PROVE  IInv'
  BY Quiet, OthersKeep DEF IgnoresFrame

LEMMA ClosesChannelKeeps ==
  ASSUME IInv, NEW m \in toMac, NEW left \in SUBSET toMac, ClosesChannel(m, left), repeated' \in 0 .. MaxRepeats
  PROVE  IInv'
  <1>1. /\ ChannelEnds \/ UNCHANGED <<mac, monitor, opened, phone, resolve, log>>
        /\ toMac' = left /\ UNCHANGED <<relay, toPhone>>
    BY ClosesChannelIs
  <1>2. CASE UNCHANGED <<mac, monitor, opened, phone, resolve, log>>
    BY <1>1, <1>2, Quiet, OthersKeep
  <1>3. CASE ChannelEnds
    <2>1. /\ mac' \in Mac /\ mac'.gen >= mac.gen /\ monitor' \in Monitor
          /\ chan'.pending = {} /\ chan'.work = <<>> /\ UNCHANGED <<opened, phone, log, resolve>>
          /\ ChannelInv' /\ Calm /\ GoesOn /\ chan'.running \in {0, chan.running}
      BY <1>3, EndedChannel DEF ChannelEnds
    <2>2. ToMac' \subseteq ToMac
      BY <1>1, <2>1, ElementsAre DEF ToMac
    <2>3. /\ resolve' \in Shown /\ resolve'.at >= resolve.at /\ relay' \in 0 .. MaxSessions
          /\ toMac' \subseteq Message /\ toPhone' \subseteq Message
      BY <1>1, <2>1, Quiet
    <2> QED BY <1>1, <2>1, <2>2, <2>3, MacStepKeeps
  <1> QED BY <1>1, <1>2, <1>3

LEMMA OpensChannelKeeps ==
  ASSUME IInv, NEW m \in toMac, NEW left \in SUBSET toMac, OpensChannel(m, left), mac.up,
         repeated' \in 0 .. MaxRepeats
  PROVE  IInv'
  <1>1. /\ mac' \in Mac /\ mac'.gen = mac.gen + 1 /\ mac'.up = mac.up /\ monitor' = MonitorOff
        /\ chan' = [NoChannel EXCEPT !.sid = m.sid] /\ chan' \in Channel
        /\ m.sid \in 1 .. opened /\ toMac' = left /\ toPhone' \subseteq Message
        /\ \A f \in toPhone' : f \in toPhone \/
             (f.type = "opened" /\ f.sid = phone.open /\ f.sid = m.sid /\ f.packet.kind = "message1")
        /\ UNCHANGED <<relay, opened, phone, resolve, log>>
    BY OpensChannelIs
  <1>2. /\ chan'.sid = m.sid /\ chan'.expected = 1 /\ chan'.running = 0 /\ chan'.pending = {}
        /\ chan'.cache = {} /\ chan'.busy = FALSE /\ chan'.work = <<>> /\ chan'.out = <<>>
    BY <1>1, NoChannelIs DEF NoChannel
  <1>3. mac.gen \in Nat /\ mac'.gen \in Nat /\ mac'.gen > mac.gen /\ mac'.gen >= 1 /\ opened \in Nat
    BY <1>1, UnderWay
  <1>4. Ordered({}, 1, <<>>, m.sid) /\ IsFiniteSet({}) /\ Cardinality({}) <= MaxRequests
    BY FS_EmptySet, SessionChannelAssumption DEF Ordered
  <1>5. ChannelInv'
    <2>1. chan'.sid # 0 /\ chan'.sid <= opened
      BY <1>1, <1>2, <1>3
    <2>2. mac'.up
      BY <1>1
    <2> QED BY <1>1, <1>2, <1>3, <1>4, <2>1, <2>2 DEF ChannelInv
  <1>6. Calm /\ GoesOn /\ monitor' \in Monitor
    BY <1>1, <1>2, <1>3, NoChannelIs DEF Calm, GoesOn, Observed
  <1>7. ToMac' \subseteq ToMac
    BY <1>1, <1>2, ElementsAre DEF ToMac
  <1>8. /\ resolve' \in Shown /\ resolve'.at >= resolve.at /\ relay' \in 0 .. MaxSessions
        /\ toMac' \subseteq Message /\ mac'.gen >= mac.gen /\ chan'.running \in {0, chan.running}
    BY <1>1, <1>2, <1>3, Quiet
  <1> QED BY <1>1, <1>5, <1>6, <1>7, <1>8, MacStepKeeps

LEMMA ReceivesKeeps ==
  ASSUME IInv, mac.up, ~chan.busy, NEW m \in toMac, NEW left \in SUBSET toMac, Receives(m, left),
         repeated' \in 0 .. MaxRepeats
  PROVE  IInv'
  <1>1. /\ mac' \in Mac /\ mac'.up = mac.up /\ mac'.gen = mac.gen
        /\ chan' \in Channel /\ chan'.sid = chan.sid /\ chan'.nextOut = chan.nextOut
        /\ chan'.cache = chan.cache /\ chan'.running = chan.running /\ chan'.out = chan.out
        /\ (~chan'.busy => chan'.work = <<>>) /\ chan.work = <<>>
        /\ Received(chan.pending, chan.expected, chan.sid, m, chan'.pending, chan'.expected, chan'.work)
        /\ toMac' = left
        /\ UNCHANGED <<relay, opened, toPhone, monitor, phone, resolve, log>>
    BY ReceivesIs
  <1>2. /\ chan'.pending \subseteq chan.pending \cup {m} /\ chan'.work \in Seq(chan.pending \cup {m})
        /\ chan'.expected = chan.expected + Len(chan'.work) /\ chan'.work \in Seq(Message)
        /\ Ordered(chan'.pending, chan'.expected, chan'.work, chan.sid)
    BY <1>1 DEF Received
  <1>3. Elements(chan'.work) \subseteq chan.pending \cup {m}
    BY <1>2, ElementsAre
  <1>4. ToMac' \subseteq ToMac
    BY <1>1, <1>2, <1>3 DEF ToMac
  <1>5. chan.running = 0 /\ chan.out = <<>> /\ chan.sid # 0
    <2>1. chan.running = 0 /\ chan.out = <<>>
      BY <1>1 DEF IInv, ChannelInv
    <2>2. m.sid = chan.sid /\ m.type = "frame"
      BY DEF Receives
    <2>3. m.sid \in 1 .. opened
      BY <2>2 DEF IInv, MessageInv, ToMac
    <2> QED BY <2>1, <2>2, <2>3
  <1>6. ChannelInv'
    BY <1>1, <1>2, <1>5 DEF IInv, ChannelInv
  <1>7. chan.expected \in Nat /\ mac.gen \in Nat /\ Len(chan'.work) \in Nat
    <2>1. chan.expected \in Nat /\ mac.gen \in Nat
      BY Typed DEF IInv
    <2> QED BY ONLY <1>2, <2>1
  <1>8. GoesOn
    <2>1. MacNext = chan.expected /\ MacNext' = chan.expected
      BY <1>1, <1>2, <1>5, <1>7 DEF MacNext
    <2> QED BY <1>1, <1>7, <2>1 DEF GoesOn
  <1>9. Calm
    BY <1>1 DEF Calm, Observed
  <1>10. /\ resolve' \in Shown /\ resolve'.at >= resolve.at /\ relay' \in 0 .. MaxSessions
         /\ toMac' \subseteq Message /\ toPhone' \subseteq Message /\ monitor' \in Monitor /\ mac'.gen >= mac.gen
    BY <1>1, <1>7, Quiet
  <1> QED BY <1>1, <1>4, <1>6, <1>8, <1>9, <1>10, MacStepKeeps

LEMMA MacReadsKeeps ==
  ASSUME IInv, MacReads
  PROVE  IInv'
  <1> PICK m \in toMac : \E left \in Left(toMac, m) :
        /\ repeated' = repeated + (IF m \in left THEN 1 ELSE 0)
        /\ \/ OpensChannel(m, left) \/ ClosesChannel(m, left) \/ Receives(m, left)
           \/ IgnoresFrame(m, left) \/ Refuses(m)
    BY DEF MacReads
  <1>1. PICK left \in Left(toMac, m) :
          /\ repeated' = repeated + (IF m \in left THEN 1 ELSE 0)
          /\ \/ OpensChannel(m, left) \/ ClosesChannel(m, left) \/ Receives(m, left)
             \/ IgnoresFrame(m, left) \/ Refuses(m)
    OBVIOUS
  <1>2. left \in SUBSET toMac /\ repeated' \in 0 .. MaxRepeats
    BY <1>1, LeftIs
  <1>3. mac.up /\ ~chan.busy
    BY DEF MacReads
  <1>4. CASE OpensChannel(m, left)
    BY <1>2, <1>3, <1>4, OpensChannelKeeps
  <1>5. CASE ClosesChannel(m, left)
    BY <1>2, <1>5, ClosesChannelKeeps
  <1>6. CASE Receives(m, left)
    BY <1>2, <1>3, <1>6, ReceivesKeeps
  <1>7. CASE IgnoresFrame(m, left)
    BY <1>2, <1>7, IgnoresFrameKeeps
  <1>8. CASE Refuses(m)
    BY <1>2, <1>8, FailsKeeps DEF Refuses
  <1> QED BY <1>1, <1>4, <1>5, <1>6, <1>7, <1>8

LEMMA TakesPacketKeeps ==
  ASSUME IInv, TakesPacket,
         done' = done \/ (chan.running # 0 /\ done' = done \cup {chan.running})
  PROVE  IInv'
  <1>1. /\ mac' \in Mac /\ mac'.up = mac.up /\ mac'.gen = mac.gen
        /\ chan' \in Channel /\ chan'.sid = chan.sid /\ chan'.expected = chan.expected
        /\ chan'.nextOut = chan.nextOut /\ chan'.pending = chan.pending /\ chan'.busy = chan.busy
        /\ chan.work # <<>> /\ chan'.work = Tail(chan.work) /\ chan'.running = 0
        /\ IsFiniteSet(chan'.cache) /\ Cardinality(chan'.cache) <= MaxRequests
        /\ Observed' => Observed /\ monitor'.show = monitor.show
        /\ monitor' \in Monitor /\ monitor'.step = monitor.step
        /\ UNCHANGED <<relay, opened, repeated, toMac, toPhone, phone, resolve, executed, outcome>>
    BY DEF TakesPacket
  <1>2. /\ chan.work \in Seq(Message) /\ chan.expected \in Nat /\ mac.gen \in Nat /\ chan.running \in Nat
        /\ executed \in Seq(Command)
    BY Typed DEF IInv
  <1>3. /\ Tail(chan.work) \in Seq(Message) /\ Len(chan.work) \in Nat /\ Len(chan'.work) = Len(chan.work) - 1
        /\ Elements(chan'.work) \subseteq Elements(chan.work)
    BY <1>1, <1>2, HeadIs
  <1>4. chan.busy /\ chan.sid # 0 /\ Ordered(chan.pending, chan.expected, chan.work, chan.sid)
    BY <1>1, NoChannelIs DEF IInv, ChannelInv
  <1>5. Ordered(chan.pending, chan.expected, chan'.work, chan.sid)
    BY <1>1, <1>2, <1>4, OthersAre
  <1>6. ChannelInv'
    BY <1>1, <1>4, <1>5 DEF IInv, ChannelInv
  <1>7. ToMac' \subseteq ToMac /\ ToPhone' = ToPhone
    BY <1>1, <1>3 DEF ToMac, ToPhone
  <1>8. done \subseteq done' /\ done' \subseteq Elements(executed)
    <2>1. chan.running # 0 => chan.running \in Elements(executed)
      <3>1. executed # <<>> => Len(executed) \in 1 .. Len(executed)
        BY <1>2, EmptySeq
      <3> QED BY <3>1, ElementsAre DEF IInv, LogInv
    <2> QED BY <2>1 DEF IInv, LogInv
  <1>9. done' \subseteq Command
    BY <1>2, <1>8, ElementsAre
  <1>10. TypeOK' /\ PhoneInv' /\ MessageInv'
    <2>1. mac'.gen >= mac.gen
      BY <1>1, <1>2
    <2> QED BY <1>1, <1>6, <1>7, <1>9, <2>1, Quiet, MacStepTyped
  <1>11. KnowsSession /\ Holds /\ phone' \in Phone /\ phone.issued \in Nat /\ phone'.issued >= phone.issued
    BY <1>1, PhoneSame
  <1>12. RequestInv'
    <2>1. GoesOn
      BY <1>1, <1>2, <1>3 DEF GoesOn, MacNext
    <2> QED BY <1>1, <1>7, <1>11, <2>1, RequestsStay
  <1>13. LogInv'
    BY <1>1, <1>8 DEF IInv, LogInv
  <1>14. OutGrows /\ Len(chan.out) \in Nat /\ Len(chan'.out) \in Nat
    BY <1>1, UnderWay, ChannelIs DEF TakesPacket
  <1>15. /\ \A f \in ToPhone : f.packet.show.at \in Nat
         /\ \A n \in 1 .. Len(chan.out) : chan.out[n].show.at \in Nat
         /\ resolve.at \in Nat /\ monitor.show.at \in Nat /\ phone.selected.at \in Nat
    BY TellsIs
  <1>16. SuccessInv'
    BY <1>7, <1>8, <1>14 DEF IInv, SuccessInv, OutGrows, Tells
  <1>17. ToldOfThePast' /\ ToldInOrder'
    BY <1>1, <1>7 DEF IInv, OrderInv, ToldOfThePast, ToldInOrder
  <1>18. TellsInOrder'
    <2> SUFFICES ASSUME NEW n \in 1 .. Len(chan'.out), Tells(chan'.out[n])
                 PROVE  /\ chan'.out[n].show.at <= resolve.at
                        /\ \A k \in n .. Len(chan'.out) : Tells(chan'.out[k]) =>
                             chan'.out[n].show.at <= chan'.out[k].show.at
                        /\ Observed' => chan'.out[n].show.at <= monitor'.show.at
      BY <1>1 DEF TellsInOrder
    <2>1. CASE n \in 1 .. Len(chan.out) /\ chan'.out[n] = chan.out[n]
      <3>1. ASSUME NEW k \in n .. Len(chan'.out), Tells(chan'.out[k])
            PROVE  chan'.out[n].show.at <= chan'.out[k].show.at
        <4>1. k \in 1 .. Len(chan'.out)
          OBVIOUS
        <4>2. CASE k \in 1 .. Len(chan.out) /\ chan'.out[k] = chan.out[k]
          BY <2>1, <3>1, <4>2 DEF IInv, OrderInv, TellsInOrder
        <4>3. CASE chan'.out[k].show = resolve
          BY <2>1, <4>3 DEF IInv, OrderInv, TellsInOrder
        <4> QED BY <1>14, <3>1, <4>1, <4>2, <4>3 DEF OutGrows
      <3> QED BY <1>1, <2>1, <3>1 DEF IInv, OrderInv, TellsInOrder
    <2>2. CASE n > Len(chan.out) /\ chan'.out[n].show = resolve /\ ~Observed'
      <3>1. ASSUME NEW k \in n .. Len(chan'.out), Tells(chan'.out[k])
            PROVE  chan'.out[k].show = resolve
        <4>1. k \in 1 .. Len(chan'.out) /\ k \notin 1 .. Len(chan.out)
          BY <1>14, <2>2
        <4> QED BY <1>14, <3>1, <4>1 DEF OutGrows
      <3> QED BY <1>15, <2>2, <3>1
    <2> QED BY <1>14, <2>1, <2>2 DEF OutGrows
  <1>19. TellsWhatIsNewer'
    <2> SUFFICES ASSUME NEW f \in ToPhone, Tells(f.packet), f.key = mac.gen
                 PROVE  /\ f.seq < chan.nextOut
                        /\ \A n \in 1 .. Len(chan'.out) :
                             Tells(chan'.out[n]) => f.packet.show.at <= chan'.out[n].show.at
                        /\ Observed' => f.packet.show.at <= monitor'.show.at
      BY <1>1, <1>7 DEF TellsWhatIsNewer
    <2>1. /\ f.seq < chan.nextOut /\ f.packet.show.at <= resolve.at
          /\ \A n \in 1 .. Len(chan.out) : Tells(chan.out[n]) => f.packet.show.at <= chan.out[n].show.at
          /\ Observed => f.packet.show.at <= monitor.show.at
      BY <1>4 DEF IInv, OrderInv, TellsWhatIsNewer, ToldOfThePast
    <2> QED BY <1>1, <1>14, <2>1 DEF OutGrows
  <1>20. ObservesThePast'
    BY <1>1 DEF IInv, OrderInv, ObservesThePast
  <1>21. SelectedInv'
    <2>1. WillBeTold' /\ phone'.selected.at <= resolve'.at
      BY <1>1, <1>7 DEF IInv, SelectedInv, WillBeTold, Its, PhoneNext
    <2>2. WillTell'
      <3> SUFFICES ASSUME Its(chan.sid, mac.gen)
                   PROVE  /\ \A n \in 1 .. Len(chan'.out) :
                               Tells(chan'.out[n]) => phone.selected.at <= chan'.out[n].show.at
                          /\ Observed' => phone.selected.at <= monitor'.show.at
        BY <1>1 DEF WillTell, Its
      <3>1. /\ \A n \in 1 .. Len(chan.out) : Tells(chan.out[n]) => phone.selected.at <= chan.out[n].show.at
            /\ Observed => phone.selected.at <= monitor.show.at
            /\ phone.selected.at <= resolve.at
        BY DEF IInv, SelectedInv, WillTell
      <3> QED BY <1>1, <1>14, <3>1 DEF OutGrows
    <2> QED BY <2>1, <2>2 DEF SelectedInv
  <1> QED BY <1>6, <1>10, <1>12, <1>13, <1>16, <1>17, <1>18, <1>19, <1>20, <1>21 DEF IInv, OrderInv

LEMMA OpensPageKeeps ==
  ASSUME IInv, OpensPage
  PROVE  IInv'
  <1>1. /\ ChannelStays /\ chan'.running = chan.running /\ resolve' \in Shown /\ resolve'.at >= resolve.at
        /\ UNCHANGED <<relay, opened, repeated, toMac, toPhone, monitor, phone, log>>
    BY OpensPageIs
  <1>2. /\ mac' \in Mac /\ mac'.up = mac.up /\ mac'.gen = mac.gen /\ mac.gen \in Nat
        /\ chan'.sid = chan.sid /\ chan'.expected = chan.expected
        /\ chan'.nextOut = chan.nextOut /\ chan'.pending = chan.pending /\ chan'.busy = chan.busy
        /\ chan'.work = chan.work /\ chan'.out = chan.out /\ chan'.cache = chan.cache
    BY <1>1, UnderWay DEF ChannelStays
  <1>3. chan.sid # 0
    BY NoChannelIs DEF IInv, ChannelInv, OpensPage
  <1>4. ChannelInv'
    BY <1>1, <1>2, <1>3 DEF IInv, ChannelInv
  <1>5. Calm /\ GoesOn /\ ToMac' = ToMac
    BY <1>1, <1>2, UnderWay DEF Calm, Observed, GoesOn, MacNext, ToMac
  <1>6. /\ relay' \in 0 .. MaxSessions /\ repeated' \in 0 .. MaxRepeats /\ toMac' \subseteq Message
        /\ toPhone' \subseteq Message /\ monitor' \in Monitor /\ mac'.gen >= mac.gen
    BY <1>1, <1>2, Quiet
  <1> QED BY <1>1, <1>2, <1>4, <1>5, <1>6, MacStepKeeps

\* The request that is executed next is later than all that were executed.
LEMMA NextRequestIs ==
  ASSUME IInv, Executes
  PROVE  LET h == Head(chan.work) IN
         /\ h \in ToMac /\ IsRequest(h) /\ h.sid = chan.sid /\ h.seq = MacNext /\ h.key = mac.gen
         /\ MacNext' = MacNext + 1 /\ MacNext \in Int
         /\ h.packet.cmd \in 1 .. phone.issued /\ h.packet.cmd \in Command
         /\ \A n \in 1 .. Len(executed) : executed[n] < h.packet.cmd /\ executed[n] \in Nat
  <1> DEFINE h == Head(chan.work)
             c == h.packet.cmd
  <1>1. /\ ChannelStays /\ chan.work # <<>> /\ chan.running = 0
        /\ h.packet.kind = "request" /\ h.key = mac.gen /\ chan'.running = c
    BY ExecutesIs
  <1>2. chan'.expected = chan.expected /\ chan'.work = chan.work
    BY <1>1 DEF ChannelStays
  <1>3. /\ chan.work \in Seq(Message) /\ chan.expected \in Nat /\ executed \in Seq(Command)
        /\ MaxCommands \in Nat
    BY Typed DEF IInv
  <1>4. chan.sid # 0 /\ Ordered(chan.pending, chan.expected, chan.work, chan.sid)
    BY <1>1, NoChannelIs DEF IInv, ChannelInv
  <1>5. /\ h \in ToMac /\ IsRequest(h) /\ h.sid = chan.sid /\ h.seq = MacNext /\ h.key = mac.gen
        /\ MacNext' = MacNext + 1 /\ MacNext \in Int
    <2>1. h \in ToMac
      BY <1>1, <1>3, HeadIs DEF ToMac
    <2>2. h.sid = chan.sid /\ h.seq = chan.expected - Len(chan.work)
      <3>1. chan.work # <<>>
        BY <1>1
      <3> QED BY ONLY <1>3, <1>4, <3>1, NextIs
    <2>3. c # 0
      BY <1>1, <2>1, RequestIs DEF IsRequest
    <2>4. MacNext = chan.expected - Len(chan.work) /\ Len(chan.work) \in Nat
      BY <1>1, <1>3, UnderWay DEF MacNext
    <2>5. MacNext' = chan.expected - Len(chan.work) + 1
      BY <1>1, <1>2, <2>3 DEF MacNext
    <2> QED BY <1>1, <1>3, <2>1, <2>2, <2>4, <2>5 DEF IsRequest
  <1>6. c \in 1 .. phone.issued /\ c \in Command
    BY <1>5, RequestIs
  <1> HIDE DEF h, c
  <1>7. \A n \in 1 .. Len(executed) : executed[n] < c /\ executed[n] \in Nat
    <2>1. h.seq >= MacNext
      BY <1>5
    <2>2. \A n \in 1 .. Len(executed) : executed[n] < c
      BY <1>5, <2>1 DEF IInv, RequestInv, RequestsNew, c
    <2> QED BY <1>3, <2>2 DEF Command
  <1> QED BY <1>5, <1>6, <1>7 DEF h, c

LEMMA ExecutesKeeps ==
  ASSUME IInv, Executes
  PROVE  IInv'
  <1> DEFINE h == Head(chan.work)
             c == h.packet.cmd
  <1>1. /\ ChannelStays /\ chan.work # <<>> /\ chan.running = 0
        /\ h.packet.kind = "request" /\ h.key = mac.gen
        /\ chan'.running = c /\ executed' = Append(executed, c)
        /\ Cardinality(chan.cache) < MaxRequests
        /\ UNCHANGED <<relay, opened, repeated, toMac, toPhone, monitor, phone, resolve, done, outcome>>
    BY ExecutesIs
  <1>2. /\ mac' \in Mac /\ mac'.up = mac.up /\ mac'.gen = mac.gen /\ mac.gen \in Nat
        /\ chan'.sid = chan.sid /\ chan'.expected = chan.expected
        /\ chan'.nextOut = chan.nextOut /\ chan'.pending = chan.pending /\ chan'.busy = chan.busy
        /\ chan'.work = chan.work /\ chan'.out = chan.out /\ chan'.cache = chan.cache
    BY <1>1, UnderWay DEF ChannelStays
  <1>3. /\ chan.work \in Seq(Message) /\ chan.expected \in Nat /\ executed \in Seq(Command)
        /\ phone.issued \in 0 .. MaxCommands /\ MaxCommands \in Nat
    BY Typed DEF IInv
  <1>4. chan.sid # 0 /\ Ordered(chan.pending, chan.expected, chan.work, chan.sid)
    BY <1>1, NoChannelIs DEF IInv, ChannelInv
  <1>5. /\ h \in ToMac /\ IsRequest(h) /\ h.sid = chan.sid /\ h.seq = MacNext /\ h.key = mac.gen
        /\ MacNext' = MacNext + 1 /\ MacNext \in Int
    BY NextRequestIs
  <1>6. c \in 1 .. phone.issued /\ c \in Command
    BY NextRequestIs
  <1> HIDE DEF h, c
  <1>7. /\ executed' \in Seq(Command) /\ Len(executed') = Len(executed) + 1 /\ Len(executed) \in Nat
        /\ executed'[Len(executed) + 1] = c
        /\ \A n \in 1 .. Len(executed) : executed'[n] = executed[n]
    BY <1>1, <1>3, <1>6, AppendProperties
  <1>8. \A n \in 1 .. Len(executed) : executed[n] < c /\ executed[n] \in Nat
    BY NextRequestIs DEF c, h
  <1>9. ChannelInv'
    BY <1>1, <1>2, <1>4 DEF IInv, ChannelInv, h, c
  <1>10. ToMac' = ToMac /\ ToPhone' = ToPhone
    BY <1>1, <1>2 DEF ToMac, ToPhone
  <1>11. TypeOK' /\ PhoneInv' /\ MessageInv'
    <2>1. mac'.gen >= mac.gen
      BY <1>2
    <2> QED BY <1>1, <1>2, <1>7, <1>9, <1>10, <2>1, Quiet, MacStepTyped
  <1>12. RequestInv'
    <2>1. RequestsKnown' /\ RequestsInOrder'
      BY <1>1, <1>10 DEF IInv, RequestInv, RequestsKnown, RequestsInOrder, IsRequest
    <2>2. RequestsNew'
      <3> SUFFICES ASSUME NEW f \in ToMac, IsRequest(f), f.sid = chan.sid, f.key = mac.gen, f.seq >= MacNext + 1,
                          NEW n \in 1 .. Len(executed')
                   PROVE  executed'[n] < f.packet.cmd
        BY <1>2, <1>5, <1>10 DEF RequestsNew, IsRequest
      <3>1. f.seq > h.seq /\ f.packet.cmd \in Nat
        <4>1. f.seq \in Nat /\ f.packet.cmd \in 1 .. phone.issued
          BY RequestIs
        <4> QED BY <1>3, <1>5, <4>1
      <3>2. c < f.packet.cmd
        BY <1>5, <3>1 DEF IInv, RequestInv, RequestsInOrder, c
      <3>3. CASE n = Len(executed) + 1
        BY <1>7, <3>2, <3>3
      <3>4. CASE n \in 1 .. Len(executed)
        <4>1. executed'[n] < c /\ executed'[n] \in Nat
          BY <1>7, <1>8, <3>4
        <4>2. c \in Nat
          BY <1>6
        <4> QED BY <3>1, <3>2, <4>1, <4>2
      <3> QED BY <1>7, <3>3, <3>4
    <2> QED BY <2>1, <2>2 DEF RequestInv
  <1>13. LogInv'
    <2>1. \A n \in 1 .. Len(executed') : executed'[n] <= phone.issued
      <3>1. \A n \in 1 .. Len(executed) : executed'[n] <= phone.issued
        BY <1>7 DEF IInv, LogInv
      <3>2. \A n \in 1 .. Len(executed') : n \in 1 .. Len(executed) \/ n = Len(executed) + 1
        BY <1>7
      <3> QED BY <1>3, <1>6, <1>7, <3>1, <3>2
    <2>2. Elements(executed) \subseteq Elements(executed')
      <3>1. \A n \in 1 .. Len(executed) : n \in 1 .. Len(executed')
        BY <1>7
      <3> QED BY <1>7, <3>1 DEF Elements
    <2>3. c \notin done
      <3>1. c \notin Elements(executed)
        BY <1>6, <1>8 DEF Elements, Command
      <3> QED BY <3>1 DEF IInv, LogInv
    <2>4. executed' # <<>>
      BY <1>7
    <2> QED BY <1>1, <1>7, <2>1, <2>2, <2>3, <2>4 DEF IInv, LogInv
  <1>14. KnowsSession /\ Holds /\ phone'.selected = phone.selected
    BY <1>1, PhoneSame
  <1>15. Calm
    BY <1>1, <1>2 DEF Calm, Observed
  <1>16. SuccessInv' /\ OrderInv' /\ SelectedInv'
    <2>1. resolve' \in Shown /\ resolve'.at >= resolve.at /\ mac'.gen \in Nat
      BY <1>1, <1>2, Quiet
    <2> QED BY <1>1, <1>10, <1>14, <1>15, <2>1, PagesStay, SelectedStays
  <1> QED BY <1>9, <1>11, <1>12, <1>13, <1>16 DEF IInv

LEMMA ObservesKeeps ==
  ASSUME IInv, Observes
  PROVE  IInv'
  <1>1. /\ monitor.step = "on" /\ monitor' = [monitor EXCEPT !.step = "read", !.show = resolve]
        /\ UNCHANGED <<relay, opened, repeated, toMac, toPhone, mac, phone, resolve, log>>
    BY DEF Observes
  <1>2. chan' = chan
    BY <1>1 DEF chan
  <1>3. monitor' \in Monitor /\ monitor'.show = resolve
    BY <1>1, Quiet DEF Monitor
  <1>4. ToMac' = ToMac /\ ToPhone' = ToPhone /\ mac.gen \in Nat
    BY <1>1, <1>2, UnderWay DEF ToMac, ToPhone
  <1>5. ChannelInv'
    BY <1>1, <1>2, NoChannelIs DEF IInv, ChannelInv
  <1>6. TypeOK' /\ PhoneInv' /\ MessageInv'
    <2>1. /\ UNCHANGED <<opened, phone, outcome, relay, repeated, toMac, toPhone, mac, resolve, executed, done>>
          /\ mac'.gen >= mac.gen
      BY <1>1, <1>4 DEF log
    <2> QED BY <1>3, <1>4, <1>5, <2>1, Quiet, MacStepTyped
  <1>7. KnowsSession /\ Holds /\ phone' \in Phone /\ phone.issued \in Nat /\ phone'.issued >= phone.issued
    BY <1>1, PhoneSame
  <1>8. RequestInv'
    <2>1. GoesOn /\ mac' \in Mac /\ executed' = executed
      BY <1>1, <1>2, UnderWay, Quiet DEF GoesOn, MacNext, log
    <2> QED BY <1>4, <1>7, <2>1, RequestsStay
  <1>9. LogInv'
    BY <1>1, <1>2 DEF IInv, LogInv, log
  <1>10. SuccessInv'
    BY <1>1, <1>2, <1>4 DEF IInv, SuccessInv, log
  <1>11. OrderInv'
    BY <1>1, <1>2, <1>3, <1>4, TellsIs
       DEF IInv, OrderInv, ToldOfThePast, ToldInOrder, TellsInOrder, TellsWhatIsNewer, ObservesThePast
  <1>12. SelectedInv'
    BY <1>1, <1>2, <1>3, <1>4, TellsIs DEF IInv, SelectedInv, WillBeTold, WillTell, Its, PhoneNext
  <1> QED BY <1>5, <1>6, <1>8, <1>9, <1>10, <1>11, <1>12 DEF IInv

\* Packets that may be sent: what they tell is true, in the order in which it came
\* to be, and not older than what was told before.
SendsInOrder(ps) ==
  /\ ps \in Seq(Packet)
  /\ \A n \in 1 .. Len(ps) : Confirms(ps[n]) => ps[n].cmd \in done
  /\ \A n \in 1 .. Len(ps) : Tells(ps[n]) =>
       /\ ps[n].show.at <= resolve.at
       /\ \A f \in ToPhone : Tells(f.packet) /\ f.key = mac.gen => f.packet.show.at <= ps[n].show.at
       /\ \A k \in n .. Len(ps) : Tells(ps[k]) => ps[n].show.at <= ps[k].show.at
       /\ Observed' => ps[n].show.at <= monitor'.show.at
       /\ Its(chan.sid, mac.gen) => phone.selected.at <= ps[n].show.at
  /\ Observed' => Observed /\ monitor'.show = monitor.show

\* The frame of the n-th of the packets ps.
IsFrame(f, ps, n) ==
  /\ n \in 1 .. Len(ps) /\ f.packet = ps[n] /\ f.type = "frame"
  /\ f.sid = chan.sid /\ f.key = mac.gen /\ f.seq = chan.nextOut + n - 1

LEMMA SentKeeps ==
  ASSUME IInv, NEW ps, Sent(ps), SendsInOrder(ps)
  PROVE  IInv'
  <1>1. /\ mac' \in Mac /\ mac'.up = mac.up /\ mac'.gen = mac.gen
        /\ chan' \in Channel /\ chan'.sid = chan.sid /\ chan'.expected = chan.expected
        /\ chan'.pending = chan.pending /\ chan'.cache = chan.cache
        /\ chan.work = <<>> /\ chan'.work = <<>> /\ chan'.out = <<>> /\ chan'.running = chan.running
        /\ chan'.busy = FALSE /\ chan.sid # 0
        /\ chan'.nextOut = chan.nextOut + Len(ps)
        /\ monitor' \in Monitor /\ toMac' \subseteq Message /\ toPhone' \subseteq Message
        /\ \A m \in toMac' : m \in toMac \/ (m.type = "error" /\ m.packet.kind = "message1")
        /\ UNCHANGED <<relay, opened, repeated, phone, resolve, executed, done, outcome>>
    BY DEF Sent, log
  <1>2. \A f \in toPhone' : f \in toPhone \/ \E n \in 1 .. Len(ps) : IsFrame(f, ps, n)
    BY DEF Sent, IsFrame
  <1>3. /\ chan.nextOut \in Nat /\ mac.gen \in Nat /\ opened \in Nat /\ Len(ps) \in Nat
        /\ chan.sid \in 1 .. opened
    BY <1>1, UnderWay, TellsIs DEF SendsInOrder
  <1>4. \A f \in ToPhone' : f \in ToPhone \/ \E n \in 1 .. Len(ps) : IsFrame(f, ps, n)
    BY <1>1, <1>2 DEF ToPhone
  <1>5. \A m \in ToMac' : m \in ToMac \/ Notifies(m)
    BY <1>1 DEF ToMac, Notifies
  <1>6. ChannelInv'
    BY <1>1 DEF IInv, ChannelInv
  <1>7. TypeOK' /\ PhoneInv' /\ MessageInv'
    <2>1. \A m \in toPhone' : m \in toPhone \/ (Proper(m)' /\ (m.type = "opened" => m.sid = phone.open))
      BY <1>1, <1>2, <1>3 DEF IsFrame, Proper
    <2>2. \A m \in ToMac' : m \in ToMac \/ Proper(m)'
      BY <1>5 DEF Notifies, Proper
    <2>3. mac'.gen >= mac.gen
      BY <1>1, <1>3
    <2> QED BY <1>1, <1>6, <2>1, <2>2, <2>3, Quiet, MacStepTyped
  <1>8. KnowsSession /\ phone' \in Phone /\ phone.issued \in Nat /\ phone'.issued >= phone.issued
    BY <1>1, PhoneSame
  <1>9. RequestInv'
    <2>1. GoesOn
      BY <1>1, UnderWay DEF GoesOn, MacNext
    <2>2. \A f \in ToMac' : IsRequest(f) => f \in ToMac
      BY <1>5 DEF IsRequest, Notifies
    <2> QED BY <1>1, <1>8, <2>1, <2>2, RequestsStay
  <1>10. LogInv'
    BY <1>1 DEF IInv, LogInv
  <1>11. Len(<<>>) = 0
    OBVIOUS
  <1>12. SuccessInv'
    BY <1>1, <1>4, <1>11 DEF IInv, SuccessInv, SendsInOrder, IsFrame
  <1>13. ToldOfThePast'
    BY <1>1, <1>4 DEF IInv, OrderInv, ToldOfThePast, SendsInOrder, IsFrame
  <1>14. ToldInOrder'
    <2> SUFFICES ASSUME NEW f \in ToPhone', NEW g \in ToPhone', Tells(f.packet), Tells(g.packet),
                        f.key = g.key, f.seq < g.seq
                 PROVE  f.packet.show.at <= g.packet.show.at
      BY DEF ToldInOrder
    <2>1. CASE f \in ToPhone /\ g \in ToPhone
      BY <2>1 DEF IInv, OrderInv, ToldInOrder
    <2>2. ASSUME f \in ToPhone, NEW k \in 1 .. Len(ps), IsFrame(g, ps, k)
          PROVE  f.packet.show.at <= g.packet.show.at
      BY <2>2 DEF SendsInOrder, IsFrame
    <2>3. ASSUME g \in ToPhone, NEW n \in 1 .. Len(ps), IsFrame(f, ps, n)
          PROVE  FALSE
      <3>1. g.seq < chan.nextOut /\ g.seq \in Nat
        BY <1>1, <2>3, TellsIs DEF IInv, OrderInv, TellsWhatIsNewer, IsFrame
      <3>2. f.seq = chan.nextOut + n - 1
        BY <2>3 DEF IsFrame
      <3> QED BY <1>3, <3>1, <3>2
    <2>4. ASSUME NEW n \in 1 .. Len(ps), NEW k \in 1 .. Len(ps), IsFrame(f, ps, n), IsFrame(g, ps, k)
          PROVE  f.packet.show.at <= g.packet.show.at
      <3>1. k \in n .. Len(ps)
        <4>1. f.seq = chan.nextOut + n - 1 /\ g.seq = chan.nextOut + k - 1
          BY <2>4 DEF IsFrame
        <4> QED BY <1>3, <4>1
      <3> QED BY <2>4, <3>1 DEF SendsInOrder, IsFrame
    <2> QED BY <1>4, <2>1, <2>2, <2>3, <2>4
  <1>15. TellsInOrder'
    BY <1>1, <1>11 DEF TellsInOrder
  <1>16. TellsWhatIsNewer'
    <2> SUFFICES ASSUME NEW f \in ToPhone', Tells(f.packet), f.key = mac.gen
                 PROVE  /\ f.seq < chan.nextOut + Len(ps)
                        /\ Observed' => f.packet.show.at <= monitor'.show.at
      BY <1>1, <1>11 DEF TellsWhatIsNewer
    <2>1. CASE f \in ToPhone
      <3>1. f.seq < chan.nextOut /\ f.seq \in Nat /\ (Observed => f.packet.show.at <= monitor.show.at)
        BY <1>1, <2>1, TellsIs DEF IInv, OrderInv, TellsWhatIsNewer
      <3> QED BY <1>3, <3>1 DEF SendsInOrder
    <2>2. ASSUME NEW n \in 1 .. Len(ps), IsFrame(f, ps, n)
          PROVE  /\ f.seq < chan.nextOut + Len(ps)
                 /\ Observed' => f.packet.show.at <= monitor'.show.at
      <3>1. f.seq = chan.nextOut + n - 1 /\ f.packet = ps[n]
        BY <2>2 DEF IsFrame
      <3>2. Observed' => f.packet.show.at <= monitor'.show.at
        BY <3>1 DEF SendsInOrder
      <3> QED BY <1>3, <3>1, <3>2
    <2> QED BY <1>4, <2>1, <2>2
  <1>17. ObservesThePast'
    BY <1>1 DEF IInv, OrderInv, ObservesThePast, SendsInOrder
  <1>18. SelectedInv'
    <2>1. WillBeTold' /\ phone'.selected.at <= resolve'.at
      BY <1>1, <1>4 DEF IInv, SelectedInv, WillBeTold, Its, PhoneNext, SendsInOrder, IsFrame
    <2>2. WillTell'
      BY <1>1, <1>11 DEF IInv, SelectedInv, WillTell, Its, SendsInOrder
    <2> QED BY <2>1, <2>2 DEF SelectedInv
  <1> QED BY <1>6, <1>7, <1>9, <1>10, <1>12, <1>13, <1>14, <1>15, <1>16, <1>17, <1>18 DEF IInv, OrderInv

LEMMA SendsAnswersKeeps ==
  ASSUME IInv, SendsAnswers
  PROVE  IInv'
  <1>1. Sent(chan.out) /\ (Observed' => Observed /\ monitor'.show = monitor.show)
    BY SendsAnswersIs
  <1>2. chan.out \in Seq(Packet) /\ chan.sid # 0
    BY <1>1, Typed DEF IInv, Sent
  <1>3. SendsInOrder(chan.out)
    BY <1>1, <1>2
       DEF SendsInOrder, IInv, SuccessInv, OrderInv, TellsInOrder, TellsWhatIsNewer, SelectedInv, WillTell
  <1> QED BY <1>1, <1>3, SentKeeps

LEMMA ReportsPageKeeps ==
  ASSUME IInv, ReportsPage
  PROVE  IInv'
  <1>1. ~Observed' /\ (Sent(<<>>) \/ (Observed /\ Sent(<<PageEvent(monitor.show)>>)))
    BY ReportsPageIs
  <1>2. CASE Sent(<<>>)
    <2>1. SendsInOrder(<<>>)
      BY <1>1 DEF SendsInOrder
    <2> QED BY <1>2, <2>1, SentKeeps
  <1>3. CASE Observed /\ Sent(<<PageEvent(monitor.show)>>)
    <2> DEFINE p == PageEvent(monitor.show)
    <2>1. p \in Packet /\ p.show = monitor.show /\ ~Confirms(p)
      BY Quiet, PacketIs DEF Monitor, Confirms
    <2>2. chan.sid # 0 /\ monitor.show.at \in Nat
      BY <1>3, TellsIs DEF Sent
    <2> HIDE DEF p
    <2>3. /\ p.show.at <= resolve.at /\ p.show.at <= p.show.at
          /\ \A f \in ToPhone : Tells(f.packet) /\ f.key = mac.gen => f.packet.show.at <= p.show.at
          /\ Its(chan.sid, mac.gen) => phone.selected.at <= p.show.at
      BY <1>3, <2>1, <2>2
         DEF IInv, OrderInv, ObservesThePast, TellsWhatIsNewer, SelectedInv, WillTell
    <2>4. SendsInOrder(<<p>>)
      BY <1>1, <2>1, <2>3 DEF SendsInOrder
    <2> QED BY <1>3, <2>4, SentKeeps DEF p
  <1> QED BY <1>1, <1>2, <1>3

LEMMA MacStepInvariant ==
  ASSUME IInv, MacStep
  PROVE  IInv'
  <1>1. CASE Cut
    BY <1>1, CutKeeps
  <1>2. CASE Reconnects
    BY <1>2, ReconnectsKeeps
  <1>3. CASE MacReads
    BY <1>3, MacReadsKeeps
  <1>4. CASE AnswersHandshake
    BY <1>4, AnswersHandshakeIs, TakesPacketKeeps
  <1>5. CASE AcceptsHello
    BY <1>5, AcceptsHelloIs, TakesPacketKeeps
  <1>6. CASE RejectsRequest
    BY <1>6, RejectsRequestIs, TakesPacketKeeps
  <1>7. CASE Executes
    BY <1>7, ExecutesKeeps
  <1>8. CASE RejectsPacket
    BY <1>8, RejectsPacketKeeps
  <1>9. CASE OpensPage
    BY <1>9, OpensPageKeeps
  <1>10. CASE Succeeds
    BY <1>10, SucceedsIs, TakesPacketKeeps
  <1>11. CASE FailsCommand
    BY <1>11, FailsCommandIs, TakesPacketKeeps
  <1>12. CASE SendsAnswers
    BY <1>12, SendsAnswersKeeps
  <1>13. CASE Observes
    BY <1>13, ObservesKeeps
  <1>14. CASE ReportsPage
    BY <1>14, ReportsPageKeeps
  <1> QED BY <1>1, <1>2, <1>3, <1>4, <1>5, <1>6, <1>7, <1>8, <1>9, <1>10, <1>11, <1>12, <1>13, <1>14
          DEF MacStep

-----------------------------------------------------------------------------
(***************************************************************************)
(* The controller's steps.                                                 *)
(***************************************************************************)
LEMMA SomeSessionIs ==
  ASSUME IInv, phone.sid # 0
  PROVE  phone.open = phone.sid /\ phone.sid = opened /\ phone.sid \in 1 .. opened
  <1>1. phone.open \in {0, opened} /\ phone.sid \in {0, phone.open} /\ opened \in Nat
    BY UnderWay DEF IInv, PhoneInv
  <1> QED BY <1>1

LEMMA PhoneStepTyped ==
  ASSUME IInv, UNCHANGED <<mac, monitor, resolve, executed, done>>,
         relay' \in 0 .. MaxSessions, opened' \in 0 .. MaxSessions, opened' >= opened,
         repeated' \in 0 .. MaxRepeats, toMac' \subseteq Message, toPhone' \subseteq toPhone,
         ToPhone' \subseteq ToPhone, phone' \in Phone, Len(phone'.late) <= LateWindow, PhoneInv',
         outcome' \in [Command -> {"none", "waiting", "succeeded", "failed", "expired", "lost"}],
         phone'.open = phone.open \/ phone.open = 0 \/ toPhone' = {},
         \A m \in ToMac' : m \in ToMac \/ Proper(m)'
  PROVE  TypeOK' /\ ChannelInv' /\ MessageInv' /\ SuccessInv' /\ OrderInv'
  <1>1. opened \in Nat /\ opened' \in Nat /\ mac.gen \in Nat
    BY UnderWay, SessionChannelAssumption
  <1>2. /\ mac' \in Mac /\ mac'.gen \in Nat /\ mac'.gen >= mac.gen /\ monitor' \in Monitor
        /\ ChannelInv' /\ Calm
    BY <1>1, SameChannel
  <1>3. /\ toPhone' \subseteq Message /\ executed' \in Seq(Command) /\ done' \subseteq Command
        /\ resolve' \in Shown /\ resolve'.at >= resolve.at
    BY Quiet
  <1>4. TypeOK'
    BY <1>2, <1>3, TypedAgain
  <1>5. MessageInv'
    <2>1. \A m \in toPhone' : m.type = "opened" =>
            m.sid = phone'.open \/ (m \in toPhone /\ phone'.open = phone.open)
      <3>1. \A m \in toPhone : m.type = "opened" => m.sid = phone.open /\ m.sid # 0
        BY <1>1 DEF IInv, MessageInv, ToPhone
      <3> QED BY <3>1
    <2>2. \A m \in ToMac' \cup ToPhone' : m \in ToMac \cup ToPhone \/ Proper(m)'
      OBVIOUS
    <2> QED BY <1>1, <1>2, <2>1, <2>2, MessagesStay
  <1>6. SuccessInv' /\ OrderInv'
    <2>1. \A f \in ToPhone' : Tells(f.packet) => f \in ToPhone
      OBVIOUS
    <2> QED BY <1>2, <1>3, <2>1, PagesStay
  <1> QED BY <1>2, <1>4, <1>5, <1>6

LEMMA PhoneStepKeeps ==
  ASSUME IInv, UNCHANGED <<mac, monitor, resolve, executed, done>>,
         relay' \in 0 .. MaxSessions, opened' \in 0 .. MaxSessions, opened' >= opened,
         repeated' \in 0 .. MaxRepeats, toMac' \subseteq Message, toPhone' \subseteq toPhone,
         ToPhone' \subseteq ToPhone, phone' \in Phone, Len(phone'.late) <= LateWindow, PhoneInv',
         outcome' \in [Command -> {"none", "waiting", "succeeded", "failed", "expired", "lost"}],
         phone'.open = phone.open \/ phone.open = 0 \/ toPhone' = {},
         \A m \in ToMac' : m \in ToMac \/ (Proper(m)' /\ ~IsRequest(m)),
         phone'.issued = phone.issued, KnowsSession,
         \A c \in Command : outcome'[c] = "waiting" <=> c = phone'.cmd
  PROVE  /\ TypeOK' /\ ChannelInv' /\ PhoneInv' /\ MessageInv' /\ RequestInv' /\ LogInv'
         /\ SuccessInv' /\ OrderInv'
         /\ phone'.selected = phone.selected /\ Holds => IInv'
  <1>1. opened \in Nat /\ opened' \in Nat /\ phone.issued \in Nat
    <2>1. phone.issued \in 0 .. MaxCommands /\ MaxCommands \in Nat
      BY Typed DEF IInv
    <2> QED BY <2>1, UnderWay, SessionChannelAssumption
  <1>2. mac' \in Mac /\ mac'.gen \in Nat /\ chan' = chan /\ Calm /\ GoesOn
    BY <1>1, SameChannel
  <1>3. TypeOK' /\ ChannelInv' /\ MessageInv' /\ SuccessInv' /\ OrderInv'
    <2>1. \A m \in ToMac' : m \in ToMac \/ Proper(m)'
      OBVIOUS
    <2> QED BY <2>1, PhoneStepTyped
  <1>4. RequestInv'
    <2>1. phone'.issued >= phone.issued
      BY <1>1
    <2>2. \A f \in ToMac' : IsRequest(f) => f \in ToMac
      OBVIOUS
    <2> QED BY <1>2, <2>1, <2>2, RequestsStay
  <1>5. LogInv'
    BY <1>2 DEF IInv, LogInv
  <1>6. ASSUME phone'.selected = phone.selected, Holds PROVE SelectedInv'
    <2>1. resolve' \in Shown /\ resolve'.at >= resolve.at
      BY Quiet
    <2>2. \A f \in ToPhone' : Tells(f.packet) => f \in ToPhone
      OBVIOUS
    <2> QED BY <1>2, <1>6, <2>1, <2>2, SelectedStays
  <1> QED BY <1>3, <1>4, <1>5, <1>6 DEF IInv

\* What a step of the controller leaves alone, and what it does not change without need.
LEMMA PhoneQuiet ==
  ASSUME IInv
  PROVE  /\ Len(phone.late) <= LateWindow /\ opened \in 0 .. MaxSessions
         /\ outcome \in [Command -> {"none", "waiting", "succeeded", "failed", "expired", "lost"}]
         /\ \A c \in Command : outcome[c] = "waiting" <=> c = phone.cmd
  BY DEF IInv, TypeOK, LogInv

LEMMA TeardownKeeps ==
  ASSUME IInv, Teardown, UNCHANGED <<relay, opened, toMac, mac, monitor, resolve, executed, done>>,
         repeated' \in 0 .. MaxRepeats
  PROVE  IInv'
  <1>1. /\ phone.selected \in Shown /\ phone.issued \in 0 .. MaxCommands /\ 0 \in 0 .. MaxSessions
        /\ 0 \notin Command /\ LateWindow \in Nat
    <2>1. phone.selected \in Shown /\ phone.issued \in 0 .. MaxCommands
      BY Typed DEF IInv
    <2> QED BY <2>1, SessionChannelAssumption DEF Command
  <1>2. 0 \in 0 .. MaxCommands /\ <<>> \in Seq(Message) /\ <<>> \in Seq(Command)
    BY SessionChannelAssumption
  <1>3. /\ phone' \in Phone /\ phone'.open = 0 /\ phone'.sid = 0 /\ Fresh(phone')
        /\ phone'.late = <<>> /\ phone'.selected = phone.selected /\ phone'.issued = phone.issued
    BY <1>1, <1>2 DEF Teardown, Closed, Phone, Fresh
  <1>4. toPhone' = {} /\ toPhone' \subseteq toPhone /\ ToPhone' = {}
    BY <1>3, ElementsAre DEF Teardown, ToPhone, Fresh
  <1>5. PhoneInv'
    <2>1. Ordered({}, 1, <<>>, 0)
      BY FS_EmptySet, SessionChannelAssumption DEF Ordered
    <2> QED BY <1>3, <2>1 DEF PhoneInv, Fresh
  <1>6. KnowsSession /\ Holds
    <2>1. \A sid \in 1 .. opened, key \in Nat : ~Its(sid, key)'
      BY <1>3 DEF Its
    <2> QED BY <1>3, <2>1 DEF KnowsSession, Holds
  <1>7. /\ outcome' \in [Command -> {"none", "waiting", "succeeded", "failed", "expired", "lost"}]
        /\ \A c \in Command : outcome'[c] = "waiting" <=> c = phone'.cmd
    BY <1>1, <1>3, PhoneQuiet DEF Teardown, Fresh
  <1>8. ToMac' = ToMac
    BY DEF ToMac, chan
  <1>9. /\ relay' \in 0 .. MaxSessions /\ opened' \in 0 .. MaxSessions /\ opened' >= opened
        /\ toMac' \subseteq Message
    BY Quiet, PhoneQuiet
  <1>10. Len(phone'.late) <= LateWindow
    BY <1>1, <1>3
  <1> QED BY <1>3, <1>4, <1>5, <1>6, <1>7, <1>8, <1>9, <1>10, PhoneStepKeeps

LEMMA ConnectsKeeps ==
  ASSUME IInv, Connects
  PROVE  IInv'
  <1> DEFINE next == opened + 1
             up == Notice("opened", next)
             down == Notice("closed", relay)
  <1>1. /\ phone.open = 0 /\ opened < MaxSessions /\ opened' = next /\ relay' = next
        /\ phone' = [phone EXCEPT !.open = next]
        /\ toMac' = toMac \cup {up} \cup (IF relay # 0 THEN {down} ELSE {})
        /\ UNCHANGED <<repeated, toPhone, mac, monitor, resolve, executed, done, outcome>>
    BY DEF Connects, log
  <1>2. /\ opened \in Nat /\ next \in 0 .. MaxSessions /\ next \in Nat /\ next >= opened
        /\ next \in 1 .. next /\ next \notin 1 .. opened
    <2>1. opened \in Nat /\ MaxSessions \in Nat
      BY UnderWay, SessionChannelAssumption
    <2> QED BY <1>1, <2>1
  <1>3. /\ up \in Message /\ up.type = "opened" /\ up.sid = next /\ up.packet.kind = "message1"
        /\ down \in Message /\ down.type = "closed" /\ down.packet.kind = "message1"
    <2>1. next \in Nat /\ relay \in Nat
      BY <1>2, Quiet
    <2> HIDE DEF next
    <2> QED BY <2>1, MessageIs
  <1> HIDE DEF next, up, down
  <1>4. phone.sid = 0 /\ phone \in Phone
    BY <1>1, Typed DEF IInv, PhoneInv
  <1>5. Fresh(phone)
    BY <1>4 DEF IInv, PhoneInv
  <1>6. /\ phone' \in Phone /\ phone'.open = next /\ phone'.sid = 0 /\ Fresh(phone')
        /\ phone'.late = phone.late /\ phone'.selected = phone.selected /\ phone'.issued = phone.issued
        /\ phone'.nextOut = phone.nextOut
    BY <1>1, <1>2, <1>4, <1>5 DEF Phone, Fresh
  <1>7. ToPhone' \subseteq ToPhone
    BY <1>1, <1>6, ElementsAre DEF ToPhone, Fresh
  <1>8. PhoneInv'
    <2>1. Ordered({}, 1, <<>>, 0)
      BY FS_EmptySet, SessionChannelAssumption DEF Ordered
    <2> QED BY <1>1, <1>6, <2>1 DEF PhoneInv, Fresh
  <1>9. KnowsSession /\ Holds
    <2>1. \A sid \in 1 .. opened, key \in Nat : ~Its(sid, key)'
      BY <1>2, <1>6 DEF Its
    <2> QED BY <1>2, <1>6, <2>1 DEF KnowsSession, Holds
  <1>10. /\ toMac' \subseteq Message
         /\ \A m \in ToMac' : m \in ToMac \/ (Proper(m)' /\ ~IsRequest(m))
    <2>1. chan' = chan
      BY <1>1 DEF chan
    <2>2. \A m \in toMac' : m \in toMac \/ m = up \/ m = down
      BY <1>1
    <2>3. \A m : m = up \/ m = down => Proper(m)' /\ ~IsRequest(m)
      BY <1>1, <1>2, <1>3 DEF Proper, IsRequest
    <2> QED BY <1>3, <2>1, <2>2, <2>3, Quiet DEF ToMac
  <1>11. \A c \in Command : outcome'[c] = "waiting" <=> c = phone'.cmd
    BY <1>1, <1>5, <1>6, PhoneQuiet DEF Fresh
  <1>12. Len(phone'.late) <= LateWindow
    BY <1>6, PhoneQuiet
  <1>13. /\ relay' \in 0 .. MaxSessions /\ opened' \in 0 .. MaxSessions /\ opened' >= opened
         /\ repeated' \in 0 .. MaxRepeats /\ toPhone' \subseteq toPhone
         /\ outcome' \in [Command -> {"none", "waiting", "succeeded", "failed", "expired", "lost"}]
    BY <1>1, <1>2, Quiet, PhoneQuiet
  <1> QED BY <1>1, <1>6, <1>7, <1>8, <1>9, <1>10, <1>11, <1>12, <1>13, PhoneStepKeeps

LEMMA PostsIs ==
  ASSUME IInv, UNCHANGED <<mac, opened>>, NEW packet \in Packet, packet.kind # "request",
         NEW from, from.sid \in 1 .. opened, from.nextOut \in Nat, from.key \in Nat, from.key <= mac.gen,
         Posts(packet, from)
  PROVE  /\ toMac' \subseteq Message
         /\ \A m \in ToMac' : m \in ToMac \/ (Proper(m)' /\ ~IsRequest(m))
  <1> DEFINE f == Frame(from.sid, from.nextOut, from.key, packet)
  <1>1. from.sid \in Nat /\ opened \in Nat
    BY UnderWay
  <1>2. /\ f \in Message /\ f.type = "frame" /\ f.sid = from.sid /\ f.key = from.key /\ f.packet = packet
    BY <1>1 DEF Frame, Message
  <1>3. toMac' = toMac \/ toMac' = toMac \cup {f}
    BY DEF Posts
  <1> HIDE DEF f
  <1>4. \A m : m = f => Proper(m)' /\ ~IsRequest(m)
    BY <1>2 DEF Proper, IsRequest
  <1>5. chan' = chan
    BY DEF chan
  <1> QED BY <1>2, <1>3, <1>4, <1>5, Quiet DEF ToMac

\* Steps that neither begin nor end a connection, and touch no command.
LEMMA SessionStepKeeps ==
  ASSUME IInv, UNCHANGED <<relay, opened, mac, monitor, resolve, executed, done, outcome>>,
         repeated' \in 0 .. MaxRepeats, toMac' \subseteq Message, toPhone' \subseteq toPhone,
         ToPhone' \subseteq ToPhone, PhoneInv', phone' \in Phone,
         \A m \in ToMac' : m \in ToMac \/ (Proper(m)' /\ ~IsRequest(m)),
         phone'.open = phone.open, phone'.cmd = phone.cmd, phone'.late = phone.late,
         phone'.issued = phone.issued, KnowsSession
  PROVE  /\ TypeOK' /\ ChannelInv' /\ PhoneInv' /\ MessageInv' /\ RequestInv' /\ LogInv'
         /\ SuccessInv' /\ OrderInv'
         /\ phone'.selected = phone.selected /\ Holds => IInv'
  <1>1. /\ relay' \in 0 .. MaxSessions /\ opened' \in 0 .. MaxSessions /\ opened' >= opened
        /\ Len(phone'.late) <= LateWindow
        /\ outcome' \in [Command -> {"none", "waiting", "succeeded", "failed", "expired", "lost"}]
        /\ \A c \in Command : outcome'[c] = "waiting" <=> c = phone'.cmd
    BY Quiet, PhoneQuiet
  <1> QED BY <1>1, PhoneStepKeeps

LEMMA LearnsSessionKeeps ==
  ASSUME IInv, NEW m \in toPhone, NEW left \in SUBSET toPhone, LearnsSession(m, left),
         phone.work = <<>>, repeated' \in 0 .. MaxRepeats
  PROVE  IInv'
  <1>1. /\ m.type = "opened" /\ toPhone' = left
        /\ UNCHANGED <<relay, opened, mac, monitor, resolve, executed, done, outcome>>
    BY DEF LearnsSession, log
  <1>2. m.sid = phone.open /\ m.sid \in 1 .. opened /\ phone \in Phone /\ opened \in 0 .. MaxSessions
    BY <1>1, Typed DEF IInv, MessageInv, ToPhone
  <1>3. CASE phone.sid = 0
    <2>1. /\ phone' = [phone EXCEPT !.sid = m.sid, !.nextOut = 2]
          /\ Posts(Plain("message1"), [phone EXCEPT !.sid = m.sid])
      BY <1>3 DEF LearnsSession
    <2>2. Fresh(phone) /\ m.sid \in 0 .. MaxSessions
      BY <1>2, <1>3 DEF IInv, PhoneInv
    <2>3. /\ phone' \in Phone /\ phone'.sid = m.sid /\ phone'.open = phone.open /\ Fresh(phone')
          /\ phone'.late = phone.late /\ phone'.selected = phone.selected /\ phone'.issued = phone.issued
          /\ phone'.cmd = phone.cmd
      BY <1>2, <2>1, <2>2 DEF Phone, Fresh
    <2>4. ToPhone' \subseteq ToPhone
      BY <1>1, <2>3, ElementsAre DEF ToPhone, Fresh
    <2>5. PhoneInv'
      <3>1. Ordered({}, 1, <<>>, m.sid)
        BY FS_EmptySet, SessionChannelAssumption DEF Ordered
      <3>2. m.sid # 0
        BY <1>2
      <3> QED BY <1>1, <1>2, <2>3, <3>1, <3>2 DEF IInv, PhoneInv, Fresh
    <2>6. KnowsSession /\ Holds
      <3>1. PhoneNext' = PhoneNext /\ PhoneNext \in Int
        BY <2>2, <2>3, UnderWay DEF PhoneNext, Fresh
      <3>2. \A sid \in 1 .. opened, key \in Nat : Its(sid, key)' => Its(sid, key)
        BY <2>2, <2>3 DEF Its, Fresh
      <3> QED BY <1>2, <1>3, <2>3, <3>1, <3>2 DEF KnowsSession, Holds
    <2>7. toMac' \subseteq Message /\ \A f \in ToMac' : f \in ToMac \/ (Proper(f)' /\ ~IsRequest(f))
      <3> DEFINE from == [phone EXCEPT !.sid = m.sid]
                 packet == Plain("message1")
      <3>1. packet \in Packet /\ packet.kind = "message1"
        BY PacketIs DEF Kinds
      <3>2. from.sid = m.sid /\ from.nextOut = phone.nextOut /\ from.key = 0
        BY <1>2, <2>2 DEF Phone, Fresh
      <3>3. Posts(packet, from) /\ phone.nextOut \in Nat /\ mac.gen \in Nat
        BY <2>1, Typed DEF IInv
      <3> HIDE DEF from, packet
      <3>4. from.sid \in 1 .. opened /\ from.nextOut \in Nat /\ from.key \in Nat /\ from.key <= mac.gen
        BY <1>2, <3>2, <3>3
      <3> QED BY <1>1, <3>1, <3>3, <3>4, PostsIs
    <2> QED BY <1>1, <2>3, <2>4, <2>5, <2>6, <2>7, SessionStepKeeps
  <1>4. CASE phone.sid # 0
    <2>1. UNCHANGED <<phone, toMac>> /\ chan' = chan
      BY <1>1, <1>4 DEF LearnsSession, chan
    <2>2. ToPhone' \subseteq ToPhone /\ ToMac' = ToMac /\ toMac' \subseteq Message
      BY <1>1, <2>1, Quiet DEF ToPhone, ToMac
    <2>3. PhoneInv'
      BY <1>1, <2>1 DEF IInv, PhoneInv
    <2>4. KnowsSession /\ Holds /\ phone' \in Phone
      BY <2>1, PhoneSame
    <2> QED BY <1>1, <2>1, <2>2, <2>3, <2>4, SessionStepKeeps
  <1> QED BY <1>3, <1>4

LEMMA IgnoresMessageKeeps ==
  ASSUME IInv, NEW m \in toPhone, NEW left \in SUBSET toPhone, IgnoresMessage(m, left),
         repeated' \in 0 .. MaxRepeats
  PROVE  IInv'
  <1>1. /\ toPhone' = left
        /\ UNCHANGED <<relay, opened, toMac, mac, monitor, phone, resolve, executed, done, outcome>>
    BY DEF IgnoresMessage, log
  <1>2. chan' = chan
    BY <1>1 DEF chan
  <1>3. ToPhone' \subseteq ToPhone /\ ToMac' = ToMac /\ toMac' \subseteq Message
    BY <1>1, <1>2, Quiet DEF ToPhone, ToMac
  <1>4. PhoneInv'
    BY <1>1 DEF IInv, PhoneInv
  <1>5. KnowsSession /\ Holds /\ phone' \in Phone
    BY <1>1, PhoneSame
  <1> QED BY <1>1, <1>3, <1>4, <1>5, SessionStepKeeps

LEMMA ReceivesFrameIs ==
  ASSUME IInv, NEW m \in toPhone, NEW left \in SUBSET toPhone, ReceivesFrame(m, left),
         phone.work = <<>>, ~OutOfWindow(phone.pending, phone.expected, m.seq)
  PROVE  /\ m.type = "frame" /\ m.sid = phone.sid /\ toPhone' = left
         /\ phone' \in Phone /\ phone'.work \in Seq(Message)
         /\ Received(phone.pending, phone.expected, phone.sid, m, phone'.pending, phone'.expected, phone'.work)
         /\ phone'.open = phone.open /\ phone'.sid = phone.sid /\ phone'.key = phone.key
         /\ phone'.secured = phone.secured /\ phone'.ready = phone.ready /\ phone'.nextOut = phone.nextOut
         /\ phone'.cmd = phone.cmd /\ phone'.late = phone.late /\ phone'.selected = phone.selected
         /\ phone'.issued = phone.issued
         /\ UNCHANGED <<relay, opened, toMac, mac, monitor, resolve, executed, done, outcome>>
  <1> DEFINE run == Run(phone.pending \cup {m}, phone.expected)
             rest == Rest(phone.pending \cup {m}, run)
             next == phone.expected + Len(run)
  <1>1. /\ phone \in Phone /\ m \in Message /\ phone.pending \in SUBSET Message /\ phone.expected \in Nat
        /\ Ordered(phone.pending, phone.expected, <<>>, phone.sid)
    BY Typed DEF IInv, PhoneInv
  <1>2. /\ m.type = "frame" /\ m.sid = phone.sid /\ toPhone' = left
        /\ phone' = [phone EXCEPT !.pending = rest, !.expected = @ + Len(run), !.work = run]
        /\ UNCHANGED <<relay, opened, toMac, mac, monitor, resolve, executed, done, outcome>>
    BY DEF ReceivesFrame, Rest, log
  <1>3. Received(phone.pending, phone.expected, phone.sid, m, rest, next, run)
    <2> HIDE DEF run
    <2>1. run = Run(phone.pending \cup {m}, phone.expected)
      BY DEF run
    <2> QED BY <1>1, <1>2, <2>1, ReceiveIs
  <1> HIDE DEF run, rest
  <1>4. rest \subseteq Message /\ next \in Nat /\ run \in Seq(Message)
    BY <1>1, <1>3 DEF Received
  <1>5. phone' = [phone EXCEPT !.pending = rest, !.expected = next, !.work = run]
    BY <1>1, <1>2 DEF Phone
  <1> HIDE DEF next
  <1>6. /\ phone' \in Phone /\ phone'.pending = rest /\ phone'.expected = next /\ phone'.work = run
        /\ phone'.open = phone.open /\ phone'.sid = phone.sid /\ phone'.key = phone.key
        /\ phone'.secured = phone.secured /\ phone'.ready = phone.ready /\ phone'.nextOut = phone.nextOut
        /\ phone'.cmd = phone.cmd /\ phone'.late = phone.late /\ phone'.selected = phone.selected
        /\ phone'.issued = phone.issued
    BY <1>1, <1>4, <1>5 DEF Phone
  <1> QED BY <1>2, <1>3, <1>4, <1>6

LEMMA ReceivesFrameKeeps ==
  ASSUME IInv, NEW m \in toPhone, NEW left \in SUBSET toPhone, ReceivesFrame(m, left),
         phone.work = <<>>, repeated' \in 0 .. MaxRepeats
  PROVE  IInv'
  <1>1. CASE OutOfWindow(phone.pending, phone.expected, m.seq)
    <2>1. Teardown /\ UNCHANGED <<relay, opened, toMac, mac, monitor, resolve, executed, done>>
      BY <1>1 DEF ReceivesFrame, Drops
    <2> QED BY <2>1, TeardownKeeps
  <1>2. CASE ~OutOfWindow(phone.pending, phone.expected, m.seq)
    <2>1. /\ m.type = "frame" /\ m.sid = phone.sid /\ toPhone' = left
          /\ phone' \in Phone /\ phone'.work \in Seq(Message)
          /\ Received(phone.pending, phone.expected, phone.sid, m, phone'.pending, phone'.expected, phone'.work)
          /\ phone'.open = phone.open /\ phone'.sid = phone.sid /\ phone'.key = phone.key
          /\ phone'.secured = phone.secured /\ phone'.ready = phone.ready /\ phone'.nextOut = phone.nextOut
          /\ phone'.cmd = phone.cmd /\ phone'.late = phone.late /\ phone'.selected = phone.selected
          /\ phone'.issued = phone.issued
          /\ UNCHANGED <<relay, opened, toMac, mac, monitor, resolve, executed, done, outcome>>
      BY <1>2, ReceivesFrameIs
    <2>2. /\ phone'.pending \subseteq phone.pending \cup {m} /\ phone'.work \in Seq(phone.pending \cup {m})
          /\ phone'.expected = phone.expected + Len(phone'.work)
          /\ Ordered(phone'.pending, phone'.expected, phone'.work, phone.sid)
      BY <2>1 DEF Received
    <2>3. ToPhone' \subseteq ToPhone
      <3>1. Elements(phone'.work) \subseteq phone.pending \cup {m}
        BY <2>2, ElementsAre
      <3> QED BY <2>1, <2>2, <3>1 DEF ToPhone
    <2>4. phone.sid # 0
      BY <2>1 DEF IInv, MessageInv, ToPhone
    <2>5. PhoneInv'
      BY <2>1, <2>2, <2>4 DEF IInv, PhoneInv
    <2>6. chan' = chan
      BY <2>1 DEF chan
    <2>7. ToMac' = ToMac /\ toMac' \subseteq Message
      BY <2>1, <2>6, Quiet DEF ToMac
    <2>8. KnowsSession /\ Holds
      <3>1. phone.expected \in Nat /\ phone.nextOut \in Nat /\ Len(phone'.work) \in Nat
        <4>1. phone.expected \in Nat /\ phone.nextOut \in Nat
          BY Typed DEF IInv
        <4> QED BY ONLY <2>1, <4>1
      <3>2. Len(<<>>) = 0
        OBVIOUS
      <3>3. PhoneNext' = PhoneNext /\ PhoneNext \in Int
        BY <2>2, <3>1, <3>2, UnderWay DEF PhoneNext
      <3>4. \A sid \in 1 .. opened, key \in Nat : Its(sid, key)' <=> Its(sid, key)
        BY <2>1 DEF Its
      <3> QED BY <2>1, <3>1, <3>3, <3>4 DEF KnowsSession, Holds
    <2> QED BY <2>1, <2>3, <2>5, <2>7, <2>8, SessionStepKeeps
  <1> QED BY <1>1, <1>2

LEMMA PhoneReadsKeeps ==
  ASSUME IInv, PhoneReads
  PROVE  IInv'
  <1> PICK m \in toPhone : \E left \in Left(toPhone, m) :
        /\ repeated' = repeated + (IF m \in left THEN 1 ELSE 0)
        /\ \/ LearnsSession(m, left) \/ EndsSession(m) \/ ReceivesFrame(m, left)
           \/ IgnoresMessage(m, left)
    BY DEF PhoneReads
  <1>1. PICK left \in Left(toPhone, m) :
          /\ repeated' = repeated + (IF m \in left THEN 1 ELSE 0)
          /\ \/ LearnsSession(m, left) \/ EndsSession(m) \/ ReceivesFrame(m, left)
             \/ IgnoresMessage(m, left)
    OBVIOUS
  <1>2. left \in SUBSET toPhone /\ repeated' \in 0 .. MaxRepeats /\ phone.work = <<>>
    BY <1>1, LeftIs DEF PhoneReads
  <1>3. CASE LearnsSession(m, left)
    BY <1>2, <1>3, LearnsSessionKeeps
  <1>4. CASE EndsSession(m)
    <2>1. Teardown /\ UNCHANGED <<relay, opened, toMac, mac, monitor, resolve, executed, done>>
      BY <1>4 DEF EndsSession, Drops
    <2> QED BY <1>2, <2>1, TeardownKeeps
  <1>5. CASE ReceivesFrame(m, left)
    BY <1>2, <1>5, ReceivesFrameKeeps
  <1>6. CASE IgnoresMessage(m, left)
    BY <1>2, <1>6, IgnoresMessageKeeps
  <1> QED BY <1>1, <1>3, <1>4, <1>5, <1>6

\* The controller takes the next packet that is in order, over the channel it has.
TakesNext ==
  /\ phone' \in Phone /\ phone.work # <<>> /\ phone'.work = Tail(phone.work)
  /\ phone'.open = phone.open /\ phone'.sid = phone.sid /\ phone'.nextOut >= phone.nextOut
  /\ phone'.pending = phone.pending /\ phone'.expected = phone.expected
  /\ phone'.late = phone.late /\ phone'.issued = phone.issued
  /\ phone'.secured /\ (phone.secured => phone'.key = phone.key)
  /\ phone'.key <= mac.gen
  /\ phone'.cmd # 0 => phone'.ready

LEMMA TakesNextIs ==
  ASSUME IInv, TakesNext, UNCHANGED <<mac, opened, toPhone>>
  PROVE  /\ Head(phone.work) \in ToPhone /\ Head(phone.work).sid = phone.sid
         /\ Head(phone.work).seq = PhoneNext /\ PhoneNext \in Int /\ PhoneNext' = PhoneNext + 1
         /\ phone.sid # 0 /\ phone.sid = phone.open
         /\ ToPhone' \subseteq ToPhone /\ PhoneInv' /\ KnowsSession /\ Holds
  <1>1. /\ phone.work # <<>> /\ phone.work \in Seq(Message) /\ phone.expected \in Nat
        /\ Ordered(phone.pending, phone.expected, phone.work, phone.sid)
    BY Typed DEF IInv, PhoneInv, TakesNext
  <1>2. /\ Head(phone.work) \in Elements(phone.work) /\ Elements(Tail(phone.work)) \subseteq Elements(phone.work)
        /\ Len(phone.work) \in Nat /\ Len(Tail(phone.work)) = Len(phone.work) - 1
    BY <1>1, HeadIs
  <1>3. Head(phone.work).sid = phone.sid /\ Head(phone.work).seq = phone.expected - Len(phone.work)
    BY <1>1, NextIs
  <1>4. Ordered(phone.pending, phone.expected, Tail(phone.work), phone.sid)
    BY <1>1, OthersAre
  <1>5. /\ phone'.work = Tail(phone.work) /\ phone'.open = phone.open /\ phone'.sid = phone.sid
        /\ phone'.pending = phone.pending /\ phone'.expected = phone.expected
    BY DEF TakesNext
  <1>6. PhoneNext = phone.expected - Len(phone.work) /\ PhoneNext' = PhoneNext + 1 /\ PhoneNext \in Int
    BY <1>1, <1>2, <1>5 DEF PhoneNext
  <1>7. phone.sid # 0 /\ phone.sid = phone.open
    <2>1. phone.sid # 0
      BY <1>1 DEF IInv, PhoneInv, Fresh
    <2> QED BY <2>1, SomeSessionIs
  <1>8. ToPhone' \subseteq ToPhone /\ Head(phone.work) \in ToPhone
    BY <1>2, <1>5 DEF ToPhone
  <1>9. PhoneInv'
    BY <1>4, <1>5, <1>7 DEF IInv, PhoneInv, TakesNext
  <1>10. KnowsSession
    BY DEF KnowsSession, TakesNext
  <1>11. Holds
    <2>1. \A sid \in 1 .. opened, key \in Nat : Its(sid, key)' => Its(sid, key)
      BY DEF Its, TakesNext
    <2> QED BY <1>6, <2>1 DEF Holds
  <1> QED BY <1>3, <1>6, <1>7, <1>8, <1>9, <1>10, <1>11

\* A packet that tells of a page tells of none older than the one that is selected,
\* and nothing that is still to be told is older than it.
LEMMA NextTells ==
  ASSUME IInv, phone.work # <<>>, Sealed, Tells(Head(phone.work).packet)
  PROVE  phone.selected.at <= Head(phone.work).packet.show.at
  <1> DEFINE h == Head(phone.work)
  <1>1. /\ phone.work \in Seq(Message) /\ phone.expected \in Nat
        /\ Ordered(phone.pending, phone.expected, phone.work, phone.sid)
    BY Typed DEF IInv, PhoneInv
  <1>2. h.sid = phone.sid /\ h.seq = phone.expected - Len(phone.work)
    BY <1>1, NextIs
  <1>3. h \in ToPhone
    BY <1>1, HeadIs DEF ToPhone
  <1>4. phone.sid = phone.open
    BY SomeSessionIs DEF IInv, PhoneInv, Fresh
  <1>5. Its(h.sid, h.key) /\ h.seq = PhoneNext /\ h.seq \in Nat
    BY <1>2, <1>3, <1>4, TellsIs DEF Its, Sealed, PhoneNext
  <1> HIDE DEF h
  <1>6. h.seq >= PhoneNext
    BY <1>5
  <1>7. phone.selected.at <= h.packet.show.at
    BY <1>3, <1>5, <1>6 DEF IInv, SelectedInv, WillBeTold, h
  <1> QED BY <1>7 DEF h

LEMMA SelectsKeeps ==
  ASSUME IInv, TakesNext, UNCHANGED <<mac, monitor, resolve, opened, toPhone>>, phone.secured,
         NEW h, h = Head(phone.work), h.key = phone.key, Tells(h.packet), phone'.selected = h.packet.show
  PROVE  SelectedInv'
  <1>1. /\ h \in ToPhone /\ h.sid = phone.sid /\ h.seq = PhoneNext /\ PhoneNext \in Int
        /\ PhoneNext' = PhoneNext + 1 /\ phone.sid # 0 /\ phone.sid = phone.open
        /\ ToPhone' \subseteq ToPhone
    BY TakesNextIs
  <1>2. phone'.open = phone.open /\ phone'.secured /\ phone'.key = phone.key /\ chan' = chan
    BY DEF TakesNext, chan
  <1>3. phone'.selected.at <= resolve'.at
    BY <1>1 DEF IInv, OrderInv, ToldOfThePast
  <1>4. WillBeTold'
    <2> SUFFICES ASSUME NEW f \in ToPhone, Tells(f.packet), f.key = phone.key, f.seq >= PhoneNext + 1
                 PROVE  h.packet.show.at <= f.packet.show.at
      BY <1>1, <1>2 DEF WillBeTold, Its
    <2>1. h.seq < f.seq
      BY <1>1, TellsIs
    <2> QED BY <1>1, <2>1 DEF IInv, OrderInv, ToldInOrder
  <1>5. WillTell'
    <2> SUFFICES ASSUME chan.sid = phone.open, mac.gen = phone.key
                 PROVE  /\ \A n \in 1 .. Len(chan.out) :
                             Tells(chan.out[n]) => h.packet.show.at <= chan.out[n].show.at
                        /\ Observed => h.packet.show.at <= monitor.show.at
      BY <1>2 DEF WillTell, Its, Observed
    <2> QED BY <1>1 DEF IInv, OrderInv, TellsWhatIsNewer
  <1> QED BY <1>3, <1>4, <1>5 DEF SelectedInv

\* A step that takes a packet and leaves the command under way alone.
LEMMA TakesNextKeeps ==
  ASSUME IInv, TakesNext, phone'.cmd = phone.cmd,
         UNCHANGED <<relay, opened, repeated, toPhone, mac, monitor, resolve, executed, done, outcome>>,
         toMac' \subseteq Message, \A m \in ToMac' : m \in ToMac \/ (Proper(m)' /\ ~IsRequest(m)),
         phone'.selected = phone.selected \/ SelectedInv'
  PROVE  IInv'
  <1>1. ToPhone' \subseteq ToPhone /\ PhoneInv' /\ KnowsSession /\ Holds
    BY TakesNextIs
  <1>2. /\ phone' \in Phone /\ phone'.open = phone.open /\ phone'.late = phone.late /\ phone'.issued = phone.issued
    BY DEF TakesNext
  <1>3. repeated' \in 0 .. MaxRepeats /\ toPhone' \subseteq toPhone
    BY Quiet
  <1> QED BY <1>1, <1>2, <1>3, SessionStepKeeps DEF IInv

LEMMA TookIs ==
  ASSUME IInv, phone.work # <<>>
  PROVE  /\ Took \in Phone /\ Took = [phone EXCEPT !.work = Tail(phone.work)]
         /\ Took.work = Tail(phone.work) /\ Took.open = phone.open /\ Took.sid = phone.sid /\ Took.key = phone.key
         /\ Took.secured = phone.secured /\ Took.ready = phone.ready /\ Took.nextOut = phone.nextOut
         /\ Took.pending = phone.pending /\ Took.expected = phone.expected /\ Took.cmd = phone.cmd
         /\ Took.late = phone.late /\ Took.selected = phone.selected /\ Took.issued = phone.issued
         /\ phone.secured => phone.key <= mac.gen
         /\ phone.cmd # 0 => phone.ready
         /\ Head(phone.work) \in Message /\ Head(phone.work).key <= mac.gen
         /\ mac.gen \in Nat /\ phone.key \in Nat /\ phone.nextOut \in Nat /\ phone.sid \in 1 .. opened
  <1>1. /\ phone \in Phone /\ phone.work \in Seq(Message) /\ mac.gen \in Nat /\ phone.key \in Nat
        /\ phone.nextOut \in Nat /\ phone.expected \in Nat
        /\ Ordered(phone.pending, phone.expected, phone.work, phone.sid)
    BY Typed DEF IInv, PhoneInv
  <1>2. Tail(phone.work) \in Seq(Message) /\ Head(phone.work) \in Message /\ Head(phone.work) \in ToPhone
    BY <1>1, HeadIs DEF ToPhone
  <1>3. /\ Took \in Phone
        /\ Took.work = Tail(phone.work) /\ Took.open = phone.open /\ Took.sid = phone.sid /\ Took.key = phone.key
        /\ Took.secured = phone.secured /\ Took.ready = phone.ready /\ Took.nextOut = phone.nextOut
        /\ Took.pending = phone.pending /\ Took.expected = phone.expected /\ Took.cmd = phone.cmd
        /\ Took.late = phone.late /\ Took.selected = phone.selected /\ Took.issued = phone.issued
        /\ Took = [phone EXCEPT !.work = Tail(phone.work)]
    BY <1>1, <1>2 DEF Took, Phone
  <1>4. Head(phone.work).key <= mac.gen
    BY <1>1, <1>2, NextIs DEF IInv, MessageInv
  <1>5. phone.sid \in 1 .. opened
    BY SomeSessionIs DEF IInv, PhoneInv, Fresh
  <1> QED BY <1>1, <1>2, <1>3, <1>4, <1>5 DEF IInv, PhoneInv

\* The packet is taken; what it does to readiness, command and page is left open.
TakesIt ==
  /\ phone' \in Phone /\ phone'.work = Took.work /\ phone'.open = Took.open /\ phone'.sid = Took.sid
  /\ phone'.key = Took.key /\ phone'.secured = Took.secured /\ phone'.nextOut = Took.nextOut
  /\ phone'.pending = Took.pending /\ phone'.expected = Took.expected
  /\ phone'.late = Took.late /\ phone'.issued = Took.issued

LEMMA TookTakes ==
  ASSUME IInv, phone.work # <<>>, phone.secured, TakesIt,
         phone'.cmd = 0 \/ (phone'.cmd = phone.cmd /\ (phone.ready => phone'.ready))
  PROVE  TakesNext
  <1>1. /\ Took \in Phone
        /\ Took.work = Tail(phone.work) /\ Took.open = phone.open /\ Took.sid = phone.sid
        /\ Took.key = phone.key /\ Took.secured = phone.secured /\ Took.nextOut = phone.nextOut
        /\ Took.pending = phone.pending /\ Took.expected = phone.expected /\ Took.cmd = phone.cmd
        /\ Took.late = phone.late /\ Took.issued = phone.issued
        /\ phone.key <= mac.gen /\ (phone.cmd # 0 => phone.ready) /\ phone.nextOut \in Nat
    BY TookIs
  <1>2. phone'.nextOut >= phone.nextOut /\ phone'.key <= mac.gen
    BY <1>1 DEF TakesIt
  <1>3. phone'.secured /\ (phone'.cmd # 0 => phone'.ready)
    BY <1>1, Zenon DEF TakesIt
  <1> QED BY <1>1, <1>2, <1>3, Zenon DEF TakesNext, TakesIt

LEMMA SameToMac ==
  ASSUME IInv, UNCHANGED <<toMac, mac>>
  PROVE  toMac' \subseteq Message /\ ToMac' = ToMac
  BY Quiet DEF ToMac, chan

LEMMA FinishesHandshakeKeeps ==
  ASSUME IInv, FinishesHandshake
  PROVE  IInv'
  <1> DEFINE key == Head(phone.work).key
             from == [phone EXCEPT !.key = key]
             packet == Plain("hello")
  <1>1. /\ phone.work # <<>> /\ ~phone.secured
        /\ phone' = [Took EXCEPT !.secured = TRUE, !.key = key, !.nextOut = @ + 1]
        /\ Posts(packet, from)
        /\ UNCHANGED <<relay, opened, repeated, toPhone, mac, monitor, resolve, executed, done, outcome>>
    BY DEF FinishesHandshake, Takes, log
  <1>2. /\ Took \in Phone
        /\ Took.work = Tail(phone.work) /\ Took.open = phone.open /\ Took.sid = phone.sid
        /\ Took.ready = phone.ready /\ Took.nextOut = phone.nextOut
        /\ Took.pending = phone.pending /\ Took.expected = phone.expected /\ Took.cmd = phone.cmd
        /\ Took.late = phone.late /\ Took.selected = phone.selected /\ Took.issued = phone.issued
        /\ phone.cmd # 0 => phone.ready
        /\ Head(phone.work) \in Message /\ key <= mac.gen
        /\ mac.gen \in Nat /\ phone.nextOut \in Nat /\ phone.sid \in 1 .. opened /\ phone \in Phone
    BY <1>1, TookIs, Typed DEF IInv
  <1>3. key \in Nat
    BY <1>2, MessageIs
  <1> HIDE DEF key
  <1>4. packet \in Packet /\ packet.kind = "hello"
    BY PacketIs DEF Kinds
  <1>5. from.sid = phone.sid /\ from.nextOut = phone.nextOut /\ from.key = key
    BY <1>2 DEF Phone
  <1> HIDE DEF from, packet
  <1>6. toMac' \subseteq Message /\ \A m \in ToMac' : m \in ToMac \/ (Proper(m)' /\ ~IsRequest(m))
    BY <1>1, <1>2, <1>3, <1>4, <1>5, PostsIs
  <1>7. /\ phone' \in Phone /\ phone'.work = Tail(phone.work) /\ phone'.open = phone.open /\ phone'.sid = phone.sid
        /\ phone'.ready = phone.ready /\ phone'.nextOut = phone.nextOut + 1
        /\ phone'.pending = phone.pending /\ phone'.expected = phone.expected /\ phone'.cmd = phone.cmd
        /\ phone'.late = phone.late /\ phone'.selected = phone.selected /\ phone'.issued = phone.issued
        /\ phone'.secured = TRUE /\ phone'.key = key
    <2> DEFINE next == phone.nextOut + 1
    <2>1. next \in Nat /\ phone' = [Took EXCEPT !.secured = TRUE, !.key = key, !.nextOut = next]
      BY <1>1, <1>2 DEF Phone
    <2> HIDE DEF next
    <2>2. /\ phone' \in Phone /\ phone'.work = Took.work /\ phone'.open = Took.open /\ phone'.sid = Took.sid
          /\ phone'.ready = Took.ready /\ phone'.nextOut = next
          /\ phone'.pending = Took.pending /\ phone'.expected = Took.expected /\ phone'.cmd = Took.cmd
          /\ phone'.late = Took.late /\ phone'.selected = Took.selected /\ phone'.issued = Took.issued
          /\ phone'.secured = TRUE /\ phone'.key = key
      BY <1>2, <1>3, <2>1 DEF Phone
    <2> QED BY <1>2, <2>2 DEF next
  <1>8. TakesNext
    BY <1>1, <1>2, <1>7 DEF TakesNext
  <1> QED BY <1>1, <1>6, <1>7, <1>8, TakesNextKeeps

LEMMA BecomesReadyKeeps ==
  ASSUME IInv, BecomesReady
  PROVE  IInv'
  <1>1. /\ phone.work # <<>> /\ phone.secured /\ phone' = [Took EXCEPT !.ready = TRUE]
        /\ UNCHANGED <<relay, opened, repeated, toMac, toPhone, mac, monitor, resolve, executed, done, outcome>>
    BY DEF BecomesReady, Takes, Sealed, log
  <1>2. TakesNext /\ phone'.cmd = phone.cmd /\ phone'.selected = phone.selected
    <2>1. TakesIt /\ phone'.cmd = phone.cmd /\ phone'.selected = phone.selected /\ phone'.ready
      BY <1>1, TookIs DEF Phone, TakesIt
    <2> QED BY <1>1, <2>1, TookTakes
  <1> QED BY <1>1, <1>2, SameToMac, TakesNextKeeps

LEMMA IgnoresLateResponseKeeps ==
  ASSUME IInv, IgnoresLateResponse
  PROVE  IInv'
  <1>1. /\ phone.work # <<>> /\ phone.secured /\ phone' = Took
        /\ UNCHANGED <<relay, opened, repeated, toMac, toPhone, mac, monitor, resolve, executed, done, outcome>>
    BY DEF IgnoresLateResponse, Takes, Sealed, log
  <1>2. TakesNext /\ phone'.cmd = phone.cmd /\ phone'.selected = phone.selected
    <2>1. TakesIt /\ phone'.cmd = phone.cmd /\ phone'.selected = phone.selected /\ phone'.ready = phone.ready
      BY <1>1, TookIs DEF TakesIt
    <2> QED BY <1>1, <2>1, TookTakes
  <1> QED BY <1>1, <1>2, SameToMac, TakesNextKeeps

LEMMA SelectsPageKeeps ==
  ASSUME IInv, SelectsPage
  PROVE  IInv'
  <1> DEFINE h == Head(phone.work)
  <1>1. /\ phone.work # <<>> /\ phone.secured /\ h.key = phone.key /\ h.packet.kind = "event"
        /\ phone' = [Took EXCEPT !.selected = h.packet.show]
        /\ UNCHANGED <<relay, opened, repeated, toMac, toPhone, mac, monitor, resolve, executed, done, outcome>>
    BY DEF SelectsPage, Takes, Sealed, log
  <1>2. h.packet.show \in Shown /\ Tells(h.packet)
    BY <1>1, TookIs, MessageIs, PacketIs DEF Tells
  <1>3. TakesNext /\ phone'.cmd = phone.cmd /\ phone'.selected = h.packet.show
    <2>1. TakesIt /\ phone'.cmd = phone.cmd /\ phone'.selected = h.packet.show /\ phone'.ready = phone.ready
      BY <1>1, <1>2, TookIs DEF Phone, TakesIt
    <2> QED BY <1>1, <2>1, TookTakes
  <1>4. SelectedInv'
    BY <1>1, <1>2, <1>3, SelectsKeeps
  <1> QED BY <1>1, <1>3, <1>4, SameToMac, TakesNextKeeps

LEMMA CommandEnds ==
  ASSUME IInv, phone.cmd # 0, phone'.cmd = 0,
         NEW what \in {"succeeded", "failed", "expired"}, outcome' = [outcome EXCEPT ![phone.cmd] = what]
  PROVE  /\ outcome' \in [Command -> {"none", "waiting", "succeeded", "failed", "expired", "lost"}]
         /\ \A c \in Command : outcome'[c] = "waiting" <=> c = phone'.cmd
         /\ phone.cmd \in Command /\ outcome[phone.cmd] = "waiting"
  <1>1. phone.cmd \in Command /\ 0 \notin Command
    <2>1. phone.cmd \in 0 .. MaxCommands /\ MaxCommands \in Nat
      BY Typed DEF IInv
    <2> QED BY <2>1 DEF Command
  <1>2. /\ outcome \in [Command -> {"none", "waiting", "succeeded", "failed", "expired", "lost"}]
        /\ \A c \in Command : outcome[c] = "waiting" <=> c = phone.cmd
    BY PhoneQuiet
  <1> QED BY <1>1, <1>2

LEMMA TakesResponseIs ==
  ASSUME IInv, TakesResponse
  PROVE  LET r == Head(phone.work).packet IN
         /\ phone.work # <<>> /\ phone.secured /\ Head(phone.work).key = phone.key /\ Took \in Phone
         /\ phone.cmd # 0 /\ phone'.cmd = 0 /\ TakesIt
         /\ r.kind = "response" /\ r.cmd = phone.cmd
         /\ \E what \in {"succeeded", "failed", "expired"} :
              outcome' = [outcome EXCEPT ![phone.cmd] = what] /\ (what = "succeeded" => r.ok)
         /\ phone'.selected = phone.selected \/ (r.ok /\ phone'.selected = r.show)
         /\ UNCHANGED <<relay, opened, repeated, toMac, toPhone, mac, monitor, resolve, executed, done>>
  <1> DEFINE r == Head(phone.work).packet
  <1>1. /\ phone.work # <<>> /\ phone.secured /\ Head(phone.work).key = phone.key
        /\ phone.cmd # 0 /\ r.kind = "response" /\ r.cmd = phone.cmd
        /\ \/ /\ phone' = [Took EXCEPT !.cmd = 0, !.selected = IF r.ok THEN r.show ELSE @]
              /\ outcome' = [outcome EXCEPT ![phone.cmd] = IF r.ok THEN "succeeded" ELSE "failed"]
           \/ /\ phone' = [Took EXCEPT !.cmd = 0]
              /\ outcome' = [outcome EXCEPT ![phone.cmd] = "expired"]
        /\ UNCHANGED <<relay, opened, repeated, toMac, toPhone, mac, monitor, resolve, executed, done>>
    BY DEF TakesResponse, Takes, Sealed, Answered
  <1>2. Took \in Phone /\ r \in Packet /\ Took.selected = phone.selected /\ 0 \in 0 .. MaxCommands
    BY <1>1, TookIs, MessageIs, SessionChannelAssumption
  <1>3. r.ok \in BOOLEAN /\ r.show \in Shown
    BY <1>2, PacketIs
  <1> HIDE DEF r
  <1>4. CASE /\ phone' = [Took EXCEPT !.cmd = 0]
             /\ outcome' = [outcome EXCEPT ![phone.cmd] = "expired"]
    <2>1. phone'.cmd = 0 /\ TakesIt /\ phone'.selected = phone.selected
      BY <1>2, <1>4 DEF Phone, TakesIt
    <2> QED BY <1>1, <1>2, <1>4, <2>1 DEF r
  <1>5. CASE /\ phone' = [Took EXCEPT !.cmd = 0, !.selected = IF r.ok THEN r.show ELSE @]
             /\ outcome' = [outcome EXCEPT ![phone.cmd] = IF r.ok THEN "succeeded" ELSE "failed"]
    <2>1. CASE r.ok
      <3>1. /\ phone' = [Took EXCEPT !.cmd = 0, !.selected = r.show]
            /\ outcome' = [outcome EXCEPT ![phone.cmd] = "succeeded"]
        BY <1>5, <2>1
      <3>2. phone'.cmd = 0 /\ TakesIt /\ phone'.selected = r.show
        BY <1>2, <1>3, <3>1 DEF Phone, TakesIt
      <3> QED BY <1>1, <1>2, <2>1, <3>1, <3>2 DEF r
    <2>2. CASE ~r.ok
      <3>1. /\ phone' = [Took EXCEPT !.cmd = 0, !.selected = Took.selected]
            /\ outcome' = [outcome EXCEPT ![phone.cmd] = "failed"]
        BY <1>2, <1>5, <2>2 DEF Phone
      <3>2. phone'.cmd = 0 /\ TakesIt /\ phone'.selected = phone.selected
        BY <1>2, <3>1 DEF Phone, TakesIt
      <3> QED BY <1>1, <1>2, <3>1, <3>2 DEF r
    <2> QED BY <2>1, <2>2
  <1> QED BY <1>1, <1>4, <1>5 DEF r

LEMMA TakesResponseKeeps ==
  ASSUME IInv, TakesResponse
  PROVE  IInv'
  <1> DEFINE h == Head(phone.work)
  <1>1. /\ phone.work # <<>> /\ phone.secured /\ h.key = phone.key
        /\ phone.cmd # 0 /\ phone'.cmd = 0 /\ TakesIt /\ h.packet.kind = "response"
        /\ \E what \in {"succeeded", "failed", "expired"} : outcome' = [outcome EXCEPT ![phone.cmd] = what]
        /\ phone'.selected = phone.selected \/ (h.packet.ok /\ phone'.selected = h.packet.show)
        /\ UNCHANGED <<relay, opened, repeated, toMac, toPhone, mac, monitor, resolve, executed, done>>
    BY TakesResponseIs
  <1>2. TakesNext
    BY <1>1, TookTakes
  <1>3. ToPhone' \subseteq ToPhone /\ PhoneInv' /\ KnowsSession /\ Holds
    BY <1>1, <1>2, TakesNextIs
  <1>4. phone' \in Phone /\ phone'.open = phone.open /\ phone'.late = phone.late /\ phone'.issued = phone.issued
    BY <1>2 DEF TakesNext
  <1>5. /\ relay' \in 0 .. MaxSessions /\ opened' \in 0 .. MaxSessions /\ opened' >= opened
        /\ repeated' \in 0 .. MaxRepeats /\ toPhone' \subseteq toPhone
        /\ toMac' \subseteq Message /\ ToMac' = ToMac /\ Len(phone'.late) <= LateWindow
    BY <1>1, <1>4, Quiet, PhoneQuiet, SameToMac
  <1>6. /\ outcome' \in [Command -> {"none", "waiting", "succeeded", "failed", "expired", "lost"}]
        /\ \A c \in Command : outcome'[c] = "waiting" <=> c = phone'.cmd
    BY <1>1, CommandEnds
  <1>7. /\ TypeOK' /\ ChannelInv' /\ PhoneInv' /\ MessageInv' /\ RequestInv' /\ LogInv'
        /\ SuccessInv' /\ OrderInv'
        /\ phone'.selected = phone.selected /\ Holds => IInv'
    BY <1>1, <1>3, <1>4, <1>5, <1>6, PhoneStepKeeps
  <1>8. CASE phone'.selected = phone.selected
    BY <1>3, <1>7, <1>8
  <1>9. CASE h.packet.ok /\ phone'.selected = h.packet.show
    <2>1. Tells(h.packet)
      BY <1>1, <1>9 DEF Tells, Confirms
    <2>2. SelectedInv'
      BY <1>1, <1>2, <1>9, <2>1, SelectsKeeps
    <2> QED BY <1>7, <2>2 DEF IInv
  <1> QED BY <1>1, <1>8, <1>9

LEMMA RefusesPacketKeeps ==
  ASSUME IInv, RefusesPacket
  PROVE  IInv'
  <1>1. Teardown /\ UNCHANGED <<relay, opened, repeated, toMac, mac, monitor, resolve, executed, done>>
    BY DEF RefusesPacket
  <1> QED BY <1>1, Quiet, TeardownKeeps

LEMMA LeavesKeeps ==
  ASSUME IInv, Leaves
  PROVE  IInv'
  <1>1. Teardown /\ UNCHANGED <<relay, opened, repeated, toMac, mac, monitor, resolve, executed, done>>
    BY DEF Leaves
  <1> QED BY <1>1, Quiet, TeardownKeeps

LEMMA ExpiresKeeps ==
  ASSUME IInv, Expires
  PROVE  IInv'
  <1> DEFINE all == Append(phone.late, phone.cmd)
             late == IF Len(phone.late) = LateWindow THEN Tail(all) ELSE all
  <1>1. /\ phone.cmd # 0 /\ phone' = [phone EXCEPT !.cmd = 0, !.late = late]
        /\ outcome' = [outcome EXCEPT ![phone.cmd] = "expired"]
        /\ UNCHANGED <<relay, opened, repeated, toMac, toPhone, mac, monitor, resolve, executed, done>>
    <2>1. phone \in Phone
      BY Typed DEF IInv
    <2> QED BY <2>1 DEF Expires, Phone
  <1>2. phone.late \in Seq(Command) /\ phone.cmd \in Command /\ phone \in Phone
    <2>1. phone.late \in Seq(Command) /\ phone \in Phone /\ phone.cmd \in 0 .. MaxCommands /\ MaxCommands \in Nat
      BY Typed DEF IInv
    <2> QED BY <1>1, <2>1 DEF Command
  <1>3. LateWindow \in Nat /\ Len(phone.late) <= LateWindow /\ 0 \in 0 .. MaxCommands
    BY PhoneQuiet, SessionChannelAssumption
  <1>4. late \in Seq(Command) /\ Len(late) <= LateWindow
    <2>1. all \in Seq(Command) /\ Len(all) = Len(phone.late) + 1 /\ all # <<>> /\ Len(phone.late) \in Nat
      BY <1>2
    <2> HIDE DEF all
    <2>2. Tail(all) \in Seq(Command) /\ Len(Tail(all)) = Len(all) - 1
      BY <2>1, HeadIs
    <2>3. CASE Len(phone.late) = LateWindow
      BY <1>3, <2>1, <2>2, <2>3
    <2>4. CASE Len(phone.late) # LateWindow
      BY <1>3, <2>1, <2>4
    <2> QED BY <2>3, <2>4
  <1> HIDE DEF late
  <1>5. /\ phone' \in Phone /\ phone'.cmd = 0 /\ phone'.late = late
        /\ phone'.open = phone.open /\ phone'.sid = phone.sid /\ phone'.key = phone.key
        /\ phone'.secured = phone.secured /\ phone'.ready = phone.ready /\ phone'.nextOut = phone.nextOut
        /\ phone'.pending = phone.pending /\ phone'.expected = phone.expected /\ phone'.work = phone.work
        /\ phone'.selected = phone.selected /\ phone'.issued = phone.issued
    BY <1>1, <1>2, <1>3, <1>4 DEF Phone
  <1>6. PhoneInv'
    BY <1>1, <1>5 DEF IInv, PhoneInv, Fresh
  <1>7. KnowsSession /\ Holds
    <2>1. PhoneNext' = PhoneNext /\ PhoneNext \in Int /\ phone.nextOut \in Nat
      BY <1>5, UnderWay, Typed DEF IInv, PhoneNext
    <2>2. \A sid \in 1 .. opened, key \in Nat : Its(sid, key)' => Its(sid, key)
      BY <1>5 DEF Its
    <2> QED BY <1>5, <2>1, <2>2 DEF KnowsSession, Holds
  <1>8. /\ outcome' \in [Command -> {"none", "waiting", "succeeded", "failed", "expired", "lost"}]
        /\ \A c \in Command : outcome'[c] = "waiting" <=> c = phone'.cmd
    BY <1>1, <1>5, CommandEnds
  <1>9. ToPhone' \subseteq ToPhone
    BY <1>1, <1>5 DEF ToPhone
  <1>10. /\ relay' \in 0 .. MaxSessions /\ opened' \in 0 .. MaxSessions /\ opened' >= opened
         /\ repeated' \in 0 .. MaxRepeats /\ toPhone' \subseteq toPhone
         /\ toMac' \subseteq Message /\ ToMac' = ToMac
    BY <1>1, Quiet, PhoneQuiet, SameToMac
  <1>11. Len(phone'.late) <= LateWindow
    BY <1>4, <1>5
  <1> QED BY <1>1, <1>5, <1>6, <1>7, <1>8, <1>9, <1>10, <1>11, PhoneStepKeeps

LEMMA ExecutedIs ==
  ASSUME IInv
  PROVE  \A n \in 1 .. Len(executed) : executed[n] \in Nat /\ executed[n] <= phone.issued
  <1>1. executed \in Seq(Command) /\ MaxCommands \in Nat
    BY Typed DEF IInv
  <1>2. \A n \in 1 .. Len(executed) : executed[n] \in Nat
    BY <1>1 DEF Command
  <1> QED BY <1>2 DEF IInv, LogInv

LEMMA SendsCommandIs ==
  ASSUME IInv, SendsCommand
  PROVE  /\ phone.cmd = 0 /\ phone.ready /\ phone.secured /\ phone.sid \in 1 .. opened
         /\ phone.issued < MaxCommands /\ phone.issued \in Nat /\ phone.nextOut \in Nat
         /\ phone' \in Phone /\ phone'.cmd = phone.issued + 1 /\ phone'.issued = phone.issued + 1
         /\ phone'.nextOut = phone.nextOut + 1 /\ phone'.late = phone.late
         /\ phone'.open = phone.open /\ phone'.sid = phone.sid /\ phone'.key = phone.key
         /\ phone'.secured = phone.secured /\ phone'.ready = phone.ready
         /\ phone'.pending = phone.pending /\ phone'.expected = phone.expected /\ phone'.work = phone.work
         /\ phone'.selected = phone.selected
         /\ outcome' = [outcome EXCEPT ![phone.issued + 1] = "waiting"]
         /\ UNCHANGED <<relay, opened, repeated, toPhone, mac, monitor, resolve, executed, done>>
         /\ \E f \in Message :
              /\ toMac' \subseteq toMac \cup {f}
              /\ f.type = "frame" /\ f.sid = phone.sid /\ f.seq = phone.nextOut /\ f.key = phone.key
              /\ IsRequest(f) /\ f.packet.cmd = phone.issued + 1 /\ f.packet.show.page \in Pages
  <1> DEFINE c == phone.issued + 1
             next == phone.nextOut + 1
  <1>1. /\ phone \in Phone /\ phone.issued \in 0 .. MaxCommands /\ phone.nextOut \in Nat
        /\ phone.key \in Nat /\ MaxCommands \in Nat /\ phone.sid \in 0 .. MaxSessions /\ MaxSessions \in Nat
    BY Typed, SessionChannelAssumption DEF IInv
  <1>2. /\ phone.ready /\ phone.cmd = 0 /\ phone.issued < MaxCommands
        /\ UNCHANGED <<relay, opened, repeated, toPhone, mac, monitor, resolve, executed, done>>
        /\ outcome' = [outcome EXCEPT ![c] = "waiting"]
    BY DEF SendsCommand
  <1>3. PICK p \in Pages :
          /\ phone' = [phone EXCEPT !.cmd = c, !.issued = c, !.nextOut = @ + 1]
          /\ Posts(Request(c, p), phone)
    BY DEF SendsCommand
  <1>4. c \in Nat /\ c \in 0 .. MaxCommands /\ next \in Nat
    BY <1>1, <1>2
  <1>5. phone' = [phone EXCEPT !.cmd = c, !.issued = c, !.nextOut = next]
    BY <1>1, <1>3 DEF Phone
  <1>6. phone.secured /\ phone.sid \in 1 .. opened
    <2>1. phone.sid # 0
      BY <1>2 DEF IInv, PhoneInv, Fresh
    <2> QED BY <1>2, <2>1, SomeSessionIs DEF IInv, PhoneInv
  <1> HIDE DEF c, next
  <1>7. /\ phone' \in Phone /\ phone'.cmd = c /\ phone'.issued = c /\ phone'.nextOut = next
        /\ phone'.late = phone.late /\ phone'.open = phone.open /\ phone'.sid = phone.sid
        /\ phone'.key = phone.key /\ phone'.secured = phone.secured /\ phone'.ready = phone.ready
        /\ phone'.pending = phone.pending /\ phone'.expected = phone.expected /\ phone'.work = phone.work
        /\ phone'.selected = phone.selected
    BY <1>1, <1>4, <1>5 DEF Phone
  <1>8. \E f \in Message :
          /\ toMac' \subseteq toMac \cup {f}
          /\ f.type = "frame" /\ f.sid = phone.sid /\ f.seq = phone.nextOut /\ f.key = phone.key
          /\ IsRequest(f) /\ f.packet.cmd = c /\ f.packet.show.page \in Pages
    <2> DEFINE r == Request(c, p)
               f == Frame(phone.sid, phone.nextOut, phone.key, r)
    <2>1. r \in Packet /\ r.kind = "request" /\ r.cmd = c /\ r.show.page = p
      BY <1>4, PacketIs
    <2>2. toMac' \subseteq toMac \cup {f}
      BY <1>3 DEF Posts
    <2> HIDE DEF r
    <2>3. phone.sid \in Nat
      BY <1>1
    <2>4. /\ f \in Message /\ f.type = "frame" /\ f.sid = phone.sid /\ f.seq = phone.nextOut
          /\ f.key = phone.key /\ f.packet = r
      BY <1>1, <2>1, <2>3 DEF Frame, Message
    <2> HIDE DEF f
    <2> QED BY <2>1, <2>2, <2>4 DEF IsRequest
  <1> QED BY <1>1, <1>2, <1>6, <1>7, <1>8 DEF c, next

\* A new request comes after all that the controller has sent, and names a
\* command of which the companion has not heard.
LEMMA RequestComesLast ==
  ASSUME IInv, UNCHANGED <<mac, executed>>, phone.secured, phone.sid # 0,
         phone'.sid = phone.sid, phone'.nextOut = phone.nextOut + 1, phone'.issued = phone.issued + 1,
         NEW f \in Message, ToMac' \subseteq ToMac \cup {f},
         f.sid = phone.sid, f.seq = phone.nextOut,
         f.packet.cmd = phone.issued + 1, f.packet.show.page \in Pages
  PROVE  RequestInv'
  <1>1. /\ phone.issued \in Nat /\ phone.nextOut \in Nat /\ chan' = chan /\ MacNext' = MacNext
        /\ executed \in Seq(Command)
    <2>1. phone.issued \in 0 .. MaxCommands /\ phone.nextOut \in Nat /\ executed \in Seq(Command)
      BY Typed DEF IInv
    <2>2. chan' = chan
      BY DEF chan
    <2> QED BY <2>1, <2>2, SessionChannelAssumption DEF MacNext
  <1>2. \A g \in ToMac : IsRequest(g) =>
          /\ g.packet.cmd \in 1 .. phone.issued /\ g.packet.show.page \in Pages /\ g.seq \in Nat
          /\ g.sid = phone.sid => g.seq < phone.nextOut
    BY RequestIs DEF IInv, RequestInv, RequestsKnown
  <1>3. RequestsKnown'
    <2> SUFFICES ASSUME NEW g \in ToMac', IsRequest(g)
                 PROVE  /\ g.packet.cmd \in 1 .. phone.issued + 1 /\ g.packet.show.page \in Pages
                        /\ g.sid = phone.sid => g.seq < phone.nextOut + 1
      BY DEF RequestsKnown, IsRequest
    <2>1. CASE g = f
      BY <1>1, <2>1
    <2>2. CASE g \in ToMac
      BY <1>1, <1>2, <2>2
    <2> QED BY <2>1, <2>2
  <1>4. RequestsInOrder'
    <2> SUFFICES ASSUME NEW g \in ToMac', NEW h \in ToMac', IsRequest(g), IsRequest(h), g.sid = h.sid,
                        g.seq < h.seq
                 PROVE  g.packet.cmd < h.packet.cmd
      BY DEF RequestsInOrder, IsRequest
    <2>1. CASE g \in ToMac /\ h \in ToMac
      BY <2>1 DEF IInv, RequestInv, RequestsInOrder
    <2>2. CASE g \in ToMac /\ h = f
      BY <1>1, <1>2, <2>2
    <2>3. CASE g = f
      BY <1>1, <1>2, <2>3
    <2> QED BY <2>1, <2>2, <2>3
  <1>5. RequestsNew'
    <2> SUFFICES ASSUME NEW g \in ToMac', IsRequest(g), g.sid = chan.sid, g.key = mac.gen, g.seq >= MacNext,
                        NEW n \in 1 .. Len(executed)
                 PROVE  executed[n] < g.packet.cmd
      BY <1>1 DEF RequestsNew, IsRequest
    <2>1. CASE g \in ToMac
      BY <2>1 DEF IInv, RequestInv, RequestsNew
    <2>2. CASE g = f
      <3>1. executed[n] \in Nat /\ executed[n] <= phone.issued
        BY ExecutedIs
      <3> QED BY <1>1, <2>2, <3>1
    <2> QED BY <2>1, <2>2
  <1> QED BY <1>3, <1>4, <1>5 DEF RequestInv

LEMMA SendsCommandKeeps ==
  ASSUME IInv, SendsCommand
  PROVE  IInv'
  <1>1. /\ phone.cmd = 0 /\ phone.ready /\ phone.secured /\ phone.sid \in 1 .. opened
        /\ phone.issued < MaxCommands /\ phone.issued \in Nat /\ phone.nextOut \in Nat
        /\ phone' \in Phone /\ phone'.cmd = phone.issued + 1 /\ phone'.issued = phone.issued + 1
        /\ phone'.nextOut = phone.nextOut + 1 /\ phone'.late = phone.late
        /\ phone'.open = phone.open /\ phone'.sid = phone.sid /\ phone'.key = phone.key
        /\ phone'.secured = phone.secured /\ phone'.ready = phone.ready
        /\ phone'.pending = phone.pending /\ phone'.expected = phone.expected /\ phone'.work = phone.work
        /\ phone'.selected = phone.selected
        /\ outcome' = [outcome EXCEPT ![phone.issued + 1] = "waiting"]
        /\ UNCHANGED <<relay, opened, repeated, toPhone, mac, monitor, resolve, executed, done>>
    BY SendsCommandIs
  <1>2. PICK f \in Message :
          /\ toMac' \subseteq toMac \cup {f}
          /\ f.type = "frame" /\ f.sid = phone.sid /\ f.seq = phone.nextOut /\ f.key = phone.key
          /\ IsRequest(f) /\ f.packet.cmd = phone.issued + 1 /\ f.packet.show.page \in Pages
    BY SendsCommandIs
  <1>3. chan' = chan /\ mac.gen \in Nat /\ opened \in Nat /\ opened \in 0 .. MaxSessions
    BY <1>1, UnderWay, Typed DEF IInv, chan
  <1>4. ToMac' \subseteq ToMac \cup {f} /\ toMac' \subseteq Message
    BY <1>2, <1>3, Quiet DEF ToMac
  <1>5. ToPhone' \subseteq ToPhone
    BY <1>1 DEF ToPhone
  <1>6. PhoneInv'
    <2>1. phone.sid # 0
      BY <1>1
    <2> QED BY <1>1, <2>1 DEF IInv, PhoneInv
  <1>7. \A m : m = f => Proper(m)'
    <2>1. phone.key <= mac.gen
      BY <1>1 DEF IInv, PhoneInv
    <2> QED BY <1>1, <1>2, <2>1 DEF Proper
  <1>8. phone.issued + 1 \in Command
    BY <1>1, SessionChannelAssumption DEF Command
  <1>9. /\ outcome' \in [Command -> {"none", "waiting", "succeeded", "failed", "expired", "lost"}]
        /\ \A c \in Command : outcome'[c] = "waiting" <=> c = phone'.cmd
    <2>1. 0 \notin Command
      BY DEF Command
    <2> QED BY <1>1, <1>8, <2>1, PhoneQuiet
  <1>10. /\ relay' \in 0 .. MaxSessions /\ opened' \in 0 .. MaxSessions /\ opened' >= opened
         /\ repeated' \in 0 .. MaxRepeats /\ toPhone' \subseteq toPhone /\ Len(phone'.late) <= LateWindow
    BY <1>1, <1>3, Quiet, PhoneQuiet
  <1>11. TypeOK' /\ ChannelInv' /\ MessageInv' /\ SuccessInv' /\ OrderInv'
    <2>1. \A m \in ToMac' : m \in ToMac \/ Proper(m)'
      BY <1>4, <1>7
    <2> QED BY <1>1, <1>4, <1>5, <1>6, <1>9, <1>10, <2>1, PhoneStepTyped
  <1>12. RequestInv'
    <2>1. phone.sid # 0
      BY <1>1
    <2> QED BY <1>1, <1>2, <1>4, <2>1, RequestComesLast
  <1>13. LogInv'
    <2>1. \A n \in 1 .. Len(executed) : executed[n] <= phone.issued + 1
      <3>1. \A n \in 1 .. Len(executed) : executed[n] \in Nat /\ executed[n] <= phone.issued
        BY ExecutedIs
      <3> QED BY <1>1, <3>1
    <2> QED BY <1>1, <1>3, <1>9, <2>1 DEF IInv, LogInv
  <1>14. SelectedInv'
    <2>1. PhoneNext' = PhoneNext /\ PhoneNext \in Int
      BY <1>1, UnderWay DEF PhoneNext
    <2>2. \A sid \in 1 .. opened, key \in Nat : Its(sid, key)' => Its(sid, key)
      BY <1>1 DEF Its
    <2>3. Holds
      BY <2>1, <2>2 DEF Holds
    <2>4. mac'.gen \in Nat /\ resolve' \in Shown /\ resolve'.at >= resolve.at /\ Calm
      BY <1>1, <1>3, Quiet, SameChannel
    <2>5. \A g \in ToPhone' : Tells(g.packet) => g \in ToPhone
      BY <1>5
    <2> QED BY <1>1, <2>3, <2>4, <2>5, SelectedStays
  <1> QED BY <1>6, <1>11, <1>12, <1>13, <1>14 DEF IInv

LEMMA PhoneStepInvariant ==
  ASSUME IInv, PhoneStep
  PROVE  IInv'
  BY ConnectsKeeps, LeavesKeeps, PhoneReadsKeeps, FinishesHandshakeKeeps, BecomesReadyKeeps,
     SelectsPageKeeps, TakesResponseKeeps, IgnoresLateResponseKeeps, RefusesPacketKeeps,
     SendsCommandKeeps, ExpiresKeeps DEF PhoneStep

-----------------------------------------------------------------------------
(***************************************************************************)
(* The theorems.                                                           *)
(***************************************************************************)
LEMMA InitInv == Init => IInv
  <1> SUFFICES ASSUME Init PROVE IInv
    OBVIOUS
  <1>1. /\ {MaxSessions, MaxCommands, MaxRepeats, MaxRequests, Window, LateWindow} \subseteq Nat
        /\ 0 \in 0 .. MaxSessions /\ 0 \in 0 .. MaxCommands /\ 0 \in 0 .. MaxRepeats /\ Len(<<>>) = 0
        /\ <<>> \in Seq(Message) /\ <<>> \in Seq(Command)
    BY SessionChannelAssumption
  <1>2. /\ mac \in Mac /\ mac.up = TRUE /\ mac.gen = 0 /\ chan = NoChannel /\ monitor = MonitorOff
    BY NoChannelIs DEF Init, Mac, chan
  <1>3. /\ phone \in Phone /\ phone.open = 0 /\ phone.sid = 0 /\ phone.late = <<>>
        /\ phone.selected = Nowhere /\ phone.issued = 0 /\ Fresh(phone)
    BY <1>1, ShownIs DEF Init, Closed, Phone, Fresh
  <1>4. resolve \in Shown
    BY DEF Init, Shown
  <1>5. /\ relay = 0 /\ opened = 0 /\ repeated = 0 /\ toMac = {} /\ toPhone = {}
        /\ executed = <<>> /\ done = {}
        /\ outcome \in [Command -> {"none", "waiting", "succeeded", "failed", "expired", "lost"}]
        /\ \A c \in Command : outcome[c] # "waiting"
    BY DEF Init
  <1>6. /\ chan.sid = 0 /\ chan.running = 0 /\ chan.pending = {} /\ chan.cache = {}
        /\ chan.busy = FALSE /\ chan.work = <<>> /\ chan.out = <<>> /\ chan.expected = 1
        /\ monitor \in Monitor /\ ~Observed
    BY <1>2, NoChannelIs DEF Observed
  <1>7. ToMac = {} /\ ToPhone = {}
    BY <1>3, <1>5, <1>6, ElementsAre DEF ToMac, ToPhone, Fresh
  <1>8. /\ IsFiniteSet({}) /\ Cardinality({}) = 0
        /\ Ordered({}, 1, <<>>, 0)
    BY <1>1, FS_EmptySet DEF Ordered
  <1>9. ChannelInv
    BY <1>1, <1>2, <1>5, <1>6, <1>8 DEF ChannelInv
  <1>10. PhoneInv
    BY <1>1, <1>3, <1>5, <1>8 DEF PhoneInv, Fresh
  <1>11. TypeOK
    <2>1. \A pending \in {chan.pending, phone.pending} : Cardinality(pending) <= Window
      <3>1. chan.pending = {} /\ phone.pending = {}
        BY <1>3, <1>6 DEF Fresh
      <3>2. Cardinality({}) <= Window
        BY <1>1, <1>8
      <3> QED BY <3>1, <3>2
    <2>2. Cardinality(chan.cache) <= MaxRequests /\ Len(phone.late) <= LateWindow
      BY <1>1, <1>3, <1>6, <1>8
    <2> QED BY <1>1, <1>2, <1>3, <1>4, <1>5, <1>6, <2>1, <2>2 DEF TypeOK
  <1>12. MessageInv /\ RequestInv
    BY <1>5, <1>7 DEF MessageInv, RequestInv, RequestsKnown, RequestsInOrder, RequestsNew
  <1>13. LogInv
    <2>1. 0 \notin Command
      BY DEF Command
    <2> QED BY <1>1, <1>3, <1>5, <1>6, <2>1 DEF LogInv, Fresh
  <1>14. SuccessInv
    BY <1>1, <1>6, <1>7 DEF SuccessInv
  <1>15. OrderInv
    BY <1>1, <1>6, <1>7 DEF OrderInv, ToldOfThePast, ToldInOrder, TellsInOrder, TellsWhatIsNewer, ObservesThePast
  <1>16. SelectedInv
    <2>1. phone.selected.at <= resolve.at
      BY <1>3, <1>4, ShownIs
    <2> QED BY <1>1, <1>6, <1>7, <2>1 DEF SelectedInv, WillBeTold, WillTell
  <1> QED BY <1>9, <1>10, <1>11, <1>12, <1>13, <1>14, <1>15, <1>16 DEF IInv

LEMMA StutterKeeps ==
  ASSUME IInv, UNCHANGED vars
  PROVE  IInv'
  <1>1. UNCHANGED <<relay, opened, repeated, toMac, toPhone, mac, monitor, phone, resolve, executed, done, outcome>>
    BY DEF vars
  <1>2. UNCHANGED log
    BY <1>1 DEF log
  <1> QED BY <1>1, <1>2, Quiet, OthersKeep

\* What the proofs below rest on: the parts of IInv hold whatever the two sides,
\* the relay and the user do.
THEOREM Inductive == Spec => []IInv
  <1>1. ASSUME IInv, [Next]_vars PROVE IInv'
    <2>1. CASE MacStep
      BY <1>1, <2>1, MacStepInvariant
    <2>2. CASE PhoneStep
      BY <1>1, <2>2, PhoneStepInvariant
    <2>3. CASE Disconnects
      BY <1>1, <2>3, DisconnectsKeeps
    <2>4. CASE Changes
      BY <1>1, <2>4, ChangesKeeps
    <2>5. CASE UNCHANGED vars
      BY <1>1, <2>5, StutterKeeps
    <2> QED BY <1>1, <2>1, <2>2, <2>3, <2>4, <2>5 DEF Next
  <1> QED BY <1>1, InitInv, PTL DEF Spec

\* Everything has its type, and no reorder buffer, response cache or window of
\* late responses outgrows its limit (relay.go, companion.go, Controller.swift).
THEOREM TypeCorrect == Spec => []TypeOK
  <1>1. IInv => TypeOK
    BY DEF IInv
  <1> QED BY <1>1, Inductive, PTL

LEMMA MacStepLeaves ==
  ASSUME MacStep
  PROVE  UNCHANGED <<phone, outcome>> /\ (Executes \/ Succeeds \/ UNCHANGED <<executed, done>>)
  BY DEF MacStep, log, Cut, Fails, Reconnects, MacReads, OpensChannel, ClosesChannel, Receives, IgnoresFrame,
         Refuses, AnswersHandshake, AcceptsHello, RejectsRequest, Executes, RejectsPacket, OpensPage,
         Succeeds, FailsCommand, SendsAnswers, Observes, ReportsPage

\* Most steps of the controller issue no command, report none and select no page.
LEMMA PhoneStepLeaves ==
  ASSUME IInv, PhoneStep
  PROVE  \/ SendsCommand \/ TakesResponse \/ Expires
         \/ Teardown /\ UNCHANGED <<executed, done>>
         \/ /\ phone'.issued = phone.issued /\ UNCHANGED <<executed, done, outcome>>
            /\ phone'.selected = phone.selected \/ SelectsPage
  <1>1. phone \in Phone
    BY Typed DEF IInv
  <1>2. phone.work # <<>> => /\ Took \in Phone /\ Took.selected = phone.selected /\ Took.issued = phone.issued
    BY TookIs
  <1>3. CASE Connects
    BY <1>1, <1>3 DEF Connects, Phone, log
  <1>4. CASE Leaves \/ RefusesPacket
    BY <1>4 DEF Leaves, RefusesPacket
  <1>5. CASE PhoneReads
    <2>1. PICK m \in toPhone : \E left \in Left(toPhone, m) :
            LearnsSession(m, left) \/ EndsSession(m) \/ ReceivesFrame(m, left) \/ IgnoresMessage(m, left)
      BY <1>5 DEF PhoneReads
    <2>2. PICK left \in Left(toPhone, m) :
            LearnsSession(m, left) \/ EndsSession(m) \/ ReceivesFrame(m, left) \/ IgnoresMessage(m, left)
      BY <2>1
    <2>3. CASE LearnsSession(m, left)
      BY <1>1, <2>3 DEF LearnsSession, Phone, log
    <2>4. CASE EndsSession(m)
      BY <2>4 DEF EndsSession, Drops
    <2>5. CASE ReceivesFrame(m, left)
      BY <1>1, <2>5 DEF ReceivesFrame, Drops, Phone, log
    <2>6. CASE IgnoresMessage(m, left)
      BY <2>6 DEF IgnoresMessage, log
    <2> QED BY <2>2, <2>3, <2>4, <2>5, <2>6
  <1>6. CASE FinishesHandshake
    BY <1>2, <1>6 DEF FinishesHandshake, Takes, Phone, log
  <1>7. CASE BecomesReady
    BY <1>2, <1>7 DEF BecomesReady, Takes, Phone, log
  <1>8. CASE SelectsPage
    BY <1>2, <1>8 DEF SelectsPage, Takes, Phone, log
  <1>9. CASE IgnoresLateResponse
    BY <1>2, <1>9 DEF IgnoresLateResponse, Takes, log
  <1> QED BY <1>3, <1>4, <1>5, <1>6, <1>7, <1>8, <1>9 DEF PhoneStep

\* A page that is selected anew is one that the packet taken tells of.
LEMMA SelectsOnlyTold ==
  ASSUME IInv, SelectsPage \/ TakesResponse
  PROVE  \/ phone'.selected = phone.selected
         \/ /\ phone.work # <<>> /\ Sealed /\ Tells(Head(phone.work).packet)
            /\ phone'.selected = Head(phone.work).packet.show
  <1> DEFINE h == Head(phone.work)
  <1>1. CASE SelectsPage
    <2>1. /\ phone.work # <<>> /\ Sealed /\ h.packet.kind = "event"
          /\ phone' = [Took EXCEPT !.selected = h.packet.show]
      BY <1>1 DEF SelectsPage, Takes
    <2>2. phone'.selected = h.packet.show
      BY <2>1, TookIs DEF Phone
    <2> QED BY <2>1, <2>2 DEF Tells
  <1>2. CASE TakesResponse
    <2>1. /\ phone.work # <<>> /\ phone.secured /\ h.key = phone.key /\ h.packet.kind = "response"
          /\ phone'.selected = phone.selected \/ (h.packet.ok /\ phone'.selected = h.packet.show)
      BY <1>2, TakesResponseIs
    <2> QED BY <2>1 DEF Sealed, Tells, Confirms
  <1> QED BY <1>1, <1>2

\* Once the controller shows a page, a later report of one that Resolve showed
\* before cannot replace it: neither an observation that was begun before a
\* command succeeded (lastPageCommandAt in companion.go), nor a frame of a
\* channel that has been replaced, nor one that arrives out of order.
THEOREM PagesInOrder == Spec => SelectedPageNeverGoesBack
  <1>1. ASSUME IInv, [Next]_vars
        PROVE  [phone'.selected.at >= phone.selected.at]_vars
    <2>1. phone.selected.at \in Nat /\ phone.selected.at >= phone.selected.at
      BY <1>1, TellsIs
    <2>2. CASE MacStep \/ Disconnects \/ Changes
      <3>1. phone' = phone
        BY <2>2, MacStepLeaves DEF Disconnects, Changes
      <3> QED BY <2>1, <3>1
    <2>3. CASE PhoneStep
      <3>1. CASE phone'.selected = phone.selected
        BY <2>1, <3>1
      <3>2. CASE SelectsPage \/ TakesResponse
        <4>1. CASE /\ phone.work # <<>> /\ Sealed /\ Tells(Head(phone.work).packet)
                   /\ phone'.selected = Head(phone.work).packet.show
          <5>1. /\ phone.selected.at <= Head(phone.work).packet.show.at
                /\ Head(phone.work).packet.show.at \in Nat
            <6>1. Head(phone.work) \in ToPhone
              BY <1>1, <4>1, Typed, HeadIs DEF IInv, ToPhone
            <6> QED BY <1>1, <4>1, <6>1, NextTells, TellsIs
          <5> QED BY <2>1, <4>1, <5>1
        <4> QED BY <1>1, <3>1, <3>2, <4>1, SelectsOnlyTold
      <3>3. CASE SendsCommand \/ Expires
        <4>1. phone'.selected = phone.selected
          <5>1. phone \in Phone
            BY <1>1, Typed DEF IInv
          <5> QED BY <3>3, <5>1 DEF SendsCommand, Expires, Phone
        <4> QED BY <2>1, <4>1
      <3>4. CASE Teardown
        BY <2>1, <3>4 DEF Teardown, Closed
      <3> QED BY <1>1, <2>3, <3>1, <3>2, <3>3, <3>4, PhoneStepLeaves
    <2>4. CASE UNCHANGED vars
      BY <2>4
    <2> QED BY <1>1, <2>2, <2>3, <2>4 DEF Next
  <1> QED BY <1>1, Inductive, PTL DEF Spec, SelectedPageNeverGoesBack

LEMMA LogInit ==
  ASSUME Init
  PROVE  Log!Init
  BY DEF Init, Closed, Log!Init, Command, Log!Command

LEMMA LogCommands == Log!Command = Command
  BY DEF Command, Log!Command

LEMMA ExecutesLogs ==
  ASSUME IInv, Executes
  PROVE  Log!Next
  <1> DEFINE c == Head(chan.work).packet.cmd
  <1>1. executed' = Append(executed, c) /\ UNCHANGED <<phone, done, outcome>>
    BY DEF Executes
  <1>2. /\ c \in Command /\ c \in 1 .. phone.issued
        /\ \A n \in 1 .. Len(executed) : executed[n] < c
    BY NextRequestIs
  <1>3. DOMAIN executed = 1 .. Len(executed) /\ phone.issued \in Nat
    <2>1. executed \in Seq(Command) /\ phone.issued \in 0 .. MaxCommands /\ MaxCommands \in Nat
      BY Typed DEF IInv
    <2> QED BY <2>1
  <1> HIDE DEF c
  <1>4. Log!Execute(c)
    BY <1>1, <1>2, <1>3 DEF Log!Execute
  <1> QED BY <1>2, <1>4, LogCommands DEF Log!Next

LEMMA SucceedsLogs ==
  ASSUME IInv, Succeeds
  PROVE  Log!Next
  <1> DEFINE c == chan.running
  <1>1. done' = done \cup {c} /\ c # 0 /\ UNCHANGED <<phone, executed, outcome>>
    BY DEF Succeeds
  <1>2. executed # <<>> /\ executed[Len(executed)] = c /\ c \notin done
    BY <1>1 DEF IInv, LogInv
  <1>3. c \in Command
    <2>1. executed \in Seq(Command)
      BY Typed DEF IInv
    <2>2. Len(executed) \in 1 .. Len(executed)
      BY <1>2, <2>1, EmptySeq, HeadIs
    <2> QED BY <1>2, <2>1, <2>2
  <1> HIDE DEF c
  <1>4. Log!Succeed(c)
    BY <1>1, <1>2 DEF Log!Succeed
  <1> QED BY <1>3, <1>4, LogCommands DEF Log!Next

LEMMA SendsCommandLogs ==
  ASSUME IInv, SendsCommand
  PROVE  Log!Next
  <1>1. /\ phone.cmd = 0 /\ phone.issued < MaxCommands /\ phone'.issued = phone.issued + 1
        /\ outcome' = [outcome EXCEPT ![phone.issued + 1] = "waiting"] /\ UNCHANGED <<executed, done>>
    BY SendsCommandIs
  <1>2. \A c \in Command : outcome[c] # "waiting"
    <2>1. 0 \notin Command
      BY DEF Command
    <2> QED BY <1>1, <2>1, PhoneQuiet
  <1> QED BY <1>1, <1>2, LogCommands DEF Log!Next, Log!Issue

LEMMA ReportLogs ==
  ASSUME NEW c \in Command, NEW what \in {"succeeded", "failed", "expired", "lost"},
         outcome[c] = "waiting", what = "succeeded" => c \in done,
         outcome' = [outcome EXCEPT ![c] = what], phone'.issued = phone.issued, UNCHANGED <<executed, done>>
  PROVE  Log!Next
  <1>1. Log!Report(c, what)
    BY DEF Log!Report
  <1> QED BY <1>1, LogCommands DEF Log!Next

LEMMA TakesResponseLogs ==
  ASSUME IInv, TakesResponse
  PROVE  Log!Next
  <1> DEFINE h == Head(phone.work)
  <1>1. /\ phone.work # <<>> /\ phone.cmd # 0 /\ phone'.cmd = 0 /\ TakesIt
        /\ h.packet.kind = "response" /\ h.packet.cmd = phone.cmd
        /\ UNCHANGED <<executed, done>>
    BY TakesResponseIs
  <1>2. PICK what \in {"succeeded", "failed", "expired"} :
          outcome' = [outcome EXCEPT ![phone.cmd] = what] /\ (what = "succeeded" => h.packet.ok)
    BY TakesResponseIs
  <1>3. phone.cmd \in Command /\ outcome[phone.cmd] = "waiting"
    BY <1>1, <1>2, CommandEnds
  <1>4. h.packet.ok => phone.cmd \in done
    <2>1. h \in ToPhone
      BY <1>1, Typed, HeadIs DEF IInv, ToPhone
    <2> QED BY <1>1, <2>1 DEF IInv, SuccessInv, Confirms
  <1>5. phone'.issued = phone.issued
    BY <1>1, TookIs DEF TakesIt
  <1> QED BY <1>1, <1>2, <1>3, <1>4, <1>5, ReportLogs

LEMMA ExpiresLogs ==
  ASSUME IInv, Expires
  PROVE  Log!Next
  <1>1. /\ phone.cmd # 0 /\ phone'.cmd = 0 /\ phone'.issued = phone.issued
        /\ outcome' = [outcome EXCEPT ![phone.cmd] = "expired"] /\ UNCHANGED <<executed, done>>
    <2>1. phone \in Phone
      BY Typed DEF IInv
    <2> QED BY <2>1 DEF Expires, Phone
  <1>2. phone.cmd \in Command /\ outcome[phone.cmd] = "waiting"
    BY <1>1, CommandEnds
  <1> QED BY <1>1, <1>2, ReportLogs

LEMMA TeardownLogs ==
  ASSUME IInv, Teardown, UNCHANGED <<executed, done>>
  PROVE  Log!Next \/ UNCHANGED Log!vars
  <1>1. phone'.issued = phone.issued
    BY DEF Teardown, Closed
  <1>2. /\ outcome \in [Command -> {"none", "waiting", "succeeded", "failed", "expired", "lost"}]
        /\ \A c \in Command : outcome[c] = "waiting" <=> c = phone.cmd
    BY PhoneQuiet
  <1>3. outcome' = [c \in Command |-> IF outcome[c] = "waiting" THEN "lost" ELSE outcome[c]]
    BY DEF Teardown
  <1>4. CASE phone.cmd \in Command
    <2>1. outcome' = [outcome EXCEPT ![phone.cmd] = "lost"] /\ outcome[phone.cmd] = "waiting"
      BY <1>2, <1>3, <1>4
    <2> QED BY <1>1, <1>4, <2>1, ReportLogs
  <1>5. CASE phone.cmd \notin Command
    <2>1. outcome' = outcome
      BY <1>2, <1>3, <1>5
    <2> QED BY <1>1, <2>1 DEF Log!vars
  <1> QED BY <1>4, <1>5

\* Every step is one of CommandLog, or changes nothing that CommandLog sees.
LEMMA LogStep ==
  ASSUME IInv, [Next]_vars
  PROVE  [Log!Next]_(Log!vars)
  <1>1. CASE MacStep
    <2>1. CASE Executes
      BY <2>1, ExecutesLogs
    <2>2. CASE Succeeds
      BY <2>2, SucceedsLogs
    <2>3. CASE UNCHANGED <<phone, outcome, executed, done>>
      BY <2>3 DEF Log!vars
    <2> QED BY <1>1, <2>1, <2>2, <2>3, MacStepLeaves
  <1>2. CASE PhoneStep
    <2>1. CASE SendsCommand
      BY <2>1, SendsCommandLogs
    <2>2. CASE TakesResponse
      BY <2>2, TakesResponseLogs
    <2>3. CASE Expires
      BY <2>3, ExpiresLogs
    <2>4. CASE Teardown /\ UNCHANGED <<executed, done>>
      BY <2>4, TeardownLogs
    <2>5. CASE phone'.issued = phone.issued /\ UNCHANGED <<executed, done, outcome>>
      BY <2>5 DEF Log!vars
    <2> QED BY <1>2, <2>1, <2>2, <2>3, <2>4, <2>5, PhoneStepLeaves
  <1>3. CASE Disconnects \/ Changes
    BY <1>3 DEF Disconnects, Changes, log, Log!vars
  <1>4. CASE UNCHANGED vars
    BY <1>4 DEF vars, Log!vars
  <1> QED BY <1>1, <1>2, <1>3, <1>4 DEF Next

\* The channel implements CommandLog: a command that the user sees under way is
\* executed at most once and in its turn, whatever frames the relay repeats,
\* reorders or loses and however often the session is replaced, and none that
\* did not succeed is reported as if it had (controlProcessor.handle and
\* lateResponses of ControllerModel).
THEOREM Implements == Spec => ImplementsCommandLog
  <1>1. Init => Log!Init
    BY LogInit
  <1>2. IInv /\ [Next]_vars => [Log!Next]_(Log!vars)
    BY LogStep
  <1> QED BY <1>1, <1>2, Inductive, PTL DEF Spec, ImplementsCommandLog, Log!Spec

\* What that means for the one who uses the controller: each command, of which
\* the later has the higher number, was executed once at most, and none that was
\* reported as successful has failed or was never executed.
ExecutedInOrder == \A j, k \in 1 .. Len(executed) : j < k => executed[j] < executed[k]
ReportsTrue == \A c \in Command : outcome[c] = "succeeded" => c \in done /\ c \in Elements(executed)
HonestLog == ExecutedInOrder /\ ReportsTrue

LEMMA LogIsHonest ==
  ASSUME executed \in Seq(Command), outcome \in [Command -> {"none", "waiting", "succeeded", "failed", "expired", "lost"}],
         done' \subseteq Elements(executed'), [Log!Next]_(Log!vars), HonestLog
  PROVE  HonestLog'
  <1>1. CASE Log!Issue
    <2>1. /\ outcome' = [outcome EXCEPT ![phone.issued + 1] = "waiting"] /\ UNCHANGED <<executed, done>>
      BY <1>1 DEF Log!Issue
    <2>2. \A c \in Command : outcome'[c] = "succeeded" => outcome[c] = "succeeded"
      BY <2>1
    <2> QED BY <2>1, <2>2 DEF HonestLog, ExecutedInOrder, ReportsTrue
  <1>2. ASSUME NEW c \in Command, Log!Execute(c) PROVE HonestLog'
    <2>1. /\ executed' = Append(executed, c) /\ \A k \in 1 .. Len(executed) : executed[k] < c
          /\ UNCHANGED <<done, outcome>>
      BY <1>2 DEF Log!Execute
    <2>2. /\ Len(executed') = Len(executed) + 1 /\ Len(executed) \in Nat /\ executed'[Len(executed) + 1] = c
          /\ \A n \in 1 .. Len(executed) : executed'[n] = executed[n]
      BY <2>1, AppendProperties
    <2>3. ExecutedInOrder'
      <3> SUFFICES ASSUME NEW j \in 1 .. Len(executed'), NEW k \in 1 .. Len(executed'), j < k
                   PROVE  executed'[j] < executed'[k]
        BY DEF ExecutedInOrder
      <3>1. j \in 1 .. Len(executed) /\ (k \in 1 .. Len(executed) \/ k = Len(executed) + 1)
        BY <2>2
      <3> QED BY <2>1, <2>2, <3>1 DEF HonestLog, ExecutedInOrder
    <2>4. ReportsTrue'
      BY <2>1 DEF HonestLog, ReportsTrue
    <2> QED BY <2>3, <2>4 DEF HonestLog
  <1>3. ASSUME NEW c \in Command, Log!Succeed(c) PROVE HonestLog'
    BY <1>3 DEF Log!Succeed, HonestLog, ExecutedInOrder, ReportsTrue
  <1>4. ASSUME NEW c \in Command, NEW what, Log!Report(c, what) PROVE HonestLog'
    <2>1. /\ what = "succeeded" => c \in done
          /\ outcome' = [outcome EXCEPT ![c] = what] /\ UNCHANGED <<executed, done>>
      BY <1>4 DEF Log!Report
    <2>2. \A e \in Command : outcome'[e] = "succeeded" => outcome[e] = "succeeded" \/ e \in done
      BY <2>1
    <2> QED BY <2>1, <2>2 DEF HonestLog, ExecutedInOrder, ReportsTrue
  <1>5. CASE UNCHANGED Log!vars
    BY <1>5 DEF Log!vars, HonestLog, ExecutedInOrder, ReportsTrue
  <1> QED BY <1>1, <1>2, <1>3, <1>4, <1>5, LogCommands DEF Log!Next

\* A command that the user gave is executed once at most, in the order given,
\* and what the controller reports as done was done.
THEOREM HonestlyReported == Spec => []HonestLog
  <1>1. Init => HonestLog
    BY DEF Init, HonestLog, ExecutedInOrder, ReportsTrue
  <1>2. ASSUME IInv, IInv', [Next]_vars, HonestLog PROVE HonestLog'
    <2>1. /\ executed \in Seq(Command)
          /\ outcome \in [Command -> {"none", "waiting", "succeeded", "failed", "expired", "lost"}]
          /\ done' \subseteq Elements(executed')
      BY <1>2, Quiet, PhoneQuiet DEF IInv, LogInv, Elements
    <2> QED BY <1>2, <2>1, LogStep, LogIsHonest
  <1> QED BY <1>1, <1>2, Inductive, PTL DEF Spec

=============================================================================
