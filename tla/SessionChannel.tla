---------------------------- MODULE SessionChannel ----------------------------
(***************************************************************************)
(* A session between a companion and its controller, and its replacement   *)
(* by the next one: frames through the relay, the Noise channel over them, *)
(* the commands they carry, and the pages of Resolve that are reported     *)
(* back.                                                                   *)
(*                                                                         *)
(* The companion is runRelayConnection and secureChannel (relay.go) with   *)
(* controlProcessor and the page monitor (companion.go), the controller    *)
(* ControllerModel (Controller.swift).  Every frame is forwarded by an     *)
(* invocation of its own: the relay reorders, loses and repeats them.  A   *)
(* message that is lost is one that nobody ever takes from its set.        *)
(***************************************************************************)
EXTENDS Integers, Sequences, FiniteSets

CONSTANTS
  Window,        \* MaxRelayReorderFrames
  MaxRequests,   \* size of the response cache
  LateWindow,    \* LateResponseWindow.maximumCount
  Pages,         \* the pages a command can select; Resolve has one more
  MaxSessions, MaxCommands, MaxChanges, MaxRepeats,   \* bounds of an instance
  Events         \* what may go wrong in this instance

Other == "photo"
None == "none"
Command == 1 .. MaxCommands

ASSUME SessionChannelAssumption ==
  /\ {Window, MaxRequests, LateWindow, MaxSessions, MaxCommands, MaxChanges, MaxRepeats} \subseteq Nat
  /\ Other \notin Pages /\ None \notin Pages /\ Events \subseteq STRING

VARIABLES
  relay,         \* the session the relay holds, or 0
  opened,        \* sessions opened so far
  toMac, toPhone,  \* messages an invocation has still to post, or the socket to deliver
  mac,           \* the companion's connection and channel
  monitor,       \* its page monitor
  phone,         \* the controller's connection
  resolve,       \* the page Resolve shows, and how often that has changed
  repeated,      \* posts that were repeated
  executed, done, outcome   \* what became of each command

vars == <<relay, opened, repeated, toMac, toPhone, mac, monitor, phone, resolve,
          executed, done, outcome>>
log == <<executed, done, outcome>>

-----------------------------------------------------------------------------
(***************************************************************************)
(* Messages.  A frame is sealed with the key of the channel it was sent    *)
(* over; key 0 is the first message of the handshake.                      *)
(***************************************************************************)
Shown == [page: Pages \cup {Other, None}, at: Nat]
Nowhere == [page |-> None, at |-> 0]

Kinds == {"message1", "message2", "hello", "request", "response", "event"}
Packet == [kind: Kinds, cmd: Nat, ok: BOOLEAN, show: Shown]
Plain(kind) == [kind |-> kind, cmd |-> 0, ok |-> TRUE, show |-> Nowhere]
Request(c, p) == [Plain("request") EXCEPT !.cmd = c, !.show = [page |-> p, at |-> 0]]
Response(c, ok, show) == [kind |-> "response", cmd |-> c, ok |-> ok, show |-> show]
PageEvent(show) == [Plain("event") EXCEPT !.show = show]

Message == [type: {"opened", "closed", "frame", "error"}, sid: Nat, seq: Nat, key: Nat, packet: Packet]
Notice(type, s) == [type |-> type, sid |-> s, seq |-> 0, key |-> 0, packet |-> Plain("message1")]
Frame(s, q, k, p) == [type |-> "frame", sid |-> s, seq |-> q, key |-> k, packet |-> p]

\* The frames for packets ps, the first of which has sequence number q.
Frames(s, q, k, ps) == {Frame(s, q + n - 1, k, ps[n]) : n \in DOMAIN ps}

\* The longest run of frames in pending from sequence number q on.
RunLength(pending, q) ==
  CHOOSE n \in 0 .. Cardinality(pending) :
    /\ \A j \in 0 .. n - 1 : \E f \in pending : f.seq = q + j
    /\ ~\E f \in pending : f.seq = q + n
Run(pending, q) ==
  [j \in 1 .. RunLength(pending, q) |-> CHOOSE f \in pending : f.seq = q + j - 1]

\* The checks both receivers make of a sequence number before they buffer it.
OutOfWindow(pending, expected, q) ==
  \/ q < expected \/ q - expected > Window
  \/ \E f \in pending : f.seq = q
  \/ q > expected /\ Cardinality(pending) >= Window

-----------------------------------------------------------------------------
(***************************************************************************)
(* State of both sides.                                                    *)
(***************************************************************************)
\* gen: number of the channel, of every one the companion made; work, out: the
\* packets in order that are still to be handled, the answers still to be sent;
\* running: the command under execution; last: lastResolvePage; seen: the state
\* of Resolve in the last observation that was handled.
NoChannel == [sid |-> 0, secured |-> FALSE, hello |-> FALSE, expected |-> 1, nextOut |-> 1,
              pending |-> {}, busy |-> FALSE, work |-> <<>>, out |-> <<>>, running |-> 0,
              result |-> Nowhere, cache |-> {}, last |-> None, seen |-> -1]
Channel == [sid: 0 .. MaxSessions, secured: BOOLEAN, hello: BOOLEAN, expected: Nat, nextOut: Nat,
            pending: SUBSET Message, busy: BOOLEAN, work: Seq(Message), out: Seq(Packet),
            running: Nat, result: Shown, cache: SUBSET Packet, last: Pages \cup {Other, None},
            seen: Int]
Mac == [up: BOOLEAN, gen: Nat, chan: Channel]

Monitor == [step: {"off", "on", "read"}, show: Shown, stale: BOOLEAN]
MonitorOff == [step |-> "off", show |-> Nowhere, stale |-> FALSE]

\* open: the session its socket was opened for; sid, key: the session and the
\* channel it knows; ready: isReady; cmd: pendingCommand; late: lateResponses.
\* What it keeps without a connection: the page that is selected, the commands issued.
Closed(selected, issued) ==
  [open |-> 0, sid |-> 0, key |-> 0, secured |-> FALSE, ready |-> FALSE, expected |-> 1,
   nextOut |-> 1, pending |-> {}, work |-> <<>>, cmd |-> 0, late |-> <<>>,
   selected |-> selected, issued |-> issued]
Phone == [open: 0 .. MaxSessions, sid: 0 .. MaxSessions, key: Nat, secured: BOOLEAN, ready: BOOLEAN,
          expected: Nat, nextOut: Nat, pending: SUBSET Message, work: Seq(Message),
          cmd: 0 .. MaxCommands, late: Seq(Command), selected: Shown, issued: 0 .. MaxCommands]

chan == mac.chan

\* Everything has its type, and no buffer, cache or window outgrows its limit.
TypeOK ==
  /\ relay \in 0 .. MaxSessions /\ opened \in 0 .. MaxSessions /\ repeated \in 0 .. MaxRepeats
  /\ toMac \subseteq Message /\ toPhone \subseteq Message
  /\ mac \in Mac /\ monitor \in Monitor
  /\ phone \in Phone
  /\ resolve \in Shown
  /\ executed \in Seq(Command) /\ done \subseteq Command
  /\ outcome \in [Command -> {"none", "waiting", "succeeded", "failed", "expired", "lost"}]
  /\ \A pending \in {chan.pending, phone.pending} : Cardinality(pending) <= Window
  /\ Cardinality(chan.cache) <= MaxRequests /\ Len(phone.late) <= LateWindow

Init ==
  /\ relay = 0 /\ opened = 0 /\ repeated = 0 /\ toMac = {} /\ toPhone = {}
  /\ mac = [up |-> TRUE, gen |-> 0, chan |-> NoChannel] /\ monitor = MonitorOff
  /\ phone = Closed(Nowhere, 0)
  /\ \E p \in Pages \cup {Other} : resolve = [page |-> p, at |-> 0]
  /\ executed = <<>> /\ done = {}
  /\ outcome = [c \in Command |-> "none"]

-----------------------------------------------------------------------------
(***************************************************************************)
(* The relay, as RelayStore models it: one session at a time, frames for   *)
(* another are refused.                                                    *)
(***************************************************************************)
\* The relay tells the controller that its session has ended.
EndSession(left) ==
  /\ relay' = 0
  /\ toPhone' = toPhone \cup (IF relay # 0 THEN {Notice("closed", relay)} ELSE {})
  /\ toMac' = left

\* What is left once m has been delivered: a post whose answer was lost is made again.
Left(messages, m) == {messages \ {m}} \cup (IF repeated < MaxRepeats THEN {messages} ELSE {})

\* The controller's $disconnect closes its session.
Disconnects ==
  /\ relay # 0 /\ phone.open # relay
  /\ relay' = 0 /\ toMac' = toMac \cup {Notice("closed", relay)}
  /\ UNCHANGED <<opened, repeated, toPhone, mac, monitor, phone, resolve, log>>

-----------------------------------------------------------------------------
(***************************************************************************)
(* The companion's connection.                                             *)
(***************************************************************************)
\* Any error ends the connection, and with it channel, monitor and session.
Fails ==
  /\ mac' = [mac EXCEPT !.up = FALSE, !.chan = NoChannel] /\ monitor' = MonitorOff
  /\ EndSession({})
  /\ UNCHANGED <<opened, repeated, phone, resolve, log>>

Cut == "cut" \in Events /\ mac.up /\ Fails

\* RunRelay connects again.
Reconnects ==
  /\ ~mac.up
  /\ mac' = [mac EXCEPT !.up = TRUE]
  /\ UNCHANGED <<relay, opened, repeated, toMac, toPhone, monitor, phone, resolve, log>>

\* Packets are sealed and sent in one go; the relay refuses a frame of a session
\* that it no longer holds, with an error.
Sends(left, packets) ==
  IF relay = chan.sid \/ packets = <<>>
  THEN toPhone' = toPhone \cup Frames(chan.sid, chan.nextOut, mac.gen, packets) /\ toMac' = left
  ELSE toMac' = left \cup {Notice("error", chan.sid)} /\ UNCHANGED toPhone

\* session.opened: a new channel, whatever session the last one was for.  The
\* relay posts it to the controller next.
OpensChannel(m, left) ==
  /\ m.type = "opened"
  /\ mac' = [mac EXCEPT !.gen = @ + 1, !.chan = [NoChannel EXCEPT !.sid = m.sid]]
  /\ monitor' = MonitorOff
  /\ toMac' = left
  /\ toPhone' = IF phone.open = m.sid THEN toPhone \cup {Notice("opened", m.sid)} ELSE toPhone
  /\ UNCHANGED <<relay, opened, phone, resolve, log>>

ClosesChannel(m, left) ==
  /\ m.type = "closed"
  /\ IF m.sid = chan.sid
     THEN mac' = [mac EXCEPT !.chan = NoChannel] /\ monitor' = MonitorOff
     ELSE UNCHANGED <<mac, monitor>>
  /\ toMac' = left
  /\ UNCHANGED <<relay, opened, toPhone, phone, resolve, log>>

\* secureChannel.receive: what is in order is handled, with all that waited for
\* it, what is early waits.
Receives(m, left) ==
  /\ m.type = "frame" /\ m.sid = chan.sid /\ ~OutOfWindow(chan.pending, chan.expected, m.seq)
  /\ LET all == chan.pending \cup {m}
         run == Run(all, chan.expected)
     IN mac' = [mac EXCEPT
          !.chan.pending = all \ {run[j] : j \in DOMAIN run},
          !.chan.expected = @ + Len(run), !.chan.work = run, !.chan.busy = run # <<>>]
  /\ toMac' = left
  /\ UNCHANGED <<relay, opened, toPhone, monitor, phone, resolve, log>>

IgnoresFrame(m, left) ==
  /\ m.type = "frame" /\ m.sid # chan.sid
  /\ toMac' = left
  /\ UNCHANGED <<relay, opened, toPhone, mac, monitor, phone, resolve, log>>

Refuses(m) ==
  /\ \/ m.type = "error"
     \/ /\ m.type = "frame" /\ m.sid = chan.sid
        /\ OutOfWindow(chan.pending, chan.expected, m.seq)
  /\ Fails

MacReads ==
  /\ mac.up /\ ~chan.busy
  /\ \E m \in toMac : \E left \in Left(toMac, m) :
       /\ repeated' = repeated + (IF m \in left THEN 1 ELSE 0)
       /\ \/ OpensChannel(m, left) \/ ClosesChannel(m, left) \/ Receives(m, left)
          \/ IgnoresFrame(m, left) \/ Refuses(m)

-----------------------------------------------------------------------------
(***************************************************************************)
(* receivePacket and controlProcessor.handle: the next packet in order.    *)
(***************************************************************************)
Handles(kind) ==
  /\ chan.work # <<>> /\ chan.running = 0 /\ Head(chan.work).packet.kind = kind

\* Noise: the first packet is the handshake, what follows was sealed for this channel.
Opens == IF chan.secured THEN Head(chan.work).key = mac.gen ELSE Head(chan.work).packet.kind = "message1"

Continue(update) == mac' = [mac EXCEPT !.chan = [update EXCEPT !.work = Tail(@)]]

Responds(c, packet) ==
  [chan EXCEPT !.out = Append(@, packet), !.cache = @ \cup {packet}, !.running = 0, !.result = Nowhere]

AnswersHandshake ==
  /\ Handles("message1") /\ ~chan.secured
  /\ Continue([chan EXCEPT !.secured = TRUE, !.out = @ \o <<Plain("message2"), Plain("hello")>>])
  /\ UNCHANGED <<relay, opened, repeated, toMac, toPhone, monitor, phone, resolve, log>>

AcceptsHello ==
  /\ Handles("hello") /\ chan.secured /\ Opens /\ ~chan.hello
  /\ Continue([chan EXCEPT !.hello = TRUE])
  /\ UNCHANGED <<relay, opened, repeated, toMac, toPhone, monitor, phone, resolve, log>>

\* A request is never sent twice, and a frame that is repeated does not get here:
\* the answers kept for such requests only count.
Accepts ==
  /\ Handles("request") /\ chan.secured /\ Opens
  /\ Cardinality(chan.cache) < MaxRequests /\ chan.hello

\* A request that arrives after its deadline is answered as invalid.
RejectsRequest ==
  /\ Accepts
  /\ LET c == Head(chan.work).packet.cmd
     IN /\ "expire" \in Events
        /\ Continue(Responds(c, Response(c, FALSE, Nowhere)))
  /\ UNCHANGED <<relay, opened, repeated, toMac, toPhone, monitor, phone, resolve, log>>

Executes ==
  /\ Accepts
  /\ LET c == Head(chan.work).packet.cmd
     IN /\ mac' = [mac EXCEPT !.chan.running = c]
        /\ executed' = Append(executed, c)
  /\ UNCHANGED <<relay, opened, repeated, toMac, toPhone, monitor, phone, resolve, done, outcome>>

RejectsPacket ==
  /\ chan.work # <<>> /\ chan.running = 0
  /\ \/ ~Opens
     \/ chan.secured /\ \E k \in Kinds \ {"hello", "request"} : Handles(k)
     \/ Handles("hello") /\ chan.hello
     \/ Handles("request") /\ ~Accepts
  /\ Fails

-----------------------------------------------------------------------------
(***************************************************************************)
(* ExecuteOperation: Resolve is told to open the page and asked which it   *)
(* shows; a command that fails or runs into its deadline may have done so. *)
(***************************************************************************)
Target == Head(chan.work).packet.show.page
Show(p) == resolve' = IF p = resolve.page THEN resolve ELSE [page |-> p, at |-> resolve.at + 1]

OpensPage ==
  /\ chan.running # 0 /\ chan.result = Nowhere
  /\ Show(Target)
  /\ mac' = [mac EXCEPT !.chan.result = resolve']
  /\ UNCHANGED <<relay, opened, repeated, toMac, toPhone, monitor, phone, log>>

\* The readback confirms the page; observations begun before this are stale from here on.
Succeeds ==
  /\ chan.running # 0 /\ chan.result # Nowhere /\ resolve.page = Target
  /\ Continue(Responds(chan.running, Response(chan.running, TRUE, resolve)))
  /\ \E begun \in BOOLEAN :
       monitor' = [monitor EXCEPT !.stale = monitor.step = "read" \/ (begun /\ monitor.step = "on")]
  /\ done' = done \cup {chan.running}
  /\ UNCHANGED <<relay, opened, repeated, toMac, toPhone, phone, resolve, executed, outcome>>

\* Mutant: a failure is reported as a success.
BugFailsCommand ==
  /\ chan.running # 0
  /\ "expire" \in Events \/ (chan.result # Nowhere /\ resolve.page # Target)
  /\ Continue(Responds(chan.running, Response(chan.running, TRUE, Nowhere)))
  /\ UNCHANGED <<relay, opened, repeated, toMac, toPhone, monitor, phone, resolve, log>>

FailsCommand ==
  /\ chan.running # 0
  /\ "expire" \in Events \/ (chan.result # Nowhere /\ resolve.page # Target)
  /\ Continue(Responds(chan.running, Response(chan.running, FALSE, Nowhere)))
  /\ UNCHANGED <<relay, opened, repeated, toMac, toPhone, monitor, phone, resolve, log>>

\* Everything in order has been handled: the answers go out together, and once
\* the controller's hello was among it the monitor is started.
SendsAnswers ==
  /\ mac.up /\ chan.busy /\ chan.work = <<>>
  /\ Sends(toMac, chan.out)
  /\ mac' = [mac EXCEPT !.chan.busy = FALSE, !.chan.out = <<>>, !.chan.nextOut = @ + Len(chan.out)]
  /\ monitor' = IF chan.hello /\ monitor.step = "off" THEN [MonitorOff EXCEPT !.step = "on"] ELSE monitor
  /\ UNCHANGED <<relay, opened, repeated, phone, resolve, log>>

-----------------------------------------------------------------------------
(***************************************************************************)
(* Pages.                                                                  *)
(***************************************************************************)
Changes ==
  /\ "user" \in Events /\ resolve.at < MaxChanges
  /\ \E p \in (Pages \cup {Other}) \ {resolve.page} : Show(p)
  /\ UNCHANGED <<relay, opened, repeated, toMac, toPhone, mac, monitor, phone, log>>

\* The monitor takes the time, reads the page, and offers both; stale says that
\* a command succeeded since it took the time.
Observes ==
  /\ monitor.step = "on"
  /\ monitor' = [monitor EXCEPT !.step = "read", !.show = resolve]
  /\ UNCHANGED <<relay, opened, repeated, toMac, toPhone, mac, phone, resolve, log>>

\* Mutant: observations are not compared with the last page command.
BugStale == FALSE

\* pageChangedEvent.
Stale == monitor.stale
Unchanged == monitor.show.page = chan.last

ReportsPage ==
  /\ monitor.step = "read" /\ ~chan.busy /\ mac.up
  /\ monitor' = [MonitorOff EXCEPT !.step = "on"]
  /\ LET report == IF Stale \/ Unchanged \/ monitor.show.page = Other THEN <<>>
                   ELSE <<PageEvent(monitor.show)>>
     IN /\ mac' = [mac EXCEPT !.chan.last = IF Stale THEN @ ELSE monitor.show.page,
                              !.chan.seen = IF Stale THEN @ ELSE monitor.show.at,
                              !.chan.nextOut = @ + Len(report)]
        /\ Sends(toMac, report)
  /\ UNCHANGED <<relay, opened, repeated, phone, resolve, log>>

-----------------------------------------------------------------------------
(***************************************************************************)
(* The controller.                                                         *)
(***************************************************************************)
\* teardownConnection: a command under way is not repeated.
Teardown ==
  /\ phone' = Closed(phone.selected, phone.issued)
  /\ toPhone' = {}
  /\ outcome' = [c \in Command |-> IF outcome[c] = "waiting" THEN "lost" ELSE outcome[c]]

\* connectNow: a socket, and session.open, which ends the session before it.
Connects ==
  /\ phone.open = 0 /\ mac.up /\ opened < MaxSessions
  /\ opened' = opened + 1 /\ relay' = opened + 1
  /\ phone' = [phone EXCEPT !.open = opened + 1]
  /\ toMac' = toMac \cup {Notice("opened", opened + 1)}
                    \cup (IF relay # 0 THEN {Notice("closed", relay)} ELSE {})
  /\ UNCHANGED <<repeated, toPhone, mac, monitor, resolve, log>>

\* A rotation, a lost socket, a deadline, the user: the connection is closed.
Leaves ==
  /\ phone.open # 0 /\ opened < MaxSessions
  /\ Teardown
  /\ UNCHANGED <<relay, opened, repeated, toMac, mac, monitor, resolve, executed, done>>

Drops(m) ==
  /\ Teardown
  /\ UNCHANGED <<relay, opened, repeated, toMac, mac, monitor, resolve, executed, done>>

\* The relay forwards a frame only of the session it holds.
Posts(packet, from) ==
  toMac' = IF relay = from.sid
           THEN toMac \cup {Frame(from.sid, from.nextOut, from.key, packet)} ELSE toMac

LearnsSession(m, left) ==
  /\ m.type = "opened" /\ phone.sid \in {0, m.sid}
  /\ toPhone' = left
  /\ IF phone.sid = 0
     THEN /\ phone' = [phone EXCEPT !.sid = m.sid, !.nextOut = 2]
          /\ Posts(Plain("message1"), [phone EXCEPT !.sid = m.sid])
     ELSE UNCHANGED <<phone, toMac>>
  /\ UNCHANGED <<relay, opened, mac, monitor, resolve, log>>

EndsSession(m) == m.type = "closed" /\ m.sid = phone.sid /\ Drops(m)

ReceivesFrame(m, left) ==
  /\ m.type = "frame" /\ m.sid = phone.sid
  /\ IF OutOfWindow(phone.pending, phone.expected, m.seq) THEN Drops(m)
     ELSE LET all == phone.pending \cup {m}
              run == Run(all, phone.expected)
          IN /\ phone' = [phone EXCEPT !.pending = all \ {run[j] : j \in DOMAIN run},
                            !.expected = @ + Len(run), !.work = run]
             /\ toPhone' = left
             /\ UNCHANGED <<relay, opened, toMac, mac, monitor, resolve, log>>

IgnoresMessage(m, left) ==
  /\ m.type \in {"frame", "closed"} /\ m.sid # phone.sid
  /\ toPhone' = left
  /\ UNCHANGED <<relay, opened, toMac, mac, monitor, phone, resolve, log>>

PhoneReads ==
  /\ phone.open # 0 /\ phone.work = <<>>
  /\ \E m \in toPhone : \E left \in Left(toPhone, m) :
       /\ repeated' = repeated + (IF m \in left THEN 1 ELSE 0)
       /\ \/ LearnsSession(m, left) \/ EndsSession(m) \/ ReceivesFrame(m, left)
          \/ IgnoresMessage(m, left)

\* handleOrderedFrame and handleControl.
Takes(kind) == phone.work # <<>> /\ Head(phone.work).packet.kind = kind
Sealed == phone.secured /\ Head(phone.work).key = phone.key
Took == [phone EXCEPT !.work = Tail(@)]

FinishesHandshake ==
  /\ Takes("message2") /\ ~phone.secured
  /\ LET key == Head(phone.work).key
     IN /\ phone' = [Took EXCEPT !.secured = TRUE, !.key = key, !.nextOut = @ + 1]
        /\ Posts(Plain("hello"), [phone EXCEPT !.key = key])
  /\ UNCHANGED <<relay, opened, repeated, toPhone, mac, monitor, resolve, log>>

BecomesReady ==
  /\ Takes("hello") /\ Sealed /\ ~phone.ready
  /\ phone' = [Took EXCEPT !.ready = TRUE]
  /\ UNCHANGED <<relay, opened, repeated, toMac, toPhone, mac, monitor, resolve, log>>

SelectsPage ==
  /\ Takes("event") /\ Sealed /\ phone.ready
  /\ phone' = [Took EXCEPT !.selected = Head(phone.work).packet.show]
  /\ UNCHANGED <<relay, opened, repeated, toMac, toPhone, mac, monitor, resolve, log>>

\* Mutant: any response is taken for the one that is waited for.
BugAnswered(r) == TRUE

\* The response to the command under way; its deadline may have passed.
Answered(r) == r.cmd = phone.cmd

TakesResponse ==
  /\ Takes("response") /\ Sealed /\ phone.ready /\ phone.cmd # 0
  /\ LET r == Head(phone.work).packet
     IN /\ Answered(r)
        /\ \/ /\ phone' = [Took EXCEPT !.cmd = 0,
                                       !.selected = IF r.ok THEN r.show ELSE @]
              /\ outcome' = [outcome EXCEPT ![phone.cmd] = IF r.ok THEN "succeeded" ELSE "failed"]
           \/ /\ "expire" \in Events
              /\ phone' = [Took EXCEPT !.cmd = 0]
              /\ outcome' = [outcome EXCEPT ![phone.cmd] = "expired"]
  /\ UNCHANGED <<relay, opened, repeated, toMac, toPhone, mac, monitor, resolve, executed, done>>

Late(c) == \E k \in DOMAIN phone.late : phone.late[k] = c

IgnoresLateResponse ==
  /\ Takes("response") /\ Sealed /\ phone.ready
  /\ LET r == Head(phone.work).packet
     IN ~(phone.cmd # 0 /\ Answered(r)) /\ Late(r.cmd)
  /\ phone' = Took
  /\ UNCHANGED <<relay, opened, repeated, toMac, toPhone, mac, monitor, resolve, log>>

RefusesPacket ==
  /\ phone.work # <<>>
  /\ LET f == Head(phone.work)
     IN \/ ~phone.secured /\ f.packet.kind # "message2"
        \/ phone.secured /\ ~Sealed
        \/ Sealed /\ (f.packet.kind = "message2" \/ (phone.ready <=> f.packet.kind = "hello"))
        \/ /\ Sealed /\ phone.ready /\ Takes("response") /\ ~Late(f.packet.cmd)
           /\ ~(phone.cmd # 0 /\ Answered(f.packet))
  /\ Teardown
  /\ UNCHANGED <<relay, opened, repeated, toMac, mac, monitor, resolve, executed, done>>

\* sendCommand: one at a time, never queued.
SendsCommand ==
  /\ phone.ready /\ phone.cmd = 0 /\ phone.issued < MaxCommands /\ phone.work = <<>>
  /\ LET c == phone.issued + 1
     IN \E p \in Pages :
          /\ phone' = [phone EXCEPT !.cmd = c, !.issued = c, !.nextOut = @ + 1]
          /\ Posts(Request(c, p), phone)
          /\ outcome' = [outcome EXCEPT ![c] = "waiting"]
  /\ UNCHANGED <<relay, opened, repeated, toPhone, mac, monitor, resolve, executed, done>>

\* Mutant: the window of late responses is never trimmed.
BugExpires ==
  /\ "expire" \in Events /\ phone.cmd # 0
  /\ phone' = [phone EXCEPT !.cmd = 0, !.late = Append(@, phone.cmd)]
  /\ outcome' = [outcome EXCEPT ![phone.cmd] = "expired"]
  /\ UNCHANGED <<relay, opened, repeated, toMac, toPhone, mac, monitor, resolve, executed, done>>

\* expireCommand: a response to it that comes later is ignored, as long as it
\* is among the last commands that expired.
Expires ==
  /\ "expire" \in Events /\ phone.cmd # 0
  /\ LET late == Append(phone.late, phone.cmd)
     IN phone' = [phone EXCEPT !.cmd = 0,
                    !.late = IF Len(@) = LateWindow THEN Tail(late) ELSE late]
  /\ outcome' = [outcome EXCEPT ![phone.cmd] = "expired"]
  /\ UNCHANGED <<relay, opened, repeated, toMac, toPhone, mac, monitor, resolve, executed, done>>

-----------------------------------------------------------------------------
MacStep ==
  \/ Cut \/ Reconnects \/ MacReads
  \/ AnswersHandshake \/ AcceptsHello \/ RejectsRequest \/ Executes
  \/ RejectsPacket \/ OpensPage \/ Succeeds \/ FailsCommand \/ SendsAnswers
  \/ Observes \/ ReportsPage

PhoneStep ==
  \/ Connects \/ Leaves \/ PhoneReads \/ FinishesHandshake \/ BecomesReady \/ SelectsPage
  \/ TakesResponse \/ IgnoresLateResponse \/ RefusesPacket \/ SendsCommand \/ Expires

Next == MacStep \/ PhoneStep \/ Disconnects \/ Changes

Spec == Init /\ [][Next]_vars

-----------------------------------------------------------------------------
(***************************************************************************)
(* Properties.                                                             *)
(***************************************************************************)

\* The page the controller has selected never goes back to one that Resolve
\* showed before it: an observation begun before a command succeeded is not
\* reported after its response (lastPageCommandAt).
SelectedPageNeverGoesBack == [][phone'.selected.at >= phone.selected.at]_vars

\* Commands are executed at most once and in the order of their issue, over
\* replaced sessions, repeated frames and lost answers, and the controller
\* reports no success of one that did not succeed.
Log == INSTANCE CommandLog WITH issued <- phone.issued
ImplementsCommandLog == Log!Spec

\* The page the user chose last inside Resolve is the one the controller shows,
\* once the monitor has observed it and everything sent has arrived.
Settled ==
  /\ phone.ready /\ relay = phone.sid /\ relay = chan.sid
  /\ toMac = {} /\ toPhone = {} /\ phone.work = <<>> /\ phone.cmd = 0 /\ ~chan.busy
  /\ chan.seen = resolve.at
PageSettles == Settled /\ resolve.page \in Pages => phone.selected.page = resolve.page

=============================================================================
