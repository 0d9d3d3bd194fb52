------------------------------ MODULE InputLane ------------------------------
(***************************************************************************)
(* The whole real-time input lane: the viewer's InputState                 *)
(* (remote_core/src/workspace_input.rs, driven by the session actor of     *)
(* workspace_session.rs), a network that loses, repeats and reorders, and  *)
(* the host of module HostInput.                                           *)
(***************************************************************************)
EXTENDS HostInput, Integers

CONSTANTS
  Commands,   \* the control commands the user issues
  Life,       \* how long a grant can be used without a newer one (750 ms)
  MaxRequest  \* bound on binding requests

ASSUME LaneAssumption ==
  /\ Commands \subseteq {"switch", "activity", "unsubscribe", "close"}
  /\ Life \in Nat /\ MaxRequest \in Nat

VARIABLES
  slot,       \* InputState::slots
  reqNo,      \* InputState::next_request
  net         \* every message ever sent; any of them may arrive, at any time,
              \* any number of times, or never

laneVars == <<slot, reqNo, net>>
allVars == <<vars, laneVars>>

-----------------------------------------------------------------------------
(* Slot and Lease of the viewer. epoch 0: no lease; intent None: no        *)
(* frontend assertion. "touch", "pressed", "acked", "reset", "via" and     *)
(* "again" are history: the last time the user pressed, changed modifiers  *)
(* that stay down or refreshed, the last sequence number of this lease     *)
(* that pressed something, the last release it saw confirmed, the request  *)
(* counter when the slot was (re)opened, the request that was answered     *)
(* with this lease and whether the viewer sent input through this epoch    *)
(* before, dropped the lease and counts its packets from 1 again.          *)

None == 0 - 1
NoViewerLease ==
  [epoch |-> 0, hostAt |-> 0, received |-> 0, seq |-> 0, held |-> Empty,
   release |-> 0, intent |-> None, stalled |-> FALSE,
   touch |-> 0, pressed |-> 0, acked |-> 0, via |-> 0, again |-> FALSE]
Slot(rev) == [open |-> TRUE, enabled |-> TRUE, rev |-> rev, request |-> 0,
              reset |-> reqNo, lease |-> NoViewerLease]
NoSlot == [open |-> FALSE, enabled |-> FALSE, rev |-> 0, request |-> 0,
           reset |-> reqNo, lease |-> NoViewerLease]

HasLease(s) == s.open /\ s.lease.epoch # 0
Usable(s) == HasLease(s) /\ now <= s.lease.received + Life
\* Lease::expire_frontend.
FrontendDue(l) == l.intent # None /\ now >= l.intent + Hold
ExpireFrontend(l) ==
  IF FrontendDue(l)
  THEN [l EXCEPT !.held = Empty, !.intent = None, !.stalled = TRUE] ELSE l
\* Mutant: rounded up.
HostClockRounded(l) == l.hostAt + (now - l.received) + 1
\* The host clock as the viewer estimates it: never ahead of the host.
HostClock(l) == l.hostAt + (now - l.received)

Send(ms) == net' = net \cup ms
\* "rev" is history: the source the packet was meant for.
PacketMsg(v, l, created, body) ==
  [type |-> "input", v |-> v, rev |-> slot[v].rev,
   pkt |-> [epoch |-> l.epoch, seq |-> l.seq + 1, created |-> created,
            body |-> body]]

-----------------------------------------------------------------------------
(* The viewer.                                                             *)

HostSame == UNCHANGED vars
\* InputState::requests on the actor's input tick.
SendRequest(v) ==
  /\ slot[v].open /\ slot[v].enabled /\ reqNo < MaxRequest
  /\ reqNo' = reqNo + 1
  /\ slot' = [slot EXCEPT ![v].request = reqNo']
  /\ Send({[type |-> "request", v |-> v, rev |-> slot[v].rev,
            request |-> reqNo']})
  /\ HostSame

\* Mutant: any grant for this subscription will do.
AnswersAny(s, m) == s.open /\ s.enabled
Answers(s, m) == /\ s.open /\ s.enabled
                 /\ s.rev = m.rev /\ s.request = m.request
\* The viewer has sent input through this epoch.
Used(v, e) == \E m \in net : m.type = "input" /\ m.v = v /\ m.pkt.epoch = e
\* InputState::grant.
ReceiveGrant(v, m) ==
  LET s == slot[v]
      fresh == [NoViewerLease EXCEPT !.epoch = m.epoch, !.hostAt = m.host,
                                     !.received = now, !.via = m.request,
                                     !.again = Used(v, m.epoch)]
  IN
  /\ m \in net /\ m.type = "grant" /\ m.v = v
  /\ Answers(s, m)
  /\ slot' = [slot EXCEPT ![v].request = 0,
       ![v].lease = IF s.lease.epoch = m.epoch
                    THEN [@ EXCEPT !.hostAt = m.host, !.received = now]
                    ELSE fresh]
  /\ UNCHANGED <<reqNo, net>> /\ HostSame

\* InputState::seal for an event: the chord, the duplicate and the frontend
\* checks, then one packet.
SealEvent(v, ev) ==
  LET l     == ExpireFrontend(slot[v].lease)
      held  == EventHeld(l.held, ev, l.seq + 1)
      first == Down(l.held) = {} /\ Down(held) # {}
      body  == [kind |-> "event", ev |-> EventSent(ev, held)]
      presses == Down(held) \ Down(l.held) # {}
      asserts == presses \/ (SetsModifiers(ev) /\ Modifiers(held) # {})
  IN
  /\ Usable(slot[v]) /\ l.seq < MaxSeq
  /\ ChordKept(l, [kind |-> "event", ev |-> ev])
  /\ EventValid(l.held, ev)
  /\ slot' = [slot EXCEPT ![v].lease =
       [l EXCEPT !.seq = @ + 1, !.held = held,
                 !.intent = IF Down(held) = {} THEN None
                            ELSE IF first THEN now ELSE @,
                 !.stalled = IF first THEN FALSE ELSE @,
                 !.touch = IF asserts THEN now ELSE @,
                 !.pressed = IF presses THEN l.seq + 1 ELSE @]]
  /\ Send({PacketMsg(v, l, HostClock(l), body)})
  /\ UNCHANGED reqNo /\ HostSame

\* InputState::seal for ReleaseInput.
SealRelease(v) ==
  LET l == ExpireFrontend(slot[v].lease) IN
  /\ Usable(slot[v]) /\ l.seq < MaxSeq
  /\ slot' = [slot EXCEPT ![v].lease =
       [l EXCEPT !.seq = @ + 1, !.held = Empty, !.intent = None,
                 !.stalled = FALSE, !.release = l.seq + 1]]
  /\ Send({PacketMsg(v, l, HostClock(l), [kind |-> "release"])})
  /\ UNCHANGED reqNo /\ HostSame

\* Mutant: a snapshot is as young as its sending.
IntentAgeNone(l) == 0
IntentAge(l) ==
  IF Down(l.held) = {} \/ l.intent = None THEN 0 ELSE now - l.intent
\* InputState::snapshots on the actor's input tick: an unusable lease is
\* dropped, a live one sends its table, aged by the frontend's silence.
SendSnapshot(v) ==
  LET l   == ExpireFrontend(slot[v].lease)
      age == IntentAge(l)
      est == IF HostClock(l) < age THEN 0 ELSE HostClock(l) - age
  IN
  /\ Usable(slot[v]) /\ l.seq < MaxSeq
  /\ slot' = [slot EXCEPT ![v].lease = [l EXCEPT !.seq = @ + 1]]
  /\ Send({PacketMsg(v, l, est, [kind |-> "held", snap |-> l.held])})
  /\ UNCHANGED reqNo /\ HostSame
DropLease(v) ==
  /\ HasLease(slot[v]) /\ ~Usable(slot[v])
  /\ slot' = [slot EXCEPT ![v].lease = NoViewerLease]
  /\ UNCHANGED <<reqNo, net>> /\ HostSame

\* InputState::refresh_bound, called by a responsive frontend.
Refresh(v) ==
  LET l == ExpireFrontend(slot[v].lease) IN
  /\ Usable(slot[v])
  /\ slot' = [slot EXCEPT ![v].lease =
       IF l.stalled \/ Down(l.held) = {} THEN l
       ELSE [l EXCEPT !.intent = now, !.touch = now]]
  /\ UNCHANGED <<reqNo, net>> /\ HostSame

\* InputState::release_ack.
ReceiveAck(v, m) ==
  /\ m \in net /\ m.type = "ack" /\ m.v = v
  /\ HasLease(slot[v]) /\ slot[v].lease.epoch = m.epoch
  /\ slot[v].lease.release = m.seq
  /\ slot' = [slot EXCEPT ![v].lease.release = 0, ![v].lease.acked = m.seq]
  /\ UNCHANGED <<reqNo, net>> /\ HostSame

\* InputState::seal for the commands that change or end a slot.
SealSwitch(v) ==
  /\ "switch" \in Commands /\ slot[v].open /\ slot[v].rev < MaxRev
  /\ slot' = [slot EXCEPT ![v] = Slot(slot[v].rev + 1)]
  /\ Send({[type |-> "switch", v |-> v, rev |-> slot[v].rev + 1]})
  /\ UNCHANGED reqNo /\ HostSame
SealActivity(v, rev, video) ==
  /\ "activity" \in Commands /\ slot[v].open
  /\ \A m \in net : m.type = "activity" /\ m.v = v => m.rev < rev
  /\ slot' = [slot EXCEPT ![v] =
       IF video THEN [@ EXCEPT !.enabled = TRUE]
       ELSE [@ EXCEPT !.enabled = FALSE, !.lease = NoViewerLease,
                      !.request = 0, !.reset = reqNo]]
  /\ Send({[type |-> "activity", v |-> v, rev |-> rev, video |-> video]})
  /\ UNCHANGED reqNo /\ HostSame
SealUnsubscribe(v) ==
  /\ "unsubscribe" \in Commands /\ slot[v].open
  /\ slot' = [slot EXCEPT ![v] = NoSlot]
  /\ Send({[type |-> "unsubscribe", v |-> v]})
  /\ UNCHANGED reqNo /\ HostSame
SealClose(a) ==
  /\ "close" \in Commands /\ \E v \in Viewer : v[1] = a /\ slot[v].open
  /\ slot' = [v \in Viewer |-> IF v[1] = a THEN NoSlot ELSE slot[v]]
  /\ Send({[type |-> "close", a |-> a]})
  /\ UNCHANGED reqNo /\ HostSame

ViewerStep(v) ==
  \/ SendRequest(v) \/ SealRelease(v) \/ SendSnapshot(v) \/ DropLease(v)
  \/ Refresh(v) \/ SealSwitch(v) \/ SealUnsubscribe(v)
  \/ \E ev \in Inputs : SealEvent(v, ev)
  \/ \E m \in net : ReceiveGrant(v, m) \/ ReceiveAck(v, m)
  \/ \E rev \in 1..MaxRev, video \in BOOLEAN : SealActivity(v, rev, video)

-----------------------------------------------------------------------------
(* The host, with its messages.                                            *)

ViewerSame == UNCHANGED <<slot, reqNo>>
HostReceivesRequest(m) ==
  /\ m.type = "request" /\ RequestBinding(m.v, m.rev)
  /\ Send({[type |-> "grant", v |-> m.v, epoch |-> lease'[m.v].epoch,
            rev |-> m.rev, request |-> m.request, host |-> now]})
  /\ ViewerSame
\* Mutant: the release is acknowledged before it is injected.
AcksEarly(v, pkt) == IF pkt.body.kind = "release"
                     THEN {[type |-> "ack", v |-> v, epoch |-> pkt.epoch,
                            seq |-> pkt.seq]}
                     ELSE {}
\* InputHandled is sent at the end of dispatch_realtime_input.
Acks(v, pkt) == IF job' = Idle /\ pkt.body.kind = "release"
                THEN {[type |-> "ack", v |-> v, epoch |-> pkt.epoch,
                       seq |-> pkt.seq]}
                ELSE {}
HostReceivesInput(m) ==
  /\ m.type = "input"
  /\ \/ DispatchConsumed(m.v, m.pkt) /\ UNCHANGED net
     \/ DispatchReleaseFails(m.v, m.pkt) /\ UNCHANGED net
     \/ Dispatch(m.v, m.pkt) /\ Send(Acks(m.v, m.pkt))
  /\ ViewerSame
HostReceivesControl(m) ==
  /\ \/ m.type = "switch" /\ SwitchSource(m.v, m.rev)
     \/ m.type = "activity" /\ SetActivity(m.v, m.rev, m.video)
     \/ m.type = "unsubscribe" /\ Unsubscribe(m.v)
     \/ m.type = "close" /\ CloseConnection(m.a)
  /\ UNCHANGED net /\ ViewerSame
HostInjects == Inject /\ Send(Acks(job.v, job.pkt)) /\ ViewerSame
HostElse ==
  /\ \/ InjectDenied \/ TakeOver \/ TakeOverFails \/ InjectLate \/ InjectFails
     \/ ControlSucceeds \/ ControlFails \/ UnsubscribeEnds \/ ControlDeadline
     \/ HostTime
     \/ \E v \in Viewer : CaptureEnds(v) \/ PermissionFlips(v)
  /\ UNCHANGED net /\ ViewerSame

\* Every peer is connected and subscribed to its first source.
LaneInit ==
  /\ now = 0 /\ watchAt = 0 /\ nextEpoch = 1
  /\ sub = [v \in Viewer |-> [NoSub EXCEPT !.st = "live", !.able = TRUE]]
  /\ lease = [v \in Viewer |-> NoLease]
  /\ active = [peer |-> Nobody, epoch |-> 0, due |-> 0, native |-> {},
               stamp |-> 0, revoked |-> {}]
  /\ job = Idle /\ ran = {}
  /\ reqNo = 0 /\ net = {}
  /\ slot = [v \in Viewer |-> Slot(0)]

LaneNext ==
  \/ \E v \in Viewer : ViewerStep(v)
  \/ \E a \in Addr : SealClose(a)
  \/ \E m \in net : HostReceivesRequest(m) \/ HostReceivesInput(m)
                    \/ HostReceivesControl(m)
  \/ HostInjects \/ HostElse

LaneSpec == LaneInit /\ [][LaneNext]_allVars

-----------------------------------------------------------------------------
ViewerLeases ==
  [epoch : Nat, hostAt : Nat, received : Nat, seq : Nat, held : Held,
   release : Nat, intent : Nat \cup {None}, stalled : BOOLEAN,
   touch : Nat, pressed : Nat, acked : Nat, via : Nat, again : BOOLEAN]
Slots == [open : BOOLEAN, enabled : BOOLEAN, rev : 0..MaxRev, request : Nat,
          reset : Nat, lease : ViewerLeases]
Grants == [type : {"grant"}, v : Viewer, epoch : Nat, rev : 0..MaxRev,
           request : Nat \ {0}, host : Nat]
InputMsgs == [type : {"input"}, v : Viewer, rev : 0..MaxRev, pkt : Packets]
AckMsgs == [type : {"ack"}, v : Viewer, epoch : Nat, seq : Nat]
Controls == [type : {"request"}, v : Viewer, rev : 0..MaxRev, request : Nat \ {0}]
              \cup [type : {"switch"}, v : Viewer, rev : 1..MaxRev]
              \cup [type : {"activity"}, v : Viewer, rev : 1..MaxRev, video : BOOLEAN]
              \cup [type : {"unsubscribe"}, v : Viewer]
              \cup [type : {"close"}, a : Addr]
LaneTypeOK ==
  /\ TypeOK
  /\ slot \in [Viewer -> Slots] /\ reqNo \in Nat
  /\ net \subseteq Grants \cup InputMsgs \cup AckMsgs \cup Controls

\* A dead frontend lets go: a press this lease put down on the host is up
\* again one hold timeout (and one watchdog period or packet) after the user's
\* last press, modifier change or frontend refresh, although grants, snapshots
\* and motion keep flowing ("The actor must not stamp cached UI intent with a
\* newer time").
DeadManBound ==
  \A v \in Viewer :
    LET l == slot[v].lease IN
    /\ active.native # {} /\ active.peer = v
    /\ HasLease(slot[v]) /\ l.epoch = active.epoch /\ ~l.again
    => now < l.touch + Hold + (IF Watch < MaxBusy THEN MaxBusy ELSE Watch)

\* The viewer's clock estimate never runs ahead of the host, so a packet is
\* never younger than it claims (created_host_ms, "biased older").
NeverAhead == \A m \in net : m.type = "input" => m.pkt.created <= now

\* A confirmed release is true: once the viewer has seen InputHandled for its
\* release and pressed nothing since, nothing of its lease is down on the host
\* and no packet still in flight can press it. (A viewer that dropped a lease
\* and was granted the same epoch again numbers its packets from 1 again, and
\* may take the late confirmation of an earlier release for its own.)
ReleaseConfirmed ==
  \A v \in Viewer :
    LET l == slot[v].lease IN
    /\ HasLease(slot[v]) /\ ~l.again /\ l.acked > l.pressed
    /\ active.peer = v /\ active.epoch = l.epoch
    => active.native = {}

\* Everything the host holds down for a lease was pressed by the viewer through
\* that lease: the claimed sequence number is the number of a packet it sent.
HostHoldsWhatWasSent ==
  \A v \in Viewer : \A p \in Down(lease[v].held) :
    \E m \in net : m.type = "input" /\ m.v = v
      /\ m.pkt.epoch = lease[v].epoch /\ m.pkt.seq = lease[v].held[p]
      /\ m.pkt.body.kind = "event"
      /\ \/ m.pkt.body.ev.kind = "mods" /\ p \in m.pkt.body.ev.mods
         \/ NamesPress(m.pkt.body.ev) /\ m.pkt.body.ev.press = p

\* A late or repeated grant never revives input: the lease in use answers a
\* request made after the slot was last opened, switched or paused.
GrantIsCurrent ==
  \A v \in Viewer : HasLease(slot[v]) =>
    slot[v].enabled /\ slot[v].lease.via > slot[v].reset

\* Input meant for one source is never injected into another: a press that goes
\* down belongs to a packet sealed under the source revision the host shows at
\* that moment, although switches and grants cross on the way.
RightSource ==
  [][Injecting /\ active'.native \ active.native # {} =>
       \E m \in net : m.type = "input" /\ m.v = job.v /\ m.pkt = job.pkt
                      /\ m.rev = sub[job.v].rev]_allVars

-----------------------------------------------------------------------------
(* The inductive invariants behind these properties, beside Ownership and  *)
(* StopInv of the host.                                                    *)

\* The packet presses, or names modifiers or presses that are to stay down.
Presses(b) ==
  /\ b.kind = "event"
  /\ CASE b.ev.kind = "mods"   -> b.ev.mods # {}
       [] b.ev.kind = "motion" -> FALSE
       [] OTHER -> b.ev.down
Assertive(b) == Presses(b) \/ (b.kind = "held" /\ Down(b.snap) # {})
\* The inputs the viewer sent through an epoch.
SentOf(v, e) == {m \in net : m.type = "input" /\ m.v = v /\ m.pkt.epoch = e}

\* The viewer's clocks: an estimate is biased older, an intent never younger
\* than the touch that made it.
Clocks ==
  /\ \A v \in Viewer :
       LET l == slot[v].lease IN
       /\ l.hostAt <= l.received /\ l.received <= now
       /\ l.intent <= l.touch /\ l.touch <= now
       /\ Down(l.held) # {} => l.intent # None
  /\ \A m \in net : m.type = "grant" => m.host <= now
  /\ NeverAhead

\* Requests and leases are of the slot as it was last opened.
SlotsCurrent ==
  \A v \in Viewer :
    LET s == slot[v] IN
    /\ s.reset <= reqNo
    /\ s.request # 0 => s.open /\ s.enabled /\ s.request > s.reset
    /\ s.lease.epoch # 0 => s.open /\ s.enabled /\ s.lease.via > s.reset

\* A grant names the peer and the source of its epoch, and everything the viewer
\* holds or sent came through a grant for the source it was meant for.
GrantsMatch ==
  \A g \in net : g.type = "grant" =>
    /\ g.epoch # 0 /\ g.epoch < nextEpoch
    /\ \A w \in Viewer : lease[w].epoch = g.epoch => w = g.v /\ lease[w].rev = g.rev
Granted(v, e, rev) ==
  \E g \in net : g.type = "grant" /\ g.v = v /\ g.epoch = e /\ g.rev = rev
SentUnderGrant ==
  /\ \A v \in Viewer : slot[v].lease.epoch # 0 =>
       Granted(v, slot[v].lease.epoch, slot[v].rev)
  /\ \A m \in net : m.type = "input" => Granted(m.v, m.pkt.epoch, m.rev)

\* The packet being injected was sent, is the latest its lease consumed, and
\* asserts what its lease claims unless the presses were down before.
JobSent ==
  Injecting =>
    LET l   == lease[job.v]
        own == IF active.peer = job.v THEN active.native ELSE {}
    IN
    /\ l.rev = sub[job.v].rev /\ l.high = job.pkt.seq
    /\ job.pkt.body.kind = "release" => Down(l.held) = {}
    /\ (own = {} \/ job.batch.ups # {}) /\ Down(l.held) # {}
         => Assertive(job.pkt.body)
    /\ \E m \in SentOf(job.v, job.pkt.epoch) : m.pkt = job.pkt

\* What is down was asserted by a packet of its owner, at the time of "stamp".
StampSent ==
  active.native # {} =>
    \E m \in SentOf(active.peer, active.epoch) :
      m.pkt.created = active.stamp /\ Assertive(m.pkt.body)

\* The packets of a lease that was not resumed: numbered up to l.seq, no
\* assertion younger than the last touch, and after a release the user did not
\* press again, nothing held and no packet that presses.
PacketsInOrder ==
  \A v \in Viewer :
    LET l == slot[v].lease IN
    l.epoch # 0 /\ ~l.again =>
      \A m \in SentOf(v, l.epoch) :
        /\ m.pkt.seq <= l.seq
        /\ Assertive(m.pkt.body) => m.pkt.created <= l.touch
        /\ m.pkt.body.kind = "release" /\ m.pkt.seq > l.pressed =>
             /\ Down(l.held) = {}
             /\ \A n \in SentOf(v, l.epoch) :
                  n.pkt.seq > m.pkt.seq => ~Presses(n.pkt.body)

\* A confirmation is of a release the host has done: what its sender's lease
\* and the native side hold since was pressed by a later packet.
NothingSince(v, e, s) == \A n \in SentOf(v, e) : n.pkt.seq > s => ~Presses(n.pkt.body)
AcksTrue ==
  /\ \A v \in Viewer :
       LET l == slot[v].lease IN
       l.epoch # 0 /\ l.acked # 0 =>
         \E m \in net : m.type = "ack" /\ m.v = v /\ m.epoch = l.epoch
                        /\ m.seq = l.acked
  /\ \A m \in net : m.type = "ack" =>
       /\ \E n \in SentOf(m.v, m.epoch) :
            n.pkt.seq = m.seq /\ n.pkt.body.kind = "release"
       /\ lease[m.v].epoch = m.epoch =>
            /\ m.seq <= lease[m.v].high
            /\ NothingSince(m.v, m.epoch, m.seq) => Down(lease[m.v].held) = {}
       /\ active.peer = m.v /\ active.epoch = m.epoch
            /\ NothingSince(m.v, m.epoch, m.seq) => active.native = {}

\* All of it.
LaneInv ==
  /\ LaneTypeOK /\ Ownership /\ StopInv /\ Clocks /\ SlotsCurrent /\ GrantsMatch
  /\ SentUnderGrant /\ JobSent /\ StampSent /\ PacketsInOrder /\ AcksTrue
  /\ HostHoldsWhatWasSent
=============================================================================
