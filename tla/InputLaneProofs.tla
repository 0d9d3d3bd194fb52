--------------------------- MODULE InputLaneProofs ---------------------------
(***************************************************************************)
(* Proofs about the whole input lane for every set of viewers, inputs and  *)
(* bounds, over a network that loses, repeats and reorders: the host's     *)
(* ownership and time bounds carry over, a viewer's clock never runs ahead,*)
(* grants, presses and confirmations mean what they say.                   *)
(***************************************************************************)
EXTENDS InputLane, HostInputProofs

-----------------------------------------------------------------------------
(* Types of messages and viewer leases.                                    *)

\* The bounds are numbers.
LEMMA LaneBounds ==
  /\ Hold \in Nat /\ Watch \in Nat /\ MaxBusy \in Nat /\ MaxAge \in Nat
  /\ MaxRev \in Nat /\ MaxSeq \in Nat /\ Life \in Nat
  /\ 0 \in 0..MaxRev /\ Inputs \subseteq Events
  BY HostInputAssumption, LaneAssumption

\* What is known of a message by its type.
LEMMA MsgTypes ==
  ASSUME LaneTypeOK, NEW m \in net
  PROVE  /\ m.type = "request" => m.v \in Viewer /\ m.rev \in 0..MaxRev
                                  /\ m.request \in Nat \ {0}
         /\ m.type = "grant" => m \in Grants
         /\ m.type = "input" => m \in InputMsgs
         /\ m.type = "ack" => m \in AckMsgs
         /\ m.type = "switch" => m.v \in Viewer /\ m.rev \in 1..MaxRev
         /\ m.type = "activity" => m.v \in Viewer /\ m.rev \in 1..MaxRev
                                   /\ m.video \in BOOLEAN
         /\ m.type = "unsubscribe" => m.v \in Viewer
         /\ m.type = "close" => m.a \in Addr
  BY DEF LaneTypeOK, Grants, InputMsgs, AckMsgs, Controls

\* The fields of an input.
LEMMA InputTypes ==
  ASSUME NEW m \in InputMsgs
  PROVE  /\ m.v \in Viewer /\ m.pkt \in Packets /\ m.pkt.created \in Nat
         /\ m.pkt.seq \in Nat /\ m.pkt.epoch \in Nat /\ m.pkt.body \in Bodies
         /\ m.type = "input"
  BY DEF InputMsgs, Packets

\* The event that travels is an event.
LEMMA EventSentType ==
  ASSUME NEW h \in Held, NEW ev \in Events
  PROVE  EventSent(ev, h) \in Events
<1>1. Modifiers(h) \in SUBSET Modifier
  BY DEF Modifiers
<1>2. CASE SetsModifiers(ev)
  BY <1>1, <1>2 DEF EventSent, Events, ModsEvents
<1>3. CASE ~SetsModifiers(ev) /\ NamesPress(ev) /\ ev.press \in Key
  <2>1. ev.down \in BOOLEAN
    BY <1>3 DEF NamesPress, Events, KeyEvents, PlainEvents, ModsEvents, MotionEvents
  <2> QED BY <1>1, <1>3, <2>1 DEF EventSent, Events, KeyEvents
<1>4. CASE ~SetsModifiers(ev) /\ ~(NamesPress(ev) /\ ev.press \in Key)
  BY <1>4 DEF EventSent
<1> QED BY <1>2, <1>3, <1>4

\* The fields of a viewer's lease.
LEMMA ViewerLeaseTypes ==
  ASSUME NEW l \in ViewerLeases
  PROVE  /\ l.epoch \in Nat /\ l.hostAt \in Nat /\ l.received \in Nat
         /\ l.seq \in Nat /\ l.held \in Held /\ l.release \in Nat
         /\ l.intent \in Int /\ (l.intent = None \/ l.intent \in Nat)
         /\ l.touch \in Nat /\ l.pressed \in Nat /\ l.acked \in Nat
         /\ l.via \in Nat /\ l.again \in BOOLEAN
  BY DEF ViewerLeases, None

\* The empty entries.
LEMMA ViewerEntryTypes ==
  ASSUME reqNo \in Nat
  PROVE  /\ NoViewerLease \in ViewerLeases /\ NoSlot \in Slots
         /\ \A rev \in 0..MaxRev : Slot(rev) \in Slots
         /\ NoViewerLease.epoch = 0 /\ NoViewerLease.held = Empty
         /\ Down(NoViewerLease.held) = {}
<1>1. Empty \in Held /\ Down(Empty) = {}
  BY DEF Empty, Held, Down
<1>2. NoViewerLease \in ViewerLeases
  BY <1>1 DEF NoViewerLease, ViewerLeases
<1>3. NoSlot \in Slots
  BY <1>2, LaneBounds DEF NoSlot, Slots
<1>4. \A rev \in 0..MaxRev : Slot(rev) \in Slots
  BY <1>2 DEF Slot, Slots
<1> QED BY <1>1, <1>2, <1>3, <1>4 DEF NoViewerLease

\* A frontend that went silent lets go of everything; nothing else changes.
LEMMA FrontendTypes ==
  ASSUME NEW l \in ViewerLeases
  PROVE  LET k == ExpireFrontend(l) IN
         /\ k \in ViewerLeases
         /\ k.epoch = l.epoch /\ k.hostAt = l.hostAt /\ k.received = l.received
         /\ k.seq = l.seq /\ k.release = l.release /\ k.touch = l.touch
         /\ k.pressed = l.pressed /\ k.acked = l.acked /\ k.via = l.via
         /\ k.again = l.again
         /\ \/ k.held = l.held /\ k.intent = l.intent
            \/ k.held = Empty /\ k.intent = None
<1>1. Empty \in Held /\ None \in Nat \cup {None} /\ TRUE \in BOOLEAN
  BY DEF Empty, Held
<1>2. CASE ~FrontendDue(l)
  BY <1>2 DEF ExpireFrontend
<1>3. CASE FrontendDue(l)
  BY <1>1, <1>3 DEF ExpireFrontend, ViewerLeases
<1> QED BY <1>2, <1>3

\* Slots and their leases.
LEMMA SlotTypes ==
  ASSUME LaneTypeOK, NEW v \in Viewer
  PROVE  /\ slot[v] \in Slots /\ slot[v].lease \in ViewerLeases
         /\ slot[v].rev \in 0..MaxRev /\ slot[v].request \in Nat
         /\ slot[v].reset \in Nat /\ reqNo \in Nat /\ now \in Nat
  BY DEF LaneTypeOK, Slots, TypeOK

-----------------------------------------------------------------------------
(* The host of the lane is the host among arbitrary senders.               *)

\* Every step of the lane is a step of that host, or leaves it alone.
LEMMA LaneHostStep ==
  ASSUME LaneTypeOK, [LaneNext]_allVars
  PROVE  [OpenNext]_vars
<1>1. ASSUME NEW v \in Viewer, ViewerStep(v)
      PROVE  UNCHANGED vars
  BY <1>1 DEF ViewerStep, SendRequest, SealRelease, SendSnapshot, DropLease,
              Refresh, SealSwitch, SealUnsubscribe, SealEvent, ReceiveGrant,
              ReceiveAck, SealActivity, HostSame
<1>2. ASSUME NEW a \in Addr, SealClose(a)
      PROVE  UNCHANGED vars
  BY <1>2 DEF SealClose, HostSame
<1>3. ASSUME NEW m \in net, HostReceivesRequest(m)
      PROVE  OpenNext
  BY <1>3, MsgTypes DEF HostReceivesRequest, OpenNext, HostStep
<1>4. ASSUME NEW m \in net, HostReceivesInput(m)
      PROVE  OpenNext
  <2>1. m.v \in Viewer /\ m.pkt \in Packets
    BY <1>4, MsgTypes, InputTypes DEF HostReceivesInput
  <2>2. Receives(m.v, m.pkt)
    BY <1>4 DEF HostReceivesInput, Receives
  <2> QED BY <2>1, <2>2 DEF OpenNext
<1>5. ASSUME NEW m \in net, HostReceivesControl(m)
      PROVE  OpenNext
  <2>1. CASE m.type = "switch" /\ SwitchSource(m.v, m.rev)
    BY <2>1, MsgTypes DEF OpenNext, HostStep
  <2>2. CASE m.type = "activity" /\ SetActivity(m.v, m.rev, m.video)
    BY <2>2, MsgTypes DEF OpenNext, HostStep
  <2>3. CASE m.type = "unsubscribe" /\ Unsubscribe(m.v)
    BY <2>3, MsgTypes DEF OpenNext, HostStep
  <2>4. CASE m.type = "close" /\ CloseConnection(m.a)
    BY <2>4, MsgTypes DEF OpenNext
  <2> QED BY <1>5, <2>1, <2>2, <2>3, <2>4 DEF HostReceivesControl
<1>6. CASE HostInjects
  BY <1>6 DEF HostInjects, OpenNext, HostJob
<1>7. CASE HostElse
  BY <1>7 DEF HostElse, OpenNext, HostJob, HostStep
<1>8. UNCHANGED allVars => UNCHANGED vars
  BY DEF allVars
<1> QED BY <1>1, <1>2, <1>3, <1>4, <1>5, <1>6, <1>7, <1>8 DEF LaneNext

-----------------------------------------------------------------------------
(* What the viewer's steps do: send one packet of a lease, or change slots *)
(* without sending input.                                                  *)

\* An event that travels as a press pressed something here, or names modifiers
\* that are down here.
LEMMA SealPresses ==
  ASSUME NEW h \in Held, NEW ev \in Events, NEW s \in Nat \ {0},
         EventValid(h, ev),
         Presses([kind |-> "event", ev |-> EventSent(ev, EventHeld(h, ev, s))])
  PROVE  \/ Down(EventHeld(h, ev, s)) \ Down(h) # {}
         \/ SetsModifiers(ev) /\ Modifiers(EventHeld(h, ev, s)) # {}
<1> DEFINE g == EventHeld(h, ev, s)
           e == EventSent(ev, g)
<1>0. /\ e.kind = "mods" => e.mods # {}
      /\ e.kind # "motion"
      /\ e.kind # "mods" => e.down
  BY DEF Presses
<1>1. CASE SetsModifiers(ev)
  <2>1. e = [kind |-> "mods", mods |-> Modifiers(g)]
    BY <1>1 DEF EventSent
  <2>2. e.kind = "mods" /\ e.mods = Modifiers(g)
    BY <2>1
  <2> QED BY <1>0, <1>1, <2>2
<1>2. CASE ~SetsModifiers(ev)
  <2>1. ev.kind \in {"key", "plain", "motion"}
    BY <1>2 DEF SetsModifiers, Events, KeyEvents, PlainEvents, ModsEvents,
                MotionEvents
  <2>2. ev.kind # "motion"
    BY <1>0, <1>2 DEF EventSent, NamesPress
  <2>3. ev.press \in Press /\ ev.down \in BOOLEAN /\ ~IsModifierKey(ev)
    BY <1>2, <2>1, <2>2 DEF Events, KeyEvents, PlainEvents, ModsEvents,
                            MotionEvents, Press, SetsModifiers
  <2>4. ev.down
    <3>1. CASE ev.press \in Key
      <4>1. e = [kind |-> "key", press |-> ev.press, down |-> ev.down,
                 mods |-> Modifiers(g)]
        BY <1>2, <2>1, <2>2, <3>1 DEF EventSent, NamesPress
      <4>2. e.kind = "key" /\ e.down = ev.down
        BY <4>1
      <4> QED BY <1>0, <4>2
    <3>2. CASE ev.press \notin Key
      <4>1. e = ev
        BY <1>2, <3>2 DEF EventSent
      <4> QED BY <1>0, <2>1, <2>2, <4>1
    <3> QED BY <3>1, <3>2
  <2>5. CanTransition(h, ev.press, ev.down)
    BY <2>1, <2>2, <2>3 DEF EventValid
  <2>6. g = [h EXCEPT ![ev.press] = s] /\ h[ev.press] = 0
    BY <1>2, <2>2, <2>4, <2>5 DEF EventHeld, Transition, CanTransition
  <2>7. g[ev.press] = s
    BY <2>3, <2>6 DEF Held
  <2> HIDE DEF g
  <2>8. ev.press \in Down(g) \ Down(h)
    BY <2>3, <2>6, <2>7 DEF Down
  <2> QED BY <2>8 DEF g
<1> QED BY <1>1, <1>2

\* The clocks of a viewer's lease.
LeaseClocks(k) ==
  /\ k.hostAt <= k.received /\ k.received <= now
  /\ k.intent <= k.touch /\ k.touch <= now
  /\ Down(k.held) # {} => k.intent # None

\* One packet m leaves through the lease of v, which becomes k.
Sealed(v, m, k) ==
  LET l == slot[v].lease IN
  /\ HostSame /\ UNCHANGED reqNo
  /\ slot' = [slot EXCEPT ![v].lease = k] /\ net' = net \cup {m}
  /\ k \in ViewerLeases /\ m \in InputMsgs /\ l.epoch # 0
  /\ m.v = v /\ m.rev = slot[v].rev /\ m.pkt.epoch = l.epoch
  /\ m.pkt.seq = l.seq + 1 /\ m.pkt.created <= now
  /\ k.epoch = l.epoch /\ k.seq = l.seq + 1 /\ k.again = l.again
  /\ k.acked = l.acked /\ k.via = l.via /\ l.touch <= k.touch /\ LeaseClocks(k)
  /\ Assertive(m.pkt.body) => m.pkt.created <= k.touch
  /\ \/ k.pressed = l.seq + 1
     \/ /\ k.pressed = l.pressed
        /\ Down(l.held) = {} => Down(k.held) = {} /\ ~Presses(m.pkt.body)
  /\ m.pkt.body.kind = "release" => Down(k.held) = {}

\* The packet InputState::seal makes, and the host clock it estimates.
LEMMA PacketMsgTypes ==
  ASSUME LaneTypeOK, NEW v \in Viewer, NEW l \in ViewerLeases, NEW c \in Nat,
         NEW b \in Bodies
  PROVE  LET m == PacketMsg(v, l, c, b) IN
         /\ m \in InputMsgs /\ m.v = v /\ m.rev = slot[v].rev
         /\ m.pkt.epoch = l.epoch /\ m.pkt.seq = l.seq + 1
         /\ m.pkt.created = c /\ m.pkt.body = b
<1>1. l.epoch \in Nat /\ l.seq + 1 \in Nat /\ slot[v].rev \in 0..MaxRev
  BY ViewerLeaseTypes, SlotTypes
<1> QED BY <1>1 DEF PacketMsg, InputMsgs, Packets

\* The estimate never runs ahead.
LEMMA HostClockBound ==
  ASSUME NEW l \in ViewerLeases, l.hostAt <= l.received, l.received <= now,
         now \in Nat
  PROVE  HostClock(l) \in Nat /\ HostClock(l) <= now
<1>1. l.hostAt \in Nat /\ l.received \in Nat
  BY ViewerLeaseTypes
<1> QED BY <1>1 DEF HostClock

\* An event is sealed.
LEMMA SealEventSends ==
  ASSUME LaneTypeOK, Clocks, NEW v \in Viewer, NEW ev \in Events, SealEvent(v, ev)
  PROVE  \E m, k : Sealed(v, m, k)
<1> DEFINE o     == slot[v].lease
           l     == ExpireFrontend(o)
           held  == EventHeld(l.held, ev, l.seq + 1)
           first == Down(l.held) = {} /\ Down(held) # {}
           body  == [kind |-> "event", ev |-> EventSent(ev, held)]
           presses == Down(held) \ Down(l.held) # {}
           asserts == presses \/ (SetsModifiers(ev) /\ Modifiers(held) # {})
           k     == [l EXCEPT !.seq = @ + 1, !.held = held,
                     !.intent = IF Down(held) = {} THEN None
                                ELSE IF first THEN now ELSE @,
                     !.stalled = IF first THEN FALSE ELSE @,
                     !.touch = IF asserts THEN now ELSE @,
                     !.pressed = IF presses THEN l.seq + 1 ELSE @]
           m     == PacketMsg(v, l, HostClock(l), body)
<1>0. /\ slot' = [slot EXCEPT ![v].lease = k] /\ net' = net \cup {m}
      /\ UNCHANGED reqNo /\ HostSame /\ o.epoch # 0 /\ EventValid(l.held, ev)
  BY DEF SealEvent, Send, Usable, HasLease
<1>1. o \in ViewerLeases /\ now \in Nat /\ LeaseClocks(o)
  BY SlotTypes DEF Clocks, LeaseClocks
<1>2. /\ l \in ViewerLeases
      /\ l.epoch = o.epoch /\ l.hostAt = o.hostAt /\ l.received = o.received
      /\ l.seq = o.seq /\ l.touch = o.touch /\ l.pressed = o.pressed
      /\ l.acked = o.acked /\ l.via = o.via /\ l.again = o.again
      /\ \/ l.held = o.held /\ l.intent = o.intent
         \/ l.held = Empty /\ l.intent = None
  BY <1>1, FrontendTypes
<1>3. /\ l.seq \in Nat /\ l.held \in Held /\ l.touch \in Nat /\ l.intent \in Int
      /\ l.seq + 1 \in Nat \ {0} /\ o.touch \in Nat /\ o.intent \in Int
      /\ None \in Int /\ None <= 0 /\ None # now
  BY <1>1, <1>2, ViewerLeaseTypes DEF None
<1>4. held \in Held
  BY <1>3, EventHeldType
<1>5. LeaseClocks(l)
  <2>1. Down(Empty) = {}
    BY DEF Down, Empty
  <2> QED BY <1>1, <1>2, <1>3, <2>1 DEF LeaseClocks
<1>6. HostClock(l) \in Nat /\ HostClock(l) <= now
  BY <1>1, <1>2, <1>5, HostClockBound DEF LeaseClocks
<1>7. body \in Bodies /\ body.kind = "event"
  BY <1>4, EventSentType DEF Bodies
<1>8. Presses(body) => asserts
  BY <1>0, <1>3, SealPresses
<1>9. ~Assertive(body) \/ Presses(body)
  BY <1>7 DEF Assertive
<1>9a. Down(o.held) = {} => Down(l.held) = {}
  <2>1. Down(Empty) = {}
    BY DEF Down, Empty
  <2> QED BY <1>2, <2>1
<1> HIDE DEF l, held, body
<1>10. /\ m \in InputMsgs /\ m.v = v /\ m.rev = slot[v].rev
       /\ m.pkt.epoch = l.epoch /\ m.pkt.seq = l.seq + 1
       /\ m.pkt.created = HostClock(l) /\ m.pkt.body = body
  BY <1>2, <1>6, <1>7, PacketMsgTypes
<1>11. first => presses
  OBVIOUS
<1>12. /\ k \in ViewerLeases /\ k.epoch = l.epoch /\ k.hostAt = l.hostAt
       /\ k.received = l.received /\ k.seq = l.seq + 1 /\ k.held = held
       /\ k.intent = IF Down(held) = {} THEN None ELSE IF first THEN now ELSE l.intent
       /\ k.touch = IF asserts THEN now ELSE l.touch
       /\ k.pressed = IF presses THEN l.seq + 1 ELSE l.pressed
       /\ k.acked = l.acked /\ k.via = l.via /\ k.again = l.again
  <2>1. FALSE \in BOOLEAN /\ l.seq + 1 \in Nat /\ now \in Nat
    BY <1>1, <1>3
  <2> DEFINE q == l.seq + 1
             i == IF Down(held) = {} THEN None ELSE IF first THEN now ELSE l.intent
             st == IF first THEN FALSE ELSE l.stalled
             t == IF asserts THEN now ELSE l.touch
             pr == IF presses THEN l.seq + 1 ELSE l.pressed
  <2>2. k = [l EXCEPT !.seq = q, !.held = held, !.intent = i, !.stalled = st,
                      !.touch = t, !.pressed = pr]
    OBVIOUS
  <2>3. l.stalled \in BOOLEAN /\ l.intent \in Nat \cup {None} /\ l.pressed \in Nat
    BY <1>2 DEF ViewerLeases
  <2>4. /\ q \in Nat /\ held \in Held /\ i \in Nat \cup {None} /\ st \in BOOLEAN
        /\ t \in Nat /\ pr \in Nat
    BY <1>3, <1>4, <2>1, <2>3
  <2>5. k.seq = q /\ k.intent = i /\ k.touch = t /\ k.pressed = pr /\ k \in ViewerLeases
        /\ k.epoch = l.epoch /\ k.hostAt = l.hostAt /\ k.received = l.received
        /\ k.held = held /\ k.acked = l.acked /\ k.via = l.via /\ k.again = l.again
    <3> HIDE DEF k, q, i, st, t, pr
    <3> QED BY <1>2, <2>2, <2>4 DEF ViewerLeases
  <2> HIDE DEF k
  <2> QED BY <2>5
<1> HIDE DEF k, m
<1>13. LeaseClocks(k) /\ l.touch <= k.touch
  <2>1. k.hostAt <= k.received /\ k.received <= now
    BY <1>5, <1>12 DEF LeaseClocks
  <2>2. l.touch <= k.touch /\ k.touch <= now
    BY <1>1, <1>3, <1>5, <1>12 DEF LeaseClocks
  <2>3. k.intent <= k.touch
    BY <1>1, <1>3, <1>5, <1>11, <1>12 DEF LeaseClocks
  <2>4. Down(k.held) # {} => k.intent # None
    BY <1>3, <1>5, <1>12 DEF LeaseClocks
  <2> QED BY <2>1, <2>2, <2>3, <2>4 DEF LeaseClocks
<1>14. Assertive(m.pkt.body) => m.pkt.created <= k.touch
  BY <1>6, <1>8, <1>9, <1>10, <1>12
<1>15. \/ k.pressed = l.seq + 1
       \/ /\ k.pressed = l.pressed
          /\ Down(o.held) = {} => Down(k.held) = {} /\ ~Presses(m.pkt.body)
  <2>1. CASE ~presses
    <3>1. Down(l.held) = {} => Down(held) = {} /\ Modifiers(held) = {}
      BY <2>1 DEF Modifiers
    <3> QED BY <1>8, <1>9a, <1>10, <1>12, <2>1, <3>1
  <2> QED BY <1>12, <2>1
<1>16. m.pkt.body.kind # "release"
  BY <1>7, <1>10
<1>17. Sealed(v, m, k)
  BY <1>0, <1>2, <1>6, <1>10, <1>12, <1>13, <1>14, <1>15, <1>16 DEF Sealed
<1> QED BY <1>17

\* A release is sealed.
LEMMA SealReleaseSends ==
  ASSUME LaneTypeOK, Clocks, NEW v \in Viewer, SealRelease(v)
  PROVE  \E m, k : Sealed(v, m, k)
<1> DEFINE o == slot[v].lease
           l == ExpireFrontend(o)
           k == [l EXCEPT !.seq = @ + 1, !.held = Empty, !.intent = None,
                          !.stalled = FALSE, !.release = l.seq + 1]
           body == [kind |-> "release"]
           m == PacketMsg(v, l, HostClock(l), body)
<1>0. /\ slot' = [slot EXCEPT ![v].lease = k] /\ net' = net \cup {m}
      /\ UNCHANGED reqNo /\ HostSame /\ o.epoch # 0
  BY DEF SealRelease, Send, Usable, HasLease
<1>1. o \in ViewerLeases /\ now \in Nat /\ LeaseClocks(o)
  BY SlotTypes DEF Clocks, LeaseClocks
<1>2. /\ l \in ViewerLeases
      /\ l.epoch = o.epoch /\ l.hostAt = o.hostAt /\ l.received = o.received
      /\ l.seq = o.seq /\ l.touch = o.touch /\ l.pressed = o.pressed
      /\ l.acked = o.acked /\ l.via = o.via /\ l.again = o.again
  BY <1>1, FrontendTypes
<1>3. /\ l.seq + 1 \in Nat /\ o.touch \in Nat /\ None <= o.touch
      /\ Down(Empty) = {} /\ Empty \in Held
  BY <1>1, <1>2, ViewerLeaseTypes DEF None, Down, Empty, Held
<1>4. HostClock(l) \in Nat /\ HostClock(l) <= now
  BY <1>1, <1>2, HostClockBound DEF LeaseClocks
<1>5. body \in Bodies /\ body.kind = "release"
  BY DEF Bodies
<1>6. ~Assertive(body) /\ ~Presses(body)
  BY DEF Assertive, Presses
<1> HIDE DEF l, body
<1>7. /\ m \in InputMsgs /\ m.v = v /\ m.rev = slot[v].rev
      /\ m.pkt.epoch = l.epoch /\ m.pkt.seq = l.seq + 1
      /\ m.pkt.created = HostClock(l) /\ m.pkt.body = body
  BY <1>2, <1>4, <1>5, PacketMsgTypes
<1>8. /\ k \in ViewerLeases /\ k.epoch = l.epoch /\ k.hostAt = l.hostAt
      /\ k.received = l.received /\ k.seq = l.seq + 1 /\ k.held = Empty
      /\ k.intent = None /\ k.touch = l.touch /\ k.pressed = l.pressed
      /\ k.acked = l.acked /\ k.via = l.via /\ k.again = l.again
  <2>1. FALSE \in BOOLEAN
    OBVIOUS
  <2> QED BY <1>2, <1>3, <2>1 DEF ViewerLeases
<1> HIDE DEF k, m
<1>9. LeaseClocks(k) /\ o.touch <= k.touch
  BY <1>1, <1>2, <1>3, <1>8 DEF LeaseClocks
<1>10. Sealed(v, m, k)
  BY <1>0, <1>2, <1>3, <1>4, <1>6, <1>7, <1>8, <1>9 DEF Sealed
<1> QED BY <1>10

\* The table is sent, dated by the last intent.
LEMMA SnapshotSends ==
  ASSUME LaneTypeOK, Clocks, NEW v \in Viewer, SendSnapshot(v)
  PROVE  \E m, k : Sealed(v, m, k)
<1> DEFINE o == slot[v].lease
           l == ExpireFrontend(o)
           age == IntentAge(l)
           est == IF HostClock(l) < age THEN 0 ELSE HostClock(l) - age
           k == [l EXCEPT !.seq = @ + 1]
           body == [kind |-> "held", snap |-> l.held]
           m == PacketMsg(v, l, est, body)
<1>0. /\ slot' = [slot EXCEPT ![v].lease = k] /\ net' = net \cup {m}
      /\ UNCHANGED reqNo /\ HostSame /\ o.epoch # 0
  BY DEF SendSnapshot, Send, Usable, HasLease
<1>1. o \in ViewerLeases /\ now \in Nat /\ LeaseClocks(o)
  BY SlotTypes DEF Clocks, LeaseClocks
<1>2. /\ l \in ViewerLeases
      /\ l.epoch = o.epoch /\ l.hostAt = o.hostAt /\ l.received = o.received
      /\ l.seq = o.seq /\ l.touch = o.touch /\ l.pressed = o.pressed
      /\ l.acked = o.acked /\ l.via = o.via /\ l.again = o.again
      /\ \/ l.held = o.held /\ l.intent = o.intent
         \/ l.held = Empty /\ l.intent = None
  BY <1>1, FrontendTypes
<1>3. /\ l.seq + 1 \in Nat /\ l.touch \in Nat /\ l.intent \in Int /\ None <= o.touch
      /\ (l.intent = None \/ l.intent \in Nat) /\ Down(Empty) = {} /\ l.held \in Held
  BY <1>1, <1>2, ViewerLeaseTypes DEF None, Down, Empty
<1>4. LeaseClocks(l)
  BY <1>1, <1>2, <1>3 DEF LeaseClocks
<1>5. HostClock(l) \in Nat /\ HostClock(l) <= now
  BY <1>1, <1>2, <1>4, HostClockBound DEF LeaseClocks
<1>6. body \in Bodies /\ body.kind = "held" /\ body.snap = l.held
  BY <1>3 DEF Bodies
<1>7. ~Presses(body) /\ (Assertive(body) => Down(l.held) # {})
  BY <1>6 DEF Assertive, Presses
<1> HIDE DEF l, body
<1>8. age \in Nat /\ (Down(l.held) # {} => age = now - l.intent /\ l.intent \in Nat)
  <2>1. CASE Down(l.held) = {} \/ l.intent = None
    BY <1>4, <2>1 DEF IntentAge, LeaseClocks
  <2>2. CASE ~(Down(l.held) = {} \/ l.intent = None)
    BY <1>1, <1>3, <1>4, <2>2 DEF IntentAge, LeaseClocks
  <2> QED BY <2>1, <2>2
<1> HIDE DEF age
<1>9. est \in Nat /\ est <= now
  BY <1>1, <1>5, <1>8
<1>10. Down(l.held) # {} => est <= l.touch
  <2> SUFFICES ASSUME Down(l.held) # {} PROVE est <= l.touch
    OBVIOUS
  <2>1. age = now - l.intent /\ l.intent \in Nat /\ l.intent <= l.touch
    BY <1>4, <1>8 DEF LeaseClocks
  <2> QED BY <1>1, <1>3, <1>5, <2>1
<1> HIDE DEF est
<1>11. /\ m \in InputMsgs /\ m.v = v /\ m.rev = slot[v].rev
       /\ m.pkt.epoch = l.epoch /\ m.pkt.seq = l.seq + 1
       /\ m.pkt.created = est /\ m.pkt.body = body
  BY <1>2, <1>6, <1>9, PacketMsgTypes
<1>12. /\ k \in ViewerLeases /\ k.epoch = l.epoch /\ k.hostAt = l.hostAt
       /\ k.received = l.received /\ k.seq = l.seq + 1 /\ k.held = l.held
       /\ k.intent = l.intent /\ k.touch = l.touch /\ k.pressed = l.pressed
       /\ k.acked = l.acked /\ k.via = l.via /\ k.again = l.again
  BY <1>2, <1>3 DEF ViewerLeases
<1> HIDE DEF k, m
<1>13. LeaseClocks(k) /\ o.touch <= k.touch
  BY <1>2, <1>3, <1>4, <1>12 DEF LeaseClocks
<1>14. Sealed(v, m, k)
  BY <1>0, <1>2, <1>3, <1>6, <1>7, <1>9, <1>10, <1>11, <1>12, <1>13 DEF Sealed
<1> QED BY <1>14

\* What the other steps of the viewer do to a slot: its lease goes, stays the
\* same as far as packets are concerned, or comes from a grant.
LeaseMild(w) ==
  LET l == slot[w].lease
      k == slot'[w].lease
  IN
  /\ LeaseClocks(k)
  /\ \/ k.epoch = 0
     \/ /\ k.epoch = l.epoch /\ slot'[w].rev = slot[w].rev /\ k.seq = l.seq
        /\ k.pressed = l.pressed /\ k.again = l.again /\ l.touch <= k.touch
        /\ Down(l.held) = {} => Down(k.held) = {}
        /\ \/ k.acked = l.acked
           \/ \E m \in net : m.type = "ack" /\ m.v = w /\ m.epoch = k.epoch
                             /\ m.seq = k.acked
     \/ /\ Granted(w, k.epoch, slot'[w].rev)
        /\ k.acked = 0 /\ k.again = Used(w, k.epoch)
MildViewer ==
  /\ HostSame /\ reqNo' \in Nat /\ slot' \in [Viewer -> Slots]
  /\ \A w \in Viewer : LeaseMild(w)
  /\ \E ms \in SUBSET Controls : net' = net \cup ms

\* A slot that is left alone, and one without a lease.
LEMMA MildSlots ==
  ASSUME LaneTypeOK, Clocks, NEW w \in Viewer,
         slot'[w] = slot[w] \/ slot'[w].lease = NoViewerLease
  PROVE  LeaseMild(w)
<1>1. slot[w].lease \in ViewerLeases /\ now \in Nat /\ reqNo \in Nat
  BY SlotTypes
<1>2. slot[w].lease.touch \in Nat
  BY <1>1, ViewerLeaseTypes
<1>3. CASE slot'[w] = slot[w]
  BY <1>1, <1>2, <1>3 DEF LeaseMild, LeaseClocks, Clocks
<1>4. CASE slot'[w].lease = NoViewerLease
  <2>1. /\ NoViewerLease.epoch = 0 /\ NoViewerLease.hostAt = 0
        /\ NoViewerLease.received = 0 /\ NoViewerLease.intent = None
        /\ NoViewerLease.touch = 0 /\ Down(NoViewerLease.held) = {}
        /\ None <= 0
    BY DEF NoViewerLease, None, Down, Empty
  <2> QED BY <1>1, <1>4, <2>1 DEF LeaseMild, LeaseClocks
<1> QED BY <1>3, <1>4

\* A change of one slot.
LEMMA MildOne ==
  ASSUME LaneTypeOK, Clocks, HostSame, reqNo' \in Nat,
         NEW v \in Viewer, NEW s \in Slots, slot' = [slot EXCEPT ![v] = s],
         LeaseMild(v), \E ms \in SUBSET Controls : net' = net \cup ms
  PROVE  MildViewer
<1>1. slot \in [Viewer -> Slots]
  BY DEF LaneTypeOK
<1>2. \A w \in Viewer \ {v} : slot'[w] = slot[w]
  BY <1>1
<1>3. \A w \in Viewer : LeaseMild(w)
  BY <1>2, MildSlots
<1> QED BY <1>1, <1>3 DEF MildViewer

\* A binding request is sent.
LEMMA MildRequest ==
  ASSUME LaneTypeOK, Clocks, NEW v \in Viewer, SendRequest(v)
  PROVE  MildViewer
<1> DEFINE s == [slot[v] EXCEPT !.request = reqNo + 1]
<1>0. /\ slot[v] \in Slots /\ slot[v].rev \in 0..MaxRev /\ reqNo + 1 \in Nat \ {0}
      /\ slot \in [Viewer -> Slots]
  BY SlotTypes DEF LaneTypeOK
<1>1. s \in Slots /\ s.lease = slot[v].lease /\ s.rev = slot[v].rev
  BY <1>0 DEF Slots
<1>2. slot' = [slot EXCEPT ![v] = s] /\ reqNo' = reqNo + 1 /\ HostSame
  BY DEF SendRequest
<1>3. \E ms \in SUBSET Controls : net' = net \cup ms
  <2> DEFINE r == [type |-> "request", v |-> v, rev |-> slot[v].rev,
                   request |-> reqNo + 1]
  <2>1. r \in Controls
    BY <1>0 DEF Controls
  <2>2. net' = net \cup {r}
    BY <1>2 DEF SendRequest, Send
  <2> QED BY <2>1, <2>2
<1>4. slot'[v] = s
  BY <1>0, <1>2
<1>5. slot[v].lease.touch \in Nat
  BY SlotTypes, ViewerLeaseTypes
<1> HIDE DEF s
<1>6. LeaseMild(v)
  BY <1>1, <1>4, <1>5 DEF LeaseMild, LeaseClocks, Clocks
<1> QED BY <1>0, <1>1, <1>2, <1>3, <1>6, MildOne

\* A slot is reset: the lease is dropped, or the command that ends it is sent.
LEMMA MildReset ==
  ASSUME LaneTypeOK, Clocks, NEW v \in Viewer,
         DropLease(v) \/ SealSwitch(v) \/ SealUnsubscribe(v)
  PROVE  MildViewer
<1>0. /\ slot[v] \in Slots /\ slot[v].rev \in 0..MaxRev /\ reqNo \in Nat
      /\ slot \in [Viewer -> Slots] /\ NoViewerLease \in ViewerLeases
      /\ NoSlot \in Slots /\ \A rev \in 0..MaxRev : Slot(rev) \in Slots
  BY SlotTypes, ViewerEntryTypes DEF LaneTypeOK
<1>1. UNCHANGED net => \E ms \in SUBSET Controls : net' = net \cup ms
  <2>1. {} \in SUBSET Controls /\ net = net \cup {}
    OBVIOUS
  <2> QED BY <2>1
<1>2. CASE DropLease(v)
  <2> DEFINE s == [slot[v] EXCEPT !.lease = NoViewerLease]
  <2>1. s \in Slots /\ s.lease = NoViewerLease
    BY <1>0 DEF Slots
  <2>2. slot' = [slot EXCEPT ![v] = s] /\ reqNo' = reqNo /\ HostSame /\ UNCHANGED net
    BY <1>2 DEF DropLease
  <2> HIDE DEF s
  <2>3. LeaseMild(v)
    BY <1>0, <2>1, <2>2, MildSlots
  <2> QED BY <1>0, <1>1, <2>1, <2>2, <2>3, MildOne
<1>3. CASE SealSwitch(v)
  <2> DEFINE s == Slot(slot[v].rev + 1)
             c == [type |-> "switch", v |-> v, rev |-> slot[v].rev + 1]
  <2>0. slot[v].rev + 1 \in 1..MaxRev /\ slot[v].rev + 1 \in 0..MaxRev
    BY <1>0, <1>3, LaneBounds DEF SealSwitch
  <2>1. s \in Slots /\ s.lease = NoViewerLease
    BY <1>0, <2>0 DEF Slot
  <2>2. c \in Controls
    BY <2>0 DEF Controls
  <2>3. /\ slot' = [slot EXCEPT ![v] = s] /\ reqNo' = reqNo /\ HostSame
        /\ net' = net \cup {c}
    BY <1>3 DEF SealSwitch, Send
  <2> HIDE DEF s, c
  <2>4. LeaseMild(v)
    BY <1>0, <2>1, <2>3, MildSlots
  <2>5. \E ms \in SUBSET Controls : net' = net \cup ms
    BY <2>2, <2>3
  <2> QED BY <1>0, <2>1, <2>3, <2>4, <2>5, MildOne
<1>4. CASE SealUnsubscribe(v)
  <2> DEFINE c == [type |-> "unsubscribe", v |-> v]
  <2>1. NoSlot.lease = NoViewerLease
    BY DEF NoSlot
  <2>2. c \in Controls
    BY DEF Controls
  <2>3. /\ slot' = [slot EXCEPT ![v] = NoSlot] /\ reqNo' = reqNo /\ HostSame
        /\ net' = net \cup {c}
    BY <1>4 DEF SealUnsubscribe, Send
  <2> HIDE DEF c
  <2>4. LeaseMild(v)
    BY <1>0, <2>1, <2>3, MildSlots
  <2>5. \E ms \in SUBSET Controls : net' = net \cup ms
    BY <2>2, <2>3
  <2> QED BY <1>0, <2>3, <2>4, <2>5, MildOne
<1> QED BY <1>2, <1>3, <1>4

\* Video is switched on or off.
LEMMA MildActivity ==
  ASSUME LaneTypeOK, Clocks, NEW v \in Viewer, NEW rev \in 1..MaxRev,
         NEW video \in BOOLEAN, SealActivity(v, rev, video)
  PROVE  MildViewer
<1> DEFINE s == IF video THEN [slot[v] EXCEPT !.enabled = TRUE]
                ELSE [slot[v] EXCEPT !.enabled = FALSE, !.lease = NoViewerLease,
                                     !.request = 0, !.reset = reqNo]
           c == [type |-> "activity", v |-> v, rev |-> rev, video |-> video]
<1>0. /\ slot[v] \in Slots /\ reqNo \in Nat /\ NoViewerLease \in ViewerLeases
      /\ slot \in [Viewer -> Slots] /\ TRUE \in BOOLEAN /\ FALSE \in BOOLEAN
  BY SlotTypes, ViewerEntryTypes DEF LaneTypeOK
<1>1. /\ s \in Slots
      /\ s.lease = NoViewerLease \/ (s.lease = slot[v].lease /\ s.rev = slot[v].rev)
  BY <1>0 DEF Slots
<1>2. c \in Controls
  BY DEF Controls
<1>3. /\ slot' = [slot EXCEPT ![v] = s] /\ reqNo' = reqNo /\ HostSame
      /\ net' = net \cup {c}
  BY DEF SealActivity, Send
<1> HIDE DEF s, c
<1>4. slot'[v] = s
  BY <1>0, <1>3
<1>5. slot[v].lease.touch \in Nat
  BY SlotTypes, ViewerLeaseTypes
<1>6. LeaseMild(v)
  <2>1. CASE s.lease = NoViewerLease
    BY <1>4, <2>1, MildSlots
  <2>2. CASE s.lease = slot[v].lease /\ s.rev = slot[v].rev
    BY <1>4, <1>5, <2>2 DEF LeaseMild, LeaseClocks, Clocks
  <2> QED BY <1>1, <2>1, <2>2
<1>7. \E ms \in SUBSET Controls : net' = net \cup ms
  BY <1>2, <1>3
<1> QED BY <1>0, <1>1, <1>3, <1>6, <1>7, MildOne

\* A connection is closed.
LEMMA MildClose ==
  ASSUME LaneTypeOK, Clocks, NEW a \in Addr, SealClose(a)
  PROVE  MildViewer
<1> DEFINE c == [type |-> "close", a |-> a]
<1>0. reqNo \in Nat /\ slot \in [Viewer -> Slots] /\ NoSlot \in Slots
  BY ViewerEntryTypes DEF LaneTypeOK
<1>1. c \in Controls
  BY DEF Controls
<1>2. /\ slot' = [v \in Viewer |-> IF v[1] = a THEN NoSlot ELSE slot[v]]
      /\ reqNo' = reqNo /\ HostSame /\ net' = net \cup {c}
  BY DEF SealClose, Send
<1>3. NoSlot.lease = NoViewerLease
  BY DEF NoSlot
<1> HIDE DEF c
<1>4. \A w \in Viewer : slot'[w] = slot[w] \/ slot'[w].lease = NoViewerLease
  BY <1>2, <1>3
<1>5. \A w \in Viewer : LeaseMild(w)
  BY <1>4, MildSlots
<1>6. slot' \in [Viewer -> Slots]
  BY <1>0, <1>2
<1> QED BY <1>0, <1>1, <1>2, <1>5, <1>6 DEF MildViewer

\* The frontend refreshes its presses.
LEMMA MildRefresh ==
  ASSUME LaneTypeOK, Clocks, NEW v \in Viewer, Refresh(v)
  PROVE  MildViewer
<1> DEFINE o == slot[v].lease
           l == ExpireFrontend(o)
           k == IF l.stalled \/ Down(l.held) = {} THEN l
                ELSE [l EXCEPT !.intent = now, !.touch = now]
           s == [slot[v] EXCEPT !.lease = k]
<1>0. /\ slot[v] \in Slots /\ reqNo \in Nat /\ slot \in [Viewer -> Slots]
      /\ now \in Nat /\ o \in ViewerLeases /\ LeaseClocks(o)
  BY SlotTypes DEF LaneTypeOK, Clocks, LeaseClocks
<1>1. /\ l \in ViewerLeases
      /\ l.epoch = o.epoch /\ l.hostAt = o.hostAt /\ l.received = o.received
      /\ l.seq = o.seq /\ l.touch = o.touch /\ l.pressed = o.pressed
      /\ l.acked = o.acked /\ l.via = o.via /\ l.again = o.again
      /\ \/ l.held = o.held /\ l.intent = o.intent
         \/ l.held = Empty /\ l.intent = None
  BY <1>0, FrontendTypes
<1>2. /\ Down(Empty) = {} /\ None <= o.touch /\ o.touch \in Nat /\ now # None
      /\ o.touch <= now
  BY <1>0, ViewerLeaseTypes DEF Down, Empty, None, LeaseClocks
<1>3. LeaseClocks(l)
  BY <1>0, <1>1, <1>2 DEF LeaseClocks
<1> HIDE DEF l
<1>4. /\ k \in ViewerLeases /\ k.epoch = l.epoch /\ k.hostAt = l.hostAt
      /\ k.received = l.received /\ k.seq = l.seq /\ k.held = l.held
      /\ k.pressed = l.pressed /\ k.acked = l.acked /\ k.via = l.via
      /\ k.again = l.again
      /\ \/ k.intent = l.intent /\ k.touch = l.touch
         \/ k.intent = now /\ k.touch = now
  BY <1>0, <1>1 DEF ViewerLeases
<1> HIDE DEF k
<1>5. LeaseClocks(k) /\ o.touch <= k.touch /\ (Down(o.held) = {} => Down(k.held) = {})
  BY <1>0, <1>1, <1>2, <1>3, <1>4 DEF LeaseClocks
<1>6. s \in Slots /\ s.lease = k /\ s.rev = slot[v].rev
  BY <1>0, <1>4 DEF Slots
<1>7. /\ slot' = [slot EXCEPT ![v] = s] /\ reqNo' = reqNo /\ HostSame
      /\ net' = net \cup {}
  BY DEF Refresh, k, l
<1> HIDE DEF s
<1>8. slot'[v] = s
  BY <1>0, <1>7
<1>9. LeaseMild(v)
  BY <1>1, <1>4, <1>5, <1>6, <1>8 DEF LeaseMild
<1>10. \E ms \in SUBSET Controls : net' = net \cup ms
  BY <1>7
<1> QED BY <1>0, <1>6, <1>7, <1>9, <1>10, MildOne

\* A grant is adopted, or renews the lease in use.
LEMMA MildGrant ==
  ASSUME LaneTypeOK, Clocks, NEW v \in Viewer, NEW m \in net, ReceiveGrant(v, m)
  PROVE  MildViewer
<1> DEFINE o == slot[v].lease
           fresh == [NoViewerLease EXCEPT !.epoch = m.epoch, !.hostAt = m.host,
                                          !.received = now, !.via = m.request,
                                          !.again = Used(v, m.epoch)]
           k == IF o.epoch = m.epoch
                THEN [o EXCEPT !.hostAt = m.host, !.received = now] ELSE fresh
           s == [slot[v] EXCEPT !.request = 0, !.lease = k]
<1>0. /\ slot[v] \in Slots /\ reqNo \in Nat /\ slot \in [Viewer -> Slots]
      /\ now \in Nat /\ o \in ViewerLeases /\ LeaseClocks(o)
  BY SlotTypes DEF LaneTypeOK, Clocks, LeaseClocks
<1>1. /\ m.type = "grant" /\ m.v = v /\ m.epoch \in Nat /\ m.host \in Nat
      /\ m.request \in Nat /\ slot[v].rev = m.rev /\ m.host <= now
  BY MsgTypes DEF ReceiveGrant, Answers, Grants, Clocks
<1>2. /\ NoViewerLease \in ViewerLeases /\ Down(NoViewerLease.held) = {}
      /\ NoViewerLease.touch = 0 /\ NoViewerLease.intent = None /\ None <= 0
      /\ NoViewerLease.acked = 0 /\ o.touch \in Nat
  BY <1>0, ViewerEntryTypes, ViewerLeaseTypes DEF NoViewerLease, None
<1>3. Used(v, m.epoch) \in BOOLEAN
  BY DEF Used
<1>4. CASE o.epoch = m.epoch
  <2>1. /\ k \in ViewerLeases /\ k.epoch = o.epoch /\ k.hostAt = m.host
        /\ k.received = now /\ k.seq = o.seq /\ k.held = o.held
        /\ k.pressed = o.pressed /\ k.acked = o.acked /\ k.again = o.again
        /\ k.intent = o.intent /\ k.touch = o.touch
    BY <1>0, <1>1, <1>4 DEF ViewerLeases
  <2> HIDE DEF k
  <2>2. s \in Slots /\ s.lease = k /\ s.rev = slot[v].rev
    BY <1>0, <2>1 DEF Slots
  <2>3. /\ slot' = [slot EXCEPT ![v] = s] /\ reqNo' = reqNo /\ HostSame
        /\ net' = net \cup {}
    BY DEF ReceiveGrant, k
  <2> HIDE DEF s
  <2>4. slot'[v] = s
    BY <1>0, <2>3
  <2>5. LeaseMild(v)
    BY <1>0, <1>1, <1>2, <2>1, <2>2, <2>4 DEF LeaseMild, LeaseClocks
  <2> QED BY <1>0, <2>2, <2>3, <2>5, MildOne
<1>5. CASE o.epoch # m.epoch
  <2>1. /\ k \in ViewerLeases /\ k.epoch = m.epoch /\ k.hostAt = m.host
        /\ k.received = now /\ Down(k.held) = {} /\ k.acked = 0
        /\ k.again = Used(v, m.epoch) /\ k.intent = None /\ k.touch = 0
    <3> DEFINE b == Used(v, m.epoch)
    <3>1. k = [NoViewerLease EXCEPT !.epoch = m.epoch, !.hostAt = m.host,
                                    !.received = now, !.via = m.request, !.again = b]
      BY <1>5
    <3>2. m.epoch \in Nat /\ m.host \in Nat /\ now \in Nat /\ m.request \in Nat
          /\ b \in BOOLEAN /\ NoViewerLease \in ViewerLeases
      BY <1>0, <1>1, <1>2, <1>3
    <3> HIDE DEF k, b
    <3>3. /\ k \in ViewerLeases /\ k.epoch = m.epoch /\ k.hostAt = m.host
          /\ k.received = now /\ k.again = b /\ k.held = NoViewerLease.held
          /\ k.acked = NoViewerLease.acked /\ k.intent = NoViewerLease.intent
          /\ k.touch = NoViewerLease.touch
      BY <3>1, <3>2 DEF ViewerLeases
    <3> QED BY <1>2, <3>3 DEF b
  <2> HIDE DEF k
  <2>2. s \in Slots /\ s.lease = k /\ s.rev = slot[v].rev
    BY <1>0, <2>1 DEF Slots
  <2>3. /\ slot' = [slot EXCEPT ![v] = s] /\ reqNo' = reqNo /\ HostSame
        /\ net' = net \cup {}
    BY DEF ReceiveGrant, k
  <2> HIDE DEF s
  <2>4. slot'[v] = s
    BY <1>0, <2>3
  <2>5. Granted(v, k.epoch, slot'[v].rev)
    BY <1>1, <2>1, <2>2, <2>4 DEF Granted
  <2>6. LeaseMild(v)
    BY <1>0, <1>1, <1>2, <2>1, <2>2, <2>4, <2>5 DEF LeaseMild, LeaseClocks
  <2> QED BY <1>0, <2>2, <2>3, <2>6, MildOne
<1> QED BY <1>4, <1>5

\* A release is confirmed.
LEMMA MildAck ==
  ASSUME LaneTypeOK, Clocks, NEW v \in Viewer, NEW m \in net, ReceiveAck(v, m)
  PROVE  MildViewer
<1> DEFINE o == slot[v].lease
           k == [o EXCEPT !.release = 0, !.acked = m.seq]
           s == [slot[v] EXCEPT !.lease = k]
<1>0. /\ slot[v] \in Slots /\ reqNo \in Nat /\ slot \in [Viewer -> Slots]
      /\ now \in Nat /\ o \in ViewerLeases /\ LeaseClocks(o)
  BY SlotTypes DEF LaneTypeOK, Clocks, LeaseClocks
<1>1. /\ m.type = "ack" /\ m.v = v /\ m.epoch = o.epoch /\ m.seq \in Nat
      /\ o.touch \in Nat
  BY <1>0, MsgTypes, ViewerLeaseTypes DEF ReceiveAck, AckMsgs
<1>2. /\ k \in ViewerLeases /\ k.epoch = o.epoch /\ k.hostAt = o.hostAt
      /\ k.received = o.received /\ k.seq = o.seq /\ k.held = o.held
      /\ k.pressed = o.pressed /\ k.acked = m.seq /\ k.again = o.again
      /\ k.intent = o.intent /\ k.touch = o.touch
  BY <1>0, <1>1 DEF ViewerLeases
<1>3. /\ slot' = [slot EXCEPT ![v] = s] /\ reqNo' = reqNo /\ HostSame
      /\ net' = net \cup {}
  BY <1>0 DEF ReceiveAck, Slots, ViewerLeases
<1> HIDE DEF k
<1>4. s \in Slots /\ s.lease = k /\ s.rev = slot[v].rev
  BY <1>0, <1>2 DEF Slots
<1> HIDE DEF s
<1>5. slot'[v] = s
  BY <1>0, <1>3
<1>6. LeaseMild(v)
  BY <1>0, <1>1, <1>2, <1>4, <1>5 DEF LeaseMild, LeaseClocks
<1> QED BY <1>0, <1>3, <1>4, <1>6, MildOne

\* All steps of a viewer.
LEMMA ViewerCases ==
  ASSUME LaneTypeOK, Clocks
  PROVE  /\ \A v \in Viewer : ViewerStep(v) =>
              MildViewer \/ \E m, k : Sealed(v, m, k)
         /\ \A a \in Addr : SealClose(a) => MildViewer
  BY MildRequest, MildReset, MildActivity, MildClose, MildRefresh, MildGrant,
     MildAck, SealEventSends, SealReleaseSends, SnapshotSends, LaneBounds
     DEF ViewerStep

-----------------------------------------------------------------------------
(* All steps of the lane.                                                  *)

\* A packet from the network is dispatched; its last event is injected; the
\* host does something else that sends nothing.
LaneDispatch(m) == /\ m \in InputMsgs /\ Dispatch(m.v, m.pkt)
                   /\ net' = net \cup Acks(m.v, m.pkt) /\ ViewerSame
LaneCalm == CalmHost /\ UNCHANGED net /\ ViewerSame

\* Every step of the lane is one of these.
LEMMA LaneCases ==
  ASSUME LaneTypeOK, Clocks, [LaneNext]_allVars
  PROVE  \/ MildViewer
         \/ \E v \in Viewer : \E m, k : Sealed(v, m, k)
         \/ \E m \in net : HostReceivesRequest(m) \/ LaneDispatch(m)
         \/ HostInjects \/ LaneCalm
<1>0. TypeOK
  BY DEF LaneTypeOK
<1>1. ASSUME NEW m \in net, HostReceivesInput(m)
      PROVE  LaneDispatch(m) \/ LaneCalm
  <2>1. m \in InputMsgs /\ m.v \in Viewer /\ m.pkt \in Packets /\ ViewerSame
    BY <1>1, MsgTypes, InputTypes DEF HostReceivesInput
  <2>2. CASE Dispatch(m.v, m.pkt) /\ Send(Acks(m.v, m.pkt))
    BY <2>1, <2>2 DEF LaneDispatch, Send
  <2>3. CASE /\ DispatchConsumed(m.v, m.pkt) \/ DispatchReleaseFails(m.v, m.pkt)
             /\ UNCHANGED net
    BY <1>0, <2>1, <2>3, ReceiveCases DEF LaneCalm, CalmHost
  <2> QED BY <1>1, <2>2, <2>3 DEF HostReceivesInput
<1>2. ASSUME NEW m \in net, HostReceivesControl(m)
      PROVE  LaneCalm
  <2>0. UNCHANGED net /\ ViewerSame
    BY <1>2 DEF HostReceivesControl
  <2>1. CalmNext
    <3>1. CASE m.type = "switch" /\ SwitchSource(m.v, m.rev)
      BY <3>1, MsgTypes DEF CalmNext, HostStep
    <3>2. CASE m.type = "activity" /\ SetActivity(m.v, m.rev, m.video)
      BY <3>2, MsgTypes DEF CalmNext, HostStep
    <3>3. CASE m.type = "unsubscribe" /\ Unsubscribe(m.v)
      BY <3>3, MsgTypes DEF CalmNext, HostStep
    <3>4. CASE m.type = "close" /\ CloseConnection(m.a)
      BY <3>4, MsgTypes DEF CalmNext
    <3> QED BY <1>2, <3>1, <3>2, <3>3, <3>4 DEF HostReceivesControl
  <2> QED BY <1>0, <2>0, <2>1, CalmCases DEF LaneCalm
<1>3. CASE HostElse
  <2>1. CalmNext /\ UNCHANGED net /\ ViewerSame
    BY <1>3 DEF HostElse, CalmNext, CalmJob, HostStep
  <2> QED BY <1>0, <2>1, CalmCases DEF LaneCalm
<1>4. CASE UNCHANGED allVars
  <2>1. UNCHANGED vars /\ UNCHANGED net /\ ViewerSame
    BY <1>4 DEF allVars, laneVars, ViewerSame
  <2> QED BY <1>0, <2>1, CalmCases DEF LaneCalm
<1> QED BY <1>1, <1>2, <1>3, <1>4, ViewerCases DEF LaneNext

\* A confirmation.
LEMMA AckTypes ==
  ASSUME NEW v \in Viewer, NEW pkt \in Packets
  PROVE  /\ Acks(v, pkt) \subseteq AckMsgs
         /\ \A m \in Acks(v, pkt) :
              /\ m.type = "ack" /\ m.v = v /\ m.epoch = pkt.epoch /\ m.seq = pkt.seq
              /\ job' = Idle /\ pkt.body.kind = "release"
  BY DEF Acks, AckMsgs, Packets

\* The grant that answers a request.
LEMMA GrantSent ==
  ASSUME LaneTypeOK, Ownership', NEW m \in net, HostReceivesRequest(m)
  PROVE  \E g \in Grants :
           /\ net' = net \cup {g} /\ g.type = "grant" /\ g.v = m.v
           /\ g.rev = m.rev /\ g.epoch = lease'[m.v].epoch /\ g.host = now
           /\ g.request = m.request
<1> DEFINE g == [type |-> "grant", v |-> m.v, epoch |-> lease'[m.v].epoch,
                 rev |-> m.rev, request |-> m.request, host |-> now]
<1>1. net' = net \cup {g}
  BY DEF HostReceivesRequest, Send
<1>2. m.v \in Viewer /\ m.rev \in 0..MaxRev /\ m.request \in Nat \ {0}
  BY MsgTypes DEF HostReceivesRequest
<1>3. lease'[m.v].epoch \in Nat /\ now \in Nat
  BY <1>2 DEF Ownership, TypeOK, LaneTypeOK, Leases
<1>4. g \in Grants
  BY <1>2, <1>3 DEF Grants
<1> QED BY <1>1, <1>4

\* What the host leaves alone of the viewer.
LEMMA HostSides ==
  ASSUME LaneTypeOK, Ownership',
         \/ \E m \in net : HostReceivesRequest(m) \/ LaneDispatch(m)
         \/ HostInjects \/ LaneCalm
  PROVE  /\ UNCHANGED <<slot, reqNo>>
         /\ \E ms \in SUBSET (Grants \cup AckMsgs) : net' = net \cup ms
         /\ now <= now' /\ now' \in Nat
         /\ \A m \in net' : m \notin net /\ m.type = "grant" => m.host <= now
<1> DEFINE Kept == slot' = slot /\ reqNo' = reqNo /\ now' \in {now, now + 1}
           Sent == \E ms \in SUBSET (Grants \cup AckMsgs) : net' = net \cup ms
           Dated == \A m \in net' : m \notin net /\ m.type = "grant" => m.host <= now
<1>0. now \in Nat /\ now' \in Nat /\ TypeOK
  BY DEF Ownership, TypeOK, LaneTypeOK
<1>1. ASSUME NEW m \in net, HostReceivesRequest(m)
      PROVE  Kept /\ Sent /\ Dated
  <2>1. Kept
    BY <1>1 DEF HostReceivesRequest, ViewerSame, RequestBinding
  <2>2. PICK g \in Grants : net' = net \cup {g} /\ g.host = now
    BY <1>1, GrantSent
  <2>3. {g} \in SUBSET (Grants \cup AckMsgs)
    OBVIOUS
  <2>4. Sent
    BY <2>2, <2>3
  <2>5. Dated
    BY <1>0, <2>2
  <2> QED BY <2>1, <2>4, <2>5
<1>2. ASSUME NEW v \in Viewer, NEW pkt \in Packets, net' = net \cup Acks(v, pkt)
      PROVE  Sent /\ Dated
  <2>1. Acks(v, pkt) \in SUBSET (Grants \cup AckMsgs)
    BY AckTypes
  <2>2. \A m \in Acks(v, pkt) : m.type # "grant"
    BY AckTypes
  <2> QED BY <1>2, <2>1, <2>2
<1> HIDE DEF Sent, Dated
<1>3. ASSUME NEW m \in net, LaneDispatch(m)
      PROVE  Kept /\ Sent /\ Dated
  <2>1. m.v \in Viewer /\ m.pkt \in Packets
    BY <1>3, InputTypes DEF LaneDispatch
  <2>2. Kept /\ net' = net \cup Acks(m.v, m.pkt)
    BY <1>3 DEF LaneDispatch, Dispatch, ViewerSame
  <2> QED BY <1>2, <2>1, <2>2
<1>4. ASSUME HostInjects PROVE Kept /\ Sent /\ Dated
  <2>1. job.v \in Viewer /\ job.pkt \in Packets
    BY <1>0, <1>4, JobTypes DEF HostInjects, Inject, AtNative, Injecting, TypeOK
  <2>2. Kept /\ net' = net \cup Acks(job.v, job.pkt)
    BY <1>4 DEF HostInjects, Inject, Send, ViewerSame
  <2> QED BY <1>2, <2>1, <2>2
<1>5. ASSUME LaneCalm PROVE Kept /\ Sent /\ Dated
  <2>1. Kept /\ net' = net
    BY <1>5 DEF LaneCalm, ViewerSame, CalmHost, QuietHost, AsideHost, TakeOver,
                Watchdog, Tick
  <2>2. {} \in SUBSET (Grants \cup AckMsgs) /\ net = net \cup {}
    OBVIOUS
  <2>3. Sent
    BY <2>1, <2>2 DEF Sent
  <2>4. Dated
    BY <2>1 DEF Dated
  <2> QED BY <2>1, <2>3, <2>4
<1> HIDE DEF Kept
<1>6. Kept /\ Sent /\ Dated
  BY <1>1, <1>3, <1>4, <1>5
<1>7. slot' = slot /\ reqNo' = reqNo /\ now <= now'
  BY <1>0, <1>6 DEF Kept
<1> QED BY <1>0, <1>6, <1>7 DEF Sent, Dated

\* The types of the lane are kept.
LEMMA LaneTypeStep ==
  ASSUME LaneTypeOK, Clocks, Ownership', [LaneNext]_allVars
  PROVE  LaneTypeOK'
<1>1. TypeOK'
  BY DEF Ownership
<1>2. /\ slot \in [Viewer -> Slots] /\ reqNo \in Nat
      /\ net \subseteq Grants \cup InputMsgs \cup AckMsgs \cup Controls
  BY DEF LaneTypeOK
<1>3. CASE MildViewer
  BY <1>1, <1>2, <1>3 DEF MildViewer, LaneTypeOK
<1>4. ASSUME NEW v \in Viewer, NEW m, NEW k, Sealed(v, m, k)
      PROVE  LaneTypeOK'
  <2>1. slot' \in [Viewer -> Slots]
    BY <1>2, <1>4 DEF Sealed, Slots
  <2> QED BY <1>1, <1>2, <1>4, <2>1 DEF Sealed, LaneTypeOK
<1>5. CASE \/ \E m \in net : HostReceivesRequest(m) \/ LaneDispatch(m)
           \/ HostInjects \/ LaneCalm
  BY <1>1, <1>2, <1>5, HostSides DEF LaneTypeOK
<1> QED BY <1>3, <1>4, <1>5, LaneCases

\* Time only moves on, and every packet and every estimate is dated before it.
LEMMA ClocksStep ==
  ASSUME LaneTypeOK, Clocks, Ownership', [LaneNext]_allVars
  PROVE  Clocks'
<1>0. now \in Nat /\ now' \in Nat
  BY DEF Ownership, TypeOK, LaneTypeOK
<1>1. CASE MildViewer
  <2>1. now' = now
    BY <1>1 DEF MildViewer, HostSame, vars
  <2>2. \A m \in net' \ net : m.type \notin {"grant", "input"}
    BY <1>1 DEF MildViewer, Controls
  <2> QED BY <1>1, <2>1, <2>2 DEF MildViewer, LeaseMild, LeaseClocks, Clocks, NeverAhead
<1>2. ASSUME NEW v \in Viewer, NEW m, NEW k, Sealed(v, m, k)
      PROVE  Clocks'
  <2>1. now' = now /\ net' = net \cup {m} /\ m.type = "input" /\ m.pkt.created <= now
    BY <1>2, InputTypes DEF Sealed, HostSame, vars
  <2>2. slot'[v].lease = k /\ \A w \in Viewer \ {v} : slot'[w] = slot[w]
    BY <1>2 DEF Sealed, LaneTypeOK, Slots
  <2>3. LeaseClocks(k)
    BY <1>2 DEF Sealed
  <2> QED BY <2>1, <2>2, <2>3 DEF Clocks, NeverAhead, LeaseClocks
<1>3. CASE \/ \E m \in net : HostReceivesRequest(m) \/ LaneDispatch(m)
           \/ HostInjects \/ LaneCalm
  <2>1. /\ UNCHANGED slot /\ now <= now'
        /\ \A m \in net' : m \notin net /\ m.type = "grant" => m.host <= now
        /\ \E ms \in SUBSET (Grants \cup AckMsgs) : net' = net \cup ms
    BY <1>3, HostSides
  <2>2. \A m \in net' : m \in net \/ m \in Grants \cup AckMsgs
    BY <2>1
  <2>3. ASSUME NEW m \in net', m.type = "grant" PROVE m.host <= now'
    <3>1. m.host \in Nat
      BY <2>2, <2>3, MsgTypes DEF Grants, AckMsgs
    <3>2. m.host <= now
      BY <2>1, <2>3 DEF Clocks
    <3> QED BY <1>0, <2>1, <3>1, <3>2
  <2>4. ASSUME NEW m \in net', m.type = "input" PROVE m.pkt.created <= now'
    <3>1. m \in net
      BY <2>2, <2>4 DEF Grants, AckMsgs
    <3>2. m.pkt.created \in Nat /\ m.pkt.created <= now
      BY <2>4, <3>1, MsgTypes, InputTypes DEF Clocks, NeverAhead
    <3> QED BY <1>0, <2>1, <3>2
  <2>5. ASSUME NEW v \in Viewer
        PROVE  LET l == slot'[v].lease IN
               /\ l.hostAt <= l.received /\ l.received <= now'
               /\ l.intent <= l.touch /\ l.touch <= now'
               /\ Down(l.held) # {} => l.intent # None
    <3> DEFINE l == slot[v].lease
    <3>1. l.received \in Nat /\ l.touch \in Nat
      BY SlotTypes, ViewerLeaseTypes
    <3>2. /\ l.hostAt <= l.received /\ l.received <= now
          /\ l.intent <= l.touch /\ l.touch <= now
          /\ Down(l.held) # {} => l.intent # None
      BY DEF Clocks
    <3>3. slot'[v].lease = l
      BY <2>1
    <3> HIDE DEF l
    <3> QED BY <1>0, <2>1, <3>1, <3>2, <3>3
  <2> QED BY <2>3, <2>4, <2>5 DEF Clocks, NeverAhead
<1> QED BY <1>1, <1>2, <1>3, LaneCases

\* Requests and leases stay those of the slot as it was last opened.
LEMMA SlotsStep ==
  ASSUME LaneTypeOK, Clocks, SlotsCurrent, Ownership', [LaneNext]_allVars
  PROVE  SlotsCurrent'
<1> DEFINE Good(s) == /\ s.reset <= reqNo'
                      /\ s.request # 0 => s.open /\ s.enabled /\ s.request > s.reset
                      /\ s.lease.epoch # 0 => s.open /\ s.enabled /\ s.lease.via > s.reset
<1>0. /\ slot \in [Viewer -> Slots] /\ reqNo \in Nat
      /\ \A w \in Viewer : slot[w] \in Slots /\ slot[w].reset \in Nat
  BY SlotTypes DEF LaneTypeOK
<1>1. reqNo' \in {reqNo, reqNo + 1} => \A w \in Viewer : Good(slot[w])
  BY <1>0 DEF SlotsCurrent
<1>2. reqNo' = reqNo => Good(NoSlot) /\ \A rev : Good(Slot(rev))
  BY <1>0 DEF NoSlot, Slot, NoViewerLease
<1>3. ASSUME NEW v \in Viewer, NEW s, slot' = [slot EXCEPT ![v] = s],
             reqNo' \in {reqNo, reqNo + 1}, Good(s)
      PROVE  SlotsCurrent'
  <2>1. \A w \in Viewer : Good(slot'[w])
    <3> HIDE DEF Good
    <3> QED BY <1>0, <1>1, <1>3
  <2> QED BY <2>1 DEF SlotsCurrent
<1>4. ASSUME NEW v \in Viewer, NEW k, slot' = [slot EXCEPT ![v].lease = k],
             reqNo' = reqNo, k.epoch \in {0, slot[v].lease.epoch},
             k.epoch # 0 => k.via = slot[v].lease.via
      PROVE  SlotsCurrent'
  <2> DEFINE s == [slot[v] EXCEPT !.lease = k]
  <2>1. /\ s.lease = k /\ s.open = slot[v].open /\ s.enabled = slot[v].enabled
        /\ s.request = slot[v].request /\ s.reset = slot[v].reset
    BY <1>0 DEF Slots
  <2>2. slot' = [slot EXCEPT ![v] = s]
    BY <1>4
  <2> HIDE DEF s
  <2>3. Good(s)
    BY <1>1, <1>4, <2>1
  <2> QED BY <1>3, <1>4, <2>2, <2>3
<1>5. ASSUME NEW v \in Viewer, SendRequest(v)
      PROVE  SlotsCurrent'
  <2> DEFINE s == [slot[v] EXCEPT !.request = reqNo + 1]
  <2>1. /\ s.lease = slot[v].lease /\ s.open = slot[v].open
        /\ s.enabled = slot[v].enabled /\ s.request = reqNo + 1
        /\ s.reset = slot[v].reset
    BY <1>0 DEF Slots
  <2>2. /\ slot' = [slot EXCEPT ![v] = s] /\ reqNo' = reqNo + 1
        /\ slot[v].open /\ slot[v].enabled
    BY <1>5 DEF SendRequest
  <2> HIDE DEF s
  <2>3. Good(s)
    BY <1>0, <1>1, <2>1, <2>2 DEF SlotsCurrent
  <2> QED BY <1>3, <2>2, <2>3
<1>6. ASSUME NEW v \in Viewer, DropLease(v)
      PROVE  SlotsCurrent'
  BY <1>4, <1>6 DEF DropLease, NoViewerLease
<1>7. ASSUME NEW v \in Viewer, SealSwitch(v) \/ SealUnsubscribe(v)
      PROVE  SlotsCurrent'
  <2>1. reqNo' = reqNo /\ (\/ slot' = [slot EXCEPT ![v] = NoSlot]
                           \/ slot' = [slot EXCEPT ![v] = Slot(slot[v].rev + 1)])
    BY <1>7 DEF SealSwitch, SealUnsubscribe
  <2> HIDE DEF Good
  <2> QED BY <1>2, <1>3, <2>1
<1>8. ASSUME NEW a \in Addr, SealClose(a)
      PROVE  SlotsCurrent'
  <2>1. /\ reqNo' = reqNo
        /\ slot' = [v \in Viewer |-> IF v[1] = a THEN NoSlot ELSE slot[v]]
    BY <1>8 DEF SealClose
  <2>2. \A w \in Viewer : Good(slot'[w])
    <3> HIDE DEF Good
    <3> QED BY <1>1, <1>2, <2>1
  <2> QED BY <2>2 DEF SlotsCurrent
<1>9. ASSUME NEW v \in Viewer, NEW rev, NEW video \in BOOLEAN,
             SealActivity(v, rev, video)
      PROVE  SlotsCurrent'
  <2> DEFINE s == IF video THEN [slot[v] EXCEPT !.enabled = TRUE]
                  ELSE [slot[v] EXCEPT !.enabled = FALSE, !.lease = NoViewerLease,
                                       !.request = 0, !.reset = reqNo]
  <2>1. \/ /\ s.lease = slot[v].lease /\ s.open = slot[v].open /\ s.enabled = TRUE
           /\ s.request = slot[v].request /\ s.reset = slot[v].reset
        \/ s.lease = NoViewerLease /\ s.request = 0 /\ s.reset = reqNo
    BY <1>0 DEF Slots
  <2>2. slot' = [slot EXCEPT ![v] = s] /\ reqNo' = reqNo
    BY <1>9 DEF SealActivity
  <2> HIDE DEF s
  <2>3. NoViewerLease.epoch = 0
    BY DEF NoViewerLease
  <2>4. Good(s)
    BY <1>0, <1>1, <2>1, <2>2, <2>3 DEF SlotsCurrent
  <2> QED BY <1>3, <2>2, <2>4
<1>10. ASSUME NEW v \in Viewer, Refresh(v)
       PROVE  SlotsCurrent'
  <2> DEFINE o == slot[v].lease
             l == ExpireFrontend(o)
             k == IF l.stalled \/ Down(l.held) = {} THEN l
                  ELSE [l EXCEPT !.intent = now, !.touch = now]
  <2>1. l \in ViewerLeases /\ l.epoch = o.epoch /\ l.via = o.via
    BY SlotTypes, FrontendTypes
  <2>2. slot' = [slot EXCEPT ![v].lease = k] /\ reqNo' = reqNo
    BY <1>10 DEF Refresh
  <2> HIDE DEF l
  <2>3. k.epoch = o.epoch /\ k.via = o.via
    BY <2>1 DEF ViewerLeases
  <2> HIDE DEF k
  <2> QED BY <1>4, <2>2, <2>3
<1>11. ASSUME NEW v \in Viewer, NEW m \in net, ReceiveGrant(v, m)
       PROVE  SlotsCurrent'
  <2> DEFINE o == slot[v].lease
             fresh == [NoViewerLease EXCEPT !.epoch = m.epoch, !.hostAt = m.host,
                                            !.received = now, !.via = m.request,
                                            !.again = Used(v, m.epoch)]
             k == IF o.epoch = m.epoch
                  THEN [o EXCEPT !.hostAt = m.host, !.received = now] ELSE fresh
             s == [slot[v] EXCEPT !.request = 0, !.lease = k]
  <2>1. m.request \in Nat \ {0}
    BY <1>11, MsgTypes DEF ReceiveGrant, Grants
  <2>2. slot[v].open /\ slot[v].enabled /\ slot[v].request = m.request
    BY <1>11 DEF ReceiveGrant, Answers
  <2>3. m.request > slot[v].reset
    BY <2>1, <2>2 DEF SlotsCurrent
  <2>4. \/ k.epoch = o.epoch /\ k.via = o.via
        \/ k.via = m.request
    BY SlotTypes DEF NoViewerLease, ViewerLeases
  <2>5. slot' = [slot EXCEPT ![v] = s] /\ reqNo' = reqNo
    BY <1>11 DEF ReceiveGrant
  <2> HIDE DEF k
  <2>6. /\ s.lease = k /\ s.open = slot[v].open /\ s.enabled = slot[v].enabled
        /\ s.request = 0 /\ s.reset = slot[v].reset
    BY <1>0 DEF Slots
  <2> HIDE DEF s
  <2>7. Good(s)
    BY <1>0, <1>1, <2>2, <2>3, <2>4, <2>5, <2>6
  <2> QED BY <1>3, <2>5, <2>7
<1>12. ASSUME NEW v \in Viewer, NEW m \in net, ReceiveAck(v, m)
       PROVE  SlotsCurrent'
  <2> DEFINE o == slot[v].lease
             k == [o EXCEPT !.release = 0, !.acked = m.seq]
  <2>1. k.epoch = o.epoch /\ k.via = o.via
    BY SlotTypes DEF ViewerLeases
  <2>2. slot' = [slot EXCEPT ![v].lease = k] /\ reqNo' = reqNo
    BY <1>0, <1>12 DEF ReceiveAck, Slots
  <2> HIDE DEF k
  <2> QED BY <1>4, <2>1, <2>2
<1>13. ASSUME NEW v \in Viewer, NEW m, NEW k, Sealed(v, m, k)
       PROVE  SlotsCurrent'
  BY <1>4, <1>13 DEF Sealed
<1>15. ASSUME NEW v \in Viewer, ViewerStep(v)
       PROVE  SlotsCurrent'
  <2> HIDE DEF Good
  <2>1. ASSUME NEW ev \in Inputs, SealEvent(v, ev) PROVE SlotsCurrent'
    BY <1>13, <2>1, SealEventSends, LaneBounds
  <2> QED BY <1>5, <1>6, <1>7, <1>9, <1>10, <1>11, <1>12, <1>13, <1>15, <2>1,
             SealReleaseSends, SnapshotSends
          DEF ViewerStep
<1>16. ASSUME NEW m \in net, HostReceivesControl(m) \/ HostReceivesInput(m)
       PROVE  SlotsCurrent'
  BY <1>16
     DEF HostReceivesControl, HostReceivesInput, ViewerSame, SlotsCurrent
<1>17. ASSUME HostElse \/ HostInjects \/ UNCHANGED allVars
             \/ \E m \in net : HostReceivesRequest(m)
       PROVE  SlotsCurrent'
  BY <1>17 DEF HostElse, HostInjects, allVars, laneVars, HostReceivesRequest,
               ViewerSame, SlotsCurrent
<1> HIDE DEF Good
<1> QED BY <1>8, <1>15, <1>16, <1>17 DEF LaneNext

-----------------------------------------------------------------------------
(* Grants and the packets sent under them.                                 *)

\* What each kind of step adds to the network.
LEMMA NetSteps ==
  ASSUME LaneTypeOK, Ownership'
  PROVE  /\ MildViewer => /\ net \subseteq net' /\ UNCHANGED vars
                          /\ \A m \in net' \ net : m.type \notin {"grant", "input", "ack"}
         /\ \A v \in Viewer : \A n, k : Sealed(v, n, k) =>
              /\ net' = net \cup {n} /\ n.type = "input" /\ UNCHANGED vars
              /\ slot'[v].lease = k /\ slot'[v].rev = slot[v].rev
              /\ \A w \in Viewer \ {v} : slot'[w] = slot[w]
         /\ \A n \in net : LaneDispatch(n) =>
              /\ n.v \in Viewer /\ n.pkt \in Packets /\ n.type = "input"
              /\ UNCHANGED slot /\ net \subseteq net'
              /\ \A m \in net' \ net :
                   /\ m.type = "ack" /\ m.v = n.v /\ m.epoch = n.pkt.epoch
                   /\ m.seq = n.pkt.seq /\ job' = Idle /\ n.pkt.body.kind = "release"
         /\ HostInjects =>
              /\ Inject /\ job.v \in Viewer /\ job.pkt \in Packets
              /\ UNCHANGED slot /\ net \subseteq net'
              /\ \A m \in net' \ net :
                   /\ m.type = "ack" /\ m.v = job.v /\ m.epoch = job.pkt.epoch
                   /\ m.seq = job.pkt.seq /\ job' = Idle
                   /\ job.pkt.body.kind = "release"
         /\ LaneCalm => UNCHANGED <<slot, net>> /\ CalmHost
<1>0. TypeOK /\ slot \in [Viewer -> Slots]
  BY DEF LaneTypeOK
<1>1. ASSUME MildViewer
      PROVE  /\ net \subseteq net' /\ UNCHANGED vars
             /\ \A m \in net' \ net : m.type \notin {"grant", "input", "ack"}
  BY <1>1 DEF MildViewer, Controls, HostSame
<1>2. ASSUME NEW v \in Viewer, NEW n, NEW k, Sealed(v, n, k)
      PROVE  /\ net' = net \cup {n} /\ n.type = "input" /\ UNCHANGED vars
             /\ slot'[v].lease = k /\ slot'[v].rev = slot[v].rev
             /\ \A w \in Viewer \ {v} : slot'[w] = slot[w]
  <2>1. slot' = [slot EXCEPT ![v].lease = k] /\ n \in InputMsgs
    BY <1>2 DEF Sealed
  <2>2. slot'[v] = [slot[v] EXCEPT !.lease = k] /\ slot[v] \in Slots
    BY <1>0, <2>1
  <2>3. slot'[v].lease = k /\ slot'[v].rev = slot[v].rev
    BY <2>2 DEF Slots
  <2>4. \A w \in Viewer \ {v} : slot'[w] = slot[w]
    BY <1>0, <2>1
  <2> QED BY <1>2, <2>1, <2>3, <2>4, InputTypes DEF Sealed, HostSame
<1>3. ASSUME NEW n \in net, LaneDispatch(n)
      PROVE  /\ n.v \in Viewer /\ n.pkt \in Packets /\ n.type = "input"
             /\ UNCHANGED slot /\ net \subseteq net'
             /\ \A m \in net' \ net :
                  /\ m.type = "ack" /\ m.v = n.v /\ m.epoch = n.pkt.epoch
                  /\ m.seq = n.pkt.seq /\ job' = Idle /\ n.pkt.body.kind = "release"
  <2>1. n.v \in Viewer /\ n.pkt \in Packets /\ n.type = "input"
    BY <1>3, InputTypes DEF LaneDispatch
  <2>2. net' = net \cup Acks(n.v, n.pkt) /\ UNCHANGED slot
    BY <1>3 DEF LaneDispatch, ViewerSame
  <2> QED BY <2>1, <2>2, AckTypes
<1>4. ASSUME HostInjects
      PROVE  /\ Inject /\ job.v \in Viewer /\ job.pkt \in Packets
             /\ UNCHANGED slot /\ net \subseteq net'
             /\ \A m \in net' \ net :
                  /\ m.type = "ack" /\ m.v = job.v /\ m.epoch = job.pkt.epoch
                  /\ m.seq = job.pkt.seq /\ job' = Idle
                  /\ job.pkt.body.kind = "release"
  <2>1. Inject /\ job.v \in Viewer /\ job.pkt \in Packets
    BY <1>0, <1>4, JobTypes DEF HostInjects, Inject, AtNative, Injecting, TypeOK
  <2>2. net' = net \cup Acks(job.v, job.pkt) /\ UNCHANGED slot
    BY <1>4 DEF HostInjects, Send, ViewerSame
  <2> QED BY <2>1, <2>2, AckTypes
<1>5. LaneCalm => UNCHANGED <<slot, net>> /\ CalmHost
  BY DEF LaneCalm, ViewerSame
<1> QED BY <1>1, <1>2, <1>3, <1>4, <1>5

\* What the calm steps of the host do to leases and to the owner.
LEMMA CalmLeases ==
  ASSUME TypeOK, CalmHost
  PROVE  /\ \A w \in Viewer : LeaseQuiet(w)
         /\ nextEpoch' \in {nextEpoch, nextEpoch + 1}
         /\ active' \in {active, Released(active)} \/ active'.native = {}
<1>0. /\ lease \in [Viewer -> Leases] /\ NoLease.epoch = 0 /\ NoLease.held = Empty
      /\ \A w \in Viewer : lease[w].high \in Nat
  BY EntryTypes DEF TypeOK, Leases
<1>1. UNCHANGED lease => \A w \in Viewer : LeaseQuiet(w)
  BY <1>0 DEF LeaseQuiet
<1>2. CASE QuietHost
  BY <1>2 DEF QuietHost
<1>3. CASE AsideHost
  BY <1>1, <1>3 DEF AsideHost
<1>4. CASE TakeOver
  BY <1>1, <1>4 DEF TakeOver, Released
<1>5. CASE Watchdog
  <2>1. \A w \in Viewer : LeaseQuiet(w)
    BY <1>0, <1>5 DEF Watchdog, LeaseQuiet
  <2> QED BY <1>5, <2>1 DEF Watchdog
<1>6. CASE Tick
  BY <1>1, <1>6 DEF Tick
<1> QED BY <1>2, <1>3, <1>4, <1>5, <1>6 DEF CalmHost

\* A binding is a calm step; the grant names the epoch and source it leaves.
LEMMA RequestCalm ==
  ASSUME LaneTypeOK, \A w \in Viewer : lease[w].epoch < nextEpoch,
         NEW m \in net, HostReceivesRequest(m)
  PROVE  /\ QuietHost /\ UNCHANGED slot /\ m.v \in Viewer
         /\ lease'[m.v].rev = m.rev /\ lease'[m.v].epoch # 0
         /\ lease'[m.v].epoch < nextEpoch'
<1>0. /\ TypeOK /\ m.v \in Viewer /\ m.rev \in 0..MaxRev
      /\ RequestBinding(m.v, m.rev) /\ UNCHANGED slot
  BY MsgTypes DEF LaneTypeOK, HostReceivesRequest, ViewerSame
<1>1. QuietHost
  <2>1. CalmNext
    BY <1>0 DEF CalmNext, HostStep
  <2>2. job = Idle /\ UNCHANGED <<job, now, watchAt, sub>>
    BY <1>0 DEF RequestBinding
  <2>3. ~Injecting' /\ UNCHANGED <<now, watchAt>>
    BY <2>2 DEF Injecting, Idle
  <2>4. active' \in {active, Released(active)}
    BY <1>0, ReleasedTypes DEF RequestBinding, TypeOK
  <2>5. nextEpoch' \in {nextEpoch, nextEpoch + 1} /\ \A w \in Viewer : LeaseQuiet(w)
    BY <1>0, <2>1, CalmCases, CalmLeases
  <2> QED BY <2>3, <2>4, <2>5 DEF QuietHost
<1>2. lease \in [Viewer -> Leases] /\ nextEpoch \in Nat \ {0}
  BY <1>0 DEF TypeOK
<1>3. CASE Rotates(m.v)
  <2>1. lease'[m.v] = NewLease(sub[m.v], nextEpoch) /\ nextEpoch' = nextEpoch + 1
    BY <1>0, <1>2, <1>3 DEF RequestBinding
  <2>2. lease'[m.v].rev = sub[m.v].rev /\ lease'[m.v].epoch = nextEpoch
    BY <2>1 DEF NewLease
  <2>3. m.rev = sub[m.v].rev
    BY <1>0 DEF RequestBinding
  <2> QED BY <1>0, <1>1, <1>2, <2>1, <2>2, <2>3
<1>4. CASE ~Rotates(m.v)
  <2>1. lease' = lease /\ nextEpoch' = nextEpoch /\ m.rev = sub[m.v].rev
    BY <1>0, <1>4 DEF RequestBinding
  <2>2. lease[m.v].epoch # 0 /\ lease[m.v].rev = sub[m.v].rev
    BY <1>4 DEF Rotates
  <2> QED BY <1>0, <1>1, <2>1, <2>2
<1> QED BY <1>3, <1>4

\* Grants keep naming the peer and the source of their epoch.
LEMMA GrantsStep ==
  ASSUME LaneTypeOK, Clocks, Ownership, Ownership', GrantsMatch, [LaneNext]_allVars
  PROVE  GrantsMatch'
<1> DEFINE Match(g) == /\ g.epoch # 0 /\ g.epoch < nextEpoch'
                       /\ \A w \in Viewer : lease'[w].epoch = g.epoch =>
                            w = g.v /\ lease'[w].rev = g.rev
<1>0. /\ TypeOK /\ nextEpoch \in Nat /\ nextEpoch' \in Nat
      /\ \A w \in Viewer : lease[w].epoch < nextEpoch
      /\ \A v, w \in Viewer : v # w /\ lease'[v].epoch = lease'[w].epoch
                              => lease'[v].epoch = 0
  BY DEF Ownership, TypeOK, EpochsFresh
<1>1. ASSUME NEW g \in net, g.type = "grant",
             nextEpoch' \in {nextEpoch, nextEpoch + 1},
             \A w \in Viewer : \/ lease'[w].epoch \in {0, nextEpoch}
                               \/ /\ lease'[w].epoch = lease[w].epoch
                                  /\ lease'[w].rev = lease[w].rev
      PROVE  Match(g)
  <2>1. g.epoch \in Nat
    BY <1>1, MsgTypes DEF Grants
  <2>2. /\ g.epoch # 0 /\ g.epoch < nextEpoch
        /\ \A w \in Viewer : lease[w].epoch = g.epoch => w = g.v /\ lease[w].rev = g.rev
    BY <1>1 DEF GrantsMatch
  <2> QED BY <1>0, <1>1, <2>1, <2>2
<1>2. ASSUME UNCHANGED vars, \A m \in net' \ net : m.type # "grant"
      PROVE  GrantsMatch'
  BY <1>2 DEF vars, GrantsMatch
<1>3. CASE MildViewer
  BY <1>2, <1>3, NetSteps
<1>4. ASSUME NEW v \in Viewer, NEW n, NEW k, Sealed(v, n, k)
      PROVE  GrantsMatch'
  BY <1>2, <1>4, NetSteps
<1>5. CASE LaneCalm
  <2>1. net' = net /\ nextEpoch' \in {nextEpoch, nextEpoch + 1}
        /\ \A w \in Viewer : LeaseQuiet(w)
    BY <1>0, <1>5, NetSteps, CalmLeases
  <2>2. \A g \in net : g.type = "grant" => Match(g)
    BY <1>1, <2>1 DEF LeaseQuiet
  <2> QED BY <2>1, <2>2 DEF GrantsMatch
<1>6. ASSUME NEW n \in net, LaneDispatch(n)
      PROVE  GrantsMatch'
  <2>1. /\ \A m \in net' \ net : m.type # "grant"
        /\ n.v \in Viewer /\ n.pkt \in Packets /\ Dispatch(n.v, n.pkt)
    BY <1>6, NetSteps DEF LaneDispatch
  <2>2. /\ nextEpoch' = nextEpoch
        /\ LeaseAfter(lease[n.v], n.pkt).epoch = lease[n.v].epoch
        /\ LeaseAfter(lease[n.v], n.pkt).rev = lease[n.v].rev
        /\ lease' = [lease EXCEPT ![n.v] = LeaseAfter(lease[n.v], n.pkt)]
        /\ lease \in [Viewer -> Leases]
    BY <1>0, <2>1, AdmittedLease DEF TypeOK
  <2>3. \A g \in net : g.type = "grant" => Match(g)
    BY <1>1, <2>2
  <2> QED BY <2>1, <2>3 DEF GrantsMatch
<1>7. CASE HostInjects
  <2>1. (\A m \in net' \ net : m.type # "grant") /\ UNCHANGED <<lease, nextEpoch>>
    BY <1>7, NetSteps DEF Inject
  <2> QED BY <2>1 DEF GrantsMatch
<1>8. ASSUME NEW m \in net, HostReceivesRequest(m)
      PROVE  GrantsMatch'
  <2>1. /\ QuietHost /\ m.v \in Viewer /\ lease'[m.v].rev = m.rev
        /\ lease'[m.v].epoch # 0 /\ lease'[m.v].epoch < nextEpoch'
    BY <1>0, <1>8, RequestCalm
  <2>2. PICK g \in Grants : /\ net' = net \cup {g} /\ g.v = m.v
                            /\ g.rev = m.rev /\ g.epoch = lease'[m.v].epoch
    BY <1>8, GrantSent
  <2>3. Match(g)
    BY <1>0, <2>1, <2>2
  <2>4. \A h \in net : h.type = "grant" => Match(h)
    BY <1>1, <2>1 DEF QuietHost, LeaseQuiet
  <2> QED BY <2>2, <2>3, <2>4 DEF GrantsMatch
<1> HIDE DEF Match
<1> QED BY <1>3, <1>4, <1>5, <1>6, <1>7, <1>8, LaneCases

\* What the viewer holds and sends keeps coming through its grants.
LEMMA SentStep ==
  ASSUME LaneTypeOK, Clocks, Ownership', SentUnderGrant, [LaneNext]_allVars
  PROVE  SentUnderGrant'
<1>1. ASSUME net \subseteq net', NEW v, NEW e, NEW rev, Granted(v, e, rev)
      PROVE  Granted(v, e, rev)'
  BY <1>1 DEF Granted
<1>2. ASSUME net \subseteq net', \A m \in net' \ net : m.type # "input",
             \A v \in Viewer :
               LET k == slot'[v].lease IN
               \/ k.epoch = 0
               \/ k.epoch = slot[v].lease.epoch /\ slot'[v].rev = slot[v].rev
               \/ Granted(v, k.epoch, slot'[v].rev)
      PROVE  SentUnderGrant'
  <2>1. ASSUME NEW v \in Viewer, slot'[v].lease.epoch # 0
        PROVE  Granted(v, slot[v].lease.epoch, slot[v].rev)'
    <3>1. Granted(v, slot'[v].lease.epoch, slot'[v].rev)
      BY <1>2, <2>1 DEF SentUnderGrant
    <3> QED BY <1>2, <3>1 DEF Granted
  <2>2. ASSUME NEW m \in net', m.type = "input"
        PROVE  Granted(m.v, m.pkt.epoch, m.rev)'
    <3>1. Granted(m.v, m.pkt.epoch, m.rev)
      BY <1>2, <2>2 DEF SentUnderGrant
    <3> QED BY <1>1, <1>2, <3>1
  <2> QED BY <2>1, <2>2 DEF SentUnderGrant
<1>3. CASE MildViewer
  <2>1. net \subseteq net' /\ \A m \in net' \ net : m.type # "input"
    BY <1>3, NetSteps
  <2> QED BY <1>2, <1>3, <2>1 DEF MildViewer, LeaseMild
<1>4. ASSUME NEW v \in Viewer, NEW n, NEW k, Sealed(v, n, k)
      PROVE  SentUnderGrant'
  <2>1. /\ net' = net \cup {n} /\ slot'[v].lease = k /\ slot'[v].rev = slot[v].rev
        /\ \A w \in Viewer \ {v} : slot'[w] = slot[w]
    BY <1>4, NetSteps
  <2>2. /\ k.epoch = slot[v].lease.epoch /\ slot[v].lease.epoch # 0
        /\ n.v = v /\ n.rev = slot[v].rev /\ n.pkt.epoch = slot[v].lease.epoch
    BY <1>4 DEF Sealed
  <2>3. Granted(v, slot[v].lease.epoch, slot[v].rev)
    BY <2>2 DEF SentUnderGrant
  <2>4. ASSUME NEW w \in Viewer, slot'[w].lease.epoch # 0
        PROVE  Granted(w, slot[w].lease.epoch, slot[w].rev)'
    <3>1. Granted(w, slot'[w].lease.epoch, slot'[w].rev)
      BY <2>1, <2>2, <2>3, <2>4 DEF SentUnderGrant
    <3> QED BY <2>1, <3>1 DEF Granted
  <2>5. ASSUME NEW m \in net', m.type = "input"
        PROVE  Granted(m.v, m.pkt.epoch, m.rev)'
    <3>1. Granted(m.v, m.pkt.epoch, m.rev)
      BY <2>1, <2>2, <2>3, <2>5 DEF SentUnderGrant
    <3> QED BY <1>1, <2>1, <3>1
  <2> QED BY <2>4, <2>5 DEF SentUnderGrant
<1>5. CASE \/ \E m \in net : HostReceivesRequest(m) \/ LaneDispatch(m)
           \/ HostInjects \/ LaneCalm
  <2>1. /\ UNCHANGED slot /\ net \subseteq net'
        /\ \A m \in net' \ net : m \in Grants \cup AckMsgs
    BY <1>5, HostSides
  <2>2. \A m \in net' \ net : m.type # "input"
    BY <2>1 DEF Grants, AckMsgs
  <2> QED BY <1>2, <2>1, <2>2
<1> QED BY <1>3, <1>4, <1>5, LaneCases

-----------------------------------------------------------------------------
(* The packet being injected, and the one that asserted what is down.      *)

\* A table that was empty is filled only by an event that presses.
LEMMA PressingPacket ==
  ASSUME NEW l \in Leases, NEW pkt \in Packets, Applies(l, pkt),
         Down(l.held) = {}, Down(HeldAfter(l, pkt)) # {}
  PROVE  Presses(pkt.body)
<1>1. ActiveIntent(l, pkt.body)
  BY PassiveHeld
<1>2. pkt.body.kind = "event" /\ pkt.body.ev \in Events
  BY <1>1 DEF ActiveIntent, Packets, Bodies
<1>3. pkt.body.ev.kind # "motion"
  BY <1>2 DEF HeldAfter, EventHeld
<1> QED BY <1>1, <1>2, <1>3 DEF ActiveIntent, Presses

\* A snapshot that leaves something down names it.
LEMMA SnapshotAsserts ==
  ASSUME NEW l \in Leases, NEW pkt \in Packets, pkt.body.kind = "held",
         Down(HeldAfter(l, pkt)) # {}
  PROVE  Assertive(pkt.body)
<1>1. HeldAfter(l, pkt) = ReleaseMissing(l.held, pkt.body.snap)
  BY DEF HeldAfter
<1>2. Down(pkt.body.snap) # {}
  BY <1>1 DEF Down, ReleaseMissing
<1> QED BY <1>2 DEF Assertive

\* A packet that is dispatched and injected.
LEMMA JobDispatched ==
  ASSUME LaneTypeOK, Ownership, Ownership', NEW m \in net, LaneDispatch(m)
  PROVE  JobSent'
<1> DEFINE v   == m.v
           pkt == m.pkt
           old == lease[v]
           l   == LeaseAfter(old, pkt)
           batch == PacketBatch(old, pkt)
           owns  == active.peer = v /\ active.epoch = pkt.epoch
<1> SUFFICES ASSUME Injecting' PROVE JobSent'
  BY DEF JobSent
<1>0. /\ v \in Viewer /\ pkt \in Packets /\ m.type = "input" /\ net \subseteq net'
      /\ Dispatch(v, pkt)
  BY NetSteps DEF LaneDispatch
<1>1. /\ old \in Leases /\ l \in Leases /\ Applies(old, pkt)
      /\ l.epoch = pkt.epoch /\ l.held = HeldAfter(old, pkt)
      /\ l.high = pkt.seq /\ l.rev = old.rev /\ old.rev = sub[v].rev
      /\ lease' = [lease EXCEPT ![v] = l] /\ UNCHANGED sub
      /\ Down(old.held) = IF owns THEN active.native ELSE {}
  BY <1>0, AdmittedLease
<1>2. lease'[v] = l
  BY <1>0, <1>1 DEF Ownership, TypeOK
<1>3. /\ job' = InjectJob(v, pkt, batch, FALSE, now)
      /\ active'.peer = v => owns
      /\ owns => active'.native = active.native /\ active'.peer = active.peer
  BY <1>0, DispatchOwner
<1>4. job'.v = v /\ job'.pkt = pkt /\ job'.batch = batch
  BY <1>3 DEF InjectJob
<1>5. /\ batch.ups # {} => pkt.body.kind \in {"held", "release"}
      /\ pkt.body.kind = "release" => Down(l.held) = {}
  BY <1>0, <1>1, BudgetAfter
<1> DEFINE own == IF active'.peer = v THEN active'.native ELSE {}
<1>6. ASSUME own = {} \/ batch.ups # {}, Down(l.held) # {}
      PROVE  Assertive(pkt.body)
  <2>1. CASE Down(old.held) = {}
    BY <1>0, <1>1, <1>6, <2>1, PressingPacket DEF Assertive
  <2>2. CASE Down(old.held) # {}
    <3>1. own # {}
      BY <1>1, <1>3, <2>2
    <3>2. pkt.body.kind = "held"
      BY <1>5, <1>6, <3>1
    <3> QED BY <1>0, <1>1, <1>6, <3>2, SnapshotAsserts
  <2> QED BY <2>1, <2>2
<1>7. m \in SentOf(v, pkt.epoch)'
  BY <1>0 DEF SentOf
<1> HIDE DEF v, pkt, l, old, batch, own
<1>8. \E n \in SentOf(v, pkt.epoch)' : n.pkt = pkt
  BY <1>7 DEF pkt
<1> QED BY <1>1, <1>2, <1>4, <1>5, <1>6, <1>8 DEF JobSent, own

\* Every step keeps what is known of the packet being injected.
LEMMA JobStep ==
  ASSUME LaneTypeOK, Clocks, Ownership, Ownership', JobSent, [LaneNext]_allVars
  PROVE  JobSent'
<1>0. TypeOK
  BY DEF LaneTypeOK
<1>1. ASSUME net \subseteq net', UNCHANGED <<lease, active, job>>,
             \A w \in Viewer : sub'[w].rev = sub[w].rev
      PROVE  JobSent'
  <2> SUFFICES ASSUME Injecting' PROVE JobSent'
    BY DEF JobSent
  <2>1. Injecting /\ job.v \in Viewer
    BY <1>0, <1>1, JobTypes DEF Injecting, TypeOK
  <2>2. SentOf(job.v, job.pkt.epoch) \subseteq SentOf(job.v, job.pkt.epoch)'
    BY <1>1 DEF SentOf
  <2> QED BY <1>1, <2>1, <2>2 DEF JobSent
<1>2. CASE MildViewer
  BY <1>1, <1>2, NetSteps DEF vars
<1>3. ASSUME NEW v \in Viewer, NEW n, NEW k, Sealed(v, n, k)
      PROVE  JobSent'
  BY <1>1, <1>3, NetSteps DEF vars
<1>4. QuietHost => JobSent'
  BY DEF QuietHost, JobSent
<1>5. CASE LaneCalm
  <2>0. net' = net /\ CalmHost
    BY <1>5, NetSteps
  <2>1. CASE AsideHost
    BY <1>1, <2>0, <2>1 DEF AsideHost
  <2>2. CASE Tick
    BY <1>1, <2>0, <2>2 DEF Tick
  <2>3. CASE Watchdog
    BY <2>3 DEF Watchdog, JobSent, Injecting, Idle
  <2>4. CASE TakeOver
    <3>1. /\ job \in InjectJobs /\ Injecting /\ UNCHANGED <<lease, sub>>
          /\ active.peer # job.v /\ job' = [job EXCEPT !.ready = TRUE]
      BY <1>0, <2>4, JobTypes DEF TypeOK, TakeOver, Injecting
    <3>2. job'.v = job.v /\ job'.pkt = job.pkt /\ job'.batch = job.batch
      BY <3>1 DEF InjectJobs
    <3>3. SentOf(job.v, job.pkt.epoch)' = SentOf(job'.v, job'.pkt.epoch)
      BY <2>0 DEF SentOf
    <3> QED BY <3>1, <3>2, <3>3 DEF JobSent
  <2> QED BY <1>4, <2>0, <2>1, <2>2, <2>3, <2>4 DEF CalmHost
<1>6. ASSUME NEW m \in net, HostReceivesRequest(m)
      PROVE  JobSent'
  BY <1>4, <1>6, RequestCalm DEF Ownership, EpochsFresh
<1>7. CASE HostInjects
  <2> SUFFICES ASSUME Injecting' PROVE JobSent'
    BY DEF JobSent
  <2>0. Inject /\ net \subseteq net' /\ Injecting
    BY <1>7, NetSteps DEF Inject, AtNative
  <2>1. /\ UNCHANGED <<lease, sub>> /\ job'.v = job.v /\ job'.pkt = job.pkt
        /\ job.batch.ups # {}
    BY <2>0, InjectCases
  <2>2. SentOf(job.v, job.pkt.epoch) \subseteq SentOf(job.v, job.pkt.epoch)'
    BY <2>0, <2>1 DEF SentOf
  <2> QED BY <2>0, <2>1, <2>2 DEF JobSent
<1> QED BY <1>2, <1>3, <1>5, <1>6, <1>7, JobDispatched, LaneCases

\* What is down was asserted by a packet of its owner.
LEMMA StampStep ==
  ASSUME LaneTypeOK, Clocks, Ownership, Ownership', JobSent, StampSent,
         [LaneNext]_allVars
  PROVE  StampSent'
<1>0. TypeOK
  BY DEF LaneTypeOK
<1> SUFFICES ASSUME active'.native # {} PROVE StampSent'
  BY DEF StampSent
<1>1. ASSUME net \subseteq net', active'.peer = active.peer,
             active'.epoch = active.epoch, active.native # {},
             active'.stamp = active.stamp
      PROVE  StampSent'
  <2>1. SentOf(active.peer, active.epoch) \subseteq SentOf(active.peer, active.epoch)'
    BY <1>1 DEF SentOf
  <2> QED BY <1>1, <2>1 DEF StampSent
<1>2. CASE MildViewer
  BY <1>1, <1>2, NetSteps DEF vars
<1>3. ASSUME NEW v \in Viewer, NEW n, NEW k, Sealed(v, n, k)
      PROVE  StampSent'
  BY <1>1, <1>3, NetSteps DEF vars
<1>4. ASSUME active' \in {active, Released(active)}, net \subseteq net'
      PROVE  StampSent'
  BY <1>1, <1>4 DEF Released
<1>5. CASE LaneCalm
  BY <1>0, <1>4, <1>5, NetSteps, CalmLeases
<1>6. ASSUME NEW m \in net, HostReceivesRequest(m)
      PROVE  StampSent'
  <2>1. QuietHost /\ net \subseteq net'
    BY <1>6, RequestCalm, HostSides DEF Ownership, EpochsFresh
  <2> QED BY <1>4, <2>1 DEF QuietHost
<1>7. ASSUME NEW m \in net, LaneDispatch(m)
      PROVE  StampSent'
  <2>0. /\ m.v \in Viewer /\ m.pkt \in Packets /\ Dispatch(m.v, m.pkt)
        /\ m.type = "input" /\ net \subseteq net'
    BY <1>7, NetSteps DEF LaneDispatch
  <2> DEFINE l    == LeaseAfter(lease[m.v], m.pkt)
             owns == active.peer = m.v /\ active.epoch = m.pkt.epoch
  <2>1. /\ active'.peer = active.peer /\ active'.epoch = active.epoch
        /\ active'.native = active.native
        /\ active'.stamp \in {active.stamp, m.pkt.created}
        /\ active'.stamp # active.stamp =>
             owns /\ m.pkt.body.kind = "held" /\ Down(l.held) # {}
    BY <2>0, DispatchOwner
  <2>2. CASE active'.stamp = active.stamp
    BY <1>1, <2>0, <2>1, <2>2
  <2>3. CASE active'.stamp # active.stamp
    <3>1. l.held = HeldAfter(lease[m.v], m.pkt) /\ lease[m.v] \in Leases
      BY <2>0, AdmittedLease
    <3>2. Assertive(m.pkt.body) /\ m.pkt.created = active'.stamp
      BY <2>0, <2>1, <2>3, <3>1, SnapshotAsserts
    <3>3. m \in SentOf(active.peer, active.epoch)'
      BY <2>0, <2>1, <2>3 DEF SentOf
    <3> QED BY <3>2, <3>3 DEF StampSent
  <2> QED BY <2>2, <2>3
<1>8. CASE HostInjects
  <2>0. Inject /\ net \subseteq net' /\ Injecting
    BY <1>8, NetSteps DEF Inject, AtNative
  <2>1. /\ active.peer = job.v /\ active.epoch \in {0, job.pkt.epoch}
        /\ active'.peer = job.v /\ active'.epoch = job.pkt.epoch
        /\ active'.stamp = IF active.native = {} THEN job.pkt.created
                           ELSE active.stamp
        /\ active.native = {} => active'.native = Down(lease[job.v].held)
    BY <2>0, InjectCases
  <2>2. CASE active.native # {}
    BY <1>1, <2>0, <2>1, <2>2, OwnerKnown
  <2>3. CASE active.native = {}
    <3>1. Assertive(job.pkt.body)
      BY <2>0, <2>1, <2>3 DEF JobSent
    <3>2. PICK n \in SentOf(job.v, job.pkt.epoch) : n.pkt = job.pkt
      BY <2>0 DEF JobSent
    <3>3. n \in SentOf(active.peer, active.epoch)'
      BY <2>0, <2>1, <3>2 DEF SentOf
    <3> QED BY <2>1, <2>3, <3>1, <3>2, <3>3 DEF StampSent
  <2> QED BY <2>2, <2>3
<1> QED BY <1>2, <1>3, <1>5, <1>6, <1>7, <1>8, LaneCases

-----------------------------------------------------------------------------
(* The order of packets, and what confirmations are worth.                 *)

\* The packets of one lease k of viewer v among those sent.
InOrder(v, k, sent) ==
  \A m \in sent :
    /\ m.pkt.seq <= k.seq
    /\ Assertive(m.pkt.body) => m.pkt.created <= k.touch
    /\ m.pkt.body.kind = "release" /\ m.pkt.seq > k.pressed =>
         /\ Down(k.held) = {}
         /\ \A n \in sent : n.pkt.seq > m.pkt.seq => ~Presses(n.pkt.body)

\* The packets sent through an epoch are packets.
LEMMA SentTypes ==
  ASSUME LaneTypeOK, NEW v, NEW e, NEW m \in SentOf(v, e)
  PROVE  /\ m \in net /\ m.type = "input" /\ m.v = v /\ m.pkt.epoch = e
         /\ m.pkt \in Packets /\ m.pkt.seq \in Nat /\ m.pkt.created \in Nat
         /\ v \in Viewer
  BY MsgTypes, InputTypes DEF SentOf

\* One more packet leaves in order.
LEMMA SealedInOrder ==
  ASSUME LaneTypeOK, NEW v \in Viewer, NEW n, NEW k, Sealed(v, n, k),
         InOrder(v, slot[v].lease, SentOf(v, slot[v].lease.epoch))
  PROVE  InOrder(v, k, SentOf(v, slot[v].lease.epoch) \cup {n})
<1> DEFINE l == slot[v].lease
           sent == SentOf(v, l.epoch)
<1>0. /\ k \in ViewerLeases /\ n.pkt.seq = l.seq + 1 /\ k.seq = l.seq + 1
      /\ l.touch <= k.touch
      /\ Assertive(n.pkt.body) => n.pkt.created <= k.touch
      /\ \/ k.pressed = l.seq + 1
         \/ /\ k.pressed = l.pressed
            /\ Down(l.held) = {} => Down(k.held) = {} /\ ~Presses(n.pkt.body)
      /\ n.pkt.body.kind = "release" => Down(k.held) = {}
  BY DEF Sealed
<1>1. /\ l.seq \in Nat /\ l.touch \in Nat /\ l.pressed \in Nat
      /\ k.touch \in Nat /\ k.pressed \in Nat
  BY <1>0, SlotTypes, ViewerLeaseTypes
<1>2. \A m \in sent : m.pkt.seq \in Nat /\ m.pkt.created \in Nat
  BY SentTypes
<1>3. \A m \in sent :
        /\ m.pkt.seq <= l.seq
        /\ Assertive(m.pkt.body) => m.pkt.created <= l.touch
        /\ m.pkt.body.kind = "release" /\ m.pkt.seq > l.pressed =>
             /\ Down(l.held) = {}
             /\ \A q \in sent : q.pkt.seq > m.pkt.seq => ~Presses(q.pkt.body)
  BY DEF InOrder
<1> HIDE DEF l, sent
<1>4. \A m \in sent \cup {n} : m.pkt.seq <= k.seq
  BY <1>0, <1>1, <1>2, <1>3
<1>5. \A m \in sent \cup {n} : Assertive(m.pkt.body) => m.pkt.created <= k.touch
  BY <1>0, <1>1, <1>2, <1>3
<1>6. ASSUME NEW m \in sent \cup {n}, m.pkt.body.kind = "release",
             m.pkt.seq > k.pressed
      PROVE  /\ Down(k.held) = {}
             /\ \A q \in sent \cup {n} : q.pkt.seq > m.pkt.seq => ~Presses(q.pkt.body)
  <2>1. CASE m = n
    <3>1. \A q \in sent \cup {n} : ~(q.pkt.seq > m.pkt.seq)
      BY <1>0, <1>1, <1>2, <1>3, <2>1
    <3> QED BY <1>0, <1>6, <2>1, <3>1
  <2>2. CASE m \in sent
    <3>1. k.pressed = l.pressed
      BY <1>0, <1>1, <1>2, <1>3, <1>6, <2>2
    <3>2. /\ Down(l.held) = {}
          /\ \A q \in sent : q.pkt.seq > m.pkt.seq => ~Presses(q.pkt.body)
      BY <1>3, <1>6, <2>2, <3>1
    <3>3. k.pressed # l.seq + 1
      BY <1>1, <1>2, <1>3, <1>6, <2>2
    <3> QED BY <1>0, <3>2, <3>3
  <2> QED BY <2>1, <2>2
<1>7. InOrder(v, k, sent \cup {n})
  BY <1>4, <1>5, <1>6 DEF InOrder
<1> QED BY <1>7 DEF sent, l

\* The inputs among the messages ms.
SentIn(ms, v, e) == {m \in ms : m.type = "input" /\ m.v = v /\ m.pkt.epoch = e}

\* The packets of every lease that was not resumed stay in order.
LEMMA OrderStep ==
  ASSUME LaneTypeOK, Clocks, Ownership', PacketsInOrder, [LaneNext]_allVars
  PROVE  PacketsInOrder'
<1>0. \A v \in Viewer : LET l == slot[v].lease IN
        l.epoch # 0 /\ ~l.again => InOrder(v, l, SentOf(v, l.epoch))
  BY DEF PacketsInOrder, InOrder
<1>1. ASSUME \A v \in Viewer : LET k == slot'[v].lease IN
               k.epoch # 0 /\ ~k.again => InOrder(v, k, SentIn(net', v, k.epoch))
      PROVE  PacketsInOrder'
  BY <1>1 DEF PacketsInOrder, InOrder, SentOf, SentIn
<1>3. CASE MildViewer
  <2>0. net \subseteq net' /\ \A m \in net' \ net : m.type # "input"
    BY <1>3, NetSteps
  <2>1. ASSUME NEW v \in Viewer, slot'[v].lease.epoch # 0, ~slot'[v].lease.again
        PROVE  InOrder(v, slot'[v].lease, SentIn(net', v, slot'[v].lease.epoch))
    <3> DEFINE l == slot[v].lease
               k == slot'[v].lease
    <3>0. LeaseMild(v) /\ l \in ViewerLeases /\ k \in ViewerLeases
      BY <1>3, SlotTypes DEF MildViewer, Slots
    <3>1. SentIn(net', v, k.epoch) = SentOf(v, k.epoch)
      BY <2>0 DEF SentOf, SentIn
    <3>2. CASE /\ k.epoch = l.epoch /\ k.seq = l.seq
               /\ k.pressed = l.pressed /\ k.again = l.again /\ l.touch <= k.touch
               /\ Down(l.held) = {} => Down(k.held) = {}
      <4>1. InOrder(v, l, SentOf(v, k.epoch))
        BY <1>0, <2>1, <3>2
      <4>2. l.touch \in Nat /\ k.touch \in Nat
        BY <3>0, ViewerLeaseTypes
      <4>3. \A m \in SentOf(v, k.epoch) : m.pkt.created \in Nat
        BY SentTypes
      <4> HIDE DEF l, k
      <4>4. InOrder(v, k, SentOf(v, k.epoch))
        BY <3>2, <4>1, <4>2, <4>3 DEF InOrder
      <4> QED BY <3>1, <4>4 DEF k
    <3>3. CASE k.again = Used(v, k.epoch)
      <4>1. SentOf(v, k.epoch) = {}
        BY <2>1, <3>3 DEF Used, SentOf
      <4> QED BY <3>1, <4>1 DEF InOrder
    <3> QED BY <2>1, <3>0, <3>2, <3>3 DEF LeaseMild
  <2> QED BY <1>1, <2>1
<1>4. ASSUME NEW v \in Viewer, NEW n, NEW k, Sealed(v, n, k)
      PROVE  PacketsInOrder'
  <2>1. /\ net' = net \cup {n} /\ n.type = "input" /\ slot'[v].lease = k
        /\ \A w \in Viewer \ {v} : slot'[w] = slot[w]
    BY <1>4, NetSteps
  <2>2. /\ k.epoch = slot[v].lease.epoch /\ slot[v].lease.epoch # 0
        /\ k.again = slot[v].lease.again /\ n.v = v
        /\ n.pkt.epoch = slot[v].lease.epoch
    BY <1>4 DEF Sealed
  <2>3. ASSUME NEW w \in Viewer, slot'[w].lease.epoch # 0, ~slot'[w].lease.again
        PROVE  InOrder(w, slot'[w].lease, SentIn(net', w, slot'[w].lease.epoch))
    <3>1. CASE w = v
      <4>1. InOrder(v, slot[v].lease, SentOf(v, slot[v].lease.epoch))
        BY <1>0, <2>1, <2>2, <2>3, <3>1
      <4>2. SentIn(net', v, k.epoch) = SentOf(v, slot[v].lease.epoch) \cup {n}
        BY <2>1, <2>2 DEF SentOf, SentIn
      <4> QED BY <1>4, <2>1, <3>1, <4>1, <4>2, SealedInOrder
    <3>2. CASE w # v
      <4>2. SentIn(net', w, slot'[w].lease.epoch) = SentOf(w, slot[w].lease.epoch)
        BY <2>1, <2>2, <3>2 DEF SentOf, SentIn
      <4> QED BY <1>0, <2>1, <2>3, <3>2, <4>2
    <3> QED BY <3>1, <3>2
  <2> QED BY <1>1, <2>3
<1>5. CASE \/ \E m \in net : HostReceivesRequest(m) \/ LaneDispatch(m)
           \/ HostInjects \/ LaneCalm
  <2>1. /\ UNCHANGED slot /\ net \subseteq net'
        /\ \A m \in net' \ net : m \in Grants \cup AckMsgs
    BY <1>5, HostSides
  <2>2. \A m \in net' \ net : m.type # "input"
    BY <2>1 DEF Grants, AckMsgs
  <2>3. \A v, e : SentOf(v, e)' = SentOf(v, e)
    BY <2>1, <2>2 DEF SentOf
  <2> QED BY <2>1, <2>3 DEF PacketsInOrder
<1> QED BY <1>3, <1>4, <1>5, LaneCases

\* What was sent through an epoch came through a grant for it.
LEMMA SentEpochs ==
  ASSUME GrantsMatch, SentUnderGrant, NEW v, NEW e, NEW m \in SentOf(v, e)
  PROVE  e # 0 /\ e < nextEpoch
<1>1. m \in net /\ m.type = "input" /\ m.v = v /\ m.pkt.epoch = e
  BY DEF SentOf
<1>2. PICK g \in net : g.type = "grant" /\ g.epoch = e
  BY <1>1 DEF SentUnderGrant, Granted
<1> QED BY <1>2 DEF GrantsMatch

\* What a confirmation m says of the host, in this state.
AckTrue(m) ==
  /\ \E n \in SentOf(m.v, m.epoch) :
       n.pkt.seq = m.seq /\ n.pkt.body.kind = "release"
  /\ lease[m.v].epoch = m.epoch =>
       /\ m.seq <= lease[m.v].high
       /\ NothingSince(m.v, m.epoch, m.seq) => Down(lease[m.v].held) = {}
  /\ active.peer = m.v /\ active.epoch = m.epoch
       /\ NothingSince(m.v, m.epoch, m.seq) => active.native = {}

\* A confirmation stays true while leases only go, stay or are bound anew and
\* the owner keeps its presses or loses them.
LEMMA AckKept ==
  ASSUME LaneTypeOK, Ownership, GrantsMatch, SentUnderGrant,
         NEW m \in AckMsgs, AckTrue(m), net \subseteq net',
         LeaseQuiet(m.v), lease'[m.v].high \in Nat,
         active' \in {active, Released(active)} \/ active'.native = {}
  PROVE  AckTrue(m)'
<1>0. /\ m.v \in Viewer /\ m.epoch \in Nat /\ m.seq \in Nat
      /\ lease[m.v].high \in Nat
  BY DEF AckMsgs, LaneTypeOK, TypeOK, Leases
<1>1. SentOf(m.v, m.epoch) \subseteq SentOf(m.v, m.epoch)'
  BY DEF SentOf
<1>2. NothingSince(m.v, m.epoch, m.seq)' => NothingSince(m.v, m.epoch, m.seq)
  BY <1>1 DEF NothingSince
<1>3. m.epoch # 0 /\ m.epoch < nextEpoch
  BY SentEpochs DEF AckTrue
<1>4. lease'[m.v].epoch = m.epoch =>
        /\ lease'[m.v].epoch = lease[m.v].epoch
        /\ lease'[m.v].held = lease[m.v].held /\ lease[m.v].high <= lease'[m.v].high
  BY <1>0, <1>3 DEF LeaseQuiet, LaneTypeOK, TypeOK
<1>5. lease'[m.v].epoch = m.epoch =>
        /\ m.seq <= lease'[m.v].high
        /\ NothingSince(m.v, m.epoch, m.seq)' => Down(lease'[m.v].held) = {}
  BY <1>0, <1>2, <1>4 DEF AckTrue
<1>6. active'.peer = m.v /\ active'.epoch = m.epoch
        /\ NothingSince(m.v, m.epoch, m.seq)' => active'.native = {}
  BY <1>2 DEF AckTrue, Released
<1> QED BY <1>1, <1>5, <1>6 DEF AckTrue

\* A packet is dispatched while m is confirmed.
LEMMA AckDispatch ==
  ASSUME LaneTypeOK, Ownership, Ownership', GrantsMatch, SentUnderGrant,
         NEW m \in AckMsgs, AckTrue(m), NEW n \in net, LaneDispatch(n)
  PROVE  AckTrue(m)'
<1> DEFINE v == n.v
           pkt == n.pkt
           old == lease[v]
           l == LeaseAfter(old, pkt)
<1>0. /\ v \in Viewer /\ pkt \in Packets /\ n.type = "input" /\ net \subseteq net'
      /\ Dispatch(v, pkt) /\ m.v \in Viewer /\ m.epoch \in Nat /\ m.seq \in Nat
      /\ pkt.seq \in Nat /\ lease \in [Viewer -> Leases]
  BY NetSteps DEF LaneDispatch, AckMsgs, Packets, LaneTypeOK, TypeOK
<1>1. /\ old \in Leases /\ Applies(old, pkt) /\ old.epoch = pkt.epoch
      /\ l.epoch = pkt.epoch /\ l.held = HeldAfter(old, pkt) /\ l.high = pkt.seq
      /\ old.high < pkt.seq /\ lease' = [lease EXCEPT ![v] = l] /\ old.high \in Nat
  BY <1>0, AdmittedLease DEF Leases
<1>2. SentOf(m.v, m.epoch) \subseteq SentOf(m.v, m.epoch)'
  BY <1>0 DEF SentOf
<1>3. NothingSince(m.v, m.epoch, m.seq)' => NothingSince(m.v, m.epoch, m.seq)
  BY <1>2 DEF NothingSince
<1>4. \/ active'.native = {}
      \/ /\ active'.peer = active.peer /\ active'.epoch = active.epoch
         /\ active'.native = active.native
  BY <1>0, DispatchOwner
<1>5. ASSUME lease'[m.v].epoch = m.epoch
      PROVE  /\ m.seq <= lease'[m.v].high
             /\ NothingSince(m.v, m.epoch, m.seq)' => Down(lease'[m.v].held) = {}
  <2>1. CASE m.v # v
    BY <1>0, <1>1, <1>3, <1>5, <2>1 DEF AckTrue
  <2>2. CASE m.v = v
    <3>1. lease'[v] = l /\ pkt.epoch = m.epoch
      BY <1>0, <1>1, <1>5, <2>2
    <3>2. m.seq <= old.high
      BY <1>1, <2>2, <3>1 DEF AckTrue
    <3>3. m.seq < pkt.seq
      BY <1>0, <1>1, <3>2
    <3>4. ASSUME NothingSince(m.v, m.epoch, m.seq)
          PROVE  Down(l.held) = {}
      <4>1. Down(old.held) = {}
        BY <1>1, <2>2, <3>1, <3>4 DEF AckTrue
      <4>2. n \in SentOf(m.v, m.epoch)
        BY <1>0, <2>2, <3>1 DEF SentOf
      <4>3. ~Presses(pkt.body)
        BY <1>0, <3>3, <3>4, <4>2 DEF NothingSince
      <4> QED BY <1>0, <1>1, <4>1, <4>3, PressingPacket
    <3>5. m.seq <= l.high
      BY <1>0, <1>1, <3>3
    <3> HIDE DEF l, v
    <3> QED BY <1>3, <2>2, <3>1, <3>4, <3>5
  <2> QED BY <2>1, <2>2
<1>6. active'.peer = m.v /\ active'.epoch = m.epoch
        /\ NothingSince(m.v, m.epoch, m.seq)' => active'.native = {}
  BY <1>3, <1>4 DEF AckTrue
<1> QED BY <1>2, <1>5, <1>6 DEF AckTrue

\* An event of a packet is injected while m is confirmed.
LEMMA AckInject ==
  ASSUME LaneTypeOK, Ownership, Ownership', NEW m \in AckMsgs, AckTrue(m), HostInjects
  PROVE  AckTrue(m)'
<1>0. Inject /\ net \subseteq net'
  BY NetSteps
<1>1. /\ active.peer = job.v /\ active.epoch \in {0, job.pkt.epoch}
      /\ lease[job.v].epoch = job.pkt.epoch /\ UNCHANGED lease
      /\ \/ active'.native = {}
         \/ /\ active'.peer = job.v /\ active'.epoch = job.pkt.epoch
            /\ \/ active'.native = Down(lease[job.v].held)
               \/ active.native = {} => active'.native = {}
  BY <1>0, InjectCases
<1>2. SentOf(m.v, m.epoch) \subseteq SentOf(m.v, m.epoch)'
  BY <1>0 DEF SentOf
<1>3. NothingSince(m.v, m.epoch, m.seq)' => NothingSince(m.v, m.epoch, m.seq)
  BY <1>2 DEF NothingSince
<1>4. ASSUME active'.peer = m.v, active'.epoch = m.epoch,
             NothingSince(m.v, m.epoch, m.seq)', active'.native # {}
      PROVE  FALSE
  <2>1. job.v = m.v /\ job.pkt.epoch = m.epoch
    BY <1>1, <1>4
  <2>2. Down(lease[job.v].held) = {}
    BY <1>1, <1>3, <1>4, <2>1 DEF AckTrue
  <2>3. active.native # {}
    BY <1>1, <1>4, <2>2
  <2>4. active.epoch = job.pkt.epoch
    BY <1>1, <2>3, OwnerKnown
  <2> QED BY <1>1, <1>3, <1>4, <2>1, <2>3, <2>4 DEF AckTrue
<1> QED BY <1>1, <1>2, <1>3, <1>4 DEF AckTrue

\* A release that ends is confirmed truly.
LEMMA AckFresh ==
  ASSUME LaneTypeOK, Ownership', NEW m \in AckMsgs, job' = Idle,
         NEW n \in SentOf(m.v, m.epoch)', n.pkt.seq = m.seq,
         n.pkt.body.kind = "release", m.epoch # 0,
         lease'[m.v].epoch = m.epoch, m.seq <= lease'[m.v].high,
         Down(lease'[m.v].held) = {}
  PROVE  AckTrue(m)'
<1>1. ~Injecting'
  BY DEF Injecting, Idle
<1>2. active'.peer = m.v /\ active'.epoch = m.epoch => active'.native = {}
  BY <1>1 DEF Ownership, NativeMatches
<1> QED BY <1>2 DEF AckTrue

\* Every step keeps the confirmations true.
LEMMA AcksStep ==
  ASSUME LaneTypeOK, Clocks, Ownership, Ownership', GrantsMatch, SentUnderGrant,
         JobSent, AcksTrue, LaneTypeOK', [LaneNext]_allVars
  PROVE  AcksTrue'
<1> DEFINE Seen(v, k) == k.epoch # 0 /\ k.acked # 0 =>
                           \E m \in net' : m.type = "ack" /\ m.v = v
                                           /\ m.epoch = k.epoch /\ m.seq = k.acked
           AllSeen == \A v \in Viewer : Seen(v, slot'[v].lease)
           AllTrue == \A m \in net' : m.type = "ack" => AckTrue(m)'
<1>0. /\ TypeOK /\ \A m \in net : m.type = "ack" => m \in AckMsgs /\ AckTrue(m)
      /\ \A w \in Viewer : lease'[w].high \in Nat
  BY MsgTypes DEF LaneTypeOK, AcksTrue, AckTrue, Ownership, TypeOK, Leases
<1>1. ASSUME net \subseteq net', NEW v \in Viewer
      PROVE  Seen(v, slot[v].lease)
  BY <1>1 DEF AcksTrue
<1>2. ASSUME AllSeen, AllTrue
      PROVE  AcksTrue'
  <2>1. \A m \in net' : m.type = "ack" =>
          /\ \E n \in SentOf(m.v, m.epoch)' :
               n.pkt.seq = m.seq /\ n.pkt.body.kind = "release"
          /\ lease'[m.v].epoch = m.epoch =>
               /\ m.seq <= lease'[m.v].high
               /\ NothingSince(m.v, m.epoch, m.seq)' => Down(lease'[m.v].held) = {}
          /\ active'.peer = m.v /\ active'.epoch = m.epoch
               /\ NothingSince(m.v, m.epoch, m.seq)' => active'.native = {}
    BY <1>2 DEF AckTrue
  <2> QED BY <1>2, <2>1 DEF AcksTrue
<1>3. ASSUME net \subseteq net', \A w \in Viewer : LeaseQuiet(w),
             active' \in {active, Released(active)} \/ active'.native = {},
             \A m \in net' \ net : m.type # "ack"
      PROVE  AllTrue
  <2> SUFFICES ASSUME NEW m \in net', m.type = "ack" PROVE AckTrue(m)'
    OBVIOUS
  <2>1. m \in AckMsgs /\ AckTrue(m) /\ m.v \in Viewer
    BY <1>0, <1>3 DEF AckMsgs
  <2> QED BY <1>0, <1>3, <2>1, AckKept
<1>4. UNCHANGED lease => \A w \in Viewer : LeaseQuiet(w)
  BY <1>0 DEF LeaseQuiet
<1>5. CASE MildViewer
  <2>1. /\ net \subseteq net' /\ UNCHANGED <<lease, active>>
        /\ \A m \in net' \ net : m.type # "ack"
    BY <1>5, NetSteps DEF vars
  <2>2. ASSUME NEW v \in Viewer PROVE Seen(v, slot'[v].lease)
    BY <1>1, <1>5, <2>1 DEF MildViewer, LeaseMild
  <2>3. AllTrue
    BY <1>3, <1>4, <2>1
  <2> HIDE DEF AllTrue, Seen
  <2> QED BY <1>2, <2>2, <2>3
<1>6. ASSUME NEW v \in Viewer, NEW n, NEW k, Sealed(v, n, k)
      PROVE  AcksTrue'
  <2>1. /\ net' = net \cup {n} /\ n.type = "input" /\ UNCHANGED <<lease, active>>
        /\ slot'[v].lease = k /\ \A w \in Viewer \ {v} : slot'[w] = slot[w]
    BY <1>6, NetSteps DEF vars
  <2>2. k.epoch = slot[v].lease.epoch /\ k.acked = slot[v].lease.acked
    BY <1>6 DEF Sealed
  <2>3. ASSUME NEW w \in Viewer PROVE Seen(w, slot'[w].lease)
    BY <1>1, <2>1, <2>2
  <2>4. AllTrue
    BY <1>3, <1>4, <2>1
  <2> HIDE DEF AllTrue, Seen
  <2> QED BY <1>2, <2>3, <2>4
<1>7. ASSUME net \subseteq net', slot' = slot, AllTrue
      PROVE  AcksTrue'
  <2> HIDE DEF AllTrue, Seen
  <2> QED BY <1>1, <1>2, <1>7
<1>8. CASE LaneCalm
  BY <1>0, <1>3, <1>7, <1>8, NetSteps, CalmLeases
<1>9. ASSUME NEW m \in net, HostReceivesRequest(m)
      PROVE  AcksTrue'
  <2>1. QuietHost /\ UNCHANGED slot
    BY <1>9, RequestCalm DEF Ownership, EpochsFresh
  <2>2. net \subseteq net' /\ \A n \in net' \ net : n.type # "ack"
    <3>1. PICK g \in Grants : net' = net \cup {g}
      BY <1>9, GrantSent
    <3> QED BY <3>1 DEF Grants
  <2>3. AllTrue
    BY <1>3, <2>1, <2>2 DEF QuietHost
  <2> QED BY <1>7, <2>1, <2>2, <2>3
<1>10. ASSUME NEW n \in net, LaneDispatch(n)
       PROVE  AcksTrue'
  <2>0. /\ n.v \in Viewer /\ n.pkt \in Packets /\ n.type = "input"
        /\ slot' = slot /\ net \subseteq net' /\ Dispatch(n.v, n.pkt)
        /\ \A m \in net' \ net :
             /\ m.type = "ack" /\ m.v = n.v /\ m.epoch = n.pkt.epoch
             /\ m.seq = n.pkt.seq /\ job' = Idle /\ n.pkt.body.kind = "release"
    BY <1>10, NetSteps DEF LaneDispatch
  <2>1. ASSUME NEW m \in net, m.type = "ack" PROVE AckTrue(m)'
    BY <1>0, <1>10, <2>1, AckDispatch
  <2>2. ASSUME NEW m \in net' \ net PROVE AckTrue(m)'
    <3>1. m \in AckMsgs /\ job' = Idle
      BY <2>0, <2>2, MsgTypes DEF LaneTypeOK, Grants, InputMsgs, AckMsgs, Controls
    <3>2. n \in SentOf(m.v, m.epoch)' /\ n.pkt.seq = m.seq
      BY <2>0, <2>2 DEF SentOf
    <3> DEFINE l == LeaseAfter(lease[n.v], n.pkt)
    <3>3. /\ l \in Leases /\ l.epoch = n.pkt.epoch /\ n.pkt.epoch # 0
          /\ lease[n.v] \in Leases
          /\ l.high = n.pkt.seq /\ lease' = [lease EXCEPT ![n.v] = l]
          /\ l.held = HeldAfter(lease[n.v], n.pkt) /\ Applies(lease[n.v], n.pkt)
      BY <2>0, AdmittedLease
    <3>4. Down(l.held) = {}
      BY <2>0, <2>2, <3>3, BudgetAfter
    <3>5. lease'[n.v] = l /\ l.high \in Nat
      BY <1>0, <2>0, <3>3 DEF TypeOK, Leases
    <3> HIDE DEF l
    <3>6. /\ m.epoch # 0 /\ lease'[m.v].epoch = m.epoch
          /\ m.seq <= lease'[m.v].high /\ Down(lease'[m.v].held) = {}
      BY <2>0, <2>2, <3>3, <3>4, <3>5
    <3> QED BY <2>0, <2>2, <3>1, <3>2, <3>6, AckFresh
  <2>3. AllTrue
    BY <2>1, <2>2
  <2> QED BY <1>7, <2>0, <2>3
<1>11. CASE HostInjects
  <2>0. /\ Inject /\ slot' = slot /\ net \subseteq net' /\ Injecting
        /\ job.pkt \in Packets /\ job.v \in Viewer
        /\ \A m \in net' \ net :
             /\ m.type = "ack" /\ m.v = job.v /\ m.epoch = job.pkt.epoch
             /\ m.seq = job.pkt.seq /\ job' = Idle /\ job.pkt.body.kind = "release"
    BY <1>11, NetSteps DEF Inject, AtNative
  <2>1. ASSUME NEW m \in net, m.type = "ack" PROVE AckTrue(m)'
    BY <1>0, <1>11, <2>1, AckInject
  <2>2. ASSUME NEW m \in net' \ net PROVE AckTrue(m)'
    <3>1. m \in AckMsgs
      BY <2>0, <2>2, MsgTypes DEF LaneTypeOK, Grants, InputMsgs, AckMsgs, Controls
    <3>2. PICK n \in SentOf(job.v, job.pkt.epoch) : n.pkt = job.pkt
      BY <2>0 DEF JobSent
    <3>3. n \in SentOf(m.v, m.epoch)' /\ n.pkt.seq = m.seq
      BY <2>0, <2>2, <3>2 DEF SentOf
    <3>4. /\ lease[job.v].high = job.pkt.seq /\ Down(lease[job.v].held) = {}
      BY <2>0, <2>2 DEF JobSent
    <3>5. lease[job.v].epoch = job.pkt.epoch /\ job.pkt.epoch # 0 /\ UNCHANGED lease
      BY <2>0, InjectCases
    <3>6. /\ m.epoch # 0 /\ lease'[m.v].epoch = m.epoch
          /\ m.seq <= lease'[m.v].high /\ Down(lease'[m.v].held) = {}
      BY <1>0, <2>0, <2>2, <3>4, <3>5
    <3> QED BY <2>0, <2>2, <3>1, <3>2, <3>3, <3>6, AckFresh
  <2>3. AllTrue
    BY <2>1, <2>2
  <2> QED BY <1>7, <2>0, <2>3
<1> QED BY <1>5, <1>6, <1>8, <1>9, <1>10, <1>11, LaneCases

-----------------------------------------------------------------------------
(* Where the entries of the host's tables come from.                       *)

\* An entry after one transition: as it was, gone, or new with this number.
LEMMA TransitionEntry ==
  ASSUME NEW h \in Held, NEW p \in Press, NEW mask, NEW s \in Nat
  PROVE  LET g == Transition(h, p, p \in mask, s) IN
         /\ g \in Held
         /\ \A q \in Press : /\ g[q] \in {h[q], 0} \/ (g[q] = s /\ q \in mask)
                             /\ q \in mask /\ h[q] # 0 => g[q] = h[q]
  BY DEF Transition, CanTransition, Held

\* The same for the four modifier bits.
LEMMA ModifierEntries ==
  ASSUME NEW h \in Held, NEW mask, NEW s \in Nat, NEW q \in Press
  PROVE  LET g == SetModifiers(h, mask, s) IN
         /\ g[q] \in {h[q], 0} \/ (g[q] = s /\ q \in mask)
         /\ q \in mask /\ h[q] # 0 => g[q] = h[q]
<1> DEFINE h1 == Transition(h, Shift, Shift \in mask, s)
           h2 == Transition(h1, Control, Control \in mask, s)
           h3 == Transition(h2, Option, Option \in mask, s)
           h4 == Transition(h3, Command, Command \in mask, s)
           Entry(f, g) == /\ g \in Held
                          /\ g[q] \in {f[q], 0} \/ (g[q] = s /\ q \in mask)
                          /\ q \in mask /\ f[q] # 0 => g[q] = f[q]
<1>0. Shift \in Press /\ Control \in Press /\ Option \in Press /\ Command \in Press
  BY DEF Modifier, Press
<1>1. Entry(h, h1)
  BY <1>0, TransitionEntry
<1> HIDE DEF h1
<1>2. Entry(h1, h2)
  BY <1>0, <1>1, TransitionEntry
<1> HIDE DEF h2
<1>3. Entry(h2, h3)
  BY <1>0, <1>2, TransitionEntry
<1> HIDE DEF h3
<1>4. Entry(h3, h4)
  BY <1>0, <1>3, TransitionEntry
<1>5. SetModifiers(h, mask, s) = h4
  BY DEF SetModifiers, h1, h2, h3, h4
<1> HIDE DEF h4
<1> QED BY <1>1, <1>2, <1>3, <1>4, <1>5

\* The event names the press, by its key or in its modifiers.
Names(b, p) == /\ b.kind = "event"
               /\ \/ b.ev.kind = "mods" /\ p \in b.ev.mods
                  \/ NamesPress(b.ev) /\ b.ev.press = p

\* An entry after a packet: one that was there, or one the packet names, with
\* the number of the packet.
LEMMA PacketEntries ==
  ASSUME NEW l \in Leases, NEW pkt \in Packets, Applies(l, pkt),
         NEW p \in Down(HeldAfter(l, pkt))
  PROVE  \/ HeldAfter(l, pkt)[p] = l.held[p]
         \/ HeldAfter(l, pkt)[p] = pkt.seq /\ Names(pkt.body, p)
<1> DEFINE h == l.held
           g == HeldAfter(l, pkt)
<1>0. /\ h \in Held /\ pkt.seq \in Nat /\ pkt.body \in Bodies
      /\ pkt.body.kind # "oversized" /\ p \in Press /\ g[p] # 0
  BY DEF Leases, Packets, Applies, Down
<1>1. CASE pkt.body.kind = "held"
  BY <1>0, <1>1 DEF HeldAfter, ReleaseMissing
<1>2. CASE pkt.body.kind = "release"
  BY <1>0, <1>2 DEF HeldAfter, Empty
<1>3. CASE pkt.body.kind = "event"
  <2> DEFINE ev == pkt.body.ev
  <2>1. ev \in Events /\ g = EventHeld(h, ev, pkt.seq)
    BY <1>0, <1>3 DEF Bodies, HeldAfter
  <2>2. CASE ~EventValid(h, ev) \/ ev.kind = "motion"
    BY <2>1, <2>2 DEF EventHeld
  <2>3. CASE EventValid(h, ev) /\ ev.kind # "motion" /\ SetsModifiers(ev)
    <3> DEFINE mask == Mask(h, ev)
    <3>1. g = SetModifiers(h, mask, pkt.seq)
      BY <2>1, <2>3 DEF EventHeld
    <3> HIDE DEF mask, g
    <3>2. \/ g[p] = h[p]
          \/ g[p] = pkt.seq /\ p \in mask /\ h[p] = 0
      BY <1>0, <3>1, ModifierEntries
    <3>3. p \in mask /\ h[p] = 0 => Names(pkt.body, p)
      <4> SUFFICES ASSUME p \in mask, h[p] = 0 PROVE Names(pkt.body, p)
        OBVIOUS
      <4>1. p \notin Modifiers(h)
        BY DEF Modifiers, Down
      <4>2. CASE ev.kind = "mods"
        BY <1>3, <4>2 DEF mask, Mask, Names
      <4>3. CASE ev.kind # "mods"
        <5>1. NamesPress(ev)
          BY <2>3, <4>3 DEF SetsModifiers, IsModifierKey
        <5>2. p = ev.press
          BY <4>1, <4>3 DEF mask, Mask
        <5> QED BY <1>3, <5>1, <5>2 DEF Names
      <4> QED BY <4>2, <4>3
    <3> QED BY <3>2, <3>3 DEF g
  <2>4. CASE EventValid(h, ev) /\ ev.kind # "motion" /\ ~SetsModifiers(ev)
    <3>1. ev.press \in Press /\ ev.down \in BOOLEAN /\ NamesPress(ev)
      BY <2>1, <2>4 DEF Events, KeyEvents, PlainEvents, ModsEvents, MotionEvents,
                        Press, SetsModifiers, NamesPress
    <3>2. g = Transition(h, ev.press, ev.down, pkt.seq)
      BY <2>1, <2>4 DEF EventHeld
    <3>3. CASE p = ev.press
      <4>1. g[p] \in {h[p], 0, pkt.seq}
        BY <1>0, <3>1, <3>2, <3>3 DEF Transition, Held
      <4>2. Names(pkt.body, p)
        BY <1>3, <3>1, <3>3 DEF Names
      <4> QED BY <1>0, <4>1, <4>2
    <3>4. CASE p # ev.press
      BY <1>0, <3>1, <3>2, <3>4, TransitionHeld
    <3> QED BY <3>3, <3>4
  <2> QED BY <2>2, <2>3, <2>4
<1> QED BY <1>0, <1>1, <1>2, <1>3 DEF Bodies

\* Every step keeps the host's tables filled by what was sent.
LEMMA HoldsStep ==
  ASSUME LaneTypeOK, Clocks, Ownership, Ownership', HostHoldsWhatWasSent,
         [LaneNext]_allVars
  PROVE  HostHoldsWhatWasSent'
<1> DEFINE SentBy(ms, v, e, s, p) ==
             \E m \in ms : m.type = "input" /\ m.v = v /\ m.pkt.epoch = e
                           /\ m.pkt.seq = s /\ Names(m.pkt.body, p)
<1>0. /\ TypeOK /\ lease \in [Viewer -> Leases]
      /\ \A v \in Viewer : \A p \in Down(lease[v].held) :
           SentBy(net, v, lease[v].epoch, lease[v].held[p], p)
  BY DEF LaneTypeOK, TypeOK, HostHoldsWhatWasSent, Names
<1>1. ASSUME \A v \in Viewer : \A p \in Down(lease'[v].held) :
               SentBy(net', v, lease'[v].epoch, lease'[v].held[p], p)
      PROVE  HostHoldsWhatWasSent'
  BY <1>1 DEF HostHoldsWhatWasSent, Names
<1>2. ASSUME net \subseteq net', NEW v, NEW e, NEW s, NEW p, SentBy(net, v, e, s, p)
      PROVE  SentBy(net', v, e, s, p)
  BY <1>2
<1> HIDE DEF SentBy
<1>3. ASSUME net \subseteq net', \A w \in Viewer : LeaseQuiet(w)
      PROVE  HostHoldsWhatWasSent'
  <2>1. Down(Empty) = {}
    BY DEF Down, Empty
  <2>2. ASSUME NEW v \in Viewer, NEW p \in Down(lease'[v].held)
        PROVE  SentBy(net', v, lease'[v].epoch, lease'[v].held[p], p)
    <3>1. lease'[v].epoch = lease[v].epoch /\ lease'[v].held = lease[v].held
      BY <1>3, <2>1, <2>2 DEF LeaseQuiet
    <3>2. SentBy(net, v, lease[v].epoch, lease[v].held[p], p)
      BY <1>0, <2>2, <3>1
    <3> QED BY <1>2, <1>3, <3>1, <3>2
  <2> QED BY <1>1, <2>2
<1>4. UNCHANGED lease => \A w \in Viewer : LeaseQuiet(w)
  BY <1>0 DEF LeaseQuiet, Leases
<1>5. CASE MildViewer
  BY <1>3, <1>4, <1>5, NetSteps DEF vars
<1>6. ASSUME NEW v \in Viewer, NEW n, NEW k, Sealed(v, n, k)
      PROVE  HostHoldsWhatWasSent'
  BY <1>3, <1>4, <1>6, NetSteps DEF vars
<1>7. CASE LaneCalm
  BY <1>0, <1>3, <1>7, NetSteps, CalmLeases
<1>8. CASE HostInjects
  BY <1>3, <1>4, <1>8, NetSteps DEF Inject
<1>9. ASSUME NEW m \in net, HostReceivesRequest(m)
      PROVE  HostHoldsWhatWasSent'
  <2>1. QuietHost /\ net \subseteq net'
    BY <1>9, RequestCalm, HostSides DEF Ownership, EpochsFresh
  <2> QED BY <1>3, <2>1 DEF QuietHost
<1>10. ASSUME NEW n \in net, LaneDispatch(n)
       PROVE  HostHoldsWhatWasSent'
  <2> DEFINE l == LeaseAfter(lease[n.v], n.pkt)
  <2>0. /\ n.v \in Viewer /\ n.pkt \in Packets /\ n.type = "input"
        /\ net \subseteq net' /\ Dispatch(n.v, n.pkt)
    BY <1>10, NetSteps DEF LaneDispatch
  <2>1. /\ lease[n.v] \in Leases /\ Applies(lease[n.v], n.pkt)
        /\ lease[n.v].epoch = n.pkt.epoch /\ l.epoch = n.pkt.epoch
        /\ l.held = HeldAfter(lease[n.v], n.pkt)
        /\ lease' = [lease EXCEPT ![n.v] = l] /\ l \in Leases
    BY <2>0, AdmittedLease
  <2>2. ASSUME NEW p \in Down(l.held)
        PROVE  SentBy(net', n.v, l.epoch, l.held[p], p)
    <3>1. CASE l.held[p] = lease[n.v].held[p]
      <4>1. p \in Down(lease[n.v].held)
        BY <3>1 DEF Down
      <4>2. SentBy(net, n.v, lease[n.v].epoch, lease[n.v].held[p], p)
        BY <1>0, <2>0, <4>1
      <4> HIDE DEF l
      <4> QED BY <1>2, <2>0, <2>1, <3>1, <4>2
    <3>2. CASE l.held[p] = n.pkt.seq /\ Names(n.pkt.body, p)
      <4> HIDE DEF l
      <4> QED BY <2>0, <2>1, <3>2 DEF SentBy
    <3> QED BY <2>0, <2>1, <3>1, <3>2, PacketEntries
  <2> HIDE DEF l
  <2>3. ASSUME NEW v \in Viewer, NEW p \in Down(lease'[v].held)
        PROVE  SentBy(net', v, lease'[v].epoch, lease'[v].held[p], p)
    <3>1. CASE v = n.v
      <4>1. lease'[v] = l
        BY <1>0, <2>1, <3>1
      <4> QED BY <2>2, <2>3, <3>1, <4>1
    <3>2. CASE v # n.v
      <4>1. lease'[v] = lease[v]
        BY <1>0, <2>1, <3>2
      <4>2. SentBy(net, v, lease[v].epoch, lease[v].held[p], p)
        BY <1>0, <2>3, <4>1
      <4> QED BY <1>2, <2>0, <4>1, <4>2
    <3> QED BY <3>1, <3>2
  <2> QED BY <1>1, <2>3
<1> QED BY <1>5, <1>6, <1>7, <1>8, <1>9, <1>10, LaneCases

-----------------------------------------------------------------------------
(* The whole lane.                                                         *)

\* The first state: everyone connected, nobody granted.
LEMMA LaneFirst == LaneInit => LaneInv
<1> SUFFICES ASSUME LaneInit PROVE LaneInv
  OBVIOUS
<1>1. TypeOK
  <2>1. NoSub \in Subs /\ NoLease \in Leases
    BY EntryTypes
  <2>2. [NoSub EXCEPT !.st = "live", !.able = TRUE] \in Subs
    BY <2>1 DEF Subs
  <2>3. active \in Actives
    BY DEF LaneInit, Actives
  <2>4. job \in Jobs
    BY DEF LaneInit, Jobs
  <2> QED BY <2>1, <2>2, <2>3, <2>4 DEF LaneInit, TypeOK
<1>2. /\ \A v \in Viewer : lease[v].epoch = 0 /\ Down(lease[v].held) = {}
      /\ ~Injecting /\ active.native = {} /\ active.epoch = 0 /\ net = {}
  BY EntryTypes DEF LaneInit, Injecting, Idle, Down, Empty
<1>3. Ownership
  BY <1>1, <1>2
     DEF LaneInit, Ownership, EpochsFresh, OwnerNotRevoked, HeldOwned, OwnerBound,
         NativeMatches, InjectOK
<1>4. StopInv
  BY <1>2, StopInit DEF LaneInit
<1>5. reqNo = 0 /\ now = 0
  BY DEF LaneInit
<1>6. \A v \in Viewer : slot[v] = Slot(0) /\ slot[v] \in Slots
  BY <1>5, ViewerEntryTypes, LaneBounds DEF LaneInit
<1>7. \A v \in Viewer :
        /\ slot[v].lease = NoViewerLease /\ slot[v].reset = 0 /\ slot[v].request = 0
  BY <1>5, <1>6 DEF Slot
<1>8. /\ NoViewerLease.epoch = 0 /\ NoViewerLease.hostAt = 0
      /\ NoViewerLease.received = 0 /\ NoViewerLease.intent = None
      /\ NoViewerLease.touch = 0 /\ Down(NoViewerLease.held) = {} /\ None <= 0
  BY DEF NoViewerLease, None, Down, Empty
<1>9. LaneTypeOK
  BY <1>1, <1>2, <1>5, <1>6 DEF LaneTypeOK, LaneInit
<1>10. Clocks
  BY <1>2, <1>5, <1>7, <1>8 DEF Clocks, NeverAhead
<1>11. SlotsCurrent
  BY <1>5, <1>7, <1>8 DEF SlotsCurrent
<1>12. GrantsMatch /\ SentUnderGrant /\ JobSent /\ StampSent
  BY <1>2, <1>7, <1>8 DEF GrantsMatch, SentUnderGrant, JobSent, StampSent
<1>13. PacketsInOrder /\ AcksTrue
  BY <1>2, <1>7, <1>8 DEF PacketsInOrder, AcksTrue
<1>14. HostHoldsWhatWasSent
  BY <1>2 DEF HostHoldsWhatWasSent
<1> QED BY <1>3, <1>4, <1>9, <1>10, <1>11, <1>12, <1>13, <1>14 DEF LaneInv

\* Every step of the lane keeps all of it.
LEMMA LaneStep ==
  ASSUME LaneInv, [LaneNext]_allVars
  PROVE  LaneInv'
<1>0. /\ LaneTypeOK /\ Ownership /\ StopInv /\ Clocks /\ SlotsCurrent /\ GrantsMatch
      /\ SentUnderGrant /\ JobSent /\ StampSent /\ PacketsInOrder /\ AcksTrue
      /\ HostHoldsWhatWasSent
  BY DEF LaneInv
<1>1. [OpenNext]_vars
  BY <1>0, LaneHostStep
<1>2. Ownership' /\ StopInv'
  BY <1>0, <1>1, OwnershipStep, StopStep
<1>3. LaneTypeOK' /\ Clocks' /\ SlotsCurrent'
  BY <1>0, <1>2, LaneTypeStep, ClocksStep, SlotsStep
<1>4. GrantsMatch' /\ SentUnderGrant'
  BY <1>0, <1>2, GrantsStep, SentStep
<1>5. JobSent' /\ StampSent' /\ PacketsInOrder'
  BY <1>0, <1>2, JobStep, StampStep, OrderStep
<1>6. AcksTrue' /\ HostHoldsWhatWasSent'
  BY <1>0, <1>2, <1>3, AcksStep, HoldsStep
<1> QED BY <1>2, <1>3, <1>4, <1>5, <1>6 DEF LaneInv

\* The host's ownership and time budgets, the viewer's clocks and slots, and what
\* ties the two together over the network, hold together in every state of the
\* lane.
THEOREM LaneInvariant == LaneSpec => []LaneInv
<1>1. LaneInit => LaneInv
  BY LaneFirst
<1>2. LaneInv /\ [LaneNext]_allVars => LaneInv'
  BY LaneStep
<1> QED BY <1>1, <1>2, PTL DEF LaneSpec

\* Viewer slots, messages and the host's state keep their types (InputState,
\* InputLease, ActiveInput).
THEOREM LaneTypes == LaneSpec => []LaneTypeOK
<1>1. LaneInv => LaneTypeOK
  BY DEF LaneInv
<1> QED BY <1>1, LaneInvariant, PTL

\* The viewer's estimate of the host clock never runs ahead of it, whatever
\* grants were late or repeated (created_host_ms is biased older).
THEOREM ClockNeverAhead == LaneSpec => []NeverAhead
<1>1. LaneInv => NeverAhead
  BY DEF LaneInv, Clocks
<1> QED BY <1>1, LaneInvariant, PTL

\* A late or repeated grant never revives input: the lease in use answers a
\* request made after the slot was last opened, switched or paused
\* (InputState::grant).
THEOREM GrantsCurrent == LaneSpec => []GrantIsCurrent
<1>1. LaneInv => GrantIsCurrent
  BY DEF LaneInv, SlotsCurrent, GrantIsCurrent, HasLease
<1> QED BY <1>1, LaneInvariant, PTL

\* Everything the host's leases claim was pressed by the viewer through that
\* lease, by the packet whose number the entry carries (HeldState::event).
THEOREM HeldWasSent == LaneSpec => []HostHoldsWhatWasSent
<1>1. LaneInv => HostHoldsWhatWasSent
  BY DEF LaneInv
<1> QED BY <1>1, LaneInvariant, PTL

\* A confirmed release is true: what the viewer saw confirmed, and did not press
\* again since, is up on the host, and no packet in flight can press it
\* (InputState::release_ack, InputHandled).
THEOREM ConfirmedReleases == LaneSpec => []ReleaseConfirmed
<1>1. LaneInv => ReleaseConfirmed
  <2> SUFFICES ASSUME LaneInv, NEW v \in Viewer,
                      HasLease(slot[v]), ~slot[v].lease.again,
                      slot[v].lease.acked > slot[v].lease.pressed,
                      active.peer = v, active.epoch = slot[v].lease.epoch
               PROVE  active.native = {}
    BY DEF ReleaseConfirmed
  <2> DEFINE l == slot[v].lease
  <2>0. LaneTypeOK /\ AcksTrue /\ PacketsInOrder /\ l.epoch # 0
    BY DEF LaneInv, HasLease
  <2>1. l.acked \in Nat /\ l.pressed \in Nat /\ l.acked # 0
    BY <2>0, SlotTypes, ViewerLeaseTypes
  <2>2. PICK m \in net : m.type = "ack" /\ m.v = v /\ m.epoch = l.epoch
                         /\ m.seq = l.acked
    BY <2>0, <2>1 DEF AcksTrue
  <2>3. PICK n \in SentOf(v, l.epoch) :
          n.pkt.seq = l.acked /\ n.pkt.body.kind = "release"
    BY <2>0, <2>2 DEF AcksTrue
  <2>4. \A q \in SentOf(v, l.epoch) : q.pkt.seq > l.acked => ~Presses(q.pkt.body)
    BY <2>0, <2>3 DEF PacketsInOrder
  <2>5. NothingSince(m.v, m.epoch, m.seq)
    BY <2>2, <2>4 DEF NothingSince
  <2> QED BY <2>0, <2>2, <2>5 DEF AcksTrue
<1> QED BY <1>1, LaneInvariant, PTL

\* A dead frontend lets go: what a viewer's lease holds down on the host is up
\* again one hold timeout, and one watchdog period or packet, after the user's
\* last press, modifier change or refresh, although snapshots and motion keep
\* flowing (InputState::snapshots, refresh_bound).
THEOREM DeadFrontendLetsGo == LaneSpec => []DeadManBound
<1>1. LaneInv => DeadManBound
  <2> SUFFICES ASSUME LaneInv, NEW v \in Viewer,
                      active.native # {}, active.peer = v, HasLease(slot[v]),
                      slot[v].lease.epoch = active.epoch, ~slot[v].lease.again
               PROVE  now < slot[v].lease.touch + Hold
                              + (IF Watch < MaxBusy THEN MaxBusy ELSE Watch)
    BY DEF DeadManBound
  <2> DEFINE l == slot[v].lease
  <2>0. LaneTypeOK /\ TypeOK /\ StopBound /\ StampSent /\ PacketsInOrder /\ l.epoch # 0
    BY DEF LaneInv, LaneTypeOK, StopInv, HasLease
  <2>1. PICK m \in SentOf(v, l.epoch) :
          m.pkt.created = active.stamp /\ Assertive(m.pkt.body)
    BY <2>0 DEF StampSent
  <2>2. active.stamp <= l.touch
    BY <2>0, <2>1 DEF PacketsInOrder
  <2>3. now < active.stamp + Hold + (IF Watch < MaxBusy THEN MaxBusy ELSE Watch)
    BY <2>0 DEF StopBound
  <2>4. now \in Nat /\ active.stamp \in Nat /\ l.touch \in Nat
    BY <2>0, TimeTypes, SlotTypes, ViewerLeaseTypes
  <2> HIDE DEF l
  <2>5. now < l.touch + Hold + (IF Watch < MaxBusy THEN MaxBusy ELSE Watch)
    BY <2>2, <2>3, <2>4, LaneBounds
  <2> QED BY <2>5 DEF l
<1> QED BY <1>1, LaneInvariant, PTL

\* Input meant for one source is never injected into another: whatever switches
\* and grants cross on the way, the packet being injected was sealed under the
\* source revision the host shows (InputState::seal, Connection::accept_input).
THEOREM PressesRightSource == LaneSpec => RightSource
<1>1. ASSUME LaneInv, Injecting
      PROVE  \E m \in net : m.type = "input" /\ m.v = job.v /\ m.pkt = job.pkt
                            /\ m.rev = sub[job.v].rev
  <2>0. /\ LaneTypeOK /\ Ownership /\ GrantsMatch /\ SentUnderGrant /\ JobSent
        /\ job.v \in Viewer
    BY <1>1, JobTypes DEF LaneInv, LaneTypeOK, TypeOK, Injecting
  <2>1. PICK m \in SentOf(job.v, job.pkt.epoch) : m.pkt = job.pkt
    BY <1>1, <2>0 DEF JobSent
  <2>2. m \in net /\ m.type = "input" /\ m.v = job.v /\ m.pkt.epoch = job.pkt.epoch
    BY <2>0, <2>1, SentTypes
  <2>3. PICK g \in net : g.type = "grant" /\ g.epoch = job.pkt.epoch /\ g.rev = m.rev
    BY <2>0, <2>2 DEF SentUnderGrant, Granted
  <2>4. lease[job.v].epoch = job.pkt.epoch /\ lease[job.v].rev = sub[job.v].rev
    BY <1>1, <2>0 DEF Ownership, InjectOK, JobSent
  <2>5. lease[job.v].rev = g.rev
    BY <2>0, <2>3, <2>4 DEF GrantsMatch
  <2> QED BY <2>1, <2>2, <2>3, <2>4, <2>5
<1>2. LaneInv /\ [LaneNext]_allVars =>
        [Injecting /\ active'.native \ active.native # {} =>
           \E m \in net : m.type = "input" /\ m.v = job.v /\ m.pkt = job.pkt
                          /\ m.rev = sub[job.v].rev]_allVars
  BY <1>1
<1> QED BY <1>2, LaneInvariant, PTL DEF LaneSpec, RightSource
=============================================================================
