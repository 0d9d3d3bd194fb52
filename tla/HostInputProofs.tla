--------------------------- MODULE HostInputProofs ---------------------------
(***************************************************************************)
(* Proofs about HostInput for every set of peers, presses and targets and  *)
(* every bound: its types, that ownership of the native side is one        *)
(* irreversible lifetime that agrees with the leases, that nothing stays   *)
(* down longer than the watchdog and the hold timeout allow, and what a    *)
(* chord and a clean-up may do. The lemmas about the table of presses come *)
(* first: what a packet does to the table and what its events do natively  *)
(* come to the same set of presses.                                        *)
(***************************************************************************)
EXTENDS HostInput, TLAPS

-----------------------------------------------------------------------------
(* The table of presses (HeldState).                                       *)

\* HeldState::transition changes one entry at most, and keeps a table a table.
LEMMA TransitionHeld ==
  ASSUME NEW h \in Held, NEW p \in Press, NEW d \in BOOLEAN, NEW s \in Nat
  PROVE  /\ Transition(h, p, d, s) \in Held
         /\ \A q \in Press \ {p} : Transition(h, p, d, s)[q] = h[q]
  BY DEF Transition, Held

\* The loop over the modifier bits leaves keys and buttons alone.
LEMMA SetModifiersHeld ==
  ASSUME NEW h \in Held, NEW mask \in SUBSET Modifier, NEW s \in Nat
  PROVE  /\ SetModifiers(h, mask, s) \in Held
         /\ \A q \in Press \ Modifier : SetModifiers(h, mask, s)[q] = h[q]
<1> DEFINE h1 == Transition(h, Shift, Shift \in mask, s)
           h2 == Transition(h1, Control, Control \in mask, s)
           h3 == Transition(h2, Option, Option \in mask, s)
           h4 == Transition(h3, Command, Command \in mask, s)
<1>0. /\ {Shift, Control, Option, Command} = Modifier
      /\ Modifier \subseteq Press
  BY DEF Modifier, Press
<1>1. h1 \in Held /\ \A q \in Press \ {Shift} : h1[q] = h[q]
  BY <1>0 DEF Transition, Held
<1> HIDE DEF h1
<1>2. h2 \in Held /\ \A q \in Press \ {Control} : h2[q] = h1[q]
  BY <1>0, <1>1 DEF Transition, Held
<1> HIDE DEF h2
<1>3. h3 \in Held /\ \A q \in Press \ {Option} : h3[q] = h2[q]
  BY <1>0, <1>2 DEF Transition, Held
<1> HIDE DEF h3
<1>4. h4 \in Held /\ \A q \in Press \ {Command} : h4[q] = h3[q]
  BY <1>0, <1>3 DEF Transition, Held
<1>5. SetModifiers(h, mask, s) = h4
  BY DEF SetModifiers, h1, h2, h3, h4
<1> HIDE DEF h4
<1> QED
  BY <1>0, <1>1, <1>2, <1>3, <1>4, <1>5

\* The mask a modifier event stands for.
LEMMA MaskType ==
  ASSUME NEW h \in Held, NEW ev \in Events, SetsModifiers(ev)
  PROVE  Mask(h, ev) \in SUBSET Modifier
  BY DEF Mask, SetsModifiers, IsModifierKey, NamesPress, Modifiers, Events,
         KeyEvents, PlainEvents, ModsEvents, MotionEvents

\* HeldState::event keeps a table a table.
LEMMA EventHeldType ==
  ASSUME NEW h \in Held, NEW ev \in Events, NEW s \in Nat
  PROVE  EventHeld(h, ev, s) \in Held
<1>1. CASE SetsModifiers(ev)
  BY <1>1, MaskType, SetModifiersHeld DEF EventHeld
<1>2. CASE ~SetsModifiers(ev) /\ ev.kind # "motion"
  <2>1. ev.press \in Press /\ ev.down \in BOOLEAN
    BY <1>2 DEF Events, KeyEvents, PlainEvents, ModsEvents, MotionEvents, Press,
                SetsModifiers
  <2> QED BY <1>2, <2>1, TransitionHeld DEF EventHeld
<1>3. CASE ev.kind = "motion"
  BY <1>3 DEF EventHeld
<1> QED BY <1>1, <1>2, <1>3

\* A packet's single event leaves natively down what the table then holds.
LEMMA EventNative ==
  ASSUME NEW h \in Held, NEW ev \in Events, NEW s \in Nat \ {0},
         EventValid(h, ev)
  PROVE  NativeAfter(Down(h), EventOut(ev, EventHeld(h, ev, s)))
           = Down(EventHeld(h, ev, s))
<1> DEFINE g == EventHeld(h, ev, s)
<1>0. g \in Held
  BY EventHeldType
<1>1. CASE SetsModifiers(ev)
  <2>1. \A q \in Press \ Modifier : g[q] = h[q]
    BY <1>1, MaskType, SetModifiersHeld
       DEF EventHeld, SetsModifiers, IsModifierKey, NamesPress
  <2>2. EventOut(ev, g) = [down |-> {}, up |-> {}, mods |-> Modifiers(g),
                           how |-> "set"]
    BY <1>1 DEF EventOut, SetsModifiers, NamesPress, IsModifierKey
  <2> HIDE DEF g
  <2>3. NativeAfter(Down(h), EventOut(ev, g)) = Down(g)
    BY <2>1, <2>2 DEF NativeAfter, Down, Modifiers
  <2> QED BY <2>3 DEF g
<1>2. CASE ~SetsModifiers(ev) /\ ev.kind # "motion"
  <2> DEFINE p == ev.press
  <2>1. /\ p \in Key \cup Button /\ p \notin Modifier /\ p \in Press
        /\ ev.down \in BOOLEAN /\ NamesPress(ev) /\ ~IsModifierKey(ev)
    BY <1>2 DEF Events, KeyEvents, PlainEvents, ModsEvents, MotionEvents, Press,
                SetsModifiers, NamesPress, IsModifierKey
  <2>2. CanTransition(h, p, ev.down)
    BY <1>2, <2>1 DEF EventValid, SetsModifiers, NamesPress
  <2>3. g = [h EXCEPT ![p] = IF ev.down THEN s ELSE 0]
    BY <1>2, <2>1, <2>2 DEF EventHeld, Transition
  <2>4. Down(g) = IF ev.down THEN Down(h) \cup {p} ELSE Down(h) \ {p}
    BY <2>1, <2>3 DEF Down, Held
  <2>5. Modifiers(g) = Down(h) \cap Modifier
    BY <2>1, <2>4 DEF Modifiers
  <2>6. EventOut(ev, g) = [down |-> IF ev.down THEN {p} ELSE {},
                           up   |-> IF ev.down THEN {} ELSE {p},
                           mods |-> Modifiers(g),
                           how  |-> IF p \in Key
                                    THEN IF ev.down THEN "set" ELSE "mask"
                                    ELSE "keep"]
    BY <1>2, <2>1 DEF EventOut
  <2> HIDE DEF g, p
  <2>7. NativeAfter(Down(h), EventOut(ev, g)) = Down(g)
    BY <2>1, <2>4, <2>5, <2>6 DEF NativeAfter
  <2> QED BY <2>7 DEF g
<1>3. CASE ev.kind = "motion"
  <2>1. g = h
    BY <1>3 DEF EventHeld
  <2>2. EventOut(ev, g) = [down |-> {}, up |-> {}, mods |-> Modifiers(g),
                           how |-> "keep"]
    BY <1>3 DEF EventOut, SetsModifiers, NamesPress, IsModifierKey
  <2> QED
    BY <2>1, <2>2 DEF NativeAfter
<1> QED BY <1>1, <1>2, <1>3

\* release_missing and clear only take presses away.
LEMMA ReleaseMissingHeld ==
  ASSUME NEW h \in Held, NEW snap \in Held
  PROVE  /\ ReleaseMissing(h, snap) \in Held /\ Empty \in Held
         /\ Down(ReleaseMissing(h, snap)) \subseteq Down(h)
         /\ Down(Empty) = {}
  BY DEF ReleaseMissing, Held, Down, Empty

\* The batch of release_missing leaves natively down what is left.
LEMMA ReleaseNative ==
  ASSUME NEW g, NEW h, Down(g) \subseteq Down(h)
  PROVE  /\ BatchNative(Down(h), ReleaseBatch(h, g)) = Down(g)
         /\ ReleaseBatch(h, g).ups \cap Modifier = {}
         /\ Down(h) \cap Modifier \subseteq ReleaseBatch(h, g).mods
<1> DEFINE gone == Down(h) \ Down(g)
           out == [down |-> {}, up |-> {}, mods |-> Modifiers(g), how |-> "set"]
<1>1. out # NoOut
  BY DEF NoOut
<1>2. CASE gone \cap Modifier = {}
  BY <1>2 DEF ReleaseBatch, BatchNative, Modifiers
<1>3. CASE gone \cap Modifier # {}
  <2>1. BatchNative(Down(h), ReleaseBatch(h, g))
          = NativeAfter(Down(h) \ (gone \ Modifier), out)
    BY <1>1, <1>3 DEF ReleaseBatch, BatchNative
  <2>2. NativeAfter(Down(h) \ (gone \ Modifier), out) = Down(g)
    BY DEF NativeAfter, Modifiers
  <2> QED BY <2>1, <2>2 DEF ReleaseBatch, Modifiers
<1> QED BY <1>2, <1>3

\* Injecting the next event of a batch does not change what the whole batch
\* will leave down.
LEMMA BatchStep ==
  ASSUME NEW batch \in Batches, NEW native, NEW out \in NextOuts(batch),
         batch.ups \cap Modifier = {},
         batch.ups # {} => native \cap Modifier \subseteq batch.mods
  PROVE  LET n == NativeAfter(native, out)
             rest == BatchRest(batch, out)
         IN  /\ BatchNative(n, rest) = BatchNative(native, batch)
             /\ rest.ups \cap Modifier = {}
             /\ rest.ups # {} => n \cap Modifier \subseteq rest.mods
<1> DEFINE n == NativeAfter(native, out)
           rest == BatchRest(batch, out)
<1>1. CASE batch.ups = {}
  <2>1. out = batch.last /\ batch.last # NoOut
    BY <1>1 DEF NextOuts
  <2>2. rest = [batch EXCEPT !.last = NoOut]
    BY <1>1 DEF BatchRest
  <2>3. rest.ups = {} /\ rest.last = NoOut
    BY <1>1, <2>2 DEF Batches
  <2> HIDE DEF rest
  <2>4. BatchNative(n, rest) = BatchNative(native, batch)
    BY <1>1, <2>1, <2>3 DEF BatchNative
  <2> QED BY <2>3, <2>4 DEF rest
<1>2. CASE batch.ups # {}
  <2>1. PICK p \in batch.ups :
          out = [down |-> {}, up |-> {p}, mods |-> batch.mods,
                 how |-> IF p \in Key THEN "mask" ELSE "keep"]
    BY <1>2 DEF NextOuts
  <2>2. batch.mods \subseteq Modifier
    BY DEF Batches
  <2>3. n = native \ {p}
    BY <1>2, <2>1, <2>2 DEF NativeAfter
  <2>4. rest = [batch EXCEPT !.ups = @ \ {p}]
    BY <1>2, <2>1 DEF BatchRest
  <2>5. rest.ups = batch.ups \ {p} /\ rest.last = batch.last
        /\ rest.mods = batch.mods
    BY <2>4 DEF Batches
  <2>6. n \ rest.ups = native \ batch.ups
    BY <2>3, <2>5
  <2> HIDE DEF rest, n
  <2>7. BatchNative(n, rest) = BatchNative(native, batch)
    BY <2>5, <2>6 DEF BatchNative
  <2> QED BY <1>2, <2>3, <2>5, <2>7 DEF n, rest
<1> QED BY <1>1, <1>2

\* The types of the batches.
LEMMA BatchTypes ==
  /\ NoBatch \in Batches
  /\ \A h \in Held, g \in Held : ReleaseBatch(h, g) \in Batches
  /\ \A ev \in Events, g \in Held : EventBatch(ev, g) \in Batches
  /\ \A ev \in Events, g \in Held : EventOut(ev, g) # NoOut
<1>1. NoBatch \in Batches
  BY DEF NoBatch, Batches
<1>2. ASSUME NEW h \in Held, NEW g \in Held
      PROVE  ReleaseBatch(h, g) \in Batches
  BY DEF ReleaseBatch, Batches, Outs, Modifiers, Down
<1>3. ASSUME NEW ev \in Events, NEW g \in Held
      PROVE  EventOut(ev, g) \in Outs
  BY DEF EventOut, Outs, Modifiers, Down, NamesPress, IsModifierKey,
         SetsModifiers, Events, KeyEvents, PlainEvents, ModsEvents,
         MotionEvents, Press
<1>4. ASSUME NEW o \in Outs
      PROVE  o # NoOut
  BY DEF Outs, NoOut
<1>5. ASSUME NEW ev \in Events, NEW g \in Held
      PROVE  EventBatch(ev, g) \in Batches
  BY <1>3 DEF EventBatch, Batches
<1> QED BY <1>1, <1>2, <1>3, <1>4, <1>5

\* What is left of a batch is a batch.
LEMMA BatchRestType ==
  ASSUME NEW batch \in Batches, NEW out
  PROVE  BatchRest(batch, out) \in Batches
  BY DEF BatchRest, Batches

-----------------------------------------------------------------------------
(* Types of the operators the actions are built from.                      *)

\* The default target of an empty entry.
LEMMA TargetChoice == (CHOOSE t \in Target : TRUE) \in Target
  BY HostInputAssumption

\* Entries of the two tables.
LEMMA EntryTypes ==
  /\ NoSub \in Subs /\ NoLease \in Leases /\ NoLease.epoch = 0
  /\ NoLease.held = Empty
  BY TargetChoice DEF NoSub, Subs, NoLease, Leases, Held, Empty

\* A lease that was just bound.
LEMMA NewLeaseType ==
  ASSUME NEW s \in Subs, NEW e \in Nat, now \in Nat
  PROVE  NewLease(s, e) \in Leases
  BY DEF NewLease, Leases, Subs, Held, Empty

\* The deadline of a lease is a time.
LEMMA DeadlineType ==
  ASSUME NEW l \in Leases
  PROVE  Deadline(l) \in Nat
  BY HostInputAssumption DEF Deadline, Leases

\* What a release leaves, and what the final check of a message leaves.
LEMMA ReleasedTypes ==
  ASSUME NEW a \in Actives
  PROVE  /\ Released(a) \in Actives
         /\ \A s : Settled(a, s) \in {a, Released(a)}
         /\ \A s : Settled(Released(a), s) = Released(a)
         /\ \A v : ReleasedFrom(a, v) \in {a, Released(a)}
  BY DEF Released, Settled, ReleasedFrom, Actives

\* The table and the lease after a packet.
LEMMA PacketTypes ==
  ASSUME NEW l \in Leases, NEW pkt \in Packets, pkt.body.kind # "oversized"
  PROVE  /\ HeldAfter(l, pkt) \in Held
         /\ PacketBatch(l, pkt) \in Batches
<1>0. l.held \in Held /\ pkt.seq \in Nat /\ pkt.body \in Bodies
  BY DEF Leases, Packets
<1>1. CASE pkt.body.kind = "event"
  <2>1. pkt.body.ev \in Events
    BY <1>0, <1>1 DEF Bodies
  <2>2. HeldAfter(l, pkt) = EventHeld(l.held, pkt.body.ev, pkt.seq)
    BY <1>1 DEF HeldAfter
  <2>3. HeldAfter(l, pkt) \in Held
    BY <1>0, <2>1, <2>2, EventHeldType
  <2> QED BY <1>1, <2>1, <2>3, BatchTypes DEF PacketBatch
<1>2. CASE pkt.body.kind = "held"
  <2>1. pkt.body.snap \in Held
    BY <1>0, <1>2 DEF Bodies
  <2>2. HeldAfter(l, pkt) = ReleaseMissing(l.held, pkt.body.snap)
    BY <1>2 DEF HeldAfter
  <2> QED BY <1>0, <1>2, <2>1, <2>2, ReleaseMissingHeld, BatchTypes
          DEF PacketBatch
<1>3. CASE pkt.body.kind = "release"
  <2>1. HeldAfter(l, pkt) = Empty
    BY <1>3 DEF HeldAfter
  <2> QED BY <1>0, <1>3, <2>1, ReleaseMissingHeld, BatchTypes DEF PacketBatch
<1> QED BY <1>0, <1>1, <1>2, <1>3 DEF Bodies

\* A packet leaves a lease with the same epoch.
LEMMA LeaseAfterType ==
  ASSUME NEW l \in Leases, NEW pkt \in Packets
  PROVE  /\ LeaseAfter(l, pkt) \in Leases
         /\ LeaseAfter(l, pkt).epoch = l.epoch
         /\ ~Applies(l, pkt) => LeaseAfter(l, pkt).held = l.held
         /\ Applies(l, pkt) => LeaseAfter(l, pkt).held = HeldAfter(l, pkt)
<1>1. CASE Applies(l, pkt)
  BY <1>1, PacketTypes DEF LeaseAfter, Leases, Packets, Applies
<1>2. CASE ~Applies(l, pkt)
  BY <1>2 DEF LeaseAfter, Leases, Packets
<1> QED BY <1>1, <1>2

\* What a peer can send is a packet.
LEMMA SentPacketTypes ==
  ASSUME TypeOK, NEW v \in Viewer
  PROVE  SentPackets(v) \subseteq Packets
<1>1. lease[v] \in Leases
  BY DEF TypeOK
<1>2. Snapshots(lease[v]) \subseteq Held
  BY <1>1 DEF Snapshots, Leases, Held
<1>3. SentBodies(lease[v]) \subseteq Bodies
  BY <1>2, HostInputAssumption DEF SentBodies, Bodies
<1>4. MaxTime \in Nat /\ MaxSeq \in Nat /\ lease[v].epoch \in Nat
  BY <1>1, HostInputAssumption DEF Leases
<1> QED BY <1>3, <1>4 DEF SentPackets, Packets

\* The host handles one packet.
Receives(v, pkt) ==
  DispatchConsumed(v, pkt) \/ Dispatch(v, pkt) \/ DispatchReleaseFails(v, pkt)

\* The host among senders of which nothing is known: any packet may arrive.
OpenNext == \/ \E v \in Viewer : HostStep(v) \/ \E pkt \in Packets : Receives(v, pkt)
            \/ \E a \in Addr : CloseConnection(a)
            \/ HostJob \/ HostTime

\* The peers of the specification are such senders.
LEMMA NextIsOpen ==
  ASSUME TypeOK, [Next]_vars
  PROVE  [OpenNext]_vars
<1>1. ASSUME NEW v \in Viewer, AnyPacket(v) PROVE \E pkt \in Packets : Receives(v, pkt)
  BY <1>1, SentPacketTypes DEF AnyPacket, Receives
<1> QED BY <1>1 DEF Next, OpenNext

\* The fields of a job in progress.
LEMMA JobTypes ==
  ASSUME job \in Jobs
  PROVE  /\ job.kind = "inject" =>
              /\ job \in InjectJobs
              /\ job.v \in Viewer /\ job.pkt \in Packets /\ job.batch \in Batches
              /\ job.ready \in BOOLEAN /\ job.since \in Nat
         /\ job.kind = "control" =>
              /\ job.v \in Viewer /\ job.rev \in Nat
         /\ Idle.kind = "idle"
  BY DEF Jobs, InjectJobs, ControlJobs, Idle

\* The steps of an injection change its job's ready flag and batch only.
LEMMA InjectJobStep ==
  ASSUME NEW j \in InjectJobs, NEW rest \in Batches, NEW r \in BOOLEAN
  PROVE  LET k == [j EXCEPT !.batch = rest, !.ready = r]
             m == [j EXCEPT !.ready = r]
         IN  /\ k \in InjectJobs /\ k.kind = "inject" /\ k.v = j.v
             /\ k.pkt = j.pkt /\ k.batch = rest /\ k.ready = r
             /\ m \in InjectJobs /\ m.kind = "inject" /\ m.v = j.v
             /\ m.pkt = j.pkt /\ m.batch = j.batch /\ m.ready = r
  BY DEF InjectJobs

-----------------------------------------------------------------------------
(* Type correctness.                                                       *)

\* Every packet step keeps the types.
LEMMA PacketTypeStep ==
  ASSUME TypeOK, NEW v \in Viewer, NEW pkt \in Packets, Receives(v, pkt)
  PROVE  TypeOK'
<1>2. /\ lease[v] \in Leases /\ active \in Actives /\ pkt.epoch \in Nat
      /\ pkt.seq \in Nat /\ pkt.created \in Nat /\ now \in Nat
  BY DEF TypeOK, Packets
<1>3. LeaseAfter(lease[v], pkt) \in Leases
  BY <1>2, LeaseAfterType
<1>4. CASE DispatchConsumed(v, pkt)
  BY <1>2, <1>3, <1>4, ReleasedTypes DEF DispatchConsumed, TypeOK
<1>5. CASE Dispatch(v, pkt)
  <2> DEFINE l     == LeaseAfter(lease[v], pkt)
             batch == PacketBatch(lease[v], pkt)
             owns  == active.peer = v /\ active.epoch = pkt.epoch
             takes == owns \/ ActiveIntent(lease[v], pkt.body)
             a     == IF takes /\ ~owns THEN ReleasedFrom(active, v) ELSE active
             b     == Asserted(a, pkt, l)
  <2>1. batch \in Batches
    BY <1>2, <1>5, PacketTypes DEF Dispatch, Applies
  <2>2. a \in Actives
    BY <1>2, ReleasedTypes
  <2> HIDE DEF a
  <2>3. b \in Actives
    BY <1>2, <2>2 DEF Asserted, Actives
  <2> HIDE DEF b
  <2>4. Dispatched(b, v, l) \in Actives
    <3> DEFINE c == IF b.peer = v /\ b.epoch = l.epoch
                    THEN [b EXCEPT !.due = Deadline(l)] ELSE b
    <3>1. c \in Actives
      BY <1>3, <2>3, DeadlineType DEF Actives
    <3> HIDE DEF c
    <3>2. Settled(c, sub) \in Actives
      BY <3>1, ReleasedTypes
    <3> QED BY <3>2 DEF Dispatched, c
  <2>5. InjectJob(v, pkt, batch, FALSE, now) \in Jobs
    BY <1>2, <2>1 DEF InjectJob, Jobs, InjectJobs
  <2>6. active' \in Actives
    BY <1>5, <2>3, <2>4 DEF Dispatch, a, b
  <2>7. job' \in Jobs
    BY <1>5, <2>5 DEF Dispatch, TypeOK
  <2>8. ran' \subseteq Nat \X Nat
    <3> DEFINE e == pkt.epoch
               n == pkt.seq
    <3>1. ran \subseteq Nat \X Nat /\ e \in Nat /\ n \in Nat
      BY <1>2 DEF TypeOK
    <3>2. ran' = ran \/ ran' = {r \in ran : r[1] # e} \cup {<<e, n>>}
      BY <1>5 DEF Dispatch
    <3> HIDE DEF e, n
    <3> QED BY <3>1, <3>2
  <2> QED BY <1>3, <1>5, <2>6, <2>7, <2>8 DEF Dispatch, TypeOK
<1>6. CASE DispatchReleaseFails(v, pkt)
  <2>1. sub' \in [Viewer -> Subs]
    <3>1. sub \in [Viewer -> Subs] BY DEF TypeOK
    <3>2. [sub[v] EXCEPT !.able = FALSE] \in Subs BY <3>1 DEF Subs
    <3> QED BY <1>6, <3>1, <3>2 DEF DispatchReleaseFails
  <2>2. active' \in Actives
    <3>1. active \in Actives BY DEF TypeOK
    <3> QED BY <1>6, <3>1, ReleasedTypes DEF DispatchReleaseFails
  <2>3. lease' \in [Viewer -> Leases]
    BY <1>6, EntryTypes DEF DispatchReleaseFails, TypeOK
  <2> QED BY <1>6, <2>1, <2>2, <2>3 DEF DispatchReleaseFails, TypeOK
<1> QED BY <1>4, <1>5, <1>6 DEF Receives

\* Commands, bindings and what happens beside the host keep the types.
LEMMA HostStepTypeStep ==
  ASSUME TypeOK, NEW v \in Viewer, HostStep(v)
  PROVE  TypeOK'
<1>0. /\ active \in Actives /\ lease[v] \in Leases /\ sub[v] \in Subs
      /\ now \in Nat /\ nextEpoch \in Nat \ {0} /\ MaxRev \in Nat
  BY HostInputAssumption DEF TypeOK
<1>1. ASSUME NEW rev \in 0..MaxRev, RequestBinding(v, rev)
      PROVE  TypeOK'
  <2>1. NewLease(sub[v], nextEpoch) \in Leases
    BY <1>0, NewLeaseType
  <2>2. lease' \in [Viewer -> Leases] /\ nextEpoch' \in Nat \ {0}
    BY <1>0, <1>1, <2>1 DEF RequestBinding, TypeOK
  <2> QED BY <1>0, <1>1, <2>2, ReleasedTypes DEF RequestBinding, TypeOK
<1>2. ASSUME NEW op \in {"subscribe", "switch", "unsubscribe"}, NEW rev \in Nat,
             StartControl(v, op, rev), sub' \in [Viewer -> Subs]
      PROVE  TypeOK'
  <2>1. ControlJob(v, op, rev) \in Jobs
    BY DEF ControlJob, Jobs, ControlJobs
  <2>2. active' \in Actives
    BY <1>0, <1>2, ReleasedTypes DEF StartControl
  <2>3. lease' \in [Viewer -> Leases]
    BY <1>2, EntryTypes DEF StartControl, TypeOK
  <2> QED BY <1>2, <2>1, <2>2, <2>3 DEF StartControl, TypeOK
<1>3. CASE Subscribe(v)
  BY <1>2, <1>3 DEF Subscribe, TypeOK
<1>4. CASE Unsubscribe(v)
  <2>1. sub' \in [Viewer -> Subs]
    <3>1. [sub[v] EXCEPT !.able = FALSE, !.st = "over"] \in Subs BY <1>0 DEF Subs
    <3> QED BY <1>4, <3>1 DEF Unsubscribe, TypeOK
  <2> QED BY <1>2, <1>4, <2>1 DEF Unsubscribe
<1>5. ASSUME NEW rev \in 1..MaxRev, SwitchSource(v, rev)
      PROVE  TypeOK'
  BY <1>0, <1>2, <1>5 DEF SwitchSource, TypeOK
<1>6. ASSUME NEW rev \in 1..MaxRev, NEW video \in BOOLEAN,
             SetActivity(v, rev, video)
      PROVE  TypeOK'
  <2>1. sub' \in [Viewer -> Subs]
    BY <1>0, <1>6 DEF SetActivity, TypeOK, Subs
  <2>2. lease' \in [Viewer -> Leases]
    BY <1>6, EntryTypes DEF SetActivity, TypeOK
  <2>3. active' \in Actives
    BY <1>0, <1>6, ReleasedTypes DEF SetActivity
  <2> QED BY <1>6, <2>1, <2>2, <2>3 DEF SetActivity, TypeOK
<1>7. CASE CaptureEnds(v)
  <2>1. [sub[v] EXCEPT !.st = "over", !.able = FALSE] \in Subs
    BY <1>0 DEF Subs
  <2>2. sub' \in [Viewer -> Subs]
    BY <1>7, <2>1 DEF CaptureEnds, TypeOK
  <2> QED BY <1>7, <2>2 DEF CaptureEnds, TypeOK
<1>8. CASE PermissionFlips(v)
  <2>1. [sub[v] EXCEPT !.able = ~@] \in Subs
    BY <1>0 DEF Subs
  <2>2. sub' \in [Viewer -> Subs]
    BY <1>8, <2>1 DEF PermissionFlips, TypeOK
  <2> QED BY <1>8, <2>2 DEF PermissionFlips, TypeOK
<1> QED BY <1>1, <1>3, <1>4, <1>5, <1>6, <1>7, <1>8 DEF HostStep


\* The job in progress and the host's clock keep the types.
LEMMA HostJobTypeStep ==
  ASSUME TypeOK, HostJob
  PROVE  TypeOK'
<1>0. /\ active \in Actives /\ job \in Jobs /\ Idle \in Jobs
      /\ \A v \in Viewer : sub[v] \in Subs /\ lease[v] \in Leases
  BY DEF TypeOK, Jobs
<1>1. ASSUME NEW a \in Actives, Injecting, Abandon(a), sub' \in [Viewer -> Subs]
      PROVE  TypeOK'
  BY <1>0, <1>1, EntryTypes, ReleasedTypes DEF Abandon, TypeOK
<1>2. CASE InjectDenied
  BY <1>0, <1>1, <1>2 DEF InjectDenied, TypeOK
<1>3. CASE TakeOver
  <2>1. job.v \in Viewer
    BY <1>0, <1>3, JobTypes DEF TakeOver, Injecting
  <2>2. [Released(active) EXCEPT !.peer = job.v] \in Actives
    BY <1>0, <2>1, ReleasedTypes DEF Actives
  <2>3. [job EXCEPT !.ready = TRUE] \in Jobs
    BY <1>0, <1>3, JobTypes, InjectJobStep DEF TakeOver, Injecting, Jobs
  <2> QED BY <1>3, <2>2, <2>3 DEF TakeOver, TypeOK
<1>4. CASE TakeOverFails
  <2>1. sub' \in [Viewer -> Subs]
    <3>1. sub \in [Viewer -> Subs] BY DEF TypeOK
    <3>2. \A w \in Viewer : [sub[w] EXCEPT !.able = FALSE] \in Subs BY <3>1 DEF Subs
    <3> QED BY <1>4, <3>1, <3>2 DEF TakeOverFails
  <2> QED BY <1>0, <1>1, <1>4, <2>1, ReleasedTypes DEF TakeOverFails
<1>5. CASE InjectLate
  BY <1>0, <1>1, <1>5 DEF InjectLate, AtNative, TypeOK
<1>6. CASE InjectFails
  <2>1. sub' \in {sub, [sub EXCEPT ![job.v].able = FALSE]}
    BY <1>6 DEF InjectFails
  <2>2. [sub EXCEPT ![job.v].able = FALSE] \in [Viewer -> Subs]
    BY DEF TypeOK, Subs
  <2>3. sub' \in [Viewer -> Subs]
    BY <2>1, <2>2 DEF TypeOK
  <2> QED BY <1>0, <1>1, <1>6, <2>3, ReleasedTypes DEF InjectFails, AtNative
<1>7. CASE Inject
  <2>1. PICK out \in NextOuts(job.batch) :
          LET rest == BatchRest(job.batch, out)
              a    == [active EXCEPT !.epoch = job.pkt.epoch,
                                     !.native = NativeAfter(@, out),
                                     !.stamp = IF active.native = {}
                                               THEN job.pkt.created ELSE @]
          IN IF BatchDone(rest)
             THEN job' = Idle /\ active' = Dispatched(a, job.v, lease[job.v])
             ELSE /\ job' = [job EXCEPT !.batch = rest, !.ready = FALSE]
                  /\ active' = a
    BY <1>7 DEF Inject
  <2> DEFINE rest == BatchRest(job.batch, out)
             a    == [active EXCEPT !.epoch = job.pkt.epoch,
                                    !.native = NativeAfter(@, out),
                                    !.stamp = IF active.native = {}
                                              THEN job.pkt.created ELSE @]
  <2>2. /\ job.v \in Viewer /\ job.pkt \in Packets /\ job.batch \in Batches
        /\ job \in InjectJobs
    BY <1>0, <1>7, JobTypes DEF Inject, AtNative, Injecting
  <2>3. NativeAfter(active.native, out) \subseteq Press
    <3>1. active.native \subseteq Press /\ Modifier \subseteq Press
      BY <1>0 DEF Actives, Press
    <3>2. out.down \subseteq Press /\ out.mods \subseteq Press
      BY <2>2, <3>1 DEF NextOuts, Batches, Outs
    <3> QED BY <3>1, <3>2 DEF NativeAfter
  <2>4. a \in Actives
    BY <1>0, <2>2, <2>3 DEF Actives, Packets
  <2>5. rest \in Batches
    BY <2>2, BatchRestType
  <2>6. [job EXCEPT !.batch = rest, !.ready = FALSE] \in Jobs
    BY <2>2, <2>5, InjectJobStep DEF Jobs
  <2>8. Dispatched(a, job.v, lease[job.v]) \in Actives
    <3> HIDE DEF a
    <3> DEFINE c == IF a.peer = job.v /\ a.epoch = lease[job.v].epoch
                    THEN [a EXCEPT !.due = Deadline(lease[job.v])] ELSE a
    <3>1. Deadline(lease[job.v]) \in Nat
      BY <1>0, <2>2, DeadlineType
    <3>2. c \in Actives
      BY <2>4, <3>1 DEF Actives
    <3> HIDE DEF c
    <3>3. Settled(c, sub) \in Actives
      BY <3>2, ReleasedTypes
    <3> QED BY <3>3 DEF Dispatched, c
  <2>9. active' \in Actives /\ job' \in Jobs
    BY <1>0, <2>1, <2>4, <2>6, <2>8
  <2> QED BY <1>7, <2>9 DEF Inject, TypeOK
<1>8. ASSUME NEW s \in Subs, job.kind = "control", EndControl(s)
      PROVE  TypeOK'
  <2>1. active' \in Actives
    BY <1>0, <1>8, ReleasedTypes DEF EndControl
  <2> QED BY <1>0, <1>8, <2>1, JobTypes DEF EndControl, TypeOK
<1>9. CASE ControlSucceeds
  <2>1. PICK t \in Target, able \in BOOLEAN :
          EndControl([sub[job.v] EXCEPT !.st = "live", !.rev = job.rev,
                                        !.able = able, !.target = t])
    BY <1>9 DEF ControlSucceeds
  <2>2. [sub[job.v] EXCEPT !.st = "live", !.rev = job.rev, !.able = able,
                           !.target = t] \in Subs
    BY <1>0, <1>9, JobTypes DEF ControlSucceeds, Subs
  <2> QED BY <1>8, <1>9, <2>1, <2>2 DEF ControlSucceeds
<1>10. CASE ControlFails
  <2>1. job.v \in Viewer
    BY <1>0, <1>10, JobTypes DEF ControlFails
  <2>2. [sub[job.v] EXCEPT !.st = "over", !.able = FALSE] \in Subs
    BY <1>0, <2>1 DEF Subs
  <2> QED BY <1>0, <1>8, <1>10, <2>1, <2>2, EntryTypes DEF ControlFails
<1>11. CASE UnsubscribeEnds
  <2>1. [NoSub EXCEPT !.st = "retired"] \in Subs
    BY EntryTypes DEF Subs
  <2> QED BY <1>8, <1>11, <2>1 DEF UnsubscribeEnds
<1>12. CASE ControlDeadline
  BY <1>0, <1>12, ReleasedTypes DEF ControlDeadline, TypeOK
<1> QED BY <1>2, <1>3, <1>4, <1>5, <1>6, <1>7, <1>9, <1>10, <1>11, <1>12
        DEF HostJob

\* Every step keeps the types.
LEMMA TypeStep ==
  ASSUME TypeOK, [OpenNext]_vars
  PROVE  TypeOK'
<1>1. CASE \E v \in Viewer : HostStep(v) \/ \E pkt \in Packets : Receives(v, pkt)
  BY <1>1, HostStepTypeStep, PacketTypeStep
<1>2. ASSUME NEW a \in Addr, CloseConnection(a)
      PROVE  TypeOK'
  <2>1. /\ sub' \in [Viewer -> Subs] /\ lease' \in [Viewer -> Leases]
        /\ active' \in Actives
    BY <1>2, EntryTypes, ReleasedTypes DEF CloseConnection, TypeOK
  <2> QED BY <1>2, <2>1 DEF CloseConnection, TypeOK
<1>3. CASE HostJob
  BY <1>3, HostJobTypeStep
<1>4. CASE Watchdog
  <2>1. /\ lease' \in [Viewer -> Leases] /\ active' \in Actives
        /\ watchAt' \in Nat
    BY <1>4, EntryTypes, ReleasedTypes, HostInputAssumption DEF Watchdog, TypeOK
  <2> QED BY <1>4, <2>1 DEF Watchdog, TypeOK
<1>5. CASE Prune
  <2>1. ASSUME NEW st \in {"over", "none", "retired"}
        PROVE  [NoSub EXCEPT !.st = st] \in Subs
    BY EntryTypes DEF Subs
  <2>2. sub' \in [Viewer -> Subs] /\ active' \in Actives
    BY <1>5, <2>1, ReleasedTypes DEF Prune, TypeOK
  <2> QED BY <1>5, <2>2 DEF Prune, TypeOK
<1>6. CASE Tick
  BY <1>6 DEF Tick, TypeOK
<1>7. CASE UNCHANGED vars
  BY <1>7 DEF vars, TypeOK
<1> QED BY <1>1, <1>2, <1>3, <1>4, <1>5, <1>6, <1>7 DEF OpenNext, HostTime

\* The first state has the types.
LEMMA TypeInit == Init => TypeOK
  BY EntryTypes DEF Init, TypeOK, Actives, Jobs, Viewer

\* Leases, owner and job always have their types, in every instance.
THEOREM TypeCorrect == Spec => []TypeOK
<1>1. Init => TypeOK
  BY TypeInit
<1>2. TypeOK /\ [Next]_vars => TypeOK'
  BY TypeStep, NextIsOpen
<1> QED BY <1>1, <1>2, PTL DEF Spec

-----------------------------------------------------------------------------
(* Ownership. Most steps end ownership or leave it alone, and remove leases *)
(* or leave them alone; one lemma covers them all.                          *)

OwnerKept == /\ active'.peer = active.peer /\ active'.epoch = active.epoch
             /\ active'.native = active.native
             /\ active'.revoked = active.revoked
OwnerGone == /\ active'.peer = Nobody /\ active'.epoch = 0
             /\ active'.native = {}
             /\ active'.revoked = active.revoked \cup ({active.epoch} \ {0})
LeaseKept(v) == lease'[v].epoch = lease[v].epoch /\ lease'[v].held = lease[v].held
LeaseGone(v) == lease'[v].epoch = 0

\* A step that ends in no injection, and keeps or ends the owner and every
\* lease, the lease of an injection it ends not being kept.
LEMMA QuietStep ==
  ASSUME Ownership, TypeOK', nextEpoch' = nextEpoch,
         OwnerKept \/ OwnerGone, ~Injecting',
         \A v \in Viewer : LeaseGone(v) \/ (LeaseKept(v) /\ ~(Injecting /\ job.v = v))
  PROVE  Ownership'
<1>0. /\ active \in Actives /\ active' \in Actives /\ nextEpoch \in Nat \ {0}
      /\ \A v \in Viewer : lease[v] \in Leases /\ lease'[v] \in Leases
  BY DEF Ownership, TypeOK
<1>1. EpochsFresh'
  <2>1. /\ 0 \notin active'.revoked /\ \A e \in active'.revoked : e < nextEpoch'
        /\ active'.epoch < nextEpoch'
    BY <1>0 DEF Ownership, EpochsFresh, OwnerKept, OwnerGone, Actives
  <2>2. \A v \in Viewer : lease'[v].epoch < nextEpoch'
    BY <1>0 DEF Ownership, EpochsFresh, LeaseKept, LeaseGone
  <2>3. \A v, w \in Viewer : v # w /\ lease'[v].epoch = lease'[w].epoch
                             => lease'[v].epoch = 0
    BY DEF Ownership, EpochsFresh, LeaseKept, LeaseGone
  <2> QED BY <2>1, <2>2, <2>3 DEF EpochsFresh
<1>2. OwnerNotRevoked'
  BY <1>1 DEF Ownership, EpochsFresh, OwnerNotRevoked, OwnerKept, OwnerGone
<1>3. HeldOwned'
  <2> SUFFICES ASSUME NEW v \in Viewer,
                      lease'[v].epoch \notin active'.revoked \cup {0},
                      Down(lease'[v].held) # {}
               PROVE  active'.peer = v /\ active'.epoch = lease'[v].epoch
    BY DEF HeldOwned
  <2>1. LeaseKept(v) /\ ~(Injecting /\ job.v = v)
    BY DEF LeaseGone
  <2>2. lease[v].epoch \notin active.revoked
    BY <2>1 DEF LeaseKept, OwnerKept, OwnerGone
  <2>3. active.peer = v /\ active.epoch = lease[v].epoch
    BY <2>1, <2>2 DEF LeaseKept, Ownership, HeldOwned
  <2>4. OwnerKept
    BY <2>1, <2>3 DEF LeaseKept, OwnerGone
  <2> QED BY <2>1, <2>3, <2>4 DEF LeaseKept, OwnerKept
<1>4. OwnerBound'
  BY DEF Ownership, OwnerBound, OwnerKept, OwnerGone, LeaseKept, LeaseGone
<1>5. NativeMatches'
  <2>1. CASE OwnerGone
    BY <2>1 DEF OwnerGone, NativeMatches
  <2>2. CASE OwnerKept
    <3>1. active'.epoch = 0 => active'.native = {}
      BY <2>2 DEF OwnerKept, Ownership, NativeMatches
    <3>2. SUFFICES ASSUME active'.epoch # 0,
                          lease'[active'.peer].epoch = active'.epoch
                   PROVE  Down(lease'[active'.peer].held) = active'.native
      BY <3>1 DEF NativeMatches
    <3>3. active.epoch # 0 /\ active'.peer = active.peer
      BY <2>2, <3>2 DEF OwnerKept
    <3>4. active.peer \in Viewer
      BY <1>0, <3>3 DEF Ownership, OwnerBound, Actives
    <3>5. LeaseKept(active.peer) /\ ~(Injecting /\ job.v = active.peer)
      BY <3>2, <3>3, <3>4 DEF LeaseGone
    <3> QED BY <2>2, <3>2, <3>3, <3>5
            DEF LeaseKept, OwnerKept, Ownership, NativeMatches
  <2> QED BY <2>1, <2>2
<1>6. InjectOK'
  BY DEF InjectOK
<1> QED BY <1>1, <1>2, <1>3, <1>4, <1>5, <1>6 DEF Ownership

\* A release, and the check after a message, keep the owner or end it.
LEMMA ReleaseCases ==
  ASSUME active \in Actives
  PROVE  /\ active' = active => OwnerKept
         /\ active' = Released(active) => OwnerGone
  BY DEF Released, OwnerKept, OwnerGone

\* Steps that touch neither leases nor owner nor job.
LEMMA AsideStep ==
  ASSUME Ownership, TypeOK', UNCHANGED <<lease, active, job, nextEpoch>>
  PROVE  Ownership'
<1>1. /\ EpochsFresh' /\ OwnerNotRevoked' /\ OwnerBound'
  BY DEF Ownership, EpochsFresh, OwnerNotRevoked, OwnerBound
<1>2. HeldOwned' /\ NativeMatches' /\ InjectOK'
  BY DEF Ownership, HeldOwned, NativeMatches, InjectOK, Injecting
<1> QED BY <1>1, <1>2 DEF Ownership

\* A fresh epoch replaces a lease that cannot be used.
LEMMA BindingStep ==
  ASSUME Ownership, TypeOK', NEW v \in Viewer, NEW rev, RequestBinding(v, rev)
  PROVE  Ownership'
<1>0. /\ active \in Actives /\ nextEpoch \in Nat \ {0} /\ job = Idle
      /\ job' = job /\ lease \in [Viewer -> Leases] /\ Idle.kind = "idle"
      /\ active' \in {active, Released(active)}
  BY ReleasedTypes DEF Ownership, TypeOK, RequestBinding, Idle
<1>1. ~Injecting /\ ~Injecting'
  BY <1>0 DEF Injecting
<1>2. OwnerKept \/ OwnerGone
  BY <1>0, ReleaseCases
<1>3. CASE ~Rotates(v)
  <2>1. \A w \in Viewer : LeaseKept(w)
    BY <1>3 DEF RequestBinding, LeaseKept
  <2> QED BY <1>1, <1>2, <1>3, <2>1, QuietStep DEF RequestBinding
<1>4. CASE Rotates(v)
  <2>1. /\ nextEpoch' = nextEpoch + 1
        /\ lease'[v].epoch = nextEpoch /\ lease'[v].held = Empty
        /\ \A w \in Viewer \ {v} : lease'[w] = lease[w]
    BY <1>0, <1>4 DEF RequestBinding, NewLease
  <2>2. /\ active.epoch < nextEpoch
        /\ \A e \in active.revoked : e < nextEpoch
        /\ \A w \in Viewer : lease[w].epoch < nextEpoch /\ lease[w].epoch \in Nat
        /\ active.epoch \in Nat /\ active.revoked \subseteq Nat
    BY <1>0 DEF Ownership, EpochsFresh, Actives, Leases
  <2>3. EpochsFresh'
    <3>1. /\ 0 \notin active'.revoked /\ \A e \in active'.revoked : e < nextEpoch'
          /\ active'.epoch < nextEpoch'
      BY <1>0, <1>2, <2>1, <2>2 DEF Ownership, EpochsFresh, OwnerKept, OwnerGone
    <3>2. \A w \in Viewer : lease'[w].epoch < nextEpoch'
      BY <1>0, <2>1, <2>2
    <3>3. \A w, x \in Viewer : w # x /\ lease'[w].epoch = lease'[x].epoch
                               => lease'[w].epoch = 0
      BY <1>0, <2>1, <2>2 DEF Ownership, EpochsFresh
    <3> QED BY <3>1, <3>2, <3>3 DEF EpochsFresh
  <2>4. OwnerNotRevoked'
    BY <1>2, <2>3
       DEF Ownership, EpochsFresh, OwnerNotRevoked, OwnerKept, OwnerGone
  <2>5. HeldOwned'
    <3> SUFFICES ASSUME NEW w \in Viewer,
                        lease'[w].epoch \notin active'.revoked \cup {0},
                        Down(lease'[w].held) # {}
                 PROVE  active'.peer = w /\ active'.epoch = lease'[w].epoch
      BY DEF HeldOwned
    <3>1. w # v
      BY <2>1 DEF Down, Empty
    <3>2. lease'[w] = lease[w] /\ lease[w].epoch \notin active.revoked
      BY <1>2, <2>1, <3>1 DEF OwnerKept, OwnerGone
    <3>3. active.peer = w /\ active.epoch = lease[w].epoch
      BY <1>1, <3>2 DEF Ownership, HeldOwned
    <3> QED BY <1>2, <3>2, <3>3 DEF OwnerKept, OwnerGone
  <2>6. OwnerBound'
    <3> SUFFICES ASSUME active'.epoch # 0
                 PROVE  /\ active'.peer # Nobody
                        /\ \A w \in Viewer : lease'[w].epoch = active'.epoch
                                             => active'.peer = w
      BY DEF OwnerBound
    <3>1. OwnerKept
      BY <1>2 DEF OwnerGone
    <3>2. active.epoch # 0 /\ active.epoch # nextEpoch
      BY <1>0, <2>2, <3>1 DEF OwnerKept
    <3> QED BY <2>1, <3>1, <3>2 DEF OwnerKept, Ownership, OwnerBound
  <2>7. NativeMatches'
    <3>1. CASE OwnerGone
      BY <3>1 DEF OwnerGone, NativeMatches
    <3>2. CASE OwnerKept
      <4>1. active'.epoch = 0 => active'.native = {}
        BY <3>2 DEF OwnerKept, Ownership, NativeMatches
      <4>2. SUFFICES ASSUME active'.epoch # 0,
                            lease'[active'.peer].epoch = active'.epoch
                     PROVE  Down(lease'[active'.peer].held) = active'.native
        BY <1>1, <4>1 DEF NativeMatches
      <4>3. active.epoch # 0 /\ active'.peer = active.peer
        BY <3>2, <4>2 DEF OwnerKept
      <4>4. active.peer \in Viewer
        BY <1>0, <4>3 DEF Ownership, OwnerBound, Actives
      <4>5. active.peer # v
        BY <1>0, <2>1, <2>2, <3>2, <4>2, <4>3 DEF OwnerKept
      <4>6. lease'[active.peer] = lease[active.peer]
        BY <2>1, <4>4, <4>5
      <4> QED BY <1>1, <3>2, <4>2, <4>3, <4>6
              DEF OwnerKept, Ownership, NativeMatches
    <3> QED BY <1>2, <3>1, <3>2
  <2>8. InjectOK'
    BY <1>1 DEF InjectOK
  <2> QED BY <2>3, <2>4, <2>5, <2>6, <2>7, <2>8 DEF Ownership
<1> QED BY <1>3, <1>4

\* Taking over: the previous owner's lifetime is revoked, and it is never the
\* lifetime that takes over.
LEMMA TakeOverStep ==
  ASSUME Ownership, TypeOK', TakeOver
  PROVE  Ownership'
<1>0. /\ active \in Actives /\ nextEpoch \in Nat \ {0} /\ Injecting
      /\ job \in InjectJobs /\ job.v \in Viewer /\ active.peer # job.v
      /\ UNCHANGED <<lease, nextEpoch>>
  BY JobTypes DEF Ownership, TypeOK, TakeOver, Injecting
<1>1. /\ active'.peer = job.v /\ active'.epoch = 0 /\ active'.native = {}
      /\ active'.revoked = active.revoked \cup ({active.epoch} \ {0})
  BY DEF TakeOver, Released
<1>2. /\ Injecting' /\ job'.v = job.v /\ job'.pkt = job.pkt
      /\ job'.batch = job.batch
  BY <1>0, InjectJobStep, JobTypes DEF TakeOver, Injecting, Ownership, TypeOK
<1>3. EpochsFresh'
  BY <1>0, <1>1 DEF Ownership, EpochsFresh, Actives
<1>4. OwnerNotRevoked'
  BY <1>1, <1>3 DEF EpochsFresh, OwnerNotRevoked
<1>5. HeldOwned'
  <2> SUFFICES ASSUME NEW w \in Viewer,
                      lease[w].epoch \notin active'.revoked \cup {0},
                      Down(lease[w].held) # {}, w # job.v
               PROVE  FALSE
    BY <1>0, <1>2 DEF HeldOwned
  <2>1. active.epoch = lease[w].epoch
    BY <1>1 DEF Ownership, HeldOwned
  <2> QED BY <1>1, <2>1
<1>6. OwnerBound' /\ NativeMatches'
  BY <1>1 DEF OwnerBound, NativeMatches
<1>7. InjectOK'
  <2>1. job.pkt.epoch # active.epoch
    BY <1>0 DEF Ownership, InjectOK, OwnerBound
  <2> QED BY <1>0, <1>1, <1>2, <2>1 DEF Ownership, InjectOK
<1> QED BY <1>3, <1>4, <1>5, <1>6, <1>7 DEF Ownership

-----------------------------------------------------------------------------
(* Injection.                                                              *)

\* The end of a dispatch sets a deadline, and ends the owner at most.
LEMMA DispatchedCases ==
  ASSUME NEW a \in Actives, NEW v, NEW l \in Leases
  PROVE  LET d == Dispatched(a, v, l) IN
         \/ /\ d.peer = a.peer /\ d.epoch = a.epoch /\ d.native = a.native
            /\ d.revoked = a.revoked
         \/ /\ d.peer = Nobody /\ d.epoch = 0 /\ d.native = {}
            /\ d.revoked = a.revoked \cup ({a.epoch} \ {0})
            /\ a.peer # Nobody
<1> DEFINE c == IF a.peer = v /\ a.epoch = l.epoch
                THEN [a EXCEPT !.due = Deadline(l)] ELSE a
<1>1. /\ c.peer = a.peer /\ c.epoch = a.epoch /\ c.native = a.native
      /\ c.revoked = a.revoked
  BY DEF Actives
<1> HIDE DEF c
<1>2. \/ Settled(c, sub) = c
      \/ Settled(c, sub) = Released(c) /\ c.peer # Nobody
  BY DEF Settled
<1>3. Dispatched(a, v, l) = Settled(c, sub)
  BY DEF Dispatched, c
<1> QED BY <1>1, <1>2, <1>3 DEF Released

\* The next event of the batch: the owner is bound to the packet's epoch and
\* the rest of the batch still leads to what the lease claims.
LEMMA InjectStep ==
  ASSUME Ownership, TypeOK', Inject
  PROVE  Ownership'
<1> DEFINE l == lease[job.v]
           e == job.pkt.epoch
<1>0. /\ active \in Actives /\ nextEpoch \in Nat \ {0} /\ Injecting
      /\ job \in InjectJobs /\ job.v \in Viewer /\ job.batch \in Batches
      /\ job.pkt \in Packets /\ l \in Leases
      /\ UNCHANGED <<lease, nextEpoch>> /\ Nobody \notin Viewer
  BY JobTypes, HostInputAssumption
     DEF Ownership, TypeOK, Inject, AtNative, Injecting, Viewer
<1>1. /\ active.peer = job.v /\ e = l.epoch /\ e \notin active.revoked /\ e # 0
      /\ BatchNative(active.native, job.batch) = Down(l.held)
      /\ job.batch.ups \cap Modifier = {}
      /\ job.batch.ups # {} => active.native \cap Modifier \subseteq job.batch.mods
  BY <1>0 DEF Ownership, InjectOK, Inject, AtNative
<1>2. PICK out \in NextOuts(job.batch) :
        LET rest == BatchRest(job.batch, out)
            a    == [active EXCEPT !.epoch = job.pkt.epoch,
                                   !.native = NativeAfter(@, out),
                                   !.stamp = IF active.native = {}
                                             THEN job.pkt.created ELSE @]
        IN IF BatchDone(rest)
           THEN job' = Idle /\ active' = Dispatched(a, job.v, lease[job.v])
           ELSE /\ job' = [job EXCEPT !.batch = rest, !.ready = FALSE]
                /\ active' = a
  BY DEF Inject
<1> DEFINE rest == BatchRest(job.batch, out)
           n    == NativeAfter(active.native, out)
           a    == [active EXCEPT !.epoch = job.pkt.epoch, !.native = n,
                                  !.stamp = IF active.native = {}
                                            THEN job.pkt.created ELSE @]
<1>3. /\ BatchNative(n, rest) = Down(l.held)
      /\ rest.ups \cap Modifier = {}
      /\ rest.ups # {} => n \cap Modifier \subseteq rest.mods
  BY <1>0, <1>1, BatchStep
<1>4. /\ a.peer = job.v /\ a.epoch = e /\ a.native = n
      /\ a.revoked = active.revoked
  BY <1>0, <1>1 DEF Actives
<1>5. \/ /\ active'.peer = job.v /\ active'.epoch = e /\ active'.native = n
         /\ active'.revoked = active.revoked
      \/ /\ active'.peer = Nobody /\ active'.epoch = 0 /\ active'.native = {}
         /\ active'.revoked = active.revoked \cup {e}
         /\ ~Injecting'
  <2>1. CASE ~BatchDone(rest)
    BY <1>2, <1>4, <2>1
  <2>2. CASE BatchDone(rest)
    <3>1. a \in Actives
      <4>1. NativeAfter(active.native, out) \subseteq Press
        <5>1. active.native \subseteq Press /\ Modifier \subseteq Press
          BY <1>0 DEF Actives, Press
        <5>2. out.down \subseteq Press /\ out.mods \subseteq Press
          BY <1>0, <1>2, <5>1 DEF NextOuts, Batches, Outs
        <5> QED BY <5>1, <5>2 DEF NativeAfter
      <4> QED BY <1>0, <4>1 DEF Actives, Packets
    <3>2. job' = Idle /\ active' = Dispatched(a, job.v, l)
      BY <1>2, <2>2
    <3>3. ~Injecting'
      BY <3>2 DEF Injecting, Idle
    <3> HIDE DEF a
    <3> QED BY <1>0, <1>1, <1>4, <3>1, <3>2, <3>3, DispatchedCases
  <2> QED BY <2>1, <2>2
<1>6. \/ ~Injecting' /\ n = Down(l.held)
      \/ /\ Injecting' /\ job'.v = job.v /\ job'.pkt = job.pkt
         /\ job'.batch = rest /\ ~job'.ready
  <2>1. CASE BatchDone(rest)
    <3>1. n = Down(l.held)
      BY <1>3, <2>1 DEF BatchDone, BatchNative
    <3>2. ~Injecting'
      BY <1>2, <2>1 DEF Injecting, Idle
    <3> QED BY <3>1, <3>2
  <2>2. CASE ~BatchDone(rest)
    <3>1. job' = [job EXCEPT !.batch = rest, !.ready = FALSE]
      BY <1>2, <2>2
    <3>2. rest \in Batches
      BY <1>0, BatchRestType
    <3> HIDE DEF rest
    <3>3. /\ job'.kind = "inject" /\ job'.v = job.v /\ job'.pkt = job.pkt
          /\ job'.batch = rest /\ job'.ready = FALSE
      BY <1>0, <3>1, <3>2 DEF InjectJobs
    <3> QED BY <3>3 DEF Injecting
  <2> QED BY <2>1, <2>2
<1> HIDE DEF a, n, rest, e, l
<1>7. /\ e = lease[job.v].epoch /\ l = lease[job.v] /\ e = job.pkt.epoch
  BY <1>1 DEF e, l
<1>8. EpochsFresh'
  <2>0. \A w \in Viewer : lease[w].epoch < nextEpoch
    BY DEF Ownership, EpochsFresh
  <2>1. e < nextEpoch /\ 0 < nextEpoch
    <3>1. e < nextEpoch
      BY <1>0, <1>7, <2>0
    <3>2. 0 < nextEpoch
      BY <1>0
    <3> QED BY <3>1, <3>2
  <2>2. /\ 0 \notin active'.revoked /\ \A x \in active'.revoked : x < nextEpoch
        /\ active'.epoch < nextEpoch
    BY <1>1, <1>5, <2>1 DEF Ownership, EpochsFresh
  <2> QED BY <1>0, <2>2 DEF Ownership, EpochsFresh
<1>9. OwnerNotRevoked'
  BY <1>1, <1>5, <1>8 DEF EpochsFresh, OwnerNotRevoked
<1>10. HeldOwned'
  <2> SUFFICES ASSUME NEW w \in Viewer,
                      lease[w].epoch \notin active'.revoked \cup {0},
                      Down(lease[w].held) # {}
               PROVE  active'.peer = w /\ active'.epoch = lease[w].epoch
    BY <1>0 DEF HeldOwned
  <2>1. w = job.v
    BY <1>1, <1>5 DEF Ownership, HeldOwned
  <2> QED BY <1>5, <1>7, <2>1
<1>11. OwnerBound'
  <2>1. \A w \in Viewer : lease[w].epoch = e => w = job.v
    BY <1>0, <1>1, <1>7 DEF Ownership, EpochsFresh
  <2> QED BY <1>0, <1>5, <2>1 DEF OwnerBound
<1>12. NativeMatches'
  BY <1>0, <1>1, <1>3, <1>5, <1>6, <1>7 DEF NativeMatches
<1>13. InjectOK'
  <2> SUFFICES ASSUME Injecting'
               PROVE  InjectOK'
    BY DEF InjectOK
  <2> QED BY <1>0, <1>1, <1>3, <1>5, <1>6, <1>7 DEF InjectOK
<1> QED BY <1>8, <1>9, <1>10, <1>11, <1>12, <1>13 DEF Ownership

\* The events of a packet turn the presses of the old table into those of the
\* new one.
LEMMA PacketNative ==
  ASSUME NEW l \in Leases, NEW pkt \in Packets, Applies(l, pkt), pkt.seq # 0
  PROVE  LET batch == PacketBatch(l, pkt) IN
         /\ BatchNative(Down(l.held), batch) = Down(HeldAfter(l, pkt))
         /\ batch.ups \cap Modifier = {}
         /\ batch.ups # {} => Down(l.held) \cap Modifier \subseteq batch.mods
<1>0. /\ l.held \in Held /\ pkt.seq \in Nat \ {0} /\ pkt.body \in Bodies
      /\ pkt.body.kind # "oversized"
  BY DEF Leases, Packets, Applies
<1>1. CASE pkt.body.kind = "event"
  <2> DEFINE ev == pkt.body.ev
             g  == EventHeld(l.held, ev, pkt.seq)
  <2>1. ev \in Events /\ HeldAfter(l, pkt) = g
    BY <1>0, <1>1 DEF Bodies, HeldAfter
  <2>2. g \in Held
    BY <1>0, <2>1, EventHeldType
  <2>3. CASE EventValid(l.held, ev)
    <3>1. PacketBatch(l, pkt) = [ups |-> {}, mods |-> {}, last |-> EventOut(ev, g)]
      BY <1>1, <2>1, <2>3 DEF PacketBatch, EventBatch
    <3>2. EventOut(ev, g) # NoOut
      BY <2>1, <2>2, BatchTypes
    <3>3. NativeAfter(Down(l.held), EventOut(ev, g)) = Down(g)
      BY <1>0, <2>1, <2>3, EventNative
    <3> HIDE DEF g, ev
    <3> QED BY <2>1, <3>1, <3>2, <3>3 DEF BatchNative
  <2>4. CASE ~EventValid(l.held, ev)
    <3>1. PacketBatch(l, pkt) = NoBatch
      BY <1>1, <2>4 DEF PacketBatch
    <3>2. g = l.held
      BY <2>4 DEF EventHeld
    <3> HIDE DEF g
    <3> QED BY <2>1, <3>1, <3>2 DEF BatchNative, NoBatch
  <2> QED BY <2>3, <2>4
<1>2. CASE pkt.body.kind # "event"
  <2>1. Down(HeldAfter(l, pkt)) \subseteq Down(l.held)
    <3>1. CASE pkt.body.kind = "held"
      BY <1>0, <3>1, ReleaseMissingHeld DEF Bodies, HeldAfter
    <3>2. CASE pkt.body.kind = "release"
      BY <1>0, <3>2, ReleaseMissingHeld DEF HeldAfter
    <3> QED BY <1>0, <1>2, <3>1, <3>2 DEF Bodies
  <2>2. PacketBatch(l, pkt) = ReleaseBatch(l.held, HeldAfter(l, pkt))
    BY <1>2 DEF PacketBatch
  <2> QED BY <2>1, <2>2, ReleaseNative
<1> QED BY <1>1, <1>2

\* A peer that holds nothing and shows no intent still holds nothing.
LEMMA PassiveHeld ==
  ASSUME NEW l \in Leases, NEW pkt \in Packets, Applies(l, pkt),
         Down(l.held) = {}, ~ActiveIntent(l, pkt.body)
  PROVE  Down(HeldAfter(l, pkt)) = {}
<1>0. /\ l.held \in Held /\ pkt.seq \in Nat /\ pkt.body \in Bodies
      /\ pkt.body.kind # "oversized"
  BY DEF Leases, Packets, Applies
<1>1. CASE pkt.body.kind = "event"
  <2> DEFINE ev == pkt.body.ev
  <2>1. ev \in Events /\ HeldAfter(l, pkt) = EventHeld(l.held, ev, pkt.seq)
    BY <1>0, <1>1 DEF Bodies, HeldAfter
  <2>2. \A p \in Press : l.held[p] = 0
    BY DEF Down
  <2>3. EventHeld(l.held, ev, pkt.seq) = l.held
    <3>1. CASE ev.kind = "mods"
      <4>1. Mask(l.held, ev) = {}
        BY <1>1, <2>1, <3>1
           DEF ActiveIntent, Mask, Modifiers, Events, KeyEvents, PlainEvents,
               ModsEvents, MotionEvents
      <4>2. SetModifiers(l.held, {}, pkt.seq) = l.held
        BY <2>2 DEF SetModifiers, Transition, CanTransition, Modifier, Press
      <4> QED BY <3>1, <4>1, <4>2 DEF EventHeld, SetsModifiers
    <3>2. CASE ev.kind = "motion"
      BY <3>2 DEF EventHeld
    <3>3. CASE ev.kind \in {"key", "plain"}
      <4>1. ev.down = FALSE /\ ev.press \in Press
        BY <1>1, <2>1, <3>3
           DEF ActiveIntent, Events, KeyEvents, PlainEvents, ModsEvents,
               MotionEvents, Press
      <4>2. ~EventValid(l.held, ev)
        BY <2>2, <3>3, <4>1 DEF EventValid, CanTransition
      <4> QED BY <4>2 DEF EventHeld
    <3> QED BY <2>1, <3>1, <3>2, <3>3
            DEF Events, KeyEvents, PlainEvents, ModsEvents, MotionEvents
  <2> QED BY <2>1, <2>3
<1>2. CASE pkt.body.kind = "held"
  BY <1>0, <1>2, ReleaseMissingHeld DEF Bodies, HeldAfter
<1>3. CASE pkt.body.kind = "release"
  BY <1>0, <1>3, ReleaseMissingHeld DEF HeldAfter
<1> QED BY <1>0, <1>1, <1>2, <1>3 DEF Bodies

\* A packet that applies: it starts an injection, or changes nothing natively.
LEMMA DispatchStep ==
  ASSUME Ownership, TypeOK', NEW v \in Viewer, NEW pkt \in Packets,
         Dispatch(v, pkt)
  PROVE  Ownership'
<1> DEFINE old   == lease[v]
           l     == LeaseAfter(old, pkt)
           batch == PacketBatch(old, pkt)
           owns  == active.peer = v /\ active.epoch = pkt.epoch
           takes == owns \/ ActiveIntent(old, pkt.body)
           a     == IF takes /\ ~owns THEN ReleasedFrom(active, v) ELSE active
           b     == Asserted(a, pkt, l)
<1>0. /\ active \in Actives /\ nextEpoch \in Nat \ {0} /\ old \in Leases
      /\ lease \in [Viewer -> Leases] /\ Applies(old, pkt) /\ ~Injecting
      /\ nextEpoch' = nextEpoch /\ Nobody \notin Viewer
  BY HostInputAssumption
     DEF Ownership, TypeOK, Dispatch, Injecting, Idle, Viewer
<1>1. /\ pkt.epoch = old.epoch /\ old.epoch # 0 /\ pkt.seq # 0
      /\ old.epoch \notin active.revoked
  BY <1>0 DEF Dispatch, Admits, Expired, Packets, Leases
<1>2. /\ lease'[v] = l /\ \A w \in Viewer \ {v} : lease'[w] = lease[w]
  BY <1>0 DEF Dispatch
<1>3. /\ l \in Leases /\ l.epoch = old.epoch /\ l.held = HeldAfter(old, pkt)
  BY <1>0, LeaseAfterType
<1>4. /\ BatchNative(Down(old.held), batch) = Down(l.held)
      /\ batch.ups \cap Modifier = {}
      /\ batch.ups # {} => Down(old.held) \cap Modifier \subseteq batch.mods
  BY <1>0, <1>1, <1>3, PacketNative
<1>5. ~owns => Down(old.held) = {}
  BY <1>0, <1>1 DEF Ownership, HeldOwned
<1>6. owns => Down(old.held) = active.native
  BY <1>0, <1>1 DEF Ownership, NativeMatches
<1>7. ~takes => Down(l.held) = {}
  BY <1>0, <1>3, <1>5, PassiveHeld
<1>8. a \in Actives /\ a \in {active, Released(active)}
      /\ (a # active => active.peer = v /\ ~owns)
      /\ (takes /\ ~owns => a.peer # v)
  BY <1>0, ReleasedTypes DEF ReleasedFrom, Released
<1> HIDE DEF a
<1>9. /\ b \in Actives /\ b.peer = a.peer /\ b.epoch = a.epoch
      /\ b.native = a.native /\ b.revoked = a.revoked
  BY <1>8 DEF Asserted, Actives, Packets
<1> HIDE DEF b
<1>10. \/ /\ takes /\ ~BatchDone(batch) /\ active' = b
          /\ job' = InjectJob(v, pkt, batch, FALSE, now)
       \/ /\ ~(takes /\ ~BatchDone(batch)) /\ active' = Dispatched(b, v, l)
          /\ job' = job
  BY DEF Dispatch, a, b
<1>11. \/ OwnerKept
       \/ OwnerGone /\ ((active.peer = v /\ ~owns) \/ ~Injecting')
  <2>1. CASE active' = b
    BY <1>8, <1>9, <2>1 DEF Released, OwnerKept, OwnerGone
  <2>2. CASE active' = Dispatched(b, v, l) /\ job' = job
    <3>1. ~Injecting'
      BY <1>0, <2>2 DEF Injecting
    <3>2. \/ /\ active'.peer = b.peer /\ active'.epoch = b.epoch
             /\ active'.native = b.native /\ active'.revoked = b.revoked
          \/ /\ active'.peer = Nobody /\ active'.epoch = 0
             /\ active'.native = {} /\ b.peer # Nobody
             /\ active'.revoked = b.revoked \cup ({b.epoch} \ {0})
      BY <1>3, <1>9, <2>2, DispatchedCases
    <3>3. b.peer # Nobody => a = active
      BY <1>8, <1>9 DEF Released
    <3>4. CASE a = active
      BY <1>9, <3>1, <3>2, <3>4 DEF OwnerKept, OwnerGone
    <3>5. CASE a = Released(active)
      BY <1>8, <1>9, <3>1, <3>2, <3>3, <3>5 DEF OwnerKept, OwnerGone, Released
    <3> QED BY <1>8, <3>4, <3>5
  <2> QED BY <1>10, <2>1, <2>2
<1>12. \/ /\ Injecting' /\ job'.v = v /\ job'.pkt = pkt /\ job'.batch = batch
          /\ ~job'.ready /\ takes /\ (active'.peer = v => owns)
       \/ /\ ~Injecting'
          /\ takes => Down(l.held) = Down(old.held)
  <2>1. CASE takes /\ ~BatchDone(batch)
    BY <1>8, <1>9, <1>10, <2>1 DEF Injecting, InjectJob
  <2>2. CASE ~(takes /\ ~BatchDone(batch))
    <3>1. ~Injecting'
      BY <1>0, <1>10, <2>2 DEF Injecting
    <3>2. takes => Down(l.held) = Down(old.held)
      BY <1>4, <2>2 DEF BatchDone, BatchNative
    <3> QED BY <3>1, <3>2
  <2> QED BY <2>1, <2>2
<1>13. \A w \in Viewer : lease'[w].epoch = lease[w].epoch
  BY <1>2, <1>3
<1> HIDE DEF l, batch
<1>14. EpochsFresh'
  <2>1. active.epoch < nextEpoch /\ 0 < nextEpoch
    BY <1>0 DEF Ownership, EpochsFresh
  <2>2. /\ 0 \notin active'.revoked /\ \A x \in active'.revoked : x < nextEpoch
        /\ active'.epoch < nextEpoch
    BY <1>11, <2>1 DEF Ownership, EpochsFresh, OwnerKept, OwnerGone
  <2> QED BY <1>0, <1>13, <2>2 DEF Ownership, EpochsFresh
<1>15. OwnerNotRevoked'
  BY <1>11, <1>14
     DEF Ownership, EpochsFresh, OwnerNotRevoked, OwnerKept, OwnerGone
<1>16. HeldOwned'
  <2> SUFFICES ASSUME NEW w \in Viewer,
                      lease'[w].epoch \notin active'.revoked \cup {0},
                      Down(lease'[w].held) # {}, ~(Injecting' /\ job'.v = w)
               PROVE  active'.peer = w /\ active'.epoch = lease'[w].epoch
    BY DEF HeldOwned
  <2>1. active.peer = w /\ active.epoch = lease[w].epoch
    <3>1. CASE w = v
      <4>1. ~Injecting' /\ Down(l.held) # {}
        BY <1>2, <1>12, <3>1
      <4>2. owns
        BY <1>5, <1>7, <1>12, <4>1
      <4> QED BY <1>1, <3>1, <4>2
    <3>2. CASE w # v
      <4>1. lease'[w] = lease[w] /\ lease[w].epoch \notin active.revoked
        BY <1>2, <1>11, <3>2 DEF OwnerKept, OwnerGone
      <4> QED BY <1>0, <4>1 DEF Ownership, HeldOwned
    <3> QED BY <3>1, <3>2
  <2> QED BY <1>11, <1>13, <2>1 DEF OwnerKept, OwnerGone
<1>17. OwnerBound'
  BY <1>11, <1>13 DEF Ownership, OwnerBound, OwnerKept, OwnerGone
<1>18. NativeMatches'
  <2>1. CASE OwnerGone
    BY <2>1 DEF OwnerGone, NativeMatches
  <2>2. CASE OwnerKept
    <3>1. active'.epoch = 0 => active'.native = {}
      BY <2>2 DEF OwnerKept, Ownership, NativeMatches
    <3>2. SUFFICES ASSUME active'.epoch # 0,
                          lease'[active'.peer].epoch = active'.epoch
                   PROVE  Down(lease'[active'.peer].held) =
                            IF Injecting' /\ job'.v = active'.peer
                            THEN BatchNative(active'.native, job'.batch)
                            ELSE active'.native
      BY <3>1 DEF NativeMatches
    <3>3. /\ active.epoch # 0 /\ active'.peer = active.peer
          /\ active'.epoch = active.epoch /\ active'.native = active.native
      BY <2>2, <3>2 DEF OwnerKept
    <3>4. active.peer \in Viewer
      BY <1>0, <3>3 DEF Ownership, OwnerBound, Actives
    <3>5. lease[active.peer].epoch = active.epoch
      BY <1>13, <3>2, <3>3, <3>4
    <3>6. Down(lease[active.peer].held) = active.native
      BY <1>0, <3>3, <3>5 DEF Ownership, NativeMatches
    <3>7. CASE active.peer = v
      <4>1. owns
        BY <1>1, <3>5, <3>7
      <4> QED BY <1>2, <1>4, <1>6, <1>12, <3>3, <3>7, <4>1
    <3>8. CASE active.peer # v
      BY <1>2, <1>12, <3>3, <3>4, <3>6, <3>8
    <3> QED BY <3>7, <3>8
  <2> QED BY <1>11, <2>1, <2>2
<1>19. InjectOK'
  <2> SUFFICES ASSUME Injecting'
               PROVE  InjectOK'
    BY DEF InjectOK
  <2>1. /\ job'.v = v /\ job'.pkt = pkt /\ job'.batch = batch /\ ~job'.ready
        /\ (active'.peer = v => owns)
    BY <1>12
  <2>2. pkt.epoch \notin active'.revoked \cup {0}
    BY <1>1, <1>11 DEF OwnerKept, OwnerGone
  <2>3. active'.peer = v =>
          active'.epoch \in {0, pkt.epoch} /\ active'.native = Down(old.held)
    BY <1>0, <1>6, <1>11, <2>1 DEF OwnerKept, OwnerGone
  <2>4. active'.peer # v => Down(old.held) = {}
    BY <1>5, <1>11 DEF OwnerKept, OwnerGone
  <2> DEFINE own == IF active'.peer = v THEN active'.native ELSE {}
  <2>5. own = Down(old.held)
    BY <2>3, <2>4
  <2> HIDE DEF own
  <2>6. /\ BatchNative(own, batch) = Down(l.held)
        /\ batch.ups # {} => own \cap Modifier \subseteq batch.mods
    BY <1>4, <2>5
  <2> QED BY <1>1, <1>2, <1>4, <1>13, <2>1, <2>2, <2>3, <2>6 DEF InjectOK, own
<1> QED BY <1>14, <1>15, <1>16, <1>17, <1>18, <1>19 DEF Ownership

-----------------------------------------------------------------------------
(* Every step keeps Ownership.                                             *)

\* Giving up an injection: its lease goes with it.
LEMMA AbandonStep ==
  ASSUME Ownership, TypeOK', Injecting, NEW a \in {active, Released(active)},
         Abandon(a)
  PROVE  Ownership'
<1>0. /\ active \in Actives /\ lease \in [Viewer -> Leases]
      /\ Released(active) \in Actives
  BY ReleasedTypes DEF Ownership, TypeOK
<1>1. active' \in {active, Released(active)}
  BY <1>0, ReleasedTypes DEF Abandon
<1>2. OwnerKept \/ OwnerGone
  BY <1>0, <1>1, ReleaseCases
<1>3. ~Injecting'
  BY DEF Abandon, Injecting, Idle
<1>4. \A w \in Viewer : LeaseGone(w) \/ (LeaseKept(w) /\ job.v # w)
  BY <1>0, EntryTypes DEF Abandon, LeaseGone, LeaseKept
<1> QED BY <1>2, <1>3, <1>4, QuietStep DEF Abandon

\* A step of the idle or waiting host that releases the owner or not, and
\* removes leases or not.
LEMMA CalmStep ==
  ASSUME Ownership, TypeOK', ~Injecting, ~Injecting', nextEpoch' = nextEpoch,
         active' \in {active, Released(active)},
         \A w \in Viewer : lease'[w] \in {lease[w], NoLease}
  PROVE  Ownership'
<1>1. active \in Actives
  BY DEF Ownership, TypeOK
<1>2. OwnerKept \/ OwnerGone
  BY <1>1, ReleaseCases
<1>3. \A w \in Viewer : LeaseGone(w) \/ LeaseKept(w)
  BY EntryTypes DEF LeaseGone, LeaseKept
<1> QED BY <1>2, <1>3, QuietStep

\* Packets.
LEMMA PacketStep ==
  ASSUME Ownership, TypeOK', NEW v \in Viewer, NEW pkt \in Packets, Receives(v, pkt)
  PROVE  Ownership'
<1>0. TypeOK /\ active \in Actives /\ lease \in [Viewer -> Leases]
  BY DEF Ownership, TypeOK
<1>2. CASE DispatchConsumed(v, pkt)
  <2>1. active' \in {active, Released(active)}
    BY <1>0, <1>2, ReleasedTypes DEF DispatchConsumed
  <2>2. OwnerKept \/ OwnerGone
    BY <1>0, <2>1, ReleaseCases
  <2>3. ~Injecting /\ ~Injecting'
    BY <1>2 DEF DispatchConsumed, Injecting, Idle
  <2>4. \A w \in Viewer : LeaseKept(w)
    BY <1>0, <1>2, LeaseAfterType DEF DispatchConsumed, LeaseKept
  <2> QED BY <1>2, <2>2, <2>3, <2>4, QuietStep DEF DispatchConsumed
<1>3. CASE Dispatch(v, pkt)
  BY <1>3, DispatchStep
<1>4. CASE DispatchReleaseFails(v, pkt)
  <2>1. ~Injecting /\ ~Injecting'
    BY <1>4 DEF DispatchReleaseFails, Injecting, Idle
  <2>2. \A w \in Viewer : lease'[w] \in {lease[w], NoLease}
    BY <1>0, <1>4 DEF DispatchReleaseFails
  <2> QED BY <1>4, <2>1, <2>2, CalmStep DEF DispatchReleaseFails
<1> QED BY <1>2, <1>3, <1>4 DEF Receives

\* Commands, bindings and what happens beside the host.
LEMMA HostStepStep ==
  ASSUME Ownership, TypeOK', NEW v \in Viewer, HostStep(v)
  PROVE  Ownership'
<1>0. active \in Actives /\ lease \in [Viewer -> Leases] /\ Idle.kind = "idle"
  BY DEF Ownership, TypeOK, Idle
<1>1. ASSUME NEW rev \in 0..MaxRev, RequestBinding(v, rev)
      PROVE  Ownership'
  BY <1>1, BindingStep
<1>2. ASSUME NEW op, NEW rev, job = Idle, StartControl(v, op, rev)
      PROVE  Ownership'
  <2>1. ~Injecting /\ ~Injecting'
    BY <1>0, <1>2 DEF StartControl, ControlJob, Injecting
  <2>2. active' \in {active, Released(active)}
    BY <1>0, <1>2, ReleasedTypes DEF StartControl
  <2>3. \A w \in Viewer : lease'[w] \in {lease[w], NoLease}
    BY <1>0, <1>2 DEF StartControl
  <2> QED BY <1>2, <2>1, <2>2, <2>3, CalmStep DEF StartControl
<1>3. CASE Subscribe(v)
  BY <1>2, <1>3 DEF Subscribe
<1>4. CASE Unsubscribe(v)
  BY <1>2, <1>4 DEF Unsubscribe
<1>5. ASSUME NEW rev \in 1..MaxRev, SwitchSource(v, rev)
      PROVE  Ownership'
  BY <1>2, <1>5 DEF SwitchSource
<1>6. ASSUME NEW rev \in 1..MaxRev, NEW video \in BOOLEAN,
             SetActivity(v, rev, video)
      PROVE  Ownership'
  <2>1. ~Injecting /\ ~Injecting'
    BY <1>0, <1>6 DEF SetActivity, Injecting
  <2>2. active' \in {active, Released(active)}
    BY <1>0, <1>6, ReleasedTypes DEF SetActivity
  <2>3. \A w \in Viewer : lease'[w] \in {lease[w], NoLease}
    BY <1>0, <1>6 DEF SetActivity
  <2> QED BY <1>6, <2>1, <2>2, <2>3, CalmStep DEF SetActivity
<1>7. CASE CaptureEnds(v)
  BY <1>7, AsideStep DEF CaptureEnds
<1>8. CASE PermissionFlips(v)
  BY <1>8, AsideStep DEF PermissionFlips
<1> QED BY <1>1, <1>3, <1>4, <1>5, <1>6, <1>7, <1>8 DEF HostStep

\* The job in progress.
LEMMA HostJobStep ==
  ASSUME Ownership, TypeOK', HostJob
  PROVE  Ownership'
<1>0. active \in Actives /\ lease \in [Viewer -> Leases]
  BY DEF Ownership, TypeOK
<1>1. CASE InjectDenied
  BY <1>1, AbandonStep DEF InjectDenied
<1>2. CASE TakeOver
  BY <1>2, TakeOverStep
<1>3. CASE TakeOverFails
  BY <1>3, AbandonStep DEF TakeOverFails
<1>4. CASE InjectLate
  BY <1>4, AbandonStep DEF InjectLate, AtNative
<1>5. CASE InjectFails
  BY <1>5, AbandonStep DEF InjectFails, AtNative
<1>6. CASE Inject
  BY <1>6, InjectStep
<1>7. ASSUME NEW s, job.kind = "control", EndControl(s)
      PROVE  Ownership'
  <2>1. ~Injecting /\ ~Injecting'
    BY <1>7 DEF EndControl, Injecting, Idle
  <2>2. active' \in {active, Released(active)}
    BY <1>0, <1>7, ReleasedTypes DEF EndControl
  <2> QED BY <1>7, <2>1, <2>2, CalmStep DEF EndControl
<1>8. CASE ControlSucceeds \/ ControlFails \/ UnsubscribeEnds
  BY <1>7, <1>8 DEF ControlSucceeds, ControlFails, UnsubscribeEnds
<1>9. CASE ControlDeadline
  BY <1>9, CalmStep DEF ControlDeadline, Injecting
<1> QED BY <1>1, <1>2, <1>3, <1>4, <1>5, <1>6, <1>8, <1>9 DEF HostJob

\* Every step of the specification.
LEMMA OwnershipStep ==
  ASSUME Ownership, [OpenNext]_vars
  PROVE  Ownership'
<1>0. TypeOK' /\ active \in Actives /\ lease \in [Viewer -> Leases]
  BY TypeStep DEF Ownership, TypeOK
<1>1. CASE \E v \in Viewer : HostStep(v) \/ \E pkt \in Packets : Receives(v, pkt)
  BY <1>0, <1>1, HostStepStep, PacketStep
<1>2. ASSUME NEW a \in Addr, CloseConnection(a)
      PROVE  Ownership'
  <2>1. ~Injecting /\ ~Injecting'
    BY <1>2 DEF CloseConnection, Injecting, Idle
  <2>2. active' \in {active, Released(active)}
    BY <1>0, <1>2, ReleasedTypes DEF CloseConnection
  <2>3. \A w \in Viewer : lease'[w] \in {lease[w], NoLease}
    BY <1>0, <1>2 DEF CloseConnection
  <2> QED BY <1>0, <1>2, <2>1, <2>2, <2>3, CalmStep DEF CloseConnection
<1>3. CASE HostJob
  BY <1>0, <1>3, HostJobStep
<1>4. CASE Watchdog
  <2>1. ~Injecting /\ ~Injecting'
    BY <1>4 DEF Watchdog, Injecting, Idle
  <2>2. \A w \in Viewer : lease'[w] \in {lease[w], NoLease}
    BY <1>0, <1>4 DEF Watchdog
  <2>3. active' \in {active, Released(active)}
    BY <1>4 DEF Watchdog
  <2> QED BY <1>0, <1>4, <2>1, <2>2, <2>3, CalmStep DEF Watchdog
<1>5. CASE Prune
  <2>1. ~Injecting /\ ~Injecting'
    BY <1>5 DEF Prune, Injecting, Idle
  <2>2. active' \in {active, Released(active)}
    BY <1>0, <1>5, ReleasedTypes DEF Prune
  <2> QED BY <1>0, <1>5, <2>1, <2>2, CalmStep DEF Prune
<1>6. CASE Tick
  BY <1>0, <1>6, AsideStep DEF Tick
<1>7. CASE UNCHANGED vars
  BY <1>0, <1>7, AsideStep DEF vars
<1> QED BY <1>1, <1>2, <1>3, <1>4, <1>5, <1>6, <1>7 DEF OpenNext, HostTime

\* The first state.
LEMMA OwnershipInit == Init => Ownership
<1> SUFFICES ASSUME Init PROVE Ownership
  OBVIOUS
<1>1. /\ \A v \in Viewer : lease[v].epoch = 0 /\ Down(lease[v].held) = {}
      /\ ~Injecting
  BY EntryTypes DEF Init, Injecting, Idle, Down, Empty
<1> QED BY <1>1, TypeInit
        DEF Init, Ownership, EpochsFresh, OwnerNotRevoked, HeldOwned, OwnerBound,
            NativeMatches, InjectOK

\* One owner, through one irreversible lifetime, whose leases and native
\* presses agree, whatever the peers send and whatever fails on the way.
THEOREM OwnershipCorrect == Spec => []Ownership
<1>1. Init => Ownership
  BY OwnershipInit
<1>2. Ownership /\ [Next]_vars => Ownership'
  BY OwnershipStep, NextIsOpen DEF Ownership
<1> QED BY <1>1, <1>2, PTL DEF Spec

\* No revoked lifetime ever owns native input again (InputLeaseRevocation).
THEOREM OwnerNeverRevoked == Spec => []OwnerNotRevoked
<1>1. Ownership => OwnerNotRevoked
  BY DEF Ownership
<1> QED BY <1>1, OwnershipCorrect, PTL

\* A usable lease that claims a press is the owner's (dispatch_realtime_input).
THEOREM HeldAlwaysOwned == Spec => []HeldOwned
<1>1. Ownership => HeldOwned
  BY DEF Ownership
<1> QED BY <1>1, OwnershipCorrect, PTL

\* The native presses are those the owner's lease claims (inject_fresh).
THEOREM NativeAlwaysMatches == Spec => []NativeMatches
<1>1. Ownership => NativeMatches
  BY DEF Ownership
<1> QED BY <1>1, OwnershipCorrect, PTL

-----------------------------------------------------------------------------
(* Action properties.                                                      *)

\* Presses go down in one action only.
LEMMA OnlyInjectPresses ==
  ASSUME TypeOK, [OpenNext]_vars, active'.native \ active.native # {}
  PROVE  Inject
<1>0. active \in Actives /\ Released(active) \in Actives
  BY ReleasedTypes DEF TypeOK
<1>1. active' # active /\ active' # Released(active)
  BY DEF Released
<1>2. ASSUME NEW a \in {active, Released(active)}, NEW s, active' = Settled(a, s)
      PROVE  FALSE
  BY <1>0, <1>1, <1>2, ReleasedTypes
<1>3. ASSUME NEW v \in Viewer, NEW pkt \in Packets, Receives(v, pkt)
      PROVE  FALSE
  <2>2. CASE DispatchConsumed(v, pkt)
    BY <1>2, <2>2 DEF DispatchConsumed
  <2>3. CASE Dispatch(v, pkt)
    <3> DEFINE l     == LeaseAfter(lease[v], pkt)
               owns  == active.peer = v /\ active.epoch = pkt.epoch
               takes == owns \/ ActiveIntent(lease[v], pkt.body)
               a     == IF takes /\ ~owns THEN ReleasedFrom(active, v) ELSE active
               b     == Asserted(a, pkt, l)
    <3>1. a \in Actives /\ a.native \subseteq active.native
      BY <1>0, ReleasedTypes DEF ReleasedFrom, Released
    <3>2. l \in Leases
      BY LeaseAfterType DEF TypeOK
    <3>3. active' = b \/ active' = Dispatched(b, v, l)
      BY <2>3 DEF Dispatch
    <3> HIDE DEF a, l
    <3>4. b \in Actives /\ b.native = a.native
      BY <3>1 DEF Asserted, Actives, Packets
    <3> HIDE DEF b
    <3>5. active'.native \subseteq b.native
      BY <3>2, <3>3, <3>4, DispatchedCases
    <3> QED BY <3>1, <3>4, <3>5
  <2>4. CASE DispatchReleaseFails(v, pkt)
    BY <1>1, <2>4 DEF DispatchReleaseFails
  <2> QED BY <1>3, <2>2, <2>3, <2>4 DEF Receives
<1>4. ASSUME NEW v \in Viewer, HostStep(v)
      PROVE  FALSE
  <2>1. ASSUME NEW op, NEW rev, StartControl(v, op, rev)
        PROVE  FALSE
    BY <1>0, <1>1, <2>1, ReleasedTypes DEF StartControl
  <2>2. ASSUME NEW rev, NEW video, SetActivity(v, rev, video)
        PROVE  FALSE
    BY <1>0, <1>2, <2>2, ReleasedTypes DEF SetActivity
  <2>3. ASSUME NEW rev, RequestBinding(v, rev)
        PROVE  FALSE
    BY <1>2, <2>3 DEF RequestBinding
  <2> QED BY <1>1, <1>4, <2>1, <2>2, <2>3
          DEF HostStep, Subscribe, Unsubscribe, SwitchSource, CaptureEnds,
              PermissionFlips
<1>5. ASSUME NEW a \in Addr, CloseConnection(a)
      PROVE  FALSE
  BY <1>2, <1>5 DEF CloseConnection
<1>6. CASE HostJob
  <2>1. ASSUME NEW a \in {active, Released(active)}, Abandon(a)
        PROVE  FALSE
    BY <1>2, <2>1 DEF Abandon
  <2>2. ASSUME NEW s, EndControl(s)
        PROVE  FALSE
    BY <1>2, <2>2 DEF EndControl
  <2>3. CASE TakeOver
    BY <2>3 DEF TakeOver, Released
  <2> QED BY <1>1, <1>6, <2>1, <2>2, <2>3
          DEF HostJob, InjectDenied, TakeOverFails, InjectLate, InjectFails,
              ControlSucceeds, ControlFails, UnsubscribeEnds, ControlDeadline
<1>7. CASE HostTime
  <2>1. CASE Prune
    BY <1>2, <2>1 DEF Prune
  <2> QED BY <1>1, <1>7, <2>1 DEF HostTime, Watchdog, Tick
<1>8. CASE UNCHANGED vars
  BY <1>1, <1>8 DEF vars
<1> QED BY <1>3, <1>4, <1>5, <1>6, <1>7, <1>8 DEF OpenNext

\* Nothing is pressed after its packet's age limit, however long ownership took
\* to change (the second deadline check of inject_fresh).
THEOREM NeverStale == Spec => NothingStale
<1>1. TypeOK /\ [Next]_vars =>
        [active'.native \ active.native # {} =>
           Injecting /\ now < job.pkt.created + MaxAge]_vars
  BY OnlyInjectPresses, NextIsOpen DEF Inject, AtNative, InTime
<1> QED BY <1>1, TypeCorrect, PTL DEF Spec, NothingStale

\* What a step that injects no new packet does to the high-water marks: a lease
\* goes, is bound to a fresh epoch, or keeps its epoch and does not fall back.
MarkKept(w) == \/ lease'[w].epoch \in {0, nextEpoch}
               \/ /\ lease'[w].epoch = lease[w].epoch
                  /\ lease[w].high <= lease'[w].high
MarksKept == /\ ran' = ran /\ nextEpoch' \in {nextEpoch, nextEpoch + 1}
             /\ \A w \in Viewer : MarkKept(w)

\* Such a step keeps the marks above what was injected.
LEMMA MarksStep ==
  ASSUME TypeOK, TypeOK', RanBelow, MarksKept
  PROVE  RanBelow'
<1> SUFFICES ASSUME NEW r \in ran
             PROVE  /\ r[1] # 0 /\ r[1] < nextEpoch'
                    /\ \A w \in Viewer : lease'[w].epoch = r[1]
                                         => r[2] <= lease'[w].high
  BY DEF RanBelow, MarksKept
<1>1. /\ r[1] \in Nat /\ r[2] \in Nat /\ nextEpoch \in Nat
      /\ r[1] # 0 /\ r[1] < nextEpoch
      /\ \A w \in Viewer : lease[w].epoch = r[1] => r[2] <= lease[w].high
  BY DEF RanBelow, TypeOK
<1>2. nextEpoch' \in {nextEpoch, nextEpoch + 1}
  BY DEF MarksKept
<1>3. ASSUME NEW w \in Viewer, lease'[w].epoch = r[1]
      PROVE  r[2] <= lease'[w].high
  <2>1. lease'[w].epoch = lease[w].epoch /\ lease[w].high <= lease'[w].high
    BY <1>1, <1>3 DEF MarksKept, MarkKept
  <2>2. lease[w].high \in Nat /\ r[2] <= lease[w].high
    BY <1>1, <1>3, <2>1 DEF TypeOK, Leases
  <2>3. lease'[w].high \in Nat
    BY DEF TypeOK, Leases
  <2> QED BY <1>1, <2>1, <2>2, <2>3
<1> QED BY <1>1, <1>2, <1>3

\* An injection of a new packet starts in one action only, and every other step
\* keeps the marks.
LEMMA MarksCases ==
  ASSUME TypeOK, [OpenNext]_vars
  PROVE  \/ /\ MarksKept /\ ~(job = Idle /\ job'.kind = "inject")
         \/ \E v \in Viewer, pkt \in Packets : Dispatch(v, pkt)
<1>0. /\ lease \in [Viewer -> Leases] /\ Idle.kind = "idle" /\ nextEpoch \in Nat
      /\ NoLease.epoch = 0 /\ \A w \in Viewer : lease[w].high \in Nat
  BY EntryTypes DEF TypeOK, Idle, Leases
<1>1. ASSUME UNCHANGED <<ran, nextEpoch>>,
             \A w \in Viewer : lease'[w] \in {lease[w], NoLease}
      PROVE  MarksKept
  BY <1>0, <1>1 DEF MarksKept, MarkKept
<1>2. ASSUME NEW v \in Viewer, NEW pkt \in Packets, Receives(v, pkt), ~Dispatch(v, pkt)
      PROVE  MarksKept /\ job' = job
  <2>2. CASE DispatchConsumed(v, pkt)
    <3>1. LeaseAfter(lease[v], pkt).epoch = lease[v].epoch
      BY <1>0, LeaseAfterType
    <3>2. LeaseAfter(lease[v], pkt).high = pkt.seq
      BY <1>0, <2>2 DEF LeaseAfter, DispatchConsumed, Leases
    <3>3. lease[v].high <= pkt.seq
      BY <1>0, <2>2 DEF DispatchConsumed, Admits, Packets
    <3>4. \A w \in Viewer : MarkKept(w)
      BY <1>0, <2>2, <3>1, <3>2, <3>3 DEF DispatchConsumed, MarkKept
    <3> QED BY <2>2, <3>4 DEF DispatchConsumed, MarksKept
  <2>3. CASE DispatchReleaseFails(v, pkt)
    BY <1>0, <1>1, <2>3 DEF DispatchReleaseFails
  <2> QED BY <1>2, <2>2, <2>3 DEF Receives
<1>3. ASSUME NEW v \in Viewer, HostStep(v)
      PROVE  MarksKept /\ (job' = job \/ job'.kind = "control")
  <2>1. ASSUME NEW op, NEW rev, StartControl(v, op, rev)
        PROVE  MarksKept /\ job'.kind = "control"
    BY <1>0, <1>1, <2>1 DEF StartControl, ControlJob
  <2>2. ASSUME NEW rev, NEW video, SetActivity(v, rev, video)
        PROVE  MarksKept /\ job' = job
    BY <1>0, <1>1, <2>2 DEF SetActivity
  <2>3. ASSUME NEW rev, RequestBinding(v, rev)
        PROVE  MarksKept /\ job' = job
    <3>1. \A w \in Viewer : lease'[w] = lease[w] \/ lease'[w].epoch = nextEpoch
      BY <1>0, <2>3 DEF RequestBinding, NewLease
    <3> QED BY <1>0, <2>3, <3>1 DEF RequestBinding, MarksKept, MarkKept
  <2>4. CASE CaptureEnds(v) \/ PermissionFlips(v)
    BY <1>1, <2>4 DEF CaptureEnds, PermissionFlips
  <2> QED BY <1>3, <2>1, <2>2, <2>3, <2>4
          DEF HostStep, Subscribe, Unsubscribe, SwitchSource
<1>4. ASSUME NEW a \in Addr, CloseConnection(a)
      PROVE  MarksKept /\ job' = job
  BY <1>0, <1>1, <1>4 DEF CloseConnection
<1>5. CASE HostJob
  <2>1. ASSUME NEW a, Injecting, Abandon(a)
        PROVE  MarksKept
    BY <1>0, <1>1, <2>1 DEF Abandon
  <2>2. ASSUME NEW s, EndControl(s)
        PROVE  MarksKept
    BY <1>0, <1>1, <2>2 DEF EndControl
  <2>3. job # Idle
    <3>1. Injecting \/ job.kind = "control"
      BY <1>5
         DEF HostJob, InjectDenied, TakeOver, TakeOverFails, InjectLate,
             InjectFails, Inject, AtNative, ControlSucceeds, ControlFails,
             UnsubscribeEnds, ControlDeadline
    <3> QED BY <1>0, <3>1 DEF Injecting
  <2>4. TakeOver \/ Inject \/ ControlDeadline => MarksKept
    <3>1. TakeOver \/ Inject \/ ControlDeadline
            => UNCHANGED <<lease, ran, nextEpoch>>
      BY DEF TakeOver, Inject, ControlDeadline
    <3> QED BY <1>1, <3>1
  <2> QED BY <1>5, <2>1, <2>2, <2>3, <2>4
          DEF HostJob, InjectDenied, TakeOverFails, InjectLate, InjectFails,
              AtNative, ControlSucceeds, ControlFails, UnsubscribeEnds
<1>6. CASE HostTime
  BY <1>0, <1>1, <1>6 DEF HostTime, Watchdog, Prune, Tick
<1>7. CASE UNCHANGED vars
  BY <1>0, <1>1, <1>7 DEF vars
<1> QED BY <1>0, <1>2, <1>3, <1>4, <1>5, <1>6, <1>7 DEF OpenNext

\* A new packet is above the mark of its lease, which then covers it.
LEMMA DispatchMarks ==
  ASSUME Ownership, RanBelow, NEW v \in Viewer, NEW pkt \in Packets,
         Dispatch(v, pkt)
  PROVE  /\ RanBelow'
         /\ \A r \in ran : r[1] = pkt.epoch => r[2] < pkt.seq
         /\ job'.kind = "inject" => job'.pkt = pkt
<1>0. /\ TypeOK /\ lease \in [Viewer -> Leases] /\ lease[v] \in Leases
      /\ pkt.epoch = lease[v].epoch /\ pkt.epoch # 0 /\ lease[v].high < pkt.seq
      /\ pkt.seq \in Nat /\ pkt.epoch \in Nat /\ lease[v].high \in Nat
      /\ nextEpoch' = nextEpoch /\ Applies(lease[v], pkt)
      /\ \A r \in ran : r[1] \in Nat /\ r[2] \in Nat
  BY DEF Ownership, TypeOK, Dispatch, Admits, Packets, Leases
<1>1. \A r \in ran : r[1] = pkt.epoch => r[2] < pkt.seq
  BY <1>0 DEF RanBelow
<1>2. job'.kind = "inject" => job'.pkt = pkt
  BY DEF Dispatch, InjectJob, Idle
<1>3. /\ lease'[v].epoch = pkt.epoch /\ lease'[v].high = pkt.seq
      /\ \A w \in Viewer \ {v} : lease'[w] = lease[w]
  <2>1. LeaseAfter(lease[v], pkt).epoch = pkt.epoch
    BY <1>0, LeaseAfterType
  <2>2. LeaseAfter(lease[v], pkt).high = pkt.seq
    BY <1>0 DEF LeaseAfter, Leases
  <2> QED BY <1>0, <2>1, <2>2 DEF Dispatch
<1>4. pkt.epoch < nextEpoch /\ \A w \in Viewer \ {v} : lease[w].epoch # pkt.epoch
  BY <1>0 DEF Ownership, EpochsFresh
<1>5. RanBelow'
  <2> DEFINE e == pkt.epoch
             n == pkt.seq
  <2>1. \/ ran' = ran
        \/ ran' = {r \in ran : r[1] # e} \cup {<<e, n>>}
    BY DEF Dispatch
  <2>2. ASSUME NEW r \in ran
        PROVE  /\ r[1] # 0 /\ r[1] < nextEpoch'
               /\ \A w \in Viewer : lease'[w].epoch = r[1] => r[2] <= lease'[w].high
    <3>1. \A w \in Viewer \ {v} : lease'[w].epoch = r[1] => r[2] <= lease'[w].high
      BY <1>3 DEF RanBelow
    <3>2. lease'[v].epoch = r[1] => r[2] <= lease'[v].high
      BY <1>0, <1>1, <1>3
    <3> QED BY <1>0, <3>1, <3>2 DEF RanBelow
  <2>3. /\ e # 0 /\ e < nextEpoch'
        /\ \A w \in Viewer : lease'[w].epoch = e => n <= lease'[w].high
    BY <1>0, <1>3, <1>4
  <2> HIDE DEF e, n
  <2> QED BY <2>1, <2>2, <2>3 DEF RanBelow
<1> QED BY <1>1, <1>2, <1>5

\* At most once and in order: a packet is injected only above every sequence
\* number already injected through its epoch (InputLease::accept).
THEOREM OnceInOrder == Spec => AtMostOnce
<1>1. Init => Ownership /\ RanBelow
  BY OwnershipInit DEF Init, RanBelow
<1>2. Ownership /\ RanBelow /\ [Next]_vars => Ownership' /\ RanBelow'
  <2> SUFFICES ASSUME Ownership, RanBelow, [Next]_vars
               PROVE  Ownership' /\ RanBelow'
    OBVIOUS
  <2>0. TypeOK /\ [OpenNext]_vars
    BY NextIsOpen DEF Ownership
  <2>1. Ownership' /\ TypeOK'
    BY <2>0, OwnershipStep DEF Ownership
  <2> QED BY <2>0, <2>1, MarksCases, MarksStep, DispatchMarks
<1>3. Ownership /\ RanBelow /\ [Next]_vars =>
        [job = Idle /\ job'.kind = "inject" =>
           \A r \in ran : r[1] = job'.pkt.epoch => r[2] < job'.pkt.seq]_vars
  <2> SUFFICES ASSUME Ownership, RanBelow, [Next]_vars,
                      job = Idle, job'.kind = "inject"
               PROVE  \A r \in ran : r[1] = job'.pkt.epoch => r[2] < job'.pkt.seq
    OBVIOUS
  <2>1. PICK v \in Viewer, pkt \in Packets : Dispatch(v, pkt)
    BY MarksCases, NextIsOpen DEF Ownership
  <2> QED BY <2>1, DispatchMarks
<1> QED BY <1>1, <1>2, <1>3, PTL DEF Spec, AtMostOnce

-----------------------------------------------------------------------------
(* Which steps matter to presses, their owner and time.                    *)

\* What most steps do to a lease: it goes, it is bound to a fresh epoch with an
\* empty table, or it keeps its epoch, its table and its budget.
LeaseQuiet(w) ==
  \/ lease'[w].epoch \in {0, nextEpoch} /\ lease'[w].held = Empty
  \/ /\ lease'[w].epoch = lease[w].epoch /\ lease'[w].rev = lease[w].rev
     /\ lease'[w].held = lease[w].held /\ lease'[w].heldAt = lease[w].heldAt
     /\ lease[w].high <= lease'[w].high
\* A step after which the host injects nothing, which leaves the owner or
\* releases it, and no lease with more than it had.
QuietHost == /\ UNCHANGED <<now, watchAt>> /\ ~Injecting'
             /\ nextEpoch' \in {nextEpoch, nextEpoch + 1}
             /\ active' \in {active, Released(active)}
             /\ \A w \in Viewer : LeaseQuiet(w)
\* A step beside the input lane.
AsideHost == /\ UNCHANGED <<now, watchAt, lease, active, job, nextEpoch>>
             /\ \A w \in Viewer : sub'[w].rev = sub[w].rev
\* The steps that neither take a packet in nor inject one of its events.
CalmJob ==
  \/ InjectDenied \/ TakeOver \/ TakeOverFails \/ InjectLate \/ InjectFails
  \/ ControlSucceeds \/ ControlFails \/ UnsubscribeEnds \/ ControlDeadline
CalmNext == \/ \E v \in Viewer : HostStep(v)
            \/ \E a \in Addr : CloseConnection(a)
            \/ CalmJob \/ HostTime
CalmHost == QuietHost \/ AsideHost \/ TakeOver \/ Watchdog \/ Tick

\* A packet that is not dispatched changes no presses.
LEMMA ReceiveCases ==
  ASSUME TypeOK, NEW v \in Viewer, NEW pkt \in Packets,
         DispatchConsumed(v, pkt) \/ DispatchReleaseFails(v, pkt)
  PROVE  QuietHost
<1>0. /\ active \in Actives /\ lease \in [Viewer -> Leases]
      /\ NoLease.epoch = 0 /\ NoLease.held = Empty
      /\ ~(Idle.kind = "inject") /\ \A w \in Viewer : lease[w].high \in Nat
  BY EntryTypes DEF TypeOK, Idle, Leases
<1>1. CASE DispatchConsumed(v, pkt)
  <2>0. lease[v] \in Leases /\ pkt.seq \in Nat /\ lease[v].high < pkt.seq
    BY <1>0, <1>1 DEF DispatchConsumed, Admits, Packets
  <2>1. /\ LeaseAfter(lease[v], pkt).high = pkt.seq
        /\ LeaseAfter(lease[v], pkt).epoch = lease[v].epoch
        /\ LeaseAfter(lease[v], pkt).rev = lease[v].rev
        /\ LeaseAfter(lease[v], pkt).held = lease[v].held
        /\ LeaseAfter(lease[v], pkt).heldAt = lease[v].heldAt
    BY <1>1, <2>0 DEF LeaseAfter, DispatchConsumed, Leases
  <2>2. \A w \in Viewer : LeaseQuiet(w)
    BY <1>0, <1>1, <2>0, <2>1 DEF DispatchConsumed, LeaseQuiet
  <2>3. active' \in {active, Released(active)}
    BY <1>0, <1>1, ReleasedTypes DEF DispatchConsumed
  <2> QED BY <1>0, <1>1, <2>2, <2>3 DEF DispatchConsumed, QuietHost, Injecting
<1>2. CASE DispatchReleaseFails(v, pkt)
  <2>1. \A w \in Viewer : LeaseQuiet(w)
    BY <1>0, <1>2 DEF DispatchReleaseFails, LeaseQuiet
  <2> QED BY <1>0, <1>2, <2>1 DEF DispatchReleaseFails, QuietHost, Injecting
<1> QED BY <1>1, <1>2

\* The steps without packets that matter to presses, their owner and time.
LEMMA CalmCases ==
  ASSUME TypeOK, [CalmNext]_vars
  PROVE  CalmHost
<1>0. /\ active \in Actives /\ Released(active) \in Actives
      /\ lease \in [Viewer -> Leases] /\ NoLease.epoch = 0 /\ NoLease.held = Empty
      /\ ~(Idle.kind = "inject") /\ \A w \in Viewer : lease[w].high \in Nat
  BY ReleasedTypes, EntryTypes DEF TypeOK, Idle, Leases
<1>1. ASSUME NEW a \in {active, Released(active)}, NEW s, active' = Settled(a, s)
      PROVE  active' \in {active, Released(active)}
  BY <1>0, <1>1, ReleasedTypes
<1>2. ASSUME \A w \in Viewer : lease'[w] \in {lease[w], NoLease}
      PROVE  \A w \in Viewer : LeaseQuiet(w)
  BY <1>0, <1>2 DEF LeaseQuiet
<1>3. ASSUME NEW v \in Viewer, HostStep(v)
      PROVE  QuietHost \/ AsideHost
  <2>1. ASSUME NEW op, NEW rev, StartControl(v, op, rev)
        PROVE  QuietHost
    BY <1>0, <1>2, <2>1, ReleasedTypes
       DEF StartControl, ControlJob, QuietHost, Injecting
  <2>2. ASSUME NEW rev, NEW video, SetActivity(v, rev, video)
        PROVE  QuietHost
    <3>1. \A w \in Viewer : lease'[w] \in {lease[w], NoLease}
      BY <1>0, <2>2 DEF SetActivity
    <3>2. active' \in {active, Released(active)}
      BY <1>0, <1>1, <2>2, ReleasedTypes DEF SetActivity
    <3> QED BY <1>0, <1>2, <2>2, <3>1, <3>2 DEF SetActivity, QuietHost, Injecting
  <2>3. ASSUME NEW rev, RequestBinding(v, rev)
        PROVE  QuietHost
    <3>1. \A w \in Viewer : \/ lease'[w] = lease[w]
                            \/ lease'[w].epoch = nextEpoch /\ lease'[w].held = Empty
      BY <1>0, <2>3 DEF RequestBinding, NewLease
    <3>2. \A w \in Viewer : LeaseQuiet(w)
      BY <1>0, <3>1 DEF LeaseQuiet
    <3> QED BY <1>0, <1>1, <2>3, <3>2 DEF RequestBinding, QuietHost, Injecting
  <2>4. CaptureEnds(v) \/ PermissionFlips(v) => AsideHost
    <3>1. sub \in [Viewer -> Subs]
      BY DEF TypeOK
    <3> QED BY <3>1 DEF CaptureEnds, PermissionFlips, AsideHost, Subs
  <2> QED BY <1>3, <2>1, <2>2, <2>3, <2>4
          DEF HostStep, Subscribe, Unsubscribe, SwitchSource
<1>4. ASSUME NEW a \in Addr, CloseConnection(a)
      PROVE  QuietHost
  <2>1. \A w \in Viewer : lease'[w] \in {lease[w], NoLease}
    BY <1>0, <1>4 DEF CloseConnection
  <2> QED BY <1>0, <1>1, <1>2, <1>4, <2>1 DEF CloseConnection, QuietHost, Injecting
<1>5. CASE CalmJob
  <2>1. ASSUME NEW a \in {active, Released(active)}, Abandon(a)
        PROVE  QuietHost
    BY <1>0, <1>1, <1>2, <2>1 DEF Abandon, QuietHost, Injecting
  <2>2. ASSUME NEW s, EndControl(s)
        PROVE  QuietHost
    BY <1>0, <1>1, <1>2, <2>2 DEF EndControl, QuietHost, Injecting
  <2>3. ControlDeadline => QuietHost
    BY <1>0, <1>2 DEF ControlDeadline, QuietHost, Injecting
  <2> QED BY <1>5, <2>1, <2>2, <2>3
          DEF CalmHost, CalmJob, InjectDenied, TakeOverFails, InjectLate,
              InjectFails, ControlSucceeds, ControlFails, UnsubscribeEnds
<1>6. Prune => QuietHost
  BY <1>0, <1>1, <1>2 DEF Prune, QuietHost, Injecting
<1>7. UNCHANGED vars => AsideHost
  BY DEF vars, AsideHost
<1> QED BY <1>3, <1>4, <1>5, <1>6, <1>7 DEF CalmNext, HostTime, CalmHost

\* All steps.
LEMMA HostCases ==
  ASSUME TypeOK, [OpenNext]_vars
  PROVE  \/ QuietHost \/ AsideHost \/ TakeOver \/ Inject \/ Watchdog \/ Tick
         \/ \E v \in Viewer, pkt \in Packets : Dispatch(v, pkt)
<1>1. CASE [CalmNext]_vars
  BY <1>1, CalmCases DEF CalmHost
<1>2. ASSUME NEW v \in Viewer, NEW pkt \in Packets, Receives(v, pkt)
      PROVE  Dispatch(v, pkt) \/ QuietHost
  BY <1>2, ReceiveCases DEF Receives
<1> QED BY <1>1, <1>2 DEF OpenNext, CalmNext, CalmJob, HostJob

-----------------------------------------------------------------------------
(* No press outlives its sender.                                           *)

\* A packet that applies starts the budget of its presses or keeps it; only
\* snapshots and releases let go of several keys at once.
LEMMA BudgetAfter ==
  ASSUME NEW l \in Leases, NEW pkt \in Packets, Applies(l, pkt)
  PROVE  /\ LeaseAfter(l, pkt).heldAt = IF Asserts(l, pkt) THEN pkt.created
                                        ELSE l.heldAt
         /\ PacketBatch(l, pkt).ups # {} => pkt.body.kind \in {"held", "release"}
         /\ pkt.body.kind = "release" => Down(HeldAfter(l, pkt)) = {}
<1>1. LeaseAfter(l, pkt).heldAt = IF Asserts(l, pkt) THEN pkt.created
                                  ELSE l.heldAt
  BY DEF LeaseAfter, Leases
<1>2. pkt.body.kind \in {"event", "held", "release"}
  BY DEF Applies, Packets, Bodies
<1>3. PacketBatch(l, pkt).ups # {} => pkt.body.kind # "event"
  BY DEF PacketBatch, EventBatch, NoBatch
<1>4. pkt.body.kind = "release" => Down(HeldAfter(l, pkt)) = {}
  BY DEF HeldAfter, Down, Empty
<1> QED BY <1>1, <1>2, <1>3, <1>4

\* The owner after a packet was dispatched: released, or the same with its
\* presses, a stamp no older and a deadline that is kept or the new lease's.
LEMMA DispatchOwner ==
  ASSUME Ownership, NEW v \in Viewer, NEW pkt \in Packets, Dispatch(v, pkt)
  PROVE  LET l    == LeaseAfter(lease[v], pkt)
             owns == active.peer = v /\ active.epoch = pkt.epoch
         IN  /\ \/ active'.native = {} /\ ~(owns /\ Injecting')
                \/ /\ active'.peer = active.peer /\ active'.epoch = active.epoch
                   /\ active'.native = active.native
                   /\ active.stamp <= active'.stamp
                   /\ active'.stamp \in {active.stamp, pkt.created}
                   /\ active'.stamp # active.stamp =>
                        owns /\ pkt.body.kind = "held" /\ Down(l.held) # {}
                   /\ owns /\ pkt.body.kind = "held" /\ Down(l.held) # {}
                        => pkt.created <= active'.stamp
                   /\ \/ active'.due = active.due
                      \/ owns /\ active'.due = Deadline(l) /\ ~Injecting'
             /\ Injecting' => /\ job' = InjectJob(v, pkt, PacketBatch(lease[v], pkt),
                                                  FALSE, now)
                              /\ active'.peer = v => owns
<1> DEFINE old   == lease[v]
           l     == LeaseAfter(old, pkt)
           batch == PacketBatch(old, pkt)
           owns  == active.peer = v /\ active.epoch = pkt.epoch
           takes == owns \/ ActiveIntent(old, pkt.body)
           a     == IF takes /\ ~owns THEN ReleasedFrom(active, v) ELSE active
           b     == Asserted(a, pkt, l)
           c     == IF b.peer = v /\ b.epoch = l.epoch
                    THEN [b EXCEPT !.due = Deadline(l)] ELSE b
<1>0. /\ active \in Actives /\ old \in Leases /\ l \in Leases /\ ~Injecting
      /\ l.epoch = pkt.epoch /\ pkt.epoch # 0 /\ pkt.created \in Nat
      /\ active.stamp \in Nat /\ Deadline(l) \in Nat /\ Nobody \notin Viewer
  BY LeaseAfterType, DeadlineType, HostInputAssumption
     DEF Ownership, TypeOK, Dispatch, Admits, Injecting, Idle, Packets, Actives,
         Viewer
<1>1. \/ a = active
      \/ a = Released(active) /\ ~owns /\ active.peer = v
  BY DEF ReleasedFrom
<1>2. a.peer = v => owns \/ (~takes /\ a = active)
  BY <1>0, <1>1 DEF ReleasedFrom, Released
<1>3. a \in Actives
  BY <1>0, <1>1, ReleasedTypes
<1>4. \/ takes /\ active' = b /\ job' = InjectJob(v, pkt, batch, FALSE, now)
      \/ active' = Dispatched(b, v, l) /\ ~Injecting'
  BY <1>0 DEF Dispatch, a, b, Injecting
<1> HIDE DEF a
<1>5. /\ b \in Actives /\ b.peer = a.peer /\ b.epoch = a.epoch
      /\ b.native = a.native /\ b.due = a.due
      /\ b.stamp = IF /\ pkt.body.kind = "held" /\ a.epoch = pkt.epoch
                      /\ Down(l.held) # {} /\ pkt.created > a.stamp
                   THEN pkt.created ELSE a.stamp
  BY <1>0, <1>3 DEF Asserted, Actives
<1> HIDE DEF l
<1> HIDE DEF b
<1>6. /\ c.peer = b.peer /\ c.epoch = b.epoch /\ c.native = b.native
      /\ c.stamp = b.stamp
      /\ c.due = IF b.peer = v /\ b.epoch = l.epoch THEN Deadline(l) ELSE b.due
  BY <1>5 DEF Actives
<1>7. Dispatched(b, v, l) = c \/ Dispatched(b, v, l).native = {}
  BY DEF Dispatched, Settled, Released
<1> HIDE DEF c
<1>8. Injecting' => /\ job' = InjectJob(v, pkt, batch, FALSE, now)
                    /\ active'.peer = v => owns
  BY <1>2, <1>4, <1>5
<1> DEFINE Kept == /\ active'.peer = active.peer /\ active'.epoch = active.epoch
                   /\ active'.native = active.native
                   /\ active.stamp <= active'.stamp
                   /\ active'.stamp \in {active.stamp, pkt.created}
                   /\ active'.stamp # active.stamp =>
                        owns /\ pkt.body.kind = "held" /\ Down(l.held) # {}
                   /\ owns /\ pkt.body.kind = "held" /\ Down(l.held) # {}
                        => pkt.created <= active'.stamp
                   /\ \/ active'.due = active.due
                      \/ owns /\ active'.due = Deadline(l) /\ ~Injecting'
<1>9. a # active => active'.native = {} /\ ~owns
  <2>1. Released(active).native = {}
    BY DEF Released
  <2>2. a # active => a.native = {} /\ ~owns
    BY <1>1, <2>1
  <2> QED BY <1>4, <1>5, <1>6, <1>7, <2>2
<1>10. ASSUME a = active
       PROVE  Kept \/ (active'.native = {} /\ ~Injecting')
  <2>1. a.epoch = pkt.epoch => active.peer = v
    BY <1>0, <1>10 DEF Ownership, OwnerBound, Dispatch, Admits
  <2>2. active' = b \/ ((active' = c \/ active'.native = {}) /\ ~Injecting')
    BY <1>4, <1>7
  <2>3. b.stamp >= active.stamp /\ b.stamp \in {active.stamp, pkt.created}
    BY <1>0, <1>5, <1>10
  <2> HIDE DEF owns
  <2>4. owns <=> active.peer = v /\ active.epoch = pkt.epoch
    BY DEF owns
  <2>5. b.stamp # active.stamp =>
          owns /\ pkt.body.kind = "held" /\ Down(l.held) # {}
    BY <1>5, <1>10, <2>1, <2>4
  <2>6. owns /\ pkt.body.kind = "held" /\ Down(l.held) # {}
          => pkt.created <= b.stamp
    BY <1>0, <1>5, <1>10, <2>4
  <2>7. c.due = active.due \/ (owns /\ c.due = Deadline(l))
    BY <1>0, <1>5, <1>6, <1>10, <2>4
  <2> QED BY <1>5, <1>6, <1>10, <2>2, <2>3, <2>5, <2>6, <2>7
<1> HIDE DEF batch, owns, Kept
<1>11. /\ Kept \/ (active'.native = {} /\ ~(owns /\ Injecting'))
       /\ Injecting' => /\ job' = InjectJob(v, pkt, batch, FALSE, now)
                        /\ active'.peer = v => owns
  BY <1>1, <1>8, <1>9, <1>10
<1> QED BY <1>11 DEF l, batch, owns, Kept

\* The deadline of a lease with presses is at most its hold budget.
LEMMA DeadlineBound ==
  ASSUME NEW l \in Leases, Down(l.held) # {}
  PROVE  /\ Deadline(l) \in Nat /\ Deadline(l) # 0
         /\ Deadline(l) <= l.heldAt + Hold
<1>1. l.heldAt \in Nat /\ l.valid \in Nat
  BY DEF Leases
<1>2. Hold \in Nat /\ Hold > 0
  BY HostInputAssumption
<1> QED BY <1>1, <1>2 DEF Deadline

\* The numbers of the time argument.
LEMMA TimeTypes ==
  ASSUME TypeOK
  PROVE  /\ now \in Nat /\ watchAt \in Nat /\ active.stamp \in Nat
         /\ active.due \in Nat
         /\ MaxAge \in Nat /\ Hold \in Nat /\ Watch \in Nat /\ MaxBusy \in Nat
         /\ MaxAge < Hold /\ Watch > 0
         /\ \A v \in Viewer : /\ lease[v] \in Leases /\ lease[v].heldAt \in Nat
                              /\ lease[v].valid \in Nat /\ lease[v].epoch \in Nat
  BY HostInputAssumption DEF TypeOK, Actives, Leases

\* What is down natively has an owner with a binding.
LEMMA OwnerKnown ==
  ASSUME Ownership, active.native # {}
  PROVE  active.epoch # 0 /\ active.peer \in Viewer
  BY DEF Ownership, NativeMatches, OwnerBound, TypeOK, Actives

\* Quiet steps and steps beside the lane.
LEMMA StopQuiet ==
  ASSUME Ownership, StopInv, QuietHost \/ AsideHost
  PROVE  StopInv'
<1>1. CASE AsideHost
  BY <1>1 DEF AsideHost, StopInv, HoldBudget, InjectBudget, StopBound, Injecting
<1>2. CASE QuietHost
  <2>1. InjectBudget'
    BY <1>2 DEF QuietHost, InjectBudget
  <2>2. CASE active' = Released(active)
    BY <1>2, <2>1, <2>2 DEF QuietHost, StopInv, HoldBudget, StopBound, Released
  <2>3. CASE active' = active
    <3>1. HoldBudget'
      <4> SUFFICES ASSUME active.native # {}
                   PROVE  lease'[active.peer].epoch = active.epoch =>
                            lease'[active.peer].heldAt <= active.stamp
        BY <1>2, <2>3 DEF HoldBudget, QuietHost, StopInv
      <4>1. active.epoch # 0 /\ active.peer \in Viewer
        BY OwnerKnown
      <4>2. active.epoch < nextEpoch /\ active.epoch \in Nat /\ nextEpoch \in Nat
        BY DEF Ownership, EpochsFresh, TypeOK, Actives
      <4>3. LeaseQuiet(active.peer)
        BY <1>2, <4>1 DEF QuietHost
      <4> QED BY <4>1, <4>2, <4>3 DEF LeaseQuiet, StopInv, HoldBudget
    <3> QED BY <1>2, <2>1, <2>3, <3>1 DEF QuietHost, StopInv, StopBound
  <2> QED BY <1>2, <2>2, <2>3 DEF QuietHost
<1> QED BY <1>1, <1>2

\* Control is taken: nothing is down any more.
LEMMA StopTakeOver ==
  ASSUME Ownership, StopInv, TakeOver
  PROVE  StopInv'
<1>0. /\ job \in InjectJobs /\ Injecting /\ UNCHANGED <<now, watchAt, lease>>
      /\ active.peer # job.v /\ job' = [job EXCEPT !.ready = TRUE]
  BY JobTypes DEF Ownership, TypeOK, TakeOver, Injecting
<1>1. /\ job'.since = job.since /\ job'.v = job.v /\ job'.pkt = job.pkt
      /\ job'.batch = job.batch
  BY <1>0 DEF InjectJobs
<1>2. active'.native = {}
  BY DEF TakeOver, Released
<1>3. InjectBudget'
  BY <1>0, <1>1, <1>2 DEF StopInv, InjectBudget
<1> QED BY <1>0, <1>2, <1>3 DEF StopInv, HoldBudget, StopBound

\* The watchdog keeps presses only within their lease's budget.
LEMMA StopWatchdog ==
  ASSUME Ownership, StopInv, Watchdog
  PROVE  StopInv'
<1>0. /\ TypeOK /\ ~Injecting /\ ~Injecting' /\ now' = now /\ watchAt' = now + Watch
      /\ active' \in {active, Released(active)}
      /\ lease' = [v \in Viewer |-> IF Expired(lease[v]) THEN NoLease ELSE lease[v]]
  BY DEF Ownership, Watchdog, Injecting, Idle
<1>1. InjectBudget'
  BY <1>0 DEF InjectBudget
<1>2. watchAt' <= now' + Watch
  BY <1>0, TimeTypes
<1>3. CASE active'.native = {}
  BY <1>1, <1>2, <1>3 DEF StopInv, HoldBudget, StopBound
<1>4. CASE active'.native # {}
  <2>1. active' = active /\ active.native # {}
    BY <1>0, <1>4 DEF Released
  <2>2. active.epoch # 0 /\ active.peer \in Viewer
    BY <2>1, OwnerKnown
  <2> DEFINE l == lease[active.peer]
  <2>3. lease'[active.peer].epoch = active.epoch
    <3>1. Released(active).native = {}
      BY DEF Released
    <3> QED BY <2>1, <2>2, <3>1 DEF Watchdog
  <2>4. ~Expired(l) /\ lease'[active.peer] = l /\ l.epoch = active.epoch
    BY <1>0, <2>2, <2>3, EntryTypes
  <2>5. Down(l.held) # {}
    BY <1>0, <2>1, <2>2, <2>4 DEF Ownership, NativeMatches
  <2>6. now < l.heldAt + Hold
    BY <1>0, <2>2, <2>4, <2>5, TimeTypes DEF Expired
  <2>7. l.heldAt <= active.stamp
    BY <2>1, <2>4 DEF StopInv, HoldBudget
  <2>8. watchAt' < active.stamp + Hold + Watch
    BY <1>0, <2>2, <2>6, <2>7, TimeTypes
  <2> QED BY <1>0, <1>1, <1>2, <2>1, <2>4, <2>7, <2>8
          DEF StopInv, HoldBudget, StopBound
<1> QED BY <1>3, <1>4

\* Time passes only up to the next timer that the host will serve.
LEMMA StopTick ==
  ASSUME Ownership, StopInv, Tick
  PROVE  StopInv'
<1>0. /\ TypeOK /\ now' = now + 1
      /\ UNCHANGED <<watchAt, lease, active, job>>
  BY DEF Ownership, Tick
<1> USE TimeTypes
<1>1. watchAt' <= now' + Watch
  BY <1>0 DEF StopInv
<1>2. HoldBudget'
  BY <1>0 DEF StopInv, HoldBudget
<1>3. ASSUME Injecting
      PROVE  /\ now + 1 <= job.since + MaxBusy /\ active.peer = job.v
             /\ job.since \in Nat
  <2>1. job.since \in Nat /\ (job.ready => active.peer = job.v)
    BY <1>0, <1>3, JobTypes DEF TypeOK, Injecting, Ownership, InjectOK
  <2>2. now < job.since + MaxBusy /\ (job.ready \/ active.peer = job.v)
    BY <1>3 DEF Tick, Injecting
  <2> QED BY <1>0, <2>1, <2>2
<1>4. InjectBudget'
  BY <1>0, <1>3 DEF StopInv, InjectBudget, Injecting
<1>5. ASSUME active.native # {}
      PROVE  now + 1 < active.stamp + Hold
                         + (IF Watch < MaxBusy THEN MaxBusy ELSE Watch)
  <2>0. /\ watchAt < active.stamp + Hold + Watch
        /\ active.due # 0 /\ active.due <= active.stamp + Hold
    BY <1>5 DEF StopInv, HoldBudget
  <2>1. CASE job.kind = "idle"
    BY <1>0, <2>0, <2>1 DEF Tick
  <2>2. CASE job.kind = "inject"
    <3>1. job.since < active.stamp + Hold
      BY <1>3, <1>5, <2>2 DEF StopInv, InjectBudget, Injecting
    <3> QED BY <1>0, <1>3, <2>2, <3>1 DEF Injecting
  <2>3. CASE job.kind = "control"
    <3>1. now < active.due
      BY <2>0, <2>3 DEF Tick
    <3> QED BY <1>0, <2>0, <3>1
  <2> QED BY <1>0, <2>1, <2>2, <2>3
          DEF TypeOK, Jobs, Idle, InjectJobs, ControlJobs
<1>6. StopBound'
  BY <1>0, <1>5 DEF StopBound
<1> QED BY <1>1, <1>2, <1>4, <1>6 DEF StopInv

\* What admitted a packet: a live lease, whose presses are down if its sender is
\* the owner, and empty otherwise.
LEMMA AdmittedLease ==
  ASSUME Ownership, NEW v \in Viewer, NEW pkt \in Packets, Dispatch(v, pkt)
  PROVE  LET old  == lease[v]
             l    == LeaseAfter(old, pkt)
             owns == active.peer = v /\ active.epoch = pkt.epoch
         IN  /\ old \in Leases /\ l \in Leases /\ Applies(old, pkt) /\ ~Expired(old)
             /\ old.epoch = pkt.epoch /\ pkt.epoch # 0 /\ l.epoch = pkt.epoch
             /\ l.held = HeldAfter(old, pkt) /\ l.high = pkt.seq /\ l.rev = old.rev
             /\ old.high < pkt.seq /\ old.rev = sub[v].rev
             /\ lease' = [lease EXCEPT ![v] = l]
             /\ ~Injecting /\ UNCHANGED <<now, watchAt, sub, nextEpoch>>
             /\ Down(old.held) = IF owns THEN active.native ELSE {}
<1> DEFINE old  == lease[v]
           l    == LeaseAfter(old, pkt)
           owns == active.peer = v /\ active.epoch = pkt.epoch
<1>1. /\ old \in Leases /\ Applies(old, pkt) /\ ~Expired(old)
      /\ old.epoch = pkt.epoch /\ pkt.epoch # 0
      /\ old.high < pkt.seq /\ old.rev = sub[v].rev
      /\ lease' = [lease EXCEPT ![v] = l]
      /\ ~Injecting /\ UNCHANGED <<now, watchAt, sub, nextEpoch>>
  BY DEF Ownership, TypeOK, Dispatch, Admits, Injecting, Idle
<1>2. l \in Leases /\ l.epoch = pkt.epoch /\ l.held = HeldAfter(old, pkt)
  BY <1>1, LeaseAfterType
<1>3. l.high = pkt.seq /\ l.rev = old.rev
  BY <1>1 DEF LeaseAfter, Leases
<1>4. owns => Down(old.held) = active.native
  BY <1>1 DEF Ownership, NativeMatches
<1>5. ~owns => Down(old.held) = {}
  BY <1>1 DEF Ownership, HeldOwned, Expired
<1> QED BY <1>1, <1>2, <1>3, <1>4, <1>5

\* A packet is dispatched.
LEMMA StopDispatch ==
  ASSUME Ownership, Ownership', StopInv,
         NEW v \in Viewer, NEW pkt \in Packets, Dispatch(v, pkt)
  PROVE  StopInv'
<1> DEFINE old   == lease[v]
           l     == LeaseAfter(old, pkt)
           batch == PacketBatch(old, pkt)
           owns  == active.peer = v /\ active.epoch = pkt.epoch
<1>0. /\ old \in Leases /\ l \in Leases /\ Applies(old, pkt) /\ ~Expired(old)
      /\ old.epoch = pkt.epoch /\ pkt.epoch # 0 /\ l.epoch = pkt.epoch
      /\ l.held = HeldAfter(old, pkt) /\ lease' = [lease EXCEPT ![v] = l]
      /\ ~Injecting /\ UNCHANGED <<now, watchAt, sub, nextEpoch>>
      /\ Down(old.held) = IF owns THEN active.native ELSE {}
  BY AdmittedLease
<1>1. TypeOK /\ TypeOK' /\ lease \in [Viewer -> Leases] /\ pkt.created \in Nat
  BY DEF Ownership, TypeOK, Packets
<1>2. lease'[v] = l /\ \A w \in Viewer \ {v} : lease'[w] = lease[w]
  BY <1>0, <1>1
<1>3. l.heldAt = IF Asserts(old, pkt) THEN pkt.created ELSE old.heldAt
  BY <1>0, BudgetAfter
<1> DEFINE Kept == /\ active'.peer = active.peer /\ active'.epoch = active.epoch
                   /\ active'.native = active.native
                   /\ active.stamp <= active'.stamp
                   /\ owns /\ pkt.body.kind = "held" /\ Down(l.held) # {}
                        => pkt.created <= active'.stamp
                   /\ \/ active'.due = active.due
                      \/ owns /\ active'.due = Deadline(l) /\ ~Injecting'
<1>4. /\ (active'.native = {} /\ ~(owns /\ Injecting')) \/ Kept
      /\ Injecting' => /\ job' = InjectJob(v, pkt, batch, FALSE, now)
                       /\ active'.peer = v => owns
  BY DispatchOwner
<1>t. /\ now \in Nat /\ watchAt \in Nat /\ active.stamp \in Nat
      /\ active'.stamp \in Nat /\ l.heldAt \in Nat /\ old.heldAt \in Nat
      /\ MaxAge \in Nat /\ Hold \in Nat /\ Watch \in Nat /\ MaxBusy \in Nat
      /\ active.due \in Nat
  BY <1>0, <1>1, TimeTypes DEF Leases, TypeOK, Actives
<1> HIDE DEF l, old, batch
<1>5. owns /\ active.native # {} =>
        old.heldAt <= active.stamp /\ now < old.heldAt + Hold
  <2> SUFFICES ASSUME owns, active.native # {}
               PROVE  old.heldAt <= active.stamp /\ now < old.heldAt + Hold
    OBVIOUS
  <2>1. old.heldAt <= active.stamp
    BY <1>0 DEF StopInv, HoldBudget, old
  <2>2. now < old.heldAt + Hold
    BY <1>0, <1>t DEF Expired
  <2> QED BY <2>1, <2>2
<1>6. HoldBudget' /\ StopBound'
  <2>1. CASE active'.native = {}
    BY <2>1 DEF HoldBudget, StopBound
  <2>2. CASE Kept /\ active'.native # {}
    <3>1. active.native # {} /\ active.peer \in Viewer
      BY <2>2, OwnerKnown
    <3>2. owns => l.heldAt <= active'.stamp
      <4> SUFFICES ASSUME owns PROVE l.heldAt <= active'.stamp
        OBVIOUS
      <4>1. Asserts(old, pkt) => pkt.body.kind = "held" /\ Down(l.held) # {}
        BY <1>0, <3>1 DEF Asserts
      <4> QED BY <1>3, <1>5, <1>t, <2>2, <3>1, <4>1
    <3>3. lease'[active'.peer].epoch = active'.epoch
            => lease'[active'.peer].heldAt <= active'.stamp
      <4>1. CASE active.peer = v
        BY <1>0, <1>2, <2>2, <3>2, <4>1
      <4>2. CASE active.peer # v
        <5>1. lease[active.peer].epoch = active.epoch
                => lease[active.peer].heldAt <= active.stamp
          BY <3>1 DEF StopInv, HoldBudget
        <5>2. lease[active.peer].heldAt \in Nat
          BY <1>1, <3>1, TimeTypes
        <5> QED BY <1>2, <1>t, <2>2, <3>1, <4>2, <5>1, <5>2
      <4> QED BY <4>1, <4>2
    <3>4. active'.due # 0 /\ active'.due <= active'.stamp + Hold
      <4>0. active.due # 0 /\ active.due <= active.stamp + Hold
        BY <3>1 DEF StopInv, HoldBudget
      <4>1. CASE active'.due = active.due
        BY <1>t, <2>2, <4>0, <4>1
      <4>2. CASE owns /\ active'.due = Deadline(l) /\ Down(l.held) # {}
        <5>1. /\ Deadline(l) \in Nat /\ Deadline(l) # 0
              /\ Deadline(l) <= l.heldAt + Hold
          BY <1>0, <4>2, DeadlineBound
        <5>2. l.heldAt <= active'.stamp
          BY <3>2, <4>2
        <5> QED BY <1>t, <4>2, <5>1, <5>2
      <4>3. CASE owns /\ active'.due = Deadline(l) /\ Down(l.held) = {} /\ ~Injecting'
        <5>1. Down(lease'[active'.peer].held) = active'.native
          BY <1>0, <1>2, <2>2, <4>3 DEF Ownership, NativeMatches
        <5> QED BY <1>2, <2>2, <4>3, <5>1
      <4> QED BY <2>2, <4>1, <4>2, <4>3
    <3>5. watchAt < active'.stamp + Hold + Watch
      <4>1. watchAt < active.stamp + Hold + Watch
        BY <3>1 DEF StopInv, HoldBudget
      <4> QED BY <1>t, <2>2, <4>1
    <3>6. StopBound'
      <4>1. now < active.stamp + Hold + (IF Watch < MaxBusy THEN MaxBusy ELSE Watch)
        BY <3>1 DEF StopInv, StopBound
      <4> QED BY <1>0, <1>t, <2>2, <4>1 DEF StopBound
    <3> QED BY <1>0, <3>3, <3>4, <3>5, <3>6 DEF HoldBudget
  <2> QED BY <1>4, <2>1, <2>2
<1>7. InjectBudget'
  <2> SUFFICES ASSUME Injecting' PROVE InjectBudget'
    BY DEF InjectBudget
  <2>1. /\ job'.v = v /\ job'.pkt = pkt /\ job'.batch = batch /\ job'.since = now
        /\ active'.peer = v => owns
    BY <1>4 DEF InjectJob
  <2> DEFINE own == IF active'.peer = v THEN active'.native ELSE {}
  <2>2. own # {} => now < active'.stamp + Hold
    <3> SUFFICES ASSUME own # {} PROVE now < active'.stamp + Hold
      OBVIOUS
    <3>1. owns /\ active'.native # {} /\ Kept
      BY <1>4, <2>1
    <3>2. now < old.heldAt + Hold /\ old.heldAt <= active.stamp
      BY <1>5, <3>1
    <3> QED BY <1>t, <3>1, <3>2
  <2>3. ASSUME own = {} \/ batch.ups # {}, Down(l.held) # {}
        PROVE  l.heldAt <= pkt.created
    <3>1. CASE Down(old.held) = {}
      BY <1>0, <1>1, <1>3, <2>3, <3>1 DEF Asserts
    <3>2. CASE Down(old.held) # {}
      <4>1. owns /\ active.native # {}
        BY <1>0, <3>2
      <4>2. own # {}
        BY <1>4, <4>1
      <4>3. pkt.body.kind = "held"
        BY <1>0, <2>3, <4>2, BudgetAfter DEF batch
      <4> QED BY <1>0, <1>1, <1>3, <2>3, <4>3 DEF Asserts
    <3> QED BY <3>1, <3>2
  <2>4. now' <= now + MaxBusy
    BY <1>0, <1>t
  <2> HIDE DEF own
  <2> QED BY <1>0, <1>2, <2>1, <2>2, <2>3, <2>4 DEF InjectBudget, own
<1> QED BY <1>0, <1>6, <1>7 DEF StopInv

\* One native event: the batch keeps presses down, or puts down what the lease
\* claims with its last event.
LEMMA InjectCases ==
  ASSUME Ownership, Inject
  PROVE  LET l == lease[job.v] IN
         /\ active.peer = job.v /\ active.epoch \in {0, job.pkt.epoch}
         /\ l \in Leases /\ l.epoch = job.pkt.epoch /\ job.pkt.epoch # 0
         /\ job \in InjectJobs /\ job.v \in Viewer /\ job.pkt \in Packets /\ InTime
         /\ UNCHANGED <<now, watchAt, lease, sub, nextEpoch>>
         /\ \/ active'.native = {} /\ ~Injecting'
            \/ /\ active'.peer = job.v /\ active'.epoch = job.pkt.epoch
               /\ active'.stamp = IF active.native = {} THEN job.pkt.created
                                  ELSE active.stamp
               /\ \/ /\ ~Injecting' /\ active'.native = Down(l.held)
                     /\ active'.due = Deadline(l)
                  \/ /\ Injecting' /\ active'.due = active.due
                     /\ job'.v = job.v /\ job'.pkt = job.pkt
                     /\ job'.since = job.since /\ job.batch.ups # {}
                     /\ active.native = {} => active'.native = {}
<1> DEFINE l == lease[job.v]
<1>0. /\ active \in Actives /\ Injecting /\ job \in InjectJobs
      /\ job.v \in Viewer /\ job.batch \in Batches /\ job.pkt \in Packets
      /\ l \in Leases /\ UNCHANGED <<now, watchAt, lease, sub, nextEpoch>> /\ InTime
  BY JobTypes DEF Ownership, TypeOK, Inject, AtNative, Injecting
<1>1. /\ active.peer = job.v /\ l.epoch = job.pkt.epoch /\ job.pkt.epoch # 0
      /\ active.epoch \in {0, job.pkt.epoch}
      /\ BatchNative(active.native, job.batch) = Down(l.held)
      /\ job.batch.ups \cap Modifier = {}
      /\ job.batch.ups # {} => active.native \cap Modifier \subseteq job.batch.mods
  BY <1>0 DEF Ownership, InjectOK, Inject, AtNative
<1>2. PICK out \in NextOuts(job.batch) :
        LET rest == BatchRest(job.batch, out)
            a    == [active EXCEPT !.epoch = job.pkt.epoch,
                                   !.native = NativeAfter(@, out),
                                   !.stamp = IF active.native = {}
                                             THEN job.pkt.created ELSE @]
        IN IF BatchDone(rest)
           THEN job' = Idle /\ active' = Dispatched(a, job.v, lease[job.v])
           ELSE /\ job' = [job EXCEPT !.batch = rest, !.ready = FALSE]
                /\ active' = a
  BY DEF Inject
<1> DEFINE n    == NativeAfter(active.native, out)
           rest == BatchRest(job.batch, out)
           a    == [active EXCEPT !.epoch = job.pkt.epoch,
                                  !.native = NativeAfter(@, out),
                                  !.stamp = IF active.native = {}
                                            THEN job.pkt.created ELSE @]
           c    == [a EXCEPT !.due = Deadline(l)]
<1>3. BatchNative(n, rest) = Down(l.held)
  BY <1>0, <1>1, BatchStep
<1>4. /\ a.peer = job.v /\ a.epoch = job.pkt.epoch /\ a.native = n
      /\ a.due = active.due
      /\ a.stamp = IF active.native = {} THEN job.pkt.created ELSE active.stamp
      /\ c.peer = job.v /\ c.epoch = job.pkt.epoch /\ c.native = n
      /\ c.due = Deadline(l)
      /\ c.stamp = IF active.native = {} THEN job.pkt.created ELSE active.stamp
  BY <1>0, <1>1 DEF Actives
<1>5. Dispatched(a, job.v, l) = c \/ Dispatched(a, job.v, l).native = {}
  BY <1>1, <1>4 DEF Dispatched, Settled, Released
<1>6. BatchDone(rest) => n = Down(l.held)
  BY <1>3 DEF BatchDone, BatchNative
<1>7. job.batch.ups # {} /\ active.native = {} => n = {}
  BY DEF NextOuts, NativeAfter
<1>8. ~BatchDone(rest) => job.batch.ups # {}
  BY <1>0 DEF BatchDone, BatchRest, Batches
<1>9. CASE BatchDone(rest)
  <2>1. ~Injecting' /\ active' = Dispatched(a, job.v, l)
    BY <1>2, <1>9 DEF Injecting, Idle
  <2> HIDE DEF a, n, rest
  <2> QED BY <1>0, <1>1, <1>4, <1>5, <1>6, <1>9, <2>1
<1>10. CASE ~BatchDone(rest)
  <2>1. job' = [job EXCEPT !.batch = rest, !.ready = FALSE] /\ active' = a
    BY <1>2, <1>10
  <2>2. /\ Injecting' /\ job'.v = job.v /\ job'.pkt = job.pkt
        /\ job'.since = job.since
    BY <1>0, <2>1 DEF Injecting, InjectJobs
  <2> HIDE DEF a, n, rest
  <2> QED BY <1>0, <1>1, <1>4, <1>7, <1>8, <1>10, <2>1, <2>2
<1> QED BY <1>9, <1>10

\* One native event is injected.
LEMMA StopInject ==
  ASSUME Ownership, StopInv, Inject
  PROVE  StopInv'
<1> DEFINE l == lease[job.v]
<1>0. /\ active.peer = job.v /\ active.epoch \in {0, job.pkt.epoch}
      /\ l \in Leases /\ l.epoch = job.pkt.epoch /\ job.pkt.epoch # 0
      /\ job \in InjectJobs /\ job.v \in Viewer /\ job.pkt \in Packets /\ InTime
      /\ UNCHANGED <<now, watchAt, lease>> /\ Injecting /\ TypeOK
      /\ active.native # {} => active.epoch = job.pkt.epoch
  BY InjectCases, OwnerKnown DEF Inject, AtNative, Ownership
<1>1. \/ active'.native = {} /\ ~Injecting'
      \/ /\ active'.peer = job.v /\ active'.epoch = job.pkt.epoch
         /\ active'.stamp = IF active.native = {} THEN job.pkt.created
                            ELSE active.stamp
         /\ \/ /\ ~Injecting' /\ active'.native = Down(l.held)
               /\ active'.due = Deadline(l)
            \/ /\ Injecting' /\ active'.due = active.due
               /\ job'.v = job.v /\ job'.pkt = job.pkt
               /\ job'.since = job.since /\ job.batch.ups # {}
               /\ active.native = {} => active'.native = {}
  BY InjectCases
<1>t. /\ now \in Nat /\ watchAt \in Nat /\ active.stamp \in Nat
      /\ active.due \in Nat /\ l.heldAt \in Nat /\ job.pkt.created \in Nat
      /\ MaxAge \in Nat /\ Hold \in Nat /\ Watch \in Nat /\ MaxBusy \in Nat
      /\ MaxAge < Hold /\ now < job.pkt.created + MaxAge
  BY <1>0, TimeTypes DEF Packets, InTime
<1>2. CASE active'.native = {} /\ ~Injecting'
  BY <1>0, <1>2 DEF StopInv, HoldBudget, InjectBudget, StopBound
<1>3. CASE active'.native # {}
  <2>1. ASSUME active.native # {}
        PROVE  /\ l.heldAt <= active.stamp /\ watchAt < active.stamp + Hold + Watch
               /\ active.due # 0 /\ active.due <= active.stamp + Hold
               /\ active'.stamp = active.stamp /\ StopBound'
    BY <1>0, <1>1, <1>3, <2>1 DEF StopInv, HoldBudget, StopBound
  <2>2. ASSUME active.native = {}
        PROVE  /\ l.heldAt <= active'.stamp /\ active'.stamp = job.pkt.created
               /\ ~Injecting' /\ Down(l.held) # {}
    BY <1>0, <1>1, <1>3, <2>2 DEF StopInv, InjectBudget
  <2>3. l.heldAt <= active'.stamp /\ active'.stamp \in Nat
    BY <1>t, <2>1, <2>2
  <2>4. watchAt < active'.stamp + Hold + Watch
    <3>1. watchAt <= now + Watch
      BY DEF StopInv
    <3> QED BY <1>t, <2>1, <2>2, <3>1
  <2>5. active'.due # 0 /\ active'.due <= active'.stamp + Hold
    <3>1. CASE Injecting'
      BY <1>1, <1>3, <2>1, <2>2, <3>1
    <3>2. CASE ~Injecting'
      <4>1. active'.due = Deadline(l) /\ Down(l.held) # {}
        BY <1>1, <1>3, <3>2
      <4>2. /\ Deadline(l) \in Nat /\ Deadline(l) # 0
            /\ Deadline(l) <= l.heldAt + Hold
        BY <1>0, <4>1, DeadlineBound
      <4> QED BY <1>t, <2>3, <4>1, <4>2
    <3> QED BY <3>1, <3>2
  <2>6. StopBound'
    <3>1. ASSUME active.native = {} PROVE StopBound'
      BY <1>0, <1>t, <2>2, <3>1 DEF StopBound
    <3> QED BY <2>1, <3>1
  <2>7. HoldBudget'
    BY <1>0, <1>1, <1>3, <2>3, <2>4, <2>5 DEF HoldBudget
  <2>8. InjectBudget'
    <3> SUFFICES ASSUME Injecting' PROVE InjectBudget'
      BY DEF InjectBudget
    <3>1. /\ job'.v = job.v /\ job'.pkt = job.pkt /\ job'.since = job.since
          /\ job.batch.ups # {} /\ active.native # {}
      BY <1>1, <1>3
    <3> QED BY <1>0, <2>1, <3>1 DEF InjectBudget, StopInv
  <2> QED BY <1>0, <2>6, <2>7, <2>8 DEF StopInv
<1>4. CASE active'.native = {} /\ Injecting'
  <2>1. /\ job'.v = job.v /\ job'.pkt = job.pkt /\ job'.since = job.since
        /\ job.batch.ups # {}
    BY <1>1, <1>4
  <2>2. InjectBudget'
    BY <1>0, <1>4, <2>1 DEF InjectBudget, StopInv
  <2> QED BY <1>0, <1>4, <2>2 DEF StopInv, HoldBudget, StopBound
<1> QED BY <1>2, <1>3, <1>4

\* Every step keeps the time budgets, whatever packets arrive.
LEMMA StopStep ==
  ASSUME Ownership, StopInv, [OpenNext]_vars
  PROVE  StopInv'
<1>1. TypeOK /\ Ownership'
  BY OwnershipStep DEF Ownership
<1> QED BY <1>1, HostCases, StopQuiet, StopTakeOver, StopInject, StopWatchdog,
           StopTick, StopDispatch

\* The first state.
LEMMA StopInit ==
  ASSUME now = 0, watchAt = 0, active.native = {}, job = Idle
  PROVE  StopInv
  BY HostInputAssumption
     DEF StopInv, HoldBudget, InjectBudget, StopBound, Injecting, Idle

\* No press outlives its sender: whatever the host is busy with, a press is up
\* within one hold timeout of the latest packet that asserted it, plus the longer
\* of the watchdog period and the native calls of one packet
\* (INPUT_WATCHDOG_INTERVAL_MS, during_control, inject_fresh).
THEOREM StopsInTime == Spec => []StopBound
<1>1. Init => Ownership /\ StopInv
  BY OwnershipInit, StopInit DEF Init
<1>2. Ownership /\ StopInv /\ [Next]_vars => Ownership' /\ StopInv'
  BY OwnershipStep, StopStep, NextIsOpen DEF Ownership
<1>3. StopInv => StopBound
  BY DEF StopInv
<1> QED BY <1>1, <1>2, <1>3, PTL DEF Spec

-----------------------------------------------------------------------------
(* Whose packet may take control, and what a chord finds down.             *)

\* While another peer owns the native side, what is injected is intent.
IntentJob ==
  Injecting /\ active.peer # job.v => TakesControl(job.pkt.body)
\* The one event of a chord establishes the chord's modifiers.
ChordJob ==
  Injecting /\ IsChord(job.pkt.body) /\ ~IsModifierKey(job.pkt.body.ev) =>
    LET ev == job.pkt.body.ev IN
    /\ ev.press \in Key /\ job.batch.ups = {}
    /\ job.batch.last = [down |-> {ev.press}, up |-> {}, mods |-> ev.mods,
                         how |-> "set"]

\* Both hold when a packet's injection starts.
LEMMA IntentDispatch ==
  ASSUME Ownership, NEW v \in Viewer, NEW pkt \in Packets, Dispatch(v, pkt)
  PROVE  IntentJob' /\ ChordJob'
<1> SUFFICES ASSUME Injecting' PROVE IntentJob' /\ ChordJob'
  BY DEF IntentJob, ChordJob
<1> DEFINE old   == lease[v]
           batch == PacketBatch(old, pkt)
           owns  == active.peer = v /\ active.epoch = pkt.epoch
<1>0. /\ old \in Leases /\ Applies(old, pkt) /\ ~Injecting
      /\ pkt.body \in Bodies /\ pkt.body.kind # "oversized" /\ pkt.seq \in Nat
  BY AdmittedLease DEF Applies, Packets
<1>1. /\ job' = InjectJob(v, pkt, batch, FALSE, now)
      /\ active'.peer # v => ~owns
  BY DispatchOwner
<1>2. job'.v = v /\ job'.pkt = pkt /\ job'.batch = batch
  BY <1>1 DEF InjectJob
<1>3. /\ owns \/ ActiveIntent(old, pkt.body)
      /\ ~BatchDone(batch)
  BY <1>0 DEF Dispatch, Injecting
<1>4. ASSUME ActiveIntent(old, pkt.body) PROVE TakesControl(pkt.body)
  <2>1. pkt.body.kind = "event" /\ pkt.body.ev \in Events
    BY <1>0, <1>4 DEF ActiveIntent, Bodies
  <2>2. pkt.body.ev.kind \in {"key", "plain", "mods", "motion"}
    BY <2>1 DEF Events, KeyEvents, PlainEvents, ModsEvents, MotionEvents
  <2>3. CASE pkt.body.ev.kind = "mods"
    BY <1>4, <2>1, <2>3 DEF ActiveIntent, TakesControl
  <2>4. CASE pkt.body.ev.kind = "motion"
    BY <2>1, <2>4 DEF TakesControl
  <2>5. CASE pkt.body.ev.kind \in {"key", "plain"}
    BY <1>4, <2>1, <2>5 DEF ActiveIntent, TakesControl
  <2> QED BY <2>2, <2>3, <2>4, <2>5
<1>5. IntentJob'
  BY <1>1, <1>2, <1>3, <1>4 DEF IntentJob
<1>6. ASSUME IsChord(pkt.body), ~IsModifierKey(pkt.body.ev)
      PROVE  LET ev == pkt.body.ev IN
             /\ ev.press \in Key /\ batch.ups = {}
             /\ batch.last = [down |-> {ev.press}, up |-> {}, mods |-> ev.mods,
                              how |-> "set"]
  <2> DEFINE ev == pkt.body.ev
             g  == HeldAfter(old, pkt)
  <2>1. /\ pkt.body.kind = "event" /\ ev \in Events /\ ev.kind = "key" /\ ev.down
        /\ ev.mods = Modifiers(old.held)
    BY <1>0, <1>6 DEF IsChord, Bodies, Applies, ChordKept
  <2>2. ev.press \in Key /\ ev.press \notin Modifier /\ ~SetsModifiers(ev)
    BY <1>6, <2>1 DEF Events, KeyEvents, PlainEvents, ModsEvents, MotionEvents,
                      IsModifierKey, NamesPress, SetsModifiers
  <2>3. EventValid(old.held, ev)
    BY <1>3, <2>1 DEF PacketBatch, NoBatch, BatchDone
  <2>4. batch = EventBatch(ev, g)
    BY <2>1, <2>3 DEF PacketBatch
  <2>5. g = Transition(old.held, ev.press, ev.down, pkt.seq)
    BY <2>1, <2>2, <2>3 DEF HeldAfter, EventHeld
  <2>6. Modifiers(g) = Modifiers(old.held)
    <3>1. old.held \in Held /\ ev.press \in Press /\ ev.down \in BOOLEAN
      BY <1>0, <2>1, <2>2 DEF Leases, Press
    <3>2. \A q \in Press \ {ev.press} : g[q] = old.held[q]
      BY <1>0, <2>5, <3>1, TransitionHeld
    <3> QED BY <2>2, <3>2 DEF Modifiers, Down
  <2>7. EventOut(ev, g) = [down |-> {ev.press}, up |-> {}, mods |-> ev.mods,
                           how |-> "set"]
    BY <1>6, <2>1, <2>2, <2>6 DEF EventOut, NamesPress
  <2> QED BY <2>2, <2>4, <2>7 DEF EventBatch
<1>7. ChordJob'
  BY <1>2, <1>6 DEF ChordJob
<1> QED BY <1>5, <1>7

\* Both hold throughout.
LEMMA IntentStep ==
  ASSUME Ownership, IntentJob, ChordJob, [OpenNext]_vars
  PROVE  IntentJob' /\ ChordJob'
<1>0. TypeOK
  BY DEF Ownership
<1>1. CASE QuietHost \/ Watchdog
  <2>1. ~Injecting'
    BY <1>1 DEF QuietHost, Watchdog, Injecting, Idle
  <2> QED BY <2>1 DEF IntentJob, ChordJob
<1>2. CASE AsideHost \/ Tick
  BY <1>2 DEF AsideHost, Tick, IntentJob, ChordJob, Injecting
<1>3. CASE TakeOver
  <2>1. job \in InjectJobs /\ job' = [job EXCEPT !.ready = TRUE]
    BY <1>0, <1>3, JobTypes DEF TypeOK, TakeOver, Injecting
  <2>2. job'.v = job.v /\ job'.pkt = job.pkt /\ job'.batch = job.batch /\ Injecting
    BY <1>3, <2>1 DEF InjectJobs, TakeOver
  <2>3. active'.peer = job.v
    BY <1>3 DEF TakeOver, Released
  <2> QED BY <2>2, <2>3 DEF IntentJob, ChordJob
<1>4. CASE Inject
  <2>1. \/ ~Injecting'
        \/ /\ active'.peer = job.v /\ job'.v = job.v /\ job'.pkt = job.pkt
           /\ job.batch.ups # {} /\ Injecting
    BY <1>4, InjectCases DEF Inject, AtNative
  <2> QED BY <2>1 DEF IntentJob, ChordJob
<1> QED BY <1>0, <1>1, <1>2, <1>3, <1>4, HostCases, IntentDispatch

\* Cleanup is never intent: while a peer that does not own the native side has a
\* packet injected, the owner's presses change only if that packet presses, moves
\* or scrolls (active_intent of dispatch_realtime_input).
THEOREM CleanupIsNoIntent == Spec => CleanupTakesNothing
<1>1. Init => Ownership /\ IntentJob /\ ChordJob
  BY OwnershipInit DEF Init, IntentJob, ChordJob, Injecting, Idle
<1>2. Ownership /\ IntentJob /\ ChordJob /\ [Next]_vars
        => Ownership' /\ IntentJob' /\ ChordJob'
  BY OwnershipStep, IntentStep, NextIsOpen DEF Ownership
<1>3. IntentJob =>
        [Injecting /\ active.peer \notin {job.v, Nobody}
           /\ active'.native # active.native =>
           TakesControl(job.pkt.body) \/ ~CanInput(sub[active.peer])]_vars
  BY DEF IntentJob
<1> QED BY <1>1, <1>2, <1>3, PTL DEF Spec, CleanupTakesNothing

\* The key of a chord goes down with exactly the chord's modifiers down.
LEMMA ChordPressed ==
  ASSUME Ownership, ChordJob, [OpenNext]_vars, Injecting,
         IsChord(job.pkt.body), ~IsModifierKey(job.pkt.body.ev),
         job.pkt.body.ev.press \in active'.native \ active.native
  PROVE  active'.native \cap Modifier = job.pkt.body.ev.mods
<1> DEFINE ev  == job.pkt.body.ev
           out == [down |-> {ev.press}, up |-> {}, mods |-> ev.mods, how |-> "set"]
<1>1. Inject
  BY OnlyInjectPresses DEF Ownership
<1>2. ev.press \in Key /\ job.batch.ups = {} /\ job.batch.last = out
  BY DEF ChordJob
<1>3. \/ active'.native = {} \/ active'.native = Down(lease[job.v].held)
  BY <1>1, <1>2, InjectCases
<1>4. active'.native = Down(lease[job.v].held) /\ active.peer = job.v
  BY <1>1, <1>3, InjectCases
<1>5. BatchNative(active.native, job.batch) = Down(lease[job.v].held)
  BY <1>4 DEF Ownership, InjectOK
<1>6. out # NoOut
  <2>1. out.how = "set" /\ NoOut.how = "none"
    BY DEF NoOut
  <2> QED BY <2>1
<1>7. BatchNative(active.native, job.batch) = NativeAfter(active.native, out)
  <2>1. active.native \ {} = active.native
    OBVIOUS
  <2> HIDE DEF out
  <2> QED BY <1>2, <1>6, <2>1 DEF BatchNative
<1>8. NativeAfter(active.native, out)
        = ((active.native \ Modifier) \cup {ev.press}) \cup ev.mods
  BY DEF NativeAfter
<1>9. ev.mods \subseteq Modifier
  <2>1. job.pkt.body \in Bodies
    BY JobTypes DEF Ownership, TypeOK, Injecting, Packets
  <2>2. ev \in Events /\ ev.kind = "key"
    BY <2>1 DEF IsChord, Bodies
  <2> QED BY <2>2 DEF Events, KeyEvents, PlainEvents, ModsEvents, MotionEvents
<1>10. ev.press \notin Modifier
  BY <1>2, PressAssumption
<1> HIDE DEF ev, out
<1> QED BY <1>4, <1>5, <1>7, <1>8, <1>9, <1>10 DEF ev

\* A chord is pressed whole, even when modifier packets were lost or reordered
\* (the chord check of InputLease::accept).
THEOREM ChordsWhole == Spec => ChordIntact
<1>1. Init => Ownership /\ IntentJob /\ ChordJob
  BY OwnershipInit DEF Init, IntentJob, ChordJob, Injecting, Idle
<1>2. Ownership /\ IntentJob /\ ChordJob /\ [Next]_vars
        => Ownership' /\ IntentJob' /\ ChordJob'
  BY OwnershipStep, IntentStep, NextIsOpen DEF Ownership
<1>3. Ownership /\ ChordJob /\ [Next]_vars =>
        [Injecting /\ IsChord(job.pkt.body) /\ ~IsModifierKey(job.pkt.body.ev)
           /\ job.pkt.body.ev.press \in active'.native \ active.native =>
           active'.native \cap Modifier = job.pkt.body.ev.mods]_vars
  BY ChordPressed, NextIsOpen DEF Ownership
<1> QED BY <1>1, <1>2, <1>3, PTL DEF Spec, ChordIntact
=============================================================================
