----------------------------- MODULE HostInput ------------------------------
(***************************************************************************)
(* The host side of the real-time input lane: the input leases of every    *)
(* connection (InputLease, protocol/src/realtime_input.rs), the single     *)
(* native owner (ActiveInput, host/src/service.rs) and the control         *)
(* commands of run_host_service_inner that grant, retire or end them.      *)
(* The host is one task: while it injects or waits for a capture to start  *)
(* or stop, only time, captures and permissions change. Packets are those  *)
(* of an arbitrary sender that knows the epochs it was granted.            *)
(***************************************************************************)
EXTENDS HeldState

CONSTANTS
  Addr, Id,     \* peer addresses, subscription ids
  Nobody,       \* no owner
  Target,       \* what input goes to: an InputTarget and a portal generation
  Portal,       \* the targets served by a portal session, whose release can fail
  Inputs,       \* the input events a peer sends
  Unstable,     \* peers whose capture or input permission changes by itself
  MaxAge,       \* MAX_INPUT_AGE_MS
  Hold,         \* HOLD_TIMEOUT_MS
  Watch,        \* INPUT_WATCHDOG_INTERVAL_MS
  MaxBusy,      \* longest time one packet's native calls take
  MaxTime, MaxEpoch, MaxSeq, MaxRev    \* bounds of the instance

ASSUME HostInputAssumption ==
  /\ Nobody \notin Addr \X Id
  /\ Target # {} /\ Portal \subseteq Target
  /\ Inputs \subseteq Events /\ Unstable \subseteq Addr
  /\ MaxAge \in Nat /\ Hold \in Nat /\ MaxAge < Hold
  /\ Watch \in Nat \ {0} /\ MaxBusy \in Nat
  /\ MaxTime \in Nat /\ MaxEpoch \in Nat /\ MaxSeq \in Nat /\ MaxRev \in Nat

Viewer == Addr \X Id

VARIABLES
  now,        \* the host's input clock
  sub,        \* subscriptions, as far as input depends on them
  lease,      \* Connection::input_leases
  active,     \* ActiveInput, the revoked lifetimes, the presses down natively
  watchAt,    \* when the watchdog interval fires next
  nextEpoch,  \* fresh epochs (random_bytes_16 never repeats)
  job,        \* what the host task is awaiting
  ran         \* history: per epoch, the last sequence number injected

vars == <<now, sub, lease, active, watchAt, nextEpoch, job, ran>>

-----------------------------------------------------------------------------
\* "none": not subscribed; "live": captured; "over": the capture task ended;
\* "retired": unsubscribed, the id cannot be used again on this connection.
Subs == [st : {"none", "live", "over", "retired"}, rev : Nat, act : Nat,
         paused : BOOLEAN, able : BOOLEAN, target : Target]
NoSub == [st |-> "none", rev |-> 0, act |-> 0, paused |-> FALSE,
          able |-> FALSE, target |-> CHOOSE t \in Target : TRUE]
\* Connection::can_input; "able" is supports_input_now.
CanInput(s) == s.st = "live" /\ s.able /\ ~s.paused

\* InputLeaseSlot and InputLease; epoch 0 stands for no entry.
Leases == [epoch : Nat, rev : Nat, target : Target, high : Nat,
           valid : Nat, held : Held, heldAt : Nat]
NoLease == [epoch |-> 0, rev |-> 0, target |-> CHOOSE t \in Target : TRUE,
            high |-> 0, valid |-> 0, held |-> Empty, heldAt |-> 0]
NewLease(s, epoch) ==
  [epoch |-> epoch, rev |-> s.rev, target |-> s.target, high |-> 0,
   valid |-> now, held |-> Empty, heldAt |-> now]

\* InputLease::expired and InputLease::deadline.
Expired(l) == \/ l.epoch \in active.revoked
              \/ now >= l.valid + Hold
              \/ Down(l.held) # {} /\ now >= l.heldAt + Hold
Deadline(l) == IF Down(l.held) # {} /\ l.heldAt < l.valid
               THEN l.heldAt + Hold ELSE l.valid + Hold

\* epoch 0: no binding; due 0: no deadline. "revoked" holds the epochs whose
\* InputLeaseRevocation is set. "stamp" is history: the latest creation time of
\* a packet that asserted the presses that are down.
Actives == [peer : Viewer \cup {Nobody}, epoch : Nat, due : Nat,
            native : SUBSET Press, revoked : SUBSET Nat, stamp : Nat]
\* ActiveInput::release. A portal that cannot confirm the release is revoked,
\* which ends its presses too.
Released(a) ==
  [peer |-> Nobody, epoch |-> 0, due |-> 0, native |-> {}, stamp |-> 0,
   revoked |-> a.revoked \cup ({a.epoch} \ {0})]
\* The check that ends every control message and every service tick.
Settled(a, s) ==
  IF a.peer # Nobody /\ ~CanInput(s[a.peer]) THEN Released(a) ELSE a
\* The release that precedes a change of the owner's own subscription.
ReleasedFrom(a, v) == IF a.peer = v THEN Released(a) ELSE a

-----------------------------------------------------------------------------
Bodies == [kind : {"event"}, ev : Events] \cup [kind : {"held"}, snap : Held]
            \cup [kind : {"release", "oversized"}]
Packets == [epoch : Nat, seq : Nat, created : Nat, body : Bodies]

\* InputLease::accept after the sequence number is consumed.
Fresh(pkt) == pkt.created <= now /\ now <= pkt.created + MaxAge
\* A key-down that states its chord.
IsChord(b) == b.kind = "event" /\ b.ev.kind = "key" /\ b.ev.down
\* Mutant: a chord may be a part of what is held.
ChordKeptLoosely(l, b) == IsChord(b) => b.ev.mods \subseteq Modifiers(l.held)
ChordKept(l, b) == IsChord(b) => b.ev.mods = Modifiers(l.held)
Applies(l, pkt) ==
  Fresh(pkt) /\ ChordKept(l, pkt.body) /\ pkt.body.kind # "oversized"

\* Mutant: presses are numbered one packet late.
HeldAfterLate(l, pkt) ==
  CASE pkt.body.kind = "event"   -> EventHeld(l.held, pkt.body.ev, l.high)
    [] pkt.body.kind = "held"    -> ReleaseMissing(l.held, pkt.body.snap)
    [] pkt.body.kind = "release" -> Empty
HeldAfter(l, pkt) ==
  CASE pkt.body.kind = "event"   -> EventHeld(l.held, pkt.body.ev, pkt.seq)
    [] pkt.body.kind = "held"    -> ReleaseMissing(l.held, pkt.body.snap)
    [] pkt.body.kind = "release" -> Empty
PacketBatch(l, pkt) ==
  IF pkt.body.kind # "event" THEN ReleaseBatch(l.held, HeldAfter(l, pkt))
  ELSE IF EventValid(l.held, pkt.body.ev)
       THEN EventBatch(pkt.body.ev, HeldAfter(l, pkt))
  ELSE NoBatch

\* Mutant: any packet that leaves a press down renews it.
AssertsAlways(l, pkt) == Down(HeldAfter(l, pkt)) # {}
\* Whether this packet starts or renews the hold budget of its presses.
Asserts(l, pkt) == /\ Down(HeldAfter(l, pkt)) # {}
                   /\ Down(l.held) = {} \/ pkt.body.kind = "held"
\* Mutant: the validity is dated back before the clock's origin.
LeaseBackdated(l, pkt) ==
  IF ~Applies(l, pkt) THEN [l EXCEPT !.high = pkt.seq]
  ELSE [l EXCEPT !.high = pkt.seq, !.valid = pkt.created - MaxAge,
                 !.held = HeldAfter(l, pkt)]
LeaseAfter(l, pkt) ==
  IF ~Applies(l, pkt) THEN [l EXCEPT !.high = pkt.seq]
  ELSE [l EXCEPT !.high = pkt.seq, !.valid = pkt.created,
                 !.held = HeldAfter(l, pkt),
                 !.heldAt = IF Asserts(l, pkt) THEN pkt.created ELSE @]

\* Mutant: every packet is intent to take control.
AnyIntent(l, b) == TRUE
\* active_intent of dispatch_realtime_input.
ActiveIntent(l, b) ==
  /\ b.kind = "event"
  /\ CASE b.ev.kind = "mods"   -> b.ev.mods \ Modifiers(l.held) # {}
       [] b.ev.kind = "motion" -> TRUE
       [] OTHER -> b.ev.down

\* Mutant: a packet may come a second time.
AdmitsAgain(v, pkt) ==
  LET l == lease[v] IN
  /\ CanInput(sub[v])
  /\ l.epoch # 0 /\ l.rev = sub[v].rev /\ l.target = sub[v].target
  /\ pkt.epoch = l.epoch /\ pkt.seq >= l.high /\ ~Expired(l)
\* Connection::accept_input up to the sequence number.
Admits(v, pkt) ==
  LET l == lease[v] IN
  /\ CanInput(sub[v])
  /\ l.epoch # 0 /\ l.rev = sub[v].rev /\ l.target = sub[v].target
  /\ pkt.epoch = l.epoch /\ pkt.seq > l.high /\ ~Expired(l)

-----------------------------------------------------------------------------
Idle == [kind |-> "idle"]
\* "ready": this event's ownership change is done, its deadline is next.
InjectJob(v, pkt, batch, ready, since) ==
  [kind |-> "inject", v |-> v, pkt |-> pkt, batch |-> batch,
   ready |-> ready, since |-> since]
ControlJob(v, op, rev) == [kind |-> "control", v |-> v, op |-> op, rev |-> rev]
InjectJobs == [kind : {"inject"}, v : Viewer, pkt : Packets, batch : Batches,
               ready : BOOLEAN, since : Nat]
ControlJobs == [kind : {"control"}, v : Viewer,
                op : {"subscribe", "switch", "unsubscribe"}, rev : Nat]
Jobs == {Idle} \cup InjectJobs \cup ControlJobs

\* The end of dispatch_realtime_input and the check after the message.
Dispatched(a, v, l) ==
  Settled(IF a.peer = v /\ a.epoch = l.epoch
          THEN [a EXCEPT !.due = Deadline(l)] ELSE a, sub)
\* The history of assertions: a snapshot of the owner that keeps a press.
Asserted(a, pkt, l) ==
  IF /\ pkt.body.kind = "held" /\ a.epoch = pkt.epoch /\ Down(l.held) # {}
     /\ pkt.created > a.stamp
  THEN [a EXCEPT !.stamp = pkt.created] ELSE a

\* A packet whose sequence number is consumed without effect: stale, from the
\* future, a broken chord or an oversized table.
DispatchConsumed(v, pkt) ==
  /\ job = Idle /\ Admits(v, pkt) /\ ~Applies(lease[v], pkt)
  /\ lease' = [lease EXCEPT ![v] = LeaseAfter(@, pkt)]
  /\ active' = Settled(active, sub)
  /\ UNCHANGED <<now, sub, watchAt, nextEpoch, job, ran>>

\* dispatch_realtime_input up to its first native event.
Dispatch(v, pkt) ==
  LET l      == LeaseAfter(lease[v], pkt)
      batch  == PacketBatch(lease[v], pkt)
      owns   == active.peer = v /\ active.epoch = pkt.epoch
      takes  == owns \/ ActiveIntent(lease[v], pkt.body)
      a      == IF takes /\ ~owns THEN ReleasedFrom(active, v) ELSE active
  IN
  /\ job = Idle /\ Admits(v, pkt) /\ Applies(lease[v], pkt)
  /\ lease' = [lease EXCEPT ![v] = l]
  /\ IF takes /\ ~BatchDone(batch)
     THEN /\ active' = Asserted(a, pkt, l)
          /\ job' = InjectJob(v, pkt, batch, FALSE, now)
          /\ ran' = {r \in ran : r[1] # pkt.epoch} \cup {<<pkt.epoch, pkt.seq>>}
     ELSE /\ active' = Dispatched(Asserted(a, pkt, l), v, l)
          /\ UNCHANGED <<job, ran>>
  /\ UNCHANGED <<now, sub, watchAt, nextEpoch>>

\* The owner's own portal cannot confirm the release of its older binding.
DispatchReleaseFails(v, pkt) ==
  /\ job = Idle /\ Admits(v, pkt) /\ Applies(lease[v], pkt)
  /\ active.peer = v /\ active.epoch # pkt.epoch
  /\ ActiveIntent(lease[v], pkt.body) /\ sub[v].target \in Portal
  /\ lease' = [lease EXCEPT ![v] = NoLease]
  /\ sub' = [sub EXCEPT ![v].able = FALSE]
  /\ active' = Released(active)
  /\ UNCHANGED <<now, watchAt, nextEpoch, job, ran>>

-----------------------------------------------------------------------------
(* inject_fresh, once per event of the batch. When it returns false the    *)
(* lease is removed and the rest of the batch is dropped.                  *)

Injecting == job.kind = "inject"
\* Mutant: the lease survives an injection that failed.
AbandonKept(a) == /\ active' = Settled(a, sub')
                  /\ job' = Idle
                  /\ UNCHANGED <<now, lease, watchAt, nextEpoch, ran>>
Abandon(a) == /\ lease' = [lease EXCEPT ![job.v] = NoLease]
              /\ active' = Settled(a, sub')
              /\ job' = Idle
              /\ UNCHANGED <<now, watchAt, nextEpoch, ran>>

InjectDenied ==
  /\ Injecting /\ ~job.ready /\ ~CanInput(sub[job.v])
  /\ UNCHANGED sub /\ Abandon(active)

TakeOver ==
  /\ Injecting /\ ~job.ready /\ CanInput(sub[job.v]) /\ active.peer # job.v
  /\ active' = [Released(active) EXCEPT !.peer = job.v]
  /\ job' = [job EXCEPT !.ready = TRUE]
  /\ UNCHANGED <<now, sub, lease, watchAt, nextEpoch, ran>>

TakeOverFails ==
  /\ Injecting /\ ~job.ready /\ CanInput(sub[job.v])
  /\ active.peer \notin {job.v, Nobody} /\ sub[active.peer].target \in Portal
  /\ sub' = [sub EXCEPT ![active.peer].able = FALSE]
  /\ Abandon(Released(active))

\* The event may go to the native side if its packet is still in time.
AtNative == /\ Injecting
            /\ job.ready \/ (CanInput(sub[job.v]) /\ active.peer = job.v)
\* Mutant: the age was checked on arrival only.
InTimeOnArrival == job.since < job.pkt.created + MaxAge
InTime == now < job.pkt.created + MaxAge

InjectLate == AtNative /\ ~InTime /\ UNCHANGED sub /\ Abandon(active)

\* An error of the native side; a portal's transport error revokes the portal.
InjectFails ==
  /\ AtNative /\ InTime
  /\ \/ UNCHANGED sub
     \/ /\ sub[job.v].target \in Portal
        /\ sub' = [sub EXCEPT ![job.v].able = FALSE]
  /\ Abandon(Released(active))

Inject ==
  /\ AtNative /\ InTime
  /\ \E out \in NextOuts(job.batch) :
       LET rest == BatchRest(job.batch, out)
           a    == [active EXCEPT !.epoch = job.pkt.epoch,
                                  !.native = NativeAfter(@, out),
                                  !.stamp = IF active.native = {}
                                            THEN job.pkt.created ELSE @]
       IN IF BatchDone(rest)
          THEN job' = Idle /\ active' = Dispatched(a, job.v, lease[job.v])
          ELSE /\ job' = [job EXCEPT !.batch = rest, !.ready = FALSE]
               /\ active' = a
  /\ UNCHANGED <<now, sub, lease, watchAt, nextEpoch, ran>>

-----------------------------------------------------------------------------
\* Connection::input_binding: the current lease, or a fresh empty one.
Rotates(v) == \/ lease[v].epoch = 0 \/ Expired(lease[v])
              \/ lease[v].rev # sub[v].rev \/ lease[v].target # sub[v].target
RequestBinding(v, rev) ==
  /\ job = Idle /\ CanInput(sub[v]) /\ rev = sub[v].rev
  /\ Rotates(v) => nextEpoch <= MaxEpoch
  /\ IF Rotates(v)
     THEN /\ lease' = [lease EXCEPT ![v] = NewLease(sub[v], nextEpoch)]
          /\ nextEpoch' = nextEpoch + 1
     ELSE UNCHANGED <<lease, nextEpoch>>
  /\ active' = Settled(active, sub)
  /\ UNCHANGED <<now, sub, watchAt, job, ran>>

\* expire_input_owners.
Watchdog ==
  /\ job = Idle /\ now >= watchAt
  /\ lease' = [v \in Viewer |-> IF Expired(lease[v]) THEN NoLease ELSE lease[v]]
  /\ active' = IF active.epoch # 0 /\ lease'[active.peer].epoch # active.epoch
               THEN Released(active) ELSE active
  /\ watchAt' = now + Watch
  /\ UNCHANGED <<now, sub, nextEpoch, job, ran>>

\* retire_input_before_control, then the awaited command.
StartControl(v, op, rev) ==
  /\ lease' = [lease EXCEPT ![v] = NoLease]
  /\ active' = ReleasedFrom(active, v)
  /\ job' = ControlJob(v, op, rev)
  /\ UNCHANGED <<now, watchAt, nextEpoch, ran>>

Subscribe(v) ==
  /\ job = Idle /\ sub[v].st = "none"
  /\ UNCHANGED sub /\ StartControl(v, "subscribe", 0)
SwitchSource(v, rev) ==
  /\ job = Idle /\ sub[v].st \in {"live", "over"} /\ rev > sub[v].rev
  /\ UNCHANGED sub /\ StartControl(v, "switch", rev)
Unsubscribe(v) ==
  /\ job = Idle /\ sub[v].st \in {"live", "over"}
  /\ sub' = [sub EXCEPT ![v].able = FALSE, ![v].st = "over"]
  /\ StartControl(v, "unsubscribe", 0)

EndControl(s) == /\ sub' = [sub EXCEPT ![job.v] = s]
                 /\ active' = Settled(active, sub')
                 /\ job' = Idle
                 /\ UNCHANGED <<now, lease, watchAt, nextEpoch, ran>>
\* The capture of Connection::subscribe runs: for a first subscription, or in
\* place of the previous source.
ControlSucceeds ==
  /\ job.kind = "control" /\ job.op \in {"subscribe", "switch"}
  /\ \E t \in Target, able \in BOOLEAN :
       EndControl([sub[job.v] EXCEPT !.st = "live", !.rev = job.rev,
                                     !.able = able, !.target = t])
\* It does not: refused before or after the previous capture was stopped, or
\* after the subscription was removed.
ControlFails ==
  /\ job.kind = "control" /\ job.op \in {"subscribe", "switch"}
  /\ \/ EndControl(sub[job.v])
     \/ job.op = "switch" /\ EndControl([sub[job.v] EXCEPT !.st = "over", !.able = FALSE])
     \/ job.op = "switch" /\ EndControl(NoSub)
\* Connection::unsubscribe, whatever its receipt says.
UnsubscribeEnds ==
  /\ job.kind = "control" /\ job.op = "unsubscribe"
  /\ EndControl([NoSub EXCEPT !.st = "retired"])
\* during_control: the owner's hold runs out while the command is awaited.
ControlDeadline ==
  /\ job.kind = "control" /\ active.due # 0 /\ now >= active.due
  /\ active' = Released(active)
  /\ UNCHANGED <<now, sub, lease, watchAt, nextEpoch, job, ran>>

\* set_activity; a change of the video state retires the lease first.
SetActivity(v, rev, video) ==
  LET flips == sub[v].paused = video IN
  /\ job = Idle /\ sub[v].st \in {"live", "over"} /\ rev > sub[v].act
  /\ sub' = [sub EXCEPT ![v].act = rev, ![v].paused = ~video]
  /\ lease' = IF flips THEN [lease EXCEPT ![v] = NoLease] ELSE lease
  /\ active' = Settled(IF flips THEN ReleasedFrom(active, v) ELSE active, sub')
  /\ UNCHANGED <<now, watchAt, nextEpoch, job, ran>>

\* Close, StopStream, silence, key rotation or the end of a delivery: the
\* connection leaves "peers" with its subscriptions and leases.
CloseConnection(a) ==
  /\ job = Idle
  /\ sub' = [v \in Viewer |-> IF v[1] = a THEN NoSub ELSE sub[v]]
  /\ lease' = [v \in Viewer |-> IF v[1] = a THEN NoLease ELSE lease[v]]
  /\ active' = Settled(active, sub')
  /\ UNCHANGED <<now, watchAt, nextEpoch, job, ran>>

\* The 100 ms tick: prune_finished_subscriptions keeps an ended subscription
\* for a local share, or drops it (and bars its id if the worker panicked).
Prune ==
  /\ job = Idle
  /\ \E gone \in {"over", "none", "retired"} :
       sub' = [v \in Viewer |-> IF sub[v].st # "over" \/ gone = "over"
                                THEN sub[v] ELSE [NoSub EXCEPT !.st = gone]]
  /\ active' = Settled(active, sub')
  /\ UNCHANGED <<now, lease, watchAt, nextEpoch, job, ran>>

-----------------------------------------------------------------------------
(* What happens beside the host task.                                      *)

\* The capture task finishes; "able" is not read again before a new source.
CaptureEnds(v) ==
  /\ v[1] \in Unstable /\ sub[v].st = "live"
  /\ sub' = [sub EXCEPT ![v].st = "over", ![v].able = FALSE]
  /\ UNCHANGED <<now, lease, active, watchAt, nextEpoch, job, ran>>
\* The user grants or takes back input, or the portal session is revoked.
PermissionFlips(v) ==
  /\ v[1] \in Unstable /\ sub[v].st = "live"
  /\ sub' = [sub EXCEPT ![v].able = ~@]
  /\ UNCHANGED <<now, lease, active, watchAt, nextEpoch, job, ran>>

\* Timers fire when the task is free: the watchdog when idle, the owner's
\* deadline during a control command. The first release of a packet precedes
\* every await of its injection.
Tick ==
  /\ now < MaxTime
  /\ CASE job.kind = "idle"    -> now < watchAt
       [] job.kind = "inject"  -> /\ job.ready \/ active.peer = job.v
                                  /\ now < job.since + MaxBusy
       [] job.kind = "control" -> active.due = 0 \/ now < active.due
  /\ now' = now + 1
  /\ UNCHANGED <<sub, lease, active, watchAt, nextEpoch, job, ran>>

Init ==
  /\ now = 0 /\ watchAt = 0 /\ nextEpoch = 1
  /\ sub = [v \in Viewer |-> NoSub]
  /\ lease = [v \in Viewer |-> NoLease]
  /\ active = [peer |-> Nobody, epoch |-> 0, due |-> 0, native |-> {},
               stamp |-> 0, revoked |-> {}]
  /\ job = Idle /\ ran = {}

HostStep(v) ==
  \/ \E rev \in 0..MaxRev : RequestBinding(v, rev)
  \/ Subscribe(v) \/ Unsubscribe(v)
  \/ \E rev \in 1..MaxRev : SwitchSource(v, rev)
  \/ \E rev \in 1..MaxRev, video \in BOOLEAN : SetActivity(v, rev, video)
  \/ CaptureEnds(v) \/ PermissionFlips(v)
HostJob ==
  \/ InjectDenied \/ TakeOver \/ TakeOverFails \/ InjectLate \/ InjectFails
  \/ Inject \/ ControlSucceeds \/ ControlFails \/ UnsubscribeEnds
  \/ ControlDeadline
HostTime == Watchdog \/ Prune \/ Tick

\* A snapshot matters only through the entries it shares with the table.
Snapshots(l) == {[p \in Press |-> IF p \in kept THEN l.held[p] ELSE 0] :
                   kept \in SUBSET Down(l.held)}
SentBodies(l) ==
  [kind : {"event"}, ev : Inputs] \cup [kind : {"held"}, snap : Snapshots(l)]
    \cup [kind : {"release", "oversized"}]
SentPackets(v) ==
  [epoch : {lease[v].epoch}, seq : 1..MaxSeq, created : 0..MaxTime,
   body : SentBodies(lease[v])]
AnyPacket(v) == \E pkt \in SentPackets(v) :
  DispatchConsumed(v, pkt) \/ Dispatch(v, pkt) \/ DispatchReleaseFails(v, pkt)

Next == \/ \E v \in Viewer : HostStep(v) \/ AnyPacket(v)
        \/ \E a \in Addr : CloseConnection(a)
        \/ HostJob \/ HostTime

Spec == Init /\ [][Next]_vars

-----------------------------------------------------------------------------
TypeOK ==
  /\ now \in Nat /\ watchAt \in Nat /\ nextEpoch \in Nat \ {0}
  /\ sub \in [Viewer -> Subs]
  /\ lease \in [Viewer -> Leases]
  /\ active \in Actives
  /\ job \in Jobs
  /\ ran \subseteq Nat \X Nat

\* Ownership is one irreversible lifetime: native input is never owned through
\* an epoch that was revoked when another peer took control or a hold ran out
\* (InputLeaseRevocation).
OwnerNotRevoked == active.epoch \notin active.revoked

\* A peer whose usable lease still claims a press is the native owner through
\* that same epoch, unless the packet that claimed it is being injected. A
\* displaced sender therefore owns nothing it could later release or refresh.
HeldOwned ==
  \A v \in Viewer :
    /\ lease[v].epoch \notin active.revoked \cup {0}
    /\ Down(lease[v].held) # {}
    /\ ~(Injecting /\ job.v = v)
    => active.peer = v /\ active.epoch = lease[v].epoch

\* What is down natively is what the owner's lease claims, once the events of
\* the packet being injected are counted in; without a binding nothing is down.
NativeMatches ==
  /\ active.epoch = 0 => active.native = {}
  /\ active.epoch # 0 /\ lease[active.peer].epoch = active.epoch =>
       Down(lease[active.peer].held) =
         IF Injecting /\ job.v = active.peer
         THEN BatchNative(active.native, job.batch) ELSE active.native

\* Epochs are never reused: a new one is larger than all that a lease, the
\* owner or a revocation knows, and no two peers share one.
EpochsFresh ==
  /\ 0 \notin active.revoked /\ \A e \in active.revoked : e < nextEpoch
  /\ active.epoch < nextEpoch
  /\ \A v \in Viewer : lease[v].epoch < nextEpoch
  /\ \A v, w \in Viewer : v # w /\ lease[v].epoch = lease[w].epoch
                           => lease[v].epoch = 0

\* The epoch that owns the native side is the owner's.
OwnerBound ==
  active.epoch # 0 =>
    /\ active.peer # Nobody
    /\ \A v \in Viewer : lease[v].epoch = active.epoch => active.peer = v

\* While a packet is injected its lease stays the one that admitted it, and the
\* events still to come turn what is down into what the lease claims.
InjectOK ==
  Injecting =>
    LET own == IF active.peer = job.v THEN active.native ELSE {} IN
    /\ job.pkt.epoch = lease[job.v].epoch
    /\ job.pkt.epoch \notin active.revoked \cup {0}
    /\ job.ready => active.peer = job.v
    /\ active.peer = job.v => active.epoch \in {0, job.pkt.epoch}
    /\ BatchNative(own, job.batch) = Down(lease[job.v].held)
    /\ job.batch.ups \cap Modifier = {}
    /\ job.batch.ups # {} => own \cap Modifier \subseteq job.batch.mods

\* One owner through one lifetime, and the native side agrees with it: the
\* inductive invariant behind OwnerNotRevoked, HeldOwned and NativeMatches.
Ownership ==
  /\ TypeOK /\ EpochsFresh /\ OwnerNotRevoked /\ HeldOwned
  /\ OwnerBound /\ NativeMatches /\ InjectOK

\* The high-water mark of a lease covers everything injected through its epoch.
RanBelow ==
  \A r \in ran :
    /\ r[1] # 0 /\ r[1] < nextEpoch
    /\ \A v \in Viewer : lease[v].epoch = r[1] => r[2] <= lease[v].high

\* No press outlives its sender: whatever the host is busy with, and whoever
\* else sends, a press is up before one hold timeout after the creation of the
\* latest packet that asserted it, plus the longer of the watchdog period and the
\* native calls of one packet, has passed.
StopBound ==
  active.native # {} =>
    now < active.stamp + Hold + (IF Watch < MaxBusy THEN MaxBusy ELSE Watch)

\* Why: while something is down, the watchdog, the deadline of a control command
\* and the lease's own budget all fall within one hold timeout of "stamp".
HoldBudget ==
  active.native # {} =>
    /\ watchAt < active.stamp + Hold + Watch
    /\ active.due # 0 /\ active.due <= active.stamp + Hold
    /\ lease[active.peer].epoch = active.epoch
         => lease[active.peer].heldAt <= active.stamp
\* The packet being injected started before the hold of its lease ran out, and
\* if it is the one that puts presses down, the lease's budget starts with it.
InjectBudget ==
  Injecting =>
    LET own == IF active.peer = job.v THEN active.native ELSE {}
        l   == lease[job.v]
    IN
    /\ now <= job.since + MaxBusy
    /\ own # {} => job.since < active.stamp + Hold
    /\ (own = {} \/ job.batch.ups # {}) /\ Down(l.held) # {}
         => l.heldAt <= job.pkt.created
\* The inductive invariant behind StopBound, beside Ownership.
StopInv == watchAt <= now + Watch /\ HoldBudget /\ InjectBudget /\ StopBound

\* Sequence numbers of one epoch are injected at most once and in order
\* ("Loss is allowed; repeated, stale and unowned transitions are not").
AtMostOnce ==
  [][job = Idle /\ job'.kind = "inject" =>
       \A r \in ran : r[1] = job'.pkt.epoch => r[2] < job'.pkt.seq]_vars

\* The packet presses, moves or scrolls.
TakesControl(b) ==
  /\ b.kind = "event"
  /\ CASE b.ev.kind = "motion" -> TRUE
       [] b.ev.kind = "mods"   -> b.ev.mods # {}
       [] OTHER -> b.ev.down
\* Cleanup is never intent to take control: ownership passes to a peer only by
\* a packet that presses, moves or scrolls, and whatever a peer that is not the
\* owner sends otherwise leaves the native presses alone.
CleanupTakesNothing ==
  [][Injecting /\ active.peer \notin {job.v, Nobody}
       /\ active'.native # active.native =>
       TakesControl(job.pkt.body) \/ ~CanInput(sub[active.peer])]_vars

\* A key that was sent as a chord is pressed with exactly the chord's
\* modifiers down, even when modifier packets were lost or reordered.
ChordIntact ==
  [][Injecting /\ IsChord(job.pkt.body) /\ ~IsModifierKey(job.pkt.body.ev)
       /\ job.pkt.body.ev.press \in active'.native \ active.native =>
         active'.native \cap Modifier = job.pkt.body.ev.mods]_vars

\* Nothing is pressed once the packet's age limit has passed, however long the
\* release of the previous owner took.
NothingStale ==
  [][active'.native \ active.native # {} =>
       Injecting /\ now < job.pkt.created + MaxAge]_vars
=============================================================================
