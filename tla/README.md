# A TLA+ model of Weavelo's host, sessions, input lane and transfers

This directory specifies and checks the parts of Weavelo (the Rust workspace in
`src/`: `protocol`, `remote_core`, `host`, `client`, `app` and their bridges) on
which the safety of remote control and of what crosses between two devices
rests: who owns the host's keyboard and mouse, when a press must end, what the
host may say about the captures it owns, when a screen sent to another device
is really stopped, and what "sent" means for a file or a clipboard. The modules
are checked with TLC on small instances; every safety property of a passing run
is also proved with TLAPS for every value of the constants, the refinement of the
session handshake included. Liveness stays with TLC.

## 1. Inventory

| Part | State it keeps | Operations | Talks to |
|---|---|---|---|
| Held state and input leases (`protocol/src/realtime_input.rs`) | per sender: press -> sequence number; per lease: epoch, high-water mark, validity and hold times, revocation flag | `event`, `release_missing`, `accept`, `expired`, `deadline` | used by both ends of the input lane |
| Host input ownership (`host/src/service.rs`, `ActiveInput`, `dispatch_realtime_input`, `inject_fresh`, `expire_input_owners`) | the one native owner, its binding, deadline and portal; a lease per subscription | packets, binding requests, watchdog, subscribe / switch / unsubscribe / activity / close | viewer over UDP, native injectors, Linux portal |
| Viewer input lane (`remote_core/src/workspace_input.rs`, driven by the actor of `workspace_session.rs`) | per subscription: revision, outstanding request, lease with clock estimate, held presses, frontend assertion, unconfirmed release | `requests`, `grant`, `seal`, `snapshots`, `refresh_bound`, `release_ack` | frontend, host |
| Connection lifecycle (`host/src/service.rs`, `host/src/lifecycle.rs`) | `peers`, `closing`, `closed`, `authenticated`, native resource counters, the session key | handshake commit, Open, StartStream, Close, StopStream, the 100 ms tick, key rotation, shutdown | viewers, capture workers, native stop callbacks |
| Session handshake (`remote_core/src/session_auth.rs`) | pending and finished handshakes, nonces, lifetimes | Hello, Challenge, Finish, refusal, expiry | connection lifecycle |
| Viewer session control (`remote_core/src/workspace_session.rs`) | pending requests with retry and expiry times, views and their wanted and acknowledged activity | commands, retries, expiry, acknowledgements | host, GUI |
| Directed delivery (`host/src/directed_delivery.rs`, `app/src/directed_delivery.rs`, `app/src/desktop/directed_send.rs`, `original_owner.rs`) | tickets with their claim, offers with their lease, the worker and its queue, the receive binding of the window | register, offer, renew, claim, cancel, revoke, reconcile, and the restarts of the source window | connection lifecycle, local service, both windows |
| Linux portal (`host/src/linux_portal/runtime.rs`) | compositor session, generations, revocation | grant, inject, release, revoke | input ownership |
| File transfer (`remote_core/src/file_transfer_runtime.rs`, `file_delivery.rs`, `file_transfer.rs`) | send tasks and their windows; open and finished files, groups, tombstones of cancellations, receive directory | send, cancel, manifest, chunk, announcement, acknowledgement, `set_receive_config` | data plane, application, clipboard |
| Clipboard (`remote_core/src/clipboard_sync.rs`, `clipboard_runtime.rs`, `data_plane.rs`) | what was last sent and applied, half-received and finished objects, the sending task | poll, send, retry, receive, write | system clipboard, data plane |
| Media reception, scheduled sender, clock synchronisation, relay / p2p / mesh (`remote_core/src`) | queues, frames, routes | see `PROJECT.json` | data plane |
| System clipboards (`remote_platform/src/*_clipboard.rs`) | the operating system's clipboard | read, write; both convert | clipboard |
| Capture, codecs, user interface, mobile and web bridges | native handles | native I/O | - |

Hard behaviours. Everything travels over UDP: messages are lost, repeated and
reordered. The host service is one task, but it *awaits*: releasing a portal,
starting and stopping a capture, and between two events of one packet; time
passes, captures end and permissions change meanwhile. Native stops may fail or
never complete, so ownership of a capture outlives its connection. Two clocks
are involved in every input packet. Three different timeouts (packet age, hold,
grant life) race with late messages. `hazards` in `PROJECT.json` lists the
places, each with the properties that would catch it going wrong.

What makes each part correct: the input lane must never leave a key down behind
a sender that is gone, never press what is stale, repeated or meant for another
source, and never let a displaced sender act; the lifecycle must never lose a
live capture, never report one as stopped that is not, and never exceed its
limit of native owners; a directed send must use one connection and end on both
sides; a transfer that is reported must have arrived, once and whole, and a
cancelled one must stay away; and a clipboard must not send back what it was sent.

## 2. Modules

| Module | Models | Used by |
|---|---|---|
| `HeldState` | the table of presses, the events it admits, `release_missing`, and what `LinuxUinputInjector` does with the events that come out | `HostInput` |
| `HostInput` | leases, native owner, dispatch and injection, watchdog, control commands | `MCHostInput`, `InputLane` |
| `InputLane` | the viewer's `InputState`, the network, and the host of `HostInput` | `MCInputLane` |
| `HostConnections` | connections, teardowns, receipts, sessions, native resources, key rotation, shutdown | `MCHostConnections` |
| `SessionControl` | the viewer's views and pending requests, the network, the host's subscriptions | its own runs |
| `SessionAgreement` | what the handshake promises: one session, agreed by both sides | `SessionAuth` |
| `SessionAuth` | client and host handshake, the network, the host's sessions and key | its own run |
| `DirectedDelivery` | both brokers, the sending window, the receive worker and binding, the network | its own run |
| `FileTransfer` | send tasks, delivery windows, the network, `InboundFileTransfers` | `MCFileTransfer` |
| `Clipboard` | two clipboard endpoints, their sending tasks, the network | `ClipboardProviders` |
| `ClipboardProviders` | what the clipboards of macOS, Linux and Windows return after a write, and what a failed one leaves | `MCClipboard` |
| `HostInputProofs` (with the lemmas about `HeldState`), `InputLaneProofs`, `HostConnectionsProofs`, `SessionControlProofs`, `SessionAuthProofs`, `DirectedDeliveryProofs`, `FileTransferProofs`, `ClipboardProofs` | lemmas and theorems | - |

Operators named in a comment "Mutant" are variants of the definition that
follows them, with a plausible bug; no specification uses them.

### HeldState

`BTreeMap<Press, u64>` is a total function in which 0 means "absent" (sequence
numbers start at 1). An event is reduced to its kind, the press it names, and
the modifier set it states. `EventOut`/`ReleaseBatch` are the events handed to
the native side, `NativeAfter` is `inject_before` on the set of presses that are
physically down. Key tables, coordinates and scroll amounts are left out; codes
that `event()` rejects have no counterpart.

### HostInput

One behaviour step is one stretch of the service task between two awaits. `job`
says what is awaited: nothing, the next event of a packet, or a control command.

- `Dispatch` is `dispatch_realtime_input` up to the first native event: the lease
  consumes the sequence number and applies the packet, ownership is decided, the
  batch of events is computed. `DispatchConsumed` is a packet that only consumes
  its number; `DispatchReleaseFails` the early return when the owner's own portal
  cannot confirm a release.
- `InjectDenied`, `TakeOver`, `TakeOverFails`, `InjectLate`, `InjectFails` and
  `Inject` are the paths through `inject_fresh`, once for every event.
- `Watchdog` is `expire_input_owners`; `RequestBinding` is `input_binding`;
  `Subscribe`, `SwitchSource` and `Unsubscribe` begin with
  `retire_input_before_control` and end in `ControlSucceeds`, `ControlFails` or
  `UnsubscribeEnds`; `ControlDeadline` is the deadline branch of `during_control`.
- The check that ends every message and tick (the owner may no longer send input)
  is `Settled`, part of every such action.

Epochs are numbers (`random_bytes_16` is taken never to repeat). A packet is
addressed by its epoch, which determines connection, subscription and revision of
its `InputBinding`. Packets come from an arbitrary sender that knows the epoch of
the current lease: any sequence number, any creation time, any body, so loss,
repetition, reordering and dishonest clocks need no network in this module.

Time is a counter of ticks with the order of the constants kept
(`MaxAge` < `Hold`, `Watch` > 0). `Tick` is not enabled past the moment at which
the runtime would have fired a due timer of a task that is free to run: the
watchdog when idle, the owner's deadline while a command is awaited. One
packet's native calls take at most `MaxBusy`. This assumption of timely timers
only matters for `StopBound` and `DeadManBound`. `active.stamp` is history: the
creation time of the latest packet that asserted what is down.

The legacy `StartStream`, `SetMediaPaused` and `StopStream` are only accepted on a
connection that never asked for a binding (`input_binding` sets
`versioned_control`). Such a connection has no lease and cannot own input, so
`HostInput` leaves them out; `HostConnections` has them.

### InputLane

The viewer side is `InputState`, one action per operation. `net` holds every
message ever sent; the host and the viewer may receive any of them at any time,
any number of times, or never. Both clocks advance together but have different
origins: the viewer only knows the host's clock through grants, and a grant may
take arbitrarily long (`HostClock`). The actor's own age and readiness check on a
queued packet only drops packets, which the network may do as well. `Actor`'s
reset of `InputState` on Close is not visible: no slot is opened after it.

Of a viewer's lease, `touch`, `pressed`, `acked`, `via` and `again` are history. `again`
marks a lease whose epoch this viewer had been granted before: it dropped the
lease, asked again and got the same epoch, and numbers its packets from 1 again
(`workspace_input.rs`, `sequence: 0` in `grant`), while the host keeps its high-water
mark. Such a viewer's packets are refused until their numbers pass the mark, and a
late `InputHandled` of an earlier release can carry the number of its own. TLC finds
this once two grants share an epoch (`Life` = 0, `MaxRequest` = 2), so
`ReleaseConfirmed` and `DeadManBound` are stated for leases that were not resumed.
`DeadManBound` counts a modifier event that names modifiers as a touch: it asserts
them again on a host that had lost them.

### HostConnections

A connection has a generation that names its `Resources`. Every timer is a
nondeterministic event (a peer falls silent, a receipt grows old, a teardown
misses its deadline). `ServiceTick` is the whole 100 ms arm in its order: key
rotation, revoked and silent peers, finished teardowns and their replies, then
the receipts and sessions that may be forgotten. A connection's capture has at
most one worker and one native stream at a time here; further subscriptions of
the same connection would add to the same counters. The service stops for good
after a confirmed shutdown, hence `CHECK_DEADLOCK FALSE`.

### SessionControl

The actor's `subscriptions` and `pending` on one side, `Connection`'s
`subscriptions` and `retired` on the other. One action per frontend command, per
expiry and per reply on the viewer, one per command on the host. `net` holds
every message ever sent and delivers any of them any number of times: a pending
request is sent again every 500 ms until it is answered or 8 s have passed, and
datagrams may overtake one another. The host's outcomes that depend on native
code (a capture that does not start, a replacement that fails before or after
the old capture was stopped, a stop that does not finish) are alternatives of
the action. `log` is history: what the viewer was told, and whether a capture
ended by itself; no action reads it. As in the desktop client, a subscription id
is used once and is never the number of a switch request, so `Id` and the
numbers are disjoint.

`SessionSettings` is a run that must fail: a late copy of the first `Subscribe`
puts the first settings back although newer ones were confirmed (`service.rs`,
the branch for a running subscription of `subscribe_with_preflight`), which
`workspace_probe.rs` says must not happen.

An `Error` names a number, not a kind of request, so `reject_request` may drop
the pending `Unsubscribe` of an expired subscription. The model has this; it is
the conservative handling that `docs/reviews/2026-10-13/REQUEST-EXPIRY-ISOLATION.md`
describes, so no property forbids it.

### SessionAuth and SessionAgreement

`SessionAgreement` is the promise: the host establishes a session at most once
and at most one per attempt of a client, and a client establishes only the
session the host has established for this attempt, from the same address and
under the same key. `SessionAuth` has the code: `ClientHandshake` per attempt
(an attempt is its nonce), `ServerHandshake::entries`, the host's `authenticated`
map and its key. A message carries the key its MAC was made with and verifies
under that key only; that nobody without the key can make one, and that nonces
and session ids do not repeat, is assumed of the cryptography. A transcript is
its attempt and its session id; the server nonce is drawn together with the id.

`net` never forgets, so the client's retry every 250 ms, duplicates, reordering
and arbitrarily late messages are all the same thing. A client's lifetime and a
pending handshake's end at any moment (`ClientExpires`, `EntryExpires`): both
clocks of `AuthTime` are local and may jump. An authenticated session may end at
any moment too (`SessionEnds`, the tick's `retain`; `HostConnections` has its
exact condition), and the key on disk may change (`Rekey`). The host may refuse
any new handshake: because of another version, or a connection in the way, whose
state lives in `HostConnections`.

### DirectedDelivery

One action per step of the source window (`sender::run`), of the broker of each
host, of the receive worker and of the target window's receive binding. A send
is registered (a ticket), offered over a control connection, accepted by the
target's worker, which activates the window; the window pulls over the first
route that works, claims the ticket on that connection and subscribes. The host
awaits the start of a capture (`busy`), and everything else may happen
meanwhile. Leases are untimed: one that nobody renews may run out at any moment,
also between the two ends of an await. The source window may die and come back
(`SourceRestarts`) with registrations of its predecessor still on the way.
Revisions stop at `MaxRev`, the overflow check in `RenewIntent`.
Names, scopes and the check of the executable are reasons of a refusal. The
100 ms ticks of the two hosts are whole actions (`HostTick`, `TargetTick`).

### FileTransfer

A task sends one file, or the files of a group one after the other; a clipboard
group is announced first. The window of `file_delivery.rs` numbers the manifest
(or the announcement) 0 and the chunks from 1; `pending` are the numbers it
waits for, `acked` and `refused` the answers that have reached its channel and
are not read yet: `drain_to` reads only while it waits. `Reply` is
`FileDeliveryTracker::route`, which drops the answers to a window that is gone.
The receiver's handlers are whole actions, `apply_pending_receive_config_if_idle`
at their end included; what can fail on its disk (opening, writing, finishing,
deleting) is a nondeterministic outcome. `disk` says in which directory a
finished file is, `log` is history. `finish` may fail before it has published the
file, or after (removing the temporary name, `file_transfer.rs:587-588`, or syncing
the directory, `746-748`): then a copy is on disk that no map records (`stray`).
`Fragile` bounds the files to which the latter may happen in a run. Bytes, names,
checksums, `allow_overwrite` (off unless a caller asks for it) and `completed_files`
reaching its 4096 entries are left out; a manifest is one chunk.

The model shows several things about the code that are no property of it:

- A file whose `finish` fails is forgotten by the receiver. If the `Rejected` is
  lost, a late copy of the manifest opens the file again, the repeated last chunk
  is accepted, and the sender reports "File delivered; receiver confirmed
  completion". `SentIsReceived` and `GroupWhole` exclude such files
  (`log.broken`) and nothing else.
- A cancellation is reported (`IncomingGroupCancelled`) whatever it could remove.
  A `stray` copy stays, because only recorded files are deleted. A file whose
  deletion fails is forgotten, so that a repeated CancelGroup finds nothing to
  delete and is reported. A CancelGroup that comes after the group was completed is
  reported too, and its files stay. `CancelLasts` is about every reported
  cancellation and says what is left: no file open, no completion that was not
  there before, and on disk only what could not be deleted (`log.kept`), what was
  complete before, and the `stray` copies, about which it says nothing.
- `clipboard_groups` (limit 32) is not cleared by a cancelled group, nor by a late
  copy of an announcement, so it may fill up.
- A send that fails tells the receiver nothing: the partial file keeps
  `has_active_incoming_work` true and a new receive directory waiting. A
  cancellation is one unconfirmed message.

### Clipboard

Two `ClipboardSyncEndpoint`s with the tasks of `run_clipboard_sync`. A content is
the checksum of its normalised bundle, an object a number of the sender; any
chunk of any object may arrive at any time, so repetition and lateness need no
further state. `acks` are the answers on their way to the current window. A write
may fail on the `Flaky` side. An endpoint may end (cancelled, or its clipboard
cannot be read) and stays away: a restart would reuse object numbers, which in
the code are random.

`Native[e][c]` is what the system of a side returns once `c` was written to it, and
`Torn[e][c]` what a write that fails may leave; the theorems hold for any such
functions, the runs take them from `ClipboardProviders`. There a bundle has a text,
an image or both, and of an image the checksum sees the format, the encoding and
whether the size is given. macOS writes and reads all items but drops the size;
Linux writes only the image of a bundle that has one and reads only PNG; Windows
writes the image alone, as pixels, and reads it as a PNG of its own encoding with
its size. File items are left out, as no provider reads one into a bundle. A user
copies only what the system can return.

The endpoint notes what it was *given* to write (`last_applied`), not what its
system makes of it, so where the two differ the next poll takes the provider's
conversion for the user's copy and sends it back:

- A text with a PNG copied on macOS is written by Linux as the image alone. Linux
  sends that image back, and the Mac that was copied on loses the text.
- Between macOS and Windows an image goes across, comes back encoded anew, and
  loses its size on the Mac, whose own poll sends it once more: three transfers for
  one copy. There it ends, as what a system has returned comes back as it was
  written (`ReturnsSettle`).

`docs/TRANSPORT.md:145` says that the endpoint "suppresses echo loops", and `:151`
names "normalizing image formats where needed" as remaining work. So the suppression
is stated as far as it goes: `hist.altered` counts the writes that did not leave
their content, and `TransfersOwed` says that every transfer is owed to a user's copy,
to a failed transfer or to one such write. For contents that come back as written
(all texts) this is freedom from echoes. Without that term TLC refutes it with one
copy and two transfers.
`OneWayAgrees` is likewise about a receiver whose system has returned everything as
it was written (`Passive`).

`ClipboardRecopy` is a run that must fail: `poll_outgoing` compares a content with
the last one sent *and* the last one applied, and neither is reset when the other
changes, so a user's new copy of what was sent before is taken for an echo.
Other behaviours it shows, which no document of the repository excludes: two
simultaneous copies swap the clipboards; abandoned partial objects keep the two
inbound places of a receiver; after a failed write whose `Rejected` is lost, the
repeated last chunk starts a new assembly and is accepted, so the sender believes
the object delivered (hence the condition on `hist.lost` in `SentIsFinished`). A
receiver remembers its last 64 finished objects (`MaxCompleted`); after 64 later
ones, late chunks could assemble an old object once more. `Remembered` states this
in `SentIsFinished` and `OneWayAgrees`, which TLC refutes without it for
`MaxCompleted` = 1; it is true throughout the run, whose sides send at most three
objects.

## 3. Runs

| Run | Instance | Checks |
|---|---|---|
| `HostInputOwners` | two peers at a portal, one key, 2 epochs, 3 ticks; releases fail, permissions and captures change by themselves | `Ownership` (the inductive invariant), `CleanupTakesNothing`, `NothingStale` |
| `HostInputChord` | one peer, key + Control + motion, table of 2, 4 sequence numbers, 2 epochs | `TypeOK`, `NativeMatches`, `StopBound`, `AtMostOnce`, `ChordIntact` |
| `LaneHold` | viewer + network + host, one grant, 3 packets, 4 ticks | `DeadManBound`, `NeverAhead`, `ReleaseConfirmed`, `HostHoldsWhatWasSent` |
| `LaneSwitch` | one switch, pauses, unsubscribe, close, 2 grants | `GrantIsCurrent`, `RightSource` |
| `HostConnections` | two addresses against a limit of one owner, keys 0..2 (0: no key), 2 connections, weak fairness | `ClosedIsTrue`, `OnlyCurrentKey`, `Accounted`, `OwnerLimit`, `StopIsTrue`, `OneOwner`, `CloseAnswered` |
| `SessionControl` | one subscription, 2 sources, up to 3 requests of 2 activity, 2 switch and 1 settings revisions | `ConfirmedStop`, `GateShowsLatest`, `DemandSettled`, `PlaysWhatIsSent` |
| `SessionAuth` | two attempts, two addresses, two keys, 3 challenges, room for one session | `Agrees` (refinement) |
| `DirectedDelivery` | one send, two source windows, 2 revisions, 2 routes, weak fairness | `DeliveryTypeOK`, `OnePull`, `NoResurrection`, `CommitsAlive`, `StopEnds` |
| `FileTransfer` | a clipboard group of a 2-chunk and an empty file, a single file, window, receiver and groups of 1, one other directory, one file whose `finish` may fail late, weak fairness | `SentIsReceived`, `ReceivedOnce`, `CancelLasts`, `GroupWhole`, `GroupInOneDir`, `SendSettles` |
| `Clipboard` | Linux and macOS; a text, a PNG and both; objects of 2 chunks, 3 copies, 3 objects from Linux and 1 from macOS, one timeout, failing and torn writes on Linux | `TransfersOwed`, `SentIsFinished`, `OneWayAgrees` |
| `SessionSettings` | one subscription, 1 settings revision | `SettingsInEffect`: violated |
| `ClipboardRecopy` | the same two systems, two texts, failing writes on macOS, two timeouts | `ChangesTravel`: violated |

All but the last two pass; those two are the disagreements described under
SessionControl and Clipboard. Every property that passes is also shown to fail
under a mutation of a definition it depends on (`mutants` in `PROJECT.json`).
The type invariants of the other modules (`LaneTypeOK`, `TypeOK` of
`HostConnections`, `FileTypeOK`, `ClipboardTypeOK`) document the shape of the
state and hold in the same instances. The inductive invariants `StopInv`, `LaneInv`,
`ReceiptsHold`, `SwitchesOrdered`, `DemandsOrdered`, `HandshakeSound`, `DeliveryInv`,
`ClipboardInv` and the parts of `Inv` of `FileTransferProofs` were checked with TLC
on these instances before they were proved.

Why the bounds are enough. Ownership involves a displaced and a displacing peer:
two. `MaxAge` = 1, `Hold` = 2, `Watch` = `MaxBusy` = 1 keep the order of the real
constants (250 ms, 300 ms, 50 ms) and let a packet be fresh, stale and from the
future and a hold be young, due and overdue within 3 or 4 ticks, the bound of
`StopBound` and `DeadManBound` included. A key and a modifier
fill the table of 2 presses, but no third press is attempted, so TLC does not meet
the silent refusal of a full table: only the theorem about `NativeMatches`, which
holds for any presses and any limit, covers it. Two epochs allow
a revoked one and its successor. `LaneHold` has a single grant; renewals are left to
`LaneSwitch` and the theorems. Two generations of connections allow a reopened
address with an unfinished predecessor, and a second address that meets the
limit of one owner (151 752 states). In `SessionControl` subscriptions only share
the viewer's limit and the numbers of requests, so one is enough; two revisions
of a kind allow one request to overtake the other, and `MaxAsks` = 3 bounds the
kinds together, so that any two kinds of request, with a repetition of one of
them, are on the way at once (501 213 states). In `SessionAuth` two attempts
compete for one address or share the key from two; the third challenge lets one
of them be challenged again after its first handshake has expired. An attempt has
one source address, so the refusal of a nonce that is in use from another one does
not occur.

`DirectedDelivery`: sends share only the limits of the maps, and one may outlive
its window, so one send and two windows are enough; the second revision is a
renewal and the last one a revision can have, and two routes allow a claim on
both (361 420 states). `FileTransfer`: a window of 1 makes the task wait in the
middle of a file, a receiver of one file and one group refuses the other task,
the empty file is finished by its manifest, and the other directory is asked for
while a group is half there; the first file of the group is the one that may be
published by a failing `finish`, as the group can then still be cancelled
(200 456 states). Larger windows are left to the theorems. `Clipboard`: two chunks
let an object be half there, three objects let an old one arrive after a newer one,
three contents let an earlier one come back, and the bundle of both is the one that
Linux alters; `MaxTorn` = 1 lets a torn write happen before or without such a
conversion (714 684 states). Chunks are symmetric there, as the peers are in
`HostInputOwners`; no liveness is checked in either.

Deadlock is checked except where the system may stop: a host after its shutdown
(`HostConnections`), and transfers and sends that are all done or given up
(`DirectedDelivery`, `FileTransfer`, `Clipboard`).

Fairness is used in three runs. In each, liveness is asked of what the code's own
timers and loops do, never of the network, of native code or of a user.

- `HostConnections`: the tick interval fires again (`tokio::time::interval`), a
  shutdown whose teardowns are all finished returns, and a teardown task ends: it
  is wrapped in `timeout(CLEANUP_WAIT, ..)`. Workers and native stops get none.
- `DirectedDelivery`: the ticks of both hosts, the worker, the teardown of a
  closed connection and the end of a capture's start (it has a timeout) happen;
  a lease that nobody renews any more, and a connection nobody answers, run out.
  Messages get none: every Cancel may be lost.
- `FileTransfer`: a send task that can go on does, and what a window waits for,
  which is resent every 500 ms, is handled in the end. The 30 s deadline is not
  relied upon: `SendSettles` says that nobody waits for it alone.

## 4. Proofs

`HostInputProofs` begins with lemmas about the table of `HeldState`: every operation
yields a table again, an accepted event changes the native presses exactly as it
changes the table (`EventNative`), the events of `release_missing` do too, in
whatever order they are injected (`ReleaseNative`, `BatchStep`). It then proves, for
all finite sets of keys and buttons, any addresses, subscriptions and targets and
any bounds:

- `TypeCorrect`: `Spec => []TypeOK`.
- `OwnershipCorrect`: `Spec => []Ownership`, the inductive invariant. The three
  properties one cares about are not inductive on their own: that a revoked
  lifetime never owns input needs that epochs are fresh (`EpochsFresh`) and that
  the owner's epoch is the owner's (`OwnerBound`); that native presses match the
  lease needs to know what the rest of a half-injected batch will do
  (`InjectOK`). `QuietStep` covers every action that at most releases the owner
  and removes leases; `BindingStep`, `DispatchStep`, `TakeOverStep` and
  `InjectStep` the four that do more.
- `OwnerNeverRevoked`, `HeldAlwaysOwned`, `NativeAlwaysMatches`: its consequences.
- `NeverStale`: `Spec => NothingStale`; only `Inject` makes a press go down, and it
  is guarded by the packet's deadline.
- `OnceInOrder`: `Spec => AtMostOnce`, from the invariant `RanBelow`.
- `StopsInTime`: `Spec => []StopBound`. Three timers can end a press, and none of them
  alone meets the bound: the watchdog looks only between messages, the owner's
  deadline only runs while a command is awaited, and a packet that is being
  injected holds both up. `StopInv` says that each falls within one hold timeout of
  the latest assertion (`HoldBudget`), and that a packet whose events are still
  coming was started before that and has its own budget (`InjectBudget`).
- `CleanupIsNoIntent`: `Spec => CleanupTakesNothing`; `ChordsWhole`:
  `Spec => ChordIntact`, from `Ownership` and what an accepted chord leaves in the
  table.

`InputLaneProofs` proves, for any viewers, presses, clocks, grant lives and bounds,
over a network that loses, repeats and reorders:

- `LaneInvariant`: `LaneSpec => []LaneInv`. The host's `Ownership`, `RanBelow` and
  `StopInv` carry over, since every step of the lane is a step of the host or leaves
  it alone. What the viewer believes rests on messages, so the rest says what each
  one proves: an estimate of the host's clock never exceeds it and an intent is no
  younger than the touch that made it (`Clocks`); a grant names the peer and source
  of its epoch and every packet was sealed under one (`GrantsMatch`,
  `SentUnderGrant`); the packet in injection and what is down come from packets the
  owner sent (`JobSent`, `StampSent`); packets are numbered in the order of their
  sending and none sent after a release presses (`PacketsInOrder`); a confirmation
  is of a release the host has done (`AcksTrue`).
- `LaneTypes`, `ClockNeverAhead` (`NeverAhead`), `GrantsCurrent` (`GrantIsCurrent`),
  `HeldWasSent` (`HostHoldsWhatWasSent`), `ConfirmedReleases` (`ReleaseConfirmed`),
  `DeadFrontendLetsGo` (`DeadManBound`) and `PressesRightSource` (`RightSource`): its
  consequences. `DeadManBound` is `StopBound` of the host with the creation time of a
  packet replaced by the user's last touch, which `Clocks` and `PacketsInOrder`
  justify.

`SessionControlProofs` proves, for any number of subscriptions, sources and
revisions:

- `ReceiptsCorrect`: `Spec => []ReceiptsHold`. `ConfirmedStop` alone is not
  inductive: the confirmation the viewer acts on was sent earlier, so the
  invariant says that every `Unsubscribed` ever sent belongs to a good receipt,
  and that a subscription with one is not listed.
- `StopIsFinal`: `Spec => []ConfirmedStop`.
- `OrderCorrect`: `Spec => []SwitchesOrdered`. That the gate shows the latest source
  is decided by numbers in messages that may be old; the invariant says that no
  acknowledgement and no host state is ahead of the viewer's requests, and that
  an answer to the newest switch is only sent by a host that has made it.
- `GateIsLatest`: `Spec => []GateShowsLatest`.
- `DemandCorrect`: `Spec => []DemandsOrdered`, the same for activity and settings: no
  message and no host state is ahead of the frontend, a host as far as the
  frontend has what it asked for, and what is no longer waited for has reached it.
- `DemandIsSettled`: `Spec => []DemandSettled`; `PlaysOnlySent`:
  `Spec => []PlaysWhatIsSent`.

`SessionAuthProofs` proves, for any attempts, addresses, keys and limits:

- `HandshakeCorrect`: `Spec => []HandshakeSound`. What a client believes rests on
  messages sent long before, so the invariant says what each one in flight
  proves: an id belongs to one challenge, a client's Finish to the only challenge
  it ever took, the host's Finish to an established session (`MessagesTrue`); and
  that a pending handshake is completed exactly if its session is established
  (`EntriesTrue`).
- `AgreementCorrect`: `Spec => Agrees`, the refinement of `SessionAgreement` with
  the host's established sessions and the sessions of the clients that are done.

`FileTransferProofs` proves, for any tasks, files, chunk counts, windows and
limits, and any failures of the receiving disk:

- `InvAlways`: `Spec => []Inv`. None of the properties below is inductive. An
  acknowledgement is read long after it was given, so `WindowOK` says what every
  answered number stands for: the receiver has the chunk, or the file is finished
  or broken. `FileOK` says that no open file lacks nothing, which turns "all
  chunks answered" into "finished"; `GroupOK` that what a group has recorded is on
  disk in the directory in use, and that what `disk` holds unrecorded (`stray` copies
  are not in it) belongs to a group to which nothing can be added (`Over`); `CancelOK` that a tombstone exists
  only after the task has ended as cancelled; `AnnounceOK` that a clipboard
  group's announcement is known before the first of its manifests is sent.
  `ReceiverStep` and `SenderStep` reduce an action to what it changes.
- `SentIsReceivedAlways`, `ReceivedOnceAlways`, `CancelLastsAlways`,
  `GroupWholeAlways`, `GroupInOneDirAlways`: its consequences, the safety
  properties of the run. `CancelLasts` is an invariant and an action property (a
  group whose cancellation was reported does not become complete), both from `Inv`.

`HostConnectionsProofs` proves, for any finite set of addresses, any connection
ids, limits and number of connections and keys:

- `ConnectionsHold`: `Spec => []ConnInv`, of which `ConnectionsTyped` (`[]TypeOK`) is a
  part. That no native owner is lost (`Accounted`) or confirmed while it lives
  (`ClosedIsTrue`) rests on the generations: they are given out in order
  (`Numbered`), what an open connection owns is named by no teardown, receipt or
  reply (`PeersCurrent`), so a worker that starts under it contradicts nothing
  said earlier; a teardown that ended well, and its receipt, name resources that
  are gone (`Truthful`), and only a connection that is open starts workers. While
  a shutdown waits or has succeeded nothing is open (`ShutOut`). `MapStep` covers
  every action that moves entries between the three maps, `OpenStep` the ones
  that make a generation, `ResourcesStep` the workers and native stops.
- `NoOwnerLost`, `OneOwnerEach`, `ConfirmedIsGone`, `StoppedIsGone`, `KeyIsCurrent`: its
  consequences.
- `LimitHolds`: `Spec => []OwnerLimit`. By `OneOwner` the three maps are disjoint in
  what they count, so their sizes add up to the number of owners (`CountOwners`);
  every step either adds no owner or adds one after counting (`Bounded`).

`DirectedDeliveryProofs` proves, for any number of sends, windows, revisions, routes
and retries:

- `DeliveryInvariant`: `Spec => []DeliveryInv`, of which `DeliveryTypes` is a part. That a
  ticket is never bound twice needs that a registration, which may be on its way
  for long, is answered once and finds nothing bound to its send
  (`RegistrationsOK`); that no receive starts twice, that an offer enters the queue
  only when the broker first hears of it, at most once, and has not been begun
  while it waits there (`OffersOK`).
- `TicketServesOne` (`OnePull`), `ReceivesOnce` (`NoResurrection`).
- `CommitsUnderTicket`: `Spec => CommitsAlive`, an action property: the ticket is
  looked up again when the awaited start of the capture returns.

`ClipboardProofs` proves, for any contents and chunks, any limits, and any
conversions and torn writes of the two systems (`Native`, `Torn`):

- `ClipboardInvariant`: `Spec => []ClipboardInv`, of which `ClipboardTypes` is a part. A
  side that shows something it neither sent nor applied, be it a copy or its
  system's conversion of what was written, or whose transfer failed, will send once
  more without a new copy; `DebtsPaid` counts that transfer before it is made, which
  makes `TransfersOwed` inductive. `WindowTrue` says what an answer
  stands for: the receiver has the chunk or has finished the object; a receiver
  never keeps a complete assembly, so a fully answered window means finished.
  `OneWay` says that a side that has had nothing of its own, neither a copy nor an
  altered write, finishes the objects in order and shows the last one, also after
  either side has ended.
- `NoEchoes` (`TransfersOwed`), `SentWasFinished` (`SentIsFinished`), `OneWayShows`
  (`OneWayAgrees`): its consequences.

The proofs use the assumptions `PressAssumption`, `MaxHeldAssumption`,
`HostInputAssumption`, `LaneAssumption`, `SessionAssumption`, `AuthAssumption`,
`DeliveryAssumption`, `TransferAssumption`, `ConnectionsAssumption` and
`ClipboardAssumption`, which TLC evaluates in the runs. They say that the bounds are
numbers, in the order of the real constants where that matters, and that names
that differ in the code differ here.

Only model-checked: the liveness properties `CloseAnswered`, `StopEnds` and
`SendSettles` (liveness under fairness is outside what TLAPS can prove here), and the
two properties that the code violates.

## 5. Not modelled

The workspace has some 113 000 lines, and the modules stand for a few percent of
them: the protocols and state machines on which others depend. The rest is mostly
the user interface (`app/src/ui.rs`, `restored_ui.rs`), native media APIs and codecs,
rendering, foreign-function bridges, key tables and process management, which are I/O and presentation without a protocol of their
own. Cryptography is assumed to work; a session is the key it was made with. The
Windows and macOS injectors keep the same bookkeeping as the Linux one and are not
modelled apart. The diagnostics registry of `lifecycle.rs` is observation only.

Of the modelled parts, left out are: the shared-folder exchange and manifests of
several chunks (file transfer), the file clipboard, the reading of native formats,
restarts of one endpoint and the content policy (clipboard), source lists, audio groups and clock probes
(session control), and the media services of a connection. `PROJECT.json` gives
the reason for every part.

## 6. Plan

1. Done: `HeldState`, `HostInput`, `InputLane`, `HostConnections`,
   `SessionControl`, `SessionAuth`, `DirectedDelivery`, `FileTransfer`, `Clipboard`;
   the theorems about every safety property of their passing runs.
2. Theorems that go beyond the runs: an abstract specification of input ownership
   (one owner at a time, through lifetimes that never return) that `HostInput`
   refines, and one of a confirmed transfer for `FileTransfer`.
3. `AudioRouting`: the audio groups of `workspace_session.rs`, whose activations
   go through a bounded channel beside the packets they announce.
4. Media reception (jitter buffer, reassembly, keyframe recovery), scheduled
   sender, relay registrations and route selection, Linux portal runtime.
