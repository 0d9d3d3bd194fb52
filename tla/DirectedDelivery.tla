--------------------------- MODULE DirectedDelivery ---------------------------
(***************************************************************************)
(* "Send my screen to that device": the window of the source registers a   *)
(* sending intention (a ticket) with its own host and offers it to the     *)
(* target over a control connection; the target's host wakes its window,   *)
(* which opens an ordinary pull connection back to the source, claims the  *)
(* ticket on it and subscribes. Both sides hold the intention under a      *)
(* lease that the sender renews.                                           *)
(*                                                                         *)
(* host/src/directed_delivery.rs is the broker of both hosts: its tickets  *)
(* are used at the source, its incoming offers at the target. The source   *)
(* window is app/src/desktop/directed_send.rs, the target's worker         *)
(* app/src/directed_delivery.rs, the target window the receive binding of  *)
(* app/src/desktop/original_owner.rs. Leases are untimed: one that is not  *)
(* renewed may run out at any moment. A ticket whose share scope changed   *)
(* is one that ran out: every test of the one is also a test of the other. *)
(* A message stays in net as long as its connection, so that it may be     *)
(* handled late, often or never.                                           *)
(***************************************************************************)
EXTENDS Naturals, Sequences, FiniteSets

CONSTANTS
  MaxSend,    \* bound: sends the source window ever starts
  MaxGen,     \* bound: source windows (GUI generations)
  MaxRev,     \* the last revision of an intention (u64::MAX)
  MaxTries,   \* offers per exchange: 4
  Routes,     \* routes the target window tries, 1..Routes
  QueueCap,   \* the channel from the broker to the worker: 8
  Limit       \* tickets, and offers, the broker holds: 16

ASSUME DeliveryAssumption ==
  /\ MaxSend \in Nat /\ MaxGen \in Nat \ {0} /\ MaxRev \in Nat \ {0}
  /\ MaxTries \in Nat \ {0} /\ Routes \in Nat \ {0}
  /\ QueueCap \in Nat \ {0} /\ Limit \in Nat \ {0}

VARIABLES
  gui,       \* generation of the source window
  sender,    \* its SendHandle: the send, where it is, its revision and tries
  regs,      \* registrations the source service has not answered
  srcGen, highWater,   \* Broker.source_generation, registration_high_water
  tickets,   \* Broker.tickets of the source, by send
  pulls,     \* connections of the target window, as the source host has them
  busy,      \* the pull whose capture the source host is starting
  ctl,       \* the sender's control connection, as the target host has it
  offers,    \* Incoming, by send: the broker's map and the worker share it
  queue, worker,   \* the channel to receive_worker, and the worker
  bind,      \* DirectedReceiveBinding of the target window
  net,       \* messages sent
  begun      \* history: receive bindings ever begun for a send

vars == <<gui, sender, regs, srcGen, highWater, tickets, pulls, busy, ctl,
          offers, queue, worker, bind, net, begun>>

-----------------------------------------------------------------------------
Send == 1..MaxSend
Pull == Send \X (1..Routes)
NoPull == <<0, 0>>
NoTicket == [rev |-> 0, over |-> FALSE, claimed |-> NoPull, gen |-> 0]
NoOffer == [state |-> "none", rev |-> 0]
NoBind == [send |-> 0, route |-> 0, phase |-> "none"]
Idle == [send |-> 0, phase |-> "idle"]

Registered(i) == tickets[i].gen # 0
Active == {"pending", "accepted", "receiving"}
\* Incoming::alive; a lease that ran out has ended at once, for
\* offer() and reconcile write it before anybody reads the state.
Alive(i) == offers[i].state \in Active
\* The SendHandle has finished; the next send starts from scratch.
Rested == [sender EXCEPT !.phase = "idle", !.rev = 0, !.tries = 0]
Sending(i) == sender.send = i /\ sender.phase # "idle"

\* The source host has the connection; "asked" once its Subscribe was sent.
Open(p) == pulls[p].conn \in {"open", "asked"}

\* Broker::claim_alive for a bound connection.
ClaimAlive(p) ==
  Registered(p[1]) /\ tickets[p[1]].claimed = p /\ ~tickets[p[1]].over

\* Cancelled or Rejected: which one, and of what revision, only words a message.
Ended == [state |-> "ended", rev |-> 0]

\* Incoming::finish: a terminal state is final.
Finish(o, next) ==
  IF o.state \notin Active THEN o
  ELSE IF next \in Active THEN [o EXCEPT !.state = next] ELSE Ended

Init ==
  /\ gui = 1
  /\ sender = [send |-> 0, phase |-> "idle", rev |-> 0, tries |-> 0, seq |-> 0]
  /\ regs = {}
  /\ srcGen = 0 /\ highWater = 0
  /\ tickets = [i \in Send |-> NoTicket]
  /\ pulls = [p \in Pull |-> [conn |-> "none", bound |-> FALSE, sub |-> FALSE]]
  /\ busy = NoPull
  /\ ctl = [i \in Send |-> "none"]
  /\ offers = [i \in Send |-> NoOffer]
  /\ queue = <<>>
  /\ worker = Idle
  /\ bind = NoBind
  /\ net = {}
  /\ begun = [i \in Send |-> 0]

source == <<gui, sender, regs, srcGen, highWater, tickets>>
target == <<ctl, offers, queue, worker, begun>>
pulling == <<pulls, busy>>

-----------------------------------------------------------------------------
(* The source window: sender::run.                                         *)

\* send_screen, one delivery at a time; a control connection is made and the
\* ticket's registration is sent to the source service.
SendScreen ==
  /\ sender.phase = "idle" /\ sender.send < MaxSend
  /\ LET i == sender.send + 1 IN
     /\ sender' = [send |-> i, phase |-> "register", rev |-> 1, tries |-> 0,
                   seq |-> sender.seq + 1]
     /\ regs' = regs \cup {[send |-> i, gen |-> gui, seq |-> sender.seq + 1,
                            verified |-> FALSE]}
     /\ ctl' = [ctl EXCEPT ![i] = "open"]
  /\ UNCHANGED <<gui, srcGen, highWater, tickets, offers, queue, worker,
                 begun, pulling, bind, net>>

\* The registration could not be made, or its answer was lost: run returns
\* before it reaches Revoke.
RegisterFails ==
  /\ sender.phase = "register"
  /\ sender' = Rested
  /\ UNCHANGED <<gui, regs, srcGen, highWater, tickets, target, pulling, bind, net>>

\* One try of exchange(): the offer of this revision is sent again.
SendOffer ==
  /\ sender.phase = "offer" /\ sender.tries < MaxTries
  /\ sender' = [sender EXCEPT !.tries = @ + 1]
  /\ net' = net \cup {[type |-> "offer", send |-> sender.send, rev |-> sender.rev]}
  /\ UNCHANGED <<gui, regs, srcGen, highWater, tickets, target, pulling, bind>>

\* exchange() takes a receipt of this request and revision, or a terminal one.
TakeReceipt(m) ==
  /\ sender.phase = "offer" /\ sender.tries > 0
  /\ m \in net /\ m.type = "receipt" /\ m.send = sender.send
  /\ m.rev \in {0, sender.rev}
  /\ sender' = [sender EXCEPT !.phase = IF m.rev # 0 THEN "pause" ELSE "revoke",
                              !.tries = 0]
  /\ UNCHANGED <<gui, regs, srcGen, highWater, tickets, target, pulling, bind, net>>

\* Mutant: the revision is incremented without checked_add.
RenewIntentWraps ==
  /\ sender.phase = "pause"
  /\ LET i == sender.send
         renewed == Registered(i) /\ tickets[i].gen = gui /\ ~tickets[i].over
     IN /\ tickets' = IF renewed
                      THEN [tickets EXCEPT ![i].rev = sender.rev + 1] ELSE tickets
        /\ sender' = IF renewed
                     THEN [sender EXCEPT !.phase = "offer", !.rev = @ + 1, !.tries = 0]
                     ELSE [sender EXCEPT !.phase = "revoke"]
  /\ UNCHANGED <<gui, regs, srcGen, highWater, target, pulling, bind, net>>

\* Broker::renew under the next revision; an intention that ended, or the last
\* revision, ends the send.
RenewIntent ==
  /\ sender.phase = "pause"
  /\ LET i == sender.send
         renewed == /\ sender.rev < MaxRev
                    /\ Registered(i) /\ tickets[i].gen = gui /\ ~tickets[i].over
     IN /\ tickets' = IF renewed
                      THEN [tickets EXCEPT ![i].rev = sender.rev + 1] ELSE tickets
        /\ sender' = IF renewed
                     THEN [sender EXCEPT !.phase = "offer", !.rev = @ + 1, !.tries = 0]
                     ELSE [sender EXCEPT !.phase = "revoke"]
  /\ UNCHANGED <<gui, regs, srcGen, highWater, target, pulling, bind, net>>

\* Stop was pressed, the window stopped polling, the group changed, or the
\* exchange failed.
SendEnds ==
  /\ sender.phase \in {"offer", "pause"}
  /\ sender' = [sender EXCEPT !.phase = "revoke", !.tries = 0]
  /\ UNCHANGED <<gui, regs, srcGen, highWater, tickets, target, pulling, bind, net>>

\* Revoke first; the request to the local service may itself fail.
Revoke ==
  /\ sender.phase = "revoke"
  /\ \E ok \in BOOLEAN :
       tickets' = IF ok /\ tickets[sender.send].gen = gui
                  THEN [tickets EXCEPT ![sender.send] = NoTicket] ELSE tickets
  /\ sender' = [sender EXCEPT !.phase = "cancel"]
  /\ UNCHANGED <<gui, regs, srcGen, highWater, target, pulling, bind, net>>

\* One DeliveryCancel, without retry; then the control connection is closed.
SendCancel ==
  /\ sender.phase = "cancel"
  /\ sender' = Rested
  /\ net' = {m \in net : m.type # "receipt"}
            \cup {[type |-> "cancel", send |-> sender.send]}
  /\ UNCHANGED <<gui, regs, srcGen, highWater, tickets, target, pulling, bind>>

\* The source window dies with whatever it was sending; a new one starts.
SourceRestarts ==
  /\ gui < MaxGen
  /\ gui' = gui + 1
  /\ sender' = [Rested EXCEPT !.seq = 0]
  /\ net' = {m \in net : m.type # "receipt"}
  /\ UNCHANGED <<regs, srcGen, highWater, tickets, target, pulling, bind>>

-----------------------------------------------------------------------------
(* The source service and the tickets of its broker.                       *)

\* Under registration_lock the service asks the live window for its
\* generation; it answers the registration of another one with Rejected.
VerifyRegistration(r) ==
  /\ r \in regs /\ \A q \in regs : ~q.verified
  /\ regs' = IF r.gen = gui THEN (regs \ {r}) \cup {[r EXCEPT !.verified = TRUE]}
             ELSE regs \ {r}
  /\ UNCHANGED <<gui, sender, srcGen, highWater, tickets, target, pulling, bind, net>>

\* verified_gui_generation, then register: a new generation drops every
\* ticket of the old one.
Register(r) ==
  /\ r \in regs /\ r.verified
  /\ LET fresh == srcGen # r.gen
         kept == IF fresh THEN [i \in Send |-> NoTicket] ELSE tickets
         high == IF fresh THEN 0 ELSE highWater
         ok == /\ r.seq > high
               /\ Cardinality({i \in Send : kept[i].gen # 0}) < Limit
               /\ kept[r.send].gen = 0
         current == sender.send = r.send /\ sender.phase = "register"
     IN /\ srcGen' = r.gen
        /\ highWater' = IF ok THEN r.seq ELSE high
        /\ tickets' = IF ok THEN [kept EXCEPT ![r.send] =
                              [rev |-> 1, over |-> FALSE, claimed |-> NoPull, gen |-> r.gen]]
                      ELSE kept
        /\ sender' = IF current
                     THEN IF ok THEN [sender EXCEPT !.phase = "offer"] ELSE Rested
                     ELSE sender
  /\ regs' = regs \ {r}
  /\ UNCHANGED <<gui, target, pulling, bind, net>>

TicketLapses(i) ==
  /\ Registered(i) /\ ~tickets[i].over
  /\ tickets' = [tickets EXCEPT ![i].over = TRUE]
  /\ UNCHANGED <<gui, sender, regs, srcGen, highWater, target, pulling, bind, net>>

\* The 100 ms task of Broker::new.
ExpireTickets ==
  /\ \E i \in Send : tickets[i].over
  /\ tickets' = [i \in Send |-> IF tickets[i].over THEN NoTicket ELSE tickets[i]]
  /\ UNCHANGED <<gui, sender, regs, srcGen, highWater, target, pulling, bind, net>>

-----------------------------------------------------------------------------
(* The source host's loop: it handles nothing else while busy.             *)

\* begin_close: the connection is gone, its capture until PullTornDown not yet.
Close(p) == [pulls EXCEPT ![p].conn = "closed"]

\* Mutant: the ticket goes to whoever claims it last.
HandleClaimAnew(p) ==
  /\ busy = NoPull /\ Open(p)
  /\ LET i == p[1]
         ok == /\ pulls[p].bound \/ ~pulls[p].sub
               /\ Registered(i) /\ ~tickets[i].over
     IN /\ tickets' = IF ok THEN [tickets EXCEPT ![i].claimed = p] ELSE tickets
        /\ pulls' = IF ok THEN [pulls EXCEPT ![p].bound = TRUE] ELSE pulls
  /\ UNCHANGED <<gui, sender, regs, srcGen, highWater, target, busy, bind, net>>

\* DeliveryClaim: a connection that already streams without a binding is
\* refused; the ticket is for one connection only.
HandleClaim(p) ==
  /\ busy = NoPull /\ Open(p)
  /\ LET i == p[1]
         ok == /\ pulls[p].bound \/ ~pulls[p].sub
               /\ Registered(i) /\ ~tickets[i].over
               /\ tickets[i].claimed \in {NoPull, p}
     IN /\ tickets' = IF ok THEN [tickets EXCEPT ![i].claimed = p] ELSE tickets
        /\ pulls' = IF ok THEN [pulls EXCEPT ![p].bound = TRUE] ELSE pulls
  /\ UNCHANGED <<gui, sender, regs, srcGen, highWater, target, busy, bind, net>>

\* Subscribe, or SwitchSource on a connection that streams: the ticket is
\* tested before the await; a dead one closes the connection.
HandleSubscribe(p) ==
  /\ busy = NoPull /\ pulls[p].conn = "asked"
  /\ IF ClaimAlive(p) THEN busy' = p /\ pulls' = pulls
     ELSE busy' = busy /\ pulls' = Close(p)
  /\ UNCHANGED <<source, target, bind, net>>

\* What the awaited capture startup yields: nothing once the ticket's watch
\* fires, else a capture or an error.
Started(p) == IF Registered(p[1]) THEN BOOLEAN ELSE {FALSE}

\* Mutant: the subscription is committed on the test made before the await.
SubscribeEndsUnchecked(p) ==
  /\ busy = p /\ p # NoPull
  /\ \E on \in Started(p) : pulls' = [pulls EXCEPT ![p].sub = on]
  /\ busy' = NoPull
  /\ UNCHANGED <<source, target, bind, net>>

\* The await is over: the ticket is tested again before the subscription is
\* committed, and a dead one closes the connection with what it started.
SubscribeEnds(p) ==
  /\ busy = p /\ p # NoPull
  /\ \E on \in Started(p) :
       pulls' = [pulls EXCEPT ![p].sub = on,
                              ![p].conn = IF ClaimAlive(p) THEN @ ELSE "closed"]
  /\ busy' = NoPull
  /\ UNCHANGED <<source, target, bind, net>>

\* reconcile on the tickets, then every connection bound to a dead one closes.
HostTick ==
  /\ busy = NoPull
  /\ LET gone(i) == \/ tickets[i].over
                    \/ /\ tickets[i].claimed # NoPull
                       /\ ~Open(tickets[i].claimed)
         left == [i \in Send |-> IF gone(i) THEN NoTicket ELSE tickets[i]]
     IN /\ tickets' = left
        /\ pulls' = [p \in Pull |->
             IF Open(p) /\ pulls[p].bound /\ left[p[1]].claimed # p
             THEN [pulls[p] EXCEPT !.conn = "closed"] ELSE pulls[p]]
  /\ <<tickets, pulls>>' # <<tickets, pulls>>
  /\ UNCHANGED <<gui, sender, regs, srcGen, highWater, target, busy, bind, net>>

\* The window closed the connection, or fell silent.
PullLost(p) ==
  /\ busy = NoPull /\ Open(p)
  /\ pulls' = Close(p)
  /\ UNCHANGED <<source, target, busy, bind, net>>

\* The closing task has released the capture.
PullTornDown(p) ==
  /\ pulls[p].conn = "closed" /\ pulls[p].sub
  /\ pulls' = [pulls EXCEPT ![p].sub = FALSE]
  /\ UNCHANGED <<source, target, busy, bind, net>>

-----------------------------------------------------------------------------
(* The target host: the offers of its broker.                              *)

\* The sender tells a live state, of its revision, from a terminal one.
Receipt(i, rev, state) ==
  [type |-> "receipt", send |-> i, rev |-> IF state \in Active THEN rev ELSE 0]

\* An answer on the control connection; nobody reads it after the send.
Answer(m) == net' = IF Sending(m.send) THEN net \cup {m} ELSE net

\* Broker.incoming: an offer stays there, over or not, with its connection.
Known == {i \in Send : offers[i].state # "none" /\ (ctl[i] = "open" \/ Alive(i))}

\* Broker::offer for a request it knows.
OfferAgain(i, rev) ==
  LET n == IF rev > offers[i].rev /\ Alive(i)
           THEN [offers[i] EXCEPT !.rev = rev] ELSE offers[i]
  IN /\ offers' = [offers EXCEPT ![i] = n]
     /\ Answer(Receipt(i, n.rev, n.state))
     /\ UNCHANGED queue

\* Broker::offer for a new one: the first revision, no other live offer, room.
OfferNew(i, rev) ==
  LET ok == /\ rev = 1 /\ Cardinality(Known) < Limit
            /\ \A j \in Send : ~Alive(j)
            /\ Len(queue) < QueueCap
  IN /\ offers' = IF ok THEN [offers EXCEPT ![i] = [state |-> "pending", rev |-> rev]]
                  ELSE offers
     /\ queue' = IF ok THEN Append(queue, i) ELSE queue
     /\ Answer(Receipt(i, rev, IF ok THEN "pending" ELSE "ended"))

HandleOffer(m) ==
  /\ m \in net /\ m.type = "offer" /\ ctl[m.send] = "open"
  /\ IF m.send \in Known THEN OfferAgain(m.send, m.rev) ELSE OfferNew(m.send, m.rev)
  /\ UNCHANGED <<source, pulling, ctl, worker, bind, begun>>

\* Broker::cancel answers Cancelled whether or not it knows the request.
HandleCancel(i) ==
  /\ [type |-> "cancel", send |-> i] \in net /\ ctl[i] = "open"
  /\ offers' = [offers EXCEPT ![i] = Finish(offers[i], "ended")]
  /\ Answer(Receipt(i, 0, "ended"))
  /\ UNCHANGED <<source, pulling, ctl, queue, worker, bind, begun>>

OfferLapses(i) ==
  /\ Alive(i)
  /\ offers' = [offers EXCEPT ![i] = Ended]
  /\ UNCHANGED <<source, pulling, ctl, queue, worker, bind, begun, net>>

\* The control connection was closed, or fell silent; what was sent on it and
\* has not arrived never will.
ControlLost(i) ==
  /\ ctl[i] = "open"
  /\ ctl' = [ctl EXCEPT ![i] = "closed"]
  /\ net' = {m \in net : m.send # i \/ (m.type = "receipt" /\ Sending(i))}
  /\ UNCHANGED <<source, pulling, offers, queue, worker, bind, begun>>

\* Mutant: an offer that ended is forgotten with the next tick.
TargetTickForgets ==
  /\ offers' = [i \in Send |-> IF ctl[i] # "open" \/ ~Alive(i) THEN NoOffer
                               ELSE offers[i]]
  /\ offers' # offers
  /\ UNCHANGED <<source, pulling, ctl, queue, worker, bind, begun, net>>

\* reconcile on the offers: a tombstone stays as long as its connection.
TargetTick ==
  /\ offers' = [i \in Send |-> IF ctl[i] # "open" THEN Finish(offers[i], "ended")
                               ELSE offers[i]]
  /\ offers' # offers
  /\ UNCHANGED <<source, pulling, ctl, queue, worker, bind, begun, net>>

-----------------------------------------------------------------------------
(* The target's receive_worker: one offer at a time.                       *)

\* An offer that is no longer alive is dropped (EndOffer).
WorkerTakes ==
  /\ worker.phase = "idle" /\ queue # <<>>
  /\ LET i == Head(queue) IN
     /\ worker' = IF Alive(i) THEN [Idle EXCEPT !.send = i, !.phase = "activate"] ELSE Idle
     /\ offers' = IF Alive(i) THEN offers
                  ELSE [offers EXCEPT ![i] = Finish(offers[i], "ended")]
  /\ queue' = Tail(queue)
  /\ UNCHANGED <<source, pulling, ctl, bind, begun, net>>

\* Request::Receive: the window accepts it when nothing else is open there.
WorkerReceives ==
  /\ worker.phase = "activate" /\ Alive(worker.send) /\ bind = NoBind
  /\ bind' = [send |-> worker.send, route |-> 1, phase |-> "connect"]
  /\ begun' = [begun EXCEPT ![worker.send] = @ + 1]
  /\ worker' = [worker EXCEPT !.phase = "accept"]
  /\ UNCHANGED <<source, pulling, ctl, offers, queue, net>>

\* The window is absent, busy, of another build, or does not answer; or the
\* offer ended meanwhile. A lost answer also ends what it accepted.
WorkerFails ==
  /\ worker.phase \in {"activate", "accept"}
  /\ worker' = [worker EXCEPT !.phase = "stop"]
  /\ UNCHANGED <<source, pulling, ctl, offers, queue, bind, begun, net>>

WorkerAccepts ==
  /\ worker.phase = "accept" /\ Alive(worker.send)
  /\ offers' = [offers EXCEPT ![worker.send] = Finish(@, "accepted")]
  /\ worker' = [worker EXCEPT !.phase = "watch"]
  /\ UNCHANGED <<source, pulling, ctl, queue, bind, begun, net>>

\* One round of the loop: the first frame makes the offer Receiving; a window
\* whose lease is not this request's any more, so that its Status says so or
\* its Renew is refused, ends the work.
WorkerWatches ==
  /\ worker.phase = "watch" /\ Alive(worker.send)
  /\ LET i == worker.send
         mine == bind.send = i /\ bind.phase # "failed"
         shown == mine /\ bind.phase = "view" /\ pulls[<<i, bind.route>>].sub
     IN /\ offers' = IF shown THEN [offers EXCEPT ![i] = Finish(offers[i], "receiving")]
                     ELSE offers
        /\ worker' = IF mine THEN worker
                     ELSE [worker EXCEPT !.phase = "stop"]
  /\ <<offers, worker>>' # <<offers, worker>>
  /\ UNCHANGED <<source, pulling, ctl, queue, bind, begun, net>>

\* No first frame in 30 s, or no answer from the window.
WorkerGivesUp ==
  /\ worker.phase = "watch"
  /\ worker' = [worker EXCEPT !.phase = "stop"]
  /\ UNCHANGED <<source, pulling, ctl, offers, queue, bind, begun, net>>

\* Mutant: the loop ends when the window says so, whatever the offer's state.
WorkerEndsWithWindow ==
  /\ worker.phase = "watch" /\ ~Alive(worker.send) /\ bind.send # worker.send
  /\ worker' = [worker EXCEPT !.phase = "stop"]
  /\ UNCHANGED <<source, pulling, ctl, offers, queue, bind, begun, net>>

\* while offer.alive() ends.
WorkerEnds ==
  /\ worker.phase = "watch" /\ ~Alive(worker.send)
  /\ worker' = [worker EXCEPT !.phase = "stop"]
  /\ UNCHANGED <<source, pulling, ctl, offers, queue, bind, begun, net>>

\* Request::Stop, which may fail, and the end of the offer: Rejected after an
\* error, else Cancelled (EndOffer).
WorkerStops ==
  /\ worker.phase = "stop"
  /\ LET i == worker.send IN
     /\ \E ok \in BOOLEAN : bind' = IF ok /\ bind.send = i THEN NoBind ELSE bind
     /\ offers' = [offers EXCEPT ![i] =
                     Finish(offers[i], "ended")]
  /\ worker' = Idle
  /\ UNCHANGED <<source, pulling, ctl, queue, begun, net>>

-----------------------------------------------------------------------------
(* The target window: connect_mode for a receive binding.                  *)

ThisPull == <<bind.send, bind.route>>
NextRoute == IF bind.route < Routes
             THEN [bind EXCEPT !.route = @ + 1, !.phase = "connect"]
             ELSE [bind EXCEPT !.phase = "failed"]

\* The route connects and the claim is sent, with exchange's retries.
OpenPull ==
  /\ bind.phase = "connect" /\ pulls[ThisPull].conn = "none"
  /\ pulls' = [pulls EXCEPT ![ThisPull].conn = "open"]
  /\ bind' = [bind EXCEPT !.phase = "claim"]
  /\ UNCHANGED <<source, target, busy, net>>

\* The route does not connect, the claim is refused or never answered: the
\* connection is dropped and the next route tried.
RouteFails ==
  /\ \/ bind.phase = "connect"
     \/ bind.phase = "claim"
  /\ bind' = NextRoute
  /\ UNCHANGED <<source, target, pulling, net>>

\* The claim was accepted: the session is attached and its video started.
AttachSession ==
  /\ bind.phase = "claim" /\ pulls[ThisPull].bound
  /\ bind' = [bind EXCEPT !.phase = "view"]
  /\ pulls' = IF Open(ThisPull) THEN [pulls EXCEPT ![ThisPull].conn = "asked"] ELSE pulls
  /\ UNCHANGED <<source, target, busy, net>>

\* The session lost its connection or its video failed.
SessionFails ==
  /\ bind.phase = "view" /\ ~Open(ThisPull)
  /\ bind' = [bind EXCEPT !.phase = "failed"]
  /\ UNCHANGED <<source, target, pulling, net>>

\* cancel_receive: the lease ran out (the watchdog), the user stopped it, or
\* the window died. It drops the exact connection of this request.
BindEnds ==
  /\ bind # NoBind
  /\ bind' = NoBind
  /\ UNCHANGED <<source, target, pulling, net>>

-----------------------------------------------------------------------------
SenderStep ==
  \/ SendScreen \/ RegisterFails \/ SendOffer \/ RenewIntent \/ SendEnds
  \/ Revoke \/ SendCancel \/ SourceRestarts
  \/ \E m \in net : TakeReceipt(m)

SourceStep ==
  \/ \E r \in regs : VerifyRegistration(r) \/ Register(r)
  \/ \E i \in Send : TicketLapses(i)
  \/ ExpireTickets \/ HostTick
  \/ \E p \in Pull : \/ HandleClaim(p) \/ HandleSubscribe(p) \/ SubscribeEnds(p)
                     \/ PullLost(p) \/ PullTornDown(p)

TargetStep ==
  \/ \E m \in net : HandleOffer(m)
  \/ \E i \in Send : HandleCancel(i) \/ OfferLapses(i) \/ ControlLost(i)
  \/ TargetTick
  \/ WorkerTakes \/ WorkerReceives \/ WorkerFails \/ WorkerAccepts
  \/ WorkerWatches \/ WorkerGivesUp \/ WorkerEnds \/ WorkerStops

WindowStep == OpenPull \/ RouteFails \/ AttachSession \/ SessionFails \/ BindEnds

Next == SenderStep \/ SourceStep \/ TargetStep \/ WindowStep

Spec == Init /\ [][Next]_vars

\* What is fair: the hosts' ticks and tasks, the worker, the teardowns. A lease
\* runs out when nobody renews it, a dropped connection is noticed, and the
\* watchdog ends a binding its worker no longer looks after.
Fairness ==
  /\ WF_vars(\E r \in regs : VerifyRegistration(r) \/ Register(r))
  /\ WF_vars(SenderStep /\ sender.phase \in {"revoke", "cancel"})
  /\ WF_vars(ExpireTickets) /\ WF_vars(HostTick) /\ WF_vars(TargetTick)
  /\ \A i \in Send : /\ WF_vars(~Sending(i) /\ TicketLapses(i))
                     /\ WF_vars(~Sending(i) /\ OfferLapses(i))
                     /\ WF_vars(~Sending(i) /\ ControlLost(i))
  /\ \A p \in Pull : /\ WF_vars(SubscribeEnds(p)) /\ WF_vars(PullTornDown(p))
                     /\ WF_vars(ThisPull # p /\ PullLost(p))
  /\ WF_vars(WorkerTakes) /\ WF_vars(WorkerEnds) /\ WF_vars(WorkerStops)
  /\ WF_vars(WorkerReceives \/ WorkerFails \/ WorkerAccepts)
  /\ WF_vars(worker.send # bind.send /\ BindEnds)

FairSpec == Spec /\ Fairness

-----------------------------------------------------------------------------
Messages ==
  [type : {"offer"}, send : Send, rev : 1..MaxRev]
  \cup [type : {"cancel"}, send : Send]
  \cup [type : {"receipt"}, send : Send, rev : 0..MaxRev]

\* Every variable has the shape its Rust type gives it; the queue and the maps
\* keep their limits.
DeliveryTypeOK ==
  /\ gui \in 1..MaxGen /\ srcGen \in 0..MaxGen
  /\ sender \in [send : 0..MaxSend, rev : 0..MaxRev, tries : 0..MaxTries, seq : 0..MaxSend,
                 phase : {"idle", "register", "offer", "pause", "revoke", "cancel"}]
  /\ regs \subseteq [send : Send, gen : 1..MaxGen, seq : 1..MaxSend, verified : BOOLEAN]
  /\ highWater \in 0..MaxSend
  /\ tickets \in [Send -> [rev : 0..MaxRev, over : BOOLEAN, gen : 0..MaxGen,
                           claimed : Pull \cup {NoPull}]]
  /\ pulls \in [Pull -> [conn : {"none", "open", "asked", "closed"},
                         bound : BOOLEAN, sub : BOOLEAN]]
  /\ busy \in Pull \cup {NoPull}
  /\ ctl \in [Send -> {"none", "open", "closed"}]
  /\ offers \in [Send -> [state : Active \cup {"none", "ended"}, rev : 0..MaxRev]]
  /\ queue \in Seq(Send) /\ Len(queue) <= QueueCap
  /\ worker \in [send : 0..MaxSend, phase : {"idle", "activate", "accept", "watch", "stop"}]
  /\ bind \in [send : 0..MaxSend, route : 0..Routes,
               phase : {"none", "connect", "claim", "view", "failed"}]
  /\ net \subseteq Messages
  /\ begun \in [Send -> Nat]

\* A ticket serves one connection, ever: of the routes the target tries, late
\* and repeated claims included, at most one is bound, and while the ticket
\* lives it names the connection that the host has bound to it
\* (Broker::claim_in_scope, the DeliveryClaim handler).
OnePull ==
  /\ \A p, q \in Pull : p[1] = q[1] /\ pulls[p].bound /\ pulls[q].bound => p = q
  /\ \A p \in Pull : Registered(p[1]) =>
       (pulls[p].bound <=> tickets[p[1]].claimed = p)

\* A subscription is committed only under a ticket that is alive at that very
\* moment, though it was tested before capture startup was awaited and may
\* have been revoked or have run out since (Subscribe and SwitchSource).
CommitsAlive ==
  [][\A p \in Pull : busy = p /\ busy' = NoPull /\ Open(p)'
       => ClaimAlive(p)]_vars

\* A repeated or late offer, and a renewal, never start a receive again after
\* it ended: the window is activated at most once for a send, and an offer waits
\* in the worker's queue at most once ("a repeated Offer cannot resurrect a GUI
\* lease after Stop or rejection", Broker::reconcile).
NoResurrection ==
  /\ \A i \in Send : begun[i] <= 1
  /\ \A i \in Send : Cardinality({n \in 1..Len(queue) : queue[n] = i}) <= 1

\* Everything ends with the send, even when the source window died, the
\* revocation failed and every Cancel was lost: in the end there is no ticket,
\* no connection or capture of it at the source, and no receive at the target.
Quiet(i) == /\ ~Registered(i) /\ bind.send # i /\ ~Alive(i)
            /\ \A p \in Pull : p[1] = i => ~Open(p) /\ ~pulls[p].sub
StopEnds ==
  \A i \in Send : (sender.send >= i /\ ~Sending(i)) ~> []Quiet(i)

===============================================================================
