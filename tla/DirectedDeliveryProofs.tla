------------------------ MODULE DirectedDeliveryProofs ------------------------
(***************************************************************************)
(* A ticket serves one connection ever, a capture is committed only under  *)
(* a ticket that lives, and a receive that ended is never started again:   *)
(* for any number of sends, windows, revisions and routes, whatever is     *)
(* lost, repeated or late.                                                 *)
(***************************************************************************)
EXTENDS DirectedDelivery, FiniteSetTheorems, TLAPS

\* What the phases of the window's task, the worker and the receive binding say
\* of their other fields.
PhasesOK ==
  /\ sender.phase # "idle" => sender.send \in Send /\ sender.rev \in 1..MaxRev
  /\ sender.seq <= sender.send
  /\ worker.phase # "idle" => worker.send \in Send
  /\ bind.phase # "none" => bind.send \in Send /\ bind.route \in 1..Routes

\* A registration is made once for a send and is answered once: while it waits
\* its ticket does not exist and no connection was bound to it; and nothing
\* exists of sends that were not started (Broker::register).
RegistrationsOK ==
  /\ \A r, q \in regs : r.send = q.send => r = q
  /\ \A r \in regs : r.send <= sender.send /\ ~Registered(r.send)
  /\ \A i \in Send : Registered(i) => i <= sender.send
  /\ \A p \in Pull : pulls[p].bound =>
       p[1] <= sender.send /\ \A r \in regs : r.send # p[1]

\* An offer goes to the worker once: it is queued when the broker first hears of
\* it, and the window is activated when the worker has taken it from the queue.
OffersOK ==
  /\ \A m, n \in 1..Len(queue) : queue[m] = queue[n] => m = n
  /\ \A n \in 1..Len(queue) :
       /\ begun[queue[n]] = 0 /\ offers[queue[n]].state # "none"
       /\ worker.phase # "idle" => worker.send # queue[n]
  /\ worker.phase # "idle" => offers[worker.send].state # "none"
  /\ worker.phase = "activate" => begun[worker.send] = 0
  /\ \A i \in Send : offers[i].state = "none" => begun[i] = 0
  /\ \A i \in Send : begun[i] <= 1

DeliveryInv == DeliveryTypeOK /\ PhasesOK /\ RegistrationsOK /\ OnePull /\ OffersOK

-----------------------------------------------------------------------------
(* Types.                                                                  *)

Senders == [send : 0..MaxSend, rev : 0..MaxRev, tries : 0..MaxTries, seq : 0..MaxSend,
            phase : {"idle", "register", "offer", "pause", "revoke", "cancel"}]
Registrations == [send : Send, gen : 1..MaxGen, seq : 1..MaxSend, verified : BOOLEAN]
Tickets == [rev : 0..MaxRev, over : BOOLEAN, gen : 0..MaxGen, claimed : Pull \cup {NoPull}]
Connections == [conn : {"none", "open", "asked", "closed"}, bound : BOOLEAN, sub : BOOLEAN]
Offers == [state : Active \cup {"none", "ended"}, rev : 0..MaxRev]
Workers == [send : 0..MaxSend, phase : {"idle", "activate", "accept", "watch", "stop"}]
Bindings == [send : 0..MaxSend, route : 0..Routes,
             phase : {"none", "connect", "claim", "view", "failed"}]

\* The send that is over.
LEMMA RestedType ==
  ASSUME sender \in Senders
  PROVE  /\ Rested \in Senders /\ Rested.send = sender.send /\ Rested.seq = sender.seq
         /\ Rested.phase = "idle"
<1>1. 0 \in 0..MaxTries /\ 0 \in 0..MaxRev BY DeliveryAssumption
<1>2. Rested \in Senders BY <1>1 DEF Rested, Senders
<1> QED BY <1>2 DEF Rested, Senders

\* No ticket.
LEMMA NoTicketType == NoTicket \in Tickets /\ NoTicket.gen = 0 /\ NoTicket.claimed = NoPull
<1>1. 0 \in 0..MaxRev /\ 0 \in 0..MaxGen /\ FALSE \in BOOLEAN BY DeliveryAssumption
<1> QED BY <1>1 DEF NoTicket, Tickets

\* Changes of the fields of a ticket.
LEMMA TicketTypes ==
  ASSUME NEW k \in Tickets
  PROVE  /\ \A n \in 0..MaxRev : [k EXCEPT !.rev = n] \in Tickets
         /\ [k EXCEPT !.over = TRUE] \in Tickets
         /\ \A p \in Pull : [k EXCEPT !.claimed = p] \in Tickets
  BY DEF Tickets

\* Changes of the fields of a connection.
LEMMA ConnectionTypes ==
  ASSUME NEW k \in Connections
  PROVE  /\ \A c \in {"none", "open", "asked", "closed"} : [k EXCEPT !.conn = c] \in Connections
         /\ [k EXCEPT !.bound = TRUE] \in Connections
         /\ \A on \in BOOLEAN : [k EXCEPT !.sub = on] \in Connections
         /\ \A on \in BOOLEAN, c \in {"none", "open", "asked", "closed"} :
              [k EXCEPT !.sub = on, !.conn = c] \in Connections
  BY DEF Connections

\* Changes of the fields of an offer.
LEMMA OfferTypes ==
  ASSUME NEW o \in Offers, NEW s \in Active \cup {"ended"}
  PROVE  Ended \in Offers /\ Finish(o, s) \in Offers
<1>1. Ended \in Offers BY DeliveryAssumption DEF Ended, Offers
<1> QED BY <1>1 DEF Offers, Finish

\* The types as the lemmas use them.
Typed ==
  /\ gui \in 1..MaxGen /\ srcGen \in 0..MaxGen /\ sender \in Senders
  /\ regs \subseteq Registrations /\ highWater \in 0..MaxSend
  /\ tickets \in [Send -> Tickets] /\ pulls \in [Pull -> Connections]
  /\ busy \in Pull \cup {NoPull} /\ ctl \in [Send -> {"none", "open", "closed"}]
  /\ offers \in [Send -> Offers]
  /\ queue \in Seq(Send) /\ Len(queue) <= QueueCap
  /\ worker \in Workers /\ bind \in Bindings
  /\ net \subseteq Messages /\ begun \in [Send -> Nat]

\* They are those of the module, now and after a step.
LEMMA TypesAgree == (DeliveryTypeOK <=> Typed) /\ (DeliveryTypeOK' <=> Typed')
  BY Zenon DEF DeliveryTypeOK, Typed, Senders, Registrations, Tickets, Connections,
               Offers, Workers, Bindings

\* What a binding, a worker and a send in progress refer to.
LEMMA Refers ==
  ASSUME Typed, PhasesOK
  PROVE  /\ sender.send \in Nat /\ sender.seq \in Nat /\ sender.rev \in Nat
         /\ bind.phase # "none" => ThisPull \in Pull /\ bind.send \in Send
         /\ MaxSend \in Nat /\ MaxRev \in Nat \ {0} /\ MaxTries \in Nat \ {0}
         /\ MaxGen \in Nat \ {0} /\ Routes \in Nat \ {0} /\ QueueCap \in Nat \ {0}
  BY DeliveryAssumption DEF Typed, PhasesOK, Senders, Bindings, ThisPull, Pull

\* Steps of the source window.
LEMMA SenderTyped ==
  ASSUME Typed, PhasesOK, SenderStep
  PROVE  Typed' /\ PhasesOK'
<1>r. /\ sender.send \in Nat /\ sender.seq \in Nat /\ sender.rev \in Nat
      /\ bind.phase # "none" => ThisPull \in Pull /\ bind.send \in Send
      /\ MaxSend \in Nat /\ MaxRev \in Nat \ {0} /\ MaxTries \in Nat \ {0}
      /\ MaxGen \in Nat \ {0} /\ Routes \in Nat \ {0} /\ QueueCap \in Nat \ {0}
  BY Refers
<1> USE <1>r
<1>1. CASE SendScreen
  <2> DEFINE i == sender.send + 1
             r == [send |-> i, gen |-> gui, seq |-> sender.seq + 1, verified |-> FALSE]
  <2>1. i \in Send /\ sender.seq + 1 \in 1..MaxSend /\ sender.seq + 1 <= i
    BY <1>1 DEF SendScreen, Send, PhasesOK
  <2>2. sender' = [send |-> i, phase |-> "register", rev |-> 1, tries |-> 0,
                   seq |-> sender.seq + 1]
    BY <1>1 DEF SendScreen
  <2>3. sender' \in Senders BY <2>1, <2>2 DEF Senders, Send
  <2>4. r \in Registrations
    <3>1. FALSE \in BOOLEAN OBVIOUS
    <3> QED BY <2>1, <3>1 DEF Registrations, Typed
  <2>5. regs' = regs \cup {r} /\ ctl' = [ctl EXCEPT ![i] = "open"]
    BY <1>1 DEF SendScreen
  <2>6. PhasesOK'
    BY <1>1, <2>1, <2>2 DEF SendScreen, PhasesOK, pulling
  <2>7. UNCHANGED <<gui, srcGen, highWater, tickets, offers, queue, worker, begun, pulls, busy, bind, net>>
    BY <1>1 DEF SendScreen, pulling
  <2> HIDE DEF i, r
  <2> QED BY <2>3, <2>4, <2>5, <2>6, <2>7 DEF Typed
<1>2. CASE RegisterFails \/ SendCancel \/ SourceRestarts
  <2>1. /\ sender' \in Senders /\ sender'.send = sender.send /\ sender'.phase = "idle"
        /\ sender'.seq <= sender'.send
    <3>1. CASE sender' = Rested BY <3>1, RestedType DEF Typed, PhasesOK
    <3>2. CASE sender' = [Rested EXCEPT !.seq = 0]
      <4>1. Rested \in Senders BY RestedType DEF Typed
      <4>2. 0 \in 0..MaxSend OBVIOUS
      <4>3. sender' \in Senders BY <3>2, <4>1, <4>2 DEF Senders
      <4>4. /\ sender'.send = sender.send /\ sender'.phase = "idle" /\ sender'.seq = 0
        BY <3>2, <4>1, RestedType DEF Typed, Senders
      <4> QED BY <4>3, <4>4
    <3> QED BY <1>2, <3>1, <3>2 DEF RegisterFails, SendCancel, SourceRestarts
  <2>2. net' \subseteq Messages
    <3>1. CASE SendCancel
      <4>1. [type |-> "cancel", send |-> sender.send] \in Messages
        BY <3>1 DEF SendCancel, PhasesOK, Messages
      <4> QED BY <3>1, <4>1 DEF SendCancel, Typed
    <3> QED BY <1>2, <3>1 DEF RegisterFails, SourceRestarts, Typed
  <2>3. gui' \in 1..MaxGen
    <3>1. gui \in 1..MaxGen BY DEF Typed
    <3> QED BY <1>2, <3>1 DEF RegisterFails, SendCancel, SourceRestarts
  <2>4. UNCHANGED <<regs, srcGen, highWater, tickets, ctl, offers, queue, worker, begun, pulls, busy, bind>>
    BY <1>2 DEF RegisterFails, SendCancel, SourceRestarts, target, pulling
  <2> QED BY <2>1, <2>2, <2>3, <2>4 DEF Typed, PhasesOK
<1>3. CASE SendOffer
  <2>1. sender.tries + 1 \in 0..MaxTries /\ sender \in Senders
    <3>1. sender \in Senders BY DEF Typed
    <3>2. sender.tries \in 0..MaxTries BY <3>1 DEF Senders
    <3>3. sender.tries < MaxTries BY <1>3 DEF SendOffer
    <3> QED BY <3>1, <3>2, <3>3
  <2>2. /\ sender' \in Senders /\ sender'.send = sender.send /\ sender'.phase = sender.phase
        /\ sender'.seq = sender.seq /\ sender'.rev = sender.rev
    <3>1. sender' = [sender EXCEPT !.tries = sender.tries + 1] BY <1>3 DEF SendOffer
    <3> QED BY <2>1, <3>1 DEF Senders
  <2>3. [type |-> "offer", send |-> sender.send, rev |-> sender.rev] \in Messages
    BY <1>3 DEF SendOffer, PhasesOK, Messages
  <2>4. net' \subseteq Messages BY <1>3, <2>3 DEF SendOffer, Typed
  <2>5. UNCHANGED <<gui, regs, srcGen, highWater, tickets, ctl, offers, queue, worker, begun, pulls, busy, bind>>
    BY <1>3 DEF SendOffer, target, pulling
  <2> QED BY <2>2, <2>4, <2>5 DEF Typed, PhasesOK
<1>4. CASE SendEnds \/ \E m \in net : TakeReceipt(m)
  <2>1. PICK ph \in {"pause", "revoke"} :
          sender.phase # "idle" /\ sender' = [sender EXCEPT !.phase = ph, !.tries = 0]
    BY <1>4 DEF SendEnds, TakeReceipt
  <2>2. /\ sender' \in Senders /\ sender'.send = sender.send /\ sender'.phase = ph
        /\ sender'.seq = sender.seq /\ sender'.rev = sender.rev
    <3>1. sender \in Senders /\ 0 \in 0..MaxTries BY DEF Typed
    <3> QED BY <2>1, <3>1 DEF Senders
  <2>3. UNCHANGED <<gui, regs, srcGen, highWater, tickets, ctl, offers, queue, worker, begun, pulls, busy, bind, net>>
    BY <1>4 DEF SendEnds, TakeReceipt, target, pulling
  <2> QED BY <2>1, <2>2, <2>3 DEF Typed, PhasesOK
<1>5. CASE RenewIntent
  <2> DEFINE i == sender.send
             renewed == /\ sender.rev < MaxRev
                        /\ Registered(i) /\ tickets[i].gen = gui /\ ~tickets[i].over
  <2>1. i \in Send /\ tickets[i] \in Tickets BY <1>5 DEF RenewIntent, PhasesOK, Typed
  <2>2. UNCHANGED <<gui, regs, srcGen, highWater, ctl, offers, queue, worker, begun, pulls, busy, bind, net>>
    BY <1>5 DEF RenewIntent, target, pulling
  <2>3. CASE renewed
    <3>1. /\ tickets' = [tickets EXCEPT ![i].rev = sender.rev + 1]
          /\ sender' = [sender EXCEPT !.phase = "offer", !.rev = @ + 1, !.tries = 0]
      BY <1>5, <2>3 DEF RenewIntent
    <3>2. /\ sender.rev + 1 \in 1..MaxRev /\ sender.rev + 1 \in 0..MaxRev
          /\ 0 \in 0..MaxTries /\ sender \in Senders
      <4>1. sender.rev < MaxRev BY <2>3
      <4>2. sender \in Senders BY DEF Typed
      <4> QED BY <4>1, <4>2
    <3>3. /\ sender' \in Senders /\ sender'.send = sender.send /\ sender'.phase = "offer"
          /\ sender'.seq = sender.seq /\ sender'.rev = sender.rev + 1
      BY <3>1, <3>2 DEF Senders
    <3>4. [tickets[i] EXCEPT !.rev = sender.rev + 1] \in Tickets
      <4> HIDE DEF i, renewed
      <4> QED BY <2>1, <3>2, TicketTypes
    <3>5. tickets' \in [Send -> Tickets] BY <2>1, <3>1, <3>4 DEF Typed
    <3> QED BY <2>1, <2>2, <3>2, <3>3, <3>5 DEF Typed, PhasesOK
  <2>4. CASE ~renewed
    <3>1. tickets' = tickets /\ sender' = [sender EXCEPT !.phase = "revoke"]
      BY <1>5, <2>4 DEF RenewIntent
    <3>2. /\ sender' \in Senders /\ sender'.send = sender.send /\ sender'.phase = "revoke"
          /\ sender'.seq = sender.seq /\ sender'.rev = sender.rev
      BY <3>1 DEF Typed, Senders
    <3> QED BY <1>5, <2>2, <3>1, <3>2 DEF Typed, PhasesOK, RenewIntent
  <2> QED BY <2>3, <2>4
<1>6. CASE Revoke
  <2>1. /\ sender' = [sender EXCEPT !.phase = "cancel"] /\ sender.send \in Send
        /\ sender.phase = "revoke"
    BY <1>6 DEF Revoke, PhasesOK
  <2>2. /\ sender' \in Senders /\ sender'.send = sender.send /\ sender'.phase = "cancel"
        /\ sender'.seq = sender.seq /\ sender'.rev = sender.rev
    BY <2>1 DEF Typed, Senders
  <2>3. tickets' = tickets \/ tickets' = [tickets EXCEPT ![sender.send] = NoTicket]
    BY <1>6 DEF Revoke
  <2>4. tickets' \in [Send -> Tickets] BY <2>1, <2>3, NoTicketType DEF Typed
  <2>5. UNCHANGED <<gui, regs, srcGen, highWater, ctl, offers, queue, worker, begun, pulls, busy, bind, net>>
    BY <1>6 DEF Revoke, target, pulling
  <2> QED BY <2>1, <2>2, <2>4, <2>5 DEF Typed, PhasesOK
<1> QED BY <1>1, <1>2, <1>3, <1>4, <1>5, <1>6 DEF SenderStep

\* Steps of the source service and host.
LEMMA SourceTyped ==
  ASSUME Typed, PhasesOK, SourceStep
  PROVE  Typed' /\ PhasesOK'
<1>r. /\ sender.send \in Nat /\ sender.seq \in Nat /\ sender.rev \in Nat
      /\ bind.phase # "none" => ThisPull \in Pull /\ bind.send \in Send
      /\ MaxSend \in Nat /\ MaxRev \in Nat \ {0} /\ MaxTries \in Nat \ {0}
      /\ MaxGen \in Nat \ {0} /\ Routes \in Nat \ {0} /\ QueueCap \in Nat \ {0}
  BY Refers
<1> USE <1>r
<1>1. ASSUME NEW r \in regs, VerifyRegistration(r) PROVE Typed' /\ PhasesOK'
  <2>1. [r EXCEPT !.verified = TRUE] \in Registrations
    <3>1. r \in Registrations BY DEF Typed
    <3> QED BY <3>1 DEF Registrations
  <2>2. regs' \subseteq Registrations BY <1>1, <2>1 DEF VerifyRegistration, Typed
  <2>3. UNCHANGED <<gui, sender, srcGen, highWater, tickets, ctl, offers, queue, worker, begun, pulls, busy, bind, net>>
    BY <1>1 DEF VerifyRegistration, target, pulling
  <2> QED BY <2>2, <2>3 DEF Typed, PhasesOK
<1>2. ASSUME NEW r \in regs, Register(r) PROVE Typed' /\ PhasesOK'
  <2> DEFINE fresh == srcGen # r.gen
             kept == IF fresh THEN [i \in Send |-> NoTicket] ELSE tickets
             high == IF fresh THEN 0 ELSE highWater
             new == [rev |-> 1, over |-> FALSE, claimed |-> NoPull, gen |-> r.gen]
  <2>1. r \in Registrations BY DEF Typed
  <2>2. /\ r.send \in Send /\ r.gen \in 0..MaxGen /\ r.seq \in 0..MaxSend
        /\ kept \in [Send -> Tickets] /\ high \in 0..MaxSend
    <3>1. r.send \in Send /\ r.gen \in 0..MaxGen /\ r.seq \in 0..MaxSend
      BY <2>1 DEF Registrations
    <3> QED BY <3>1, NoTicketType DEF Typed
  <2>3. new \in Tickets
    <3>1. FALSE \in BOOLEAN /\ 1 \in 0..MaxRev OBVIOUS
    <3> QED BY <2>2, <3>1 DEF Tickets
  <2>4. /\ srcGen' = r.gen /\ highWater' \in {r.seq, high}
        /\ tickets' = kept \/ tickets' = [kept EXCEPT ![r.send] = new]
        /\ sender' = sender \/ sender' = Rested
             \/ (sender.phase = "register" /\ sender' = [sender EXCEPT !.phase = "offer"])
        /\ regs' = regs \ {r}
        /\ UNCHANGED <<gui, ctl, offers, queue, worker, begun, pulls, busy, bind, net>>
    BY <1>2 DEF Register, target, pulling
  <2>5. /\ sender' \in Senders /\ sender'.send = sender.send /\ sender'.seq = sender.seq
        /\ sender'.phase # "idle" => sender.phase # "idle" /\ sender'.rev = sender.rev
    <3>1. sender \in Senders BY DEF Typed
    <3>2. CASE sender' = Rested BY <3>1, <3>2, RestedType
    <3>3. CASE sender.phase = "register" /\ sender' = [sender EXCEPT !.phase = "offer"]
      BY <3>1, <3>3 DEF Senders
    <3> QED BY <2>4, <3>1, <3>2, <3>3
  <2> HIDE DEF kept, high, new
  <2>6. tickets' \in [Send -> Tickets] BY <2>2, <2>3, <2>4
  <2>7. srcGen' \in 0..MaxGen /\ highWater' \in 0..MaxSend BY <2>2, <2>4
  <2>8. regs' \subseteq Registrations BY <2>4 DEF Typed
  <2> QED BY <2>4, <2>5, <2>6, <2>7, <2>8 DEF Typed, PhasesOK
<1>3. ASSUME NEW i \in Send, TicketLapses(i) PROVE Typed' /\ PhasesOK'
  <2>1. tickets' = [tickets EXCEPT ![i] = [tickets[i] EXCEPT !.over = TRUE]] /\ tickets[i] \in Tickets
    BY <1>3 DEF TicketLapses, Typed
  <2>2. tickets' \in [Send -> Tickets]
    <3>1. [tickets[i] EXCEPT !.over = TRUE] \in Tickets BY <2>1, TicketTypes
    <3> QED BY <2>1, <3>1 DEF Typed
  <2>3. UNCHANGED <<gui, sender, regs, srcGen, highWater, ctl, offers, queue, worker, begun, pulls, busy, bind, net>>
    BY <1>3 DEF TicketLapses, target, pulling
  <2> QED BY <2>2, <2>3 DEF Typed, PhasesOK
<1>4. CASE ExpireTickets
  <2>1. tickets' \in [Send -> Tickets] BY <1>4, NoTicketType DEF ExpireTickets, Typed
  <2>2. UNCHANGED <<gui, sender, regs, srcGen, highWater, ctl, offers, queue, worker, begun, pulls, busy, bind, net>>
    BY <1>4 DEF ExpireTickets, target, pulling
  <2> QED BY <2>1, <2>2 DEF Typed, PhasesOK
<1>5. CASE HostTick
  <2>1. tickets' \in [Send -> Tickets]
    <3>1. \A i \in Send : tickets[i] \in Tickets BY DEF Typed
    <3> QED BY <1>5, <3>1, NoTicketType DEF HostTick
  <2>2. pulls' \in [Pull -> Connections]
    <3>1. \A p \in Pull : pulls[p] \in Connections /\ [pulls[p] EXCEPT !.conn = "closed"] \in Connections
      BY ConnectionTypes DEF Typed
    <3> QED BY <1>5, <3>1 DEF HostTick
  <2>3. UNCHANGED <<gui, sender, regs, srcGen, highWater, ctl, offers, queue, worker, begun, busy, bind, net>>
    BY <1>5 DEF HostTick, target
  <2> QED BY <2>1, <2>2, <2>3 DEF Typed, PhasesOK
<1>6. ASSUME NEW p \in Pull, HandleClaim(p) PROVE Typed' /\ PhasesOK'
  <2>0. p[1] \in Send BY DEF Pull
  <2>1. /\ tickets' = tickets \/ tickets' = [tickets EXCEPT ![p[1]] = [tickets[p[1]] EXCEPT !.claimed = p]]
        /\ pulls' = pulls \/ pulls' = [pulls EXCEPT ![p] = [pulls[p] EXCEPT !.bound = TRUE]]
    BY <1>6 DEF HandleClaim
  <2>2. tickets' \in [Send -> Tickets]
    <3>1. tickets \in [Send -> Tickets] /\ tickets[p[1]] \in Tickets BY <2>0 DEF Typed
    <3>2. [tickets[p[1]] EXCEPT !.claimed = p] \in Tickets BY <3>1, TicketTypes
    <3> QED BY <2>0, <2>1, <3>1, <3>2
  <2>3. pulls' \in [Pull -> Connections]
    <3>1. pulls[p] \in Connections BY DEF Typed
    <3>2. [pulls[p] EXCEPT !.bound = TRUE] \in Connections BY <3>1, ConnectionTypes
    <3> QED BY <2>1, <3>2 DEF Typed
  <2>4. UNCHANGED <<gui, sender, regs, srcGen, highWater, ctl, offers, queue, worker, begun, busy, bind, net>>
    BY <1>6 DEF HandleClaim, target
  <2> QED BY <2>2, <2>3, <2>4 DEF Typed, PhasesOK
<1>7. ASSUME NEW p \in Pull,
             HandleSubscribe(p) \/ SubscribeEnds(p) \/ PullLost(p) \/ PullTornDown(p)
      PROVE  Typed' /\ PhasesOK'
  <2>1. pulls[p] \in Connections /\ pulls \in [Pull -> Connections] BY DEF Typed
  <2>2. PICK c \in Connections : pulls' = [pulls EXCEPT ![p] = c]
    <3>1. CASE HandleSubscribe(p) \/ PullLost(p)
      <4>1. pulls' = pulls \/ pulls' = [pulls EXCEPT ![p] = [pulls[p] EXCEPT !.conn = "closed"]]
        BY <3>1 DEF HandleSubscribe, PullLost, Close
      <4>2. [pulls[p] EXCEPT !.conn = "closed"] \in Connections BY <2>1, ConnectionTypes
      <4>3. pulls = [pulls EXCEPT ![p] = pulls[p]] BY <2>1
      <4> QED BY <2>1, <4>1, <4>2, <4>3
    <3>2. CASE PullTornDown(p)
      <4>1. [pulls[p] EXCEPT !.sub = FALSE] \in Connections BY <2>1, ConnectionTypes
      <4> QED BY <3>2, <4>1 DEF PullTornDown
    <3>3. CASE SubscribeEnds(p)
      <4>1. PICK on \in Started(p) :
              pulls' = [pulls EXCEPT ![p].sub = on,
                                     ![p].conn = IF ClaimAlive(p) THEN @ ELSE "closed"]
        BY <3>3 DEF SubscribeEnds
      <4>2. on \in BOOLEAN BY DEF Started
      <4> DEFINE cn == IF ClaimAlive(p) THEN pulls[p].conn ELSE "closed"
      <4>3. cn \in {"none", "open", "asked", "closed"} BY <2>1 DEF Connections
      <4>4. pulls' = [pulls EXCEPT ![p] = [pulls[p] EXCEPT !.sub = on, !.conn = cn]]
        BY <2>1, <4>1 DEF Connections
      <4>5. [pulls[p] EXCEPT !.sub = on, !.conn = cn] \in Connections
        BY <2>1, <4>2, <4>3, ConnectionTypes
      <4> QED BY <4>4, <4>5
    <3> QED BY <1>7, <3>1, <3>2, <3>3
  <2>3. pulls' \in [Pull -> Connections] BY <2>1, <2>2
  <2>4. busy' \in Pull \cup {NoPull}
    BY <1>7 DEF HandleSubscribe, SubscribeEnds, PullLost, PullTornDown, Typed
  <2>5. UNCHANGED <<gui, sender, regs, srcGen, highWater, tickets, ctl, offers, queue, worker, begun, bind, net>>
    BY <1>7 DEF HandleSubscribe, SubscribeEnds, PullLost, PullTornDown, source, target
  <2> QED BY <2>3, <2>4, <2>5 DEF Typed, PhasesOK
<1> QED BY <1>1, <1>2, <1>3, <1>4, <1>5, <1>6, <1>7 DEF SourceStep

\* Steps of the target window.
LEMMA WindowTyped ==
  ASSUME Typed, PhasesOK, WindowStep
  PROVE  Typed' /\ PhasesOK'
<1>r. /\ sender.send \in Nat /\ sender.seq \in Nat /\ sender.rev \in Nat
      /\ bind.phase # "none" => ThisPull \in Pull /\ bind.send \in Send
      /\ MaxSend \in Nat /\ MaxRev \in Nat \ {0} /\ MaxTries \in Nat \ {0}
      /\ MaxGen \in Nat \ {0} /\ Routes \in Nat \ {0} /\ QueueCap \in Nat \ {0}
  BY Refers
<1> USE <1>r
<1>1. UNCHANGED <<source, target, busy, net>>
  BY DEF WindowStep, OpenPull, RouteFails, AttachSession, SessionFails, BindEnds, pulling
<1>2. pulls' \in [Pull -> Connections]
  <2>1. CASE bind.phase # "none"
    <3>1. ThisPull \in Pull /\ pulls \in [Pull -> Connections] /\ pulls[ThisPull] \in Connections
      BY <2>1 DEF Typed
    <3>2. \A c \in {"open", "asked"} : [pulls[ThisPull] EXCEPT !.conn = c] \in Connections
      BY <3>1, ConnectionTypes
    <3>3. \/ pulls' = pulls
          \/ pulls' = [pulls EXCEPT ![ThisPull] = [pulls[ThisPull] EXCEPT !.conn = "open"]]
          \/ pulls' = [pulls EXCEPT ![ThisPull] = [pulls[ThisPull] EXCEPT !.conn = "asked"]]
      BY DEF WindowStep, OpenPull, RouteFails, AttachSession, SessionFails, BindEnds, pulling
    <3> HIDE DEF ThisPull
    <3> QED BY <3>1, <3>2, <3>3
  <2>2. CASE bind.phase = "none"
    <3>1. pulls' = pulls
      BY <2>2 DEF WindowStep, OpenPull, RouteFails, AttachSession, SessionFails, BindEnds, pulling
    <3> QED BY <3>1 DEF Typed
  <2> QED BY <2>1, <2>2
<1>3. bind' \in Bindings /\ (bind'.phase # "none" => bind'.send \in Send /\ bind'.route \in 1..Routes)
  <2>1. bind \in Bindings BY DEF Typed
  <2>2. CASE bind' = NoBind BY <2>2 DEF NoBind, Bindings
  <2>3. CASE bind.phase # "none" /\ bind' = NextRoute
    <3>1. bind.send \in Send /\ bind.route \in 1..Routes BY <2>3 DEF PhasesOK
    <3>2. CASE bind.route < Routes
      <4>1. bind' = [bind EXCEPT !.route = bind.route + 1, !.phase = "connect"]
        BY <2>3, <3>2 DEF NextRoute
      <4>2. bind.route + 1 \in 1..Routes /\ bind.route + 1 \in 0..Routes BY <3>1, <3>2
      <4> QED BY <2>1, <3>1, <4>1, <4>2 DEF Bindings
    <3>3. CASE ~(bind.route < Routes)
      <4>1. bind' = [bind EXCEPT !.phase = "failed"] BY <2>3, <3>3 DEF NextRoute
      <4> QED BY <2>1, <3>1, <4>1 DEF Bindings
    <3> QED BY <3>2, <3>3
  <2>4. ASSUME NEW ph \in {"claim", "view", "failed"},
               bind.phase # "none", bind' = [bind EXCEPT !.phase = ph]
        PROVE  bind' \in Bindings /\ bind'.send \in Send /\ bind'.route \in 1..Routes
    <3>1. bind.send \in Send /\ bind.route \in 1..Routes BY <2>4 DEF PhasesOK
    <3> QED BY <2>1, <2>4, <3>1 DEF Bindings
  <2> QED BY <2>2, <2>3, <2>4
          DEF WindowStep, OpenPull, RouteFails, AttachSession, SessionFails, BindEnds
<1> QED BY <1>1, <1>2, <1>3 DEF Typed, PhasesOK, source, target

-----------------------------------------------------------------------------
(* The target: its offers, its queue and its worker.                       *)

\* The end of an offer, or the next state of one that is alive.
LEMMA FinishFacts ==
  ASSUME NEW o \in Offers, NEW s \in Active \cup {"ended"}
  PROVE  Finish(o, s) \in Offers /\ (Finish(o, s).state = "none" => o.state = "none")
<1>1. Finish(o, s) \in Offers BY OfferTypes
<1>2. CASE o.state \notin Active BY <1>1, <1>2 DEF Finish
<1>3. CASE o.state \in Active /\ s \in Active
  BY <1>1, <1>3 DEF Finish, Offers, Active
<1>4. CASE o.state \in Active /\ s \notin Active
  BY <1>1, <1>4 DEF Finish, Ended
<1> QED BY <1>1, <1>2, <1>3, <1>4

\* The target ends what it knows; it never forgets that it knew it.
Remembers == \A i \in Send : offers'[i].state = "none" => offers[i].state = "none"

\* One offer changes.
LEMMA OneOffer ==
  ASSUME Typed, NEW i \in Send, NEW o \in Offers, offers' = [offers EXCEPT ![i] = o],
         o.state = "none" => offers[i].state = "none"
  PROVE  offers' \in [Send -> Offers] /\ Remembers
  BY DEF Typed, Remembers

\* One offer is finished.
LEMMA OneFinished ==
  ASSUME Typed, NEW i \in Send, NEW s \in Active \cup {"ended"},
         offers' = [offers EXCEPT ![i] = Finish(offers[i], s)]
  PROVE  offers' \in [Send -> Offers] /\ Remembers
<1>1. offers[i] \in Offers BY DEF Typed
<1>2. /\ Finish(offers[i], s) \in Offers
      /\ Finish(offers[i], s).state = "none" => offers[i].state = "none"
  BY <1>1, FinishFacts
<1> QED BY <1>2, OneOffer

\* What the target answers.
LEMMA AnswerType ==
  ASSUME Typed, NEW i \in Send, NEW rev \in 0..MaxRev, NEW s, Answer(Receipt(i, rev, s))
  PROVE  net' \subseteq Messages
<1>1. Receipt(i, rev, s) \in Messages
  <2>1. (IF s \in Active THEN rev ELSE 0) \in 0..MaxRev BY DeliveryAssumption
  <2> QED BY <2>1 DEF Receipt, Messages
<1> QED BY <1>1 DEF Answer, Typed

\* The broker's answer to an offer, one it knows or a new one (Broker::offer).
LEMMA HandleOfferStep ==
  ASSUME Typed, NEW m \in net, HandleOffer(m)
  PROVE  /\ offers' \in [Send -> Offers] /\ Remembers /\ net' \subseteq Messages
         /\ \/ UNCHANGED queue
            \/ \E i \in Send : /\ queue' = Append(queue, i) /\ Len(queue) < QueueCap
                               /\ offers[i].state = "none" /\ offers'[i].state # "none"
<1>1. m.send \in Send /\ m.rev \in 0..MaxRev
  BY DeliveryAssumption DEF HandleOffer, Typed, Messages
<1>2. offers[m.send] \in Offers BY <1>1 DEF Typed
<1>3. CASE m.send \in Known
  <2> DEFINE n == IF m.rev > offers[m.send].rev /\ Alive(m.send)
                  THEN [offers[m.send] EXCEPT !.rev = m.rev] ELSE offers[m.send]
  <2>1. /\ offers' = [offers EXCEPT ![m.send] = n] /\ UNCHANGED queue
        /\ Answer(Receipt(m.send, n.rev, n.state))
    BY <1>3 DEF HandleOffer, OfferAgain
  <2>2. n \in Offers /\ n.state = offers[m.send].state /\ n.rev \in 0..MaxRev
    BY <1>1, <1>2 DEF Offers
  <2> HIDE DEF n
  <2> QED BY <1>1, <2>1, <2>2, OneOffer, AnswerType
<1>4. CASE m.send \notin Known
  <2> DEFINE ok == /\ m.rev = 1 /\ Cardinality(Known) < Limit
                   /\ \A j \in Send : ~Alive(j)
                   /\ Len(queue) < QueueCap
             new == [state |-> "pending", rev |-> m.rev]
  <2>1. /\ offers' = (IF ok THEN [offers EXCEPT ![m.send] = new] ELSE offers)
        /\ queue' = (IF ok THEN Append(queue, m.send) ELSE queue)
        /\ Answer(Receipt(m.send, m.rev, IF ok THEN "pending" ELSE "ended"))
    BY <1>4 DEF HandleOffer, OfferNew
  <2>2. net' \subseteq Messages BY <1>1, <2>1, AnswerType
  <2>3. offers[m.send].state = "none" BY <1>1, <1>4 DEF Known, HandleOffer
  <2>4. new \in Offers /\ new.state # "none" BY <1>1 DEF Offers, Active
  <2>5. CASE ok
    <3>1. offers' = [offers EXCEPT ![m.send] = new] /\ queue' = Append(queue, m.send)
      BY <2>1, <2>5
    <3>2. offers'[m.send].state # "none" BY <1>1, <2>4, <3>1 DEF Typed
    <3> HIDE DEF new
    <3> QED BY <1>1, <2>2, <2>3, <2>4, <2>5, <3>1, <3>2, OneOffer
  <2>6. CASE ~ok BY <2>1, <2>2, <2>6 DEF Typed, Remembers
  <2> QED BY <2>5, <2>6
<1> QED BY <1>3, <1>4

\* A step that leaves the queue and the history alone, and gives the worker
\* nothing new.
LEMMA CalmOffers ==
  ASSUME Typed, OffersOK, Remembers, UNCHANGED <<queue, begun>>,
         worker'.phase # "idle" => worker.phase # "idle" /\ worker'.send = worker.send,
         worker'.phase = "activate" => worker.phase = "activate",
         worker.phase # "idle" => worker.send \in Send
  PROVE  OffersOK'
<1>1. \A n \in 1..Len(queue) : queue[n] \in Send BY DEF Typed
<1> QED BY <1>1 DEF OffersOK, Remembers

\* Steps of the target host and its worker.
LEMMA TargetTyped ==
  ASSUME Typed, PhasesOK, OffersOK, TargetStep
  PROVE  Typed' /\ PhasesOK' /\ OffersOK'
<1>r. /\ sender.send \in Nat /\ sender.seq \in Nat /\ sender.rev \in Nat
      /\ bind.phase # "none" => ThisPull \in Pull /\ bind.send \in Send
      /\ MaxSend \in Nat /\ MaxRev \in Nat \ {0} /\ MaxTries \in Nat \ {0}
      /\ MaxGen \in Nat \ {0} /\ Routes \in Nat \ {0} /\ QueueCap \in Nat \ {0}
  BY Refers
<1> USE <1>r
<1>0. /\ worker \in Workers /\ (worker.phase # "idle" => worker.send \in Send)
      /\ \A n \in 1..Len(queue) : queue[n] \in Send
      /\ Idle \in Workers /\ Idle.phase = "idle"
  BY DEF Typed, PhasesOK, Idle, Workers
<1>1. ASSUME NEW m \in net, HandleOffer(m) PROVE Typed' /\ PhasesOK' /\ OffersOK'
  <2>1. UNCHANGED <<gui, sender, regs, srcGen, highWater, tickets, pulls, busy, ctl, worker, bind, begun>>
    BY <1>1 DEF HandleOffer, source, pulling
  <2>2. /\ offers' \in [Send -> Offers] /\ Remembers /\ net' \subseteq Messages
        /\ \/ UNCHANGED queue
           \/ \E i \in Send : /\ queue' = Append(queue, i) /\ Len(queue) < QueueCap
                              /\ offers[i].state = "none" /\ offers'[i].state # "none"
    BY <1>1, HandleOfferStep
  <2>3. PhasesOK' BY <2>1 DEF PhasesOK
  <2>4. CASE UNCHANGED queue
    <3>1. OffersOK' BY <1>0, <2>1, <2>2, <2>4, CalmOffers
    <3> QED BY <2>1, <2>2, <2>3, <2>4, <3>1 DEF Typed
  <2>5. ASSUME NEW i \in Send, queue' = Append(queue, i), Len(queue) < QueueCap,
               offers[i].state = "none", offers'[i].state # "none"
        PROVE  Typed' /\ PhasesOK' /\ OffersOK'
    <3>1. queue \in Seq(Send) /\ Len(queue) \in Nat BY DEF Typed
    <3>2. /\ queue' \in Seq(Send) /\ Len(queue') = Len(queue) + 1 /\ queue'[Len(queue) + 1] = i
          /\ \A n \in 1..Len(queue) : queue'[n] = queue[n]
      BY <2>5, <3>1
    <3>3. Typed'
      <4>1. Len(queue') <= QueueCap BY <2>5, <3>1, <3>2
      <4> QED BY <2>1, <2>2, <3>2, <4>1 DEF Typed
    <3>4. \A n \in 1..Len(queue') : n \in 1..Len(queue) \/ n = Len(queue) + 1
      BY <3>1, <3>2
    <3>5. \A n \in 1..Len(queue) : queue[n] # i BY <2>5 DEF OffersOK
    <3>6. ASSUME NEW k \in 1..Len(queue'), NEW n \in 1..Len(queue'), queue'[k] = queue'[n]
          PROVE  k = n
      <4>1. CASE k \in 1..Len(queue) /\ n \in 1..Len(queue)
        <5>1. queue[k] = queue[n] BY <3>2, <3>6, <4>1
        <5> QED BY <4>1, <5>1 DEF OffersOK
      <4>2. CASE k \in 1..Len(queue) /\ n = Len(queue) + 1
        BY <3>2, <3>5, <3>6, <4>2
      <4>3. CASE k = Len(queue) + 1 /\ n \in 1..Len(queue)
        BY <3>2, <3>5, <3>6, <4>3
      <4> QED BY <3>4, <4>1, <4>2, <4>3
    <3>7. begun[i] = 0 /\ (worker.phase # "idle" => worker.send # i)
      BY <2>5 DEF OffersOK
    <3>8. ASSUME NEW n \in 1..Len(queue')
          PROVE  /\ begun'[queue'[n]] = 0 /\ offers'[queue'[n]].state # "none"
                 /\ worker'.phase # "idle" => worker'.send # queue'[n]
      <4>1. CASE n = Len(queue) + 1 BY <2>1, <2>5, <3>2, <3>7, <4>1
      <4>2. CASE n \in 1..Len(queue)
        <5>1. queue'[n] = queue[n] /\ queue[n] \in Send BY <1>0, <3>2, <4>2
        <5>2. /\ begun[queue[n]] = 0 /\ offers[queue[n]].state # "none"
              /\ worker.phase # "idle" => worker.send # queue[n]
          BY <4>2 DEF OffersOK
        <5> QED BY <2>1, <2>2, <5>1, <5>2 DEF Remembers
      <4> QED BY <3>4, <4>1, <4>2
    <3>9. /\ worker'.phase # "idle" => offers'[worker'.send].state # "none"
          /\ worker'.phase = "activate" => begun'[worker'.send] = 0
          /\ \A j \in Send : offers'[j].state = "none" => begun'[j] = 0
          /\ \A j \in Send : begun'[j] <= 1
      BY <1>0, <2>1, <2>2 DEF OffersOK, Remembers
    <3> QED BY <2>3, <3>3, <3>6, <3>8, <3>9 DEF OffersOK
  <2> QED BY <2>2, <2>4, <2>5
<1>2. ASSUME NEW i \in Send, HandleCancel(i) \/ OfferLapses(i) \/ ControlLost(i)
      PROVE  Typed' /\ PhasesOK' /\ OffersOK'
  <2>1. UNCHANGED <<gui, sender, regs, srcGen, highWater, tickets, pulls, busy, queue, worker, bind, begun>>
    BY <1>2 DEF HandleCancel, OfferLapses, ControlLost, source, pulling
  <2>2. offers' \in [Send -> Offers] /\ Remembers
    <3>1. CASE HandleCancel(i) BY <3>1, OneFinished DEF HandleCancel
    <3>2. CASE OfferLapses(i)
      <4>1. Finish(offers[i], "ended") = Ended BY <3>2 DEF OfferLapses, Alive, Finish, Active
      <4> QED BY <3>2, <4>1, OneFinished DEF OfferLapses
    <3>3. CASE ControlLost(i) BY <3>3 DEF ControlLost, Typed, Remembers
    <3> QED BY <1>2, <3>1, <3>2, <3>3
  <2>3. net' \subseteq Messages
    <3>1. CASE HandleCancel(i)
      <4>1. Answer(Receipt(i, 0, "ended")) /\ 0 \in 0..MaxRev BY <3>1 DEF HandleCancel
      <4> QED BY <4>1, AnswerType
    <3> QED BY <1>2, <3>1 DEF OfferLapses, ControlLost, Typed
  <2>4. ctl' \in [Send -> {"none", "open", "closed"}]
    BY <1>2 DEF HandleCancel, OfferLapses, ControlLost, Typed
  <2>5. OffersOK' BY <1>0, <2>1, <2>2, CalmOffers
  <2> QED BY <2>1, <2>2, <2>3, <2>4, <2>5 DEF Typed, PhasesOK
<1>3. CASE TargetTick
  <2>1. UNCHANGED <<gui, sender, regs, srcGen, highWater, tickets, pulls, busy, ctl, queue, worker, bind, begun, net>>
    BY <1>3 DEF TargetTick, source, pulling
  <2>2. offers' \in [Send -> Offers] /\ Remembers
    <3>1. \A i \in Send : offers[i] \in Offers BY DEF Typed
    <3>2. \A i \in Send : /\ Finish(offers[i], "ended") \in Offers
                          /\ Finish(offers[i], "ended").state = "none" => offers[i].state = "none"
      BY <3>1, FinishFacts
    <3> QED BY <1>3, <3>1, <3>2 DEF TargetTick, Remembers
  <2>3. OffersOK' BY <1>0, <2>1, <2>2, CalmOffers
  <2> QED BY <2>1, <2>2, <2>3 DEF Typed, PhasesOK
<1>4. CASE WorkerTakes
  <2> DEFINE i == Head(queue)
  <2>1. UNCHANGED <<gui, sender, regs, srcGen, highWater, tickets, pulls, busy, ctl, bind, begun, net>>
    BY <1>4 DEF WorkerTakes, source, pulling
  <2>2. queue \in Seq(Send) /\ queue # <<>> /\ queue' = Tail(queue) /\ worker.phase = "idle"
    BY <1>4 DEF WorkerTakes, Typed
  <2>3. /\ Len(queue) \in Nat \ {0} /\ 1 \in 1..Len(queue) /\ i = queue[1] /\ i \in Send
        /\ queue' \in Seq(Send) /\ Len(queue') = Len(queue) - 1
        /\ \A n \in 1..Len(queue') : n + 1 \in 1..Len(queue) /\ queue'[n] = queue[n + 1]
    BY <2>2
  <2>4. offers' \in [Send -> Offers] /\ Remembers
    <3>1. offers' = offers \/ offers' = [offers EXCEPT ![i] = Finish(offers[i], "ended")]
      BY <1>4 DEF WorkerTakes
    <3> HIDE DEF i
    <3>2. CASE offers' = offers BY <3>2 DEF Typed, Remembers
    <3>3. CASE offers' = [offers EXCEPT ![i] = Finish(offers[i], "ended")]
      BY <2>3, <3>3, OneFinished
    <3> QED BY <3>1, <3>2, <3>3
  <2>5. worker' \in Workers /\ (worker'.phase # "idle" => worker'.send = i)
    <3>1. worker' = Idle \/ worker' = [Idle EXCEPT !.send = i, !.phase = "activate"]
      BY <1>4 DEF WorkerTakes
    <3>2. i \in 0..MaxSend BY <2>3 DEF Send
    <3> HIDE DEF i
    <3> QED BY <1>0, <3>1, <3>2 DEF Idle, Workers
  <2>6. /\ begun[i] = 0 /\ offers[i].state # "none"
        /\ \A n \in 1..Len(queue') : queue'[n] # i
    <3>1. begun[queue[1]] = 0 /\ offers[queue[1]].state # "none" BY <2>3 DEF OffersOK
    <3>2. ASSUME NEW n \in 1..Len(queue') PROVE queue'[n] # i
      <4>1. n + 1 \in 1..Len(queue) /\ queue'[n] = queue[n + 1] /\ n + 1 # 1 BY <2>3
      <4>2. queue[n + 1] # queue[1] BY <2>3, <4>1 DEF OffersOK
      <4> QED BY <2>3, <4>1, <4>2
    <3> QED BY <2>3, <3>1, <3>2
  <2> HIDE DEF i
  <2>7. Typed'
    <3>1. Len(queue') <= QueueCap
      <4>1. Len(queue) <= QueueCap BY DEF Typed
      <4> QED BY <2>3, <4>1
    <3> QED BY <2>1, <2>3, <2>4, <2>5, <3>1 DEF Typed
  <2>8. PhasesOK' BY <2>1, <2>3, <2>5 DEF PhasesOK
  <2>9. \A k, n \in 1..Len(queue') : queue'[k] = queue'[n] => k = n
    <3> SUFFICES ASSUME NEW k \in 1..Len(queue'), NEW n \in 1..Len(queue'), queue'[k] = queue'[n]
                 PROVE  k = n
      OBVIOUS
    <3>1. k + 1 \in 1..Len(queue) /\ n + 1 \in 1..Len(queue) /\ queue[k + 1] = queue[n + 1]
      BY <2>3
    <3>2. k + 1 = n + 1 BY <3>1 DEF OffersOK
    <3> QED BY <2>3, <3>2
  <2>10. ASSUME NEW n \in 1..Len(queue')
         PROVE  /\ begun'[queue'[n]] = 0 /\ offers'[queue'[n]].state # "none"
                /\ worker'.phase # "idle" => worker'.send # queue'[n]
    <3>1. n + 1 \in 1..Len(queue) /\ queue'[n] = queue[n + 1] BY <2>3
    <3>2. /\ begun[queue[n + 1]] = 0 /\ offers[queue[n + 1]].state # "none"
          /\ queue[n + 1] \in Send
      BY <1>0, <3>1 DEF OffersOK
    <3> QED BY <2>1, <2>4, <2>5, <2>6, <3>1, <3>2 DEF Remembers
  <2>11. /\ worker'.phase # "idle" => offers'[worker'.send].state # "none"
         /\ worker'.phase = "activate" => begun'[worker'.send] = 0
         /\ \A j \in Send : offers'[j].state = "none" => begun'[j] = 0
         /\ \A j \in Send : begun'[j] <= 1
    BY <2>1, <2>3, <2>4, <2>5, <2>6 DEF OffersOK, Remembers
  <2> QED BY <2>7, <2>8, <2>9, <2>10, <2>11 DEF OffersOK
<1>5. CASE WorkerReceives
  <2> DEFINE i == worker.send
  <2>1. UNCHANGED <<gui, sender, regs, srcGen, highWater, tickets, pulls, busy, ctl, offers, queue, net>>
    BY <1>5 DEF WorkerReceives, source, pulling
  <2>2. /\ worker.phase = "activate" /\ i \in Send
        /\ bind' = [send |-> i, route |-> 1, phase |-> "connect"]
        /\ begun' = [begun EXCEPT ![i] = @ + 1]
        /\ worker' = [worker EXCEPT !.phase = "accept"]
    BY <1>0, <1>5 DEF WorkerReceives
  <2>3. worker' \in Workers /\ worker'.send = i /\ worker'.phase = "accept"
    BY <1>0, <2>2 DEF Workers
  <2>4. bind' \in Bindings /\ bind'.send = i /\ bind'.route \in 1..Routes
    BY <2>2 DEF Bindings, Send
  <2>5. begun \in [Send -> Nat] /\ begun[i] = 0 BY <2>2 DEF Typed, OffersOK
  <2>6. begun' \in [Send -> Nat] BY <2>2, <2>5
  <2>7. Typed' BY <2>1, <2>3, <2>4, <2>6 DEF Typed
  <2>8. PhasesOK' BY <2>1, <2>2, <2>3, <2>4 DEF PhasesOK
  <2>9. OffersOK'
    <3>1. begun'[i] = 1 /\ \A j \in Send : j # i => begun'[j] = begun[j] BY <2>2, <2>5
    <3>2. \A n \in 1..Len(queue) : queue[n] # i BY <2>2 DEF OffersOK
    <3> HIDE DEF i
    <3>3. offers[i].state # "none" BY <2>2 DEF OffersOK, i
    <3> QED BY <1>0, <2>1, <2>2, <2>3, <3>1, <3>2, <3>3 DEF OffersOK
  <2> QED BY <2>7, <2>8, <2>9
<1>6. CASE WorkerFails \/ WorkerGivesUp \/ WorkerEnds \/ WorkerAccepts \/ WorkerWatches
  <2>1. UNCHANGED <<gui, sender, regs, srcGen, highWater, tickets, pulls, busy, ctl, queue, bind, begun, net>>
    BY <1>6 DEF WorkerFails, WorkerGivesUp, WorkerEnds, WorkerAccepts, WorkerWatches, source, pulling
  <2>2. worker.phase # "idle" /\ worker.send \in Send
    BY <1>0, <1>6 DEF WorkerFails, WorkerGivesUp, WorkerEnds, WorkerAccepts, WorkerWatches
  <2>3. (worker' = worker /\ worker.phase = "watch")
          \/ \E ph \in {"stop", "watch"} : worker' = [worker EXCEPT !.phase = ph]
    BY <1>6 DEF WorkerFails, WorkerGivesUp, WorkerEnds, WorkerAccepts, WorkerWatches
  <2>4. worker' \in Workers /\ worker'.send = worker.send /\ worker'.phase \in {"stop", "watch"}
    BY <1>0, <2>3 DEF Workers
  <2>5. offers' \in [Send -> Offers] /\ Remembers
    <3>1. \/ offers' = offers
          \/ \E s \in Active : offers' = [offers EXCEPT ![worker.send] = Finish(offers[worker.send], s)]
      BY <1>6 DEF WorkerFails, WorkerGivesUp, WorkerEnds, WorkerAccepts, WorkerWatches, Active
    <3>2. CASE offers' = offers BY <3>2 DEF Typed, Remembers
    <3>3. ASSUME NEW s \in Active, offers' = [offers EXCEPT ![worker.send] = Finish(offers[worker.send], s)]
          PROVE  offers' \in [Send -> Offers] /\ Remembers
      BY <2>2, <3>3, OneFinished
    <3> QED BY <3>1, <3>2, <3>3
  <2>6. OffersOK' BY <1>0, <2>1, <2>2, <2>4, <2>5, CalmOffers
  <2> QED BY <2>1, <2>2, <2>4, <2>5, <2>6 DEF Typed, PhasesOK
<1>7. CASE WorkerStops
  <2>1. UNCHANGED <<gui, sender, regs, srcGen, highWater, tickets, pulls, busy, ctl, queue, begun, net>>
    BY <1>7 DEF WorkerStops, source, pulling
  <2>2. worker.send \in Send /\ worker' = Idle BY <1>0, <1>7 DEF WorkerStops
  <2>3. offers' \in [Send -> Offers] /\ Remembers
    BY <1>7, <2>2, OneFinished DEF WorkerStops
  <2>4. bind' \in Bindings /\ (bind' = bind \/ bind'.phase = "none")
    <3>1. bind' = bind \/ bind' = NoBind BY <1>7 DEF WorkerStops
    <3>2. NoBind \in Bindings /\ NoBind.phase = "none" BY DEF NoBind, Bindings
    <3> QED BY <3>1, <3>2 DEF Typed
  <2>5. OffersOK' BY <1>0, <2>1, <2>2, <2>3, CalmOffers
  <2> QED BY <1>0, <2>1, <2>2, <2>3, <2>4, <2>5 DEF Typed, PhasesOK
<1> QED BY <1>1, <1>2, <1>3, <1>4, <1>5, <1>6, <1>7 DEF TargetStep

-----------------------------------------------------------------------------
(* The source: registrations, tickets and the connections bound to them.   *)

\* A step that registers nothing: a ticket stays as it is bound, or is dropped.
KeepsTickets ==
  \A i \in Send : \/ tickets'[i].gen = 0
                  \/ tickets'[i].gen = tickets[i].gen /\ tickets'[i].claimed = tickets[i].claimed

\* A step that binds nothing.
KeepsBound == \A p \in Pull : pulls'[p].bound = pulls[p].bound

\* A connection belongs to a send.
LEMMA PullFacts == \A p \in Pull : p[1] \in Send /\ p # NoPull
  BY DeliveryAssumption DEF Pull, Send, NoPull

\* A step that does neither, and makes no registration.
LEMMA CalmTickets ==
  ASSUME Typed, RegistrationsOK, OnePull, KeepsTickets, KeepsBound,
         regs' \subseteq regs, sender'.send = sender.send
  PROVE  RegistrationsOK' /\ OnePull'
<1>1. \A r \in regs : r.send \in Send BY DEF Typed, Registrations
<1>2. RegistrationsOK'
  BY <1>1, PullFacts DEF RegistrationsOK, KeepsTickets, KeepsBound, Registered
<1>3. OnePull'
  BY PullFacts DEF OnePull, KeepsTickets, KeepsBound, Registered
<1> QED BY <1>2, <1>3

\* Steps of the source window.
LEMMA SenderTickets ==
  ASSUME Typed, PhasesOK, RegistrationsOK, OnePull, SenderStep
  PROVE  RegistrationsOK' /\ OnePull'
<1>r. /\ sender.send \in Nat /\ sender.seq \in Nat /\ sender.rev \in Nat
      /\ bind.phase # "none" => ThisPull \in Pull /\ bind.send \in Send
      /\ MaxSend \in Nat /\ MaxRev \in Nat \ {0} /\ MaxTries \in Nat \ {0}
      /\ MaxGen \in Nat \ {0} /\ Routes \in Nat \ {0} /\ QueueCap \in Nat \ {0}
  BY Refers
<1> USE <1>r
<1>1. KeepsBound
  BY DEF SenderStep, SendScreen, RegisterFails, SendOffer, RenewIntent, SendEnds, Revoke,
         SendCancel, SourceRestarts, TakeReceipt, pulling, KeepsBound
<1>2. KeepsTickets
  <2>0. tickets \in [Send -> Tickets] BY DEF Typed
  <2>1. CASE RenewIntent
    <3>1. \/ tickets' = tickets
          \/ tickets' = [tickets EXCEPT ![sender.send] = [tickets[sender.send] EXCEPT !.rev = sender.rev + 1]]
      BY <2>1 DEF RenewIntent
    <3> QED BY <2>0, <3>1 DEF KeepsTickets, Tickets
  <2>2. CASE Revoke
    <3>1. tickets' = tickets \/ tickets' = [tickets EXCEPT ![sender.send] = NoTicket]
      BY <2>2 DEF Revoke
    <3> QED BY <2>0, <3>1, NoTicketType DEF KeepsTickets
  <2>3. CASE tickets' = tickets BY <2>3 DEF KeepsTickets
  <2> QED BY <2>1, <2>2, <2>3
          DEF SenderStep, SendScreen, RegisterFails, SendOffer, SendEnds,
              SendCancel, SourceRestarts, TakeReceipt
<1>3. CASE SendScreen
  <2> DEFINE r == [send |-> sender.send + 1, gen |-> gui, seq |-> sender.seq + 1, verified |-> FALSE]
  <2>1. /\ regs' = regs \cup {r} /\ r.send = sender.send + 1 /\ sender'.send = sender.send + 1
        /\ tickets' = tickets /\ pulls' = pulls
    BY <1>3 DEF SendScreen, pulling
  <2>2. /\ \A q \in regs : q.send \in Send /\ q.send <= sender.send
        /\ \A i \in Send : Registered(i) => i <= sender.send
        /\ \A p \in Pull : pulls[p].bound => p[1] <= sender.send
    BY DEF RegistrationsOK, Typed, Registrations
  <2> HIDE DEF r
  <2>3. \A q1, q2 \in regs' : q1.send = q2.send => q1 = q2
    BY <2>1, <2>2 DEF RegistrationsOK, Send
  <2>4. \A q \in regs' : q.send <= sender'.send /\ ~Registered(q.send)'
    <3>1. ~Registered(r.send)
      <4>1. r.send \in Send BY <1>3, <2>1 DEF SendScreen, Send
      <4> QED BY <2>1, <2>2, <4>1
    <3> QED BY <2>1, <2>2, <3>1 DEF RegistrationsOK, Registered, Send
  <2>5. \A i \in Send : Registered(i)' => i <= sender'.send
    BY <2>1, <2>2 DEF Registered, Send
  <2>6. \A p \in Pull : pulls'[p].bound => p[1] <= sender'.send /\ \A q \in regs' : q.send # p[1]
    <3>1. \A p \in Pull : p[1] \in Nat BY PullFacts DEF Send
    <3> QED BY <2>1, <2>2, <3>1 DEF RegistrationsOK
  <2>7. OnePull' BY <2>1 DEF OnePull, Registered
  <2> QED BY <2>3, <2>4, <2>5, <2>6, <2>7 DEF RegistrationsOK
<1>4. CASE ~SendScreen
  <2>1. regs' = regs
    BY <1>4 DEF SenderStep, RegisterFails, SendOffer, RenewIntent, SendEnds, Revoke,
                SendCancel, SourceRestarts, TakeReceipt
  <2>2. sender'.send = sender.send
    <3>0. sender \in Senders BY DEF Typed
    <3>1. CASE RegisterFails \/ SendCancel
      BY <3>0, <3>1, RestedType DEF RegisterFails, SendCancel
    <3>2. CASE SourceRestarts
      <4>1. Rested \in Senders /\ Rested.send = sender.send BY <3>0, RestedType
      <4>2. sender' = [Rested EXCEPT !.seq = 0] BY <3>2 DEF SourceRestarts
      <4> QED BY <4>1, <4>2 DEF Senders
    <3>3. CASE RenewIntent BY <3>0, <3>3 DEF RenewIntent, Senders
    <3>4. CASE SendOffer \/ SendEnds \/ Revoke \/ \E m \in net : TakeReceipt(m)
      BY <3>0, <3>4 DEF SendOffer, SendEnds, Revoke, TakeReceipt, Senders
    <3> QED BY <1>4, <3>1, <3>2, <3>3, <3>4 DEF SenderStep
  <2> QED BY <1>1, <1>2, <2>1, <2>2, CalmTickets
<1> QED BY <1>3, <1>4

\* A registration is answered with a ticket nobody has claimed, or refused.
LEMMA RegisterTickets ==
  ASSUME Typed, PhasesOK, RegistrationsOK, OnePull, NEW r \in regs, Register(r)
  PROVE  RegistrationsOK' /\ OnePull'
<1> DEFINE kept == IF srcGen # r.gen THEN [i \in Send |-> NoTicket] ELSE tickets
           new == [rev |-> 1, over |-> FALSE, claimed |-> NoPull, gen |-> r.gen]
<1>1. /\ tickets' = kept \/ tickets' = [kept EXCEPT ![r.send] = new]
      /\ regs' = regs \ {r} /\ pulls' = pulls
      /\ sender' = sender \/ sender' = Rested \/ sender' = [sender EXCEPT !.phase = "offer"]
  BY DEF Register, pulling
<1>2. sender'.send = sender.send
  <2>1. sender \in Senders BY DEF Typed
  <2> QED BY <1>1, <2>1, RestedType DEF Senders
<1>3. r.send \in Send /\ \A q \in regs : q.send \in Send BY DEF Typed, Registrations
<1>4. /\ kept \in [Send -> Tickets]
      /\ \A i \in Send : kept[i].gen = 0 \/ kept[i] = tickets[i]
  BY NoTicketType DEF Typed
<1>5. new.claimed = NoPull OBVIOUS
<1> HIDE DEF kept, new
<1>6. KeepsBound BY <1>1 DEF KeepsBound
<1>7. CASE tickets' = kept
  <2>1. KeepsTickets BY <1>4, <1>7 DEF KeepsTickets
  <2> QED BY <1>1, <1>2, <1>6, <2>1, CalmTickets
<1>8. CASE tickets' = [kept EXCEPT ![r.send] = new]
  <2>1. /\ tickets'[r.send].claimed = NoPull
        /\ \A i \in Send : i # r.send => tickets'[i].gen = 0 \/ tickets'[i] = tickets[i]
    BY <1>3, <1>4, <1>5, <1>8
  <2>2. \A p \in Pull : pulls[p].bound => p[1] # r.send BY DEF RegistrationsOK
  <2>3. RegistrationsOK'
    BY <1>1, <1>2, <1>3, <2>1 DEF RegistrationsOK, Registered
  <2>4. OnePull' BY <1>1, <2>1, <2>2, PullFacts DEF OnePull, Registered
  <2> QED BY <2>3, <2>4
<1> QED BY <1>1, <1>7, <1>8

\* Steps of the source service and host.
LEMMA SourceTickets ==
  ASSUME Typed, PhasesOK, RegistrationsOK, OnePull, SourceStep
  PROVE  RegistrationsOK' /\ OnePull'
<1>0. tickets \in [Send -> Tickets] /\ pulls \in [Pull -> Connections] BY DEF Typed
<1>1. ASSUME NEW r \in regs, VerifyRegistration(r) PROVE RegistrationsOK' /\ OnePull'
  <2> DEFINE v == [r EXCEPT !.verified = TRUE]
  <2>1. v.send = r.send
    <3>1. r \in Registrations BY DEF Typed
    <3> QED BY <3>1 DEF Registrations
  <2>2. /\ regs' = (regs \ {r}) \cup {v} \/ regs' = regs \ {r}
        /\ UNCHANGED <<sender, tickets, pulls>>
    BY <1>1 DEF VerifyRegistration, pulling
  <2> HIDE DEF v
  <2>3. RegistrationsOK' BY <2>1, <2>2 DEF RegistrationsOK, Registered
  <2>4. OnePull' BY <2>2 DEF OnePull, Registered
  <2> QED BY <2>3, <2>4
<1>2. ASSUME NEW i \in Send, TicketLapses(i) PROVE RegistrationsOK' /\ OnePull'
  <2>1. /\ tickets' = [tickets EXCEPT ![i] = [tickets[i] EXCEPT !.over = TRUE]]
        /\ UNCHANGED <<sender, regs, pulls>>
    BY <1>2 DEF TicketLapses, pulling
  <2>2. KeepsTickets BY <1>0, <2>1 DEF KeepsTickets, Tickets
  <2>3. KeepsBound BY <2>1 DEF KeepsBound
  <2> QED BY <2>1, <2>2, <2>3, CalmTickets
<1>3. CASE ExpireTickets
  <2>1. UNCHANGED <<sender, regs, pulls>> BY <1>3 DEF ExpireTickets, pulling
  <2>2. KeepsTickets BY <1>3, NoTicketType DEF ExpireTickets, KeepsTickets
  <2>3. KeepsBound BY <2>1 DEF KeepsBound
  <2> QED BY <2>1, <2>2, <2>3, CalmTickets
<1>4. CASE HostTick
  <2>1. UNCHANGED <<sender, regs>> BY <1>4 DEF HostTick
  <2>2. KeepsTickets
    <3>1. \A i \in Send : tickets'[i] = NoTicket \/ tickets'[i] = tickets[i]
      BY <1>4 DEF HostTick
    <3> QED BY <3>1, NoTicketType DEF KeepsTickets
  <2>3. KeepsBound
    <3>1. \A p \in Pull : pulls'[p] = pulls[p] \/ pulls'[p] = [pulls[p] EXCEPT !.conn = "closed"]
      BY <1>4 DEF HostTick
    <3>2. \A p \in Pull : pulls[p] \in Connections BY DEF Typed
    <3>3. ASSUME NEW p \in Pull PROVE pulls'[p].bound = pulls[p].bound
      BY <3>1, <3>2 DEF Connections
    <3> QED BY <3>3 DEF KeepsBound
  <2> QED BY <2>1, <2>2, <2>3, CalmTickets
<1>5. ASSUME NEW p \in Pull, HandleClaim(p) PROVE RegistrationsOK' /\ OnePull'
  <2> DEFINE i == p[1]
             ok == /\ pulls[p].bound \/ ~pulls[p].sub
                   /\ Registered(i) /\ ~tickets[i].over
                   /\ tickets[i].claimed \in {NoPull, p}
  <2>1. /\ tickets' = (IF ok THEN [tickets EXCEPT ![i].claimed = p] ELSE tickets)
        /\ pulls' = (IF ok THEN [pulls EXCEPT ![p].bound = TRUE] ELSE pulls)
        /\ UNCHANGED <<sender, regs>>
    BY <1>5 DEF HandleClaim
  <2>2. CASE ~ok
    <3>1. KeepsTickets /\ KeepsBound BY <2>1, <2>2 DEF KeepsTickets, KeepsBound
    <3> QED BY <2>1, <3>1, CalmTickets
  <2>3. CASE ok
    <3>1. i \in Send BY PullFacts
    <3>2. /\ tickets'[i].claimed = p /\ tickets'[i].gen = tickets[i].gen
          /\ \A j \in Send : j # i => tickets'[j] = tickets[j]
      BY <1>0, <2>1, <2>3, <3>1 DEF Tickets
    <3>3. /\ pulls'[p].bound = TRUE
          /\ \A q \in Pull : q # p => pulls'[q] = pulls[q]
      BY <1>0, <2>1, <2>3 DEF Connections
    <3>4. Registered(i) /\ tickets[i].claimed \in {NoPull, p} BY <2>3
    <3>5. \A q \in Pull : q[1] = i /\ q # p => ~pulls[q].bound
      BY <3>4, PullFacts DEF OnePull
    <3> HIDE DEF i, ok
    <3>6. i = p[1] BY DEF i
    <3>7. RegistrationsOK'
      <4>1. \A j \in Send : tickets'[j].gen = tickets[j].gen BY <3>2
      <4>2. \A r \in regs : r.send \in Send /\ r.send # i
        BY <3>4 DEF RegistrationsOK, Typed, Registrations
      <4>3. i <= sender.send BY <3>1, <3>4 DEF RegistrationsOK
      <4> QED BY <2>1, <3>3, <3>6, <4>1, <4>2, <4>3 DEF RegistrationsOK, Registered
    <3>8. OnePull'
      <4>1. \A q, s \in Pull : q[1] = s[1] /\ pulls'[q].bound /\ pulls'[s].bound => q = s
        BY <3>3, <3>5, <3>6 DEF OnePull
      <4>2. ASSUME NEW q \in Pull, tickets'[q[1]].gen # 0
            PROVE  pulls'[q].bound <=> tickets'[q[1]].claimed = q
        <5>1. CASE q[1] = i BY <3>2, <3>3, <3>5, <5>1
        <5>2. CASE q[1] # i
          <6>1. q[1] \in Send /\ q # p /\ tickets'[q[1]] = tickets[q[1]] /\ pulls'[q] = pulls[q]
            BY <3>2, <3>3, <3>6, <5>2, PullFacts
          <6> QED BY <4>2, <6>1 DEF OnePull, Registered
        <5> QED BY <5>1, <5>2
      <4> QED BY <4>1, <4>2 DEF OnePull, Registered
    <3> QED BY <3>7, <3>8
  <2> QED BY <2>2, <2>3
<1>6. ASSUME NEW p \in Pull,
             HandleSubscribe(p) \/ SubscribeEnds(p) \/ PullLost(p) \/ PullTornDown(p)
      PROVE  RegistrationsOK' /\ OnePull'
  <2>1. UNCHANGED <<sender, regs, tickets>>
    BY <1>6 DEF HandleSubscribe, SubscribeEnds, PullLost, PullTornDown, source
  <2>2. KeepsTickets BY <2>1 DEF KeepsTickets
  <2>3. KeepsBound
    <3>1. CASE HandleSubscribe(p) \/ PullLost(p)
      BY <1>0, <3>1 DEF HandleSubscribe, PullLost, Close, KeepsBound, Connections
    <3>2. CASE SubscribeEnds(p) BY <1>0, <3>2 DEF SubscribeEnds, KeepsBound, Connections
    <3>3. CASE PullTornDown(p) BY <1>0, <3>3 DEF PullTornDown, KeepsBound, Connections
    <3> QED BY <1>6, <3>1, <3>2, <3>3
  <2> QED BY <2>1, <2>2, <2>3, CalmTickets
<1> QED BY <1>1, <1>2, <1>3, <1>4, <1>5, <1>6, RegisterTickets DEF SourceStep

\* The steps of the target leave the tickets to the source.
LEMMA TargetTickets ==
  ASSUME Typed, PhasesOK, RegistrationsOK, OnePull, TargetStep \/ WindowStep
  PROVE  RegistrationsOK' /\ OnePull'
<1>1. UNCHANGED source
  BY DEF TargetStep, HandleOffer, HandleCancel, OfferLapses, ControlLost, TargetTick, WorkerTakes,
         WorkerReceives, WorkerFails, WorkerAccepts, WorkerWatches, WorkerGivesUp, WorkerEnds,
         WorkerStops, WindowStep, OpenPull, RouteFails, AttachSession, SessionFails, BindEnds
<1>2. KeepsTickets BY <1>1 DEF source, KeepsTickets
<1>3. KeepsBound
  <2>0. pulls \in [Pull -> Connections] BY DEF Typed
  <2>1. CASE TargetStep
    <3>1. UNCHANGED pulling
      BY <2>1 DEF TargetStep, HandleOffer, HandleCancel, OfferLapses, ControlLost, TargetTick, WorkerTakes,
             WorkerReceives, WorkerFails, WorkerAccepts, WorkerWatches, WorkerGivesUp, WorkerEnds, WorkerStops
    <3> QED BY <3>1 DEF pulling, KeepsBound
  <2>2. CASE WindowStep
    <3>1. \/ pulls' = pulls
          \/ pulls' = [pulls EXCEPT ![ThisPull] = [pulls[ThisPull] EXCEPT !.conn = "open"]]
          \/ pulls' = [pulls EXCEPT ![ThisPull] = [pulls[ThisPull] EXCEPT !.conn = "asked"]]
      BY <2>2 DEF WindowStep, OpenPull, RouteFails, AttachSession, SessionFails, BindEnds, pulling
    <3> HIDE DEF ThisPull
    <3> QED BY <2>0, <3>1 DEF KeepsBound, Connections
  <2> QED BY <2>1, <2>2
<1> QED BY <1>1, <1>2, <1>3, CalmTickets DEF source

-----------------------------------------------------------------------------
(* The theorems.                                                           *)

\* The steps of the source and of the target window leave the offers alone.
LEMMA SourceOffers ==
  ASSUME OffersOK, SenderStep \/ SourceStep \/ WindowStep
  PROVE  OffersOK'
<1>1. UNCHANGED <<offers, queue, worker, begun>>
  <2>1. CASE SenderStep
    BY <2>1 DEF SenderStep, SendScreen, RegisterFails, SendOffer, RenewIntent, SendEnds, Revoke,
                SendCancel, SourceRestarts, TakeReceipt, target
  <2>2. CASE SourceStep
    BY <2>2 DEF SourceStep, VerifyRegistration, Register, TicketLapses, ExpireTickets, HostTick,
                HandleClaim, HandleSubscribe, SubscribeEnds, PullLost, PullTornDown, target
  <2>3. CASE WindowStep
    BY <2>3 DEF WindowStep, OpenPull, RouteFails, AttachSession, SessionFails, BindEnds, target
  <2> QED BY <2>1, <2>2, <2>3
<1> QED BY <1>1 DEF OffersOK

\* The invariant holds at the start.
LEMMA InitDeliveryInv == Init => DeliveryInv
<1> SUFFICES ASSUME Init PROVE DeliveryInv OBVIOUS
<1>1. Typed
  <2>1. /\ 1 \in 1..MaxGen /\ 0 \in 0..MaxGen /\ 0 \in 0..MaxSend /\ 0 \in 0..MaxRev
        /\ 0 \in 0..MaxTries /\ 0 \in 0..Routes /\ FALSE \in BOOLEAN
    BY DeliveryAssumption
  <2>2. sender \in Senders BY <2>1 DEF Init, Senders
  <2>3. tickets \in [Send -> Tickets] BY NoTicketType DEF Init
  <2>4. pulls \in [Pull -> Connections] BY <2>1 DEF Init, Connections
  <2>5. offers \in [Send -> Offers] BY <2>1 DEF Init, NoOffer, Offers
  <2>6. worker \in Workers /\ bind \in Bindings
    BY <2>1 DEF Init, Idle, NoBind, Workers, Bindings
  <2>7. queue \in Seq(Send) /\ Len(queue) <= QueueCap BY DeliveryAssumption DEF Init
  <2> QED BY <2>1, <2>2, <2>3, <2>4, <2>5, <2>6, <2>7 DEF Init, Typed
<1>2. PhasesOK BY DEF Init, PhasesOK, Idle, NoBind
<1>3. \A i \in Send : ~Registered(i) BY DEF Init, Registered, NoTicket
<1>4. \A p \in Pull : ~pulls[p].bound BY DEF Init
<1>5. RegistrationsOK BY <1>3, <1>4 DEF Init, RegistrationsOK
<1>6. OnePull BY <1>3, <1>4, PullFacts DEF OnePull
<1>7. OffersOK
  <2>1. Len(queue) = 0 /\ worker.phase = "idle" /\ \A i \in Send : begun[i] = 0
    BY DEF Init, Idle
  <2> QED BY <2>1 DEF OffersOK
<1> QED BY <1>1, <1>2, <1>5, <1>6, <1>7, TypesAgree DEF DeliveryInv

\* Every step preserves it.
LEMMA NextDeliveryInv == DeliveryInv /\ [Next]_vars => DeliveryInv'
<1> SUFFICES ASSUME DeliveryInv, [Next]_vars PROVE DeliveryInv' OBVIOUS
<1>0. Typed /\ PhasesOK /\ RegistrationsOK /\ OnePull /\ OffersOK
  BY TypesAgree DEF DeliveryInv
<1>1. CASE UNCHANGED vars
  <2>1. Typed' BY <1>0, <1>1 DEF Typed, vars
  <2>2. PhasesOK' BY <1>0, <1>1 DEF PhasesOK, vars
  <2>3. RegistrationsOK' BY <1>0, <1>1 DEF RegistrationsOK, Registered, vars
  <2>4. OnePull' BY <1>0, <1>1 DEF OnePull, Registered, vars
  <2>5. OffersOK' BY <1>0, <1>1 DEF OffersOK, vars
  <2> QED BY <2>1, <2>2, <2>3, <2>4, <2>5, TypesAgree DEF DeliveryInv
<1>2. CASE SenderStep
  BY <1>0, <1>2, SenderTyped, SenderTickets, SourceOffers, TypesAgree DEF DeliveryInv
<1>3. CASE SourceStep
  BY <1>0, <1>3, SourceTyped, SourceTickets, SourceOffers, TypesAgree DEF DeliveryInv
<1>4. CASE TargetStep
  BY <1>0, <1>4, TargetTyped, TargetTickets, TypesAgree DEF DeliveryInv
<1>5. CASE WindowStep
  BY <1>0, <1>5, WindowTyped, TargetTickets, SourceOffers, TypesAgree DEF DeliveryInv
<1> QED BY <1>1, <1>2, <1>3, <1>4, <1>5 DEF Next

\* The inductive invariant: what waits for a registration has no ticket and no
\* connection, and what waits in the queue has not been received yet.
THEOREM DeliveryInvariant == Spec => []DeliveryInv
  BY InitDeliveryInv, NextDeliveryInv, PTL DEF Spec

\* Every variable keeps the shape of its Rust type, and the queue its limit.
THEOREM DeliveryTypes == Spec => []DeliveryTypeOK
<1>1. DeliveryInv => DeliveryTypeOK BY DEF DeliveryInv
<1> QED BY <1>1, DeliveryInvariant, PTL

\* A ticket serves one connection, ever, whatever claims are late or repeated
\* (Broker::claim_in_scope).
THEOREM TicketServesOne == Spec => []OnePull
<1>1. DeliveryInv => OnePull BY DEF DeliveryInv
<1> QED BY <1>1, DeliveryInvariant, PTL

\* No late or repeated offer starts a receive again (Broker::reconcile).
THEOREM ReceivesOnce == Spec => []NoResurrection
<1>1. DeliveryInv => NoResurrection
  <2> SUFFICES ASSUME DeliveryInv PROVE NoResurrection OBVIOUS
  <2>1. \A i \in Send : begun[i] <= 1 BY DEF DeliveryInv, OffersOK
  <2>2. ASSUME NEW i \in Send PROVE Cardinality({n \in 1..Len(queue) : queue[n] = i}) <= 1
    <3> DEFINE at == {n \in 1..Len(queue) : queue[n] = i}
    <3>1. CASE at = {}
      <4>1. Cardinality(at) = 0 BY <3>1, FS_EmptySet
      <4> QED BY <4>1
    <3>2. CASE at # {}
      <4>1. PICK n \in at : TRUE BY <3>2
      <4>2. at = {n} BY <4>1 DEF DeliveryInv, OffersOK
      <4>3. Cardinality(at) = 1 BY <4>2, FS_Singleton
      <4> QED BY <4>3
    <3> QED BY <3>1, <3>2
  <2> QED BY <2>1, <2>2 DEF NoResurrection
<1> QED BY <1>1, DeliveryInvariant, PTL

\* A subscription is committed only under a ticket that is alive when the
\* awaited capture startup returns (Subscribe and SwitchSource).
THEOREM CommitsUnderTicket == Spec => CommitsAlive
<1> DEFINE Commits == \A p \in Pull : busy = p /\ busy' = NoPull /\ Open(p)' => ClaimAlive(p)
<1>1. ASSUME DeliveryInv, [Next]_vars PROVE [Commits]_vars
  <2> SUFFICES ASSUME NEW p \in Pull, busy = p, busy' = NoPull, Open(p)', ~ClaimAlive(p) PROVE FALSE
    OBVIOUS
  <2>1. p # NoPull /\ pulls \in [Pull -> Connections]
    BY <1>1, PullFacts, TypesAgree DEF DeliveryInv, Typed
  <2>2. busy' # busy BY <2>1
  <2>3. ~SenderStep
    BY <2>2 DEF SenderStep, SendScreen, RegisterFails, SendOffer, RenewIntent, SendEnds, Revoke,
                SendCancel, SourceRestarts, TakeReceipt, pulling
  <2>4. ~TargetStep
    BY <2>2 DEF TargetStep, HandleOffer, HandleCancel, OfferLapses, ControlLost, TargetTick, WorkerTakes,
                WorkerReceives, WorkerFails, WorkerAccepts, WorkerWatches, WorkerGivesUp, WorkerEnds,
                WorkerStops, pulling
  <2>5. ~WindowStep
    BY <2>2 DEF WindowStep, OpenPull, RouteFails, AttachSession, SessionFails, BindEnds, pulling
  <2>6. SourceStep BY <1>1, <2>2, <2>3, <2>4, <2>5 DEF Next, vars
  <2>7. PICK q \in Pull : SubscribeEnds(q)
    BY <2>1, <2>2, <2>6
       DEF SourceStep, VerifyRegistration, Register, TicketLapses, ExpireTickets, HostTick,
           HandleClaim, HandleSubscribe, PullLost, PullTornDown, pulling
  <2>8. q = p BY <2>7 DEF SubscribeEnds
  <2>9. pulls'[p].conn = "closed"
    <3>1. PICK on : pulls' = [pulls EXCEPT ![p].sub = on, ![p].conn = "closed"]
      BY <2>7, <2>8 DEF SubscribeEnds
    <3> QED BY <2>1, <3>1 DEF Connections
  <2> QED BY <2>9 DEF Open
<1>2. DeliveryInv /\ [Next]_vars => [Commits]_vars BY <1>1
<1>3. Spec => [][Commits]_vars BY <1>2, DeliveryInvariant, PTL DEF Spec
<1> QED BY <1>3 DEF CommitsAlive

===============================================================================
