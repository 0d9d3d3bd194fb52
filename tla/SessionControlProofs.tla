------------------------ MODULE SessionControlProofs ------------------------
(***************************************************************************)
(* A confirmed stop is final, video is let through only for the latest     *)
(* source, and activity and settings that nobody waits for any more are in *)
(* effect: for every number of subscriptions, sources and revisions and    *)
(* for every order in which commands and answers arrive.                   *)
(***************************************************************************)
EXTENDS SessionControl, TLAPS

\* What the type of a message says about its fields (SessionCommand).
LEMMA MessageFields ==
  ASSUME NEW m \in Commands \cup Replies
  PROVE  /\ m.type \in {"Subscribe", "Unsubscribe"} => m.id \in Id
         /\ m.type = "SetActivity" =>
              m.id \in Id /\ m.rev \in Nat /\ m.media \subseteq Media
         /\ m.type = "Configure" => m.id \in Id /\ m.rev \in Nat
         /\ m.type = "SwitchSource" =>
              m.id \in Id /\ m.req \in Nat /\ m.source \in Source
         /\ m.type \in {"Subscribed", "Unsubscribed"} => m.id \in Id
         /\ m.type = "Unsubscribed" => m = [type |-> "Unsubscribed", id |-> m.id]
         /\ m.type = "Activity" =>
              m.id \in Id /\ m.rev \in Nat /\ m.media \subseteq Media
         /\ m.type = "Configured" => m.id \in Id /\ m.rev \in Nat
         /\ m.type = "SourceSwitched" =>
              m.id \in Id /\ m.req \in Nat /\ m.source \in Source
         /\ m.type = "Error" => m.num \in Id \cup Nat
  BY DEF Commands, Replies

\* The commands and replies the two sides build are messages.
LEMMA MessagesBuilt ==
  ASSUME NEW id \in Id, NEW rev \in Nat, NEW source \in Source,
         NEW media \in SUBSET Media
  PROVE  /\ SubscribeCmd(id) \in Commands
         /\ UnsubscribeCmd(id) \in Commands
         /\ ActivityCmd(id, rev, media) \in Commands
         /\ ConfigureCmd(id, rev) \in Commands
         /\ SwitchCmd(id, rev, source) \in Commands
         /\ Error(id) \in Replies /\ Error(rev) \in Replies
         /\ [type |-> "Subscribed", id |-> id] \in Replies
         /\ [type |-> "Unsubscribed", id |-> id] \in Replies
         /\ [type |-> "Activity", id |-> id, rev |-> rev, media |-> media] \in Replies
         /\ [type |-> "Configured", id |-> id, rev |-> rev] \in Replies
         /\ [type |-> "SourceSwitched", id |-> id, req |-> rev, source |-> source]
              \in Replies
  BY DEF SubscribeCmd, UnsubscribeCmd, ActivityCmd, ConfigureCmd, SwitchCmd,
         Error, Commands, Replies

\* What the frontend's requests make of a view is a view.
LEMMA ViewsBuilt ==
  ASSUME NEW v \in Views, NEW media \in SUBSET Media, NEW source \in Source
  PROVE  /\ v.act + 1 \in Nat /\ v.req + 1 \in Nat
         /\ Demanding(v, media) \in Views
         /\ Switching(v, source) \in Views
<1>1. v.act + 1 \in Nat /\ v.req + 1 \in Nat
  BY DEF Views
<1>2. Demanding(v, media) \in Views
  <2>1. v.active \cap media \in SUBSET Media
    BY DEF Views
  <2>2. QED
    BY <1>1, <2>1 DEF Demanding, Views
<1>3. Switching(v, source) \in Views
  BY <1>1 DEF Switching, Views
<1>4. QED
  BY <1>1, <1>2, <1>3

\* The viewer's steps: the views and the table keep their types, and no
\* confirmation is made up.
LEMMA FrontendStep ==
  ASSUME ReceiptsHold, NEW id \in Id, Frontend(id)
  PROVE  ReceiptsHold'
<1> USE SessionAssumption
<1>1. NoView \in Views /\ NewView \in Views /\ view[id] \in Views
  BY DEF NoView, NewView, Views, ReceiptsHold, TypeOK
<1>2. ASSUME NEW c \in Commands, NEW dropped, Request(c, dropped),
             c.type # "Unsubscribed", view' \in [Id -> Views],
             UNCHANGED <<host, log>>
      PROVE  ReceiptsHold'
  <2>1. pending' \subseteq Commands /\ net' \subseteq Commands \cup Replies
    BY <1>2 DEF Request, ReceiptsHold, TypeOK
  <2>2. \A i \in Id : [type |-> "Unsubscribed", id |-> i] \in net' =>
          [type |-> "Unsubscribed", id |-> i] \in net
    BY <1>2 DEF Request
  <2>3. QED
    BY <1>2, <2>1, <2>2 DEF ReceiptsHold, TypeOK
<1>3. CASE Subscribe(id)
  BY <1>1, <1>2, <1>3, MessagesBuilt
     DEF Subscribe, SubscribeCmd, HostSame, ReceiptsHold, TypeOK
<1>4. CASE Unsubscribe(id)
  <2>1. Removed(view[id]) \in Views
    BY <1>1 DEF Removed, Views
  <2>2. QED
    BY <1>2, <1>4, <2>1, MessagesBuilt
       DEF Unsubscribe, UnsubscribeCmd, HostSame, ReceiptsHold, TypeOK
<1>5. CASE Configure(id)
  <2>1. view' \in [Id -> Views] /\ view[id].set + 1 \in Nat
    <3>1. view \in [Id -> Views]
      BY DEF ReceiptsHold, TypeOK
    <3>2. /\ view[id].set + 1 \in Nat
          /\ [view[id] EXCEPT !.set = view[id].set + 1] \in Views
      BY <1>1 DEF Views
    <3>3. QED
      BY <1>5, <3>1, <3>2 DEF Configure
  <2>2. ConfigureCmd(id, view[id].set + 1) \in Commands
    BY <2>1, MessagesBuilt
  <2>3. QED
    BY <1>2, <1>5, <2>1, <2>2 DEF Configure, ConfigureCmd, HostSame
<1>6. ASSUME NEW media \in Demands, SetActivity(id, media)
      PROVE  ReceiptsHold'
  <2>1. view' \in [Id -> Views] /\ view[id].act + 1 \in Nat
    BY <1>6, ViewsBuilt DEF SetActivity, ReceiptsHold, TypeOK
  <2>2. ActivityCmd(id, view[id].act + 1, media) \in Commands
    BY <2>1, MessagesBuilt
  <2>3. QED
    BY <1>2, <1>6, <2>1, <2>2 DEF SetActivity, ActivityCmd, HostSame
<1>7. ASSUME NEW source \in Source, SwitchSource(id, source)
      PROVE  ReceiptsHold'
  <2>1. view' \in [Id -> Views] /\ view[id].req + 1 \in Nat
    BY <1>7, ViewsBuilt DEF SwitchSource, ReceiptsHold, TypeOK
  <2>2. SwitchCmd(id, view[id].req + 1, source) \in Commands
    BY <2>1, MessagesBuilt
  <2>3. QED
    BY <1>2, <1>7, <2>1, <2>2 DEF SwitchSource, SwitchCmd, HostSame
<1>8. QED
  BY <1>3, <1>4, <1>5, <1>6, <1>7 DEF Frontend

\* A request whose time is up.
LEMMA TimerStep ==
  ASSUME ReceiptsHold, Timer
  PROVE  ReceiptsHold'
<1>1. PICK c \in pending : ExpireSubscribe(c) \/ ExpireOther(c)
  BY DEF Timer
<1>2. c \in Commands /\ c.id \in Id
  BY <1>1, MessageFields DEF ReceiptsHold, TypeOK, Commands
<1>3. view[c.id] \in Views /\ log[c.id] \in Logs
  BY <1>2 DEF ReceiptsHold, TypeOK
<1>4. CASE ExpireSubscribe(c)
  <2>1. Removed(view[c.id]) \in Views
    BY <1>3 DEF Removed, Views
  <2>2. view' \in [Id -> Views] /\ log' \in [Id -> Logs]
    BY <1>3, <1>4, <2>1 DEF ExpireSubscribe, Logs, ReceiptsHold, TypeOK
  <2>3. pending' \subseteq Commands /\ net' \subseteq Commands \cup Replies
    BY <1>2, <1>4, MessagesBuilt, SessionAssumption
       DEF ExpireSubscribe, Request, UnsubscribeCmd, Commands, ReceiptsHold, TypeOK
  <2>4. \A i \in Id : /\ log'[i].stopped = log[i].stopped
                      /\ [type |-> "Unsubscribed", id |-> i] \in net' =>
                           [type |-> "Unsubscribed", id |-> i] \in net
    BY <1>4 DEF ExpireSubscribe, Request, UnsubscribeCmd, Logs, ReceiptsHold, TypeOK
  <2>5. QED
    BY <1>4, <2>2, <2>3, <2>4 DEF ExpireSubscribe, HostSame, ReceiptsHold, TypeOK
<1>5. CASE ExpireOther(c)
  BY <1>2, <1>3, <1>5 DEF ExpireOther, Logs, ReceiptsHold, TypeOK
<1>6. QED
  BY <1>1, <1>4, <1>5

\* A reply reaches the viewer; only Unsubscribed tells it of a stop.
LEMMA ReplyStep ==
  ASSUME ReceiptsHold, NEW m \in net, ViewerReceives(m)
  PROVE  ReceiptsHold'
<1>1. m \in Commands \cup Replies
  BY DEF ReceiptsHold, TypeOK
<1>2. CASE ReceiveSubscribed(m)
  <2>1. m.id \in Id
    BY <1>1, <1>2, MessageFields DEF ReceiveSubscribed
  <2>2. Accepted(view[m.id]) \in Views
    BY <2>1 DEF Accepted, Views, ReceiptsHold, TypeOK
  <2>3. view' \in [Id -> Views]
    BY <1>2, <2>1, <2>2 DEF ReceiveSubscribed, ReceiptsHold, TypeOK
  <2>4. QED
    BY <1>2, <2>3 DEF ReceiveSubscribed, ReceiptsHold, TypeOK
<1>3. CASE ReceiveActivity(m)
  <2>1. m.id \in Id /\ m.media \subseteq Media
    BY <1>1, <1>3, MessageFields DEF ReceiveActivity
  <2>2. view' \in [Id -> Views]
    <3>1. view \in [Id -> Views]
      BY DEF ReceiptsHold, TypeOK
    <3>2. [view[m.id] EXCEPT !.active = m.media \cap view[m.id].wanted] \in Views
      BY <2>1, <3>1 DEF Views
    <3>3. QED
      BY <1>3, <2>1, <3>1, <3>2 DEF ReceiveActivity
  <2>3. QED
    BY <1>3, <2>2 DEF ReceiveActivity, ReceiptsHold, TypeOK
<1>4. CASE ReceiveConfigured(m) \/ ReceiveSwitched(m)
  BY <1>4 DEF ReceiveConfigured, ReceiveSwitched, ReceiptsHold, TypeOK
<1>5. CASE ReceiveUnsubscribed(m)
  <2>1. m.id \in Id /\ m = [type |-> "Unsubscribed", id |-> m.id]
    BY <1>1, <1>5, MessageFields DEF ReceiveUnsubscribed
  <2>2. host[m.id].receipt = "ok"
    BY <2>1 DEF ReceiptsHold
  <2>3. log' \in [Id -> Logs]
        /\ \A i \in Id : i # m.id => log'[i] = log[i]
    BY <1>5, <2>1 DEF ReceiveUnsubscribed, Logs, ReceiptsHold, TypeOK
  <2>4. QED
    BY <1>5, <2>2, <2>3 DEF ReceiveUnsubscribed, ReceiptsHold, TypeOK
<1>6. CASE ReceiveError(m)
  <2>1. log' \in [Id -> Logs] /\ \A i \in Id : log'[i].stopped = log[i].stopped
    BY <1>6 DEF ReceiveError, Logs, ReceiptsHold, TypeOK
  <2>2. QED
    BY <1>6, <2>1 DEF ReceiveError, ReceiptsHold, TypeOK
<1>7. QED
  BY <1>2, <1>3, <1>4, <1>5, <1>6 DEF ViewerReceives

\* A step of the host that keeps a receipt once it is good, and confirms only
\* what has one.
LEMMA HostChange ==
  ASSUME ReceiptsHold, NEW id \in Id, NEW s \in Subs, NEW replies \in SUBSET Replies,
         HostBecomes(id, s, replies) \/ HostLoses(id, s, replies),
         host[id].receipt = "ok" => s.receipt = "ok",
         s.receipt = "ok" => s.st = "none",
         \A i \in Id : [type |-> "Unsubscribed", id |-> i] \in replies =>
                         i = id /\ s.receipt = "ok"
  PROVE  ReceiptsHold'
<1>1. /\ host' = [host EXCEPT ![id] = s] /\ net' = net \cup replies
      /\ UNCHANGED <<view, pending>>
  BY DEF HostBecomes, HostLoses, ViewerSame
<1>2. log' \in [Id -> Logs] /\ \A i \in Id : log'[i].stopped = log[i].stopped
  <2>1. CASE log' = log
    BY <2>1 DEF ReceiptsHold, TypeOK
  <2>2. CASE log' = [log EXCEPT ![id].ended = TRUE]
    BY <2>2 DEF Logs, ReceiptsHold, TypeOK
  <2>3. QED
    BY <2>1, <2>2 DEF HostBecomes, HostLoses
<1>3. TypeOK'
  BY <1>1, <1>2 DEF ReceiptsHold, TypeOK
<1>4. \A i \in Id : host'[i] = IF i = id THEN s ELSE host[i]
  BY <1>1 DEF ReceiptsHold, TypeOK
<1>5. QED
  BY <1>1, <1>2, <1>3, <1>4 DEF ReceiptsHold

\* A command reaches the host.
LEMMA CommandStep ==
  ASSUME ReceiptsHold, NEW m \in net, HostReceives(m)
  PROVE  ReceiptsHold'
<1> USE SessionAssumption
<1> DEFINE s == host[m.id]
<1>1. m \in Commands \cup Replies
  BY DEF ReceiptsHold, TypeOK
<1>2. m.id \in Id
  BY <1>1, MessageFields DEF HostReceives, HostSubscribe, HostSwitch, HostActivity,
                             HostConfigure, HostUnsubscribe
<1>3. s \in Subs /\ (s.receipt = "ok" => s.st = "none")
  BY <1>2 DEF ReceiptsHold, TypeOK
<1>4. NoSub \in Subs
  BY DEF NoSub, Subs
<1>5. \A n : \A i : Error(n) # [type |-> "Unsubscribed", id |-> i]
  BY DEF Error
<1>6. Error(m.id) \in Replies
  BY <1>2 DEF Error, Replies
<1>7. CASE HostSubscribe(m)
  <2> DEFINE reply == [type |-> "Subscribed", id |-> m.id]
             fresh == [NoSub EXCEPT !.st = "live"]
             again == [s EXCEPT !.cfg = 0]
  <2>1. reply \in Replies /\ \A i : reply # [type |-> "Unsubscribed", id |-> i]
    BY <1>2 DEF Replies
  <2>2. /\ fresh \in Subs /\ fresh.receipt = "none" /\ fresh.st = "live"
        /\ again \in Subs /\ again.receipt = s.receipt /\ again.st = s.st
    BY <1>3, <1>4 DEF NoSub, Subs
  <2>3. \/ HostBecomes(m.id, s, {Error(m.id)})
        \/ \E extra \in {{}, {Error(m.id)}} :
             HostBecomes(m.id, again, {reply} \cup extra)
        \/ /\ s.receipt = "none"
           /\ \E extra \in {{}, {Error(m.id)}} :
                HostBecomes(m.id, fresh, {reply} \cup extra)
    BY <1>7 DEF HostSubscribe, Success
  <2> HIDE DEF reply, fresh, again, s
  <2>4. CASE HostBecomes(m.id, s, {Error(m.id)})
    BY <1>2, <1>3, <1>5, <1>6, <2>4, HostChange DEF s
  <2>5. ASSUME NEW extra \in {{}, {Error(m.id)}},
               HostBecomes(m.id, again, {reply} \cup extra)
        PROVE  ReceiptsHold'
    BY <1>2, <1>3, <1>5, <1>6, <2>1, <2>2, <2>5, HostChange DEF s
  <2>6. ASSUME NEW extra \in {{}, {Error(m.id)}}, s.receipt = "none",
               HostBecomes(m.id, fresh, {reply} \cup extra)
        PROVE  ReceiptsHold'
    BY <1>2, <1>5, <1>6, <2>1, <2>2, <2>6, HostChange DEF s
  <2>7. QED
    BY <2>3, <2>4, <2>5, <2>6
<1>8. CASE HostSwitch(m)
  <2> DEFINE reply == [type |-> "SourceSwitched", id |-> m.id, req |-> m.req,
                       source |-> m.source]
             shown == [s EXCEPT !.st = "live", !.source = m.source, !.rev = m.req]
             over  == [s EXCEPT !.st = "over"]
  <2>1. m.req \in Nat /\ m.source \in Source
    BY <1>1, <1>8, MessageFields DEF HostSwitch
  <2>2. /\ reply \in Replies /\ \A i : reply # [type |-> "Unsubscribed", id |-> i]
        /\ Error(m.req) \in Replies
    BY <1>2, <2>1 DEF Replies, Error
  <2>3. /\ shown \in Subs /\ shown.receipt = s.receipt
        /\ over \in Subs /\ over.receipt = s.receipt
        /\ NoSub.receipt = "none"
    BY <1>3, <2>1 DEF Subs, NoSub
  <2>4. \/ HostBecomes(m.id, s, {Error(m.req)})
        \/ \E extra \in {{}, {Error(m.id)}} : HostBecomes(m.id, s, {reply} \cup extra)
        \/ /\ s.receipt = "none"
           /\ \/ \E extra \in {{}, {Error(m.id)}} :
                   HostBecomes(m.id, shown, {reply} \cup extra)
              \/ HostLoses(m.id, over, {Error(m.req)})
              \/ HostLoses(m.id, NoSub, {Error(m.req)})
    BY <1>8 DEF HostSwitch, Success
  <2> HIDE DEF reply, shown, over, s
  <2>5. CASE HostBecomes(m.id, s, {Error(m.req)})
    BY <1>2, <1>3, <1>5, <2>2, <2>5, HostChange DEF s
  <2>6. ASSUME NEW extra \in {{}, {Error(m.id)}},
               HostBecomes(m.id, s, {reply} \cup extra)
        PROVE  ReceiptsHold'
    BY <1>2, <1>3, <1>5, <1>6, <2>2, <2>6, HostChange DEF s
  <2>7. ASSUME NEW extra \in {{}, {Error(m.id)}}, s.receipt = "none",
               HostBecomes(m.id, shown, {reply} \cup extra)
        PROVE  ReceiptsHold'
    BY <1>2, <1>5, <1>6, <2>2, <2>3, <2>7, HostChange DEF s
  <2>8. CASE s.receipt = "none" /\ HostLoses(m.id, over, {Error(m.req)})
    BY <1>2, <1>5, <2>2, <2>3, <2>8, HostChange DEF s
  <2>9. CASE s.receipt = "none" /\ HostLoses(m.id, NoSub, {Error(m.req)})
    BY <1>2, <1>4, <1>5, <2>2, <2>3, <2>9, HostChange DEF s
  <2>10. QED
    BY <2>4, <2>5, <2>6, <2>7, <2>8, <2>9
<1>9. CASE HostActivity(m)
  <2> DEFINE t == ActivityApplied(s, m)
             reply == [type |-> "Activity", id |-> m.id, rev |-> t.act,
                       media |-> t.media]
  <2>1. m.rev \in Nat /\ m.media \subseteq Media
    BY <1>1, <1>9, MessageFields DEF HostActivity
  <2>2. t \in Subs /\ t.receipt = s.receipt /\ t.st = s.st
    BY <1>3, <2>1 DEF ActivityApplied, Subs
  <2>3. HostBecomes(m.id, t, {reply})
    BY <1>9 DEF HostActivity
  <2> HIDE DEF t, s
  <2>4. reply \in Replies /\ \A i : reply # [type |-> "Unsubscribed", id |-> i]
    BY <1>2, <2>2 DEF Replies, Subs
  <2> HIDE DEF reply
  <2>5. QED
    BY <1>2, <1>3, <2>2, <2>3, <2>4, HostChange DEF s
<1>10. CASE HostConfigure(m)
  <2> DEFINE t == IF m.rev > s.set THEN [s EXCEPT !.set = m.rev, !.cfg = m.rev] ELSE s
             reply == [type |-> "Configured", id |-> m.id, rev |-> t.set]
  <2>1. m.rev \in Nat
    BY <1>1, <1>10, MessageFields DEF HostConfigure
  <2>2. t \in Subs /\ t.receipt = s.receipt /\ t.st = s.st
    BY <1>3, <2>1 DEF Subs
  <2>3. HostBecomes(m.id, s, {Error(m.id)}) \/ HostBecomes(m.id, t, {reply})
    BY <1>10 DEF HostConfigure
  <2> HIDE DEF t, s
  <2>4. reply \in Replies /\ \A i : reply # [type |-> "Unsubscribed", id |-> i]
    BY <1>2, <2>2 DEF Replies, Subs
  <2> HIDE DEF reply
  <2>5. CASE HostBecomes(m.id, s, {Error(m.id)})
    BY <1>2, <1>3, <1>5, <1>6, <2>5, HostChange DEF s
  <2>6. CASE HostBecomes(m.id, t, {reply})
    BY <1>2, <1>3, <2>2, <2>4, <2>6, HostChange DEF s
  <2>7. QED
    BY <2>3, <2>5, <2>6
<1>11. CASE HostUnsubscribe(m)
  <2> DEFINE reply == [type |-> "Unsubscribed", id |-> m.id]
             failed == [NoSub EXCEPT !.receipt = "err"]
             stuck == [s EXCEPT !.st = "stuck", !.receipt = "err"]
  <2>1. reply \in Replies /\ \A i : reply = [type |-> "Unsubscribed", id |-> i]
                                      => i = m.id
    BY <1>2 DEF Replies
  <2>2. /\ Stopped(s) \in Subs /\ Stopped(s).receipt = "ok" /\ Stopped(s).st = "none"
        /\ failed \in Subs /\ failed.receipt = "err"
        /\ stuck \in Subs /\ stuck.receipt = "err"
    BY <1>3, <1>4 DEF Stopped, NoSub, Subs
  <2>3. \/ s.receipt = "ok" /\ HostBecomes(m.id, s, {reply})
        \/ HostBecomes(m.id, s, {Error(m.id)})
        \/ HostBecomes(m.id, Stopped(s), {reply})
        \/ /\ s.receipt # "ok"
           /\ \/ HostBecomes(m.id, failed, {Error(m.id)})
              \/ HostBecomes(m.id, stuck, {Error(m.id)})
    BY <1>11 DEF HostUnsubscribe
  <2> HIDE DEF reply, failed, stuck, s
  <2>4. CASE s.receipt = "ok" /\ HostBecomes(m.id, s, {reply})
    BY <1>2, <1>3, <2>1, <2>4, HostChange DEF s
  <2>5. CASE HostBecomes(m.id, s, {Error(m.id)})
    BY <1>2, <1>3, <1>5, <1>6, <2>5, HostChange DEF s
  <2>6. CASE HostBecomes(m.id, Stopped(s), {reply})
    BY <1>2, <2>1, <2>2, <2>6, HostChange DEF s
  <2>7. CASE s.receipt # "ok" /\ HostBecomes(m.id, failed, {Error(m.id)})
    BY <1>2, <1>5, <1>6, <2>2, <2>7, HostChange DEF s
  <2>8. CASE s.receipt # "ok" /\ HostBecomes(m.id, stuck, {Error(m.id)})
    BY <1>2, <1>5, <1>6, <2>2, <2>8, HostChange DEF s
  <2>9. QED
    BY <2>3, <2>4, <2>5, <2>6, <2>7, <2>8
<1>12. QED
  BY <1>7, <1>8, <1>9, <1>10, <1>11 DEF HostReceives

\* What happens to captures beside the commands.
LEMMA CaptureStep ==
  ASSUME ReceiptsHold, NEW id \in Id, CaptureEnds(id) \/ Prune(id)
  PROVE  ReceiptsHold'
<1> USE SessionAssumption
<1> DEFINE s == host[id]
           over == [s EXCEPT !.st = "over"]
           kept == [NoSub EXCEPT !.receipt = s.receipt]
           bad  == [NoSub EXCEPT !.receipt = "err"]
<1>1. s \in Subs /\ (s.receipt = "ok" => s.st = "none")
  BY DEF ReceiptsHold, TypeOK
<1>2. /\ over \in Subs /\ over.receipt = s.receipt
      /\ kept \in Subs /\ kept.receipt = s.receipt
      /\ bad \in Subs /\ bad.receipt = "err"
  BY <1>1 DEF NoSub, Subs
<1>3. /\ Error(id) \in Replies
      /\ \A i : Error(id) # [type |-> "Unsubscribed", id |-> i]
  BY DEF Error, Replies
<1>4. /\ s.receipt # "ok"
      /\ \/ \E extra \in {{}, {Error(id)}} : HostLoses(id, over, extra)
         \/ HostBecomes(id, kept, {}) \/ HostBecomes(id, bad, {})
  BY <1>1 DEF CaptureEnds, Prune
<1> HIDE DEF over, kept, bad, s
<1>5. ASSUME NEW extra \in {{}, {Error(id)}}, HostLoses(id, over, extra)
      PROVE  ReceiptsHold'
  BY <1>2, <1>3, <1>4, <1>5, HostChange DEF s
<1>6. CASE HostBecomes(id, kept, {})
  BY <1>2, <1>4, <1>6, HostChange DEF s
<1>7. CASE HostBecomes(id, bad, {})
  BY <1>2, <1>4, <1>7, HostChange DEF s
<1>8. QED
  BY <1>4, <1>5, <1>6, <1>7

\* A good receipt is never lost and nothing is confirmed without one, however
\* commands, retries and replies are delayed, repeated and reordered.
THEOREM ReceiptsCorrect == Spec => []ReceiptsHold
<1>1. Init => ReceiptsHold
  BY SessionAssumption
     DEF Init, ReceiptsHold, TypeOK, NoView, Views, NoSub, Subs, Logs
<1>2. ReceiptsHold /\ [Next]_vars => ReceiptsHold'
  <2> SUFFICES ASSUME ReceiptsHold, [Next]_vars PROVE ReceiptsHold'
    OBVIOUS
  <2>1. CASE UNCHANGED vars
    BY <2>1 DEF vars, ReceiptsHold, TypeOK
  <2>2. CASE Next
    BY <2>2, FrontendStep, CaptureStep, TimerStep, ReplyStep, CommandStep DEF Next
  <2>3. QED
    BY <2>1, <2>2
<1>3. QED
  BY <1>1, <1>2, PTL DEF Spec

\* Once the viewer has seen Unsubscribed, the host never captures for that
\* subscription again (Connection::unsubscribe, Connection::retired).
THEOREM StopIsFinal == Spec => []ConfirmedStop
<1>1. ReceiptsHold => ConfirmedStop
  BY DEF ReceiptsHold, ConfirmedStop
<1>2. QED
  BY <1>1, ReceiptsCorrect, PTL
-----------------------------------------------------------------------------
(* The order of source switches. ReceiptsHold gives the types before and    *)
(* after each step.                                                         *)

\* A step of the viewer that sends no switch: views and table may only lose
\* what the log or the view accounts for.
LEMMA ViewerKeepsOrder ==
  ASSUME ReceiptsHold, ReceiptsHold', SwitchesOrdered, UNCHANGED host,
         \A i \in Id : /\ view'[i].req = view[i].req /\ view'[i].source = view[i].source
                       /\ view'[i].st = "none" => view[i].st = "none"
                       /\ view[i].st = "gone" => view'[i].st = "gone"
                       /\ log'[i].ended = log[i].ended
                       /\ log[i].refused => log'[i].refused
                       /\ UnsubscribeCmd(i) \in net' \ net => view'[i].st = "gone"
                       /\ Waiting("SwitchSource", i)' \subseteq Waiting("SwitchSource", i)
                       /\ \/ Waiting("SwitchSource", i)' = Waiting("SwitchSource", i)
                          \/ view'[i].st = "gone" \/ log'[i].refused,
         \A m \in net' \ net : m.type \notin {"SwitchSource", "SourceSwitched"}
  PROVE  SwitchesOrdered'
<1> SUFFICES ASSUME NEW id \in Id PROVE SwitchOrder(id)'
  BY DEF SwitchesOrdered
<1>0. SwitchOrder(id)
  BY DEF SwitchesOrdered
<1>1. Lost(id) => Lost(id)'
  BY DEF Lost
<1>2. /\ view[id] \in Views /\ view'[id] \in Views /\ host[id] \in Subs
      /\ log[id] \in Logs /\ log'[id] \in Logs
  BY DEF ReceiptsHold, TypeOK
<1>3. view'[id].st = "open" => view[id].st \in {"none", "open"}
  BY <1>2 DEF Views
<1>4. view[id].st = "none" => host[id].rev = view[id].req
  BY <1>0, <1>2 DEF SwitchOrder, Views, Subs
<1>5. QED
  BY <1>0, <1>1, <1>2, <1>3, <1>4 DEF SwitchOrder

\* A step of the host: what it becomes is no further than the frontend and no
\* less far than it was, or the subscription is lost; it confirms only what it
\* shows.
LEMMA HostKeepsOrder ==
  ASSUME ReceiptsHold, SwitchesOrdered,
         NEW id \in Id, NEW s \in Subs, NEW replies \in SUBSET Replies,
         HostBecomes(id, s, replies) \/ HostLoses(id, s, replies),
         s.rev <= view[id].req, s.rev = view[id].req => s.source = view[id].source,
         s.st \in {"over", "stuck"} => Lost(id)', s.st = "none" => s.rev = 0,
         s.rev >= host[id].rev \/ Lost(id)',
         \A m \in replies : m.type = "SourceSwitched" => m.id = id /\ m.req <= s.rev
  PROVE  SwitchesOrdered'
<1>1. /\ host' = [host EXCEPT ![id] = s] /\ net' = net \cup replies
      /\ UNCHANGED <<view, pending>>
  BY DEF HostBecomes, HostLoses, ViewerSame
<1>2. /\ \A i \in Id : /\ log'[i].refused = log[i].refused
                       /\ log[i].ended => log'[i].ended
                       /\ i # id => log'[i] = log[i]
  BY DEF HostBecomes, HostLoses, Logs, ReceiptsHold, TypeOK
<1>3. \A m \in replies : m.type # "SwitchSource" /\ m.type # "Unsubscribe"
  BY DEF Replies
<1> SUFFICES ASSUME NEW i \in Id PROVE SwitchOrder(i)'
  BY DEF SwitchesOrdered
<1>4. SwitchOrder(i)
  BY DEF SwitchesOrdered
<1>5. /\ Lost(i) => Lost(i)'
      /\ Waiting("SwitchSource", i)' = Waiting("SwitchSource", i)
      /\ UnsubscribeCmd(i) \in net' => UnsubscribeCmd(i) \in net
  BY <1>1, <1>2, <1>3 DEF Lost, Waiting, UnsubscribeCmd
<1>6. /\ view[i] \in Views /\ host[i] \in Subs
      /\ \A m \in replies : m.type = "SourceSwitched" => m.req \in Nat
  BY MessageFields DEF ReceiptsHold, TypeOK
<1>7. CASE i # id
  <2>1. host'[i] = host[i] /\ log'[i] = log[i]
    BY <1>1, <1>2, <1>7 DEF ReceiptsHold, TypeOK
  <2>2. QED
    BY <1>1, <1>3, <1>4, <1>5, <1>7, <2>1 DEF SwitchOrder
<1>8. CASE i = id
  <2>1. host'[i] = s
    BY <1>1, <1>8 DEF ReceiptsHold, TypeOK
  <2>2. \A m \in net' :
          /\ m.type = "SwitchSource" /\ m.id = i =>
               m.req <= view[i].req /\ (m.req = view[i].req => m.source = view[i].source)
          /\ m.type = "SourceSwitched" /\ m.id = i => m.req <= s.rev \/ Lost(i)'
    <3> SUFFICES ASSUME NEW m \in net', m.id = i
                 PROVE  /\ m.type = "SwitchSource" =>
                             /\ m.req <= view[i].req
                             /\ m.req = view[i].req => m.source = view[i].source
                        /\ m.type = "SourceSwitched" => m.req <= s.rev \/ Lost(i)'
      OBVIOUS
    <3>1. CASE m \in net
      <4>1. m.type = "SourceSwitched" => m.req \in Nat
        BY <3>1, MessageFields DEF ReceiptsHold, TypeOK
      <4>2. QED
        BY <1>4, <1>5, <1>6, <1>8, <3>1, <4>1 DEF SwitchOrder, Subs
    <3>2. CASE m \in replies
      BY <1>3, <3>2
    <3>3. QED
      BY <1>1, <3>1, <3>2
  <2>3. /\ view[i].st = "open" /\ ~log'[i].refused /\ ~log'[i].ended
             /\ Waiting("SwitchSource", i)' = {} => s.rev = view[i].req
    BY <1>1, <1>2, <1>4, <1>5, <1>6, <1>8 DEF SwitchOrder, Lost, Subs, Views
  <2>4. QED
    BY <1>1, <1>4, <1>5, <1>6, <1>8, <2>1, <2>2, <2>3 DEF SwitchOrder
<1>9. QED
  BY <1>7, <1>8

\* The frontend's requests.
LEMMA FrontendOrder ==
  ASSUME ReceiptsHold, ReceiptsHold', SwitchesOrdered, NEW id \in Id, Frontend(id)
  PROVE  SwitchesOrdered'
<1>1. view \in [Id -> Views] /\ view[id] \in Views /\ pending \subseteq Commands
  BY DEF ReceiptsHold, TypeOK
<1>2. ASSUME NEW c \in Commands, c.type \notin {"SwitchSource", "Unsubscribe"},
             Request(c, {}), UNCHANGED <<host, log>>,
             \A i \in Id : /\ view'[i].req = view[i].req
                           /\ view'[i].source = view[i].source
                           /\ view'[i].st = "none" => view[i].st = "none"
                           /\ view[i].st = "gone" => view'[i].st = "gone"
      PROVE  SwitchesOrdered'
  <2>1. \A m \in net' \ net : m.type \notin {"SwitchSource", "SourceSwitched", "Unsubscribe"}
    BY <1>2 DEF Request, Commands
  <2>2. \A i \in Id : UnsubscribeCmd(i) \notin net' \ net
    BY <2>1 DEF UnsubscribeCmd
  <2>3. \A i \in Id : Waiting("SwitchSource", i)' = Waiting("SwitchSource", i)
    BY <1>2 DEF Request, SameKey, Waiting
  <2>4. QED
    BY <1>2, <2>1, <2>2, <2>3, ViewerKeepsOrder
<1>3. CASE Subscribe(id)
  <2>1. view[id].req = 0 /\ view[id].source = First
    BY <1>3 DEF Subscribe, SwitchesOrdered, SwitchOrder
  <2>2. /\ UNCHANGED <<host, log>> /\ Request(SubscribeCmd(id), {})
        /\ SubscribeCmd(id) \in Commands /\ SubscribeCmd(id).type = "Subscribe"
    BY <1>3, MessagesBuilt, SessionAssumption DEF Subscribe, HostSame, SubscribeCmd, Commands
  <2>3. QED
    BY <1>1, <1>2, <1>3, <2>1, <2>2 DEF Subscribe, NewView, NoView
<1>4. CASE Configure(id)
  <2> DEFINE c == ConfigureCmd(id, view[id].set + 1)
  <2>1. UNCHANGED <<host, log>> /\ Request(c, {})
    BY <1>4 DEF Configure, HostSame
  <2>2. c \in Commands /\ c.type = "Configure"
    BY <1>1 DEF ConfigureCmd, Commands, Views
  <2>3. \A i \in Id : /\ view'[i].req = view[i].req /\ view'[i].source = view[i].source
                      /\ view'[i].st = view[i].st
    BY <1>1, <1>4 DEF Configure, Views
  <2>4. QED
    BY <1>2, <2>1, <2>2, <2>3
<1>5. ASSUME NEW media \in Demands, SetActivity(id, media)
      PROVE  SwitchesOrdered'
  <2> DEFINE c == ActivityCmd(id, view[id].act + 1, media)
  <2>1. UNCHANGED <<host, log>> /\ Request(c, {})
    BY <1>5 DEF SetActivity, HostSame
  <2>2. c \in Commands /\ c.type = "SetActivity"
    BY <1>1, SessionAssumption DEF ActivityCmd, Commands, Views
  <2>3. \A i \in Id : /\ view'[i].req = view[i].req /\ view'[i].source = view[i].source
                      /\ view'[i].st = view[i].st
    BY <1>1, <1>5 DEF SetActivity, Demanding, Views
  <2>4. QED
    BY <1>2, <2>1, <2>2, <2>3
<1>6. CASE Unsubscribe(id)
  <2>1. /\ UNCHANGED <<host, log>> /\ Request(UnsubscribeCmd(id), Retired(id))
        /\ view' = [view EXCEPT ![id] = Removed(@)]
    BY <1>6 DEF Unsubscribe, HostSame
  <2>2. \A i \in Id : /\ view'[i].req = view[i].req /\ view'[i].source = view[i].source
                      /\ view'[i].st = IF i = id THEN "gone" ELSE view[i].st
    BY <1>1, <2>1 DEF Removed, Views
  <2>3. \A i \in Id : /\ UnsubscribeCmd(i) \in net' \ net => i = id
                      /\ Waiting("SwitchSource", i)' \subseteq Waiting("SwitchSource", i)
                      /\ i # id => Waiting("SwitchSource", i)'
                                     = Waiting("SwitchSource", i)
    <3>1. \A i : UnsubscribeCmd(i) \in net' \ net => UnsubscribeCmd(i) = UnsubscribeCmd(id)
      BY <2>1 DEF Request
    <3>2. \A i \in Id : UnsubscribeCmd(i) \in net' \ net => i = id
      BY <3>1 DEF UnsubscribeCmd
    <3>3. \A d : d.type = "SwitchSource" =>
            /\ d \in pending' => d \in pending
            /\ d \in pending /\ d.id # id => d \in pending'
      BY <2>1 DEF Request, UnsubscribeCmd, Retired, SameKey
    <3>4. QED
      BY <3>2, <3>3 DEF Waiting
  <2>4. \A m \in net' \ net : m.type \notin {"SwitchSource", "SourceSwitched"}
    BY <2>1 DEF Request, UnsubscribeCmd
  <2>5. QED
    BY <2>1, <2>2, <2>3, <2>4, ViewerKeepsOrder
<1>7. ASSUME NEW source \in Source, SwitchSource(id, source)
      PROVE  SwitchesOrdered'
  <2> DEFINE c == SwitchCmd(id, view[id].req + 1, source)
  <2>1. /\ UNCHANGED <<host, log>> /\ view[id].st = "open"
        /\ net' = net \cup {c}
        /\ pending' = (pending \ Waiting("SwitchSource", id)) \cup {c}
    BY <1>7 DEF SwitchSource, HostSame, Request, SwitchCmd
  <2>2. /\ \A i \in Id : i # id => view'[i] = view[i]
        /\ view'[id].req = view[id].req + 1 /\ view'[id].source = source
        /\ view'[id].st = "open"
    BY <1>1, <1>7 DEF SwitchSource, Switching, Views
  <2>3. /\ \A i \in Id : i # id => Waiting("SwitchSource", i)'
                                     = Waiting("SwitchSource", i)
        /\ Waiting("SwitchSource", id)' = {c}
    BY <2>1 DEF Waiting, SwitchCmd
  <2>4. /\ c.type = "SwitchSource" /\ c.id = id /\ c.req = view[id].req + 1
        /\ c.source = source
    BY DEF SwitchCmd
  <2> SUFFICES ASSUME NEW i \in Id PROVE SwitchOrder(i)'
    BY DEF SwitchesOrdered
  <2>5. SwitchOrder(i) /\ (UnsubscribeCmd(i) \in net' => UnsubscribeCmd(i) \in net)
    BY <2>1, <2>4 DEF SwitchesOrdered, UnsubscribeCmd
  <2>6. CASE i # id
    <3>1. Lost(i)' = Lost(i)
      BY <2>1, <2>2, <2>6 DEF Lost
    <3>2. QED
      BY <2>1, <2>2, <2>3, <2>4, <2>5, <2>6, <3>1 DEF SwitchOrder
  <2>7. CASE i = id
    <3>1. Lost(i) => Lost(i)'
      BY <2>1, <2>2, <2>7 DEF Lost
    <3>2. view[id].req \in Nat /\ host[id].rev \in Nat
      BY DEF ReceiptsHold, TypeOK, Views, Subs
    <3>3. \A m \in net : m.type = "SwitchSource" => m.req \in Nat
      BY MessageFields DEF ReceiptsHold, TypeOK
    <3>4. QED
      BY <2>1, <2>2, <2>3, <2>4, <2>5, <2>7, <3>1, <3>2, <3>3 DEF SwitchOrder
  <2>8. QED
    BY <2>6, <2>7
<1>8. QED
  BY <1>3, <1>4, <1>5, <1>6, <1>7 DEF Frontend

\* A request whose time is up: giving up a switch is told to the frontend.
LEMMA TimerOrder ==
  ASSUME ReceiptsHold, ReceiptsHold', SwitchesOrdered, Timer
  PROVE  SwitchesOrdered'
<1>1. PICK c \in pending : ExpireSubscribe(c) \/ ExpireOther(c)
  BY DEF Timer
<1>2. c \in Commands /\ c.id \in Id
  BY <1>1, MessageFields DEF ReceiptsHold, TypeOK, Commands
<1>3. view \in [Id -> Views] /\ log \in [Id -> Logs]
  BY DEF ReceiptsHold, TypeOK
<1>4. CASE ExpireSubscribe(c)
  <2>1. /\ UNCHANGED host /\ Request(UnsubscribeCmd(c.id), Retired(c.id) \cup {c})
        /\ view' = [view EXCEPT ![c.id] = Removed(@)] /\ c.type = "Subscribe"
    BY <1>4 DEF ExpireSubscribe, HostSame
  <2>2. \A i \in Id : /\ view'[i].req = view[i].req /\ view'[i].source = view[i].source
                      /\ view'[i].st = IF i = c.id THEN "gone" ELSE view[i].st
                      /\ log'[i].ended = log[i].ended
                      /\ log[i].refused => log'[i].refused
    BY <1>3, <1>4, <2>1 DEF ExpireSubscribe, Removed, Views, Logs
  <2>3. \A i \in Id : /\ UnsubscribeCmd(i) \in net' \ net => i = c.id
                      /\ Waiting("SwitchSource", i)' \subseteq Waiting("SwitchSource", i)
                      /\ i # c.id => Waiting("SwitchSource", i)'
                                       = Waiting("SwitchSource", i)
    <3>1. \A i : UnsubscribeCmd(i) \in net' \ net => UnsubscribeCmd(i) = UnsubscribeCmd(c.id)
      BY <2>1 DEF Request
    <3>2. \A i \in Id : UnsubscribeCmd(i) \in net' \ net => i = c.id
      BY <3>1 DEF UnsubscribeCmd
    <3>3. \A d : d.type = "SwitchSource" =>
            /\ d \in pending' => d \in pending
            /\ d \in pending /\ d.id # c.id => d \in pending'
      BY <2>1 DEF Request, UnsubscribeCmd, Retired, SameKey
    <3>4. QED
      BY <3>2, <3>3 DEF Waiting
  <2>4. \A m \in net' \ net : m.type \notin {"SwitchSource", "SourceSwitched"}
    BY <2>1 DEF Request, UnsubscribeCmd
  <2>5. QED
    BY <2>1, <2>2, <2>3, <2>4, ViewerKeepsOrder
<1>5. CASE ExpireOther(c)
  <2>1. UNCHANGED <<view, host, net>> /\ pending' = pending \ {c}
    BY <1>5 DEF ExpireOther
  <2>2. /\ \A i \in Id : /\ log'[i].ended = log[i].ended
                         /\ log[i].refused => log'[i].refused
        /\ log'[c.id].refused
    BY <1>2, <1>3, <1>5 DEF ExpireOther, Logs
  <2>3. \A i \in Id : /\ Waiting("SwitchSource", i)' \subseteq Waiting("SwitchSource", i)
                      /\ i # c.id => Waiting("SwitchSource", i)'
                                       = Waiting("SwitchSource", i)
    BY <2>1 DEF Waiting
  <2>4. QED
    BY <2>1, <2>2, <2>3, ViewerKeepsOrder
<1>6. QED
  BY <1>1, <1>4, <1>5

\* A reply reaches the viewer: the switch it stops waiting for is the latest
\* one, and the host is that far.
LEMMA ReplyOrder ==
  ASSUME ReceiptsHold, ReceiptsHold', SwitchesOrdered, NEW m \in net, ViewerReceives(m)
  PROVE  SwitchesOrdered'
<1>1. m \in Commands \cup Replies /\ view \in [Id -> Views] /\ log \in [Id -> Logs]
  BY DEF ReceiptsHold, TypeOK
<1>2. CASE ReceiveSubscribed(m) \/ ReceiveActivity(m) \/ ReceiveConfigured(m)
           \/ ReceiveUnsubscribed(m)
  <2>1. UNCHANGED <<host, net>>
    BY <1>2 DEF ReceiveSubscribed, ReceiveActivity, ReceiveConfigured, ReceiveUnsubscribed
  <2>2. \A i \in Id : Waiting("SwitchSource", i)' = Waiting("SwitchSource", i)
    <3>1. \E type \in {"Subscribe", "SetActivity", "Configure", "Unsubscribe"} :
            pending \ pending' \subseteq {c \in pending : c.type = type}
          /\ pending' \subseteq pending
      BY <1>2 DEF ReceiveSubscribed, ReceiveActivity, ReceiveConfigured,
                  ReceiveUnsubscribed, Waiting, SubscribeCmd, UnsubscribeCmd
    <3>2. QED
      BY <3>1 DEF Waiting
  <2>3. \A i \in Id : /\ view'[i].req = view[i].req /\ view'[i].source = view[i].source
                      /\ view'[i].st = view[i].st
    <3>1. CASE ReceiveSubscribed(m)
      BY <1>1, <3>1 DEF ReceiveSubscribed, Accepted, Views
    <3>2. CASE ReceiveActivity(m)
      BY <1>1, <3>2 DEF ReceiveActivity, Views
    <3>3. CASE ReceiveConfigured(m) \/ ReceiveUnsubscribed(m)
      BY <3>3 DEF ReceiveConfigured, ReceiveUnsubscribed
    <3>4. QED
      BY <1>2, <3>1, <3>2, <3>3
  <2>4. \A i \in Id : log'[i].ended = log[i].ended /\ log'[i].refused = log[i].refused
    BY <1>1, <1>2 DEF ReceiveSubscribed, ReceiveActivity, ReceiveConfigured,
                      ReceiveUnsubscribed, Logs
  <2>5. QED
    BY <2>1, <2>2, <2>3, <2>4, ViewerKeepsOrder
<1>3. CASE ReceiveError(m)
  <2>1. UNCHANGED <<view, host, net>>
    BY <1>3 DEF ReceiveError
  <2>2. \A i \in Id : /\ log'[i].ended = log[i].ended
                      /\ log[i].refused => log'[i].refused
                      /\ Waiting("SwitchSource", i)' \subseteq Waiting("SwitchSource", i)
                      /\ \/ Waiting("SwitchSource", i)' = Waiting("SwitchSource", i)
                         \/ log'[i].refused
    BY <1>1, <1>3 DEF ReceiveError, Waiting, Logs
  <2>3. QED
    BY <2>1, <2>2, ViewerKeepsOrder
<1>4. CASE ReceiveSwitched(m)
  <2> DEFINE c == SwitchCmd(m.id, m.req, m.source)
  <2>1. /\ m.type = "SourceSwitched" /\ view[m.id].st = "open" /\ c \in pending
        /\ pending' = pending \ {c} /\ UNCHANGED <<view, host, net, log>>
    BY <1>4 DEF ReceiveSwitched
  <2>2. m.id \in Id /\ m.req \in Nat
    BY <1>1, <2>1, MessageFields
  <2>3. c \in Waiting("SwitchSource", m.id) /\ c.req = m.req
    BY <2>1 DEF Waiting, SwitchCmd
  <2>4. m.req = view[m.id].req /\ (m.req <= host[m.id].rev \/ log[m.id].ended)
    BY <2>1, <2>2, <2>3 DEF SwitchesOrdered, SwitchOrder, Lost
  <2>5. host[m.id].rev \in Nat /\ host[m.id].rev <= view[m.id].req
    BY <2>2 DEF SwitchesOrdered, SwitchOrder, ReceiptsHold, TypeOK, Subs
  <2>6. host[m.id].rev = view[m.id].req \/ log[m.id].ended
    BY <2>2, <2>4, <2>5
  <2> SUFFICES ASSUME NEW i \in Id PROVE SwitchOrder(i)'
    BY DEF SwitchesOrdered
  <2>7. /\ SwitchOrder(i) /\ Lost(i)' = Lost(i)
        /\ Waiting("SwitchSource", i)' \subseteq Waiting("SwitchSource", i)
        /\ i # m.id => Waiting("SwitchSource", i)' = Waiting("SwitchSource", i)
    BY <2>1 DEF SwitchesOrdered, Lost, Waiting, SwitchCmd
  <2>8. QED
    BY <2>1, <2>6, <2>7 DEF SwitchOrder
<1>5. QED
  BY <1>2, <1>3, <1>4 DEF ViewerReceives

\* A command reaches the host: only a newer switch moves it on, and only a stop
\* or a failed replacement takes it back.
LEMMA CommandOrder ==
  ASSUME ReceiptsHold, SwitchesOrdered, NEW m \in net, HostReceives(m)
  PROVE  SwitchesOrdered'
<1> USE SessionAssumption
<1> DEFINE s == host[m.id]
           v == view[m.id]
<1>1. m \in Commands \cup Replies
  BY DEF ReceiptsHold, TypeOK
<1>2. m.id \in Id
  BY <1>1, MessageFields DEF HostReceives, HostSubscribe, HostSwitch, HostActivity,
                             HostConfigure, HostUnsubscribe
<1>3. s \in Subs /\ v \in Views /\ SwitchOrder(m.id)
  BY <1>2 DEF ReceiptsHold, TypeOK, SwitchesOrdered
<1>4. /\ s.rev \in Nat /\ v.req \in Nat /\ s.rev <= v.req
      /\ s.rev = v.req => s.source = v.source
      /\ v.req = 0 => v.source = First
      /\ s.st \in {"over", "stuck"} => Lost(m.id)
      /\ s.st = "none" => s.rev = 0
  BY <1>3 DEF SwitchOrder, Subs, Views
<1>5. NoSub \in Subs /\ NoSub.rev = 0 /\ NoSub.source = First /\ NoSub.st = "none"
  BY DEF NoSub, Subs
<1>6. /\ \A n : Error(n).type = "Error"
      /\ Error(m.id) \in Replies
  BY <1>2 DEF Error, Replies
<1>7. \A t, replies : HostBecomes(m.id, t, replies) =>
        (Lost(m.id) => Lost(m.id)')
  BY DEF HostBecomes, ViewerSame, Lost
<1>8. \A t, replies : HostLoses(m.id, t, replies) => Lost(m.id)'
  BY <1>2 DEF HostLoses, Lost, Logs, ReceiptsHold, TypeOK
<1> HIDE DEF s, v
<1>9. CASE HostSubscribe(m)
  <2> DEFINE reply == [type |-> "Subscribed", id |-> m.id]
             fresh == [NoSub EXCEPT !.st = "live"]
             again == [s EXCEPT !.cfg = 0]
  <2>1. reply \in Replies /\ reply.type = "Subscribed"
    BY <1>2 DEF Replies
  <2>2. /\ fresh \in Subs /\ fresh.st = "live" /\ fresh.rev = 0 /\ fresh.source = First
        /\ again \in Subs /\ again.st = s.st /\ again.rev = s.rev
        /\ again.source = s.source
    BY <1>3, <1>5 DEF NoSub, Subs
  <2>3. \/ HostBecomes(m.id, s, {Error(m.id)})
        \/ \E extra \in {{}, {Error(m.id)}} :
             HostBecomes(m.id, again, {reply} \cup extra)
        \/ /\ s.st \notin {"over", "live"}
           /\ \E extra \in {{}, {Error(m.id)}} :
                HostBecomes(m.id, fresh, {reply} \cup extra)
    BY <1>9 DEF HostSubscribe, Success, s
  <2> HIDE DEF reply, fresh, again
  <2>4. CASE HostBecomes(m.id, s, {Error(m.id)})
    BY <1>2, <1>3, <1>4, <1>6, <1>7, <2>4, HostKeepsOrder DEF s, v
  <2>5. ASSUME NEW extra \in {{}, {Error(m.id)}},
               HostBecomes(m.id, again, {reply} \cup extra)
        PROVE  SwitchesOrdered'
    BY <1>2, <1>3, <1>4, <1>6, <1>7, <2>1, <2>2, <2>5, HostKeepsOrder DEF s, v
  <2>6. ASSUME NEW extra \in {{}, {Error(m.id)}}, s.st \notin {"over", "live"},
               HostBecomes(m.id, fresh, {reply} \cup extra)
        PROVE  SwitchesOrdered'
    <3>1. s.rev = 0 \/ Lost(m.id)
      BY <1>3, <1>4, <2>6 DEF Subs
    <3>2. QED
      BY <1>2, <1>4, <1>6, <1>7, <2>1, <2>2, <2>6, <3>1, HostKeepsOrder DEF s, v
  <2>7. QED
    BY <2>3, <2>4, <2>5, <2>6
<1>10. CASE HostSwitch(m)
  <2> DEFINE reply == [type |-> "SourceSwitched", id |-> m.id, req |-> m.req,
                       source |-> m.source]
             shown == [s EXCEPT !.st = "live", !.source = m.source, !.rev = m.req]
             over  == [s EXCEPT !.st = "over"]
  <2>1. m.req \in Nat /\ m.source \in Source /\ m.type = "SwitchSource"
    BY <1>1, <1>10, MessageFields DEF HostSwitch
  <2>2. m.req <= v.req /\ (m.req = v.req => m.source = v.source)
    BY <1>2, <1>3, <2>1 DEF SwitchOrder, v
  <2>3. /\ reply \in Replies /\ reply.id = m.id /\ reply.req = m.req
        /\ Error(m.req) \in Replies
    BY <1>2, <2>1 DEF Replies, Error
  <2>4. /\ shown \in Subs /\ shown.st = "live" /\ shown.rev = m.req
        /\ shown.source = m.source
        /\ over \in Subs /\ over.st = "over" /\ over.rev = s.rev /\ over.source = s.source
    BY <1>3, <2>1 DEF Subs
  <2>5. \/ HostBecomes(m.id, s, {Error(m.req)})
        \/ /\ m.req = s.rev
           /\ \E extra \in {{}, {Error(m.id)}} : HostBecomes(m.id, s, {reply} \cup extra)
        \/ /\ m.req >= s.rev
           /\ \E extra \in {{}, {Error(m.id)}} :
                HostBecomes(m.id, shown, {reply} \cup extra)
        \/ HostLoses(m.id, over, {Error(m.req)})
        \/ HostLoses(m.id, NoSub, {Error(m.req)})
    <3>1. CASE ~Listed(s) \/ StaleSwitch(s, m) \/ (s.receipt # "none" /\ m.req # s.rev)
      BY <1>10, <3>1 DEF HostSwitch, s
    <3>2. CASE ~(~Listed(s) \/ StaleSwitch(s, m) \/ (s.receipt # "none" /\ m.req # s.rev))
      <4>1. m.req >= s.rev
        BY <1>4, <2>1, <3>2 DEF StaleSwitch
      <4>2. \/ m.req = s.rev /\ Success(m.id, s, reply)
            \/ Success(m.id, shown, reply)
            \/ HostBecomes(m.id, s, {Error(m.req)})
            \/ HostLoses(m.id, over, {Error(m.req)})
            \/ HostLoses(m.id, NoSub, {Error(m.req)})
        BY <1>10, <3>2 DEF HostSwitch, s
      <4>3. QED
        BY <4>1, <4>2 DEF Success
    <3>3. QED
      BY <3>1, <3>2
  <2> HIDE DEF reply, shown, over
  <2>6. CASE HostBecomes(m.id, s, {Error(m.req)})
    BY <1>2, <1>3, <1>4, <1>6, <1>7, <2>3, <2>6, HostKeepsOrder DEF s, v
  <2>7. ASSUME NEW extra \in {{}, {Error(m.id)}}, m.req = s.rev,
               HostBecomes(m.id, s, {reply} \cup extra)
        PROVE  SwitchesOrdered'
    BY <1>2, <1>3, <1>4, <1>6, <1>7, <2>3, <2>7, HostKeepsOrder DEF s, v
  <2>8. ASSUME NEW extra \in {{}, {Error(m.id)}}, m.req >= s.rev,
               HostBecomes(m.id, shown, {reply} \cup extra)
        PROVE  SwitchesOrdered'
    BY <1>2, <1>6, <2>1, <2>2, <2>3, <2>4, <2>8, HostKeepsOrder DEF s, v
  <2>9. CASE HostLoses(m.id, over, {Error(m.req)})
    BY <1>2, <1>4, <1>6, <1>8, <2>3, <2>4, <2>9, HostKeepsOrder DEF s, v
  <2>10. CASE HostLoses(m.id, NoSub, {Error(m.req)})
    BY <1>2, <1>4, <1>5, <1>6, <1>8, <2>3, <2>10, HostKeepsOrder DEF s, v
  <2>11. QED
    BY <2>5, <2>6, <2>7, <2>8, <2>9, <2>10
<1>11. CASE HostActivity(m)
  <2> DEFINE t == ActivityApplied(s, m)
             reply == [type |-> "Activity", id |-> m.id, rev |-> t.act,
                       media |-> t.media]
  <2>1. m.rev \in Nat /\ m.media \subseteq Media
    BY <1>1, <1>11, MessageFields DEF HostActivity
  <2>2. t \in Subs /\ t.rev = s.rev /\ t.source = s.source /\ t.st = s.st
    BY <1>3, <2>1 DEF ActivityApplied, Subs
  <2>3. HostBecomes(m.id, t, {reply})
    BY <1>11 DEF HostActivity, s
  <2> HIDE DEF t
  <2>4. reply \in Replies /\ reply.type = "Activity"
    BY <1>2, <2>2 DEF Replies, Subs
  <2> HIDE DEF reply
  <2>5. QED
    BY <1>2, <1>4, <1>7, <2>2, <2>3, <2>4, HostKeepsOrder DEF s, v
<1>12. CASE HostConfigure(m)
  <2> DEFINE t == IF m.rev > s.set THEN [s EXCEPT !.set = m.rev, !.cfg = m.rev] ELSE s
             reply == [type |-> "Configured", id |-> m.id, rev |-> t.set]
  <2>1. m.rev \in Nat
    BY <1>1, <1>12, MessageFields DEF HostConfigure
  <2>2. t \in Subs /\ t.rev = s.rev /\ t.source = s.source /\ t.st = s.st
    BY <1>3, <2>1 DEF Subs
  <2>3. HostBecomes(m.id, s, {Error(m.id)}) \/ HostBecomes(m.id, t, {reply})
    BY <1>12 DEF HostConfigure, s
  <2> HIDE DEF t
  <2>4. reply \in Replies /\ reply.type = "Configured"
    BY <1>2, <2>2 DEF Replies, Subs
  <2> HIDE DEF reply
  <2>5. CASE HostBecomes(m.id, s, {Error(m.id)})
    BY <1>2, <1>3, <1>4, <1>6, <1>7, <2>5, HostKeepsOrder DEF s, v
  <2>6. CASE HostBecomes(m.id, t, {reply})
    BY <1>2, <1>4, <1>7, <2>2, <2>4, <2>6, HostKeepsOrder DEF s, v
  <2>7. QED
    BY <2>3, <2>5, <2>6
<1>13. CASE HostUnsubscribe(m)
  <2> DEFINE reply == [type |-> "Unsubscribed", id |-> m.id]
             failed == [NoSub EXCEPT !.receipt = "err"]
             stuck == [s EXCEPT !.st = "stuck", !.receipt = "err"]
  <2>1. reply \in Replies /\ reply.type = "Unsubscribed"
    BY <1>2 DEF Replies
  <2>2. /\ Stopped(s) \in Subs /\ Stopped(s).rev = 0 /\ Stopped(s).source = First
        /\ Stopped(s).st = "none"
        /\ failed \in Subs /\ failed.rev = 0 /\ failed.source = First
        /\ failed.st = "none"
        /\ stuck \in Subs /\ stuck.rev = s.rev /\ stuck.source = s.source
        /\ stuck.st = "stuck"
    BY <1>3, <1>5 DEF Stopped, NoSub, Subs
  <2>3. Lost(m.id)
    <3>1. m = UnsubscribeCmd(m.id)
      BY <1>1, <1>13 DEF HostUnsubscribe, UnsubscribeCmd, Commands, Replies
    <3>2. QED
      BY <1>3, <3>1 DEF SwitchOrder, Lost
  <2>4. \/ HostBecomes(m.id, s, {reply})
        \/ HostBecomes(m.id, s, {Error(m.id)})
        \/ HostBecomes(m.id, Stopped(s), {reply})
        \/ HostBecomes(m.id, failed, {Error(m.id)})
        \/ HostBecomes(m.id, stuck, {Error(m.id)})
    BY <1>13 DEF HostUnsubscribe, s
  <2> HIDE DEF reply, failed, stuck
  <2>5. CASE HostBecomes(m.id, s, {reply}) \/ HostBecomes(m.id, s, {Error(m.id)})
    BY <1>2, <1>3, <1>4, <1>6, <1>7, <2>1, <2>5, HostKeepsOrder DEF s, v
  <2>6. CASE HostBecomes(m.id, Stopped(s), {reply})
    BY <1>2, <1>4, <1>7, <2>1, <2>2, <2>3, <2>6, HostKeepsOrder DEF s, v
  <2>7. CASE HostBecomes(m.id, failed, {Error(m.id)})
    BY <1>2, <1>4, <1>6, <1>7, <2>2, <2>3, <2>7, HostKeepsOrder DEF s, v
  <2>8. CASE HostBecomes(m.id, stuck, {Error(m.id)})
    BY <1>2, <1>4, <1>6, <1>7, <2>2, <2>3, <2>8, HostKeepsOrder DEF s, v
  <2>9. QED
    BY <2>4, <2>5, <2>6, <2>7, <2>8
<1>14. QED
  BY <1>9, <1>10, <1>11, <1>12, <1>13 DEF HostReceives

\* What happens to captures beside the commands: it ends the subscription, or
\* follows an end.
LEMMA CaptureOrder ==
  ASSUME ReceiptsHold, SwitchesOrdered, NEW id \in Id, CaptureEnds(id) \/ Prune(id)
  PROVE  SwitchesOrdered'
<1> USE SessionAssumption
<1> DEFINE s == host[id]
           over == [s EXCEPT !.st = "over"]
           kept == [NoSub EXCEPT !.receipt = s.receipt]
           bad  == [NoSub EXCEPT !.receipt = "err"]
<1>1. s \in Subs /\ view[id] \in Views /\ SwitchOrder(id)
  BY DEF ReceiptsHold, TypeOK, SwitchesOrdered
<1>2. /\ over \in Subs /\ over.st = "over" /\ over.rev = s.rev /\ over.source = s.source
      /\ kept \in Subs /\ kept.st = "none" /\ kept.rev = 0 /\ kept.source = First
      /\ bad \in Subs /\ bad.st = "none" /\ bad.rev = 0 /\ bad.source = First
  BY <1>1 DEF NoSub, Subs
<1>3. Error(id) \in Replies /\ Error(id).type = "Error"
  BY DEF Error, Replies
<1>4. /\ s.rev \in Nat /\ view[id].req \in Nat /\ s.rev <= view[id].req
      /\ s.rev = view[id].req => s.source = view[id].source
      /\ view[id].req = 0 => view[id].source = First
  BY <1>1 DEF SwitchOrder, Subs, Views
<1>5. \/ \E extra \in {{}, {Error(id)}} : HostLoses(id, over, extra)
      \/ /\ Lost(id)
         /\ HostBecomes(id, kept, {}) \/ HostBecomes(id, bad, {})
  BY <1>1 DEF CaptureEnds, Prune, SwitchOrder
<1>6. \A t, replies : /\ HostBecomes(id, t, replies) => (Lost(id) => Lost(id)')
                      /\ HostLoses(id, t, replies) => Lost(id)'
  BY DEF HostBecomes, HostLoses, ViewerSame, Lost, Logs, ReceiptsHold, TypeOK
<1> HIDE DEF over, kept, bad, s
<1>7. ASSUME NEW extra \in {{}, {Error(id)}}, HostLoses(id, over, extra)
      PROVE  SwitchesOrdered'
  BY <1>2, <1>3, <1>4, <1>6, <1>7, HostKeepsOrder DEF s
<1>8. CASE Lost(id) /\ HostBecomes(id, kept, {})
  BY <1>2, <1>4, <1>6, <1>8, HostKeepsOrder DEF s
<1>9. CASE Lost(id) /\ HostBecomes(id, bad, {})
  BY <1>2, <1>4, <1>6, <1>9, HostKeepsOrder DEF s
<1>10. QED
  BY <1>5, <1>7, <1>8, <1>9

\* Switches, their retries and their acknowledgements keep their order on both
\* sides, however they are delayed, repeated, reordered, refused or given up.
THEOREM OrderCorrect == Spec => []SwitchesOrdered
<1>1. Init => SwitchesOrdered
  BY DEF Init, SwitchesOrdered, SwitchOrder, NoView, NoSub, Waiting
<1>2. ReceiptsHold /\ ReceiptsHold' /\ SwitchesOrdered /\ [Next]_vars => SwitchesOrdered'
  <2> SUFFICES ASSUME ReceiptsHold, ReceiptsHold', SwitchesOrdered, [Next]_vars
               PROVE  SwitchesOrdered'
    OBVIOUS
  <2>1. CASE UNCHANGED vars
    BY <2>1 DEF vars, SwitchesOrdered, SwitchOrder, Lost, Waiting
  <2>2. CASE Next
    BY <2>2, FrontendOrder, CaptureOrder, TimerOrder, ReplyOrder, CommandOrder DEF Next
  <2>3. QED
    BY <2>1, <2>2
<1>3. QED
  BY <1>1, <1>2, ReceiptsCorrect, PTL DEF Spec

\* Whenever the viewer lets video through for an undisturbed subscription, the
\* host shows the source of the frontend's latest switch (View::switching).
THEOREM GateIsLatest == Spec => []GateShowsLatest
<1>1. SwitchesOrdered => GateShowsLatest
  BY DEF SwitchesOrdered, SwitchOrder, GateShowsLatest, Undisturbed
<1>2. QED
  BY <1>1, OrderCorrect, PTL

-----------------------------------------------------------------------------
(* The order of activity and settings requests. ReceiptsHold gives the      *)
(* types, SwitchesOrdered what is known of a subscription that is lost.     *)

\* A step of the viewer that asks for no media and no settings: views and table
\* may only lose what the log, the view or the host accounts for.
LEMMA ViewerKeepsDemand ==
  ASSUME ReceiptsHold, ReceiptsHold', DemandsOrdered, UNCHANGED host,
         \A i \in Id : /\ view'[i].act = view[i].act /\ view'[i].set = view[i].set
                       /\ view'[i].wanted = view[i].wanted \/ view'[i].act = 0
                       /\ view'[i].active \subseteq view'[i].wanted
                       /\ view'[i].st = "none" => view[i].st = "none"
                       /\ view[i].st = "gone" => view'[i].st = "gone"
                       /\ log'[i].ended = log[i].ended
                       /\ log[i].refused => log'[i].refused,
         \A i \in Id :
           /\ Waiting("SetActivity", i)' \subseteq Waiting("SetActivity", i)
           /\ \/ Waiting("SetActivity", i)' = Waiting("SetActivity", i)
              \/ view'[i].st = "gone" \/ log'[i].refused \/ log'[i].ended
              \/ host[i].act = view[i].act,
         \A i \in Id :
           /\ Waiting("Configure", i)' \subseteq Waiting("Configure", i)
           /\ \/ Waiting("Configure", i)' = Waiting("Configure", i)
              \/ view'[i].st = "gone" \/ log'[i].refused \/ log'[i].ended
              \/ host[i].set = view[i].set,
         \A m \in net' \ net :
           m.type \notin {"SetActivity", "Activity", "Configure", "Configured"}
  PROVE  DemandsOrdered'
<1> SUFFICES ASSUME NEW id \in Id PROVE DemandOrder(id)'
  BY DEF DemandsOrdered
<1>0. DemandOrder(id)
  BY DEF DemandsOrdered
<1>1. Lost(id) => Lost(id)'
  BY DEF Lost
<1>2. /\ view[id] \in Views /\ view'[id] \in Views /\ host[id] \in Subs
      /\ log[id] \in Logs /\ log'[id] \in Logs
  BY DEF ReceiptsHold, TypeOK
<1>3. view'[id].st = "open" => view[id].st \in {"none", "open"}
  BY <1>2 DEF Views
<1>4. view[id].st = "none" => host[id].act = view[id].act /\ host[id].set = view[id].set
  BY <1>0, <1>2 DEF DemandOrder, Views, Subs
<1>5. /\ host[id].act = view'[id].act /\ view'[id].act # 0
         => host[id].media = view'[id].wanted
      /\ host'[id] = host[id]
  BY <1>0 DEF DemandOrder
<1>6. \A m \in net' : m.type # "Error" /\ m.id = id =>
        /\ m.type = "SetActivity" =>
             /\ m.rev # 0 /\ m.rev <= view'[id].act
             /\ m.rev = view'[id].act => m.media = view'[id].wanted
        /\ m.type = "Configure" => m.rev <= view'[id].set
        /\ m.type = "Activity" => m.rev <= host'[id].act \/ Lost(id)'
        /\ m.type = "Configured" => m.rev <= host'[id].set \/ Lost(id)'
  BY <1>0, <1>1 DEF DemandOrder
<1>7. view'[id].st = "open" /\ ~log'[id].refused /\ ~log'[id].ended =>
        /\ Waiting("SetActivity", id)' = {} => host'[id].act = view'[id].act
        /\ Waiting("Configure", id)' = {} => host'[id].set = view'[id].set
  BY <1>0, <1>2, <1>3, <1>4 DEF DemandOrder
<1>8. QED
  BY <1>0, <1>5, <1>6, <1>7 DEF DemandOrder

\* A step of the host: what it becomes is no further than the frontend and no
\* less far than it was, or the subscription is lost; it confirms only what it
\* has done.
LEMMA HostKeepsDemand ==
  ASSUME ReceiptsHold, DemandsOrdered,
         NEW id \in Id, NEW s \in Subs, NEW replies \in SUBSET Replies,
         HostBecomes(id, s, replies) \/ HostLoses(id, s, replies),
         s.st = "none" => s.act = 0 /\ s.set = 0,
         s.act = 0 => s.media = Media,
         s.act <= view[id].act,
         s.act = view[id].act /\ view[id].act # 0 => s.media = view[id].wanted,
         s.set <= view[id].set,
         (s.act >= host[id].act /\ s.set >= host[id].set) \/ Lost(id)',
         \A m \in replies :
           /\ m.type = "Activity" => m.id = id /\ m.rev <= s.act
           /\ m.type = "Configured" => m.id = id /\ m.rev <= s.set
  PROVE  DemandsOrdered'
<1>1. /\ host' = [host EXCEPT ![id] = s] /\ net' = net \cup replies
      /\ UNCHANGED <<view, pending>>
  BY DEF HostBecomes, HostLoses, ViewerSame
<1>2. /\ \A i \in Id : /\ log'[i].refused = log[i].refused
                       /\ log[i].ended => log'[i].ended
                       /\ i # id => log'[i] = log[i]
  BY DEF HostBecomes, HostLoses, Logs, ReceiptsHold, TypeOK
<1>3. \A m \in replies : m.type # "SetActivity" /\ m.type # "Configure"
  BY DEF Replies
<1> SUFFICES ASSUME NEW i \in Id PROVE DemandOrder(i)'
  BY DEF DemandsOrdered
<1>4. DemandOrder(i)
  BY DEF DemandsOrdered
<1>5. /\ Lost(i) => Lost(i)'
      /\ Waiting("SetActivity", i)' = Waiting("SetActivity", i)
      /\ Waiting("Configure", i)' = Waiting("Configure", i)
  BY <1>1, <1>2 DEF Lost, Waiting
<1>6. view[i] \in Views /\ host[i] \in Subs
  BY DEF ReceiptsHold, TypeOK
<1>7. CASE i # id
  <2>1. host'[i] = host[i] /\ log'[i] = log[i]
    BY <1>1, <1>2, <1>7 DEF ReceiptsHold, TypeOK
  <2>2. QED
    BY <1>1, <1>3, <1>4, <1>5, <1>7, <2>1 DEF DemandOrder
<1>8. CASE i = id
  <2>1. host'[i] = s
    BY <1>1, <1>8 DEF ReceiptsHold, TypeOK
  <2>2. \A m \in net' : m.type # "Error" /\ m.id = i =>
          /\ m.type = "SetActivity" =>
               /\ m.rev # 0 /\ m.rev <= view[i].act
               /\ m.rev = view[i].act => m.media = view[i].wanted
          /\ m.type = "Configure" => m.rev <= view[i].set
          /\ m.type = "Activity" => m.rev <= s.act \/ Lost(i)'
          /\ m.type = "Configured" => m.rev <= s.set \/ Lost(i)'
    <3> SUFFICES ASSUME NEW m \in net', m.type # "Error", m.id = i
                 PROVE  /\ m.type = "SetActivity" =>
                             /\ m.rev # 0 /\ m.rev <= view[i].act
                             /\ m.rev = view[i].act => m.media = view[i].wanted
                        /\ m.type = "Configure" => m.rev <= view[i].set
                        /\ m.type = "Activity" => m.rev <= s.act \/ Lost(i)'
                        /\ m.type = "Configured" => m.rev <= s.set \/ Lost(i)'
      OBVIOUS
    <3>1. CASE m \in net
      <4>1. m.type \in {"Activity", "Configured"} => m.rev \in Nat
        BY <3>1, MessageFields DEF ReceiptsHold, TypeOK
      <4>2. /\ m.type = "SetActivity" =>
                 /\ m.rev # 0 /\ m.rev <= view[i].act
                 /\ m.rev = view[i].act => m.media = view[i].wanted
            /\ m.type = "Configure" => m.rev <= view[i].set
            /\ m.type = "Activity" => m.rev <= host[i].act \/ Lost(i)
            /\ m.type = "Configured" => m.rev <= host[i].set \/ Lost(i)
        BY <1>4, <3>1 DEF DemandOrder
      <4>3. /\ s.act \in Nat /\ s.set \in Nat
            /\ host[i].act \in Nat /\ host[i].set \in Nat
        BY <1>6 DEF Subs
      <4>4. QED
        BY <1>5, <1>8, <4>1, <4>2, <4>3
    <3>2. CASE m \in replies
      BY <1>3, <3>2
    <3>3. QED
      BY <1>1, <3>1, <3>2
  <2>3. view[i].st = "open" /\ ~log'[i].refused /\ ~log'[i].ended =>
          /\ Waiting("SetActivity", i)' = {} => s.act = view[i].act
          /\ Waiting("Configure", i)' = {} => s.set = view[i].set
    BY <1>1, <1>2, <1>4, <1>5, <1>6, <1>8 DEF DemandOrder, Lost, Subs, Views
  <2>4. QED
    BY <1>1, <1>4, <1>5, <1>8, <2>1, <2>2, <2>3 DEF DemandOrder
<1>9. QED
  BY <1>7, <1>8

\* The frontend's requests.
LEMMA FrontendDemand ==
  ASSUME ReceiptsHold, ReceiptsHold', DemandsOrdered, NEW id \in Id, Frontend(id)
  PROVE  DemandsOrdered'
<1>1. /\ view \in [Id -> Views] /\ view[id] \in Views /\ pending \subseteq Commands
      /\ log \in [Id -> Logs] /\ host[id] \in Subs
  BY DEF ReceiptsHold, TypeOK
<1>2. \A i \in Id : DemandOrder(i) /\ view[i].active \subseteq view[i].wanted
  BY DEF DemandsOrdered, DemandOrder
<1>3. CASE Subscribe(id)
  <2>1. view[id].act = 0 /\ view[id].set = 0
    BY <1>2, <1>3 DEF Subscribe, DemandOrder
  <2>2. \A i \in Id : Waiting("SetActivity", i)' = Waiting("SetActivity", i)
                      /\ Waiting("Configure", i)' = Waiting("Configure", i)
    BY <1>3 DEF Subscribe, Request, SubscribeCmd, SameKey, Waiting
  <2>3. \A m \in net' \ net : m.type = "Subscribe"
    BY <1>3 DEF Subscribe, Request, SubscribeCmd
  <2>4. \A i \in Id : /\ view'[i].act = view[i].act /\ view'[i].set = view[i].set
                      /\ view'[i].wanted = view[i].wanted \/ view'[i].act = 0
                      /\ view'[i].active \subseteq view'[i].wanted
                      /\ view'[i].st = "none" => view[i].st = "none"
                      /\ view[i].st = "gone" => view'[i].st = "gone"
    BY <1>1, <1>2, <1>3, <2>1 DEF Subscribe, NewView, NoView
  <2>5. UNCHANGED <<host, log>>
    BY <1>3 DEF Subscribe, HostSame
  <2>6. QED
    BY <2>2, <2>3, <2>4, <2>5, ViewerKeepsDemand
<1>4. ASSUME NEW source \in Source, SwitchSource(id, source)
      PROVE  DemandsOrdered'
  <2>1. \A i \in Id : Waiting("SetActivity", i)' = Waiting("SetActivity", i)
                      /\ Waiting("Configure", i)' = Waiting("Configure", i)
    BY <1>4 DEF SwitchSource, Request, SwitchCmd, Waiting
  <2>2. \A m \in net' \ net : m.type = "SwitchSource"
    BY <1>4 DEF SwitchSource, Request, SwitchCmd
  <2>3. \A i \in Id : /\ view'[i].act = view[i].act /\ view'[i].set = view[i].set
                      /\ view'[i].wanted = view[i].wanted
                      /\ view'[i].active = view[i].active /\ view'[i].st = view[i].st
    BY <1>1, <1>4 DEF SwitchSource, Switching, Views
  <2>4. UNCHANGED <<host, log>>
    BY <1>4 DEF SwitchSource, HostSame
  <2>5. QED
    BY <1>2, <2>1, <2>2, <2>3, <2>4, ViewerKeepsDemand
<1>5. CASE Unsubscribe(id)
  <2>1. /\ UNCHANGED <<host, log>> /\ Request(UnsubscribeCmd(id), Retired(id))
        /\ view' = [view EXCEPT ![id] = Removed(@)]
    BY <1>5 DEF Unsubscribe, HostSame
  <2>2. \A i \in Id : /\ view'[i].act = view[i].act /\ view'[i].set = view[i].set
                      /\ view'[i].wanted = view[i].wanted
                      /\ view'[i].active \subseteq view[i].active
                      /\ view'[i].st = IF i = id THEN "gone" ELSE view[i].st
    BY <1>1, <2>1 DEF Removed, Views
  <2>3. \A i \in Id : /\ Waiting("SetActivity", i)' \subseteq Waiting("SetActivity", i)
                      /\ i # id => Waiting("SetActivity", i)' = Waiting("SetActivity", i)
                      /\ Waiting("Configure", i)' = Waiting("Configure", i)
    BY <2>1 DEF Request, UnsubscribeCmd, Retired, SameKey, Waiting
  <2>4. \A m \in net' \ net : m.type = "Unsubscribe"
    BY <2>1 DEF Request, UnsubscribeCmd
  <2>5. \A i \in Id : view'[i].active \subseteq view'[i].wanted
    BY <1>2, <2>2
  <2>6. QED
    BY <2>1, <2>2, <2>3, <2>4, <2>5, ViewerKeepsDemand
<1>6. ASSUME NEW media \in Demands, SetActivity(id, media)
      PROVE  DemandsOrdered'
  <2> DEFINE c == ActivityCmd(id, view[id].act + 1, media)
  <2>1. /\ UNCHANGED <<host, log>> /\ view[id].st = "open" /\ net' = net \cup {c}
    BY <1>6 DEF SetActivity, HostSame, Request
  <2>2. /\ \A i \in Id : i # id => view'[i] = view[i]
        /\ view'[id].act = view[id].act + 1 /\ view'[id].wanted = media
        /\ view'[id].active \subseteq media /\ view'[id].set = view[id].set
        /\ view'[id].st = "open"
    BY <1>1, <1>6 DEF SetActivity, Demanding, Views
  <2>3. /\ c.type = "SetActivity" /\ c.id = id /\ c.rev = view[id].act + 1
        /\ c.media = media
    BY DEF ActivityCmd
  <2>4. /\ \A i \in Id : i # id => Waiting("SetActivity", i)'
                                     = Waiting("SetActivity", i)
        /\ Waiting("SetActivity", id)' = {c}
        /\ \A i \in Id : Waiting("Configure", i)' = Waiting("Configure", i)
    <3>1. pending' = (pending \ {d \in pending : SameKey(c, d)}) \cup {c}
      BY <1>6, <2>3 DEF SetActivity, Request
    <3>2. \A d \in pending : SameKey(c, d) <=> d \in Waiting("SetActivity", id)
      BY <1>1, <2>3 DEF SameKey, Num, Waiting
    <3>3. QED
      BY <2>3, <3>1, <3>2 DEF Waiting
  <2> HIDE DEF c
  <2> SUFFICES ASSUME NEW i \in Id PROVE DemandOrder(i)'
    BY DEF DemandsOrdered
  <2>5. DemandOrder(i)
    BY <1>2
  <2>6. CASE i # id
    <3>1. Lost(i)' = Lost(i)
      BY <2>1, <2>2, <2>6 DEF Lost
    <3>2. QED
      BY <2>1, <2>2, <2>3, <2>4, <2>5, <2>6, <3>1 DEF DemandOrder
  <2>7. CASE i = id
    <3>1. Lost(i) => Lost(i)'
      BY <2>1, <2>2, <2>7 DEF Lost
    <3>2. view[id].act \in Nat /\ host[id].act \in Nat
      BY <1>1 DEF Views, Subs
    <3>3. \A m \in net : m.type = "SetActivity" => m.rev \in Nat
      BY MessageFields DEF ReceiptsHold, TypeOK
    <3>4. \A m \in net' : m.type # "Error" /\ m.id = i =>
            /\ m.type = "SetActivity" =>
                 /\ m.rev # 0 /\ m.rev <= view'[i].act
                 /\ m.rev = view'[i].act => m.media = view'[i].wanted
            /\ m.type = "Configure" => m.rev <= view'[i].set
            /\ m.type = "Activity" => m.rev <= host'[i].act \/ Lost(i)'
            /\ m.type = "Configured" => m.rev <= host'[i].set \/ Lost(i)'
      BY <2>1, <2>2, <2>3, <2>5, <2>7, <3>1, <3>2, <3>3 DEF DemandOrder
    <3>5. /\ host[i].act <= view'[i].act /\ host[i].act # view'[i].act
          /\ view'[i].act = view[i].act + 1
      BY <2>2, <2>5, <2>7, <3>2 DEF DemandOrder
    <3>6. QED
      BY <2>1, <2>2, <2>3, <2>4, <2>5, <2>7, <3>4, <3>5 DEF DemandOrder
  <2>8. QED
    BY <2>6, <2>7
<1>7. CASE Configure(id)
  <2> DEFINE c == ConfigureCmd(id, view[id].set + 1)
  <2>1. /\ UNCHANGED <<host, log>> /\ view[id].st = "open" /\ net' = net \cup {c}
    BY <1>7 DEF Configure, HostSame, Request
  <2>2. /\ \A i \in Id : i # id => view'[i] = view[i]
        /\ view'[id].set = view[id].set + 1 /\ view'[id].wanted = view[id].wanted
        /\ view'[id].active = view[id].active /\ view'[id].act = view[id].act
        /\ view'[id].st = "open"
    BY <1>1, <1>7 DEF Configure, Views
  <2>3. c.type = "Configure" /\ c.id = id /\ c.rev = view[id].set + 1
    BY DEF ConfigureCmd
  <2>4. /\ \A i \in Id : i # id => Waiting("Configure", i)' = Waiting("Configure", i)
        /\ Waiting("Configure", id)' = {c}
        /\ \A i \in Id : Waiting("SetActivity", i)' = Waiting("SetActivity", i)
    <3>1. pending' = (pending \ {d \in pending : SameKey(c, d)}) \cup {c}
      BY <1>7, <2>3 DEF Configure, Request
    <3>2. \A d \in pending : SameKey(c, d) <=> d \in Waiting("Configure", id)
      BY <1>1, <2>3 DEF SameKey, Num, Waiting
    <3>3. QED
      BY <2>3, <3>1, <3>2 DEF Waiting
  <2> HIDE DEF c
  <2> SUFFICES ASSUME NEW i \in Id PROVE DemandOrder(i)'
    BY DEF DemandsOrdered
  <2>5. DemandOrder(i)
    BY <1>2
  <2>6. CASE i # id
    <3>1. Lost(i)' = Lost(i)
      BY <2>1, <2>2, <2>6 DEF Lost
    <3>2. QED
      BY <2>1, <2>2, <2>3, <2>4, <2>5, <2>6, <3>1 DEF DemandOrder
  <2>7. CASE i = id
    <3>1. Lost(i) => Lost(i)'
      BY <2>1, <2>2, <2>7 DEF Lost
    <3>2. view[id].set \in Nat /\ host[id].set \in Nat
      BY <1>1 DEF Views, Subs
    <3>3. \A m \in net : m.type = "Configure" => m.rev \in Nat
      BY MessageFields DEF ReceiptsHold, TypeOK
    <3>4. \A m \in net' : m.type # "Error" /\ m.id = i =>
            /\ m.type = "SetActivity" =>
                 /\ m.rev # 0 /\ m.rev <= view'[i].act
                 /\ m.rev = view'[i].act => m.media = view'[i].wanted
            /\ m.type = "Configure" => m.rev <= view'[i].set
            /\ m.type = "Activity" => m.rev <= host'[i].act \/ Lost(i)'
            /\ m.type = "Configured" => m.rev <= host'[i].set \/ Lost(i)'
      BY <2>1, <2>2, <2>3, <2>5, <2>7, <3>1, <3>2, <3>3 DEF DemandOrder
    <3>5. host[i].set <= view'[i].set
      BY <2>2, <2>5, <2>7, <3>2 DEF DemandOrder
    <3>6. QED
      BY <2>1, <2>2, <2>3, <2>4, <2>5, <2>7, <3>4, <3>5 DEF DemandOrder
  <2>8. QED
    BY <2>6, <2>7
<1>8. QED
  BY <1>3, <1>4, <1>5, <1>6, <1>7 DEF Frontend

\* A request whose time is up: giving up is told to the frontend.
LEMMA TimerDemand ==
  ASSUME ReceiptsHold, ReceiptsHold', DemandsOrdered, Timer
  PROVE  DemandsOrdered'
<1>1. PICK c \in pending : ExpireSubscribe(c) \/ ExpireOther(c)
  BY DEF Timer
<1>2. c \in Commands /\ c.id \in Id
  BY <1>1, MessageFields DEF ReceiptsHold, TypeOK, Commands
<1>3. /\ view \in [Id -> Views] /\ log \in [Id -> Logs]
      /\ \A i \in Id : view[i].active \subseteq view[i].wanted
  BY DEF ReceiptsHold, TypeOK, DemandsOrdered, DemandOrder
<1>4. CASE ExpireSubscribe(c)
  <2>1. /\ UNCHANGED host /\ Request(UnsubscribeCmd(c.id), Retired(c.id) \cup {c})
        /\ view' = [view EXCEPT ![c.id] = Removed(@)] /\ c.type = "Subscribe"
    BY <1>4 DEF ExpireSubscribe, HostSame
  <2>2. \A i \in Id : /\ view'[i].act = view[i].act /\ view'[i].set = view[i].set
                      /\ view'[i].wanted = view[i].wanted
                      /\ view'[i].active \subseteq view[i].active
                      /\ view'[i].st = IF i = c.id THEN "gone" ELSE view[i].st
    BY <1>3, <2>1 DEF Removed, Views
  <2>3. \A i \in Id : log'[i].ended = log[i].ended /\ (log[i].refused => log'[i].refused)
    BY <1>3, <1>4 DEF ExpireSubscribe, Logs
  <2>4. \A i \in Id : /\ Waiting("SetActivity", i)' \subseteq Waiting("SetActivity", i)
                      /\ i # c.id => Waiting("SetActivity", i)'
                                       = Waiting("SetActivity", i)
                      /\ Waiting("Configure", i)' = Waiting("Configure", i)
    BY <2>1 DEF Request, UnsubscribeCmd, Retired, SameKey, Waiting
  <2>5. \A m \in net' \ net : m.type = "Unsubscribe"
    BY <2>1 DEF Request, UnsubscribeCmd
  <2>6. \A i \in Id : view'[i].active \subseteq view'[i].wanted
    BY <1>3, <2>2
  <2>7. QED
    BY <2>1, <2>2, <2>3, <2>4, <2>5, <2>6, ViewerKeepsDemand
<1>5. CASE ExpireOther(c)
  <2>1. UNCHANGED <<view, host, net>> /\ pending' = pending \ {c}
    BY <1>5 DEF ExpireOther
  <2>2. /\ \A i \in Id : /\ log'[i].ended = log[i].ended
                         /\ log[i].refused => log'[i].refused
        /\ log'[c.id].refused
    BY <1>2, <1>3, <1>5 DEF ExpireOther, Logs
  <2>3. \A t : \A i \in Id : /\ Waiting(t, i)' \subseteq Waiting(t, i)
                             /\ i # c.id => Waiting(t, i)' = Waiting(t, i)
    BY <2>1 DEF Waiting
  <2>4. QED
    BY <1>3, <2>1, <2>2, <2>3, ViewerKeepsDemand
<1>6. QED
  BY <1>1, <1>4, <1>5

\* A reply reaches the viewer: the activity or settings it stops waiting for are
\* the latest ones, and the host is that far.
LEMMA ReplyDemand ==
  ASSUME ReceiptsHold, ReceiptsHold', DemandsOrdered, NEW m \in net, ViewerReceives(m)
  PROVE  DemandsOrdered'
<1>1. /\ m \in Commands \cup Replies /\ view \in [Id -> Views] /\ log \in [Id -> Logs]
      /\ host \in [Id -> Subs] /\ pending \subseteq Commands
      /\ \A i \in Id : view[i].active \subseteq view[i].wanted
  BY DEF ReceiptsHold, TypeOK, DemandsOrdered, DemandOrder
<1>2. CASE ReceiveSubscribed(m)
  <2>1. UNCHANGED <<host, net, log>> /\ pending' = pending \ {SubscribeCmd(m.id)}
    BY <1>2 DEF ReceiveSubscribed
  <2>2. \A i \in Id : /\ view'[i].act = view[i].act /\ view'[i].set = view[i].set
                      /\ view'[i].wanted = view[i].wanted
                      /\ view'[i].active \subseteq view'[i].wanted
                      /\ view'[i].st = view[i].st
    BY <1>1, <1>2 DEF ReceiveSubscribed, Accepted, Views
  <2>3. \A i \in Id : Waiting("SetActivity", i)' = Waiting("SetActivity", i)
                      /\ Waiting("Configure", i)' = Waiting("Configure", i)
    BY <2>1 DEF Waiting, SubscribeCmd
  <2>4. QED
    BY <2>1, <2>2, <2>3, ViewerKeepsDemand
<1>3. CASE ReceiveActivity(m)
  <2>1. /\ m.type = "Activity" /\ UNCHANGED <<host, net, log>>
        /\ pending' = pending \ Waiting("SetActivity", m.id)
        /\ \A c \in Waiting("SetActivity", m.id) : m.rev >= c.rev
    BY <1>3 DEF ReceiveActivity, ActivityCurrent
  <2>2. m.id \in Id /\ m.rev \in Nat /\ view[m.id].st = "open"
    BY <1>1, <1>3, MessageFields DEF ReceiveActivity, ActivityCurrent
  <2>3. \A i \in Id : /\ view'[i].act = view[i].act /\ view'[i].set = view[i].set
                      /\ view'[i].wanted = view[i].wanted
                      /\ view'[i].active \subseteq view'[i].wanted
                      /\ view'[i].st = view[i].st
    BY <1>1, <1>3, <2>2 DEF ReceiveActivity, Views
  <2>4. \A i \in Id : /\ Waiting("SetActivity", i)' \subseteq Waiting("SetActivity", i)
                      /\ i # m.id => Waiting("SetActivity", i)'
                                       = Waiting("SetActivity", i)
                      /\ Waiting("Configure", i)' = Waiting("Configure", i)
    BY <2>1 DEF Waiting
  <2>5. \/ Waiting("SetActivity", m.id) = {}
        \/ host[m.id].act = view[m.id].act \/ log[m.id].ended
    <3> SUFFICES ASSUME NEW c \in Waiting("SetActivity", m.id), ~log[m.id].ended
                 PROVE  host[m.id].act = view[m.id].act
      OBVIOUS
    <3>1. /\ c.rev = view[m.id].act /\ m.rev >= c.rev /\ m.rev <= host[m.id].act
          /\ host[m.id].act <= view[m.id].act
      BY <2>1, <2>2 DEF DemandsOrdered, DemandOrder, Lost
    <3>2. host[m.id].act \in Nat /\ view[m.id].act \in Nat
      BY <1>1, <2>2 DEF Subs, Views
    <3>3. QED
      BY <2>2, <3>1, <3>2
  <2>6. \A i \in Id : \/ Waiting("SetActivity", i)' = Waiting("SetActivity", i)
                      \/ log'[i].ended \/ host[i].act = view[i].act
    BY <2>1, <2>4, <2>5 DEF Waiting
  <2>7. QED
    BY <2>1, <2>3, <2>4, <2>6, ViewerKeepsDemand
<1>4. CASE ReceiveConfigured(m)
  <2>1. /\ m.type = "Configured" /\ UNCHANGED <<view, host, net, log>>
        /\ pending' = pending \ Waiting("Configure", m.id)
        /\ \A c \in Waiting("Configure", m.id) : m.rev >= c.rev
    BY <1>4 DEF ReceiveConfigured
  <2>2. m.id \in Id /\ m.rev \in Nat
    BY <1>1, <2>1, MessageFields
  <2>3. \A i \in Id : /\ Waiting("Configure", i)' \subseteq Waiting("Configure", i)
                      /\ i # m.id => Waiting("Configure", i)' = Waiting("Configure", i)
                      /\ Waiting("SetActivity", i)' = Waiting("SetActivity", i)
    BY <2>1 DEF Waiting
  <2>4. \/ Waiting("Configure", m.id) = {}
        \/ host[m.id].set = view[m.id].set \/ Lost(m.id)
    <3> SUFFICES ASSUME NEW c \in Waiting("Configure", m.id), ~Lost(m.id)
                 PROVE  host[m.id].set = view[m.id].set
      OBVIOUS
    <3>1. /\ c.rev = view[m.id].set /\ m.rev >= c.rev /\ m.rev <= host[m.id].set
          /\ host[m.id].set <= view[m.id].set
      BY <2>1, <2>2 DEF DemandsOrdered, DemandOrder
    <3>2. host[m.id].set \in Nat /\ view[m.id].set \in Nat
      BY <1>1, <2>2 DEF Subs, Views
    <3>3. QED
      BY <2>2, <3>1, <3>2
  <2>5. \A i \in Id : \/ Waiting("Configure", i)' = Waiting("Configure", i)
                      \/ view'[i].st = "gone" \/ log'[i].ended
                      \/ host[i].set = view[i].set
    BY <2>1, <2>3, <2>4 DEF Waiting, Lost
  <2>6. QED
    BY <1>1, <2>1, <2>3, <2>5, ViewerKeepsDemand
<1>5. CASE ReceiveSwitched(m) \/ ReceiveUnsubscribed(m)
  <2>1. UNCHANGED <<view, host, net>>
    BY <1>5 DEF ReceiveSwitched, ReceiveUnsubscribed
  <2>2. \A i \in Id : Waiting("SetActivity", i)' = Waiting("SetActivity", i)
                      /\ Waiting("Configure", i)' = Waiting("Configure", i)
    BY <1>5 DEF ReceiveSwitched, ReceiveUnsubscribed, SwitchCmd, UnsubscribeCmd, Waiting
  <2>3. \A i \in Id : log'[i].ended = log[i].ended /\ log'[i].refused = log[i].refused
    BY <1>1, <1>5 DEF ReceiveSwitched, ReceiveUnsubscribed, Logs
  <2>4. QED
    BY <1>1, <2>1, <2>2, <2>3, ViewerKeepsDemand
<1>6. CASE ReceiveError(m)
  <2>1. UNCHANGED <<view, host, net>>
    BY <1>6 DEF ReceiveError
  <2>2. \A t : \A i \in Id : /\ Waiting(t, i)' \subseteq Waiting(t, i)
                             /\ \/ Waiting(t, i)' = Waiting(t, i)
                                \/ log'[i].refused
    BY <1>1, <1>6 DEF ReceiveError, Waiting, Logs
  <2>3. \A i \in Id : log'[i].ended = log[i].ended /\ (log[i].refused => log'[i].refused)
    BY <1>1, <1>6 DEF ReceiveError, Logs
  <2>4. QED
    BY <1>1, <2>1, <2>2, <2>3, ViewerKeepsDemand
<1>7. QED
  BY <1>2, <1>3, <1>4, <1>5, <1>6 DEF ViewerReceives

\* A step of the host that leaves its revisions alone and confirms none.
LEMMA HostQuiet ==
  ASSUME ReceiptsHold, DemandsOrdered,
         NEW id \in Id, NEW s \in Subs, NEW replies \in SUBSET Replies,
         HostBecomes(id, s, replies) \/ HostLoses(id, s, replies),
         s.act = host[id].act, s.set = host[id].set, s.media = host[id].media,
         s.st = "none" => host[id].st = "none",
         \A m \in replies : m.type \notin {"Activity", "Configured"}
  PROVE  DemandsOrdered'
<1>1. DemandOrder(id)
  BY DEF DemandsOrdered
<1>2. s.act >= host[id].act /\ s.set >= host[id].set
  BY DEF Subs
<1>3. QED
  BY <1>1, <1>2, HostKeepsDemand DEF DemandOrder

\* A step of the host that forgets the subscription, which is lost.
LEMMA HostForgets ==
  ASSUME ReceiptsHold, DemandsOrdered,
         NEW id \in Id, NEW s \in Subs, NEW replies \in SUBSET Replies,
         HostBecomes(id, s, replies) \/ HostLoses(id, s, replies),
         s.act = 0, s.set = 0, s.media = Media, Lost(id)',
         \A m \in replies : m.type \notin {"Activity", "Configured"}
  PROVE  DemandsOrdered'
<1>1. view[id].act \in Nat /\ view[id].set \in Nat
  BY DEF ReceiptsHold, TypeOK, Views
<1>2. QED
  BY <1>1, HostKeepsDemand

\* A command reaches the host: only a newer request moves it on, and only a
\* stop or a failed replacement takes it back.
LEMMA CommandDemand ==
  ASSUME ReceiptsHold, SwitchesOrdered, DemandsOrdered, NEW m \in net, HostReceives(m)
  PROVE  DemandsOrdered'
<1> USE SessionAssumption
<1> DEFINE s == host[m.id]
           v == view[m.id]
<1>1. m \in Commands \cup Replies
  BY DEF ReceiptsHold, TypeOK
<1>2. m.id \in Id
  BY <1>1, MessageFields DEF HostReceives, HostSubscribe, HostSwitch, HostActivity,
                             HostConfigure, HostUnsubscribe
<1>3. s \in Subs /\ v \in Views /\ DemandOrder(m.id) /\ SwitchOrder(m.id)
  BY <1>2 DEF ReceiptsHold, TypeOK, DemandsOrdered, SwitchesOrdered
<1>4. /\ s.act \in Nat /\ v.act \in Nat /\ s.set \in Nat /\ v.set \in Nat
      /\ s.act <= v.act /\ s.set <= v.set /\ (s.act = 0 => s.media = Media)
      /\ s.act = v.act /\ v.act # 0 => s.media = v.wanted
      /\ s.st = "none" => s.act = 0 /\ s.set = 0
      /\ s.st \in {"over", "stuck"} => Lost(m.id)
  BY <1>3 DEF DemandOrder, SwitchOrder, Subs, Views
<1>5. /\ NoSub \in Subs /\ NoSub.act = 0 /\ NoSub.set = 0 /\ NoSub.media = Media
      /\ NoSub.st = "none"
  BY DEF NoSub, Subs
<1>6. /\ \A n : Error(n).type = "Error"
      /\ Error(m.id) \in Replies
  BY <1>2 DEF Error, Replies
<1>7. \A t, replies : HostBecomes(m.id, t, replies) =>
        (Lost(m.id) => Lost(m.id)')
  BY DEF HostBecomes, ViewerSame, Lost
<1>8. \A t, replies : HostLoses(m.id, t, replies) => Lost(m.id)'
  BY <1>2 DEF HostLoses, Lost, Logs, ReceiptsHold, TypeOK
<1> HIDE DEF s, v
<1>9. CASE HostSubscribe(m)
  <2> DEFINE reply == [type |-> "Subscribed", id |-> m.id]
             fresh == [NoSub EXCEPT !.st = "live"]
             again == [s EXCEPT !.cfg = 0]
  <2>1. reply \in Replies /\ reply.type = "Subscribed"
    BY <1>2 DEF Replies
  <2>2. /\ fresh \in Subs /\ fresh.st = "live" /\ fresh.act = 0 /\ fresh.set = 0
        /\ fresh.media = Media
        /\ again \in Subs /\ again.st = s.st /\ again.act = s.act
        /\ again.set = s.set /\ again.media = s.media
    BY <1>3, <1>5 DEF NoSub, Subs
  <2>3. \/ HostBecomes(m.id, s, {Error(m.id)})
        \/ \E extra \in {{}, {Error(m.id)}} :
             HostBecomes(m.id, again, {reply} \cup extra)
        \/ /\ s.st \notin {"over", "live"}
           /\ \E extra \in {{}, {Error(m.id)}} :
                HostBecomes(m.id, fresh, {reply} \cup extra)
    BY <1>9 DEF HostSubscribe, Success, s
  <2> HIDE DEF reply, fresh, again
  <2>4. CASE HostBecomes(m.id, s, {Error(m.id)})
    BY <1>2, <1>3, <1>6, <2>4, HostQuiet DEF s
  <2>5. ASSUME NEW extra \in {{}, {Error(m.id)}},
               HostBecomes(m.id, again, {reply} \cup extra)
        PROVE  DemandsOrdered'
    BY <1>2, <1>6, <2>1, <2>2, <2>5, HostQuiet DEF s
  <2>6. ASSUME NEW extra \in {{}, {Error(m.id)}}, s.st \notin {"over", "live"},
               HostBecomes(m.id, fresh, {reply} \cup extra)
        PROVE  DemandsOrdered'
    <3>1. CASE s.st = "none"
      BY <1>2, <1>4, <1>6, <2>1, <2>2, <2>6, <3>1, HostKeepsDemand DEF s, v
    <3>2. CASE s.st = "stuck"
      BY <1>2, <1>4, <1>6, <1>7, <2>1, <2>2, <2>6, <3>2, HostForgets DEF s
    <3>3. QED
      BY <1>3, <2>6, <3>1, <3>2 DEF Subs
  <2>7. QED
    BY <2>3, <2>4, <2>5, <2>6
<1>10. CASE HostSwitch(m)
  <2> DEFINE reply == [type |-> "SourceSwitched", id |-> m.id, req |-> m.req,
                       source |-> m.source]
             shown == [s EXCEPT !.st = "live", !.source = m.source, !.rev = m.req]
             over  == [s EXCEPT !.st = "over"]
  <2>1. m.req \in Nat /\ m.source \in Source /\ m.type = "SwitchSource"
    BY <1>1, <1>10, MessageFields DEF HostSwitch
  <2>2. reply \in Replies /\ reply.type = "SourceSwitched" /\ Error(m.req) \in Replies
    BY <1>2, <2>1 DEF Replies, Error
  <2>3. /\ shown \in Subs /\ shown.st = "live" /\ shown.act = s.act
        /\ shown.set = s.set /\ shown.media = s.media
        /\ over \in Subs /\ over.st = "over" /\ over.act = s.act
        /\ over.set = s.set /\ over.media = s.media
    BY <1>3, <2>1 DEF Subs
  <2>4. \/ HostBecomes(m.id, s, {Error(m.req)})
        \/ \E extra \in {{}, {Error(m.id)}} : HostBecomes(m.id, s, {reply} \cup extra)
        \/ \E extra \in {{}, {Error(m.id)}} :
             HostBecomes(m.id, shown, {reply} \cup extra)
        \/ HostLoses(m.id, over, {Error(m.req)})
        \/ HostLoses(m.id, NoSub, {Error(m.req)})
    BY <1>10 DEF HostSwitch, Success, s
  <2> HIDE DEF reply, shown, over
  <2>5. CASE HostBecomes(m.id, s, {Error(m.req)})
    BY <1>2, <1>3, <1>6, <2>2, <2>5, HostQuiet DEF s
  <2>6. ASSUME NEW extra \in {{}, {Error(m.id)}},
               HostBecomes(m.id, s, {reply} \cup extra)
        PROVE  DemandsOrdered'
    BY <1>2, <1>3, <1>6, <2>2, <2>6, HostQuiet DEF s
  <2>7. ASSUME NEW extra \in {{}, {Error(m.id)}},
               HostBecomes(m.id, shown, {reply} \cup extra)
        PROVE  DemandsOrdered'
    BY <1>2, <1>6, <2>2, <2>3, <2>7, HostQuiet DEF s
  <2>8. CASE HostLoses(m.id, over, {Error(m.req)})
    BY <1>2, <1>6, <2>2, <2>3, <2>8, HostQuiet DEF s
  <2>9. CASE HostLoses(m.id, NoSub, {Error(m.req)})
    BY <1>2, <1>5, <1>6, <1>8, <2>2, <2>9, HostForgets
  <2>10. QED
    BY <2>4, <2>5, <2>6, <2>7, <2>8, <2>9
<1>11. CASE HostActivity(m)
  <2> DEFINE t == ActivityApplied(s, m)
             reply == [type |-> "Activity", id |-> m.id, rev |-> t.act,
                       media |-> t.media]
  <2>1. /\ m.rev \in Nat /\ m.media \subseteq Media /\ s.st # "none"
        /\ m.type = "SetActivity"
    BY <1>1, <1>11, MessageFields DEF HostActivity, Listed, s
  <2>2. m.rev <= v.act /\ (m.rev = v.act => m.media = v.wanted)
    BY <1>3, <2>1 DEF DemandOrder, v
  <2>3. t \in Subs /\ t.set = s.set /\ t.st = s.st
    BY <1>3, <2>1 DEF ActivityApplied, Subs
  <2>4. /\ t.act >= s.act /\ t.act <= v.act /\ (t.act = 0 => t.media = Media)
        /\ t.act = v.act /\ v.act # 0 => t.media = v.wanted
    <3>1. CASE m.rev > s.act
      <4>1. t.act = m.rev /\ t.media = m.media
        BY <1>3, <3>1 DEF ActivityApplied, Subs
      <4>2. QED
        BY <1>4, <2>1, <2>2, <3>1, <4>1
    <3>2. CASE ~(m.rev > s.act)
      <4>1. t = s
        BY <3>2 DEF ActivityApplied
      <4>2. QED
        BY <1>4, <4>1
    <3>3. QED
      BY <3>1, <3>2
  <2>5. HostBecomes(m.id, t, {reply})
    BY <1>11 DEF HostActivity, s
  <2> HIDE DEF t
  <2>6. reply \in Replies /\ reply.type = "Activity" /\ reply.id = m.id /\ reply.rev = t.act
    BY <1>2, <2>3 DEF Replies, Subs
  <2> HIDE DEF reply
  <2>7. t.act <= t.act /\ s.set >= s.set
    BY <1>4, <2>3 DEF Subs
  <2>8. QED
    BY <1>2, <1>4, <2>1, <2>3, <2>4, <2>5, <2>6, <2>7, HostKeepsDemand DEF s, v
<1>12. CASE HostConfigure(m)
  <2> DEFINE t == IF m.rev > s.set THEN [s EXCEPT !.set = m.rev, !.cfg = m.rev] ELSE s
             reply == [type |-> "Configured", id |-> m.id, rev |-> t.set]
  <2>1. m.rev \in Nat /\ m.type = "Configure"
    BY <1>1, <1>12, MessageFields DEF HostConfigure
  <2>2. m.rev <= v.set
    BY <1>3, <2>1 DEF DemandOrder, v
  <2>3. /\ t \in Subs /\ t.act = s.act /\ t.media = s.media /\ t.st = s.st
        /\ t.set = IF m.rev > s.set THEN m.rev ELSE s.set
    BY <1>3, <2>1 DEF Subs
  <2>4. \/ HostBecomes(m.id, s, {Error(m.id)})
        \/ s.st # "none" /\ HostBecomes(m.id, t, {reply})
    BY <1>12 DEF HostConfigure, Listed, s
  <2> HIDE DEF t
  <2>5. t.set >= s.set /\ t.set <= v.set /\ t.set <= t.set /\ s.act >= s.act
    BY <1>4, <2>1, <2>2, <2>3
  <2>6. reply \in Replies /\ reply.type = "Configured" /\ reply.id = m.id
        /\ reply.rev = t.set
    BY <1>2, <2>3 DEF Replies, Subs
  <2> HIDE DEF reply
  <2>7. CASE HostBecomes(m.id, s, {Error(m.id)})
    BY <1>2, <1>3, <1>6, <2>7, HostQuiet DEF s
  <2>8. CASE s.st # "none" /\ HostBecomes(m.id, t, {reply})
    <3>1. t.act <= v.act
      BY <1>4, <2>3
    <3>2. QED
      BY <1>2, <1>4, <2>3, <2>5, <2>6, <2>8, <3>1, HostKeepsDemand DEF s, v
  <2>9. QED
    BY <2>4, <2>7, <2>8
<1>13. CASE HostUnsubscribe(m)
  <2> DEFINE reply == [type |-> "Unsubscribed", id |-> m.id]
             failed == [NoSub EXCEPT !.receipt = "err"]
             stuck == [s EXCEPT !.st = "stuck", !.receipt = "err"]
  <2>1. reply \in Replies /\ reply.type = "Unsubscribed"
    BY <1>2 DEF Replies
  <2>2. /\ Stopped(s) \in Subs /\ Stopped(s).act = 0 /\ Stopped(s).set = 0
        /\ Stopped(s).media = Media
        /\ failed \in Subs /\ failed.act = 0 /\ failed.set = 0 /\ failed.media = Media
        /\ stuck \in Subs /\ stuck.act = s.act /\ stuck.set = s.set
        /\ stuck.media = s.media /\ stuck.st = "stuck"
    BY <1>3, <1>5 DEF Stopped, NoSub, Subs
  <2>3. Lost(m.id)
    <3>1. m = UnsubscribeCmd(m.id)
      BY <1>1, <1>13 DEF HostUnsubscribe, UnsubscribeCmd, Commands, Replies
    <3>2. QED
      BY <1>3, <3>1 DEF SwitchOrder, Lost
  <2>4. \/ HostBecomes(m.id, s, {reply})
        \/ HostBecomes(m.id, s, {Error(m.id)})
        \/ HostBecomes(m.id, Stopped(s), {reply})
        \/ HostBecomes(m.id, failed, {Error(m.id)})
        \/ HostBecomes(m.id, stuck, {Error(m.id)})
    BY <1>13 DEF HostUnsubscribe, s
  <2> HIDE DEF reply, failed, stuck
  <2>5. CASE HostBecomes(m.id, s, {reply}) \/ HostBecomes(m.id, s, {Error(m.id)})
    BY <1>2, <1>3, <1>6, <2>1, <2>5, HostQuiet DEF s
  <2>6. CASE HostBecomes(m.id, Stopped(s), {reply})
    BY <1>2, <1>7, <2>1, <2>2, <2>3, <2>6, HostForgets
  <2>7. CASE HostBecomes(m.id, failed, {Error(m.id)})
    BY <1>2, <1>6, <1>7, <2>2, <2>3, <2>7, HostForgets
  <2>8. CASE HostBecomes(m.id, stuck, {Error(m.id)})
    BY <1>2, <1>6, <2>2, <2>8, HostQuiet DEF s
  <2>9. QED
    BY <2>4, <2>5, <2>6, <2>7, <2>8
<1>14. QED
  BY <1>9, <1>10, <1>11, <1>12, <1>13 DEF HostReceives

\* What happens to captures beside the commands: it ends the subscription, or
\* follows an end.
LEMMA CaptureDemand ==
  ASSUME ReceiptsHold, SwitchesOrdered, DemandsOrdered, NEW id \in Id,
         CaptureEnds(id) \/ Prune(id)
  PROVE  DemandsOrdered'
<1> USE SessionAssumption
<1> DEFINE s == host[id]
           over == [s EXCEPT !.st = "over"]
           kept == [NoSub EXCEPT !.receipt = s.receipt]
           bad  == [NoSub EXCEPT !.receipt = "err"]
<1>1. s \in Subs /\ SwitchOrder(id)
  BY DEF ReceiptsHold, TypeOK, SwitchesOrdered
<1>2. /\ over \in Subs /\ over.st = "over" /\ over.act = s.act /\ over.set = s.set
      /\ over.media = s.media
      /\ kept \in Subs /\ kept.act = 0 /\ kept.set = 0 /\ kept.media = Media
      /\ bad \in Subs /\ bad.act = 0 /\ bad.set = 0 /\ bad.media = Media
  BY <1>1 DEF NoSub, Subs
<1>3. Error(id) \in Replies /\ Error(id).type = "Error"
  BY DEF Error, Replies
<1>4. \/ \E extra \in {{}, {Error(id)}} : HostLoses(id, over, extra)
      \/ /\ Lost(id)
         /\ HostBecomes(id, kept, {}) \/ HostBecomes(id, bad, {})
  BY <1>1 DEF CaptureEnds, Prune, SwitchOrder
<1>5. \A t, replies : HostBecomes(id, t, replies) => (Lost(id) => Lost(id)')
  BY DEF HostBecomes, ViewerSame, Lost
<1> HIDE DEF over, kept, bad, s
<1>6. ASSUME NEW extra \in {{}, {Error(id)}}, HostLoses(id, over, extra)
      PROVE  DemandsOrdered'
  BY <1>2, <1>3, <1>6, HostQuiet DEF s
<1>7. CASE Lost(id) /\ HostBecomes(id, kept, {})
  BY <1>2, <1>5, <1>7, HostForgets
<1>8. CASE Lost(id) /\ HostBecomes(id, bad, {})
  BY <1>2, <1>5, <1>8, HostForgets
<1>9. QED
  BY <1>4, <1>6, <1>7, <1>8

\* Activity and settings requests, their retries and their acknowledgements keep
\* their order on both sides, however they are delayed, repeated, reordered,
\* refused or given up.
THEOREM DemandCorrect == Spec => []DemandsOrdered
<1>1. Init => DemandsOrdered
  BY DEF Init, DemandsOrdered, DemandOrder, NoView, NoSub, Waiting
<1>2. /\ ReceiptsHold /\ ReceiptsHold' /\ SwitchesOrdered /\ DemandsOrdered
      /\ [Next]_vars
      => DemandsOrdered'
  <2> SUFFICES ASSUME ReceiptsHold, ReceiptsHold', SwitchesOrdered, DemandsOrdered,
                      [Next]_vars
               PROVE  DemandsOrdered'
    OBVIOUS
  <2>1. CASE UNCHANGED vars
    BY <2>1 DEF vars, DemandsOrdered, DemandOrder, Lost, Waiting
  <2>2. CASE Next
    BY <2>2, FrontendDemand, CaptureDemand, TimerDemand, ReplyDemand, CommandDemand
       DEF Next
  <2>3. QED
    BY <2>1, <2>2
<1>3. QED
  BY <1>1, <1>2, ReceiptsCorrect, OrderCorrect, PTL DEF Spec

\* When the table waits for no activity or settings request of an undisturbed
\* subscription, the host has the frontend's latest (Actor::accept_control).
THEOREM DemandIsSettled == Spec => []DemandSettled
<1>1. DemandsOrdered => DemandSettled
  <2> SUFFICES ASSUME DemandsOrdered, NEW id \in Id, Undisturbed(id)
               PROVE  /\ Waiting("SetActivity", id) = {} /\ view[id].act > 0 =>
                           /\ host[id].act = view[id].act
                           /\ host[id].media = view[id].wanted
                      /\ Waiting("Configure", id) = {} => host[id].set = view[id].set
    BY DEF DemandSettled
  <2>1. DemandOrder(id)
    BY DEF DemandsOrdered
  <2>2. QED
    BY <2>1 DEF DemandOrder, Undisturbed
<1>2. QED
  BY <1>1, DemandCorrect, PTL

\* While the host is as far as the frontend's latest activity request, the
\* viewer lets through only what the host sends (View::active).
THEOREM PlaysOnlySent == Spec => []PlaysWhatIsSent
<1>1. ReceiptsHold /\ DemandsOrdered => PlaysWhatIsSent
  <2> SUFFICES ASSUME ReceiptsHold, DemandsOrdered, NEW id \in Id,
                      view[id].st = "open", host[id].act = view[id].act
               PROVE  view[id].active \subseteq host[id].media
    BY DEF PlaysWhatIsSent
  <2>1. DemandOrder(id) /\ view[id] \in Views
    BY DEF DemandsOrdered, ReceiptsHold, TypeOK
  <2>2. QED
    BY <2>1 DEF DemandOrder, Views
<1>2. QED
  BY <1>1, ReceiptsCorrect, DemandCorrect, PTL
=============================================================================
