--------------------------- MODULE SessionControl ---------------------------
(***************************************************************************)
(* The control commands of one connection: the viewer's session actor      *)
(* (Actor of remote_core/src/workspace_session.rs) with its views and its  *)
(* table of unconfirmed requests, an unreliable network, and the host's    *)
(* subscriptions (Connection of host/src/service.rs). A request is sent    *)
(* again until it is answered or its time is up. Subscription ids are used *)
(* once and are never the number of a switch request, as in the desktop    *)
(* client. Input, audio routing and Close are the subject of other modules.*)
(***************************************************************************)
EXTENDS Naturals, FiniteSets

CONSTANTS
  Id,              \* subscription ids
  Source, First,   \* capture sources, the one first subscribed to
  Demands,         \* the media a frontend may ask for
  MaxSubs,         \* MAX_SUBSCRIPTIONS of the viewer
  MaxAct, MaxReq, MaxSet,  \* bounds on activity, switch and settings revisions
  MaxAsks                  \* bound on their sum, for one subscription

Media == {"video", "audio"}

ASSUME SessionAssumption ==
  /\ First \in Source /\ Demands \subseteq SUBSET Media /\ MaxSubs \in Nat
  /\ MaxAct \in Nat /\ MaxReq \in Nat /\ MaxSet \in Nat
  /\ MaxAsks \in Nat
  /\ Id \cap Nat = {}

VARIABLES
  view,      \* Actor::subscriptions
  pending,   \* Actor::pending
  host,      \* Connection::subscriptions and Connection::retired
  net,       \* every message ever sent; any of them may arrive, at any time,
             \* any number of times (a request is repeated), or never
  log        \* history: what the viewer was told about each subscription

vars == <<view, pending, host, net, log>>

-----------------------------------------------------------------------------
\* View. "active" is what it lets through, "wanted" its MediaDemand, "act",
\* "req" and "set" the latest activity, switch and settings revisions of the
\* frontend and "source" what it last asked for. "gone" is a removed view.
Views == [st : {"none", "open", "gone"}, accepted : BOOLEAN,
          active : SUBSET Media, wanted : SUBSET Media,
          act : Nat, req : Nat, set : Nat, source : Source]
NoView == [st |-> "none", accepted |-> FALSE, active |-> {}, wanted |-> {},
           act |-> 0, req |-> 0, set |-> 0, source |-> First]
NewView == [NoView EXCEPT !.st = "open", !.wanted = Media]

\* Subscription. "over": its capture task has finished; "stuck": unsubscribed,
\* but the task did not stop in time. "receipt" is its entry in "retired",
\* "cfg" the settings in effect, named by their revision, 0 for the first ones.
Subs == [st : {"none", "live", "over", "stuck"}, receipt : {"none", "ok", "err"},
         source : Source, rev : Nat, act : Nat, set : Nat, cfg : Nat,
         media : SUBSET Media]
NoSub == [st |-> "none", receipt |-> "none", source |-> First,
          rev |-> 0, act |-> 0, set |-> 0, cfg |-> 0, media |-> Media]
Listed(s) == s.st # "none"

SubscribeCmd(id) == [type |-> "Subscribe", id |-> id]
ActivityCmd(id, rev, media) ==
  [type |-> "SetActivity", id |-> id, rev |-> rev, media |-> media]
ConfigureCmd(id, rev) == [type |-> "Configure", id |-> id, rev |-> rev]
SwitchCmd(id, req, source) ==
  [type |-> "SwitchSource", id |-> id, req |-> req, source |-> source]
UnsubscribeCmd(id) == [type |-> "Unsubscribe", id |-> id]
Commands == [type : {"Subscribe", "Unsubscribe"}, id : Id]
              \cup [type : {"SetActivity"}, id : Id, rev : Nat, media : SUBSET Media]
              \cup [type : {"Configure"}, id : Id, rev : Nat]
              \cup [type : {"SwitchSource"}, id : Id, req : Nat, source : Source]
Replies == [type : {"Subscribed", "Unsubscribed"}, id : Id]
             \cup [type : {"Activity"}, id : Id, rev : Nat, media : SUBSET Media]
             \cup [type : {"Configured"}, id : Id, rev : Nat]
             \cup [type : {"SourceSwitched"}, id : Id, req : Nat, source : Source]
             \cup [type : {"Error"}, num : Id \cup Nat]
Error(num) == [type |-> "Error", num |-> num]

\* request_key: a category and a number.
Num(c) == IF c.type = "SwitchSource" THEN c.req ELSE c.id
SameKey(c, d) == c.type = d.type /\ Num(c) = Num(d)
Waiting(type, id) == {c \in pending : c.type = type /\ c.id = id}

-----------------------------------------------------------------------------
(* The viewer.                                                             *)

HostSame == UNCHANGED host
\* Actor::request after "dropped" left the table; a switch supersedes the
\* earlier switches of its subscription.
Request(c, dropped) ==
  LET old == IF c.type = "SwitchSource" THEN Waiting("SwitchSource", c.id)
             ELSE {d \in pending : SameKey(c, d)} IN
  /\ pending' = ((pending \ dropped) \ old) \cup {c}
  /\ net' = net \cup {c}

Subscribe(id) ==
  /\ view[id].st = "none"
  /\ Cardinality({i \in Id : view[i].st = "open"}) < MaxSubs
  /\ view' = [view EXCEPT ![id] = NewView]
  /\ Request(SubscribeCmd(id), {})
  /\ HostSame /\ UNCHANGED log
MayAsk(id) == view[id].act + view[id].req + view[id].set < MaxAsks
\* Mutant: ingress goes on until the acknowledgement.
DemandingLater(v, media) == [v EXCEPT !.act = v.act + 1, !.wanted = media]
\* Ingress stops at once; reopening waits for the acknowledgement.
Demanding(v, media) == [v EXCEPT !.act = v.act + 1, !.wanted = media,
                                 !.active = v.active \cap media]
SetActivity(id, media) ==
  /\ view[id].st = "open" /\ view[id].act < MaxAct /\ MayAsk(id)
  /\ view' = [view EXCEPT ![id] = Demanding(@, media)]
  /\ Request(ActivityCmd(id, view[id].act + 1, media), {})
  /\ HostSame /\ UNCHANGED log
Configure(id) ==
  /\ view[id].st = "open" /\ view[id].set < MaxSet /\ MayAsk(id)
  /\ view' = [view EXCEPT ![id].set = @ + 1]
  /\ Request(ConfigureCmd(id, view[id].set + 1), {})
  /\ HostSame /\ UNCHANGED log
Switching(v, source) == [v EXCEPT !.req = v.req + 1, !.source = source]
SwitchSource(id, source) ==
  /\ view[id].st = "open" /\ view[id].req < MaxReq /\ MayAsk(id)
  /\ view' = [view EXCEPT ![id] = Switching(@, source)]
  /\ Request(SwitchCmd(id, view[id].req + 1, source), {})
  /\ HostSame /\ UNCHANGED log

\* prepare_control for Unsubscribe: the requests that end with the view.
Retired(id) == {c \in pending : c.id = id
                  /\ c.type \in {"Subscribe", "SetActivity", "SwitchSource"}}
Removed(v) == [v EXCEPT !.st = "gone", !.accepted = FALSE, !.active = {}]
Unsubscribe(id) ==
  /\ view[id].st = "open"
  /\ view' = [view EXCEPT ![id] = Removed(@)]
  /\ Request(UnsubscribeCmd(id), Retired(id))
  /\ HostSame /\ UNCHANGED log

\* expire_request, per category. The frontend is told of every expiry.
ExpireSubscribe(c) ==
  /\ c \in pending /\ c.type = "Subscribe"
  /\ view' = [view EXCEPT ![c.id] = Removed(@)]
  /\ Request(UnsubscribeCmd(c.id), Retired(c.id) \cup {c})
  /\ log' = [log EXCEPT ![c.id].refused = TRUE]
  /\ HostSame
ExpireOther(c) ==
  /\ c \in pending /\ c.type # "Subscribe"
  /\ pending' = pending \ {c}
  /\ log' = [log EXCEPT ![c.id].refused = TRUE]
  /\ UNCHANGED <<view, host, net>>

(* accept_control, one action per reply that is accepted. *)
Accepted(v) == [v EXCEPT !.accepted = TRUE, !.active = v.wanted]
ReceiveSubscribed(m) ==
  /\ m.type = "Subscribed" /\ view[m.id].st = "open"
  /\ SubscribeCmd(m.id) \in pending
  /\ pending' = pending \ {SubscribeCmd(m.id)}
  /\ view' = [view EXCEPT ![m.id] = Accepted(@)]
  /\ UNCHANGED <<host, net, log>>
\* Mutant: an older acknowledgement will do.
ActivityCurrentAny(m) == view[m.id].st = "open" /\ view[m.id].accepted
ActivityCurrent(m) ==
  /\ SubscribeCmd(m.id) \notin pending /\ view[m.id].st = "open"
  /\ view[m.id].accepted
  /\ \A c \in Waiting("SetActivity", m.id) : m.rev >= c.rev
ReceiveActivity(m) ==
  /\ m.type = "Activity" /\ ActivityCurrent(m)
  /\ pending' = pending \ Waiting("SetActivity", m.id)
  /\ view' = IF m.rev < view[m.id].act THEN view
             ELSE [view EXCEPT ![m.id].active = m.media \cap view[m.id].wanted]
  /\ UNCHANGED <<host, net, log>>
ReceiveConfigured(m) ==
  /\ m.type = "Configured"
  /\ \A c \in Waiting("Configure", m.id) : m.rev >= c.rev
  /\ pending' = pending \ Waiting("Configure", m.id)
  /\ UNCHANGED <<view, host, net, log>>
ReceiveSwitched(m) ==
  /\ m.type = "SourceSwitched" /\ view[m.id].st = "open"
  /\ SwitchCmd(m.id, m.req, m.source) \in pending
  /\ pending' = pending \ {SwitchCmd(m.id, m.req, m.source)}
  /\ UNCHANGED <<view, host, net, log>>
ReceiveUnsubscribed(m) ==
  /\ m.type = "Unsubscribed"
  /\ pending' = pending \ {UnsubscribeCmd(m.id)}
  /\ log' = [log EXCEPT ![m.id].stopped = TRUE]
  /\ UNCHANGED <<view, host, net>>
\* reject_request: an Error names a number, not a category.
ReceiveError(m) ==
  LET lost == {c \in pending : Num(c) = m.num} IN
  /\ m.type = "Error"
  /\ pending' = pending \ lost
  /\ log' = [id \in Id |-> IF id = m.num \/ \E c \in lost : c.id = id
                           THEN [log[id] EXCEPT !.refused = TRUE] ELSE log[id]]
  /\ UNCHANGED <<view, host, net>>

-----------------------------------------------------------------------------
(* The host. It answers one command at a time.                             *)

ViewerSame == UNCHANGED <<view, pending>>
HostBecomes(id, s, replies) ==
  /\ host' = [host EXCEPT ![id] = s]
  /\ net' = net \cup replies
  /\ ViewerSame /\ UNCHANGED log
\* The subscription's capture is gone before the viewer knows.
HostLoses(id, s, replies) ==
  /\ host' = [host EXCEPT ![id] = s]
  /\ net' = net \cup replies
  /\ log' = [log EXCEPT ![id].ended = TRUE]
  /\ ViewerSame
\* A success is followed by report_input_readiness, which may send an Error
\* that names the subscription (INPUT_UNAVAILABLE).
Success(id, s, reply) ==
  \E extra \in {{}, {Error(id)}} : HostBecomes(id, s, {reply} \cup extra)

\* Mutant: a repeated Subscribe brings back the first source as well.
HostSubscribeAnew(m) ==
  LET s == host[m.id] IN
  /\ m.type = "Subscribe"
  /\ IF s.receipt # "none" \/ s.st = "over" THEN HostBecomes(m.id, s, {Error(m.id)})
     ELSE Success(m.id, IF s.st = "live" THEN [s EXCEPT !.source = First, !.cfg = 0]
                        ELSE [NoSub EXCEPT !.st = "live"],
                  [type |-> "Subscribed", id |-> m.id])
\* A repeated Subscribe brings back the settings it carries.
HostSubscribe(m) ==
  LET s == host[m.id]
      reply == [type |-> "Subscribed", id |-> m.id] IN
  /\ m.type = "Subscribe"
  /\ IF s.receipt # "none" \/ s.st = "over" \/ (s.st = "live" /\ s.source # First)
     THEN HostBecomes(m.id, s, {Error(m.id)})
     ELSE IF s.st = "live" THEN Success(m.id, [s EXCEPT !.cfg = 0], reply)
     ELSE \/ Success(m.id, [NoSub EXCEPT !.st = "live"], reply)
          \/ HostBecomes(m.id, s, {Error(m.id)})

\* The request is older than the source that is shown, or reuses its number.
StaleSwitch(s, m) == \/ m.req < s.rev
                     \/ m.req = s.rev /\ m.source # s.source
\* The capture is replaced, or the replacement fails: before the old capture
\* was touched, after it was stopped, or after its subscription was removed.
HostSwitch(m) ==
  LET s == host[m.id]
      reply == [type |-> "SourceSwitched", id |-> m.id, req |-> m.req,
                source |-> m.source]
      refusal == {Error(m.req)} IN
  /\ m.type = "SwitchSource"
  /\ IF ~Listed(s) \/ StaleSwitch(s, m) \/ (s.receipt # "none" /\ m.req # s.rev)
     THEN HostBecomes(m.id, s, refusal)
     ELSE IF m.req = s.rev THEN Success(m.id, s, reply)
     ELSE \/ Success(m.id, [s EXCEPT !.st = "live", !.source = m.source,
                                     !.rev = m.req], reply)
          \/ HostBecomes(m.id, s, refusal)
          \/ s.source # m.source /\ HostLoses(m.id, [s EXCEPT !.st = "over"], refusal)
          \/ s.source # m.source /\ HostLoses(m.id, NoSub, refusal)

ActivityApplied(s, m) ==
  IF m.rev > s.act THEN [s EXCEPT !.act = m.rev, !.media = m.media] ELSE s
HostActivity(m) ==
  LET s == ActivityApplied(host[m.id], m) IN
  /\ m.type = "SetActivity" /\ Listed(host[m.id])
  /\ HostBecomes(m.id, s, {[type |-> "Activity", id |-> m.id, rev |-> s.act,
                            media |-> s.media]})
HostConfigure(m) ==
  LET s == IF m.rev > host[m.id].set
           THEN [host[m.id] EXCEPT !.set = m.rev, !.cfg = m.rev] ELSE host[m.id] IN
  /\ m.type = "Configure"
  /\ \/ HostBecomes(m.id, host[m.id], {Error(m.id)})
     \/ /\ Listed(host[m.id])
        /\ HostBecomes(m.id, s, {[type |-> "Configured", id |-> m.id, rev |-> s.set]})

\* Mutant: the subscription leaves without a receipt.
StoppedForgotten(s) == NoSub
Stopped(s) == [NoSub EXCEPT !.receipt = "ok"]
\* Connection::unsubscribe: the first outcome is kept and repeated.
HostUnsubscribe(m) ==
  LET s == host[m.id]
      reply == [type |-> "Unsubscribed", id |-> m.id] IN
  /\ m.type = "Unsubscribe"
  /\ IF s.receipt = "ok" THEN HostBecomes(m.id, s, {reply})
     ELSE IF s.receipt = "err" \/ ~Listed(s)
     THEN HostBecomes(m.id, s, {Error(m.id)})
     ELSE \/ HostBecomes(m.id, Stopped(s), {reply})
          \/ HostBecomes(m.id, [NoSub EXCEPT !.receipt = "err"], {Error(m.id)})
          \/ HostBecomes(m.id, [s EXCEPT !.st = "stuck", !.receipt = "err"], {Error(m.id)})

\* The capture task ends by itself, with or without an error to report, or
\* long after it was aborted.
CaptureEnds(id) ==
  \/ /\ host[id].st = "live"
     /\ \E extra \in {{}, {Error(id)}} :
          HostLoses(id, [host[id] EXCEPT !.st = "over"], extra)
  \/ /\ host[id].st = "stuck"
     /\ HostLoses(id, [host[id] EXCEPT !.st = "over"], {})
\* prune_finished_subscriptions; a panicked worker leaves a receipt.
Prune(id) ==
  /\ host[id].st = "over"
  /\ \/ HostBecomes(id, [NoSub EXCEPT !.receipt = host[id].receipt], {})
     \/ HostBecomes(id, [NoSub EXCEPT !.receipt = "err"], {})

-----------------------------------------------------------------------------
Init ==
  /\ view = [id \in Id |-> NoView]
  /\ pending = {} /\ net = {}
  /\ host = [id \in Id |-> NoSub]
  /\ log = [id \in Id |-> [stopped |-> FALSE, refused |-> FALSE, ended |-> FALSE]]

Frontend(id) ==
  \/ Subscribe(id) \/ Unsubscribe(id) \/ Configure(id)
  \/ \E media \in Demands : SetActivity(id, media)
  \/ \E source \in Source : SwitchSource(id, source)
Timer == \E c \in pending : ExpireSubscribe(c) \/ ExpireOther(c)
ViewerReceives(m) ==
  \/ ReceiveSubscribed(m) \/ ReceiveActivity(m) \/ ReceiveConfigured(m)
  \/ ReceiveSwitched(m) \/ ReceiveUnsubscribed(m) \/ ReceiveError(m)
HostReceives(m) ==
  \/ HostSubscribe(m) \/ HostSwitch(m) \/ HostActivity(m) \/ HostConfigure(m)
  \/ HostUnsubscribe(m)

Next ==
  \/ \E id \in Id : Frontend(id) \/ CaptureEnds(id) \/ Prune(id)
  \/ Timer
  \/ \E m \in net : ViewerReceives(m) \/ HostReceives(m)

Spec == Init /\ [][Next]_vars

-----------------------------------------------------------------------------
Logs == [stopped : BOOLEAN, refused : BOOLEAN, ended : BOOLEAN]
TypeOK ==
  /\ view \in [Id -> Views] /\ host \in [Id -> Subs] /\ log \in [Id -> Logs]
  /\ pending \subseteq Commands /\ net \subseteq Commands \cup Replies

\* A confirmed stop is final: once the viewer has seen Unsubscribed, the host
\* has no capture for that id and no repeated, late or reordered command brings
\* one back (Connection::retired).
ConfirmedStop == \A id \in Id : log[id].stopped => host[id].st = "none"

\* The inductive invariant behind ConfirmedStop: a confirmation is only ever
\* sent for a subscription with a good receipt, and such a subscription is not
\* listed (Connection::unsubscribe writes the receipt last).
ReceiptsHold ==
  /\ TypeOK
  /\ \A id \in Id :
       /\ log[id].stopped => host[id].receipt = "ok"
       /\ [type |-> "Unsubscribed", id |-> id] \in net => host[id].receipt = "ok"
       /\ host[id].receipt = "ok" => host[id].st = "none"

\* Nothing went wrong with this subscription as far as either side knows.
Undisturbed(id) ==
  view[id].st = "open" /\ view[id].accepted /\ ~log[id].refused /\ ~log[id].ended

\* "Only the latest intent for this subscription may reopen video": whenever
\* the viewer lets video through, the host shows the source of the latest
\* switch, although older switches and their acknowledgements are still about.
GateShowsLatest ==
  \A id \in Id :
    Undisturbed(id) /\ "video" \in view[id].active
      /\ Waiting("SwitchSource", id) = {} =>
      host[id].source = view[id].source /\ host[id].rev = view[id].req

\* Nothing the host does for this subscription can be relied on any more.
Lost(id) == view[id].st = "gone" \/ log[id].ended

\* The switches of a subscription are in order: no switch on its way is newer
\* than the frontend's latest, only the latest is waited for (Actor::request),
\* the host is at most as far as the frontend, and it is at least as far as
\* every SourceSwitched it has sent (Connection::switch_source).
SwitchOrder(id) ==
  LET v == view[id]
      s == host[id] IN
  /\ v.st = "none" => v.req = 0
  /\ v.req = 0 => v.source = First
  /\ UnsubscribeCmd(id) \in net => v.st = "gone"
  /\ s.st \in {"over", "stuck"} => Lost(id)
  /\ s.st = "none" => s.rev = 0
  /\ s.rev <= v.req /\ (s.rev = v.req => s.source = v.source)
  /\ \A m \in net :
       /\ m.type = "SwitchSource" /\ m.id = id =>
            m.req <= v.req /\ (m.req = v.req => m.source = v.source)
       /\ m.type = "SourceSwitched" /\ m.id = id => m.req <= s.rev \/ Lost(id)
  /\ \A c \in Waiting("SwitchSource", id) : c.req = v.req
  /\ v.st = "open" /\ ~log[id].refused /\ ~log[id].ended
       /\ Waiting("SwitchSource", id) = {} => s.rev = v.req

\* The inductive invariant behind GateShowsLatest: the switches of every
\* subscription are in order (Actor::request, Connection::switch_source).
SwitchesOrdered == \A id \in Id : SwitchOrder(id)

\* What the table no longer waits for is done: without a pending activity or
\* settings request the host has seen the frontend's latest demand and settings.
DemandSettled ==
  \A id \in Id : Undisturbed(id) =>
    /\ Waiting("SetActivity", id) = {} /\ view[id].act > 0 =>
         host[id].act = view[id].act /\ host[id].media = view[id].wanted
    /\ Waiting("Configure", id) = {} => host[id].set = view[id].set

\* The viewer plays nothing that the host has paused on its latest request.
PlaysWhatIsSent ==
  \A id \in Id :
    view[id].st = "open" /\ host[id].act = view[id].act =>
      view[id].active \subseteq host[id].media

\* The activity and settings requests of a subscription are in order: none on
\* its way is newer than the frontend's latest, only the latest of a kind is
\* waited for (Actor::request), the host is at most as far as the frontend and
\* then has what it asked for, and is at least as far as its answers say
\* (Connection::set_activity, the Configure command); the viewer lets through
\* no more than it wants.
DemandOrder(id) ==
  LET v == view[id]
      s == host[id] IN
  /\ v.active \subseteq v.wanted
  /\ v.st = "none" => v.act = 0 /\ v.set = 0
  /\ s.st = "none" => s.act = 0 /\ s.set = 0
  /\ s.act = 0 => s.media = Media
  /\ s.act <= v.act /\ (s.act = v.act /\ v.act # 0 => s.media = v.wanted)
  /\ s.set <= v.set
  /\ \A m \in net : m.type # "Error" /\ m.id = id =>
       /\ m.type = "SetActivity" =>
            m.rev # 0 /\ m.rev <= v.act /\ (m.rev = v.act => m.media = v.wanted)
       /\ m.type = "Configure" => m.rev <= v.set
       /\ m.type = "Activity" => m.rev <= s.act \/ Lost(id)
       /\ m.type = "Configured" => m.rev <= s.set \/ Lost(id)
  /\ \A c \in Waiting("SetActivity", id) : c.rev = v.act
  /\ \A c \in Waiting("Configure", id) : c.rev = v.set
  /\ v.st = "open" /\ ~log[id].refused /\ ~log[id].ended =>
       /\ Waiting("SetActivity", id) = {} => s.act = v.act
       /\ Waiting("Configure", id) = {} => s.set = v.set

\* The inductive invariant behind DemandSettled and PlaysWhatIsSent: the
\* requests of every subscription are in order (Actor::request).
DemandsOrdered == \A id \in Id : DemandOrder(id)

\* "An old Subscribe datagram may be retried after a newer Configure. It must
\* acknowledge the original subscription without restoring obsolete settings":
\* once the latest settings are confirmed they are the ones in effect.
SettingsInEffect ==
  \A id \in Id :
    Undisturbed(id) /\ Waiting("Configure", id) = {} => host[id].cfg = view[id].set
=============================================================================
