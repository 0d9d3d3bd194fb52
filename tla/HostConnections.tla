--------------------------- MODULE HostConnections ---------------------------
(***************************************************************************)
(* The life of a connection on the host (run_host_service_inner and its    *)
(* helpers, host/src/service.rs) and of the native resources it owns       *)
(* (host/src/lifecycle.rs): authentication, opening, closing, the receipts *)
(* kept after teardown, key rotation and shutdown. Timers are events that  *)
(* may happen at any moment: a peer falls silent, a receipt or a session   *)
(* grows old, a teardown misses its deadline. The handshake itself is      *)
(* reduced to the step in which its Finish commits.                        *)
(***************************************************************************)
EXTENDS Naturals, FiniteSets

CONSTANTS
  Addr, ConnId,     \* peer addresses, connection ids
  MaxOwners,        \* connections, closing tasks and live receipts: 8
  MaxSessions,      \* authenticated sessions: 16
  MaxGen, MaxKey    \* bounds: connections ever opened, keys

ASSUME ConnectionsAssumption ==
  /\ IsFiniteSet(Addr)
  /\ MaxOwners \in Nat \ {0} /\ MaxSessions \in Nat \ {0}
  /\ MaxGen \in Nat /\ MaxKey \in Nat

VARIABLES
  peers,     \* open connections; gen 0 means none, else its Resources
  closing,   \* teardown tasks (ClosingTask)
  closed,    \* ClosedReceipt
  auth,      \* authenticated: the key of the session, 0 means none
  aged,      \* addresses whose receipt, or session, is older than 30 s
  res,       \* Resources of every connection ever opened
  nextGen,
  psk, disk, \* the key the service works with, the key configured by now
  stopping,  \* "no", "waiting" for teardown, "failed", "stopped"
  replies    \* history: terminal replies, as [gen, ok]

vars == <<peers, closing, closed, auth, aged, res, nextGen, psk, disk,
          stopping, replies>>

-----------------------------------------------------------------------------
NoPeer == [gen |-> 0, id |-> 0, versioned |-> FALSE]
NoTask == [gen |-> 0, id |-> 0, notify |-> FALSE, result |-> "pending"]
NoReceipt == [gen |-> 0, id |-> 0, ok |-> FALSE]
NoResources == [workers |-> 0, streams |-> 0, stops |-> 0, errors |-> 0]

Gens == 1..MaxGen
Open(a) == peers[a].gen # 0
Closing(a) == closing[a].gen # 0
\* ClosedReceipt::resources_live.
Live(g) == res[g].workers # 0 \/ res[g].streams # 0
LiveReceipt(a) == closed[a].gen # 0 /\ Live(closed[a].gen)
Clean(g) == res[g] = NoResources

\* connection_admission_error counts the three maps separately.
OwnerCount == Cardinality({a \in Addr : Open(a)})
              + Cardinality({a \in Addr : Closing(a)})
              + Cardinality({a \in Addr : LiveReceipt(a)})
\* Mutants: nobody asks; a limit on open connections only.
AdmittedUnchecked(a) == TRUE
AdmittedForgetful(a) ==
  /\ ~LiveReceipt(a)
  /\ \/ Open(a)
     \/ Cardinality({b \in Addr : Open(b)}) < MaxOwners
Admitted(a) == ~LiveReceipt(a) /\ (OwnerCount < MaxOwners \/ Open(a))
\* require_auth: without a key the plaintext compatibility mode is on.
Authorized(a) == psk = 0 \/ auth[a] # 0
Serving == stopping = "no"

-----------------------------------------------------------------------------
(* Messages.                                                               *)

\* accept_session_message for a Finish: authentication_admission_error, then
\* the session key is installed and the old receipt forgotten.
Authenticate(a) ==
  /\ Serving /\ psk # 0
  /\ ~Open(a) /\ ~Closing(a) /\ ~LiveReceipt(a)
  /\ auth[a] = 0 /\ Cardinality({b \in Addr : auth[b] # 0}) < MaxSessions
  /\ auth' = [auth EXCEPT ![a] = psk]
  /\ closed' = [closed EXCEPT ![a] = NoReceipt]
  /\ aged' = aged \ {a}
  /\ UNCHANGED <<peers, closing, res, nextGen, psk, disk, stopping, replies>>

NewPeer(a, id, versioned) ==
  /\ nextGen <= MaxGen
  /\ peers' = [peers EXCEPT ![a] = [gen |-> nextGen, id |-> id,
                                    versioned |-> versioned]]
  /\ nextGen' = nextGen + 1
\* SessionCommand::Open: a new connection, or the same one again.
OpenConnection(a, id) ==
  /\ Serving /\ Authorized(a) /\ ~Closing(a) /\ Admitted(a)
  /\ Open(a) => peers[a].id = id
  /\ closed' = [closed EXCEPT ![a] = NoReceipt]
  /\ IF Open(a)
     THEN /\ peers' = [peers EXCEPT ![a].versioned = TRUE] /\ UNCHANGED nextGen
     ELSE NewPeer(a, id, TRUE)
  /\ UNCHANGED <<closing, auth, aged, res, psk, disk, stopping, replies>>
\* The legacy StartStream of a peer that is not connected; the old receipt
\* stays.
StartStream(a, id) ==
  /\ Serving /\ Authorized(a) /\ ~Closing(a) /\ Admitted(a) /\ ~Open(a)
  /\ NewPeer(a, id, FALSE)
  /\ UNCHANGED <<closing, closed, auth, aged, res, psk, disk, stopping, replies>>
\* A binding request for a live subscription is proof of the versioned
\* protocol: the legacy commands are refused from then on.
RequestInputBinding(a) ==
  /\ Serving /\ Authorized(a) /\ Open(a) /\ res[peers[a].gen].workers = 1
  /\ peers' = [peers EXCEPT ![a].versioned = TRUE]
  /\ UNCHANGED <<closing, closed, auth, aged, res, nextGen, psk, disk, stopping,
                 replies>>

\* begin_close for a set of addresses.
Left(gone) == [a \in Addr |-> IF a \in gone THEN NoPeer ELSE peers[a]]
Begun(gone, notify) ==
  [a \in Addr |-> IF a \in gone /\ Open(a)
                  THEN [gen |-> peers[a].gen, id |-> peers[a].id,
                        notify |-> notify, result |-> "pending"]
                  ELSE closing[a]]

TerminalReply(g, ok) == [gen |-> g, ok |-> ok]
\* request_close: the closing task is told to answer, the connection begins
\* to close, a receipt answers again, anything else is an error reply.
Close(a, id) ==
  /\ Serving /\ Authorized(a)
  /\ \/ /\ Closing(a) /\ closing[a].id = id
        /\ closing' = [closing EXCEPT ![a].notify = TRUE]
        /\ UNCHANGED <<peers, replies>>
     \/ /\ ~Closing(a) /\ Open(a) /\ peers[a].id = id
        /\ peers' = Left({a}) /\ closing' = Begun({a}, TRUE)
        /\ UNCHANGED replies
     \/ /\ ~Closing(a) /\ ~Open(a)
        /\ closed[a].gen # 0 /\ closed[a].id = id
        /\ replies' = replies \cup {TerminalReply(closed[a].gen, closed[a].ok)}
        /\ UNCHANGED <<peers, closing>>
  /\ UNCHANGED <<closed, auth, aged, res, nextGen, psk, disk, stopping>>
\* The legacy StopStream asks for no answer.
StopStream(a) ==
  /\ Serving /\ Authorized(a) /\ Open(a) /\ ~peers[a].versioned
  /\ peers' = Left({a}) /\ closing' = Begun({a}, FALSE)
  /\ UNCHANGED <<closed, auth, aged, res, nextGen, psk, disk, stopping, replies>>

\* Connection::subscribe refuses to start over an unconfirmed stop.
Subscribe(a) ==
  /\ Serving /\ Authorized(a) /\ Open(a)
  /\ LET g == peers[a].gen IN
     /\ res[g].workers = 0 /\ res[g].stops = 0 /\ res[g].errors = 0
     /\ res' = [res EXCEPT ![g].workers = 1]
  /\ UNCHANGED <<peers, closing, closed, auth, aged, nextGen, psk, disk,
                 stopping, replies>>

-----------------------------------------------------------------------------
(* Native resources: a capture worker opens a stream; when it ends it asks *)
(* the stream to stop before its guard is dropped; the stop completes, or  *)
(* fails and the stream stays owned.                                       *)

ResourceStep(g, r) ==
  /\ res' = [res EXCEPT ![g] = r]
  /\ UNCHANGED <<peers, closing, closed, auth, aged, nextGen, psk, disk,
                 stopping, replies>>
StreamOpens(g) ==
  /\ res[g].workers = 1 /\ res[g].streams = 0
  /\ ResourceStep(g, [res[g] EXCEPT !.streams = 1])
WorkerEnds(g) ==
  /\ res[g].workers = 1
  /\ ResourceStep(g, [res[g] EXCEPT !.workers = 0,
                        !.stops = IF res[g].streams = 1 THEN 1 ELSE 0])
StopCompletes(g, ok) ==
  /\ res[g].stops = 1
  /\ ResourceStep(g, IF ok THEN [res[g] EXCEPT !.stops = 0, !.streams = 0]
                     ELSE [res[g] EXCEPT !.stops = 0, !.errors = 1])

\* Mutants: a teardown that trusts its workers' end; one without a deadline.
TeardownTrusts(a) ==
  /\ Closing(a) /\ closing[a].result = "pending"
  /\ res[closing[a].gen].workers = 0
  /\ closing' = [closing EXCEPT ![a].result = "ok"]
  /\ UNCHANGED <<peers, closed, auth, aged, res, nextGen, psk, disk, stopping,
                 replies>>
TeardownWaits(a) ==
  /\ Closing(a) /\ closing[a].result = "pending"
  /\ LET g == closing[a].gen IN
     /\ res[g].workers = 0 /\ res[g].stops = 0
     /\ closing' = [closing EXCEPT ![a].result =
                      IF Clean(g) THEN "ok" ELSE "error"]
  /\ UNCHANGED <<peers, closed, auth, aged, res, nextGen, psk, disk, stopping,
                 replies>>
\* Connection::shutdown joins the workers and waits for the native stops; it
\* confirms only if everything is gone, and gives up at its deadline or when a
\* worker panicked.
TeardownEnds(a) ==
  /\ Closing(a) /\ closing[a].result = "pending"
  /\ LET g == closing[a].gen IN
     \/ /\ res[g].workers = 0 /\ res[g].stops = 0
        /\ closing' = [closing EXCEPT ![a].result =
                         IF Clean(g) THEN "ok" ELSE "error"]
     \/ closing' = [closing EXCEPT ![a].result = "error"]
  /\ UNCHANGED <<peers, closed, auth, aged, res, nextGen, psk, disk, stopping,
                 replies>>

-----------------------------------------------------------------------------
Finished(a) == Closing(a) /\ closing[a].result # "pending"
Receipt(a) == [gen |-> closing[a].gen, id |-> closing[a].id,
               ok |-> closing[a].result = "ok"]

\* Mutants: sessions survive a rotation; old receipts go, live or not.
SessionsKept(rotated) == auth
RetainedByAge(a, rotated) == ~rotated /\ a \notin aged
\* authenticated.clear() when the key changed.
Sessions(rotated) == IF rotated THEN [a \in Addr |-> 0] ELSE auth
\* closed.retain: twice, once only on a rotation.
Retained(a, rotated) == LiveReceipt(a) \/ (~rotated /\ a \notin aged)

\* The 100 ms tick: key rotation, silent and revoked peers, finished
\* teardowns, then the receipts and sessions that may be forgotten.
ServiceTick(silent) ==
  LET rotated == disk # psk
      gone  == IF rotated THEN {a \in Addr : Open(a)} ELSE silent
      done  == {a \in Addr : Finished(a)}
      auth1 == Sessions(rotated)
      closed1 == [a \in Addr |->
        IF a \in done THEN Receipt(a)
        ELSE IF Retained(a, rotated) THEN closed[a] ELSE NoReceipt]
  IN
  /\ stopping \in {"no", "failed"}
  /\ silent \subseteq {a \in Addr : Open(a)}
  /\ peers' = Left(gone)
  /\ closing' = [a \in Addr |-> IF a \in done THEN NoTask
                                ELSE Begun(gone, ~rotated)[a]]
  /\ closed' = closed1
  /\ auth' = [a \in Addr |->
       IF peers'[a].gen # 0 \/ closing'[a].gen # 0 \/ closed1[a].gen # 0
          \/ a \notin aged THEN auth1[a] ELSE 0]
  /\ aged' = aged \ done
  /\ replies' = replies \cup
       {TerminalReply(closing[a].gen, closing[a].result = "ok") :
          a \in {b \in done : closing[b].notify /\ auth1[b] # 0}}
  /\ psk' = disk
  /\ UNCHANGED <<res, nextGen, disk, stopping>>

Ages(a) == /\ a \notin aged /\ (closed[a].gen # 0 \/ auth[a] # 0)
           /\ aged' = aged \cup {a}
           /\ UNCHANGED <<peers, closing, closed, auth, res, nextGen, psk, disk,
                          stopping, replies>>
ChangeKey == /\ \E key \in 0..MaxKey \ {disk} : disk' = key
             /\ UNCHANGED <<peers, closing, closed, auth, aged, res, nextGen,
                            psk, stopping, replies>>

\* Mutant: only the teardowns of this shutdown count.
ConfirmedNow(receipts) == \A a \in Addr : Closing(a) => receipts[a].ok
\* What shutdown_connections asks of all receipts, the older ones included.
Confirmed(receipts) ==
  \A a \in Addr : \/ receipts[a].gen = 0
                  \/ receipts[a].ok /\ ~Live(receipts[a].gen)
\* shutdown_connections: the input owner is released, every peer begins to
\* close, every teardown is awaited, and success is reported only if nothing
\* failed or is left.
BeginShutdown ==
  /\ stopping \in {"no", "failed"}
  /\ stopping' = "waiting"
  /\ peers' = Left(Addr) /\ closing' = Begun(Addr, TRUE)
  /\ UNCHANGED <<closed, auth, aged, res, nextGen, psk, disk, replies>>
EndShutdown(released) ==
  LET over == {a \in Addr : Closing(a)}
      closed1 == [a \in Addr |-> IF a \in over THEN Receipt(a) ELSE closed[a]]
  IN
  /\ stopping = "waiting" /\ \A a \in over : Finished(a)
  /\ closing' = [a \in Addr |-> NoTask]
  /\ closed' = closed1
  /\ replies' = replies \cup {TerminalReply(closing[a].gen,
                                closing[a].result = "ok") : a \in over}
  /\ stopping' = IF released /\ Confirmed(closed1) THEN "stopped" ELSE "failed"
  /\ aged' = aged \ over
  /\ UNCHANGED <<peers, auth, res, nextGen, psk, disk>>

Init ==
  /\ peers = [a \in Addr |-> NoPeer]
  /\ closing = [a \in Addr |-> NoTask]
  /\ closed = [a \in Addr |-> NoReceipt]
  /\ auth = [a \in Addr |-> 0] /\ aged = {}
  /\ res = [g \in Gens |-> NoResources] /\ nextGen = 1
  /\ psk \in {0, 1} /\ psk <= MaxKey /\ disk = psk
  /\ stopping = "no" /\ replies = {}

ResourcesNext ==
  \E g \in Gens : \/ StreamOpens(g) \/ WorkerEnds(g)
                  \/ \E ok \in BOOLEAN : StopCompletes(g, ok)
MessageNext ==
  \E a \in Addr : \/ Authenticate(a) \/ StopStream(a) \/ Subscribe(a)
                  \/ RequestInputBinding(a)
                  \/ \E id \in ConnId : \/ OpenConnection(a, id)
                                        \/ StartStream(a, id) \/ Close(a, id)
TickNext == \E silent \in SUBSET Addr : ServiceTick(silent)
ShutdownNext == \E released \in BOOLEAN : EndShutdown(released)
Next == \/ ResourcesNext \/ MessageNext \/ TickNext
        \/ \E a \in Addr : TeardownEnds(a) \/ Ages(a)
        \/ ChangeKey \/ BeginShutdown \/ ShutdownNext

Spec == Init /\ [][Next]_vars
\* The tick interval always fires again, and a teardown ends, at the latest at
\* its deadline (CLEANUP_WAIT).
FairSpec == /\ Spec /\ WF_vars(TickNext) /\ WF_vars(ShutdownNext)
            /\ \A a \in Addr : WF_vars(TeardownEnds(a))

-----------------------------------------------------------------------------
TypeOK ==
  /\ peers \in [Addr -> [gen : Nat, id : ConnId \cup {0}, versioned : BOOLEAN]]
  /\ closing \in [Addr -> [gen : Nat, id : ConnId \cup {0}, notify : BOOLEAN,
                           result : {"pending", "ok", "error"}]]
  /\ closed \in [Addr -> [gen : Nat, id : ConnId \cup {0}, ok : BOOLEAN]]
  /\ auth \in [Addr -> Nat] /\ aged \subseteq Addr
  /\ res \in [Gens -> [workers : 0..1, streams : 0..1, stops : 0..1,
                       errors : 0..1]]
  /\ nextGen \in 1..(MaxGen + 1) /\ psk \in Nat /\ disk \in Nat
  /\ stopping \in {"no", "waiting", "failed", "stopped"}
  /\ replies \subseteq [gen : Nat, ok : BOOLEAN]

\* No native owner is lost: resources that are still live belong to an open
\* connection, a teardown in progress or a kept receipt, whatever receipts
\* were replaced or forgotten on the way.
Accounted ==
  \A g \in Gens : Live(g) =>
    \E a \in Addr : g \in {peers[a].gen, closing[a].gen, closed[a].gen}

\* An address has one native owner at a time: nothing opens over a teardown in
\* progress or a receipt whose resources are live.
OneOwner ==
  \A a \in Addr : /\ ~(Open(a) /\ Closing(a))
                  /\ ~((Open(a) \/ Closing(a)) /\ LiveReceipt(a))

\* The limit of native owners holds across open, closing and unfinished
\* connections together.
OwnerLimit == OwnerCount <= MaxOwners

\* "Closed: all capture and connection workers stopped" is said only of a
\* connection whose resources are gone, and stays true.
ClosedIsTrue ==
  \A r \in replies : r.ok => Clean(r.gen)

\* A successful shutdown leaves no live native resource of any connection.
StopIsTrue == stopping = "stopped" => \A g \in Gens : ~Live(g)

\* Under a key, every open connection is authenticated with that very key: a
\* rotation leaves no connection of the old key behind.
OnlyCurrentKey ==
  /\ \A a \in Addr : auth[a] \in {0, psk}
  /\ psk # 0 => \A a \in Addr : Open(a) => auth[a] = psk

\* A close that was asked for is answered, whatever the workers do, unless the
\* session it would be answered in is gone by then.
CloseAnswered ==
  \A g \in Gens :
    (\E a \in Addr : closing[a].gen = g /\ closing[a].notify)
      ~> (\/ \E r \in replies : r.gen = g
          \/ \E a \in Addr : closed[a].gen = g /\ auth[a] = 0)
=============================================================================
