---------------------------- MODULE SessionAuth -----------------------------
(***************************************************************************)
(* The session handshake: ClientHandshake, ServerHandshake and             *)
(* authenticate_with_key of remote_core/src/session_auth.rs, and the host's *)
(* commit in accept_session_message of host/src/service.rs. A message      *)
(* carries the key its MAC was made with; a MAC verifies under that key    *)
(* only, and only holders of a key make one. Nonces and session ids do not *)
(* repeat, so an attempt is its nonce and a session id stands for the      *)
(* server's nonce as well.                                                 *)
(***************************************************************************)
EXTENDS Naturals, FiniteSets

CONSTANTS
  Attempt,         \* the clients' handshakes, one nonce each
  Addr, Key,
  NoKey, Nobody,
  MaxHandshakes,   \* MAX_HANDSHAKES
  MaxSessions,     \* limit of authentication_admission_error
  MaxSid           \* bound on the challenges the host makes

ASSUME AuthAssumption ==
  /\ NoKey \notin Key /\ Nobody \notin Attempt
  /\ MaxHandshakes \in Nat /\ MaxSessions \in Nat /\ MaxSid \in Nat

VARIABLES
  client,      \* ClientHandshake per attempt
  entries,     \* ServerHandshake::entries, sid 0: none
  auth,        \* authenticated (and the peer's installed key), 0: none
  psk,         \* the host's session key
  nextSid,     \* the next fresh session id
  net,         \* every message sent, deliverable at any time and repeatedly:
               \* the client sends its current message again every 250 ms
  committed    \* history: the sessions the host has established

vars == <<client, entries, auth, psk, nextSid, net, committed>>

-----------------------------------------------------------------------------
Clients == [st : {"idle", "running", "done", "failed"}, addr : Addr, key : Key,
            sid : Nat]
Entries == [attempt : Attempt \cup {Nobody}, sid : Nat, completed : BOOLEAN]
NoEntry == [attempt |-> Nobody, sid |-> 0, completed |-> FALSE]
Sessions == [sid : Nat, attempt : Attempt, addr : Addr, key : Key]
Session(c, sid, a, k) == [sid |-> sid, attempt |-> c, addr |-> a, key |-> k]

\* HandshakeMessage, with the client's address, whichever way it goes.
Types == {"Hello", "Challenge", "ClientFinish", "ServerFinish", "Reject"}
Messages == [type : Types, attempt : Attempt, sid : Nat, addr : Addr, key : Key]
Message(type, c, sid, a, k) ==
  [type |-> type, attempt |-> c, sid |-> sid, addr |-> a, key |-> k]

-----------------------------------------------------------------------------
(* The client, authenticate_with_key.                                      *)

Start(c, a, k) ==
  /\ client[c].st = "idle"
  /\ client' = [client EXCEPT ![c] = [st |-> "running", addr |-> a, key |-> k,
                                      sid |-> 0]]
  /\ net' = net \cup {Message("Hello", c, 0, a, k)}
  /\ UNCHANGED <<entries, auth, psk, nextSid, committed>>

\* The message reached this client's socket and its MAC verifies.
ForClient(c, m) ==
  client[c].st = "running" /\ m.addr = client[c].addr /\ m.key = client[c].key
\* A challenge for this attempt, and no other one was answered before.
TakesChallenge(c, m) == m.attempt = c /\ client[c].sid \in {0, m.sid}
ReceiveChallenge(c, m) ==
  /\ m.type = "Challenge" /\ ForClient(c, m) /\ TakesChallenge(c, m)
  /\ client' = [client EXCEPT ![c].sid = m.sid]
  /\ net' = net \cup {Message("ClientFinish", c, m.sid, m.addr, m.key)}
  /\ UNCHANGED <<entries, auth, psk, nextSid, committed>>
ReceiveServerFinish(c, m) ==
  /\ m.type = "ServerFinish" /\ ForClient(c, m)
  /\ m.attempt = c /\ m.sid = client[c].sid
  /\ client' = [client EXCEPT ![c].st = "done"]
  /\ UNCHANGED <<entries, auth, psk, nextSid, net, committed>>
ReceiveReject(c, m) ==
  /\ m.type = "Reject" /\ ForClient(c, m) /\ m.attempt = c
  /\ client' = [client EXCEPT ![c].st = "failed"]
  /\ UNCHANGED <<entries, auth, psk, nextSid, net, committed>>
\* The lifetime is over, or the local clocks do not agree (AuthTime::fresh_at).
ClientExpires(c) ==
  /\ client[c].st = "running"
  /\ client' = [client EXCEPT ![c].st = "failed"]
  /\ UNCHANGED <<entries, auth, psk, nextSid, net, committed>>

-----------------------------------------------------------------------------
(* The host, ServerHandshake::receive within accept_session_message.       *)

Sends(m) ==
  /\ net' = net \cup {m}
  /\ UNCHANGED <<client, entries, auth, psk, nextSid, committed>>
Rejects(m) == Sends(Message("Reject", m.attempt, 0, m.addr, m.key))
Pending(a) == entries[a].sid # 0
\* authentication_admission_error, as far as sessions decide it; connections
\* that still own something may refuse as well.
Admits(a) == /\ auth[a] = 0
             /\ Cardinality({b \in Addr : auth[b] # 0}) < MaxSessions

\* The handshake is new to the host, and there is room for it.
Fresh(m) ==
  /\ ~Pending(m.addr)
  /\ \A a \in Addr : entries[a].attempt # m.attempt
  /\ Cardinality({a \in Addr : Pending(a)}) < MaxHandshakes
HostChallenges(m) ==
  /\ Fresh(m) /\ Admits(m.addr) /\ nextSid <= MaxSid
  /\ entries' = [entries EXCEPT ![m.addr] =
                   [attempt |-> m.attempt, sid |-> nextSid, completed |-> FALSE]]
  /\ nextSid' = nextSid + 1
  /\ net' = net \cup {Message("Challenge", m.attempt, nextSid, m.addr, m.key)}
  /\ UNCHANGED <<client, auth, psk, committed>>
Known(m) == Pending(m.addr) /\ entries[m.addr].attempt = m.attempt
\* A Hello: the same challenge again, a new one, or a refusal (another version,
\* another handshake or session in the way, a connection that owns something).
HostHello(m) ==
  /\ m.type = "Hello" /\ m.key = psk
  /\ \/ Known(m)
        /\ Sends(Message("Challenge", m.attempt, entries[m.addr].sid, m.addr, m.key))
     \/ HostChallenges(m)
     \/ ~Known(m) /\ Rejects(m)

Matches(m) == Known(m) /\ entries[m.addr].sid = m.sid
ServerFinish(m) == Message("ServerFinish", m.attempt, m.sid, m.addr, m.key)
\* Mutant: the Finish is answered before the host knows whether it commits.
FinishRefusedKindly(m) == Matches(m) /\ ~entries[m.addr].completed /\ Sends(ServerFinish(m))
\* The connection's owner, or another session, is in the way.
FinishRefused(m) == Matches(m) /\ ~entries[m.addr].completed /\ Rejects(m)
FinishRepeated(m) ==
  Matches(m) /\ entries[m.addr].completed /\ Sends(ServerFinish(m))
FinishCommits(m) ==
  /\ Matches(m) /\ ~entries[m.addr].completed /\ Admits(m.addr)
  /\ entries' = [entries EXCEPT ![m.addr].completed = TRUE]
  /\ auth' = [auth EXCEPT ![m.addr] = m.sid]
  /\ committed' = committed \cup {Session(m.attempt, m.sid, m.addr, m.key)}
  /\ net' = net \cup {ServerFinish(m)}
  /\ UNCHANGED <<client, psk, nextSid>>
HostFinish(m) ==
  /\ m.type = "ClientFinish" /\ m.key = psk
  /\ \/ ~Pending(m.addr) /\ Rejects(m)
     \/ FinishRefused(m) \/ FinishRepeated(m) \/ FinishCommits(m)

\* A handshake grows old.
EntryExpires(a) ==
  /\ Pending(a)
  /\ entries' = [entries EXCEPT ![a] = NoEntry]
  /\ UNCHANGED <<client, auth, psk, nextSid, net, committed>>
\* The service's tick: a session without a connection is over, or the key on
\* disk has changed.
SessionEnds(a) ==
  /\ auth[a] # 0
  /\ auth' = [auth EXCEPT ![a] = 0]
  /\ entries' = [entries EXCEPT ![a] = NoEntry]
  /\ UNCHANGED <<client, psk, nextSid, net, committed>>
Rekey(k) ==
  /\ k # psk /\ psk' = k
  /\ auth' = [a \in Addr |-> 0]
  /\ entries' = [a \in Addr |-> NoEntry]
  /\ UNCHANGED <<client, nextSid, net, committed>>

-----------------------------------------------------------------------------
Init ==
  /\ \E a \in Addr, k \in Key :
       client = [c \in Attempt |-> [st |-> "idle", addr |-> a, key |-> k, sid |-> 0]]
  /\ entries = [a \in Addr |-> NoEntry]
  /\ auth = [a \in Addr |-> 0]
  /\ psk \in Key \cup {NoKey}
  /\ nextSid = 1 /\ net = {} /\ committed = {}

ClientNext(c) ==
  \/ \E a \in Addr, k \in Key : Start(c, a, k)
  \/ \E m \in net : \/ ReceiveChallenge(c, m) \/ ReceiveServerFinish(c, m)
                    \/ ReceiveReject(c, m)
  \/ ClientExpires(c)
HostNext ==
  \/ \E m \in net : HostHello(m) \/ HostFinish(m)
  \/ \E a \in Addr : EntryExpires(a) \/ SessionEnds(a)
  \/ \E k \in Key \cup {NoKey} : Rekey(k)
Next == HostNext \/ \E c \in Attempt : ClientNext(c)
Spec == Init /\ [][Next]_vars

-----------------------------------------------------------------------------
TypeOK ==
  /\ client \in [Attempt -> Clients] /\ entries \in [Addr -> Entries]
  /\ auth \in [Addr -> Nat] /\ psk \in Key \cup {NoKey} /\ nextSid \in Nat \ {0}
  /\ net \subseteq Messages /\ committed \subseteq Sessions

\* The session an attempt ended up with.
Held(c) == Session(c, client[c].sid, client[c].addr, client[c].key)
Done == {c \in Attempt : client[c].st = "done"}

\* What every message in flight proves about the state it was sent from: an id
\* belongs to one challenge, a Finish to the one challenge its client took, and
\* a host's Finish to an established session.
MessagesTrue ==
  /\ \A m \in net : m.type = "Challenge" =>
       m.sid \in 1..MaxSid /\ m.sid < nextSid
  /\ \A m, n \in net : m.type = "Challenge" /\ n.type = "Challenge"
                         /\ m.sid = n.sid => m = n
  /\ \A m \in net : m.type = "ClientFinish" =>
       /\ client[m.attempt].sid = m.sid /\ m.sid # 0
       /\ client[m.attempt].addr = m.addr /\ client[m.attempt].key = m.key
       /\ client[m.attempt].st # "idle"
       /\ Message("Challenge", m.attempt, m.sid, m.addr, m.key) \in net
  /\ \A m \in net : m.type = "ServerFinish" =>
       Session(m.attempt, m.sid, m.addr, m.key) \in committed

\* A pending handshake was challenged under the current key, and it is completed
\* once its session is established; a session was asked for by its client.
EntriesTrue ==
  /\ \A a \in Addr : Pending(a) =>
       /\ entries[a].attempt # Nobody
       /\ Message("Challenge", entries[a].attempt, entries[a].sid, a, psk) \in net
       /\ IF entries[a].completed
          THEN Session(entries[a].attempt, entries[a].sid, a, psk) \in committed
          ELSE \A s \in committed : s.sid # entries[a].sid
  /\ \A s \in committed :
       Message("ClientFinish", s.attempt, s.sid, s.addr, s.key) \in net

\* The inductive invariant: a client is only done with a session that the host
\* has established for this very attempt, address and key, and the host only
\* establishes what its client has asked for.
HandshakeSound ==
  /\ TypeOK /\ MessagesTrue /\ EntriesTrue
  /\ \A c \in Done : Held(c) \in committed

Agreement == INSTANCE SessionAgreement
               WITH Sid <- 1..MaxSid, hostSide <- committed,
                    clientSide <- {Held(c) : c \in Done}
\* The handshake implements the agreement it promises, whatever is lost,
\* repeated or delayed, across expiry and key rotation.
Agrees == Agreement!AgreeSpec
=============================================================================
