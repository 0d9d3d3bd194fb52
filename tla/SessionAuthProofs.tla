------------------------- MODULE SessionAuthProofs --------------------------
(***************************************************************************)
(* The handshake implements SessionAgreement, for any number of attempts,  *)
(* addresses and keys and any limits.                                      *)
(***************************************************************************)
EXTENDS SessionAuth, TLAPS

\* Messages are told apart by their fields, and so are sessions.
LEMMA MessageFacts ==
  ASSUME NEW type \in Types, NEW c \in Attempt, NEW sid \in Nat, NEW a \in Addr,
         NEW k \in Key
  PROVE  LET m == Message(type, c, sid, a, k) IN
         /\ m \in Messages
         /\ m.type = type /\ m.attempt = c /\ m.sid = sid /\ m.addr = a /\ m.key = k
  BY DEF Message, Messages

\* A message is what its fields say.
LEMMA MessageIs ==
  ASSUME NEW m \in Messages
  PROVE  /\ m.type \in Types /\ m.attempt \in Attempt /\ m.sid \in Nat
         /\ m.addr \in Addr /\ m.key \in Key
         /\ m = Message(m.type, m.attempt, m.sid, m.addr, m.key)
  BY DEF Message, Messages

\* A message that claims nothing is sent, and nothing else happens.
LEMMA QuietSend ==
  ASSUME HandshakeSound, NEW m \in Messages, m.type \in {"Hello", "Reject"}, Sends(m)
  PROVE  HandshakeSound'
<1>1. TypeOK'
  BY DEF Sends, HandshakeSound, TypeOK
<1>2. MessagesTrue'
  BY DEF Sends, HandshakeSound, MessagesTrue
<1>3. EntriesTrue'
  BY DEF Sends, HandshakeSound, EntriesTrue, Pending
<1>4. (\A c \in Done : Held(c) \in committed)'
  BY DEF Sends, HandshakeSound, Done, Held
<1>5. QED
  BY <1>1, <1>2, <1>3, <1>4 DEF HandshakeSound

\* The steps of a client.
LEMMA ClientStep ==
  ASSUME HandshakeSound, NEW c \in Attempt, ClientNext(c)
  PROVE  HandshakeSound'
<1> USE AuthAssumption
<1>1. client[c] \in Clients
  BY DEF HandshakeSound, TypeOK
<1>2. ASSUME NEW a \in Addr, NEW k \in Key, Start(c, a, k)
      PROVE  HandshakeSound'
  <2> DEFINE new == [st |-> "running", addr |-> a, key |-> k, sid |-> 0]
             hello == Message("Hello", c, 0, a, k)
  <2>1. /\ client' = [client EXCEPT ![c] = new] /\ net' = net \cup {hello}
        /\ client[c].st = "idle"
        /\ UNCHANGED <<entries, auth, psk, nextSid, committed>>
    BY <1>2 DEF Start
  <2>2. new \in Clients /\ hello \in Messages /\ hello.type = "Hello"
    BY MessageFacts DEF Clients, Types
  <2> HIDE DEF hello
  <2>3. /\ \A d \in Attempt : client'[d] = IF d = c THEN new ELSE client[d]
        /\ TypeOK'
    BY <2>1, <2>2 DEF HandshakeSound, TypeOK
  <2>4. MessagesTrue'
    <3>1. \A m \in net : m.type = "ClientFinish" =>
            m.attempt \in Attempt /\ m.attempt # c
      BY <2>1, MessageIs DEF HandshakeSound, MessagesTrue, TypeOK
    <3>2. QED
      BY <2>1, <2>2, <2>3, <3>1 DEF HandshakeSound, MessagesTrue
  <2>5. EntriesTrue'
    BY <2>1 DEF HandshakeSound, EntriesTrue, Pending
  <2>6. (\A d \in Done : Held(d) \in committed)'
    BY <2>1, <2>3 DEF HandshakeSound, Done, Held
  <2>7. QED
    BY <2>3, <2>4, <2>5, <2>6 DEF HandshakeSound
<1>3. ASSUME NEW m \in net, ReceiveChallenge(c, m)
      PROVE  HandshakeSound'
  <2> DEFINE new == [client[c] EXCEPT !.sid = m.sid]
             finish == Message("ClientFinish", c, m.sid, m.addr, m.key)
  <2>1. /\ client' = [client EXCEPT ![c] = new] /\ net' = net \cup {finish}
        /\ client[c].st = "running" /\ m.addr = client[c].addr
        /\ m.key = client[c].key /\ m.attempt = c /\ m.type = "Challenge"
        /\ client[c].sid \in {0, m.sid}
        /\ UNCHANGED <<entries, auth, psk, nextSid, committed>>
    BY <1>3 DEF ReceiveChallenge, ForClient, TakesChallenge
  <2>2. m \in Messages /\ m.sid # 0
    BY <2>1 DEF HandshakeSound, MessagesTrue, TypeOK
  <2>3. /\ finish \in Messages /\ finish.type = "ClientFinish" /\ finish.attempt = c
        /\ finish.sid = m.sid /\ finish.addr = m.addr /\ finish.key = m.key
        /\ m = Message("Challenge", c, m.sid, m.addr, m.key)
    BY <2>1, <2>2, MessageFacts, MessageIs DEF Types
  <2>4. /\ new \in Clients /\ new.sid = m.sid /\ new.addr = m.addr
        /\ new.key = m.key /\ new.st = "running"
    BY <1>1, <2>1, <2>2, MessageIs DEF Clients
  <2> HIDE DEF finish, new
  <2>5. /\ \A d \in Attempt : client'[d] = IF d = c THEN new ELSE client[d]
        /\ TypeOK'
    BY <2>1, <2>3, <2>4 DEF HandshakeSound, TypeOK
  <2>6. MessagesTrue'
    <3>1. \A n \in net' : n.type = "ClientFinish" =>
            /\ client'[n.attempt].sid = n.sid /\ n.sid # 0
            /\ client'[n.attempt].addr = n.addr /\ client'[n.attempt].key = n.key
            /\ client'[n.attempt].st # "idle"
            /\ Message("Challenge", n.attempt, n.sid, n.addr, n.key) \in net'
      <4> SUFFICES ASSUME NEW n \in net', n.type = "ClientFinish"
                   PROVE  /\ client'[n.attempt].sid = n.sid /\ n.sid # 0
                          /\ client'[n.attempt].addr = n.addr
                          /\ client'[n.attempt].key = n.key
                          /\ client'[n.attempt].st # "idle"
                          /\ Message("Challenge", n.attempt, n.sid, n.addr, n.key)
                               \in net'
        OBVIOUS
      <4>1. CASE n = finish
        BY <2>1, <2>2, <2>3, <2>4, <2>5, <4>1
      <4>2. CASE n \in net
        <5>1. n.attempt \in Attempt
          BY <4>2, MessageIs DEF HandshakeSound, TypeOK
        <5>2. /\ client[n.attempt].sid = n.sid /\ n.sid # 0
              /\ client[n.attempt].addr = n.addr /\ client[n.attempt].key = n.key
              /\ client[n.attempt].st # "idle"
              /\ Message("Challenge", n.attempt, n.sid, n.addr, n.key) \in net
          BY <4>2 DEF HandshakeSound, MessagesTrue
        <5>3. QED
          BY <2>1, <2>4, <2>5, <5>1, <5>2
      <4>3. QED
        BY <2>1, <4>1, <4>2
    <3>2. QED
      BY <2>1, <2>3, <3>1 DEF HandshakeSound, MessagesTrue
  <2>7. EntriesTrue'
    BY <2>1 DEF HandshakeSound, EntriesTrue, Pending
  <2>8. (\A d \in Done : Held(d) \in committed)'
    BY <2>1, <2>4, <2>5 DEF HandshakeSound, Done, Held
  <2>9. QED
    BY <2>5, <2>6, <2>7, <2>8 DEF HandshakeSound
<1>4. ASSUME NEW st \in {"done", "failed"}, client[c].st = "running",
             client' = [client EXCEPT ![c].st = st],
             st = "done" => Held(c) \in committed,
             UNCHANGED <<entries, auth, psk, nextSid, net, committed>>
      PROVE  HandshakeSound'
  <2> DEFINE new == [client[c] EXCEPT !.st = st]
  <2>1. /\ new \in Clients /\ new.st = st /\ new.sid = client[c].sid
        /\ new.addr = client[c].addr /\ new.key = client[c].key
    BY <1>1, <1>4 DEF Clients
  <2>2. client' = [client EXCEPT ![c] = new]
    BY <1>4
  <2> HIDE DEF new
  <2>3. /\ \A d \in Attempt : client'[d] = IF d = c THEN new ELSE client[d]
        /\ TypeOK'
    BY <1>4, <2>1, <2>2 DEF HandshakeSound, TypeOK
  <2>4. \A d \in Attempt : /\ client'[d].sid = client[d].sid
                           /\ client'[d].addr = client[d].addr
                           /\ client'[d].key = client[d].key
                           /\ client[d].st # "idle" => client'[d].st # "idle"
    BY <1>4, <2>1, <2>3
  <2>5. MessagesTrue'
    <3>1. \A n \in net : n.attempt \in Attempt
      BY MessageIs DEF HandshakeSound, TypeOK
    <3>2. QED
      BY <1>4, <2>4, <3>1 DEF HandshakeSound, MessagesTrue
  <2>6. EntriesTrue'
    BY <1>4 DEF HandshakeSound, EntriesTrue, Pending
  <2>7. (\A d \in Done : Held(d) \in committed)'
    BY <1>4, <2>1, <2>3, <2>4 DEF HandshakeSound, Done, Held
  <2>8. QED
    BY <2>3, <2>5, <2>6, <2>7 DEF HandshakeSound
<1>5. ASSUME NEW m \in net, ReceiveServerFinish(c, m)
      PROVE  HandshakeSound'
  <2>1. Held(c) \in committed
    BY <1>5 DEF ReceiveServerFinish, ForClient, Held, HandshakeSound, MessagesTrue
  <2>2. QED
    BY <1>4, <1>5, <2>1 DEF ReceiveServerFinish, ForClient
<1>6. ASSUME NEW m \in net, ReceiveReject(c, m)
      PROVE  HandshakeSound'
  BY <1>4, <1>6 DEF ReceiveReject, ForClient
<1>7. CASE ClientExpires(c)
  BY <1>4, <1>7 DEF ClientExpires
<1>8. QED
  BY <1>2, <1>3, <1>5, <1>6, <1>7 DEF ClientNext

\* A Hello reaches the host.
LEMMA HelloStep ==
  ASSUME HandshakeSound, NEW m \in net, HostHello(m)
  PROVE  HandshakeSound'
<1> USE AuthAssumption
<1>1. m \in Messages
  BY DEF HandshakeSound, TypeOK
<1>2. /\ m.type = "Hello" /\ m.key = psk /\ m.attempt \in Attempt
      /\ m.addr \in Addr /\ m.key \in Key
  BY <1>1, MessageIs DEF HostHello
<1>3. CASE Known(m) /\ Sends(Message("Challenge", m.attempt, entries[m.addr].sid,
                                     m.addr, m.key))
  <2>1. Message("Challenge", m.attempt, entries[m.addr].sid, m.addr, m.key) \in net
    BY <1>2, <1>3 DEF Known, HandshakeSound, EntriesTrue
  <2>2. UNCHANGED vars
    BY <1>3, <2>1 DEF Sends, vars
  <2>3. QED
    BY <2>2 DEF vars, HandshakeSound, TypeOK, MessagesTrue, EntriesTrue, Pending,
                Done, Held
<1>4. CASE HostChallenges(m)
  <2> DEFINE entry == [attempt |-> m.attempt, sid |-> nextSid, completed |-> FALSE]
             challenge == Message("Challenge", m.attempt, nextSid, m.addr, m.key)
  <2>1. /\ entries' = [entries EXCEPT ![m.addr] = entry]
        /\ nextSid' = nextSid + 1 /\ net' = net \cup {challenge}
        /\ nextSid <= MaxSid /\ UNCHANGED <<client, auth, psk, committed>>
    BY <1>4 DEF HostChallenges
  <2>2. nextSid \in Nat \ {0}
    BY DEF HandshakeSound, TypeOK
  <2>3. /\ entry \in Entries /\ entry.sid = nextSid /\ entry.completed = FALSE
        /\ entry.attempt = m.attempt
    BY <1>2, <2>2 DEF Entries
  <2>4. /\ challenge \in Messages /\ challenge.type = "Challenge"
        /\ challenge.sid = nextSid /\ challenge.attempt = m.attempt
        /\ challenge.addr = m.addr /\ challenge.key = m.key
        /\ challenge = Message("Challenge", m.attempt, nextSid, m.addr, psk)
    BY <1>2, <2>2, MessageFacts DEF Types
  <2> HIDE DEF entry, challenge
  <2>5. /\ \A a \in Addr : entries'[a] = IF a = m.addr THEN entry ELSE entries[a]
        /\ TypeOK'
    BY <1>2, <2>1, <2>2, <2>3, <2>4 DEF HandshakeSound, TypeOK
  <2>6. \A n \in net : n.type = "Challenge" => n.sid < nextSid /\ n.sid \in Nat
    BY MessageIs DEF HandshakeSound, MessagesTrue, TypeOK
  <2>7. MessagesTrue'
    <3>1. \A n \in net' : n.type = "Challenge" => n.sid \in 1..MaxSid /\ n.sid < nextSid'
      BY <2>1, <2>2, <2>4, <2>6 DEF HandshakeSound, MessagesTrue
    <3>2. \A n, o \in net' : n.type = "Challenge" /\ o.type = "Challenge"
                               /\ n.sid = o.sid => n = o
      <4>1. \A n \in net : n.type = "Challenge" => n.sid # challenge.sid
        BY <2>2, <2>4, <2>6
      <4>2. \A n, o \in net : n.type = "Challenge" /\ o.type = "Challenge"
                               /\ n.sid = o.sid => n = o
        BY DEF HandshakeSound, MessagesTrue
      <4>3. QED
        BY <2>1, <4>1, <4>2
    <3>3. QED
      BY <2>1, <2>4, <3>1, <3>2 DEF HandshakeSound, MessagesTrue
  <2>8. EntriesTrue'
    <3>1. \A s \in committed : s.sid # nextSid
      <4> SUFFICES ASSUME NEW s \in committed PROVE s.sid # nextSid
        OBVIOUS
      <4>1. /\ s.attempt \in Attempt /\ s.sid \in Nat /\ s.addr \in Addr
            /\ s.key \in Key
            /\ Message("ClientFinish", s.attempt, s.sid, s.addr, s.key) \in net
        BY DEF HandshakeSound, TypeOK, Sessions, EntriesTrue
      <4>2. Message("Challenge", s.attempt, s.sid, s.addr, s.key) \in net
        BY <4>1, MessageFacts DEF HandshakeSound, MessagesTrue, Types
      <4>3. QED
        BY <2>2, <2>6, <4>1, <4>2, MessageFacts DEF Types
    <3>2. m.attempt # Nobody
      BY <1>2
    <3>3. QED
      BY <1>2, <2>1, <2>3, <2>4, <2>5, <3>1, <3>2
         DEF HandshakeSound, EntriesTrue, Pending
  <2>9. (\A c \in Done : Held(c) \in committed)'
    BY <2>1 DEF HandshakeSound, Done, Held
  <2>10. QED
    BY <2>5, <2>7, <2>8, <2>9 DEF HandshakeSound
<1>5. CASE Rejects(m)
  BY <1>2, <1>5, QuietSend, MessageFacts DEF Rejects, Types
<1>6. QED
  BY <1>3, <1>4, <1>5 DEF HostHello

\* A client's Finish reaches the host: refused, repeated or carried out.
LEMMA FinishStep ==
  ASSUME HandshakeSound, NEW m \in net, HostFinish(m)
  PROVE  HandshakeSound'
<1> USE AuthAssumption
<1> DEFINE s == Session(m.attempt, m.sid, m.addr, m.key)
<1>1. m \in Messages
  BY DEF HandshakeSound, TypeOK
<1>2. /\ m.type = "ClientFinish" /\ m.key = psk /\ m.attempt \in Attempt
      /\ m.addr \in Addr /\ m.key \in Key /\ m.sid \in Nat
      /\ m = Message("ClientFinish", m.attempt, m.sid, m.addr, m.key)
  BY <1>1, MessageIs DEF HostFinish
<1>3. /\ ServerFinish(m) \in Messages /\ ServerFinish(m).type = "ServerFinish"
      /\ s = Session(ServerFinish(m).attempt, ServerFinish(m).sid,
                     ServerFinish(m).addr, ServerFinish(m).key)
  BY <1>2, MessageFacts DEF ServerFinish, Types
<1>4. /\ s \in Sessions /\ s.sid = m.sid /\ s.attempt = m.attempt
      /\ s.addr = m.addr /\ s.key = m.key
  BY <1>2 DEF Session, Sessions
<1>5. CASE Rejects(m)
  BY <1>2, <1>5, QuietSend, MessageFacts DEF Rejects, Types
<1>6. CASE FinishRepeated(m)
  <2>1. s \in committed
    BY <1>2, <1>6 DEF FinishRepeated, Matches, Known, HandshakeSound, EntriesTrue
  <2>2. TypeOK'
    BY <1>3, <1>6 DEF FinishRepeated, Sends, HandshakeSound, TypeOK
  <2> HIDE DEF s
  <2>3. MessagesTrue'
    BY <1>3, <1>6, <2>1 DEF FinishRepeated, Sends, HandshakeSound, MessagesTrue
  <2>4. EntriesTrue'
    BY <1>6 DEF FinishRepeated, Sends, HandshakeSound, EntriesTrue, Pending
  <2>5. (\A c \in Done : Held(c) \in committed)'
    BY <1>6 DEF FinishRepeated, Sends, HandshakeSound, Done, Held
  <2>6. QED
    BY <2>2, <2>3, <2>4, <2>5 DEF HandshakeSound
<1>7. CASE FinishCommits(m)
  <2> DEFINE old == entries[m.addr]
             new == [old EXCEPT !.completed = TRUE]
  <2>1. /\ entries' = [entries EXCEPT ![m.addr] = new]
        /\ auth' = [auth EXCEPT ![m.addr] = m.sid]
        /\ committed' = committed \cup {s} /\ net' = net \cup {ServerFinish(m)}
        /\ Pending(m.addr) /\ old.attempt = m.attempt /\ old.sid = m.sid
        /\ UNCHANGED <<client, psk, nextSid>>
    BY <1>7 DEF FinishCommits, Matches, Known
  <2>2. /\ new \in Entries /\ new.completed = TRUE /\ new.sid = m.sid
        /\ new.attempt = m.attempt
    BY <1>2, <2>1 DEF HandshakeSound, TypeOK, Entries
  <2> HIDE DEF new, s
  <2>3. /\ \A a \in Addr : entries'[a] = IF a = m.addr THEN new ELSE entries[a]
        /\ TypeOK'
    BY <1>2, <1>3, <1>4, <2>1, <2>2 DEF HandshakeSound, TypeOK
  <2>4. MessagesTrue'
    BY <1>3, <2>1 DEF HandshakeSound, MessagesTrue
  <2>5. EntriesTrue'
    <3>1. ASSUME NEW a \in Addr, a # m.addr, Pending(a)
          PROVE  entries[a].sid # s.sid
      <4>1. /\ entries[a].attempt \in Attempt /\ entries[a].sid \in Nat
            /\ Message("Challenge", entries[a].attempt, entries[a].sid, a, psk) \in net
        BY <3>1 DEF HandshakeSound, TypeOK, Entries, EntriesTrue
      <4>2. Message("Challenge", m.attempt, m.sid, m.addr, psk) \in net
        BY <1>2 DEF HandshakeSound, MessagesTrue
      <4> DEFINE x == Message("Challenge", entries[a].attempt, entries[a].sid, a, psk)
                 y == Message("Challenge", m.attempt, m.sid, m.addr, psk)
      <4>3. /\ x.type = "Challenge" /\ x.sid = entries[a].sid /\ x.addr = a
            /\ y.type = "Challenge" /\ y.sid = m.sid /\ y.addr = m.addr
        BY <1>2, <4>1 DEF Message
      <4> HIDE DEF x, y
      <4>4. x.sid = y.sid => x = y
        BY <4>1, <4>2, <4>3 DEF HandshakeSound, MessagesTrue, x, y
      <4>5. QED
        BY <1>4, <3>1, <4>3, <4>4
    <3>2. /\ Message("ClientFinish", s.attempt, s.sid, s.addr, s.key) \in net
          /\ s = Session(new.attempt, new.sid, m.addr, psk)
      BY <1>2, <1>4, <2>2 DEF s
    <3>3. m.attempt # Nobody
      BY <1>2
    <3>4. QED
      BY <1>2, <1>4, <2>1, <2>2, <2>3, <3>1, <3>2, <3>3
         DEF HandshakeSound, EntriesTrue, Pending
  <2>6. (\A c \in Done : Held(c) \in committed)'
    BY <2>1 DEF HandshakeSound, Done, Held
  <2>7. QED
    BY <2>3, <2>4, <2>5, <2>6 DEF HandshakeSound
<1>8. QED
  BY <1>5, <1>6, <1>7 DEF HostFinish, FinishRefused

\* Handshakes and sessions end, and the key changes.
LEMMA EndStep ==
  ASSUME HandshakeSound,
         \/ \E a \in Addr : EntryExpires(a) \/ SessionEnds(a)
         \/ \E k \in Key \cup {NoKey} : Rekey(k)
  PROVE  HandshakeSound'
<1> USE AuthAssumption
<1>1. NoEntry \in Entries /\ NoEntry.sid = 0
  BY DEF NoEntry, Entries
<1>2. UNCHANGED <<client, nextSid, net, committed>>
  BY DEF EntryExpires, SessionEnds, Rekey
<1>3. /\ TypeOK'
      /\ \A a \in Addr :
           entries'[a] = NoEntry \/ (entries'[a] = entries[a] /\ psk' = psk)
  <2>1. ASSUME NEW a \in Addr, entries' = [entries EXCEPT ![a] = NoEntry],
               auth' = auth \/ auth' = [auth EXCEPT ![a] = 0], psk' = psk
        PROVE  /\ TypeOK'
               /\ \A b \in Addr : entries'[b] = NoEntry
                                   \/ (entries'[b] = entries[b] /\ psk' = psk)
    BY <1>1, <1>2, <2>1 DEF HandshakeSound, TypeOK
  <2>2. ASSUME NEW k \in Key \cup {NoKey}, Rekey(k)
        PROVE  TypeOK' /\ \A b \in Addr : entries'[b] = NoEntry
    BY <1>1, <1>2, <2>2 DEF Rekey, HandshakeSound, TypeOK
  <2>3. ASSUME NEW a \in Addr, EntryExpires(a) \/ SessionEnds(a)
        PROVE  /\ entries' = [entries EXCEPT ![a] = NoEntry]
               /\ auth' = auth \/ auth' = [auth EXCEPT ![a] = 0]
               /\ psk' = psk
    BY <2>3 DEF EntryExpires, SessionEnds
  <2>4. CASE \E a \in Addr : EntryExpires(a) \/ SessionEnds(a)
    <3>1. PICK a \in Addr : EntryExpires(a) \/ SessionEnds(a)
      BY <2>4
    <3>2. QED
      BY <2>1, <2>3, <3>1
  <2>5. CASE \E k \in Key \cup {NoKey} : Rekey(k)
    BY <2>2, <2>5
  <2>6. QED
    BY <2>4, <2>5
<1>4. MessagesTrue' /\ (\A c \in Done : Held(c) \in committed)'
  BY <1>2 DEF HandshakeSound, MessagesTrue, Done, Held
<1>5. EntriesTrue'
  <2>1. \A a \in Addr : Pending(a)' => Pending(a) /\ entries'[a] = entries[a] /\ psk' = psk
    BY <1>1, <1>3 DEF Pending
  <2>2. QED
    BY <1>2, <2>1 DEF HandshakeSound, EntriesTrue
<1>6. QED
  BY <1>3, <1>4, <1>5 DEF HandshakeSound

\* A client is only done with a session the host has established for the same
\* attempt, address and key, and the host establishes only what was asked for.
THEOREM HandshakeCorrect == Spec => []HandshakeSound
<1> USE AuthAssumption
<1>1. Init => HandshakeSound
  BY DEF Init, HandshakeSound, TypeOK, MessagesTrue, EntriesTrue, Clients, Entries,
         NoEntry, Done, Pending
<1>2. HandshakeSound /\ [Next]_vars => HandshakeSound'
  <2> SUFFICES ASSUME HandshakeSound, [Next]_vars PROVE HandshakeSound'
    OBVIOUS
  <2>1. CASE UNCHANGED vars
    BY <2>1 DEF vars, HandshakeSound, TypeOK, MessagesTrue, EntriesTrue, Pending,
                Done, Held
  <2>2. CASE Next
    BY <2>2, ClientStep, HelloStep, FinishStep, EndStep DEF Next, HostNext
  <2>3. QED
    BY <2>1, <2>2
<1>3. QED
  BY <1>1, <1>2, PTL DEF Spec

\* A session the host has established was asked for by its client, which keeps
\* to the one id it asked for.
LEMMA SessionAsked ==
  ASSUME HandshakeSound, NEW s \in committed
  PROVE  /\ s.attempt \in Attempt /\ client[s.attempt].sid = s.sid
         /\ s \in Agreement!Sessions
<1>1. s \in Sessions
  BY DEF HandshakeSound, TypeOK
<1>2. Message("ClientFinish", s.attempt, s.sid, s.addr, s.key) \in net
  BY DEF HandshakeSound, EntriesTrue
<1>3. /\ client[s.attempt].sid = s.sid
      /\ Message("Challenge", s.attempt, s.sid, s.addr, s.key) \in net
  BY <1>1, <1>2, MessageFacts DEF HandshakeSound, MessagesTrue, Sessions, Types
<1>4. s.sid \in 1..MaxSid
  BY <1>1, <1>3, MessageFacts DEF HandshakeSound, MessagesTrue, Sessions, Types
<1>5. QED
  BY <1>1, <1>3, <1>4 DEF Sessions, Agreement!Sessions

\* A step of the handshake is a step of the agreement, or none.
LEMMA AgreementStep ==
  ASSUME HandshakeSound, HandshakeSound', [Next]_vars
  PROVE  [Agreement!AgreeNext]_<<committed, {Held(c) : c \in Done}>>
<1> USE AuthAssumption
<1> DEFINE ours == {Held(c) : c \in Done}
<1>1. ASSUME NEW c \in Attempt, NEW m \in net, ReceiveServerFinish(c, m)
      PROVE  Agreement!AgreeNext
  <2>1. /\ client' = [client EXCEPT ![c].st = "done"] /\ client[c].st = "running"
        /\ UNCHANGED committed
    BY <1>1 DEF ReceiveServerFinish, ForClient
  <2>2. /\ \A d \in Attempt : Held(d)' = Held(d)
        /\ Done' = Done \cup {c} /\ c \notin Done
    BY <2>1 DEF Held, Done, HandshakeSound, TypeOK, Clients
  <2>3. ours' = ours \cup {Held(c)}
    BY <2>2 DEF Done
  <2>4. Held(c) \in committed
    BY <2>1, <2>2 DEF HandshakeSound
  <2>5. \A s \in ours : s.attempt # Held(c).attempt
    BY <2>2 DEF Held, Session
  <2>6. Held(c) \in Agreement!Sessions
    BY <2>4, SessionAsked
  <2>7. Agreement!ClientEstablishes(Held(c))
    BY <2>1, <2>3, <2>4, <2>5 DEF Agreement!ClientEstablishes
  <2>8. QED
    BY <2>6, <2>7 DEF Agreement!AgreeNext
<1>2. ASSUME NEW m \in net, HostFinish(m), FinishCommits(m)
      PROVE  Agreement!AgreeNext
  <2> DEFINE s == Session(m.attempt, m.sid, m.addr, m.key)
  <2>1. /\ committed' = committed \cup {s} /\ UNCHANGED client
        /\ Pending(m.addr) /\ entries[m.addr].sid = m.sid
        /\ ~entries[m.addr].completed /\ m.type = "ClientFinish"
    BY <1>2 DEF FinishCommits, Matches, Known, HostFinish
  <2>2. m \in Messages /\ m.addr \in Addr /\ m.attempt \in Attempt
    BY MessageIs DEF HandshakeSound, TypeOK
  <2>3. s.sid = m.sid /\ s.attempt = m.attempt
    BY DEF Session
  <2>4. \A t \in committed : t.sid # s.sid
    BY <2>1, <2>2, <2>3 DEF HandshakeSound, EntriesTrue
  <2>5. \A t \in committed : t.attempt = s.attempt => t.sid = s.sid
    <3>1. client[m.attempt].sid = m.sid
      BY <2>1 DEF HandshakeSound, MessagesTrue
    <3>2. QED
      BY <2>3, <3>1, SessionAsked
  <2>6. s \in Agreement!Sessions
    <3>1. s \in committed'
      BY <2>1
    <3>2. QED
      BY <2>1, <2>2, <3>1 DEF HandshakeSound, MessagesTrue, Session, Messages,
         Agreement!Sessions, Message
  <2>7. UNCHANGED ours
    BY <2>1 DEF Held, Done
  <2> HIDE DEF s, ours
  <2>8. Agreement!HostEstablishes(s)
    BY <2>1, <2>4, <2>5, <2>7 DEF Agreement!HostEstablishes, ours
  <2>9. QED
    BY <2>6, <2>8 DEF Agreement!AgreeNext
<1>3. ASSUME NEW c \in Attempt, client[c].st # "done", client'[c].st # "done",
             \A d \in Attempt : d # c => client'[d] = client[d], UNCHANGED committed
      PROVE  UNCHANGED <<committed, ours>>
  <2>1. Done' = Done /\ c \notin Done
    BY <1>3 DEF Done
  <2>2. \A d \in Done : Held(d)' = Held(d)
    BY <1>3, <2>1 DEF Held, Done
  <2>3. QED
    BY <1>3, <2>1, <2>2
<1>4. ASSUME NEW c \in Attempt, ClientNext(c),
             ~ \E m \in net : ReceiveServerFinish(c, m)
      PROVE  UNCHANGED <<committed, ours>>
  <2>1. client \in [Attempt -> Clients] /\ client' \in [Attempt -> Clients]
    BY DEF HandshakeSound, TypeOK
  <2>2. UNCHANGED committed
    BY <1>4 DEF ClientNext, Start, ReceiveChallenge, ReceiveReject, ClientExpires
  <2>3. client[c].st # "done"
    BY <1>4 DEF ClientNext, Start, ReceiveChallenge, ReceiveReject, ClientExpires,
                ForClient
  <2>4. \A d \in Attempt : d # c => client'[d] = client[d]
    BY <1>4, <2>1 DEF ClientNext, Start, ReceiveChallenge, ReceiveReject, ClientExpires
  <2>5. client'[c].st # "done"
    <3>1. CASE \E a \in Addr, k \in Key : Start(c, a, k)
      BY <2>1, <3>1 DEF Start
    <3>2. CASE \E m \in net : ReceiveChallenge(c, m)
      BY <2>1, <2>3, <3>2 DEF ReceiveChallenge, Clients
    <3>3. CASE (\E m \in net : ReceiveReject(c, m)) \/ ClientExpires(c)
      BY <2>1, <3>3 DEF ReceiveReject, ClientExpires, Clients
    <3>4. QED
      BY <1>4, <3>1, <3>2, <3>3 DEF ClientNext
  <2>6. QED
    BY <1>3, <2>2, <2>3, <2>4, <2>5
<1>5. ASSUME UNCHANGED <<client, committed>>
      PROVE  UNCHANGED <<committed, ours>>
  BY <1>5 DEF Held, Done
<1>6. ASSUME NEW m \in net, HostHello(m) \/ HostFinish(m)
      PROVE  \/ UNCHANGED <<client, committed>>
             \/ HostFinish(m) /\ FinishCommits(m)
  BY <1>6 DEF HostHello, HostFinish, HostChallenges, FinishRefused, FinishRepeated,
              Rejects, Sends
<1>7. ASSUME \/ \E a \in Addr : EntryExpires(a) \/ SessionEnds(a)
             \/ \E k \in Key \cup {NoKey} : Rekey(k)
      PROVE  UNCHANGED <<client, committed>>
  BY <1>7 DEF EntryExpires, SessionEnds, Rekey
<1>8. CASE UNCHANGED vars
  BY <1>5, <1>8 DEF vars
<1> HIDE DEF ours
<1>9. CASE Next
  <2>1. CASE HostNext
    BY <1>2, <1>5, <1>6, <1>7, <2>1 DEF HostNext, ours
  <2>2. CASE \E c \in Attempt : ClientNext(c)
    BY <1>1, <1>4, <2>2 DEF ours
  <2>3. QED
    BY <1>9, <2>1, <2>2 DEF Next
<1>10. QED
  BY <1>8, <1>9 DEF ours

\* The handshake implements the agreement: a session is established at most
\* once by each side, by both under the same key, and by the host first.
THEOREM AgreementCorrect == Spec => Agrees
<1>1. Init => Agreement!AgreeInit
  BY DEF Init, Agreement!AgreeInit, Done
<1>2. HandshakeSound /\ HandshakeSound' /\ [Next]_vars =>
        [Agreement!AgreeNext]_<<committed, {Held(c) : c \in Done}>>
  BY AgreementStep
<1>3. QED
  BY <1>1, <1>2, HandshakeCorrect, PTL DEF Spec, Agrees, Agreement!AgreeSpec
=============================================================================
