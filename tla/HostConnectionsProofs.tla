------------------------ MODULE HostConnectionsProofs ------------------------
(***************************************************************************)
(* The host never loses a native owner, never says of one that it has      *)
(* stopped when it has not, and lets nobody in with an old key: for any    *)
(* addresses, connections and limits, whatever the workers and the native  *)
(* stops do.                                                               *)
(***************************************************************************)
EXTENDS HostConnections, FiniteSetTheorems, TLAPS

\* Generations are given out in order.
Numbered ==
  /\ \A a \in Addr : /\ peers[a].gen < nextGen /\ closing[a].gen < nextGen
                     /\ closed[a].gen < nextGen
  /\ \A r \in replies : r.gen # 0 /\ r.gen < nextGen

\* What an open connection owns belongs to nothing else: no teardown, receipt or
\* reply is about it.
PeersCurrent ==
  \A a \in Addr : Open(a) =>
    /\ \A b \in Addr : /\ peers[b].gen = peers[a].gen => a = b
                       /\ closing[b].gen # peers[a].gen /\ closed[b].gen # peers[a].gen
    /\ \A r \in replies : r.gen # peers[a].gen

\* A teardown, or its receipt, confirms only what is gone (Connection::shutdown).
Truthful ==
  \A a \in Addr :
    /\ Closing(a) /\ closing[a].result = "ok" => Clean(closing[a].gen)
    /\ closed[a].gen # 0 /\ closed[a].ok => Clean(closed[a].gen)

\* A shutdown has begun to close every connection (shutdown_connections).
ShutOut == stopping \in {"waiting", "stopped"} => \A a \in Addr : ~Open(a)

\* What connection_admission_error counts.
Owners == {a \in Addr : Open(a) \/ Closing(a) \/ LiveReceipt(a)}

Core ==
  /\ Numbered /\ PeersCurrent /\ Truthful /\ ShutOut
  /\ Accounted /\ OneOwner /\ ClosedIsTrue /\ StopIsTrue

\* What a step does that begins the teardowns gone and turns the teardowns done
\* into receipts.
ClosingStep(gone, done) ==
  \A a \in Addr :
    /\ a \in done => closing'[a].gen = 0
    /\ a \in gone => /\ closing'[a].gen = peers[a].gen
                     /\ closing'[a].result = "pending"
    /\ a \notin gone \cup done =>
         /\ closing'[a].gen = closing[a].gen
         /\ closing[a].gen # 0 => closing'[a].result = closing[a].result
\* Receipts are replaced by those of the teardowns, or forgotten.
ClosedStep(done) ==
  \A a \in Addr :
    /\ a \in done => /\ closed'[a].gen = closing[a].gen
                     /\ closed'[a].ok => closing[a].result = "ok"
    /\ a \notin done => \/ closed'[a] = closed[a]
                        \/ closed'[a].gen = 0 /\ ~LiveReceipt(a)
\* Replies are made from the teardowns that ended and from receipts.
RepliesStep(done) ==
  \A r \in replies' :
    \/ r \in replies
    \/ \E a \in done : /\ r.gen = closing[a].gen
                       /\ r.ok => closing[a].result = "ok"
    \/ \E a \in Addr : /\ closed[a].gen # 0 /\ r.gen = closed[a].gen
                       /\ r.ok => closed[a].ok
\* What a step may say of the shutdown: it waits when every connection has begun
\* to close, it succeeds when nothing is left (shutdown_connections).
StoppingStep ==
  \/ stopping' = stopping \/ stopping' = "failed"
  \/ stopping' = "waiting" /\ \A a \in Addr : peers'[a].gen = 0
  \/ /\ stopping' = "stopped"
     /\ \A a \in Addr : /\ peers'[a].gen = 0 /\ closing'[a].gen = 0
                        /\ closed'[a].gen # 0 => ~Live(closed'[a].gen)

-----------------------------------------------------------------------------
\* The numbers of connections and resources.
LEMMA GenFacts ==
  ASSUME TypeOK, Numbered
  PROVE  /\ nextGen \in Nat /\ MaxGen \in Nat /\ nextGen <= MaxGen + 1
         /\ \A a \in Addr : /\ peers[a].gen \in Nat /\ closing[a].gen \in Nat
                            /\ closed[a].gen \in Nat
                            /\ Open(a) => peers[a].gen \in Gens
                            /\ Closing(a) => closing[a].gen \in Gens
                            /\ closed[a].gen # 0 => closed[a].gen \in Gens
         /\ \A r \in replies : r.gen \in Gens
<1>1. nextGen \in Nat /\ MaxGen \in Nat /\ nextGen <= MaxGen + 1
  BY ConnectionsAssumption DEF TypeOK
<1>2. \A a \in Addr : peers[a].gen \in Nat /\ closing[a].gen \in Nat /\ closed[a].gen \in Nat
  BY DEF TypeOK
<1>3. \A r \in replies : r.gen \in Nat
  BY DEF TypeOK
<1> QED BY <1>1, <1>2, <1>3 DEF Numbered, Gens, Open, Closing

\* A step in which connections begin to close (gone), teardowns become receipts
\* (done) and receipts whose resources are not live may be forgotten: every
\* message and tick that opens nothing and starts no worker.
LEMMA MapStep ==
  ASSUME TypeOK, Core, UNCHANGED <<res, nextGen>>,
         NEW gone \in SUBSET {a \in Addr : Open(a)},
         NEW done \in SUBSET {a \in Addr : Finished(a)},
         \A a \in Addr : peers'[a].gen = (IF a \in gone THEN 0 ELSE peers[a].gen),
         ClosingStep(gone, done), ClosedStep(done), RepliesStep(done),
         StoppingStep
  PROVE  Core' /\ Owners' \subseteq Owners
<1> USE DEF ClosingStep, ClosedStep, RepliesStep, StoppingStep
<1>0. \A a \in Addr : /\ peers[a].gen \in Nat /\ closing[a].gen \in Nat
                      /\ closed[a].gen \in Nat
                      /\ a \in gone => Open(a) /\ a \notin done /\ ~Closing(a) /\ ~LiveReceipt(a)
                      /\ a \in done => Closing(a) /\ ~Open(a) /\ ~LiveReceipt(a)
  BY GenFacts DEF Core, OneOwner, Finished
<1>1. \A a \in Addr : /\ peers'[a].gen \in {0, peers[a].gen}
                      /\ closing'[a].gen \in {0, peers[a].gen, closing[a].gen}
                      /\ closed'[a].gen \in {0, closing[a].gen, closed[a].gen}
  BY <1>0
<1>2. \A r \in replies' : \/ r \in replies
                          \/ \E a \in Addr : Closing(a) /\ r.gen = closing[a].gen
                          \/ \E a \in Addr : closed[a].gen # 0 /\ r.gen = closed[a].gen
  BY <1>0
<1>3. Numbered'
  <2>1. nextGen \in Nat \ {0} BY DEF TypeOK
  <2> QED BY <1>0, <1>1, <1>2, <2>1 DEF Core, Numbered, Closing
<1>4. PeersCurrent'
  <2> SUFFICES ASSUME NEW a \in Addr, Open(a)'
               PROVE  /\ \A b \in Addr : /\ peers'[b].gen = peers'[a].gen => a = b
                                         /\ closing'[b].gen # peers'[a].gen
                                         /\ closed'[b].gen # peers'[a].gen
                      /\ \A r \in replies' : r.gen # peers'[a].gen
    BY DEF PeersCurrent
  <2>1. a \notin gone /\ Open(a) /\ peers'[a].gen = peers[a].gen /\ peers[a].gen # 0
    BY DEF Open
  <2>2. /\ \A b \in Addr : /\ peers[b].gen = peers[a].gen => a = b
                           /\ closing[b].gen # peers[a].gen /\ closed[b].gen # peers[a].gen
        /\ \A r \in replies : r.gen # peers[a].gen
    BY <2>1 DEF Core, PeersCurrent
  <2>3. ASSUME NEW b \in Addr PROVE closing'[b].gen # peers'[a].gen
    <3>1. CASE b \in done BY <2>1, <3>1
    <3>2. CASE b \in gone BY <2>1, <2>2, <3>2
    <3>3. CASE b \notin gone \cup done BY <2>1, <2>2, <3>3
    <3> QED BY <3>1, <3>2, <3>3
  <2>4. \A b \in Addr : closed'[b].gen # peers'[a].gen
    BY <1>1, <2>1, <2>2
  <2>5. \A b \in Addr : peers'[b].gen = peers'[a].gen => a = b
    BY <1>1, <2>1, <2>2
  <2>6. \A r \in replies' : r.gen # peers'[a].gen
    BY <1>2, <2>1, <2>2
  <2> QED BY <2>3, <2>4, <2>5, <2>6
<1>5. Truthful'
  <2> SUFFICES ASSUME NEW a \in Addr
               PROVE  /\ Closing(a)' /\ closing'[a].result = "ok" => Clean(closing[a].gen)'
                      /\ closed'[a].gen # 0 /\ closed'[a].ok => Clean(closed[a].gen)'
    BY DEF Truthful
  <2>1. /\ Closing(a) /\ closing[a].result = "ok" => Clean(closing[a].gen)
        /\ closed[a].gen # 0 /\ closed[a].ok => Clean(closed[a].gen)
    BY DEF Core, Truthful
  <2>2. Closing(a)' /\ closing'[a].result = "ok" => Clean(closing[a].gen)'
    BY <1>0, <2>1 DEF Closing, Clean
  <2>3. closed'[a].gen # 0 /\ closed'[a].ok => Clean(closed[a].gen)'
    BY <1>0, <2>1 DEF Clean
  <2> QED BY <2>2, <2>3
<1>6. ShutOut'
  BY <1>1 DEF Core, ShutOut, Open
<1>7. Accounted'
  <2> SUFFICES ASSUME NEW g \in Gens, Live(g)'
               PROVE  \E a \in Addr : g \in {peers'[a].gen, closing'[a].gen, closed'[a].gen}
    BY DEF Accounted
  <2>1. Live(g) /\ g # 0 BY DEF Live, Gens
  <2>2. PICK a \in Addr : g \in {peers[a].gen, closing[a].gen, closed[a].gen}
    BY <2>1 DEF Core, Accounted
  <2>3. g = closed[a].gen => LiveReceipt(a)
    BY <2>1 DEF LiveReceipt
  <2>4. CASE a \in gone
    BY <1>0, <2>1, <2>2, <2>3, <2>4 DEF Closing
  <2>5. CASE a \in done
    BY <1>0, <2>1, <2>2, <2>3, <2>5 DEF Open
  <2>6. CASE a \notin gone \cup done
    BY <2>1, <2>2, <2>3, <2>6
  <2> QED BY <2>4, <2>5, <2>6
<1>8. OneOwner'
  <2> SUFFICES ASSUME NEW a \in Addr
               PROVE  /\ ~(Open(a)' /\ Closing(a)')
                      /\ ~((Open(a)' \/ Closing(a)') /\ LiveReceipt(a)')
    BY DEF OneOwner
  <2>0. ~(Open(a) /\ Closing(a)) /\ ~((Open(a) \/ Closing(a)) /\ LiveReceipt(a))
    BY DEF Core, OneOwner
  <2>1. CASE a \in gone
    <3>1. ~Open(a)' /\ (LiveReceipt(a)' => LiveReceipt(a))
      BY <1>0, <2>1 DEF Open, LiveReceipt, Live
    <3> QED BY <1>0, <2>1, <3>1
  <2>2. CASE a \in done
    BY <1>0, <2>2 DEF Open, Closing
  <2>3. CASE a \notin gone \cup done
    <3>1. (LiveReceipt(a)' => LiveReceipt(a)) /\ (Open(a)' => Open(a)) /\ (Closing(a)' => Closing(a))
      BY <2>3 DEF Open, Closing, LiveReceipt, Live
    <3> QED BY <2>0, <3>1
  <2> QED BY <2>1, <2>2, <2>3
<1>9. ClosedIsTrue'
  <2> SUFFICES ASSUME NEW r \in replies', r.ok PROVE Clean(r.gen)'
    BY DEF ClosedIsTrue
  <2>1. CASE r \in replies
    BY <2>1 DEF Core, ClosedIsTrue, Clean
  <2>2. CASE \E a \in done : /\ r.gen = closing[a].gen
                             /\ r.ok => closing[a].result = "ok"
    BY <1>0, <2>2 DEF Core, Truthful, Clean
  <2>3. CASE \E a \in Addr : /\ closed[a].gen # 0 /\ r.gen = closed[a].gen
                             /\ r.ok => closed[a].ok
    BY <2>3 DEF Core, Truthful, Clean
  <2> QED BY <2>1, <2>2, <2>3
<1>10. StopIsTrue'
  <2>1. CASE stopping' = stopping
    BY <2>1 DEF Core, StopIsTrue, Live
  <2>2. CASE /\ stopping' = "stopped"
             /\ \A a \in Addr : /\ peers'[a].gen = 0 /\ closing'[a].gen = 0
                                /\ closed'[a].gen # 0 => ~Live(closed'[a].gen)
    <3> SUFFICES ASSUME NEW g \in Gens, Live(g)' PROVE FALSE
      BY DEF StopIsTrue
    <3>1. PICK a \in Addr : g \in {peers'[a].gen, closing'[a].gen, closed'[a].gen}
      BY <1>7 DEF Accounted
    <3>2. g # 0 /\ Live(g) BY DEF Gens, Live
    <3> QED BY <2>2, <3>1, <3>2
  <2> QED BY <2>1, <2>2 DEF StopIsTrue
<1>11. Owners' \subseteq Owners
  <2> SUFFICES ASSUME NEW a \in Addr, Open(a)' \/ Closing(a)' \/ LiveReceipt(a)'
               PROVE  Open(a) \/ Closing(a) \/ LiveReceipt(a)
    BY DEF Owners
  <2>1. CASE a \in gone \cup done
    BY <1>0, <2>1
  <2>2. CASE a \notin gone \cup done
    BY <2>2 DEF Open, Closing, LiveReceipt, Live
  <2> QED BY <2>1, <2>2
<1> QED BY <1>3, <1>4, <1>5, <1>6, <1>7, <1>8, <1>9, <1>10, <1>11 DEF Core

\* The same, when no connection begins to close and no teardown is over.
LEMMA ForgetStep ==
  ASSUME TypeOK, Core, UNCHANGED <<res, nextGen, stopping>>,
         \A a \in Addr : /\ peers'[a].gen = peers[a].gen /\ closing'[a].gen = closing[a].gen
                         /\ closing'[a].result = closing[a].result,
         \A a \in Addr : \/ closed'[a] = closed[a]
                         \/ closed'[a].gen = 0 /\ ~LiveReceipt(a),
         \A r \in replies' :
           \/ r \in replies
           \/ \E a \in Addr : /\ closed[a].gen # 0 /\ r.gen = closed[a].gen
                              /\ r.ok => closed[a].ok
  PROVE  Core' /\ Owners' \subseteq Owners
<1> DEFINE gone == {}
           done == {}
<1>1. gone \in SUBSET {a \in Addr : Open(a)} /\ done \in SUBSET {a \in Addr : Finished(a)}
  OBVIOUS
<1>2. \A a \in Addr : a \notin gone /\ a \notin done
  OBVIOUS
<1> HIDE DEF gone, done
<1>3. \A a \in Addr : peers'[a].gen = (IF a \in gone THEN 0 ELSE peers[a].gen)
  BY <1>2
<1>4. ClosingStep(gone, done) BY <1>2 DEF ClosingStep
<1>5. ClosedStep(done) BY <1>2 DEF ClosedStep
<1>6. RepliesStep(done) BY DEF RepliesStep
<1>7. StoppingStep BY DEF StoppingStep
<1> QED BY <1>1, <1>3, <1>4, <1>5, <1>6, <1>7, MapStep

\* A new connection: its generation was never used (SessionCommand::Open,
\* StartStream).
LEMMA OpenStep ==
  ASSUME TypeOK, Core, NEW a \in Addr, ~Open(a), ~Closing(a), ~LiveReceipt(a), Serving,
         UNCHANGED <<closing, res, stopping, replies>>,
         peers'[a].gen = nextGen, \A b \in Addr \ {a} : peers'[b].gen = peers[b].gen,
         closed'[a] = closed[a] \/ closed'[a].gen = 0,
         \A b \in Addr \ {a} : closed'[b] = closed[b],
         nextGen' = nextGen + 1
  PROVE  Core' /\ Owners' \subseteq Owners \cup {a}
<1>0. /\ nextGen \in Nat \ {0}
      /\ \A b \in Addr : /\ peers[b].gen \in Nat /\ closing[b].gen \in Nat /\ closed[b].gen \in Nat
                         /\ peers[b].gen < nextGen /\ closing[b].gen < nextGen
                         /\ closed[b].gen < nextGen
                         /\ closed'[b] = closed[b] \/ closed'[b].gen = 0
      /\ \A r \in replies : r.gen \in Nat /\ r.gen # 0 /\ r.gen < nextGen
  <2>1. nextGen # 0 BY DEF TypeOK
  <2>2. \A r \in replies : r.gen \in Nat BY DEF TypeOK
  <2> QED BY <2>1, <2>2, GenFacts DEF Core, Numbered
<1>1. Numbered'
  <2>1. \A b \in Addr : peers'[b].gen < nextGen' /\ closed'[b].gen < nextGen'
    BY <1>0
  <2> QED BY <1>0, <2>1 DEF Numbered
<1>2. PeersCurrent'
  <2> SUFFICES ASSUME NEW b \in Addr, Open(b)'
               PROVE  /\ \A c \in Addr : /\ peers'[c].gen = peers'[b].gen => b = c
                                         /\ closing'[c].gen # peers'[b].gen
                                         /\ closed'[c].gen # peers'[b].gen
                      /\ \A r \in replies' : r.gen # peers'[b].gen
    BY DEF PeersCurrent
  <2>1. CASE b = a
    BY <1>0, <2>1
  <2>2. CASE b # a
    <3>1. peers'[b].gen = peers[b].gen /\ Open(b) /\ peers[b].gen # 0
      BY <2>2 DEF Open
    <3>2. /\ \A c \in Addr : /\ peers[c].gen = peers[b].gen => b = c
                             /\ closing[c].gen # peers[b].gen /\ closed[c].gen # peers[b].gen
          /\ \A r \in replies : r.gen # peers[b].gen
      BY <3>1 DEF Core, PeersCurrent
    <3> QED BY <1>0, <3>1, <3>2
  <2> QED BY <2>1, <2>2
<1>3. Truthful'
  BY <1>0 DEF Core, Truthful, Closing, Clean
<1>4. ShutOut' /\ StopIsTrue' /\ ClosedIsTrue'
  BY DEF Core, ShutOut, StopIsTrue, ClosedIsTrue, Serving, Live, Clean
<1>5. Accounted'
  <2> SUFFICES ASSUME NEW g \in Gens, Live(g)'
               PROVE  \E b \in Addr : g \in {peers'[b].gen, closing'[b].gen, closed'[b].gen}
    BY DEF Accounted
  <2>1. Live(g) /\ g # 0 BY DEF Live, Gens
  <2>2. PICK b \in Addr : g \in {peers[b].gen, closing[b].gen, closed[b].gen}
    BY <2>1 DEF Core, Accounted
  <2>3. b # a
    BY <2>1, <2>2 DEF Open, Closing, LiveReceipt
  <2> QED BY <2>2, <2>3
<1>6. OneOwner'
  <2> SUFFICES ASSUME NEW b \in Addr
               PROVE  /\ ~(Open(b)' /\ Closing(b)')
                      /\ ~((Open(b)' \/ Closing(b)') /\ LiveReceipt(b)')
    BY DEF OneOwner
  <2>1. (Closing(b)' => Closing(b)) /\ (LiveReceipt(b)' => LiveReceipt(b))
    BY <1>0 DEF Closing, LiveReceipt, Live
  <2>2. b # a => (Open(b)' => Open(b))
    BY DEF Open
  <2> QED BY <2>1, <2>2 DEF Core, OneOwner
<1>7. Owners' \subseteq Owners \cup {a}
  <2> SUFFICES ASSUME NEW b \in Addr, b # a, Open(b)' \/ Closing(b)' \/ LiveReceipt(b)'
               PROVE  Open(b) \/ Closing(b) \/ LiveReceipt(b)
    BY DEF Owners
  <2> QED BY <1>0 DEF Open, Closing, LiveReceipt, Live
<1> QED BY <1>1, <1>2, <1>3, <1>4, <1>5, <1>6, <1>7 DEF Core

\* A step of the resources of one connection: it becomes live only if a live
\* connection owns it, and what is gone stays gone (Resources).
LEMMA ResourcesStep ==
  ASSUME TypeOK, Core, NEW g \in Gens, NEW r,
         UNCHANGED <<peers, closing, closed, nextGen, stopping, replies>>,
         res' = [res EXCEPT ![g] = r],
         \/ \E a \in Addr : Open(a) /\ peers[a].gen = g
         \/ ~Clean(g) /\ (r.workers # 0 \/ r.streams # 0 => Live(g))
  PROVE  Core' /\ Owners' \subseteq Owners
<1>0. /\ res'[g] = r /\ (\A h \in Gens \ {g} : res'[h] = res[h])
      /\ \A a \in Addr : /\ Open(a) => peers[a].gen \in Gens
                         /\ Closing(a) => closing[a].gen \in Gens
                         /\ closed[a].gen # 0 => closed[a].gen \in Gens
      /\ \A q \in replies : q.gen \in Gens
  BY GenFacts DEF TypeOK, Core
<1>1. CASE \E a \in Addr : Open(a) /\ peers[a].gen = g
  <2>1. PICK a \in Addr : Open(a) /\ peers[a].gen = g BY <1>1
  <2>2. /\ \A b \in Addr : /\ Closing(b) => res'[closing[b].gen] = res[closing[b].gen]
                           /\ closed[b].gen # 0 => res'[closed[b].gen] = res[closed[b].gen]
        /\ \A q \in replies : res'[q.gen] = res[q.gen]
    BY <1>0, <2>1 DEF Core, PeersCurrent
  <2>3. Truthful' /\ ClosedIsTrue'
    BY <2>2 DEF Core, Truthful, ClosedIsTrue, Clean, Closing
  <2>4. OneOwner'
    BY <2>2 DEF Core, OneOwner, LiveReceipt, Live, Open, Closing
  <2>5. Accounted'
    BY <1>0, <2>1 DEF Core, Accounted, Live
  <2>6. stopping # "stopped" BY <2>1 DEF Core, ShutOut
  <2>7. Owners' \subseteq Owners
    BY <2>2 DEF Owners, LiveReceipt, Live, Open, Closing
  <2> QED BY <2>3, <2>4, <2>5, <2>6, <2>7
      DEF Core, Numbered, PeersCurrent, ShutOut, StopIsTrue, Open
<1>2. CASE ~Clean(g) /\ (r.workers # 0 \/ r.streams # 0 => Live(g))
  <2>1. \A h \in Gens : (Live(h)' => Live(h)) /\ (Clean(h) => Clean(h)')
    BY <1>0, <1>2 DEF Live, Clean
  <2>2. Truthful' /\ ClosedIsTrue'
    <3>1. Truthful'
      BY <1>0, <2>1 DEF Core, Truthful, Closing, Clean
    <3>2. ClosedIsTrue'
      BY <1>0, <2>1 DEF Core, ClosedIsTrue, Clean
    <3> QED BY <3>1, <3>2
  <2>3. OneOwner' /\ Owners' \subseteq Owners
    <3>1. \A a \in Addr : LiveReceipt(a)' => LiveReceipt(a)
      BY <1>0, <2>1 DEF LiveReceipt, Live
    <3> QED BY <3>1 DEF Core, OneOwner, Owners, Open, Closing
  <2>4. Accounted' /\ StopIsTrue'
    BY <2>1 DEF Core, Accounted, StopIsTrue
  <2> QED BY <2>2, <2>3, <2>4 DEF Core, Numbered, PeersCurrent, ShutOut, Open
<1> QED BY <1>1, <1>2

\* A teardown ends, with the truth (Connection::shutdown).
LEMMA TeardownStep ==
  ASSUME TypeOK, Core, NEW a \in Addr, TeardownEnds(a)
  PROVE  Core' /\ Owners' \subseteq Owners
<1>1. /\ UNCHANGED <<peers, closed, res, nextGen, stopping, replies>>
      /\ \A b \in Addr : closing'[b].gen = closing[b].gen
      /\ \A b \in Addr \ {a} : closing'[b].result = closing[b].result
      /\ closing'[a].result = "ok" => Clean(closing[a].gen)
  <2>1. CASE closing' = [closing EXCEPT ![a].result = IF Clean(closing[a].gen) THEN "ok"
                                                      ELSE "error"]
    BY <2>1 DEF TeardownEnds, TypeOK
  <2>2. CASE closing' = [closing EXCEPT ![a].result = "error"]
    BY <2>2 DEF TeardownEnds, TypeOK
  <2> QED BY <2>1, <2>2 DEF TeardownEnds
<1>2. \A b \in Addr : Closing(b)' <=> Closing(b)
  BY <1>1 DEF Closing
<1>3. Truthful'
  BY <1>1, <1>2 DEF Core, Truthful, Clean
<1>4. Accounted' /\ OneOwner' /\ Owners' \subseteq Owners
  BY <1>1, <1>2 DEF Core, Accounted, OneOwner, Owners, Live, LiveReceipt, Open
<1> QED BY <1>1, <1>3, <1>4
    DEF Core, Numbered, PeersCurrent, ShutOut, ClosedIsTrue, StopIsTrue, Open, Live, Clean

-----------------------------------------------------------------------------
(* Types and keys.                                                         *)

TaskType == [gen : Nat, id : ConnId \cup {0}, notify : BOOLEAN,
             result : {"pending", "ok", "error"}]
ReceiptType == [gen : Nat, id : ConnId \cup {0}, ok : BOOLEAN]

\* The values the maps are given.
LEMMA ValueFacts ==
  ASSUME TypeOK
  PROVE  /\ NoTask \in TaskType /\ NoReceipt \in ReceiptType
         /\ \A gone : Left(gone) \in [Addr -> [gen : Nat, id : ConnId \cup {0},
                                               versioned : BOOLEAN]]
         /\ \A gone : \A notify \in BOOLEAN : Begun(gone, notify) \in [Addr -> TaskType]
         /\ \A a \in Addr : Receipt(a) \in ReceiptType
         /\ \A g \in Nat, ok \in BOOLEAN : TerminalReply(g, ok) \in [gen : Nat, ok : BOOLEAN]
<1>1. NoTask \in TaskType /\ NoReceipt \in ReceiptType
  BY DEF NoTask, NoReceipt, TaskType, ReceiptType
<1>2. \A gone : Left(gone) \in [Addr -> [gen : Nat, id : ConnId \cup {0}, versioned : BOOLEAN]]
  BY DEF TypeOK, Left, NoPeer
<1>3. \A gone : \A notify \in BOOLEAN : Begun(gone, notify) \in [Addr -> TaskType]
  <2> SUFFICES ASSUME NEW gone, NEW notify \in BOOLEAN, NEW a \in Addr
               PROVE  (IF a \in gone /\ Open(a)
                       THEN [gen |-> peers[a].gen, id |-> peers[a].id,
                             notify |-> notify, result |-> "pending"]
                       ELSE closing[a]) \in TaskType
    BY DEF Begun
  <2>1. /\ closing[a] \in TaskType /\ peers[a].gen \in Nat
        /\ peers[a].id \in ConnId \cup {0}
    BY DEF TypeOK, TaskType
  <2> QED BY <2>1 DEF TaskType
<1>4. \A a \in Addr : Receipt(a) \in ReceiptType
  <2>1. \A a \in Addr : closing[a].gen \in Nat /\ closing[a].id \in ConnId \cup {0}
    BY DEF TypeOK
  <2> QED BY <2>1 DEF Receipt, ReceiptType
<1>5. \A g \in Nat, ok \in BOOLEAN : TerminalReply(g, ok) \in [gen : Nat, ok : BOOLEAN]
  BY DEF TerminalReply
<1> QED BY <1>1, <1>2, <1>3, <1>4, <1>5

\* What Left and Begun make of one address, and what a receipt says.
LEMMA MapFacts ==
  /\ \A gone : \A a \in Addr : Left(gone)[a].gen = (IF a \in gone THEN 0 ELSE peers[a].gen)
  /\ \A gone, notify : \A a \in Addr :
       /\ a \in gone /\ Open(a) => /\ Begun(gone, notify)[a].gen = peers[a].gen
                                   /\ Begun(gone, notify)[a].result = "pending"
       /\ ~(a \in gone /\ Open(a)) => Begun(gone, notify)[a] = closing[a]
  /\ \A a \in Addr :
       /\ Receipt(a).gen = closing[a].gen
       /\ Receipt(a).ok => closing[a].result = "ok"
       /\ TerminalReply(closing[a].gen, closing[a].result = "ok").ok
            => closing[a].result = "ok"
       /\ TerminalReply(closed[a].gen, closed[a].ok).ok => closed[a].ok
  /\ NoTask.gen = 0 /\ NoReceipt.gen = 0
  /\ \A g, ok : TerminalReply(g, ok).gen = g
<1>1. \A gone : \A a \in Addr : Left(gone)[a].gen = (IF a \in gone THEN 0 ELSE peers[a].gen)
  BY DEF Left, NoPeer
<1>2. \A gone, notify : \A a \in Addr :
       /\ a \in gone /\ Open(a) => /\ Begun(gone, notify)[a].gen = peers[a].gen
                                   /\ Begun(gone, notify)[a].result = "pending"
       /\ ~(a \in gone /\ Open(a)) => Begun(gone, notify)[a] = closing[a]
  BY DEF Begun
<1>3. \A a \in Addr :
        /\ Receipt(a).gen = closing[a].gen
        /\ Receipt(a).ok => closing[a].result = "ok"
        /\ TerminalReply(closing[a].gen, closing[a].result = "ok").ok
             => closing[a].result = "ok"
        /\ TerminalReply(closed[a].gen, closed[a].ok).ok => closed[a].ok
  BY DEF Receipt, TerminalReply
<1>4. NoTask.gen = 0 /\ NoReceipt.gen = 0 /\ \A g, ok : TerminalReply(g, ok).gen = g
  BY DEF NoTask, NoReceipt, TerminalReply
<1> QED BY <1>1, <1>2, <1>3, <1>4

-----------------------------------------------------------------------------
(* The actions.                                                            *)

ConnInv == TypeOK /\ Core /\ OnlyCurrentKey

\* The owners that are counted grow by one at most, and only below the limit.
Bounded == \/ Owners' \subseteq Owners
           \/ OwnerCount < MaxOwners /\ \E a \in Addr : Owners' \subseteq Owners \cup {a}

\* The session key is installed (accept_session_message).
LEMMA AuthenticateStep ==
  ASSUME ConnInv, NEW a \in Addr, Authenticate(a)
  PROVE  ConnInv' /\ Bounded
<1>0. /\ TypeOK /\ Core /\ OnlyCurrentKey /\ ~LiveReceipt(a) /\ ~Open(a)
      /\ auth' = [auth EXCEPT ![a] = psk] /\ closed' = [closed EXCEPT ![a] = NoReceipt]
      /\ aged' = aged \ {a}
      /\ UNCHANGED <<peers, closing, res, nextGen, psk, disk, stopping, replies>>
  BY DEF ConnInv, Authenticate
<1>1. NoReceipt.gen = 0 /\ NoReceipt \in ReceiptType
  BY <1>0, MapFacts, ValueFacts
<1>2. closed'[a].gen = 0 /\ \A b \in Addr \ {a} : closed'[b] = closed[b]
  BY <1>0, <1>1 DEF TypeOK
<1>3. Core' /\ Owners' \subseteq Owners
  BY <1>0, <1>2, ForgetStep
<1>4. TypeOK'
  BY <1>0, <1>1 DEF TypeOK, ReceiptType
<1>5. OnlyCurrentKey'
  BY <1>0 DEF OnlyCurrentKey, TypeOK, Open
<1> QED BY <1>3, <1>4, <1>5 DEF ConnInv, Bounded

\* A connection is opened, or the open one again (SessionCommand::Open,
\* StartStream).
LEMMA NewPeerStep ==
  ASSUME ConnInv, NEW a \in Addr, NEW id \in ConnId, NEW versioned \in BOOLEAN,
         NewPeer(a, id, versioned), Serving, Authorized(a), ~Closing(a), Admitted(a), ~Open(a),
         closed' = closed \/ closed' = [closed EXCEPT ![a] = NoReceipt],
         UNCHANGED <<closing, auth, aged, res, psk, disk, stopping, replies>>
  PROVE  ConnInv' /\ Bounded
<1>0. /\ TypeOK /\ Core /\ OnlyCurrentKey /\ ~LiveReceipt(a) /\ OwnerCount < MaxOwners
      /\ nextGen <= MaxGen /\ nextGen' = nextGen + 1
      /\ peers' = [peers EXCEPT ![a] = [gen |-> nextGen, id |-> id, versioned |-> versioned]]
  BY DEF ConnInv, Admitted, NewPeer
<1>1. NoReceipt.gen = 0 /\ NoReceipt \in ReceiptType
  BY <1>0, MapFacts, ValueFacts
<1>2. /\ closed'[a] = closed[a] \/ closed'[a].gen = 0
      /\ \A b \in Addr \ {a} : closed'[b] = closed[b]
      /\ closed' \in [Addr -> ReceiptType]
  <2>1. closed \in [Addr -> ReceiptType] BY <1>0 DEF TypeOK, ReceiptType
  <2>2. CASE closed' = closed BY <2>1, <2>2
  <2>3. CASE closed' = [closed EXCEPT ![a] = NoReceipt] BY <1>1, <2>1, <2>3
  <2> QED BY <2>2, <2>3
<1>3. peers'[a].gen = nextGen /\ \A b \in Addr \ {a} : peers'[b] = peers[b]
  BY <1>0 DEF TypeOK
<1>4. Core' /\ Owners' \subseteq Owners \cup {a}
  BY <1>0, <1>2, <1>3, OpenStep
<1>5. TypeOK'
  <2>1. peers' \in [Addr -> [gen : Nat, id : ConnId \cup {0}, versioned : BOOLEAN]]
    BY <1>0 DEF TypeOK
  <2>2. nextGen' \in 1..(MaxGen + 1)
    BY <1>0, ConnectionsAssumption DEF TypeOK
  <2> QED BY <1>0, <1>2, <2>1, <2>2 DEF TypeOK, ReceiptType
<1>6. OnlyCurrentKey'
  <2>1. psk # 0 => auth[a] = psk
    BY <1>0 DEF OnlyCurrentKey, Authorized
  <2> QED BY <1>0, <1>3, <2>1 DEF OnlyCurrentKey, Open
<1> QED BY <1>0, <1>4, <1>5, <1>6 DEF ConnInv, Bounded

\* The versioned flag is no part of what a connection owns (versioned_control).
LEMMA VersionedFacts ==
  ASSUME TypeOK, NEW a \in Addr, peers' = [peers EXCEPT ![a].versioned = TRUE]
  PROVE  /\ \A b \in Addr : peers'[b].gen = peers[b].gen
         /\ peers' \in [Addr -> [gen : Nat, id : ConnId \cup {0}, versioned : BOOLEAN]]
<1> DEFINE PeerType == [gen : Nat, id : ConnId \cup {0}, versioned : BOOLEAN]
           r == [peers[a] EXCEPT !.versioned = TRUE]
<1>1. peers \in [Addr -> PeerType] BY DEF TypeOK
<1>2. peers[a] \in PeerType BY <1>1
<1>3. r.gen = peers[a].gen BY <1>2
<1>4. r \in PeerType BY <1>2
<1>5. peers' = [peers EXCEPT ![a] = r] OBVIOUS
<1> HIDE DEF r
<1>6. \A b \in Addr : peers'[b].gen = peers[b].gen
  <2> HIDE DEF PeerType
  <2> QED BY <1>1, <1>3, <1>5
<1>7. peers' \in [Addr -> PeerType]
  <2> HIDE DEF PeerType
  <2> QED BY <1>1, <1>4, <1>5
<1> QED BY <1>6, <1>7

\* The same connection again (SessionCommand::Open).
LEMMA OpenConnectionStep ==
  ASSUME ConnInv, NEW a \in Addr, NEW id \in ConnId, OpenConnection(a, id)
  PROVE  ConnInv' /\ Bounded
<1>0. /\ TypeOK /\ Core /\ OnlyCurrentKey /\ Serving /\ Authorized(a) /\ ~Closing(a)
      /\ Admitted(a) /\ ~LiveReceipt(a) /\ closed' = [closed EXCEPT ![a] = NoReceipt]
      /\ UNCHANGED <<closing, auth, aged, res, psk, disk, stopping, replies>>
  BY DEF ConnInv, OpenConnection, Admitted
<1>1. CASE ~Open(a)
  <2>1. NewPeer(a, id, TRUE) BY <1>1 DEF OpenConnection
  <2>2. TRUE \in BOOLEAN OBVIOUS
  <2> QED BY <1>0, <1>1, <2>1, <2>2, NewPeerStep
<1>2. CASE Open(a)
  <2>0. peers' = [peers EXCEPT ![a].versioned = TRUE] /\ UNCHANGED nextGen
    BY <1>2 DEF OpenConnection
  <2>1. NoReceipt.gen = 0 /\ NoReceipt \in ReceiptType
    BY <1>0, MapFacts, ValueFacts
  <2>2. closed'[a].gen = 0 /\ \A b \in Addr \ {a} : closed'[b] = closed[b]
    BY <1>0, <2>1 DEF TypeOK
  <2>3. /\ \A b \in Addr : peers'[b].gen = peers[b].gen
        /\ peers' \in [Addr -> [gen : Nat, id : ConnId \cup {0}, versioned : BOOLEAN]]
    BY <1>0, <2>0, VersionedFacts
  <2>4. Core' /\ Owners' \subseteq Owners
    <3>1. \A b \in Addr : \/ closed'[b] = closed[b]
                          \/ closed'[b].gen = 0 /\ ~LiveReceipt(b)
      BY <1>0, <2>2
    <3>2. /\ \A b \in Addr : /\ peers'[b].gen = peers[b].gen /\ closing'[b].gen = closing[b].gen
                             /\ closing'[b].result = closing[b].result
          /\ UNCHANGED <<res, nextGen, stopping, replies>>
      BY <1>0, <2>0, <2>3
    <3> QED BY <1>0, <3>1, <3>2, ForgetStep
  <2>5. TypeOK'
    <3>1. closed' \in [Addr -> ReceiptType]
      BY <1>0, <2>1 DEF TypeOK, ReceiptType
    <3> QED BY <1>0, <2>0, <2>3, <3>1 DEF TypeOK, ReceiptType
  <2>6. OnlyCurrentKey'
    BY <1>0, <2>3 DEF OnlyCurrentKey, Open
  <2> QED BY <2>4, <2>5, <2>6 DEF ConnInv, Bounded
<1> QED BY <1>1, <1>2

\* A step that changes no connection's owner: the versioned flag, notify, ages
\* and the key on disk.
LEMMA CalmStep ==
  ASSUME ConnInv, TypeOK',
         \A a \in Addr : /\ peers'[a].gen = peers[a].gen /\ closing'[a].gen = closing[a].gen
                         /\ closing'[a].result = closing[a].result,
         \A r \in replies' :
           \/ r \in replies
           \/ \E a \in Addr : /\ closed[a].gen # 0 /\ r.gen = closed[a].gen
                              /\ r.ok => closed[a].ok,
         UNCHANGED <<closed, auth, res, nextGen, psk, stopping>>
  PROVE  ConnInv' /\ Bounded
<1>1. Core' /\ Owners' \subseteq Owners
  BY ForgetStep DEF ConnInv
<1>2. OnlyCurrentKey'
  BY DEF ConnInv, OnlyCurrentKey, Open
<1> QED BY <1>1, <1>2 DEF ConnInv, Bounded

\* A connection begins to close (begin_close).
LEMMA BeginCloseStep ==
  ASSUME ConnInv, NEW gone \in SUBSET Addr, NEW notify \in BOOLEAN,
         peers' = Left(gone), closing' = Begun(gone, notify),
         stopping' = stopping \/ (stopping' = "waiting" /\ gone = Addr),
         UNCHANGED <<closed, auth, aged, res, nextGen, psk, disk, replies>>
  PROVE  ConnInv' /\ Bounded
<1> DEFINE left == {a \in gone : Open(a)}
<1>0. TypeOK /\ Core /\ OnlyCurrentKey BY DEF ConnInv
<1>1. left \in SUBSET {a \in Addr : Open(a)} OBVIOUS
<1>2. \A a \in Addr : peers'[a].gen = (IF a \in left THEN 0 ELSE peers[a].gen)
  BY MapFacts DEF Open
<1>3. \A a \in Addr : /\ a \in left => /\ closing'[a].gen = peers[a].gen
                                       /\ closing'[a].result = "pending"
                      /\ a \notin left => closing'[a] = closing[a]
  BY MapFacts
<1>4. stopping' = "waiting" /\ gone = Addr => \A a \in Addr : peers'[a].gen = 0
  BY <1>2 DEF Open
<1>5. Core' /\ Owners' \subseteq Owners
  <2> DEFINE done == {}
  <2>1. done \in SUBSET {a \in Addr : Finished(a)} /\ \A a \in Addr : a \notin done
    OBVIOUS
  <2> HIDE DEF left, done
  <2>2. ClosingStep(left, done) BY <1>3, <2>1 DEF ClosingStep
  <2>3. ClosedStep(done) /\ RepliesStep(done) BY <2>1 DEF ClosedStep, RepliesStep
  <2>4. StoppingStep BY <1>4 DEF StoppingStep
  <2> QED BY <1>0, <1>1, <1>2, <2>1, <2>2, <2>3, <2>4, MapStep
<1>6. TypeOK'
  BY <1>0, ValueFacts DEF TypeOK, TaskType
<1>7. OnlyCurrentKey'
  BY <1>0, <1>2 DEF OnlyCurrentKey, Open
<1> QED BY <1>5, <1>6, <1>7 DEF ConnInv, Bounded

\* A binding request (input_binding).
LEMMA BindingStep ==
  ASSUME ConnInv, NEW a \in Addr, RequestInputBinding(a)
  PROVE  ConnInv' /\ Bounded
<1>0. /\ TypeOK /\ peers' = [peers EXCEPT ![a].versioned = TRUE]
      /\ UNCHANGED <<closing, closed, auth, aged, res, nextGen, psk, disk, stopping, replies>>
  BY DEF ConnInv, RequestInputBinding
<1>1. /\ \A b \in Addr : peers'[b].gen = peers[b].gen
      /\ peers' \in [Addr -> [gen : Nat, id : ConnId \cup {0}, versioned : BOOLEAN]]
  BY <1>0, VersionedFacts
<1>2. TypeOK' BY <1>0, <1>1 DEF TypeOK
<1> QED BY <1>0, <1>1, <1>2, CalmStep

\* request_close: the task is told to answer, a connection closes, or a receipt
\* answers again.
LEMMA CloseStep ==
  ASSUME ConnInv, NEW a \in Addr, NEW id \in ConnId, Close(a, id)
  PROVE  ConnInv' /\ Bounded
<1>0. TypeOK /\ UNCHANGED <<closed, auth, aged, res, nextGen, psk, disk, stopping>>
  BY DEF ConnInv, Close
<1>1. CASE closing' = [closing EXCEPT ![a].notify = TRUE] /\ UNCHANGED <<peers, replies>>
  <2> DEFINE r == [closing[a] EXCEPT !.notify = TRUE]
  <2>0. closing \in [Addr -> TaskType] BY <1>0 DEF TypeOK, TaskType
  <2>1. closing[a] \in TaskType BY <2>0
  <2>2. r.gen = closing[a].gen /\ r.result = closing[a].result BY <2>1 DEF TaskType
  <2>3. r \in TaskType BY <2>1 DEF TaskType
  <2>4. closing' = [closing EXCEPT ![a] = r] BY <1>1
  <2> HIDE DEF r
  <2>5. \A b \in Addr : closing'[b].gen = closing[b].gen /\ closing'[b].result = closing[b].result
    BY <2>0, <2>2, <2>4
  <2>6. closing' \in [Addr -> TaskType]
    BY <2>0, <2>3, <2>4
  <2>7. TypeOK' BY <1>0, <1>1, <2>6 DEF TypeOK, TaskType
  <2> QED BY <1>0, <1>1, <2>5, <2>7, CalmStep
<1>2. CASE peers' = Left({a}) /\ closing' = Begun({a}, TRUE) /\ UNCHANGED replies
  <2>1. {a} \in SUBSET Addr /\ TRUE \in BOOLEAN OBVIOUS
  <2> QED BY <1>0, <1>2, <2>1, BeginCloseStep
<1>3. CASE /\ closed[a].gen # 0 /\ UNCHANGED <<peers, closing>>
           /\ replies' = replies \cup {TerminalReply(closed[a].gen, closed[a].ok)}
  <2> DEFINE q == TerminalReply(closed[a].gen, closed[a].ok)
  <2>1. q.gen = closed[a].gen /\ (q.ok => closed[a].ok)
    BY MapFacts
  <2>2. q \in [gen : Nat, ok : BOOLEAN]
    <3>1. closed[a].gen \in Nat /\ closed[a].ok \in BOOLEAN BY <1>0 DEF TypeOK
    <3> QED BY <1>0, <3>1, ValueFacts
  <2>3. replies' = replies \cup {q} BY <1>3
  <2> HIDE DEF q
  <2>4. \A r \in replies' :
          \/ r \in replies
          \/ \E b \in Addr : /\ closed[b].gen # 0 /\ r.gen = closed[b].gen
                             /\ r.ok => closed[b].ok
    BY <1>3, <2>1, <2>3
  <2>5. TypeOK' BY <1>0, <1>3, <2>2, <2>3 DEF TypeOK
  <2> QED BY <1>0, <1>3, <2>4, <2>5, CalmStep
<1> QED BY <1>1, <1>2, <1>3 DEF Close

\* StopStream, and the beginning of a shutdown.
LEMMA StopStep ==
  ASSUME ConnInv, BeginShutdown \/ \E a \in Addr : StopStream(a)
  PROVE  ConnInv' /\ Bounded
<1>1. CASE BeginShutdown
  <2>1. Addr \in SUBSET Addr /\ TRUE \in BOOLEAN OBVIOUS
  <2> QED BY <1>1, <2>1, BeginCloseStep DEF BeginShutdown
<1>2. ASSUME NEW a \in Addr, StopStream(a) PROVE ConnInv' /\ Bounded
  <2>1. {a} \in SUBSET Addr /\ FALSE \in BOOLEAN OBVIOUS
  <2> QED BY <1>2, <2>1, BeginCloseStep DEF StopStream
<1> QED BY <1>1, <1>2

\* A worker starts, opens its stream, ends; a native stop completes or fails.
LEMMA WorkStep ==
  ASSUME ConnInv, ResourcesNext \/ \E a \in Addr : Subscribe(a)
  PROVE  ConnInv' /\ Bounded
<1> DEFINE ResType == [workers : 0..1, streams : 0..1, stops : 0..1, errors : 0..1]
<1>0. TypeOK /\ Core /\ res \in [Gens -> ResType] BY DEF ConnInv, TypeOK
<1>1. ASSUME NEW g \in Gens, NEW r \in ResType, res' = [res EXCEPT ![g] = r],
             \/ \E a \in Addr : Open(a) /\ peers[a].gen = g
             \/ ~Clean(g) /\ (r.workers # 0 \/ r.streams # 0 => Live(g)),
             UNCHANGED <<peers, closing, closed, auth, aged, nextGen, psk, disk, stopping,
                         replies>>
      PROVE  ConnInv' /\ Bounded
  <2>1. Core' /\ Owners' \subseteq Owners
    BY <1>0, <1>1, ResourcesStep
  <2>2. TypeOK'
    <3>1. res' \in [Gens -> ResType] BY <1>0, <1>1
    <3> QED BY <1>0, <1>1, <3>1 DEF TypeOK
  <2>3. OnlyCurrentKey' BY <1>1 DEF ConnInv, OnlyCurrentKey, Open
  <2> QED BY <2>1, <2>2, <2>3 DEF ConnInv, Bounded
<1>2. ASSUME NEW a \in Addr, Subscribe(a) PROVE ConnInv' /\ Bounded
  <2>1. Open(a) /\ peers[a].gen \in Gens
    BY <1>0, <1>2, GenFacts DEF Subscribe, Core
  <2> DEFINE r == [res[peers[a].gen] EXCEPT !.workers = 1]
  <2>2. r \in ResType BY <1>0, <2>1
  <2>3. /\ res' = [res EXCEPT ![peers[a].gen] = r]
        /\ UNCHANGED <<peers, closing, closed, auth, aged, nextGen, psk, disk, stopping, replies>>
    BY <1>2 DEF Subscribe
  <2> HIDE DEF r, ResType
  <2> QED BY <1>1, <2>1, <2>2, <2>3
<1>3. ASSUME NEW g \in Gens, StreamOpens(g) PROVE ConnInv' /\ Bounded
  <2> DEFINE r == [res[g] EXCEPT !.streams = 1]
  <2>1. r \in ResType BY <1>0
  <2>2. ~Clean(g) /\ Live(g)
    BY <1>3 DEF StreamOpens, Live, Clean, NoResources
  <2>3. /\ res' = [res EXCEPT ![g] = r]
        /\ UNCHANGED <<peers, closing, closed, auth, aged, nextGen, psk, disk, stopping, replies>>
    BY <1>3 DEF StreamOpens, ResourceStep
  <2> HIDE DEF r, ResType
  <2> QED BY <1>1, <2>1, <2>2, <2>3
<1>4. ASSUME NEW g \in Gens, WorkerEnds(g) PROVE ConnInv' /\ Bounded
  <2> DEFINE v == IF res[g].streams = 1 THEN 1 ELSE 0
             r == [res[g] EXCEPT !.workers = 0, !.stops = v]
  <2>1. r \in ResType
    <3>1. res[g] \in ResType /\ v \in 0..1 BY <1>0
    <3>2. ASSUME NEW x \in ResType, NEW w \in 0..1
          PROVE  [x EXCEPT !.workers = 0, !.stops = w] \in ResType
      <4>1. [x EXCEPT !.workers = 0] \in ResType BY <3>2
      <4>2. ASSUME NEW y \in ResType PROVE [y EXCEPT !.stops = w] \in ResType BY <3>2, <4>2
      <4>3. [[x EXCEPT !.workers = 0] EXCEPT !.stops = w] \in ResType BY <4>1, <4>2
      <4> QED BY <4>3
    <3> QED BY <3>1, <3>2
  <2>2. ~Clean(g) /\ Live(g)
    BY <1>4 DEF WorkerEnds, Live, Clean, NoResources
  <2>3. /\ res' = [res EXCEPT ![g] = r]
        /\ UNCHANGED <<peers, closing, closed, auth, aged, nextGen, psk, disk, stopping, replies>>
    BY <1>4 DEF WorkerEnds, ResourceStep
  <2> HIDE DEF r, ResType
  <2> QED BY <1>1, <2>1, <2>2, <2>3
<1>5. ASSUME NEW g \in Gens, NEW ok \in BOOLEAN, StopCompletes(g, ok)
      PROVE  ConnInv' /\ Bounded
  <2> DEFINE r == IF ok THEN [res[g] EXCEPT !.stops = 0, !.streams = 0]
                  ELSE [res[g] EXCEPT !.stops = 0, !.errors = 1]
  <2>1. r \in ResType
    <3>1. res[g] \in ResType BY <1>0
    <3>2. /\ ok => r = [workers |-> res[g].workers, streams |-> 0, stops |-> 0,
                       errors |-> res[g].errors]
          /\ ~ok => r = [workers |-> res[g].workers, streams |-> res[g].streams,
                        stops |-> 0, errors |-> 1]
      BY <3>1
    <3> HIDE DEF r
    <3> QED BY <3>1, <3>2
  <2>2. ~Clean(g)
    BY <1>5 DEF StopCompletes, Clean, NoResources
  <2>3. r.workers = res[g].workers /\ (r.streams # 0 => r.streams = res[g].streams)
    BY <1>0
  <2>4. /\ res' = [res EXCEPT ![g] = r]
        /\ UNCHANGED <<peers, closing, closed, auth, aged, nextGen, psk, disk, stopping, replies>>
    BY <1>5 DEF StopCompletes, ResourceStep
  <2> HIDE DEF r, ResType
  <2>5. r.workers # 0 \/ r.streams # 0 => Live(g)
    BY <2>3 DEF Live
  <2> QED BY <1>1, <2>1, <2>2, <2>4, <2>5
<1> QED BY <1>2, <1>3, <1>4, <1>5 DEF ResourcesNext

\* The 100 ms tick: key rotation, silent peers, finished teardowns, and what may
\* be forgotten.
LEMMA TickStep ==
  ASSUME ConnInv, NEW silent \in SUBSET Addr, ServiceTick(silent)
  PROVE  ConnInv' /\ Bounded
<1> DEFINE rotated == disk # psk
           gone == IF rotated THEN {a \in Addr : Open(a)} ELSE silent
           done == {a \in Addr : Finished(a)}
           auth1 == Sessions(rotated)
<1>0. /\ TypeOK /\ Core /\ OnlyCurrentKey /\ silent \subseteq {a \in Addr : Open(a)}
      /\ peers' = Left(gone)
      /\ closing' = [a \in Addr |-> IF a \in done THEN NoTask ELSE Begun(gone, ~rotated)[a]]
      /\ closed' = [a \in Addr |-> IF a \in done THEN Receipt(a)
                                   ELSE IF Retained(a, rotated) THEN closed[a] ELSE NoReceipt]
      /\ auth' = [a \in Addr |->
           IF peers'[a].gen # 0 \/ closing'[a].gen # 0 \/ closed'[a].gen # 0
              \/ a \notin aged THEN auth1[a] ELSE 0]
      /\ aged' = aged \ done /\ psk' = disk
      /\ replies' = replies \cup
           {TerminalReply(closing[a].gen, closing[a].result = "ok") :
              a \in {b \in done : closing[b].notify /\ auth1[b] # 0}}
      /\ UNCHANGED <<res, nextGen, disk, stopping>>
  BY DEF ConnInv, ServiceTick
<1>1. /\ gone \in SUBSET {a \in Addr : Open(a)} /\ done \in SUBSET {a \in Addr : Finished(a)}
      /\ gone \subseteq Addr
      /\ \A a \in gone : Open(a) /\ a \notin done
  BY <1>0 DEF Core, OneOwner, Finished
<1>2. /\ auth1 \in [Addr -> Nat] /\ (~rotated => auth1 = auth)
      /\ rotated => \A a \in Addr : auth1[a] = 0 /\ (Open(a) => a \in gone)
  BY <1>0 DEF Sessions, TypeOK
<1>3. \A a \in Addr \ done : ~Retained(a, rotated) => ~LiveReceipt(a)
  BY DEF Retained
<1>4. (~rotated) \in BOOLEAN OBVIOUS
<1> HIDE DEF gone, done, auth1
<1>5. \A a \in Addr : peers'[a].gen = (IF a \in gone THEN 0 ELSE peers[a].gen)
  BY <1>0, MapFacts
<1>6. \A a \in Addr :
        /\ a \in done => closing'[a].gen = 0
        /\ a \in gone => /\ closing'[a].gen = peers[a].gen
                         /\ closing'[a].result = "pending"
        /\ a \notin gone \cup done => /\ closing'[a].gen = closing[a].gen
                                      /\ closing[a].gen # 0 => closing'[a].result = closing[a].result
  <2>1. \A a \in Addr :
          /\ a \in gone => /\ Begun(gone, ~rotated)[a].gen = peers[a].gen
                           /\ Begun(gone, ~rotated)[a].result = "pending"
          /\ a \notin gone => Begun(gone, ~rotated)[a] = closing[a]
    BY <1>1, MapFacts
  <2>2. NoTask.gen = 0 BY MapFacts
  <2> QED BY <1>0, <1>1, <2>1, <2>2
<1>7. \A a \in Addr :
        /\ a \in done => /\ closed'[a].gen = closing[a].gen
                         /\ closed'[a].ok => closing[a].result = "ok"
        /\ a \notin done => \/ closed'[a] = closed[a]
                            \/ closed'[a].gen = 0 /\ ~LiveReceipt(a)
  BY <1>0, <1>3, MapFacts
<1>8. \A r \in replies' :
        \/ r \in replies
        \/ \E a \in done : /\ r.gen = closing[a].gen
                           /\ r.ok => closing[a].result = "ok"
  BY <1>0, <1>1, MapFacts
<1>9. Core' /\ Owners' \subseteq Owners
  <2>1. ClosingStep(gone, done) BY <1>6 DEF ClosingStep
  <2>2. ClosedStep(done) BY <1>7 DEF ClosedStep
  <2>3. RepliesStep(done) BY <1>8 DEF RepliesStep
  <2>4. StoppingStep BY <1>0 DEF StoppingStep
  <2> QED BY <1>0, <1>1, <1>5, <2>1, <2>2, <2>3, <2>4, MapStep
<1>10. TypeOK'
  <2>1. peers' \in [Addr -> [gen : Nat, id : ConnId \cup {0}, versioned : BOOLEAN]]
    BY <1>0, ValueFacts
  <2>2. closing' \in [Addr -> TaskType]
    <3>1. Begun(gone, ~rotated) \in [Addr -> TaskType] /\ NoTask \in TaskType
      BY <1>0, <1>4, ValueFacts
    <3> QED BY <1>0, <3>1
  <2>3. closed' \in [Addr -> ReceiptType]
    <3>1. /\ \A a \in Addr : Receipt(a) \in ReceiptType
          /\ NoReceipt \in ReceiptType /\ closed \in [Addr -> ReceiptType]
      BY <1>0, ValueFacts DEF TypeOK, ReceiptType
    <3> QED BY <1>0, <3>1
  <2>4. auth' \in [Addr -> Nat]
    BY <1>0, <1>2
  <2>5. replies' \subseteq [gen : Nat, ok : BOOLEAN]
    <3>1. \A a \in Addr : closing[a].gen \in Nat /\ (closing[a].result = "ok") \in BOOLEAN
      BY <1>0 DEF TypeOK
    <3>2. \A a \in Addr : TerminalReply(closing[a].gen, closing[a].result = "ok")
                            \in [gen : Nat, ok : BOOLEAN]
      BY <1>0, <3>1 DEF TerminalReply
    <3>3. replies \subseteq [gen : Nat, ok : BOOLEAN] BY <1>0 DEF TypeOK
    <3> QED BY <1>0, <1>1, <3>2, <3>3
  <2>6. aged' \subseteq Addr /\ psk' \in Nat BY <1>0 DEF TypeOK
  <2> QED BY <1>0, <2>1, <2>2, <2>3, <2>4, <2>5, <2>6 DEF TypeOK, TaskType, ReceiptType
<1>11. OnlyCurrentKey'
  <2>1. CASE rotated
    BY <1>0, <1>2, <1>5, <2>1 DEF OnlyCurrentKey, Open
  <2>2. CASE ~rotated
    <3>1. psk' = psk /\ auth1 = auth BY <1>0, <1>2, <2>2
    <3>2. \A a \in Addr : /\ auth'[a] \in {0, auth[a]}
                          /\ Open(a)' => Open(a) /\ auth'[a] = auth[a]
      BY <1>0, <1>5, <3>1 DEF Open
    <3> QED BY <1>0, <3>1, <3>2 DEF OnlyCurrentKey
  <2> QED BY <2>1, <2>2
<1> QED BY <1>9, <1>10, <1>11 DEF ConnInv, Bounded

\* The end of a shutdown: success only if nothing is left (shutdown_connections).
LEMMA EndShutdownStep ==
  ASSUME ConnInv, NEW released \in BOOLEAN, EndShutdown(released)
  PROVE  ConnInv' /\ Bounded
<1> DEFINE over == {a \in Addr : Closing(a)}
<1>0. /\ TypeOK /\ Core /\ OnlyCurrentKey /\ stopping = "waiting"
      /\ \A a \in over : Finished(a)
      /\ closing' = [a \in Addr |-> NoTask]
      /\ closed' = [a \in Addr |-> IF a \in over THEN Receipt(a) ELSE closed[a]]
      /\ replies' = replies \cup {TerminalReply(closing[a].gen,
                                    closing[a].result = "ok") : a \in over}
      /\ stopping' = (IF released /\ Confirmed(closed') THEN "stopped" ELSE "failed")
      /\ aged' = aged \ over
      /\ UNCHANGED <<peers, auth, res, nextGen, psk, disk>>
  BY DEF ConnInv, EndShutdown
<1> DEFINE gone == {}
<1>1. /\ gone \in SUBSET {a \in Addr : Open(a)} /\ over \in SUBSET {a \in Addr : Finished(a)}
      /\ \A a \in Addr : a \notin gone /\ ~Open(a)
      /\ \A a \in Addr \ over : closing[a].gen = 0
      /\ over \subseteq Addr
  BY <1>0 DEF Core, ShutOut, Closing
<1> HIDE DEF over, gone
<1>2. \A a \in Addr : peers'[a].gen = (IF a \in gone THEN 0 ELSE peers[a].gen)
  BY <1>0, <1>1
<1>3. \A a \in Addr :
        /\ closing'[a].gen = 0 /\ closing'[a].result = "pending"
        /\ closed'[a] = (IF a \in over THEN Receipt(a) ELSE closed[a])
  BY <1>0 DEF NoTask
<1>4. \A a \in Addr :
        /\ a \in over => /\ closed'[a].gen = closing[a].gen
                         /\ closed'[a].ok => closing[a].result = "ok"
        /\ a \notin over => \/ closed'[a] = closed[a]
                            \/ closed'[a].gen = 0 /\ ~LiveReceipt(a)
  BY <1>3, MapFacts
<1>5. \A r \in replies' :
        \/ r \in replies
        \/ \E a \in over : /\ r.gen = closing[a].gen
                           /\ r.ok => closing[a].result = "ok"
  BY <1>0, <1>1, MapFacts
<1>6. \A a \in Addr :
        /\ a \in over => closing'[a].gen = 0
        /\ a \in gone => /\ closing'[a].gen = peers[a].gen
                         /\ closing'[a].result = "pending"
        /\ a \notin gone \cup over => /\ closing'[a].gen = closing[a].gen
                                      /\ closing[a].gen # 0 => closing'[a].result = closing[a].result
  BY <1>1, <1>3
<1>7. \/ stopping' = "failed"
      \/ /\ stopping' = "stopped"
         /\ \A a \in Addr : /\ peers'[a].gen = 0 /\ closing'[a].gen = 0
                            /\ closed'[a].gen # 0 => ~Live(closed'[a].gen)
  <2>1. Confirmed(closed') => \A a \in Addr : closed'[a].gen # 0 => ~Live(closed'[a].gen)
    BY DEF Confirmed
  <2>2. \A a \in Addr : peers'[a].gen = 0
    BY <1>0, <1>1 DEF Open
  <2> QED BY <1>0, <1>3, <2>1, <2>2
<1>8. Core' /\ Owners' \subseteq Owners
  <2>1. ClosingStep(gone, over) BY <1>6 DEF ClosingStep
  <2>2. ClosedStep(over) BY <1>4 DEF ClosedStep
  <2>3. RepliesStep(over) BY <1>5 DEF RepliesStep
  <2>4. StoppingStep BY <1>7 DEF StoppingStep
  <2> QED BY <1>0, <1>1, <1>2, <2>1, <2>2, <2>3, <2>4, MapStep
<1>9. TypeOK'
  <2>1. closing' \in [Addr -> TaskType]
    BY <1>0, ValueFacts
  <2>2. closed' \in [Addr -> ReceiptType]
    <3>1. /\ \A a \in Addr : Receipt(a) \in ReceiptType
          /\ closed \in [Addr -> ReceiptType]
      BY <1>0, ValueFacts DEF TypeOK, ReceiptType
    <3> QED BY <1>0, <3>1
  <2>3. replies' \subseteq [gen : Nat, ok : BOOLEAN]
    <3>1. \A a \in Addr : closing[a].gen \in Nat /\ (closing[a].result = "ok") \in BOOLEAN
      BY <1>0 DEF TypeOK
    <3>2. \A a \in Addr : TerminalReply(closing[a].gen, closing[a].result = "ok")
                            \in [gen : Nat, ok : BOOLEAN]
      BY <1>0, <3>1 DEF TerminalReply
    <3>3. replies \subseteq [gen : Nat, ok : BOOLEAN] BY <1>0 DEF TypeOK
    <3> QED BY <1>0, <1>1, <3>2, <3>3
  <2>4. aged' \subseteq Addr /\ stopping' \in {"no", "waiting", "failed", "stopped"}
    BY <1>0 DEF TypeOK
  <2> QED BY <1>0, <2>1, <2>2, <2>3, <2>4 DEF TypeOK, TaskType, ReceiptType
<1>10. OnlyCurrentKey'
  BY <1>0 DEF OnlyCurrentKey, Open
<1> QED BY <1>8, <1>9, <1>10 DEF ConnInv, Bounded

\* The other steps: a teardown ends, a receipt ages, the key on disk changes.
LEMMA OtherStep ==
  ASSUME ConnInv, ChangeKey \/ \E a \in Addr : TeardownEnds(a) \/ Ages(a)
  PROVE  ConnInv' /\ Bounded
<1>0. TypeOK /\ Core /\ OnlyCurrentKey BY DEF ConnInv
<1>1. CASE ChangeKey
  <2>1. TypeOK' /\ UNCHANGED <<peers, closing, closed, auth, res, nextGen, psk, stopping, replies>>
    BY <1>0, <1>1, ConnectionsAssumption DEF ChangeKey, TypeOK
  <2> QED BY <2>1, CalmStep
<1>2. ASSUME NEW a \in Addr, Ages(a) PROVE ConnInv' /\ Bounded
  <2>1. TypeOK' /\ UNCHANGED <<peers, closing, closed, auth, res, nextGen, psk, stopping, replies>>
    BY <1>0, <1>2 DEF Ages, TypeOK
  <2> QED BY <2>1, CalmStep
<1>3. ASSUME NEW a \in Addr, TeardownEnds(a) PROVE ConnInv' /\ Bounded
  <2>1. Core' /\ Owners' \subseteq Owners
    BY <1>0, <1>3, TeardownStep
  <2>2. TypeOK'
    <3>1. \E r \in {"pending", "ok", "error"} : closing' = [closing EXCEPT ![a].result = r]
      <4> DEFINE g == closing[a].gen
      <4>1. CASE closing' = [closing EXCEPT ![a].result = "error"] BY <4>1
      <4>2. CASE closing' = [closing EXCEPT ![a].result = IF Clean(g) THEN "ok" ELSE "error"]
        <5>1. (IF Clean(g) THEN "ok" ELSE "error") \in {"pending", "ok", "error"} OBVIOUS
        <5> QED BY <4>2, <5>1
      <4> QED BY <1>3, <4>1, <4>2 DEF TeardownEnds
    <3>2. closing' \in [Addr -> TaskType]
      <4>1. PICK r \in {"pending", "ok", "error"} :
              closing' = [closing EXCEPT ![a] = [closing[a] EXCEPT !.result = r]]
        BY <3>1
      <4>2. closing \in [Addr -> TaskType] BY <1>0 DEF TypeOK, TaskType
      <4>3. [closing[a] EXCEPT !.result = r] \in TaskType
        <5>1. ASSUME NEW t \in TaskType PROVE [t EXCEPT !.result = r] \in TaskType
          BY DEF TaskType
        <5> QED BY <4>2, <5>1
      <4> QED BY <4>1, <4>2, <4>3
    <3> QED BY <1>0, <1>3, <3>2 DEF TypeOK, TaskType, TeardownEnds
  <2>3. OnlyCurrentKey'
    BY <1>0, <1>3 DEF TeardownEnds, OnlyCurrentKey, Open
  <2> QED BY <2>1, <2>2, <2>3 DEF ConnInv, Bounded
<1> QED BY <1>1, <1>2, <1>3

-----------------------------------------------------------------------------
(* The invariant, and what follows from it.                                *)

\* The service starts with nothing open.
LEMMA InitConnInv == Init => ConnInv /\ Owners = {}
<1> SUFFICES ASSUME Init PROVE ConnInv /\ Owners = {} OBVIOUS
<1>1. TypeOK
  BY ConnectionsAssumption
     DEF Init, TypeOK, NoPeer, NoTask, NoReceipt, NoResources
<1>2. \A a \in Addr : peers[a].gen = 0 /\ closing[a].gen = 0 /\ closed[a].gen = 0
  BY DEF Init, NoPeer, NoTask, NoReceipt
<1>3. \A g \in Gens : ~Live(g)
  BY DEF Init, Live, NoResources
<1>4. Core /\ Owners = {}
  BY <1>2, <1>3 DEF Init, Core, Numbered, PeersCurrent, Truthful, ShutOut, Accounted, OneOwner,
                    ClosedIsTrue, StopIsTrue, Open, Closing, LiveReceipt, Owners
<1>5. OnlyCurrentKey
  BY <1>2 DEF Init, OnlyCurrentKey, Open
<1> QED BY <1>1, <1>4, <1>5 DEF ConnInv

\* Every step keeps the invariant and counts before it opens.
LEMMA NextConnInv == ConnInv /\ [Next]_vars => ConnInv' /\ Bounded
<1> SUFFICES ASSUME ConnInv, [Next]_vars PROVE ConnInv' /\ Bounded OBVIOUS
<1>1. ASSUME NEW a \in Addr, NEW id \in ConnId, StartStream(a, id) PROVE ConnInv' /\ Bounded
  <2>1. FALSE \in BOOLEAN OBVIOUS
  <2> QED BY <1>1, <2>1, NewPeerStep DEF StartStream
<1>2. CASE MessageNext
  BY <1>1, <1>2, AuthenticateStep, StopStep, WorkStep, BindingStep, OpenConnectionStep, CloseStep
     DEF MessageNext
<1>3. CASE TickNext BY <1>3, TickStep DEF TickNext
<1>4. CASE ShutdownNext BY <1>4, EndShutdownStep DEF ShutdownNext
<1>5. CASE ResourcesNext BY <1>5, WorkStep
<1>6. CASE BeginShutdown BY <1>6, StopStep
<1>7. CASE ChangeKey \/ \E a \in Addr : TeardownEnds(a) \/ Ages(a) BY <1>7, OtherStep
<1>8. CASE UNCHANGED vars
  <2>1. TypeOK' /\ UNCHANGED <<peers, closing, closed, auth, res, nextGen, psk, stopping, replies>>
    BY <1>8 DEF vars, TypeOK, ConnInv
  <2> QED BY <2>1, CalmStep
<1> QED BY <1>2, <1>3, <1>4, <1>5, <1>6, <1>7, <1>8 DEF Next

\* The invariant holds of every behaviour of the service.
THEOREM ConnectionsHold == Spec => []ConnInv
<1>1. Init => ConnInv BY InitConnInv
<1>2. ConnInv /\ [Next]_vars => ConnInv' BY NextConnInv
<1> QED BY <1>1, <1>2, PTL DEF Spec

\* Every variable keeps its type (the maps of run_host_service_inner).
THEOREM ConnectionsTyped == Spec => []TypeOK
<1>1. ConnInv => TypeOK BY DEF ConnInv
<1> QED BY <1>1, ConnectionsHold, PTL

\* No native owner is ever lost: what is live belongs to a connection, a
\* teardown or a kept receipt (closed.retain, begin_close, ClosedReceipt).
THEOREM NoOwnerLost == Spec => []Accounted
<1>1. ConnInv => Accounted BY DEF ConnInv, Core
<1> QED BY <1>1, ConnectionsHold, PTL

\* Nothing opens over a teardown or a receipt that is live
\* (connection_admission_error).
THEOREM OneOwnerEach == Spec => []OneOwner
<1>1. ConnInv => OneOwner BY DEF ConnInv, Core
<1> QED BY <1>1, ConnectionsHold, PTL

\* A terminal reply that confirms is true and stays true (Connection::shutdown,
\* send_terminal).
THEOREM ConfirmedIsGone == Spec => []ClosedIsTrue
<1>1. ConnInv => ClosedIsTrue BY DEF ConnInv, Core
<1> QED BY <1>1, ConnectionsHold, PTL

\* A shutdown that succeeds has left nothing running (shutdown_connections).
THEOREM StoppedIsGone == Spec => []StopIsTrue
<1>1. ConnInv => StopIsTrue BY DEF ConnInv, Core
<1> QED BY <1>1, ConnectionsHold, PTL

\* No connection outlives the key it was authenticated with (the rotation in the
\* service tick).
THEOREM KeyIsCurrent == Spec => []OnlyCurrentKey
<1>1. ConnInv => OnlyCurrentKey BY DEF ConnInv
<1> QED BY <1>1, ConnectionsHold, PTL

-----------------------------------------------------------------------------
(* The limit: an address is counted once, so counting the three maps one by *)
(* one counts the owners.                                                   *)

\* Three disjoint sets of addresses.
LEMMA CountThree ==
  ASSUME NEW A \in SUBSET Addr, NEW B \in SUBSET Addr, NEW C \in SUBSET Addr,
         A \cap B = {}, (A \cup B) \cap C = {}
  PROVE  /\ IsFiniteSet((A \cup B) \cup C)
         /\ Cardinality((A \cup B) \cup C)
              = Cardinality(A) + Cardinality(B) + Cardinality(C)
<1>1. IsFiniteSet(A) /\ IsFiniteSet(B) /\ IsFiniteSet(C)
  BY FS_Subset, ConnectionsAssumption
<1>2. /\ Cardinality(A) \in Nat /\ Cardinality(B) \in Nat /\ Cardinality(C) \in Nat
      /\ Cardinality({}) = 0
  BY <1>1, FS_CardinalityType, FS_EmptySet
<1>3. IsFiniteSet(A \cup B) /\ Cardinality(A \cup B) = Cardinality(A) + Cardinality(B)
  <2>1. /\ IsFiniteSet(A \cup B)
        /\ Cardinality(A \cup B) = Cardinality(A) + Cardinality(B) - Cardinality(A \cap B)
    BY <1>1, FS_Union
  <2> QED BY <1>2, <2>1
<1> DEFINE U == A \cup B
           V == U \cup C
           W == U \cap C
<1>4. /\ IsFiniteSet(U) /\ Cardinality(U) = Cardinality(A) + Cardinality(B)
      /\ Cardinality(W) = 0
  BY <1>2, <1>3
<1>5. IsFiniteSet(V) /\ Cardinality(V) = Cardinality(U) + Cardinality(C) - Cardinality(W)
  BY <1>1, <1>4, FS_Union
<1>6. Cardinality(V) = Cardinality(A) + Cardinality(B) + Cardinality(C)
  <2> HIDE DEF U, V, W
  <2> QED BY <1>2, <1>4, <1>5
<1> QED BY <1>5, <1>6

\* What connection_admission_error counts is the number of owners.
LEMMA CountOwners ==
  ASSUME OneOwner
  PROVE  IsFiniteSet(Owners) /\ OwnerCount = Cardinality(Owners)
<1> DEFINE A == {a \in Addr : Open(a)}
           B == {a \in Addr : Closing(a)}
           C == {a \in Addr : LiveReceipt(a)}
<1>1. /\ A \in SUBSET Addr /\ B \in SUBSET Addr /\ C \in SUBSET Addr
      /\ A \cap B = {} /\ (A \cup B) \cap C = {} /\ Owners = (A \cup B) \cup C
  BY DEF OneOwner, Owners
<1>2. OwnerCount = Cardinality(A) + Cardinality(B) + Cardinality(C)
  BY DEF OwnerCount
<1> HIDE DEF A, B, C
<1> QED BY <1>1, <1>2, CountThree

\* The same of the state after a step.
LEMMA CountOwnersNext ==
  ASSUME OneOwner'
  PROVE  IsFiniteSet(Owners') /\ OwnerCount' = Cardinality(Owners')
<1> DEFINE A == {a \in Addr : Open(a)'}
           B == {a \in Addr : Closing(a)'}
           C == {a \in Addr : LiveReceipt(a)'}
<1>1. /\ A \in SUBSET Addr /\ B \in SUBSET Addr /\ C \in SUBSET Addr
      /\ A \cap B = {} /\ (A \cup B) \cap C = {} /\ Owners' = (A \cup B) \cup C
  BY DEF OneOwner, Owners
<1>2. OwnerCount' = Cardinality(A) + Cardinality(B) + Cardinality(C)
  BY DEF OwnerCount
<1> HIDE DEF A, B, C
<1> QED BY <1>1, <1>2, CountThree

\* A step that is counted before it opens stays within the limit.
LEMMA NextOwnerLimit ==
  ASSUME ConnInv, OwnerLimit, [Next]_vars
  PROVE  OwnerLimit'
<1>1. OneOwner /\ OneOwner' /\ Bounded BY NextConnInv DEF ConnInv, Core
<1>2. /\ IsFiniteSet(Owners) /\ OwnerCount = Cardinality(Owners)
      /\ IsFiniteSet(Owners') /\ OwnerCount' = Cardinality(Owners')
  BY <1>1, CountOwners, CountOwnersNext
<1>3. /\ Cardinality(Owners) \in Nat /\ Cardinality(Owners') \in Nat /\ MaxOwners \in Nat
      /\ Cardinality(Owners) <= MaxOwners
  BY <1>2, FS_CardinalityType, ConnectionsAssumption DEF OwnerLimit
<1>4. CASE Owners' \subseteq Owners
  <2>1. Cardinality(Owners') <= Cardinality(Owners) BY <1>2, <1>4, FS_Subset
  <2> QED BY <1>2, <1>3, <2>1 DEF OwnerLimit
<1>5. ASSUME OwnerCount < MaxOwners, NEW a \in Addr, Owners' \subseteq Owners \cup {a}
      PROVE  OwnerLimit'
  <2>1. /\ IsFiniteSet(Owners \cup {a})
        /\ Cardinality(Owners \cup {a}) =
             IF a \in Owners THEN Cardinality(Owners) ELSE Cardinality(Owners) + 1
    BY <1>2, FS_AddElement
  <2>2. Cardinality(Owners') <= Cardinality(Owners \cup {a}) BY <1>5, <2>1, FS_Subset
  <2> QED BY <1>2, <1>3, <1>5, <2>1, <2>2 DEF OwnerLimit
<1> QED BY <1>1, <1>4, <1>5 DEF Bounded

\* Connections, teardowns and live receipts together never exceed the limit,
\* though the three maps are counted one by one (connection_admission_error).
THEOREM LimitHolds == Spec => []OwnerLimit
<1>1. Init => ConnInv /\ OwnerLimit
  <2> SUFFICES ASSUME Init PROVE ConnInv /\ OwnerLimit OBVIOUS
  <2>1. ConnInv /\ Owners = {} BY InitConnInv
  <2>2. OwnerCount = Cardinality(Owners) BY <2>1, CountOwners DEF ConnInv, Core
  <2> QED BY <2>1, <2>2, FS_EmptySet, ConnectionsAssumption DEF OwnerLimit
<1>2. (ConnInv /\ OwnerLimit) /\ [Next]_vars => (ConnInv /\ OwnerLimit)'
  BY NextConnInv, NextOwnerLimit
<1> QED BY <1>1, <1>2, PTL DEF Spec
=============================================================================
