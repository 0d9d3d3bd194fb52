--------------------------- MODULE ClipboardProofs ---------------------------
(***************************************************************************)
(* Proofs about the clipboards of two peers for every set of contents and  *)
(* chunks and every limit, whatever the systems make of what is written:   *)
(* no transfer is an echo of what a system returned as it was written,     *)
(* what counts as sent was finished by the other side, and a side that     *)
(* only receives shows what the other one sent.                            *)
(***************************************************************************)
EXTENDS Clipboard, FiniteSetTheorems, SequenceTheorems, TLAPS

-----------------------------------------------------------------------------
(* The two sides.                                                          *)

\* Each side is the peer of the other, and there is no third.
LEMMA Peers ==
  ASSUME NEW e \in Side
  PROVE  /\ Peer(e) \in Side /\ Peer(e) # e /\ Peer(Peer(e)) = e
         /\ Side = {e, Peer(e)}
<1>1. PICK a \in Side, b \in Side : a # b /\ Side = {a, b}
  BY ClipboardAssumption
<1>2. \A f \in Side : Peer(f) \in Side /\ Peer(f) # f
  BY <1>1 DEF Peer
<1>3. QED
  BY <1>1, <1>2

\* The bounds are numbers.
LEMMA Bounds ==
  /\ MaxInbound \in Nat \ {0} /\ MaxCompleted \in Nat \ {0} /\ None \notin Content
  /\ Chunk # {} /\ "rejected" \notin Chunk
  BY ClipboardAssumption

-----------------------------------------------------------------------------
(* remember_completed.                                                     *)

\* Objects of 1..n that are all different leave room for one more.
LEMMA RoomLeft ==
  ASSUME NEW n \in Nat, NEW s \in Seq(1..n), IsInjective(s), NEW o \in 1..n,
         ~Contains(s, o)
  PROVE  Len(s) < n
<1> DEFINE T == (1..n) \ {o}
<1>1. Len(s) \in Nat /\ DOMAIN s = 1..Len(s) /\ s \in [1..Len(s) -> 1..n]
  BY LenProperties
<1>2. \A i \in 1..Len(s) : s[i] \in T
  BY <1>1 DEF Contains
<1>3. s \in [1..Len(s) -> T]
  BY <1>1, <1>2
<1>4. s \in Injection(1..Len(s), T)
  BY <1>1, <1>3 DEF Injection, IsInjective
<1>5. IsFiniteSet(1..n) /\ Cardinality(1..n) = n
  BY FS_Interval
<1>6. IsFiniteSet(T) /\ Cardinality(T) = n - 1
  BY <1>5, FS_RemoveElement
<1> HIDE DEF T
<1>7. Cardinality(1..Len(s)) <= Cardinality(T)
  BY <1>4, <1>6, FS_Injection
<1>8. Cardinality(1..Len(s)) = Len(s)
  <2>1. \A k \in Nat : Cardinality(1..k) = IF 1 > k THEN 0 ELSE k - 1 + 1
    BY FS_Interval
  <2>2. \A k \in Nat : Cardinality(1..k) = k
    BY <2>1
  <2>3. QED
    BY <1>1, <2>2
<1>9. QED
  BY <1>1, <1>6, <1>7, <1>8

\* What is remembered is a list without repetitions within its limit, with the
\* new object in it; while there is room, nothing is forgotten.
LEMMA Remembering ==
  ASSUME NEW n \in Nat, NEW s \in Seq(1..n), IsInjective(s), Len(s) <= MaxCompleted,
         NEW o \in 1..n, ~Contains(s, o)
  PROVE  /\ Remember(s, o) \in Seq(1..n) /\ IsInjective(Remember(s, o))
         /\ Len(Remember(s, o)) <= MaxCompleted /\ Contains(Remember(s, o), o)
         /\ \A q : q # o /\ Contains(Remember(s, o), q) => Contains(s, q)
         /\ n <= MaxCompleted => \A q : Contains(s, q) => Contains(Remember(s, o), q)
<1> DEFINE t == Append(s, o)
<1>1. /\ Len(s) \in Nat /\ t \in Seq(1..n) /\ Len(t) = Len(s) + 1
      /\ \A i \in 1..Len(s) : t[i] = s[i]
      /\ t[Len(s) + 1] = o
  BY AppendProperties, LenProperties
<1>2. \A i, j \in 1..Len(t) : t[i] = t[j] => i = j
  <2>1. \A i \in 1..Len(t) : i \in 1..Len(s) \/ i = Len(s) + 1
    BY <1>1
  <2>2. \A i, j \in 1..Len(s) : s[i] = s[j] => i = j
    BY LenProperties DEF IsInjective
  <2>3. \A i \in 1..Len(s) : s[i] # o
    BY DEF Contains
  <2>4. QED
    BY <1>1, <2>1, <2>2, <2>3
<1>3. \A q : Contains(t, q) <=> q = o \/ Contains(s, q)
  <2>1. Len(s) + 1 \in 1..Len(t) /\ 1..Len(s) \subseteq 1..Len(t)
    BY <1>1
  <2>2. \A i \in 1..Len(t) : i \in 1..Len(s) \/ i = Len(s) + 1
    BY <1>1
  <2>3. QED
    BY <1>1, <2>1, <2>2 DEF Contains
<1> HIDE DEF t
<1>4. DOMAIN t = 1..Len(t)
  BY <1>1, LenProperties
<1>5. CASE Len(t) > MaxCompleted
  <2> DEFINE u == Tail(t)
  <2>1. Remember(s, o) = u
    BY <1>5 DEF Remember, t
  <2>2. t # <<>>
    BY <1>1
  <2>3. /\ u \in Seq(1..n) /\ Len(u) = Len(t) - 1 /\ \A i \in 1..Len(u) : u[i] = t[i + 1]
    BY <1>1, <2>2, HeadTailProperties
  <2> HIDE DEF u
  <2>4. DOMAIN u = 1..Len(u)
    BY <2>3, LenProperties
  <2>5. \A i \in 1..Len(u) : i \in Nat /\ i + 1 \in 1..Len(t)
    BY <1>1, <2>3
  <2>6. IsInjective(u)
    <3> SUFFICES ASSUME NEW i \in 1..Len(u), NEW j \in 1..Len(u), u[i] = u[j] PROVE i = j
      BY <2>4 DEF IsInjective
    <3>1. t[i + 1] = t[j + 1]
      BY <2>3
    <3>2. i + 1 = j + 1
      BY <1>2, <2>5, <3>1
    <3>3. QED
      BY <2>5, <3>2
  <2>7. Len(u) <= MaxCompleted /\ Len(u) \in 1..Len(u) /\ u[Len(u)] = o
    BY <1>1, <1>5, <2>3, Bounds
  <2>8. \A q : Contains(u, q) => Contains(t, q)
    BY <2>3, <2>5 DEF Contains
  <2>9. ~(n <= MaxCompleted)
    <3>1. Len(s) < n
      BY RoomLeft
    <3>2. QED
      BY <1>1, <1>5, <3>1, Bounds
  <2>10. Contains(u, o)
    BY <2>7 DEF Contains
  <2>11. QED
    BY <1>3, <2>1, <2>3, <2>6, <2>7, <2>8, <2>9, <2>10
<1>6. CASE ~(Len(t) > MaxCompleted)
  <2>1. Remember(s, o) = t
    BY <1>6 DEF Remember, t
  <2>2. IsInjective(t)
    BY <1>2, <1>4 DEF IsInjective
  <2>3. Len(t) <= MaxCompleted
    BY <1>1, <1>6, Bounds
  <2>4. QED
    BY <1>1, <1>3, <2>1, <2>2, <2>3
<1>7. QED
  BY <1>5, <1>6

-----------------------------------------------------------------------------
(* Types and limits.                                                       *)

\* An endpoint at its start.
LEMMA FreshOK ==
  ASSUME NEW n \in Nat
  PROVE  EndpointOK(Fresh, n)
<1>1. Fresh \in Endpoints(n)
  BY EmptySeq DEF Fresh, Endpoints
<1>2. Len(<<>>) = 0 /\ IsInjective(<<>>)
  BY EmptySeq DEF IsInjective
<1>3. IsFiniteSet({}) /\ Cardinality({}) = 0
  BY FS_EmptySet
<1>4. QED
  BY <1>1, <1>2, <1>3, Bounds DEF EndpointOK, Fresh

\* The fields of an endpoint.
LEMMA EndpointFields ==
  ASSUME NEW n \in Nat, NEW s, EndpointOK(s, n)
  PROVE  /\ s \in Endpoints(n)
         /\ s.sent \in Content \cup {None} /\ s.applied \in Content \cup {None}
         /\ s.completed \in Seq(1..n) /\ IsInjective(s.completed)
         /\ Len(s.completed) <= MaxCompleted
         /\ \A i \in s.inbound : i.o \in 1..n /\ i.got \subseteq Chunk
                                 /\ i.got # {} /\ i.got # Chunk
         /\ \A i, j \in s.inbound : i.o = j.o => i = j
         /\ IsFiniteSet(s.inbound) /\ Cardinality(s.inbound) <= MaxInbound
  BY DEF EndpointOK, Endpoints

\* A new object of the peer.
LEMMA EndpointGrows ==
  ASSUME NEW n \in Nat, NEW s, EndpointOK(s, n)
  PROVE  EndpointOK(s, n + 1)
<1>1. 1..n \subseteq 1..(n + 1)
  OBVIOUS
<1>2. Seq(1..n) \subseteq Seq(1..(n + 1))
  BY <1>1, SeqMonotonic
<1>3. s \in Endpoints(n + 1)
  BY <1>1, <1>2 DEF EndpointOK, Endpoints
<1>4. QED
  BY <1>3 DEF EndpointOK

\* last_sent changes.
LEMMA EndpointSent ==
  ASSUME NEW n \in Nat, NEW s, EndpointOK(s, n), NEW c \in Content \cup {None}
  PROVE  /\ EndpointOK([s EXCEPT !.sent = c], n)
         /\ [s EXCEPT !.sent = c].sent = c /\ [s EXCEPT !.sent = c].applied = s.applied
         /\ [s EXCEPT !.sent = c].inbound = s.inbound
         /\ [s EXCEPT !.sent = c].completed = s.completed
<1> DEFINE a == [s EXCEPT !.sent = c]
<1>1. s \in Endpoints(n)
  BY DEF EndpointOK
<1>2. /\ a \in Endpoints(n) /\ a.sent = c /\ a.applied = s.applied
      /\ a.inbound = s.inbound /\ a.completed = s.completed
  BY <1>1 DEF Endpoints
<1>3. [s EXCEPT !.sent = c] = a
  OBVIOUS
<1> HIDE DEF a
<1>4. EndpointOK(a, n)
  BY <1>2 DEF EndpointOK
<1>5. QED
  BY <1>2, <1>3, <1>4

\* last_applied changes.
LEMMA EndpointApplied ==
  ASSUME NEW n \in Nat, NEW s, EndpointOK(s, n), NEW c \in Content \cup {None}
  PROVE  /\ EndpointOK(Applied(s, c), n)
         /\ Applied(s, c).applied = c /\ Applied(s, c).sent = s.sent
         /\ Applied(s, c).inbound = s.inbound /\ Applied(s, c).completed = s.completed
<1> DEFINE a == [s EXCEPT !.applied = c]
<1>1. s \in Endpoints(n)
  BY DEF EndpointOK
<1>2. /\ a \in Endpoints(n) /\ a.applied = c /\ a.sent = s.sent
      /\ a.inbound = s.inbound /\ a.completed = s.completed
  BY <1>1 DEF Endpoints
<1>3. Applied(s, c) = a
  BY DEF Applied
<1> HIDE DEF a
<1>4. EndpointOK(a, n)
  BY <1>2 DEF EndpointOK
<1>5. QED
  BY <1>2, <1>3, <1>4

\* The inbound table changes.
LEMMA EndpointInbound ==
  ASSUME NEW n \in Nat, NEW s, EndpointOK(s, n),
         NEW in \in SUBSET [o : 1..n, got : (SUBSET Chunk) \ {{}, Chunk}],
         \A i, j \in in : i.o = j.o => i = j,
         IsFiniteSet(in), Cardinality(in) <= MaxInbound
  PROVE  /\ EndpointOK([s EXCEPT !.inbound = in], n)
         /\ [s EXCEPT !.inbound = in].inbound = in
         /\ [s EXCEPT !.inbound = in].sent = s.sent
         /\ [s EXCEPT !.inbound = in].applied = s.applied
         /\ [s EXCEPT !.inbound = in].completed = s.completed
<1> DEFINE a == [s EXCEPT !.inbound = in]
<1>1. s \in Endpoints(n)
  BY DEF EndpointOK
<1>2. /\ a \in Endpoints(n) /\ a.sent = s.sent /\ a.applied = s.applied
      /\ a.inbound = in /\ a.completed = s.completed
  BY <1>1 DEF Endpoints
<1> HIDE DEF a
<1>3. EndpointOK(a, n)
  BY <1>2 DEF EndpointOK
<1>4. QED
  BY <1>2, <1>3 DEF a

\* The state of the two sides, as the types give it.
LEMMA Typed ==
  ASSUME ClipboardTypeOK, NEW e \in Side
  PROVE  /\ Object(e) \in Nat /\ objs[e] \in Seq(Content)
         /\ \A o \in 1..Object(e) : objs[e][o] \in Content
         /\ clip[e] \in Clips /\ clip[e].c \in Content \cup {None}
         /\ out[e] \in Tasks /\ out[e].pending \subseteq Chunk
         /\ out[e].st \in {"idle", "sending", "failed", "off"}
         /\ acks[e] \subseteq Chunk \cup {"rejected"}
         /\ EndpointOK(end[e], Object(Peer(e))) /\ Object(Peer(e)) \in Nat
         /\ hist \in Hists
<1>1. Peer(e) \in Side
  BY Peers
<1>2. objs[e] \in Seq(Content) /\ objs[Peer(e)] \in Seq(Content)
  BY <1>1 DEF ClipboardTypeOK
<1>3. Object(e) \in Nat /\ Object(Peer(e)) \in Nat
  BY <1>2, LenProperties DEF Object
<1>4. \A o \in 1..Object(e) : objs[e][o] \in Content
  BY <1>2, ElementOfSeq DEF Object
<1>5. QED
  BY <1>2, <1>3, <1>4 DEF ClipboardTypeOK, Clips, Tasks

\* The table without one object.
LEMMA WithoutOK ==
  ASSUME ClipboardTypeOK, NEW e \in Side, NEW o
  PROVE  /\ Without(e, o) \in SUBSET [o : 1..Object(Peer(e)),
                                      got : (SUBSET Chunk) \ {{}, Chunk}]
         /\ \A i, j \in Without(e, o) : i.o = j.o => i = j
         /\ IsFiniteSet(Without(e, o)) /\ Cardinality(Without(e, o)) \in Nat
         /\ Cardinality(Without(e, o)) <= MaxInbound
         /\ ~Full(e, o) => Cardinality(Without(e, o)) < MaxInbound
<1>1. EndpointOK(end[e], Object(Peer(e)))
  BY Typed
<1>2. /\ IsFiniteSet(end[e].inbound) /\ Cardinality(end[e].inbound) <= MaxInbound
      /\ end[e].inbound \in SUBSET [o : 1..Object(Peer(e)),
                                    got : (SUBSET Chunk) \ {{}, Chunk}]
      /\ \A i, j \in end[e].inbound : i.o = j.o => i = j
  BY <1>1 DEF EndpointOK, Endpoints
<1>3. Without(e, o) \in SUBSET end[e].inbound
  BY DEF Without
<1>4. /\ IsFiniteSet(Without(e, o))
      /\ Cardinality(Without(e, o)) <= Cardinality(end[e].inbound)
      /\ Cardinality(end[e].inbound) = Cardinality(Without(e, o))
           => end[e].inbound = Without(e, o)
  BY <1>2, <1>3, FS_Subset
<1>5. Cardinality(Without(e, o)) \in Nat /\ Cardinality(end[e].inbound) \in Nat
  BY <1>2, <1>4, FS_CardinalityType
<1>6. Known(e, o) => end[e].inbound # Without(e, o)
  BY DEF Known, Without
<1>7. ~Full(e, o) => Cardinality(Without(e, o)) < MaxInbound
  <2>1. ASSUME Known(e, o) PROVE Cardinality(Without(e, o)) < MaxInbound
    BY <1>2, <1>4, <1>5, <1>6, <2>1, Bounds
  <2>2. ASSUME ~(Cardinality(end[e].inbound) >= MaxInbound)
        PROVE Cardinality(Without(e, o)) < MaxInbound
    BY <1>4, <1>5, <2>2, Bounds
  <2>3. QED
    BY <2>1, <2>2 DEF Full
<1>8. Cardinality(Without(e, o)) <= MaxInbound
  BY <1>2, <1>4, <1>5, Bounds
<1>9. QED
  BY <1>2, <1>3, <1>4, <1>5, <1>7, <1>8

\* What a receiver has of an object is never all of it.
LEMMA GotPart ==
  ASSUME ClipboardTypeOK, NEW e \in Side, NEW o
  PROVE  /\ Got(e, o) \subseteq Chunk /\ Got(e, o) # Chunk
         /\ Got(e, o) # {} => Known(e, o)
<1>1. EndpointOK(end[e], Object(Peer(e))) /\ Object(Peer(e)) \in Nat
  BY Typed
<1>2. /\ \A i \in end[e].inbound : i.got \subseteq Chunk /\ i.got # Chunk
      /\ \A i, j \in end[e].inbound : i.o = j.o => i = j
  BY <1>1, EndpointFields
<1>3. CASE Known(e, o)
  <2>1. PICK i \in end[e].inbound : i.o = o
    BY <1>3 DEF Known
  <2>2. {j \in end[e].inbound : j.o = o} = {i}
    BY <1>2, <2>1
  <2>3. Got(e, o) = i.got
    BY <2>2 DEF Got
  <2>4. QED
    BY <1>2, <1>3, <2>1, <2>3
<1>4. CASE ~Known(e, o)
  <2>1. Got(e, o) = {}
    BY <1>4 DEF Known, Got
  <2>2. QED
    BY <2>1, Bounds
<1>5. QED
  BY <1>3, <1>4

-----------------------------------------------------------------------------
(* The steps. An action at one side changes what its peer's window stands   *)
(* for as well.                                                             *)

\* What transfers may be owed to is a number.
LEMMA PaidTyped ==
  ASSUME hist \in Hists, NEW e \in Side
  PROVE  Paid(e) \in Nat /\ hist.copies \in Nat /\ hist.failed \in Nat
         /\ hist.altered[e] \in Nat /\ hist.altered[Peer(e)] \in Nat
<1>1. Peer(e) \in Side BY Peers
<1>2. /\ hist.copies \in Nat /\ hist.failed \in Nat
      /\ hist.altered[e] \in Nat /\ hist.altered[Peer(e)] \in Nat
  BY <1>1 DEF Hists
<1> QED BY <1>2 DEF Paid

\* Adding up what the two sides owe, in either order.
LEMMA DebtsAdd ==
  ASSUME ClipboardTypeOK', NEW e \in Side,
         (Object(e) + Object(Peer(e)) + Debt(e) + Debt(Peer(e))
            <= Paid(e))'
  PROVE  DebtsPaid'
<1>1. Peer(e) \in Side /\ Peer(Peer(e)) = e /\ Side = {e, Peer(e)}
  BY Peers
<1>2. Len(objs'[e]) \in Nat /\ Len(objs'[Peer(e)]) \in Nat
  BY <1>1, LenProperties DEF ClipboardTypeOK
<1>3. \A g \in Side : Debt(g)' \in {0, 1}
  BY DEF Debt
<1>4. Peer(e)' = Peer(e) /\ Peer(Peer(e))' = e
  BY <1>1 DEF Peer
<1> SUFFICES ASSUME NEW g \in Side
             PROVE  (Object(g) + Object(Peer(g)) + Debt(g) + Debt(Peer(g))
                       <= Paid(g))'
  BY DEF DebtsPaid
<1>5. CASE g = e
  BY <1>5
<1>6. CASE g = Peer(e)
  <2>1. Object(g)' = Object(Peer(e))' /\ Object(Peer(g))' = Object(e)'
        /\ Debt(g)' = Debt(Peer(e))' /\ Debt(Peer(g))' = Debt(e)'
    BY <1>1, <1>6
  <2>0. Paid(g)' = Paid(e)'
    <3>1. hist' \in Hists BY DEF ClipboardTypeOK
    <3>2. /\ hist'.copies \in Nat /\ hist'.failed \in Nat
          /\ hist'.altered[e] \in Nat /\ hist'.altered[Peer(e)] \in Nat
      BY <1>1, <3>1 DEF Hists
    <3> QED BY <1>1, <1>6, <3>2 DEF Paid
  <2>2. Object(e)' \in Nat /\ Object(Peer(e))' \in Nat
    BY <1>2 DEF Object
  <2>3. Debt(e)' \in {0, 1} /\ Debt(Peer(e))' \in {0, 1}
    BY <1>1, <1>3
  <2> QED
    BY <2>0, <2>1, <2>2, <2>3
<1>7. QED
  BY <1>1, <1>5, <1>6

\* The system has not returned what this side wrote.
AlteredAt(r) == hist'.altered = [hist.altered EXCEPT ![r] = @ + 1]
\* A chunk of object o reaches its receiver r, which answers a. It may have lost
\* what it had of the object only if a write failed, it forgets no finished
\* object while it remembers all of them, and what it shows afterwards is what
\* it showed before or the object, unless the write was altered.
LEMMA ReceiverStep ==
  ASSUME ClipboardInv, NEW r \in Side, NEW o \in 1..Object(Peer(r)), Running(r),
         NEW a \in Chunk \cup {"rejected"}, Answer(r, o, a), UNCHANGED <<out, objs>>,
         DOMAIN end' = Side, end'[Peer(r)] = end[Peer(r)],
         EndpointOK(end'[r], Object(Peer(r))), end'[r].sent = end[r].sent,
         clip' \in [Side -> Clips], clip'[Peer(r)] = clip[Peer(r)],
         hist' \in Hists, hist'.copies = hist.copies, hist'.copied = hist.copied,
         hist'.failed = hist.failed, hist.lost \subseteq hist'.lost,
         hist'.altered = hist.altered \/ AlteredAt(r),
         \/ end'[r].applied = end[r].applied /\ clip'[r].c = clip[r].c
         \/ /\ ~Completed(r, o) /\ end'[r].applied = objs[Peer(r)][o]
            /\ clip'[r].c = objs[Peer(r)][o]
         \/ AlteredAt(r),
         \A q : q # o => Got(r, q)' = Got(r, q) /\ (Completed(r, q)' => Completed(r, q)),
         Remembered(Peer(r)) => \A q : Completed(r, q) => Completed(r, q)',
         r \notin hist'.lost =>
           \/ Completed(r, o)'
           \/ Got(r, o) \subseteq Got(r, o)' /\ a \in Got(r, o)' \cup {"rejected"},
         Completed(r, o)' => \/ Completed(r, o) \/ Echo(r, objs[Peer(r)][o])
                             \/ clip'[r].c = objs[Peer(r)][o]
                             \/ AlteredAt(r)
  PROVE  ClipboardInv'
<1> DEFINE e == Peer(r)
<1>0. PICK O : O = Object(e)
  OBVIOUS
<1>1. e \in Side /\ e # r /\ Peer(e) = r /\ Side = {e, r}
  BY Peers
<1>2. ClipboardTypeOK /\ DebtsPaid /\ \A g \in Side : WindowTrue(g) /\ OneWay(g)
  BY DEF ClipboardInv
<1>3. /\ O \in Nat /\ Object(e) = O /\ Object(e)' = O
      /\ Object(r) \in Nat /\ Object(r)' = Object(r) /\ o \in 1..O
      /\ objs[e][o] \in Content /\ objs[e][o] # None
      /\ acks[e] \subseteq Chunk \cup {"rejected"}
  BY <1>0, <1>1, <1>2, Typed, Bounds DEF Object
<1>4. /\ acks'[r] = acks[r] /\ acks' \in [Side -> SUBSET (Chunk \cup {"rejected"})]
      /\ \/ acks'[e] = acks[e]
         \/ o = O /\ Sending(e) /\ acks'[e] = acks[e] \cup {a}
  <2>1. acks \in [Side -> SUBSET (Chunk \cup {"rejected"})]
    BY <1>2 DEF ClipboardTypeOK
  <2>2. \/ acks' = acks
        \/ o = O /\ Sending(e) /\ acks' = [acks EXCEPT ![e] = acks[e] \cup {a}]
    BY <1>0 DEF Answer
  <2>3. QED
    BY <1>1, <2>1, <2>2
<1>5. ClipboardTypeOK'
  <2>1. \A g \in Side : EndpointOK(end'[g], Object(Peer(g))')
    <3>1. EndpointOK(end[e], Object(r))
      BY <1>1, <1>2, Typed
    <3>2. QED
      BY <1>1, <1>3, <3>1
  <2>2. QED
    BY <1>2, <1>4, <2>1 DEF ClipboardTypeOK, Object
<1>a. /\ hist \in Hists /\ hist'.altered[e] = hist.altered[e] /\ hist.altered[r] \in Nat
      /\ \/ hist'.altered[r] = hist.altered[r] /\ ~AlteredAt(r)
         \/ hist'.altered[r] = hist.altered[r] + 1
  <2>1. hist \in Hists /\ hist.altered \in [Side -> Nat]
    BY <1>2 DEF ClipboardTypeOK, Hists
  <2> QED BY <1>1, <2>1 DEF AlteredAt
<1>6. DebtsPaid'
  <2>1. Owes(e)' => Owes(e)
    BY DEF Owes, Running, Echo
  <2>2. /\ Debt(e) \in {0, 1} /\ Debt(r) \in {0, 1} /\ Debt(e)' \in {0, 1}
        /\ Debt(r)' \in {0, 1} /\ Debt(e)' <= Debt(e)
    BY <2>1 DEF Debt
  <2>3. O + Object(r) + Debt(e) + Debt(r) <= Paid(e) /\ Paid(e) \in Nat
    BY <1>0, <1>1, <1>2, <1>a, PaidTyped DEF DebtsPaid
  <2>4. O + Object(r) + Debt(e)' + Debt(r)' <= Paid(e)'
    <3>1. CASE hist'.altered[r] = hist.altered[r] + 1
      <4>1. Paid(e)' = Paid(e) + 1
        BY <1>1, <1>a, <3>1, PaidTyped DEF Paid
      <4> QED BY <1>3, <2>2, <2>3, <4>1
    <3>2. CASE hist'.altered[r] = hist.altered[r] /\ ~AlteredAt(r)
      <4>1. Owes(r)' => Owes(r)
        BY <3>2 DEF Owes, Running, Echo
      <4>2. Debt(r)' <= Debt(r) /\ Paid(e)' = Paid(e)
        BY <1>1, <1>a, <3>2, <4>1 DEF Debt, Paid
      <4> QED BY <1>3, <2>2, <2>3, <4>2
    <3> QED BY <1>a, <3>1, <3>2
  <2>5. QED
    BY <1>1, <1>3, <1>5, <2>4, DebtsAdd
<1>7. WindowTrue(e)'
  <2>1. WindowTrue(e)
    BY <1>1, <1>2
  <2>2. ~Sending(e)' => acks'[e] = {}
    BY <1>4, <2>1 DEF WindowTrue, Sending
  <2>3. /\ Running(e)' /\ end'[e].sent # None => O # 0 /\ end'[e].sent = objs'[e][O]
        /\ Sending(e)' => end'[e].sent # None
    BY <1>3, <2>1 DEF WindowTrue, Sending, Running
  <2>4. ASSUME r \notin hist'.lost, Remembered(e)
        PROVE  /\ Sending(e) => Completed(r, O)' \/ Answered(e)' \subseteq Got(r, O)'
               /\ out[e].st = "idle" /\ end[e].sent # None => Completed(r, O)'
    <3>1. r \notin hist.lost
      BY <2>4
    <3>2. /\ Sending(e) => Completed(r, O) \/ Answered(e) \subseteq Got(r, O)
          /\ out[e].st = "idle" /\ end[e].sent # None => Completed(r, O)
      BY <1>1, <1>3, <2>1, <2>4, <3>1 DEF WindowTrue
    <3>3. Completed(r, O) => Completed(r, O)'
      BY <2>4
    <3>4. \/ Answered(e)' = Answered(e)
          \/ o = O /\ Answered(e)' \subseteq Answered(e) \cup ({a} \cap Chunk)
      BY <1>4 DEF Answered
    <3>5. CASE o = O
      BY <2>4, <3>2, <3>3, <3>4, <3>5, Bounds
    <3>6. CASE o # O
      <4>1. Got(r, O)' = Got(r, O)
        BY <3>6
      <4>2. QED
        BY <3>2, <3>3, <3>4, <3>6, <4>1
    <3>7. QED
      BY <3>5, <3>6
  <2>5. /\ Remembered(e)' = Remembered(e) /\ Sending(e)' = Sending(e)
        /\ Completed(r, Object(e))' = Completed(r, O)'
        /\ Got(r, Object(e))' = Got(r, O)'
    BY <1>3 DEF Remembered, Sending, Completed, Got
  <2>6. QED
    BY <1>1, <1>3, <2>2, <2>3, <2>4, <2>5 DEF WindowTrue
<1>8. WindowTrue(r)'
  <2>1. WindowTrue(r)
    BY <1>2
  <2>2. /\ Sending(r)' = Sending(r) /\ Running(r)' = Running(r) /\ Running(e)' = Running(e)
        /\ Remembered(r)' = Remembered(r) /\ Answered(r)' = Answered(r)
        /\ Completed(e, Object(r))' = Completed(e, Object(r))
        /\ Got(e, Object(r))' = Got(e, Object(r))
    BY <1>3, <1>4 DEF Sending, Running, Remembered, Answered, Completed, Got
  <2>3. e \notin hist'.lost => e \notin hist.lost
    OBVIOUS
  <2>4. QED
    BY <1>3, <1>4, <2>1, <2>2, <2>3 DEF WindowTrue
<1>9. OneWay(e)'
  <2> SUFFICES ASSUME Passive(r)' PROVE
        /\ Silent(r)'
        /\ r \notin hist'.lost /\ hist.failed = 0 /\ Remembered(e) =>
             /\ out[e].st # "failed"
             /\ \A q \in 1..O :
                  Completed(r, q)' \/ (q = O /\ out[e].st \in {"sending", "off"})
             /\ O # 0 /\ Completed(r, O)' => clip'[r].c = objs[e][O]
             /\ O # 0 /\ out[e].st = "idle" => clip'[r].c = objs[e][O]
    <3>1. Remembered(e)' = Remembered(e) /\ Running(r)'
          /\ Completed(r, Object(e))' = Completed(r, O)'
      BY <1>3 DEF Remembered, Running, Completed
    <3>2. QED
      BY <1>1, <1>3, <3>1 DEF OneWay
  <2>0. Passive(r) /\ r \notin hist.copied /\ ~AlteredAt(r)
    BY <1>a DEF Passive
  <2>1. /\ Silent(r)
        /\ r \notin hist.lost /\ hist.failed = 0 /\ Remembered(e) =>
             /\ out[e].st # "failed"
             /\ \A q \in 1..O :
                  Completed(r, q) \/ (q = O /\ out[e].st \in {"sending", "off"})
             /\ O # 0 /\ Completed(r, O) => clip[r].c = objs[e][O]
             /\ O # 0 /\ out[e].st = "idle" => clip[r].c = objs[e][O]
    BY <1>1, <1>2, <1>3, <2>0 DEF OneWay
  <2>2. end[r].applied = clip[r].c /\ end[r].sent = None
    BY <2>1 DEF Silent
  <2>3. Silent(r)'
    BY <1>1, <2>0, <2>1 DEF Silent, Running
  <2>4. ASSUME r \notin hist'.lost, hist.failed = 0, Remembered(e)
        PROVE  /\ out[e].st # "failed"
               /\ \A q \in 1..O :
                    Completed(r, q)' \/ (q = O /\ out[e].st \in {"sending", "off"})
               /\ O # 0 /\ Completed(r, O)' => clip'[r].c = objs[e][O]
               /\ O # 0 /\ out[e].st = "idle" => clip'[r].c = objs[e][O]
    <3>1. r \notin hist.lost
      BY <2>4
    <3>2. /\ out[e].st # "failed"
          /\ \A q \in 1..O :
               Completed(r, q) \/ (q = O /\ out[e].st \in {"sending", "off"})
          /\ O # 0 /\ Completed(r, O) => clip[r].c = objs[e][O]
          /\ O # 0 /\ out[e].st = "idle" => clip[r].c = objs[e][O]
      BY <2>1, <2>4, <3>1
    <3>3. \A q : Completed(r, q) => Completed(r, q)'
      BY <2>4
    <3>4. Completed(r, o) => clip'[r].c = clip[r].c
      BY <2>0
    <3>5. Completed(r, o) \/ (o = O /\ out[e].st # "idle")
      BY <1>3, <3>2
    <3>6. ASSUME Completed(r, O)' PROVE clip'[r].c = objs[e][O]
      <4>1. CASE Completed(r, O)
        BY <3>2, <3>4, <3>5, <4>1, <1>3
      <4>2. CASE ~Completed(r, O)
        <5>1. o = O
          BY <3>6, <4>2
        <5>2. Echo(r, objs[e][o]) \/ clip'[r].c = objs[e][o]
          BY <2>0, <3>6, <4>2, <5>1
        <5>3. Echo(r, objs[e][o]) => clip[r].c = objs[e][o]
          BY <1>3, <2>2 DEF Echo
        <5>4. QED
          BY <2>0, <5>1, <5>2, <5>3
      <4>3. QED
        BY <4>1, <4>2
    <3>7. out[e].st = "idle" /\ O # 0 => clip'[r].c = objs[e][O]
      BY <3>2, <3>4, <3>5
    <3>8. QED
      BY <3>2, <3>3, <3>6, <3>7
  <2>5. QED
    BY <2>3, <2>4
<1>10. OneWay(r)'
  <2>1. ~Passive(e)
    <3>1. Silent(e) => Object(e) = 0
      BY EmptySeq DEF Silent, Object
    <3>2. QED
      BY <1>1, <1>2, <1>3, <3>1 DEF OneWay
  <2>2. ~Passive(e)'
    BY <1>a, <2>1 DEF Passive
  <2>3. QED
    BY <2>2 DEF OneWay
<1>11. QED
  BY <1>1, <1>5, <1>6, <1>7, <1>8, <1>9, <1>10 DEF ClipboardInv

\* What a receiver has of the other objects when one leaves its inbound table.
LEMMA GotLess ==
  ASSUME NEW r, NEW o, end'[r].inbound = Without(r, o), NEW q, q # o
  PROVE  Got(r, q)' = Got(r, q)
<1>1. {j \in end'[r].inbound : j.o = q} = {j \in end[r].inbound : j.o = q}
  BY DEF Without
<1>2. QED
  BY <1>1 DEF Got

\* What it has of each object when one is entered anew.
Entered(r, o, got) == end'[r].inbound = Without(r, o) \cup {[o |-> o, got |-> got]}
LEMMA GotMore ==
  ASSUME NEW r, NEW o, NEW got, Entered(r, o, got)
  PROVE  /\ Got(r, o)' = got
         /\ \A q : q # o => Got(r, q)' = Got(r, q)
<1> DEFINE new == [o |-> o, got |-> got]
<1> USE DEF Entered
<1>1. new.o = o /\ new.got = got
  OBVIOUS
<1>2. ASSUME NEW q, q # o
      PROVE  Got(r, q)' = Got(r, q)
  <2>1. {j \in end'[r].inbound : j.o = q} = {j \in end[r].inbound : j.o = q}
    BY <1>1, <1>2 DEF Without
  <2>2. QED
    BY <2>1 DEF Got
<1>3. Got(r, o)' = got
  <2>1. {j \in end'[r].inbound : j.o = o} = {new}
    BY <1>1 DEF Without
  <2>2. {i.got : i \in {new}} = {got}
    OBVIOUS
  <2>3. Got(r, o)' = UNION {i.got : i \in {j \in end'[r].inbound : j.o = o}}
    BY DEF Got
  <2>4. QED
    BY <2>1, <2>2, <2>3
<1>4. QED
  BY <1>2, <1>3

\* An object is finished: it leaves the table and is remembered.
LEMMA FinishedOK ==
  ASSUME ClipboardTypeOK, NEW r \in Side, NEW o \in 1..Object(Peer(r)),
         ~Completed(r, o), NEW s, EndpointOK(s, Object(Peer(r))),
         s.completed = end[r].completed
  PROVE  LET t == Finished(s, r, o) IN
         /\ EndpointOK(t, Object(Peer(r)))
         /\ t.sent = s.sent /\ t.applied = s.applied /\ t.inbound = Without(r, o)
         /\ Contains(t.completed, o)
         /\ \A q : q # o /\ Contains(t.completed, q) => Completed(r, q)
         /\ Remembered(Peer(r)) => \A q : Completed(r, q) => Contains(t.completed, q)
<1> DEFINE n == Object(Peer(r))
           c == Remember(s.completed, o)
           t == [s EXCEPT !.inbound = Without(r, o), !.completed = c]
<1>1. n \in Nat /\ s \in Endpoints(n)
  BY Typed DEF EndpointOK
<1>2. /\ s.completed \in Seq(1..n) /\ IsInjective(s.completed)
      /\ Len(s.completed) <= MaxCompleted /\ ~Contains(s.completed, o)
  BY <1>1, EndpointFields DEF Completed
<1>3. /\ c \in Seq(1..n) /\ IsInjective(c) /\ Len(c) <= MaxCompleted /\ Contains(c, o)
      /\ \A q : q # o /\ Contains(c, q) => Contains(s.completed, q)
      /\ n <= MaxCompleted => \A q : Contains(s.completed, q) => Contains(c, q)
  BY <1>1, <1>2, Remembering
<1> HIDE DEF c
<1>4. /\ Without(r, o) \in SUBSET [o : 1..n, got : (SUBSET Chunk) \ {{}, Chunk}]
      /\ \A i, j \in Without(r, o) : i.o = j.o => i = j
      /\ IsFiniteSet(Without(r, o)) /\ Cardinality(Without(r, o)) <= MaxInbound
  BY WithoutOK
<1>5. /\ t \in Endpoints(n) /\ t.sent = s.sent /\ t.applied = s.applied
      /\ t.inbound = Without(r, o) /\ t.completed = c
  BY <1>1, <1>3, <1>4 DEF Endpoints
<1>6. Finished(s, r, o) = t
  BY DEF Finished, c
<1> HIDE DEF t
<1>7. EndpointOK(t, n)
  BY <1>3, <1>4, <1>5 DEF EndpointOK
<1>8. QED
  BY <1>3, <1>5, <1>6, <1>7 DEF Completed, Remembered

\* Every way in which a chunk is received.
LEMMA ReceiveStep ==
  ASSUME ClipboardInv, NEW r \in Side, ReceiveEnvelope(r)
  PROVE  ClipboardInv'
<1>1. PICK o \in 1..Object(Peer(r)), k \in Chunk :
        \/ ReceiveRepeated(r, o, k) \/ ReceiveRefused(r, o, k) \/ ReceivePart(r, o, k)
        \/ ReceiveEcho(r, o, k) \/ WriteClipboard(r, o, k) \/ WriteFails(r, o, k)
  BY DEF ReceiveEnvelope
<1> DEFINE e == Peer(r)
<1>2. ClipboardTypeOK /\ e \in Side /\ e # r
  BY Peers DEF ClipboardInv
<1>3. /\ EndpointOK(end[r], Object(e)) /\ Object(e) \in Nat /\ hist \in Hists
      /\ DOMAIN end = Side /\ clip \in [Side -> Clips] /\ objs[e][o] \in Content
  BY <1>2, Typed DEF ClipboardTypeOK
<1>4. k \in Chunk \cup {"rejected"} /\ "rejected" \in Chunk \cup {"rejected"}
  OBVIOUS
<1>5. CASE ReceiveRepeated(r, o, k) \/ ReceiveRefused(r, o, k)
  <2>1. /\ UNCHANGED <<clip, end, out, objs, hist>> /\ Running(r)
        /\ \/ Answer(r, o, k) /\ Completed(r, o)
           \/ Answer(r, o, "rejected") /\ ~Completed(r, o)
    BY <1>5 DEF ReceiveRepeated, ReceiveRefused
  <2>2. \A q : Got(r, q)' = Got(r, q) /\ Completed(r, q)' = Completed(r, q)
    BY <2>1 DEF Got, Completed
  <2>0. /\ end'[r] = end[r] /\ end'[e] = end[e] /\ DOMAIN end' = Side
        /\ clip' \in [Side -> Clips] /\ clip'[e] = clip[e] /\ clip'[r].c = clip[r].c
        /\ hist' \in Hists /\ hist'.copies = hist.copies /\ hist'.copied = hist.copied
        /\ hist'.failed = hist.failed /\ hist'.lost = hist.lost
        /\ hist'.altered = hist.altered /\ UNCHANGED <<out, objs>> /\ Running(r)
    BY <1>3, <2>1
  <2>3. CASE Answer(r, o, k) /\ Completed(r, o)
    BY <1>3, <1>4, <2>0, <2>2, <2>3, ReceiverStep
  <2>4. CASE Answer(r, o, "rejected") /\ ~Completed(r, o)
    BY <1>3, <1>4, <2>0, <2>2, <2>4, ReceiverStep
  <2>5. QED
    BY <2>1, <2>3, <2>4
<1>6. CASE ReceivePart(r, o, k)
  <2> DEFINE got == Got(r, o) \cup {k}
             new == [o |-> o, got |-> got]
             in  == Without(r, o) \cup {new}
  <2>1. /\ Running(r) /\ ~Completed(r, o) /\ ~Full(r, o) /\ got # Chunk
        /\ Answer(r, o, k) /\ UNCHANGED <<clip, out, objs, hist>>
        /\ end' = [end EXCEPT ![r].inbound = in]
    BY <1>6 DEF ReceivePart
  <2>2. got \in (SUBSET Chunk) \ {{}, Chunk}
    BY <1>2, <2>1, GotPart
  <2>3. /\ Without(r, o) \in SUBSET [o : 1..Object(e), got : (SUBSET Chunk) \ {{}, Chunk}]
        /\ \A i, j \in Without(r, o) : i.o = j.o => i = j
        /\ IsFiniteSet(Without(r, o)) /\ Cardinality(Without(r, o)) \in Nat
        /\ Cardinality(Without(r, o)) < MaxInbound
        /\ \A i \in Without(r, o) : i.o # o
    BY <1>2, <2>1, WithoutOK DEF Without
  <2> HIDE DEF got
  <2>4. in \in SUBSET [o : 1..Object(e), got : (SUBSET Chunk) \ {{}, Chunk}]
    BY <2>2, <2>3
  <2>5. \A i, j \in in : i.o = j.o => i = j
    BY <2>3
  <2>6. /\ IsFiniteSet(in)
        /\ Cardinality(in) = IF new \in Without(r, o) THEN Cardinality(Without(r, o))
                             ELSE Cardinality(Without(r, o)) + 1
    BY <2>3, FS_AddElement
  <2>7. Cardinality(in) <= MaxInbound
    BY <2>3, <2>6, Bounds
  <2> HIDE DEF in
  <2>8. end'[r] = [end[r] EXCEPT !.inbound = in] /\ DOMAIN end' = Side /\ end'[e] = end[e]
    BY <1>2, <1>3, <2>1
  <2>9. /\ EndpointOK(end'[r], Object(e)) /\ end'[r].inbound = in
        /\ end'[r].sent = end[r].sent /\ end'[r].applied = end[r].applied
        /\ end'[r].completed = end[r].completed
    <3> DEFINE s == [end[r] EXCEPT !.inbound = in]
    <3>1. /\ EndpointOK(s, Object(e)) /\ s.inbound = in /\ s.sent = end[r].sent
          /\ s.applied = end[r].applied /\ s.completed = end[r].completed
      BY <1>3, <2>4, <2>5, <2>6, <2>7, EndpointInbound
    <3>2. end'[r] = s
      BY <2>8
    <3> HIDE DEF s
    <3>3. QED
      BY <3>1, <3>2
  <2>10. /\ Got(r, o)' = got
         /\ \A q : q # o => Got(r, q)' = Got(r, q)
    <3>1. Entered(r, o, got)
      BY <2>9 DEF in, Entered
    <3>2. QED
      BY <3>1, GotMore
  <2>11. \A q : Completed(r, q)' = Completed(r, q)
    BY <2>9 DEF Completed
  <2>12. Got(r, o) \subseteq Got(r, o)' /\ k \in Got(r, o)'
    BY <2>10 DEF got
  <2>13. QED
    BY <1>2, <1>3, <1>4, <2>1, <2>8, <2>9, <2>10, <2>11, <2>12, ReceiverStep
<1>7. CASE ReceiveEcho(r, o, k)
  <2> DEFINE t == Finished(end[r], r, o)
  <2>1. /\ Running(r) /\ ~Completed(r, o) /\ Echo(r, objs[e][o])
        /\ end' = [end EXCEPT ![r] = t]
        /\ Answer(r, o, k) /\ UNCHANGED <<clip, out, objs, hist>>
    BY <1>7 DEF ReceiveEcho, Completes
  <2>2. end'[r] = t /\ DOMAIN end' = Side /\ end'[e] = end[e]
    BY <1>2, <1>3, <2>1
  <2>3. /\ EndpointOK(t, Object(e))
        /\ t.sent = end[r].sent /\ t.applied = end[r].applied /\ t.inbound = Without(r, o)
        /\ Contains(t.completed, o)
        /\ \A q : q # o /\ Contains(t.completed, q) => Completed(r, q)
        /\ Remembered(e) => \A q : Completed(r, q) => Contains(t.completed, q)
    BY <1>2, <1>3, <2>1, FinishedOK
  <2> HIDE DEF t
  <2>4. \A q : Completed(r, q)' = Contains(t.completed, q)
    BY <2>2 DEF Completed
  <2>5. \A q : q # o => Got(r, q)' = Got(r, q)
    BY <2>2, <2>3, GotLess
  <2>6. QED
    BY <1>2, <1>3, <1>4, <2>1, <2>2, <2>3, <2>4, <2>5, ReceiverStep
<1>8. CASE WriteClipboard(r, o, k)
  <2> DEFINE c == objs[e][o]
             t == Finished(Applied(end[r], c), r, o)
             d == Native[r][c]
  <2>1. /\ Running(r) /\ ~Completed(r, o)
        /\ clip' = [clip EXCEPT ![r] = [c |-> d, put |-> TRUE, new |-> FALSE]]
        /\ end' = [end EXCEPT ![r] = t]
        /\ hist' = [hist EXCEPT !.last[r] = c,
                                !.altered[r] = IF d = c THEN @ ELSE @ + 1]
        /\ Answer(r, o, k) /\ UNCHANGED <<out, objs>>
    BY <1>8 DEF WriteClipboard, Completes, Put
  <2>2. end'[r] = t /\ DOMAIN end' = Side /\ end'[e] = end[e]
    BY <1>2, <1>3, <2>1
  <2>3. /\ EndpointOK(Applied(end[r], c), Object(e)) /\ Applied(end[r], c).applied = c
        /\ Applied(end[r], c).sent = end[r].sent
        /\ Applied(end[r], c).completed = end[r].completed
    <3>1. c \in Content \cup {None}
      BY <1>3
    <3> HIDE DEF c
    <3>2. QED
      BY <1>3, <3>1, EndpointApplied
  <2>4. /\ EndpointOK(t, Object(e))
        /\ t.sent = end[r].sent /\ t.applied = c /\ t.inbound = Without(r, o)
        /\ Contains(t.completed, o)
        /\ \A q : q # o /\ Contains(t.completed, q) => Completed(r, q)
        /\ Remembered(e) => \A q : Completed(r, q) => Contains(t.completed, q)
    BY <1>2, <2>1, <2>3, FinishedOK
  <2> HIDE DEF t
  <2>5. \A q : Completed(r, q)' = Contains(t.completed, q)
    BY <2>2 DEF Completed
  <2>6. \A q : q # o => Got(r, q)' = Got(r, q)
    BY <2>2, <2>4, GotLess
  <2>7. clip' \in [Side -> Clips] /\ clip'[e] = clip[e] /\ clip'[r].c = d
    <3>1. d \in Content \cup {None}
      BY <1>3, ClipboardAssumption
    <3> HIDE DEF d
    <3> QED BY <1>2, <1>3, <2>1, <3>1 DEF Clips
  <2>8. /\ hist' \in Hists /\ hist'.copies = hist.copies /\ hist'.copied = hist.copied
        /\ hist'.failed = hist.failed /\ hist'.lost = hist.lost
        /\ IF d = c THEN hist'.altered = hist.altered ELSE AlteredAt(r)
    <3> HIDE DEF d, c
    <3>0. c \in Content BY <1>3 DEF c
    <3>1. hist.altered \in [Side -> Nat] /\ hist.last \in [Side -> Content \cup {None}]
      BY <1>3 DEF Hists
    <3>2. CASE d = c
      <4>1. hist' = [hist EXCEPT !.last = [hist.last EXCEPT ![r] = c],
                                 !.altered = hist.altered]
        BY <2>1, <3>1, <3>2
      <4> QED BY <1>3, <3>0, <3>1, <3>2, <4>1 DEF Hists
    <3>3. CASE d # c
      <4>0. PICK more : more = [hist.altered EXCEPT ![r] = @ + 1]
        OBVIOUS
      <4>1. hist' = [hist EXCEPT !.last = [hist.last EXCEPT ![r] = c], !.altered = more]
        BY <2>1, <3>1, <3>3, <4>0
      <4>2. more \in [Side -> Nat]
        BY <3>1, <4>0
      <4>3. /\ hist' \in Hists /\ hist'.copies = hist.copies /\ hist'.copied = hist.copied
            /\ hist'.failed = hist.failed /\ hist'.lost = hist.lost /\ hist'.altered = more
        BY <1>3, <3>0, <3>1, <4>1, <4>2 DEF Hists
      <4> QED BY <3>3, <4>0, <4>3 DEF AlteredAt
    <3> QED BY <3>2, <3>3
  <2> HIDE DEF d
  <2>9. QED
    BY <1>2, <1>3, <1>4, <2>1, <2>2, <2>4, <2>5, <2>6, <2>7, <2>8, ReceiverStep
<1>9. CASE WriteFails(r, o, k)
  <2>1. /\ Running(r) /\ ~Completed(r, o)
        /\ end' = [end EXCEPT ![r].inbound = Without(r, o)]
        /\ \/ UNCHANGED clip /\ hist' = [hist EXCEPT !.lost = @ \cup {r}]
           \/ /\ \E d \in Torn[r][objs[e][o]] : Put(r, d)
              /\ hist' = [hist EXCEPT !.lost = @ \cup {r}, !.altered[r] = @ + 1]
        /\ Answer(r, o, "rejected") /\ UNCHANGED <<out, objs>>
    BY <1>9 DEF WriteFails, Completes
  <2>2. /\ end'[r] = [end[r] EXCEPT !.inbound = Without(r, o)]
        /\ DOMAIN end' = Side /\ end'[e] = end[e]
    BY <1>2, <1>3, <2>1
  <2>3. /\ EndpointOK(end'[r], Object(e)) /\ end'[r].inbound = Without(r, o)
        /\ end'[r].sent = end[r].sent /\ end'[r].applied = end[r].applied
        /\ end'[r].completed = end[r].completed
    <3>1. /\ Without(r, o) \in SUBSET [o : 1..Object(e), got : (SUBSET Chunk) \ {{}, Chunk}]
          /\ \A i, j \in Without(r, o) : i.o = j.o => i = j
          /\ IsFiniteSet(Without(r, o)) /\ Cardinality(Without(r, o)) <= MaxInbound
      BY <1>2, WithoutOK
    <3>2. QED
      BY <1>3, <2>2, <3>1, EndpointInbound
  <2>4. \A q : q # o => Got(r, q)' = Got(r, q)
    BY <2>3, GotLess
  <2>5. \A q : Completed(r, q)' = Completed(r, q)
    BY <2>3 DEF Completed
  <2>6. /\ hist' \in Hists /\ hist'.copies = hist.copies /\ hist'.copied = hist.copied
        /\ hist'.failed = hist.failed /\ hist'.lost = hist.lost \cup {r}
        /\ clip' \in [Side -> Clips] /\ clip'[e] = clip[e]
        /\ \/ clip'[r].c = clip[r].c /\ hist'.altered = hist.altered
           \/ AlteredAt(r)
    <3>1. CASE UNCHANGED clip /\ hist' = [hist EXCEPT !.lost = @ \cup {r}]
      BY <1>3, <3>1 DEF Hists
    <3>2. ASSUME NEW d \in Torn[r][objs[e][o]], Put(r, d),
                 hist' = [hist EXCEPT !.lost = @ \cup {r}, !.altered[r] = @ + 1]
          PROVE  /\ hist' \in Hists /\ hist'.copies = hist.copies
                 /\ hist'.copied = hist.copied /\ hist'.failed = hist.failed
                 /\ hist'.lost = hist.lost \cup {r}
                 /\ clip' \in [Side -> Clips] /\ clip'[e] = clip[e]
                 /\ AlteredAt(r)
      <4>1. d \in Content \cup {None}
        BY <1>3, ClipboardAssumption
      <4>2. clip' \in [Side -> Clips] /\ clip'[e] = clip[e]
        BY <1>2, <1>3, <3>2, <4>1 DEF Put, Clips
      <4>3. hist.altered \in [Side -> Nat]
        BY <1>3 DEF Hists
      <4>0. PICK more : more = [hist.altered EXCEPT ![r] = @ + 1]
        OBVIOUS
      <4>4. hist' = [hist EXCEPT !.lost = hist.lost \cup {r}, !.altered = more]
        BY <3>2, <4>0
      <4>5. more \in [Side -> Nat]
        BY <4>0, <4>3
      <4>6. /\ hist' \in Hists /\ hist'.copies = hist.copies /\ hist'.copied = hist.copied
            /\ hist'.failed = hist.failed /\ hist'.lost = hist.lost \cup {r}
            /\ hist'.altered = more
        BY <1>3, <4>4, <4>5 DEF Hists
      <4> QED BY <4>0, <4>2, <4>6 DEF AlteredAt
    <3> QED BY <2>1, <3>1, <3>2
  <2>7. QED
    BY <1>2, <1>3, <1>4, <2>1, <2>2, <2>3, <2>4, <2>5, <2>6, ReceiverStep
<1>10. QED
  BY <1>1, <1>5, <1>6, <1>7, <1>8, <1>9

\* The user copies, or the poll finds nothing to send.
LEMMA CopyStep ==
  ASSUME ClipboardInv, NEW e \in Side,
         PollQuiet(e) \/ \E c \in Content : Copy(e, c)
  PROVE  ClipboardInv'
<1> DEFINE p == Peer(e)
<1>1. p \in Side /\ p # e /\ Peer(p) = e /\ Side = {e, p}
  BY Peers
<1>2. ClipboardTypeOK /\ DebtsPaid /\ \A g \in Side : WindowTrue(g) /\ OneWay(g)
  BY DEF ClipboardInv
<1>3. /\ clip \in [Side -> Clips] /\ hist \in Hists
      /\ Object(e) \in Nat /\ Object(p) \in Nat
  BY <1>1, <1>2, Typed DEF ClipboardTypeOK
<1>4. UNCHANGED <<end, out, objs, acks>>
  BY DEF PollQuiet, Copy
<1>5. /\ clip' \in [Side -> Clips] /\ clip'[p] = clip[p] /\ hist' \in Hists
      /\ hist'.lost = hist.lost /\ hist'.failed = hist.failed
      /\ hist'.altered = hist.altered
      /\ hist.copied \subseteq hist'.copied /\ (p \in hist'.copied => p \in hist.copied)
      /\ \/ clip'[e].c = clip[e].c /\ hist'.copies = hist.copies
         \/ hist'.copies = hist.copies + 1 /\ e \in hist'.copied
  <2>1. CASE PollQuiet(e)
    <3>1. clip' = [clip EXCEPT ![e].new = FALSE] /\ hist' = hist
      BY <2>1 DEF PollQuiet
    <3>2. QED
      BY <1>1, <1>3, <3>1 DEF Clips
  <2>2. ASSUME NEW c \in Content, Copy(e, c)
        PROVE  /\ clip' \in [Side -> Clips] /\ clip'[p] = clip[p] /\ hist' \in Hists
               /\ hist'.lost = hist.lost /\ hist'.failed = hist.failed
               /\ hist'.altered = hist.altered /\ hist.copied \subseteq hist'.copied
               /\ p \in hist'.copied => p \in hist.copied
               /\ hist'.copies = hist.copies + 1 /\ e \in hist'.copied
    <3>1. /\ clip' = [clip EXCEPT ![e] = [c |-> c, put |-> FALSE, new |-> TRUE]]
          /\ hist' = [hist EXCEPT !.copies = @ + 1, !.copied = @ \cup {e}]
      BY <2>2 DEF Copy
    <3>2. clip' \in [Side -> Clips] /\ clip'[p] = clip[p]
      BY <1>1, <1>3, <3>1 DEF Clips
    <3>3. hist.copies + 1 \in Nat /\ hist.copied \cup {e} \in SUBSET Side
      BY <1>3 DEF Hists
    <3>4. /\ hist' \in Hists /\ hist'.lost = hist.lost /\ hist'.failed = hist.failed
          /\ hist'.altered = hist.altered
          /\ hist'.copied = hist.copied \cup {e} /\ hist'.copies = hist.copies + 1
      BY <1>3, <3>1, <3>3 DEF Hists
    <3>5. QED
      BY <1>1, <3>2, <3>4
  <2>3. QED
    BY <2>1, <2>2
<1>6. ClipboardTypeOK'
  BY <1>2, <1>4, <1>5 DEF ClipboardTypeOK, Object
<1>7. DebtsPaid'
  <2>1. /\ Debt(e) \in {0, 1} /\ Debt(p) \in {0, 1} /\ Debt(e)' \in {0, 1}
        /\ Debt(p)' = Debt(p) /\ (clip'[e].c = clip[e].c => Debt(e)' = Debt(e))
    BY <1>4, <1>5 DEF Debt, Owes, Running, Echo
  <2>2. Object(e) + Object(p) + Debt(e) + Debt(p) <= Paid(e)
    BY <1>2 DEF DebtsPaid
  <2>3. Paid(e) \in Nat
    BY <1>3, PaidTyped
  <2>4. Object(e) + Object(p) + Debt(e)' + Debt(p)' <= Paid(e)'
    <3>1. CASE clip'[e].c = clip[e].c /\ hist'.copies = hist.copies
      <4>1. Paid(e)' = Paid(e) BY <1>5, <3>1 DEF Paid
      <4> QED BY <2>1, <2>2, <3>1, <4>1
    <3>2. CASE hist'.copies = hist.copies + 1
      <4>1. Paid(e)' = Paid(e) + 1 BY <1>3, <1>5, <3>2, PaidTyped DEF Paid
      <4> QED BY <1>3, <2>1, <2>2, <2>3, <4>1
    <3>3. QED
      BY <1>5, <3>1, <3>2
  <2>5. Object(e)' = Object(e) /\ Object(p)' = Object(p)
    BY <1>4 DEF Object
  <2>6. QED
    BY <1>6, <2>4, <2>5, DebtsAdd
<1>8. \A g \in Side : WindowTrue(g)'
  BY <1>2, <1>4, <1>5 DEF WindowTrue, Sending, Running, Remembered, Answered,
                          Completed, Got, Object
<1>9. OneWay(e)'
  BY <1>1, <1>2, <1>4, <1>5 DEF OneWay, Passive, Silent, Sending, Running, Remembered,
                                Answered, Completed, Object
<1>10. OneWay(p)'
  <2>1. CASE e \in hist'.copied
    BY <1>1, <2>1 DEF OneWay, Passive
  <2>2. CASE e \notin hist'.copied
    <3>1. clip'[e].c = clip[e].c /\ e \notin hist.copied
      BY <1>5, <2>2
    <3>2. QED
      BY <1>1, <1>2, <1>4, <1>5, <3>1
         DEF OneWay, Passive, Silent, Sending, Running, Remembered, Answered,
             Completed, Object
  <2>3. QED
    BY <2>1, <2>2
<1>11. QED
  BY <1>1, <1>6, <1>7, <1>8, <1>9, <1>10 DEF ClipboardInv

\* poll_outgoing starts the next object.
LEMMA PollStep ==
  ASSUME ClipboardInv, NEW e \in Side, PollOutgoing(e)
  PROVE  ClipboardInv'
<1> DEFINE p == Peer(e)
           c == clip[e].c
<1>0. PICK O : O = Object(e)
  OBVIOUS
<1>1. p \in Side /\ p # e /\ Peer(p) = e /\ Side = {e, p}
  BY Peers
<1>2. ClipboardTypeOK /\ DebtsPaid /\ \A g \in Side : WindowTrue(g) /\ OneWay(g)
  BY DEF ClipboardInv
<1>3. /\ clip \in [Side -> Clips] /\ hist \in Hists /\ out \in [Side -> Tasks]
      /\ objs \in [Side -> Seq(Content)] /\ DOMAIN end = Side
      /\ O \in Nat /\ Object(p) \in Nat /\ Object(e) = O
      /\ EndpointOK(end[e], Object(p)) /\ EndpointOK(end[p], O)
      /\ c \in Content \cup {None} /\ objs[e] \in Seq(Content)
  BY <1>0, <1>1, <1>2, Typed DEF ClipboardTypeOK
<1>4. /\ out[e].st = "idle" /\ c # None /\ ~Echo(e, c) /\ UNCHANGED acks
      /\ clip' = [clip EXCEPT ![e].new = FALSE]
      /\ end' = [end EXCEPT ![e].sent = c]
      /\ objs' = [objs EXCEPT ![e] = Append(@, c)]
      /\ out' = [out EXCEPT ![e] = [st |-> "sending", pending |-> Chunk]]
      /\ hist' = [hist EXCEPT !.last[e] = c]
  BY DEF PollOutgoing
<1>5. c \in Content
  BY <1>3, <1>4
<1>6. /\ clip' \in [Side -> Clips] /\ clip'[p] = clip[p] /\ clip'[e].c = c
      /\ out' \in [Side -> Tasks] /\ out'[p] = out[p]
      /\ out'[e].st = "sending" /\ out'[e].pending = Chunk
  <2>1. clip' \in [Side -> Clips] /\ clip'[p] = clip[p] /\ clip'[e].c = clip[e].c
    <3>1. clip[e] \in Clips /\ clip' = [clip EXCEPT ![e] = [clip[e] EXCEPT !.new = FALSE]]
      BY <1>3, <1>4
    <3>2. /\ [clip[e] EXCEPT !.new = FALSE] \in Clips
          /\ [clip[e] EXCEPT !.new = FALSE].c = clip[e].c
      BY <3>1 DEF Clips
    <3>3. QED
      BY <1>1, <1>3, <3>1, <3>2
  <2>2. /\ out' \in [Side -> Tasks] /\ out'[p] = out[p]
        /\ out'[e] = [st |-> "sending", pending |-> Chunk]
    BY <1>1, <1>3, <1>4 DEF Tasks
  <2>3. QED
    BY <2>1, <2>2
<1>7. /\ hist' \in Hists /\ hist'.copies = hist.copies /\ hist'.copied = hist.copied
      /\ hist'.failed = hist.failed /\ hist'.lost = hist.lost
      /\ hist'.altered = hist.altered
  BY <1>3, <1>4, <1>5 DEF Hists
<1>8. /\ objs' \in [Side -> Seq(Content)] /\ objs'[p] = objs[p]
      /\ Len(objs'[e]) = O + 1 /\ objs'[e][O + 1] = c
  <2>1. /\ Append(objs[e], c) \in Seq(Content) /\ Len(Append(objs[e], c)) = O + 1
        /\ Append(objs[e], c)[O + 1] = c
    BY <1>3, <1>5, AppendProperties DEF Object
  <2>2. QED
    BY <1>1, <1>3, <1>4, <2>1
<1>9. /\ DOMAIN end' = Side /\ end'[p] = end[p] /\ EndpointOK(end'[e], Object(p))
      /\ end'[e].sent = c /\ end'[e].applied = end[e].applied
      /\ end'[e].inbound = end[e].inbound /\ end'[e].completed = end[e].completed
  <2>1. end'[e] = [end[e] EXCEPT !.sent = c] /\ DOMAIN end' = Side /\ end'[p] = end[p]
    BY <1>1, <1>3, <1>4
  <2> DEFINE s == [end[e] EXCEPT !.sent = c]
  <2>2. /\ EndpointOK(s, Object(p)) /\ s.sent = c /\ s.applied = end[e].applied
        /\ s.inbound = end[e].inbound /\ s.completed = end[e].completed
    BY <1>3, EndpointSent
  <2> HIDE DEF s
  <2>3. QED
    BY <2>1, <2>2 DEF s
<1>10. Object(e)' = O + 1 /\ Object(p)' = Object(p)
  BY <1>8 DEF Object
<1> HIDE DEF c
<1>11. ClipboardTypeOK'
  <2>1. EndpointOK(end[p], O + 1)
    BY <1>3, EndpointGrows
  <2>2. \A g \in Side : EndpointOK(end'[g], Object(Peer(g))')
    BY <1>1, <1>9, <1>10, <2>1
  <2>3. QED
    BY <1>2, <1>4, <1>6, <1>7, <1>8, <1>9, <2>2 DEF ClipboardTypeOK
<1>12. DebtsPaid'
  <2>1. Owes(e) /\ ~Owes(e)' /\ (Owes(p)' <=> Owes(p))
    BY <1>4, <1>6, <1>9 DEF Owes, Running, Echo, c
  <2>2. Debt(e) = 1 /\ Debt(e)' = 0 /\ Debt(p)' = Debt(p) /\ Debt(p) \in {0, 1}
    BY <2>1 DEF Debt
  <2>3. O + Object(p) + Debt(e) + Debt(p) <= Paid(e)
    BY <1>2, <1>3 DEF DebtsPaid
  <2>4. Paid(e) \in Nat /\ Paid(e)' = Paid(e)
    BY <1>3, <1>7, PaidTyped DEF Paid
  <2>5. (O + 1) + Object(p) + Debt(e)' + Debt(p)' <= Paid(e)'
    BY <1>3, <2>2, <2>3, <2>4
  <2>6. QED
    BY <1>10, <1>11, <2>5, DebtsAdd
<1>13. Answered(e)' = {} /\ acks'[e] = {}
  BY <1>2, <1>4, <1>6 DEF Answered, WindowTrue, Sending
<1>14. WindowTrue(e)'
  BY <1>3, <1>4, <1>6, <1>8, <1>9, <1>10, <1>13 DEF WindowTrue, Sending
<1>15. WindowTrue(p)'
  <2>1. WindowTrue(p)
    BY <1>1, <1>2
  <2>2. /\ Sending(p)' = Sending(p) /\ Running(p)' = Running(p) /\ Running(e)
        /\ Remembered(p)' = Remembered(p) /\ Answered(p)' = Answered(p)
        /\ Completed(e, Object(p))' = Completed(e, Object(p))
        /\ Got(e, Object(p))' = Got(e, Object(p))
    BY <1>4, <1>6, <1>9, <1>10
       DEF Sending, Running, Remembered, Answered, Completed, Got
  <2>3. QED
    BY <1>1, <1>4, <1>6, <1>7, <1>8, <1>9, <1>10, <2>1, <2>2 DEF WindowTrue
<1>16. OneWay(e)'
  <2> SUFFICES ASSUME Passive(p) PROVE
        /\ Silent(p)'
        /\ p \notin hist.lost /\ hist.failed = 0 /\ O + 1 <= MaxCompleted =>
             /\ Running(p) =>
                  \A q \in 1..(O + 1) : Completed(p, q)' \/ q = O + 1
             /\ ~Completed(p, O + 1)'
    <3>1. /\ Remembered(e)' <=> O + 1 <= MaxCompleted
          /\ Running(p)' = Running(p)
          /\ Completed(p, Object(e))' = Completed(p, O + 1)'
      BY <1>6, <1>10 DEF Remembered, Running, Completed
    <3>2. Answered(e)' # Chunk
      BY <1>13, Bounds
    <3>3. QED
      BY <1>6, <1>7, <1>10, <3>1, <3>2 DEF OneWay, Passive
  <2>1. /\ Silent(p)
        /\ p \notin hist.lost /\ hist.failed = 0 /\ O <= MaxCompleted =>
             (Running(p) => \A q \in 1..O : Completed(p, q))
    BY <1>2, <1>3, <1>4 DEF OneWay, Remembered
  <2>2. Silent(p)'
    BY <1>1, <1>6, <1>8, <1>9, <2>1 DEF Silent, Running
  <2>3. \A q : Completed(p, q)' = Completed(p, q)
    BY <1>9 DEF Completed
  <2>4. ~Completed(p, O + 1)
    <3>1. end[p].completed \in Seq(1..O)
      BY <1>3, EndpointFields
    <3>2. \A i \in 1..Len(end[p].completed) : end[p].completed[i] \in 1..O
      BY <3>1, ElementOfSeq
    <3>3. O + 1 \notin 1..O
      BY <1>3
    <3>4. QED
      BY <3>2, <3>3 DEF Completed, Contains
  <2>5. ASSUME p \notin hist.lost, hist.failed = 0, O + 1 <= MaxCompleted, Running(p)
        PROVE  \A q \in 1..(O + 1) : Completed(p, q) \/ q = O + 1
    <3>1. O <= MaxCompleted
      BY <1>3, <2>5, Bounds
    <3>2. \A q \in 1..O : Completed(p, q)
      BY <2>1, <2>5, <3>1
    <3>3. \A q \in 1..(O + 1) : q \in 1..O \/ q = O + 1
      BY <1>3
    <3>4. QED
      BY <3>2, <3>3
  <2>6. QED
    BY <2>2, <2>3, <2>4, <2>5
<1>17. OneWay(p)'
  <2>1. ~Passive(e)
    <3>1. Silent(e) => end[e].applied = clip[e].c
      BY <1>4 DEF Silent, Running
    <3>2. QED
      BY <1>1, <1>2, <1>4, <3>1 DEF OneWay, Echo, c
  <2>2. QED
    BY <1>1, <1>7, <2>1 DEF OneWay, Passive
<1>18. QED
  BY <1>1, <1>11, <1>12, <1>14, <1>15, <1>16, <1>17 DEF ClipboardInv

-----------------------------------------------------------------------------
(* The task that sends the object.                                         *)

\* What a step of the task of e leaves true: the types, and what the invariant
\* says of the objects of the peer.
LEMMA SenderStep ==
  ASSUME ClipboardInv, NEW e \in Side, NEW p, p = Peer(e),
         UNCHANGED <<clip, objs>>, Running(e), Running(e)',
         hist' \in Hists, hist'.copied = hist.copied, hist'.lost = hist.lost,
         hist'.altered = hist.altered, hist'.failed = 0 => hist.failed = 0,
         out' \in [Side -> Tasks], out'[p] = out[p],
         acks' \in [Side -> SUBSET (Chunk \cup {"rejected"})], acks'[p] = acks[p],
         DOMAIN end' = Side, end'[p] = end[p], EndpointOK(end'[e], Object(p)),
         end'[e].applied = end[e].applied, end'[e].inbound = end[e].inbound,
         end'[e].completed = end[e].completed,
         end'[e].sent \in {end[e].sent, None}
  PROVE  /\ ClipboardTypeOK' /\ WindowTrue(p)' /\ OneWay(p)'
         /\ Passive(p) => Silent(p)'
         /\ \A q : Completed(p, q)' = Completed(p, q) /\ Got(p, q)' = Got(p, q)
         /\ Object(e)' = Object(e) /\ Object(p)' = Object(p)
         /\ Remembered(e)' = Remembered(e) /\ Running(p)' = Running(p)
         /\ Debt(p)' = Debt(p)
<1>1. p \in Side /\ p # e /\ Peer(p) = e /\ Side = {e, p}
  BY Peers
<1>2. ClipboardTypeOK /\ WindowTrue(p) /\ OneWay(p) /\ OneWay(e)
  BY <1>1 DEF ClipboardInv
<1>3. /\ Object(e)' = Object(e) /\ Object(p)' = Object(p)
      /\ Remembered(e)' = Remembered(e) /\ Remembered(p)' = Remembered(p)
      /\ Running(p)' = Running(p) /\ Sending(p)' = Sending(p)
      /\ Answered(p)' = Answered(p)
  BY DEF Object, Remembered, Running, Sending, Answered
<1>4. /\ \A q : Completed(p, q)' = Completed(p, q) /\ Got(p, q)' = Got(p, q)
      /\ \A q : Completed(e, q)' = Completed(e, q) /\ Got(e, q)' = Got(e, q)
  BY DEF Completed, Got
<1>5. Debt(p)' = Debt(p)
  BY <1>3 DEF Debt, Owes, Echo
<1>6. ClipboardTypeOK'
  <2>1. EndpointOK(end[p], Object(e))
    BY <1>1, <1>2 DEF ClipboardTypeOK
  <2>2. \A g \in Side : EndpointOK(end'[g], Object(Peer(g))')
    BY <1>1, <1>3, <2>1
  <2>3. QED
    BY <1>2, <2>2 DEF ClipboardTypeOK
<1>7. WindowTrue(p)'
  <2>1. /\ Completed(e, Object(p))' = Completed(e, Object(p))
        /\ Got(e, Object(p))' = Got(e, Object(p))
    BY <1>3, <1>4 DEF Completed, Got
  <2>2. QED
    BY <1>1, <1>2, <1>3, <2>1 DEF WindowTrue
<1>8. OneWay(p)'
  <2>1. Completed(e, Object(p))' = Completed(e, Object(p))
    BY <1>3, <1>4 DEF Completed
  <2>2. Silent(e) => Silent(e)'
    BY <1>1, <1>3 DEF Silent
  <2>3. QED
    BY <1>1, <1>2, <1>3, <1>4, <2>1, <2>2 DEF OneWay, Passive
<1>9. Passive(p) => Silent(p)'
  BY <1>1, <1>2, <1>3 DEF OneWay, Silent
<1>10. QED
  BY <1>3, <1>4, <1>5, <1>6, <1>7, <1>8, <1>9

\* An answer for a chunk: the last one says that the object is finished.
LEMMA TakeStep ==
  ASSUME ClipboardInv, NEW e \in Side, NEW k \in Chunk, TakeAccepted(e, k)
  PROVE  ClipboardInv'
<1> DEFINE left == out[e].pending \ {k}
<1>0. PICK O, p : O = Object(e) /\ p = Peer(e)
  OBVIOUS
<1>1. p \in Side /\ p # e /\ Peer(p) = e /\ Side = {e, p}
  BY <1>0, Peers
<1>2. ClipboardTypeOK /\ DebtsPaid /\ \A g \in Side : WindowTrue(g) /\ OneWay(g)
  BY DEF ClipboardInv
<1>3. /\ clip \in [Side -> Clips] /\ hist \in Hists /\ out \in [Side -> Tasks]
      /\ acks \in [Side -> SUBSET (Chunk \cup {"rejected"})]
      /\ objs \in [Side -> Seq(Content)] /\ DOMAIN end = Side
      /\ O \in Nat /\ Object(p) \in Nat
      /\ EndpointOK(end[e], Object(p))
  BY <1>0, <1>1, <1>2, Typed DEF ClipboardTypeOK
<1>4. /\ Sending(e) /\ k \in acks[e] /\ k \in out[e].pending
      /\ out' = [out EXCEPT ![e] = IF left = {} THEN Idle ELSE [@ EXCEPT !.pending = left]]
      /\ acks' = [acks EXCEPT ![e] = IF left = {} THEN {} ELSE @]
      /\ UNCHANGED <<clip, end, objs, hist>>
  BY DEF TakeAccepted
<1>5. /\ out' \in [Side -> Tasks] /\ out'[p] = out[p]
      /\ acks' \in [Side -> SUBSET (Chunk \cup {"rejected"})] /\ acks'[p] = acks[p]
      /\ left # {} => /\ out'[e].st = "sending" /\ out'[e].pending = left
                      /\ acks'[e] = acks[e]
      /\ left = {} => out'[e].st = "idle" /\ acks'[e] = {}
  BY <1>1, <1>3, <1>4 DEF Tasks, Idle, Sending
<1>6. Running(e) /\ Running(e)'
  BY <1>4, <1>5 DEF Running, Sending
<1>7. /\ ClipboardTypeOK' /\ WindowTrue(p)' /\ OneWay(p)'
      /\ Passive(p) => Silent(p)'
      /\ \A q : Completed(p, q)' = Completed(p, q) /\ Got(p, q)' = Got(p, q)
      /\ Object(e)' = O /\ Object(p)' = Object(p)
      /\ Remembered(e)' = Remembered(e) /\ Running(p)' = Running(p)
      /\ Debt(p)' = Debt(p)
  <2> HIDE DEF left
  <2>1. /\ UNCHANGED <<clip, objs>> /\ hist' \in Hists /\ hist' = hist
        /\ DOMAIN end' = Side /\ end' = end /\ EndpointOK(end'[e], Object(p))
    BY <1>3, <1>4
  <2>2. QED
    BY <1>0, <1>5, <1>6, <2>1, SenderStep
<1>8. DebtsPaid'
  <2>1. Debt(e)' = Debt(e)
    BY <1>4, <1>5, <1>6 DEF Debt, Owes, Echo, Sending
  <2>2. QED
    BY <1>0, <1>2, <1>4, <1>7, <2>1, DebtsAdd DEF DebtsPaid, Paid
<1>9. /\ Completed(p, Object(e))' = Completed(p, O)'
      /\ Got(p, Object(e))' = Got(p, O)'
  BY <1>7 DEF Completed, Got
<1>10. /\ WindowTrue(e)
       /\ Running(p) /\ p \notin hist.lost /\ Remembered(e) =>
            Completed(p, O) \/ Answered(e) \subseteq Got(p, O)
  BY <1>0, <1>2, <1>4 DEF WindowTrue
<1>11. CASE left # {}
  <2>1. Answered(e)' = Answered(e) /\ Sending(e)'
    BY <1>4, <1>5, <1>11 DEF Answered, Sending
  <2>2. WindowTrue(e)'
    BY <1>0, <1>4, <1>5, <1>6, <1>7, <1>9, <1>10, <1>11, <2>1 DEF WindowTrue
  <2>3. OneWay(e)'
    BY <1>0, <1>2, <1>4, <1>5, <1>7, <1>9, <1>11, <2>1 DEF OneWay, Passive, Sending
  <2>4. QED
    BY <1>1, <1>7, <1>8, <2>2, <2>3 DEF ClipboardInv
<1>12. CASE left = {}
  <2>1. Answered(e) = Chunk
    BY <1>2, <1>4, <1>12 DEF Answered
  <2>2. Running(p) /\ p \notin hist.lost /\ Remembered(e) => Completed(p, O)
    BY <1>1, <1>2, <1>10, <2>1, GotPart
  <2>3. WindowTrue(e)'
    BY <1>0, <1>4, <1>5, <1>6, <1>7, <1>9, <1>10, <1>12, <2>2 DEF WindowTrue, Sending
  <2>4. OneWay(e)'
    <3> SUFFICES ASSUME Passive(p), p \notin hist.lost, hist.failed = 0,
                        Remembered(e)
                 PROVE  /\ Running(p) => \A q \in 1..O : Completed(p, q)
                        /\ O # 0 => clip[p].c = objs[e][O]
      BY <1>0, <1>4, <1>5, <1>7, <1>9, <1>12 DEF OneWay, Passive, Sending
    <3>1. /\ Running(p) => \A q \in 1..O : Completed(p, q) \/ q = O
          /\ O # 0 /\ Completed(p, O) => clip[p].c = objs[e][O]
          /\ ~Running(p) => clip[p].c = objs[e][O] \/ Answered(e) # Chunk
      BY <1>0, <1>2, <1>4 DEF OneWay
    <3>2. QED
      BY <2>1, <2>2, <3>1
  <2>5. QED
    BY <1>1, <1>7, <1>8, <2>3, <2>4 DEF ClipboardInv
<1>13. QED
  BY <1>11, <1>12

\* The window fails: a failed transfer more, and a transfer that may follow it.
LEMMA FailStep ==
  ASSUME ClipboardInv, NEW e \in Side, WindowFails(e)
  PROVE  ClipboardInv'
<1>0. PICK O, p : O = Object(e) /\ p = Peer(e)
  OBVIOUS
<1>1. p \in Side /\ p # e /\ Peer(p) = e /\ Side = {e, p}
  BY <1>0, Peers
<1>2. ClipboardTypeOK /\ DebtsPaid /\ \A g \in Side : WindowTrue(g) /\ OneWay(g)
  BY DEF ClipboardInv
<1>3. /\ hist \in Hists /\ out \in [Side -> Tasks]
      /\ acks \in [Side -> SUBSET (Chunk \cup {"rejected"})]
      /\ DOMAIN end = Side /\ O \in Nat /\ Object(p) \in Nat
      /\ EndpointOK(end[e], Object(p))
  BY <1>0, <1>1, <1>2, Typed DEF ClipboardTypeOK
<1>4. /\ Sending(e) /\ UNCHANGED <<clip, end, objs>>
      /\ out' = [out EXCEPT ![e] = [st |-> "failed", pending |-> {}]]
      /\ acks' = [acks EXCEPT ![e] = {}]
      /\ hist' = [hist EXCEPT !.failed = @ + 1]
  BY DEF WindowFails
<1>5. /\ out' \in [Side -> Tasks] /\ out'[p] = out[p] /\ out'[e].st = "failed"
      /\ acks' \in [Side -> SUBSET (Chunk \cup {"rejected"})] /\ acks'[p] = acks[p]
      /\ acks'[e] = {}
  BY <1>1, <1>3, <1>4 DEF Tasks
<1>6. /\ hist' \in Hists /\ hist'.copied = hist.copied /\ hist'.lost = hist.lost
      /\ hist'.copies = hist.copies /\ hist'.failed = hist.failed + 1
      /\ hist.failed \in Nat /\ hist'.altered = hist.altered
  BY <1>3, <1>4 DEF Hists
<1>7. hist'.failed # 0
  BY <1>6
<1>8. Running(e) /\ Running(e)'
  BY <1>4, <1>5 DEF Running, Sending
<1>9. /\ ClipboardTypeOK' /\ WindowTrue(p)' /\ OneWay(p)'
      /\ Passive(p) => Silent(p)'
      /\ Object(e)' = O /\ Object(p)' = Object(p)
      /\ Debt(p)' = Debt(p)
  BY <1>0, <1>3, <1>4, <1>5, <1>6, <1>7, <1>8, SenderStep
<1>10. DebtsPaid'
  <2>1. Debt(e) \in {0, 1} /\ Debt(p) \in {0, 1} /\ Debt(e)' \in {0, 1}
    BY DEF Debt
  <2>2. O + Object(p) + Debt(e) + Debt(p) <= Paid(e)
    BY <1>0, <1>2 DEF DebtsPaid
  <2>3. Paid(e) \in Nat /\ Paid(e)' = Paid(e) + 1
    BY <1>3, <1>6, PaidTyped DEF Paid
  <2>5. O + Object(p) + Debt(e)' + Debt(p)' <= Paid(e)'
    BY <1>3, <1>9, <2>1, <2>2, <2>3
  <2>4. QED
    BY <1>0, <1>9, <2>5, DebtsAdd
<1>11. WindowTrue(e)'
  BY <1>0, <1>2, <1>4, <1>5, <1>8, <1>9 DEF WindowTrue, Sending, Object
<1>12. OneWay(e)'
  BY <1>0, <1>6, <1>7, <1>9 DEF OneWay, Passive
<1>13. QED
  BY <1>1, <1>9, <1>10, <1>11, <1>12 DEF ClipboardInv

\* retry_outgoing: the transfer the failure paid for.
LEMMA RetryStep ==
  ASSUME ClipboardInv, NEW e \in Side, RetryOutgoing(e)
  PROVE  ClipboardInv'
<1>0. PICK O, p : O = Object(e) /\ p = Peer(e)
  OBVIOUS
<1>1. p \in Side /\ p # e /\ Peer(p) = e /\ Side = {e, p}
  BY <1>0, Peers
<1>2. ClipboardTypeOK /\ DebtsPaid /\ \A g \in Side : WindowTrue(g) /\ OneWay(g)
  BY DEF ClipboardInv
<1>3. /\ hist \in Hists /\ out \in [Side -> Tasks]
      /\ acks \in [Side -> SUBSET (Chunk \cup {"rejected"})]
      /\ DOMAIN end = Side /\ O \in Nat /\ Object(p) \in Nat
      /\ EndpointOK(end[e], Object(p))
  BY <1>0, <1>1, <1>2, Typed DEF ClipboardTypeOK
<1>4. /\ out[e].st = "failed" /\ UNCHANGED <<clip, objs, acks, hist>>
      /\ end' = [end EXCEPT ![e] = Forgotten(@)]
      /\ out' = [out EXCEPT ![e] = Idle]
  BY DEF RetryOutgoing
<1>5. out' \in [Side -> Tasks] /\ out'[p] = out[p] /\ out'[e].st = "idle"
  BY <1>1, <1>3, <1>4 DEF Tasks, Idle
<1>6. /\ DOMAIN end' = Side /\ end'[p] = end[p] /\ EndpointOK(end'[e], Object(p))
      /\ end'[e].sent = None /\ end'[e].applied = end[e].applied
      /\ end'[e].inbound = end[e].inbound /\ end'[e].completed = end[e].completed
  <2> DEFINE s == [end[e] EXCEPT !.sent = None]
  <2>1. end'[e] = s /\ DOMAIN end' = Side /\ end'[p] = end[p]
    BY <1>1, <1>3, <1>4 DEF Forgotten
  <2>2. /\ EndpointOK(s, Object(p)) /\ s.sent = None /\ s.applied = end[e].applied
        /\ s.inbound = end[e].inbound /\ s.completed = end[e].completed
    BY <1>3, EndpointSent
  <2> HIDE DEF s
  <2>3. QED
    BY <2>1, <2>2
<1>7. Running(e) /\ Running(e)'
  BY <1>4, <1>5 DEF Running
<1>8. /\ ClipboardTypeOK' /\ WindowTrue(p)' /\ OneWay(p)'
      /\ Passive(p) => Silent(p)'
      /\ Object(e)' = O /\ Object(p)' = Object(p)
      /\ Remembered(e)' = Remembered(e) /\ Debt(p)' = Debt(p)
  BY <1>0, <1>3, <1>4, <1>5, <1>6, <1>7, SenderStep
<1>9. DebtsPaid'
  <2>1. Debt(e) = 1 /\ Debt(p) \in {0, 1} /\ Debt(e)' \in {0, 1}
    BY <1>4, <1>7 DEF Debt, Owes
  <2>2. O + Object(p) + Debt(e) + Debt(p) <= Paid(e)
    BY <1>0, <1>2 DEF DebtsPaid
  <2>3. Paid(e) \in Nat /\ Paid(e)' = Paid(e)
    BY <1>3, <1>4, PaidTyped DEF Paid
  <2>4. O + Object(p) + Debt(e)' + Debt(p)' <= Paid(e)'
    BY <1>3, <1>8, <2>1, <2>2, <2>3
  <2>5. QED
    BY <1>0, <1>4, <1>8, <2>4, DebtsAdd
<1>10. WindowTrue(e)'
  BY <1>0, <1>2, <1>4, <1>5, <1>6 DEF WindowTrue, Sending
<1>11. OneWay(e)'
  BY <1>0, <1>2, <1>4, <1>8 DEF OneWay, Passive
<1>12. QED
  BY <1>1, <1>8, <1>9, <1>10, <1>11 DEF ClipboardInv

-----------------------------------------------------------------------------
\* run_clipboard_sync returns: a side that is off owes nothing, and a window
\* that was not fully answered never will be.
LEMMA EndsStep ==
  ASSUME ClipboardInv, NEW e \in Side, Ends(e)
  PROVE  ClipboardInv'
<1>0. PICK O, p, P : O = Object(e) /\ p = Peer(e) /\ P = Object(p)
  OBVIOUS
<1>1. p \in Side /\ p # e /\ Peer(p) = e /\ Side = {e, p}
  BY <1>0, Peers
<1>2. ClipboardTypeOK /\ DebtsPaid /\ \A g \in Side : WindowTrue(g) /\ OneWay(g)
  BY DEF ClipboardInv
<1>3. /\ hist \in Hists /\ out \in [Side -> Tasks]
      /\ acks \in [Side -> SUBSET (Chunk \cup {"rejected"})]
      /\ DOMAIN end = Side /\ O \in Nat /\ P \in Nat
      /\ EndpointOK(end[p], O)
  BY <1>0, <1>1, <1>2, Typed DEF ClipboardTypeOK
<1>4. /\ Running(e) /\ UNCHANGED <<clip, objs, hist>>
      /\ out' = [out EXCEPT ![e] = [st |-> "off", pending |-> {}]]
      /\ end' = [end EXCEPT ![e] = Fresh]
      /\ acks' = [acks EXCEPT ![e] = {}]
  BY DEF Ends
<1>5. /\ out' \in [Side -> Tasks] /\ out'[p] = out[p] /\ out'[e].st = "off"
      /\ acks' \in [Side -> SUBSET (Chunk \cup {"rejected"})] /\ acks'[p] = acks[p]
      /\ acks'[e] = {}
      /\ DOMAIN end' = Side /\ end'[p] = end[p] /\ end'[e] = Fresh
  BY <1>1, <1>3, <1>4 DEF Tasks
<1>6. /\ Object(e)' = O /\ Object(p)' = P /\ ~Running(e)' /\ ~Sending(e)'
      /\ Running(p)' = Running(p) /\ Sending(p)' = Sending(p)
      /\ Answered(p)' = Answered(p)
      /\ Remembered(e)' = Remembered(e) /\ Remembered(p)' = Remembered(p)
  BY <1>0, <1>4, <1>5 DEF Object, Running, Sending, Answered, Remembered
<1>7. ClipboardTypeOK'
  <2>1. EndpointOK(end'[e], P)
    BY <1>3, <1>5, FreshOK
  <2>2. \A g \in Side : EndpointOK(end'[g], Object(Peer(g))')
    BY <1>0, <1>1, <1>3, <1>5, <1>6, <2>1
  <2>3. QED
    BY <1>2, <1>4, <1>5, <2>2 DEF ClipboardTypeOK
<1>8. DebtsPaid'
  <2>1. Debt(e)' = 0 /\ Debt(e) \in {0, 1} /\ Debt(p) \in {0, 1} /\ Debt(p)' = Debt(p)
    BY <1>4, <1>5, <1>6 DEF Debt, Owes, Echo
  <2>2. O + P + Debt(e) + Debt(p) <= Paid(e)
    BY <1>0, <1>2 DEF DebtsPaid
  <2>3. Paid(e) \in Nat /\ Paid(e)' = Paid(e)
    BY <1>3, <1>4, PaidTyped DEF Paid
  <2>4. O + P + Debt(e)' + Debt(p)' <= Paid(e)'
    BY <1>3, <2>1, <2>2, <2>3
  <2>5. QED
    BY <1>0, <1>4, <1>6, <1>7, <2>4, DebtsAdd
<1>9. WindowTrue(e)'
  BY <1>5, <1>6 DEF WindowTrue
<1>10. WindowTrue(p)'
  BY <1>0, <1>1, <1>2, <1>4, <1>5, <1>6 DEF WindowTrue
<1>11. \A q : Completed(p, q)' = Completed(p, q)
  BY <1>5 DEF Completed
<1>12. OneWay(e)'
  <2>1. Silent(p) => Silent(p)'
    BY <1>1, <1>4, <1>5, <1>6 DEF Silent, Fresh
  <2>2. Completed(p, Object(e))' = Completed(p, O)'
    BY <1>6 DEF Completed
  <2>3. QED
    BY <1>0, <1>1, <1>2, <1>4, <1>5, <1>6, <1>11, <2>1, <2>2 DEF OneWay, Passive
<1>13. OneWay(p)'
  <2>1. Silent(e) => Silent(e)'
    BY <1>1, <1>4, <1>5, <1>6 DEF Silent, Fresh
  <2>2. ~Completed(e, Object(p))'
    BY <1>5, EmptySeq DEF Completed, Contains, Fresh
  <2>3. ASSUME Passive(e), e \notin hist.lost, hist.failed = 0, Remembered(p),
               Sending(p)
        PROVE  clip[e].c = objs[p][P] \/ Answered(p) # Chunk
    <3>1. P # 0 /\ (Completed(e, P) \/ Answered(p) \subseteq Got(e, P))
      BY <1>0, <1>1, <1>2, <1>4, <2>3 DEF WindowTrue, Running, Sending
    <3>2. Completed(e, P) => clip[e].c = objs[p][P]
      BY <1>0, <1>1, <1>2, <2>3, <3>1 DEF OneWay
    <3>3. Got(e, P) \subseteq Chunk /\ Got(e, P) # Chunk
      BY <1>2, GotPart
    <3>4. QED
      BY <3>1, <3>2, <3>3
  <2>4. QED
    BY <1>0, <1>1, <1>2, <1>4, <1>5, <1>6, <2>1, <2>2, <2>3 DEF OneWay, Passive
<1>14. QED
  BY <1>1, <1>7, <1>8, <1>9, <1>10, <1>12, <1>13 DEF ClipboardInv

-----------------------------------------------------------------------------
(* The theorems.                                                           *)

\* Nothing is copied, sent or owed.
LEMMA ClipboardStarts == Init => ClipboardInv
<1> SUFFICES ASSUME Init PROVE ClipboardInv
  OBVIOUS
<1>1. /\ \A g \in Side : Peer(g) \in Side
      /\ \A g \in Side : /\ Object(g) = 0 /\ objs[g] = <<>> /\ acks[g] = {}
                         /\ clip[g].c = None /\ out[g] = Idle /\ end[g] = Fresh
      /\ hist.copies = 0 /\ hist.failed = 0 /\ DOMAIN end = Side
      /\ \A g \in Side : hist.altered[g] = 0
  BY Peers, EmptySeq DEF Init, Object
<1>2. ClipboardTypeOK
  <2>1. \A g \in Side : EndpointOK(end[g], Object(Peer(g)))
    BY <1>1, FreshOK
  <2>2. hist \in Hists /\ clip \in [Side -> Clips] /\ out \in [Side -> Tasks]
    BY DEF Init, Hists, Clips, Tasks, Idle
  <2>3. objs \in [Side -> Seq(Content)] /\ acks \in [Side -> SUBSET (Chunk \cup {"rejected"})]
    BY EmptySeq DEF Init
  <2>4. QED
    BY <1>1, <2>1, <2>2, <2>3 DEF ClipboardTypeOK
<1>3. \A g \in Side : Debt(g) = 0
  BY <1>1 DEF Debt, Owes, Idle
<1>4. DebtsPaid
  BY <1>1, <1>3 DEF DebtsPaid, Paid
<1>5. \A g \in Side : WindowTrue(g)
  BY <1>1 DEF WindowTrue, Sending, Idle, Fresh
<1>6. \A g \in Side : OneWay(g)
  <2>1. 1..0 = {}
    OBVIOUS
  <2>2. \A g \in Side : Silent(g)
    BY <1>1 DEF Silent, Fresh
  <2>3. QED
    BY <1>1, <2>1, <2>2 DEF OneWay, Sending, Idle
<1>7. QED
  BY <1>2, <1>4, <1>5, <1>6 DEF ClipboardInv

\* The invariant holds for any contents, any number of chunks, copies and
\* expired transfers and any limits of an endpoint.
THEOREM ClipboardInvariant == Spec => []ClipboardInv
<1>1. Init => ClipboardInv
  BY ClipboardStarts
<1>2. ClipboardInv /\ [Next]_vars => ClipboardInv'
  <2> SUFFICES ASSUME ClipboardInv, [Next]_vars PROVE ClipboardInv'
    OBVIOUS
  <2>1. CASE UNCHANGED vars
    <3>1. UNCHANGED <<clip, end, out, objs, acks, hist>>
      BY <2>1 DEF vars
    <3>2. \A g : /\ Running(g)' = Running(g) /\ Sending(g)' = Sending(g)
                 /\ Remembered(g)' = Remembered(g) /\ Answered(g)' = Answered(g)
                 /\ Object(g)' = Object(g) /\ Debt(g)' = Debt(g)
      BY <3>1 DEF Running, Sending, Remembered, Answered, Object, Debt, Owes, Echo
    <3>4. ClipboardTypeOK'
      BY <3>1 DEF ClipboardInv, ClipboardTypeOK, Object
    <3>5. DebtsPaid'
      BY <3>1, <3>2 DEF ClipboardInv, DebtsPaid, Paid
    <3>6. ASSUME NEW g \in Side PROVE WindowTrue(g)'
      BY <3>1, <3>2 DEF ClipboardInv, WindowTrue, Completed, Got, Object
    <3>7. ASSUME NEW g \in Side PROVE OneWay(g)'
      <4>1. Silent(Peer(g))' = Silent(Peer(g))
        BY <3>1, <3>2 DEF Silent
      <4>2. QED
        BY <3>1, <3>2, <4>1 DEF ClipboardInv, OneWay, Passive, Completed, Object
    <3>8. QED
      BY <3>4, <3>5, <3>6, <3>7 DEF ClipboardInv
  <2>2. CASE Next
    <3>1. PICK e \in Side :
            \/ \E c \in Content : Copy(e, c)
            \/ Outgoing(e) \/ ReceiveEnvelope(e) \/ Ends(e)
      BY <2>2 DEF Next
    <3>2. CASE \E c \in Content : Copy(e, c)
      BY <3>2, CopyStep
    <3>3. CASE Outgoing(e)
      BY <3>3, CopyStep, PollStep, TakeStep, FailStep, RetryStep DEF Outgoing
    <3>4. CASE ReceiveEnvelope(e)
      BY <3>4, ReceiveStep
    <3>5. CASE Ends(e)
      BY <3>5, EndsStep
    <3>6. QED
      BY <3>1, <3>2, <3>3, <3>4, <3>5
  <2>3. QED
    BY <2>1, <2>2
<1>3. QED
  BY <1>1, <1>2, PTL DEF Spec

\* Types, and the limits of an endpoint: never more than MaxInbound objects in
\* assembly and MaxCompleted finished ones remembered, each of them once.
THEOREM ClipboardTypes == Spec => []ClipboardTypeOK
<1>1. ClipboardInv => ClipboardTypeOK
  BY DEF ClipboardInv
<1>2. QED
  BY <1>1, ClipboardInvariant, PTL

\* No echo loop on what comes back as it was written: every object either side
\* ever sends is owed to a user's copy, to a failed transfer or to one write that
\* the system altered.
THEOREM NoEchoes == Spec => []TransfersOwed
<1>1. ClipboardInv => TransfersOwed
  <2> SUFFICES ASSUME ClipboardInv, NEW e \in Side
               PROVE  Object(e) + Object(Peer(e)) <= Paid(e)
    BY DEF TransfersOwed
  <2>1. Object(e) + Object(Peer(e)) + Debt(e) + Debt(Peer(e)) <= Paid(e)
    BY DEF ClipboardInv, DebtsPaid
  <2>2. Object(e) \in Nat /\ Object(Peer(e)) \in Nat /\ hist \in Hists
    BY Typed DEF ClipboardInv
  <2>3. Paid(e) \in Nat
    BY <2>2, PaidTyped
  <2>4. Debt(e) \in {0, 1} /\ Debt(Peer(e)) \in {0, 1}
    BY DEF Debt
  <2>5. QED
    BY <2>1, <2>2, <2>3, <2>4
<1>2. QED
  BY <1>1, ClipboardInvariant, PTL

\* What an endpoint holds for sent, the other side has finished receiving.
THEOREM SentWasFinished == Spec => []SentIsFinished
<1>1. ClipboardInv => SentIsFinished
  <2> SUFFICES ASSUME ClipboardInv, NEW e \in Side,
                      out[e].st = "idle", end[e].sent # None, Running(Peer(e)),
                      Remembered(e), Peer(e) \notin hist.lost
               PROVE  \E o \in 1..Object(e) :
                        objs[e][o] = end[e].sent /\ Completed(Peer(e), o)
    BY DEF SentIsFinished
  <2>1. WindowTrue(e) /\ Object(e) \in Nat /\ Running(e)
    BY Typed DEF ClipboardInv, Running
  <2>2. /\ Object(e) # 0 /\ end[e].sent = objs[e][Object(e)]
        /\ Completed(Peer(e), Object(e))
    BY <2>1 DEF WindowTrue
  <2>3. Object(e) \in 1..Object(e)
    BY <2>1, <2>2
  <2>4. QED
    BY <2>2, <2>3
<1>2. QED
  BY <1>1, ClipboardInvariant, PTL

\* While only one user copies, nothing fails and the other side's system returns
\* what is written to it, that side shows what counts as sent.
THEOREM OneWayShows == Spec => []OneWayAgrees
<1>1. ClipboardInv => OneWayAgrees
  <2> SUFFICES ASSUME ClipboardInv, NEW e \in Side,
                      out[e].st = "idle", clip[e].c # None, clip[e].c = end[e].sent,
                      Remembered(e), Passive(Peer(e)), Peer(e) \notin hist.lost,
                      hist.failed = 0
               PROVE  clip[Peer(e)].c = clip[e].c
    BY DEF OneWayAgrees
  <2>1. WindowTrue(e) /\ OneWay(e) /\ Running(e)
    BY DEF ClipboardInv, Running
  <2>2. Object(e) # 0 /\ end[e].sent = objs[e][Object(e)]
    BY <2>1 DEF WindowTrue
  <2>3. clip[Peer(e)].c = objs[e][Object(e)]
    BY <2>1, <2>2 DEF OneWay
  <2>4. QED
    BY <2>2, <2>3
<1>2. QED
  BY <1>1, ClipboardInvariant, PTL
=============================================================================
