------------------------------ MODULE Clipboard ------------------------------
(***************************************************************************)
(* Clipboard synchronisation between two peers: one ClipboardSyncEndpoint  *)
(* (remote_core/src/clipboard_sync.rs) on each side, run by                *)
(* run_clipboard_sync (clipboard_runtime.rs) over the confirmed delivery   *)
(* of file_delivery.rs. Each side polls the clipboard of its own system,   *)
(* sends a change as an object in chunks and writes what it receives to    *)
(* its own clipboard, where the next poll finds it. A content stands for   *)
(* the checksum of its normalised bundle. What a system returns after a    *)
(* write need not be what was written: the providers of remote_platform    *)
(* encode images anew, drop sizes and keep one of several representations. *)
(***************************************************************************)
EXTENDS Naturals, FiniteSets, Sequences, SequencesExt

CONSTANTS
  Side,           \* the two peers
  Content, None,  \* clipboard contents, no content
  Chunk,          \* the chunks of an object, fewer than the delivery window
  MaxInbound,     \* objects a receiver assembles at a time
  MaxCompleted,   \* finished objects a receiver remembers
  Native,         \* what each side's system returns once a content was written
  Flaky,          \* the sides whose system may refuse a write
  Torn,           \* what a refused write may leave instead of the old content
  MaxCopies, MaxTimeouts, MaxTorn,     \* bounds on the users' copies, on expired
  MaxObjects                           \* transfers, on a side's altered writes
                                       \* before a torn one, on its objects

ASSUME ClipboardAssumption ==
  /\ \E a, b \in Side : a # b /\ Side = {a, b}
  /\ None \notin Content /\ Chunk # {} /\ "rejected" \notin Chunk
  /\ MaxInbound \in Nat \ {0} /\ MaxCompleted \in Nat \ {0}
  /\ Native \in [Side -> [Content -> Content \cup {None}]]
  /\ Torn \in [Side -> [Content -> SUBSET (Content \cup {None})]]
  /\ Flaky \subseteq Side /\ MaxCopies \in Nat /\ MaxTimeouts \in Nat /\ MaxTorn \in Nat
  /\ MaxObjects \in [Side -> Nat]

VARIABLES
  clip,    \* the system's clipboard: what a read returns, whether it is there by
           \* a write of this endpoint, whether it is a copy not looked at yet
  end,     \* ClipboardSyncEndpoint: last_sent, last_applied, inbound, completed
  out,     \* the task of run_clipboard_sync that sends the current object
  objs,    \* the contents of the objects sent so far; any of their chunks may
           \* arrive, late, repeatedly or never
  acks,    \* the answers on their way to the current object's window
  hist     \* history: how often and where users copied, failed transfers and
           \* where a write failed, how many writes of each side did not leave
           \* their content (altered), the content each side last sent or wrote

vars == <<clip, end, out, objs, acks, hist>>

Peer(e) == CHOOSE p \in Side : p # e

-----------------------------------------------------------------------------
Idle == [st |-> "idle", pending |-> {}]
Fresh == [sent |-> None, applied |-> None, inbound |-> {}, completed |-> <<>>]
Running(e) == out[e].st # "off"
Sending(e) == out[e].st = "sending"
Object(e) == Len(objs[e])

\* The user of this side copies something that the system can return.
Copy(e, c) ==
  /\ hist.copies < MaxCopies /\ c \in Range(Native[e])
  /\ clip' = [clip EXCEPT ![e] = [c |-> c, put |-> FALSE, new |-> TRUE]]
  /\ hist' = [hist EXCEPT !.copies = @ + 1, !.copied = @ \cup {e}]
  /\ UNCHANGED <<end, out, objs, acks>>

\* The test against echoes, the same for both directions.
Echo(e, c) == c \in {end[e].sent, end[e].applied}

\* poll_outgoing: nothing new, or the next object.
PollQuiet(e) ==
  /\ out[e].st = "idle" /\ clip[e].new
  /\ clip[e].c = None \/ Echo(e, clip[e].c)
  /\ clip' = [clip EXCEPT ![e].new = FALSE]
  /\ UNCHANGED <<end, out, objs, acks, hist>>
PollOutgoing(e) ==
  /\ out[e].st = "idle" /\ clip[e].c # None /\ ~Echo(e, clip[e].c)
  /\ Object(e) < MaxObjects[e]
  /\ clip' = [clip EXCEPT ![e].new = FALSE]
  /\ end' = [end EXCEPT ![e].sent = clip[e].c]
  /\ objs' = [objs EXCEPT ![e] = Append(@, clip[e].c)]
  /\ out' = [out EXCEPT ![e] = [st |-> "sending", pending |-> Chunk]]
  /\ UNCHANGED acks
  /\ hist' = [hist EXCEPT !.last[e] = clip[e].c]

\* DeliveryWindow::drain_to: an answer, or 30 seconds without one.
TakeAccepted(e, k) ==
  LET left == out[e].pending \ {k} IN
  /\ Sending(e) /\ k \in acks[e] /\ k \in out[e].pending
  /\ out' = [out EXCEPT ![e] = IF left = {} THEN Idle ELSE [@ EXCEPT !.pending = left]]
  /\ acks' = [acks EXCEPT ![e] = IF left = {} THEN {} ELSE @]
  /\ UNCHANGED <<clip, end, objs, hist>>
WindowFails(e) ==
  /\ Sending(e)
  /\ "rejected" \in acks[e] \/ hist.failed < MaxTimeouts
  /\ out' = [out EXCEPT ![e] = [st |-> "failed", pending |-> {}]]
  /\ acks' = [acks EXCEPT ![e] = {}]
  /\ hist' = [hist EXCEPT !.failed = @ + 1]
  /\ UNCHANGED <<clip, end, objs>>
\* Mutant: what was sent counts as sent.
Unsent(s) == s
\* retry_outgoing, when the failed task is joined.
Forgotten(s) == [s EXCEPT !.sent = None]
RetryOutgoing(e) ==
  /\ out[e].st = "failed"
  /\ end' = [end EXCEPT ![e] = Forgotten(@)]
  /\ out' = [out EXCEPT ![e] = Idle]
  /\ UNCHANGED <<clip, objs, acks, hist>>

-----------------------------------------------------------------------------
(* receive_envelope and the answer run_clipboard_sync gives.               *)

\* The answer matters to the sender while the object is its current one.
Answer(e, o, a) ==
  acks' = IF o = Object(Peer(e)) /\ Sending(Peer(e)) THEN [acks EXCEPT ![Peer(e)] = @ \cup {a}] ELSE acks

\* remember_completed.
Remember(seq, o) ==
  LET s == Append(seq, o) IN IF Len(s) > MaxCompleted THEN Tail(s) ELSE s
\* Mutant: finished objects are not looked up.
CompletedUnknown(e, o) == FALSE
Completed(e, o) == Contains(end[e].completed, o)
Known(e, o) == \E i \in end[e].inbound : i.o = o
Got(e, o) == UNION {i.got : i \in {j \in end[e].inbound : j.o = o}}
Full(e, o) == Cardinality(end[e].inbound) >= MaxInbound /\ ~Known(e, o)
Without(e, o) == {i \in end[e].inbound : i.o # o}

ReceiveRepeated(e, o, k) ==
  /\ Running(e) /\ Completed(e, o)
  /\ Answer(e, o, k)
  /\ UNCHANGED <<clip, end, out, objs, hist>>
ReceiveRefused(e, o, k) ==
  /\ Running(e) /\ ~Completed(e, o) /\ Full(e, o)
  /\ Answer(e, o, "rejected")
  /\ UNCHANGED <<clip, end, out, objs, hist>>
ReceivePart(e, o, k) ==
  LET got == Got(e, o) \cup {k} IN
  /\ Running(e) /\ ~Completed(e, o) /\ ~Full(e, o) /\ got # Chunk
  /\ end' = [end EXCEPT ![e].inbound = Without(e, o) \cup {[o |-> o, got |-> got]}]
  /\ Answer(e, o, k)
  /\ UNCHANGED <<clip, out, objs, hist>>

\* The last missing chunk.
Completes(e, o, k) ==
  Running(e) /\ ~Completed(e, o) /\ ~Full(e, o) /\ Got(e, o) \cup {k} = Chunk
Finished(s, e, o) ==
  [s EXCEPT !.inbound = Without(e, o), !.completed = Remember(s.completed, o)]
ReceiveEcho(e, o, k) ==
  /\ Completes(e, o, k) /\ Echo(e, objs[Peer(e)][o])
  /\ end' = [end EXCEPT ![e] = Finished(@, e, o)]
  /\ Answer(e, o, k)
  /\ UNCHANGED <<clip, out, objs, hist>>
\* Mutant: the endpoint does not note what it writes.
AppliedUnnoted(s, c) == s
Applied(s, c) == [s EXCEPT !.applied = c]
\* write_clipboard: the endpoint notes what it was given, not what the system
\* makes of it.
Put(e, c) == clip' = [clip EXCEPT ![e] = [c |-> c, put |-> TRUE, new |-> FALSE]]
WriteClipboard(e, o, k) ==
  LET c == objs[Peer(e)][o] IN
  /\ Completes(e, o, k) /\ ~Echo(e, c)
  /\ Put(e, Native[e][c])
  /\ end' = [end EXCEPT ![e] = Finished(Applied(@, c), e, o)]
  /\ hist' = [hist EXCEPT !.last[e] = c,
                          !.altered[e] = IF Native[e][c] = c THEN @ ELSE @ + 1]
  /\ Answer(e, o, k)
  /\ UNCHANGED <<out, objs>>
\* The system refuses the write, which may have changed the clipboard already:
\* the assembled object is gone.
WriteFails(e, o, k) ==
  LET c == objs[Peer(e)][o] IN
  /\ Completes(e, o, k) /\ ~Echo(e, c)
  /\ e \in Flaky
  /\ \/ /\ UNCHANGED clip
        /\ hist' = [hist EXCEPT !.lost = @ \cup {e}]
     \/ /\ hist.altered[e] < MaxTorn
        /\ \E r \in Torn[e][c] : Put(e, r)
        /\ hist' = [hist EXCEPT !.lost = @ \cup {e}, !.altered[e] = @ + 1]
  /\ end' = [end EXCEPT ![e].inbound = Without(e, o)]
  /\ Answer(e, o, "rejected")
  /\ UNCHANGED <<out, objs>>

\* run_clipboard_sync returns, cancelled or because the clipboard cannot be
\* read; the endpoint and the sending task go with it.
Ends(e) ==
  /\ Running(e)
  /\ out' = [out EXCEPT ![e] = [st |-> "off", pending |-> {}]]
  /\ end' = [end EXCEPT ![e] = Fresh]
  /\ acks' = [acks EXCEPT ![e] = {}]
  /\ UNCHANGED <<clip, objs, hist>>

-----------------------------------------------------------------------------
Init ==
  /\ clip = [e \in Side |-> [c |-> None, put |-> FALSE, new |-> FALSE]]
  /\ end = [e \in Side |-> Fresh]
  /\ out = [e \in Side |-> Idle]
  /\ objs = [e \in Side |-> <<>>]
  /\ acks = [e \in Side |-> {}]
  /\ hist = [copies |-> 0, copied |-> {}, failed |-> 0, lost |-> {},
             altered |-> [e \in Side |-> 0], last |-> [e \in Side |-> None]]

Outgoing(e) ==
  \/ PollQuiet(e) \/ PollOutgoing(e)
  \/ \E k \in Chunk : TakeAccepted(e, k)
  \/ WindowFails(e) \/ RetryOutgoing(e)
ReceiveEnvelope(e) ==
  \E o \in 1..Object(Peer(e)), k \in Chunk :
    \/ ReceiveRepeated(e, o, k) \/ ReceiveRefused(e, o, k) \/ ReceivePart(e, o, k)
    \/ ReceiveEcho(e, o, k) \/ WriteClipboard(e, o, k) \/ WriteFails(e, o, k)

Next ==
  \E e \in Side :
    \/ \E c \in Content : Copy(e, c)
    \/ Outgoing(e) \/ ReceiveEnvelope(e) \/ Ends(e)

Spec == Init /\ [][Next]_vars

-----------------------------------------------------------------------------
\* An endpoint whose peer has sent n objects, within the limits of what a
\* receiver keeps, each object once (inbound, completed).
Endpoints(n) ==
  [sent : Content \cup {None}, applied : Content \cup {None},
   inbound : SUBSET [o : 1..n, got : (SUBSET Chunk) \ {{}, Chunk}],
   completed : Seq(1..n)]
EndpointOK(s, n) ==
  /\ s \in Endpoints(n)
  /\ Len(s.completed) <= MaxCompleted /\ IsInjective(s.completed)
  /\ \A i, j \in s.inbound : i.o = j.o => i = j
  /\ IsFiniteSet(s.inbound) /\ Cardinality(s.inbound) <= MaxInbound
Clips == [c : Content \cup {None}, put : BOOLEAN, new : BOOLEAN]
Tasks == [st : {"idle", "sending", "failed", "off"}, pending : SUBSET Chunk]
Hists == [copies : Nat, copied : SUBSET Side, failed : Nat, lost : SUBSET Side,
          altered : [Side -> Nat], last : [Side -> Content \cup {None}]]
\* Types, and the limits of an endpoint.
ClipboardTypeOK ==
  /\ clip \in [Side -> Clips] /\ out \in [Side -> Tasks] /\ hist \in Hists
  /\ objs \in [Side -> Seq(Content)]
  /\ acks \in [Side -> SUBSET (Chunk \cup {"rejected"})]
  /\ DOMAIN end = Side /\ \A e \in Side : EndpointOK(end[e], Object(Peer(e)))

\* "suppresses echo loops", and how far: every transfer is owed to a user's copy,
\* to a failed transfer or to one write that the system did not return as it was
\* written; what came back as written is never sent back, also when transfers
\* cross, fail or are repeated.
Paid(e) == hist.copies + hist.failed + hist.altered[e] + hist.altered[Peer(e)]
TransfersOwed == \A e \in Side : Object(e) + Object(Peer(e)) <= Paid(e)

\* The receiver still knows every object of this side that it has finished: no
\* late chunk can start one of them again (remember_completed keeps 64).
Remembered(e) == Object(e) <= MaxCompleted

\* What an endpoint holds for sent has been received: when it no longer waits,
\* the other side has finished an object with that content, as long as no write
\* has failed there.
SentIsFinished ==
  \A e \in Side :
    out[e].st = "idle" /\ end[e].sent # None /\ Running(Peer(e)) /\ Remembered(e)
      /\ Peer(e) \notin hist.lost =>
      \E o \in 1..Object(e) : objs[e][o] = end[e].sent /\ Completed(Peer(e), o)

\* Nothing has come into this side's clipboard but what its endpoint wrote.
Passive(e) == e \notin hist.copied /\ hist.altered[e] = 0
\* While only one user copies, nothing fails and the other side's system returns
\* what is written to it, what counts as sent is what that side shows, also when
\* an earlier content comes back.
OneWayAgrees ==
  \A e \in Side :
    out[e].st = "idle" /\ clip[e].c # None /\ clip[e].c = end[e].sent
      /\ Remembered(e)
      /\ Passive(Peer(e)) /\ Peer(e) \notin hist.lost /\ hist.failed = 0 =>
      clip[Peer(e)].c = clip[e].c

-----------------------------------------------------------------------------
(* The inductive invariants behind these properties.                       *)

\* A side may start one more transfer without a new copy or a new failure: it
\* shows something that is no echo, or will try again.
Owes(e) ==
  /\ Running(e)
  /\ out[e].st = "failed" \/ (clip[e].c # None /\ ~Echo(e, clip[e].c))
Debt(e) == IF Owes(e) THEN 1 ELSE 0
\* Why TransfersOwed: that transfer is paid for already.
DebtsPaid ==
  \A e \in Side :
    Object(e) + Object(Peer(e)) + Debt(e) + Debt(Peer(e)) <= Paid(e)

\* The chunks the window has an answer for, read or not.
Answered(e) == (acks[e] \cap Chunk) \cup (Chunk \ out[e].pending)
\* What last_sent says, and what an answer stands for: the receiver has the
\* chunk, or has finished the object.
WindowTrue(e) ==
  LET p == Peer(e) IN
  /\ ~Sending(e) => acks[e] = {}
  /\ Running(e) /\ end[e].sent # None =>
       Object(e) # 0 /\ end[e].sent = objs[e][Object(e)]
  /\ Sending(e) => end[e].sent # None
  /\ Running(p) /\ p \notin hist.lost /\ Remembered(e) =>
       /\ Sending(e) => Completed(p, Object(e)) \/ Answered(e) \subseteq Got(p, Object(e))
       /\ out[e].st = "idle" /\ end[e].sent # None => Completed(p, Object(e))

\* A passive side has never had anything of its own: it shows what it wrote.
Silent(p) ==
  /\ objs[p] = <<>> /\ end[p].sent = None /\ end[Peer(p)].applied = None
  /\ Running(p) => end[p].applied = clip[p].c
\* While it is silent and nothing fails, the objects are finished one after the
\* other, and it shows the one it finished last.
OneWay(e) ==
  LET p == Peer(e)
      o == Object(e) IN
  Passive(p) =>
    /\ Silent(p)
    /\ p \notin hist.lost /\ hist.failed = 0 /\ Remembered(e) =>
         /\ out[e].st # "failed"
         /\ Running(p) =>
              \A q \in 1..o :
                Completed(p, q) \/ (q = o /\ out[e].st \in {"sending", "off"})
         /\ o # 0 /\ Completed(p, o) => clip[p].c = objs[e][o]
         /\ o # 0 /\ out[e].st = "idle" => clip[p].c = objs[e][o]
         /\ Sending(e) /\ ~Running(p) =>
              clip[p].c = objs[e][o] \/ Answered(e) # Chunk

\* All of it.
ClipboardInv ==
  /\ ClipboardTypeOK /\ DebtsPaid
  /\ \A e \in Side : WindowTrue(e) /\ OneWay(e)

\* "turns changed clipboard bundles into reliable data-plane envelopes": what
\* the user copied and the endpoint has seen is the last thing exchanged.
ChangesTravel ==
  \A e \in Side :
    clip[e].c # None /\ ~clip[e].put /\ ~clip[e].new => hist.last[e] = clip[e].c
=============================================================================
