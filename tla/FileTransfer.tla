----------------------------- MODULE FileTransfer -----------------------------
(***************************************************************************)
(* Sending files over the lossy data plane: one side's send tasks          *)
(* (file_transfer_runtime.rs) with their selective-repeat windows          *)
(* (file_delivery.rs), and the other side's InboundFileTransfers, which    *)
(* puts the chunks on disk (file_transfer.rs).                             *)
(*                                                                         *)
(* A task sends one file, or the files of a group one after the other; a   *)
(* clipboard group is announced first. A message stays in net for ever, so *)
(* that it may be handled late, often or never: this is loss, reordering   *)
(* and duplication, and the retries of drain_to as well. The handlers of   *)
(* the receiving loop run one at a time. Bytes, names and checksums are    *)
(* left out: whatever fails on the receiving disk fails the handler.       *)
(* A manifest fits in one chunk. completed_files is never so full (4096)   *)
(* that it forgets.                                                        *)
(***************************************************************************)
EXTENDS Naturals, Sequences, FiniteSets, SequencesExt

CONSTANTS
  Task,         \* send commands
  Files,        \* the files of each task, in order
  Chunks,       \* number of chunks of each file, 0 for an empty one
  Grouped, Clipboard,   \* tasks that send a group, a group for the clipboard
  Window,       \* unacknowledged chunks of a window: 32
  MaxTasks,     \* send tasks at a time: 4
  MaxIncoming,  \* files being received: 16
  MaxGroups,    \* groups being received, clipboard groups announced: 32
  First, Dir,   \* the receive directory at first, and the ones chosen later
  Fragile       \* bound: the files whose finish may fail after it has published

NoDir == "none"
FilesOf == [t \in Task |-> ToSet(Files[t])]
File == UNION {FilesOf[t] : t \in Task}
TaskOf == [f \in File |-> CHOOSE t \in Task : f \in FilesOf[t]]

ASSUME TransferAssumption ==
  /\ Files \in [Task -> Seq(File)] /\ \A t \in Task : Files[t] # <<>>
  /\ Chunks \in [File -> Nat]
  /\ Clipboard \subseteq Grouped /\ Grouped \subseteq Task
  /\ \A t \in Task \ Grouped : Len(Files[t]) = 1
  /\ \A s, t \in Task : \A i \in DOMAIN Files[s], j \in DOMAIN Files[t] :
       Files[s][i] = Files[t][j] => s = t /\ i = j
  /\ Window \in Nat \ {0} /\ MaxTasks \in Nat \ {0}
  /\ MaxIncoming \in Nat \ {0} /\ MaxGroups \in Nat \ {0}
  /\ NoDir \notin Dir \cup {First} /\ 0 \notin File

VARIABLES
  task,       \* the send tasks; acked and refused are the replies, under way or
              \* in the channel of the window, that it has not read
  cancelT, cancelG,   \* FileTransferCancelState: files, groups
  net,        \* messages sent
  got,        \* incoming_files: the chunks written, or Closed
  done,       \* completed_files
  group,      \* incoming_groups: the files recorded, {} when there is none
  deadF, deadG,       \* cancelled_file_objects, cancelled_groups
  clip,       \* clipboard_groups
  dir, nextDir,       \* receive_dir, pending_receive_config
  disk,       \* where a received file is, NoDir when it is not
  stray,      \* files that finish has published and then failed on: a copy is on
              \* disk that nothing records, beside which a later one is numbered
  log         \* history: events reported to the application, files that could not
              \* be finished (broken) or deleted (kept)

vars == <<task, cancelT, cancelG, net, got, done, group, deadF, deadG, clip,
          dir, nextDir, disk, stray, log>>

flags == <<cancelT, cancelG>>
tombs == <<deadF, deadG>>

-----------------------------------------------------------------------------
Closed == {0}     \* not a set of chunks: they are numbered from 1
Opened(f) == got[f] # Closed

Current(t) == Files[t][task[t].file]
Active == {"announce", "manifest", "data"}
\* The closure of send_reader, and handle_outgoing_cancel's condition.
Cancelled(t) == t \in cancelG \/ Current(t) \in cancelT

Announce(t) == [kind |-> "announce", task |-> t]
Manifest(f) == [kind |-> "manifest", file |-> f]
Chunk(f, i) == [kind |-> "chunk", file |-> f, index |-> i]
CancelFile(f) == [kind |-> "cancelFile", file |-> f]
CancelGroup(t) == [kind |-> "cancelGroup", task |-> t]

NewTask == [phase |-> "idle", file |-> 1, next |-> 1, pending |-> {}, acked |-> {},
            refused |-> FALSE]

Init ==
  /\ task = [t \in Task |-> NewTask]
  /\ cancelT = {} /\ cancelG = {}
  /\ net = {}
  /\ got = [f \in File |-> Closed] /\ done = {} /\ group = [t \in Task |-> {}]
  /\ deadF = {} /\ deadG = {} /\ clip = {}
  /\ dir = First /\ nextDir = NoDir
  /\ disk = [f \in File |-> NoDir] /\ stray = {}
  /\ log = [sent |-> {}, received |-> [f \in File |-> 0], whole |-> {}, pasted |-> {},
            undone |-> {}, broken |-> {}, kept |-> {}]

receiving == <<got, done, group, tombs, clip, dir, nextDir, disk, stray>>

-----------------------------------------------------------------------------
(* The sending side.                                                       *)

Going == {t \in Task : task[t].phase \in Active}

\* The task goes on with its file number n: a new window, and in it number 0,
\* the manifest.
BeginFile(t, n) ==
  /\ task' = [task EXCEPT ![t] = [NewTask EXCEPT !.phase = "manifest", !.file = n,
                                                 !.pending = {0}]]
  /\ net' = net \cup {Manifest(Files[t][n])}

\* The task is over, and its window closed.
Ends(t, phase) == [task EXCEPT ![t] = [NewTask EXCEPT !.phase = phase, !.file = task[t].file]]

\* SendFile, SendFileGroup, SendClipboardFiles: refused while four are active,
\* and when a file cannot be opened.
Start(t) ==
  /\ task[t].phase = "idle"
  /\ \/ /\ Cardinality(Going) < MaxTasks
        /\ IF t \in Clipboard
           THEN /\ task' = [task EXCEPT ![t] = [NewTask EXCEPT !.phase = "announce",
                                                              !.pending = {0}]]
                /\ net' = net \cup {Announce(t)}
           ELSE BeginFile(t, 1)
     \/ task' = Ends(t, "failed") /\ UNCHANGED net
  /\ UNCHANGED <<flags, receiving, log>>

\* CancelTransfer and CancelGroup of the user: flags the task polls; a second
\* one tells it nothing new.
UserCancels(t) ==
  /\ t \in Going /\ ~Cancelled(t)
  /\ \/ t \in Grouped /\ cancelG' = cancelG \cup {t} /\ UNCHANGED cancelT
     \/ task[t].phase # "announce" /\ cancelT' = cancelT \cup {Current(t)} /\ UNCHANGED cancelG
  /\ UNCHANGED <<task, net, receiving, log>>

\* Mutant: the announcement is sent and not waited for.
AnnouncedEarly(t) ==
  /\ task[t].phase = "announce"
  /\ IF t \in cancelG THEN task' = Ends(t, "failed") /\ UNCHANGED net
     ELSE BeginFile(t, 1)
  /\ UNCHANGED <<flags, receiving, log>>

\* The announcement is confirmed. A group cancelled by then is dropped in
\* silence.
Announced(t) ==
  /\ task[t].phase = "announce" /\ task[t].pending = {}
  /\ IF t \in cancelG THEN task' = Ends(t, "failed") /\ UNCHANGED net
     ELSE BeginFile(t, 1)
  /\ UNCHANGED <<flags, receiving, log>>

\* drain_to returns false while the announcement is unconfirmed.
AnnounceCancelled(t) ==
  /\ task[t].phase = "announce" /\ task[t].pending # {} /\ t \in cancelG
  /\ task' = Ends(t, "failed")
  /\ UNCHANGED <<flags, net, receiving, log>>

\* The manifest is confirmed: only then is data sent.
ManifestAccepted(t) ==
  /\ task[t].phase = "manifest" /\ task[t].pending = {} /\ ~Cancelled(t)
  /\ task' = [task EXCEPT ![t].phase = "data"]
  /\ UNCHANGED <<flags, net, receiving, log>>

AllSent(t) == task[t].next > Chunks[Current(t)]

\* drain_to(WINDOW - 1) makes room for the next chunk.
HasRoom(t) == Cardinality(task[t].pending) < Window

SendChunk(t) ==
  /\ task[t].phase = "data" /\ ~AllSent(t) /\ HasRoom(t) /\ ~Cancelled(t)
  /\ LET i == task[t].next IN
     /\ task' = [task EXCEPT ![t].next = i + 1, ![t].pending = @ \cup {i}]
     /\ net' = net \cup {Chunk(Current(t), i)}
  /\ UNCHANGED <<flags, receiving, log>>

\* drain_to reads replies only while it waits.
Draining(t) ==
  /\ t \in Going /\ task[t].pending # {}
  /\ task[t].phase = "data" /\ ~AllSent(t) => ~HasRoom(t)

TakeAccepted(t) ==
  /\ Draining(t)
  /\ \E i \in task[t].acked :
       task' = [task EXCEPT ![t].pending = @ \ {i}, ![t].acked = @ \ {i}]
  /\ UNCHANGED <<flags, net, receiving, log>>

TakeRejected(t) ==
  /\ Draining(t) /\ task[t].refused
  /\ task' = Ends(t, "failed")
  /\ UNCHANGED <<flags, net, receiving, log>>

\* No confirmation in 30 s: the send fails, and nobody tells the receiver.
TimesOut(t) ==
  /\ Draining(t)
  /\ task' = Ends(t, "failed")
  /\ UNCHANGED <<flags, net, receiving, log>>

\* handle_outgoing_cancel: one unconfirmed control message; a file of a group
\* takes the whole group with it.
CancelSeen(t) ==
  /\ task[t].phase \in {"manifest", "data"} /\ Cancelled(t)
  /\ task' = Ends(t, "cancelled")
  /\ net' = net \cup {IF t \in Grouped THEN CancelGroup(t) ELSE CancelFile(Current(t))}
  /\ cancelG' = IF t \in Grouped THEN cancelG \cup {t} ELSE cancelG
  /\ UNCHANGED <<cancelT, receiving, log>>

\* Mutant: the file is reported when it is sent, without the last flush.
FileConfirmedEarly(t) ==
  /\ task[t].phase = "data" /\ AllSent(t) /\ ~Cancelled(t)
  /\ log' = [log EXCEPT !.sent = @ \cup {Current(t)}]
  /\ IF task[t].file < Len(Files[t]) THEN BeginFile(t, task[t].file + 1)
     ELSE task' = Ends(t, "completed") /\ UNCHANGED net
  /\ UNCHANGED <<flags, receiving>>

\* Everything of the file is confirmed: OutgoingCompleted, and the next file.
FileConfirmed(t) ==
  /\ task[t].phase = "data" /\ AllSent(t) /\ task[t].pending = {} /\ ~Cancelled(t)
  /\ log' = [log EXCEPT !.sent = @ \cup {Current(t)}]
  /\ IF task[t].file < Len(Files[t]) THEN BeginFile(t, task[t].file + 1)
     ELSE task' = Ends(t, "completed") /\ UNCHANGED net
  /\ UNCHANGED <<flags, receiving>>

-----------------------------------------------------------------------------
(* The receiving side: InboundFileTransfers::handle_envelope.              *)

\* Mutant: an error is reported to the receiving application only.
ReplyAcksOnly(t, f, i, ok) ==
  LET routed == /\ t \in Going
                /\ IF f = 0 THEN task[t].phase = "announce"
                   ELSE task[t].phase # "announce" /\ Current(t) = f
  IN task' = IF routed /\ ok
             THEN [task EXCEPT ![t].acked = @ \cup ({i} \cap task[t].pending)] ELSE task

\* FileDeliveryTracker::route: the reply to number i of file f (or of the
\* announcement, f = 0) reaches the window it belongs to, while that is open.
\* A second ChunkAccepted for the same number tells nothing.
Reply(t, f, i, ok) ==
  LET routed == /\ t \in Going
                /\ IF f = 0 THEN task[t].phase = "announce"
                   ELSE task[t].phase # "announce" /\ Current(t) = f
  IN task' = CASE routed /\ ok -> [task EXCEPT ![t].acked = @ \cup ({i} \cap task[t].pending)]
               [] routed /\ ~ok -> [task EXCEPT ![t].refused = TRUE]
               [] OTHER -> task

\* Mutant: only files being received hold the receive configuration.
BusyFilesOnly(files, groups) == \E f \in File : files[f] # Closed
\* has_active_incoming_work
Busy(files, groups) == \/ \E f \in File : files[f] # Closed
                       \/ \E t \in Task : groups[t] # {}

\* apply_pending_receive_config_if_idle, after every envelope.
ConfigApplied ==
  IF nextDir # NoDir /\ ~Busy(got', group')
  THEN dir' = nextDir /\ nextDir' = NoDir
  ELSE UNCHANGED <<dir, nextDir>>

\* IncomingFileTransfer::finish has put the file into directory d:
\* record_group_completion, remember_completed, IncomingCompleted.
Finish(f, d) ==
  LET t == TaskOf[f]
      recorded == group[t] \cup {f}
      whole == t \in Grouped /\ recorded = FilesOf[t]
  IN /\ disk' = [disk EXCEPT ![f] = d]
     /\ done' = done \cup {f}
     /\ group' = [group EXCEPT ![t] = IF whole \/ t \notin Grouped THEN {} ELSE recorded]
     /\ clip' = IF whole THEN clip \ {t} ELSE clip
     /\ log' = [log EXCEPT !.received[f] = @ + 1,
                           !.whole = IF whole THEN @ \cup {t} ELSE @,
                           !.pasted = IF whole /\ t \in clip THEN @ \cup {t} ELSE @]
     /\ UNCHANGED stray

\* Nothing is finished, or finish has failed, perhaps only after it had published
\* the file: the temporary name cannot be removed, or the directory not synced.
Unfinished(f, failed, published) ==
  /\ log' = IF failed THEN [log EXCEPT !.broken = @ \cup {f}] ELSE log
  /\ stray' = IF published THEN stray \cup {f} ELSE stray
  /\ UNCHANGED <<done, group, clip, disk>>

\* Mutant: a manifest is only compared with the files being received.
KnownOpen(f) == Opened(f)
\* The manifest of a file being received, or received.
Known(f) == Opened(f) \/ f \in done

\* Mutant: only single files are looked up among the cancelled.
IsCancelledFile(f) == f \in deadF
\* is_manifest_cancelled
IsCancelled(f) == f \in deadF \/ TaskOf[f] \in deadG

\* The limits on incoming files and groups.
Fits(f) ==
  /\ Cardinality({g \in File : Opened(g)}) < MaxIncoming
  /\ \/ TaskOf[f] \notin Grouped \/ group[TaskOf[f]] # {}
     \/ Cardinality({t \in Task : group[t] # {}}) < MaxGroups

\* handle_manifest: an empty file is finished at once.
HandleManifest(f) ==
  /\ Manifest(f) \in net
  /\ \E works \in BOOLEAN, published \in {FALSE, (f \in Fragile)} :
       LET admitted == ~IsCancelled(f) /\ ~Known(f) /\ Fits(f)
           new == admitted /\ works
       IN /\ IF new /\ Chunks[f] = 0 THEN Finish(f, dir)
             ELSE Unfinished(f, FALSE, admitted /\ ~works /\ Chunks[f] = 0 /\ published)
          /\ got' = IF new /\ Chunks[f] > 0 THEN [got EXCEPT ![f] = {}] ELSE got
          /\ Reply(TaskOf[f], f, 0, new \/ (~IsCancelled(f) /\ Known(f)))
  /\ ConfigApplied
  /\ UNCHANGED <<flags, net, tombs>>

\* handle_file_chunk: a chunk that cannot be written leaves the file open; the
\* last one finishes it, and a failure of that closes it. The receive directory
\* has not changed since the file was opened.
HandleChunk(f, i) ==
  /\ Chunk(f, i) \in net
  /\ \E writes, finishes \in BOOLEAN, published \in {FALSE, (f \in Fragile)} :
       LET written == Opened(f) /\ (writes \/ i \in got[f])
           last == written /\ got[f] \cup {i} = 1..Chunks[f]
       IN /\ IF last /\ finishes THEN Finish(f, dir) ELSE Unfinished(f, last, last /\ published)
          /\ got' = IF ~written THEN got
                    ELSE [got EXCEPT ![f] = IF last THEN Closed ELSE @ \cup {i}]
          /\ Reply(TaskOf[f], f, i,
                   f \in done \/ (written /\ (last => finishes)))
  /\ ConfigApplied
  /\ UNCHANGED <<flags, net, tombs>>

\* ClipboardGroup
HandleAnnounce(t) ==
  /\ Announce(t) \in net
  /\ LET ok == t \in clip \/ Cardinality(clip) < MaxGroups
     IN /\ clip' = IF ok THEN clip \cup {t} ELSE clip
        /\ Reply(t, 0, 0, ok)
  /\ UNCHANGED <<got, done, group, disk, stray, log>>
  /\ ConfigApplied
  /\ UNCHANGED <<flags, net, tombs>>

\* cancel_incoming_file
HandleCancelFile(f) ==
  /\ CancelFile(f) \in net
  /\ deadF' = deadF \cup {f}
  /\ got' = [got EXCEPT ![f] = Closed]
  /\ UNCHANGED <<done, group, clip, disk, stray, deadG, log, net>>
  /\ ConfigApplied
  /\ UNCHANGED <<task, flags>>

\* cancel_incoming_group: the open files first, then what the group has already
\* put on disk. A deletion that fails ends it there, and what is left is no longer
\* recorded; otherwise IncomingGroupCancelled is reported, also for a group that
\* is complete or was cancelled before. clip is left alone.
HandleCancelGroup(t) ==
  LET upTo(n) == {Files[t][i] : i \in 1..n} IN
  /\ CancelGroup(t) \in net
  /\ deadG' = deadG \cup {t}
  /\ \/ \E n \in 1..Len(Files[t]) :
          /\ Opened(Files[t][n])
          /\ got' = [f \in File |-> IF f \in upTo(n) THEN Closed ELSE got[f]]
          /\ UNCHANGED <<disk, group, log>>
     \/ /\ got' = [f \in File |-> IF TaskOf[f] = t THEN Closed ELSE got[f]]
        /\ group' = [group EXCEPT ![t] = {}]
        /\ \E n \in 0..Len(Files[t]), reported \in BOOLEAN :
             LET deleted == group[t] \cap upTo(n)
             IN /\ reported => deleted = group[t]
                /\ disk' = [f \in File |-> IF f \in deleted THEN NoDir ELSE disk[f]]
                /\ log' = [log EXCEPT !.undone = IF reported THEN @ \cup {t} ELSE @,
                                      !.kept = @ \cup (group[t] \ deleted)]
  /\ UNCHANGED <<done, clip, stray, deadF, net>>
  /\ ConfigApplied
  /\ UNCHANGED <<task, flags>>

\* set_receive_config
SetReceiveConfig(d) ==
  /\ IF Busy(got, group) THEN nextDir' = d /\ UNCHANGED dir
     ELSE dir' = d /\ UNCHANGED nextDir
  /\ UNCHANGED <<task, flags, net, got, done, group, tombs, clip, disk, stray, log>>

-----------------------------------------------------------------------------
SendStep(t) ==
  \/ Start(t) \/ UserCancels(t) \/ Announced(t) \/ AnnounceCancelled(t)
  \/ ManifestAccepted(t) \/ SendChunk(t) \/ TakeAccepted(t) \/ TakeRejected(t)
  \/ TimesOut(t) \/ CancelSeen(t) \/ FileConfirmed(t)

ReceiveStep ==
  \/ \E f \in File : \/ HandleManifest(f) \/ HandleCancelFile(f)
                     \/ \E i \in 1..Chunks[f] : HandleChunk(f, i)
  \/ \E t \in Task : HandleAnnounce(t) \/ HandleCancelGroup(t)
  \/ \E d \in Dir : SetReceiveConfig(d)

Next == (\E t \in Task : SendStep(t)) \/ ReceiveStep

Spec == Init /\ [][Next]_vars

\* The send task goes on, and polls its flags and its replies.
Proceeds(t) == \/ Announced(t) \/ AnnounceCancelled(t) \/ ManifestAccepted(t) \/ SendChunk(t)
               \/ CancelSeen(t) \/ FileConfirmed(t) \/ TakeAccepted(t) \/ TakeRejected(t)

\* What a window waits for is resent every 500 ms.
HandlesAwaited(t) ==
  /\ t \in Going
  /\ \E i \in task[t].pending :
       LET f == Current(t) IN
       \/ i > 0 /\ HandleChunk(f, i)
       \/ i = 0 /\ task[t].phase = "manifest" /\ HandleManifest(f)
       \/ i = 0 /\ task[t].phase = "announce" /\ HandleAnnounce(t)

\* A message that is resent is handled in the end, as is its reply. Deadlines
\* are not relied upon.
Fairness == \A t \in Task : WF_vars(Proceeds(t)) /\ WF_vars(HandlesAwaited(t))

FairSpec == Spec /\ Fairness

-----------------------------------------------------------------------------
Messages ==
  {Announce(t) : t \in Task} \cup {CancelGroup(t) : t \in Task}
  \cup {Manifest(f) : f \in File} \cup {CancelFile(f) : f \in File}
  \cup UNION {{Chunk(f, i) : i \in 1..Chunks[f]} : f \in File}

\* Every variable has the shape its Rust type gives it; windows, the files
\* being received and the announced clipboard groups keep their limits.
FileTypeOK ==
  /\ \A t \in Task :
       /\ task[t].phase \in Active \cup {"idle", "completed", "cancelled", "failed"}
       /\ task[t].file \in 1..Len(Files[t])
       /\ task[t].next \in 1..(Chunks[Current(t)] + 1)
       /\ task[t].pending \subseteq 0..Chunks[Current(t)]
       /\ task[t].acked \subseteq task[t].pending /\ task[t].refused \in BOOLEAN
       /\ Cardinality(task[t].pending) <= Window
  /\ cancelT \subseteq File /\ cancelG \subseteq Grouped
  /\ net \subseteq Messages
  /\ \A f \in File : got[f] = Closed \/ got[f] \subseteq 1..Chunks[f]
  /\ Cardinality({f \in File : Opened(f)}) <= MaxIncoming
  /\ done \subseteq File /\ deadF \subseteq File /\ deadG \subseteq Grouped
  /\ \A t \in Task : group[t] \subseteq FilesOf[t]
  /\ clip \subseteq Clipboard /\ Cardinality(clip) <= MaxGroups
  /\ dir \in Dir \cup {First} /\ nextDir \in Dir \cup {NoDir}
  /\ disk \in [File -> Dir \cup {First, NoDir}] /\ stray \subseteq File

\* What the sender reports as sent is whole on the receiver's disk, whatever
\* was lost, repeated or reordered, unless the group it belongs to was taken
\* back, or the receiver failed to finish the file. That exception is needed:
\* a file that could not be finished is forgotten; a late copy of its manifest
\* opens it again, and the chunk the sender waits for is then accepted ("ACKs describe receiver
\* work, never just successful insertion into the local network queue",
\* file_delivery.rs).
Received(f) == f \in done /\ (disk[f] # NoDir \/ TaskOf[f] \in deadG)
SentIsReceived == \A f \in log.sent \ log.broken : Received(f)

\* A file is received once: a repeated manifest or chunk, early or long after
\* the end, never starts it again (completed_files).
ReceivedOnce == \A f \in File : log.received[f] <= 1

\* A cancellation that the receiver has reported lasts ("Cancelled groups do not
\* emit IncomingGroupCompleted"): no file of the group is open, a group that was
\* not complete never becomes so, and of what it had put on disk only what could
\* not be deleted is left. A copy that a failed finish had published already is
\* not deleted, as nothing records it (stray).
CancelLasts ==
  /\ [](\A t \in log.undone : \A f \in FilesOf[t] :
          ~Opened(f) /\ (disk[f] = NoDir \/ t \in log.whole \/ f \in log.kept))
  /\ [][\A t \in log.undone : t \in log'.whole => t \in log.whole]_vars

\* A group is reported, and put on the clipboard, only as a whole, and a sender
\* that reports it sent has it reported, and pasted, on the other side: the
\* announcement is there before the last file is. Again unless a file of it
\* could not be finished.
GroupWhole ==
  /\ \A t \in log.whole : \A f \in FilesOf[t] : disk[f] # NoDir
  /\ \A t \in Grouped :
       task[t].phase = "completed" /\ FilesOf[t] \cap log.broken = {} => t \in log.whole
  /\ log.whole \cap Clipboard = log.pasted

\* "One group is not split across destinations": however the receive directory
\* is changed while its files arrive.
GroupInOneDir ==
  \A t \in Grouped : \A f, g \in FilesOf[t] :
    disk[f] # NoDir /\ disk[g] # NoDir => disk[f] = disk[g]

\* No send hangs: without any deadline it is confirmed, refused or cancelled
\* in the end. The window, the manifest it waits for and the limits of the
\* receiver never block each other.
SendSettles == \A t \in Task : (t \in Going) ~> (t \notin Going)

===============================================================================
