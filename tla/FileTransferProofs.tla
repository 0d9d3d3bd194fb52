-------------------------- MODULE FileTransferProofs --------------------------
(***************************************************************************)
(* What a sender reports as sent has been received, once and whole, groups *)
(* in one directory, and a cancelled group stays cancelled: for all files, *)
(* groups, windows and limits, whatever the network loses, repeats or      *)
(* reorders and whatever fails on the receiving disk.                      *)
(***************************************************************************)
EXTENDS FileTransfer, TLAPS

Phases == Active \cup {"idle", "completed", "cancelled", "failed"}
Dirs == Dir \cup {First}
Logs == [sent : SUBSET File, received : [File -> Nat], whole : SUBSET Task,
         pasted : SUBSET Task, undone : SUBSET Task, broken : SUBSET File,
         kept : SUBSET File]
Types ==
  /\ task \in [Task -> [phase : Phases, file : Nat, next : Nat, pending : SUBSET Nat,
                        acked : SUBSET Nat, refused : BOOLEAN]]
  /\ \A t \in Task : task[t].file \in 1..Len(Files[t])
  /\ got \in [File -> SUBSET Nat] /\ done \in SUBSET File
  /\ group \in [Task -> SUBSET File] /\ clip \in SUBSET Clipboard
  /\ dir \in Dirs /\ nextDir \in Dirs \cup {NoDir}
  /\ disk \in [File -> Dirs \cup {NoDir}]
  /\ log \in Logs

\* A file at the receiver: it is open or done and never both, it is on disk when
\* it is done, and no open file lacks nothing (InboundFileTransfers).
FileOK(f) ==
  /\ Opened(f) => /\ got[f] \subseteq 1..Chunks[f] /\ got[f] # 1..Chunks[f]
                  /\ f \notin done /\ Manifest(f) \in net
  /\ log.received[f] = (IF f \in done THEN 1 ELSE 0)
  /\ disk[f] # NoDir => f \in done
  /\ f \in done => disk[f] # NoDir \/ TaskOf[f] \in deadG

\* Nothing of the group can arrive any more.
Over(t) ==
  /\ group[t] = {}
  /\ \A f \in FilesOf[t] : ~Opened(f) /\ (t \in deadG \/ f \in done)

\* A group at the receiver: what it has recorded is on disk, in the directory
\* in use; what is on disk and not recorded is left from a group that is over,
\* complete, or cancelled and not deleted; a group that was reported as cancelled
\* is over (record_group_completion, cancel_incoming_group).
GroupOK(t) ==
  /\ group[t] \subseteq FilesOf[t] \cap done /\ group[t] # FilesOf[t]
  /\ \A f \in group[t] : disk[f] = dir
  /\ t \in log.whole => \A f \in FilesOf[t] : disk[f] # NoDir
  /\ t \notin deadG \cup log.whole => FilesOf[t] \cap done \subseteq group[t]
  /\ \A f \in FilesOf[t] : disk[f] # NoDir => f \in group[t] \/ Over(t)
  /\ \A f, g \in FilesOf[t] : disk[f] # NoDir /\ disk[g] # NoDir => disk[f] = disk[g]
  /\ \A f \in FilesOf[t] : disk[f] # NoDir => f \in group[t] \cup log.kept \/ t \in log.whole
  /\ t \in log.undone => t \in deadG /\ Over(t)

\* What an acknowledgement stands for, as long as the receiver has not failed
\* to finish the file and the sender has not cancelled it.
Settled(f) == f \in done \cup log.broken
Accepted(f) == Settled(f) \/ Opened(f)
Has(f, i) == Settled(f) \/ (Opened(f) /\ i \in got[f])
Answered(t, i) == i \notin task[t].pending \/ i \in task[t].acked

\* A window: what is answered is at the receiver (ConfirmedDelivery).
WindowOK(t) ==
  LET s == task[t]
      f == Current(t) IN
  /\ s.acked \subseteq s.pending
  /\ s.phase = "manifest" => s.next = 1 /\ (Answered(t, 0) => Accepted(f))
  /\ s.phase = "data" =>
       /\ Accepted(f) /\ s.next \in 1..(Chunks[f] + 1) /\ s.pending \subseteq 1..(s.next - 1)
       /\ \A i \in 1..(s.next - 1) : Answered(t, i) => Has(f, i)
  /\ \A j \in 1..(s.file - 1) : Settled(Files[t][j])
  /\ s.phase = "completed" => \A f2 \in FilesOf[t] : Settled(f2)

\* The files reported as sent are settled at the receiver (OutgoingCompleted).
SentOK == \A f \in log.sent : Settled(f)

\* A cancellation reaches the receiver only after the task has ended.
CancelOK(t) ==
  /\ t \in deadG \/ CancelGroup(t) \in net => t \in Grouped /\ task[t].phase = "cancelled"
  /\ \A f \in FilesOf[t] : CancelFile(f) \in net => task[t].phase = "cancelled"

\* The announcement of a clipboard group is there before its files are.
AnnounceOK(t) ==
  /\ Announce(t) \in net => t \in Clipboard
  /\ task[t].phase = "announce" => t \in Clipboard
  /\ task[t].phase = "announce" /\ Answered(t, 0) => t \in clip \cup log.whole
  /\ t \in Clipboard =>
       /\ \A f \in FilesOf[t] : Manifest(f) \in net => t \in clip \cup log.whole
       /\ task[t].phase \in {"manifest", "data"} => t \in clip \cup log.whole

\* Groups are reported as a whole, and those of the clipboard pasted.
PasteOK ==
  /\ log.whole \cap Clipboard = log.pasted
  /\ log.whole \subseteq Grouped /\ log.undone \subseteq Grouped

Inv ==
  /\ Types /\ SentOK /\ PasteOK
  /\ \A f \in File : FileOK(f)
  /\ \A t \in Grouped : GroupOK(t)
  /\ \A t \in Task : WindowOK(t) /\ CancelOK(t) /\ AnnounceOK(t)

-----------------------------------------------------------------------------
(* Files, tasks and messages.                                              *)

\* Every file belongs to one task, which lists it (TransferAssumption).
LEMMA FileFacts ==
  /\ \A f \in File : /\ TaskOf[f] \in Task /\ f \in FilesOf[TaskOf[f]]
                     /\ Chunks[f] \in Nat /\ f # 0
  /\ \A t \in Task : /\ FilesOf[t] \subseteq File /\ FilesOf[t] # {}
                     /\ Len(Files[t]) \in Nat \ {0}
                     /\ \A n \in 1..Len(Files[t]) : Files[t][n] \in FilesOf[t]
                     /\ \A f \in FilesOf[t] : \E n \in 1..Len(Files[t]) : f = Files[t][n]
  /\ \A t \in Task : \A f \in FilesOf[t] : TaskOf[f] = t
<1>1. \A t \in Task : /\ Files[t] \in Seq(File) /\ Files[t] # <<>>
                     /\ DOMAIN Files[t] = 1..Len(Files[t]) /\ Len(Files[t]) \in Nat \ {0}
  BY TransferAssumption
<1>2. \A t \in Task : FilesOf[t] = {Files[t][n] : n \in 1..Len(Files[t])}
  BY <1>1 DEF FilesOf, ToSet
<1>3. \A f \in File : TaskOf[f] \in Task /\ f \in FilesOf[TaskOf[f]]
  BY DEF File, TaskOf
<1>4. \A t \in Task : FilesOf[t] \subseteq File
  BY DEF File
<1>5. ASSUME NEW t \in Task, NEW f \in FilesOf[t]
      PROVE  TaskOf[f] = t
  <2>1. f \in File BY <1>4
  <2>2. PICK i \in 1..Len(Files[t]) : f = Files[t][i] BY <1>2
  <2>3. PICK j \in 1..Len(Files[TaskOf[f]]) : f = Files[TaskOf[f]][j]
    BY <1>2, <1>3, <2>1
  <2> QED BY <1>1, <1>3, <2>1, <2>2, <2>3, TransferAssumption
<1>6. \A t \in Task : \A f \in FilesOf[t] : \E n \in 1..Len(Files[t]) : f = Files[t][n]
  BY <1>2
<1>7. \A t \in Task : \A n \in 1..Len(Files[t]) : Files[t][n] \in FilesOf[t]
  BY <1>2
<1>8. \A t \in Task : FilesOf[t] # {}
  <2>1. \A t \in Task : 1 \in 1..Len(Files[t]) BY <1>1
  <2> QED BY <1>7, <2>1
<1>9. \A f \in File : Chunks[f] \in Nat /\ f # 0
  BY TransferAssumption
<1> QED BY <1>1, <1>3, <1>4, <1>5, <1>6, <1>7, <1>8, <1>9

\* Messages tell their kind and their subject (DataEnvelope).
LEMMA MessageFacts ==
  /\ \A x, y : Announce(x) = Announce(y) => x = y
  /\ \A x, y : CancelGroup(x) = CancelGroup(y) => x = y
  /\ \A x, y : Manifest(x) = Manifest(y) => x = y
  /\ \A x, y : CancelFile(x) = CancelFile(y) => x = y
  /\ \A x, y : /\ Announce(x) # CancelGroup(y) /\ Announce(x) # Manifest(y)
               /\ Announce(x) # CancelFile(y) /\ CancelGroup(x) # Manifest(y)
               /\ CancelGroup(x) # CancelFile(y) /\ Manifest(x) # CancelFile(y)
  /\ \A x, y, i : /\ Announce(x) # Chunk(y, i) /\ CancelGroup(x) # Chunk(y, i)
                  /\ Manifest(x) # Chunk(y, i) /\ CancelFile(x) # Chunk(y, i)
BY DEF Announce, CancelGroup, Manifest, CancelFile, Chunk

-----------------------------------------------------------------------------
(* The receiver's files.                                                   *)

Whole == <<log.received, log.whole, log.undone, log.kept>>

\* The receive configuration changes only while no group is on its way
\* (apply_pending_receive_config_if_idle).
LEMMA ConfigStep ==
  ASSUME Types, ConfigApplied
  PROVE  /\ dir' \in Dirs /\ nextDir' \in Dirs \cup {NoDir}
         /\ dir' = dir \/ \A t \in Task : group'[t] = {}
BY DEF Types, Logs, ConfigApplied, Busy

\* A step that only opens, fills or closes files.
LEMMA GotStep ==
  ASSUME Types, \A f \in File : FileOK(f), \A t \in Grouped : GroupOK(t),
         got' \in [File -> SUBSET Nat],
         \A f \in File : Opened(f)' =>
           /\ got'[f] \subseteq 1..Chunks[f] /\ got'[f] # 1..Chunks[f]
           /\ f \notin done /\ Manifest(f) \in net
           /\ Opened(f) \/ TaskOf[f] \notin deadG,
         UNCHANGED <<done, group, deadG, disk, Whole>>, net \subseteq net',
         dir' = dir \/ \A t \in Task : group'[t] = {}
  PROVE  (\A f \in File : FileOK(f))' /\ (\A t \in Grouped : GroupOK(t))'
<1>1. ASSUME NEW f \in File PROVE FileOK(f)'
  BY <1>1 DEF FileOK, Whole
<1>2. ASSUME NEW t \in Grouped PROVE GroupOK(t)'
  <2>0. t \in Task /\ FilesOf[t] \subseteq File /\ (\A f \in FilesOf[t] : TaskOf[f] = t)
    BY <1>2, FileFacts, TransferAssumption
  <2>1. Over(t) => Over(t)'
    BY <2>0 DEF Over
  <2> QED BY <2>0, <2>1, <1>2 DEF GroupOK, Whole
<1> QED BY <1>1, <1>2

\* A file that is finished: it is open, or an empty one that is neither done nor
\* cancelled (IncomingFileTransfer::finish, record_group_completion).
LEMMA FinishStep ==
  ASSUME Types, \A f \in File : FileOK(f), \A t \in Grouped : GroupOK(t),
         NEW f \in File, Finish(f, dir),
         Opened(f) \/ (f \notin done /\ TaskOf[f] \notin deadG),
         got' = [got EXCEPT ![f] = Closed],
         UNCHANGED <<deadG, net>>, ConfigApplied
  PROVE  (\A g \in File : FileOK(g))' /\ (\A t \in Grouped : GroupOK(t))'
<1> DEFINE t == TaskOf[f]
           whole == t \in Grouped /\ group[t] \cup {f} = FilesOf[t]
<1>0. /\ t \in Task /\ f \in FilesOf[t] /\ f \notin done /\ NoDir # dir /\ dir \in Dirs
      /\ \A u \in Task : \A g \in FilesOf[u] : g \in File /\ TaskOf[g] = u
      /\ Grouped \subseteq Task
  BY FileFacts, TransferAssumption DEF FileOK, Types, Logs, Dirs
<1>1. /\ done' = done \cup {f} /\ disk' = [disk EXCEPT ![f] = dir]
      /\ group' = [group EXCEPT ![t] = IF whole \/ t \notin Grouped THEN {}
                                       ELSE group[t] \cup {f}]
      /\ log'.received = [log.received EXCEPT ![f] = log.received[f] + 1]
      /\ log'.whole = (IF whole THEN log.whole \cup {t} ELSE log.whole)
      /\ log'.undone = log.undone /\ log'.kept = log.kept
  BY DEF Finish, Types, Logs
<1>2. dir' = dir \/ \A u \in Task : group'[u] = {}
  BY ConfigStep
<1>3. ~Opened(f)' /\ \A g \in File \ {f} : got'[g] = got[g]
  BY DEF Types, Logs, Opened
<1>4. ASSUME NEW g \in File PROVE FileOK(g)'
  <2>1. CASE g = f
    <3>1. disk'[f] = dir /\ log'.received[f] = 1
      BY <1>0, <1>1 DEF FileOK, Types, Logs
    <3> QED BY <1>0, <1>1, <1>3, <2>1, <3>1 DEF FileOK
  <2>2. CASE g # f
    <3>1. disk'[g] = disk[g] /\ log'.received[g] = log.received[g] /\ (g \in done' <=> g \in done)
      BY <1>1, <1>4, <2>2 DEF Types, Logs
    <3> QED BY <1>3, <1>4, <2>2, <3>1 DEF FileOK, Opened
  <2> QED BY <2>1, <2>2
<1>5. ASSUME NEW u \in Grouped, u # t PROVE GroupOK(u)'
  <2>1. \A g \in FilesOf[u] : /\ g # f /\ disk'[g] = disk[g] /\ (g \in done' <=> g \in done)
                              /\ (Opened(g)' <=> Opened(g))
    BY <1>0, <1>1, <1>3, <1>5 DEF Types, Logs, Opened
  <2>2. group'[u] = group[u] /\ (u \in log'.whole <=> u \in log.whole) /\ u \in Task
    BY <1>0, <1>1, <1>5 DEF Types, Logs
  <2>3. Over(u)' <=> Over(u)
    BY <2>1, <2>2 DEF Over
  <2> QED BY <1>1, <1>2, <2>1, <2>2, <2>3, <1>5 DEF GroupOK
<1>6. ASSUME t \in Grouped PROVE GroupOK(t)'
  <2>0. GroupOK(t) BY <1>6
  <2>1. ~Over(t) BY <1>0 DEF Over
  <2>2. \A g \in FilesOf[t] : disk[g] # NoDir => g \in group[t] /\ disk[g] = dir
    BY <2>0, <2>1 DEF GroupOK
  <2>3. t \notin log.undone /\ t \notin log.whole
    <3>1. t \notin log.undone BY <2>0, <2>1 DEF GroupOK
    <3>2. disk[f] = NoDir BY <1>0 DEF FileOK
    <3> QED BY <2>0, <1>0, <3>1, <3>2 DEF GroupOK
  <2>4. \A g \in FilesOf[t] : /\ disk'[g] = (IF g = f THEN dir ELSE disk[g])
                              /\ (g \in done' <=> g \in done \/ g = f)
                              /\ (Opened(g)' <=> Opened(g) /\ g # f)
    BY <1>0, <1>1, <1>3 DEF Types, Logs, Opened
  <2>5. group[t] \subseteq FilesOf[t] \cap done
    BY <2>0 DEF GroupOK
  <2>6. CASE whole
    <3>1. group'[t] = {} /\ t \in log'.whole
      BY <1>0, <1>1, <2>6 DEF Types, Logs
    <3>2. \A g \in FilesOf[t] : g \in done' /\ ~Opened(g)' /\ disk'[g] = dir
      <4>1. \A g \in FilesOf[t] : g = f \/ g \in group[t] BY <2>6
      <4>2. \A g \in group[t] : disk[g] = dir /\ g \in done /\ ~Opened(g)
        BY <2>0, <2>5, <1>0 DEF GroupOK, FileOK
      <4> QED BY <2>4, <4>1, <4>2
    <3>3. Over(t)'
      BY <3>1, <3>2 DEF Over
    <3> QED BY <1>0, <1>1, <2>3, <3>1, <3>2, <3>3 DEF GroupOK
  <2>7. CASE ~whole
    <3>1. group'[t] = group[t] \cup {f} /\ log'.whole = log.whole
      BY <1>0, <1>1, <1>6, <2>7 DEF Types, Logs
    <3>2. dir' = dir BY <1>0, <1>2, <3>1
    <3>3. \A g \in group'[t] : disk'[g] = dir
      BY <1>0, <2>0, <2>4, <2>5, <3>1 DEF GroupOK
    <3>4. \A g \in FilesOf[t] : disk'[g] # NoDir => g \in group'[t]
      BY <2>2, <2>4, <3>1
    <3>5. t \notin deadG => FilesOf[t] \cap done' \subseteq group'[t]
      BY <2>0, <2>3, <2>4, <3>1 DEF GroupOK
    <3>6. group'[t] # FilesOf[t] /\ group'[t] \subseteq FilesOf[t] \cap done'
      BY <1>0, <1>1, <1>6, <2>5, <2>7, <3>1
    <3> QED BY <1>1, <2>3, <3>1, <3>2, <3>3, <3>4, <3>5, <3>6 DEF GroupOK
  <2> QED BY <2>6, <2>7
<1> QED BY <1>4, <1>5, <1>6

\* A group that is cancelled, up to the first deletion that fails
\* (cancel_incoming_group).
LEMMA CancelGroupStep ==
  ASSUME Types, \A f \in File : FileOK(f), \A t \in Grouped : GroupOK(t),
         NEW t \in Grouped, HandleCancelGroup(t)
  PROVE  /\ (\A f \in File : FileOK(f))' /\ (\A u \in Grouped : GroupOK(u))'
         /\ \A f \in File : TaskOf[f] # t => got'[f] = got[f]
         /\ got' \in [File -> SUBSET Nat] /\ group' \in [Task -> SUBSET File]
         /\ disk' \in [File -> Dirs \cup {NoDir}]
         /\ log' \in Logs
         /\ log' = [log EXCEPT !.undone = log'.undone, !.kept = log'.kept]
<1>0. /\ t \in Task /\ FilesOf[t] \subseteq File /\ deadG' = deadG \cup {t}
      /\ UNCHANGED <<done, net>> /\ Grouped \subseteq Task
      /\ \A u \in Task : \A g \in FilesOf[u] : g \in File /\ TaskOf[g] = u
      /\ \A n \in 1..Len(Files[t]) : Files[t][n] \in FilesOf[t]
      /\ \A f \in File : TaskOf[f] = t <=> f \in FilesOf[t]
  BY FileFacts, TransferAssumption DEF HandleCancelGroup
<1>1. dir' = dir \/ \A u \in Task : group'[u] = {}
  BY ConfigStep DEF HandleCancelGroup
<1> DEFINE upTo(n) == {Files[t][i] : i \in 1..n}
<1>2. CASE \E n \in 1..Len(Files[t]) :
             /\ Opened(Files[t][n])
             /\ got' = [f \in File |-> IF f \in upTo(n) THEN Closed ELSE got[f]]
             /\ UNCHANGED <<disk, group, log>>
  <2>1. PICK n \in 1..Len(Files[t]) :
             /\ Opened(Files[t][n])
             /\ got' = [f \in File |-> IF f \in upTo(n) THEN Closed ELSE got[f]]
             /\ UNCHANGED <<disk, group, log>>
    BY <1>2
  <2>2. upTo(n) \subseteq FilesOf[t]
    BY <1>0, <2>1
  <2>3. \A f \in File : got'[f] = got[f] \/ (got'[f] = Closed /\ f \in FilesOf[t])
    BY <2>1, <2>2
  <2>4. got' \in [File -> SUBSET Nat]
    BY <2>1 DEF Types, Logs, Closed
  <2>5. ASSUME NEW f \in File PROVE FileOK(f)'
    BY <1>0, <2>1, <2>3, <2>5 DEF FileOK, Opened
  <2>6. ASSUME NEW u \in Grouped PROVE GroupOK(u)'
    <3>1. Over(u) => Over(u)'
      BY <1>0, <2>1, <2>3, <2>6 DEF Over, Opened
    <3> QED BY <1>0, <1>1, <2>1, <2>6, <3>1 DEF GroupOK
  <2> QED BY <1>0, <2>1, <2>3, <2>4, <2>5, <2>6 DEF Types, Logs
<1>3. CASE /\ got' = [f \in File |-> IF TaskOf[f] = t THEN Closed ELSE got[f]]
           /\ group' = [group EXCEPT ![t] = {}]
           /\ \E n \in 0..Len(Files[t]), reported \in BOOLEAN :
                LET deleted == group[t] \cap upTo(n)
                IN /\ reported => deleted = group[t]
                   /\ disk' = [f \in File |-> IF f \in deleted THEN NoDir ELSE disk[f]]
                   /\ log' = [log EXCEPT !.undone = IF reported THEN @ \cup {t} ELSE @,
                                         !.kept = @ \cup (group[t] \ deleted)]
  <2>1. PICK deleted \in SUBSET group[t], reported \in BOOLEAN :
          /\ disk' = [f \in File |-> IF f \in deleted THEN NoDir ELSE disk[f]]
          /\ log' = [log EXCEPT !.undone = IF reported THEN @ \cup {t} ELSE @,
                                !.kept = @ \cup (group[t] \ deleted)]
    BY <1>3
  <2>2. /\ group'[t] = {} /\ \A u \in Task \ {t} : group'[u] = group[u]
        /\ \A f \in File : got'[f] = (IF f \in FilesOf[t] THEN Closed ELSE got[f])
    BY <1>0, <1>3 DEF Types, Logs
  <2>3. GroupOK(t) BY DEF GroupOK
  <2>4. deleted \subseteq FilesOf[t]
    BY <2>1, <2>3 DEF GroupOK
  <2>5. \A f \in File : disk'[f] = (IF f \in deleted THEN NoDir ELSE disk[f])
    BY <2>1
  <2>6. /\ log' = [log EXCEPT !.undone = log'.undone, !.kept = log'.kept]
        /\ log'.received = log.received /\ log'.whole = log.whole
        /\ log'.kept = log.kept \cup (group[t] \ deleted)
        /\ \A u \in Task : u # t => (u \in log'.undone <=> u \in log.undone)
    BY <1>0, <2>1 DEF Types, Logs
  <2>7. log' \in Logs
    BY <1>0, <2>1 DEF Types, Logs
  <2>8. ASSUME NEW f \in File PROVE FileOK(f)'
    BY <1>0, <2>2, <2>4, <2>5, <2>6, <2>8 DEF FileOK, Opened
  <2>9. ASSUME NEW u \in Grouped, u # t PROVE GroupOK(u)'
    <3>1. /\ \A f \in FilesOf[u] : got'[f] = got[f] /\ disk'[f] = disk[f]
          /\ group'[u] = group[u] /\ (u \in deadG' <=> u \in deadG)
      BY <1>0, <2>2, <2>4, <2>5, <2>9
    <3>2. Over(u) => Over(u)'
      BY <1>0, <3>1, <2>9 DEF Over, Opened
    <3> QED BY <1>0, <1>1, <2>6, <2>9, <3>1, <3>2 DEF GroupOK
  <2>10. GroupOK(t)'
    <3>1. Over(t)'
      BY <1>0, <2>2 DEF Over, Opened
    <3>2. t \in log.whole => deleted = {}
      <4>1. \E f \in FilesOf[t] : f \notin group[t]
        BY <2>3 DEF GroupOK
      <4> QED BY <2>1, <2>3, <4>1 DEF GroupOK, Over
    <3>3. \A f \in FilesOf[t] : disk'[f] # NoDir => f \in log'.kept \/ t \in log'.whole
      BY <1>0, <2>3, <2>5, <2>6 DEF GroupOK
    <3>4. t \in log'.whole => \A f \in FilesOf[t] : disk'[f] # NoDir
      BY <1>0, <2>3, <2>5, <2>6, <3>2 DEF GroupOK
    <3>5. \A f, g \in FilesOf[t] : disk'[f] # NoDir /\ disk'[g] # NoDir => disk'[f] = disk'[g]
      BY <1>0, <2>3, <2>5 DEF GroupOK
    <3> QED BY <1>0, <2>2, <2>6, <3>1, <3>3, <3>4, <3>5, FileFacts DEF GroupOK
  <2>11. got' \in [File -> SUBSET Nat] /\ group' \in [Task -> SUBSET File]
         /\ disk' \in [File -> Dirs \cup {NoDir}]
    <3>1. got' \in [File -> SUBSET Nat] BY <1>3 DEF Types, Logs, Closed
    <3>2. group' \in [Task -> SUBSET File] BY <1>3 DEF Types, Logs
    <3>3. disk' \in [File -> Dirs \cup {NoDir}]
      BY <2>1 DEF Types, Logs
    <3> QED BY <3>1, <3>2, <3>3
  <2> QED BY <1>0, <2>2, <2>6, <2>7, <2>8, <2>9, <2>10, <2>11
<1> QED BY <1>2, <1>3 DEF HandleCancelGroup

\* What the receiver reports of a finished file, and a whole group of the
\* clipboard is pasted.
LEMMA FinishReport ==
  ASSUME Inv, NEW f \in File, Finish(f, dir),
         Opened(f) \/ (f \notin done /\ TaskOf[f] \notin deadG), Manifest(f) \in net
  PROVE  /\ done' \in SUBSET File /\ group' \in [Task -> SUBSET File]
         /\ clip' \in SUBSET Clipboard /\ disk' \in [File -> Dirs \cup {NoDir}]
         /\ log' \in Logs
         /\ PasteOK' /\ clip \cup log.whole \subseteq clip' \cup log'.whole
         /\ log'.broken = log.broken /\ log'.sent = log.sent /\ done' = done \cup {f}
<1> DEFINE t == TaskOf[f]
           whole == t \in Grouped /\ group[t] \cup {f} = FilesOf[t]
<1>0. Types /\ t \in Task /\ f \in FilesOf[t] /\ dir \in Dirs
  BY FileFacts DEF Inv, Types, Logs
<1>1. /\ done' = done \cup {f} /\ disk' = [disk EXCEPT ![f] = dir]
      /\ group' = [group EXCEPT ![t] = IF whole \/ t \notin Grouped THEN {}
                                       ELSE group[t] \cup {f}]
      /\ clip' = (IF whole THEN clip \ {t} ELSE clip)
  BY DEF Finish
<1>3. log' \in Logs
  <2> DEFINE received == [log.received EXCEPT ![f] = @ + 1]
  <2>1. received \in [File -> Nat]
    BY <1>0 DEF Types, Logs
  <2>2. log' = [log EXCEPT !.received = received,
                           !.whole = IF whole THEN @ \cup {t} ELSE @,
                           !.pasted = IF whole /\ t \in clip THEN @ \cup {t} ELSE @]
    BY DEF Finish
  <2> HIDE DEF received
  <2> QED BY <1>0, <2>1, <2>2 DEF Types, Logs
<1>4. /\ log'.whole = (IF whole THEN log.whole \cup {t} ELSE log.whole)
      /\ log'.pasted = (IF whole /\ t \in clip THEN log.pasted \cup {t} ELSE log.pasted)
      /\ log'.broken = log.broken /\ log'.sent = log.sent /\ log'.undone = log.undone
  BY <1>0 DEF Finish, Types, Logs
<1>5. whole => t \notin log.whole
  BY <1>0 DEF Inv, GroupOK, FileOK
<1>6. whole /\ t \in Clipboard => t \in clip
  BY <1>0, <1>5 DEF Inv, AnnounceOK
<1>7. t \in clip => t \in Clipboard
  BY <1>0 DEF Types, Logs
<1>8. PasteOK'
  BY <1>4, <1>6, <1>7 DEF Inv, PasteOK
<1>9. done' \in SUBSET File /\ group' \in [Task -> SUBSET File]
  BY <1>0, <1>1 DEF Types, Logs
<1>10. clip' \in SUBSET Clipboard /\ disk' \in [File -> Dirs \cup {NoDir}]
  BY <1>0, <1>1 DEF Types, Logs
<1>11. clip \cup log.whole \subseteq clip' \cup log'.whole
  BY <1>1, <1>4
<1> QED BY <1>1, <1>3, <1>4, <1>8, <1>9, <1>10, <1>11

-----------------------------------------------------------------------------
(* The sender's windows while the receiver works.                          *)

TaskType == [phase : Phases, file : Nat, next : Nat, pending : SUBSET Nat,
             acked : SUBSET Nat, refused : BOOLEAN]
\* Only replies to what is waited for have been added.
Alike(u) == /\ task'[u].phase = task[u].phase /\ task'[u].file = task[u].file
            /\ task'[u].next = task[u].next /\ task'[u].pending = task[u].pending
            /\ task[u].acked \subseteq task[u].pending => task'[u].acked \subseteq task'[u].pending

\* A reply changes at most what the window it belongs to has not read
\* (FileDeliveryTracker::route).
LEMMA ReplyAdded ==
  ASSUME Types, NEW t \in Task, NEW i \in Nat,
         task' = [task EXCEPT ![t].acked = task[t].acked \cup ({i} \cap task[t].pending)]
  PROVE  /\ task' \in [Task -> TaskType] /\ \A u \in Task : Alike(u)
         /\ \A u \in Task : \A k \in task'[u].acked \ task[u].acked : u = t /\ k = i
<1>0. task \in [Task -> TaskType]
  BY DEF Types, Logs, TaskType
<1>2. task' \in [Task -> TaskType]
  BY <1>0 DEF TaskType
<1>3. \A u \in Task : Alike(u) /\ (u # t => task'[u] = task[u])
  BY <1>0 DEF TaskType, Alike
<1>4. task'[t].acked \subseteq task[t].acked \cup {i}
  BY <1>0 DEF TaskType
<1> QED BY <1>2, <1>3, <1>4

\* ChunkAccepted for the file a task is sending.
LEMMA ReplyAccepts ==
  ASSUME Types, NEW f \in File, NEW i \in Nat, Reply(TaskOf[f], f, i, TRUE)
  PROVE  /\ task' \in [Task -> TaskType] /\ \A u \in Task : Alike(u)
         /\ \A u \in Task : \A k \in task'[u].acked \ task[u].acked :
              u = TaskOf[f] /\ k = i /\ task[u].phase # "announce" /\ Current(u) = f
<1> DEFINE t == TaskOf[f]
           routed == t \in Going /\ task[t].phase # "announce" /\ Current(t) = f
<1>0. t \in Task /\ f # 0
  BY FileFacts
<1>1. CASE routed
  <2>1. task' = [task EXCEPT ![t].acked = task[t].acked \cup ({i} \cap task[t].pending)]
    BY <1>0, <1>1 DEF Reply
  <2> QED BY <1>0, <1>1, <2>1, ReplyAdded
<1>2. CASE ~routed
  <2>1. task' = task BY <1>0, <1>2 DEF Reply
  <2> QED BY <2>1 DEF Alike, Types, Logs, TaskType
<1> QED BY <1>1, <1>2

\* ChunkRejected adds nothing to what is confirmed.
LEMMA ReplyRejects ==
  ASSUME Types, NEW t \in Task, NEW f, NEW i \in Nat, Reply(t, f, i, FALSE)
  PROVE  /\ task' \in [Task -> TaskType] /\ \A u \in Task : Alike(u)
         /\ \A u \in Task : task'[u].acked = task[u].acked
<1>0. task \in [Task -> TaskType]
  BY DEF Types, Logs, TaskType
<1>1. CASE task' = [task EXCEPT ![t].refused = TRUE]
  <2>1. task' \in [Task -> TaskType] BY <1>0, <1>1 DEF TaskType
  <2>2. \A u \in Task : Alike(u) /\ task'[u].acked = task[u].acked
    BY <1>0, <1>1 DEF TaskType, Alike
  <2> QED BY <2>1, <2>2
<1>2. CASE task' = task
  BY <1>0, <1>2 DEF Alike
<1> QED BY <1>1, <1>2 DEF Reply

\* The receiver takes nothing back from a sender that has not cancelled, and
\* answers for what it has.
LEMMA ReceiverStep ==
  ASSUME Inv, \A u \in Task : Alike(u), UNCHANGED net,
         \A f \in File : Settled(f) => Settled(f)',
         \A f \in File : task[TaskOf[f]].phase # "cancelled" =>
           /\ Accepted(f) => Accepted(f)'
           /\ \A i \in Nat : Has(f, i) => Has(f, i)',
         \A u \in Task : \A k \in task'[u].acked \ task[u].acked :
           /\ task[u].phase = "manifest" /\ k = 0 => Accepted(Current(u))'
           /\ task[u].phase = "data" /\ k # 0 => Has(Current(u), k)'
           /\ task[u].phase = "announce" => u \in clip',
         \A u \in deadG' : u \in deadG \/ CancelGroup(u) \in net,
         clip \cup log.whole \subseteq clip' \cup log'.whole
  PROVE  \A u \in Task : WindowOK(u)' /\ CancelOK(u)' /\ AnnounceOK(u)'
<1> SUFFICES ASSUME NEW u \in Task
             PROVE  WindowOK(u)' /\ CancelOK(u)' /\ AnnounceOK(u)'
  OBVIOUS
<1>0. /\ WindowOK(u) /\ CancelOK(u) /\ AnnounceOK(u)
      /\ Current(u)' = Current(u) /\ Current(u) \in FilesOf[u] /\ FilesOf[u] \subseteq File
      /\ (\A f \in FilesOf[u] : TaskOf[f] = u) /\ Alike(u) /\ Chunks[Current(u)] \in Nat
      /\ task[u].file \in 1..Len(Files[u]) /\ Len(Files[u]) \in Nat
      /\ (\A n \in 1..Len(Files[u]) : Files[u][n] \in FilesOf[u])
      /\ task[u].next \in Nat
  BY FileFacts DEF Inv, Types, Logs, Current, Alike
<1>1. \A i : Answered(u, i)' => Answered(u, i) \/ i \in task'[u].acked \ task[u].acked
  BY <1>0 DEF Answered, Alike
<1>2. WindowOK(u)'
  <2>1. /\ task'[u].phase = "manifest" => task'[u].next = 1
        /\ task'[u].phase = "manifest" /\ Answered(u, 0)' => Accepted(Current(u))'
        /\ task'[u].acked \subseteq task'[u].pending
    BY <1>0, <1>1 DEF WindowOK, Alike
  <2>2. task'[u].phase = "data" =>
          /\ Accepted(Current(u))' /\ task'[u].next \in 1..(Chunks[Current(u)] + 1)
          /\ task'[u].pending \subseteq 1..(task'[u].next - 1)
          /\ \A i \in 1..(task'[u].next - 1) : Answered(u, i)' => Has(Current(u), i)'
    BY <1>0, <1>1 DEF WindowOK, Alike
  <2>3. \A j \in 1..(task'[u].file - 1) : Settled(Files[u][j])'
    BY <1>0 DEF WindowOK, Alike
  <2>4. task'[u].phase = "completed" => \A f2 \in FilesOf[u] : Settled(f2)'
    BY <1>0 DEF WindowOK, Alike
  <2> QED BY <1>0, <2>1, <2>2, <2>3, <2>4 DEF WindowOK
<1>3. CancelOK(u)'
  BY <1>0 DEF CancelOK, Alike
<1>4. AnnounceOK(u)'
  BY <1>0, <1>1 DEF AnnounceOK, Alike
<1> QED BY <1>2, <1>3, <1>4

-----------------------------------------------------------------------------
(* The receiver's handlers.                                                *)

\* handle_manifest: the file is opened, an empty one is finished, any other
\* manifest changes nothing.
LEMMA ManifestStep ==
  ASSUME Inv, NEW f \in File, HandleManifest(f)
  PROVE  Inv'
<1>0. /\ Types /\ (\A g \in File : FileOK(g)) /\ (\A t \in Grouped : GroupOK(t))
      /\ TaskOf[f] \in Task /\ f # 0 /\ Chunks[f] \in Nat /\ Manifest(f) \in net
      /\ UNCHANGED <<flags, net, tombs>> /\ ConfigApplied /\ FileOK(f)
      /\ Grouped \subseteq Task /\ Clipboard \subseteq Grouped
  BY FileFacts, TransferAssumption DEF Inv, HandleManifest
<1>1. PICK works \in BOOLEAN, published \in {FALSE, (f \in Fragile)} :
        LET admitted == ~IsCancelled(f) /\ ~Known(f) /\ Fits(f)
            new == admitted /\ works
        IN /\ IF new /\ Chunks[f] = 0 THEN Finish(f, dir)
              ELSE Unfinished(f, FALSE, admitted /\ ~works /\ Chunks[f] = 0 /\ published)
           /\ got' = IF new /\ Chunks[f] > 0 THEN [got EXCEPT ![f] = {}] ELSE got
           /\ Reply(TaskOf[f], f, 0, new \/ (~IsCancelled(f) /\ Known(f)))
  BY DEF HandleManifest
<1> DEFINE admitted == ~IsCancelled(f) /\ ~Known(f) /\ Fits(f)
           new == admitted /\ works
           ok == new \/ (~IsCancelled(f) /\ Known(f))
<1>2. /\ task' \in [Task -> TaskType] /\ \A u \in Task : Alike(u)
      /\ \A u \in Task : \A k \in task'[u].acked \ task[u].acked :
           ok /\ task[u].phase # "announce" /\ Current(u) = f /\ k = 0
  <2>1. Reply(TaskOf[f], f, 0, ok) BY <1>1
  <2> HIDE DEF ok
  <2>2. CASE ok
    <3>1. Reply(TaskOf[f], f, 0, TRUE) BY <2>1, <2>2 DEF Reply
    <3>2. Types BY <1>0
    <3>3. /\ task' \in [Task -> TaskType] /\ \A u \in Task : Alike(u)
          /\ \A u \in Task : \A k \in task'[u].acked \ task[u].acked :
               u = TaskOf[f] /\ k = 0 /\ task[u].phase # "announce" /\ Current(u) = f
      BY <3>1, <3>2, ReplyAccepts
    <3> QED BY <2>2, <3>3
  <2>3. CASE ~ok
    <3>1. Reply(TaskOf[f], f, 0, FALSE) BY <2>1, <2>3 DEF Reply
    <3> QED BY <1>0, <2>3, <3>1, ReplyRejects
  <2> QED BY <2>2, <2>3
<1>3. new => f \notin done /\ ~Opened(f) /\ TaskOf[f] \notin deadG
  BY DEF Known, IsCancelled
<1>4. \A u \in Task : Current(u)' = Current(u)
  BY <1>2 DEF Current, Alike
<1>5. dir' \in Dirs /\ nextDir' \in Dirs \cup {NoDir}
      /\ (dir' = dir \/ \A t \in Task : group'[t] = {})
  BY <1>0, ConfigStep
<1>6. CASE new /\ Chunks[f] = 0
  <2>1. Finish(f, dir) /\ got' = got BY <1>1, <1>6
  <2>2. got' = [got EXCEPT ![f] = Closed]
    BY <1>0, <1>3, <1>6, <2>1 DEF Types, Logs, Opened
  <2>3. (\A g \in File : FileOK(g))' /\ (\A t \in Grouped : GroupOK(t))'
    BY <1>0, <1>3, <1>6, <2>1, <2>2, FinishStep DEF tombs
  <2>4. /\ done' \in SUBSET File /\ group' \in [Task -> SUBSET File]
        /\ clip' \in SUBSET Clipboard /\ disk' \in [File -> Dirs \cup {NoDir}]
        /\ log' \in Logs
        /\ PasteOK' /\ clip \cup log.whole \subseteq clip' \cup log'.whole
        /\ log'.broken = log.broken /\ log'.sent = log.sent /\ done' = done \cup {f}
    BY <1>0, <1>3, <1>6, <2>1, FinishReport
  <2>5. \A g \in File : /\ Settled(g) => Settled(g)'
                        /\ Accepted(g) => Accepted(g)'
                        /\ \A i \in Nat : Has(g, i) => Has(g, i)'
    BY <2>1, <2>4 DEF Settled, Accepted, Has, Opened
  <2>6. Accepted(f)' BY <2>4 DEF Accepted, Settled
  <2>7. \A u \in Task : WindowOK(u)' /\ CancelOK(u)' /\ AnnounceOK(u)'
    BY <1>0, <1>2, <1>4, <2>4, <2>5, <2>6, ReceiverStep DEF tombs
  <2>8. SentOK'
    BY <1>0, <2>4, <2>5 DEF Inv, SentOK, Types, Logs
  <2>9. Types'
    BY <1>0, <1>2, <1>5, <2>1, <2>4 DEF Types, Logs, TaskType, Alike
  <2> QED BY <2>3, <2>4, <2>7, <2>8, <2>9 DEF Inv
<1>7. CASE ~(new /\ Chunks[f] = 0)
  <2>1. UNCHANGED <<done, group, clip, disk, log>>
    BY <1>1, <1>7 DEF Unfinished
  <2>2. /\ got' \in [File -> SUBSET Nat] /\ \A g \in File \ {f} : got'[g] = got[g]
        /\ got'[f] = (IF new THEN {} ELSE got[f])
    BY <1>0, <1>1, <1>7 DEF Types, Logs
  <2>3. new => {} # 1..Chunks[f] /\ {} # Closed /\ 1 \in 1..Chunks[f]
    BY <1>0, <1>7 DEF Closed
  <2>4. (\A g \in File : FileOK(g))' /\ (\A t \in Grouped : GroupOK(t))'
    <3>1. \A g \in File : Opened(g)' =>
            /\ got'[g] \subseteq 1..Chunks[g] /\ got'[g] # 1..Chunks[g]
            /\ g \notin done /\ Manifest(g) \in net
            /\ Opened(g) \/ TaskOf[g] \notin deadG
      BY <1>0, <1>3, <2>2, <2>3 DEF Opened, FileOK
    <3> QED BY <1>0, <1>5, <2>1, <2>2, <3>1, GotStep DEF Whole, tombs
  <2>5. \A g \in File : Opened(g) => Opened(g)' /\ got'[g] = got[g]
    BY <1>3, <2>2 DEF Opened
  <2>6. \A g \in File : /\ Settled(g) => Settled(g)'
                        /\ Accepted(g) => Accepted(g)'
                        /\ \A i \in Nat : Has(g, i) => Has(g, i)'
    BY <2>1, <2>5 DEF Settled, Accepted, Has
  <2>7. ok => Accepted(f)'
    BY <2>1, <2>2, <2>3, <2>5 DEF Accepted, Settled, Known, Opened
  <2>8. \A u \in Task : WindowOK(u)' /\ CancelOK(u)' /\ AnnounceOK(u)'
    <3>1. clip \cup log.whole \subseteq clip' \cup log'.whole
      BY <2>1
    <3>2. \A u \in Task : \A k \in task'[u].acked \ task[u].acked :
            /\ task[u].phase = "manifest" /\ k = 0 => Accepted(Current(u))'
            /\ task[u].phase = "data" /\ k # 0 => Has(Current(u), k)'
            /\ task[u].phase = "announce" => u \in clip'
      BY <1>2, <1>4, <2>7
    <3> QED BY <1>0, <1>2, <2>6, <3>1, <3>2, ReceiverStep DEF tombs
  <2>9. SentOK' /\ PasteOK'
    BY <2>1 DEF Inv, SentOK, PasteOK, Settled
  <2>10. Types'
    BY <1>0, <1>2, <1>5, <2>1, <2>2 DEF Types, Logs, TaskType, Alike
  <2> QED BY <2>4, <2>8, <2>9, <2>10 DEF Inv
<1> QED BY <1>6, <1>7

\* handle_file_chunk: the chunk is written, the last one finishes the file or
\* closes it.
LEMMA ChunkStep ==
  ASSUME Inv, NEW f \in File, NEW i \in 1..Chunks[f], HandleChunk(f, i)
  PROVE  Inv'
<1>0. /\ Types /\ (\A g \in File : FileOK(g)) /\ (\A t \in Grouped : GroupOK(t))
      /\ TaskOf[f] \in Task /\ Chunks[f] \in Nat /\ i \in Nat /\ i # 0
      /\ UNCHANGED <<flags, net, tombs>> /\ ConfigApplied /\ FileOK(f)
      /\ Grouped \subseteq Task
  BY FileFacts, TransferAssumption DEF Inv, HandleChunk
<1>1. PICK writes, finishes \in BOOLEAN, published \in {FALSE, (f \in Fragile)} :
        LET written == Opened(f) /\ (writes \/ i \in got[f])
            last == written /\ got[f] \cup {i} = 1..Chunks[f]
        IN /\ IF last /\ finishes THEN Finish(f, dir) ELSE Unfinished(f, last, last /\ published)
           /\ got' = IF ~written THEN got
                     ELSE [got EXCEPT ![f] = IF last THEN Closed ELSE @ \cup {i}]
           /\ Reply(TaskOf[f], f, i,
                    f \in done \/ (written /\ (last => finishes)))
  BY DEF HandleChunk
<1> DEFINE written == Opened(f) /\ (writes \/ i \in got[f])
           last == written /\ got[f] \cup {i} = 1..Chunks[f]
           ok == f \in done \/ (written /\ (last => finishes))
<1>2. /\ task' \in [Task -> TaskType] /\ \A u \in Task : Alike(u)
      /\ \A u \in Task : \A k \in task'[u].acked \ task[u].acked :
           ok /\ task[u].phase # "announce" /\ Current(u) = f /\ k = i
  <2>1. Reply(TaskOf[f], f, i, ok) BY <1>1
  <2> HIDE DEF ok
  <2>2. CASE ok
    <3>1. Reply(TaskOf[f], f, i, TRUE) BY <2>1, <2>2 DEF Reply
    <3>2. Types /\ i \in Nat BY <1>0
    <3>3. /\ task' \in [Task -> TaskType] /\ \A u \in Task : Alike(u)
          /\ \A u \in Task : \A k \in task'[u].acked \ task[u].acked :
               u = TaskOf[f] /\ k = i /\ task[u].phase # "announce" /\ Current(u) = f
      BY <3>1, <3>2, ReplyAccepts
    <3> QED BY <2>2, <3>3
  <2>3. CASE ~ok
    <3>1. Reply(TaskOf[f], f, i, FALSE) BY <2>1, <2>3 DEF Reply
    <3> QED BY <1>0, <2>3, <3>1, ReplyRejects
  <2> QED BY <2>2, <2>3
<1>3. \A u \in Task : Current(u)' = Current(u)
  BY <1>2 DEF Current, Alike
<1>4. dir' \in Dirs /\ nextDir' \in Dirs \cup {NoDir}
      /\ (dir' = dir \/ \A t \in Task : group'[t] = {})
  BY <1>0, ConfigStep
<1>5. CASE last /\ finishes
  <2>1. Finish(f, dir) /\ got' = [got EXCEPT ![f] = Closed] BY <1>1, <1>5
  <2>2. (\A g \in File : FileOK(g))' /\ (\A t \in Grouped : GroupOK(t))'
    BY <1>0, <1>5, <2>1, FinishStep DEF tombs
  <2>3. /\ done' \in SUBSET File /\ group' \in [Task -> SUBSET File]
        /\ clip' \in SUBSET Clipboard /\ disk' \in [File -> Dirs \cup {NoDir}]
        /\ log' \in Logs
        /\ PasteOK' /\ clip \cup log.whole \subseteq clip' \cup log'.whole
        /\ log'.broken = log.broken /\ log'.sent = log.sent /\ done' = done \cup {f}
    <3>1. Manifest(f) \in net BY <1>0, <1>5 DEF FileOK
    <3> QED BY <1>0, <1>5, <2>1, <3>1, FinishReport
  <2>4. got' \in [File -> SUBSET Nat] /\ \A g \in File \ {f} : got'[g] = got[g]
    BY <1>0, <2>1 DEF Types, Logs, Closed
  <2>5. \A g \in File : /\ Settled(g) => Settled(g)'
                        /\ Accepted(g) => Accepted(g)'
                        /\ \A k \in Nat : Has(g, k) => Has(g, k)'
    BY <2>3, <2>4 DEF Settled, Accepted, Has, Opened
  <2>6. \A k \in Nat : Accepted(f)' /\ Has(f, k)' BY <2>3 DEF Accepted, Settled, Has
  <2>7. \A u \in Task : WindowOK(u)' /\ CancelOK(u)' /\ AnnounceOK(u)'
    BY <1>0, <1>2, <1>3, <2>3, <2>5, <2>6, ReceiverStep DEF tombs
  <2>8. SentOK'
    BY <1>0, <2>3, <2>5 DEF Inv, SentOK, Types, Logs
  <2>9. Types'
    BY <1>0, <1>2, <1>4, <2>3, <2>4 DEF Types, Logs, TaskType, Alike
  <2> QED BY <2>2, <2>3, <2>7, <2>8, <2>9 DEF Inv
<1>6. CASE ~(last /\ finishes)
  <2>1. /\ UNCHANGED <<done, group, clip, disk>>
        /\ log' = IF last THEN [log EXCEPT !.broken = @ \cup {f}] ELSE log
    BY <1>1, <1>6 DEF Unfinished
  <2>2. /\ log'.broken = (IF last THEN log.broken \cup {f} ELSE log.broken)
        /\ log'.sent = log.sent /\ log'.received = log.received /\ log'.whole = log.whole
        /\ log'.undone = log.undone /\ log'.pasted = log.pasted /\ log'.kept = log.kept
        /\ log' \in Logs
    BY <1>0, <2>1 DEF Types, Logs
  <2>3. /\ got' \in [File -> SUBSET Nat] /\ \A g \in File \ {f} : got'[g] = got[g]
        /\ got'[f] = (IF ~written THEN got[f] ELSE IF last THEN Closed ELSE got[f] \cup {i})
    BY <1>0, <1>1, <1>6 DEF Types, Logs, Closed
  <2>4. written /\ ~last => Opened(f)' /\ got'[f] = got[f] \cup {i}
    BY <1>0, <2>3 DEF Opened, Closed
  <2>5. (\A g \in File : FileOK(g))' /\ (\A t \in Grouped : GroupOK(t))'
    <3>1. \A g \in File : Opened(g)' =>
            /\ got'[g] \subseteq 1..Chunks[g] /\ got'[g] # 1..Chunks[g]
            /\ g \notin done /\ Manifest(g) \in net
            /\ Opened(g) \/ TaskOf[g] \notin deadG
      <4>1. ASSUME NEW g \in File, g # f, Opened(g)'
            PROVE  /\ got'[g] \subseteq 1..Chunks[g] /\ got'[g] # 1..Chunks[g]
                   /\ g \notin done /\ Manifest(g) \in net /\ Opened(g)
        BY <1>0, <2>3, <4>1 DEF Opened, FileOK
      <4>2. ASSUME Opened(f)'
            PROVE  /\ got'[f] \subseteq 1..Chunks[f] /\ got'[f] # 1..Chunks[f]
                   /\ f \notin done /\ Manifest(f) \in net /\ Opened(f)
        <5>1. ~last BY <2>3, <4>2 DEF Opened
        <5> QED BY <1>0, <2>3, <4>2, <5>1 DEF Opened, FileOK
      <4> QED BY <4>1, <4>2
    <3>2. UNCHANGED <<done, group, deadG, disk, Whole>> /\ net \subseteq net'
      BY <1>0, <2>1, <2>2 DEF Whole, tombs
    <3> QED BY <1>0, <1>4, <2>3, <3>1, <3>2, GotStep
  <2>6. \A g \in File : /\ Settled(g) => Settled(g)'
                        /\ Accepted(g) => Accepted(g)'
                        /\ \A k \in Nat : Has(g, k) => Has(g, k)'
    <3>1. \A g \in File : Settled(g) => Settled(g)'
      BY <2>1, <2>2 DEF Settled
    <3>2. last => Settled(f)'
      BY <2>2 DEF Settled
    <3>3. \A g \in File : Opened(g) => Settled(g)' \/ (Opened(g)' /\ got[g] \subseteq got'[g])
      BY <2>3, <2>4, <3>2 DEF Opened
    <3> QED BY <3>1, <3>3 DEF Accepted, Has
  <2>7. ok => Accepted(f)' /\ Has(f, i)'
    BY <1>6, <2>1, <2>4 DEF Accepted, Settled, Has
  <2>8. \A u \in Task : WindowOK(u)' /\ CancelOK(u)' /\ AnnounceOK(u)'
    <3>1. clip \cup log.whole \subseteq clip' \cup log'.whole
      BY <2>1, <2>2
    <3>2. \A u \in Task : \A k \in task'[u].acked \ task[u].acked :
            /\ task[u].phase = "manifest" /\ k = 0 => Accepted(Current(u))'
            /\ task[u].phase = "data" /\ k # 0 => Has(Current(u), k)'
            /\ task[u].phase = "announce" => u \in clip'
      BY <1>2, <1>3, <2>7
    <3> QED BY <1>0, <1>2, <2>6, <3>1, <3>2, ReceiverStep DEF tombs
  <2>9. SentOK' /\ PasteOK'
    <3>1. log.sent \subseteq File BY <1>0 DEF Types, Logs
    <3> QED BY <2>2, <2>6, <3>1 DEF Inv, SentOK, PasteOK
  <2>10. Types'
    BY <1>0, <1>2, <1>4, <2>1, <2>2, <2>3 DEF Types, Logs, TaskType, Alike
  <2> QED BY <2>5, <2>8, <2>9, <2>10 DEF Inv
<1> QED BY <1>5, <1>6

\* ClipboardGroup: confirmed only when the group is listed.
LEMMA AnnounceStep ==
  ASSUME Inv, NEW t \in Task, HandleAnnounce(t)
  PROVE  Inv'
<1>0. /\ Types /\ (\A g \in File : FileOK(g)) /\ (\A u \in Grouped : GroupOK(u))
      /\ UNCHANGED <<flags, net, tombs>> /\ UNCHANGED <<got, done, group, disk, log>>
      /\ ConfigApplied /\ t \in Clipboard
  BY DEF Inv, HandleAnnounce, AnnounceOK
<1> DEFINE ok == t \in clip \/ Cardinality(clip) < MaxGroups
<1>1. clip' = (IF ok THEN clip \cup {t} ELSE clip) /\ Reply(t, 0, 0, ok)
  BY DEF HandleAnnounce
<1>2. /\ task' \in [Task -> TaskType] /\ \A u \in Task : Alike(u)
      /\ \A u \in Task : \A k \in task'[u].acked \ task[u].acked :
           task[u].phase = "announce" /\ u = t /\ t \in clip'
  <2> HIDE DEF ok
  <2>1. CASE ok
    <3> DEFINE routed == t \in Going /\ task[t].phase = "announce"
    <3>1. CASE routed
      <4>1. task' = [task EXCEPT ![t].acked = task[t].acked \cup ({0} \cap task[t].pending)]
        BY <1>1, <2>1, <3>1 DEF Reply
      <4> QED BY <1>0, <1>1, <2>1, <3>1, <4>1, ReplyAdded
    <3>2. CASE ~routed
      <4>1. task' = task BY <1>1, <2>1, <3>2 DEF Reply
      <4> QED BY <1>0, <4>1 DEF Alike, Types, Logs, TaskType
    <3> QED BY <3>1, <3>2
  <2>2. CASE ~ok
    <3>1. Reply(t, 0, 0, FALSE) BY <1>1, <2>2 DEF Reply
    <3> QED BY <1>0, <3>1, ReplyRejects
  <2> QED BY <2>1, <2>2
<1>3. dir' \in Dirs /\ nextDir' \in Dirs \cup {NoDir}
      /\ (dir' = dir \/ \A u \in Task : group'[u] = {})
  BY <1>0, ConfigStep
<1>4. (\A g \in File : FileOK(g))' /\ (\A u \in Grouped : GroupOK(u))'
  <2>1. \A g \in File : Opened(g)' =>
          /\ got'[g] \subseteq 1..Chunks[g] /\ got'[g] # 1..Chunks[g]
          /\ g \notin done /\ Manifest(g) \in net
          /\ Opened(g) \/ TaskOf[g] \notin deadG
    BY <1>0 DEF Opened, FileOK
  <2>2. got' \in [File -> SUBSET Nat] BY <1>0 DEF Types, Logs
  <2> QED BY <1>0, <1>3, <2>1, <2>2, GotStep DEF Whole, tombs
<1>5. \A g \in File : /\ Settled(g) => Settled(g)'
                      /\ Accepted(g) => Accepted(g)'
                      /\ \A k \in Nat : Has(g, k) => Has(g, k)'
  BY <1>0 DEF Settled, Accepted, Has, Opened
<1>6. \A u \in Task : WindowOK(u)' /\ CancelOK(u)' /\ AnnounceOK(u)'
  <2>1. clip \cup log.whole \subseteq clip' \cup log'.whole
    BY <1>0, <1>1
  <2> QED BY <1>0, <1>2, <1>5, <2>1, ReceiverStep DEF tombs
<1>7. SentOK' /\ PasteOK'
  BY <1>0 DEF Inv, SentOK, PasteOK, Settled
<1>8. Types'
  BY <1>0, <1>1, <1>2, <1>3 DEF Types, Logs, TaskType, Alike
<1> QED BY <1>4, <1>6, <1>7, <1>8 DEF Inv

\* A cancellation takes away what its sender no longer waits for
\* (cancel_incoming_file).
LEMMA CancelFileStep ==
  ASSUME Inv, NEW f \in File, HandleCancelFile(f)
  PROVE  Inv'
<1>0. /\ Types /\ (\A g \in File : FileOK(g)) /\ (\A u \in Grouped : GroupOK(u))
      /\ got' = [got EXCEPT ![f] = Closed] /\ ConfigApplied
      /\ UNCHANGED <<done, group, clip, disk, deadG, log, net, task>>
      /\ task[TaskOf[f]].phase = "cancelled"
  BY FileFacts DEF Inv, HandleCancelFile, CancelOK
<1>1. got' \in [File -> SUBSET Nat] /\ ~Opened(f)' /\ \A g \in File \ {f} : got'[g] = got[g]
  BY <1>0 DEF Types, Logs, Closed, Opened
<1>2. dir' \in Dirs /\ nextDir' \in Dirs \cup {NoDir}
      /\ (dir' = dir \/ \A u \in Task : group'[u] = {})
  BY <1>0, ConfigStep
<1>3. (\A g \in File : FileOK(g))' /\ (\A u \in Grouped : GroupOK(u))'
  <2>1. \A g \in File : Opened(g)' =>
          /\ got'[g] \subseteq 1..Chunks[g] /\ got'[g] # 1..Chunks[g]
          /\ g \notin done /\ Manifest(g) \in net
          /\ Opened(g) \/ TaskOf[g] \notin deadG
    BY <1>0, <1>1 DEF Opened, FileOK
  <2> QED BY <1>0, <1>1, <1>2, <2>1, GotStep DEF Whole
<1>4. /\ \A g \in File : Settled(g) => Settled(g)'
      /\ \A g \in File : task[TaskOf[g]].phase # "cancelled" =>
           /\ Accepted(g) => Accepted(g)'
           /\ \A k \in Nat : Has(g, k) => Has(g, k)'
  BY <1>0, <1>1 DEF Settled, Accepted, Has, Opened
<1>5. \A u \in Task : WindowOK(u)' /\ CancelOK(u)' /\ AnnounceOK(u)'
  <2>1. \A u \in Task : Alike(u) /\ task'[u].acked = task[u].acked
    BY <1>0 DEF Alike
  <2> QED BY <1>0, <1>4, <2>1, ReceiverStep
<1>6. SentOK' /\ PasteOK'
  BY <1>0 DEF Inv, SentOK, PasteOK, Settled
<1>7. Types'
  BY <1>0, <1>1, <1>2 DEF Types, Logs
<1> QED BY <1>3, <1>5, <1>6, <1>7 DEF Inv

\* The same for a group (cancel_incoming_group).
LEMMA CancelledGroupStep ==
  ASSUME Inv, NEW t \in Task, HandleCancelGroup(t)
  PROVE  Inv'
<1>0. /\ Types /\ (\A g \in File : FileOK(g)) /\ (\A u \in Grouped : GroupOK(u))
      /\ ConfigApplied /\ deadG' = deadG \cup {t} /\ CancelGroup(t) \in net
      /\ UNCHANGED <<done, clip, net, task>>
      /\ t \in Grouped /\ task[t].phase = "cancelled"
  BY DEF Inv, HandleCancelGroup, CancelOK
<1>1. /\ (\A f \in File : FileOK(f))' /\ (\A u \in Grouped : GroupOK(u))'
      /\ \A f \in File : TaskOf[f] # t => got'[f] = got[f]
      /\ got' \in [File -> SUBSET Nat] /\ group' \in [Task -> SUBSET File]
      /\ disk' \in [File -> Dirs \cup {NoDir}]
      /\ log' \in Logs
      /\ log' = [log EXCEPT !.undone = log'.undone, !.kept = log'.kept]
  BY <1>0, CancelGroupStep
<1>2. /\ log'.broken = log.broken /\ log'.sent = log.sent /\ log'.whole = log.whole
      /\ log'.pasted = log.pasted
  BY <1>0, <1>1 DEF Types, Logs
<1>3. dir' \in Dirs /\ nextDir' \in Dirs \cup {NoDir}
  BY <1>0, ConfigStep
<1>4. /\ \A g \in File : Settled(g) => Settled(g)'
      /\ \A g \in File : task[TaskOf[g]].phase # "cancelled" =>
           /\ Accepted(g) => Accepted(g)'
           /\ \A k \in Nat : Has(g, k) => Has(g, k)'
  BY <1>0, <1>1, <1>2 DEF Settled, Accepted, Has, Opened
<1>5. \A u \in Task : WindowOK(u)' /\ CancelOK(u)' /\ AnnounceOK(u)'
  <2>1. \A u \in Task : Alike(u) /\ task'[u].acked = task[u].acked
    BY <1>0 DEF Alike
  <2> QED BY <1>0, <1>2, <1>4, <2>1, ReceiverStep
<1>6. SentOK' /\ PasteOK'
  <2>1. log'.undone \subseteq log.undone \cup {t}
    BY <1>0 DEF HandleCancelGroup, Types, Logs
  <2> QED BY <1>0, <1>2, <2>1 DEF Inv, SentOK, PasteOK, Settled
<1>7. Types'
  BY <1>0, <1>1, <1>3 DEF Types, Logs
<1> QED BY <1>1, <1>5, <1>6, <1>7 DEF Inv

\* set_receive_config: deferred while anything is on its way.
LEMMA ReceiveConfigStep ==
  ASSUME Inv, NEW d \in Dir, SetReceiveConfig(d)
  PROVE  Inv'
<1>0. /\ Types /\ (\A g \in File : FileOK(g)) /\ (\A u \in Grouped : GroupOK(u))
      /\ UNCHANGED <<task, net, got, done, group, deadG, clip, disk, log>>
      /\ dir' \in Dirs /\ nextDir' \in Dirs \cup {NoDir}
      /\ dir' = dir \/ \A u \in Task : group'[u] = {}
  BY DEF Inv, SetReceiveConfig, Types, Logs, tombs, Busy, Dirs
<1>1. (\A g \in File : FileOK(g))' /\ (\A u \in Grouped : GroupOK(u))'
  <2>1. \A g \in File : Opened(g)' =>
          /\ got'[g] \subseteq 1..Chunks[g] /\ got'[g] # 1..Chunks[g]
          /\ g \notin done /\ Manifest(g) \in net
          /\ Opened(g) \/ TaskOf[g] \notin deadG
    BY <1>0 DEF Opened, FileOK
  <2>2. got' \in [File -> SUBSET Nat] BY <1>0 DEF Types, Logs
  <2> QED BY <1>0, <2>1, <2>2, GotStep DEF Whole
<1>2. /\ \A u \in Task : Alike(u) /\ task'[u].acked = task[u].acked
      /\ \A g \in File : /\ Settled(g) => Settled(g)'
                         /\ Accepted(g) => Accepted(g)'
                         /\ \A k \in Nat : Has(g, k) => Has(g, k)'
  BY <1>0 DEF Alike, Settled, Accepted, Has, Opened
<1>3. \A u \in Task : WindowOK(u)' /\ CancelOK(u)' /\ AnnounceOK(u)'
  <2>1. clip \cup log.whole \subseteq clip' \cup log'.whole /\ deadG' = deadG
    BY <1>0
  <2> QED BY <1>0, <1>2, <2>1, ReceiverStep
<1>4. SentOK' /\ PasteOK' /\ Types'
  BY <1>0 DEF Inv, SentOK, PasteOK, Settled, Types, Logs
<1> QED BY <1>1, <1>3, <1>4 DEF Inv

-----------------------------------------------------------------------------
(* The sender.                                                             *)

\* A task sends messages about itself and its files only.
OwnMessages(t) ==
  \A u \in Task \ {t} :
    /\ Announce(u) \in net' => Announce(u) \in net
    /\ CancelGroup(u) \in net' => CancelGroup(u) \in net
    /\ \A f \in FilesOf[u] : /\ CancelFile(f) \in net' => CancelFile(f) \in net
                             /\ Manifest(f) \in net' => Manifest(f) \in net

\* A step of one send task leaves the receiver and the other tasks alone.
LEMMA SenderStep ==
  ASSUME Inv, NEW t \in Task, UNCHANGED receiving,
         task' \in [Task -> TaskType], task'[t].file \in 1..Len(Files[t]),
         \A u \in Task \ {t} : task'[u] = task[u],
         net \subseteq net', OwnMessages(t),
         \/ log' = log
         \/ \E f \in File : Settled(f) /\ log' = [log EXCEPT !.sent = log.sent \cup {f}],
         WindowOK(t)', CancelOK(t)', AnnounceOK(t)'
  PROVE  Inv'
<1>0. /\ Types /\ (\A g \in File : FileOK(g)) /\ (\A u \in Grouped : GroupOK(u))
      /\ UNCHANGED <<got, done, group, deadG, clip, dir, nextDir, disk>>
  BY DEF Inv, receiving, tombs
<1>1. /\ log'.received = log.received /\ log'.whole = log.whole /\ log'.undone = log.undone
      /\ log'.pasted = log.pasted /\ log'.broken = log.broken /\ log'.kept = log.kept
      /\ \A f \in log'.sent : f \in log.sent \/ Settled(f)
      /\ log' \in Logs
  <2>1. CASE log' = log
    BY <1>0, <2>1 DEF Types, Logs
  <2>2. CASE \E f \in File : Settled(f) /\ log' = [log EXCEPT !.sent = log.sent \cup {f}]
    <3>1. PICK f \in File : Settled(f) /\ log' = [log EXCEPT !.sent = log.sent \cup {f}]
      BY <2>2
    <3>2. log'.sent = log.sent \cup {f} BY <1>0, <3>1 DEF Types, Logs
    <3> QED BY <1>0, <3>1, <3>2 DEF Types, Logs
  <2> QED BY <2>1, <2>2
<1>2. (\A g \in File : FileOK(g))' /\ (\A u \in Grouped : GroupOK(u))'
  <2>1. \A g \in File : Opened(g)' =>
          /\ got'[g] \subseteq 1..Chunks[g] /\ got'[g] # 1..Chunks[g]
          /\ g \notin done /\ Manifest(g) \in net
          /\ Opened(g) \/ TaskOf[g] \notin deadG
    BY <1>0 DEF Opened, FileOK
  <2>2. got' \in [File -> SUBSET Nat] BY <1>0 DEF Types, Logs
  <2> QED BY <1>0, <1>1, <2>1, <2>2, GotStep DEF Whole
<1>3. \A f \in File : /\ Settled(f) => Settled(f)'
                      /\ Accepted(f) => Accepted(f)'
                      /\ \A i \in Nat : Has(f, i) => Has(f, i)'
  BY <1>0, <1>1 DEF Settled, Accepted, Has, Opened
<1>4. ASSUME NEW u \in Task, u # t
      PROVE  WindowOK(u)' /\ CancelOK(u)' /\ AnnounceOK(u)'
  <2>0. /\ WindowOK(u) /\ CancelOK(u) /\ AnnounceOK(u) /\ task'[u] = task[u]
        /\ Current(u)' = Current(u) /\ Current(u) \in File /\ Chunks[Current(u)] \in Nat
        /\ FilesOf[u] \subseteq File /\ Len(Files[u]) \in Nat
        /\ task[u].file \in 1..Len(Files[u]) /\ task[u].next \in Nat
        /\ \A n \in 1..Len(Files[u]) : Files[u][n] \in File
    <3>1. WindowOK(u) /\ CancelOK(u) /\ AnnounceOK(u) /\ task'[u] = task[u]
      BY <1>4 DEF Inv
    <3>2. task[u].file \in 1..Len(Files[u]) /\ task[u].next \in Nat
      BY <1>0, <1>4 DEF Types, Logs
    <3> QED BY <3>1, <3>2, <1>4, FileFacts DEF Current
  <2>1. \A i : Answered(u, i)' <=> Answered(u, i)
    BY <2>0 DEF Answered
  <2>2. WindowOK(u)'
    <3>1. /\ task'[u].phase = "manifest" => task'[u].next = 1
          /\ task'[u].phase = "manifest" /\ Answered(u, 0)' => Accepted(Current(u))'
          /\ task'[u].acked \subseteq task'[u].pending
      BY <1>3, <2>0, <2>1 DEF WindowOK
    <3>2. task'[u].phase = "data" =>
            /\ Accepted(Current(u))' /\ task'[u].next \in 1..(Chunks[Current(u)] + 1)
            /\ task'[u].pending \subseteq 1..(task'[u].next - 1)
            /\ \A i \in 1..(task'[u].next - 1) : Answered(u, i)' => Has(Current(u), i)'
      BY <1>3, <2>0, <2>1 DEF WindowOK
    <3>3. \A j \in 1..(task'[u].file - 1) : Settled(Files[u][j])'
      BY <1>3, <2>0 DEF WindowOK
    <3>4. task'[u].phase = "completed" => \A f2 \in FilesOf[u] : Settled(f2)'
      BY <1>3, <2>0 DEF WindowOK
    <3> QED BY <2>0, <3>1, <3>2, <3>3, <3>4 DEF WindowOK
  <2>3. CancelOK(u)'
    BY <1>0, <1>4, <2>0 DEF CancelOK, OwnMessages
  <2>4. AnnounceOK(u)'
    BY <1>0, <1>1, <1>4, <2>0, <2>1 DEF AnnounceOK, OwnMessages
  <2> QED BY <2>2, <2>3, <2>4
<1>5. SentOK' /\ PasteOK'
  <2>1. log'.sent \subseteq File BY <1>1 DEF Logs
  <2> QED BY <1>1, <1>3, <2>1 DEF Inv, SentOK, PasteOK
<1>6. Types'
  <2>1. \A u \in Task : task'[u].file \in 1..Len(Files[u])
    BY <1>0 DEF Types, Logs
  <2> QED BY <1>0, <1>1, <2>1 DEF Types, Logs, TaskType
<1> QED BY <1>2, <1>4, <1>5, <1>6 DEF Inv

\* What Inv says about one task, and what its file is.
LEMMA TaskFacts ==
  ASSUME Inv, NEW t \in Task
  PROVE  /\ Types /\ task \in [Task -> TaskType]
         /\ WindowOK(t) /\ CancelOK(t) /\ AnnounceOK(t)
         /\ task[t].file \in 1..Len(Files[t]) /\ Len(Files[t]) \in Nat \ {0}
         /\ task[t].next \in Nat /\ task[t].pending \subseteq Nat
         /\ Current(t) \in FilesOf[t] /\ Current(t) \in File /\ Chunks[Current(t)] \in Nat
         /\ FilesOf[t] \subseteq File
         /\ \A n \in 1..Len(Files[t]) : Files[t][n] \in FilesOf[t]
<1>1. Types /\ WindowOK(t) /\ CancelOK(t) /\ AnnounceOK(t) BY DEF Inv
<1>2. task \in [Task -> TaskType] BY <1>1 DEF Types, Logs, TaskType
<1>3. task[t].file \in 1..Len(Files[t]) BY <1>1 DEF Types, Logs
<1>4. task[t].next \in Nat /\ task[t].pending \subseteq Nat BY <1>2 DEF TaskType
<1> QED BY <1>1, <1>2, <1>3, <1>4, FileFacts DEF Current

\* A task that adds no message, or one that is no Manifest, Announce or Cancel.
LEMMA QuietNet ==
  ASSUME NEW t \in Task, net' = net \/ \E f, i : net' = net \cup {Chunk(f, i)}
  PROVE  /\ net \subseteq net' /\ OwnMessages(t)
         /\ Announce(t) \in net' => Announce(t) \in net
         /\ CancelGroup(t) \in net' => CancelGroup(t) \in net
         /\ \A f \in FilesOf[t] : /\ CancelFile(f) \in net' => CancelFile(f) \in net
                                  /\ Manifest(f) \in net' => Manifest(f) \in net
BY MessageFacts DEF OwnMessages

\* A task that gives up (send failures, timeouts, refusals).
LEMMA EndStep ==
  ASSUME Inv, NEW t \in Task, task[t].phase # "cancelled", task' = Ends(t, "failed"),
         UNCHANGED <<net, receiving, log>>
  PROVE  Inv'
<1>0. /\ task \in [Task -> TaskType] /\ WindowOK(t) /\ CancelOK(t) /\ AnnounceOK(t)
      /\ task[t].file \in 1..Len(Files[t]) /\ task[t].file \in Nat
      /\ Len(Files[t]) \in Nat /\ \A n \in 1..Len(Files[t]) : Files[t][n] \in File
  BY TaskFacts DEF TaskType
<1>1. /\ task'[t].phase = "failed" /\ task'[t].file = task[t].file /\ task'[t].acked = {}
      /\ \A u \in Task \ {t} : task'[u] = task[u]
      /\ task' \in [Task -> TaskType]
  <2>1. PICK r \in TaskType : /\ r.phase = "failed" /\ r.file = task[t].file /\ r.acked = {}
                             /\ r = [NewTask EXCEPT !.phase = "failed", !.file = task[t].file]
    BY <1>0 DEF NewTask, TaskType, Phases
  <2>2. task' = [task EXCEPT ![t] = r]
    BY <2>1 DEF Ends
  <2> QED BY <1>0, <2>1, <2>2
<1>2. \A f \in File : Settled(f) => Settled(f)'
  BY DEF Settled, receiving
<1>3. WindowOK(t)'
  <2>1. \A j \in 1..(task'[t].file - 1) : Settled(Files[t][j])'
    <3>1. \A j \in 1..(task[t].file - 1) : j \in 1..Len(Files[t]) /\ Settled(Files[t][j])
      BY <1>0 DEF WindowOK
    <3>2. task'[t].file = task[t].file BY <1>1
    <3> QED BY <1>0, <1>2, <3>1, <3>2
  <2>2. task'[t].phase = "failed" /\ task'[t].acked = {} BY <1>1
  <2> QED BY <2>1, <2>2 DEF WindowOK
<1>4. CancelOK(t)'
  BY <1>0 DEF CancelOK, receiving, tombs
<1>5. AnnounceOK(t)'
  BY <1>0, <1>1 DEF AnnounceOK, receiving
<1> QED BY <1>0, <1>1, <1>3, <1>4, <1>5, QuietNet, SenderStep

\* BeginFile: a new window, once everything before is settled and, for the
\* clipboard, announced.
LEMMA BeginStep ==
  ASSUME Inv, NEW t \in Task, NEW n \in 1..Len(Files[t]), BeginFile(t, n),
         task[t].phase # "cancelled", UNCHANGED receiving,
         \/ log' = log
         \/ \E f \in File : Settled(f) /\ log' = [log EXCEPT !.sent = log.sent \cup {f}],
         \A j \in 1..(n - 1) : Settled(Files[t][j]),
         t \in Clipboard => t \in clip \cup log.whole
  PROVE  Inv'
<1>0. /\ task \in [Task -> TaskType] /\ WindowOK(t) /\ CancelOK(t) /\ AnnounceOK(t)
      /\ n \in Nat /\ Len(Files[t]) \in Nat
      /\ \A i \in 1..Len(Files[t]) : Files[t][i] \in FilesOf[t]
  BY TaskFacts
<1>1. /\ task'[t].phase = "manifest" /\ task'[t].file = n
      /\ task'[t].pending = {0} /\ task'[t].acked = {} /\ task'[t].next = 1
      /\ \A u \in Task \ {t} : task'[u] = task[u]
      /\ task' \in [Task -> TaskType]
  <2> DEFINE r == [NewTask EXCEPT !.phase = "manifest", !.file = n, !.pending = {0}]
  <2>1. r.phase = "manifest" /\ r.file = n /\ r.pending = {0} /\ r.acked = {} /\ r.next = 1
    BY DEF NewTask
  <2>2. r \in TaskType
    <3>1. "manifest" \in Phases /\ {0} \in SUBSET Nat /\ {} \in SUBSET Nat
      BY DEF Phases, Active
    <3> QED BY <1>0, <3>1 DEF NewTask, TaskType
  <2>3. task' = [task EXCEPT ![t] = r]
    BY DEF BeginFile
  <2> HIDE DEF r
  <2> QED BY <1>0, <2>1, <2>2, <2>3
<1>2. net' = net \cup {Manifest(Files[t][n])}
  BY DEF BeginFile
<1>3. OwnMessages(t) /\ net \subseteq net'
  <2>1. \A u \in Task \ {t} : \A f \in FilesOf[u] : f # Files[t][n]
    <3>1. \A u \in Task : \A f \in FilesOf[u] : TaskOf[f] = u BY FileFacts
    <3>2. TaskOf[Files[t][n]] = t BY <1>0, <3>1
    <3> QED BY <3>1, <3>2
  <2> QED BY <1>2, <2>1, MessageFacts DEF OwnMessages
<1>4. log'.whole = log.whole /\ log'.broken = log.broken
  BY TaskFacts DEF Types, Logs
<1>5. WindowOK(t)'
  <2>1. \A j \in 1..(n - 1) : Settled(Files[t][j])'
    BY <1>4 DEF Settled, receiving
  <2>2. /\ task'[t].phase = "manifest" /\ task'[t].file = n
        /\ task'[t].pending = {0} /\ task'[t].acked = {} /\ task'[t].next = 1
    BY <1>1
  <2>3. ~Answered(t, 0)' BY <2>2 DEF Answered
  <2> QED BY <2>1, <2>2, <2>3 DEF WindowOK
<1>6. CancelOK(t)'
  BY <1>0, <1>2, MessageFacts DEF CancelOK, receiving, tombs
<1>7. AnnounceOK(t)'
  <2>1. task'[t].phase = "manifest" BY <1>1
  <2>2. Announce(t) \in net' => Announce(t) \in net BY <1>2, MessageFacts
  <2> QED BY <1>0, <1>4, <2>1, <2>2 DEF AnnounceOK, receiving
<1> QED BY <1>1, <1>3, <1>5, <1>6, <1>7, SenderStep

\* A step that concerns neither tasks nor messages nor the receiver
\* (CancelTransfer and CancelGroup of the user, or no step).
LEMMA QuietStep ==
  ASSUME Inv, UNCHANGED <<task, net, receiving, log>>
  PROVE  Inv'
<1>1. Types' /\ SentOK' /\ PasteOK'
  BY DEF Inv, Types, Logs, SentOK, PasteOK, Settled, receiving, tombs
<1>2. \A f \in File : FileOK(f)'
  BY DEF Inv, FileOK, Opened, receiving, tombs
<1>3. \A t \in Grouped : GroupOK(t)'
  BY DEF Inv, GroupOK, Over, Opened, receiving, tombs
<1>4. ASSUME NEW t \in Task PROVE WindowOK(t)'
  <2>1. WindowOK(t) BY DEF Inv
  <2> QED BY <2>1 DEF WindowOK, Settled, Accepted, Has, Answered, Opened, Current, receiving
<1>5. \A t \in Task : CancelOK(t)' /\ AnnounceOK(t)'
  BY DEF Inv, CancelOK, AnnounceOK, Answered, receiving, tombs
<1> QED BY <1>1, <1>2, <1>3, <1>4, <1>5 DEF Inv

\* SendFile, SendFileGroup, SendClipboardFiles.
LEMMA StartStep ==
  ASSUME Inv, NEW t \in Task, Start(t)
  PROVE  Inv'
<1>0. /\ task \in [Task -> TaskType] /\ WindowOK(t) /\ CancelOK(t) /\ AnnounceOK(t)
      /\ task[t].phase = "idle" /\ UNCHANGED <<receiving, log>>
      /\ 1 \in 1..Len(Files[t]) /\ Len(Files[t]) \in Nat
  BY TaskFacts DEF Start
<1>1. CASE task' = Ends(t, "failed") /\ UNCHANGED net
  BY <1>0, <1>1, EndStep
<1>2. CASE t \notin Clipboard /\ BeginFile(t, 1)
  <2>1. \A j \in 1..(1 - 1) : Settled(Files[t][j]) OBVIOUS
  <2> QED BY <1>0, <1>2, <2>1, BeginStep
<1>3. CASE /\ t \in Clipboard /\ net' = net \cup {Announce(t)}
           /\ task' = [task EXCEPT ![t] = [NewTask EXCEPT !.phase = "announce",
                                                         !.pending = {0}]]
  <2>1. /\ task'[t].phase = "announce" /\ task'[t].file = 1
        /\ task'[t].pending = {0} /\ task'[t].acked = {}
        /\ \A u \in Task \ {t} : task'[u] = task[u]
        /\ task' \in [Task -> TaskType]
    <3> DEFINE r == [NewTask EXCEPT !.phase = "announce", !.pending = {0}]
    <3>1. r.phase = "announce" /\ r.file = 1 /\ r.pending = {0} /\ r.acked = {}
      BY DEF NewTask
    <3>2. r \in TaskType
      <4>1. "announce" \in Phases /\ {0} \in SUBSET Nat /\ {} \in SUBSET Nat
        BY DEF Phases, Active
      <4> QED BY <4>1 DEF NewTask, TaskType
    <3>3. task' = [task EXCEPT ![t] = r]
      BY <1>3
    <3> HIDE DEF r
    <3> QED BY <1>0, <3>1, <3>2, <3>3
  <2>2. OwnMessages(t) /\ net \subseteq net'
    BY <1>3, MessageFacts DEF OwnMessages
  <2>3. ~Answered(t, 0)'
    BY <2>1 DEF Answered
  <2>4. WindowOK(t)'
    <3>1. \A j \in 1..(task'[t].file - 1) : Settled(Files[t][j])' BY <2>1
    <3> QED BY <2>1, <3>1 DEF WindowOK
  <2>5. CancelOK(t)'
    BY <1>0, <1>3, MessageFacts DEF CancelOK, receiving, tombs
  <2>6. AnnounceOK(t)'
    BY <1>0, <1>3, <2>1, <2>3, MessageFacts DEF AnnounceOK, receiving
  <2> QED BY <1>0, <2>1, <2>2, <2>4, <2>5, <2>6, SenderStep
<1> QED BY <1>1, <1>2, <1>3 DEF Start

\* The announcement is confirmed, or the group cancelled before
\* (send_clipboard_files).
LEMMA AnnouncedStep ==
  ASSUME Inv, NEW t \in Task, Announced(t)
  PROVE  Inv'
<1>0. /\ AnnounceOK(t) /\ task[t].phase = "announce" /\ task[t].pending = {}
      /\ UNCHANGED <<receiving, log>> /\ 1 \in 1..Len(Files[t])
  BY TaskFacts DEF Announced
<1>1. t \in clip \cup log.whole
  BY <1>0 DEF AnnounceOK, Answered
<1>2. CASE task' = Ends(t, "failed") /\ UNCHANGED net
  BY <1>0, <1>2, EndStep
<1>3. CASE BeginFile(t, 1)
  <2>1. \A j \in 1..(1 - 1) : Settled(Files[t][j]) OBVIOUS
  <2> QED BY <1>0, <1>1, <1>3, <2>1, BeginStep
<1> QED BY <1>2, <1>3 DEF Announced

\* The sends that fail: a cancelled announcement, a refusal, a deadline
\* (drain_to).
LEMMA FailStep ==
  ASSUME Inv, NEW t \in Task, AnnounceCancelled(t) \/ TakeRejected(t) \/ TimesOut(t)
  PROVE  Inv'
<1>1. task' = Ends(t, "failed") /\ UNCHANGED <<net, receiving, log>>
  BY DEF AnnounceCancelled, TakeRejected, TimesOut
<1>2. task[t].phase \in Active
  BY DEF AnnounceCancelled, TakeRejected, TimesOut, Draining, Going, Active
<1> QED BY <1>1, <1>2, EndStep DEF Active

\* The manifest is confirmed, so the receiver has opened the file
\* (send_reader).
LEMMA ManifestAcceptedStep ==
  ASSUME Inv, NEW t \in Task, ManifestAccepted(t)
  PROVE  Inv'
<1>0. /\ task \in [Task -> TaskType] /\ WindowOK(t) /\ CancelOK(t) /\ AnnounceOK(t)
      /\ task[t].phase = "manifest" /\ task[t].pending = {}
      /\ task' = [task EXCEPT ![t].phase = "data"] /\ UNCHANGED <<net, receiving, log>>
      /\ Chunks[Current(t)] \in Nat /\ task[t].file \in 1..Len(Files[t])
  BY TaskFacts DEF ManifestAccepted
<1>1. /\ task'[t].phase = "data" /\ task'[t].file = task[t].file
      /\ task'[t].pending = {} /\ task'[t].acked = task[t].acked
      /\ task'[t].next = task[t].next
      /\ \A u \in Task \ {t} : task'[u] = task[u]
      /\ task' \in [Task -> TaskType]
  <2>1. "data" \in Phases BY DEF Phases, Active
  <2> QED BY <1>0, <2>1 DEF TaskType
<1>2. /\ task[t].next = 1 /\ Accepted(Current(t)) /\ Current(t)' = Current(t)
      /\ task[t].acked = {}
  BY <1>0, <1>1 DEF WindowOK, Answered, Current
<1>3. Accepted(Current(t))' /\ \A f \in File : Settled(f) => Settled(f)'
  BY <1>0, <1>2 DEF Accepted, Settled, Opened, receiving
<1>4. WindowOK(t)'
  <2>1. \A j \in 1..(task'[t].file - 1) : Settled(Files[t][j])'
    BY <1>0, <1>1 DEF WindowOK, Settled, receiving
  <2> QED BY <1>0, <1>1, <1>2, <1>3, <2>1 DEF WindowOK
<1>5. CancelOK(t)'
  BY <1>0 DEF CancelOK, receiving, tombs
<1>6. AnnounceOK(t)'
  BY <1>0, <1>1 DEF AnnounceOK, receiving
<1> QED BY <1>0, <1>1, <1>4, <1>5, <1>6, QuietNet, SenderStep

\* A chunk goes out, and is waited for (ConfirmedDelivery::send).
LEMMA SendChunkStep ==
  ASSUME Inv, NEW t \in Task, SendChunk(t)
  PROVE  Inv'
<1> DEFINE i == task[t].next
<1>0. /\ task \in [Task -> TaskType] /\ WindowOK(t) /\ CancelOK(t) /\ AnnounceOK(t)
      /\ task[t].phase = "data" /\ ~(i > Chunks[Current(t)]) /\ i \in Nat
      /\ task' = [task EXCEPT ![t].next = i + 1, ![t].pending = @ \cup {i}]
      /\ net' = net \cup {Chunk(Current(t), i)} /\ UNCHANGED <<receiving, log>>
      /\ Chunks[Current(t)] \in Nat /\ task[t].file \in 1..Len(Files[t])
  BY TaskFacts DEF SendChunk, AllSent
<1>1. /\ task'[t].phase = "data" /\ task'[t].file = task[t].file
      /\ task'[t].pending = task[t].pending \cup {i} /\ task'[t].acked = task[t].acked
      /\ task'[t].next = i + 1
      /\ \A u \in Task \ {t} : task'[u] = task[u]
      /\ task' \in [Task -> TaskType]
  <2> DEFINE r == [[task[t] EXCEPT !.next = i + 1] EXCEPT !.pending = task[t].pending \cup {i}]
  <2>1. task' = [task EXCEPT ![t] = r]
    BY <1>0
  <2>2. task[t] \in TaskType /\ i + 1 \in Nat /\ task[t].pending \cup {i} \in SUBSET Nat
    BY <1>0 DEF TaskType
  <2>3. /\ r.phase = task[t].phase /\ r.file = task[t].file /\ r.acked = task[t].acked
        /\ r.pending = task[t].pending \cup {i} /\ r.next = i + 1 /\ r \in TaskType
    BY <2>2 DEF TaskType
  <2> HIDE DEF r
  <2> QED BY <1>0, <2>1, <2>3
<1>2. /\ Accepted(Current(t)) /\ Current(t)' = Current(t) /\ i \in 1..(Chunks[Current(t)] + 1)
      /\ task[t].pending \subseteq 1..(i - 1) /\ task[t].acked \subseteq task[t].pending
      /\ \A k \in 1..(i - 1) : Answered(t, k) => Has(Current(t), k)
  BY <1>0, <1>1 DEF WindowOK, Current
<1>3. Accepted(Current(t))' /\ \A k : Has(Current(t), k) => Has(Current(t), k)'
  BY <1>0, <1>2 DEF Accepted, Has, Settled, Opened, receiving
<1>4. WindowOK(t)'
  <2>1. \A j \in 1..(task'[t].file - 1) : Settled(Files[t][j])'
    BY <1>0, <1>1 DEF WindowOK, Settled, receiving
  <2>2. ASSUME NEW k \in 1..i, Answered(t, k)' PROVE Has(Current(t), k)'
    <3>1. i \notin task[t].acked BY <1>0, <1>2
    <3>2. k # i BY <1>1, <2>2, <3>1 DEF Answered
    <3>3. k \in 1..(i - 1) BY <1>0, <3>2
    <3>4. Answered(t, k) BY <1>1, <2>2 DEF Answered
    <3> QED BY <1>2, <1>3, <3>3, <3>4
  <2>3. \A k \in 1..(task'[t].next - 1) : Answered(t, k)' => Has(Current(t), k)'
    <3>1. task'[t].next - 1 = i BY <1>0, <1>1
    <3> QED BY <2>2, <3>1
  <2>4. /\ task'[t].next \in 1..(Chunks[Current(t)] + 1)
        /\ task'[t].pending \subseteq 1..(task'[t].next - 1)
        /\ task'[t].acked \subseteq task'[t].pending
    BY <1>0, <1>1, <1>2
  <2> QED BY <1>1, <1>2, <1>3, <2>1, <2>3, <2>4 DEF WindowOK
<1>5. CancelOK(t)'
  BY <1>0, MessageFacts DEF CancelOK, receiving, tombs
<1>6. AnnounceOK(t)'
  BY <1>0, <1>1, MessageFacts DEF AnnounceOK, receiving
<1> HIDE DEF i
<1>7. OwnMessages(t) /\ net \subseteq net'
  BY <1>0, QuietNet
<1> QED BY <1>0, <1>1, <1>4, <1>5, <1>6, <1>7, SenderStep

\* An acknowledgement is read (drain_to).
LEMMA TakeAcceptedStep ==
  ASSUME Inv, NEW t \in Task, TakeAccepted(t)
  PROVE  Inv'
<1>0. /\ task \in [Task -> TaskType] /\ WindowOK(t) /\ CancelOK(t) /\ AnnounceOK(t)
      /\ UNCHANGED <<net, receiving, log>> /\ Len(Files[t]) \in Nat
      /\ task[t].file \in 1..Len(Files[t]) /\ task[t].phase \in Active
  BY TaskFacts DEF TakeAccepted, Draining, Going
<1>1. PICK i \in task[t].acked :
        task' = [task EXCEPT ![t].pending = @ \ {i}, ![t].acked = @ \ {i}]
  BY DEF TakeAccepted
<1>2. /\ task'[t].phase = task[t].phase /\ task'[t].file = task[t].file
      /\ task'[t].pending = task[t].pending \ {i} /\ task'[t].acked = task[t].acked \ {i}
      /\ task'[t].next = task[t].next
      /\ \A u \in Task \ {t} : task'[u] = task[u]
      /\ task' \in [Task -> TaskType]
  BY <1>0, <1>1 DEF TaskType
<1>3. \A k : Answered(t, k)' => Answered(t, k)
  BY <1>1, <1>2 DEF Answered
<1>4. /\ Current(t)' = Current(t)
      /\ \A f : /\ Accepted(f) => Accepted(f)'
                /\ Settled(f) => Settled(f)'
                /\ \A k : Has(f, k) => Has(f, k)'
  BY <1>0, <1>2 DEF Current, Accepted, Has, Settled, Opened, receiving
<1>5. WindowOK(t)'
  <2>1. \A j \in 1..(task'[t].file - 1) : Settled(Files[t][j])'
    BY <1>0, <1>2, <1>4 DEF WindowOK
  <2>2. task'[t].acked \subseteq task'[t].pending
    BY <1>0, <1>2 DEF WindowOK
  <2>3. /\ task'[t].phase = "manifest" => task'[t].next = 1
        /\ task'[t].phase = "manifest" /\ Answered(t, 0)' => Accepted(Current(t))'
    BY <1>0, <1>2, <1>3, <1>4 DEF WindowOK
  <2>4. task'[t].phase = "data" =>
          /\ Accepted(Current(t))' /\ task'[t].next \in 1..(Chunks[Current(t)] + 1)
          /\ task'[t].pending \subseteq 1..(task'[t].next - 1)
          /\ \A k \in 1..(task'[t].next - 1) : Answered(t, k)' => Has(Current(t), k)'
    BY <1>0, <1>2, <1>3, <1>4 DEF WindowOK
  <2> QED BY <1>0, <1>2, <1>4, <2>1, <2>2, <2>3, <2>4 DEF WindowOK, Active
<1>6. CancelOK(t)'
  BY <1>0, <1>2 DEF CancelOK, receiving, tombs
<1>7. AnnounceOK(t)'
  BY <1>0, <1>2, <1>3 DEF AnnounceOK, receiving
<1> QED BY <1>0, <1>2, <1>5, <1>6, <1>7, QuietNet, SenderStep

\* The record a task ends with.
LEMMA EndsFacts ==
  ASSUME Inv, NEW t \in Task, NEW phase \in Phases, task' = Ends(t, phase)
  PROVE  /\ task'[t].phase = phase /\ task'[t].file = task[t].file /\ task'[t].acked = {}
         /\ task'[t].pending = {}
         /\ \A u \in Task \ {t} : task'[u] = task[u]
         /\ task' \in [Task -> TaskType]
<1> DEFINE r == [NewTask EXCEPT !.phase = phase, !.file = task[t].file]
<1>0. task \in [Task -> TaskType] /\ task[t].file \in Nat
  BY TaskFacts DEF TaskType
<1>1. r.phase = phase /\ r.file = task[t].file /\ r.acked = {} /\ r.pending = {}
  BY DEF NewTask
<1>2. r \in TaskType
  BY <1>0 DEF NewTask, TaskType
<1>3. task' = [task EXCEPT ![t] = r]
  BY DEF Ends
<1> HIDE DEF r
<1> QED BY <1>0, <1>1, <1>2, <1>3

\* A cancellation goes out, and the task has ended (handle_outgoing_cancel).
LEMMA CancelSeenStep ==
  ASSUME Inv, NEW t \in Task, CancelSeen(t)
  PROVE  Inv'
<1>0. /\ task \in [Task -> TaskType] /\ WindowOK(t) /\ CancelOK(t) /\ AnnounceOK(t)
      /\ task[t].phase \in {"manifest", "data"} /\ task' = Ends(t, "cancelled")
      /\ net' = net \cup {IF t \in Grouped THEN CancelGroup(t) ELSE CancelFile(Current(t))}
      /\ UNCHANGED <<receiving, log>> /\ Current(t) \in FilesOf[t]
      /\ task[t].file \in 1..Len(Files[t])
  BY TaskFacts DEF CancelSeen
<1>1. /\ task'[t].phase = "cancelled" /\ task'[t].file = task[t].file /\ task'[t].acked = {}
      /\ task'[t].pending = {}
      /\ \A u \in Task \ {t} : task'[u] = task[u]
      /\ task' \in [Task -> TaskType]
  <2>1. "cancelled" \in Phases BY DEF Phases
  <2> QED BY <1>0, <2>1, EndsFacts
<1>2. OwnMessages(t) /\ net \subseteq net'
  <2>1. \A u \in Task \ {t} : \A f \in FilesOf[u] : f # Current(t)
    <3>1. \A u \in Task : \A f \in FilesOf[u] : TaskOf[f] = u BY FileFacts
    <3> QED BY <1>0, <3>1
  <2>2. CASE t \in Grouped
    BY <1>0, <2>2, MessageFacts DEF OwnMessages
  <2>3. CASE t \notin Grouped
    BY <1>0, <2>1, <2>3, MessageFacts DEF OwnMessages
  <2> QED BY <2>2, <2>3
<1>3. WindowOK(t)'
  <2>1. \A j \in 1..(task'[t].file - 1) : Settled(Files[t][j])'
    BY <1>0, <1>1 DEF WindowOK, Settled, receiving
  <2> QED BY <1>1, <2>1 DEF WindowOK
<1>4. CancelOK(t)'
  <2>1. deadG' = deadG BY <1>0 DEF receiving, tombs
  <2>2. CASE t \in Grouped
    BY <1>1, <2>2 DEF CancelOK
  <2>3. CASE t \notin Grouped
    BY <1>0, <1>1, <2>1, <2>3, MessageFacts DEF CancelOK
  <2> QED BY <2>2, <2>3
<1>5. AnnounceOK(t)'
  <2>1. /\ Announce(t) \in net' => Announce(t) \in net
        /\ \A f : Manifest(f) \in net' => Manifest(f) \in net
    BY <1>0, MessageFacts
  <2> QED BY <1>0, <1>1, <2>1 DEF AnnounceOK, receiving
<1> QED BY <1>0, <1>1, <1>2, <1>3, <1>4, <1>5, SenderStep

\* A file whose every chunk is confirmed is settled: an open file lacks a chunk
\* (OutgoingCompleted).
LEMMA FileConfirmedStep ==
  ASSUME Inv, NEW t \in Task, FileConfirmed(t)
  PROVE  Inv'
<1> DEFINE f == Current(t)
<1>0. /\ task \in [Task -> TaskType] /\ WindowOK(t) /\ CancelOK(t) /\ AnnounceOK(t)
      /\ task[t].phase = "data" /\ task[t].next > Chunks[f] /\ task[t].pending = {}
      /\ log' = [log EXCEPT !.sent = log.sent \cup {f}] /\ UNCHANGED receiving
      /\ f \in File /\ f \in FilesOf[t] /\ Chunks[f] \in Nat /\ task[t].next \in Nat
      /\ task[t].file \in 1..Len(Files[t]) /\ Len(Files[t]) \in Nat /\ Types
      /\ \A n \in 1..Len(Files[t]) : Files[t][n] \in FilesOf[t]
  BY TaskFacts DEF FileConfirmed, AllSent
<1>1. Settled(f)
  <2>1. task[t].next = Chunks[f] + 1 /\ Accepted(f)
        /\ \A i \in 1..(task[t].next - 1) : Has(f, i)
    BY <1>0 DEF WindowOK, Answered
  <2>2. \A i \in 1..Chunks[f] : Has(f, i)
    BY <1>0, <2>1
  <2>3. FileOK(f) BY <1>0 DEF Inv
  <2> QED BY <2>1, <2>2, <2>3 DEF FileOK, Has, Accepted
<1>2. \A j \in 1..task[t].file : Settled(Files[t][j])
  <2>1. \A j \in 1..(task[t].file - 1) : Settled(Files[t][j])
    BY <1>0 DEF WindowOK
  <2>2. f = Files[t][task[t].file] BY DEF Current
  <2> QED BY <1>0, <1>1, <2>1, <2>2
<1>3. t \in Clipboard => t \in clip \cup log.whole
  BY <1>0 DEF AnnounceOK
<1>4. CASE task[t].file < Len(Files[t]) /\ BeginFile(t, task[t].file + 1)
  <2> DEFINE n == task[t].file + 1
  <2>1. n \in 1..Len(Files[t]) /\ \A j \in 1..(n - 1) : Settled(Files[t][j])
    BY <1>0, <1>2, <1>4
  <2>2. BeginFile(t, n) BY <1>4
  <2>3. \E g \in File : Settled(g) /\ log' = [log EXCEPT !.sent = log.sent \cup {g}]
    BY <1>0, <1>1
  <2> HIDE DEF n, f
  <2> QED BY <1>0, <1>3, <2>1, <2>2, <2>3, BeginStep
<1>5. CASE ~(task[t].file < Len(Files[t])) /\ task' = Ends(t, "completed") /\ UNCHANGED net
  <2>1. /\ task'[t].phase = "completed" /\ task'[t].file = task[t].file /\ task'[t].acked = {}
        /\ task'[t].pending = {}
        /\ \A u \in Task \ {t} : task'[u] = task[u]
        /\ task' \in [Task -> TaskType]
    <3>1. "completed" \in Phases BY DEF Phases
    <3> QED BY <1>5, <3>1, EndsFacts
  <2>2. log'.broken = log.broken /\ log'.whole = log.whole
    BY <1>0 DEF Types, Logs
  <2>3. WindowOK(t)'
    <3>1. \A g : Settled(g) => Settled(g)' BY <1>0, <2>2 DEF Settled, receiving
    <3>2. \A j \in 1..(task'[t].file - 1) : Settled(Files[t][j])'
      BY <1>0, <1>2, <2>1, <3>1
    <3>3. \A g \in FilesOf[t] : Settled(g)'
      <4>1. task[t].file = Len(Files[t]) BY <1>0, <1>5
      <4>2. \A g \in FilesOf[t] : \E j \in 1..Len(Files[t]) : g = Files[t][j] BY FileFacts
      <4> QED BY <1>2, <3>1, <4>1, <4>2
    <3> QED BY <2>1, <3>2, <3>3 DEF WindowOK
  <2>4. CancelOK(t)'
    BY <1>0, <1>5 DEF CancelOK, receiving, tombs
  <2>5. AnnounceOK(t)'
    BY <1>0, <1>5, <2>1, <2>2 DEF AnnounceOK, receiving
  <2>6. OwnMessages(t) /\ net \subseteq net' BY <1>5, QuietNet
  <2>7. \E g \in File : Settled(g) /\ log' = [log EXCEPT !.sent = log.sent \cup {g}]
    BY <1>0, <1>1
  <2> HIDE DEF f
  <2> QED BY <1>0, <2>1, <2>3, <2>4, <2>5, <2>6, <2>7, SenderStep
<1> QED BY <1>4, <1>5 DEF FileConfirmed

-----------------------------------------------------------------------------
(* The invariant, and what follows from it.                                *)

\* The program starts with nothing sent and nothing received.
LEMMA InitInv == Init => Inv
<1> SUFFICES ASSUME Init PROVE Inv OBVIOUS
<1>0. /\ \A f \in File : TaskOf[f] \in Task
      /\ \A t \in Task : /\ FilesOf[t] \subseteq File /\ FilesOf[t] # {}
                         /\ 1 \in 1..Len(Files[t])
      /\ Grouped \subseteq Task
  BY FileFacts, TransferAssumption
<1>1. NewTask \in TaskType
  <2>1. "idle" \in Phases BY DEF Phases
  <2> QED BY <2>1 DEF NewTask, TaskType
<1>2. \A t \in Task : /\ task[t].phase = "idle" /\ task[t].file = 1
                      /\ task[t].pending = {} /\ task[t].acked = {}
  BY DEF Init, NewTask
<1>3. Types
  <2>1. task \in [Task -> TaskType] BY <1>1 DEF Init
  <2>2. \A t \in Task : task[t].file \in 1..Len(Files[t]) BY <1>0, <1>2
  <2>3. log \in Logs
    BY DEF Init, Logs
  <2>4. /\ got \in [File -> SUBSET Nat] /\ done \in SUBSET File
        /\ group \in [Task -> SUBSET File] /\ clip \in SUBSET Clipboard
        /\ dir \in Dirs /\ nextDir \in Dirs \cup {NoDir}
        /\ disk \in [File -> Dirs \cup {NoDir}]
    BY DEF Init, Closed, Dirs
  <2> QED BY <2>1, <2>2, <2>3, <2>4 DEF Types, Logs, TaskType
<1>4. SentOK /\ PasteOK
  BY DEF Init, SentOK, PasteOK
<1>5. \A f \in File : ~Opened(f) /\ FileOK(f)
  BY DEF Init, FileOK, Opened
<1>6. \A t \in Grouped : GroupOK(t)
  BY <1>0 DEF Init, GroupOK
<1>7. \A t \in Task : WindowOK(t)
  <2>1. \A t \in Task : 1..(task[t].file - 1) = {} BY <1>2
  <2> QED BY <1>2, <2>1 DEF WindowOK
<1>8. \A t \in Task : CancelOK(t) /\ AnnounceOK(t)
  BY <1>2 DEF Init, CancelOK, AnnounceOK
<1> QED BY <1>3, <1>4, <1>5, <1>6, <1>7, <1>8 DEF Inv

\* Every step of the two programs keeps it.
LEMMA NextInv == Inv /\ [Next]_vars => Inv'
<1> SUFFICES ASSUME Inv, [Next]_vars PROVE Inv' OBVIOUS
<1>1. ASSUME NEW t \in Task, SendStep(t) PROVE Inv'
  <2>1. CASE Start(t) BY <2>1, StartStep
  <2>2. CASE UserCancels(t)
    <3>1. UNCHANGED <<task, net, receiving, log>> BY <2>2 DEF UserCancels
    <3> QED BY <3>1, QuietStep
  <2>3. CASE Announced(t) BY <2>3, AnnouncedStep
  <2>4. CASE AnnounceCancelled(t) \/ TakeRejected(t) \/ TimesOut(t) BY <2>4, FailStep
  <2>5. CASE ManifestAccepted(t) BY <2>5, ManifestAcceptedStep
  <2>6. CASE SendChunk(t) BY <2>6, SendChunkStep
  <2>7. CASE TakeAccepted(t) BY <2>7, TakeAcceptedStep
  <2>8. CASE CancelSeen(t) BY <2>8, CancelSeenStep
  <2>9. CASE FileConfirmed(t) BY <2>9, FileConfirmedStep
  <2> QED BY <1>1, <2>1, <2>2, <2>3, <2>4, <2>5, <2>6, <2>7, <2>8, <2>9 DEF SendStep
<1>2. ASSUME NEW f \in File, HandleManifest(f) PROVE Inv'
  BY <1>2, ManifestStep
<1>3. ASSUME NEW f \in File, NEW i \in 1..Chunks[f], HandleChunk(f, i) PROVE Inv'
  BY <1>3, ChunkStep
<1>4. ASSUME NEW f \in File, HandleCancelFile(f) PROVE Inv'
  BY <1>4, CancelFileStep
<1>5. ASSUME NEW t \in Task, HandleAnnounce(t) PROVE Inv'
  BY <1>5, AnnounceStep
<1>6. ASSUME NEW t \in Task, HandleCancelGroup(t) PROVE Inv'
  BY <1>6, CancelledGroupStep
<1>7. ASSUME NEW d \in Dir, SetReceiveConfig(d) PROVE Inv'
  BY <1>7, ReceiveConfigStep
<1>8. CASE UNCHANGED vars
  <2>1. UNCHANGED <<task, net, receiving, log>> BY <1>8 DEF vars, receiving, tombs
  <2> QED BY <2>1, QuietStep
<1> QED BY <1>1, <1>2, <1>3, <1>4, <1>5, <1>6, <1>7, <1>8 DEF Next, ReceiveStep

\* The receiver's bookkeeping, the windows and the reports of both sides agree
\* in every reachable state (file_transfer.rs, file_delivery.rs).
THEOREM InvAlways == Spec => []Inv
<1>1. Init => Inv BY InitInv
<1>2. Inv /\ [Next]_vars => Inv' BY NextInv
<1> QED BY <1>1, <1>2, PTL DEF Spec

\* What the sender reports as sent has been received (OutgoingCompleted).
THEOREM SentIsReceivedAlways == Spec => []SentIsReceived
<1>1. Inv => SentIsReceived
  <2> SUFFICES ASSUME Inv, NEW f \in log.sent \ log.broken PROVE Received(f)
    BY DEF SentIsReceived
  <2>1. f \in File /\ Settled(f) BY DEF Inv, Types, Logs, SentOK
  <2>2. f \in done BY <2>1 DEF Settled
  <2>3. FileOK(f) BY <2>1 DEF Inv
  <2> QED BY <2>2, <2>3 DEF FileOK, Received
<1> QED BY <1>1, InvAlways, PTL

\* A file is received at most once (completed_files).
THEOREM ReceivedOnceAlways == Spec => []ReceivedOnce
<1>1. Inv => ReceivedOnce
  BY DEF Inv, FileOK, ReceivedOnce
<1> QED BY <1>1, InvAlways, PTL

\* A group that is over is not completed: none of its files can be finished
\* (handle_manifest, handle_file_chunk).
LEMMA WholeStep ==
  ASSUME Inv, [Next]_vars, NEW t \in log.undone, t \in log'.whole
  PROVE  t \in log.whole
<1>0. /\ t \in Grouped /\ t \in deadG /\ Over(t) /\ Types
      /\ \A f \in File : TaskOf[f] = t => f \in FilesOf[t]
  BY FileFacts DEF Inv, PasteOK, GroupOK
<1>1. CASE UNCHANGED log BY <1>1
<1>2. ASSUME NEW f \in File, Finish(f, dir), Opened(f) \/ TaskOf[f] \notin deadG
      PROVE  t \in log.whole
  <2>1. TaskOf[f] # t BY <1>0, <1>2 DEF Over
  <2> QED BY <1>0, <1>2, <2>1 DEF Finish, Types, Logs
<1>3. ASSUME NEW f \in File, HandleManifest(f) PROVE t \in log.whole
  <2>1. CASE Finish(f, dir) /\ ~IsCancelled(f) BY <1>2, <2>1 DEF IsCancelled
  <2>2. CASE UNCHANGED log BY <2>2
  <2> QED BY <1>3, <2>1, <2>2 DEF HandleManifest, Unfinished
<1>4. ASSUME NEW f \in File, NEW i \in 1..Chunks[f], HandleChunk(f, i) PROVE t \in log.whole
  <2>1. CASE Finish(f, dir) /\ Opened(f) BY <1>2, <2>1
  <2>2. CASE log' = [log EXCEPT !.broken = @ \cup {f}] \/ log' = log
    BY <1>0, <2>2 DEF Types, Logs
  <2> QED BY <1>4, <2>1, <2>2 DEF HandleChunk, Unfinished
<1>5. ASSUME NEW u \in Task, HandleCancelGroup(u) PROVE t \in log.whole
  BY <1>0, <1>5 DEF HandleCancelGroup, Types, Logs
<1>6. ASSUME NEW u \in Task, SendStep(u) PROVE t \in log.whole
  <2>1. CASE FileConfirmed(u) BY <1>0, <2>1 DEF FileConfirmed, Types, Logs
  <2>2. CASE ~FileConfirmed(u)
    BY <1>6, <2>2 DEF SendStep, Start, UserCancels, Announced, AnnounceCancelled,
         ManifestAccepted, SendChunk, TakeAccepted, TakeRejected, TimesOut, CancelSeen
  <2> QED BY <2>1, <2>2
<1>7. CASE UNCHANGED vars BY <1>7 DEF vars
<1>8. CASE \/ \E f \in File : HandleCancelFile(f)
           \/ \E u \in Task : HandleAnnounce(u)
           \/ \E d \in Dir : SetReceiveConfig(d)
  BY <1>8 DEF HandleCancelFile, HandleAnnounce, SetReceiveConfig
<1> QED BY <1>3, <1>4, <1>5, <1>6, <1>7, <1>8 DEF Next, ReceiveStep

\* A group that was reported as cancelled is never completed or opened again, and
\* only what could not be deleted is left of it (cancel_incoming_group).
THEOREM CancelLastsAlways == Spec => CancelLasts
<1> DEFINE Ended == \A t \in log.undone : \A f \in FilesOf[t] :
                      ~Opened(f) /\ (disk[f] = NoDir \/ t \in log.whole \/ f \in log.kept)
           Stays == \A t \in log.undone : t \in log'.whole => t \in log.whole
<1>1. Inv => Ended
  <2> SUFFICES ASSUME Inv, NEW t \in log.undone, NEW f \in FilesOf[t]
               PROVE  ~Opened(f) /\ (disk[f] = NoDir \/ t \in log.whole \/ f \in log.kept)
    OBVIOUS
  <2>1. t \in Grouped
    BY DEF Inv, PasteOK
  <2>2. GroupOK(t) BY <2>1 DEF Inv
  <2> QED BY <2>2 DEF GroupOK, Over
<1>2. Inv /\ [Next]_vars => [Stays]_vars
  BY WholeStep
<1>3. CancelLasts <=> []Ended /\ [][Stays]_vars
  BY DEF CancelLasts
<1> HIDE DEF Ended, Stays
<1> QED BY <1>1, <1>2, <1>3, InvAlways, PTL DEF Spec

\* Groups are reported, pasted and confirmed as a whole
\* (record_group_completion, IncomingGroupCompleted).
THEOREM GroupWholeAlways == Spec => []GroupWhole
<1>1. Inv => GroupWhole
  <2> SUFFICES ASSUME Inv PROVE GroupWhole OBVIOUS
  <2>1. log.whole \cap Clipboard = log.pasted /\ log.whole \subseteq Grouped
    BY DEF Inv, PasteOK
  <2>2. \A t \in log.whole : \A f \in FilesOf[t] : disk[f] # NoDir
    BY <2>1 DEF Inv, GroupOK
  <2>3. ASSUME NEW t \in Grouped, task[t].phase = "completed",
               FilesOf[t] \cap log.broken = {}
        PROVE  t \in log.whole
    <3>1. t \in Task /\ GroupOK(t) /\ WindowOK(t) /\ CancelOK(t)
      BY TransferAssumption DEF Inv
    <3>2. FilesOf[t] \subseteq done
      BY <2>3, <3>1 DEF WindowOK, Settled
    <3>3. t \notin deadG BY <2>3, <3>1 DEF CancelOK
    <3> QED BY <3>1, <3>2, <3>3 DEF GroupOK
  <2> QED BY <2>1, <2>2, <2>3 DEF GroupWhole
<1> QED BY <1>1, InvAlways, PTL

\* The files of one group are in one directory
\* (apply_pending_receive_config_if_idle).
THEOREM GroupInOneDirAlways == Spec => []GroupInOneDir
<1>1. Inv => GroupInOneDir
  BY DEF Inv, GroupOK, GroupInOneDir
<1> QED BY <1>1, InvAlways, PTL
=============================================================================
