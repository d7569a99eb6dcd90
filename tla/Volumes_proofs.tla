--------------------------- MODULE Volumes_proofs ---------------------------
(***************************************************************************)
(* What is proved of the parts that store, install, format, fill and mount *)
(* volumes, for any processes, images, directories, paths, passphrases,    *)
(* texts and names.                                                        *)
(***************************************************************************)
EXTENDS VolumeStore, Installer, Desktop, VolumeCommands, VolumeFormat, FuseFs, Integers, TLAPS,
        SequenceTheorems, WellFoundedInduction

-----------------------------------------------------------------------------
(* VolumeStore: the crash protocol for any number of processes and images, *)
(* crashes and failing calls anywhere.  When calls on one volume do not    *)
(* overlap (Exclusive), the file is always whole (VolumeWhole) and, on a   *)
(* path with a directory component, a save that returned Ok cannot be      *)
(* undone (AckedIsDurable).                                                *)

\* At most one call runs.
Alone == \A p, q \in Procs : pc[p] \notin IdlePCs /\ pc[q] \notin IdlePCs => p = q

\* Only the window between opening and writing tmp has a file open.
TmpOpened == \A p \in Procs : fd[p] = IF pc[p] = "write" THEN "tmp" ELSE "none"

\* What tmp holds while its saver works on it.
Staged ==
    \A p \in Procs :
        /\ pc[p] = "write" => tmp.bytes = Empty
        /\ pc[p] = "sync" => tmp.bytes = img[p]
        /\ pc[p] = "rename" => tmp = Synced(img[p])

\* No entry of the volume path, current or not, has content to lose.
Settled == \A f \in oldData \cup {data} : f.bytes \in Images /\ f.synced

WholeInv == TypeOK /\ Alone /\ TmpOpened /\ Staged /\ Settled

LEMMA InitWholeInv == Init => WholeInv
BY StoreAssumption
   DEF Init, WholeInv, TypeOK, Alone, TmpOpened, Staged, Settled, Synced, Files,
       Bytes, Images, SavePCs, LoadPCs, IdlePCs

\* The inductive step, one case per action.
LEMMA NextWholeInv ==
    ASSUME Exclusive, WholeInv, [Next]_vars
    PROVE  WholeInv'
<1> USE StoreAssumption
        DEF WholeInv, TypeOK, Alone, TmpOpened, Staged, Settled, Synced, Dirty,
            Files, Bytes, Images, SavePCs, LoadPCs, IdlePCs, Go, disk
<1>1. ASSUME NEW p \in Procs, NEW v \in Payloads, BeginSave(p, v)
      PROVE  WholeInv'
  BY <1>1 DEF BeginSave, CanBegin
<1>2. ASSUME NEW p \in Procs, BeginLoad(p)
      PROVE  WholeInv'
  BY <1>2 DEF BeginLoad, CanBegin
<1>3. ASSUME NEW p \in Procs, SaveStep(p)
      PROVE  WholeInv'
  <2>1. CASE PersistWal(p)
    BY <2>1 DEF PersistWal
  <2>2. CASE SyncWal(p)
    BY <2>2 DEF SyncWal, FsyncDir
  <2>3. CASE CreateTmp(p)
    BY <2>3 DEF CreateTmp
  <2>4. CASE WriteTmp(p)
    <3>1. fd[p] = "tmp" /\ tmp.bytes = Empty
      BY <2>4 DEF WriteTmp
    <3>2. tmp' = Dirty(img[p]) /\ UNCHANGED <<data, wal, oldData, oldWal, img>>
      BY <2>4, <3>1 DEF WriteTmp, Overwritten
    <3>3. \A q \in Procs \ {p} : pc[q] \in IdlePCs
      BY <2>4 DEF WriteTmp
    <3>4. TypeOK' /\ Alone' /\ TmpOpened' /\ Settled'
      BY <2>4, <3>2 DEF WriteTmp
    <3>5. Staged'
      BY <2>4, <3>2, <3>3 DEF WriteTmp
    <3>6. QED
      BY <3>4, <3>5
  <2>5. CASE SyncTmp(p)
    <3>1. /\ pc[p] = "sync" /\ pc' = [pc EXCEPT ![p] = "rename"]
          /\ tmp' = Synced(tmp.bytes)
          /\ UNCHANGED <<data, wal, oldData, oldWal, img, fd>>
      BY <2>5 DEF SyncTmp
    <3>2. tmp.bytes = img[p] /\ tmp' = Synced(img[p])
      BY <3>1
    <3>3. TypeOK' /\ Alone' /\ TmpOpened' /\ Settled'
      BY <3>1, <3>2
    <3>4. Staged'
      BY <3>1, <3>2
    <3>5. QED
      BY <3>3, <3>4
  <2>6. CASE Rename(p)
    <3>1. /\ pc[p] = "rename" /\ pc' = [pc EXCEPT ![p] = "settle"]
          /\ data' = tmp /\ oldData' = oldData \cup {data}
          /\ tmp' = Synced(NoFile)
          /\ UNCHANGED <<wal, oldWal, img>>
      BY <2>6 DEF Rename, Publish
    <3>2. /\ fd' = [q \in Procs |-> Moved(fd[q])]
          /\ \A q \in Procs : fd[q] = "none"
      BY <2>6 DEF Rename
    <3>3. fd' = fd
      BY <3>2 DEF Moved
    <3>4. tmp = Synced(img[p])
      BY <3>1
    <3>5. TypeOK'
      BY <3>1, <3>3, <3>4
    <3>6. Alone' /\ TmpOpened'
      BY <3>1, <3>3
    <3>7. Staged'
      BY <3>1
    <3>8. Settled'
      BY <3>1, <3>4
    <3>9. QED
      BY <3>5, <3>6, <3>7, <3>8
  <2>7. CASE RenameFails(p)
    BY <2>7 DEF RenameFails, End
  <2>8. CASE SyncData(p)
    BY <2>8 DEF SyncData, FsyncDir
  <2>9. CASE ClearWal(p)
    BY <2>9 DEF ClearWal, RemoveWal
  <2>10. CASE Ack(p)
    BY <2>10 DEF Ack, Return, FsyncDir
  <2>11. QED
    BY <1>3, <2>1, <2>2, <2>3, <2>4, <2>5, <2>6, <2>7, <2>8, <2>9, <2>10
       DEF SaveStep
<1>4. ASSUME NEW p \in Procs, LoadStep(p)
      PROVE  WholeInv'
  <2>1. CASE Inspect(p)
    BY <2>1 DEF Inspect
  <2>2. CASE Replay(p)
    BY <2>2 DEF Replay, Publish
  <2>3. CASE RecoverFails(p)
    BY <2>3 DEF RecoverFails
  <2>4. CASE SyncReplay(p)
    BY <2>4 DEF SyncReplay, FsyncDir
  <2>5. CASE DropWal(p)
    BY <2>5 DEF DropWal, RemoveWal
  <2>6. CASE SyncDrop(p)
    BY <2>6 DEF SyncDrop, FsyncDir
  <2>7. CASE Read(p)
    BY <2>7 DEF Read, Return, End
  <2>8. QED
    BY <1>4, <2>1, <2>2, <2>3, <2>4, <2>5, <2>6, <2>7 DEF LoadStep
<1>5. ASSUME NEW p \in Procs, Fail(p)
      PROVE  WholeInv'
  BY <1>5 DEF Fail, End
<1>6. ASSUME NEW p \in Procs, Kill(p)
      PROVE  WholeInv'
  BY <1>6 DEF Kill, End
<1>7. CASE PowerLoss
  <2>1. PICK f \in oldData \cup {data} : data' \in Survivors(f)
    BY <1>7 DEF PowerLoss, DataAfterLoss
  <2>2. data' = Synced(f.bytes) /\ f.bytes \in Images
    BY <2>1 DEF Survivors
  <2>3. wal' \in Images
    BY <1>7 DEF PowerLoss, WalAfterLoss
  <2>4. QED
    BY <1>7, <2>2, <2>3 DEF PowerLoss
<1>8. CASE UNCHANGED vars
  BY <1>8 DEF vars
<1>9. QED
  BY <1>1, <1>2, <1>3, <1>4, <1>5, <1>6, <1>7, <1>8 DEF Next

LEMMA WholeInvImplies == WholeInv => VolumeWhole
BY DEF WholeInv, Settled, VolumeWhole, DataAfterLoss, Survivors, Synced

THEOREM WholeInvHolds == Exclusive => (Spec => []WholeInv)
<1> SUFFICES ASSUME Exclusive PROVE Spec => []WholeInv
  OBVIOUS
<1>1. WholeInv /\ [Next]_vars => WholeInv'
  BY NextWholeInv
<1>2. QED
  BY InitWholeInv, <1>1, PTL DEF Spec

\* Type correctness of the store.
THEOREM Typing == Exclusive => (Spec => []TypeOK)
<1>1. WholeInv => TypeOK
  BY DEF WholeInv
<1>2. QED
  BY WholeInvHolds, <1>1, PTL

\* However often calls fail, are killed or lose power, what is under the
\* volume path is an image that was saved (OnDiskFile::save).
THEOREM Wholeness == Exclusive => (Spec => []VolumeWhole)
BY WholeInvHolds, WholeInvImplies, PTL

-----------------------------------------------------------------------------
(* Durability.  On top of WholeInv: where a save stands tells which of the  *)
(* log and the volume holds its image for good.                            *)

Logged(p) == wal = img[p] /\ oldWal = {}
Landed(p) == data.bytes = img[p] /\ oldData = {}

SaveInv(p) ==
    /\ pc[p] \in SavePCs => img[p] \in Payloads
    /\ pc[p] = "logSync" => wal = img[p]
    /\ pc[p] \in {"create", "write", "sync", "rename", "settle", "clear"} =>
           Logged(p)
    /\ pc[p] = "settle" => data.bytes = img[p]
    /\ pc[p] = "clear" => Landed(p)
    /\ pc[p] = "ack" => Landed(p) /\ WalAfterLoss \subseteq {NoFile, img[p]}

DurableInv == WholeInv /\ \A p \in Procs : SaveInv(p)

\* With one call at a time, SaveInv is settled by the process that steps.
LEMMA OthersIdle ==
    ASSUME Alone', NEW p \in Procs, pc'[p] \notin IdlePCs, SaveInv(p)'
    PROVE  \A q \in Procs : SaveInv(q)'
BY DEF Alone, SaveInv, SavePCs, IdlePCs

LEMMA AllIdle ==
    ASSUME pc' = [p \in Procs |-> "idle"]
    PROVE  \A q \in Procs : SaveInv(q)'
BY DEF SaveInv, SavePCs

LEMMA NextDurableInv ==
    ASSUME Exclusive, ~BarePath, DurableInv, [Next]_vars
    PROVE  DurableInv'
<1> USE StoreAssumption
<1>1. WholeInv'
  BY NextWholeInv DEF DurableInv
<1>2. TypeOK /\ TypeOK' /\ Alone /\ Alone' /\ Staged /\ \A q \in Procs : SaveInv(q)
  BY <1>1 DEF DurableInv, WholeInv
<1>3. ASSUME PowerLoss PROVE \A q \in Procs : SaveInv(q)'
  BY <1>3, AllIdle DEF PowerLoss
<1>4. ASSUME UNCHANGED vars PROVE \A q \in Procs : SaveInv(q)'
  <2>1. SUFFICES ASSUME NEW q \in Procs PROVE SaveInv(q)'
    OBVIOUS
  <2>2. SaveInv(q)
    BY <1>2
  <2>3. UNCHANGED <<data, wal, oldData, oldWal, pc, img>>
    BY <1>4 DEF vars
  <2>4. QED
    BY <2>2, <2>3 DEF SaveInv, Logged, Landed, WalAfterLoss
<1> USE DEF SaveInv, Logged, Landed, WalAfterLoss, SavePCs, LoadPCs, IdlePCs, Go, TypeOK
<1>5. ASSUME NEW p \in Procs, NEW v \in Payloads, BeginSave(p, v)
      PROVE  \A q \in Procs : SaveInv(q)'
  BY <1>2, <1>5, OthersIdle DEF BeginSave
<1>6. ASSUME NEW p \in Procs, BeginLoad(p)
      PROVE  \A q \in Procs : SaveInv(q)'
  BY <1>2, <1>6, OthersIdle DEF BeginLoad
<1>7. ASSUME NEW p \in Procs, SaveStep(p)
      PROVE  \A q \in Procs : SaveInv(q)'
  <2>1. CASE PersistWal(p)
    BY <1>2, <2>1, OthersIdle DEF PersistWal
  <2>2. CASE SyncWal(p)
    BY <1>2, <2>2, OthersIdle DEF SyncWal, FsyncDir
  <2>3. CASE CreateTmp(p)
    BY <1>2, <2>3, OthersIdle DEF CreateTmp
  <2>4. CASE WriteTmp(p)
    BY <1>2, <2>4, OthersIdle DEF WriteTmp
  <2>5. CASE SyncTmp(p)
    BY <1>2, <2>5, OthersIdle DEF SyncTmp
  <2>6. CASE Rename(p)
    BY <1>2, <2>6, OthersIdle DEF Rename, Publish, Staged, Synced
  <2>7. CASE RenameFails(p)
    BY <1>2, <2>7 DEF RenameFails, End, Alone, disk
  <2>8. CASE SyncData(p)
    BY <1>2, <2>8, OthersIdle DEF SyncData, FsyncDir, Synced
  <2>9. CASE ClearWal(p)
    BY <1>2, <2>9, OthersIdle DEF ClearWal, RemoveWal
  <2>10. CASE Ack(p)
    BY <1>2, <2>10 DEF Ack, Return, Alone
  <2>11. QED
    BY <1>7, <2>1, <2>2, <2>3, <2>4, <2>5, <2>6, <2>7, <2>8, <2>9, <2>10
       DEF SaveStep
<1>8. ASSUME NEW p \in Procs, LoadStep(p)
      PROVE  \A q \in Procs : SaveInv(q)'
  <2>1. CASE Inspect(p)
    BY <1>2, <2>1, OthersIdle DEF Inspect
  <2>2. CASE Replay(p)
    BY <1>2, <2>2, OthersIdle DEF Replay
  <2>3. CASE RecoverFails(p)
    BY <1>2, <2>3, OthersIdle DEF RecoverFails
  <2>4. CASE SyncReplay(p)
    BY <1>2, <2>4, OthersIdle DEF SyncReplay
  <2>5. CASE DropWal(p)
    BY <1>2, <2>5, OthersIdle DEF DropWal
  <2>6. CASE SyncDrop(p)
    BY <1>2, <2>6, OthersIdle DEF SyncDrop
  <2>7. CASE Read(p)
    BY <1>2, <2>7 DEF Read, Return, End, Alone
  <2>8. QED
    BY <1>8, <2>1, <2>2, <2>3, <2>4, <2>5, <2>6, <2>7 DEF LoadStep
<1>9. ASSUME NEW p \in Procs, Fail(p)
      PROVE  \A q \in Procs : SaveInv(q)'
  BY <1>2, <1>9 DEF Fail, End, Alone
<1>10. ASSUME NEW p \in Procs, Kill(p)
      PROVE  \A q \in Procs : SaveInv(q)'
  BY <1>2, <1>10 DEF Kill, End, Alone
<1>11. \A q \in Procs : SaveInv(q)'
  BY <1>5, <1>6, <1>7, <1>8, <1>9, <1>10, <1>3, <1>4 DEF Next, DurableInv
<1>12. QED
  BY <1>1, <1>11 DEF DurableInv

\* When every surviving volume entry is v, and so is every surviving log
\* there is, v is all that can be loaded.
LEMMA OnlyOneImage ==
    ASSUME NEW v \in Payloads, TypeOK, Settled,
           \/ WalAfterLoss = {v}
           \/ oldData = {} /\ data.bytes = v /\ WalAfterLoss \subseteq {NoFile, v}
    PROVE  Recoverable = {v}
<1>1. \A w \in WalAfterLoss, d \in {data} \cup DataAfterLoss : Recovered(w, d) = v
  BY StoreAssumption
     DEF Settled, Recovered, DataAfterLoss, Survivors, Synced
<1>2. wal \in WalAfterLoss
  BY DEF WalAfterLoss
<1>3. QED
  BY <1>1, <1>2 DEF Recoverable

LEMMA DurableInvCovers == DurableInv => LogCoversRename
BY OnlyOneImage
   DEF DurableInv, WholeInv, SaveInv, Logged, WalAfterLoss, LogCoversRename,
       SavePCs

\* A process goes from "ack" to "returned" by Ack only, and what Ack leaves
\* behind can only be recovered as the saved image.
LEMMA AckStep ==
    ASSUME ~BarePath, DurableInv, DurableInv', Next,
           NEW p \in Procs, pc[p] = "ack", pc'[p] = "returned"
    PROVE  Recoverable' = {img[p]} /\ UnderPath' = {img[p]}
<1>1. /\ img[p] \in Payloads
      /\ Landed(p)
      /\ WalAfterLoss \subseteq {NoFile, img[p]}
  BY DEF DurableInv, SaveInv, SavePCs
<1>2. TypeOK' /\ Settled' /\ TypeOK
  BY DEF DurableInv, WholeInv
<1>3. Ack(p)
  <2> USE <1>2 DEF TypeOK, Go, End, Return, IdlePCs
  <2>1. ASSUME NEW q \in Procs, NEW v \in Payloads, BeginSave(q, v)
        PROVE  FALSE
    BY <2>1 DEF BeginSave, CanBegin
  <2>2. ASSUME NEW q \in Procs, BeginLoad(q)
        PROVE  FALSE
    BY <2>2 DEF BeginLoad, CanBegin
  <2>3. ASSUME NEW q \in Procs, SaveStep(q)
        PROVE  Ack(p)
    BY <2>3 DEF SaveStep, PersistWal, SyncWal, CreateTmp, WriteTmp, SyncTmp,
                Rename, RenameFails, SyncData, ClearWal, Ack
  <2>4. ASSUME NEW q \in Procs, LoadStep(q)
        PROVE  FALSE
    BY <2>4 DEF LoadStep, Inspect, Replay, RecoverFails, SyncReplay, DropWal,
                SyncDrop, Read
  <2>5. ASSUME NEW q \in Procs, Fail(q) \/ Kill(q)
        PROVE  FALSE
    BY <2>5 DEF Fail, Kill
  <2>6. ~PowerLoss
    BY DEF PowerLoss
  <2>7. QED
    BY <2>1, <2>2, <2>3, <2>4, <2>5, <2>6 DEF Next
<1>4. oldData' = {} /\ data'.bytes = img[p] /\ WalAfterLoss' \subseteq {NoFile, img[p]}
  BY <1>1, <1>3 DEF Ack, FsyncDir, Landed, WalAfterLoss
<1>5. \A w \in WalAfterLoss', d \in {data'} \cup DataAfterLoss' : Recovered(w, d) = img[p]
  BY <1>1, <1>2, <1>4, StoreAssumption
     DEF Settled, Recovered, DataAfterLoss, Survivors, Synced
<1>6. wal' \in WalAfterLoss'
  BY DEF WalAfterLoss
<1>7. \A d \in {data'} \cup DataAfterLoss' : d.bytes = img[p]
  BY <1>1, <1>2, <1>4, StoreAssumption DEF Settled, DataAfterLoss, Survivors, Synced
<1>8. QED
  BY <1>5, <1>6, <1>7 DEF Recoverable, UnderPath

THEOREM DurableInvHolds == Exclusive /\ ~BarePath => (Spec => []DurableInv)
<1> SUFFICES ASSUME Exclusive, ~BarePath PROVE Spec => []DurableInv
  OBVIOUS
<1>1. Init => DurableInv
  <2>1. ASSUME Init PROVE \A p \in Procs : SaveInv(p)
    BY <2>1 DEF Init, SaveInv, SavePCs
  <2>2. QED
    BY <2>1, InitWholeInv DEF DurableInv
<1>2. DurableInv /\ [Next]_vars => DurableInv'
  BY NextDurableInv
<1>3. QED
  BY <1>1, <1>2, PTL DEF Spec

\* From the end of Wal::write until the log is removed, a crash or an error
\* can only end in the image that is being saved.
THEOREM LogCovers == Exclusive /\ ~BarePath => (Spec => []LogCoversRename)
BY DurableInvHolds, DurableInvCovers, PTL

\* A save that returned Ok is what every later load returns, whatever crashes and
\* even if its recovery fails.
THEOREM Durability == Exclusive /\ ~BarePath => (Spec => AckedIsDurable)
<1> DEFINE Acked == \A p \in Procs :
        pc[p] = "ack" /\ pc'[p] = "returned" =>
            Recoverable' = {img[p]} /\ UnderPath' = {img[p]}
<1> SUFFICES ASSUME Exclusive, ~BarePath PROVE Spec => [][Acked]_vars
  BY DEF AckedIsDurable
<1>1. DurableInv /\ DurableInv' /\ [Next]_vars => [Acked]_vars
  BY AckStep
<1>2. Spec => []DurableInv
  BY DurableInvHolds
<1>3. QED
  BY <1>1, <1>2, PTL DEF Spec

-----------------------------------------------------------------------------
(* Refinement.  A load knows of the log and the volume what a save knows: the *)
(* image it replays is the one in the log, and it removes a log only when the *)
(* volume holds the same image for good.                                      *)

LoadInv(p) ==
    /\ pc[p] \in {"replay", "replaySync"} => wal = img[p] /\ wal # NoFile
    /\ pc[p] = "replaySync" => data.bytes = img[p]
    /\ pc[p] = "drop" => wal = NoFile \/ (wal = data.bytes /\ oldData = {} /\ oldWal = {})
    /\ pc[p] \in {"dropSync", "read"} => wal \in {NoFile, data.bytes}
    /\ pc[p] = "read" => oldData = {} /\ oldWal = {}
    /\ pc[p] = "readOld" => IoFaults

RefineInv == DurableInv /\ \A p \in Procs : LoadInv(p)

LEMMA OthersLoadNothing ==
    ASSUME Alone', NEW p \in Procs, pc'[p] \notin IdlePCs, LoadInv(p)'
    PROVE  \A q \in Procs : LoadInv(q)'
BY DEF Alone, LoadInv, IdlePCs

LEMMA NobodyLoads ==
    ASSUME \A q \in Procs : pc'[q] \in IdlePCs
    PROVE  \A q \in Procs : LoadInv(q)'
BY DEF LoadInv, IdlePCs

LEMMA NextLoadInv ==
    ASSUME Exclusive, ~BarePath, RefineInv, [Next]_vars
    PROVE  \A q \in Procs : LoadInv(q)'
<1>1. DurableInv'
  BY NextDurableInv DEF RefineInv
<1>2. TypeOK /\ Alone /\ Alone' /\ \A q \in Procs : LoadInv(q)
  BY <1>1 DEF RefineInv, DurableInv, WholeInv
<1>3. ASSUME UNCHANGED vars PROVE \A q \in Procs : LoadInv(q)'
  BY <1>2, <1>3 DEF vars, LoadInv
<1> USE DEF TypeOK, Go, IdlePCs
<1>4. ASSUME NEW p \in Procs, (\E v \in Payloads : BeginSave(p, v)) \/ BeginLoad(p)
      PROVE  \A q \in Procs : LoadInv(q)'
  <2>1. pc'[p] \in {"log", "inspect"}
    BY <1>2, <1>4 DEF BeginSave, BeginLoad
  <2> QED
    BY <1>2, <2>1, OthersLoadNothing DEF LoadInv
<1>5. ASSUME NEW p \in Procs, SaveStep(p)
      PROVE  \A q \in Procs : LoadInv(q)'
  <2>1. pc[p] \in SavePCs /\ pc'[p] \in SavePCs \cup IdlePCs /\ \A q \in Procs \ {p} : pc'[q] = pc[q]
    BY <1>2, <1>5 DEF SaveStep, PersistWal, SyncWal, CreateTmp, WriteTmp, SyncTmp, Rename,
                      RenameFails, SyncData, ClearWal, Ack, End, Return, SavePCs
  <2> QED
    BY <1>2, <2>1 DEF Alone, LoadInv, SavePCs
<1>6. ASSUME NEW p \in Procs, LoadStep(p)
      PROVE  \A q \in Procs : LoadInv(q)'
  <2>1. CASE Inspect(p)
    BY <1>2, <2>1, OthersLoadNothing DEF Inspect, LoadInv
  <2>2. CASE Replay(p)
    BY <1>2, <2>2, OthersLoadNothing DEF Replay, Publish, Synced, LoadInv
  <2>3. CASE RecoverFails(p)
    BY <1>2, <2>3, OthersLoadNothing DEF RecoverFails, LoadInv
  <2>4. CASE SyncReplay(p)
    BY <1>2, <2>4, OthersLoadNothing DEF SyncReplay, FsyncDir, Synced, LoadInv
  <2>5. CASE DropWal(p)
    BY <1>2, <2>5, OthersLoadNothing DEF DropWal, RemoveWal, LoadInv
  <2>6. CASE SyncDrop(p)
    BY <1>2, <2>6, OthersLoadNothing DEF SyncDrop, FsyncDir, LoadInv
  <2>7. CASE Read(p)
    BY <1>2, <2>7 DEF Read, Return, End, Alone, LoadInv
  <2> QED
    BY <1>6, <2>1, <2>2, <2>3, <2>4, <2>5, <2>6, <2>7 DEF LoadStep
<1>7. ASSUME NEW p \in Procs, Fail(p) \/ Kill(p)
      PROVE  \A q \in Procs : LoadInv(q)'
  BY <1>2, <1>7 DEF Fail, Kill, End, Alone, LoadInv
<1>8. ASSUME PowerLoss PROVE \A q \in Procs : LoadInv(q)'
  BY <1>8, NobodyLoads DEF PowerLoss
<1> QED
  BY <1>3, <1>4, <1>5, <1>6, <1>7, <1>8 DEF Next

THEOREM RefineInvHolds == Exclusive /\ ~BarePath => (Spec => []RefineInv)
<1> SUFFICES ASSUME Exclusive, ~BarePath PROVE Spec => []RefineInv
  OBVIOUS
<1>1. Init => \A p \in Procs : LoadInv(p)
  BY DEF Init, LoadInv
<1>2. RefineInv /\ [Next]_vars => (\A p \in Procs : LoadInv(p))'
  BY NextLoadInv
<1>3. Spec => []DurableInv
  BY DurableInvHolds
<1> QED
  BY <1>1, <1>2, <1>3, PTL DEF Spec, RefineInv

-----------------------------------------------------------------------------
(* What can be recovered, from one step to the next *)

VolumeEntries == oldData \cup {data}

\* Without content to lose, the entries themselves are what may come back.
Plain ==
    /\ Recoverable = {Recovered(w, d) : w \in WalAfterLoss, d \in VolumeEntries}
    /\ Recovered(wal, data) \in Recoverable
    /\ UnderPath = {d.bytes : d \in VolumeEntries}
    /\ data.bytes \in UnderPath

LEMMA RecoverablePlain == TypeOK /\ Settled => Plain
<1> SUFFICES ASSUME TypeOK, Settled PROVE Plain
  OBVIOUS
<1>1. \A f \in VolumeEntries : f = Synced(f.bytes)
  BY DEF TypeOK, Settled, VolumeEntries, Files, Synced
<1>2. \A f \in VolumeEntries : Survivors(f) = {f}
  BY <1>1 DEF Survivors, Settled, VolumeEntries
<1>3. DataAfterLoss = VolumeEntries
  BY <1>2 DEF DataAfterLoss, VolumeEntries
<1>4. {data} \cup DataAfterLoss = VolumeEntries /\ data \in VolumeEntries /\ wal \in WalAfterLoss
  BY <1>3 DEF VolumeEntries, WalAfterLoss
<1> QED
  BY <1>4 DEF Recoverable, UnderPath, Plain

LEMMA RecoverablePlainNext == (TypeOK /\ Settled)' => Plain'
BY RecoverablePlain, PTL

LEMMA Narrows ==
    ASSUME TypeOK, Settled, TypeOK', Settled',
           WalAfterLoss' \subseteq WalAfterLoss, VolumeEntries' \subseteq VolumeEntries
    PROVE  /\ Recoverable' \in SUBSET Recoverable /\ Recoverable' # {}
           /\ UnderPath' \in SUBSET UnderPath /\ UnderPath' # {}
<1>1. Plain /\ Plain'
  BY RecoverablePlain, RecoverablePlainNext
<1>2. Recoverable' = {Recovered(w, d) : w \in WalAfterLoss', d \in VolumeEntries'}
  BY <1>1 DEF Plain
<1>3. Recoverable' # {}
  BY <1>1 DEF Plain
<1>4. UnderPath' \in SUBSET UnderPath /\ UnderPath' # {}
  BY <1>1 DEF Plain
<1> QED
  BY <1>1, <1>2, <1>3, <1>4 DEF Plain

\* What a step may put under the path.
Placed == UnderPath' \in SUBSET (UnderPath \cup Recoverable') /\ UnderPath' # {}

LEMMA PlacedOne ==
    ASSUME Plain, Plain', VolumeEntries' \subseteq VolumeEntries \cup {data'},
           data'.bytes \in Recoverable'
    PROVE  Placed
BY DEF Plain, Placed

Job == [p \in Procs |-> JobOf(p)]

LEMMA JobChanges ==
    ASSUME TypeOK, NEW p \in Procs,
           \A q \in Procs \ {p} : pc'[q] = pc[q] /\ img'[q] = img[q]
    PROVE  Job' = [Job EXCEPT ![p] = JobOf(p)'] /\ Job[p] = JobOf(p)
BY DEF Job, JobOf

-----------------------------------------------------------------------------
(* Every step is a step of the register, or none *)

\* A save adds at most its own image to what can be recovered.
LEMMA SaveWorks ==
    ASSUME ~BarePath, RefineInv, RefineInv', NEW p \in Procs, SaveStep(p),
           ~RenameFails(p), ~Ack(p)
    PROVE  /\ Recoverable' \in SUBSET (Recoverable \cup {img[p]}) /\ Recoverable' # {}
           /\ Placed
           /\ pc[p] \in SavePCs /\ pc'[p] \in SavePCs /\ img'[p] = img[p]
           /\ \A q \in Procs \ {p} : pc'[q] = pc[q] /\ img'[q] = img[q]
<1>1. TypeOK /\ TypeOK' /\ Settled /\ Settled' /\ SaveInv(p) /\ SaveInv(p)'
  BY DEF RefineInv, DurableInv, WholeInv
<1>2. Plain /\ Plain'
  BY <1>1, RecoverablePlain, RecoverablePlainNext
<1>3. /\ pc[p] \in SavePCs /\ pc'[p] \in SavePCs /\ img' = img
      /\ \A q \in Procs \ {p} : pc'[q] = pc[q]
  BY <1>1 DEF SaveStep, PersistWal, SyncWal, CreateTmp, WriteTmp, SyncTmp, Rename,
              SyncData, ClearWal, Go, SavePCs, TypeOK
<1>4. img[p] # NoFile
  BY <1>1, <1>3, StoreAssumption DEF SaveInv
<1>5. CASE PersistWal(p)
  <2>1. WalAfterLoss' = WalAfterLoss \cup {img[p]} /\ VolumeEntries' = VolumeEntries
    BY <1>5 DEF PersistWal, WalAfterLoss, VolumeEntries
  <2>2. \A d \in VolumeEntries : Recovered(img[p], d) = img[p]
    BY <1>4 DEF Recovered
  <2>3. Recoverable' = {Recovered(w, d) : w \in WalAfterLoss \cup {img[p]}, d \in VolumeEntries}
    BY <1>2, <2>1 DEF Plain
  <2>4. Recoverable' \subseteq Recoverable \cup {img[p]}
    <3>1. Recoverable = {Recovered(w, d) : w \in WalAfterLoss, d \in VolumeEntries}
      BY <1>2 DEF Plain
    <3>2. ASSUME NEW w \in WalAfterLoss \cup {img[p]}, NEW d \in VolumeEntries
          PROVE  Recovered(w, d) \in Recoverable \cup {img[p]}
      BY <2>2, <3>1
    <3> QED
      BY <2>3, <3>2
  <2>5. Placed
    BY <1>2, <2>1 DEF Plain, Placed
  <2> QED
    BY <1>2, <1>3, <2>4, <2>5 DEF Plain
<1>6. CASE Rename(p)
  <2>1. Logged(p)' /\ pc'[p] = "settle" /\ img'[p] \in Payloads
    BY <1>1, <1>3, <1>6 DEF Rename, Go, SaveInv, TypeOK
  <2>2. WalAfterLoss' = {img[p]}
    BY <1>3, <2>1 DEF Logged, WalAfterLoss
  <2>3. \A d \in VolumeEntries' : Recovered(img[p], d) = img[p]
    BY <1>4 DEF Recovered
  <2>4. Recoverable' = {Recovered(w, d) : w \in {img[p]}, d \in VolumeEntries'}
    BY <1>2, <2>2 DEF Plain
  <2>5. Recoverable' \subseteq {img[p]}
    BY <2>3, <2>4
  <2>6. VolumeEntries' = VolumeEntries \cup {data'} /\ data'.bytes = img[p]
    BY <1>1, <1>3, <1>6, <2>1 DEF Rename, Publish, VolumeEntries, SaveInv
  <2>7. Placed
    BY <1>2, <2>5, <2>6, PlacedOne DEF Plain
  <2> QED
    BY <1>2, <1>3, <2>5, <2>7 DEF Plain
<1>7. CASE ClearWal(p)
  <2>1. Landed(p)' /\ WalAfterLoss' \subseteq {NoFile, img[p]}
    BY <1>1, <1>3, <1>7 DEF ClearWal, Go, SaveInv, TypeOK
  <2>2. VolumeEntries' = {data'} /\ data'.bytes = img[p]
    BY <1>3, <2>1 DEF Landed, VolumeEntries
  <2>3. \A w \in WalAfterLoss', d \in VolumeEntries' : Recovered(w, d) = img[p]
    BY <2>1, <2>2 DEF Recovered
  <2>4. Recoverable' = {Recovered(w, d) : w \in WalAfterLoss', d \in VolumeEntries'}
    BY <1>2 DEF Plain
  <2>5. Recoverable' \subseteq {img[p]}
    BY <2>3, <2>4
  <2>6. Placed
    BY <1>2, <2>2, <2>5, PlacedOne DEF Plain
  <2> QED
    BY <1>2, <1>3, <2>5, <2>6 DEF Plain
<1>8. CASE SyncWal(p) \/ CreateTmp(p) \/ WriteTmp(p) \/ SyncTmp(p) \/ SyncData(p)
  <2>1. WalAfterLoss' \subseteq WalAfterLoss
    BY <1>8 DEF SyncWal, CreateTmp, WriteTmp, SyncTmp, SyncData, FsyncDir, WalAfterLoss
  <2>2. Synced(data.bytes) = data
    BY <1>1 DEF TypeOK, Settled, Files, Synced
  <2>3. data' = data
    BY <1>8, <2>2 DEF SyncWal, CreateTmp, WriteTmp, SyncTmp, SyncData, RefineInv, DurableInv,
                      WholeInv, TmpOpened
  <2>4. oldData' \subseteq oldData
    BY <1>8 DEF SyncWal, CreateTmp, WriteTmp, SyncTmp, SyncData, FsyncDir
  <2>5. VolumeEntries' \subseteq VolumeEntries
    BY <2>3, <2>4 DEF VolumeEntries
  <2> QED
    BY <1>1, <1>3, <2>1, <2>5, Narrows DEF Placed
<1> QED
  BY <1>5, <1>6, <1>7, <1>8 DEF SaveStep

\* A load adds nothing.
LEMMA LoadSettles ==
    ASSUME ~BarePath, RefineInv, RefineInv', NEW p \in Procs, LoadStep(p), ~Read(p)
    PROVE  /\ Recoverable' \in SUBSET Recoverable /\ Recoverable' # {}
           /\ Placed
           /\ pc[p] \in LoadPCs /\ pc'[p] \in LoadPCs
           /\ \A q \in Procs \ {p} : pc'[q] = pc[q] /\ img'[q] = img[q]
<1>1. TypeOK /\ TypeOK' /\ Settled /\ Settled' /\ LoadInv(p)
  BY DEF RefineInv, DurableInv, WholeInv
<1>2. Plain /\ Plain'
  BY <1>1, RecoverablePlain, RecoverablePlainNext
<1>3. /\ pc[p] \in LoadPCs /\ pc'[p] \in LoadPCs
      /\ \A q \in Procs \ {p} : pc'[q] = pc[q] /\ img'[q] = img[q]
  BY <1>1 DEF LoadStep, Inspect, Replay, RecoverFails, SyncReplay, DropWal, SyncDrop, Go,
              LoadPCs, TypeOK
<1>4. CASE Replay(p)
  <2>1. wal = img[p] /\ wal # NoFile
    BY <1>1, <1>4 DEF Replay, Go, LoadInv
  <2>2. WalAfterLoss' = WalAfterLoss /\ VolumeEntries' = VolumeEntries \cup {data'} /\ data'.bytes = wal
    BY <1>4, <2>1 DEF Replay, Publish, Synced, WalAfterLoss, VolumeEntries
  <2>3. wal \in WalAfterLoss /\ data \in VolumeEntries
    BY DEF WalAfterLoss, VolumeEntries
  <2>4. wal \in Recoverable
    <3>1. Recovered(wal, data) = wal
      BY <2>1 DEF Recovered
    <3> QED
      BY <1>2, <3>1 DEF Plain
  <2>5. \A w \in WalAfterLoss : Recovered(w, data') \in {w, wal} /\ (w # NoFile => Recovered(w, data') = Recovered(w, data))
    BY <2>2 DEF Recovered
  <2>6. \A w \in WalAfterLoss : Recovered(w, data') \in Recoverable
    <3>1. \A w \in WalAfterLoss : Recovered(w, data) \in Recoverable
      BY <1>2, <2>3 DEF Plain
    <3>2. Recovered(NoFile, data') = wal
      BY <2>2 DEF Recovered
    <3> QED
      BY <2>4, <2>5, <3>1, <3>2
  <2>7. Recoverable' = {Recovered(w, d) : w \in WalAfterLoss, d \in VolumeEntries \cup {data'}}
    BY <1>2, <2>2 DEF Plain
  <2>8. \A w \in WalAfterLoss, d \in VolumeEntries : Recovered(w, d) \in Recoverable
    BY <1>2 DEF Plain
  <2>9. Recoverable' \subseteq Recoverable
    BY <2>6, <2>7, <2>8
  <2>10. Recovered(wal', data') = data'.bytes
    BY <1>4, <2>1, <2>2 DEF Replay, Recovered
  <2>11. Placed
    BY <1>2, <2>2, <2>10, PlacedOne DEF Plain
  <2> QED
    BY <1>2, <1>3, <2>9, <2>11 DEF Plain
<1>5. CASE DropWal(p)
  <2>1. VolumeEntries' = VolumeEntries
    BY <1>5 DEF DropWal, VolumeEntries
  <2>2. CASE wal = NoFile \/ wal' = wal
    <3>1. WalAfterLoss' \subseteq WalAfterLoss
      BY <1>5, <2>2 DEF DropWal, RemoveWal, WalAfterLoss
    <3> QED
      BY <1>1, <1>3, <2>1, <3>1, Narrows DEF Placed
  <2>3. CASE wal # NoFile
    <3>1. wal = data.bytes /\ VolumeEntries = {data} /\ WalAfterLoss = {wal}
      BY <1>1, <1>5, <2>3 DEF DropWal, Go, LoadInv, VolumeEntries, WalAfterLoss
    <3>2. WalAfterLoss' \subseteq {wal, NoFile}
      BY <1>5, <3>1 DEF DropWal, RemoveWal, WalAfterLoss
    <3>3. Recovered(wal, data) = wal /\ Recovered(NoFile, data) = wal
      BY <3>1 DEF Recovered
    <3>4. Recoverable' = {Recovered(w, d) : w \in WalAfterLoss', d \in {data}}
      BY <1>2, <2>1, <3>1 DEF Plain
    <3>5. Recoverable' \subseteq {wal} /\ wal \in Recoverable
      <4>1. Recovered(wal, data) \in Recoverable
        BY <1>2 DEF Plain
      <4> QED
        BY <3>2, <3>3, <3>4, <4>1
    <3>6. Placed
      BY <1>2, <2>1 DEF Plain, Placed
    <3> QED
      BY <1>2, <1>3, <3>5, <3>6 DEF Plain
  <2> QED
    BY <2>2, <2>3
<1>6. CASE Inspect(p) \/ RecoverFails(p) \/ SyncReplay(p) \/ SyncDrop(p)
  <2>1. Synced(data.bytes) = data
    BY <1>1 DEF TypeOK, Settled, Files, Synced
  <2>2. data' = data /\ oldData' \subseteq oldData
    BY <1>6, <2>1 DEF Inspect, RecoverFails, SyncReplay, SyncDrop, FsyncDir
  <2>3. WalAfterLoss' \subseteq WalAfterLoss
    BY <1>6 DEF Inspect, RecoverFails, SyncReplay, SyncDrop, FsyncDir, WalAfterLoss
  <2>4. VolumeEntries' \subseteq VolumeEntries
    BY <2>2 DEF VolumeEntries
  <2> QED
    BY <1>1, <1>3, <2>3, <2>4, Narrows DEF Placed
<1> QED
  BY <1>4, <1>5, <1>6 DEF LoadStep

-----------------------------------------------------------------------------
(* The step of each call in the register *)

\* A call's end without a result, wherever it comes.
LEMMA EndMaps ==
    ASSUME RefineInv, NEW p \in Procs, pc[p] \notin IdlePCs, End(p), UNCHANGED disk
    PROVE  Abstract!Abandon(p)
<1>1. TypeOK
  BY DEF RefineInv, DurableInv, WholeInv
<1>2. UNCHANGED <<Recoverable, UnderPath>>
  BY DEF disk, Recoverable, UnderPath, WalAfterLoss, DataAfterLoss
<1>3. Job[p].op \in {"save", "load"}
  BY <1>1 DEF Job, JobOf, TypeOK
<1>4. Job' = [Job EXCEPT ![p] = JobOf(p)']
  BY <1>1, JobChanges DEF End, TypeOK
<1>5. JobOf(p)' = [op |-> "idle", val |-> NoFile]
  BY <1>1 DEF End, JobOf, TypeOK, SavePCs, LoadPCs
<1> QED
  BY <1>2, <1>3, <1>4, <1>5 DEF Abstract!Abandon, Abstract!Running, Abstract!Idle, Job

LEMMA BeginMaps ==
    ASSUME RefineInv, NEW p \in Procs,
           (\E v \in Payloads : BeginSave(p, v)) \/ BeginLoad(p)
    PROVE  \E j \in Abstract!Jobs : Abstract!Begin(p, j)
<1>1. TypeOK
  BY DEF RefineInv, DurableInv, WholeInv
<1>2. UNCHANGED <<Recoverable, UnderPath>>
  BY DEF BeginSave, BeginLoad, Recoverable, UnderPath, WalAfterLoss, DataAfterLoss
<1>3. Job[p].op \notin {"save", "load"}
  BY DEF BeginSave, BeginLoad, CanBegin, Job, JobOf, IdlePCs, SavePCs, LoadPCs
<1>4. Job' = [Job EXCEPT ![p] = JobOf(p)']
  BY <1>1, JobChanges DEF BeginSave, BeginLoad, TypeOK
<1>5. JobOf(p)' \in Abstract!Jobs
  <2>1. ASSUME NEW v \in Payloads, BeginSave(p, v) PROVE JobOf(p)' = [op |-> "save", val |-> v]
    BY <1>1, <2>1 DEF BeginSave, JobOf, TypeOK, SavePCs
  <2>2. ASSUME BeginLoad(p) PROVE JobOf(p)' = [op |-> "load", val |-> NoFile]
    BY <1>1, <2>2 DEF BeginLoad, JobOf, TypeOK, SavePCs, LoadPCs
  <2> QED
    BY <2>1, <2>2 DEF Abstract!Jobs, Abstract!Saving, Abstract!Loading
<1> QED
  BY <1>2, <1>3, <1>4, <1>5 DEF Abstract!Begin, Abstract!Running, Job

LEMMA SaveMaps ==
    ASSUME ~BarePath, RefineInv, RefineInv', NEW p \in Procs, SaveStep(p)
    PROVE  Abstract!Work(p) \/ Abstract!Return(p, img[p]) \/ Abstract!Abandon(p)
<1>1. TypeOK /\ TypeOK' /\ Settled' /\ SaveInv(p)
  BY DEF RefineInv, DurableInv, WholeInv
<1>2. CASE RenameFails(p)
  BY <1>2, EndMaps DEF RenameFails, IdlePCs
<1>3. CASE Ack(p)
  <2>1. Job[p] = [op |-> "save", val |-> img[p]]
    BY <1>3 DEF Ack, Job, JobOf, SavePCs
  <2>2. Job' = [Job EXCEPT ![p] = JobOf(p)']
    BY <1>1, <1>3, JobChanges DEF Ack, Return, TypeOK
  <2>3. JobOf(p)' = [op |-> "returned", val |-> img[p]]
    BY <1>1, <1>3 DEF Ack, Return, JobOf, TypeOK, SavePCs, LoadPCs
  <2>4. pc[p] = "ack" /\ img[p] \in Payloads /\ Landed(p) /\ WalAfterLoss \subseteq {NoFile, img[p]}
    BY <1>1, <1>3 DEF Ack, SaveInv, SavePCs
  <2>5. Recoverable = {img[p]}
    BY <2>4, OnlyOneImage DEF Landed, RefineInv, DurableInv, WholeInv
  <2>6. /\ Recoverable' \in SUBSET Recoverable /\ Recoverable' # {}
        /\ UnderPath' \in SUBSET UnderPath /\ UnderPath' # {}
    <3>1. WalAfterLoss' \subseteq WalAfterLoss /\ VolumeEntries' \subseteq VolumeEntries
      BY <1>3 DEF Ack, FsyncDir, WalAfterLoss, VolumeEntries
    <3> QED
      BY <1>1, <3>1, Narrows DEF RefineInv, DurableInv, WholeInv
  <2>7. UnderPath = {img[p]}
    <3>1. VolumeEntries = {data} /\ data.bytes = img[p] /\ Plain
      BY <1>1, <2>4, RecoverablePlain DEF Landed, VolumeEntries, RefineInv, DurableInv, WholeInv
    <3> QED
      BY <3>1 DEF Plain
  <2> QED
    BY <2>1, <2>2, <2>3, <2>5, <2>6, <2>7
       DEF Abstract!Return, Abstract!Running, Abstract!Returned, Job
<1>4. CASE ~RenameFails(p) /\ ~Ack(p)
  <2>1. /\ Recoverable' \in SUBSET (Recoverable \cup {img[p]}) /\ Recoverable' # {}
        /\ Placed
        /\ pc[p] \in SavePCs /\ pc'[p] \in SavePCs /\ img'[p] = img[p]
        /\ \A q \in Procs \ {p} : pc'[q] = pc[q] /\ img'[q] = img[q]
    BY <1>4, SaveWorks
  <2>2. JobOf(p) = [op |-> "save", val |-> img[p]] /\ JobOf(p)' = JobOf(p)
    BY <2>1 DEF JobOf
  <2>3. Job[p] = JobOf(p) /\ Job' = Job
    BY <1>1, <2>1, <2>2, JobChanges DEF Job
  <2> QED
    BY <2>1, <2>2, <2>3 DEF Abstract!Work, Abstract!Place, Placed, Job
<1> QED
  BY <1>2, <1>3, <1>4

LEMMA LoadMaps ==
    ASSUME ~BarePath, RefineInv, RefineInv', NEW p \in Procs, LoadStep(p)
    PROVE  \/ Abstract!Settle(p) \/ Abstract!Abandon(p)
           \/ \E v \in Abstract!Values : Abstract!Return(p, v) \/ Abstract!ReturnStale(p, v)
<1>1. TypeOK /\ TypeOK' /\ Settled /\ LoadInv(p) /\ Plain
  BY RecoverablePlain DEF RefineInv, DurableInv, WholeInv
<1>2. CASE Read(p) /\ End(p)
  BY <1>2, EndMaps DEF Read, IdlePCs
<1>3. CASE Read(p) /\ ~End(p)
  <2>1. pc[p] \in {"read", "readOld"} /\ data.bytes \in Images /\ Return(p, data.bytes) /\ UNCHANGED disk
    BY <1>3 DEF Read
  <2>2. Job[p] = [op |-> "load", val |-> NoFile]
    BY <2>1 DEF Job, JobOf, SavePCs, LoadPCs
  <2>3. Job' = [Job EXCEPT ![p] = JobOf(p)']
    BY <1>1, <2>1, JobChanges DEF Return, TypeOK
  <2>4. JobOf(p)' = [op |-> "returned", val |-> data.bytes]
    BY <1>1, <2>1 DEF Return, JobOf, TypeOK, SavePCs, LoadPCs
  <2>5. UNCHANGED <<Recoverable, UnderPath>>
    BY <2>1 DEF disk, Recoverable, UnderPath, WalAfterLoss, DataAfterLoss
  <2>6. ASSUME pc[p] = "read" PROVE Abstract!Return(p, data.bytes)
    <3>1. WalAfterLoss = {wal} /\ VolumeEntries = {data} /\ wal \in {NoFile, data.bytes}
      BY <1>1, <2>6 DEF LoadInv, WalAfterLoss, VolumeEntries
    <3>2. Recovered(wal, data) = data.bytes
      BY <3>1 DEF Recovered
    <3>3. Recoverable = {Recovered(w, d) : w \in {wal}, d \in {data}}
      BY <1>1, <3>1 DEF Plain
    <3>4. Recoverable = {data.bytes} /\ UnderPath = {data.bytes}
      BY <1>1, <3>1, <3>2, <3>3 DEF Plain
    <3> QED
      BY <2>2, <2>3, <2>4, <2>5, <3>4
         DEF Abstract!Return, Abstract!Running, Abstract!Returned, Job
  <2>7. ASSUME pc[p] = "readOld" PROVE Abstract!ReturnStale(p, data.bytes)
    <3>1. IoFaults /\ data.bytes \in UnderPath
      BY <1>1, <2>7 DEF Plain, LoadInv
    <3> QED
      BY <2>2, <2>3, <2>4, <2>5, <3>1 DEF Abstract!ReturnStale, Abstract!Returned, Job
  <2>8. Abstract!Return(p, data.bytes) \/ Abstract!ReturnStale(p, data.bytes)
    BY <2>1, <2>6, <2>7
  <2> QED
    BY <2>1, <2>8 DEF Images, Abstract!Values
<1>4. CASE ~Read(p)
  <2>1. /\ Recoverable' \in SUBSET Recoverable /\ Recoverable' # {}
        /\ Placed
        /\ pc[p] \in LoadPCs /\ pc'[p] \in LoadPCs
        /\ \A q \in Procs \ {p} : pc'[q] = pc[q] /\ img'[q] = img[q]
    BY <1>4, LoadSettles
  <2>2. JobOf(p) = [op |-> "load", val |-> NoFile] /\ JobOf(p)' = JobOf(p)
    BY <2>1 DEF JobOf, LoadPCs, SavePCs
  <2>3. Job[p] = JobOf(p) /\ Job' = Job
    BY <1>1, <2>1, <2>2, JobChanges DEF Job
  <2> QED
    BY <2>1, <2>2, <2>3 DEF Abstract!Settle, Abstract!Place, Placed, Job
<1> QED
  BY <1>2, <1>3, <1>4

LEMMA PowerLossMaps ==
    ASSUME RefineInv, RefineInv', PowerLoss
    PROVE  Abstract!Lose
<1>1. TypeOK /\ TypeOK' /\ Settled /\ Settled'
  BY DEF RefineInv, DurableInv, WholeInv
<1>2. WalAfterLoss' \subseteq WalAfterLoss
  BY DEF PowerLoss, WalAfterLoss
<1>3. VolumeEntries' \subseteq VolumeEntries
  <2>1. PICK f \in VolumeEntries : data' \in Survivors(f)
    BY DEF PowerLoss, DataAfterLoss, VolumeEntries
  <2>2. data' = f
    BY <1>1, <2>1 DEF Survivors, Settled, VolumeEntries, TypeOK, Files, Synced
  <2> QED
    BY <2>2 DEF PowerLoss, VolumeEntries
<1>4. Job' = [p \in Procs |-> [op |-> "idle", val |-> NoFile]]
  BY DEF PowerLoss, Job, JobOf, SavePCs, LoadPCs
<1> QED
  BY <1>1, <1>2, <1>3, <1>4, Narrows DEF Abstract!Lose, Abstract!Idle, Job

LEMMA StepMaps ==
    ASSUME ~BarePath, RefineInv, RefineInv', [Next]_vars
    PROVE  [Abstract!ANext]_(Abstract!avars)
<1> USE DEF Abstract!ANext
<1>1. ASSUME NEW p \in Procs, (\E v \in Payloads : BeginSave(p, v)) \/ BeginLoad(p)
      PROVE  Abstract!ANext
  BY <1>1, BeginMaps
<1>2. ASSUME NEW p \in Procs, SaveStep(p) PROVE Abstract!ANext
  <2>1. Abstract!Return(p, img[p]) => img[p] \in Abstract!Values
    BY DEF RefineInv, DurableInv, WholeInv, TypeOK, Images, Abstract!Values
  <2> QED
    BY <1>2, <2>1, SaveMaps
<1>3. ASSUME NEW p \in Procs, LoadStep(p) PROVE Abstract!ANext
  BY <1>3, LoadMaps
<1>4. ASSUME NEW p \in Procs, Fail(p) \/ Kill(p) PROVE Abstract!ANext
  BY <1>4, EndMaps DEF Fail, Kill, IdlePCs
<1>5. ASSUME PowerLoss PROVE Abstract!ANext
  BY <1>5, PowerLossMaps
<1>6. ASSUME UNCHANGED vars PROVE UNCHANGED Abstract!avars
  BY <1>6 DEF vars, Abstract!avars, JobOf, Recoverable, UnderPath, WalAfterLoss, DataAfterLoss
<1> QED
  BY <1>1, <1>2, <1>3, <1>4, <1>5, <1>6 DEF Next

\* The files and their protocol implement the register: every save and load
\* appears to happen at once, and a result, once returned, is all that a later
\* load can report, except for a load that could not replay the log and returns
\* what it replaces (OnDiskFile::save, OnDiskFile::load).
THEOREM Refinement == Exclusive /\ ~BarePath => (Spec => IsAtomicVolume)
<1> SUFFICES ASSUME Exclusive, ~BarePath PROVE Spec => Abstract!ASpec
  BY DEF IsAtomicVolume
<1>1. Init => Abstract!AInit
  <2> SUFFICES ASSUME Init PROVE Abstract!AInit
    OBVIOUS
  <2>1. Job = [p \in Procs |-> [op |-> "idle", val |-> NoFile]]
    BY DEF Init, Job, JobOf, SavePCs, LoadPCs
  <2>2. Recoverable = {NoFile} /\ UnderPath = {NoFile}
    BY DEF Init, Recoverable, UnderPath, WalAfterLoss, DataAfterLoss, Survivors, Synced, Recovered
  <2> QED
    BY <2>1, <2>2 DEF Abstract!AInit, Abstract!Idle, Job
<1>2. RefineInv /\ RefineInv' /\ [Next]_vars => [Abstract!ANext]_(Abstract!avars)
  BY StepMaps
<1>3. Spec => []RefineInv
  BY RefineInvHolds
<1> QED
  BY <1>1, <1>2, <1>3, PTL DEF Spec, Abstract!ASpec

-----------------------------------------------------------------------------
(* Overlapping calls.  Less is left then, and of the processes no more than *)
(* what each has in hand: a saver an image, and so has a load that replays. *)

InHand ==
    /\ TypeOK
    /\ \A p \in Procs :
        /\ pc[p] \in SavePCs => img[p] \in Payloads
        /\ pc[p] \in {"replay", "replaySync"} => img[p] # NoFile

LEMMA NextInHand ==
    ASSUME InHand, [Next]_vars
    PROVE  InHand'
<1> USE StoreAssumption
        DEF InHand, TypeOK, Synced, Dirty, Files, Bytes, Images, SavePCs, LoadPCs, IdlePCs, Go, disk
<1>1. ASSUME NEW p \in Procs, (\E v \in Payloads : BeginSave(p, v)) \/ BeginLoad(p)
      PROVE  InHand'
  BY <1>1 DEF BeginSave, BeginLoad, CanBegin
<1>2. ASSUME NEW p \in Procs, SaveStep(p)
      PROVE  InHand'
  <2>1. CASE PersistWal(p)
    BY <2>1 DEF PersistWal
  <2>2. CASE SyncWal(p)
    BY <2>2 DEF SyncWal, FsyncDir
  <2>3. CASE CreateTmp(p)
    BY <2>3 DEF CreateTmp
  <2>4. CASE SyncTmp(p)
    BY <2>4 DEF SyncTmp
  <2>5. CASE WriteTmp(p)
    <3>0. Dirty(img[p]) \in Files /\ Dirty(Torn) \in Files
      OBVIOUS
    <3>1. \A f \in Files : Overwritten(f, img[p]) \subseteq Files
      BY <3>0 DEF Overwritten
    <3>2. tmp' \in Files /\ data' \in Files
      BY <2>5, <3>1 DEF WriteTmp
    <3> QED
      BY <2>5, <3>2 DEF WriteTmp
  <2>6. CASE Rename(p)
    BY <2>6 DEF Rename, Publish, Moved
  <2>7. CASE RenameFails(p)
    BY <2>7 DEF RenameFails, End
  <2>8. CASE SyncData(p)
    BY <2>8 DEF SyncData, FsyncDir
  <2>9. CASE ClearWal(p)
    BY <2>9 DEF ClearWal, RemoveWal
  <2>10. CASE Ack(p)
    BY <2>10 DEF Ack, Return, FsyncDir
  <2> QED
    BY <1>2, <2>1, <2>2, <2>3, <2>4, <2>5, <2>6, <2>7, <2>8, <2>9, <2>10 DEF SaveStep
<1>3. ASSUME NEW p \in Procs, LoadStep(p)
      PROVE  InHand'
  <2>1. CASE Inspect(p)
    BY <2>1 DEF Inspect
  <2>2. CASE Replay(p)
    BY <2>2 DEF Replay, Publish
  <2>3. CASE RecoverFails(p)
    BY <2>3 DEF RecoverFails
  <2>4. CASE SyncReplay(p)
    BY <2>4 DEF SyncReplay, FsyncDir
  <2>5. CASE DropWal(p) \/ SyncDrop(p)
    BY <2>5 DEF DropWal, SyncDrop, FsyncDir, RemoveWal
  <2>6. CASE Read(p)
    BY <2>6 DEF Read, End, Return
  <2> QED
    BY <1>3, <2>1, <2>2, <2>3, <2>4, <2>5, <2>6 DEF LoadStep
<1>4. ASSUME NEW p \in Procs, Fail(p) \/ Kill(p)
      PROVE  InHand'
  BY <1>4 DEF Fail, Kill, End
<1>5. CASE PowerLoss
  <2>1. data' \in Files
    <3>1. PICK f \in oldData \cup {data} : data' \in Survivors(f)
      BY <1>5 DEF PowerLoss, DataAfterLoss
    <3>2. Synced(f.bytes) \in Files /\ Synced(Torn) \in Files
      OBVIOUS
    <3> QED
      BY <3>1, <3>2 DEF Survivors
  <2> QED
    BY <1>5, <2>1 DEF PowerLoss, WalAfterLoss
<1>6. CASE UNCHANGED vars
  BY <1>6 DEF vars
<1> QED
  BY <1>1, <1>2, <1>3, <1>4, <1>5, <1>6 DEF Next

Present == NoFile \notin {f.bytes : f \in DataAfterLoss}

LEMMA PresentIs == Present <=> \A f \in VolumeEntries : f.bytes # NoFile
<1>1. \A f \in VolumeEntries : Survivors(f) \subseteq DataAfterLoss
  BY DEF DataAfterLoss, VolumeEntries
<1>2. \A f \in VolumeEntries : \E g \in Survivors(f) : g.bytes = f.bytes
  <2> TAKE f \in VolumeEntries
  <2>1. Synced(f.bytes) \in Survivors(f) /\ Synced(f.bytes).bytes = f.bytes
    BY DEF Survivors, Synced
  <2> QED
    BY <2>1
<1>3. \A g \in DataAfterLoss : \E f \in VolumeEntries : g.bytes \in {f.bytes, Torn}
  BY DEF DataAfterLoss, VolumeEntries, Survivors, Synced
<1> QED
  BY <1>1, <1>2, <1>3, StoreAssumption DEF Present

LEMMA PresentIsNext == Present' <=> (\A f \in VolumeEntries : f.bytes # NoFile)'
BY PresentIs, PTL

LEMMA PresentStays ==
    ASSUME InHand, [Next]_vars, Present
    PROVE  Present'
<1>1. \A f \in VolumeEntries : f.bytes # NoFile
  BY PresentIs
<1>2. SUFFICES \A f \in VolumeEntries' : f.bytes # NoFile
  BY PresentIsNext
<1> USE <1>1, StoreAssumption DEF VolumeEntries, Synced, Dirty
<1>3. ASSUME NEW p \in Procs, SaveStep(p)
      PROVE  \A f \in VolumeEntries' : f.bytes # NoFile
  <2>1. CASE WriteTmp(p)
    <3>1. img[p] # NoFile
      BY <2>1 DEF WriteTmp, Go, InHand, SavePCs
    <3> QED
      BY <2>1, <3>1 DEF WriteTmp, Overwritten
  <2>2. CASE Rename(p)
    BY <2>2 DEF Rename, Publish
  <2>3. CASE ~WriteTmp(p) /\ ~Rename(p)
    BY <1>3, <2>3 DEF SaveStep, PersistWal, SyncWal, CreateTmp, SyncTmp, RenameFails, SyncData,
                      ClearWal, Ack, FsyncDir, disk
  <2> QED
    BY <2>1, <2>2, <2>3
<1>4. ASSUME NEW p \in Procs, LoadStep(p)
      PROVE  \A f \in VolumeEntries' : f.bytes # NoFile
  <2>1. CASE Replay(p)
    <3>1. img[p] # NoFile
      BY <2>1 DEF Replay, Go, InHand
    <3> QED
      BY <2>1, <3>1 DEF Replay, Publish
  <2>2. CASE ~Replay(p)
    BY <1>4, <2>2 DEF LoadStep, Inspect, RecoverFails, SyncReplay, DropWal, SyncDrop, Read,
                      FsyncDir, disk
  <2> QED
    BY <2>1, <2>2
<1>5. CASE PowerLoss
  <2>1. data'.bytes \in {f.bytes : f \in VolumeEntries} \cup {Torn}
    BY <1>5 DEF PowerLoss, DataAfterLoss, Survivors
  <2> QED
    BY <1>5, <2>1 DEF PowerLoss
<1> QED
  BY <1>3, <1>4, <1>5 DEF Next, BeginSave, BeginLoad, Fail, Kill, vars, disk

\* However calls overlap, fail and crash, a volume that is there to stay
\* stays: only a rename takes its entry away, and puts a file in its place
\* (std::fs::rename in save, persist in Wal::recover).
THEOREM Staying == Spec => VolumeStays
<1>1. Init => InHand
  BY StoreAssumption DEF Init, InHand, TypeOK, Synced, Files, Bytes, Images, SavePCs, LoadPCs, IdlePCs
<1>2. InHand /\ [Next]_vars => InHand'
  BY NextInHand
<1>3. InHand /\ [Next]_vars =>
          [NoFile \notin {f.bytes : f \in DataAfterLoss} =>
              NoFile \notin {f.bytes : f \in DataAfterLoss'}]_vars
  BY PresentStays DEF Present
<1> QED
  BY <1>1, <1>2, <1>3, PTL DEF Spec, VolumeStays

-----------------------------------------------------------------------------
(* Installer: what each step of an installation has done.                  *)

SetupShape ==
    /\ binary = [d \in Dirs |-> binary[d]]
    /\ job = [task |-> job.task, dir |-> job.dir, step |-> job.step]
    /\ job # NoJob => job.dir \in Dirs
    /\ ready \in Dirs \cup {None}

\* An installation under way has put back none of what it has done.
Installing ==
    job.task = "install" =>
        /\ job.step \in {"config", "default", "path", "shortcuts"} => binary[job.dir] = "whole"
        /\ job.step \in {"path", "shortcuts"} => config # "absent"
        /\ job.step = "shortcuts" => link = job.dir

SetupInv ==
    /\ SetupShape /\ Installing /\ InstalledRuns
    /\ job # NoJob => ready = None

LEMMA JobMoves ==
    ASSUME SetupInv, NEW s, job' = [job EXCEPT !.step = s]
    PROVE  job'.task = job.task /\ job'.dir = job.dir /\ job'.step = s
           /\ job' = [task |-> job'.task, dir |-> job'.dir, step |-> job'.step]
BY DEF SetupInv, SetupShape

LEMMA SetupStep ==
    ASSUME InstallerAssumption, SetupInv, [SetupNext]_setupVars
    PROVE  SetupInv'
<1>1. NoJob.task = "none" /\ NoJob = [task |-> NoJob.task, dir |-> NoJob.dir, step |-> NoJob.step]
  BY DEF NoJob
<1>2. ASSUME NEW d \in Dirs, Install(d) PROVE SetupInv'
  <2>1. /\ job'.task = "install" /\ job'.dir = d /\ job'.step = "binary" /\ ready' = None
        /\ job' = [task |-> job'.task, dir |-> job'.dir, step |-> job'.step]
        /\ UNCHANGED <<binary, link, config, entry>>
    BY <1>2 DEF Install, installed
  <2> QED
    BY <1>2, <2>1 DEF SetupInv, SetupShape, Installing, InstalledRuns
<1>3. CASE ExtractBinary
  <2>1. job.task = "install" /\ job.step = "binary" /\ job # NoJob /\ job.dir \in Dirs
        /\ UNCHANGED <<link, config, entry, ready>> /\ ready = None
    BY <1>1, <1>3 DEF ExtractBinary, AtStep, SetupInv, SetupShape
  <2>2. CASE binary' = [binary EXCEPT ![job.dir] = "torn"] /\ job' = job
    BY <2>1, <2>2 DEF SetupInv, SetupShape, Installing, InstalledRuns
  <2>3. CASE binary' = [binary EXCEPT ![job.dir] = "whole"] /\ Then("config")
    <3>1. job'.task = job.task /\ job'.dir = job.dir /\ job'.step = "config"
          /\ job' = [task |-> job'.task, dir |-> job'.dir, step |-> job'.step]
      BY <2>3, JobMoves DEF Then
    <3> QED
      BY <2>1, <2>3, <3>1 DEF SetupInv, SetupShape, Installing, InstalledRuns
  <2> QED
    BY <1>3, <2>2, <2>3 DEF ExtractBinary
<1>4. CASE SetUpConfig
  <2>1. /\ job.task = "install" /\ job.step = "config" /\ job # NoJob
        /\ UNCHANGED <<binary, link, entry, ready>> /\ ready = None
        /\ (config' = "torn" /\ Then("default")) \/ (config # "absent" /\ config' = config /\ Then("path"))
    BY <1>1, <1>4 DEF SetUpConfig, AtStep, SetupInv
  <2>2. /\ job'.task = job.task /\ job'.dir = job.dir
        /\ job' = [task |-> job'.task, dir |-> job'.dir, step |-> job'.step]
        /\ (config' = "torn" /\ job'.step = "default") \/ (config' # "absent" /\ job'.step = "path")
    BY <2>1, JobMoves DEF Then
  <2> QED
    BY <2>1, <2>2 DEF SetupInv, SetupShape, Installing, InstalledRuns
<1>5. CASE WriteDefaultConfig
  <2>1. /\ job.task = "install" /\ job.step = "default" /\ job # NoJob
        /\ UNCHANGED <<binary, link, entry, ready>> /\ ready = None
        /\ config' = "whole" /\ Then("path")
    BY <1>1, <1>5 DEF WriteDefaultConfig, AtStep, SetupInv
  <2>2. /\ job'.task = job.task /\ job'.dir = job.dir /\ job'.step = "path"
        /\ job' = [task |-> job'.task, dir |-> job'.dir, step |-> job'.step]
    BY <2>1, JobMoves DEF Then
  <2> QED
    BY <2>1, <2>2 DEF SetupInv, SetupShape, Installing, InstalledRuns
<1>6. CASE AddToPath
  <2>1. /\ job.task = "install" /\ job.step = "path" /\ job # NoJob
        /\ UNCHANGED <<binary, config, entry, ready>> /\ ready = None
        /\ (link' = None /\ job' = job) \/ (link' = job.dir /\ Then("shortcuts"))
    BY <1>1, <1>6 DEF AddToPath, AtStep, SetupInv
  <2>2. CASE link' = None /\ job' = job
    BY <2>1, <2>2 DEF SetupInv, SetupShape, Installing, InstalledRuns
  <2>3. CASE link' = job.dir /\ Then("shortcuts")
    <3>1. /\ job'.task = job.task /\ job'.dir = job.dir /\ job'.step = "shortcuts"
          /\ job' = [task |-> job'.task, dir |-> job'.dir, step |-> job'.step]
      BY <2>3, JobMoves DEF Then
    <3> QED
      BY <2>1, <2>3, <3>1 DEF SetupInv, SetupShape, Installing, InstalledRuns
  <2> QED
    BY <2>1, <2>2, <2>3
<1>7. CASE CreateShortcuts
  <2>1. /\ job.task = "install" /\ job.step = "shortcuts" /\ job # NoJob /\ job.dir \in Dirs
        /\ UNCHANGED <<binary, link, config>> /\ ready = None
        /\ \/ job' = job /\ ready' = ready
           \/ job' = NoJob /\ ready' = job.dir /\ (job.dir = Default => entry' = Default)
    BY <1>1, <1>7 DEF CreateShortcuts, AtStep, SetupInv, SetupShape, InstallerAssumption
  <2> QED
    BY <1>1, <2>1 DEF SetupInv, SetupShape, Installing, InstalledRuns
<1>8. CASE Uninstall
  <2>1. /\ job'.task = "uninstall" /\ job'.dir = Default /\ job'.step = "binary" /\ ready' = None
        /\ job' = [task |-> job'.task, dir |-> job'.dir, step |-> job'.step]
        /\ UNCHANGED <<binary, link, config, entry>>
    BY <1>8 DEF Uninstall, installed
  <2> QED
    BY <2>1 DEF SetupInv, SetupShape, Installing, InstalledRuns, Dirs
<1>9. CASE RemoveBinary
  <2>1. /\ job.task = "uninstall" /\ job # NoJob /\ ready = None /\ Then("path")
        /\ binary' = [binary EXCEPT ![Default] = "absent"] /\ UNCHANGED <<link, config, entry, ready>>
    BY <1>1, <1>9 DEF RemoveBinary, AtStep, SetupInv
  <2>2. /\ job'.task = job.task /\ job'.dir = job.dir
        /\ job' = [task |-> job'.task, dir |-> job'.dir, step |-> job'.step]
    BY <2>1, JobMoves DEF Then
  <2> QED
    BY <2>1, <2>2 DEF SetupInv, SetupShape, Installing, InstalledRuns
<1>10. CASE RemoveFromPath
  <2>1. job # NoJob /\ ready = None /\ job' = NoJob /\ UNCHANGED <<binary, config, entry, ready>>
    BY <1>1, <1>10 DEF RemoveFromPath, AtStep, SetupInv
  <2> QED
    BY <1>1, <2>1 DEF SetupInv, SetupShape, Installing, InstalledRuns
<1>11. CASE Stop
  BY <1>1, <1>11 DEF Stop, installed, SetupInv, SetupShape, Installing, InstalledRuns
<1>12. CASE EditConfig
  BY <1>1, <1>12 DEF EditConfig, SetupInv, SetupShape, Installing, InstalledRuns
<1>13. CASE Clean
  <2>1. /\ job = NoJob /\ job' = job /\ ready' = None
        /\ binary' = [d \in Dirs |-> binary'[d]]
    BY <1>13 DEF Clean, SetupInv, SetupShape
  <2> QED
    BY <1>1, <2>1 DEF SetupInv, SetupShape, Installing, InstalledRuns
<1>14. CASE UNCHANGED setupVars
  BY <1>14 DEF setupVars, SetupInv, SetupShape, Installing, InstalledRuns
<1> QED
  BY <1>2, <1>3, <1>4, <1>5, <1>6, <1>7, <1>8, <1>9, <1>10, <1>11, <1>12, <1>13, <1>14 DEF SetupNext

\* After an installation that returned Ok, until the next job or until the owner
\* removes something, the link on the path leads to the whole binary it wrote and
\* the desktop entry of a default installation starts it, whatever runs were cut
\* short before (run, add_to_path).  Of removals nothing is said.
THEOREM InstallationsRun == InstallerAssumption => (SetupSpec => []InstalledRuns)
<1> SUFFICES ASSUME InstallerAssumption PROVE SetupSpec => []InstalledRuns
  OBVIOUS
<1>1. SetupInit => SetupInv
  BY DEF SetupInit, NoJob, SetupInv, SetupShape, Installing, InstalledRuns
<1>2. SetupInv /\ [SetupNext]_setupVars => SetupInv'
  BY SetupStep
<1>3. SetupInv => InstalledRuns
  BY DEF SetupInv
<1> QED
  BY <1>1, <1>2, <1>3, PTL DEF SetupSpec

-----------------------------------------------------------------------------
(* Desktop: nothing is marked as mounted, and the wizard asks for a         *)
(* passphrase typed twice alike before it formats.                          *)

WindowInv ==
    /\ vaultFiles = [p \in Paths |-> vaultFiles[p]]
    /\ newPath \in Paths \cup {NoPath}
    /\ pass1 \in Passwords \cup {NoPass}
    /\ \A p \in DOMAIN volumes : ~volumes[p]
    /\ step \in 0..4
    /\ step = 3 => pass1 # NoPass /\ pass1 = pass2

\* What OnlyFormatTouches says of a step.
Touches ==
    OpenedBy' # OpenedBy =>
        /\ dialog /\ step = 3
        /\ pass1 # NoPass /\ pass1 = pass2
        /\ \E ws \in {{}, {pass1}} : OpenedBy' = [OpenedBy EXCEPT ![newPath] = ws]
        /\ step' = 4 => pass1 \in OpenedBy'[newPath]

LEMMA ReloadedUnmounted == ASSUME NEW files PROVE \A p \in DOMAIN Reloaded(files) : ~Reloaded(files)[p]
BY DEF Reloaded

\* A volume beside a log is open to nobody, and so is what the log puts in place.
LEMMA ReplayTouchesNone ==
    ASSUME NEW ps, vaultFiles' = ReplayedIn(ps)
    PROVE  vaultFiles' = [p \in Paths |-> vaultFiles'[p]] /\ OpenedBy' = OpenedBy
<1>1. ASSUME NEW p \in Paths, NEW w
      PROVE  OpensWith(vaultFiles'[p], w) /\ vaultFiles'[p].log = Absent
               <=> OpensWith(vaultFiles[p], w) /\ vaultFiles[p].log = Absent
  <2>1. vaultFiles'[p] = vaultFiles[p] \/ vaultFiles'[p] = Replayed(vaultFiles[p])
    BY DEF ReplayedIn
  <2>2. CASE vaultFiles[p].log = Absent
    BY <2>1, <2>2 DEF Replayed
  <2>3. CASE vaultFiles[p].log # Absent
    <3>1. Stale(vaultFiles[p].kdf) # "own"
      BY DEF Stale
    <3> QED
      BY <2>1, <2>3, <3>1 DEF Replayed, OpensWith
  <2> QED
    BY <2>2, <2>3
<1>2. vaultFiles' = [p \in Paths |-> vaultFiles'[p]]
  BY DEF ReplayedIn
<1> QED
  BY <1>1, <1>2 DEF OpenedBy

\* Only the path that is given other files may open differently.
LEMMA OneTouched ==
    ASSUME NEW q \in Paths, NEW f, vaultFiles = [p \in Paths |-> vaultFiles[p]],
           vaultFiles' = [vaultFiles EXCEPT ![q] = f]
    PROVE  /\ vaultFiles' = [p \in Paths |-> vaultFiles'[p]]
           /\ OpenedBy' = [OpenedBy EXCEPT
                  ![q] = {w \in Passwords : OpensWith(f, w) /\ f.log = Absent}]
<1>1. vaultFiles'[q] = f /\ \A p \in Paths \ {q} : vaultFiles'[p] = vaultFiles[p]
  OBVIOUS
<1> QED
  BY <1>1 DEF OpenedBy

LEMMA WindowStep ==
    ASSUME WindowInv, [WindowNext]_desktopVars
    PROVE  WindowInv' /\ Touches
<1>1. CASE \E p \in Paths : ChooseTarget(p) \/ ChooseNew(p)
  BY <1>1 DEF ChooseTarget, ChooseNew, wizard, WindowInv, Touches, OpenedBy
<1>2. CASE \E w \in Passwords : TypePassword(w)
  BY <1>2 DEF TypePassword, wizard, WindowInv, Touches, OpenedBy
<1>3. CASE \E w1, w2 \in Passwords \cup {NoPass} : TypeNew(w1, w2)
  BY <1>3 DEF TypeNew, WindowInv, Touches, OpenedBy
<1>4. CASE Mount \/ FinishWizard \/ RestartWindow
  <2>1. vaultFiles' = [p \in Paths |-> vaultFiles'[p]] /\ OpenedBy' = OpenedBy
    BY <1>4, ReplayTouchesNone DEF Mount, FinishWizard, RestartWindow, Reload
  <2>2. \A p \in DOMAIN volumes' : ~volumes'[p]
    BY <1>4, ReloadedUnmounted DEF Mount, FinishWizard, RestartWindow, Reload
  <2> QED
    BY <1>4, <2>1, <2>2 DEF Mount, FinishWizard, RestartWindow, wizard, WindowInv, Touches
<1>5. CASE MountFails
  <2>1. vaultFiles' = [p \in Paths |-> vaultFiles'[p]] /\ OpenedBy' = OpenedBy
    BY <1>5, ReplayTouchesNone DEF MountFails
  <2> QED
    BY <1>5, <2>1 DEF MountFails, wizard, WindowInv, Touches
<1>6. CASE DismountAll
  BY <1>6 DEF DismountAll, WindowInv
<1>7. CASE OpenWizard \/ Cancel
  BY <1>7 DEF OpenWizard, Cancel, WindowInv, Touches, OpenedBy
<1>8. CASE NextStep \/ BackStep
  BY <1>8 DEF NextStep, BackStep, NextAllowed, GoTo, WindowInv, Touches, OpenedBy
<1>9. CASE Format
  <2>1. newPath \in Paths /\ pass1 \in Passwords /\ pass1 # NoPass /\ pass1 = pass2
    BY <1>9 DEF Format, WindowInv
  <2>2. /\ vaultFiles' = [p \in Paths |-> vaultFiles'[p]]
        /\ OpenedBy' = [OpenedBy EXCEPT ![newPath] =
               {w \in Passwords : OpensWith(Formatted(pass1), w) /\ Formatted(pass1).log = Absent}]
    BY <1>9, <2>1, OneTouched DEF Format, WindowInv
  <2>3. {w \in Passwords : OpensWith(Formatted(pass1), w) /\ Formatted(pass1).log = Absent} = {pass1}
    BY <2>1 DEF Formatted, OpensWith
  <2>4. OpenedBy' = [OpenedBy EXCEPT ![newPath] = {pass1}] /\ newPath \in DOMAIN OpenedBy
    BY <2>1, <2>2, <2>3 DEF OpenedBy
  <2>5. Touches
    BY <1>9, <2>1, <2>4 DEF Format, Touches
  <2> QED
    BY <1>9, <2>2, <2>5 DEF Format, WindowInv
<1>10. CASE FormatFails
  <2>1. newPath \in Paths /\ pass1 \in Passwords /\ pass1 # NoPass /\ pass1 = pass2
    BY <1>10 DEF FormatFails, WindowInv
  <2>2. PICK f \in HalfFormatted(vaultFiles[newPath], pass1) :
            vaultFiles' = [vaultFiles EXCEPT ![newPath] = f]
    BY <1>10 DEF FormatFails
  <2>3. /\ vaultFiles' = [p \in Paths |-> vaultFiles'[p]]
        /\ OpenedBy' = [OpenedBy EXCEPT ![newPath] =
               {w \in Passwords : OpensWith(f, w) /\ f.log = Absent}]
    BY <2>1, <2>2, OneTouched DEF WindowInv
  <2>4. CASE f = vaultFiles[newPath]
    BY <1>10, <2>1, <2>2, <2>3, <2>4 DEF FormatFails, WindowInv, wizard, Touches, OpenedBy
  <2>5. CASE f # vaultFiles[newPath]
    <3>1. \A w : ~(OpensWith(f, w) /\ f.log = Absent)
      <4>1. Stale(vaultFiles[newPath].kdf) # "own" /\ pass1 # Absent
        BY <2>1, DesktopAssumption DEF Stale
      <4> QED
        BY <2>2, <2>5, <4>1 DEF HalfFormatted, OpensWith
    <3>2. OpenedBy' = [OpenedBy EXCEPT ![newPath] = {}]
      BY <2>3, <3>1
    <3>3. Touches
      BY <1>10, <2>1, <3>2 DEF FormatFails, wizard, Touches
    <3> QED
      BY <1>10, <2>3, <3>3 DEF FormatFails, wizard, WindowInv
  <2> QED
    BY <2>4, <2>5
<1>11. CASE UNCHANGED desktopVars
  BY <1>11 DEF desktopVars, WindowInv, Touches, OpenedBy
<1> QED
  BY <1>1, <1>2, <1>3, <1>4, <1>5, <1>6, <1>7, <1>8, <1>9, <1>10, <1>11 DEF WindowNext

\* A volume that opens goes on opening with its passphrase, whatever is clicked and
\* whatever logs are replayed, unless its own path is formatted with a passphrase
\* typed twice alike (draw_cv_wizard_ui, do_mount, reload_volumes).
THEOREM ClicksAreSafe == WindowSpec => OnlyFormatTouches
<1>1. WindowInit => WindowInv
  BY ReloadedUnmounted DEF WindowInit, WindowInv
<1>2. WindowInv /\ [WindowNext]_desktopVars => WindowInv'
  BY WindowStep
<1>3. WindowInv /\ [WindowNext]_desktopVars => [Touches]_desktopVars
  BY WindowStep
<1>4. [][Touches]_desktopVars => OnlyFormatTouches
  BY DEF Touches, OnlyFormatTouches
<1> QED
  BY <1>1, <1>2, <1>3, <1>4, PTL DEF WindowSpec

-----------------------------------------------------------------------------
(* VolumeCommands: what each place of a command has put away.               *)

Keeps == {"encrypt", "unmount"}

CommandsShape ==
    /\ salts \in Nat /\ sidecar \in 0..(MaxSalts + 1)
    /\ vol = [key |-> vol.key, text |-> vol.text]
    /\ running.cmd \in {"idle", "mount"} \cup Keeps
    /\ running.cmd = "idle" <=> running = NoCommand
    /\ running.cmd = "mount" => running = [cmd |-> running.cmd, at |-> running.at, text |-> running.text]
    /\ running.cmd \in Keeps =>
            /\ running = [cmd |-> running.cmd, at |-> running.at, p |-> running.p,
                          text |-> running.text, salt |-> running.salt]
            /\ running.p \in Passphrases /\ running.salt \in 1..MaxSalts
            /\ acked = NoAck

\* The volume holds what the command was given.
Stored == vol.key = <<running.p, running.salt>> /\ vol.text = running.text

Encrypting ==
    running.cmd = "encrypt" =>
        /\ running.at \in {"sidecar", "done"} => Stored
        /\ running.at = "done" => sidecar = running.salt
        /\ edits # Missing => output = edits

Unmounting ==
    running.cmd = "unmount" =>
        /\ sidecar = running.salt
        /\ running.at \in {"output", "marker", "done"} => Stored
        /\ running.at \in {"volume", "output"} /\ edits # Missing => output = edits /\ running.text = edits

\* What was acknowledged is in the volume under its own passphrase.
Acknowledged ==
    acked # NoAck =>
        /\ acked = [p |-> acked.p, text |-> acked.text, shared |-> acked.shared]
        /\ vol.key = <<acked.p, sidecar>> /\ vol.text = acked.text /\ sidecar \in 1..MaxSalts
        /\ acked.shared => shares = vol.key

\* What was edited is in the mount point, or nothing is and the volume has it.
Edited ==
    edits # Missing =>
        \/ output = edits
        \/ output = Missing /\ \E p \in Passphrases : Decrypts(p, edits)

CommandsInv == CommandsShape /\ Encrypting /\ Unmounting /\ Acknowledged /\ Edited

LEMMA NoVolumeHasNoKey ==
    ASSUME NEW p, NEW n \in Nat \ {0}
    PROVE  <<p, n>> # NoKey /\ NoVolume.key = NoKey
BY DEF NoKey, NoVolume

LEMMA CommandGoes ==
    ASSUME CommandsInv, running.cmd \in Keeps, NEW a, Goes(a)
    PROVE  /\ running'.cmd = running.cmd /\ running'.at = a /\ running'.p = running.p
           /\ running'.text = running.text /\ running'.salt = running.salt
           /\ running' = [cmd |-> running'.cmd, at |-> running'.at, p |-> running'.p,
                          text |-> running'.text, salt |-> running'.salt]
           /\ running' # NoCommand
<1>1. running' = [running EXCEPT !.at = a]
  BY DEF Goes
<1>2. running = [cmd |-> running.cmd, at |-> running.at, p |-> running.p,
                 text |-> running.text, salt |-> running.salt]
  BY DEF CommandsInv, CommandsShape
<1>3. /\ running'.cmd = running.cmd /\ running'.at = a /\ running'.p = running.p
      /\ running'.text = running.text /\ running'.salt = running.salt
      /\ running' = [cmd |-> running'.cmd, at |-> running'.at, p |-> running'.p,
                     text |-> running'.text, salt |-> running'.salt]
  BY <1>1, <1>2
<1>4. running'.cmd # "idle" /\ NoCommand.cmd = "idle"
  BY <1>3 DEF Keeps, NoCommand
<1> QED
  BY <1>3, <1>4

\* A command ends where it stands.
LEMMA CommandStops ==
    ASSUME CommandsInv, running' = NoCommand,
           UNCHANGED <<vol, sidecar, shares, output, salts, edits, acked>>
    PROVE  CommandsInv'
<1>1. NoCommand.cmd = "idle"
  BY DEF NoCommand
<1> QED
  BY <1>1 DEF CommandsInv, CommandsShape, Keeps, Encrypting, Unmounting, Acknowledged, Edited, Decrypts,
              SidecarOK, Opens, Derived

LEMMA EncryptSteps ==
    ASSUME VolumeCommandsAssumption, CommandsInv,
           \/ \E p \in Passphrases, t \in Texts : Encrypt(p, t)
           \/ EncryptVolume \/ EncryptSidecar
    PROVE  CommandsInv'
<1>1. NoCommand.cmd = "idle"
  BY DEF NoCommand
<1>2. ASSUME NEW p \in Passphrases, NEW t \in Texts, Encrypt(p, t) PROVE CommandsInv'
  <2>1. /\ salts' = salts + 1 /\ acked' = NoAck /\ salts' \in 1..MaxSalts
        /\ running' = [cmd |-> "encrypt", at |-> "volume", p |-> p, text |-> t, salt |-> salts']
        /\ edits' = IF output = edits THEN edits ELSE Missing
        /\ UNCHANGED <<vol, sidecar, shares, output>>
    BY <1>2 DEF Encrypt, volumeFiles, CommandsInv, CommandsShape, VolumeCommandsAssumption
  <2>2. /\ running'.cmd = "encrypt" /\ running'.at = "volume" /\ running'.p = p
        /\ running'.text = t /\ running'.salt = salts' /\ running' # NoCommand
    BY <1>1, <2>1
  <2>3. CommandsShape'
    BY <1>2, <2>1, <2>2 DEF CommandsInv, CommandsShape, Keeps
  <2>4. Encrypting' /\ Unmounting'
    BY <2>1, <2>2 DEF Encrypting, Unmounting
  <2>5. Acknowledged'
    BY <2>1 DEF Acknowledged
  <2>6. Edited'
    BY <2>1 DEF Edited
  <2> QED
    BY <2>3, <2>4, <2>5, <2>6 DEF CommandsInv
<1>3. CASE EncryptVolume
  <2> DEFINE new == [key |-> <<running.p, running.salt>>, text |-> running.text]
  <2>1. /\ running.cmd = "encrypt" /\ running.at = "volume" /\ running.cmd \in Keeps
        /\ UNCHANGED <<sidecar, shares, output, salts, edits, acked>> /\ acked = NoAck
        /\ edits # Missing => output = edits
        /\ (vol' = new /\ Goes("sidecar")) \/ (vol' \in {vol, new} /\ running' = NoCommand)
    BY <1>3 DEF EncryptVolume, Save, user, CommandsInv, CommandsShape, Keeps, Encrypting
  <2>2. vol' = [key |-> vol'.key, text |-> vol'.text]
    BY <2>1 DEF CommandsInv, CommandsShape
  <2>3. Acknowledged' /\ Edited'
    BY <2>1 DEF Acknowledged, Edited
  <2>4. CASE vol' = new /\ Goes("sidecar")
    <3>1. /\ running'.cmd = running.cmd /\ running'.at = "sidecar" /\ running'.p = running.p
          /\ running'.text = running.text /\ running'.salt = running.salt
          /\ running' = [cmd |-> running'.cmd, at |-> running'.at, p |-> running'.p,
                         text |-> running'.text, salt |-> running'.salt]
          /\ running' # NoCommand
      BY <2>1, <2>4, CommandGoes
    <3>2. CommandsShape'
      BY <2>1, <2>2, <3>1 DEF CommandsInv, CommandsShape, Keeps
    <3>3. Encrypting' /\ Unmounting'
      BY <2>1, <2>4, <3>1 DEF Encrypting, Unmounting, Stored
    <3> QED
      BY <2>3, <3>2, <3>3 DEF CommandsInv
  <2>5. CASE running' = NoCommand
    <3>1. CommandsShape'
      BY <1>1, <2>1, <2>2, <2>5 DEF CommandsInv, CommandsShape, Keeps
    <3>2. Encrypting' /\ Unmounting'
      BY <1>1, <2>5 DEF Encrypting, Unmounting
    <3> QED
      BY <2>3, <3>1, <3>2 DEF CommandsInv
  <2> QED
    BY <2>1, <2>4, <2>5
<1>4. CASE EncryptSidecar
  <2>1. /\ running.cmd = "encrypt" /\ running.at = "sidecar" /\ running.cmd \in Keeps
        /\ UNCHANGED <<vol, shares, output, salts, edits, acked>> /\ acked = NoAck
        /\ edits # Missing => output = edits
        /\ running.salt \in 1..MaxSalts
        /\ \/ sidecar' = running.salt /\ Goes("done")
           \/ sidecar' = TornSidecar /\ running' = NoCommand
    BY <1>4 DEF EncryptSidecar, Write, user, CommandsInv, CommandsShape, Keeps, Encrypting
  <2>2. sidecar' \in 0..(MaxSalts + 1)
    BY <2>1 DEF TornSidecar, VolumeCommandsAssumption
  <2>3. Acknowledged' /\ Edited'
    BY <2>1 DEF Acknowledged, Edited
  <2>4. CASE sidecar' = running.salt /\ Goes("done")
    <3>1. /\ running'.cmd = running.cmd /\ running'.at = "done" /\ running'.p = running.p
          /\ running'.text = running.text /\ running'.salt = running.salt
          /\ running' = [cmd |-> running'.cmd, at |-> running'.at, p |-> running'.p,
                         text |-> running'.text, salt |-> running'.salt]
          /\ running' # NoCommand
      BY <2>1, <2>4, CommandGoes
    <3>2. CommandsShape'
      BY <2>1, <2>2, <3>1 DEF CommandsInv, CommandsShape, Keeps
    <3>3. Encrypting' /\ Unmounting'
      BY <2>1, <2>4, <3>1 DEF CommandsInv, Encrypting, Unmounting, Stored
    <3> QED
      BY <2>3, <3>2, <3>3 DEF CommandsInv
  <2>5. CASE running' = NoCommand
    <3>1. CommandsShape'
      BY <1>1, <2>1, <2>2, <2>5 DEF CommandsInv, CommandsShape, Keeps
    <3>2. Encrypting' /\ Unmounting'
      BY <1>1, <2>5 DEF Encrypting, Unmounting
    <3> QED
      BY <2>3, <3>1, <3>2 DEF CommandsInv
  <2> QED
    BY <2>1, <2>4, <2>5
<1> QED
  BY <1>2, <1>3, <1>4

LEMMA MountSteps ==
    ASSUME VolumeCommandsAssumption, CommandsInv,
           (\E p \in Passphrases : QuickMount(p)) \/ MountOutput \/ MountMarker
    PROVE  CommandsInv'
<1>1. NoCommand.cmd = "idle"
  BY DEF NoCommand
<1>2. ASSUME NEW p \in Passphrases, QuickMount(p) PROVE CommandsInv'
  <2>1. /\ running' = [cmd |-> "mount", at |-> "output", text |-> vol.text]
        /\ UNCHANGED <<vol, sidecar, shares, output, salts, edits, acked>>
    BY <1>2 DEF QuickMount, volumeFiles, user
  <2>2. running'.cmd = "mount" /\ running'.at = "output" /\ running'.text = vol.text /\ running' # NoCommand
    BY <1>1, <2>1
  <2> QED
    BY <2>1, <2>2 DEF CommandsInv, CommandsShape, Keeps, Encrypting, Unmounting, Acknowledged, Edited, Decrypts,
                      SidecarOK, Opens, Derived
<1>3. ASSUME running.cmd = "mount", NEW a, Goes(a)
      PROVE  /\ running'.cmd = "mount" /\ running' # NoCommand
             /\ running' = [cmd |-> running'.cmd, at |-> running'.at, text |-> running'.text]
  <2>1. running = [cmd |-> running.cmd, at |-> running.at, text |-> running.text]
    BY <1>3 DEF CommandsInv, CommandsShape
  <2>2. /\ running'.cmd = "mount"
        /\ running' = [cmd |-> running'.cmd, at |-> running'.at, text |-> running'.text]
    BY <1>3, <2>1 DEF Goes
  <2> QED
    BY <1>1, <2>2
<1>4. ASSUME running.cmd = "mount", NEW a, Goes(a) \/ running' = NoCommand,
             UNCHANGED <<vol, sidecar, shares, salts, acked>>, Edited'
      PROVE  CommandsInv'
  <2>1. /\ running'.cmd \in {"idle", "mount"}
        /\ running'.cmd = "idle" <=> running' = NoCommand
        /\ running'.cmd = "mount" => running' = [cmd |-> running'.cmd, at |-> running'.at, text |-> running'.text]
    BY <1>1, <1>3, <1>4
  <2> QED
    BY <1>4, <2>1 DEF CommandsInv, CommandsShape, Keeps, Encrypting, Unmounting, Acknowledged
<1>5. CASE MountOutput
  <2>1. /\ running.cmd = "mount" /\ edits' = Missing
        /\ Goes("marker") \/ running' = NoCommand
        /\ UNCHANGED <<vol, sidecar, shares, salts, acked>>
    BY <1>5 DEF MountOutput, Write
  <2> QED
    BY <1>4, <2>1 DEF Edited
<1>6. CASE MountMarker
  <2>1. /\ running.cmd = "mount"
        /\ Goes("done") \/ running' = NoCommand
        /\ UNCHANGED <<vol, sidecar, shares, output, salts, edits, acked>>
    BY <1>6 DEF MountMarker, Write, user
  <2>2. Edited'
    BY <2>1 DEF CommandsInv, Edited, Decrypts, SidecarOK, Opens, Derived
  <2> QED
    BY <1>4, <2>1, <2>2
<1> QED
  BY <1>2, <1>5, <1>6

LEMMA UnmountSteps ==
    ASSUME VolumeCommandsAssumption, CommandsInv,
           \/ \E p \in Passphrases : Unmount(p)
           \/ UnmountVolume \/ UnmountOutput \/ UnmountMarker
    PROVE  CommandsInv'
<1>1. NoCommand.cmd = "idle"
  BY DEF NoCommand
<1>2. ASSUME NEW p \in Passphrases, Unmount(p) PROVE CommandsInv'
  <2>1. /\ acked' = NoAck /\ output # Missing /\ sidecar \in 1..MaxSalts
        /\ running' = [cmd |-> "unmount", at |-> "volume", p |-> p, text |-> output, salt |-> sidecar]
        /\ UNCHANGED <<vol, sidecar, shares, output, salts, edits>>
    BY <1>2 DEF Unmount, volumeFiles, CommandsInv, CommandsShape, SidecarOK, NoSidecar, TornSidecar,
                VolumeCommandsAssumption
  <2>2. /\ running'.cmd = "unmount" /\ running'.at = "volume" /\ running'.p = p
        /\ running'.text = output /\ running'.salt = sidecar /\ running' # NoCommand
    BY <1>1, <2>1
  <2>3. CommandsShape'
    BY <1>2, <2>1, <2>2 DEF CommandsInv, CommandsShape, Keeps
  <2>4. edits # Missing => output = edits
    BY <2>1 DEF CommandsInv, Edited
  <2>5. Encrypting' /\ Unmounting'
    BY <2>1, <2>2, <2>4 DEF Encrypting, Unmounting
  <2>6. Acknowledged' /\ Edited'
    BY <2>1, <2>4 DEF Acknowledged, Edited
  <2> QED
    BY <2>3, <2>5, <2>6 DEF CommandsInv
<1>3. CASE UnmountVolume
  <2> DEFINE new == [key |-> <<running.p, running.salt>>, text |-> running.text]
  <2>1. /\ running.cmd = "unmount" /\ running.at = "volume" /\ running.cmd \in Keeps
        /\ UNCHANGED <<sidecar, shares, output, salts, edits, acked>> /\ acked = NoAck
        /\ edits # Missing => output = edits /\ running.text = edits
        /\ sidecar = running.salt
        /\ (vol' = new /\ Goes("output")) \/ (vol' \in {vol, new} /\ running' = NoCommand)
    BY <1>3 DEF UnmountVolume, Save, user, CommandsInv, CommandsShape, Keeps, Unmounting
  <2>2. vol' = [key |-> vol'.key, text |-> vol'.text]
    BY <2>1 DEF CommandsInv, CommandsShape
  <2>3. Acknowledged' /\ Edited'
    BY <2>1 DEF Acknowledged, Edited
  <2>4. CASE vol' = new /\ Goes("output")
    <3>1. /\ running'.cmd = running.cmd /\ running'.at = "output" /\ running'.p = running.p
          /\ running'.text = running.text /\ running'.salt = running.salt
          /\ running' = [cmd |-> running'.cmd, at |-> running'.at, p |-> running'.p,
                         text |-> running'.text, salt |-> running'.salt]
          /\ running' # NoCommand
      BY <2>1, <2>4, CommandGoes
    <3>2. CommandsShape'
      BY <2>1, <2>2, <3>1 DEF CommandsInv, CommandsShape, Keeps
    <3>3. Encrypting' /\ Unmounting'
      BY <2>1, <2>4, <3>1 DEF Encrypting, Unmounting, Stored
    <3> QED
      BY <2>3, <3>2, <3>3 DEF CommandsInv
  <2>5. CASE running' = NoCommand
    <3>1. CommandsShape'
      BY <1>1, <2>1, <2>2, <2>5 DEF CommandsInv, CommandsShape, Keeps
    <3>2. Encrypting' /\ Unmounting'
      BY <1>1, <2>5 DEF Encrypting, Unmounting
    <3> QED
      BY <2>3, <3>1, <3>2 DEF CommandsInv
  <2> QED
    BY <2>1, <2>4, <2>5
\* Once the volume holds the text, the mount point may go.
<1>4. CASE UnmountOutput \/ UnmountMarker
  <2>1. /\ running.cmd = "unmount" /\ running.cmd \in Keeps
        /\ UNCHANGED <<vol, sidecar, shares, salts, edits, acked>>
        /\ Stored /\ sidecar = running.salt
        /\ running.p \in Passphrases /\ running.salt \in 1..MaxSalts
        /\ \/ running.at = "output" /\ output' = Missing /\ Goes("marker")
           \/ running.at = "marker" /\ output' = output /\ Goes("done")
    BY <1>4 DEF UnmountOutput, UnmountMarker, user, CommandsInv, CommandsShape, Keeps, Unmounting
  <2>2. PICK a \in {"marker", "done"} : Goes(a)
    BY <2>1
  <2>3. /\ running'.cmd = running.cmd /\ running'.at = a /\ running'.p = running.p
        /\ running'.text = running.text /\ running'.salt = running.salt
        /\ running' = [cmd |-> running'.cmd, at |-> running'.at, p |-> running'.p,
                       text |-> running'.text, salt |-> running'.salt]
        /\ running' # NoCommand
    BY <2>1, <2>2, CommandGoes
  <2>4. CommandsShape'
    BY <2>1, <2>3 DEF CommandsInv, CommandsShape, Keeps
  <2>5. Encrypting' /\ Unmounting'
    BY <2>1, <2>2, <2>3 DEF Encrypting, Unmounting, Stored
  <2>6. Acknowledged'
    BY <2>1 DEF CommandsInv, Acknowledged
  <2>7. Edited'
    <3>1. CASE output' = output
      BY <2>1, <3>1 DEF CommandsInv, Edited, Decrypts, SidecarOK, Opens, Derived
    <3>2. CASE running.at = "output" /\ output' = Missing
      <4>1. edits # Missing => running.text = edits
        BY <2>1, <3>2 DEF CommandsInv, Unmounting
      <4>2. vol # NoVolume
        BY <2>1, NoVolumeHasNoKey DEF Stored, VolumeCommandsAssumption
      <4>3. SidecarOK /\ vol.key = Derived(running.p)
        BY <2>1 DEF SidecarOK, NoSidecar, TornSidecar, Stored, Derived, VolumeCommandsAssumption
      <4>4. edits # Missing => Decrypts(running.p, edits)
        BY <2>1, <4>1, <4>2, <4>3 DEF Decrypts, Opens, Stored
      <4>5. edits # Missing => \E p \in Passphrases : Decrypts(p, edits)
        BY <2>1, <4>4
      <4>6. UNCHANGED <<vol, sidecar, edits>>
        BY <2>1
      <4>7. (\E p \in Passphrases : Decrypts(p, edits))' <=> \E p \in Passphrases : Decrypts(p, edits)
        BY <4>6 DEF Decrypts, SidecarOK, Opens, Derived
      <4> QED
        BY <3>2, <4>5, <4>6, <4>7 DEF Edited
    <3> QED
      BY <2>1, <3>1, <3>2
  <2> QED
    BY <2>4, <2>5, <2>6, <2>7 DEF CommandsInv
<1> QED
  BY <1>2, <1>3, <1>4

LEMMA ReportStep == ASSUME CommandsInv, Report PROVE CommandsInv'
<1>1. NoCommand.cmd = "idle"
  BY DEF NoCommand
<1>2. /\ running.at = "done" /\ running' = NoCommand
      /\ acked' = IF running.cmd \in Keeps
                     THEN [p |-> running.p, text |-> running.text, shared |-> FALSE] ELSE acked
      /\ UNCHANGED <<vol, sidecar, shares, output, salts, edits>>
  BY DEF Report, volumeFiles, Keeps
<1>3. CommandsShape'
  BY <1>1, <1>2 DEF CommandsInv, CommandsShape, Keeps
<1>4. Encrypting' /\ Unmounting'
  BY <1>1, <1>2 DEF Encrypting, Unmounting
<1>5. Acknowledged'
  <2>1. CASE running.cmd \in Keeps
    <3>1. /\ acked'.p = running.p /\ acked'.text = running.text /\ acked'.shared = FALSE
          /\ acked' = [p |-> acked'.p, text |-> acked'.text, shared |-> acked'.shared]
      BY <1>2, <2>1
    <3>2. Stored /\ sidecar = running.salt /\ running.salt \in 1..MaxSalts
      BY <1>2, <2>1 DEF CommandsInv, CommandsShape, Encrypting, Unmounting, Keeps
    <3> QED
      BY <1>2, <3>1, <3>2 DEF Acknowledged, Stored
  <2>2. CASE running.cmd \notin Keeps
    BY <1>2, <2>2 DEF CommandsInv, Acknowledged
  <2> QED
    BY <2>1, <2>2
<1>6. Edited'
  BY <1>2 DEF CommandsInv, Edited, Decrypts, SidecarOK, Opens, Derived
<1> QED
  BY <1>3, <1>4, <1>5, <1>6 DEF CommandsInv

\* A key that is shared once the text is put away is the volume's.
LEMMA ShareStep ==
    ASSUME VolumeCommandsAssumption, CommandsInv, NEW p \in Passphrases, ShareAdd(p)
    PROVE  CommandsInv'
<1>1. /\ running = NoCommand /\ Opens(Derived(p)) /\ shares \in {NoKey, Derived(p)} /\ shares' = Derived(p)
      /\ acked' = IF acked = NoAck \/ vol.text = "empty" THEN acked ELSE [acked EXCEPT !.shared = TRUE]
      /\ UNCHANGED <<vol, sidecar, output, running, salts, edits>>
  BY DEF ShareAdd
<1>2. running.cmd = "idle" /\ running.cmd \notin Keeps
  BY <1>1 DEF NoCommand, Keeps
<1>3. CommandsShape'
  BY <1>1, <1>2 DEF CommandsInv, CommandsShape
<1>4. Encrypting' /\ Unmounting'
  BY <1>1, <1>2 DEF Encrypting, Unmounting
<1>5. Edited'
  BY <1>1 DEF CommandsInv, Edited, Decrypts, SidecarOK, Opens, Derived
<1>6. Acknowledged'
  <2>1. CASE acked = NoAck
    BY <1>1, <2>1 DEF Acknowledged
  <2>2. CASE acked # NoAck
    <3>1. /\ acked = [p |-> acked.p, text |-> acked.text, shared |-> acked.shared]
          /\ vol.key = <<acked.p, sidecar>> /\ vol.text = acked.text /\ sidecar \in 1..MaxSalts
          /\ acked.shared => shares = vol.key
      BY <2>2 DEF CommandsInv, Acknowledged
    <3>2. vol.key # NoKey
      BY <3>1, NoVolumeHasNoKey DEF VolumeCommandsAssumption
    <3>3. CASE vol.text = "empty"
      <4>1. acked' = acked /\ (acked.shared => shares' = vol.key)
        BY <1>1, <3>1, <3>2, <3>3
      <4> QED
        BY <1>1, <3>1, <4>1 DEF Acknowledged
    <3>4. CASE vol.text # "empty"
      <4>1. shares' = vol.key
        BY <1>1, <3>4 DEF Opens
      <4>2. /\ acked' = [p |-> acked'.p, text |-> acked'.text, shared |-> acked'.shared]
            /\ acked'.p = acked.p /\ acked'.text = acked.text
        BY <1>1, <2>2, <3>1, <3>4
      <4> QED
        BY <1>1, <3>1, <4>1, <4>2 DEF Acknowledged
    <3> QED
      BY <3>3, <3>4
  <2> QED
    BY <2>1, <2>2
<1> QED
  BY <1>3, <1>4, <1>5, <1>6 DEF CommandsInv

LEMMA CommandsStep ==
    ASSUME VolumeCommandsAssumption, CommandsInv, [CommandsNext]_commandsVars
    PROVE  CommandsInv'
<1>1. CASE CommandFails
  BY <1>1, CommandStops DEF CommandFails, volumeFiles, user
<1>2. ASSUME NEW t \in Texts, EditText(t) PROVE CommandsInv'
  <2>1. running = NoCommand /\ output' = t /\ edits' = t /\ UNCHANGED <<vol, sidecar, shares, running, salts, acked>>
    BY <1>2 DEF EditText
  <2>2. running.cmd = "idle"
    BY <2>1 DEF NoCommand
  <2> QED
    BY <2>1, <2>2 DEF CommandsInv, CommandsShape, Keeps, Encrypting, Unmounting, Acknowledged, Edited
<1>3. ASSUME UNCHANGED <<vol, sidecar, shares, output, running, salts, edits, acked>> PROVE CommandsInv'
  BY <1>3 DEF CommandsInv, CommandsShape, Keeps, Encrypting, Unmounting, Acknowledged, Edited, Stored, Decrypts,
              SidecarOK, Opens, Derived
<1>4. CASE ShareUnlock \/ UNCHANGED commandsVars
  BY <1>3, <1>4 DEF ShareUnlock, volumeFiles, commandsVars
<1> QED
  BY <1>1, <1>2, <1>4, EncryptSteps, MountSteps, UnmountSteps, ReportStep, ShareStep DEF CommandsNext

\* Wherever commands fail or stop, what encrypt or unmount reported as done opens
\* until the next of them begins, and an edit in the mount point is there or in the
\* volume until a mount or an encryption begins to replace it (encrypt, quick-mount,
\* unmount, share).  An encryption cut between volume and sidecar does lose what it
\* replaces; the property starts anew with it.
THEOREM NoTextIsLost == VolumeCommandsAssumption => (CommandsSpec => []TextsSurvive)
<1> SUFFICES ASSUME VolumeCommandsAssumption PROVE CommandsSpec => []TextsSurvive
  OBVIOUS
<1>1. CommandsInit => CommandsInv
  <2> SUFFICES ASSUME CommandsInit PROVE CommandsInv
    OBVIOUS
  <2>1. running = NoCommand /\ running.cmd = "idle" /\ vol = [key |-> vol.key, text |-> vol.text]
    BY DEF CommandsInit, NoCommand, NoVolume
  <2> QED
    BY <2>1 DEF CommandsInit, CommandsInv, CommandsShape, Keeps, Encrypting, Unmounting, Acknowledged, Edited,
                NoSidecar, VolumeCommandsAssumption
<1>2. CommandsInv /\ [CommandsNext]_commandsVars => CommandsInv'
  BY CommandsStep
<1>3. CommandsInv => TextsSurvive
  <2> SUFFICES ASSUME CommandsInv PROVE TextsSurvive
    OBVIOUS
  <2>1. AckedOpens
    <3> SUFFICES ASSUME acked # NoAck
                 PROVE  Decrypts(acked.p, acked.text) /\ (acked.shared => vol.key = shares)
      BY DEF AckedOpens
    <3>1. /\ vol.key = <<acked.p, sidecar>> /\ vol.text = acked.text /\ sidecar \in 1..MaxSalts
          /\ acked.shared => shares = vol.key
      BY DEF CommandsInv, Acknowledged
    <3>2. vol # NoVolume
      BY <3>1, NoVolumeHasNoKey DEF VolumeCommandsAssumption
    <3> QED
      BY <3>1, <3>2 DEF Decrypts, Opens, Derived, SidecarOK, NoSidecar, TornSidecar, VolumeCommandsAssumption
  <2>2. EditsSurvive
    BY DEF CommandsInv, Edited, EditsSurvive
  <2> QED
    BY <2>1, <2>2 DEF TextsSurvive
<1> QED
  BY <1>1, <1>2, <1>3, PTL DEF CommandsSpec

-----------------------------------------------------------------------------
(* VolumeFormat, for any keys and contents, and any number of files and of *)
(* changes.  A hash is all the ciphertexts up to its block, so what the    *)
(* last one says of the others settles which file they are of.             *)

LEMMA LeastNumber ==
    ASSUME NEW T, T \subseteq Nat, T # {}
    PROVE  \E x \in T : \A y \in T : x <= y
<1> DEFINE R == {ss \in Nat \X Nat : ss[1] < ss[2]}
<1>1. IsWellFoundedOn(R, Nat)
  BY NatLessThanWellFounded DEF OpToRel
<1> HIDE DEF R
<1>2. PICK x \in T : \A y \in T : ~ (<<y, x>> \in R)
  BY <1>1, WFMin
<1>3. ASSUME NEW y \in T PROVE x <= y
  <2>1. y \in Nat /\ x \in Nat
    OBVIOUS
  <2>2. <<y, x>> \in Nat \X Nat /\ <<y, x>>[1] = y /\ <<y, x>>[2] = x
    BY <2>1
  <2>3. ~(y < x)
    BY <1>2, <2>2 DEF R
  <2> QED
    BY <2>1, <2>3
<1> QED
  BY <1>3

\* The hash before the n-th.
HashBefore(x, n) == IF n = 1 THEN <<>> ELSE x[n - 1].lineage

Links(x, m) == \A n \in 1..m : x[n].lineage = Append(HashBefore(x, n), x[n].ct)

Item(e) == e = [block |-> e.block, nonce |-> e.nonce, ct |-> e.ct, lineage |-> e.lineage]

\* What encrypt_to_disk makes.
Encrypted(w) ==
    LET x == w.file.index IN
    /\ w.chunks \in Contents
    /\ w.file = [size |-> Len(w.chunks), index |-> x]
    /\ (\E S : x \in Seq(S)) /\ Len(x) = Len(w.chunks)
    /\ Links(x, Len(w.chunks))
    /\ \A n \in 1..Len(w.chunks) :
           /\ Item(x[n]) /\ x[n].block = n - 1
           /\ x[n].ct = EncryptBlock(w.key, n - 1, w.chunks[n], HashBefore(x, n), x[n].nonce)

\* What the entries of a copy may be: one of a file, its block number aside.
Items == {[block |-> i, nonce |-> e.nonce, ct |-> e.ct, lineage |-> e.lineage] : i \in Nat, e \in Entries}

FormatInv ==
    /\ damages \in Nat
    /\ \A w \in written : Encrypted(w)
    /\ copy = [size |-> copy.size, index |-> copy.index] /\ copy.size \in Nat
    /\ copy.index \in Seq(Items)

-----------------------------------------------------------------------------
(* The recursion of encrypt_to_disk. *)

ItemOf(key, chunks, draw, before, n) ==
    LET prev == IF n = 1 THEN <<>> ELSE before[n - 1].lineage
        ct == EncryptBlock(key, n - 1, chunks[n], prev, draw)
    IN [block |-> n - 1, nonce |-> draw, ct |-> ct, lineage |-> Lineage(prev, ct)]

Grown(key, chunks, draw, f, n) ==
    IF n = 0 THEN <<>> ELSE Append(f[n - 1], ItemOf(key, chunks, draw, f[n - 1], n))

\* There is a function that meets the equation: one on 0..m extends to 0..m + 1.
LEMMA GrownExists ==
    ASSUME NEW key, NEW chunks, NEW draw, NEW L \in Nat
    PROVE  \E f : f = [n \in 0..L |-> Grown(key, chunks, draw, f, n)]
<1> DEFINE Has(m) == \E f : f = [n \in 0..m |-> Grown(key, chunks, draw, f, n)]
           Lacking == {m \in Nat : ~Has(m)}
<1>1. Has(0)
  <2>1. PICK f : f = [n \in 0..0 |-> <<>>]
    OBVIOUS
  <2>2. \A n \in 0..0 : Grown(key, chunks, draw, f, n) = <<>>
    BY DEF Grown
  <2>3. f = [n \in 0..0 |-> Grown(key, chunks, draw, f, n)]
    BY <2>1, <2>2
  <2> QED
    BY <2>3
<1>2. ASSUME NEW m \in Nat, Has(m) PROVE Has(m + 1)
  <2>1. PICK f : f = [n \in 0..m |-> Grown(key, chunks, draw, f, n)]
    BY <1>2
  <2>2. PICK g : g = [n \in 0..m + 1 |-> IF n = m + 1 THEN Grown(key, chunks, draw, f, n) ELSE f[n]]
    OBVIOUS
  <2>3. ASSUME NEW n \in 0..m + 1
        PROVE  g[n] = Grown(key, chunks, draw, g, n)
    <3>1. CASE n = 0
      <4>1. g[n] = f[n] /\ f[n] = Grown(key, chunks, draw, f, n)
        BY <2>1, <2>2, <3>1
      <4> QED
        BY <3>1, <4>1 DEF Grown
    <3>2. CASE n # 0
      <4>1. n - 1 \in 0..m /\ n - 1 \in 0..m + 1 /\ n - 1 # m + 1
        BY <3>2
      <4>2. g[n - 1] = f[n - 1]
        BY <2>2, <4>1
      <4>3. Grown(key, chunks, draw, g, n) = Grown(key, chunks, draw, f, n)
        BY <4>2 DEF Grown
      <4>4. CASE n = m + 1
        BY <2>2, <4>3, <4>4
      <4>5. CASE n # m + 1
        <5>1. n \in 0..m
          BY <4>5
        <5>2. f[n] = Grown(key, chunks, draw, f, n)
          BY <2>1, <5>1
        <5> QED
          BY <2>2, <4>3, <4>5, <5>2
      <4> QED
        BY <4>4, <4>5
    <3> QED
      BY <3>1, <3>2
  <2>4. g = [n \in 0..m + 1 |-> g[n]]
    BY <2>2
  <2>5. g = [n \in 0..m + 1 |-> Grown(key, chunks, draw, g, n)]
    BY <2>3, <2>4
  <2> QED
    BY <2>5
<1>3. Lacking = {}
  <2> SUFFICES ASSUME Lacking # {} PROVE FALSE
    OBVIOUS
  <2> HIDE DEF Has
  <2>1. \E x \in Lacking : \A y \in Lacking : x <= y
    BY LeastNumber
  <2>2. PICK x \in Nat : ~Has(x) /\ \A y \in Nat : ~Has(y) => x <= y
    BY <2>1
  <2>3. x # 0
    BY <1>1, <2>2
  <2>4. x - 1 \in Nat /\ ~(x <= x - 1) /\ (x - 1) + 1 = x
    BY <2>3
  <2>5. Has(x - 1)
    BY <2>2, <2>4
  <2>6. Has((x - 1) + 1)
    BY <1>2, <2>4, <2>5
  <2> QED
    BY <2>2, <2>4, <2>6
<1> QED
  BY <1>3

LEMMA EncryptUnfolds ==
    ASSUME NEW key, NEW chunks, NEW draw, NEW L \in Nat, L = Len(chunks)
    PROVE  \E f : /\ f = [n \in 0..L |-> Grown(key, chunks, draw, f, n)]
                  /\ EncryptToDisk(key, chunks, draw) = [size |-> L, index |-> f[L]]
<1> DEFINE f == CHOOSE g : g = [n \in 0..L |-> Grown(key, chunks, draw, g, n)]
<1>1. f = [n \in 0..L |-> Grown(key, chunks, draw, f, n)]
  BY GrownExists
<1>2. EncryptToDisk(key, chunks, draw) = [size |-> Len(chunks),
          index |-> (CHOOSE g : g = [n \in 0..Len(chunks) |-> Grown(key, chunks, draw, g, n)])[Len(chunks)]]
  BY DEF EncryptToDisk, Grown, ItemOf
<1> QED
  BY <1>1, <1>2

\* How far the recursion has come after n blocks.
GrownTo(key, chunks, draw, x, n) ==
    /\ \E S : x \in Seq(S)
    /\ Len(x) = n
    /\ \A k \in 1..n : /\ x[k] = ItemOf(key, chunks, draw, x, k)

LEMMA OneMore ==
    ASSUME NEW key, NEW chunks, NEW draw, NEW n \in Nat \ {0}, NEW x,
           GrownTo(key, chunks, draw, x, n - 1)
    PROVE  GrownTo(key, chunks, draw, Append(x, ItemOf(key, chunks, draw, x, n)), n)
<1>1. PICK S : x \in Seq(S)
  BY DEF GrownTo
<1>2. PICK e : e = ItemOf(key, chunks, draw, x, n)
  OBVIOUS
<1>3. PICK y : y = Append(x, e)
  OBVIOUS
<1>4. Len(x) = n - 1 /\ \A k \in 1..n - 1 : x[k] = ItemOf(key, chunks, draw, x, k)
  BY DEF GrownTo
<1>5. /\ y \in Seq(S \cup {e}) /\ Len(y) = (n - 1) + 1
      /\ \A i \in 1..n - 1 : y[i] = x[i]
      /\ y[(n - 1) + 1] = e
  <2>1. x \in Seq(S \cup {e})
    BY <1>1
  <2> QED
    BY <1>3, <1>4, <2>1, AppendProperties
<1>6. Len(y) = n /\ y[n] = e
  BY <1>5
<1>7. ASSUME NEW k \in 1..n PROVE y[k] = ItemOf(key, chunks, draw, y, k)
  <2>1. y[k] = ItemOf(key, chunks, draw, x, k)
    <3>1. CASE k = n
      BY <1>2, <1>6, <3>1
    <3>2. CASE k # n
      <4>1. k \in 1..n - 1
        BY <3>2
      <4> QED
        BY <1>4, <1>5, <4>1
    <3> QED
      BY <3>1, <3>2
  <2>2. k # 1 => y[k - 1] = x[k - 1]
    <3>1. k # 1 => k - 1 \in 1..n - 1
      OBVIOUS
    <3> QED
      BY <1>5, <3>1
  <2> QED
    BY <2>1, <2>2 DEF ItemOf
<1> QED
  BY <1>2, <1>3, <1>5, <1>6, <1>7 DEF GrownTo

LEMMA EncryptMakes ==
    ASSUME NEW key, NEW chunks, NEW draw, NEW L \in Nat, L = Len(chunks)
    PROVE  \E x : /\ EncryptToDisk(key, chunks, draw) = [size |-> L, index |-> x]
                  /\ GrownTo(key, chunks, draw, x, L)
<1>1. PICK f : /\ f = [n \in 0..L |-> Grown(key, chunks, draw, f, n)]
               /\ EncryptToDisk(key, chunks, draw) = [size |-> L, index |-> f[L]]
  BY EncryptUnfolds
<1> DEFINE Lacking == {n \in 0..L : ~GrownTo(key, chunks, draw, f[n], n)}
<1>2. GrownTo(key, chunks, draw, f[0], 0)
  <2>1. f[0] = <<>>
    BY <1>1 DEF Grown
  <2>2. <<>> \in Seq({}) /\ Len(<<>>) = 0
    OBVIOUS
  <2> QED
    BY <2>1, <2>2 DEF GrownTo
<1>3. ASSUME NEW n \in 1..L, GrownTo(key, chunks, draw, f[n - 1], n - 1)
      PROVE  GrownTo(key, chunks, draw, f[n], n)
  <2>1. n \in 0..L /\ n # 0 /\ n \in Nat \ {0}
    OBVIOUS
  <2>2. f[n] = Grown(key, chunks, draw, f, n)
    BY <1>1, <2>1
  <2>3. f[n] = Append(f[n - 1], ItemOf(key, chunks, draw, f[n - 1], n))
    BY <2>1, <2>2 DEF Grown
  <2> QED
    BY <1>3, <2>1, <2>3, OneMore
<1>4. Lacking = {}
  <2> SUFFICES ASSUME Lacking # {} PROVE FALSE
    OBVIOUS
  <2>1. Lacking \subseteq Nat
    OBVIOUS
  <2>2. PICK n \in Lacking : \A m \in Lacking : n <= m
    BY <2>1, LeastNumber
  <2>3. n \in 0..L /\ n # 0 /\ ~GrownTo(key, chunks, draw, f[n], n)
    BY <1>2, <2>2
  <2>4. n - 1 \in 0..L /\ n \in 1..L /\ ~(n <= n - 1)
    BY <2>3
  <2>5. GrownTo(key, chunks, draw, f[n - 1], n - 1)
    BY <2>2, <2>4
  <2> QED
    BY <1>3, <2>3, <2>4, <2>5
<1>5. GrownTo(key, chunks, draw, f[L], L)
  BY <1>4
<1> QED
  BY <1>1, <1>5

LEMMA WritesEncrypted ==
    ASSUME VolumeFormatAssumption, NEW key, NEW chunks \in Contents, NEW draw, NEW w,
           w = [key |-> key, chunks |-> chunks, file |-> EncryptToDisk(key, chunks, draw)]
    PROVE  Encrypted(w)
<1>1. PICK L \in Nat : L = Len(chunks)
  BY DEF VolumeFormatAssumption
<1>2. PICK x : /\ EncryptToDisk(key, chunks, draw) = [size |-> L, index |-> x]
               /\ GrownTo(key, chunks, draw, x, L)
  BY <1>1, EncryptMakes
<1>3. w.key = key /\ w.chunks = chunks /\ w.file = [size |-> L, index |-> x] /\ w.file.index = x
  BY <1>2
<1>4. /\ \E S : x \in Seq(S)
      /\ Len(x) = L
      /\ \A n \in 1..L : x[n] = ItemOf(key, chunks, draw, x, n)
  BY <1>2 DEF GrownTo
<1>5. \A n \in 1..L : /\ x[n].block = n - 1 /\ x[n].nonce = draw
                      /\ x[n].ct = EncryptBlock(key, n - 1, chunks[n], HashBefore(x, n), draw)
                      /\ x[n].lineage = Append(HashBefore(x, n), x[n].ct)
  BY <1>4 DEF ItemOf, HashBefore, Lineage
<1>6. ASSUME NEW n \in 1..L PROVE Item(x[n])
  <2>1. PICK p : p = IF n = 1 THEN <<>> ELSE x[n - 1].lineage
    OBVIOUS
  <2>2. PICK ct : ct = EncryptBlock(key, n - 1, chunks[n], p, draw)
    OBVIOUS
  <2>3. x[n] = [block |-> n - 1, nonce |-> draw, ct |-> ct, lineage |-> Lineage(p, ct)]
    BY <1>4, <2>1, <2>2 DEF ItemOf
  <2> QED
    BY <2>3 DEF Item
<1> QED
  BY <1>1, <1>3, <1>4, <1>5, <1>6 DEF Encrypted, Links

-----------------------------------------------------------------------------
\* The hash of a block lists all ciphertexts up to it.
LEMMA LineageLists ==
    ASSUME NEW x, NEW m \in Nat, Links(x, m)
    PROVE  \A n \in 1..m : x[n].lineage = [i \in 1..n |-> x[i].ct]
<1> DEFINE Lists(n) == x[n].lineage = [i \in 1..n |-> x[i].ct]
           Wrong == {n \in 1..m : ~Lists(n)}
<1>1. \A n \in 1..m : x[n].lineage = Append(HashBefore(x, n), x[n].ct)
  BY DEF Links
<1>2. ASSUME NEW n \in 1..m, n # 1 => Lists(n - 1) PROVE Lists(n)
  <2>1. PICK S : S = {x[i].ct : i \in 1..m}
    OBVIOUS
  <2>2. PICK p : p = [i \in 1..n - 1 |-> x[i].ct]
    OBVIOUS
  <2>3. HashBefore(x, n) = p
    <3>1. CASE n = 1
      BY <2>2, <3>1 DEF HashBefore
    <3>2. CASE n # 1
      BY <1>2, <2>2, <3>2 DEF HashBefore
    <3> QED
      BY <3>1, <3>2
  <2>4. p \in Seq(S) /\ Len(p) = n - 1 /\ x[n].ct \in S
    <3>1. \A i \in 1..n - 1 : x[i].ct \in S
      BY <2>1
    <3>2. x[n].ct \in S /\ n - 1 \in Nat
      BY <2>1
    <3> QED
      BY <2>2, <3>1, <3>2
  <2>5. PICK q : q = Append(p, x[n].ct)
    OBVIOUS
  <2>6. /\ q \in Seq(S) /\ Len(q) = (n - 1) + 1
        /\ \A i \in 1..n - 1 : q[i] = p[i]
        /\ q[(n - 1) + 1] = x[n].ct
    BY <2>4, <2>5, AppendProperties
  <2>7. DOMAIN q = 1..n /\ q = [i \in DOMAIN q |-> q[i]]
    BY <2>6
  <2>8. \A i \in 1..n : q[i] = x[i].ct
    BY <2>2, <2>6
  <2>9. q = [i \in 1..n |-> x[i].ct]
    BY <2>7, <2>8
  <2> QED
    BY <1>1, <2>3, <2>5, <2>9
<1>3. Wrong = {}
  <2> SUFFICES ASSUME Wrong # {} PROVE FALSE
    OBVIOUS
  <2> HIDE DEF Lists
  <2>1. Wrong \subseteq Nat
    OBVIOUS
  <2>2. PICK n \in Wrong : \A k \in Wrong : n <= k
    BY <2>1, LeastNumber
  <2>3. n \in 1..m /\ ~Lists(n)
    BY <2>2
  <2>4. n # 1 => n - 1 \in 1..m /\ ~(n <= n - 1)
    BY <2>3
  <2>5. n # 1 => Lists(n - 1)
    BY <2>2, <2>4
  <2> QED
    BY <1>2, <2>3, <2>5
<1> QED
  BY <1>3

LEMMA PrefixOf ==
    ASSUME NEW S, NEW s \in Seq(S), NEW t \in Seq(S), Len(s) <= Len(t),
           \A i \in 1..Len(s) : s[i] = t[i]
    PROVE  IsPrefix(s, t)
<1>1. PICK n \in Nat : n = Len(s)
  OBVIOUS
<1>2. PICK a : a = SubSeq(s, 1, n)
  OBVIOUS
<1>3. PICK b : b = SubSeq(t, 1, n)
  OBVIOUS
<1>4. \A i \in 1..n : s[i] \in S /\ t[i] \in S
  <2>1. \A i \in 1..n : i \in 1..Len(s) /\ i \in 1..Len(t)
    BY <1>1
  <2> QED
    BY <2>1
<1>5. a \in Seq(S) /\ Len(a) = n /\ \A i \in 1..n : a[i] = s[i]
  <2>1. /\ a \in Seq(S) /\ Len(a) = (IF 1 <= n THEN n - 1 + 1 ELSE 0)
        /\ \A i \in 1..n - 1 + 1 : a[i] = s[1 + i - 1]
    BY <1>2, <1>4, SubSeqProperties
  <2> QED
    BY <2>1
<1>6. b \in Seq(S) /\ Len(b) = n /\ \A i \in 1..n : b[i] = t[i]
  <2>1. /\ b \in Seq(S) /\ Len(b) = (IF 1 <= n THEN n - 1 + 1 ELSE 0)
        /\ \A i \in 1..n - 1 + 1 : b[i] = t[1 + i - 1]
    BY <1>3, <1>4, SubSeqProperties
  <2> QED
    BY <2>1
<1>7. a = b
  <2>1. a = [i \in 1..n |-> a[i]] /\ b = [i \in 1..n |-> b[i]]
    BY <1>5, <1>6
  <2>2. \A i \in 1..n : a[i] = b[i]
    BY <1>1, <1>5, <1>6
  <2> QED
    BY <2>1, <2>2
<1> QED
  BY <1>1, <1>2, <1>3, <1>7 DEF IsPrefix

\* An entry of a copy is one of a file, its block number aside.
LEMMA FromAFile ==
    ASSUME FormatInv, NEW n \in 1..Len(copy.index)
    PROVE  \E w \in written : \E k \in 1..Len(w.chunks) :
               /\ copy.index[n].ct = w.file.index[k].ct
               /\ copy.index[n].lineage = w.file.index[k].lineage
<1>1. copy.index[n] \in Items
  BY ElementOfSeq DEF FormatInv
<1>2. PICK e \in Entries : copy.index[n].ct = e.ct /\ copy.index[n].lineage = e.lineage
  BY <1>1 DEF Items
<1>3. PICK w \in written : e \in Range(w.file.index)
  BY <1>2 DEF Entries
<1>4. PICK k \in DOMAIN w.file.index : e = w.file.index[k]
  BY <1>3 DEF Range
<1>5. Encrypted(w)
  BY DEF FormatInv
<1>6. DOMAIN w.file.index = 1..Len(w.chunks)
  BY <1>5 DEF Encrypted
<1> QED
  BY <1>2, <1>4, <1>6

LEMMA CopyLinks ==
    ASSUME FormatInv, VerifyLineage(copy)
    PROVE  Links(copy.index, Len(copy.index))
<1>1. DOMAIN copy.index = 1..Len(copy.index)
  BY DEF FormatInv
<1> QED
  BY <1>1 DEF VerifyLineage, Links, HashBefore, Lineage

\* A chain that verifies is the beginning of a file: the last hash, of however
\* many ciphertexts, is one of a file, which has these ciphertexts in front.
LEMMA OneFile ==
    ASSUME VolumeFormatAssumption, FormatInv, VerifyLineage(copy), copy.index # <<>>
    PROVE  \E w \in written :
               /\ Len(copy.index) <= Len(w.chunks)
               /\ \A i \in 1..Len(copy.index) : copy.index[i].ct = w.file.index[i].ct
<1>1. PICK x : x = copy.index
  OBVIOUS
<1>2. PICK n \in Nat : n = Len(x)
  BY <1>1 DEF FormatInv
<1>3. n \in 1..n
  BY <1>1, <1>2 DEF FormatInv
<1>4. x[n].lineage = [i \in 1..n |-> x[i].ct]
  <2>1. Links(x, n)
    BY <1>1, <1>2, CopyLinks
  <2> QED
    BY <1>3, <2>1, LineageLists
<1>11. PICK w \in written : \E k \in 1..Len(w.chunks) : x[n].lineage = w.file.index[k].lineage
  BY <1>1, <1>2, <1>3, FromAFile
<1>5. PICK k \in 1..Len(w.chunks) : x[n].lineage = w.file.index[k].lineage
  BY <1>11
<1>6. PICK L \in Nat : L = Len(w.chunks)
  <2>1. w.chunks \in Contents
    BY DEF FormatInv, Encrypted
  <2> QED
    BY <2>1 DEF VolumeFormatAssumption
<1>8. k \in 1..L
  BY <1>5, <1>6
<1>7. w.file.index[k].lineage = [i \in 1..k |-> w.file.index[i].ct]
  <2>1. PICK z : z = w.file.index
    OBVIOUS
  <2>2. Links(z, L)
    BY <1>6, <2>1 DEF FormatInv, Encrypted
  <2>3. \A m \in 1..L : z[m].lineage = [i \in 1..m |-> z[i].ct]
    BY <2>2, LineageLists
  <2> QED
    BY <1>8, <2>1, <2>3
<1>9. k = n
  <2>1. DOMAIN [i \in 1..n |-> x[i].ct] = DOMAIN [i \in 1..k |-> w.file.index[i].ct]
    BY <1>4, <1>5, <1>7
  <2>2. 1..n = 1..k
    BY <2>1
  <2>3. n \in 1..k /\ k \in 1..n
    BY <1>3, <1>8, <2>2
  <2> QED
    BY <1>8, <2>3
<1>10. ASSUME NEW i \in 1..n PROVE x[i].ct = w.file.index[i].ct
  <2>1. [j \in 1..n |-> x[j].ct][i] = [j \in 1..n |-> w.file.index[j].ct][i]
    BY <1>4, <1>5, <1>7, <1>9
  <2> QED
    BY <2>1
<1> QED
  BY <1>1, <1>2, <1>6, <1>8, <1>9, <1>10

Chunks == UNION {Range(chunks) : chunks \in Contents}

\* A file of L blocks, with x for its index.
FileIs(w, x, L) ==
    /\ w.file = [size |-> L, index |-> x] /\ w.file.index = x
    /\ L = Len(w.chunks) /\ w.chunks \in Seq(Chunks)
    /\ Len(x) = L /\ DOMAIN x = 1..L /\ (L = 0 => x = <<>>)
    /\ \A n \in 1..L : /\ w.chunks[n] \in Chunks
                       /\ x[n].block = n - 1
                       /\ x[n].ct = EncryptBlock(w.key, n - 1, w.chunks[n], HashBefore(x, n), x[n].nonce)
                       /\ x[n].lineage = Append(HashBefore(x, n), x[n].ct)
                       /\ x[n].ct.chunk = w.chunks[n] /\ x[n].ct.key = w.key

LEMMA FileShape ==
    ASSUME VolumeFormatAssumption, NEW w, Encrypted(w)
    PROVE  \E x : \E L \in Nat : FileIs(w, x, L)
<1>0. PICK x : x = w.file.index
  OBVIOUS
<1>1. w.chunks \in Seq(Chunks)
  BY DEF VolumeFormatAssumption, Encrypted, Chunks
<1>2. PICK L \in Nat : L = Len(w.chunks)
  BY <1>1
<1>3. w.file = [size |-> L, index |-> x] /\ Len(x) = L /\ \E T : x \in Seq(T)
  BY <1>0, <1>2 DEF Encrypted
<1>4. DOMAIN x = 1..L /\ (L = 0 => x = <<>>)
  BY <1>3
<1>5. \A n \in 1..L : w.chunks[n] \in Chunks
  BY <1>1, <1>2
<1>6. ASSUME NEW n \in 1..L
      PROVE  /\ x[n].block = n - 1
             /\ x[n].ct = EncryptBlock(w.key, n - 1, w.chunks[n], HashBefore(x, n), x[n].nonce)
             /\ x[n].lineage = Append(HashBefore(x, n), x[n].ct)
             /\ x[n].ct.chunk = w.chunks[n] /\ x[n].ct.key = w.key
  <2>1. /\ x[n].block = n - 1
        /\ x[n].ct = EncryptBlock(w.key, n - 1, w.chunks[n], HashBefore(x, n), x[n].nonce)
        /\ x[n].lineage = Append(HashBefore(x, n), x[n].ct)
    BY <1>0, <1>2 DEF Encrypted, Links
  <2>2. PICK h : h = HashBefore(x, n)
    OBVIOUS
  <2>3. x[n].ct = [key |-> w.key, at |-> n - 1, prev |-> h, draw |-> x[n].nonce, chunk |-> w.chunks[n]]
    BY <2>1, <2>2 DEF EncryptBlock
  <2>4. x[n].ct.chunk = w.chunks[n] /\ x[n].ct.key = w.key
    BY <2>3
  <2> QED
    BY <2>1, <2>4
<1> QED
  BY <1>0, <1>1, <1>2, <1>3, <1>4, <1>5, <1>6 DEF FileIs

LEMMA FileOpens ==
    ASSUME VolumeFormatAssumption, NEW w, Encrypted(w), w.file = copy
    PROVE  /\ VerifyKey(w.key, copy) /\ PlaintextOK(w.key, copy)
           /\ Plaintext(copy) = w.chunks
           /\ Verified(copy)
           /\ LET n == Len(w.chunks) IN
              Listed(copy) = [plaintext_size |-> n, block_count |-> n, lineage_ok |-> TRUE]
<1>0. PICK x, L : L \in Nat /\ FileIs(w, x, L)
  BY FileShape
<1>1. /\ L \in Nat
      /\ w.file = [size |-> L, index |-> x]
      /\ L = Len(w.chunks) /\ w.chunks \in Seq(Chunks)
      /\ Len(x) = L /\ DOMAIN x = 1..L /\ (L = 0 => x = <<>>)
      /\ \A n \in 1..L : /\ x[n].block = n - 1
                         /\ x[n].ct = EncryptBlock(w.key, n - 1, w.chunks[n], HashBefore(x, n), x[n].nonce)
                         /\ x[n].lineage = Append(HashBefore(x, n), x[n].ct)
                         /\ x[n].ct.chunk = w.chunks[n]
  BY <1>0 DEF FileIs
<1>2. copy = [size |-> L, index |-> x] /\ copy.index = x /\ copy.size = L
  BY <1>1
<1>3. VerifyLineage(copy)
  BY <1>1, <1>2 DEF VerifyLineage, Lineage, HashBefore
<1>4. ASSUME NEW n \in 1..L PROVE DecryptsEntry(w.key, copy, x[n])
  <2>1. x[n].block = n - 1 /\ n - 1 <= L
    BY <1>1
  <2>2. HasPrev(copy, x[n])
    BY <1>1, <1>2, <2>1 DEF HasPrev
  <2>3. LineagePrevFor(copy, x[n]) = HashBefore(x, n)
    <3>1. CASE n = 1
      BY <1>2, <2>1, <3>1 DEF LineagePrevFor, HashBefore
    <3>2. CASE n # 1
      <4>1. n - 1 # 0
        BY <3>2
      <4> QED
        BY <1>2, <2>1, <3>2, <4>1 DEF LineagePrevFor, HashBefore
    <3> QED
      BY <3>1, <3>2
  <2>4. x[n].ct = EncryptBlock(w.key, n - 1, w.chunks[n], HashBefore(x, n), x[n].nonce)
    BY <1>1
  <2>5. DecryptsBlock(w.key, n - 1, HashBefore(x, n), x[n].nonce, x[n].ct)
    BY <2>4 DEF DecryptsBlock, EncryptBlock
  <2> QED
    BY <2>1, <2>2, <2>3, <2>5 DEF DecryptsEntry
<1>5. PlaintextOK(w.key, copy)
  BY <1>1, <1>2, <1>3, <1>4 DEF PlaintextOK
<1>6. VerifyKey(w.key, copy)
  <2>1. x # <<>> => 1 \in 1..L
    BY <1>1
  <2> QED
    BY <1>2, <1>4, <2>1 DEF VerifyKey
<1>7. Plaintext(copy) = w.chunks
  <2>1. Plaintext(copy) = [n \in 1..L |-> x[n].ct.chunk]
    BY <1>1, <1>2 DEF Plaintext
  <2>2. \A n \in 1..L : x[n].ct.chunk = w.chunks[n]
    BY <1>1
  <2>3. w.chunks = [n \in 1..L |-> w.chunks[n]]
    BY <1>1
  <2> QED
    BY <2>1, <2>2, <2>3
<1> QED
  BY <1>1, <1>2, <1>3, <1>5, <1>6, <1>7 DEF Verified, Listed

LEMMA InvTells ==
    ASSUME VolumeFormatAssumption, FormatInv
    PROVE  ChainTells
<1>1. RoundTrip
  BY FileOpens DEF FormatInv, RoundTrip
<1>2. ASSUME VerifyLineage(copy), copy.index # <<>>
      PROVE  \E w \in written :
                 /\ IsPrefix(Ciphertexts(copy), Ciphertexts(w.file))
                 /\ \A key : PlaintextOK(key, copy) =>
                        w.key = key /\ IsPrefix(Plaintext(copy), w.chunks)
  <2>1. PICK w \in written :
            /\ Len(copy.index) <= Len(w.chunks)
            /\ \A i \in 1..Len(copy.index) : copy.index[i].ct = w.file.index[i].ct
    BY <1>2, OneFile
  <2>0. PICK x, L : L \in Nat /\ FileIs(w, x, L)
    BY FileShape DEF FormatInv
  <2>2. /\ L \in Nat /\ w.file.index = x
        /\ L = Len(w.chunks) /\ w.chunks \in Seq(Chunks)
        /\ Len(x) = L /\ DOMAIN x = 1..L
        /\ \A n \in 1..L : /\ w.chunks[n] \in Chunks
                           /\ x[n].ct.chunk = w.chunks[n] /\ x[n].ct.key = w.key
    BY <2>0 DEF FileIs
  <2>3. PICK y : y = copy.index
    OBVIOUS
  <2>4. PICK m \in Nat : /\ m = Len(y) /\ DOMAIN y = 1..m /\ m # 0 /\ m <= L
                         /\ \A i \in 1..m : y[i].ct = x[i].ct
    <3>1. y \in Seq(Items) /\ y # <<>>
      BY <1>2, <2>3 DEF FormatInv
    <3>2. PICK m \in Nat : m = Len(y)
      BY <3>1
    <3> QED
      BY <2>1, <2>2, <2>3, <3>1, <3>2
  <2>5. \A i \in 1..m : i \in 1..L
    BY <2>2, <2>4
  <2>6. IsPrefix(Ciphertexts(copy), Ciphertexts(w.file))
    <3>1. PICK C : C = {x[i].ct : i \in 1..L}
      OBVIOUS
    <3>2. PICK a : a = [i \in 1..m |-> y[i].ct]
      OBVIOUS
    <3>3. PICK b : b = [i \in 1..L |-> x[i].ct]
      OBVIOUS
    <3>4. a \in Seq(C) /\ Len(a) = m
      <4>1. \A i \in 1..m : y[i].ct \in C
        BY <2>4, <2>5, <3>1
      <4> QED
        BY <3>2, <4>1
    <3>5. b \in Seq(C) /\ Len(b) = L
      <4>1. \A i \in 1..L : x[i].ct \in C
        BY <3>1
      <4> QED
        BY <2>2, <3>3, <4>1
    <3>6. \A i \in 1..m : a[i] = b[i]
      BY <2>4, <2>5, <3>2, <3>3
    <3>7. IsPrefix(a, b)
      BY <2>4, <3>4, <3>5, <3>6, PrefixOf
    <3>8. Ciphertexts(copy) = a /\ Ciphertexts(w.file) = b
      BY <2>2, <2>3, <2>4, <3>2, <3>3 DEF Ciphertexts
    <3> QED
      BY <3>7, <3>8
  <2>7. ASSUME NEW key, PlaintextOK(key, copy)
        PROVE  w.key = key /\ IsPrefix(Plaintext(copy), w.chunks)
    <3>1. 1 \in 1..m /\ 1 \in 1..L
      BY <2>2, <2>4
    <3>2. y[1].ct.key = key
      BY <2>3, <2>4, <2>7, <3>1 DEF PlaintextOK, DecryptsEntry, DecryptsBlock
    <3>3. x[1].ct.key = w.key
      BY <2>2, <3>1
    <3>4. w.key = key
      BY <2>4, <3>1, <3>2, <3>3
    <3>5. PICK k \in Nat : k <= m /\ k = (IF copy.size < Len(y) THEN copy.size ELSE Len(y))
      BY <2>4 DEF FormatInv
    <3>6. Plaintext(copy) = [n \in 1..k |-> y[n].ct.chunk]
      BY <2>3, <3>5 DEF Plaintext
    <3>7. \A n \in 1..k : y[n].ct.chunk = w.chunks[n] /\ w.chunks[n] \in Chunks
      <4>1. ASSUME NEW n \in 1..k PROVE y[n].ct.chunk = w.chunks[n] /\ w.chunks[n] \in Chunks
        <5>1. n \in 1..m /\ n \in 1..L
          BY <2>2, <2>4, <3>5
        <5>2. x[n].ct.chunk = w.chunks[n]
          BY <2>2, <5>1
        <5> QED
          BY <2>2, <2>4, <5>1, <5>2
      <4> QED
        BY <4>1
    <3>8. PICK a : a = [n \in 1..k |-> y[n].ct.chunk]
      OBVIOUS
    <3>9. a \in Seq(Chunks) /\ Len(a) = k
      BY <3>7, <3>8
    <3>10. \A i \in 1..k : a[i] = w.chunks[i]
      BY <3>7, <3>8
    <3>11. k <= Len(w.chunks)
      BY <2>2, <2>4, <3>5
    <3>12. IsPrefix(a, w.chunks)
      BY <2>2, <3>9, <3>10, <3>11, PrefixOf
    <3> QED
      BY <3>4, <3>6, <3>8, <3>12
  <2> QED
    BY <2>6, <2>7
<1>3. copy.index # <<>> /\ Verified(copy) =>
          \E w \in written : IsPrefix(Ciphertexts(copy), Ciphertexts(w.file))
  BY <1>2 DEF Verified
<1>4. ASSUME NEW key \in Keys, PlaintextOK(key, copy)
      PROVE  \/ copy.index = <<>>
             \/ \E w \in written : w.key = key /\ IsPrefix(Plaintext(copy), w.chunks)
  <2>1. VerifyLineage(copy)
    BY <1>4 DEF PlaintextOK
  <2> QED
    BY <1>2, <1>4, <2>1
<1> QED
  BY <1>1, <1>3, <1>4 DEF ChainTells

-----------------------------------------------------------------------------
LEMMA InitFormatInv == FormatInit => FormatInv
<1> SUFFICES ASSUME FormatInit PROVE FormatInv
  OBVIOUS
<1>1. written = {} /\ damages = 0 /\ copy = [size |-> 0, index |-> <<>>]
  BY DEF FormatInit, NoBlocks
<1>2. <<>> \in Seq(Items)
  OBVIOUS
<1> QED
  BY <1>1, <1>2 DEF FormatInv

LEMMA ItemsOf ==
    ASSUME NEW E, NEW e \in E, Item(e), e.block \in Nat
    PROVE  e \in {[block |-> i, nonce |-> f.nonce, ct |-> f.ct, lineage |-> f.lineage] : i \in Nat, f \in E}
BY DEF Item

LEMMA WriteKeeps ==
    ASSUME VolumeFormatAssumption, FormatInv, NEW key, NEW chunks \in Contents, WriteVolume(key, chunks)
    PROVE  FormatInv'
<1>1. PICK file : file = EncryptToDisk(key, chunks, Cardinality(written))
  OBVIOUS
<1>2. PICK w : w = [key |-> key, chunks |-> chunks, file |-> file]
  OBVIOUS
<1>3. written' = written \cup {w} /\ copy' = file /\ damages' = damages
  BY <1>1, <1>2 DEF WriteVolume
<1>4. Encrypted(w)
  BY <1>1, <1>2, WritesEncrypted
<1>5. \A v \in written' : Encrypted(v)
  BY <1>3, <1>4 DEF FormatInv
<1>6. PICK x, L : L \in Nat /\ FileIs(w, x, L)
  BY <1>4, FileShape
<1>7. file = [size |-> L, index |-> x] /\ w.file.index = x /\ w \in written'
  BY <1>2, <1>3, <1>6 DEF FileIs
<1>8. x \in Seq(Items')
  <2>1. PICK T : x \in Seq(T)
    BY <1>4, <1>7 DEF Encrypted
  <2>2. ASSUME NEW n \in 1..L PROVE x[n] \in Items'
    <3>1. x[n] \in Range(x)
      BY <1>6 DEF FileIs, Range
    <3>2. x[n] \in Entries'
      BY <1>7, <3>1 DEF Entries
    <3>3. Item(x[n]) /\ x[n].block \in Nat
      BY <1>4, <1>6, <1>7 DEF FileIs, Encrypted
    <3>4. x[n] \in {[block |-> i, nonce |-> f.nonce, ct |-> f.ct, lineage |-> f.lineage] : i \in Nat, f \in Entries'}
      BY <3>2, <3>3, ItemsOf
    <3> QED
      BY <3>4 DEF Items
  <2>3. Len(x) = L /\ L \in Nat
    BY <1>6 DEF FileIs
  <2>4. x = [n \in 1..L |-> x[n]]
    BY <2>1, <2>3
  <2>5. PICK T2 : T2 = Items'
    OBVIOUS
  <2>6. [n \in 1..L |-> x[n]] \in Seq(T2)
    BY <2>2, <2>3, <2>5
  <2> QED
    BY <2>4, <2>5, <2>6, Zenon
<1>9. copy' = [size |-> copy'.size, index |-> copy'.index] /\ copy'.size \in Nat /\ copy'.index = x
  BY <1>3, <1>6, <1>7
<1> QED
  BY <1>3, <1>5, <1>8, <1>9 DEF FormatInv

LEMMA DamageKeeps ==
    ASSUME FormatInv, NEW index, NEW size \in Nat, Damage(index, size), index \in Seq(Items)
    PROVE  FormatInv'
<1>1. written' = written /\ copy' = [size |-> size, index |-> index] /\ damages' \in Nat
  BY DEF Damage, FormatInv
<1>2. Items' = Items
  BY <1>1 DEF Items, Entries
<1>3. copy'.size = size /\ copy'.index = index
  BY <1>1
<1>4. \A w \in written' : Encrypted(w)
  BY <1>1 DEF FormatInv
<1> QED
  BY <1>1, <1>2, <1>3, <1>4 DEF FormatInv

\* What a change puts in the place of an entry is again a changed entry.
LEMMA EntriesAreItems == ASSUME FormatInv, NEW e \in Entries PROVE e \in Items
<1>1. PICK w \in written : e \in Range(w.file.index)
  BY DEF Entries
<1>2. Encrypted(w)
  BY DEF FormatInv
<1>3. PICK n \in 1..Len(w.chunks) : e = w.file.index[n]
  <2>1. DOMAIN w.file.index = 1..Len(w.chunks)
    BY <1>2 DEF Encrypted
  <2> QED
    BY <1>1, <2>1 DEF Range
<1>4. Item(e) /\ e.block \in Nat
  BY <1>2, <1>3 DEF Encrypted
<1>5. e \in {[block |-> i, nonce |-> f.nonce, ct |-> f.ct, lineage |-> f.lineage] : i \in Nat, f \in Entries}
  BY <1>4, ItemsOf
<1> QED
  BY <1>5 DEF Items

LEMMA FormatSteps ==
    ASSUME VolumeFormatAssumption, FormatInv, [FormatNext]_formatVars
    PROVE  FormatInv'
<1>1. PICK x : x = copy.index
  OBVIOUS
<1>2. x \in Seq(Items) /\ copy.size \in Nat /\ DOMAIN x = 1..Len(x)
  BY <1>1 DEF FormatInv
<1>3. ASSUME NEW key \in Keys, NEW chunks \in Contents, WriteVolume(key, chunks) PROVE FormatInv'
  BY <1>3, WriteKeeps
<1>4. ASSUME NEW n \in DOMAIN x, LoseEntry(n) PROVE FormatInv'
  <2>1. RemoveAt(x, n) \in Seq(Items)
    <3>1. n \in 1..Len(x) /\ Len(x) \in Nat
      BY <1>2
    <3>2. PICK a : a = SubSeq(x, 1, n - 1)
      OBVIOUS
    <3>3. PICK b : b = SubSeq(x, n + 1, Len(x))
      OBVIOUS
    <3>4. a \in Seq(Items)
      BY <1>2, <3>1, <3>2
    <3>5. b \in Seq(Items)
      BY <1>2, <3>1, <3>3
    <3>6. a \o b \in Seq(Items)
      BY <3>4, <3>5, ConcatProperties
    <3> QED
      BY <3>2, <3>3, <3>6 DEF RemoveAt
  <2> QED
    BY <1>1, <1>2, <1>4, <2>1, DamageKeeps DEF LoseEntry
<1>5. ASSUME NEW n \in DOMAIN x, NEW m \in DOMAIN x, SwapEntries(m, n) PROVE FormatInv'
  <2>1. x[m] \in Items /\ x[n] \in Items
    BY <1>2
  <2>2. [x EXCEPT ![m] = x[n], ![n] = x[m]] \in Seq(Items)
    BY <1>2, <2>1
  <2> QED
    BY <1>1, <1>2, <1>5, <2>2, DamageKeeps DEF SwapEntries
<1>6. ASSUME NEW n \in DOMAIN x, NEW e \in Entries, PutEntry(n, e) PROVE FormatInv'
  <2>1. [x EXCEPT ![n] = e] \in Seq(Items)
    BY <1>2, EntriesAreItems
  <2> QED
    BY <1>1, <1>2, <1>6, <2>1, DamageKeeps DEF PutEntry
<1>7. ASSUME NEW n \in DOMAIN x, NEW i \in 0..2, SetBlock(n, i) PROVE FormatInv'
  <2>1. x[n] \in Items
    BY <1>2
  <2>2. PICK j \in Nat, e \in Entries :
            x[n] = [block |-> j, nonce |-> e.nonce, ct |-> e.ct, lineage |-> e.lineage]
    BY <2>1 DEF Items
  <2>3. PICK y : y = [x[n] EXCEPT !.block = i]
    OBVIOUS
  <2>4. y = [block |-> i, nonce |-> e.nonce, ct |-> e.ct, lineage |-> e.lineage]
    BY <2>2, <2>3
  <2>5. y \in Items
    BY <2>4 DEF Items
  <2>6. [x EXCEPT ![n] = y] \in Seq(Items)
    BY <1>2, <2>5
  <2>7. [x EXCEPT ![n].block = i] = [x EXCEPT ![n] = y]
    BY <2>3
  <2> QED
    BY <1>1, <1>2, <1>7, <2>6, <2>7, DamageKeeps DEF SetBlock
<1>8. ASSUME NEW e \in Entries, AddEntry(e) PROVE FormatInv'
  <2>1. Append(x, e) \in Seq(Items)
    BY <1>2, EntriesAreItems, AppendProperties
  <2> QED
    BY <1>1, <1>2, <1>8, <2>1, DamageKeeps DEF AddEntry
<1>9. ASSUME NEW size \in 0..2, SetSize(size) PROVE FormatInv'
  BY <1>1, <1>2, <1>9, DamageKeeps DEF SetSize
<1>10. CASE UNCHANGED formatVars
  <2>1. written' = written /\ copy' = copy /\ damages' = damages
    BY <1>10 DEF formatVars
  <2>2. Items' = Items
    BY <2>1 DEF Items, Entries
  <2> QED
    BY <2>1, <2>2 DEF FormatInv
<1> QED
  BY <1>1, <1>3, <1>4, <1>5, <1>6, <1>7, <1>8, <1>9, <1>10 DEF FormatNext

\* Whatever became of the entries, a chain that verifies is the beginning of one
\* file, and what decrypts under a key was written under it
\* (OnDiskFile::verify_lineage and plaintext, encrypt_to_disk).
THEOREM ChainsTell ==
    ASSUME VolumeFormatAssumption PROVE FormatSpec => []ChainTells
<1>1. FormatInit => FormatInv
  BY InitFormatInv
<1>2. FormatInv /\ [FormatNext]_formatVars => FormatInv'
  BY FormatSteps
<1>3. FormatInv => ChainTells
  BY InvTells
<1> QED
  BY <1>1, <1>2, <1>3, PTL DEF FormatSpec

-----------------------------------------------------------------------------
(* FuseFs, for any names, files and limits. *)

IsSizes(f, entries, L) == f = [n \in 0..L |-> IF n = 0 THEN 0 ELSE f[n - 1] + entries[n].length]

LEMMA SizesExist == ASSUME NEW entries, NEW L \in Nat PROVE \E f : IsSizes(f, entries, L)
<1> DEFINE Has(m) == \E f : IsSizes(f, entries, m)
           Lacking == {m \in Nat : ~Has(m)}
<1>1. Has(0)
  <2>1. PICK f : f = [n \in 0..0 |-> 0]
    OBVIOUS
  <2>2. f = [n \in 0..0 |-> IF n = 0 THEN 0 ELSE f[n - 1] + entries[n].length]
    BY <2>1
  <2> QED
    BY <2>2 DEF IsSizes
<1>2. ASSUME NEW m \in Nat, Has(m) PROVE Has(m + 1)
  <2>1. PICK f : f = [n \in 0..m |-> IF n = 0 THEN 0 ELSE f[n - 1] + entries[n].length]
    BY <1>2 DEF IsSizes
  <2>2. PICK g : g = [n \in 0..m + 1 |-> IF n = m + 1 THEN f[m] + entries[n].length ELSE f[n]]
    OBVIOUS
  <2>3. ASSUME NEW n \in 0..m + 1
        PROVE  g[n] = IF n = 0 THEN 0 ELSE g[n - 1] + entries[n].length
    <3>1. CASE n = 0
      BY <2>1, <2>2, <3>1
    <3>2. CASE n = m + 1
      <4>1. m \in 0..m + 1 /\ m # m + 1 /\ n - 1 = m /\ n # 0
        BY <3>2
      <4>2. g[m] = f[m] /\ g[n] = f[m] + entries[n].length
        BY <2>2, <3>2, <4>1
      <4> QED
        BY <4>1, <4>2
    <3>3. CASE n # 0 /\ n # m + 1
      <4>1. n \in 0..m /\ n - 1 \in 0..m + 1 /\ n - 1 # m + 1
        BY <3>3
      <4>2. g[n] = f[n] /\ g[n - 1] = f[n - 1]
        BY <2>2, <3>3, <4>1
      <4> QED
        BY <2>1, <3>3, <4>1, <4>2
    <3> QED
      BY <3>1, <3>2, <3>3
  <2>4. g = [n \in 0..m + 1 |-> g[n]]
    BY <2>2
  <2>5. g = [n \in 0..m + 1 |-> IF n = 0 THEN 0 ELSE g[n - 1] + entries[n].length]
    BY <2>3, <2>4
  <2> QED
    BY <2>5 DEF IsSizes
<1>3. Lacking = {}
  <2> SUFFICES ASSUME Lacking # {} PROVE FALSE
    OBVIOUS
  <2> HIDE DEF Has
  <2>1. \E x \in Lacking : \A y \in Lacking : x <= y
    BY LeastNumber
  <2>2. PICK x \in Nat : ~Has(x) /\ \A y \in Nat : ~Has(y) => x <= y
    BY <2>1
  <2>3. x # 0
    BY <1>1, <2>2
  <2>4. x - 1 \in Nat /\ ~(x <= x - 1) /\ (x - 1) + 1 = x
    BY <2>3
  <2>5. Has(x - 1)
    BY <2>2, <2>4
  <2>6. Has((x - 1) + 1)
    BY <1>2, <2>4, <2>5
  <2> QED
    BY <2>2, <2>4, <2>6
<1> QED
  BY <1>3

\* The lengths of the entries are numbers.
Measured(entries) == \A n \in 1..Len(entries) : entries[n].length \in Nat

LEMMA SizesAdd ==
    ASSUME NEW entries, NEW L \in Nat, L = Len(entries), Measured(entries)
    PROVE  /\ Sizes(entries)[0] = 0
           /\ \A n \in 1..L : Sizes(entries)[n] = Sizes(entries)[n - 1] + entries[n].length
           /\ \A n \in 0..L : Sizes(entries)[n] \in Nat
<1> DEFINE f == CHOOSE g : IsSizes(g, entries, L)
<1>1. IsSizes(f, entries, L)
  BY SizesExist
<1>2. Sizes(entries) = CHOOSE g : g = [n \in 0..L |-> IF n = 0 THEN 0 ELSE g[n - 1] + entries[n].length]
  BY DEF Sizes
<1>3. Sizes(entries) = f
  BY <1>2 DEF IsSizes
<1>4. PICK h : h = f
  OBVIOUS
<1> HIDE DEF f
<1>5. h = [n \in 0..L |-> IF n = 0 THEN 0 ELSE h[n - 1] + entries[n].length]
  BY <1>1, <1>4 DEF IsSizes
<1>6. h[0] = 0 /\ \A n \in 1..L : h[n] = h[n - 1] + entries[n].length
  <2>1. 0 \in 0..L
    OBVIOUS
  <2>2. ASSUME NEW n \in 1..L PROVE h[n] = h[n - 1] + entries[n].length
    <3>1. n \in 0..L /\ n # 0
      OBVIOUS
    <3> QED
      BY <1>5, <3>1
  <2> QED
    BY <1>5, <2>1, <2>2
<1> DEFINE Wrong == {n \in 0..L : h[n] \notin Nat}
<1>7. Wrong = {}
  <2> SUFFICES ASSUME Wrong # {} PROVE FALSE
    OBVIOUS
  <2>1. Wrong \subseteq Nat
    OBVIOUS
  <2>2. PICK n \in Wrong : \A m \in Wrong : n <= m
    BY <2>1, LeastNumber
  <2>3. n \in 1..L
    BY <1>6, <2>2
  <2>4. n - 1 \in 0..L /\ ~(n <= n - 1)
    BY <2>3
  <2>5. h[n - 1] \in Nat /\ entries[n].length \in Nat
    BY <2>2, <2>3, <2>4 DEF Measured
  <2>6. h[n] \notin Nat
    BY <2>2
  <2> QED
    BY <1>6, <2>3, <2>5, <2>6
<1> QED
  BY <1>3, <1>4, <1>6, <1>7

\* t, of length M, lists in their order entries that s has after its k-th; r says
\* how far t has come with the n-th of s, d how much was left out at least.
Lists(s, t, k, L, M, r, d) ==
    /\ r[k] = 0 /\ d[k] = 0
    /\ \A n \in k + 1..L :
           /\ r[n] \in 0..M /\ d[n] \in Nat
           /\ \/ r[n] = r[n - 1] + 1 /\ d[n] = d[n - 1] /\ t[r[n]].length = s[n].length
              \/ r[n] = r[n - 1] /\ d[n] <= d[n - 1] + s[n].length

LEMMA SizesCompare ==
    ASSUME NEW s, NEW t, NEW L \in Nat, L = Len(s), NEW M \in Nat, M = Len(t),
           Measured(s), Measured(t), NEW k \in 0..L, NEW r, NEW d,
           Lists(s, t, k, L, M, r, d)
    PROVE  \A n \in k..L : Sizes(t)[r[n]] + d[n] + Sizes(s)[k] <= Sizes(s)[n]
<1>1. PICK f : f = Sizes(s)
  OBVIOUS
<1>2. PICK g : g = Sizes(t)
  OBVIOUS
<1>3. /\ f[0] = 0 /\ \A n \in 1..L : f[n] = f[n - 1] + s[n].length
      /\ \A n \in 0..L : f[n] \in Nat
  BY <1>1, SizesAdd
<1>4. /\ g[0] = 0 /\ \A n \in 1..M : g[n] = g[n - 1] + t[n].length
      /\ \A n \in 0..M : g[n] \in Nat
  BY <1>2, SizesAdd
<1> DEFINE Right(n) == g[r[n]] + d[n] + f[k] <= f[n]
           Wrong == {n \in k..L : ~Right(n)}
<1>0. /\ r[k] = 0 /\ d[k] = 0
      /\ \A n \in k + 1..L :
             /\ r[n] \in 0..M /\ d[n] \in Nat
             /\ \/ r[n] = r[n - 1] + 1 /\ d[n] = d[n - 1] /\ t[r[n]].length = s[n].length
                \/ r[n] = r[n - 1] /\ d[n] <= d[n - 1] + s[n].length
  BY DEF Lists
<1>5. Right(k)
  BY <1>0, <1>3, <1>4
<1>6. \A n \in k..L : r[n] \in 0..M /\ d[n] \in Nat
  <2> SUFFICES ASSUME NEW n \in k..L PROVE r[n] \in 0..M /\ d[n] \in Nat
    OBVIOUS
  <2>1. n = k \/ n \in k + 1..L
    OBVIOUS
  <2> QED
    BY <1>0, <2>1
<1>7. ASSUME NEW n \in k + 1..L, Right(n - 1) PROVE Right(n)
  <2>1. n \in 1..L /\ n - 1 \in k..L /\ n - 1 \in 0..L /\ n \in 0..L /\ n \in k..L
    OBVIOUS
  <2>2. PICK a \in Nat : a = s[n].length
    BY <2>1 DEF Measured
  <2>3. f[n] = f[n - 1] + a /\ f[n - 1] \in Nat /\ f[k] \in Nat
    BY <1>3, <2>1, <2>2
  <2>4. r[n - 1] \in 0..M /\ d[n - 1] \in Nat /\ r[n] \in 0..M /\ d[n] \in Nat
    BY <1>6, <2>1
  <2>5. g[r[n - 1]] \in Nat /\ g[r[n]] \in Nat
    BY <1>4, <2>4
  <2>6. g[r[n - 1]] + d[n - 1] + f[k] <= f[n - 1]
    BY <1>7
  <2>9. PICK x \in Nat, p \in Nat, q \in Nat, c \in Nat :
            x = g[r[n - 1]] /\ p = d[n - 1] /\ q = f[n - 1] /\ c = f[k]
    BY <2>3, <2>4, <2>5
  <2>10. x + p + c <= q /\ f[n] = q + a
    BY <2>3, <2>6, <2>9
  <2>7. CASE r[n] = r[n - 1] + 1 /\ d[n] = d[n - 1] /\ t[r[n]].length = s[n].length
    <3>1. r[n] \in 1..M /\ r[n] - 1 = r[n - 1]
      BY <2>4, <2>7
    <3>2. g[r[n]] = g[r[n] - 1] + t[r[n]].length
      BY <1>4, <3>1
    <3>3. g[r[n]] = x + a /\ d[n] = p
      BY <2>2, <2>7, <2>9, <3>1, <3>2
    <3>4. x + a + p + c <= q + a
      BY <2>10
    <3> QED
      BY <2>9, <2>10, <3>3, <3>4
  <2>8. CASE r[n] = r[n - 1] /\ d[n] <= d[n - 1] + s[n].length
    <3>1. PICK e \in Nat : e = d[n]
      BY <2>4
    <3>2. e <= p + a /\ g[r[n]] = x
      BY <2>2, <2>8, <2>9, <3>1
    <3>3. x + e + c <= q + a
      BY <2>10, <3>2
    <3> QED
      BY <2>9, <2>10, <3>1, <3>2, <3>3
  <2> QED
    BY <1>0, <2>7, <2>8
<1> HIDE DEF Right
<1>8. Wrong = {}
  <2> SUFFICES ASSUME Wrong # {} PROVE FALSE
    OBVIOUS
  <2>1. Wrong \subseteq Nat
    OBVIOUS
  <2>2. PICK n \in Wrong : \A m \in Wrong : n <= m
    BY <2>1, LeastNumber
  <2>3. n \in k..L /\ n # k /\ ~Right(n)
    BY <1>5, <2>2
  <2>4. n \in k + 1..L /\ n - 1 \in k..L /\ ~(n <= n - 1)
    BY <2>3
  <2>5. Right(n - 1)
    BY <2>2, <2>4
  <2> QED
    BY <1>7, <2>3, <2>4, <2>5
<1> QED
  BY <1>1, <1>2, <1>8 DEF Right

TotalOf(entries) == Sizes(entries)[Len(entries)]

LEMMA Appended ==
    ASSUME NEW S, NEW s \in Seq(S), Measured(s), NEW e, e.length \in Nat
    PROVE  /\ Measured(Append(s, e)) /\ Len(Append(s, e)) = Len(s) + 1
           /\ TotalOf(s) \in Nat /\ TotalOf(Append(s, e)) \in Nat
           /\ TotalOf(Append(s, e)) <= TotalOf(s) + e.length
<1>1. PICK L \in Nat : L = Len(s)
  OBVIOUS
<1>2. PICK t : t = Append(s, e)
  OBVIOUS
<1>3. /\ Len(t) = L + 1 /\ t[L + 1] = e
      /\ \A n \in 1..L : t[n] = s[n]
  <2>1. s \in Seq(S \cup {e})
    OBVIOUS
  <2> QED
    BY <1>1, <1>2, <2>1, AppendProperties
<1>4. Measured(t)
  <2> SUFFICES ASSUME NEW n \in 1..L + 1 PROVE t[n].length \in Nat
    BY <1>3 DEF Measured
  <2>1. n = L + 1 \/ n \in 1..L
    OBVIOUS
  <2> QED
    BY <1>1, <1>3, <2>1 DEF Measured
<1>5. PICK M \in Nat : M = L + 1
  OBVIOUS
<1>6. /\ Sizes(t)[0] = 0 /\ \A n \in 1..M : Sizes(t)[n] = Sizes(t)[n - 1] + t[n].length
      /\ \A n \in 0..M : Sizes(t)[n] \in Nat
  BY <1>3, <1>4, <1>5, SizesAdd
<1>7. Sizes(s)[0] = 0 /\ \A n \in 0..L : Sizes(s)[n] \in Nat
  BY <1>1, SizesAdd
<1>8. Sizes(t)[L] <= Sizes(s)[L]
  <2>1. PICK r : r = [n \in 0..L |-> n]
    OBVIOUS
  <2>2. PICK d : d = [n \in 0..L |-> 0]
    OBVIOUS
  <2>3. r[0] = 0 /\ d[0] = 0 /\ 0 \in 0..L
    BY <2>1, <2>2
  <2>4. ASSUME NEW n \in 0 + 1..L
        PROVE  /\ r[n] \in 0..M /\ d[n] \in Nat
               /\ r[n] = r[n - 1] + 1 /\ d[n] = d[n - 1] /\ t[r[n]].length = s[n].length
    <3>1. n \in 0..L /\ n - 1 \in 0..L /\ n \in 1..L /\ n \in 0..M
      BY <1>5
    <3> QED
      BY <1>3, <2>1, <2>2, <3>1
  <2>8. Lists(s, t, 0, L, M, r, d)
    BY <2>3, <2>4 DEF Lists
  <2>9. Len(t) = M
    BY <1>3, <1>5
  <2>5. \A n \in 0..L : Sizes(t)[r[n]] + d[n] + Sizes(s)[0] <= Sizes(s)[n]
    BY <1>1, <1>4, <2>3, <2>8, <2>9, SizesCompare
  <2>6. r[L] = L /\ d[L] = 0 /\ L \in 0..L /\ L \in 0..M
    BY <1>5, <2>1, <2>2
  <2>7. Sizes(t)[L] + 0 + 0 <= Sizes(s)[L]
    BY <1>7, <2>5, <2>6
  <2> QED
    BY <1>6, <1>7, <2>6, <2>7
<1>9. Sizes(t)[M] = Sizes(t)[L] + e.length /\ Sizes(t)[L] \in Nat /\ Sizes(s)[L] \in Nat
  <2>1. M \in 1..M /\ M - 1 = L /\ L \in 0..M /\ L \in 0..L
    BY <1>5
  <2> QED
    BY <1>3, <1>5, <1>6, <1>7, <2>1
<1>10. TotalOf(s) = Sizes(s)[L] /\ TotalOf(t) = Sizes(t)[M]
  BY <1>1, <1>3, <1>5 DEF TotalOf
<1> QED
  BY <1>1, <1>2, <1>3, <1>4, <1>8, <1>9, <1>10

LEMMA Suffix ==
    ASSUME NEW S, NEW s \in Seq(S), Measured(s), NEW k \in 0..Len(s)
    PROVE  /\ SubSeq(s, k + 1, Len(s)) \in Seq(S) /\ Measured(SubSeq(s, k + 1, Len(s)))
           /\ TotalOf(SubSeq(s, k + 1, Len(s))) \in Nat
           /\ Sizes(s)[k] \in Nat /\ TotalOf(s) \in Nat
           /\ TotalOf(SubSeq(s, k + 1, Len(s))) + Sizes(s)[k] <= TotalOf(s)
<1>1. PICK L \in Nat : L = Len(s)
  OBVIOUS
<1>2. PICK t : t = SubSeq(s, k + 1, L)
  OBVIOUS
<1>3. PICK M \in Nat : M = L - k
  <2>1. L - k \in Nat
    BY <1>1
  <2> QED
    BY <2>1
<1>4. t \in Seq(S) /\ Len(t) = M /\ \A n \in 1..M : t[n] = s[k + n]
  <2>1. \A i \in k + 1..L : s[i] \in S
    BY <1>1
  <2>2. k \in Nat /\ k <= L
    BY <1>1
  <2> QED
    BY <1>1, <1>2, <1>3, <2>1, <2>2, SubSeqProperties
<1>5. Measured(t)
  <2> SUFFICES ASSUME NEW n \in 1..M PROVE t[n].length \in Nat
    BY <1>4 DEF Measured
  <2>1. k + n \in 1..L
    BY <1>1, <1>3
  <2> QED
    BY <1>1, <1>4, <2>1 DEF Measured
<1>6. \A n \in 0..M : Sizes(t)[n] \in Nat
  BY <1>4, <1>5, SizesAdd
<1>7. \A n \in 0..L : Sizes(s)[n] \in Nat
  BY <1>1, SizesAdd
<1>8. PICK r : r = [n \in k..L |-> n - k]
  OBVIOUS
<1>9. PICK d : d = [n \in k..L |-> 0]
  OBVIOUS
<1>10. r[k] = 0 /\ d[k] = 0 /\ k \in 0..L
  BY <1>1, <1>8, <1>9
<1>11. ASSUME NEW n \in k + 1..L
       PROVE  /\ r[n] \in 0..M /\ d[n] \in Nat
              /\ r[n] = r[n - 1] + 1 /\ d[n] = d[n - 1] /\ t[r[n]].length = s[n].length
  <2>1. n \in k..L /\ n - 1 \in k..L /\ n - k \in 1..M /\ k + (n - k) = n /\ (n - 1) - k + 1 = n - k
    BY <1>1, <1>3
  <2>2. r[n] = n - k /\ r[n - 1] = (n - 1) - k /\ d[n] = 0 /\ d[n - 1] = 0
    BY <1>8, <1>9, <2>1
  <2>3. t[n - k] = s[n]
    BY <1>4, <2>1
  <2> QED
    BY <2>1, <2>2, <2>3
<1>12. \A n \in k..L : Sizes(t)[r[n]] + d[n] + Sizes(s)[k] <= Sizes(s)[n]
  <2>1. Lists(s, t, k, L, M, r, d)
    BY <1>10, <1>11 DEF Lists
  <2> QED
    BY <1>1, <1>4, <1>5, <1>10, <2>1, SizesCompare
<1>13. r[L] = M /\ d[L] = 0 /\ L \in k..L /\ L \in 0..L /\ M \in 0..M
  BY <1>1, <1>3, <1>8, <1>9
<1>14. Sizes(t)[M] + 0 + Sizes(s)[k] <= Sizes(s)[L]
  BY <1>12, <1>13
<1>15. Sizes(t)[M] \in Nat /\ Sizes(s)[k] \in Nat /\ Sizes(s)[L] \in Nat
  BY <1>6, <1>7, <1>10, <1>13
<1>16. TotalOf(s) = Sizes(s)[L] /\ TotalOf(t) = Sizes(t)[M]
  BY <1>1, <1>4 DEF TotalOf
<1> QED
  BY <1>1, <1>2, <1>4, <1>5, <1>14, <1>15, <1>16

RanksGrow(Stays, L) ==
    /\ Rank(Stays, 0) = 0 /\ Rank(Stays, L) = Cardinality(Stays)
    /\ \A n \in 0..L : Rank(Stays, n) \in Nat
    /\ \A n \in 1..L : n \in Stays => Rank(Stays, n) = Rank(Stays, n - 1) + 1
    /\ \A n \in 1..L : n \notin Stays => Rank(Stays, n) = Rank(Stays, n - 1)

LEMMA RankSteps ==
    ASSUME NEW L \in Nat, NEW Stays, Stays \subseteq 1..L
    PROVE  RanksGrow(Stays, L)
<1>1. IsFiniteSet(Stays)
  <2>1. IsFiniteSet(1..L)
    BY FS_Interval
  <2> QED
    BY <2>1, FS_Subset
<1>2. {j \in Stays : j <= 0} = {} /\ {j \in Stays : j <= L} = Stays
  <2>1. \A j \in Stays : j \in Nat /\ ~(j <= 0) /\ j <= L
    OBVIOUS
  <2> QED
    BY <2>1
<1>3. \A n \in 0..L : IsFiniteSet({j \in Stays : j <= n}) /\ Rank(Stays, n) \in Nat
  <2> SUFFICES ASSUME NEW n \in 0..L
               PROVE  IsFiniteSet({j \in Stays : j <= n}) /\ Rank(Stays, n) \in Nat
    OBVIOUS
  <2>1. {j \in Stays : j <= n} \in SUBSET Stays
    OBVIOUS
  <2>2. IsFiniteSet({j \in Stays : j <= n})
    BY <1>1, <2>1, FS_Subset
  <2> QED
    BY <2>2, FS_CardinalityType DEF Rank
<1>4. ASSUME NEW n \in 1..L, n \in Stays PROVE Rank(Stays, n) = Rank(Stays, n - 1) + 1
  <2>1. PICK T : T = {j \in Stays : j <= n - 1}
    OBVIOUS
  <2>2. {j \in Stays : j <= n} = T \cup {n} /\ n \notin T
    <3>1. \A j \in Stays : j \in Int /\ (j <= n <=> j <= n - 1 \/ j = n)
      OBVIOUS
    <3>2. n \in Int /\ ~(n <= n - 1)
      OBVIOUS
    <3> QED
      BY <1>4, <2>1, <3>1, <3>2
  <2>3. n - 1 \in 0..L
    OBVIOUS
  <2>4. IsFiniteSet(T)
    BY <1>3, <2>1, <2>3
  <2>5. Cardinality(T \cup {n}) = Cardinality(T) + 1
    BY <2>2, <2>4, FS_AddElement
  <2> QED
    BY <2>1, <2>2, <2>5 DEF Rank
<1>5. ASSUME NEW n \in 1..L, n \notin Stays PROVE Rank(Stays, n) = Rank(Stays, n - 1)
  <2>1. \A j \in Stays : j <= n <=> j <= n - 1
    <3> SUFFICES ASSUME NEW j \in Stays PROVE j <= n <=> j <= n - 1
      OBVIOUS
    <3>1. j \in Int /\ j # n /\ n \in Int
      BY <1>5
    <3> QED
      BY <3>1
  <2>2. {j \in Stays : j <= n} = {j \in Stays : j <= n - 1}
    BY <2>1
  <2> QED
    BY <2>2 DEF Rank
<1>6. Rank(Stays, 0) = 0 /\ Rank(Stays, L) = Cardinality(Stays)
  BY <1>2, FS_EmptySet DEF Rank
<1> QED
  BY <1>3, <1>4, <1>5, <1>6 DEF RanksGrow

LEMMA IntervalSize == ASSUME NEW L \in Nat PROVE IsFiniteSet(1..L) /\ Cardinality(1..L) = L
<1>1. 1 \in Int /\ L \in Int
  OBVIOUS
<1>2. IsFiniteSet(1..L) /\ Cardinality(1..L) = IF 1 > L THEN 0 ELSE L - 1 + 1
  BY <1>1, FS_Interval
<1> QED
  BY <1>2

\* d[n] is part of what the first n of s hold besides those that stay.
Drops(s, Stays, L, d) ==
    /\ d[0] = 0
    /\ \A n \in 1..L : /\ d[n] \in Nat
                       /\ n \in Stays => d[n] = d[n - 1]
                       /\ n \notin Stays => d[n] <= d[n - 1] + s[n].length

LEMMA KeptBeside ==
    ASSUME NEW S, NEW s \in Seq(S), Measured(s), NEW L \in Nat, L = Len(s),
           NEW Stays, Stays \subseteq 1..L, NEW d, Drops(s, Stays, L, d)
    PROVE  /\ Retain(s, Stays) \in Seq(S) /\ Measured(Retain(s, Stays))
           /\ Len(Retain(s, Stays)) \in 0..L
           /\ TotalOf(Retain(s, Stays)) \in Nat /\ TotalOf(s) \in Nat
           /\ TotalOf(Retain(s, Stays)) + d[L] <= TotalOf(s)
<1>1. PICK t : t = Retain(s, Stays)
  OBVIOUS
<1>2. PICK M \in Nat : M = Cardinality(Stays)
  BY Retained
<1>3. /\ t \in Seq(S) /\ Len(t) = M
      /\ \A i \in Stays : Rank(Stays, i) \in 1..M /\ t[Rank(Stays, i)] = s[i]
      /\ \A k \in 1..M : \E i \in Stays : Rank(Stays, i) = k
  <2>1. Stays \subseteq DOMAIN s
    OBVIOUS
  <2>2. /\ Retain(s, Stays) \in Seq(S) /\ Len(Retain(s, Stays)) = Cardinality(Stays)
        /\ \A i \in Stays : /\ Rank(Stays, i) \in 1..Cardinality(Stays)
                            /\ Retain(s, Stays)[Rank(Stays, i)] = s[i]
        /\ \A k \in 1..Cardinality(Stays) : \E i \in Stays : Rank(Stays, i) = k
    BY <2>1, RetainedShape
  <2> QED
    BY <1>1, <1>2, <2>2
<1>4. Measured(t)
  <2> SUFFICES ASSUME NEW k \in 1..M PROVE t[k].length \in Nat
    BY <1>3 DEF Measured
  <2>1. PICK i \in Stays : Rank(Stays, i) = k
    BY <1>3
  <2>2. t[k] = s[i] /\ i \in 1..L
    BY <1>3, <2>1
  <2> QED
    BY <2>2 DEF Measured
<1>5. /\ Rank(Stays, 0) = 0 /\ Rank(Stays, L) = M
      /\ \A n \in 0..L : Rank(Stays, n) \in Nat
      /\ \A n \in 1..L : n \in Stays => Rank(Stays, n) = Rank(Stays, n - 1) + 1
      /\ \A n \in 1..L : n \notin Stays => Rank(Stays, n) = Rank(Stays, n - 1)
  <2>1. RanksGrow(Stays, L)
    BY RankSteps
  <2> QED
    BY <1>2, <2>1 DEF RanksGrow
<1>6. PICK r : r = [n \in 0..L |-> Rank(Stays, n)]
  OBVIOUS
<1>7. \A n \in 0..L : r[n] \in Nat /\ r[n] = Rank(Stays, n)
  BY <1>5, <1>6
<1>8. \A n \in 0..L : r[n] <= M
  <2> SUFFICES ASSUME NEW n \in 0..L PROVE Rank(Stays, n) <= M
    BY <1>7
  <2>1. {j \in Stays : j <= n} \in SUBSET Stays
    OBVIOUS
  <2>2. IsFiniteSet(1..L)
    BY FS_Interval
  <2>3. IsFiniteSet(Stays)
    BY <2>2, FS_Subset
  <2> QED
    BY <1>2, <2>1, <2>3, FS_Subset DEF Rank
<1>9. Lists(s, t, 0, L, M, r, d)
  <2>1. r[0] = 0 /\ d[0] = 0
    BY <1>5, <1>7 DEF Drops
  <2>2. ASSUME NEW n \in 0 + 1..L
        PROVE  /\ r[n] \in 0..M /\ d[n] \in Nat
               /\ \/ r[n] = r[n - 1] + 1 /\ d[n] = d[n - 1] /\ t[r[n]].length = s[n].length
                  \/ r[n] = r[n - 1] /\ d[n] <= d[n - 1] + s[n].length
    <3>1. n \in 1..L /\ n \in 0..L /\ n - 1 \in 0..L
      OBVIOUS
    <3>2. r[n] \in 0..M /\ d[n] \in Nat
      BY <1>2, <1>7, <1>8, <3>1 DEF Drops
    <3>3. CASE n \in Stays
      <4>1. r[n] = r[n - 1] + 1
        BY <1>5, <1>7, <3>1, <3>3
      <4>2. d[n] = d[n - 1]
        BY <3>1, <3>3 DEF Drops
      <4>3. t[r[n]] = s[n]
        BY <1>3, <1>7, <3>1, <3>3
      <4> QED
        BY <3>2, <4>1, <4>2, <4>3
    <3>4. CASE n \notin Stays
      <4>1. r[n] = r[n - 1]
        BY <1>5, <1>7, <3>1, <3>4
      <4>2. d[n] <= d[n - 1] + s[n].length
        BY <3>1, <3>4 DEF Drops
      <4> QED
        BY <3>2, <4>1, <4>2
    <3> QED
      BY <3>3, <3>4
  <2> QED
    BY <2>1, <2>2 DEF Lists
<1>10. \A n \in 0..L : Sizes(t)[r[n]] + d[n] + Sizes(s)[0] <= Sizes(s)[n]
  <2>1. 0 \in 0..L /\ M = Len(t)
    BY <1>3
  <2> QED
    BY <1>4, <1>9, <2>1, SizesCompare
<1>11. /\ Sizes(s)[0] = 0 /\ \A n \in 0..L : Sizes(s)[n] \in Nat
  BY SizesAdd
<1>12. \A n \in 0..M : Sizes(t)[n] \in Nat
  BY <1>3, <1>4, SizesAdd
<1>13. r[L] = M /\ L \in 0..L /\ M \in 0..M /\ M <= L
  <2>1. M <= L
    <3>1. IsFiniteSet(1..L) /\ Cardinality(1..L) = L
      BY IntervalSize
    <3> QED
      BY <1>2, <3>1, FS_Subset
  <2> QED
    BY <1>2, <1>5, <1>7, <2>1
<1>14. TotalOf(t) = Sizes(t)[M] /\ TotalOf(s) = Sizes(s)[L]
  BY <1>3 DEF TotalOf
<1>15. d[L] \in Nat
  <2>1. L = 0 \/ L \in 1..L
    OBVIOUS
  <2> QED
    BY <2>1 DEF Drops
<1>16. TotalOf(t) + d[L] + 0 <= TotalOf(s) /\ TotalOf(t) \in Nat /\ TotalOf(s) \in Nat
  BY <1>10, <1>11, <1>12, <1>13, <1>14
<1> QED
  BY <1>1, <1>3, <1>4, <1>13, <1>15, <1>16

\* What is kept holds no more, and less by the length of each one dropped.
LEMMA Kept ==
    ASSUME NEW S, NEW s \in Seq(S), Measured(s), NEW L \in Nat, L = Len(s),
           NEW Stays, Stays \subseteq 1..L
    PROVE  /\ Retain(s, Stays) \in Seq(S) /\ Measured(Retain(s, Stays))
           /\ Len(Retain(s, Stays)) \in 0..L
           /\ TotalOf(Retain(s, Stays)) \in Nat /\ TotalOf(s) \in Nat
           /\ TotalOf(Retain(s, Stays)) <= TotalOf(s)
           /\ \A j \in 1..L : j \notin Stays =>
                  /\ TotalOf(Retain(s, Stays)) + s[j].length <= TotalOf(s)
                  /\ Len(Retain(s, Stays)) # L
<1>1. PICK d : d = [n \in 0..L |-> 0]
  OBVIOUS
<1>2. \A n \in 1..L : s[n].length \in Nat
  BY DEF Measured
<1>3. Drops(s, Stays, L, d)
  <2>1. ASSUME NEW n \in 1..L PROVE d[n] = 0 /\ d[n - 1] = 0 /\ 0 <= 0 + s[n].length
    <3>1. n \in 0..L /\ n - 1 \in 0..L
      OBVIOUS
    <3> QED
      BY <1>1, <1>2, <3>1
  <2>2. d[0] = 0
    BY <1>1
  <2> QED
    BY <2>1, <2>2 DEF Drops
<1>4. d[L] = 0
  BY <1>1
<1>5. /\ Retain(s, Stays) \in Seq(S) /\ Measured(Retain(s, Stays))
      /\ Len(Retain(s, Stays)) \in 0..L
      /\ TotalOf(Retain(s, Stays)) \in Nat /\ TotalOf(s) \in Nat
      /\ TotalOf(Retain(s, Stays)) + d[L] <= TotalOf(s)
  BY <1>3, KeptBeside
<1>6. ASSUME NEW j \in 1..L, j \notin Stays
      PROVE  /\ TotalOf(Retain(s, Stays)) + s[j].length <= TotalOf(s)
             /\ Len(Retain(s, Stays)) # L
  <2>6. Len(Retain(s, Stays)) # L
    <3>1. IsFiniteSet(1..L) /\ Cardinality(1..L) = L
      BY IntervalSize
    <3>2. Len(Retain(s, Stays)) = Cardinality(Stays)
      <4>1. Stays \subseteq DOMAIN s
        OBVIOUS
      <4> QED
        BY <4>1, RetainedShape
    <3>3. Stays # 1..L /\ Stays \in SUBSET (1..L)
      BY <1>6
    <3> QED
      BY <3>1, <3>2, <3>3, FS_Subset
  <2>1. PICK a \in Nat : a = s[j].length
    BY <1>2
  <2>2. PICK e : e = [n \in 0..L |-> IF j <= n THEN a ELSE 0]
    OBVIOUS
  <2>3. Drops(s, Stays, L, e)
    <3>1. e[0] = 0
      BY <2>2
    <3>2. ASSUME NEW n \in 1..L
          PROVE  /\ e[n] \in Nat
                 /\ n \in Stays => e[n] = e[n - 1]
                 /\ n \notin Stays => e[n] <= e[n - 1] + s[n].length
      <4>1. n \in 0..L /\ n - 1 \in 0..L
        OBVIOUS
      <4>2. e[n] = (IF j <= n THEN a ELSE 0) /\ e[n - 1] = IF j <= n - 1 THEN a ELSE 0
        BY <2>2, <4>1
      <4>3. PICK b \in Nat : b = s[n].length
        BY <1>2
      <4>4. CASE n = j
        <5>1. e[n] = a /\ e[n - 1] = 0 /\ b = a
          BY <2>1, <4>2, <4>3, <4>4
        <5> QED
          BY <1>6, <4>3, <4>4, <5>1
      <4>5. CASE n # j
        <5>1. j <= n <=> j <= n - 1
          BY <4>5
        <5>2. e[n] = e[n - 1] /\ e[n] \in Nat
          BY <2>1, <4>2, <5>1
        <5> QED
          BY <4>3, <5>2
      <4> QED
        BY <4>4, <4>5
    <3> QED
      BY <3>1, <3>2 DEF Drops
  <2>4. e[L] = a
    BY <2>2
  <2>5. TotalOf(Retain(s, Stays)) + e[L] <= TotalOf(s)
    BY <2>3, KeptBeside
  <2> QED
    BY <2>1, <2>4, <2>5, <2>6
<1> QED
  BY <1>4, <1>5, <1>6

-----------------------------------------------------------------------------
CacheEntries == [name : Names, length : Nat]

CacheOK(entries, size) ==
    /\ entries \in Seq(CacheEntries) /\ size \in Nat
    /\ TotalOf(entries) \in Nat /\ TotalOf(entries) <= size
    /\ TotalOf(entries) <= CacheLimit \/ Len(entries) = 1

LEMMA EntriesMeasured ==
    ASSUME NEW s \in Seq(CacheEntries) PROVE Measured(s)
<1>1. \A n \in 1..Len(s) : s[n] \in CacheEntries
  BY ElementOfSeq
<1> QED
  BY <1>1 DEF CacheEntries, Measured

LEMMA WithoutKept ==
    ASSUME NEW s \in Seq(CacheEntries), NEW name
    PROVE  /\ Without(s, name) \in Seq(CacheEntries) /\ Measured(Without(s, name))
           /\ Len(Without(s, name)) \in 0..Len(s)
           /\ TotalOf(Without(s, name)) \in Nat /\ TotalOf(s) \in Nat
           /\ TotalOf(Without(s, name)) <= TotalOf(s)
           /\ \A j \in 1..Len(s) : s[j].name = name =>
                  /\ TotalOf(Without(s, name)) + s[j].length <= TotalOf(s)
                  /\ Len(Without(s, name)) # Len(s)
<1>1. PICK Stays : Stays = {i \in DOMAIN s : s[i].name # name}
  OBVIOUS
<1>2. PICK L \in Nat : L = Len(s)
  OBVIOUS
<1>3. Stays \subseteq 1..L /\ \A j \in 1..L : s[j].name = name => j \notin Stays
  BY <1>1, <1>2
<1>4. Without(s, name) = Retain(s, Stays)
  BY <1>1 DEF Without
<1>5. Measured(s)
  BY EntriesMeasured
<1>6. /\ Retain(s, Stays) \in Seq(CacheEntries) /\ Measured(Retain(s, Stays))
      /\ Len(Retain(s, Stays)) \in 0..L
      /\ TotalOf(Retain(s, Stays)) \in Nat /\ TotalOf(s) \in Nat
      /\ TotalOf(Retain(s, Stays)) <= TotalOf(s)
      /\ \A j \in 1..L : j \notin Stays =>
             /\ TotalOf(Retain(s, Stays)) + s[j].length <= TotalOf(s)
             /\ Len(Retain(s, Stays)) # L
  BY <1>2, <1>3, <1>5, Kept
<1> QED
  BY <1>2, <1>3, <1>4, <1>6

LEMMA NothingHeld == ASSUME NEW s, Len(s) = 0 PROVE TotalOf(s) = 0
<1>1. Measured(s)
  BY DEF Measured
<1> QED
  BY <1>1, SizesAdd DEF TotalOf

\* Rotating an entry to the end, dropping one and putting one keep the cache sound.
LEMMA TouchKeeps ==
    ASSUME FuseAssumption, CacheOK(cache, cacheSize), NEW name, Cached(name) # {}, Touch(name)
    PROVE  CacheOK(cache', cacheSize')
<1>1. PICK L \in Nat : L = Len(cache)
  BY DEF CacheOK
<1>2. PICK e : e = CHOOSE x \in Range(cache) : x.name = name
  OBVIOUS
<1>3. DOMAIN cache = 1..L
  BY <1>1 DEF CacheOK
<1>4. e \in Range(cache) /\ e.name = name
  <2>1. PICK i \in DOMAIN cache : cache[i].name = name
    BY DEF Cached
  <2>2. cache[i] \in Range(cache)
    BY <2>1 DEF Range
  <2> QED
    BY <1>2, <2>1, <2>2
<1>5. PICK j \in 1..L : cache[j] = e
  BY <1>3, <1>4 DEF Range
<1>6. PICK w : w = Without(cache, name)
  OBVIOUS
<1>7. /\ w \in Seq(CacheEntries) /\ Measured(w) /\ Len(w) \in 0..L /\ Len(w) # L
      /\ TotalOf(w) \in Nat /\ TotalOf(cache) \in Nat
      /\ TotalOf(w) + e.length <= TotalOf(cache)
  <2>1. cache \in Seq(CacheEntries)
    BY DEF CacheOK
  <2> QED
    BY <1>1, <1>4, <1>5, <1>6, <2>1, WithoutKept
<1>8. e \in CacheEntries /\ e.length \in Nat
  <2>1. e \in CacheEntries
    BY <1>1, <1>5, ElementOfSeq DEF CacheOK
  <2> QED
    BY <2>1 DEF CacheEntries
<1>9. cache' = Append(w, e) /\ cacheSize' = cacheSize
  BY <1>2, <1>6 DEF Touch
<1>10. Append(w, e) \in Seq(CacheEntries)
  BY <1>7, <1>8, AppendProperties
<1>11. /\ Len(Append(w, e)) = Len(w) + 1 /\ TotalOf(Append(w, e)) \in Nat
       /\ TotalOf(Append(w, e)) <= TotalOf(w) + e.length
  BY <1>7, <1>8, Appended
<1>12. PICK a \in Nat, b \in Nat, c \in Nat, n \in Nat :
           a = TotalOf(Append(w, e)) /\ b = TotalOf(cache) /\ c = TotalOf(w) /\ n = e.length
  BY <1>7, <1>8, <1>11
<1>13. a <= b
  <2>1. a <= c + n /\ c + n <= b
    BY <1>7, <1>11, <1>12
  <2> QED
    BY <2>1
<1>14. b <= cacheSize /\ cacheSize \in Nat /\ (b <= CacheLimit \/ L = 1)
  BY <1>1, <1>12 DEF CacheOK
<1>15. a <= cacheSize
  BY <1>13, <1>14
<1>16. a <= CacheLimit \/ Len(Append(w, e)) = 1
  <2>1. CASE b <= CacheLimit
    BY <1>12, <1>13, <2>1 DEF FuseAssumption
  <2>2. CASE L = 1
    <3>1. Len(w) = 0
      BY <1>7, <2>2
    <3> QED
      BY <1>11, <3>1
  <2> QED
    BY <1>14, <2>1, <2>2
<1> QED
  BY <1>9, <1>10, <1>11, <1>12, <1>14, <1>15, <1>16 DEF CacheOK

LEMMA DropKeeps ==
    ASSUME FuseAssumption, CacheOK(cache, cacheSize), NEW name
    PROVE  CacheOK(Without(cache, name), cacheSize)
<1>1. PICK w : w = Without(cache, name)
  OBVIOUS
<1>2. /\ w \in Seq(CacheEntries) /\ Len(w) \in 0..Len(cache)
      /\ TotalOf(w) \in Nat /\ TotalOf(cache) \in Nat /\ TotalOf(w) <= TotalOf(cache)
  BY <1>1, WithoutKept DEF CacheOK
<1>3. PICK b \in Nat, c \in Nat : b = TotalOf(cache) /\ c = TotalOf(w)
  BY <1>2
<1>4. b <= cacheSize /\ cacheSize \in Nat /\ (b <= CacheLimit \/ Len(cache) = 1)
  BY <1>3 DEF CacheOK
<1>5. c <= cacheSize
  BY <1>2, <1>3, <1>4
<1>6. c <= CacheLimit \/ Len(w) = 1
  <2>1. CASE b <= CacheLimit
    BY <1>2, <1>3, <2>1 DEF FuseAssumption
  <2>2. CASE Len(cache) = 1
    <3>1. Len(w) = 0 \/ Len(w) = 1
      BY <1>2, <2>2
    <3>2. Len(w) = 0 => c = 0
      BY <1>3, NothingHeld
    <3> QED
      BY <3>1, <3>2 DEF FuseAssumption
  <2> QED
    BY <1>4, <2>1, <2>2
<1> QED
  BY <1>1, <1>2, <1>3, <1>4, <1>5, <1>6 DEF CacheOK

\* How many of the oldest go: fewer would not do.
LEMMA EvictedFits ==
    ASSUME FuseAssumption, CacheOK(cache, cacheSize), NEW length \in Nat
    PROVE  \E n \in 0..Len(cache) :
               /\ Evicted(length) = [entries |-> SubSeq(cache, n + 1, Len(cache)), size |-> cacheSize - Sizes(cache)[n]]
               /\ Fits(Evicted(length), length)
<1> DEFINE Left(n) == [entries |-> SubSeq(cache, n + 1, Len(cache)), size |-> cacheSize - Sizes(cache)[n]]
           Enough == {n \in 0..Len(cache) : Fits(Left(n), length)}
           Least(n) == Fits(Left(n), length) /\ \A m \in 0..(n - 1) : ~Fits(Left(m), length)
<1>1. PICK L \in Nat : L = Len(cache)
  BY DEF CacheOK
<1>2. L \in Enough
  <2>1. L + 1 > L /\ cache \in Seq(CacheEntries)
    BY <1>1 DEF CacheOK
  <2>2. SubSeq(cache, L + 1, L) = <<>>
    BY <1>1, <2>1
  <2>3. Left(L).entries = <<>> /\ L \in 0..Len(cache)
    BY <1>1, <2>2
  <2> QED
    BY <2>3 DEF Fits
<1>3. Enough \subseteq Nat
  OBVIOUS
<1>4. PICK n \in Enough : \A m \in Enough : n <= m
  BY <1>2, <1>3, LeastNumber
<1>5. Least(n)
  <2> SUFFICES ASSUME NEW m \in 0..(n - 1) PROVE ~Fits(Left(m), length)
    BY <1>4
  <2>1. m \in 0..Len(cache) /\ ~(n <= m)
    BY <1>1, <1>4
  <2> QED
    BY <1>4, <2>1
<1>6. Evicted(length) = Left(CHOOSE k \in 0..Len(cache) : Least(k))
  BY DEF Evicted
<1> HIDE DEF Least
<1>7. PICK k \in 0..Len(cache) : k = (CHOOSE i \in 0..Len(cache) : Least(i)) /\ Least(k)
  <2>1. n \in 0..Len(cache)
    BY <1>4
  <2> QED
    BY <1>5, <2>1
<1>8. Evicted(length) = Left(k) /\ Fits(Left(k), length)
  BY <1>6, <1>7 DEF Least
<1> QED
  BY <1>8

LEMMA PutKeeps ==
    ASSUME FuseAssumption, CacheOK(cache, cacheSize), NEW name \in Names, NEW length \in Nat,
           PutReadCache(name, length)
    PROVE  CacheOK(cache', cacheSize')
<1>1. PICK L \in Nat : L = Len(cache)
  BY DEF CacheOK
<1>2. PICK left : left = Evicted(length)
  OBVIOUS
<1>3. PICK n \in 0..Len(cache) :
          /\ left = [entries |-> SubSeq(cache, n + 1, Len(cache)), size |-> cacheSize - Sizes(cache)[n]]
          /\ Fits(left, length)
  BY <1>2, EvictedFits
<1>4. PICK s : s = left.entries
  OBVIOUS
<1>5. s = SubSeq(cache, n + 1, Len(cache)) /\ left.size = cacheSize - Sizes(cache)[n]
  BY <1>3, <1>4
<1>6. /\ s \in Seq(CacheEntries) /\ TotalOf(s) \in Nat /\ Sizes(cache)[n] \in Nat
      /\ TotalOf(cache) \in Nat /\ TotalOf(s) + Sizes(cache)[n] <= TotalOf(cache)
  BY <1>3, <1>5, Suffix, EntriesMeasured DEF CacheOK
<1>7. PICK w : w = Without(s, name)
  OBVIOUS
<1>8. /\ w \in Seq(CacheEntries) /\ Measured(w) /\ Len(w) \in 0..Len(s)
      /\ TotalOf(w) \in Nat /\ TotalOf(w) <= TotalOf(s)
  BY <1>6, <1>7, WithoutKept
<1>9. PICK e : e = [name |-> name, length |-> length]
  OBVIOUS
<1>10. cache' = Append(w, e) /\ cacheSize' = left.size + length
  BY <1>2, <1>4, <1>7, <1>9 DEF PutReadCache
<1>11. e \in CacheEntries /\ e.length = length
  BY <1>9 DEF CacheEntries
<1>12. Append(w, e) \in Seq(CacheEntries)
  BY <1>8, <1>11, AppendProperties
<1>13. /\ Len(Append(w, e)) = Len(w) + 1 /\ TotalOf(Append(w, e)) \in Nat
       /\ TotalOf(Append(w, e)) <= TotalOf(w) + length
  BY <1>8, <1>11, Appended
<1>14. PICK t \in Nat, c \in Nat, b \in Nat, k \in Nat, a \in Nat :
           t = TotalOf(Append(w, e)) /\ c = TotalOf(w) /\ b = TotalOf(s) /\ k = Sizes(cache)[n] /\ a = TotalOf(cache)
  BY <1>6, <1>8, <1>13
<1>15. a <= cacheSize /\ cacheSize \in Nat
  BY <1>14 DEF CacheOK
<1>16. b + k <= a /\ c <= b /\ t <= c + length
  BY <1>6, <1>8, <1>13, <1>14
<1>17. PICK z \in Nat : z = left.size
  <2>1. left.size = cacheSize - k
    BY <1>5, <1>14
  <2>2. cacheSize - k \in Nat
    BY <1>15, <1>16
  <2> QED
    BY <2>1, <2>2
<1>18. z = cacheSize - k
  BY <1>5, <1>14, <1>17
<1>19. t <= z + length
  BY <1>15, <1>16, <1>18
<1>20. t <= CacheLimit \/ Len(Append(w, e)) = 1
  <2>1. CASE left.size + length <= CacheLimit
    <3>1. z + length <= CacheLimit
      BY <1>17, <2>1
    <3> QED
      BY <1>19, <3>1 DEF FuseAssumption
  <2>2. CASE s = <<>>
    <3>1. Len(s) = 0
      BY <2>2
    <3>2. Len(w) = 0
      BY <1>8, <3>1
    <3> QED
      BY <1>13, <3>2
  <2> QED
    BY <1>3, <1>4, <2>1, <2>2 DEF Fits
<1>21. cacheSize' = z + length /\ z + length \in Nat
  BY <1>10, <1>17
<1> QED
  BY <1>10, <1>12, <1>13, <1>14, <1>19, <1>20, <1>21 DEF CacheOK

-----------------------------------------------------------------------------
Handle(h) ==
    /\ h = [name |-> h.name, id |-> h.id, length |-> h.length, dirty |-> h.dirty]
    /\ h.length \in Nat /\ (h # NoHandle => h.name \in Names)

MountInv ==
    /\ backing = [n \in Names |-> backing[n]] /\ \A n \in Names : backing[n].length \in Nat
    /\ inodes = [n \in Names |-> inodes[n]]
    /\ mapFile = TornMap \/ mapFile = [n \in Names |-> mapFile[n]]
    /\ handles = [fh \in 1..MaxHandles |-> handles[fh]]
    /\ \A fh \in 1..MaxHandles : Handle(handles[fh])
    /\ nextFh \in Nat \ {0}
    /\ CacheOK(cache, cacheSize)

LEMMA InitMountInv == ASSUME FuseAssumption PROVE FuseInit => MountInv
<1> SUFFICES ASSUME FuseInit PROVE MountInv
  OBVIOUS
<1>1. TotalOf(<<>>) = 0 /\ <<>> \in Seq(CacheEntries)
  BY NothingHeld
<1>2. CacheOK(cache, cacheSize)
  BY <1>1 DEF FuseInit, CacheOK, FuseAssumption
<1>3. handles = [fh \in 1..MaxHandles |-> handles[fh]] /\ \A fh \in 1..MaxHandles : Handle(handles[fh])
  BY DEF FuseInit, Handle, NoHandle
<1>4. backing = [n \in Names |-> backing[n]] /\ \A n \in Names : backing[n].length \in Nat
  BY DEF FuseInit, NoEntry
<1>5. inodes = [n \in Names |-> inodes[n]] /\ mapFile = TornMap /\ nextFh = 1
  BY DEF FuseInit
<1> QED
  BY <1>2, <1>3, <1>4, <1>5 DEF MountInv

\* What the requests do to the handles, the files and the map.
LEMMA OpensHandle ==
    ASSUME MountInv, NEW name \in Names, NEW id, NEW length \in Nat, NEW dirty, Opened(name, id, length, dirty)
    PROVE  /\ handles' = [fh \in 1..MaxHandles |-> handles'[fh]]
           /\ \A fh \in 1..MaxHandles : Handle(handles'[fh])
           /\ nextFh' \in Nat \ {0}
<1>1. PICK h : h = [name |-> name, id |-> id, length |-> length, dirty |-> dirty]
  OBVIOUS
<1>2. Handle(h)
  BY <1>1 DEF Handle
<1>3. handles' = [handles EXCEPT ![nextFh] = h] /\ nextFh' = nextFh + 1
  BY <1>1 DEF Opened
<1>4. handles = [fh \in 1..MaxHandles |-> handles[fh]] /\ nextFh \in Nat
  BY DEF MountInv
<1>5. handles' = [fh \in 1..MaxHandles |-> IF fh = nextFh THEN h ELSE handles[fh]]
  BY <1>3, <1>4
<1>6. ASSUME NEW fh \in 1..MaxHandles PROVE Handle(handles'[fh])
  <2>1. handles'[fh] = h \/ handles'[fh] = handles[fh]
    BY <1>5
  <2>2. Handle(handles[fh])
    BY DEF MountInv
  <2> QED
    BY <1>2, <2>1, <2>2
<1>7. handles' = [fh \in 1..MaxHandles |-> handles'[fh]]
  BY <1>5
<1>8. nextFh' \in Nat \ {0}
  BY <1>3, <1>4
<1> QED
  BY <1>6, <1>7, <1>8

LEMMA MapStays ==
    ASSUME MountInv, inodes' = [n \in Names |-> inodes'[n]], SaveInodeMap
    PROVE  mapFile' = TornMap \/ mapFile' = [n \in Names |-> mapFile'[n]]
<1>1. mapFile' = inodes' \/ mapFile' = mapFile \/ mapFile' = TornMap
  BY DEF SaveInodeMap
<1>2. mapFile = TornMap \/ mapFile = [n \in Names |-> mapFile[n]]
  BY DEF MountInv
<1> QED
  BY <1>1, <1>2

LEMMA FilesStay ==
    ASSUME MountInv, NEW name, NEW file, file.length \in Nat, backing' = [backing EXCEPT ![name] = file]
    PROVE  /\ backing' = [n \in Names |-> IF n = name THEN file ELSE backing[n]]
           /\ backing' = [n \in Names |-> backing'[n]] /\ \A n \in Names : backing'[n].length \in Nat
<1>1. backing = [n \in Names |-> backing[n]] /\ \A n \in Names : backing[n].length \in Nat
  BY DEF MountInv
<1>2. backing' = [n \in Names |-> IF n = name THEN file ELSE backing[n]]
  BY <1>1
<1>3. \A n \in Names : backing'[n] = IF n = name THEN file ELSE backing[n]
  BY <1>2
<1>4. \A n \in Names : backing'[n].length \in Nat
  BY <1>1, <1>3
<1> QED
  BY <1>2, <1>4

\* What a request may do to a file and to its inode without stranding it.
NoneStranded ==
    \A n \in Names : backing'[n] # NoEntry /\ inodes'[n] = NoId => backing[n] # NoEntry /\ inodes[n] = NoId

LEMMA NoneStrandedSuffices == ASSUME NoneStranded PROVE OnlyReleaseStrands
BY DEF NoneStranded, OnlyReleaseStrands, Stranded

LEMMA OpenCachedKeeps ==
    ASSUME FuseAssumption, MountInv, NEW name \in Names, OpenCached(name)
    PROVE  MountInv' /\ NoneStranded
<1>1. PICK i \in Cached(name) : Opened(name, inodes[name], cache[i].length, FALSE)
  BY DEF OpenCached
<1>2. cache[i].length \in Nat
  <2>1. cache \in Seq(CacheEntries) /\ i \in DOMAIN cache
    BY <1>1 DEF MountInv, CacheOK, Cached
  <2>2. cache[i] \in CacheEntries
    BY <2>1, ElementOfSeq
  <2> QED
    BY <2>2 DEF CacheEntries
<1>3. /\ handles' = [fh \in 1..MaxHandles |-> handles'[fh]]
      /\ \A fh \in 1..MaxHandles : Handle(handles'[fh])
      /\ nextFh' \in Nat \ {0}
  BY <1>1, <1>2, OpensHandle
<1>4. Cached(name) # {} /\ Touch(name)
  BY <1>1 DEF OpenCached
<1>5. CacheOK(cache', cacheSize')
  BY <1>4, TouchKeeps DEF MountInv
<1>6. backing' = backing /\ inodes' = inodes /\ mapFile' = mapFile
  BY DEF OpenCached
<1>7. /\ backing' = [n \in Names |-> backing'[n]] /\ \A n \in Names : backing'[n].length \in Nat
      /\ inodes' = [n \in Names |-> inodes'[n]]
      /\ mapFile' = TornMap \/ mapFile' = [n \in Names |-> mapFile'[n]]
  BY <1>6 DEF MountInv
<1>8. NoneStranded
  BY <1>6 DEF NoneStranded
<1>9. MountInv'
  BY <1>3, <1>5, <1>7 DEF MountInv
<1> QED
  BY <1>8, <1>9

LEMMA OpenKeeps ==
    ASSUME FuseAssumption, MountInv, NEW name \in Names, Open(name)
    PROVE  MountInv' /\ NoneStranded
<1>1. PICK length \in {0} \cup (IF backing[name].id = inodes[name] THEN {backing[name].length} ELSE {}) :
          Opened(name, inodes[name], length, FALSE) /\ PutReadCache(name, length)
  BY DEF Open
<1>2. length \in Nat
  <2>1. backing[name].length \in Nat
    BY DEF MountInv
  <2>2. length = 0 \/ length = backing[name].length
    BY <1>1
  <2> QED
    BY <2>1, <2>2
<1>3. /\ handles' = [fh \in 1..MaxHandles |-> handles'[fh]]
      /\ \A fh \in 1..MaxHandles : Handle(handles'[fh])
      /\ nextFh' \in Nat \ {0}
  BY <1>1, <1>2, OpensHandle
<1>4. CacheOK(cache', cacheSize')
  BY <1>1, <1>2, PutKeeps DEF MountInv
<1>5. backing' = backing /\ inodes' = inodes /\ mapFile' = mapFile
  BY DEF Open
<1>6. /\ backing' = [n \in Names |-> backing'[n]] /\ \A n \in Names : backing'[n].length \in Nat
      /\ inodes' = [n \in Names |-> inodes'[n]]
      /\ mapFile' = TornMap \/ mapFile' = [n \in Names |-> mapFile'[n]]
  BY <1>5 DEF MountInv
<1>7. NoneStranded
  BY <1>5 DEF NoneStranded
<1>8. MountInv'
  BY <1>3, <1>4, <1>6 DEF MountInv
<1> QED
  BY <1>7, <1>8

LEMMA CreateKeeps ==
    ASSUME FuseAssumption, MountInv, NEW name \in Names, Create(name)
    PROVE  MountInv' /\ NoneStranded
<1>1. PICK id : id = RandomId(drawn')
  OBVIOUS
<1>2. inodes' = [inodes EXCEPT ![name] = id] /\ SaveInodeMap /\ cache' = cache /\ cacheSize' = cacheSize
  BY <1>1 DEF Create
<1>3. inodes = [n \in Names |-> inodes[n]]
  BY DEF MountInv
<1>4. inodes' = [n \in Names |-> IF n = name THEN id ELSE inodes[n]]
  BY <1>2, <1>3
<1>5. \A n \in Names : inodes'[n] = IF n = name THEN id ELSE inodes[n]
  BY <1>4
<1>6. inodes' = [n \in Names |-> inodes'[n]]
  BY <1>4
<1>7. mapFile' = TornMap \/ mapFile' = [n \in Names |-> mapFile'[n]]
  BY <1>2, <1>6, MapStays
<1>8. CacheOK(cache', cacheSize')
  BY <1>2 DEF MountInv
<1>9. id # NoId
  BY <1>1 DEF RandomId, NoId
<1>10. CASE /\ backing' = [backing EXCEPT ![name] = [id |-> RandomId(drawn'), length |-> 0]]
            /\ Opened(name, RandomId(drawn'), 0, TRUE)
  <2>1. PICK file : file = [id |-> RandomId(drawn'), length |-> 0]
    OBVIOUS
  <2>2. file.length \in Nat /\ backing' = [backing EXCEPT ![name] = file]
    BY <1>10, <2>1
  <2>3. /\ backing' = [n \in Names |-> IF n = name THEN file ELSE backing[n]]
        /\ backing' = [n \in Names |-> backing'[n]] /\ \A n \in Names : backing'[n].length \in Nat
    BY <2>2, FilesStay
  <2>4. /\ handles' = [fh \in 1..MaxHandles |-> handles'[fh]]
        /\ \A fh \in 1..MaxHandles : Handle(handles'[fh])
        /\ nextFh' \in Nat \ {0}
    BY <1>10, OpensHandle
  <2>5. NoneStranded
    <3>1. \A n \in Names : n # name => backing'[n] = backing[n]
      BY <2>3
    <3> QED
      BY <1>5, <1>9, <3>1 DEF NoneStranded
  <2>6. MountInv'
    BY <1>6, <1>7, <1>8, <2>3, <2>4 DEF MountInv
  <2> QED
    BY <2>5, <2>6
<1>11. CASE UNCHANGED <<backing, handles, nextFh>>
  <2>1. backing' = backing /\ handles' = handles /\ nextFh' = nextFh
    BY <1>11
  <2>2. /\ backing' = [n \in Names |-> backing'[n]] /\ \A n \in Names : backing'[n].length \in Nat
        /\ handles' = [fh \in 1..MaxHandles |-> handles'[fh]]
        /\ \A fh \in 1..MaxHandles : Handle(handles'[fh])
        /\ nextFh' \in Nat \ {0}
    BY <2>1 DEF MountInv
  <2>3. NoneStranded
    BY <1>5, <1>9, <2>1 DEF NoneStranded
  <2>4. MountInv'
    BY <1>6, <1>7, <1>8, <2>2 DEF MountInv
  <2> QED
    BY <2>3, <2>4
<1> QED
  BY <1>10, <1>11 DEF Create

LEMMA Resized ==
    ASSUME NEW h, NEW name, NEW id, NEW length, NEW dirty, NEW l,
           h = [name |-> name, id |-> id, length |-> length, dirty |-> dirty]
    PROVE  [h EXCEPT !.length = l] = [name |-> name, id |-> id, length |-> l, dirty |-> dirty]
<1>1. PICK r : r = [h EXCEPT !.length = l]
  OBVIOUS
<1>2. r = [x \in {"name", "id", "length", "dirty"} |-> IF x = "length" THEN l ELSE h[x]]
  BY <1>1
<1>3. r.name = name /\ r.id = id /\ r.length = l /\ r.dirty = dirty
  BY <1>2
<1>4. r = [name |-> r.name, id |-> r.id, length |-> r.length, dirty |-> r.dirty]
  BY <1>2
<1> QED
  BY <1>1, <1>3, <1>4

LEMMA WriteFileKeeps ==
    ASSUME FuseAssumption, MountInv, NEW fh \in 1..MaxHandles, NEW end \in 1..MaxLength, WriteFile(fh, end)
    PROVE  MountInv' /\ NoneStranded
<1>1. handles = [f \in 1..MaxHandles |-> handles[f]] /\ \A f \in 1..MaxHandles : Handle(handles[f])
  BY DEF MountInv
<1>2. PICK l : l = IF handles[fh].length < end THEN end ELSE handles[fh].length
  OBVIOUS
<1>3. PICK g : g = handles[fh]
  OBVIOUS
<1>4. /\ g = [name |-> g.name, id |-> g.id, length |-> g.length, dirty |-> g.dirty]
      /\ g.length \in Nat /\ g # NoHandle /\ g.name \in Names
  <2>1. Handle(g) /\ g # NoHandle
    BY <1>1, <1>3 DEF WriteFile
  <2> QED
    BY <2>1 DEF Handle
<1>5. PICK h : h = [name |-> g.name, id |-> g.id, length |-> l, dirty |-> TRUE]
  OBVIOUS
<1>6. handles' = [f \in 1..MaxHandles |-> IF f = fh THEN h ELSE handles[f]]
  <2>1. [[handles EXCEPT ![fh].dirty = TRUE] EXCEPT ![fh].length = l]
            = [f \in 1..MaxHandles |-> IF f = fh THEN h ELSE handles[f]]
    <3>1. PICK k : k = [g EXCEPT !.dirty = TRUE]
      OBVIOUS
    <3>2. k = [name |-> g.name, id |-> g.id, length |-> g.length, dirty |-> TRUE]
      BY <1>4, <3>1
    <3>3. [k EXCEPT !.length = l] = h
      <4>1. PICK yes : yes = TRUE
        OBVIOUS
      <4>2. k = [name |-> g.name, id |-> g.id, length |-> g.length, dirty |-> yes]
        BY <3>2, <4>1
      <4>3. [k EXCEPT !.length = l] = [name |-> g.name, id |-> g.id, length |-> l, dirty |-> yes]
        BY <4>2, Resized
      <4> QED
        BY <1>5, <4>1, <4>3
    <3>4. PICK hs : hs = [f \in 1..MaxHandles |-> IF f = fh THEN k ELSE handles[f]]
      OBVIOUS
    <3>5. [handles EXCEPT ![fh].dirty = TRUE] = hs
      BY <1>1, <1>3, <3>1, <3>4
    <3>6. [hs EXCEPT ![fh].length = l] = [f \in 1..MaxHandles |-> IF f = fh THEN h ELSE handles[f]]
      BY <3>3, <3>4
    <3> QED
      BY <3>5, <3>6
  <2>2. handles' = [[handles EXCEPT ![fh].dirty = TRUE] EXCEPT ![fh].length = l]
    BY <1>1, <1>2, <1>3, <1>4 DEF WriteFile
  <2> QED
    BY <2>1, <2>2
<1>7. Handle(h)
  <2>1. l \in Nat
    BY <1>2, <1>3, <1>4
  <2> QED
    BY <1>4, <1>5, <2>1 DEF Handle
<1>8. handles' = [f \in 1..MaxHandles |-> handles'[f]] /\ \A f \in 1..MaxHandles : Handle(handles'[f])
  <2>1. \A f \in 1..MaxHandles : handles'[f] = h \/ handles'[f] = handles[f]
    BY <1>6
  <2>2. handles' = [f \in 1..MaxHandles |-> handles'[f]]
    BY <1>6
  <2> QED
    BY <1>1, <1>7, <2>1, <2>2
<1>9. /\ backing' = backing /\ inodes' = inodes /\ mapFile' = mapFile
      /\ nextFh' = nextFh /\ cache' = cache /\ cacheSize' = cacheSize
  BY DEF WriteFile
<1>10. NoneStranded
  BY <1>9 DEF NoneStranded
<1>11. /\ backing' = [n \in Names |-> backing'[n]] /\ \A n \in Names : backing'[n].length \in Nat
       /\ inodes' = [n \in Names |-> inodes'[n]]
       /\ mapFile' = TornMap \/ mapFile' = [n \in Names |-> mapFile'[n]]
       /\ nextFh' \in Nat \ {0} /\ CacheOK(cache', cacheSize')
  BY <1>9 DEF MountInv
<1> QED
  BY <1>8, <1>10, <1>11 DEF MountInv

\* Only this one may strand a file: that of the handle.
LEMMA FlushKeeps ==
    ASSUME FuseAssumption, MountInv, NEW fh \in 1..MaxHandles, FlushOpen(fh)
    PROVE  MountInv' /\ OnlyReleaseStrands
<1>1. PICK h : h = handles[fh]
  OBVIOUS
<1>2. /\ handles = [f \in 1..MaxHandles |-> handles[f]] /\ \A f \in 1..MaxHandles : Handle(handles[f])
      /\ inodes = [n \in Names |-> inodes[n]]
  BY DEF MountInv
<1>3. h.length \in Nat /\ h # NoHandle /\ h.name \in Names
  <2>1. Handle(h) /\ h # NoHandle
    BY <1>1, <1>2 DEF FlushOpen
  <2> QED
    BY <2>1 DEF Handle
<1>4. handles' = [f \in 1..MaxHandles |-> IF f = fh THEN NoHandle ELSE handles[f]]
  <2>1. handles' = [handles EXCEPT ![fh] = NoHandle]
    BY DEF FlushOpen
  <2> QED
    BY <1>2, <2>1
<1>5. handles' = [f \in 1..MaxHandles |-> handles'[f]] /\ \A f \in 1..MaxHandles : Handle(handles'[f])
  <2>1. Handle(NoHandle)
    BY DEF Handle, NoHandle
  <2>2. \A f \in 1..MaxHandles : handles'[f] = NoHandle \/ handles'[f] = handles[f]
    BY <1>4
  <2>3. handles' = [f \in 1..MaxHandles |-> handles'[f]]
    BY <1>4
  <2> QED
    BY <1>2, <2>1, <2>2, <2>3
<1>6. inodes' = inodes /\ mapFile' = mapFile /\ nextFh' = nextFh
  BY DEF FlushOpen
<1>7. /\ inodes' = [n \in Names |-> inodes'[n]]
      /\ mapFile' = TornMap \/ mapFile' = [n \in Names |-> mapFile'[n]]
      /\ nextFh' \in Nat \ {0}
  BY <1>6 DEF MountInv
<1>8. CASE /\ h.dirty
           /\ backing' = [backing EXCEPT ![h.name] = [id |-> h.id, length |-> h.length]]
           /\ PutReadCache(h.name, h.length)
  <2>1. PICK file : file = [id |-> h.id, length |-> h.length]
    OBVIOUS
  <2>2. file.length \in Nat /\ backing' = [backing EXCEPT ![h.name] = file]
    BY <1>3, <1>8, <2>1
  <2>3. /\ backing' = [n \in Names |-> IF n = h.name THEN file ELSE backing[n]]
        /\ backing' = [n \in Names |-> backing'[n]] /\ \A n \in Names : backing'[n].length \in Nat
    BY <2>2, FilesStay
  <2>4. CacheOK(cache', cacheSize')
    BY <1>3, <1>8, PutKeeps DEF MountInv
  <2>5. ASSUME NEW n \in Stranded' \ Stranded
        PROVE  handles[fh].name = n /\ handles[fh].dirty /\ handles'[fh] = NoHandle
    <3>1. n \in Names /\ backing'[n] # NoEntry /\ inodes'[n] = NoId /\ (backing[n] = NoEntry \/ inodes[n] # NoId)
      BY <2>5 DEF Stranded
    <3>2. n = h.name
      BY <1>6, <2>3, <3>1
    <3> QED
      BY <1>1, <1>4, <1>8, <3>2
  <2>6. OnlyReleaseStrands
    BY <2>5 DEF OnlyReleaseStrands
  <2>7. MountInv'
    BY <1>5, <1>7, <2>3, <2>4 DEF MountInv
  <2> QED
    BY <2>6, <2>7
<1>9. CASE UNCHANGED <<backing, cache, cacheSize>>
  <2>1. backing' = backing /\ cache' = cache /\ cacheSize' = cacheSize
    BY <1>9
  <2>2. /\ backing' = [n \in Names |-> backing'[n]] /\ \A n \in Names : backing'[n].length \in Nat
        /\ CacheOK(cache', cacheSize')
    BY <2>1 DEF MountInv
  <2>3. NoneStranded
    BY <1>6, <2>1 DEF NoneStranded
  <2>4. MountInv'
    BY <1>5, <1>7, <2>2 DEF MountInv
  <2> QED
    BY <2>3, <2>4, NoneStrandedSuffices
<1>10. \/ /\ h.dirty
          /\ backing' = [backing EXCEPT ![h.name] = [id |-> h.id, length |-> h.length]]
          /\ PutReadCache(h.name, h.length)
       \/ UNCHANGED <<backing, cache, cacheSize>>
  BY <1>1 DEF FlushOpen
<1> QED
  BY <1>8, <1>9, <1>10

LEMMA UnlinkKeeps ==
    ASSUME FuseAssumption, MountInv, NEW name \in Names, Unlink(name)
    PROVE  MountInv' /\ NoneStranded
<1>1. backing' = [backing EXCEPT ![name] = NoEntry] /\ NoEntry.length \in Nat
  BY DEF Unlink, NoEntry
<1>2. /\ backing' = [n \in Names |-> IF n = name THEN NoEntry ELSE backing[n]]
      /\ backing' = [n \in Names |-> backing'[n]] /\ \A n \in Names : backing'[n].length \in Nat
  <2>1. PICK file : file = NoEntry
    OBVIOUS
  <2>2. file.length \in Nat /\ backing' = [backing EXCEPT ![name] = file]
    BY <1>1, <2>1
  <2>3. /\ backing' = [n \in Names |-> IF n = name THEN file ELSE backing[n]]
        /\ backing' = [n \in Names |-> backing'[n]] /\ \A n \in Names : backing'[n].length \in Nat
    BY <2>2, FilesStay
  <2> QED
    BY <2>1, <2>3
<1>3. handles' = handles /\ nextFh' = nextFh /\ cacheSize' = cacheSize
  BY DEF Unlink
<1>4. /\ inodes' = [n \in Names |-> inodes'[n]]
      /\ \A n \in Names : n # name => inodes'[n] = inodes[n]
      /\ mapFile' = TornMap \/ mapFile' = [n \in Names |-> mapFile'[n]]
      /\ CacheOK(cache', cacheSize')
  <2>1. CASE inodes[name] = NoId
    <3>1. inodes' = inodes /\ mapFile' = mapFile /\ cache' = cache
      BY <2>1 DEF Unlink
    <3> QED
      BY <1>3, <3>1 DEF MountInv
  <2>2. CASE inodes[name] # NoId
    <3>1. inodes' = [inodes EXCEPT ![name] = NoId] /\ cache' = Without(cache, name) /\ SaveInodeMap
      BY <2>2 DEF Unlink
    <3>2. inodes = [n \in Names |-> inodes[n]]
      BY DEF MountInv
    <3>3. inodes' = [n \in Names |-> IF n = name THEN NoId ELSE inodes[n]]
      BY <3>1, <3>2
    <3>4. inodes' = [n \in Names |-> inodes'[n]] /\ \A n \in Names : n # name => inodes'[n] = inodes[n]
      BY <3>3
    <3>5. mapFile' = TornMap \/ mapFile' = [n \in Names |-> mapFile'[n]]
      BY <3>1, <3>4, MapStays
    <3>6. CacheOK(cache', cacheSize')
      BY <1>3, <3>1, DropKeeps DEF MountInv
    <3> QED
      BY <3>4, <3>5, <3>6
  <2> QED
    BY <2>1, <2>2
<1>5. \A n \in Names : n # name => backing'[n] = backing[n]
  BY <1>2
<1>6. backing'[name] = NoEntry
  BY <1>2
<1>7. NoneStranded
  BY <1>4, <1>5, <1>6 DEF NoneStranded
<1>8. /\ handles' = [f \in 1..MaxHandles |-> handles'[f]] /\ \A f \in 1..MaxHandles : Handle(handles'[f])
      /\ nextFh' \in Nat \ {0}
  BY <1>3 DEF MountInv
<1> QED
  BY <1>2, <1>4, <1>7, <1>8 DEF MountInv

LEMMA RenameFileKeeps ==
    ASSUME FuseAssumption, MountInv, NEW old \in Names, NEW new \in Names, RenameFile(old, new)
    PROVE  MountInv' /\ NoneStranded
<1>1. /\ backing = [n \in Names |-> backing[n]] /\ \A n \in Names : backing[n].length \in Nat
      /\ inodes = [n \in Names |-> inodes[n]]
  BY DEF MountInv
<1>2. /\ old # new
      /\ backing' = [[backing EXCEPT ![old] = NoEntry] EXCEPT ![new] = backing[old]]
      /\ inodes' = [[inodes EXCEPT ![old] = NoId] EXCEPT ![new] = FileIdForName(new)]
      /\ cache' = (IF inodes[old] = NoId THEN cache ELSE Without(cache, old))
      /\ SaveInodeMap
      /\ handles' = handles /\ nextFh' = nextFh /\ cacheSize' = cacheSize
  BY <1>1 DEF RenameFile
<1>3. backing' = [n \in Names |-> IF n = new THEN backing[old] ELSE IF n = old THEN NoEntry ELSE backing[n]]
  BY <1>1, <1>2
<1>4. inodes' = [n \in Names |-> IF n = new THEN FileIdForName(new) ELSE IF n = old THEN NoId ELSE inodes[n]]
  BY <1>1, <1>2
<1>5. backing' = [n \in Names |-> backing'[n]] /\ \A n \in Names : backing'[n].length \in Nat
  <2>1. \A n \in Names : backing'[n] \in {backing[old], NoEntry, backing[n]}
    BY <1>3
  <2>2. NoEntry.length \in Nat
    BY DEF NoEntry
  <2>3. backing' = [n \in Names |-> backing'[n]]
    BY <1>3
  <2> QED
    BY <1>1, <2>1, <2>2, <2>3
<1>6. inodes' = [n \in Names |-> inodes'[n]]
  BY <1>4
<1>7. mapFile' = TornMap \/ mapFile' = [n \in Names |-> mapFile'[n]]
  BY <1>2, <1>6, MapStays
<1>8. CacheOK(cache', cacheSize')
  <2>1. CASE inodes[old] = NoId
    BY <1>2, <2>1 DEF MountInv
  <2>2. CASE inodes[old] # NoId
    BY <1>2, <2>2, DropKeeps DEF MountInv
  <2> QED
    BY <2>1, <2>2
<1>9. NoneStranded
  <2>1. inodes'[new] = FileIdForName(new) /\ FileIdForName(new) # NoId
    BY <1>4 DEF FileIdForName, NoId
  <2>2. backing'[old] = NoEntry
    BY <1>2, <1>3
  <2>3. \A n \in Names : n # old /\ n # new => backing'[n] = backing[n] /\ inodes'[n] = inodes[n]
    BY <1>3, <1>4
  <2> QED
    BY <2>1, <2>2, <2>3 DEF NoneStranded
<1>10. /\ handles' = [f \in 1..MaxHandles |-> handles'[f]] /\ \A f \in 1..MaxHandles : Handle(handles'[f])
       /\ nextFh' \in Nat \ {0}
  BY <1>2 DEF MountInv
<1> QED
  BY <1>5, <1>6, <1>7, <1>8, <1>9, <1>10 DEF MountInv

LEMMA RemountKeeps ==
    ASSUME FuseAssumption, MountInv, Remount
    PROVE  MountInv' /\ OnlyReleaseStrands
<1>1. /\ nextFh > 1 /\ nextFh' = 1 /\ inodes' \in LoadedInodes
      /\ handles' = [fh \in 1..MaxHandles |-> NoHandle]
      /\ cache' = <<>> /\ cacheSize' = 0 /\ backing' = backing /\ mapFile' = mapFile
  BY DEF Remount
<1>2. nextFh' < nextFh /\ nextFh' \in Nat \ {0}
  BY <1>1 DEF MountInv
<1>3. OnlyReleaseStrands
  BY <1>2 DEF OnlyReleaseStrands
<1>4. inodes' = [n \in Names |-> inodes'[n]]
  <2>1. CASE mapFile # TornMap
    BY <1>1, <2>1 DEF LoadedInodes, MountInv
  <2>2. CASE mapFile = TornMap
    BY <1>1, <2>2 DEF LoadedInodes
  <2> QED
    BY <2>1, <2>2
<1>5. handles' = [f \in 1..MaxHandles |-> handles'[f]] /\ \A f \in 1..MaxHandles : Handle(handles'[f])
  BY <1>1 DEF Handle, NoHandle
<1>6. CacheOK(cache', cacheSize')
  <2>1. TotalOf(<<>>) = 0 /\ <<>> \in Seq(CacheEntries)
    BY NothingHeld
  <2> QED
    BY <1>1, <2>1 DEF CacheOK, FuseAssumption
<1>7. /\ backing' = [n \in Names |-> backing'[n]] /\ \A n \in Names : backing'[n].length \in Nat
      /\ mapFile' = TornMap \/ mapFile' = [n \in Names |-> mapFile'[n]]
  BY <1>1 DEF MountInv
<1> QED
  BY <1>2, <1>3, <1>4, <1>5, <1>6, <1>7 DEF MountInv

LEMMA SteadyKeeps ==
    ASSUME MountInv, UNCHANGED <<backing, inodes, mapFile, handles, nextFh, cache, cacheSize>>
    PROVE  MountInv' /\ NoneStranded
BY DEF MountInv, NoneStranded

LEMMA RequestSteps ==
    ASSUME FuseAssumption, MountInv, [FuseNext]_fuseVars
    PROVE  MountInv' /\ OnlyReleaseStrands
<1>1. ASSUME NEW name \in Names, OpenCached(name) PROVE MountInv' /\ OnlyReleaseStrands
  BY <1>1, OpenCachedKeeps, NoneStrandedSuffices
<1>2. ASSUME NEW name \in Names, Open(name) PROVE MountInv' /\ OnlyReleaseStrands
  BY <1>2, OpenKeeps, NoneStrandedSuffices
<1>3. ASSUME NEW name \in Names, Create(name) PROVE MountInv' /\ OnlyReleaseStrands
  BY <1>3, CreateKeeps, NoneStrandedSuffices
<1>4. ASSUME NEW name \in Names, Unlink(name) PROVE MountInv' /\ OnlyReleaseStrands
  BY <1>4, UnlinkKeeps, NoneStrandedSuffices
<1>5. ASSUME NEW old \in Names, NEW new \in Names, RenameFile(old, new) PROVE MountInv' /\ OnlyReleaseStrands
  BY <1>5, RenameFileKeeps, NoneStrandedSuffices
<1>6. ASSUME NEW fh \in 1..MaxHandles, FlushOpen(fh) PROVE MountInv' /\ OnlyReleaseStrands
  BY <1>6, FlushKeeps
<1>7. ASSUME NEW fh \in 1..MaxHandles, NEW end \in 1..MaxLength, WriteFile(fh, end)
      PROVE  MountInv' /\ OnlyReleaseStrands
  BY <1>7, WriteFileKeeps, NoneStrandedSuffices
<1>8. ASSUME NEW name \in Names, Lookup(name) PROVE MountInv' /\ OnlyReleaseStrands
  <2>1. UNCHANGED <<backing, inodes, mapFile, handles, nextFh, cache, cacheSize>>
    BY <1>8 DEF Lookup
  <2> QED
    BY <2>1, SteadyKeeps, NoneStrandedSuffices
<1>9. CASE Remount
  BY <1>9, RemountKeeps
<1>10. CASE UNCHANGED fuseVars
  <2>1. UNCHANGED <<backing, inodes, mapFile, handles, nextFh, cache, cacheSize>>
    BY <1>10 DEF fuseVars
  <2> QED
    BY <2>1, SteadyKeeps, NoneStrandedSuffices
<1> QED
  BY <1>1, <1>2, <1>3, <1>4, <1>5, <1>6, <1>7, <1>8, <1>9, <1>10 DEF FuseNext

LEMMA CacheIsBounded == ASSUME MountInv PROVE CacheBounded
BY DEF MountInv, CacheOK, CacheBounded, TotalOf

\* The read cache stays within its limit and its size never falls below what it
\* holds; in a mount only a late release makes a file on which lookup hangs
\* (put_read_cache, unregister_inode, flush_open, rename of fuse_fs.rs).
THEOREM MountStaysSound == ASSUME FuseAssumption PROVE FuseSpec => MountHolds
<1>1. FuseInit => MountInv
  BY InitMountInv
<1>2. MountInv /\ [FuseNext]_fuseVars => MountInv'
  BY RequestSteps
<1>3. MountInv /\ [FuseNext]_fuseVars => OnlyReleaseStrands
  BY RequestSteps
<1>4. MountInv => CacheBounded
  BY CacheIsBounded
<1>5. MountInv' => CacheBounded'
  BY <1>4, PTL
<1>6. MountInv /\ [FuseNext]_fuseVars => [CacheBounded' /\ OnlyReleaseStrands]_fuseVars
  BY <1>2, <1>3, <1>5
<1> QED
  BY <1>1, <1>2, <1>6, PTL DEF FuseSpec, MountHolds

=============================================================================
