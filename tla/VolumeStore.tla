---------------------------- MODULE VolumeStore ----------------------------
(***************************************************************************)
(* OnDiskFile::save, OnDiskFile::load and Wal::{write, inspect, recover}   *)
(* on one volume path, one action per file-system effect another process   *)
(* or a crash can separate from the next (rust-core/src/fs_layer).         *)
(*                                                                         *)
(* The disk.  A directory maps the names data, wal and tmp to files.       *)
(* A rename or an unlink is visible at once, but until fsync_dir a power   *)
(* loss may bring the earlier entry back: oldData and oldWal hold those    *)
(* entries.  A file whose content was not synced may come back Torn.       *)
(* The temporary files of Wal::write and Wal::recover have random names    *)
(* and are synced, with errors propagated, before they are persisted, so   *)
(* only the rename that publishes them is a step.  The temporary file of   *)
(* save has one name per volume, is opened and written in place, and is    *)
(* shared by every saver of the volume.                                    *)
(*                                                                         *)
(* An image is a model value: what its bytes mean is left out.             *)
(***************************************************************************)
EXTENDS FiniteSets

CONSTANTS
    Procs,      \* processes that open the volume
    Payloads,   \* images that are saved
    NoFile,     \* no file under that name
    Empty,      \* a file that was created or truncated and not written yet
    Torn,       \* bytes that are no image that was saved
    Exclusive,  \* TRUE when a call starts only while no other call runs
    BarePath,   \* TRUE when the volume path has no directory component
    IoFaults    \* TRUE when creating, writing, renaming or removing may fail

ASSUME StoreAssumption ==
    /\ Exclusive \in BOOLEAN
    /\ BarePath \in BOOLEAN
    /\ IoFaults \in BOOLEAN
    /\ NoFile \notin Payloads
    /\ Empty \notin Payloads \cup {NoFile}
    /\ Torn \notin Payloads \cup {NoFile, Empty}

VARIABLES
    data,       \* the file at the volume path
    wal,        \* the payload of the committed log, or NoFile
    tmp,        \* the file at path.with_extension("sot.tmp")
    oldData,    \* entries of the volume path a power loss may bring back
    oldWal,     \* entries of the log path a power loss may bring back
    pc,         \* the next effect of each process
    img,        \* the image a save was called with, a load read from the log, or
                \* a call has returned
    fd          \* where the file is that the process opened as tmp

disk == <<data, wal, tmp, oldData, oldWal>>
vars == <<data, wal, tmp, oldData, oldWal, pc, img, fd>>

Images == Payloads \cup {NoFile}
Bytes == Images \cup {Empty, Torn}
Files == [bytes : Bytes, synced : BOOLEAN]
Synced(b) == [bytes |-> b, synced |-> TRUE]
Dirty(b) == [bytes |-> b, synced |-> FALSE]

SavePCs == {"log", "logSync", "create", "write", "sync", "rename", "settle",
            "clear", "ack"}
LoadPCs == {"inspect", "replay", "replaySync", "drop", "dropSync", "read", "readOld"}
IdlePCs == {"idle", "returned"}

TypeOK ==
    /\ data \in Files
    /\ wal \in Images
    /\ tmp \in Files
    /\ oldData \in SUBSET Files
    /\ oldWal \in SUBSET Images
    /\ pc \in [Procs -> SavePCs \cup LoadPCs \cup IdlePCs]
    /\ img \in [Procs -> Images]
    /\ fd \in [Procs -> {"none", "tmp", "data", "gone"}]

Init ==
    /\ data = Synced(NoFile)
    /\ wal = NoFile
    /\ tmp = Synced(NoFile)
    /\ oldData = {}
    /\ oldWal = {}
    /\ pc = [p \in Procs |-> "idle"]
    /\ img = [p \in Procs |-> NoFile]
    /\ fd = [p \in Procs |-> "none"]

-----------------------------------------------------------------------------
(* Control and the helpers of the file system *)

Go(p, from, to) ==
    /\ pc[p] = from
    /\ pc' = [pc EXCEPT ![p] = to]

\* The call of p is over without a result, and with it what p had in memory
\* or open.
End(p) ==
    /\ pc' = [pc EXCEPT ![p] = "idle"]
    /\ img' = [img EXCEPT ![p] = NoFile]
    /\ fd' = [fd EXCEPT ![p] = "none"]

\* The call of p returns Ok: v is the image that was saved or loaded.
Return(p, v) ==
    /\ pc' = [pc EXCEPT ![p] = "returned"]
    /\ img' = [img EXCEPT ![p] = v]
    /\ fd' = [fd EXCEPT ![p] = "none"]

\* Mutant of FsyncDir: the file itself is opened and synced, not its parent.
FsyncItself == UNCHANGED <<oldData, oldWal>>

\* fsync_dir: nothing at all when the parent of the path is the empty path.
FsyncDir ==
    IF BarePath
    THEN UNCHANGED <<oldData, oldWal>>
    ELSE oldData' = {} /\ oldWal' = {}

\* The entry of the volume path is replaced; whoever had the former file
\* open keeps writing to a file without a name.
Publish(f) ==
    /\ data' = f
    /\ oldData' = oldData \cup {data}

\* A call that returns early leaves the disk as it is.
Fail(p) ==
    /\ IoFaults
    /\ pc[p] \in {"log", "create", "write", "rename", "read", "readOld"}
    /\ End(p)
    /\ UNCHANGED disk

CanBegin(p) ==
    /\ pc[p] \in IdlePCs
    /\ Exclusive => \A q \in Procs : pc[q] \in IdlePCs

-----------------------------------------------------------------------------
(* save *)

BeginSave(p, v) ==
    /\ CanBegin(p)
    /\ pc' = [pc EXCEPT ![p] = "log"]
    /\ img' = [img EXCEPT ![p] = v]
    /\ UNCHANGED <<data, wal, tmp, oldData, oldWal, fd>>

\* Wal::write: the synced temporary file is persisted at the log path.
PersistWal(p) ==
    /\ Go(p, "log", "logSync")
    /\ wal' = img[p]
    /\ oldWal' = oldWal \cup {wal}
    /\ UNCHANGED <<data, tmp, oldData, img, fd>>

\* Mutant of SyncWal: the directory is not synced after the log is published.
SyncWalSkipped(p) ==
    /\ Go(p, "logSync", "create")
    /\ UNCHANGED <<data, wal, tmp, oldData, oldWal, img, fd>>

\* The fsync_dir that ends Wal::write, and the one save repeats.
SyncWal(p) ==
    /\ Go(p, "logSync", "create")
    /\ FsyncDir
    /\ UNCHANGED <<data, wal, tmp, img, fd>>

\* std::fs::write, first half: open with O_CREAT and O_TRUNC.
CreateTmp(p) ==
    /\ Go(p, "create", "write")
    /\ tmp' = Dirty(Empty)
    /\ fd' = [fd EXCEPT ![p] = "tmp"]
    /\ UNCHANGED <<data, wal, oldData, oldWal, img>>

\* Writing from offset 0 leaves the tail of whatever was there, if it was
\* longer.
Overwritten(f, v) == {Dirty(v)} \cup IF f.bytes = Empty THEN {} ELSE {Dirty(Torn)}

\* std::fs::write, second half: the file may have been renamed meanwhile.
WriteTmp(p) ==
    /\ Go(p, "write", "sync")
    /\ fd' = [fd EXCEPT ![p] = "none"]
    /\ \/ fd[p] = "tmp" /\ tmp' \in Overwritten(tmp, img[p]) /\ UNCHANGED data
       \/ fd[p] = "data" /\ data' \in Overwritten(data, img[p]) /\ UNCHANGED tmp
       \/ fd[p] = "gone" /\ UNCHANGED <<data, tmp>>
    /\ UNCHANGED <<wal, oldData, oldWal, img>>

\* Mutant of SyncTmp: the temporary file is renamed unsynced.
SyncTmpSkipped(p) ==
    /\ Go(p, "sync", "rename")
    /\ UNCHANGED <<data, wal, tmp, oldData, oldWal, img, fd>>

\* The file under the name is reopened and synced, if there is one.
SyncTmp(p) ==
    /\ Go(p, "sync", "rename")
    /\ tmp' = Synced(tmp.bytes)
    /\ UNCHANGED <<data, wal, oldData, oldWal, img, fd>>

Moved(where) ==
    CASE where = "tmp" -> "data"
      [] where = "data" -> "gone"
      [] OTHER -> where

\* Mutant of Rename: the volume goes even when there is no temporary file.
RenameUnchecked(p) ==
    /\ Go(p, "rename", "settle")
    /\ Publish(tmp)
    /\ tmp' = Synced(NoFile)
    /\ fd' = [q \in Procs |-> Moved(fd[q])]
    /\ UNCHANGED <<wal, oldWal, img>>

Rename(p) ==
    /\ tmp.bytes # NoFile
    /\ Go(p, "rename", "settle")
    /\ Publish(tmp)
    /\ tmp' = Synced(NoFile)
    /\ fd' = [q \in Procs |-> Moved(fd[q])]
    /\ UNCHANGED <<wal, oldWal, img>>

\* Another saver renamed the shared temporary file away: save returns Err.
RenameFails(p) ==
    /\ tmp.bytes = NoFile
    /\ pc[p] = "rename"
    /\ End(p)
    /\ UNCHANGED disk

\* sync_all on the data file, then fsync_dir.
SyncData(p) ==
    /\ Go(p, "settle", "clear")
    /\ data' = Synced(data.bytes)
    /\ FsyncDir
    /\ UNCHANGED <<wal, tmp, img, fd>>

\* remove_file on the log; its result is ignored.
RemoveWal ==
    \/ /\ wal' = NoFile
       /\ oldWal' = oldWal \cup {wal}
    \/ /\ IoFaults
       /\ UNCHANGED <<wal, oldWal>>

ClearWal(p) ==
    /\ Go(p, "clear", "ack")
    /\ RemoveWal
    /\ UNCHANGED <<data, tmp, oldData, img, fd>>

\* The last fsync_dir; save returns Ok.
Ack(p) ==
    /\ pc[p] = "ack"
    /\ Return(p, img[p])
    /\ FsyncDir
    /\ UNCHANGED <<data, wal, tmp>>

-----------------------------------------------------------------------------
(* load: Wal::recover, whose result is ignored, and then the read *)

BeginLoad(p) ==
    /\ CanBegin(p)
    /\ pc' = [pc EXCEPT ![p] = "inspect"]
    /\ img' = [img EXCEPT ![p] = NoFile]
    /\ UNCHANGED <<data, wal, tmp, oldData, oldWal, fd>>

\* Mutant of Inspect: a log cut short is taken for a committed one.
InspectUnchecked(p) ==
    /\ pc[p] = "inspect"
    /\ img' \in {[img EXCEPT ![p] = wal], [img EXCEPT ![p] = Torn]}
    /\ pc' = [pc EXCEPT ![p] = IF wal = NoFile THEN "drop" ELSE "replay"]
    /\ UNCHANGED <<data, wal, tmp, oldData, oldWal, fd>>

Inspect(p) ==
    /\ pc[p] = "inspect"
    /\ img' = [img EXCEPT ![p] = wal]
    /\ pc' = [pc EXCEPT ![p] = IF wal = NoFile THEN "drop" ELSE "replay"]
    /\ UNCHANGED <<data, wal, tmp, oldData, oldWal, fd>>

Replay(p) ==
    /\ Go(p, "replay", "replaySync")
    /\ Publish(Synced(img[p]))
    /\ fd' = [q \in Procs |-> IF fd[q] = "data" THEN "gone" ELSE fd[q]]
    /\ UNCHANGED <<wal, tmp, oldWal, img>>

\* recover returns Err before it removes the log: the log cannot be read, or its
\* image cannot be written or published.  load ignores that and reads on.
RecoverFails(p) ==
    /\ IoFaults
    /\ wal # NoFile \/ pc[p] = "replay"
    /\ pc[p] \in {"inspect", "replay"}
    /\ pc' = [pc EXCEPT ![p] = "readOld"]
    /\ UNCHANGED <<data, wal, tmp, oldData, oldWal, img, fd>>

\* Mutant of SyncReplay: the replay is not made durable before the log goes.
SyncReplaySkipsDir(p) ==
    /\ Go(p, "replaySync", "drop")
    /\ data' = Synced(data.bytes)
    /\ UNCHANGED <<wal, tmp, oldData, oldWal, img, fd>>

SyncReplay(p) ==
    /\ Go(p, "replaySync", "drop")
    /\ data' = Synced(data.bytes)
    /\ FsyncDir
    /\ UNCHANGED <<wal, tmp, img, fd>>

\* The log is removed whatever inspect said, and whatever is there by now.
DropWal(p) ==
    /\ Go(p, "drop", "dropSync")
    /\ RemoveWal
    /\ UNCHANGED <<data, tmp, oldData, img, fd>>

SyncDrop(p) ==
    /\ Go(p, "dropSync", "read")
    /\ FsyncDir
    /\ UNCHANGED <<data, wal, tmp, img, fd>>

\* load returns what is under the path, unless from_bytes rejects it; after a
\* recovery that failed that is the image the log was to replace.
Read(p) ==
    /\ pc[p] \in {"read", "readOld"}
    /\ \/ data.bytes \in Images /\ Return(p, data.bytes)
       \/ data.bytes \notin Images /\ End(p)
    /\ UNCHANGED disk

-----------------------------------------------------------------------------
(* Crashes *)

Kill(p) ==
    /\ pc[p] \notin IdlePCs
    /\ End(p)
    /\ UNCHANGED disk

\* What a file may hold after a power loss.
Survivors(f) == {Synced(f.bytes)} \cup IF f.synced THEN {} ELSE {Synced(Torn)}
DataAfterLoss == UNION {Survivors(f) : f \in oldData \cup {data}}
WalAfterLoss == oldWal \cup {wal}

\* The next saver truncates tmp whatever it holds: it is dropped here.
PowerLoss ==
    /\ data' \in DataAfterLoss
    /\ wal' \in WalAfterLoss
    /\ tmp' = Synced(NoFile)
    /\ oldData' = {}
    /\ oldWal' = {}
    /\ pc' = [p \in Procs |-> "idle"]
    /\ img' = [p \in Procs |-> NoFile]
    /\ fd' = [p \in Procs |-> "none"]

SaveStep(p) ==
    \/ PersistWal(p) \/ SyncWal(p) \/ CreateTmp(p) \/ WriteTmp(p)
    \/ SyncTmp(p) \/ Rename(p) \/ RenameFails(p) \/ SyncData(p)
    \/ ClearWal(p) \/ Ack(p)

LoadStep(p) ==
    \/ Inspect(p) \/ Replay(p) \/ RecoverFails(p) \/ SyncReplay(p)
    \/ DropWal(p) \/ SyncDrop(p) \/ Read(p)

Next ==
    \/ \E p \in Procs :
        \/ \E v \in Payloads : BeginSave(p, v)
        \/ BeginLoad(p)
        \/ SaveStep(p)
        \/ LoadStep(p)
        \/ Fail(p)
        \/ Kill(p)
    \/ PowerLoss

Spec == Init /\ [][Next]_vars

-----------------------------------------------------------------------------
(* What the crash protocol is for *)

\* What the next load returns if the log and the volume are w and d, and recover
\* does not fail.
Recovered(w, d) == IF w # NoFile THEN w ELSE d.bytes

\* The images a load may still return, now or after a power loss, when its
\* recovery works, ...
Recoverable ==
    {Recovered(w, d) : w \in WalAfterLoss, d \in {data} \cup DataAfterLoss}

\* ... and when it fails: what is under the path, whatever the log holds.
UnderPath == {d.bytes : d \in {data} \cup DataAfterLoss}

\* Whatever the moment of a crash, what is under the volume path is an image
\* somebody saved, never a part or a mixture: save stages the bytes in a
\* temporary file and syncs it before the rename (storage.rs, save).
VolumeWhole == \A f \in DataAfterLoss : f.bytes \in Images

\* Once save has removed the log, and so when it returns Ok, only its image
\* can be loaded, even by a load whose recovery fails: the rename is durable by
\* then, and if the removal is not, the log that comes back holds the same image.
AckedIsDurable ==
    [][\A p \in Procs :
        pc[p] = "ack" /\ pc'[p] = "returned" =>
            Recoverable' = {img[p]} /\ UnderPath' = {img[p]}]_vars

\* While the rename is not known to be durable the log is: a save past
\* Wal::write can only end in its own image, even if it is killed or fails
\* after that point, once a load gets to replay the log.
LogCoversRename ==
    \A p \in Procs :
        pc[p] \in {"create", "write", "sync", "rename", "settle", "clear"} =>
            Recoverable = {img[p]}

\* A volume that would survive a power loss never vanishes again, however
\* calls overlap: every step that takes the entry away puts an image, whole
\* or not, in its place in the same rename.
VolumeStays ==
    [][NoFile \notin {f.bytes : f \in DataAfterLoss} =>
        NoFile \notin {f.bytes : f \in DataAfterLoss'}]_vars

\* The whole store is the register of AtomicVolume: a call that ended without
\* a result is Idle there, poss is what can be recovered, and under what a load
\* finds that could not recover.
JobOf(p) ==
    IF pc[p] \in SavePCs THEN [op |-> "save", val |-> img[p]]
    ELSE IF pc[p] \in LoadPCs THEN [op |-> "load", val |-> NoFile]
    ELSE IF pc[p] = "returned" THEN [op |-> "returned", val |-> img[p]]
    ELSE [op |-> "idle", val |-> NoFile]

Abstract == INSTANCE AtomicVolume WITH
    job <- [p \in Procs |-> JobOf(p)],
    poss <- Recoverable,
    under <- UnderPath

\* save and load refine the atomic register: above all, whatever a call returned
\* that met no failing recovery, nothing else can be loaded at that moment or come
\* back later; and a load whose recovery failed returns an older image only if a
\* save was cut short since, and changes nothing.
IsAtomicVolume == Abstract!ASpec

=============================================================================
