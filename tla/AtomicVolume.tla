---------------------------- MODULE AtomicVolume ----------------------------
(***************************************************************************)
(* What OnDiskFile::save and OnDiskFile::load promise together, without    *)
(* the files that implement the promise (rust-core/src/fs_layer/storage.rs *)
(* and wal.rs): a volume is a register.                                    *)
(*                                                                         *)
(*  - poss is the set of images a load may still return, now or after a    *)
(*    power loss that happens now.  It only ever gains the image a running *)
(*    save was called with, and it never becomes empty.                    *)
(*  - A save that returns Ok has reduced it to the saved image.            *)
(*  - A load that returns an image has reduced it to that image, so every  *)
(*    later load returns the same one until somebody saves again.          *)
(*                                                                         *)
(* One answer is outside of that promise.  load ignores the result of      *)
(* Wal::recover, and returns Ok with what it finds if the log could not be *)
(* replayed.  under is the set of images it may find: it only ever gains   *)
(* images that are possible, and a call that returned without such a       *)
(* failure has reduced it to the same one image.  So the stale answer is   *)
(* what was under the path when the last call settled the register, or     *)
(* something possible since; and it settles nothing itself.                *)
(***************************************************************************)
EXTENDS FiniteSets

CONSTANTS
    Procs,      \* the processes that open the volume
    Payloads,   \* the volume images that are ever saved
    NoFile,     \* what a load reports when there is no volume at all
    IoFaults    \* TRUE when replaying the log may fail

VARIABLES
    job,        \* what each process is doing
    poss,       \* the images a load may still return
    under       \* the images a load may return that could not replay the log

avars == <<job, poss, under>>

Idle == [op |-> "idle", val |-> NoFile]
Saving(v) == [op |-> "save", val |-> v]
Loading == [op |-> "load", val |-> NoFile]
Returned(v) == [op |-> "returned", val |-> v]

Running(p) == job[p].op \in {"save", "load"}

Values == Payloads \cup {NoFile}
Jobs == {Loading} \cup {Saving(v) : v \in Payloads}

AInit ==
    /\ job = [p \in Procs |-> Idle]
    /\ poss = {NoFile}
    /\ under = {NoFile}

\* A call begins.
Begin(p, j) ==
    /\ ~Running(p)
    /\ j \in Jobs
    /\ job' = [job EXCEPT ![p] = j]
    /\ UNCHANGED <<poss, under>>

\* The image under the path is replaced by a possible one, or not at all.
Place ==
    /\ under' \in SUBSET (under \cup poss')
    /\ under' # {}

\* A running save may make its image possible, rule other images out, or both.
Work(p) ==
    /\ job[p].op = "save"
    /\ poss' \in SUBSET (poss \cup {job[p].val})
    /\ poss' # {}
    /\ Place
    /\ UNCHANGED job

\* A running load settles what earlier, interrupted saves left open.
Settle(p) ==
    /\ job[p].op = "load"
    /\ poss' \in SUBSET poss
    /\ poss' # {}
    /\ Place
    /\ UNCHANGED job

\* A call returns: the image it saved or reports is the only one left.
Return(p, v) ==
    /\ Running(p)
    /\ job[p].op = "save" => v = job[p].val
    /\ poss = {v}
    /\ under = {v}
    /\ job' = [job EXCEPT ![p] = Returned(v)]
    /\ UNCHANGED <<poss, under>>

\* A load could not replay the log and returns what is under the path.
ReturnStale(p, v) ==
    /\ IoFaults
    /\ job[p].op = "load"
    /\ v \in under
    /\ job' = [job EXCEPT ![p] = Returned(v)]
    /\ UNCHANGED <<poss, under>>

\* A call is killed or gives up; what it did so far stays possible.
Abandon(p) ==
    /\ Running(p)
    /\ job' = [job EXCEPT ![p] = Idle]
    /\ UNCHANGED <<poss, under>>

\* A power loss ends every call and picks among the possible images.
Lose ==
    /\ job' = [p \in Procs |-> Idle]
    /\ poss' \in SUBSET poss
    /\ poss' # {}
    /\ under' \in SUBSET under
    /\ under' # {}

ANext ==
    \/ \E p \in Procs :
        \/ \E j \in Jobs : Begin(p, j)
        \/ Work(p)
        \/ Settle(p)
        \/ \E v \in Values : Return(p, v) \/ ReturnStale(p, v)
        \/ Abandon(p)
    \/ Lose

ASpec == AInit /\ [][ANext]_avars

=============================================================================
