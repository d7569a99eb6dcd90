--------------------------- MODULE TemporalEraser ---------------------------
(***************************************************************************)
(* The background eraser of idle blocks,                                   *)
(* rust-core/src/anti_forensic/temporal_erase.rs.  The thread sleeps,      *)
(* picks the expired blocks under the lock, overwrites them without the    *)
(* lock, and takes the lock again to forget them.  Users touch and forget  *)
(* blocks at any time.                                                     *)
(*                                                                         *)
(* The unit of time is one scan_interval, and time passes while the thread *)
(* sleeps: overwriting a batch is short against the interval.  The         *)
(* erased_count statistic is left out.                                     *)
(***************************************************************************)
EXTENDS Naturals, FiniteSets

CONSTANTS
    Blocks,     \* block indices
    MaxIdle,    \* max_idle, in scan intervals
    MaxErases   \* max_erases_per_scan

ASSUME EraserAssumption ==
    /\ Blocks \subseteq Nat
    /\ MaxIdle \in Nat
    /\ MaxErases \in Nat \ {0}

VARIABLES
    tracked,    \* the keys of the blocks map
    age,        \* intervals since last_access; at MaxIdle + 1 it is expired
    content,    \* what is on the disk: user data, noise, or nothing of value
    batch,      \* the scan result the thread works on
    left,       \* the part of it that is not overwritten yet
    pc,         \* the eraser thread
    stop,       \* the stop flag
    raced       \* blocks a user last touched between a scan that picked them and its
                \* mark_erased

vars == <<tracked, age, content, batch, left, pc, stop, raced>>

TypeOK ==
    /\ tracked \in SUBSET Blocks
    /\ age \in [Blocks -> 0..(MaxIdle + 1)]
    /\ content \in [Blocks -> {"free", "data", "noise"}]
    /\ batch \in SUBSET Blocks /\ left \in SUBSET batch
    /\ pc \in {"sleep", "scan", "erase", "done"}
    /\ stop \in BOOLEAN
    /\ raced \in SUBSET Blocks
    /\ Cardinality(batch) <= MaxErases

Init ==
    /\ tracked = {}
    /\ age = [b \in Blocks |-> 0]
    /\ content = [b \in Blocks |-> "free"]
    /\ batch = {}
    /\ left = {}
    /\ pc = "sleep"
    /\ stop = FALSE
    /\ raced = {}

Expired(b) == b \in tracked /\ age[b] > MaxIdle

-----------------------------------------------------------------------------
(* Users *)

\* The thread has picked the block and is not done with it.
Races(b) == pc = "erase" /\ b \in batch

\* A block is read or written: it holds data, and its TTL starts again.
Touch(b) ==
    /\ tracked' = tracked \cup {b}
    /\ age' = [age EXCEPT ![b] = 0]
    /\ content' = [content EXCEPT ![b] = "data"]
    /\ raced' = IF Races(b) THEN raced \cup {b} ELSE raced \ {b}
    /\ UNCHANGED <<batch, left, pc, stop>>

\* The block is deleted.
Forget(b) ==
    /\ b \in tracked
    /\ tracked' = tracked \ {b}
    /\ content' = [content EXCEPT ![b] = "free"]
    /\ raced' = raced \ {b}
    /\ UNCHANGED <<age, batch, left, pc, stop>>

Stop ==
    /\ stop' = TRUE
    /\ UNCHANGED <<tracked, age, content, batch, left, pc, raced>>

-----------------------------------------------------------------------------
(* The thread *)

\* thread::sleep, and the stop flag read after it.
Sleep ==
    /\ pc = "sleep"
    /\ pc' = IF stop THEN "done" ELSE "scan"
    /\ age' = [b \in Blocks |-> IF age[b] <= MaxIdle THEN age[b] + 1 ELSE age[b]]
    /\ UNCHANGED <<tracked, content, batch, left, stop, raced>>

\* Mutant of Selected: blocks are due as soon as they are tracked.
SelectedTracked(S) == {b \in tracked : Cardinality({c \in tracked : c < b}) < MaxErases}

\* sort and truncate: the lowest indices first.
Selected(S) == {b \in S : Cardinality({c \in S : c < b}) < MaxErases}

\* scan_expired under the lock; the loop sleeps again when nothing is due.
Scan ==
    /\ pc = "scan"
    /\ batch' = Selected({b \in Blocks : Expired(b)})
    /\ left' = batch'
    /\ pc' = IF batch' = {} THEN "sleep" ELSE "erase"
    /\ UNCHANGED <<tracked, age, content, stop, raced>>

\* erase_fn on the next index; the lock is not held.
Erase(b) ==
    /\ pc = "erase"
    /\ b \in left
    /\ \A c \in left : b <= c
    /\ left' = left \ {b}
    /\ content' = [content EXCEPT ![b] = "noise"]
    /\ UNCHANGED <<tracked, age, batch, pc, stop, raced>>

\* Mutant of MarkErased: the erased blocks are not removed from the map.
MarkNothing ==
    /\ pc = "erase"
    /\ left = {}
    /\ batch' = {}
    /\ pc' = "sleep"
    /\ UNCHANGED <<tracked, age, content, left, stop, raced>>

\* mark_erased under the lock, for the whole batch.
MarkErased ==
    /\ pc = "erase"
    /\ left = {}
    /\ tracked' = tracked \ batch
    /\ batch' = {}
    /\ pc' = "sleep"
    /\ UNCHANGED <<age, content, left, stop, raced>>

Thread == Sleep \/ Scan \/ (\E b \in Blocks : Erase(b)) \/ MarkErased

Next ==
    \/ \E b \in Blocks : Touch(b) \/ Forget(b)
    \/ Stop
    \/ Thread

Spec == Init /\ [][Next]_vars

\* The thread is scheduled, and sleep returns.
FairSpec == Spec /\ WF_vars(Thread)

-----------------------------------------------------------------------------
(* What the eraser promises *)

\* Only a block that has gone without access for more than the TTL is ever
\* overwritten ("Blocks that haven't been accessed within a configurable TTL
\* are overwritten", temporal_erase.rs), unless a user accessed or deleted it
\* after the scan had picked it.
ErasesOnlyIdle ==
    [][\A b \in Blocks : content[b] # "noise" /\ content'[b] = "noise" =>
        Expired(b) \/ b \in raced \/ content[b] = "free"]_vars

\* Data on the disk always has a TTL that runs, unless a user wrote it between
\* the scan that picked its block and mark_erased.
DataIsTracked == \A b \in Blocks : content[b] = "data" => b \in tracked \/ b \in raced

\* A block that stays idle is overwritten, however users race the thread, unless
\* it is stopped.  That needs Cardinality(Blocks) <= (MaxIdle + 1) * MaxErases:
\* lower indices that expire faster than they are erased take every scan.
IdleIsErased ==
    \A b \in Blocks :
        (content[b] = "data" /\ Expired(b)) ~> (content[b] # "data" \/ ~Expired(b) \/ stop)

\* The eraser overwrites idle blocks only, and loses sight of none that hold data.
IdleOnly == []DataIsTracked /\ ErasesOnlyIdle

=============================================================================
