--------------------------------- MODULE Wipe ---------------------------------
(***************************************************************************)
(* Wiping a directory, rust-core/src/secure_erase.rs: wipe_dir_recursive   *)
(* and wipe_file, with power losses, failing calls, and others who delete  *)
(* files of the directory or append to them meanwhile.  A file is a row of *)
(* blocks, each of which the cache and the disk know: the content is the   *)
(* number of the pass that wrote it, 0 for the data of its owner.          *)
(***************************************************************************)
EXTENDS Naturals, Sequences, SequencesExt

CONSTANTS
    Files,          \* the files in the directory
    Outside,        \* a file elsewhere, which the link in the directory names
    Passes,         \* WipePattern::passes
    MaxSize,        \* bound: blocks of a file
    MaxRuns         \* bound: runs of wipe_dir_recursive

ASSUME WipeAssumption == Passes \in Nat \ {0} /\ MaxSize \in Nat \ {0} /\ Outside \notin Files

VARIABLES
    listed,         \* the files that have a name
    link,           \* whether the link is in the directory
    size,           \* the blocks of each file
    cache,          \* what a reader finds in each block of a file
    laid,           \* what the disk has held in it, oldest first
    run,            \* the wiping under way
    runs,           \* how many there were
    wiped           \* how many blocks a file had when wipe_file began, if it returned Ok

wipeVars == <<listed, link, size, cache, laid, run, runs, wiped>>

All == Files \cup {Outside}
Offsets == 1..MaxSize

Idle == [step |-> "idle", todo |-> {}, file |-> Outside, size |-> 0, pass |-> 1, block |-> 1]

WipeInit ==
    /\ listed = All /\ link = TRUE
    /\ size \in [All -> Offsets]
    /\ cache = [f \in All |-> [b \in Offsets |-> 0]]
    /\ laid = [f \in All |-> [b \in Offsets |-> <<0>>]]
    /\ run = Idle /\ runs = 0 /\ wiped = [f \in All |-> 0]

\* The content of a block reaches the disk.
Laid(history, new) == IF Last(history) = new THEN history ELSE Append(history, new)

-----------------------------------------------------------------------------
(* wipe_dir_recursive *)

Begin ==
    /\ run.step = "idle" /\ runs < MaxRuns
    /\ runs' = runs + 1
    /\ run' = [Idle EXCEPT !.step = "next",
                           !.todo = (listed \cap Files) \cup IF link THEN {"link"} ELSE {}]
    /\ UNCHANGED <<listed, link, size, cache, laid, wiped>>

\* The directory is removed, or something that came meanwhile keeps it.
Finish ==
    /\ run.step = "next" /\ run.todo = {}
    /\ run' = Idle
    /\ UNCHANGED <<listed, link, size, cache, laid, runs, wiped>>

\* A link is removed and not followed.
VisitLink ==
    /\ run.step = "next" /\ "link" \in run.todo
    /\ link' = FALSE
    /\ run' = [run EXCEPT !.todo = @ \ {"link"}]
    /\ UNCHANGED <<listed, size, cache, laid, runs, wiped>>

\* wipe_file takes the length and opens the file; one that is gone is passed over.
VisitFile(f) ==
    /\ run.step = "next" /\ f \in run.todo
    /\ run' = IF f \in listed
                  THEN [run EXCEPT !.step = "write", !.todo = @ \ {f}, !.file = f,
                                   !.size = size[f], !.pass = 1, !.block = 1]
                  ELSE [run EXCEPT !.todo = @ \ {f}]
    /\ wiped' = IF f \in listed THEN [wiped EXCEPT ![f] = 0] ELSE wiped
    /\ UNCHANGED <<listed, link, size, cache, laid, runs>>

\* write_all of one buffer
WriteBlock ==
    /\ run.step = "write" /\ run.block <= run.size
    /\ cache' = [cache EXCEPT ![run.file][run.block] = run.pass]
    /\ run' = [run EXCEPT !.block = @ + 1]
    /\ UNCHANGED <<listed, link, size, laid, runs, wiped>>

\* Mutant of SyncPass: only the last pass is synced.
SyncLastPass ==
    /\ run.step = "write" /\ run.block > run.size
    /\ laid' = IF run.pass = Passes
                   THEN [laid EXCEPT ![run.file] = [b \in Offsets |-> Laid(@[b], cache[run.file][b])]]
                   ELSE laid
    /\ run' = [run EXCEPT !.pass = @ + 1, !.block = 1, !.step = IF run.pass = Passes THEN "cut" ELSE @]
    /\ UNCHANGED <<listed, link, size, cache, runs, wiped>>

\* flush and sync_all end each pass.
SyncPass ==
    /\ run.step = "write" /\ run.block > run.size
    /\ laid' = [laid EXCEPT ![run.file] = [b \in Offsets |-> Laid(@[b], cache[run.file][b])]]
    /\ run' = [run EXCEPT !.pass = @ + 1, !.block = 1, !.step = IF run.pass = Passes THEN "cut" ELSE @]
    /\ UNCHANGED <<listed, link, size, cache, runs, wiped>>

\* set_len(0)
Cut ==
    /\ run.step = "cut"
    /\ size' = [size EXCEPT ![run.file] = 0]
    /\ run' = [run EXCEPT !.step = "remove"]
    /\ UNCHANGED <<listed, link, cache, laid, runs, wiped>>

\* remove_file; when another was faster, wipe_dir_recursive takes the error for
\* a file that was not there.
Unlink ==
    /\ run.step = "remove"
    /\ listed' = listed \ {run.file}
    /\ wiped' = IF run.file \in listed THEN [wiped EXCEPT ![run.file] = run.size] ELSE wiped
    /\ run' = [run EXCEPT !.step = "next"]
    /\ UNCHANGED <<link, size, cache, laid, runs>>

\* A call fails, and the error ends the run; the file is left as it is.
Fail ==
    /\ run.step # "idle"
    /\ run' = Idle
    /\ UNCHANGED <<listed, link, size, cache, laid, runs, wiped>>

-----------------------------------------------------------------------------
(* The others, and the disk *)

Vanish(f) ==
    /\ f \in listed \cap Files
    /\ listed' = listed \ {f}
    /\ UNCHANGED <<link, size, cache, laid, run, runs, wiped>>

Grow(f) ==
    /\ f \in listed \cap Files /\ size[f] \in 1..(MaxSize - 1)
    /\ size' = [size EXCEPT ![f] = @ + 1]
    /\ cache' = [cache EXCEPT ![f][size[f] + 1] = 0]
    /\ wiped' = [wiped EXCEPT ![f] = 0]
    /\ UNCHANGED <<listed, link, laid, run, runs>>

WriteBack(f, b) ==
    /\ laid' = [laid EXCEPT ![f][b] = Laid(@, cache[f][b])]
    /\ laid' # laid
    /\ UNCHANGED <<listed, link, size, cache, run, runs, wiped>>

\* What was not synced is lost; a name that was removed may be there again.
PowerLoss ==
    /\ cache' = [f \in All |-> [b \in Offsets |-> Last(laid[f][b])]]
    /\ listed' \in {listed} \cup {listed \cup {f} : f \in Files}
    /\ run' = Idle
    /\ UNCHANGED <<link, size, laid, runs, wiped>>

WipeNext ==
    \/ Begin \/ Finish \/ VisitLink \/ WriteBlock \/ SyncPass \/ Cut \/ Unlink \/ Fail
    \/ \E f \in Files : VisitFile(f) \/ Vanish(f) \/ Grow(f)
    \/ \E f \in All, b \in Offsets : WriteBack(f, b)
    \/ PowerLoss

WipeSpec == WipeInit /\ [][WipeNext]_wipeVars

-----------------------------------------------------------------------------
\* When wipe_file has returned Ok, every block that the file had when it began
\* has been overwritten on the disk by each of the passes, in their order and
\* last of all, whatever power losses and failed runs came before ("overwritten
\* `passes` times, then unlinked").  Blocks that were appended meanwhile are
\* not: the length is taken once.
EveryPassLaid ==
    \A f \in All : \A b \in 1..wiped[f] :
        IsSuffix([p \in 1..Passes |-> p], laid[f][b])

\* What a link in the directory leads to is never written ("we don't follow
\* them, we unlink them").
LinkNotFollowed == laid[Outside] = [b \in Offsets |-> <<0>>] /\ Outside \in listed

\* A wipe that returned Ok laid down every pass, and no wipe ever writes through
\* a link (secure_erase.rs, wipe_file and wipe_dir_recursive).
WipedForGood == EveryPassLaid /\ LinkNotFollowed

=============================================================================
