----------------------------- MODULE Revocation -----------------------------
(***************************************************************************)
(* The revocation engine, rust-core/src/policy/revocation.rs, over its     *)
(* audit log: revoke takes the capability away, opens the log, appends a   *)
(* record and then notes it in memory.  The engine is owned by one thread, *)
(* and one process writes the log.  An audit path is configured.  Between  *)
(* revokes the same process uses the log through a handle of its own, which *)
(* it opens anew after every revoke: it appends and rotates.               *)
(*                                                                         *)
(* A capability is valid until its TTL elapses, at an arbitrary moment;    *)
(* scopes, which do not change, are left out.                              *)
(***************************************************************************)
EXTENDS AuditLog

CONSTANTS Procs, NoProc

ASSUME RevocationAssumption == NoProc \notin Procs

VARIABLES
    active,     \* the capability of each process
    history,    \* the calls of append the engine has noted as revoked
    busy,       \* the process revoke is working on
    made        \* the calls of append that revoke made since the engine started

engine == <<active, history, busy, made>>
vars == <<logVars, engine>>

Init ==
    /\ LogInit
    /\ active = [p \in Procs |-> "none"]
    /\ history = <<>>
    /\ busy = NoProc
    /\ made = {}

Issue(p) ==
    /\ busy = NoProc
    /\ active' = [active EXCEPT ![p] = "valid"]
    /\ UNCHANGED <<logVars, history, busy, made>>

Expire(p) ==
    /\ active[p] = "valid"
    /\ active' = [active EXCEPT ![p] = "expired"]
    /\ UNCHANGED <<logVars, history, busy, made>>

ReapExpired ==
    /\ busy = NoProc
    /\ active' = [p \in Procs |-> IF active[p] = "expired" THEN "none" ELSE active[p]]
    /\ UNCHANGED <<logVars, history, busy, made>>

\* revoke, up to the open of the log; without a capability it does nothing.
Revoke(p) ==
    /\ busy = NoProc /\ pc = <<"idle">>
    /\ active[p] # "none"
    /\ active' = [active EXCEPT ![p] = "none"]
    /\ busy' = p
    /\ handle' = Closed
    /\ UNCHANGED <<file, archive, pc, entry, glued, calls, acked, aged, hit, history, made>>

OpenLog ==
    /\ busy # NoProc
    /\ ~handle.open
    /\ Open
    /\ UNCHANGED engine

\* revoke calls append.
BeginRecord ==
    /\ busy # NoProc
    /\ Begin
    /\ made' = made \cup {entry'.call}
    /\ UNCHANGED <<active, history, busy>>

\* The entry on its way to the disk.
WriteRecord ==
    /\ busy # NoProc
    /\ WritePart \/ WriteFull \/ WriteNewline
    /\ UNCHANGED engine

\* Mutant of Noted: the record is not kept.
NotedNothing == history

Noted == Append(history, entry.call)

\* append returned Ok: the record is kept, and revoke returns it.
Finish ==
    /\ busy # NoProc
    /\ SyncReturn
    /\ history' = Noted
    /\ busy' = NoProc
    /\ UNCHANGED <<active, made>>

\* open or append failed, and revoke returns the error without its handle.
GiveUp ==
    /\ busy # NoProc
    /\ \/ Fail /\ handle' = Closed
       \/ "error" \in Faults /\ ~handle.open /\ UNCHANGED logVars
    /\ busy' = NoProc
    /\ UNCHANGED <<active, history, made>>

\* Between revokes the process uses the log for itself.
OwnCall ==
    /\ busy = NoProc
    /\ LogCall
    /\ UNCHANGED engine

\* A new process has a new engine: capabilities and history are in memory only.
Restart ==
    /\ Crash
    /\ active' = [p \in Procs |-> "none"]
    /\ history' = <<>>
    /\ busy' = NoProc
    /\ made' = {}

Next ==
    \/ \E p \in Procs : Issue(p) \/ Expire(p) \/ Revoke(p)
    \/ ReapExpired
    \/ OpenLog \/ BeginRecord \/ WriteRecord \/ Finish \/ GiveUp
    \/ OwnCall
    \/ Restart

Spec == Init /\ [][Next]_vars

-----------------------------------------------------------------------------
(* What the engine promises *)

Noticed == {history[i] : i \in DOMAIN history}

\* Between calls: whatever crashes, as long as no call on the log has failed, a
\* revocation of the running engine that can be read in the log is one it remembers;
\* and without faults the log has all that it remembers ("the in-memory and on-disk
\* states never disagree", revocation.rs).  Where an append fails after its entry is
\* in the file they do disagree, so that case is excepted.
HistoryMatchesLog ==
    busy = NoProc /\ pc = <<"idle">> =>
        /\ "error" \notin hit => made \cap Readable \subseteq Noticed
        /\ hit = {} => Noticed \subseteq Readable \cup aged

=============================================================================
