------------------------------ MODULE Snapshots ------------------------------
(***************************************************************************)
(* Snapshots and versions of a file, rust-core/src/snapshot_engine.  A     *)
(* snapshot is a file in a directory, named after the hash of what it      *)
(* holds and written in place; so is the source when it is rolled back.    *)
(* The program can stop inside a write, which leaves "torn".  The version  *)
(* chain is a list of records that link the hashes of ciphertexts.         *)
(* A hash stands for what was hashed; the empty tuple stands for GENESIS.  *)
(***************************************************************************)
EXTENDS Naturals, SequencesExt

CONSTANTS
    Contents,       \* what the source can hold
    MaxVersions,    \* bound: records in the chain
    MaxEdits        \* bound: edits of the source

SnapshotsAssumption ==
    /\ {"torn", "none"} \cap Contents = {}
    /\ MaxVersions \in Nat /\ MaxEdits \in Nat

VARIABLES
    source,         \* the file that is snapshotted
    root,           \* the snapshot directory, by the hash in the name
    manifests,      \* the manifests handed out, by their blake3
    job,            \* the call that is between two writes
    result,         \* what the last rollback did
    edits,
    appended,       \* the ciphertexts given to append
    records         \* VersionChain::records, as they are read back

snapshotsVars == <<source, root, manifests, job, result, edits, appended, records>>
files == <<source, root, manifests, job, result, edits>>
chain == <<appended, records>>

NoCall == [call |-> "none", of |-> "none"]
Kept == Contents \cup {"torn"}

SnapsInit ==
    /\ source \in Contents /\ root = [c \in Kept |-> "none"] /\ manifests = {}
    /\ job = NoCall /\ result = NoCall /\ edits = 0
    /\ appended = <<>> /\ records = <<>>

-----------------------------------------------------------------------------
(* snapshot_file and rollback *)

\* The write opens the file and cuts it to nothing before it has any data.
SnapshotFile ==
    /\ job = NoCall
    /\ root' = [root EXCEPT ![source] = "torn"]
    /\ job' = [call |-> "snapshot", of |-> source]
    /\ UNCHANGED <<source, manifests, result, edits, chain>>

SnapshotDone ==
    /\ job.call = "snapshot"
    /\ root' = [root EXCEPT ![job.of] = job.of]
    /\ manifests' = manifests \cup {job.of}
    /\ job' = NoCall
    /\ UNCHANGED <<source, result, edits, chain>>

\* Mutant of Matches: whatever the file holds is put back.
MatchesAny(m) == root[m] # "none"

Matches(m) == root[m] = m

Rollback(m) ==
    /\ job = NoCall
    /\ IF Matches(m)
       THEN /\ source' = "torn"
            /\ job' = [call |-> "rollback", of |-> m]
            /\ result' = NoCall
       ELSE /\ result' = [call |-> "error", of |-> m]
            /\ UNCHANGED <<source, job>>
    /\ UNCHANGED <<root, manifests, edits, chain>>

RollbackDone ==
    /\ job.call = "rollback"
    /\ source' = root[job.of]
    /\ result' = [call |-> "restored", of |-> job.of]
    /\ job' = NoCall
    /\ UNCHANGED <<root, manifests, edits, chain>>

Stop ==
    /\ job # NoCall
    /\ job' = NoCall
    /\ result' = [call |-> "stopped", of |-> job.of]
    /\ UNCHANGED <<source, root, manifests, edits, chain>>

Edit(c) ==
    /\ job = NoCall /\ edits < MaxEdits
    /\ source' = c /\ edits' = edits + 1 /\ result' = NoCall
    /\ UNCHANGED <<root, manifests, job, chain>>

-----------------------------------------------------------------------------
(* VersionChain *)

Chained(sequence, prev, ct) == <<sequence, prev, ct>>
LastOf(recs) == IF recs = <<>> THEN <<>> ELSE Last(recs).chain

AppendVersion(ct) ==
    /\ Len(appended) < MaxVersions /\ Len(records) = Len(appended)
    /\ LET n == Len(records) + 1
       IN records' = Append(records, [sequence |-> n, previous |-> LastOf(records), ct |-> ct,
                                      chain |-> Chained(n, LastOf(records), ct)])
    /\ appended' = Append(appended, ct)
    /\ UNCHANGED files

\* The list is kept elsewhere and comes back without one of its records.
LoseRecord(i) ==
    /\ Len(records) = Len(appended)
    /\ records' = RemoveAt(records, i)
    /\ UNCHANGED <<appended, files>>

Linked(i, prev) ==
    /\ records[i].chain = Chained(records[i].sequence, prev, records[i].ct)
    /\ records[i].previous = prev

Verify(cts) ==
    /\ Len(records) = Len(cts)
    /\ \A i \in DOMAIN records :
        /\ records[i].ct = cts[i]
        /\ Linked(i, IF i = 1 THEN <<>> ELSE records[i - 1].chain)

SnapsNext ==
    \/ SnapshotFile \/ SnapshotDone \/ RollbackDone \/ Stop
    \/ \E m \in manifests : Rollback(m)
    \/ \E c \in Contents : Edit(c) \/ AppendVersion(c)
    \/ \E i \in DOMAIN records : LoseRecord(i)

SnapsSpec == SnapsInit /\ [][SnapsNext]_snapshotsVars

-----------------------------------------------------------------------------
(* Properties *)

\* A rollback that says it worked has put back what the manifest was made of,
\* whatever a stopped snapshot of the same content left under its name.
RestoresExactly == result.call = "restored" => source = result.of

\* A rollback that was stopped can be run again: a source it tore has a whole
\* snapshot to be made from.
RetryWorks == result.call = "stopped" /\ source = "torn" /\ result.of # "torn" => root[result.of] = result.of

\* The list verifies with the ciphertexts that were appended, and with nothing
\* but a first part of them once a record of it is gone.
VersionsTell ==
    /\ Len(records) = Len(appended) => Verify(appended)
    /\ \A cts \in SeqOf(Contents, MaxVersions) : Verify(cts) => IsPrefix(cts, appended)

\* What the snapshot directory and the chain promise.
SnapshotsTell == RestoresExactly /\ RetryWorks /\ VersionsTell

=============================================================================
