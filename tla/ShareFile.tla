----------------------------- MODULE ShareFile -----------------------------
(***************************************************************************)
(* The share file of a volume, rust-core/src/crypto_engine/shares.rs: a    *)
(* history of recipients added and revoked, with a chain of digests.  Each *)
(* run of the program opens the file, changes its copy, and saves it by    *)
(* way of a temporary file whose name all runs share.  A run may be cut    *)
(* short; several may be under way.                                        *)
(*                                                                         *)
(* Files are inodes: writing follows the inode that was opened, renaming   *)
(* moves the name.  The owner has one key and one volume.  An envelope     *)
(* opens for its recipient; of a signature the place in the history counts *)
(* that it covers.  A digest is the sequence it is a digest of.            *)
(***************************************************************************)
EXTENDS Naturals, Sequences, SequencesExt

CONSTANTS
    Runs,           \* runs of the program that may be under way together
    Recipients,     \* public keys, which are also their key ids
    MaxOps          \* bound: runs in all

ASSUME ShareFileAssumption == MaxOps \in Nat

VARIABLES
    name, tmp,      \* the inodes of the share file and the temporary file, 0 if none
    inodes,         \* what each inode holds: bytes of a share file, or a part of them
    pc,             \* each run's place: "idle", "change", "create", "write", "rename"
    copy, fd,       \* each run's ShareFile and the inode it writes, 0 if none
    ops             \* runs started

sharesVars == <<name, tmp, inodes, pc, copy, fd, ops>>

Inodes == 1..MaxOps

Event == [what : {"added", "revoked"}, who : Recipients]
Empty == [whole |-> TRUE, events |-> <<>>, chain |-> <<>>]
Torn == [whole |-> FALSE, events |-> <<>>, chain |-> <<>>]

SharesInit ==
    /\ name = 0
    /\ tmp = 0
    /\ inodes = [i \in Inodes |-> Torn]
    /\ pc = [r \in Runs |-> "idle"]
    /\ copy = [r \in Runs |-> Empty]
    /\ fd = [r \in Runs |-> 0]
    /\ ops = 0

\* append_chain_hash.
Pushed(sf, what, who) ==
    LET e == [what |-> what, who |-> who]
        prev == IF sf.chain = <<>> THEN <<>> ELSE Last(sf.chain)
    IN  [sf EXCEPT !.events = Append(@, e), !.chain = Append(@, Append(prev, e))]

\* verify_chain.
ChainHolds(sf) ==
    /\ Len(sf.chain) = Len(sf.events)
    /\ \A i \in DOMAIN sf.chain : sf.chain[i] = SubSeq(sf.events, 1, i)

HasHistory(sf, who) == \E i \in DOMAIN sf.events : sf.events[i].who = who

Places(sf, who) == {i \in DOMAIN sf.events : sf.events[i].who = who}

\* latest_state_per_recipient
Latest(sf, who) == Max(Places(sf, who))

\* active_envelopes, list_active
Active(sf) == {e.who : e \in {f \in ToSet(sf.events) : sf.events[Latest(sf, f.who)].what = "added"}}

\* list_revoked
Revoked(sf) == {e.who : e \in {f \in ToSet(sf.events) : sf.events[Latest(sf, f.who)].what = "revoked"}}

\* The envelopes are tried where their recipients first appear, and each is
\* checked as if it had been signed there; it was signed where it was added.
\* One that does not verify ends the search.
Unlocks(sf, who, signed) ==
    /\ who \in Active(sf)
    /\ signed => \A other \in Active(sf) :
        LET first == Min(Places(sf, other)) IN
        first <= Min(Places(sf, who)) => Latest(sf, other) = first

OnDisk == IF name = 0 THEN Empty ELSE inodes[name]

\* Share unlock changes nothing but the file it writes the key to.  It asks for
\* the chain only with the volume's passphrase, and for signatures only with
\* the owner's key.
UnlockRun(who, chained, signed) ==
    /\ name # 0 /\ OnDisk.whole
    /\ chained => ChainHolds(OnDisk)
    /\ Unlocks(OnDisk, who, signed)

Goto(r, where) == pc' = [pc EXCEPT ![r] = where]

-----------------------------------------------------------------------------
(* One run *)

\* open; a file that does not parse or verify ends the run.
OpenFile(r) ==
    /\ pc[r] = "idle"
    /\ ops < MaxOps
    /\ ops' = ops + 1
    /\ copy' = [copy EXCEPT ![r] = OnDisk]
    /\ Goto(r, IF OnDisk.whole /\ ChainHolds(OnDisk) THEN "change" ELSE "idle")
    /\ UNCHANGED <<name, tmp, inodes, fd>>

AddRecipient(r, who) ==
    /\ pc[r] = "change"
    /\ ~HasHistory(copy[r], who)
    /\ copy' = [copy EXCEPT ![r] = Pushed(@, "added", who)]
    /\ Goto(r, "create")
    /\ UNCHANGED <<name, tmp, inodes, fd, ops>>

\* Mutant of RevokeRecipient: the chain is not extended.
RevokeUnchained(r, who) ==
    /\ pc[r] = "change"
    /\ who \in Active(copy[r])
    /\ copy' = [copy EXCEPT ![r].events = Append(@, [what |-> "revoked", who |-> who])]
    /\ Goto(r, "create")
    /\ UNCHANGED <<name, tmp, inodes, fd, ops>>

RevokeRecipient(r, who) ==
    /\ pc[r] = "change"
    /\ who \in Active(copy[r])
    /\ copy' = [copy EXCEPT ![r] = Pushed(@, "revoked", who)]
    /\ Goto(r, "create")
    /\ UNCHANGED <<name, tmp, inodes, fd, ops>>

\* Removing a stranger is no error: the copy is saved as it is.
RevokeNobody(r, who) ==
    /\ pc[r] = "change"
    /\ ~HasHistory(copy[r], who)
    /\ Goto(r, "create")
    /\ UNCHANGED <<name, tmp, inodes, copy, fd, ops>>

Unused == CHOOSE i \in Inodes : i \notin {name, tmp} /\ \A r \in Runs : fd[r] # i

\* save: the temporary file is created, or the one that is there is emptied.
CreateTmp(r) ==
    /\ pc[r] = "create"
    /\ tmp' = IF tmp = 0 THEN Unused ELSE tmp
    /\ fd' = [fd EXCEPT ![r] = tmp']
    /\ inodes' = [inodes EXCEPT ![tmp'] = Torn]
    /\ Goto(r, "write")
    /\ UNCHANGED <<name, copy, ops>>

\* The bytes, and sync_all.
WriteTmp(r) ==
    /\ pc[r] = "write"
    /\ inodes' = [inodes EXCEPT ![fd[r]] = copy[r]]
    /\ Goto(r, "rename")
    /\ UNCHANGED <<name, tmp, copy, fd, ops>>

\* The rename fails when another run's rename has taken the file.
Rename(r) ==
    /\ pc[r] = "rename"
    /\ IF tmp # 0 THEN name' = tmp /\ tmp' = 0 ELSE UNCHANGED <<name, tmp>>
    /\ fd' = [fd EXCEPT ![r] = 0]
    /\ Goto(r, "idle")
    /\ UNCHANGED <<inodes, copy, ops>>

\* The run ends early: nothing to change, an error, or a crash.
Quit(r) ==
    /\ pc[r] # "idle"
    /\ fd' = [fd EXCEPT ![r] = 0]
    /\ Goto(r, "idle")
    /\ UNCHANGED <<name, tmp, inodes, copy, ops>>

Step(r) ==
    \/ OpenFile(r)
    \/ \E who \in Recipients : AddRecipient(r, who) \/ RevokeRecipient(r, who) \/ RevokeNobody(r, who)
    \/ CreateTmp(r)
    \/ WriteTmp(r)
    \/ Rename(r)
    \/ Quit(r)

SharesNext == \E r \in Runs : Step(r)

SharesSpec == SharesInit /\ [][SharesNext]_sharesVars

-----------------------------------------------------------------------------
(* What the share file promises *)

\* The share file can be opened, wherever a run was cut short ("atomic rename
\* + parent dir fsync", shares.rs).
AlwaysOpens == OnDisk.whole /\ ChainHolds(OnDisk)

\* The history on disk only grows ("append-only: every Added and Revoked event
\* is recorded", shares.rs).
AppendOnly == [][IsPrefix(OnDisk.events, OnDisk'.events)]_sharesVars

\* Who is revoked never becomes active again ("use a fresh keypair to
\* re-share", shares.rs).
RevokedForGood ==
    [][\A who \in Recipients :
        HasHistory(OnDisk, who) /\ who \notin Active(OnDisk) => who \notin Active(OnDisk')]_sharesVars

\* Whatever it is asked to check, share unlock gives the key to exactly those who
\* are listed as active: an envelope is never checked against the wrong place, and
\* who was shared with is in one list and not in the other.
UnlocksForActive ==
    /\ \A who \in Recipients, chained, signed \in BOOLEAN :
        UnlockRun(who, chained, signed) <=> who \in Active(OnDisk)
    /\ Active(OnDisk) \cap Revoked(OnDisk) = {}
    /\ Active(OnDisk) \cup Revoked(OnDisk) = {who \in Recipients : HasHistory(OnDisk, who)}

\* The share file opens for those it should, grows, and forgets no revocation.
SharesHold == [](AlwaysOpens /\ UnlocksForActive) /\ AppendOnly /\ RevokedForGood

=============================================================================
