------------------------------ MODULE KeySlots ------------------------------
(***************************************************************************)
(* The key slots of a volume, rust-core/src/key_hierarchy/slots.rs: each   *)
(* slot holds the master key sealed under a passphrase, and revoking a     *)
(* slot disables it.  A program holds one table and stores and loads its   *)
(* bytes; it may stop at any time.                                         *)
(*                                                                         *)
(* A slot that seals master m under passphrase p unseals to m with p and   *)
(* with nothing else, so it is the pair of the two.  The header salt, which *)
(* the bytes do not contain, is kept by the caller and always at hand.     *)
(***************************************************************************)
EXTENDS Naturals, Sequences, FiniteSets

CONSTANTS
    Passphrases,
    MaxSlots,       \* MAX_SLOTS
    MaxMasters,     \* bound: master keys ever generated
    MaxIds          \* bound: slots ever created

KeySlotsAssumption ==
    MaxSlots \in Nat \ {0} /\ MaxMasters \in Nat \ {0} /\ MaxIds \in Nat

VARIABLES
    table,      \* the KeySlotTable in memory: its slots, <<>> when there is none
    saved,      \* the table in the bytes on disk
    masters,    \* how many master keys have been generated
    ids         \* how many slots have been created; the next slot_id

vars == <<table, saved, masters, ids>>

Slot == [id : 1..MaxIds, pass : Passphrases, master : 1..MaxMasters, enabled : BOOLEAN]

IsTable(t) == t \in Seq(Slot) /\ Len(t) <= MaxSlots

TypeOK == IsTable(table) /\ IsTable(saved) /\ masters \in 0..MaxMasters /\ ids \in 0..MaxIds

\* KeySlot::create, with a random slot_id.
Create(master, pass) ==
    [id |-> ids + 1, pass |-> pass, master |-> master, enabled |-> TRUE]

CountId == ids < MaxIds /\ ids' = ids + 1

Enabled(t) == {i \in DOMAIN t : t[i].enabled}

\* The slots whose unseal succeeds with the passphrase.
Opening(t, pass) == {i \in Enabled(t) : t[i].pass = pass}

\* unseal_with: the first of them wins.
Unseal(t, pass) == t[CHOOSE i \in Opening(t, pass) : \A j \in Opening(t, pass) : i <= j].master

Init ==
    /\ table = <<>>
    /\ saved = <<>>
    /\ masters = 0
    /\ ids = 0

\* fresh_master with new_initial, which is also how rotate and
\* rewrap_with_new_passphrase give a volume its next table.
NewInitial(pass) ==
    /\ masters < MaxMasters
    /\ masters' = masters + 1
    /\ CountId
    /\ table' = <<Create(masters', pass)>>
    /\ UNCHANGED saved

Rewrap(by, pass) ==
    /\ Opening(table, by) # {}
    /\ CountId
    /\ table' = <<Create(Unseal(table, by), pass)>>
    /\ UNCHANGED <<saved, masters>>

\* add_slot, with the master key that another passphrase unseals.
AddSlot(by, pass) ==
    /\ Opening(table, by) # {}
    /\ Len(table) < MaxSlots
    /\ CountId
    /\ table' = Append(table, Create(Unseal(table, by), pass))
    /\ UNCHANGED <<saved, masters>>

\* revoke_slot; a slot that is disabled already may be revoked again.
RevokeSlot(i) ==
    /\ Cardinality(Enabled(table)) > 1
    /\ table' = [table EXCEPT ![i].enabled = FALSE]
    /\ UNCHANGED <<saved, masters, ids>>

\* to_bytes, and the caller's write.
Store ==
    /\ table # <<>>
    /\ saved' = table
    /\ UNCHANGED <<table, masters, ids>>

\* Mutant of Load: flags are not part of the bytes.
LoadEnabled ==
    /\ saved # <<>>
    /\ table' = [i \in DOMAIN saved |-> [saved[i] EXCEPT !.enabled = TRUE]]
    /\ UNCHANGED <<saved, masters, ids>>

\* from_bytes, whose MAC matches.
Load ==
    /\ saved # <<>>
    /\ table' = saved
    /\ UNCHANGED <<saved, masters, ids>>

Exit ==
    /\ table' = <<>>
    /\ UNCHANGED <<saved, masters, ids>>

Next ==
    \/ \E p \in Passphrases : NewInitial(p)
    \/ \E by, p \in Passphrases : Rewrap(by, p) \/ AddSlot(by, p)
    \/ \E i \in DOMAIN table : RevokeSlot(i)
    \/ Store
    \/ Load
    \/ Exit

Spec == Init /\ [][Next]_vars

-----------------------------------------------------------------------------
(* What the slots promise *)

\* A table, in memory or on disk, can be opened with some passphrase ("we
\* refuse to lock the user out", slots.rs), over any sequence of additions,
\* revocations, stores and restarts.
NeverLockedOut ==
    \A t \in {table, saved} : t # <<>> => Enabled(t) # {}

\* All passphrases of a table open the same volume.
OneMaster ==
    \A t \in {table, saved} : \A i, j \in DOMAIN t : t[i].master = t[j].master

\* A revocation that has been stored stays, over additions, restarts and loads:
\* no table on disk ever has the slot enabled again.
RevokedStays ==
    [][\A i \in DOMAIN saved, j \in DOMAIN saved' :
        saved[i].id = saved'[j].id /\ saved'[j].enabled => saved[i].enabled]_vars

\* Tables stay open to somebody and closed to the revoked, for one volume.
SlotsHold == [](NeverLockedOut /\ OneMaster) /\ RevokedStays

=============================================================================
