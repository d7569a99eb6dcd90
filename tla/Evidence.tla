------------------------------- MODULE Evidence -------------------------------
(***************************************************************************)
(* What is left of the keys and of the record of an incident: CryptoEraser *)
(* (rust-core/src/intrusion/crypto_eraser.rs) and ForensicMirror           *)
(* (rust-core/src/intrusion/forensic_mirror.rs), whose events a copy that  *)
(* is kept elsewhere may lose or find changed.  A hash is the tuple of     *)
(* what goes into it.                                                      *)
(***************************************************************************)
EXTENDS Naturals, Sequences, SequencesExt

CONSTANTS
    Names,          \* names of keys; several keys may have one
    IncidentKinds,          \* event types
    Places,         \* block numbers, "none" for no block
    Fingerprints,   \* fingerprints of keys, "none" for none
    MaxKeys,        \* bound: keys registered
    MaxErasures,    \* bound: erasures
    MaxIncidents,   \* bound: events recorded
    MaxChanges      \* bound: changes to the events

VARIABLES
    keys,           \* CryptoEraser::keys, with the number of erasures before
    erasures,        \* CryptoEraser::history: the names in each record
    erased,         \* CryptoEraser::erased
    mirror,         \* ForensicMirror::events
    tip,            \* ForensicMirror::chain_tip
    recorded,       \* the events as they were recorded
    changes

evidenceVars == <<keys, erasures, erased, mirror, tip, recorded, changes>>

Zero == <<>>
Nothing == "none"

EvidenceInit ==
    /\ keys = <<>> /\ erasures = <<>> /\ erased = FALSE
    /\ mirror = <<>> /\ tip = Zero /\ recorded = <<>> /\ changes = 0

-----------------------------------------------------------------------------
(* CryptoEraser *)

\* register_key, which asks for nothing, not even whether the keys are erased
RegisterKey(name) ==
    /\ Len(keys) < MaxKeys
    /\ keys' = Append(keys, [name |-> name, live |-> TRUE, after |-> Len(erasures)])
    /\ UNCHANGED <<erasures, erased, mirror, tip, recorded, changes>>

\* Mutant of Erase: what is erased is not erased again.
EraseOnce ==
    /\ Len(erasures) < MaxErasures
    /\ keys' = IF erased THEN keys ELSE [i \in DOMAIN keys |-> [keys[i] EXCEPT !.live = FALSE]]
    /\ erasures' = Append(erasures, [i \in DOMAIN keys |-> keys[i].name])
    /\ erased' = TRUE
    /\ UNCHANGED <<mirror, tip, recorded, changes>>

\* erase: every slot is zeroed and named, those of earlier erasures once more.
Erase ==
    /\ Len(erasures) < MaxErasures
    /\ keys' = [i \in DOMAIN keys |-> [keys[i] EXCEPT !.live = FALSE]]
    /\ erasures' = Append(erasures, [i \in DOMAIN keys |-> keys[i].name])
    /\ erased' = TRUE
    /\ UNCHANGED <<mirror, tip, recorded, changes>>

-----------------------------------------------------------------------------
(* ForensicMirror *)

\* What the hash of an event covers: the type is not among it, and no block is
\* the block u64::MAX.
BlockCode(b) == IF b = Nothing THEN "max" ELSE b

HashOf(prev, e) == <<prev, BlockCode(e.block), e.ok, e.key>>

Incident == [kind : IncidentKinds, block : Places, ok : BOOLEAN, key : Fingerprints]

RecordEvent(e) ==
    /\ Len(mirror) < MaxIncidents /\ changes = 0
    /\ mirror' = Append(mirror, [data |-> e, chain |-> HashOf(tip, e)])
    /\ tip' = HashOf(tip, e)
    /\ recorded' = Append(recorded, e)
    /\ UNCHANGED <<keys, erasures, erased, changes>>

\* verify: the first event, if any, that does not follow from the hash before it.
Verify(evs) ==
    LET Prev(i) == IF i = 1 THEN Zero ELSE evs[i - 1].chain
        Wrong == {i \in DOMAIN evs : HashOf(Prev(i), evs[i].data) # evs[i].chain}
    IN IF Wrong = {} THEN 0 ELSE CHOOSE i \in Wrong : \A j \in Wrong : i <= j

Change(evs) ==
    /\ changes < MaxChanges
    /\ changes' = changes + 1
    /\ mirror' = evs
    /\ UNCHANGED <<keys, erasures, erased, tip, recorded>>

Alter(i, e) == e # mirror[i].data /\ Change([mirror EXCEPT ![i].data = e])
Lose(i) == Change(RemoveAt(mirror, i))

EvidenceNext ==
    \/ \E name \in Names : RegisterKey(name)
    \/ Erase
    \/ \E e \in Incident : RecordEvent(e)
    \/ \E i \in DOMAIN mirror : Lose(i) \/ \E e \in Incident : Alter(i, e)

EvidenceSpec == EvidenceInit /\ [][EvidenceNext]_evidenceVars

-----------------------------------------------------------------------------
\* Whatever is registered and erased in whatever order, a key that lives was
\* registered after the last erasure, although is_erased says that all are gone;
\* and the last record names every key that was there.
EraseIsComplete ==
    /\ \A i \in DOMAIN keys : keys[i].live => keys[i].after = Len(erasures)
    /\ erased => /\ erasures # <<>>
                 /\ \A i \in DOMAIN keys :
                        keys[i].live \/ (i <= Len(Last(erasures)) /\ Last(erasures)[i] = keys[i].name)

\* verify finds nothing exactly when the events are a beginning of what was
\* recorded, but for their types and for a missing block that reads as the
\* largest one; and it names the first event that is not ("immutable, chain-hashed
\* audit log", forensic_mirror.rs).
MirrorBlames ==
    LET Agrees(i) == i <= Len(recorded) /\ HashOf(Zero, mirror[i].data) = HashOf(Zero, recorded[i])
        Off == {i \in DOMAIN mirror : ~Agrees(i)}
        lost == Len(recorded) - Len(mirror)
    IN /\ lost = 0 => Verify(mirror) =
                          IF Off = {} THEN 0 ELSE CHOOSE i \in Off : \A j \in Off : i <= j
       /\ lost > 0 /\ Verify(mirror) = 0 => Off = {}

\* After an erasure only keys registered since are alive, and its record names
\* the others (crypto_eraser.rs, erase); and the mirror of the events tells what
\* was changed in them or cut out (forensic_mirror.rs, verify).
EvidenceHolds == EraseIsComplete /\ MirrorBlames

=============================================================================
