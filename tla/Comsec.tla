------------------------------- MODULE Comsec -------------------------------
(***************************************************************************)
(* The COMSEC custody ledger, rust-core/src/omega/comsec.rs: keys with     *)
(* their chains of custody events, and the inventory of keys and of        *)
(* certificates of destruction.                                            *)
(*                                                                         *)
(* A ComsecKey is a value: callers hold copies, append events to theirs or *)
(* to the inventory's, and insert a copy into the inventory, where it      *)
(* replaces the one with its key_id.  The digest of an event is the tuple  *)
(* of what is hashed.                                                      *)
(***************************************************************************)
EXTENDS Naturals, Sequences

CONSTANTS
    Holders,
    ShortIds,
    EventKinds,     \* kinds of event; "Destroy" is the terminal one
    MaxMillis,      \* bound: clock ticks
    MaxEvents       \* bound: events of a key

ComsecAssumption ==
    MaxMillis \in Nat /\ MaxEvents \in Nat /\ "flipped" \notin EventKinds

VARIABLES
    now,        \* the wall clock, in milliseconds
    held,       \* the copy of a key that each holder has, or NoKey
    keys,       \* KeyInventory.keys
    certs,      \* KeyInventory.destroyed: the keys with a certificate
    issued      \* the keys for which a certificate has been issued

comsecVars == <<now, held, keys, certs, issued>>

NoKey == [id |-> "none"]
Genesis == [id |-> "zero"]

\* ComsecKey::new: the short id and the millisecond give the key_id.
KeyId(short, t) == <<short, t>>
KeyIds == ShortIds \X (0..MaxMillis)

\* split and flipped are for the properties: whether the clock ticked within an
\* append, and the field in which a bit has flipped.
NewKey(short) ==
    [id |-> KeyId(short, now), chain |-> <<>>, last |-> Genesis, destroyed |-> FALSE,
     split |-> FALSE, flipped |-> "none"]

\* What is hashed for an event: not the witness, and the key's key_id.
Digest(prev, id, t, kind) == [prev |-> prev, id |-> id, t |-> t, kind |-> kind]

(***************************************************************************)
(* append_event with the two readings of the clock; the digest has the     *)
(* first and the event the second.                                         *)
(***************************************************************************)

Linked(key, prev, kind, t1, t2) ==
    LET e == [event_id |-> Digest(prev, key.id, t1, kind), prev |-> prev, key_id |-> key.id,
              stamp |-> t2, kind |-> kind, witness |-> "signed"]
    IN  [key EXCEPT !.chain = Append(@, e),
                    !.last = e.event_id,
                    !.destroyed = @ \/ kind = "Destroy",
                    !.split = @ \/ t1 # t2]

\* Mutant of Appended: an event links to the first one.
AppendedToFirst(key, kind, t1, t2) ==
    Linked(key, IF key.chain = <<>> THEN Genesis ELSE key.chain[1].event_id, kind, t1, t2)

\* An event links to last_event, the field, and not to the end of the chain.
Appended(key, kind, t1, t2) == Linked(key, key.last, kind, t1, t2)

MayAppend(key) == key # NoKey /\ ~key.destroyed /\ Len(key.chain) < MaxEvents

\* verify_chain, for one event.
EventOK(key, i) ==
    LET e == key.chain[i]
        prev == IF i = 1 THEN Genesis ELSE key.chain[i - 1].event_id
    IN  e.prev = prev /\ e.event_id = Digest(prev, key.id, e.stamp, e.kind)

VerifyChain(key) == \A i \in DOMAIN key.chain : EventOK(key, i)

LedgerInit ==
    /\ now = 0
    /\ held = [h \in Holders |-> NoKey]
    /\ keys = [id \in KeyIds |-> NoKey]
    /\ certs = {}
    /\ issued = {}

LedgerTick == now < MaxMillis /\ now' = now + 1 /\ UNCHANGED <<held, keys, certs, issued>>

Copies == ({held[h] : h \in Holders} \cup {keys[id] : id \in KeyIds}) \ {NoKey}

\* Nobody creates two keys of one short id in one millisecond.
Create(h, short) ==
    /\ KeyId(short, now) \notin {key.id : key \in Copies} \cup issued
    /\ held' = [held EXCEPT ![h] = NewKey(short)]
    /\ UNCHANGED <<now, keys, certs, issued>>

\* The second reading of the clock.
Reading == {now} \cup (IF now < MaxMillis THEN {now + 1} ELSE {})

\* append_event, and issue_destroy_certificate when the event is a destruction.
Issues(key, kind) ==
    issued' = issued \cup (IF kind = "Destroy" THEN {key.id} ELSE {})

AppendHeld(h, kind) ==
    /\ MayAppend(held[h])
    /\ now' \in Reading
    /\ held' = [held EXCEPT ![h] = Appended(@, kind, now, now')]
    /\ Issues(held[h], kind)
    /\ UNCHANGED <<keys, certs>>

AppendKept(id, kind) ==
    /\ MayAppend(keys[id])
    /\ now' \in Reading
    /\ keys' = [keys EXCEPT ![id] = Appended(@, kind, now, now')]
    /\ Issues(keys[id], kind)
    /\ UNCHANGED <<held, certs>>

\* KeyInventory::insert, of a copy.
Insert(h) ==
    /\ held[h] # NoKey
    /\ keys' = [keys EXCEPT ![held[h].id] = held[h]]
    /\ UNCHANGED <<now, held, certs, issued>>

\* KeyInventory::get and a clone.
Fetch(h, id) ==
    /\ keys[id] # NoKey
    /\ held' = [held EXCEPT ![h] = keys[id]]
    /\ UNCHANGED <<now, keys, certs, issued>>

\* record_destroy: the certificate replaces an earlier one, and then it is an Err.
RecordDestroy(id) ==
    /\ keys' = [keys EXCEPT ![id] = IF @ = NoKey THEN NoKey ELSE [@ EXCEPT !.destroyed = TRUE]]
    /\ certs' = certs \cup {id}
    /\ UNCHANGED <<now, held, issued>>

Fields == {"event_id", "prev", "stamp", "kind", "witness", "key_id"}

\* A bit flips in a field of an event of the inventory; one flip at a time.
Flipped(e, field) ==
    CASE field = "event_id" -> [e EXCEPT !.event_id = [flip |-> "event_id"]]
      [] field = "prev"    -> [e EXCEPT !.prev = [flip |-> "prev"]]
      [] field = "stamp"   -> [e EXCEPT !.stamp = @ + MaxMillis + 1]
      [] field = "kind"    -> [e EXCEPT !.kind = "flipped"]
      [] field = "witness" -> [e EXCEPT !.witness = "flipped"]
      [] field = "key_id"  -> [e EXCEPT !.key_id = <<"flipped", 0>>]

Flip(id, i, field) ==
    /\ keys[id] # NoKey /\ i \in DOMAIN keys[id].chain
    /\ \A key \in Copies : key.flipped = "none"
    /\ keys' = [keys EXCEPT ![id].chain[i] = Flipped(@, field), ![id].flipped = field]
    /\ UNCHANGED <<now, held, certs, issued>>

LedgerNext ==
    \/ LedgerTick
    \/ \E h \in Holders : \/ \E short \in ShortIds : Create(h, short)
                          \/ \E kind \in EventKinds : AppendHeld(h, kind)
                          \/ \E id \in KeyIds : Fetch(h, id)
                          \/ Insert(h)
    \/ \E id \in KeyIds : \/ \E kind \in EventKinds : AppendKept(id, kind)
                       \/ \E i \in 1..MaxEvents, field \in Fields : Flip(id, i, field)
    \/ \E id \in issued : RecordDestroy(id)

LedgerSpec == LedgerInit /\ [][LedgerNext]_comsecVars

(***************************************************************************)
(* Properties.                                                             *)
(***************************************************************************)

\* Destruction is the last event of a key, in every copy of it, even when copies
\* are fetched and inserted in any order (append_event).
DestroyIsTerminal ==
    \A key \in Copies : \A i \in DOMAIN key.chain :
        key.chain[i].kind = "Destroy" => i = Len(key.chain) /\ key.destroyed

\* The chain of every copy in which no bit has flipped verifies, whatever copies
\* were fetched, extended and inserted (append_event and verify_chain), unless the
\* clock ticked between the two readings of one append.
ChainsVerify == \A key \in Copies : key.flipped = "none" /\ ~key.split => VerifyChain(key)

\* A chain in which a bit that is hashed has flipped never verifies again, however
\* many events follow it (verify_chain).  The witness and the event's copy of the
\* key_id are not hashed.
FlipsFound ==
    \A key \in Copies : key.flipped \in {"event_id", "prev", "stamp", "kind"} => ~VerifyChain(key)

\* A chain verifies if nothing that is hashed has flipped, and only then
\* (verify_chain).
VerifyIsExact == ChainsVerify /\ FlipsFound

\* The ledger of a key ends with its destruction and verifies exactly when
\* nothing hashed in it has changed.
LedgerHolds == DestroyIsTerminal /\ VerifyIsExact

=============================================================================
