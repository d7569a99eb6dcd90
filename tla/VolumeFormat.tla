---------------------------- MODULE VolumeFormat ----------------------------
(***************************************************************************)
(* The volume format of rust-core/src/fs_layer/storage.rs and the block    *)
(* encryption of rust-core/src/crypto_engine/block.rs, as terms: a         *)
(* ciphertext is a record of what it was made with, a hash the tuple of    *)
(* what was hashed, with GENESIS as <<>>.  A slice of the ciphertext blob  *)
(* is the ciphertext itself.  Positions count from 1, block indices from 0.*)
(***************************************************************************)
EXTENDS Naturals, Sequences, SequencesExt

CONSTANTS
    Keys,           \* domain keys
    Contents,       \* what a file may hold: sequences of blocks
    MaxFiles,       \* bound: files written
    MaxDamages      \* bound: changes to the copy that is read

VolumeFormatAssumption == Contents \subseteq Seq(UNION {Range(chunks) : chunks \in Contents})

NoBlocks == [size |-> 0, index |-> <<>>]

VARIABLES
    written,        \* the files written, with their key and their contents
    copy,           \* the OnDiskFile read back, possibly damaged
    stored,         \* its bytes: the header, its digest and the index
    damages

formatVars == <<written, copy, stored, damages>>

-----------------------------------------------------------------------------
(* crypto_engine/block.rs; the draw is the nonce *)

\* Mutant of Lineage: a hash does not cover the one before it.
LineageAlone(prev, ct) == <<ct>>

Lineage(prev, ct) == Append(prev, ct)

EncryptBlock(key, i, chunk, prev, draw) ==
    [key |-> key, at |-> i, prev |-> prev, draw |-> draw, chunk |-> chunk]

DecryptsBlock(key, i, prev, nonce, ct) ==
    /\ ct.key = key /\ ct.at = i /\ ct.prev = prev
    /\ ct.draw = nonce

-----------------------------------------------------------------------------
(* storage.rs *)

EncryptToDisk(key, chunks, draw) ==
    LET Entries[n \in 0..Len(chunks)] ==
            IF n = 0 THEN <<>>
            ELSE LET prev == IF n = 1 THEN <<>> ELSE Entries[n - 1][n - 1].lineage
                     ct == EncryptBlock(key, n - 1, chunks[n], prev, draw)
                 IN Append(Entries[n - 1],
                        [block |-> n - 1, nonce |-> draw, ct |-> ct, lineage |-> Lineage(prev, ct)])
    IN [size |-> Len(chunks), index |-> Entries[Len(chunks)]]

\* The header digest covers the field it is stored in.
HeaderDigest(size, count, field) == Append(field, <<size, count>>)
Blank == <<>>

ToBytes(file) ==
    [size |-> file.size, count |-> Len(file.index), index |-> file.index,
     digest |-> HeaderDigest(file.size, Len(file.index), Blank)]

FromBytesOK(bytes) == bytes.digest = HeaderDigest(bytes.size, bytes.count, bytes.digest)

\* verify_lineage
VerifyLineage(file) ==
    \A n \in DOMAIN file.index :
        file.index[n].lineage =
            Lineage(IF n = 1 THEN <<>> ELSE file.index[n - 1].lineage, file.index[n].ct)

\* The entry before, as the block index of the entry tells; out of range it
\* panics.
HasPrev(file, item) == item.block <= Len(file.index)
LineagePrevFor(file, item) == IF item.block = 0 THEN <<>> ELSE file.index[item.block].lineage

DecryptsEntry(key, file, item) ==
    /\ HasPrev(file, item)
    /\ DecryptsBlock(key, item.block, LineagePrevFor(file, item), item.nonce, item.ct)

\* verify_key_for_volume looks at the first block only.
VerifyKey(key, file) == file.index # <<>> => DecryptsEntry(key, file, file.index[1])

PlaintextOK(key, file) ==
    /\ VerifyLineage(file)
    /\ \A n \in DOMAIN file.index : DecryptsEntry(key, file, file.index[n])

\* The plaintext, truncated to the size of the header.
Plaintext(file) ==
    [n \in 1..(IF file.size < Len(file.index) THEN file.size ELSE Len(file.index)) |->
        file.index[n].ct.chunk]

\* What list and verify print of a volume they could load.
Listed(file) ==
    [plaintext_size |-> file.size, block_count |-> Len(file.index), lineage_ok |-> VerifyLineage(file)]
Verified(file) == VerifyLineage(file)

-----------------------------------------------------------------------------
FormatInit == written = {} /\ copy = NoBlocks /\ stored = ToBytes(NoBlocks) /\ damages = 0

\* encrypt_to_disk and to_bytes.  The draw tells files of one content apart.
WriteVolume(key, chunks) ==
    /\ Cardinality(written) < MaxFiles /\ damages = 0
    /\ LET file == EncryptToDisk(key, chunks, Cardinality(written)) IN
       /\ written' = written \cup {[key |-> key, chunks |-> chunks, file |-> file]}
       /\ copy' = file
       /\ stored' = ToBytes(file)
    /\ UNCHANGED damages

Damage(index, size) ==
    /\ damages < MaxDamages
    /\ damages' = damages + 1
    /\ copy' = [size |-> size, index |-> index]
    /\ UNCHANGED <<written, stored>>

\* Entries get lost, change places or stand in for others, and fields change.
LoseEntry(n) == Damage(RemoveAt(copy.index, n), copy.size)
SwapEntries(m, n) ==
    m < n /\ Damage([copy.index EXCEPT ![m] = copy.index[n], ![n] = copy.index[m]], copy.size)
PutEntry(n, item) == Damage([copy.index EXCEPT ![n] = item], copy.size)
AddEntry(item) == Damage(Append(copy.index, item), copy.size)
SetBlock(n, i) == Damage([copy.index EXCEPT ![n].block = i], copy.size)
SetSize(size) == Damage(copy.index, size)

Entries == UNION {Range(w.file.index) : w \in written}

FormatNext ==
    \/ \E key \in Keys, chunks \in Contents : WriteVolume(key, chunks)
    \/ \E n \in DOMAIN copy.index :
           \/ LoseEntry(n)
           \/ \E m \in DOMAIN copy.index : SwapEntries(m, n)
           \/ \E item \in Entries : PutEntry(n, item)
           \/ \E i \in 0..2 : SetBlock(n, i)
    \/ \E item \in Entries : AddEntry(item)
    \/ \E size \in 0..2 : SetSize(size)

FormatSpec == FormatInit /\ [][FormatNext]_formatVars

-----------------------------------------------------------------------------
Ciphertexts(file) == [n \in DOMAIN file.index |-> file.index[n].ct]

\* A volume nobody damaged is one that verify accepts and its key opens, for all
\* that was written into it, and list tells its size and blocks.
RoundTrip ==
    damages = 0 => \A w \in written : w.file = copy =>
        /\ VerifyKey(w.key, copy) /\ PlaintextOK(w.key, copy)
        /\ Plaintext(copy) = w.chunks
        /\ Verified(copy)
        /\ LET n == Len(w.chunks) IN
           Listed(copy) = [plaintext_size |-> n, block_count |-> n, lineage_ok |-> TRUE]

\* Whatever became of the entries, a chain that verifies holds the first blocks
\* of one file, in order and with none in between missing, and what decrypts is
\* the beginning of the contents that were written under that very key
\* ("Refuse to decrypt if the lineage chain is broken", storage.rs).
ChainTells ==
    /\ RoundTrip
    /\ copy.index # <<>> /\ Verified(copy) =>
           \E w \in written : IsPrefix(Ciphertexts(copy), Ciphertexts(w.file))
    /\ \A key \in Keys : PlaintextOK(key, copy) =>
           \/ copy.index = <<>>
           \/ \E w \in written : w.key = key /\ IsPrefix(Plaintext(copy), w.chunks)

\* What to_bytes wrote, from_bytes reads (roundtrip_through_binary_serialization).
ReadsBack == written # {} => FromBytesOK(stored)

=============================================================================
