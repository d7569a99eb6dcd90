---------------------------- MODULE Disk_proofs ----------------------------
(***************************************************************************)
(* What is proved of what lies on a disk, which MCDisk checks, for every   *)
(* value of the constants: the key slots, the encrypted volume, the state  *)
(* kept across mounts, snapshots, and the share file.  The parts share no  *)
(* state: each section is about one of them.                               *)
(***************************************************************************)
EXTENDS KeySlots, ShareFile, FdeVolume, Nvram, Snapshots,
        TLAPS, FiniteSetTheorems, SequenceTheorems, WellFoundedInduction

-----------------------------------------------------------------------------
(* KeySlots: a volume stays open to somebody, under one master key, and    *)
(* closed to the revoked, for any passphrases and any number of slots.     *)
(* Revocation stays because slot ids are never reused: the table in memory *)
(* and the one on disk agree on the slots they share.                      *)

\* What holds of every table: one slot per id, one master, somebody can open it.
Good(t) ==
    /\ t \in Seq(Slot) /\ Len(t) <= MaxSlots
    /\ \A i \in DOMAIN t : t[i].id <= ids
    /\ \A i, j \in DOMAIN t : t[i].id = t[j].id => i = j
    /\ \A i, j \in DOMAIN t : t[i].master = t[j].master
    /\ t # <<>> => \E i \in DOMAIN t : t[i].enabled

\* A slot that is enabled in memory is not disabled on disk.
NoneRevived ==
    \A i \in DOMAIN saved, j \in DOMAIN table :
        saved[i].id = table[j].id /\ table[j].enabled => saved[i].enabled

SlotsInv ==
    /\ masters \in 0..MaxMasters /\ ids \in 0..MaxIds
    /\ Good(table) /\ Good(saved)
    /\ NoneRevived

LEMMA InitSlotsInv == ASSUME KeySlotsAssumption PROVE Init => SlotsInv
<1> SUFFICES ASSUME Init PROVE SlotsInv
  OBVIOUS
<1>1. <<>> \in Seq(Slot) /\ Len(<<>>) = 0 /\ DOMAIN <<>> = {}
  BY EmptySeq
<1> QED
  BY <1>1 DEF Init, SlotsInv, Good, NoneRevived, KeySlotsAssumption

LEMMA LeastNatural ==
    ASSUME NEW T, T \subseteq Nat, T # {}
    PROVE  \E x \in T : \A y \in T : x <= y
<1> DEFINE R == {ss \in Nat \X Nat : ss[1] < ss[2]}
<1>1. IsWellFoundedOn(R, Nat)
  BY NatLessThanWellFounded DEF OpToRel
<1> HIDE DEF R
<1>2. PICK x \in T : \A y \in T : ~ (<<y, x>> \in R)
  BY <1>1, WFMin
<1>3. ASSUME NEW y \in T PROVE x <= y
  <2>1. y \in Nat /\ x \in Nat
    OBVIOUS
  <2>2. <<y, x>> \in Nat \X Nat /\ <<y, x>>[1] = y /\ <<y, x>>[2] = x
    BY <2>1
  <2>3. ~(y < x)
    BY <1>2, <2>2 DEF R
  <2> QED
    BY <2>1, <2>3
<1> QED
  BY <1>3

\* A passphrase that opens a table yields the master key of its slots.
LEMMA UnsealIsMaster ==
    ASSUME NEW t \in Seq(Slot), NEW pass, Opening(t, pass) # {},
           \A i, j \in DOMAIN t : t[i].master = t[j].master
    PROVE  /\ Unseal(t, pass) \in 1..MaxMasters
           /\ \A i \in DOMAIN t : t[i].master = Unseal(t, pass)
<1>1. DOMAIN t = 1..Len(t) /\ Len(t) \in Nat /\ \A i \in DOMAIN t : t[i] \in Slot
  BY LenProperties, ElementOfSeq
<1>2. Opening(t, pass) \in SUBSET Nat /\ Opening(t, pass) \subseteq DOMAIN t
  BY <1>1 DEF Opening, Enabled
<1>3. \E i \in Opening(t, pass) : \A j \in Opening(t, pass) : i <= j
  BY <1>2, LeastNatural
<1>4. PICK k \in Opening(t, pass) : Unseal(t, pass) = t[k].master
  BY <1>3 DEF Unseal
<1> QED
  BY <1>1, <1>2, <1>4 DEF Slot

\* A table of one new slot.
LEMMA FreshTable ==
    ASSUME KeySlotsAssumption, SlotsInv, ids' = ids + 1, ids < MaxIds,
           NEW m \in 1..MaxMasters, NEW pass \in Passphrases, table' = <<Create(m, pass)>>,
           saved' = saved
    PROVE  Good(table)' /\ Good(saved)' /\ NoneRevived'
<1> DEFINE new == Create(m, pass)
<1>1. new \in Slot /\ new.id = ids + 1 /\ new.enabled
  <2>1. ids + 1 \in 1..MaxIds /\ MaxIds \in Nat
    BY DEF SlotsInv, KeySlotsAssumption
  <2> QED
    BY <2>1 DEF Create, Slot
<1> HIDE DEF new
<1>2. <<new>> \in Seq(Slot) /\ Len(<<new>>) = 1 /\ DOMAIN <<new>> = {1} /\ <<new>>[1] = new
  BY <1>1
<1>3. table' = <<new>>
  BY DEF new
<1>4. Good(table)'
  BY <1>1, <1>2, <1>3 DEF Good, KeySlotsAssumption
<1>5. \A i \in DOMAIN saved : saved[i] \in Slot /\ saved[i].id <= ids
  BY LenProperties, ElementOfSeq DEF SlotsInv, Good
<1>6. Good(saved)'
  BY <1>5 DEF SlotsInv, Good, Slot
<1>7. NoneRevived'
  BY <1>1, <1>2, <1>3, <1>5 DEF NoneRevived, Slot, SlotsInv
<1> QED
  BY <1>4, <1>6, <1>7

LEMMA AddKeeps ==
    ASSUME KeySlotsAssumption, SlotsInv, NEW by \in Passphrases, NEW pass \in Passphrases,
           AddSlot(by, pass)
    PROVE  SlotsInv'
<1> DEFINE new == Create(Unseal(table, by), pass)
<1>1. table \in Seq(Slot) /\ Len(table) < MaxSlots /\ Opening(table, by) # {}
  BY DEF AddSlot, SlotsInv, Good
<1>2. /\ Unseal(table, by) \in 1..MaxMasters
      /\ \A i \in DOMAIN table : table[i].master = Unseal(table, by)
  BY <1>1, UnsealIsMaster DEF SlotsInv, Good
<1>3. ids' = ids + 1 /\ ids' \in 1..MaxIds /\ ids \in Nat
  BY DEF AddSlot, CountId, SlotsInv, KeySlotsAssumption
<1>4. new \in Slot /\ new.id = ids + 1 /\ new.enabled /\ new.master = Unseal(table, by)
  BY <1>2, <1>3 DEF Create, Slot
<1>5. table' = Append(table, new) /\ saved' = saved /\ masters' = masters
  BY DEF AddSlot
<1> HIDE DEF new
<1>6. /\ DOMAIN table = 1..Len(table) /\ Len(table) \in Nat
      /\ \A i \in DOMAIN table : table[i] \in Slot
  BY <1>1, LenProperties, ElementOfSeq
<1>7. /\ table' \in Seq(Slot) /\ Len(table') = Len(table) + 1
      /\ \A i \in 1..Len(table) : table'[i] = table[i]
      /\ table'[Len(table) + 1] = new
  BY <1>1, <1>4, <1>5, AppendProperties
<1>8. DOMAIN table' = 1..Len(table) + 1
  BY <1>7, LenProperties
<1>9. \A i \in DOMAIN table' : (i \in DOMAIN table /\ table'[i] = table[i])
                                  \/ (i = Len(table) + 1 /\ table'[i] = new)
  BY <1>6, <1>7, <1>8
<1>10. \A i \in DOMAIN table : table[i].id \in Nat /\ table[i].id <= ids
  BY <1>6 DEF SlotsInv, Good, Slot
<1>11. \A i \in DOMAIN saved : saved[i].id \in Nat /\ saved[i].id <= ids
  <2>1. \A i \in DOMAIN saved : saved[i] \in Slot
    BY LenProperties, ElementOfSeq DEF SlotsInv, Good
  <2> QED
    BY <2>1 DEF SlotsInv, Good, Slot
<1>12. Good(table)'
  <2>1. Len(table') <= MaxSlots
    BY <1>1, <1>6, <1>7 DEF KeySlotsAssumption
  <2>2. \A i \in DOMAIN table' : table'[i].id <= ids'
    BY <1>3, <1>4, <1>9, <1>10
  <2>3. \A i, j \in DOMAIN table' : table'[i].id = table'[j].id => i = j
    BY <1>3, <1>4, <1>9, <1>10 DEF SlotsInv, Good
  <2>4. \A i, j \in DOMAIN table' : table'[i].master = table'[j].master
    BY <1>2, <1>4, <1>9
  <2>5. \E i \in DOMAIN table' : table'[i].enabled
    BY <1>4, <1>6, <1>7, <1>8
  <2> QED
    BY <1>7, <2>1, <2>2, <2>3, <2>4, <2>5 DEF Good
<1>13. Good(saved)'
  BY <1>3, <1>5, <1>11 DEF SlotsInv, Good
<1>14. NoneRevived'
  BY <1>3, <1>4, <1>5, <1>9, <1>11 DEF SlotsInv, NoneRevived
<1> QED
  BY <1>3, <1>5, <1>12, <1>13, <1>14 DEF SlotsInv

\* Of two enabled slots one stays.
LEMMA RevokeKeeps ==
    ASSUME KeySlotsAssumption, SlotsInv, NEW k \in DOMAIN table, RevokeSlot(k)
    PROVE  SlotsInv'
<1>1. /\ table \in Seq(Slot) /\ DOMAIN table = 1..Len(table) /\ Len(table) \in Nat
      /\ \A i \in DOMAIN table : table[i] \in Slot
  BY LenProperties, ElementOfSeq DEF SlotsInv, Good
<1>2. PICK i \in Enabled(table) : i # k
  <2>1. Enabled(table) \subseteq {k} => Cardinality(Enabled(table)) <= 1
    <3>1. IsFiniteSet({k}) /\ Cardinality({k}) = 1
      BY FS_Singleton
    <3> QED
      BY <3>1, FS_Subset
  <2>2. Cardinality(Enabled(table)) > 1 /\ IsFiniteSet(Enabled(table))
    <3>1. IsFiniteSet(1..Len(table))
      BY <1>1, FS_Interval
    <3> QED
      BY <1>1, <3>1, FS_Subset DEF RevokeSlot, Enabled
  <2>3. Cardinality(Enabled(table)) \in Nat
    BY <2>2, FS_CardinalityType
  <2> QED
    BY <2>1, <2>2, <2>3
<1>3. /\ table' = [table EXCEPT ![k].enabled = FALSE]
      /\ saved' = saved /\ masters' = masters /\ ids' = ids
  BY DEF RevokeSlot
<1>4. /\ DOMAIN table' = DOMAIN table
      /\ \A j \in DOMAIN table : /\ table'[j] \in Slot
                                 /\ table'[j].id = table[j].id
                                 /\ table'[j].master = table[j].master
                                 /\ table'[j].enabled = (j # k /\ table[j].enabled)
  BY <1>1, <1>3 DEF Slot
<1>5. table' \in Seq(Slot) /\ Len(table') = Len(table)
  <2>1. [table[k] EXCEPT !.enabled = FALSE] \in Slot
    BY <1>1 DEF Slot
  <2>2. table' = [table EXCEPT ![k] = [table[k] EXCEPT !.enabled = FALSE]]
    BY <1>3
  <2> QED
    BY <1>1, <2>1, <2>2, ExceptSeq
<1>6. i \in DOMAIN table' /\ table'[i].enabled
  BY <1>2, <1>4 DEF Enabled
<1>7. Good(table)'
  BY <1>3, <1>4, <1>5, <1>6 DEF SlotsInv, Good
<1>8. NoneRevived'
  BY <1>3, <1>4 DEF SlotsInv, NoneRevived
<1> QED
  BY <1>3, <1>7, <1>8 DEF SlotsInv, Good

LEMMA NextSlotsInv ==
    ASSUME KeySlotsAssumption, SlotsInv, [Next]_vars PROVE SlotsInv'
<1>1. ASSUME NEW p \in Passphrases, NewInitial(p)
      PROVE  SlotsInv'
  <2>1. /\ masters' \in 1..MaxMasters /\ ids' = ids + 1 /\ ids < MaxIds /\ saved' = saved
        /\ table' = <<Create(masters', p)>>
    BY <1>1 DEF NewInitial, CountId, SlotsInv, KeySlotsAssumption
  <2>2. Good(table)' /\ Good(saved)' /\ NoneRevived'
    BY <2>1, FreshTable
  <2> QED
    BY <2>1, <2>2 DEF SlotsInv, KeySlotsAssumption
<1>2. ASSUME NEW by \in Passphrases, NEW p \in Passphrases, Rewrap(by, p)
      PROVE  SlotsInv'
  <2>1. Unseal(table, by) \in 1..MaxMasters
    BY <1>2, UnsealIsMaster DEF Rewrap, SlotsInv, Good
  <2>2. /\ ids' = ids + 1 /\ ids < MaxIds /\ saved' = saved /\ masters' = masters
        /\ table' = <<Create(Unseal(table, by), p)>>
    BY <1>2 DEF Rewrap, CountId
  <2>3. Good(table)' /\ Good(saved)' /\ NoneRevived'
    BY <2>1, <2>2, FreshTable
  <2> QED
    BY <2>2, <2>3 DEF SlotsInv, KeySlotsAssumption
<1>3. CASE Store
  <2>1. \A i, j \in DOMAIN table : table[i].id = table[j].id => i = j
    BY DEF SlotsInv, Good
  <2> QED
    BY <1>3, <2>1 DEF Store, SlotsInv, Good, NoneRevived
<1>4. CASE Load
  <2>1. \A i, j \in DOMAIN saved : saved[i].id = saved[j].id => i = j
    BY DEF SlotsInv, Good
  <2> QED
    BY <1>4, <2>1 DEF Load, SlotsInv, Good, NoneRevived
<1>5. CASE Exit
  <2>1. <<>> \in Seq(Slot) /\ Len(<<>>) = 0 /\ DOMAIN <<>> = {}
    BY EmptySeq
  <2> QED
    BY <1>5, <2>1 DEF Exit, SlotsInv, Good, NoneRevived, KeySlotsAssumption
<1>6. CASE UNCHANGED vars
  BY <1>6 DEF vars, SlotsInv, Good, NoneRevived
<1> QED
  BY <1>1, <1>2, <1>3, <1>4, <1>5, <1>6, AddKeeps, RevokeKeeps DEF Next

\* Some passphrase opens every table, all of them the same volume, and a stored
\* revocation stays (add_slot, revoke_slot, from_bytes).
THEOREM SlotsHoldAlways == ASSUME KeySlotsAssumption PROVE Spec => SlotsHold
<1> DEFINE Stays == \A i \in DOMAIN saved, j \in DOMAIN saved' :
               saved[i].id = saved'[j].id /\ saved'[j].enabled => saved[i].enabled
<1>1. SlotsInv /\ [Next]_vars => SlotsInv'
  BY NextSlotsInv
<1>2. SlotsInv => NeverLockedOut /\ OneMaster
  BY DEF SlotsInv, Good, NeverLockedOut, OneMaster, Enabled
<1>3. SlotsInv /\ [Next]_vars => [Stays]_vars
  <2> SUFFICES ASSUME SlotsInv, Next PROVE Stays
    OBVIOUS
  <2>1. saved' = saved \/ saved' = table
    BY DEF Next, NewInitial, Rewrap, AddSlot, RevokeSlot, Store, Load, Exit
  <2>2. \A i, j \in DOMAIN saved : saved[i].id = saved[j].id => i = j
    BY DEF SlotsInv, Good
  <2> QED
    BY <2>1, <2>2 DEF SlotsInv, NoneRevived
<1> QED
  BY InitSlotsInv, <1>1, <1>2, <1>3, PTL DEF Spec, SlotsHold, RevokedStays

-----------------------------------------------------------------------------
(* FdeVolume, for any passphrases, contents, sectors, formats and damage.  *)
(* While a format runs nothing is promised and nothing is mounted; what it *)
(* has written so far is in the page cache. Its sync makes that all a      *)
(* power failure can bring back, and from then on every header is that     *)
(* format's, and every data sector what some write under its key made.     *)

FdeKey(pass, salt) == Key(pass, salt, 1, TRUE)

\* A header that format_volume wrote under this passphrase, damaged or not.
IsHeader(v, pass, salt) ==
    /\ DOMAIN v = {"what", "version", "salt", "kdf", "cost", "layered", "damage", "check"}
    /\ v.what = "header" /\ v.salt = salt /\ v.layered = TRUE
    /\ v.check = FdeKey(pass, salt)
    /\ v.damage \in Parts \cup {"none"}
    /\ Fips => v.kdf = "pbkdf2" /\ v.cost = 1

FmtHeader(pass, salt) ==
    [what |-> "header", version |-> 4, salt |-> salt, kdf |-> KdfKind,
     cost |-> 1, layered |-> TRUE, damage |-> "none", check |-> Key(pass, salt, 1, TRUE)]

FdeShape ==
    /\ page = [s \in Sector |-> page[s]] /\ disk = [s \in Sector |-> disk[s]]
    /\ last = [s \in Data |-> last[s]] /\ written = [s \in Data |-> written[s]]
    /\ \A s \in Sector : page[s] \in disk[s]
    /\ formats \in Nat
    /\ fmt = [step |-> fmt.step, header |-> fmt.header, next |-> fmt.next]
    /\ vol = [header |-> vol.header, key |-> vol.key, cipher |-> vol.cipher]

\* How far a format has come.
Formatting(pass) ==
    /\ fmt.header = FmtHeader(pass, formats)
    /\ fmt.step \in {"primary", "backup", "fill", "sync"}
    /\ fmt.step # "sync" => fmt.next \in Data
    /\ fmt.step \in {"primary", "backup"} => fmt.next = 1
    /\ fmt.step \in {"backup", "fill", "sync"} => IsHeader(page[Primary], pass, formats)
    /\ fmt.step \in {"fill", "sync"} => IsHeader(page[Backup], pass, formats)
    /\ \A s \in Data : /\ fmt.step = "fill" /\ s < fmt.next => page[s] = Random(formats)
                       /\ fmt.step = "sync" => page[s] = Random(formats)
                       /\ last[s] = "garbage" /\ written[s] = {"garbage"}

\* What a format has left, whatever was written, lost or damaged since.
Holding ==
    /\ \A s \in {Primary, Backup} : \A v \in disk[s] : IsHeader(v, done.pass, done.salt)
    /\ \A s \in Data : \A v \in disk[s] :
        /\ \/ v = Random(done.salt)
           \/ \E x : v = Cipher(FdeKey(done.pass, done.salt), x)
        /\ Decrypted(FdeKey(done.pass, done.salt), v) \in written[s]
    /\ \A s \in Data : Decrypted(FdeKey(done.pass, done.salt), page[s]) = last[s]
    /\ Mounted => vol.cipher = FdeKey(done.pass, done.salt)

FdeInv ==
    /\ FdeShape
    /\ ~Idle => ~Mounted /\ ~Formatted /\ \E pass \in Phrases : Formatting(pass)
    /\ Formatted => Holding

LEMMA Sectors ==
    ASSUME FdeVolumeAssumption
    PROVE  /\ Sector = Data \cup {Primary, Backup}
           /\ Primary \notin Data /\ Backup \notin Data /\ Primary # Backup
           /\ 1 \in Data /\ Data \subseteq Nat
BY DEF FdeVolumeAssumption, Sector, Data, Primary, Backup

LEMMA WrittenHeader ==
    ASSUME NEW pass, NEW salt PROVE IsHeader(ToBytes(FmtHeader(pass, salt)), pass, salt)
<1> DEFINE h == FmtHeader(pass, salt)
           v == ToBytes(h)
<1>1. /\ DOMAIN h = {"what", "version", "salt", "kdf", "cost", "layered", "damage", "check"}
      /\ h.what = "header" /\ h.salt = salt /\ h.layered = TRUE /\ h.damage = "none"
      /\ h.check = FdeKey(pass, salt) /\ h.cost = 1 /\ h.kdf = KdfKind
  BY DEF FmtHeader, FdeKey
<1>2. v = [h EXCEPT !.cost = IF h.kdf = "argon2id" THEN 0 ELSE @]
  BY DEF ToBytes
<1> HIDE DEF h, v
<1>3. /\ DOMAIN v = {"what", "version", "salt", "kdf", "cost", "layered", "damage", "check"}
      /\ v.what = "header" /\ v.salt = salt /\ v.layered = TRUE /\ v.damage = "none"
      /\ v.check = FdeKey(pass, salt) /\ v.kdf = KdfKind
      /\ v.cost = IF KdfKind = "argon2id" THEN 0 ELSE 1
  BY <1>1, <1>2
<1>4. Fips => KdfKind = "pbkdf2"
  BY DEF KdfKind
<1> QED
  BY <1>3, <1>4 DEF IsHeader, v, h

LEMMA DamagedHeader ==
    ASSUME NEW v, NEW pass, NEW salt, IsHeader(v, pass, salt), NEW part \in Parts
    PROVE  IsHeader([v EXCEPT !.damage = part], pass, salt)
<1> DEFINE w == [v EXCEPT !.damage = part]
<1>1. /\ DOMAIN w = DOMAIN v /\ w.damage = part
      /\ w.what = v.what /\ w.salt = v.salt /\ w.check = v.check /\ w.kdf = v.kdf
      /\ w.cost = v.cost /\ w.layered = v.layered
  BY DEF IsHeader
<1> QED
  BY <1>1 DEF IsHeader

\* What a header opens to, before and after damage.
LEMMA HeaderOpens ==
    ASSUME NEW v, NEW pass, NEW salt, IsHeader(v, pass, salt)
    PROVE  /\ ParseError(v) = "none" <=> v.damage = "none"
           /\ ParseError(v) = "UnsupportedVersion" <=> v.damage = "version"
           /\ Fips => KdfError(v) = "none"
           /\ \A p : Fips /\ DerivedKey(v, p, v.layered) = v.check <=> Fips /\ p = pass
           /\ \A p : DerivedKey(v, p, v.layered) = v.check => p = pass
           /\ \A p : DerivedKey(v, p, FALSE) # v.check
<1>1. /\ ParseError(v) = "none" <=> v.damage = "none"
      /\ ParseError(v) = "UnsupportedVersion" <=> v.damage = "version"
  BY DEF IsHeader, ParseError, Parts
<1>2. Fips => KdfError(v) = "none"
  BY DEF IsHeader, KdfError
<1>3. \A p : DerivedKey(v, p, v.layered) = Key(p, salt, v.cost, TRUE)
  BY DEF IsHeader, DerivedKey
<1>4. \A p : DerivedKey(v, p, FALSE) = Key(p, salt, v.cost, FALSE)
  BY DEF IsHeader, DerivedKey
<1>5. v.check = Key(pass, salt, 1, TRUE) /\ (Fips => v.cost = 1)
  BY DEF IsHeader, FdeKey
<1>6. ASSUME NEW p, DerivedKey(v, p, v.layered) = v.check
      PROVE  p = pass
  <2>1. Key(p, salt, v.cost, TRUE) = Key(pass, salt, 1, TRUE)
    BY <1>3, <1>5, <1>6
  <2>2. Key(p, salt, v.cost, TRUE).pass = p /\ Key(pass, salt, 1, TRUE).pass = pass
    BY Zenon DEF Key
  <2> QED
    BY <2>1, <2>2, Zenon
<1>7. ASSUME NEW p, DerivedKey(v, p, FALSE) = v.check
      PROVE  FALSE
  <2>1. Key(p, salt, v.cost, FALSE) = Key(pass, salt, 1, TRUE)
    BY <1>4, <1>5, <1>7
  <2>2. Key(p, salt, v.cost, FALSE).layered = FALSE /\ Key(pass, salt, 1, TRUE).layered = TRUE
    BY Zenon DEF Key
  <2> QED
    BY <2>1, <2>2, Zenon
<1>8. Fips => DerivedKey(v, pass, v.layered) = v.check
  BY <1>3, <1>5
<1> QED
  BY <1>1, <1>2, <1>6, <1>7, <1>8

\* After a power failure every sector holds something it may have held.
LEMMA FailureKeeps ==
    ASSUME FdeVolumeAssumption, PowerFailure
    PROVE  /\ page' = [s \in Sector |-> page'[s]]
           /\ \A s \in Sector : page'[s] \in disk[s]
<1>1. PICK first \in disk[Primary], second \in disk[Backup],
           data \in {d \in [Data -> UNION {disk[s] : s \in Data}] : \A s \in Data : d[s] \in disk[s]} :
           page' = [s \in Sector |-> IF s = Primary THEN first
                                     ELSE IF s = Backup THEN second ELSE data[s]]
  BY Zenon DEF PowerFailure
<1> QED
  BY <1>1, Sectors

\* A step of a format; what its caller formats is not used until it returns.
LEMMA FormatSteps ==
    ASSUME FdeVolumeAssumption, FdeInv,
           \/ \E pass \in Phrases : FormatBegin(pass)
           \/ FormatPrimary \/ FormatBackup \/ FormatFill \/ FormatSync \/ FormatFails
    PROVE  FdeInv'
<1>1. ASSUME NEW pass \in Phrases, FormatBegin(pass)
      PROVE  FdeInv'
  <2>1. /\ fmt' = [step |-> "primary", next |-> 1, header |-> FmtHeader(pass, formats')]
        /\ formats' = formats + 1 /\ done'.salt = 0
        /\ last' = [s \in Data |-> "garbage"] /\ written' = [s \in Data |-> {"garbage"}]
        /\ UNCHANGED <<page, disk, vol>> /\ ~Mounted
    BY <1>1 DEF FormatBegin, FmtHeader
  <2>2. FdeShape'
    BY <2>1 DEF FdeInv, FdeShape
  <2>3. Formatting(pass)'
    BY <2>1, Sectors DEF Formatting
  <2> QED
    BY <2>1, <2>2, <2>3 DEF FdeInv, Idle, Mounted, Formatted
<1>2. ASSUME NEW pass \in Phrases, Formatting(pass), ~Formatted, ~Mounted, FormatPrimary
      PROVE  FdeInv'
  <2>1. /\ page' = [page EXCEPT ![Primary] = ToBytes(FmtHeader(pass, formats))]
        /\ disk' = [disk EXCEPT ![Primary] = @ \cup {ToBytes(FmtHeader(pass, formats))}]
        /\ fmt' = [fmt EXCEPT !.step = "backup"]
        /\ UNCHANGED <<vol, formats, done, last, written>> /\ fmt.step = "primary"
    BY <1>2 DEF FormatPrimary, Put, Formatting
  <2>2. fmt' = [step |-> "backup", header |-> fmt.header, next |-> fmt.next]
    BY <2>1 DEF FdeInv, FdeShape
  <2>3. FdeShape'
    BY <2>1, <2>2, Sectors DEF FdeInv, FdeShape
  <2>4. IsHeader(page'[Primary], pass, formats)
    BY <2>1, Sectors, WrittenHeader DEF FdeInv, FdeShape
  <2>5. Formatting(pass)'
    BY <1>2, <2>1, <2>2, <2>4 DEF Formatting
  <2> QED
    BY <1>2, <2>1, <2>2, <2>3, <2>5 DEF FdeInv, Idle, Mounted, Formatted
<1>3. ASSUME NEW pass \in Phrases, Formatting(pass), ~Formatted, ~Mounted, FormatBackup
      PROVE  FdeInv'
  <2>1. /\ page' = [page EXCEPT ![Backup] = ToBytes(FmtHeader(pass, formats))]
        /\ disk' = [disk EXCEPT ![Backup] = @ \cup {ToBytes(FmtHeader(pass, formats))}]
        /\ fmt' = [fmt EXCEPT !.step = "fill"]
        /\ UNCHANGED <<vol, formats, done, last, written>> /\ fmt.step = "backup"
    BY <1>3 DEF FormatBackup, Put, Formatting
  <2>2. fmt' = [step |-> "fill", header |-> fmt.header, next |-> fmt.next]
    BY <2>1 DEF FdeInv, FdeShape
  <2>3. FdeShape'
    BY <2>1, <2>2, Sectors DEF FdeInv, FdeShape
  <2>4. IsHeader(page'[Backup], pass, formats) /\ page'[Primary] = page[Primary]
    BY <2>1, Sectors, WrittenHeader DEF FdeInv, FdeShape
  <2>5. \A s \in Data : ~(s < fmt.next)
    BY <1>3, <2>1 DEF Formatting, Data
  <2>6. Formatting(pass)'
    BY <1>3, <2>1, <2>2, <2>4, <2>5 DEF Formatting
  <2> QED
    BY <1>3, <2>1, <2>2, <2>3, <2>6 DEF FdeInv, Idle, Mounted, Formatted
<1>4. ASSUME NEW pass \in Phrases, Formatting(pass), ~Formatted, ~Mounted, FormatFill
      PROVE  FdeInv'
  <2>0. fmt.next \in Data /\ fmt.header.salt = formats /\ fmt.step = "fill"
    BY <1>4 DEF FormatFill, Formatting, FmtHeader
  <2>1. /\ page' = [page EXCEPT ![fmt.next] = Random(formats)]
        /\ disk' = [disk EXCEPT ![fmt.next] = @ \cup {Random(formats)}]
        /\ fmt' = [fmt EXCEPT !.next = @ + 1, !.step = IF fmt.next = DataSectors THEN "sync" ELSE @]
        /\ UNCHANGED <<vol, formats, done, last, written>>
    BY <1>4, <2>0 DEF FormatFill, Put
  <2>2. fmt' = [step |-> IF fmt.next = DataSectors THEN "sync" ELSE "fill",
                header |-> fmt.header, next |-> fmt.next + 1]
    BY <2>0, <2>1 DEF FdeInv, FdeShape
  <2>3. FdeShape'
    BY <2>0, <2>1, <2>2, Sectors DEF FdeInv, FdeShape
  <2>4. /\ \A s \in Data : page'[s] = IF s = fmt.next THEN Random(formats) ELSE page[s]
        /\ page'[Primary] = page[Primary] /\ page'[Backup] = page[Backup]
    BY <2>0, <2>1, Sectors DEF FdeInv, FdeShape
  <2>5. /\ fmt.next # DataSectors => fmt.next + 1 \in Data
        /\ \A s \in Data : /\ s < fmt.next + 1 => s = fmt.next \/ s < fmt.next
                           /\ fmt.next = DataSectors => s = fmt.next \/ s < fmt.next
    BY <2>0 DEF Data, FdeVolumeAssumption
  <2>6. Formatting(pass)'
    <3>1. /\ fmt'.header = fmt.header /\ fmt'.next = fmt.next + 1
          /\ fmt'.step = IF fmt.next = DataSectors THEN "sync" ELSE "fill"
      BY <2>2
    <3>2. \A s \in Data : /\ fmt'.step = "fill" /\ s < fmt'.next => page'[s] = Random(formats)
                         /\ fmt'.step = "sync" => page'[s] = Random(formats)
      BY <1>4, <2>0, <2>4, <2>5, <3>1 DEF Formatting
    <3> QED
      BY <1>4, <2>0, <2>1, <2>4, <2>5, <3>1, <3>2 DEF Formatting
  <2> QED
    BY <1>4, <2>1, <2>2, <2>3, <2>6 DEF FdeInv, Idle, Mounted, Formatted
<1>5. ASSUME NEW pass \in Phrases, Formatting(pass), ~Formatted, ~Mounted, FormatSync
      PROVE  FdeInv'
  <2>1. /\ fmt.step = "sync" /\ fmt.header.salt = formats
        /\ fmt.header.check = FdeKey(pass, formats) /\ fmt.header.check.pass = pass
    BY <1>5 DEF FormatSync, Formatting, FmtHeader, FdeKey, Key
  <2>2. /\ fmt' = [step |-> "idle", header |-> NoHeader, next |-> 1]
        /\ vol' = [header |-> vol'.header, key |-> vol'.key, cipher |-> vol'.cipher]
        /\ vol'.cipher = FdeKey(pass, formats)
        /\ done' = [salt |-> formats, pass |-> pass]
        /\ disk' = [s \in Sector |-> {page[s]}]
        /\ UNCHANGED <<page, formats, last, written>>
    BY <1>5, <2>1 DEF FormatSync, FormatReturns, Mount, SyncAll
  <2>3. FdeShape'
    BY <2>2, Sectors DEF FdeInv, FdeShape
  <2>4. Holding'
    <3>1. done'.salt = formats /\ done'.pass = pass
      BY <2>2
    <3>2. \A s \in {Primary, Backup} : \A v \in disk'[s] : IsHeader(v, pass, formats)
      BY <1>5, <2>1, <2>2, Sectors DEF Formatting
    <3>3. Decrypted(FdeKey(pass, formats), Random(formats)) = "garbage"
      BY DEF Decrypted, Random
    <3>4. \A s \in Data : /\ disk'[s] = {Random(formats)} /\ page'[s] = Random(formats)
                         /\ last'[s] = "garbage" /\ written'[s] = {"garbage"}
      BY <1>5, <2>1, <2>2, Sectors DEF Formatting
    <3> QED
      BY <2>2, <3>1, <3>2, <3>3, <3>4 DEF Holding
  <2> QED
    BY <2>2, <2>3, <2>4 DEF FdeInv, Idle
<1>6. CASE FormatFails
  <2>1. /\ fmt' = [step |-> "idle", header |-> NoHeader, next |-> 1]
        /\ UNCHANGED <<page, disk, vol, formats, done, last, written>> /\ ~Idle
    BY <1>6 DEF FormatFails
  <2>2. FdeShape'
    BY <2>1 DEF FdeInv, FdeShape
  <2> QED
    BY <2>1, <2>2 DEF FdeInv, Idle, Formatted
<1>7. ~Idle => ~Formatted /\ ~Mounted /\ \E pass \in Phrases : Formatting(pass)
  BY DEF FdeInv
<1>8. FormatPrimary \/ FormatBackup \/ FormatFill \/ FormatSync => ~Idle
  BY DEF FormatPrimary, FormatBackup, FormatFill, FormatSync, Idle
<1> QED
  BY <1>1, <1>2, <1>3, <1>4, <1>5, <1>6, <1>7, <1>8

\* The header in use: with a format done, one that the format wrote.
LEMMA HeaderInUse ==
    ASSUME FdeVolumeAssumption, FdeInv, Formatted
    PROVE  /\ HeaderSector \in {Primary, Backup}
           /\ \A s \in {Primary, Backup} : IsHeader(page[s], done.pass, done.salt)
           /\ HeaderKey = FdeKey(done.pass, done.salt)
<1>1. HeaderSector \in {Primary, Backup}
  BY DEF HeaderSector
<1>2. \A s \in {Primary, Backup} : IsHeader(page[s], done.pass, done.salt)
  BY Sectors DEF FdeInv, FdeShape, Holding
<1>3. IsHeader(page[HeaderSector], done.pass, done.salt)
  BY <1>1, <1>2
<1> QED
  BY <1>1, <1>2, <1>3 DEF HeaderKey, IsHeader

\* Everything that is no step of a format.
LEMMA VolumeSteps ==
    ASSUME FdeVolumeAssumption, FdeInv,
           \/ \E pass \in Phrases : Open(pass)
           \/ \E s \in Data, x \in Plain : WriteSector(s, x)
           \/ Sync \/ Zeroize \/ Close \/ PowerFailure
           \/ \E s \in {Primary, Backup}, part \in Parts : Damage(s, part)
    PROVE  FdeInv'
<1>1. ASSUME NEW pass \in Phrases, Open(pass)
      PROVE  FdeInv'
  <2>1. /\ UNCHANGED <<page, disk, fmt, formats, done, last, written>> /\ Idle
        /\ vol' = [header |-> page[HeaderSector], key |-> page[HeaderSector].check,
                   cipher |-> page[HeaderSector].check]
    BY <1>1 DEF Open, Mount
  <2>2. FdeShape'
    BY <2>1 DEF FdeInv, FdeShape
  <2>3. Formatted => vol'.cipher = FdeKey(done.pass, done.salt)
    <3>1. ASSUME Formatted PROVE page[HeaderSector].check = FdeKey(done.pass, done.salt)
      BY <3>1, HeaderInUse DEF IsHeader
    <3> QED
      BY <2>1, <3>1
  <2> QED
    BY <2>1, <2>2, <2>3 DEF FdeInv, Idle, Formatted, Holding
<1>2. ASSUME NEW s \in Data, NEW x \in Plain, WriteSector(s, x)
      PROVE  FdeInv'
  <2> DEFINE new == Cipher(vol.cipher, x)
  <2>1. /\ page' = [page EXCEPT ![s] = new]
        /\ disk' = [disk EXCEPT ![s] = @ \cup {new}]
        /\ last' = [last EXCEPT ![s] = x]
        /\ written' = [written EXCEPT ![s] = @ \cup {x}]
        /\ UNCHANGED <<fmt, vol, formats, done>> /\ Mounted
    BY <1>2 DEF WriteSector, Put
  <2>2. Idle
    BY <2>1 DEF FdeInv
  <2> HIDE DEF new
  <2>3. FdeShape'
    BY <2>1, Sectors DEF FdeInv, FdeShape
  <2>4. ASSUME Formatted PROVE Holding'
    <3>1. new = Cipher(FdeKey(done.pass, done.salt), x)
      BY <2>1, <2>4 DEF new, FdeInv, Holding
    <3>2. Decrypted(FdeKey(done.pass, done.salt), new) = x
      BY <3>1 DEF Decrypted, Cipher
    <3>3. /\ \A t \in {Primary, Backup} : disk'[t] = disk[t]
          /\ \A t \in Data : /\ disk'[t] = IF t = s THEN disk[s] \cup {new} ELSE disk[t]
                             /\ page'[t] = IF t = s THEN new ELSE page[t]
                             /\ last'[t] = IF t = s THEN x ELSE last[t]
                             /\ written'[t] = IF t = s THEN written[s] \cup {x} ELSE written[t]
      BY <2>1, Sectors DEF FdeInv, FdeShape
    <3>4. Holding /\ done' = done /\ vol' = vol
      BY <2>1, <2>4 DEF FdeInv
    <3>5. \A t \in {Primary, Backup} : \A v \in disk'[t] : IsHeader(v, done.pass, done.salt)
      BY <3>3, <3>4 DEF Holding
    <3>6. \A t \in Data : \A v \in disk'[t] :
             /\ \/ v = Random(done.salt)
                \/ \E y : v = Cipher(FdeKey(done.pass, done.salt), y)
             /\ Decrypted(FdeKey(done.pass, done.salt), v) \in written'[t]
      <4>1. ASSUME NEW t \in Data, NEW v \in disk'[t], v = new, t = s
            PROVE  /\ \E y : v = Cipher(FdeKey(done.pass, done.salt), y)
                   /\ Decrypted(FdeKey(done.pass, done.salt), v) \in written'[t]
        BY <3>1, <3>2, <3>3, <4>1
      <4>2. ASSUME NEW t \in Data, NEW v \in disk'[t], ~(v = new /\ t = s)
            PROVE  v \in disk[t] /\ written[t] \subseteq written'[t]
        BY <3>3, <4>2
      <4> QED
        BY <3>4, <4>1, <4>2 DEF Holding
    <3>7. \A t \in Data : Decrypted(FdeKey(done.pass, done.salt), page'[t]) = last'[t]
      BY <3>2, <3>3, <3>4 DEF Holding
    <3>8. Mounted' => vol'.cipher = FdeKey(done.pass, done.salt)
      BY <3>4 DEF Holding, Mounted
    <3> QED
      BY <3>4, <3>5, <3>6, <3>7, <3>8 DEF Holding
  <2> QED
    BY <2>1, <2>2, <2>3, <2>4 DEF FdeInv, Idle, Formatted
<1>3. CASE Sync
  <2>1. /\ disk' = [s \in Sector |-> {page[s]}]
        /\ written' = [s \in Data |-> {last[s]}]
        /\ UNCHANGED <<page, fmt, vol, formats, done, last>> /\ Mounted
    BY <1>3 DEF Sync, SyncAll
  <2>2. Idle
    BY <2>1 DEF FdeInv
  <2>3. FdeShape'
    BY <2>1, Sectors DEF FdeInv, FdeShape
  <2>4. ASSUME Formatted PROVE Holding'
    <3>1. Holding
      BY <2>4 DEF FdeInv
    <3>2. /\ \A s \in Sector : disk'[s] = {page[s]} /\ page[s] \in disk[s]
          /\ \A s \in Data : written'[s] = {last[s]}
      BY <2>1 DEF FdeInv, FdeShape
    <3>3. \A s \in {Primary, Backup} : \A v \in disk'[s] : v \in disk[s]
      BY <3>2, Sectors
    <3>4. \A s \in Data : \A v \in disk'[s] : v \in disk[s] /\ v = page[s]
      BY <3>2, Sectors
    <3>5. vol' = vol /\ done' = done /\ page' = page /\ last' = last
      BY <2>1
    <3> QED
      BY <3>1, <3>2, <3>3, <3>4, <3>5 DEF Holding, Mounted
  <2> QED
    BY <2>1, <2>2, <2>3, <2>4 DEF FdeInv, Idle, Formatted
<1>4. CASE Zeroize \/ Close
  <2>1. /\ UNCHANGED <<page, disk, fmt, formats, done, last, written>> /\ Mounted
        /\ vol' = [header |-> vol'.header, key |-> vol'.key, cipher |-> vol'.cipher]
        /\ Mounted' => vol'.cipher = vol.cipher
    BY <1>4 DEF Zeroize, Close, Mounted, FdeInv, FdeShape
  <2>2. Idle
    BY <2>1 DEF FdeInv
  <2>3. FdeShape'
    BY <2>1 DEF FdeInv, FdeShape
  <2> QED
    BY <2>1, <2>2, <2>3 DEF FdeInv, Idle, Formatted, Holding
<1>5. CASE PowerFailure
  <2>1. /\ disk' = [s \in Sector |-> {page'[s]}]
        /\ fmt' = [step |-> "idle", header |-> NoHeader, next |-> 1]
        /\ vol' = [header |-> NoHeader, key |-> NoKey, cipher |-> NoKey]
        /\ last' = [s \in Data |-> Decrypted(HeaderKey', page'[s])]
        /\ UNCHANGED <<formats, done, written>>
    BY <1>5 DEF PowerFailure
  <2>2. page' = [s \in Sector |-> page'[s]] /\ \A s \in Sector : page'[s] \in disk[s]
    BY <1>5, FailureKeeps
  <2>3. FdeShape'
    BY <2>1, <2>2, Sectors DEF FdeInv, FdeShape
  <2>4. Idle' /\ ~Mounted'
    BY <2>1 DEF Idle, Mounted
  <2>5. ASSUME Formatted PROVE Holding'
    <3>1. Holding
      BY <2>5 DEF FdeInv
    <3>2. \A s \in {Primary, Backup} : IsHeader(page'[s], done.pass, done.salt)
      BY <2>2, <3>1, Sectors DEF Holding
    <3>3. HeaderSector' \in {Primary, Backup}
      BY DEF HeaderSector
    <3>4. HeaderKey' = FdeKey(done.pass, done.salt)
      BY <3>2, <3>3 DEF HeaderKey, IsHeader
    <3>5. \A s \in {Primary, Backup} : \A v \in disk'[s] : IsHeader(v, done.pass, done.salt)
      BY <2>1, <3>2, Sectors
    <3>6. \A s \in Data : \A v \in disk'[s] : v \in disk[s]
      BY <2>1, <2>2, Sectors
    <3>7. \A s \in Data : last'[s] = Decrypted(FdeKey(done.pass, done.salt), page'[s])
      BY <2>1, <3>4
    <3> QED
      BY <2>1, <2>4, <3>1, <3>5, <3>6, <3>7 DEF Holding
  <2> QED
    BY <2>1, <2>3, <2>4, <2>5 DEF FdeInv, Formatted
<1>6. ASSUME NEW s \in {Primary, Backup}, NEW part \in Parts, Damage(s, part)
      PROVE  FdeInv'
  <2> DEFINE new == [page[s] EXCEPT !.damage = part]
  <2>1. /\ page' = [page EXCEPT ![s] = new]
        /\ disk' = [disk EXCEPT ![s] = {page'[s]}]
        /\ UNCHANGED <<fmt, vol, formats, done, last, written>>
    BY <1>6 DEF Damage
  <2>2. /\ \A t \in Sector : page'[t] = IF t = s THEN new ELSE page[t]
        /\ \A t \in Sector : disk'[t] = IF t = s THEN {new} ELSE disk[t]
    BY <2>1, Sectors DEF FdeInv, FdeShape
  <2>3. FdeShape'
    BY <2>1, <2>2, Sectors DEF FdeInv, FdeShape
  <2>4. \A pass, salt : IsHeader(page[s], pass, salt) => IsHeader(new, pass, salt)
    BY DamagedHeader
  <2> HIDE DEF new
  <2>5. s \in Sector /\ s \notin Data
    BY Sectors
  <2>6. ASSUME NEW pass \in Phrases, Formatting(pass) PROVE Formatting(pass)'
    <3>1. \A t \in {Primary, Backup} :
             IsHeader(page[t], pass, formats) => IsHeader(page'[t], pass, formats)
      BY <2>2, <2>4, Sectors
    <3>2. \A t \in Data : page'[t] = page[t]
      BY <2>2, <2>5, Sectors
    <3> QED
      BY <2>1, <2>6, <3>1, <3>2 DEF Formatting
  <2>7. ASSUME Formatted PROVE Holding'
    <3>1. Holding /\ page[s] \in disk[s]
      BY <2>5, <2>7 DEF FdeInv, FdeShape
    <3>2. IsHeader(new, done.pass, done.salt)
      BY <2>4, <3>1 DEF Holding
    <3>3. \A t \in {Primary, Backup} : \A v \in disk'[t] : IsHeader(v, done.pass, done.salt)
      BY <2>2, <3>1, <3>2, Sectors DEF Holding
    <3>4. \A t \in Data : disk'[t] = disk[t] /\ page'[t] = page[t]
      BY <2>2, <2>5, Sectors
    <3> QED
      BY <2>1, <3>1, <3>3, <3>4 DEF Holding, Mounted
  <2> QED
    BY <2>1, <2>3, <2>6, <2>7 DEF FdeInv, Idle, Formatted, Mounted
<1> QED
  BY <1>1, <1>2, <1>3, <1>4, <1>5, <1>6

\* Typing and the invariant, from the first state on.
LEMMA FdeHolds ==
    ASSUME FdeVolumeAssumption
    PROVE  FdeSpec => []FdeInv
<1>1. ASSUME FdeInit PROVE FdeInv
  <2>1. /\ page = [s \in Sector |-> page[s]] /\ disk = [s \in Sector |-> {page[s]}]
        /\ fmt = [step |-> "idle", header |-> NoHeader, next |-> 1]
        /\ vol = [header |-> NoHeader, key |-> NoKey, cipher |-> NoKey]
        /\ formats = 0 /\ done.salt = 0
        /\ last = [s \in Data |-> "garbage"] /\ written = [s \in Data |-> {"garbage"}]
    BY <1>1 DEF FdeInit
  <2> QED
    BY <2>1 DEF FdeInv, FdeShape, Idle, Formatted
<1>2. ASSUME FdeInv, [FdeNext]_fdeVars PROVE FdeInv'
  <2>1. CASE UNCHANGED fdeVars
    BY <1>2, <2>1 DEF FdeInv, FdeShape, Formatting, Holding, Idle, Mounted, Formatted, fdeVars
  <2>2. CASE FdeNext
    BY <1>2, <2>2, FormatSteps, VolumeSteps DEF FdeNext
  <2> QED
    BY <1>2, <2>1, <2>2
<1> QED
  BY <1>1, <1>2, PTL DEF FdeSpec

\* Nothing that was on the device before a format that has returned comes back:
\* neither an earlier passphrase nor earlier contents, whatever power failures
\* and damage there are (format_volume's backup, fill and sync).
THEOREM PastStaysGone ==
    ASSUME FdeVolumeAssumption
    PROVE  FdeSpec => []PastIsGone
<1>1. ASSUME FdeInv PROVE PastIsGone
  <2>1. OldPassphraseDead
    <3>1. ASSUME Formatted, NEW pass \in Phrases, Opens(pass)
          PROVE  pass = done.pass
      <4>1. IsHeader(page[HeaderSector], done.pass, done.salt)
        BY <1>1, <3>1, HeaderInUse
      <4>2. DerivedKey(page[HeaderSector], pass, page[HeaderSector].layered)
              = page[HeaderSector].check
        BY <3>1, Zenon DEF Opens, OpenError
      <4>3. \A p : DerivedKey(page[HeaderSector], p, page[HeaderSector].layered)
                     = page[HeaderSector].check => p = done.pass
        BY <4>1, HeaderOpens
      <4> QED
        BY <4>2, <4>3, Zenon
    <3> QED
      BY <3>1 DEF OldPassphraseDead
  <2>2. FilledWhenDone
    <3>1. \A pass, salt, x : /\ Random(salt).what = "random" /\ Random(salt).salt = salt
                            /\ Cipher(FdeKey(pass, salt), x).what = "cipher"
                            /\ Cipher(FdeKey(pass, salt), x).key.salt = salt
      BY DEF Random, Cipher, FdeKey, Key
    <3> QED
      BY <1>1, <3>1 DEF FdeInv, Holding, FilledWhenDone
  <2> QED
    BY <2>1, <2>2 DEF PastIsGone
<1> QED
  BY <1>1, FdeHolds, PTL

\* What was formatted and written comes back, in a build whose key derivation the
\* header stores in full (format_volume, open_volume, write_sector, sync).
THEOREM VolumesComeBack ==
    ASSUME FdeVolumeAssumption, Fips = TRUE
    PROVE  FdeSpec => []VolumeComesBack
<1>1. ASSUME FdeInv PROVE VolumeComesBack
  <2> DEFINE H == page[HeaderSector]
  <2>1. ASSUME Formatted
        PROVE  /\ IsHeader(H, done.pass, done.salt)
               /\ Opens(done.pass) <=> H.damage = "none"
               /\ HeaderKey = FdeKey(done.pass, done.salt)
    <3>1. IsHeader(H, done.pass, done.salt) /\ HeaderKey = FdeKey(done.pass, done.salt)
      BY <1>1, <2>1, HeaderInUse
    <3>2. /\ ParseError(H) = "none" <=> H.damage = "none"
          /\ KdfError(H) = "none"
          /\ DerivedKey(H, done.pass, H.layered) = H.check
      BY <3>1, HeaderOpens
    <3>3. Opens(done.pass) <=> ParseError(H) = "none"
      BY <3>2, Zenon DEF Opens, OpenError
    <3> QED
      BY <3>1, <3>2, <3>3
  <2>2. ASSUME Formatted
        PROVE  \A s \in {Primary, Backup} :
                  /\ IsHeader(page[s], done.pass, done.salt)
                  /\ ParseError(page[s]) = "none" <=> page[s].damage = "none"
                  /\ ParseError(page[s]) = "UnsupportedVersion" <=> page[s].damage = "version"
                  /\ ParseError(page[s]) \in {"BadMagic", "UnsupportedVersion", "IntegrityFail", "none"}
    BY <1>1, <2>2, HeaderInUse, HeaderOpens DEF ParseError
  <2>3. Recovers
    <3>1. ASSUME Formatted, Intact(Primary) \/ (Intact(Backup) /\ page[Primary].damage # "version")
          PROVE  H.damage = "none"
      BY <2>2, <3>1 DEF HeaderSector, Intact
    <3> QED
      BY <2>1, <3>1 DEF Recovers
  <2>4. Readable
    <3>1. ASSUME Formatted, NEW s \in Data
          PROVE  /\ Decrypted(HeaderKey, page[s]) = last[s] /\ last[s] \in written[s]
                 /\ Mounted => ReadSector(s) = last[s]
      <4>1. Holding /\ page[s] \in disk[s]
        BY <1>1, <3>1, Sectors DEF FdeInv, FdeShape
      <4> QED
        BY <2>1, <3>1, <4>1 DEF Holding, ReadSector
    <3> QED
      BY <3>1 DEF Readable
  <2>5. StatusTells
    <3>1. ASSUME Formatted, StatusError = "none" PROVE Opens(done.pass)
      BY <2>1, <2>2, <3>1 DEF StatusError, HeaderSector
    <3>2. ASSUME Formatted, NEW pass \in Phrases PROVE HiddenError(pass) # "none"
      <4>1. DerivedKey(page[Primary], pass, FALSE) # page[Primary].check
        BY <2>2, <3>2, HeaderOpens
      <4> QED
        BY <4>1 DEF HiddenError
    <3> QED
      BY <3>1, <3>2 DEF StatusTells
  <2> QED
    BY <2>3, <2>4, <2>5 DEF VolumeComesBack
<1> QED
  BY <1>1, FdeHolds, PTL

-----------------------------------------------------------------------------
(* Nvram, for any width of the boot counter and any times. A cut write     *)
(* leaves new blocks before old ones, so the last block is there only when *)
(* the other three of its write are or were, and the chain hash in it is   *)
(* that of a state written to the end.                                     *)

\* A write in progress: the first blocks are on the disk, the rest to come.
Halfway(s, m) ==
    /\ Len(writing) = 5 - m
    /\ \A i \in 1..(5 - m) : writing[i] = SectorBytes(s)[m - 1 + i]
    /\ \A i \in 1..(m - 1) : sector[i] = SectorBytes(s)[i]

Triple(t) == t = [boot |-> t.boot, mount |-> t.mount, wipe |-> t.wipe]

Blocks == {SectorBytes(s)[i] : s \in States, i \in 1..4}

\* The last block is there only after all four of one write were.
NvramInv ==
    /\ sector = [i \in 1..4 |-> sector[i]]
    /\ writing # <<>> => \E s \in States, m \in 1..4 : Halfway(s, m)
    /\ writing \in Seq(Blocks)
    /\ sector[4] # Junk => \E t \in sealed : Triple(t) /\ sector[4].chain = ChainHash(t)
    /\ SealedTogether

\* A record that is written to the end reads back as it was.
LEMMA WholeSector ==
    ASSUME NvramAssumption, NEW s \in States, NEW bs, bs = SectorBytes(s)
    PROVE  FromBytes(bs) = [boot |-> s.boot, mount |-> s.mount, wipe |-> s.wipe]
<1>1. s.boot \in Nat /\ Half \in Nat \ {0}
  BY DEF States, NvramAssumption
<1>2. /\ bs[1].low = s.boot % Half /\ bs[2].high = s.boot \div Half
      /\ bs[2].mount = s.mount
  BY DEF SectorBytes
<1>3. bs[3].wipe = s.wipe
  BY Zenon DEF SectorBytes
<1>4. s.boot % Half = s.boot - Half * (s.boot \div Half) /\ s.boot \div Half \in Nat
  BY <1>1
<1>5. (s.boot \div Half) * Half + (s.boot % Half) = s.boot
  BY <1>1, <1>4
<1> QED
  BY <1>2, <1>3, <1>5, Zenon DEF FromBytes

LEMMA ChainsDiffer ==
    ASSUME NEW s, NEW t, Triple(s), Triple(t), ChainHash(s) = ChainHash(t)
    PROVE  s = t
<1>1. ChainHash(s)[1] = s.boot /\ ChainHash(s)[2] = s.mount /\ ChainHash(s)[3] = s.wipe
  BY Zenon DEF ChainHash
<1>2. ChainHash(t)[1] = t.boot /\ ChainHash(t)[2] = t.mount /\ ChainHash(t)[3] = t.wipe
  BY Zenon DEF ChainHash
<1> QED
  BY <1>1, <1>2, Zenon DEF Triple

LEMMA StateSteps ==
    ASSUME NvramAssumption, NvramInv, StateNext
    PROVE  NvramInv'
<1>1. ASSUME NEW s \in States, BeginWrite(s)
      PROVE  NvramInv'
  <2>1. /\ writing' = SectorBytes(s) /\ read' = Refused /\ UNCHANGED <<sector, sealed>>
    BY <1>1 DEF BeginWrite
  <2>2. SectorBytes(s) \in Seq(Blocks) /\ Len(SectorBytes(s)) = 4
    <3>1. \A i \in 1..4 : SectorBytes(s)[i] \in Blocks
      BY DEF Blocks
    <3>2. SectorBytes(s) = <<SectorBytes(s)[1], SectorBytes(s)[2], SectorBytes(s)[3], SectorBytes(s)[4]>>
      BY Zenon DEF SectorBytes
    <3> HIDE DEF Blocks
    <3> DEFINE b(i) == SectorBytes(s)[i]
    <3>3. b(1) \in Blocks /\ b(2) \in Blocks /\ b(3) \in Blocks /\ b(4) \in Blocks
      BY <3>1
    <3>4. SectorBytes(s) = <<b(1), b(2), b(3), b(4)>>
      BY <3>2
    <3> HIDE DEF b
    <3> QED
      BY <3>3, <3>4
  <2>3. Halfway(s, 1)'
    BY <2>1, <2>2 DEF Halfway
  <2> QED
    BY <2>1, <2>2, <2>3 DEF NvramInv, SealedTogether, Blocks, States
<1>2. CASE WriteBlock
  <2>1. PICK s \in States, m \in 1..4 : Halfway(s, m)
    BY <1>2 DEF WriteBlock, NvramInv
  <2> DEFINE now == [sector EXCEPT ![m] = SectorBytes(s)[m]]
  <2>2. /\ writing \in Seq(Blocks) /\ writing # <<>> /\ Len(writing) = 5 - m
        /\ Head(writing) = SectorBytes(s)[m] /\ 5 - Len(writing) = m
    BY <1>2, <2>1 DEF WriteBlock, NvramInv, Halfway
  <2>3. /\ sector' = now /\ writing' = Tail(writing) /\ read' = read
        /\ sealed' = IF m = 4 THEN sealed \cup {FromBytes(now)} ELSE sealed
    <3>1. /\ sector' = [sector EXCEPT ![5 - Len(writing)] = Head(writing)]
          /\ writing' = Tail(writing) /\ read' = read
          /\ sealed' = IF Len(writing) = 1 THEN sealed \cup {FromBytes(sector')} ELSE sealed
      BY <1>2, Zenon DEF WriteBlock
    <3>2. sector' = now
      BY <2>2, <3>1
    <3>3. Len(writing) = 1 <=> m = 4
      BY <2>2
    <3> QED
      BY <3>1, <3>2, <3>3, Zenon
  <2>4. /\ writing' \in Seq(Blocks) /\ Len(writing') = 4 - m
        /\ \A i \in 1..(4 - m) : writing'[i] = writing[i + 1]
    BY <2>2, <2>3
  <2>5. now = [i \in 1..4 |-> IF i = m THEN SectorBytes(s)[m] ELSE sector[i]]
    BY DEF NvramInv
  <2>6. \A i \in 1..m : now[i] = SectorBytes(s)[i]
    BY <2>1, <2>5 DEF Halfway
  <2>7. writing' # <<>> => m + 1 \in 1..4 /\ Halfway(s, m + 1)'
    <3>1. ASSUME writing' # <<>> PROVE m + 1 \in 1..4
      BY <2>4, <3>1
    <3>2. \A i \in 1..(4 - m) : writing[i + 1] = SectorBytes(s)[m + i]
      BY <2>1 DEF Halfway
    <3> QED
      BY <2>3, <2>4, <2>6, <3>1, <3>2 DEF Halfway
  <2>8. now[4] # Junk => \E t \in sealed' : Triple(t) /\ now[4].chain = ChainHash(t)
    <3>1. CASE m = 4
      <4> DEFINE t == FromBytes(now)
      <4>1. FromBytes(now) = FromBytes(SectorBytes(s))
        BY <2>6, <3>1 DEF FromBytes
      <4>2. t = [boot |-> s.boot, mount |-> s.mount, wipe |-> s.wipe]
        BY <4>1, WholeSector
      <4>3. Triple(t) /\ ChainHash(t) = ChainHash(s)
        <5>1. t.boot = s.boot /\ t.mount = s.mount /\ t.wipe = s.wipe
          <6>1. \A a, b, c : LET r == [boot |-> a, mount |-> b, wipe |-> c]
                           IN r.boot = a /\ r.mount = b /\ r.wipe = c
            BY Zenon
          <6> HIDE DEF t
          <6> QED
            BY <4>2, <6>1, Zenon
        <5> HIDE DEF t
        <5> QED
          BY <4>2, <5>1, Zenon DEF Triple, ChainHash
      <4>4. now[4].chain = ChainHash(s)
        <5>1. now[4] = SectorBytes(s)[4]
          BY <2>6, <3>1
        <5>2. SectorBytes(s)[4].chain = ChainHash(s)
          BY DEF SectorBytes
        <5> QED
          BY <5>1, <5>2
      <4> QED
        BY <2>3, <3>1, <4>3, <4>4
    <3>2. CASE m # 4
      BY <2>3, <2>5, <3>2 DEF NvramInv
    <3> QED
      BY <3>1, <3>2
  <2>9. SealedTogether'
    BY <2>3 DEF NvramInv, SealedTogether
  <2> HIDE DEF now
  <2> QED
    BY <2>3, <2>4, <2>5, <2>7, <2>8, <2>9 DEF NvramInv
<1>3. CASE Cut
  BY <1>3 DEF Cut, NvramInv, SealedTogether
<1>4. CASE Read
  <2>1. /\ UNCHANGED <<sector, writing, sealed>>
        /\ read' = IF Deciphers(sector) /\ VerifyChain(sector) THEN FromBytes(sector) ELSE Refused
    BY <1>4 DEF Read
  <2>2. ASSUME Deciphers(sector), VerifyChain(sector) PROVE FromBytes(sector) \in sealed
    <3>1. PICK t \in sealed : Triple(t) /\ sector[4].chain = ChainHash(t)
      BY <2>2 DEF Deciphers, NvramInv
    <3>2. Triple(FromBytes(sector))
      BY Zenon DEF Triple, FromBytes
    <3>3. sector[4].chain = ChainHash(FromBytes(sector))
      BY <2>2 DEF VerifyChain
    <3>4. FromBytes(sector) = t
      BY <3>1, <3>2, <3>3, ChainsDiffer
    <3> QED
      BY <3>1, <3>4
  <2> QED
    BY <2>1, <2>2 DEF NvramInv, SealedTogether, Halfway
<1>5. ASSUME NEW n \in 1..4, WriteData(n)
      PROVE  NvramInv'
  <2>1. /\ writing = <<>> /\ read' = Refused /\ UNCHANGED <<writing, sealed>>
        /\ sector' = [i \in 1..4 |-> IF i <= n THEN Junk ELSE sector[i]]
    BY <1>5 DEF WriteData
  <2>2. sector'[4] = Junk \/ sector'[4] = sector[4]
    BY <2>1
  <2> QED
    BY <2>1, <2>2 DEF NvramInv, SealedTogether
<1> QED
  BY <1>1, <1>2, <1>3, <1>4, <1>5 DEF StateNext

\* A state whose chain verifies was written to the end once, for any width of
\* the counter, however writes are cut and data sectors written in its place
\* (chain_hash, write_nvram, verify_chain).
THEOREM StateSealed ==
    ASSUME NvramAssumption
    PROVE  StateSpec => []SealedTogether
<1>1. StateInit => NvramInv
  <2> SUFFICES ASSUME StateInit PROVE NvramInv
    OBVIOUS
  <2>1. sector = [i \in 1..4 |-> Junk] /\ writing = <<>> /\ read = Refused
    BY DEF StateInit
  <2>2. <<>> \in Seq(Blocks)
    BY EmptySeq
  <2> QED
    BY <2>1, <2>2 DEF NvramInv, SealedTogether
<1>2. NvramInv /\ [StateNext]_nvramVars => NvramInv'
  <2>1. ASSUME NvramInv, UNCHANGED nvramVars PROVE NvramInv'
    BY <2>1 DEF NvramInv, SealedTogether, Halfway, nvramVars
  <2> QED
    BY <2>1, StateSteps
<1>3. NvramInv => SealedTogether
  BY DEF NvramInv
<1> QED
  BY <1>1, <1>2, <1>3, PTL DEF StateSpec

-----------------------------------------------------------------------------
(* Snapshots, for any contents and any number of versions. A snapshot that *)
(* is torn is never taken for a whole one; a record whose predecessor is   *)
(* gone still names its number.                                            *)

\* The calls: a snapshot is of what the source holds, a rollback has a whole one.
CallsInv ==
    /\ source \in Kept /\ manifests \subseteq Kept
    /\ root = [c \in Kept |-> root[c]]
    /\ job = NoCall \/ job.call \in {"snapshot", "rollback"}
    /\ job.call = "snapshot" => job.of = source
    /\ job.call = "rollback" => job.of \in Kept /\ root[job.of] = job.of
    /\ RestoresExactly /\ RetryWorks

LEMMA CallSteps ==
    ASSUME CallsInv,
           \/ SnapshotFile \/ SnapshotDone \/ RollbackDone \/ Stop
           \/ \E m \in manifests : Rollback(m)
           \/ \E c \in Contents : Edit(c)
    PROVE  CallsInv'
<1>1. CASE SnapshotFile
  <2>1. /\ root' = [root EXCEPT ![source] = "torn"]
        /\ job'.call = "snapshot" /\ job'.of = source
        /\ UNCHANGED <<source, manifests, result>>
    BY <1>1 DEF SnapshotFile
  <2> QED
    BY <2>1 DEF CallsInv, RestoresExactly, RetryWorks
<1>2. CASE SnapshotDone
  <2>1. /\ root' = [root EXCEPT ![source] = source] /\ job' = NoCall
        /\ manifests' = manifests \cup {source}
        /\ UNCHANGED <<source, result>>
    BY <1>2 DEF SnapshotDone, CallsInv
  <2>2. job'.call = "none"
    BY <2>1 DEF NoCall
  <2> QED
    BY <2>1, <2>2 DEF CallsInv, RestoresExactly, RetryWorks
<1>3. CASE RollbackDone
  <2>1. /\ source' = root[job.of] /\ root[job.of] = job.of /\ job.of \in Kept
        /\ result'.call = "restored" /\ result'.of = job.of
        /\ job'.call = "none" /\ job' = NoCall
        /\ UNCHANGED <<root, manifests>>
    BY <1>3 DEF RollbackDone, CallsInv, NoCall
  <2> QED
    BY <2>1 DEF CallsInv, RestoresExactly, RetryWorks
<1>4. CASE Stop
  <2>1. /\ job' = NoCall /\ job.call \in {"snapshot", "rollback"}
        /\ result'.call = "stopped" /\ result'.of = job.of
        /\ UNCHANGED <<source, root, manifests>>
    BY <1>4 DEF Stop, CallsInv
  <2>2. job'.call = "none"
    BY <2>1 DEF NoCall
  <2> QED
    BY <2>1, <2>2 DEF CallsInv, RestoresExactly, RetryWorks
<1>5. ASSUME NEW m \in manifests, Rollback(m)
      PROVE  CallsInv'
  <2>1. /\ \/ job'.call = "rollback" /\ job'.of = m /\ root[m] = m /\ source' = "torn"
              /\ result'.call = "none"
           \/ job' = NoCall /\ job'.call = "none" /\ source' = source /\ result'.call = "error"
        /\ UNCHANGED <<root, manifests>>
    BY <1>5 DEF Rollback, Matches, NoCall
  <2> QED
    BY <2>1 DEF CallsInv, RestoresExactly, RetryWorks, Kept
<1>6. ASSUME NEW c \in Contents, Edit(c)
      PROVE  CallsInv'
  <2>1. /\ source' = c /\ result'.call = "none" /\ job'.call = "none" /\ job' = NoCall
        /\ UNCHANGED <<root, manifests>>
    BY <1>6 DEF Edit, NoCall
  <2> QED
    BY <2>1 DEF CallsInv, RestoresExactly, RetryWorks, Kept
<1> QED
  BY <1>1, <1>2, <1>3, <1>4, <1>5, <1>6

\* A record that append made: the n-th, for this ciphertext, after prev.
Made(r, n, prev, ct) ==
    /\ r.sequence = n /\ r.previous = prev /\ r.ct = ct
    /\ r.chain = Chained(n, prev, ct)

Before(i) == IF i = 1 THEN <<>> ELSE records[i - 1].chain

Whole ==
    /\ Len(records) = Len(appended)
    /\ \A i \in 1..Len(records) : Made(records[i], i, Before(i), appended[i])

\* The k-th record is gone: the one in its place tells of it.
Missing(k) ==
    /\ Len(records) + 1 = Len(appended)
    /\ \A i \in 1..Len(records) : i < k => Made(records[i], i, Before(i), appended[i])
    /\ k <= Len(records) => \E p \in {records[k].previous[2]}, c \in Contents :
                                records[k].previous = Chained(k, p, c)

VersionsInv ==
    /\ appended \in Seq(Contents)
    /\ records \in Seq({records[i] : i \in 1..Len(records)})
    /\ Whole \/ \E k \in 1..Len(appended) : Missing(k)

LEMMA VersionSteps ==
    ASSUME VersionsInv,
           \/ \E c \in Contents : AppendVersion(c)
           \/ \E i \in DOMAIN records : LoseRecord(i)
    PROVE  VersionsInv'
<1> DEFINE S == {records[i] : i \in 1..Len(records)}
<1>0. /\ appended \in Seq(Contents) /\ records \in Seq(S)
      /\ Len(records) \in Nat /\ Len(appended) \in Nat /\ DOMAIN records = 1..Len(records)
  BY DEF VersionsInv
<1> HIDE DEF S
<1>1. ASSUME NEW c \in Contents, AppendVersion(c)
      PROVE  VersionsInv'
  <2>0. PICK n \in Nat : n = Len(records) + 1
    BY <1>0
  <2> DEFINE new == [sequence |-> n, previous |-> LastOf(records), ct |-> c,
                     chain |-> Chained(n, LastOf(records), c)]
  <2>1. /\ records' = Append(records, new) /\ appended' = Append(appended, c)
        /\ Len(records) = Len(appended)
    BY <1>1, <2>0 DEF AppendVersion
  <2>2. Made(new, n, LastOf(records), c)
    BY DEF Made
  <2> HIDE DEF new
  <2>3. /\ appended' \in Seq(Contents) /\ Len(appended') = Len(appended) + 1
        /\ \A i \in 1..Len(appended) : appended'[i] = appended[i]
        /\ appended'[Len(appended) + 1] = c
    BY <1>0, <2>1, AppendProperties
  <2>4. /\ Len(records') = Len(records) + 1 /\ DOMAIN records' = 1..(Len(records) + 1)
        /\ \A i \in 1..Len(records) : records'[i] = records[i]
        /\ records'[Len(records) + 1] = new
        /\ records' \in Seq(S \cup {new})
    <3>1. records \in Seq(S \cup {new})
      BY <1>0
    <3> QED
      BY <2>1, <3>1, AppendProperties
  <2>5. records' \in Seq({records'[i] : i \in 1..Len(records')})
    BY <2>4
  <2>6. LastOf(records) = Before(n)'
    <3>1. records = <<>> <=> Len(records) = 0
      BY <1>0
    <3>2. Len(records) # 0 => n # 1 /\ records'[n - 1] = records[Len(records)]
      BY <1>0, <2>0, <2>4
    <3>3. Len(records) = 0 => n = 1
      BY <2>0
    <3> QED
      BY <3>1, <3>2, <3>3 DEF LastOf, Last, Before
  <2>7. Whole
    BY <2>1 DEF VersionsInv, Missing
  <2>8. \A i \in 1..Len(records) : Before(i)' = Before(i)
    BY <1>0, <2>4 DEF Before
  <2>9. Whole'
    <3>1. \A i \in 1..Len(records) : Made(records'[i], i, Before(i)', appended'[i])
      BY <2>1, <2>3, <2>4, <2>7, <2>8 DEF Whole
    <3>2. Made(records'[n], n, Before(n)', appended'[n])
      BY <2>0, <2>1, <2>2, <2>3, <2>4, <2>6
    <3>3. /\ Len(records') = Len(appended')
          /\ \A i \in 1..Len(records') : i \in 1..Len(records) \/ i = n
      BY <1>0, <2>0, <2>1, <2>3, <2>4
    <3> QED
      BY <3>1, <3>2, <3>3 DEF Whole
  <2> QED
    BY <2>3, <2>5, <2>9 DEF VersionsInv
<1>2. ASSUME NEW k \in DOMAIN records, LoseRecord(k)
      PROVE  VersionsInv'
  <2>1. /\ Len(records) = Len(appended) /\ appended' = appended
        /\ records' = SubSeq(records, 1, k - 1) \o SubSeq(records, k + 1, Len(records))
        /\ k \in 1..Len(records) /\ Len(records) \in Nat
    BY <1>0, <1>2 DEF LoseRecord, RemoveAt
  <2>2. /\ records' \in Seq(S) /\ Len(records') = Len(records) - 1
        /\ \A i \in 1..Len(records') : records'[i] = records[IF i < k THEN i ELSE i + 1]
    <3> DEFINE a == SubSeq(records, 1, k - 1)
               b == SubSeq(records, k + 1, Len(records))
    <3>1. a \in Seq(S) /\ Len(a) = k - 1 /\ \A i \in 1..(k - 1) : a[i] = records[i]
      BY <1>0, <2>1, SubSeqProperties
    <3>2. /\ b \in Seq(S) /\ Len(b) = Len(records) - k
          /\ \A i \in 1..(Len(records) - k) : b[i] = records[k + i]
      <4>1. \A i \in (k + 1)..Len(records) : records[i] \in S
        BY <1>0, <2>1
      <4>2. k + 1 \in Int /\ Len(records) \in Int
        BY <2>1
      <4>3. /\ b \in Seq(S)
            /\ Len(b) = IF k + 1 <= Len(records) THEN Len(records) - (k + 1) + 1 ELSE 0
            /\ \A i \in 1..(Len(records) - (k + 1) + 1) : b[i] = records[k + 1 + i - 1]
        <5>1. ASSUME NEW m \in Int, NEW n \in Int, \A i \in m..n : records[i] \in S
              PROVE  /\ SubSeq(records, m, n) \in Seq(S)
                     /\ Len(SubSeq(records, m, n)) = IF m <= n THEN n - m + 1 ELSE 0
                     /\ \A i \in 1..(n - m + 1) : SubSeq(records, m, n)[i] = records[m + i - 1]
          BY <5>1, SubSeqProperties
        <5> QED
          BY <4>1, <4>2, <5>1, Zenon
      <4>4. \A i \in Int : k + 1 + i - 1 = k + i
        <5>1. k \in Int
          BY <2>1
        <5> QED
          BY <5>1
      <4>5. Len(records) - (k + 1) + 1 = Len(records) - k
        <5>1. k \in Int /\ Len(records) \in Int
          BY <2>1
        <5> QED
          BY <5>1
      <4> HIDE DEF a, b
      <4>6. Len(b) = Len(records) - k
        <5>1. k \in 1..Len(records) /\ Len(records) \in Nat
          BY <2>1
        <5>2. Len(b) = IF k + 1 <= Len(records) THEN Len(records) - (k + 1) + 1 ELSE 0
          BY <4>3
        <5> QED
          BY <5>1, <5>2
      <4>7. \A i \in 1..(Len(records) - k) : i \in Int /\ b[i] = records[k + 1 + i - 1]
        BY <4>3, <4>5
      <4>8. \A i \in 1..(Len(records) - k) : b[i] = records[k + i]
        BY <4>4, <4>7
      <4> QED
        BY <4>3, <4>6, <4>8
    <3> HIDE DEF a, b
    <3>0. k \in 1..Len(records) /\ Len(records) \in Nat /\ Len(a) = k - 1 /\ Len(b) = Len(records) - k
      BY <2>1, <3>1, <3>2
    <3>3. records' = a \o b
      BY <2>1 DEF a, b
    <3>4. /\ a \o b \in Seq(S) /\ Len(a \o b) = Len(a) + Len(b)
          /\ \A i \in 1..(Len(a) + Len(b)) : (a \o b)[i] = IF i <= Len(a) THEN a[i] ELSE b[i - Len(a)]
      BY <3>1, <3>2, ConcatProperties
    <3>5. Len(records') = Len(records) - 1
      <4>1. Len(records') = Len(a) + Len(b)
        BY <3>3, <3>4
      <4> QED
        BY <3>0, <4>1
    <3>6. ASSUME NEW i \in 1..Len(records')
          PROVE  records'[i] = records[IF i < k THEN i ELSE i + 1]
      <4>1. i \in 1..(Len(a) + Len(b)) /\ (i <= Len(a) <=> i < k)
        BY <3>0, <3>5, <3>6
      <4>2. CASE i < k
        BY <3>1, <3>3, <3>4, <4>1, <4>2
      <4>3. CASE ~(i < k)
        <5>1. i - Len(a) \in 1..(Len(records) - k) /\ k + (i - Len(a)) = i + 1
          BY <3>0, <3>5, <3>6, <4>3
        <5> QED
          BY <3>2, <3>3, <3>4, <4>1, <4>3, <5>1
      <4> QED
        BY <4>2, <4>3
    <3> QED
      BY <3>3, <3>4, <3>5, <3>6
  <2>3. records' \in Seq({records'[i] : i \in 1..Len(records')})
    BY <2>2
  <2>4. Whole
    BY <2>1 DEF VersionsInv, Missing
  <2>5. Missing(k)'
    <3>1. Len(records') + 1 = Len(appended')
      BY <2>1, <2>2
    <3>2. \A i \in 1..Len(records') : i < k => Made(records'[i], i, Before(i)', appended'[i])
      <4>1. ASSUME NEW i \in 1..Len(records'), i < k
            PROVE  /\ records'[i] = records[i] /\ Before(i)' = Before(i)
                   /\ i \in 1..Len(records)
        <5>1. i \in 1..Len(records) /\ records'[i] = records[i]
          BY <1>0, <2>1, <2>2, <4>1
        <5>2. i # 1 => i - 1 \in 1..Len(records') /\ i - 1 < k
          BY <1>0, <2>1, <2>2, <4>1
        <5>3. i # 1 => records'[i - 1] = records[i - 1]
          BY <2>2, <5>2
        <5> QED
          BY <5>1, <5>3 DEF Before
      <4> QED
        BY <2>1, <2>4, <4>1 DEF Whole
    <3>3. ASSUME k <= Len(records')
          PROVE  /\ records'[k] = records[k + 1]
                 /\ records[k + 1].previous = Chained(k, Before(k), appended[k])
                 /\ appended[k] \in Contents
      <4>1. k + 1 \in 1..Len(records) /\ records'[k] = records[k + 1]
        <5>1. k \in 1..Len(records') /\ k + 1 \in 1..Len(records)
          BY <1>0, <2>1, <2>2, <3>3
        <5> QED
          BY <2>2, <5>1
      <4>2. Made(records[k + 1], k + 1, records[k].chain, appended[k + 1])
        <5>1. Before(k + 1) = records[k].chain
          BY <2>1 DEF Before
        <5> QED
          BY <2>4, <4>1, <5>1 DEF Whole
      <4>3. Made(records[k], k, Before(k), appended[k])
        BY <2>1, <2>4 DEF Whole
      <4> QED
        <5>1. appended[k] \in Contents
          BY <1>0, <2>1
        <5> QED
          BY <4>1, <4>2, <4>3, <5>1 DEF Made
    <3>4. \A n, p, c : Chained(n, p, c)[2] = p
      BY DEF Chained
    <3> QED
      BY <3>1, <3>2, <3>3, <3>4 DEF Missing
  <2>6. k \in 1..Len(appended')
    BY <2>1
  <2> QED
    BY <1>0, <2>1, <2>3, <2>5, <2>6 DEF VersionsInv
<1> QED
  BY <1>1, <1>2

LEMMA VersionsToldBy ==
    ASSUME SnapshotsAssumption, VersionsInv PROVE VersionsTell
<1>0. appended \in Seq(Contents) /\ Len(records) \in Nat /\ Len(appended) \in Nat
  BY DEF VersionsInv
<1>3. DOMAIN records = 1..Len(records) /\ DOMAIN appended = 1..Len(appended)
  BY DEF VersionsInv
<1>1. ASSUME Len(records) = Len(appended) PROVE Verify(appended)
  <2>1. \A k \in 1..Len(appended) : ~Missing(k)
    BY <1>0, <1>1 DEF Missing
  <2>2. Whole
    BY <2>1 DEF VersionsInv
  <2> QED
    BY <1>0, <1>1, <1>3, <2>2 DEF Whole, Made, Verify, Linked, Before
<1>2. ASSUME NEW cts \in SeqOf(Contents, MaxVersions), Verify(cts)
      PROVE  IsPrefix(cts, appended)
  <2>1. cts \in Seq(Contents)
    BY DEF SeqOf, SnapshotsAssumption
  <2>2. /\ Len(records) = Len(cts)
        /\ \A i \in 1..Len(records) : records[i].ct = cts[i] /\ records[i].previous = Before(i)
    BY <1>2, <1>3 DEF Verify, Linked, Before
  <2>3. Len(cts) <= Len(appended) /\ \A i \in 1..Len(cts) : cts[i] = appended[i]
    <3>1. CASE Whole
      BY <1>0, <2>2, <3>1 DEF Whole, Made
    <3>2. ASSUME NEW k \in 1..Len(appended), Missing(k)
          PROVE  Len(cts) <= Len(appended) /\ \A i \in 1..Len(cts) : cts[i] = appended[i]
      <4>1. ASSUME k <= Len(records) PROVE FALSE
        <5>1. PICK p, c : records[k].previous = Chained(k, p, c)
          BY <3>2, <4>1 DEF Missing
        <5>2. Before(k) = Chained(k, p, c)
          BY <2>2, <4>1, <5>1
        <5>3. k # 1
          BY <5>2 DEF Before, Chained
        <5>4. /\ Before(k) = records[k - 1].chain
              /\ Made(records[k - 1], k - 1, Before(k - 1), appended[k - 1])
          BY <3>2, <4>1, <5>3 DEF Before, Missing
        <5>5. Chained(k, p, c) = Chained(k - 1, Before(k - 1), appended[k - 1])
          BY <5>2, <5>4 DEF Made
        <5>6. \A n, q, d : Chained(n, q, d)[1] = n
          BY DEF Chained
        <5>7. k = k - 1
          BY <5>5, <5>6
        <5> QED
          BY <5>7
      <4> QED
        BY <1>0, <2>2, <3>2, <4>1 DEF Missing, Made
    <3> QED
      BY <3>1, <3>2 DEF VersionsInv
  <2>4. SubSeq(cts, 1, Len(cts)) = SubSeq(appended, 1, Len(cts))
    <3>1. /\ Len(cts) \in Nat /\ Len(appended) \in Nat
          /\ \A i \in 1..Len(cts) : cts[i] \in Contents /\ appended[i] \in Contents
      BY <1>0, <2>1, <2>3
    <3> DEFINE a == SubSeq(cts, 1, Len(cts))
               b == SubSeq(appended, 1, Len(cts))
    <3>2. a \in Seq(Contents) /\ Len(a) = Len(cts) /\ \A i \in 1..Len(cts) : a[i] = cts[i]
      BY <3>1, <2>1, SubSeqProperties
    <3>3. b \in Seq(Contents) /\ Len(b) = Len(cts) /\ \A i \in 1..Len(cts) : b[i] = appended[i]
      BY <1>0, <2>3, <3>1, SubSeqProperties
    <3> HIDE DEF a, b
    <3>4. a = b
      BY <2>3, <3>2, <3>3, SeqEqual
    <3> QED
      BY <3>4 DEF a, b
  <2> QED
    BY <2>3, <2>4 DEF IsPrefix
<1> QED
  BY <1>1, <1>2 DEF VersionsTell

\* A rollback puts back what its manifest was made of or can be run again, and a
\* version list that verifies is a first part of what was appended, for any
\* contents and numbers of versions (snapshot_file, rollback, VersionChain).
THEOREM SnapshotsSound ==
    ASSUME SnapshotsAssumption
    PROVE  SnapsSpec => []SnapshotsTell
<1> DEFINE Inv == CallsInv /\ VersionsInv
<1>1. SnapsInit => Inv
  <2> SUFFICES ASSUME SnapsInit PROVE Inv
    OBVIOUS
  <2>1. /\ source \in Kept /\ manifests = {} /\ root = [c \in Kept |-> "none"]
        /\ job = NoCall /\ job.call = "none" /\ result.call = "none" /\ appended = <<>> /\ records = <<>>
    BY DEF SnapsInit, NoCall, Kept
  <2>2. CallsInv
    BY <2>1 DEF CallsInv, RestoresExactly, RetryWorks
  <2>3. Whole /\ \A T : <<>> \in Seq(T)
    BY <2>1 DEF Whole
  <2> QED
    BY <2>1, <2>2, <2>3 DEF VersionsInv
<1>2. Inv /\ [SnapsNext]_snapshotsVars => Inv'
  <2> SUFFICES ASSUME Inv, [SnapsNext]_snapshotsVars PROVE Inv'
    OBVIOUS
  <2>1. ASSUME UNCHANGED files PROVE CallsInv'
    BY <2>1 DEF files, CallsInv, RestoresExactly, RetryWorks
  <2>2. ASSUME UNCHANGED chain PROVE VersionsInv'
    BY <2>2 DEF chain, VersionsInv, Whole, Missing, Made, Before
  <2>3. CASE UNCHANGED snapshotsVars
    BY <2>1, <2>2, <2>3 DEF snapshotsVars, files, chain
  <2>4. CASE \/ SnapshotFile \/ SnapshotDone \/ RollbackDone \/ Stop
             \/ \E m \in manifests : Rollback(m)
             \/ \E c \in Contents : Edit(c)
    <3>1. UNCHANGED chain
      BY <2>4 DEF SnapshotFile, SnapshotDone, RollbackDone, Stop, Rollback, Edit
    <3> QED
      BY <2>2, <2>4, <3>1, CallSteps
  <2>5. CASE \/ \E c \in Contents : AppendVersion(c)
             \/ \E i \in DOMAIN records : LoseRecord(i)
    <3>1. UNCHANGED files
      BY <2>5 DEF AppendVersion, LoseRecord, files
    <3> QED
      BY <2>1, <2>5, <3>1, VersionSteps
  <2> QED
    BY <2>3, <2>4, <2>5 DEF SnapsNext
<1>3. Inv => SnapshotsTell
  BY VersionsToldBy DEF CallsInv, SnapshotsTell
<1> QED
  BY <1>1, <1>2, <1>3, PTL DEF SnapsSpec

-----------------------------------------------------------------------------
(* ShareFile: it opens, grows and forgets no revocation, for any           *)
(* recipients and number of runs, cut anywhere, if they follow each other. *)
(* A recipient occurs at most twice in a history, so a change adds one     *)
(* event about somebody the others do not speak of.                        *)

\* One run of the program at a time.
OneRun == \A r, s \in Runs : r = s

ShareBytes == [whole : BOOLEAN, events : Seq(Event), chain : Seq(Seq(Event))]

\* Whoever occurs twice was added first and revoked then.
AddedOnce(sf) ==
    \A i, j \in DOMAIN sf.events :
        i < j /\ sf.events[i].who = sf.events[j].who =>
            sf.events[i].what = "added" /\ sf.events[j].what = "revoked"

Sound(sf) == sf.whole /\ ChainHolds(sf) /\ AddedOnce(sf)

\* new is what one change makes of old.
Changed(old, new) ==
    \/ new = old
    \/ \E who \in Recipients :
        \/ ~HasHistory(old, who) /\ new = Pushed(old, "added", who)
        \/ who \in Active(old) /\ new = Pushed(old, "revoked", who)

\* What a run has done so far.
RunHolds(r) ==
    /\ pc[r] = "idle" => fd[r] = 0
    /\ pc[r] # "idle" => ops >= 1
    /\ pc[r] \in {"change", "create"} => fd[r] = 0 /\ (name # 0 => ops >= 2)
    /\ pc[r] = "change" => copy[r] = OnDisk
    /\ pc[r] \in {"create", "write", "rename"} => Changed(OnDisk, copy[r])
    /\ pc[r] \in {"write", "rename"} => fd[r] = tmp /\ tmp # 0
    /\ pc[r] = "rename" => inodes[tmp] = copy[r]

SharesShape ==
    /\ ops \in 0..MaxOps
    /\ name \in 0..MaxOps /\ tmp \in 0..MaxOps
    /\ name # 0 => ops >= 1 /\ tmp # name
    /\ inodes \in [Inodes -> ShareBytes]
    /\ copy \in [Runs -> ShareBytes]
    /\ fd \in [Runs -> 0..MaxOps]
    /\ pc \in [Runs -> {"idle", "change", "create", "write", "rename"}]

SharesInv == SharesShape /\ Sound(OnDisk) /\ \A r \in Runs : RunHolds(r)

-----------------------------------------------------------------------------
\* Of who occurs at all the places have a first and a last: there are two at most.
LEMMA FirstAndLast ==
    ASSUME NEW sf \in ShareBytes, AddedOnce(sf), NEW who, HasHistory(sf, who)
    PROVE  /\ Latest(sf, who) \in Places(sf, who) /\ Min(Places(sf, who)) \in Places(sf, who)
           /\ \A i \in Places(sf, who) : i <= Latest(sf, who) /\ Min(Places(sf, who)) <= i
<1> DEFINE P == Places(sf, who)
<1>1. P \subseteq Nat /\ DOMAIN sf.events = 1..Len(sf.events) /\ Len(sf.events) \in Nat
  BY DEF Places, ShareBytes
<1>2. PICK i \in P : TRUE
  BY DEF HasHistory, Places
<1>3. ASSUME NEW a \in P, NEW b \in P, a < b PROVE sf.events[a].what = "added" /\ sf.events[b].what = "revoked"
  BY <1>3 DEF Places, AddedOnce
<1> HIDE DEF P
<1>4. (\E m \in P : \A k \in P : m >= k) /\ (\E m \in P : \A k \in P : m <= k)
  <2>1. CASE \A k \in P : k = i
    BY <1>1, <1>2, <2>1
  <2>2. ASSUME NEW j \in P, j # i PROVE <1>4!:
    <3>1. ASSUME NEW a \in P, NEW b \in P, a < b, NEW k \in P PROVE k = a \/ k = b
      <4>1. ~(k < a) /\ ~(a < k /\ k < b) /\ ~(b < k)
        BY <1>3, <3>1
      <4> QED
        BY <1>1, <3>1, <4>1
    <3>2. CASE i < j
      BY <1>1, <1>2, <2>2, <3>1, <3>2
    <3>3. CASE j < i
      BY <1>1, <1>2, <2>2, <3>1, <3>3
    <3> QED
      BY <1>1, <1>2, <2>2, <3>2, <3>3
  <2> QED
    BY <2>1, <2>2
<1>5. Max(P) \in P /\ \A k \in P : Max(P) >= k
  BY <1>4 DEF Max
<1>6. Min(P) \in P /\ \A k \in P : Min(P) =< k
  BY <1>4 DEF Min
<1> QED
  BY <1>1, <1>5, <1>6 DEF Latest, P

LEMMA ActiveIs ==
    ASSUME NEW sf \in ShareBytes, NEW who
    PROVE  /\ who \in Active(sf) <=> HasHistory(sf, who) /\ sf.events[Latest(sf, who)].what = "added"
           /\ who \in Revoked(sf) <=> HasHistory(sf, who) /\ sf.events[Latest(sf, who)].what = "revoked"
<1> DEFINE A(e) == sf.events[Latest(sf, e.who)].what = "added"
           R(e) == sf.events[Latest(sf, e.who)].what = "revoked"
<1>1. \A e : e \in ToSet(sf.events) <=> \E i \in DOMAIN sf.events : e = sf.events[i]
  BY DEF ToSet
<1>2. who \in Active(sf) <=> \E e \in ToSet(sf.events) : A(e) /\ e.who = who
  BY DEF Active
<1>3. who \in Revoked(sf) <=> \E e \in ToSet(sf.events) : R(e) /\ e.who = who
  BY DEF Revoked
<1>4. HasHistory(sf, who) <=> \E e \in ToSet(sf.events) : e.who = who
  BY <1>1 DEF HasHistory
<1>5. \A e : e.who = who => (A(e) <=> sf.events[Latest(sf, who)].what = "added")
                            /\ (R(e) <=> sf.events[Latest(sf, who)].what = "revoked")
  OBVIOUS
<1> HIDE DEF A, R
<1> QED
  BY <1>2, <1>3, <1>4, <1>5

\* A change adds one event, and one more digest.
Extends(sf, new, what, who) ==
    \E e \in Event :
        /\ e.what = what /\ e.who = who
        /\ new \in ShareBytes
        /\ new.events = Append(sf.events, e)
        /\ new.chain = Append(sf.chain, Append(IF sf.chain = <<>> THEN <<>> ELSE Last(sf.chain), e))

LEMMA PushedIs ==
    ASSUME NEW sf \in ShareBytes, NEW what \in {"added", "revoked"}, NEW who \in Recipients
    PROVE  Extends(sf, Pushed(sf, what, who), what, who) /\ Pushed(sf, what, who).whole = sf.whole
<1> DEFINE e == [what |-> what, who |-> who]
           new == Pushed(sf, what, who)
           prev == IF sf.chain = <<>> THEN <<>> ELSE Last(sf.chain)
<1>1. e \in Event /\ e.what = what /\ e.who = who
  BY DEF Event
<1>2. prev \in Seq(Event)
  BY EmptySeq DEF ShareBytes, Last
<1> HIDE DEF e, prev
<1>3. new = [sf EXCEPT !.events = Append(@, e), !.chain = Append(@, Append(prev, e))]
  BY DEF Pushed, e, prev
<1>4. Append(sf.events, e) \in Seq(Event) /\ Append(sf.chain, Append(prev, e)) \in Seq(Seq(Event))
  BY <1>1, <1>2, AppendProperties DEF ShareBytes
<1>5. /\ new \in ShareBytes /\ new.events = Append(sf.events, e)
      /\ new.chain = Append(sf.chain, Append(prev, e)) /\ new.whole = sf.whole
  BY <1>3, <1>4 DEF ShareBytes
<1> QED
  BY <1>1, <1>5 DEF Extends, prev

LEMMA PushedSound ==
    ASSUME NEW sf \in ShareBytes, Sound(sf), NEW what \in {"added", "revoked"}, NEW who \in Recipients,
           \/ what = "added" /\ ~HasHistory(sf, who)
           \/ what = "revoked" /\ who \in Active(sf)
    PROVE  Sound(Pushed(sf, what, who))
<1> DEFINE new == Pushed(sf, what, who)
           prev == IF sf.chain = <<>> THEN <<>> ELSE Last(sf.chain)
           n == Len(sf.events)
<1>00. Extends(sf, new, what, who) /\ new.whole = sf.whole
  BY PushedIs
<1>0. PICK e \in Event : /\ e.what = what /\ e.who = who
                         /\ new \in ShareBytes
                         /\ new.events = Append(sf.events, e)
                         /\ new.chain = Append(sf.chain, Append(prev, e))
  BY <1>00 DEF Extends
<1> HIDE DEF new
<1>1. /\ sf.events \in Seq(Event) /\ n \in Nat /\ DOMAIN sf.events = 1..n
      /\ sf.chain \in Seq(Seq(Event)) /\ Len(sf.chain) = n /\ DOMAIN sf.chain = 1..n
      /\ \A i \in 1..n : sf.chain[i] = SubSeq(sf.events, 1, i)
  BY DEF ShareBytes, Sound, ChainHolds
<1>2. prev = sf.events
  <2>1. CASE n = 0
    BY <1>1, <2>1, EmptySeq
  <2>2. CASE n # 0
    <3>1. sf.chain # <<>> /\ prev = sf.chain[n] /\ n \in 1..n
      BY <1>1, <2>2, EmptySeq DEF Last
    <3>2. SubSeq(sf.events, 1, n) = sf.events
      BY <1>1, <2>2
    <3> QED
      BY <1>1, <3>1, <3>2
  <2> QED
    BY <1>1, <2>1, <2>2
<1> HIDE DEF prev, n
<1>3. /\ new.events \in Seq(Event) /\ Len(new.events) = n + 1 /\ DOMAIN new.events = 1..(n + 1)
      /\ new.events[n + 1] = e /\ \A i \in 1..n : new.events[i] = sf.events[i]
  BY <1>0, <1>1, AppendProperties DEF n
<1>4. /\ Len(new.chain) = n + 1 /\ DOMAIN new.chain = 1..(n + 1)
      /\ new.chain[n + 1] = new.events /\ \A i \in 1..n : new.chain[i] = sf.chain[i]
  <2>1. Append(prev, e) \in Seq(Event) /\ Append(prev, e) = new.events
    BY <1>0, <1>1, <1>2, <1>3
  <2> QED
    BY <1>0, <1>1, <2>1, AppendProperties
<1>5. ChainHolds(new)
  <2>1. ASSUME NEW i \in 1..n PROVE SubSeq(sf.events, 1, i) = SubSeq(new.events, 1, i)
    <3>1. /\ SubSeq(sf.events, 1, i) \in Seq(Event) /\ Len(SubSeq(sf.events, 1, i)) = i
          /\ \A k \in 1..i : SubSeq(sf.events, 1, i)[k] = sf.events[k]
      BY <1>1
    <3>2. /\ SubSeq(new.events, 1, i) \in Seq(Event) /\ Len(SubSeq(new.events, 1, i)) = i
          /\ \A k \in 1..i : SubSeq(new.events, 1, i)[k] = new.events[k]
      BY <1>1, <1>3
    <3>3. \A k \in 1..i : new.events[k] = sf.events[k]
      BY <1>1, <1>3
    <3> QED
      BY <3>1, <3>2, <3>3, SeqEqual
  <2>2. SubSeq(new.events, 1, n + 1) = new.events
    BY <1>1, <1>3
  <2>3. ASSUME NEW i \in 1..(n + 1) PROVE new.chain[i] = SubSeq(new.events, 1, i)
    <3>1. CASE i = n + 1
      BY <1>4, <2>2, <3>1
    <3>2. CASE i # n + 1
      <4>1. i \in 1..n
        BY <1>1, <3>2
      <4> QED
        BY <1>1, <1>4, <2>1, <4>1
    <3> QED
      BY <3>1, <3>2
  <2> QED
    BY <1>3, <1>4, <2>3 DEF ChainHolds
<1>6. AddedOnce(new)
  <2>1. SUFFICES ASSUME NEW i \in DOMAIN new.events, NEW j \in DOMAIN new.events, i < j,
                        new.events[i].who = new.events[j].who
                 PROVE  new.events[i].what = "added" /\ new.events[j].what = "revoked"
    BY DEF AddedOnce
  <2>2. i \in 1..n /\ i \in DOMAIN sf.events /\ new.events[i] = sf.events[i]
    BY <1>1, <1>3, <2>1
  <2>3. CASE j # n + 1
    <3>1. j \in 1..n
      BY <1>1, <1>3, <2>3
    <3> QED
      BY <1>1, <1>3, <2>1, <2>2, <3>1 DEF Sound, AddedOnce
  <2>4. CASE j = n + 1
    <3>1. sf.events[i].who = who /\ HasHistory(sf, who) /\ i \in Places(sf, who)
      BY <1>0, <1>3, <2>1, <2>2, <2>4 DEF HasHistory, Places
    <3>2. what = "revoked" /\ sf.events[Latest(sf, who)].what = "added"
      BY <3>1, ActiveIs
    <3>3. Latest(sf, who) \in Places(sf, who) /\ i <= Latest(sf, who)
      BY <3>1, FirstAndLast DEF Sound
    <3>4. i = Latest(sf, who)
      BY <1>1, <3>1, <3>2, <3>3 DEF Sound, AddedOnce, Places
    <3> QED
      BY <1>0, <1>3, <2>2, <2>4, <3>2, <3>4
  <2> QED
    BY <2>3, <2>4
<1> QED
  BY <1>00, <1>5, <1>6 DEF Sound, new

\* What a change leaves of a file: its history, and who is revoked in it.
LEMMA ChangeKeeps ==
    ASSUME NEW old \in ShareBytes, Sound(old), NEW new \in ShareBytes, Changed(old, new)
    PROVE  /\ Sound(new) /\ IsPrefix(old.events, new.events)
           /\ \A who \in Recipients : HasHistory(old, who) /\ who \notin Active(old) => who \notin Active(new)
<1>1. CASE new = old
  BY <1>1 DEF IsPrefix, ShareBytes
<1>2. ASSUME NEW who \in Recipients, NEW what \in {"added", "revoked"}, new = Pushed(old, what, who),
             \/ what = "added" /\ ~HasHistory(old, who)
             \/ what = "revoked" /\ who \in Active(old)
      PROVE  /\ Sound(new) /\ IsPrefix(old.events, new.events)
             /\ \A other \in Recipients :
                    HasHistory(old, other) /\ other \notin Active(old) => other \notin Active(new)
  <2> DEFINE n == Len(old.events)
  <2>1. Sound(new)
    BY <1>2, PushedSound
  <2>2. PICK e \in Event : e.what = what /\ e.who = who /\ new.events = Append(old.events, e)
    <3>1. Extends(old, new, what, who)
      BY <1>2, PushedIs
    <3> QED
      BY <3>1 DEF Extends
  <2>3. old.events \in Seq(Event) /\ n \in Nat /\ DOMAIN old.events = 1..n
    BY DEF ShareBytes
  <2>4. /\ Len(new.events) = n + 1 /\ DOMAIN new.events = 1..(n + 1) /\ new.events \in Seq(Event)
        /\ new.events[n + 1] = e /\ \A i \in 1..n : new.events[i] = old.events[i]
    BY <2>2, <2>3, AppendProperties
  <2>5. IsPrefix(old.events, new.events)
    <3>1. /\ SubSeq(old.events, 1, n) \in Seq(Event) /\ Len(SubSeq(old.events, 1, n)) = n
          /\ \A k \in 1..n : SubSeq(old.events, 1, n)[k] = old.events[k]
      BY <2>3
    <3>2. /\ SubSeq(new.events, 1, n) \in Seq(Event) /\ Len(SubSeq(new.events, 1, n)) = n
          /\ \A k \in 1..n : SubSeq(new.events, 1, n)[k] = new.events[k]
      BY <2>3, <2>4
    <3>3. SubSeq(old.events, 1, n) = SubSeq(new.events, 1, n)
      BY <2>4, <3>1, <3>2, SeqEqual
    <3> QED
      BY <2>3, <2>4, <3>3 DEF IsPrefix
  <2>6. ASSUME NEW other \in Recipients, HasHistory(old, other), other \notin Active(old)
        PROVE  other \notin Active(new)
    <3>1. other # who
      BY <1>2, <2>6
    <3>2. Places(new, other) = Places(old, other)
      BY <2>2, <2>3, <2>4, <3>1 DEF Places
    <3>3. Latest(new, other) = Latest(old, other) /\ Latest(old, other) \in Places(old, other)
      BY <2>6, <3>2, FirstAndLast DEF Latest, Sound
    <3>4. new.events[Latest(new, other)] = old.events[Latest(old, other)]
      BY <2>3, <2>4, <3>3 DEF Places
    <3> QED
      BY <2>6, <3>4, ActiveIs
  <2> QED
    BY <2>1, <2>5, <2>6
<1> QED
  BY <1>1, <1>2 DEF Changed

LEMMA NothingRead == Empty \in ShareBytes /\ Torn \in ShareBytes
<1>1. <<>> \in Seq(Event) /\ <<>> \in Seq(Seq(Event))
  BY EmptySeq
<1>2. Empty \in ShareBytes
  BY <1>1, Zenon DEF Empty, ShareBytes
<1>3. Torn \in ShareBytes
  BY <1>1, Zenon DEF Torn, ShareBytes
<1> QED
  BY <1>2, <1>3

LEMMA OnDiskShape == ASSUME SharesShape PROVE OnDisk \in ShareBytes /\ Empty \in ShareBytes /\ Torn \in ShareBytes
<1>1. Empty \in ShareBytes /\ Torn \in ShareBytes
  BY NothingRead
<1>2. CASE name = 0
  BY <1>1, <1>2 DEF OnDisk
<1>3. CASE name # 0
  <2>1. name \in Inodes
    BY <1>3, ShareFileAssumption DEF SharesShape, Inodes
  <2>2. inodes[name] \in ShareBytes
    BY <2>1 DEF SharesShape
  <2> QED
    BY <1>3, <2>2, <1>1 DEF OnDisk
<1> QED
  BY <1>1, <1>2, <1>3

LEMMA InitSharesInv == SharesInit => SharesInv
<1> SUFFICES ASSUME SharesInit PROVE SharesInv
  OBVIOUS
<1>1. Empty \in ShareBytes /\ Torn \in ShareBytes
  BY NothingRead
<1>2. SharesShape
  BY <1>1, ShareFileAssumption DEF SharesInit, SharesShape
<1>3. Empty.events = <<>> /\ Empty.chain = <<>> /\ Empty.whole = TRUE
  BY DEF Empty
<1>4. ChainHolds(Empty) /\ AddedOnce(Empty)
  BY <1>3 DEF ChainHolds, AddedOnce
<1>5. Sound(OnDisk)
  BY <1>3, <1>4 DEF Sound, SharesInit, OnDisk
<1>6. \A r \in Runs : RunHolds(r)
  BY DEF RunHolds, SharesInit
<1> QED
  BY <1>2, <1>5, <1>6 DEF SharesInv

\* An inode is left for the temporary file: every run before this one took one at most.
LEMMA InodeLeft ==
    ASSUME OneRun, SharesInv, NEW r \in Runs, pc[r] = "create", tmp = 0
    PROVE  Unused \in Inodes /\ Unused # name
<1>1. ops \in 0..MaxOps /\ name \in 0..MaxOps /\ ops >= 1 /\ (name # 0 => ops >= 2)
  BY DEF SharesInv, SharesShape, RunHolds
<1>2. \A s \in Runs : fd[s] = 0
  BY DEF SharesInv, RunHolds, OneRun
<1>3. \E i \in Inodes : i \notin {name, tmp} /\ \A s \in Runs : fd[s] # i
  <2>1. PICK i \in Inodes : i # name
    <3>1. CASE name = 1
      <4>1. 2 \in Inodes
        BY <1>1, <3>1, ShareFileAssumption DEF Inodes
      <4> QED
        BY <3>1, <4>1
    <3>2. CASE name # 1
      <4>1. 1 \in Inodes
        BY <1>1, ShareFileAssumption DEF Inodes
      <4> QED
        BY <3>2, <4>1
    <3> QED
      BY <3>1, <3>2
  <2>2. i # 0
    BY DEF Inodes
  <2> QED
    BY <1>2, <2>1, <2>2
<1> QED
  BY <1>3 DEF Unused

LEMMA SharesStep ==
    ASSUME OneRun, SharesInv, [SharesNext]_sharesVars
    PROVE  SharesInv' /\ Changed(OnDisk, OnDisk')
<1> USE ShareFileAssumption
<1>0. SharesShape /\ Sound(OnDisk) /\ (\A r \in Runs : RunHolds(r)) /\ OnDisk \in ShareBytes
  BY OnDiskShape DEF SharesInv
\* What the file holds changes with the rename only.
<1>1. ASSUME NEW r \in Runs, SharesShape', RunHolds(r)', OnDisk' = OnDisk
      PROVE  SharesInv' /\ Changed(OnDisk, OnDisk')
  <2>1. \A s \in Runs : RunHolds(s)'
    BY <1>1 DEF OneRun
  <2>2. Sound(OnDisk)'
    BY <1>0, <1>1
  <2> QED
    BY <1>1, <2>1, <2>2 DEF SharesInv, Changed
<1>2. ASSUME NEW r \in Runs, OpenFile(r) PROVE SharesInv' /\ Changed(OnDisk, OnDisk')
  <2>1. /\ pc[r] = "idle" /\ ops < MaxOps /\ ops' = ops + 1 /\ UNCHANGED <<name, tmp, inodes, fd>>
        /\ copy' = [copy EXCEPT ![r] = OnDisk]
    BY <1>2 DEF OpenFile
  <2>2. pc' = [pc EXCEPT ![r] = "change"]
    <3>1. OnDisk.whole /\ ChainHolds(OnDisk)
      BY <1>0 DEF Sound
    <3>2. pc' = [pc EXCEPT ![r] = IF OnDisk.whole /\ ChainHolds(OnDisk) THEN "change" ELSE "idle"]
      BY <1>2 DEF OpenFile, Goto
    <3> QED
      BY <3>1, <3>2, Zenon
  <2>3. pc'[r] = "change" /\ copy'[r] = OnDisk /\ OnDisk' = OnDisk
    BY <1>0, <2>1, <2>2 DEF SharesShape, OnDisk
  <2>4. SharesShape'
    BY <1>0, <2>1, <2>2 DEF SharesShape
  <2>5. RunHolds(r)'
    BY <1>0, <2>1, <2>3 DEF RunHolds, SharesShape
  <2> QED
    BY <1>1, <2>3, <2>4, <2>5
<1>3. ASSUME NEW r \in Runs, NEW who \in Recipients, AddRecipient(r, who) \/ RevokeRecipient(r, who)
      PROVE  SharesInv' /\ Changed(OnDisk, OnDisk')
  <2>1. /\ pc[r] = "change" /\ pc' = [pc EXCEPT ![r] = "create"] /\ UNCHANGED <<name, tmp, inodes, fd, ops>>
        /\ copy[r] = OnDisk
    BY <1>0, <1>3 DEF AddRecipient, RevokeRecipient, Goto, RunHolds
  <2>2. PICK what \in {"added", "revoked"} :
            /\ (what = "added" /\ ~HasHistory(OnDisk, who)) \/ (what = "revoked" /\ who \in Active(OnDisk))
            /\ copy' = [copy EXCEPT ![r] = Pushed(@, what, who)]
    BY <1>3, <2>1 DEF AddRecipient, RevokeRecipient
  <2>3. pc'[r] = "create" /\ copy'[r] = Pushed(OnDisk, what, who) /\ OnDisk' = OnDisk
    BY <1>0, <2>1, <2>2 DEF SharesShape, OnDisk
  <2>4. Pushed(OnDisk, what, who) \in ShareBytes /\ Changed(OnDisk, copy'[r])
    BY <1>0, <2>2, <2>3, PushedIs DEF Extends, Changed
  <2>5. SharesShape'
    <3>1. copy' \in [Runs -> ShareBytes]
      BY <1>0, <2>1, <2>2, <2>4 DEF SharesShape
    <3> QED
      BY <1>0, <2>1, <3>1 DEF SharesShape
  <2>6. RunHolds(r)'
    BY <1>0, <2>1, <2>3, <2>4 DEF RunHolds
  <2> QED
    BY <1>1, <2>3, <2>5, <2>6
<1>4. ASSUME NEW r \in Runs, NEW who \in Recipients, RevokeNobody(r, who)
      PROVE  SharesInv' /\ Changed(OnDisk, OnDisk')
  <2>1. /\ pc[r] = "change" /\ pc' = [pc EXCEPT ![r] = "create"] /\ UNCHANGED <<name, tmp, inodes, copy, fd, ops>>
        /\ copy[r] = OnDisk
    BY <1>0, <1>4 DEF RevokeNobody, Goto, RunHolds
  <2>2. pc'[r] = "create" /\ OnDisk' = OnDisk /\ Changed(OnDisk, copy[r])
    BY <1>0, <2>1 DEF SharesShape, OnDisk, Changed
  <2>3. SharesShape'
    BY <1>0, <2>1 DEF SharesShape
  <2>4. RunHolds(r)'
    BY <1>0, <2>1, <2>2 DEF RunHolds
  <2> QED
    BY <1>1, <2>2, <2>3, <2>4
<1>5. ASSUME NEW r \in Runs, CreateTmp(r) PROVE SharesInv' /\ Changed(OnDisk, OnDisk')
  <2>1. /\ pc[r] = "create" /\ pc' = [pc EXCEPT ![r] = "write"] /\ UNCHANGED <<name, copy, ops>>
        /\ tmp' = (IF tmp = 0 THEN Unused ELSE tmp)
        /\ fd' = [fd EXCEPT ![r] = tmp'] /\ inodes' = [inodes EXCEPT ![tmp'] = Torn]
    BY <1>5 DEF CreateTmp, Goto
  <2>2. tmp' \in Inodes /\ tmp' # name /\ ops >= 1
    <3>1. CASE tmp = 0
      BY <1>0, <2>1, <3>1, InodeLeft DEF RunHolds
    <3>2. CASE tmp # 0
      BY <1>0, <2>1, <3>2 DEF SharesShape, Inodes, RunHolds
    <3> QED
      BY <3>1, <3>2
  <2>3. pc'[r] = "write" /\ fd'[r] = tmp' /\ OnDisk' = OnDisk
    BY <1>0, <2>1, <2>2 DEF SharesShape, OnDisk, Inodes
  <2>4. SharesShape' /\ tmp' # 0
    <3>1. tmp' \in 0..MaxOps /\ tmp' # 0
      BY <2>2 DEF Inodes
    <3>2. inodes' \in [Inodes -> ShareBytes]
      BY <1>0, <2>1, OnDiskShape DEF SharesShape
    <3> QED
      BY <1>0, <2>1, <2>2, <3>1, <3>2 DEF SharesShape
  <2>5. Changed(OnDisk, copy[r])
    BY <1>0, <2>1 DEF RunHolds
  <2>6. RunHolds(r)'
    BY <2>1, <2>2, <2>3, <2>4, <2>5 DEF RunHolds
  <2> QED
    BY <1>1, <2>3, <2>4, <2>6
<1>6. ASSUME NEW r \in Runs, WriteTmp(r) PROVE SharesInv' /\ Changed(OnDisk, OnDisk')
  <2>1. /\ pc[r] = "write" /\ pc' = [pc EXCEPT ![r] = "rename"] /\ UNCHANGED <<name, tmp, copy, fd, ops>>
        /\ inodes' = [inodes EXCEPT ![fd[r]] = copy[r]]
    BY <1>6 DEF WriteTmp, Goto
  <2>2. fd[r] = tmp /\ tmp \in Inodes /\ tmp # 0 /\ tmp # name /\ ops >= 1 /\ Changed(OnDisk, copy[r])
    BY <1>0, <2>1 DEF RunHolds, SharesShape, Inodes
  <2>3. pc'[r] = "rename" /\ inodes'[tmp] = copy[r] /\ OnDisk' = OnDisk
    BY <1>0, <2>1, <2>2 DEF SharesShape, OnDisk, Inodes
  <2>4. SharesShape'
    BY <1>0, <2>1, <2>2 DEF SharesShape
  <2>5. RunHolds(r)'
    BY <2>1, <2>2, <2>3 DEF RunHolds
  <2> QED
    BY <1>1, <2>3, <2>4, <2>5
<1>7. ASSUME NEW r \in Runs, Rename(r) PROVE SharesInv' /\ Changed(OnDisk, OnDisk')
  <2>1. /\ pc[r] = "rename" /\ pc' = [pc EXCEPT ![r] = "idle"] /\ UNCHANGED <<inodes, copy, ops>>
        /\ fd' = [fd EXCEPT ![r] = 0] /\ tmp # 0 /\ inodes[tmp] = copy[r]
        /\ Changed(OnDisk, copy[r]) /\ copy[r] \in ShareBytes /\ ops >= 1
    BY <1>0, <1>7 DEF Rename, Goto, RunHolds, SharesShape
  <2>2. name' = tmp /\ tmp' = 0
    BY <1>7, <2>1 DEF Rename
  <2>3. OnDisk' = copy[r] /\ Sound(copy[r])
    <3>1. OnDisk' = inodes[tmp]
      BY <2>1, <2>2 DEF OnDisk
    <3> QED
      BY <1>0, <2>1, <3>1, ChangeKeeps
  <2>4. SharesShape'
    BY <1>0, <2>1, <2>2 DEF SharesShape
  <2>5. \A s \in Runs : RunHolds(s)'
    <3>1. pc'[r] = "idle" /\ fd'[r] = 0
      BY <1>0, <2>1 DEF SharesShape
    <3> QED
      BY <3>1 DEF OneRun, RunHolds
  <2> QED
    BY <2>1, <2>3, <2>4, <2>5 DEF SharesInv
<1>8. ASSUME NEW r \in Runs, Quit(r) PROVE SharesInv' /\ Changed(OnDisk, OnDisk')
  <2>1. /\ pc' = [pc EXCEPT ![r] = "idle"] /\ UNCHANGED <<name, tmp, inodes, copy, ops>>
        /\ fd' = [fd EXCEPT ![r] = 0]
    BY <1>8 DEF Quit, Goto
  <2>2. pc'[r] = "idle" /\ fd'[r] = 0 /\ OnDisk' = OnDisk /\ SharesShape'
    BY <1>0, <2>1 DEF SharesShape, OnDisk
  <2> QED
    BY <1>1, <2>2 DEF RunHolds
<1>9. CASE UNCHANGED sharesVars
  BY <1>0, <1>9 DEF sharesVars, SharesInv, SharesShape, RunHolds, OnDisk, Changed
<1> QED
  BY <1>2, <1>3, <1>4, <1>5, <1>6, <1>7, <1>8, <1>9 DEF SharesNext, Step

\* Who is active can unlock, whatever is checked.
LEMMA UnlocksRight == ASSUME SharesInv PROVE UnlocksForActive
<1> DEFINE sf == OnDisk
<1>1. sf \in ShareBytes /\ Sound(sf)
  BY OnDiskShape DEF SharesInv
<1>2. \A who \in Active(sf) : who \in Recipients /\ HasHistory(sf, who)
  <2>1. \A i \in DOMAIN sf.events : sf.events[i] \in Event
    BY <1>1 DEF ShareBytes
  <2>2. \A who : HasHistory(sf, who) => who \in Recipients
    BY <2>1 DEF HasHistory, Event
  <2> QED
    BY <1>1, <2>2, ActiveIs
<1>3. ASSUME NEW who \in Active(sf) PROVE Latest(sf, who) = Min(Places(sf, who))
  <2>1. HasHistory(sf, who) /\ sf.events[Latest(sf, who)].what = "added"
    BY <1>1, <1>3, ActiveIs
  <2>2. /\ Latest(sf, who) \in Places(sf, who) /\ Min(Places(sf, who)) \in Places(sf, who)
        /\ Min(Places(sf, who)) <= Latest(sf, who)
    BY <1>1, <2>1, FirstAndLast DEF Sound
  <2>3. DOMAIN sf.events = 1..Len(sf.events) /\ Len(sf.events) \in Nat
    BY <1>1 DEF ShareBytes
  <2> DEFINE l == Latest(sf, who)
             m == Min(Places(sf, who))
  <2>4. /\ l \in DOMAIN sf.events /\ m \in DOMAIN sf.events /\ m <= l
        /\ sf.events[l].who = sf.events[m].who /\ sf.events[l].what = "added"
    BY <2>1, <2>2 DEF Places
  <2>5. AddedOnce(sf)
    BY <1>1 DEF Sound
  <2> HIDE DEF l, m, sf
  <2>6. l = m
    BY <2>3, <2>4, <2>5 DEF AddedOnce
  <2> QED
    BY <2>6 DEF l, m
<1>4. ASSUME NEW who \in Recipients, NEW chained \in BOOLEAN, NEW signed \in BOOLEAN, who \in Active(sf)
      PROVE  UnlockRun(who, chained, signed)
  <2>1. name # 0
    <3>1. CASE name = 0
      <4>1. sf.events = <<>>
        BY <3>1 DEF OnDisk, Empty
      <4> QED
        BY <1>1, <1>4, <4>1, ActiveIs DEF HasHistory
    <3> QED
      BY <3>1
  <2>2. OnDisk.whole /\ ChainHolds(OnDisk)
    BY <1>1 DEF Sound
  <2>3. Unlocks(OnDisk, who, signed)
    BY <1>3, <1>4 DEF Unlocks
  <2> QED
    BY <2>1, <2>2, <2>3, Zenon DEF UnlockRun
<1>5. ASSUME NEW who \in Recipients, NEW chained \in BOOLEAN, NEW signed \in BOOLEAN, UnlockRun(who, chained, signed)
      PROVE  who \in Active(sf)
  BY <1>5 DEF UnlockRun, Unlocks
<1>6. Active(sf) \cap Revoked(sf) = {}
  BY <1>1, ActiveIs
<1>7. Active(sf) \cup Revoked(sf) = {who \in Recipients : HasHistory(sf, who)}
  <2>1. ASSUME NEW who, HasHistory(sf, who) PROVE who \in Recipients /\ who \in Active(sf) \cup Revoked(sf)
    <3>1. Latest(sf, who) \in Places(sf, who)
      BY <1>1, <2>1, FirstAndLast DEF Sound
    <3>2. sf.events[Latest(sf, who)] \in Event /\ sf.events[Latest(sf, who)].who = who
      BY <1>1, <3>1 DEF ShareBytes, Places
    <3> QED
      BY <1>1, <2>1, <3>2, ActiveIs DEF Event
  <2>2. \A who \in Active(sf) \cup Revoked(sf) : HasHistory(sf, who)
    BY <1>1, ActiveIs
  <2> HIDE DEF sf
  <2> QED
    BY <2>1, <2>2
<1> QED
  BY <1>4, <1>5, <1>6, <1>7, Zenon DEF UnlocksForActive

\* With one run at a time, cut anywhere: the share file opens, its history grows, a
\* revocation is final, and share unlock gives the key to those listed as active
\* (crypto_engine/shares.rs).
THEOREM SharesAlwaysHold == ASSUME OneRun PROVE SharesSpec => SharesHold
<1> DEFINE Grows == IsPrefix(OnDisk.events, OnDisk'.events)
           Final == \A who \in Recipients :
                        HasHistory(OnDisk, who) /\ who \notin Active(OnDisk) => who \notin Active(OnDisk')
<1>1. SharesInv /\ [SharesNext]_sharesVars => SharesInv'
  BY SharesStep
<1>2. SharesInv => AlwaysOpens /\ UnlocksForActive
  BY UnlocksRight DEF SharesInv, Sound, AlwaysOpens
<1>3. SharesInv /\ SharesInv' /\ [SharesNext]_sharesVars => [Grows]_sharesVars /\ [Final]_sharesVars
  <2> SUFFICES ASSUME SharesInv, SharesInv', [SharesNext]_sharesVars PROVE Grows /\ Final
    OBVIOUS
  <2>2. OnDisk \in ShareBytes /\ Sound(OnDisk) /\ OnDisk' \in ShareBytes
    <3>1. SharesShape' /\ Empty \in ShareBytes
      BY OnDiskShape DEF SharesInv
    <3>2. OnDisk' \in ShareBytes
      BY <3>1 DEF OnDisk, SharesShape, Inodes
    <3> QED
      BY <3>2, OnDiskShape DEF SharesInv
  <2>3. Changed(OnDisk, OnDisk')
    BY SharesStep
  <2> QED
    BY <2>2, <2>3, ChangeKeeps
<1> QED
  BY InitSharesInv, <1>1, <1>2, <1>3, PTL DEF SharesSpec, SharesHold, AppendOnly, RevokedForGood
=============================================================================
