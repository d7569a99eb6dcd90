----------------------------- MODULE FdeVolume -----------------------------
(***************************************************************************)
(* A full-disk-encryption volume, rust-core/src/fde/volume.rs, on a        *)
(* FileBackedDevice: formatting it, opening it from its primary header or  *)
(* from the backup at the end of the device, sector reads and writes, and  *)
(* power failures and damaged headers.  One program at a time uses the     *)
(* device, though nothing locks it, and it writes to data sectors only.    *)
(*                                                                         *)
(* A header is the one sector that holds all its fields: the other seven   *)
(* are zero in every header and no check covers them.  So sector 0 is the  *)
(* primary header, sectors 1..DataSectors the data, and the last sector    *)
(* the backup.  A key is its passphrase, salt, cost and derivation path;   *)
(* the key check of a header is the key itself.                            *)
(***************************************************************************)
EXTENDS Naturals

CONSTANTS
    Phrases,
    Plain,          \* contents a caller writes to a sector
    DataSectors,
    Fips,           \* whether the build has the fips feature
    Devices,        \* what the device holds at first: "blank", "legacy"
    MaxFormats,     \* bound: formats ever started
    MaxDamages      \* bound: headers ever damaged

FdeVolumeAssumption ==
    /\ DataSectors \in Nat \ {0}
    /\ Fips \in BOOLEAN
    /\ Devices \subseteq {"blank", "legacy"} /\ Devices # {}
    /\ MaxFormats \in Nat /\ MaxDamages \in Nat

VARIABLES
    page,       \* what each sector holds for a reader
    disk,       \* what each sector may hold after a power failure
    fmt,        \* the format in progress: its step, header and next data sector
    vol,        \* the mounted volume: its header, its key and its cipher's key
    formats,    \* how many formats have started; the salt of the last
    damages,    \* how many headers have been damaged
    done,       \* the last format, once it has returned Ok: its salt and passphrase
    last,       \* per data sector, the content that was written last
    written     \* per data sector, the contents a power failure may leave

fdeVars == <<page, disk, fmt, vol, formats, damages, done, last, written>>

Data == 1..DataSectors

\* What damage to a header can hit.
Parts == {"magic", "version", "body"}

Primary == 0
Backup == DataSectors + 1
Sector == Primary..Backup

NoKey == [pass |-> "none", salt |-> 0, cost |-> 0, layered |-> FALSE]
NoHeader == [what |-> "none"]

Key(pass, salt, cost, layered) ==
    [pass |-> pass, salt |-> salt, cost |-> cost, layered |-> layered]

Old == [what |-> "old"]
Random(salt) == [what |-> "random", salt |-> salt]
Cipher(key, x) == [what |-> "cipher", key |-> key, x |-> x]

KdfKind == IF Fips THEN "pbkdf2" ELSE "argon2id"

(***************************************************************************)
(* The header and its bytes.  The cost is Argon2id's t_cost, or the        *)
(* iterations of PBKDF2.                                                   *)
(***************************************************************************)

\* to_bytes: there is no place for argon2_t_cost, whose bytes are zero.
ToBytes(h) == [h EXCEPT !.cost = IF h.kdf = "argon2id" THEN 0 ELSE @]

\* A header of an earlier release: byte 66, the kind of KDF, was reserved.
Legacy(pass) ==
    [what |-> "header", version |-> 3, salt |-> 0, kdf |-> "reserved", cost |-> 1,
     layered |-> FALSE, check |-> Key(pass, 0, 1, FALSE), damage |-> "none"]

\* from_bytes: magic, version and integrity, in this order.
ParseError(v) ==
    CASE v.what # "header"      -> "BadMagic"
      [] v.what = "header" /\ v.damage = "magic"   -> "BadMagic"
      [] v.what = "header" /\ v.damage = "version" -> "UnsupportedVersion"
      [] v.what = "header" /\ v.damage = "body"    -> "IntegrityFail"
      [] OTHER -> "none"

\* The argon2 crate refuses a t_cost below 1.
KdfError(h) ==
    IF (h.kdf = "argon2id" /\ h.cost > 0) \/ (h.kdf = "pbkdf2" /\ Fips) THEN "none" ELSE "Kdf"

DerivedKey(h, pass, layered) == Key(pass, h.salt, h.cost, layered)

(***************************************************************************)
(* open_volume as a function of the sectors: the error, or "none", and the *)
(* header it uses.                                                         *)
(***************************************************************************)

\* Only a bad magic or a bad digest sends the reader to the backup.
HeaderSector ==
    IF ParseError(page[Primary]) \in {"IntegrityFail", "BadMagic"} THEN Backup ELSE Primary

OpenError(pass) ==
    LET h == page[HeaderSector]
    IN  IF ParseError(h) # "none" THEN ParseError(h)
        ELSE IF KdfError(h) # "none" THEN "Kdf"
        ELSE IF DerivedKey(h, pass, h.layered) # h.check THEN "WrongPassphrase"
        ELSE "none"

Opens(pass) == OpenError(pass) = "none"

\* fde status reads the primary only, and needs no passphrase.
StatusError == ParseError(page[Primary])

\* create_hidden_volume reads the primary only, and takes the outer volume's key
\* straight from the master key.
HiddenError(pass) ==
    LET h == page[Primary]
    IN  IF ParseError(h) # "none" THEN ParseError(h)
        ELSE IF KdfError(h) # "none" THEN "Kdf"
        ELSE IF DerivedKey(h, pass, FALSE) # h.check THEN "WrongPassphrase"
        ELSE "none"

HeaderKey == IF page[HeaderSector].what = "header" THEN page[HeaderSector].check ELSE NoKey

\* What decrypting a sector with a key yields.
Decrypted(key, v) == IF v.what = "cipher" /\ v.key = key THEN v.x ELSE "garbage"

FdeInit ==
    \E device \in Devices, pass \in Phrases :
        LET was == [s \in Sector |->
                       IF device = "legacy" /\ s \in {Primary, Backup} THEN Legacy(pass) ELSE Old]
        IN  /\ page = was
            /\ disk = [s \in Sector |-> {was[s]}]
            /\ fmt = [step |-> "idle", header |-> NoHeader, next |-> 1]
            /\ vol = [header |-> NoHeader, key |-> NoKey, cipher |-> NoKey]
            /\ formats = 0
            /\ damages = 0
            /\ done = [salt |-> 0, pass |-> "none"]
            /\ last = [s \in Data |-> "garbage"]
            /\ written = [s \in Data |-> {"garbage"}]

Idle == fmt.step = "idle"
Mounted == vol.header # NoHeader

\* A write reaches the page cache; a power failure may keep or lose it.
Put(s, v) ==
    /\ page' = [page EXCEPT ![s] = v]
    /\ disk' = [disk EXCEPT ![s] = @ \cup {v}]

SyncAll == disk' = [s \in Sector |-> {page[s]}] /\ UNCHANGED page

Mount(h, key) == vol' = [header |-> h, key |-> key, cipher |-> key]

(***************************************************************************)
(* format_volume: init_volume and the key, the primary, the backup, the    *)
(* random fill, and one sync at the very end.                              *)
(***************************************************************************)

FormatBegin(pass) ==
    /\ Idle /\ ~Mounted /\ formats < MaxFormats
    /\ formats' = formats + 1
    /\ fmt' = [step |-> "primary", next |-> 1,
               header |-> [what |-> "header", version |-> 4, salt |-> formats', kdf |-> KdfKind,
                           cost |-> 1, layered |-> TRUE, damage |-> "none",
                           check |-> Key(pass, formats', 1, TRUE)]]
    /\ done' = [salt |-> 0, pass |-> "none"]
    /\ last' = [s \in Data |-> "garbage"]
    /\ written' = [s \in Data |-> {"garbage"}]
    /\ UNCHANGED <<page, disk, vol, damages>>

FormatPrimary ==
    /\ fmt.step = "primary"
    /\ Put(Primary, ToBytes(fmt.header))
    /\ fmt' = [fmt EXCEPT !.step = "backup"]
    /\ UNCHANGED <<vol, formats, damages, done, last, written>>

\* Mutant of FormatBackup: the backup is written over the primary again.
FormatBackupMisplaced ==
    /\ fmt.step = "backup"
    /\ Put(Primary, ToBytes(fmt.header))
    /\ fmt' = [fmt EXCEPT !.step = "fill"]
    /\ UNCHANGED <<vol, formats, damages, done, last, written>>

\* Mutant of FormatBackup: a backup that is there is not replaced.
FormatBackupOnce ==
    /\ fmt.step = "backup"
    /\ IF page[Backup].what = "header" /\ page[Backup].version = 4
           THEN UNCHANGED <<page, disk>>
           ELSE Put(Backup, ToBytes(fmt.header))
    /\ fmt' = [fmt EXCEPT !.step = "fill"]
    /\ UNCHANGED <<vol, formats, damages, done, last, written>>

FormatBackup ==
    /\ fmt.step = "backup"
    /\ Put(Backup, ToBytes(fmt.header))
    /\ fmt' = [fmt EXCEPT !.step = "fill"]
    /\ UNCHANGED <<vol, formats, damages, done, last, written>>

FormatFill ==
    /\ fmt.step = "fill"
    /\ Put(fmt.next, Random(fmt.header.salt))
    /\ fmt' = [fmt EXCEPT !.next = @ + 1, !.step = IF fmt.next = DataSectors THEN "sync" ELSE @]
    /\ UNCHANGED <<vol, formats, damages, done, last, written>>

FormatReturns ==
    /\ fmt' = [step |-> "idle", header |-> NoHeader, next |-> 1]
    /\ Mount(fmt.header, fmt.header.check)
    /\ done' = [salt |-> fmt.header.salt, pass |-> fmt.header.check.pass]
    /\ UNCHANGED <<formats, damages, last, written>>

FormatSync ==
    /\ fmt.step = "sync"
    /\ SyncAll
    /\ FormatReturns

\* A write or the sync fails and the format returns Err.
FormatFails ==
    /\ ~Idle
    /\ fmt' = [step |-> "idle", header |-> NoHeader, next |-> 1]
    /\ UNCHANGED <<page, disk, vol, formats, damages, done, last, written>>

(***************************************************************************)
(* The volume.                                                             *)
(***************************************************************************)

Open(pass) ==
    /\ Idle /\ ~Mounted
    /\ Opens(pass)
    /\ Mount(page[HeaderSector], page[HeaderSector].check)
    /\ UNCHANGED <<page, disk, fmt, formats, damages, done, last, written>>

WriteSector(s, x) ==
    /\ Mounted
    /\ Put(s, Cipher(vol.cipher, x))
    /\ last' = [last EXCEPT ![s] = x]
    /\ written' = [written EXCEPT ![s] = @ \cup {x}]
    /\ UNCHANGED <<fmt, vol, formats, damages, done>>

ReadSector(s) == Decrypted(vol.cipher, page[s])

\* After a sync, a power failure may no longer bring back anything older.
Sync ==
    /\ Mounted
    /\ SyncAll
    /\ written' = [s \in Data |-> {last[s]}]
    /\ UNCHANGED <<fmt, vol, formats, damages, done, last>>

\* zeroize clears the key and not the cipher made from it.
Zeroize ==
    /\ Mounted
    /\ vol' = [vol EXCEPT !.key = NoKey]
    /\ UNCHANGED <<page, disk, fmt, formats, damages, done, last, written>>

\* The volume is dropped: its pages stay in the cache.
Close ==
    /\ Mounted
    /\ vol' = [header |-> NoHeader, key |-> NoKey, cipher |-> NoKey]
    /\ UNCHANGED <<page, disk, fmt, formats, damages, done, last, written>>

(***************************************************************************)
(* What happens to the device.                                             *)
(***************************************************************************)

PowerFailure ==
    /\ \E first \in disk[Primary], second \in disk[Backup],
          data \in {d \in [Data -> UNION {disk[s] : s \in Data}] : \A s \in Data : d[s] \in disk[s]} :
           page' = [s \in Sector |-> IF s = Primary THEN first
                                      ELSE IF s = Backup THEN second ELSE data[s]]
    /\ disk' = [s \in Sector |-> {page'[s]}]
    /\ fmt' = [step |-> "idle", header |-> NoHeader, next |-> 1]
    /\ vol' = [header |-> NoHeader, key |-> NoKey, cipher |-> NoKey]
    /\ last' = [s \in Data |-> Decrypted(HeaderKey, page[s])']
    /\ UNCHANGED <<formats, damages, done, written>>

Damage(s, part) ==
    /\ damages < MaxDamages
    /\ damages' = damages + 1
    /\ page[s].what = "header" /\ page[s].damage = "none"
    /\ page' = [page EXCEPT ![s].damage = part]
    /\ disk' = [disk EXCEPT ![s] = {page'[s]}]
    /\ UNCHANGED <<fmt, vol, formats, done, last, written>>

FdeNext ==
    \/ \E pass \in Phrases : FormatBegin(pass) \/ Open(pass)
    \/ FormatPrimary \/ FormatBackup \/ FormatFill \/ FormatSync \/ FormatFails
    \/ \E s \in Data, x \in Plain : WriteSector(s, x)
    \/ Sync \/ Zeroize \/ Close \/ PowerFailure
    \/ \E s \in {Primary, Backup}, part \in Parts : Damage(s, part)

FdeSpec == FdeInit /\ [][FdeNext]_fdeVars

(***************************************************************************)
(* Properties.                                                             *)
(***************************************************************************)

Formatted == done.salt # 0
Intact(s) == page[s].what = "header" /\ page[s].damage = "none"

\* Once format_volume has returned, its passphrase opens the volume for as long
\* as one of the two headers is intact, whatever power failures there were
\* (format_volume, and open_volume's use of the backup).  Damage to the version
\* of the primary is excepted: it is an error of its own, and open_volume does
\* not turn to the backup for it.
Recovers ==
    /\ Formatted
    /\ Intact(Primary) \/ (Intact(Backup) /\ page[Primary].damage # "version")
    => Opens(done.pass)

\* Once a format has returned, no passphrase of an earlier format opens the
\* volume, not even after damage to the primary (format_volume's backup).
OldPassphraseDead == Formatted => \A pass \in Phrases \ {done.pass} : ~Opens(pass)

\* Once a format has returned, no data sector holds or can come back to what the
\* device held before (format_volume's fill and sync).
FilledWhenDone ==
    Formatted => \A s \in Data : \A v \in disk[s] :
        \/ v.what = "random" /\ v.salt = done.salt
        \/ v.what = "cipher" /\ v.key.salt = done.salt

\* Whichever header opens the volume, a sector reads as the last write to it, and
\* after a power failure as the last synced write or a later one, through closes
\* and damage to a header (write_sector, sync, open_volume).  A mounted volume
\* reads the same, zeroized or not.
Readable ==
    Formatted => \A s \in Data :
        /\ Opens(done.pass) => Decrypted(HeaderKey, page[s]) = last[s] /\ last[s] \in written[s]
        /\ Mounted => ReadSector(s) = last[s]

\* A volume that has just been formatted opens with its passphrase.
Reopens == Formatted /\ Intact(Primary) => Opens(done.pass)

\* A volume that fde status finds in order is one that opens; and no passphrase
\* makes create_hidden_volume, which fills half of the device, begin on a volume
\* that format_volume has made: the outer key it derives is never that volume's.
StatusTells ==
    Formatted =>
        /\ StatusError = "none" => Opens(done.pass)
        /\ \A pass \in Phrases : HiddenError(pass) # "none"

\* What was formatted and written comes back: the volume opens while one header
\* is intact, and every sector reads as the last write that counts.
VolumeComesBack == Recovers /\ Readable /\ StatusTells

\* What was on the device before a format does not: neither an earlier
\* passphrase nor earlier contents.
PastIsGone == OldPassphraseDead /\ FilledWhenDone

=============================================================================
