# Verification of Soteria-FS

TLA+ models of Soteria-FS (`src/rust-core`, and what acts on volumes in
`src/desktop` and `src/installer`), checked with TLC, and theorems about them
checked with TLAPS. Every definition is a translation of the Rust source;
`PROJECT.json` ("map") names the lines each one stands for.

Contents: [inventory](#1-inventory), [how the modules correspond to the
code](#2-modules-and-code), [the runs](#3-runs-bounds-and-what-they-show),
[the proofs](#4-proofs), [where the code and its words
differ](#5-where-the-code-and-its-words-differ), [what is not
modelled](#6-not-modelled), [plan](#7-plan).

To check: `tlc -config MCX.cfg MCX.tla` for a run, `tlapm X_proofs.tla` for a
proof module.

## 1. Inventory

Soteria-FS is a library with a command line, a desktop window and an installer.
A volume is one file that holds a user's encrypted data; around it stand the
key hierarchy, sharing, a policy engine with an audit log, an event bus with
sensors, intrusion responses, a full-disk variant, and the "omega" profile
(two-person release, COMSEC custody, emergency zeroization, separation of
planes, clearances). Components call each other as libraries; few of them share
memory between threads, and those that do are marked *threads* below. Most of
what can go wrong is in the file protocols (a process can be killed or the
machine can lose power between any two system calls), in objects whose methods
may be called in any order, and in data that comes back damaged, reordered or
old. Paths are under `src/rust-core/src` unless they begin with `src/`.

**Files and disks**

| Component (source) | State | Operations | Hard behaviour | Correct when |
|---|---|---|---|---|
| Volume store (`fs_layer/storage.rs`, `wal.rs`, `durability.rs`) | volume file, log file, temporary file, directory entries | save, load with log replay | crash between effects, failing calls, two processes | the file is whole; a returned image is the only one that can be loaded, unless the log could not be replayed |
| Volume commands (`main.rs`, `fs_layer/kdf.rs`) | volume, KDF sidecar, shares, mount point, marker | encrypt, decrypt, quick-mount, unmount, share add and unlock | a command stops between two files | no text that was acknowledged or is being edited is lost |
| Volume format (`fs_layer/storage.rs`, `crypto_engine/block.rs`) | entries, blocks, lineage | write and read a file | blocks lost, swapped, moved | what decrypts is a beginning of what was written |
| FUSE file system (`fs_layer/fuse_fs.rs`) | inode map, handles, read cache | lookup, open, create, write, release, unlink, rename | handles outlive names; cache accounting; a lock taken twice | the cache never exceeds its limit, its size never wraps; what hangs is known |
| Desktop window (`src/desktop`) | selection, dialogs, wizard; volume, sidecar and log of each path | click and type | two windows over one list; a format that stops between two files | a volume opens with its passphrase until its own path is formatted |
| Installer (`src/installer`) | binary, link, configuration, entry | install, uninstall | step failing, run cut short | after Ok, what the path names runs |
| FDE volume (`fde/volume.rs`, `block_device.rs`, `hidden.rs`) | header, backup, data sectors | format, open, read, write, sync, zeroize | power loss before the single sync, damaged header | one intact header opens it; the old passphrase never does |
| Key slots (`key_hierarchy/slots.rs`) | slot table in memory and as bytes | create, add, revoke, unseal, store, load | long call sequences, restart | somebody can always open; one master key; revocation is final |
| Share file (`crypto_engine/shares.rs`) | JSON file with events and a chain | open, add, revoke, save, unlock | crash in save, two runs | always opens; history grows; revocation is final |
| Persistent NVRAM (`fde/persistent.rs`) | one sealed sector | seal, write, read, verify | cut write, data in its place | what verifies was sealed as one |
| Snapshots (`snapshot_engine/`) | directories, manifests, chain | snapshot, rollback, append | cut short at any file | a complete snapshot reads as its source |

**Watching and reacting**

| Component (source) | State | Operations | Hard behaviour | Correct when |
|---|---|---|---|---|
| Event bus (`event_bus/bus.rs`) | id counter, bounded history, subscribers | publish, append, subscribe, unsubscribe | *threads*, three critical sections per publish | order per thread, nothing missed or repeated, silence after unsubscribe |
| Emergency controller (`omega/emergency.rs`) | counters, lockout, flag | trigger, note_\*, clear_wiped | *threads* on atomics, wrap-around, restart | nothing lost or counted twice; no destruction outside a lockout |
| Threat matrix, rate griefing (`intrusion/threat_matrix.rs`, `deception/rate_grief.rs`) | windows of attempts | record, evaluate | attempts that overlap, boundaries of windows | each judges by its window and by nothing else |
| Crypto eraser, forensic mirror (`intrusion/`) | keys, erasures, chain of events | register, erase, record, verify | keys registered after an erasure, lost events | no registered key survives; tampering is located |
| Detector, policy, responses (`security/`, `policy/`) | reads per region, canaries, context | read, write, judge, apply | windows of old reads | what is counted happened; what is decided is applied |
| Terminal interface (`tui/app.rs`) | screen, tick, tab | wait, key, refresh | keys that come without pause; events between two reads | the screen is fresh and its halves agree |
| Audit log (`policy/audit_log.rs`) | log file, rotations, open handle | open, append, rotate, verify | crash in a write, failing rename | acknowledged entries stay; verify blames no honest entry |
| Revocation engine (`policy/revocation.rs`) | capabilities, history in memory | issue, revoke, reap_expired | failure between memory and disk | memory and log agree |

**Erasing and recovering**

| Component (source) | State | Operations | Hard behaviour | Correct when |
|---|---|---|---|---|
| Temporal eraser (`anti_forensic/temporal_erase.rs`) | map of blocks and their last access | touch, forget, background scan and erase | *threads*, lock released between scan and erase | only idle blocks are erased, and idle blocks are |
| File erasure (`secure_erase.rs`) | files, passes on the disk | wipe_file, wipe_dir | passes that meet in the cache, links | every pass reached the disk before Ok |
| Shamir sharing (`fde/shamir.rs`, `defense/shamir_recovery.rs`, commands) | directory of share files | split, recover | shares of two splits in one directory | k shares recover, k - 1 tell nothing |
| Erasure coding (`erasure_coding.rs`) | sealed shards | encode, decode | shards lost, relabelled, mixed | the right plaintext or an error |

**Omega profile** (`omega/`, `tpm/`)

| Component (source) | State | Operations | Hard behaviour | Correct when |
|---|---|---|---|---|
| Two-person release (`two_person.rs`) | session with first share and log | open, first and second share, abort | call order, expiry | each release has two operators in the log, none after expiry |
| COMSEC ledger (`comsec.rs`) | keys with custody chains, certificates | new, append, destroy, verify, inventory | copies that diverge, two clock readings | destruction is last; chains verify exactly when untouched |
| Initialization (`init_flow.rs`) | completed phases, birth certificate | complete, certify, restart from a copy | copies of different ages | a certificate covers one ordered history |
| Plane IPC (`crypto_process.rs`) | session keys, frames | build, send, decode, verify | frames cut, delayed, repeated; restarts | what is served was built and is in time |
| Write inspection (`defense/mod.rs`) | windows per process | inspect, allow | sliding windows | hammering gains nothing |
| Clearances (`classification.rs`) | levels, compartments | read, write, grant | chains of reads and writes | nothing flows down |
| Perimeter (`sovereignty.rs`, `tempest.rs`) | mode, zone | check, switch, shielded operation | returning to an older zone | no step opens an outlet by the way |
| TPM manager and backends (`hardware/`, `tpm/`) | registers, blobs, identity | seal, unseal, challenge | provider chosen anew, identity that changes | what unseals is on its machine |
| Integrity (`integrity.rs`) | code, tree | encode, decode, prove, verify | as many erasures as parity, odd trees | named damage is repaired, other damage located |

How they interact: commands call the store, the key slots and the share file on
one volume; sensors publish on the bus, and the interface reads it; the
revocation engine writes the audit log; the policy is meant to judge what the
detector reports (nobody connects them); the emergency controller calls hooks
its owner supplies; the planes talk over a stream of frames. The rest of the
repository (primitives, decoys, rendering, the daemon's empty checks, the
simulation) keeps no state a property could be about: section 6.

The full list, with what is left out of each and why, is in `PROJECT.json`
("components"); the places where this code is hard to test are there as
"hazards", each at its line with the properties that watch it.

## 2. Modules and code

Each module keeps the names of the source where TLA+ allows it. A guard is a
condition or early return of the code, and one action is one stretch of code
that nothing can separate: a system call's effect where other processes or a
crash may come between, a critical section where threads may, a whole method
where the object belongs to one caller.

| Module | Models | An action is |
|---|---|---|
| `AtomicVolume` | what save and load promise: a register with the set `poss` of images a load may still return, and `under`, those it may return when it cannot replay the log | a call's start, end or inner progress |
| `VolumeStore` | `OnDiskFile::save`/`load`, `Wal::write`/`inspect`/`recover`, `fsync_dir` | one effect on the directory or on a file |
| `VolumeCommands` | the commands on one file, `VolumeKeyFile` (the sidecar) | one file a command reads or writes, or a failure or stop there |
| `VolumeFormat` | block encryption, lineage, header digest, `list` and `verify` | writing a file, or one change to what is read |
| `FuseFs` | the FUSE requests that change state | one request, with all it does to map, handles and cache |
| `Desktop` | the window and its wizard, and what formats, loads and replayed logs do to the files | one event of the interface, with the files it writes or the failure between them |
| `Installer` | installation and removal on Linux | one step of `install.rs`, which may fail |
| `FdeVolume` | `format_volume`, `open_volume`, `MountedVolume`, `FileBackedDevice`, `fde status`, `create_hidden_volume` up to its refusal | one sector write or one method |
| `KeySlots` | `KeySlotTable`, `VolumeKeyRotation` | one method, or the caller's write of the bytes |
| `ShareFile` | `ShareFile` and the share commands | open, one change, one file effect of save |
| `Nvram` | `NvramState` and its sector | one quarter of the sector written |
| `Snapshots` | snapshots, rollbacks, `VersionChain` | one file written, in whole or cut |
| `EventBus` | `EventBus` | one critical section; a delivery loop is one step per subscriber |
| `Emergency` | `EmergencyController` | one access to an atomic, or one hook |
| `Intrusion` | `ThreatMatrix`, `RateGriefer` | an attempt begins, or ends and is recorded |
| `Evidence` | `CryptoEraser`, `ForensicMirror` | one method, or one change to the events kept |
| `Dashboard` | the loop of `App` | drawing, waiting, a key, one of the two reads of the bus |
| `Response` | detector, sensors, policy engine, response context | one observation or one judgement |
| `AuditLog` | `AuditLog`; a component module without its own `Spec` | one system call of append or rotate |
| `Revocation` | `RevocationEngine`, composed with `AuditLog` by extension: it conjoins its own steps with those of the log, and the process's own use of the log goes on between revokes | the same |
| `TemporalEraser` | `TemporalEraser` and its thread | a locked method, or one call of `erase_fn` |
| `Wipe` | `wipe_file`, `wipe_dir_recursive` | one block written, one sync, one unlink |
| `Shamir` | both implementations of sharing, the commands around them | a split, one share file written, a recovery |
| `ErasureCoding` | field, code, sealing and decoding of shards | encoding a plaintext, or one change to the shards |
| `TwoPerson` | `TwoPersonSession` | one method |
| `Comsec` | `ComsecKey`, `KeyInventory` | one method |
| `InitFlow` | `InitState` | one method, or a restart from a kept copy |
| `CryptoIpc` | `IpcSession`, the frames between the planes | building, sending, losing or delivering a frame; a restart |
| `WriteGuard` | `RansomwareDefense` | one inspected write |
| `Clearances` | `Classification`, `Compartments`, `Clearance` | one read, write or change of a clearance |
| `Perimeter` | `AirGapEnforcer`, `ElectromagneticNoiseGenerator`, `ShieldedOperation` | one check or switch |
| `Hardware` | `TpmManager`, `PufSource`, `Fido2Device`, the `tpm` commands with either provider | one method, or one change of the machine or of the build |
| `VecRetain` | `Vec::retain`, which both sliding windows prune with, and removal from the read cache; operators only | none |
| `BinaryField` | `^` on symbols, loops and sums, under `Shamir` and `Integrity`; operators only | none |
| `Integrity` | `Gf256`, `RsCodec`, `MerkleTree`, `IntegritySystem` | a block added, a build, one column of an elimination |

The `MC` modules compose components for TLC. `MCVolumes`, `MCDisk`,
`MCDefense`, `MCRecovery` and `MCOmega` are *suites*: their components share no
state and no locks in the code, so that interleaving them would multiply states
and show nothing. A suite chooses one `part` at the start; only that part moves
and the others stay in an initial state. Every behaviour of each component is
there, and none is mixed with another's. A component is extended where its proofs
are in the suite's proof module, so that run and theorem name the same
definitions, and instantiated otherwise; names that two components of a suite
would share carry the component's name (`ScoresSpec`, `ReadWindow`). Components that do meet are composed
properly: `Revocation` runs on `AuditLog`, `VolumeStore` implements
`AtomicVolume`, the commands of `VolumeCommands` use the register's promise
(their save is one step), `FdeVolume` contains its device, `Response` joins
detector, sensors and policy.

How data is abstracted. Keys, passphrases, images and payloads are model values
or members of small sets; a digest is the value it is a digest of; a cipher text
is the tuple of key, content and whatever else is authenticated, so that
decrypting with another key fails or yields garbage as the cipher does. Files
are the values they hold plus what a power loss may leave of them: in
`VolumeStore` a content that was not synced may come back torn and a directory
entry that was not synced may come back old; in `FdeVolume` and `Wipe` the disk
remembers what a power loss may leave. Integers that wrap (the counters of
`Emergency`, request ids in `CryptoIpc`, attempts in `Perimeter`) are taken
modulo a constant that stands for their width. Field arithmetic is computed, in
fields whose width and polynomial are constants (`Shamir`, `ErasureCoding`,
`Integrity`): GF(8) in the runs, GF(256) in the code, the same operators.

Ghost variables, which no guard reads, carry what the properties need: `raced`
(TemporalEraser), `held`, `told` (Emergency), `released` (TwoPerson), `acked`,
`aged`, `hit` (AuditLog), `made` (Revocation), `last`, `written`, `done`
(FdeVolume), `split`, `flipped` (Comsec, in a key), `since` (EventBus), `births`
(InitFlow), `served` (CryptoIpc), `inspected` (WriteGuard), `seen`, `contents`
(Clearances), `recorded` (Evidence), `published`, `kept` (Dashboard), `judged`
(Response), `laid`, `wiped` (Wipe). One guard of Comsec does read one: at most
one flipped key is about at a time, which bounds the model.

## 3. Runs, bounds and what they show

Each passing run asks one question. A property with two or three conjuncts
names them in its module, each with its comment.

| Run (module) | Property | What it says |
|---|---|---|
| `store` (`MCVolumes`) | `VolumeWhole` | with non-overlapping calls, kills, power losses and failing calls, what is or may come back under the path is a whole saved image |
| | `LogCoversRename` | between the log's sync and its removal a crash can only end in the image being saved |
| | `AckedIsDurable` | when save returns Ok nothing else is left under the path or to be recovered |
| | `IsAtomicVolume` | the store implements `AtomicVolume`, with the stale answer of a load that could not replay the log |
| | `TextsSurvive` | a text that a command acknowledged, or that is in the mount point, is not lost by any command that fails or stops, until the next encryption begins to replace it |
| | `ChainTells` | a lineage that verifies, and what decrypts, is a beginning of one file as it was written |
| | `MountHolds` | the read cache keeps its limit and its size never wraps; in a mount only a late release makes a file on which `lookup` hangs |
| | `OnlyFormatTouches` | what passphrase opens a volume changes by nothing but the wizard's format of its path: to the one typed twice alike, or, if the format fails, possibly to none |
| | `InstalledRuns` | after Ok, soteriad on the path is the whole binary just installed |
| `store_overlap` (`VolumeStore`) | `VolumeStays` | a volume that is durably there never vanishes, however calls overlap |
| `defense` (`MCDefense`) | `BusDelivers` | order per thread, nothing missed, silence after unsubscribe, `append` answers with what is current |
| | `TriggersAccount` | racing triggers account for each holder once, give a day's lockout, destroy nothing outside one |
| | `JudgesAreFair` | the threat matrix judges by its window, and so does rate griefing whenever it records a failure, up to its maximum |
| | `EvidenceHolds` | erasures leave no older key, and the mirror locates changes |
| | `ScreenTells` | the screen is less than two ticks old, and the counter covers the list |
| | `ResponseAccounts` | enumerations are counted exactly, and the context holds what was decided |
| `recovery` (`MCRecovery`) | `IdleOnly` | the eraser overwrites idle blocks only and loses sight of no data |
| | `IdleIsErased` | liveness: an idle block is overwritten |
| | `SharesExact` | k shares of one split recover it, k - 1 fit every secret |
| | `PiecesInPlace` | decoding from data shards gives the right plaintext in its place, or an error |
| | `WipedForGood` | every pass is on the disk, in order, when `wipe_file` returns Ok, and links are not followed |
| `revocation` (`Revocation`) | `HistoryMatchesLog` | as long as no call on the log failed, what is in it is remembered; without faults, crashes included, the reverse too |
| | `LogTells` | without faults acknowledged entries are kept until a rotation drops them; they stay readable under every append; unless a call failed `verify` blames only what follows a tear |
| `disk` (`MCDisk`) | `VolumeComesBack` | a formatted device opens by either header and reads the last writes; what `fde status` accepts opens |
| | `PastIsGone` | neither an earlier passphrase nor earlier contents come back |
| | `SlotsHold` | somebody can open the table, all open one volume, a stored revocation is final |
| | `SharesHold` | the share file opens, grows, and forgets no revocation |
| | `SealedTogether` | a state that verifies was sealed as one |
| | `SnapshotsTell` | rollbacks restore exactly and can be repeated; the chain locates losses |
| `omega` (`MCOmega`) | `LedgerHolds` | destruction is the last event of a key in every copy; chains verify exactly when untouched |
| | `SessionAccounts`, `ExpiredForGood` | two operators in the log for each release, one first share per session, none after expiry |
| | `BirthsInOrder` | a birth certificate covers one ordered history |
| | `ServedInTime` | what the data plane serves was built under the key it was checked with and is not late |
| | `Throttled` | no process gets more than the cap through a second |
| | `NothingFlowsDown` | no chain of reads and writes carries anything to a lower level |
| | `BoundToMachine` | a blob unseals where it was sealed, a file exactly when both commands take the software provider under the same names; answers to a challenge tell identities apart |
| | `DamageIsHandled` | named erasures are repaired, damage to a block is located, proofs verify |
| | `NoOutletOpens` | no step opens an outlet unless it says so |
| `fde_volume_default`, `ipc_once`, `integrity_fresh`, `reads_back`, `any_k_of_n` | `Reopens`, `ServedOnce`, `FreshVerifies`, `ReadsBack`, `AnyKOfN` | violated: section 5 |

Every property of a passing run is broken by a mutant of a modelled definition
("mutants"), so none holds whatever the code does. There is one type invariant
in the runs (the store's); those of the other modules with proofs are proved.

Bounds, and why they are enough (the constants are in the `MC` modules, each
with its reason):

- `store`: two processes and two images. A crash leaves one unfinished call
  behind, and one more call meets its remains; two images tell old from new.
  The disk has no bound: there is no counter in the model. Commands: a right
  and a wrong passphrase and two salts, so that an encryption follows another.
  Format: two files, one of which repeats a block, and two changes. FUSE: a
  cache of one block and two handles, so that every open evicts. Desktop: one
  listed path and one outside, one passphrase: each file of a volume is its own
  or not. Installer: the default directory and two others.
- `store_overlap`: two processes and one image: the presence of the file does
  not depend on which image it is.
- `defense`: three events over a history of two, two threads and two
  subscribers; two threads that trigger twice, counters of three bits and
  figures of two, so both wrap-arounds happen; three attempts with the
  thresholds brought near each other, the maximum of the multiplier among them;
  four events for a screen of two rows and a history of three; three reads over a
  window of two.
- `recovery`: three blocks of which a scan erases two, so there is a backlog;
  GF(8), three shares, two splits; two plaintexts in codes of (2, 1) and
  (1, 2); two blocks, two passes, two runs.
- `revocation`: three appends, three rotations of three files: a log can be torn,
  extended and rotated out at the end. All faults are on. 2.1 million states.
- `disk`: two data sectors, two formats, one damaged field (the FIPS build, as
  the default build does not open its volumes); three slots, two masters; one
  share run at a time and five operations, so that add, revoke and add again
  surround a run that is cut short; two NVRAM writes; a chain of three versions.
- `omega`: a holder's copy and the inventory's copy of a key and three events;
  one session that expires at every stage, logs of nine entries for three
  releases; three instants for six phases; three frames for two requests; four
  writes over windows of two; two subjects and three objects; five kinds of
  destination; two registers in lists of three; GF(8) codewords of seven
  symbols, three of them parity, and trees of up to five leaves. 1.1 million
  states.

Deadlock is checked where the model never stops (`store_overlap` and
`revocation`). The suites switch it off: parts whose counters are bounded end.

Fairness. Only `IdleIsErased` needs it: weak fairness of the eraser's `Thread`
says that the background thread is scheduled and that `thread::sleep` returns,
which is all the code relies on (`start_background` loops until the stop flag
is set). Touching, forgetting and stopping are not fair: users need do nothing.
Elsewhere the code promises no progress: it has no retries, no queues and no
other thread of its own, and calls end by themselves.

What a property excepts is written in its definition and comment, and in every
case because the code does not give more. `hit` in `AuditLog` names the faults
that have happened; `raced` in `TemporalEraser` the blocks touched while a scan
was at work; `split` in `Comsec` the keys with an event whose two clock
readings differ; `Exclusive` in `VolumeStore` that calls do not overlap;
`Recovers` the version field of the primary header; `used` in `Shamir` shares
of one split; `Cancels` in `Hardware` register lists that bind to nothing.
`ReturnStale` in `AtomicVolume` is the answer of a load whose recovery failed;
`PenaltyFits` speaks of the moment a failure is recorded and of no later one.
Section 5 says what happens in the excepted cases.

## 4. Proofs

Six proof modules extend the modules they are about and hold the theorems;
their sections share no state, only lemmas about sequences and finite sets.
Two modules hold operators with the lemmas that several components need.
`VecRetain` is about `Vec::retain`, for the sliding windows and the read cache:
which elements remain, each at its rank, and that every place of the result is
one of them. `BinaryField` is about symbols, their addition and sums of them,
for `Shamir` and `Integrity`. Some sections are about recursive functions: the
lineage of a file, the size of a cache, field arithmetic, the levels of a tree.
The prover knows such a function only once one is shown to satisfy its equation
(`GrownExists`, `SizesExist`, `RecursionExists`, `LevelsExist`), and instead of
the library's induction theorems, which take an operator, the proofs argue from
the least number for which a claim fails (`LeastNumber`, `AllNumbers`).

| Module | Theorem | States | Assumes |
|---|---|---|---|
| `Volumes_proofs` | `Typing` | `Spec => []TypeOK` | `Exclusive` |
| | `Wholeness` | `Spec => []VolumeWhole` | `Exclusive` |
| | `LogCovers` | `Spec => []LogCoversRename` | `Exclusive`, `~BarePath` |
| | `Durability` | `Spec => AckedIsDurable` | `Exclusive`, `~BarePath` |
| | `Refinement` | `Spec => IsAtomicVolume` | `Exclusive`, `~BarePath` |
| | `Staying` | `Spec => VolumeStays` | nothing: calls may overlap |
| | `NoTextIsLost` | `CommandsSpec => []TextsSurvive` | |
| | `ChainsTell` | `FormatSpec => []ChainTells` | |
| | `MountStaysSound` | `FuseSpec => MountHolds` | |
| | `ClicksAreSafe` | `WindowSpec => OnlyFormatTouches` | |
| | `InstallationsRun` | `SetupSpec => []InstalledRuns` | nobody installs `--portable` into the default directory |
| `Disk_proofs` | `SlotsHoldAlways` | `Spec => SlotsHold` | |
| | `PastStaysGone` | `FdeSpec => []PastIsGone` | |
| | `VolumesComeBack` | `FdeSpec => []VolumeComesBack` | `Fips`: the default build opens nothing (section 5) |
| | `StateSealed` | `StateSpec => []SealedTogether` | |
| | `SnapshotsSound` | `SnapsSpec => []SnapshotsTell` | |
| | `SharesAlwaysHold` | `SharesSpec => SharesHold` | `OneRun`: two runs lose updates (section 5) |
| `Revocation_proofs` | `MemoryMatchesLog` | `Spec => []HistoryMatchesLog` | |
| | `LogIsSound` | `Spec => LogTells` | |
| `Defense_proofs` | `BusKeeps` | `Spec => BusDelivers` | |
| | `PanicAccounts` | `PanicSpec => TriggersAccount` | `Half` divides `Word` |
| | `ScreenStaysTrue` | `ScreenSpec => []ScreenTells` | the history holds at least a screen |
| | `EvidenceStands` | `EvidenceSpec => []EvidenceHolds` | |
| | `ResponsesAccount` | `ResponseSpec => []ResponseAccounts` | |
| | `JudgesStayFair` | `ScoresSpec => []JudgesAreFair` | |
| `Recovery_proofs` | `EraserKeeps` | `Spec => IdleOnly` | |
| | `WipesHold` | `WipeSpec => []WipedForGood` | |
| | `PiecesStayInPlace` | `PiecesSpec => []PiecesInPlace` | |
| | `SharesAreExact` | `ShareSpec => []SharesExact` | the polynomial is irreducible (`FieldAssumption`) |
| `Omega_proofs` | `SessionsAccount` | `Spec => []SessionAccounts` | |
| | `ExpiredStay` | `Spec => ExpiredForGood` | |
| | `LedgerSound` | `LedgerSpec => []LedgerHolds` | |
| | `BirthsHold` | `FlowSpec => []BirthsInOrder` | |
| | `ServedInTimeAlways` | `IpcSpec => []ServedInTime` | |
| | `WritesAreThrottled` | `GuardSpec => []Throttled` | |
| | `ClearancesHold` | `MlsSpec => []NothingFlowsDown` | |
| | `OutletsStayClosed` | `BorderSpec => NoOutletOpens` | |
| | `HardwareBinds` | `TpmSpec => []BoundToMachine` | |
| | `DamageHandled` | `RepairSpec => []DamageIsHandled` | the polynomial is primitive (`PrimitiveAssumption`) |

Each holds for every value of the constants that satisfies the module's
assumption (`StoreAssumption`, `BusAssumption`, `IntrusionAssumption`, ...):
constants that stand for "none" differ from proper values, and limits are
natural numbers. TLC evaluates the same assumptions in the runs. The last column
names what goes beyond that.

Every proof of an invariant has the same frame. The property is conjoined with
what it needs to be inductive; TLC checks the candidate on the run first; then
each action of the next-state relation has a lemma or a step, under which there
is one step for each conjunct it can disturb; a last temporal step puts them
together. What follows says, for each, what had to be added and why.

**Volume store**

- *Store.* `VolumeWhole` is not inductive: it says nothing about the temporary
  file, which a rename makes the volume. `WholeInv` adds that at most one call
  runs (`Alone`), that a file is open only between create and write (`TmpOpened`),
  what the temporary file holds at each place of a save (`Staged`: empty, then
  the image, then the image synced), and that every entry of the volume path,
  current or one that may come back, is synced (`Settled`). The sync before the
  rename is what carries `Staged` into `Settled`. For durability, `DurableInv`
  adds what each place of a save implies about the log and the volume
  (`SaveInv`): from `create` to `clear` the log holds the image and no older
  entry of it can come back (`Logged`); from `clear` the volume does (`Landed`),
  so at `ack` it does not matter whether the removal of the log is durable.
- *Refinement.* `RefineInv` adds what each place of a load implies (`LoadInv`):
  where a replayed log is dropped it agrees with the volume. The register's
  `poss` is the set of images that recovery could find now or after a power
  loss. `Plain` says that of settled files what may come back is the entries
  themselves, so that each effect of a call leaves `poss` alone or narrows it
  (`Narrows`), which is a step of the register or a stutter; one lemma per call
  (`...Maps`) says which. `under` is what is under the path now or after a power
  loss (`UnderPath`); a load that goes on without having replayed the log got there by
  a failing call (`LoadInv`), and what it returns is one of them.
- *Overlaps.* `Staying` needs another invariant, as no two calls can be assumed
  apart: `InHand` says that whoever is about to rename holds a temporary file or
  finds none, in which case the rename fails; every step that takes the entry
  away puts another in its place.

**Volumes**

- *Commands.* `CommandsInv`: from its write of the volume on, a command that
  keeps a text has it there under its own key, and after the sidecar under the
  salt in the sidecar (`Encrypting`, `Unmounting`); what was acknowledged is in
  the volume under the sidecar's salt (`Acknowledged`); what is edited is in the
  mount point, or there is none and the volume has it (`Edited`).
- *Format.* `FormatInv`: each file is what the recursion of `encrypt_to_disk`
  makes of its contents, and each entry of the copy is one of a file's, its
  block number aside. A hash is made from all the ciphertexts up to its block,
  so the last one of a chain that verifies determines the file and what the
  chain lists of it.
- *Mount.* `MountInv`: the cache holds no more than is counted, and no more than
  the limit unless it is one file (`CacheOK`), and handles, files and the map
  have their shapes. The lemma behind it is that whoever lists some of a
  sequence's entries in their order, in the cache as evicted, pruned or
  rearranged, holds at most what they held, less what was left out
  (`SizesCompare`).
- *Window.* `WindowInv`: no volume is marked as mounted, so that the button that
  removes a volume file is never enabled, and the wizard's last step has a
  passphrase that was typed twice alike. A replayed log puts a volume under a
  sidecar of another one, so it makes nothing open (`ReplayTouchesNone`).
- *Installer.* `SetupInv`: an installation under way has put back none of what
  it has done (`Installing`), and while a job runs nothing counts as ready.

**Disks**

- *Key slots.* `SlotsInv`: the table in memory and the one on disk are both
  `Good` (somebody opens them, one master), and no slot revoked on disk is
  enabled in memory (`NoneRevived`), which makes the next store harmless.
- *FDE volume.* `FdeInv`: a format under way has written what its place says and
  meanwhile nothing is mounted or counts as formatted (`Formatting`); on a
  formatted device whatever a power loss may leave of a header is of the last
  format, and whatever it may leave of a sector is the format's filler or was
  written under that format's key (`Holding`). Both properties follow from it.
- *NVRAM.* `NvramInv`: a write under way is the suffix that is missing of one
  state that was sealed (`Halfway`), and the chain hash in the last quarter,
  unless data lies there, is that of a state written to the end. It ties the
  other quarters to it.
- *Snapshots.* Two invariants, as the rollbacks and the version chain share
  nothing: `CallsInv`, what a call cut short has left; `VersionsInv`, that the
  chain is all that was appended or lacks exactly one record, the place of which
  shows it (`Missing`).
- *Share file.* `SharesInv`: what a run has read or staged at each place
  (`RunHolds`), and that what is under the name is `Sound`: whole, its chain intact,
  and each recipient in it at most twice, added first and revoked then. With the
  last, a change adds one event about somebody of whom the others do not speak.

**Revocation**

- `LogInv` is about the log by itself: a line at each place of its writing
  (`Writing`), which files are whole and where they end while nothing has failed
  (`Clean`), and that the handle agrees with the end of a whole file as long as
  calls were cut short but none failed (`Digests`). `RevInv` puts the engine on
  top: what it has noted was acknowledged, and as long as no call failed what can
  be read of its calls has been noted or is on its way (`Coming`). The engine's
  steps are conjunctions with the log's, so each lemma about a step of the log
  is used twice.

**Watching and reacting**

- *Event bus.* `BusInv`: the shapes; what each place of a publication implies
  about its thread's event (`Calls`); that ids grow along history and inboxes
  for each thread (`Ordered`); that a subscriber who has been sent fewer events
  than there are has a delivery pending that owes it the rest (`Pending`); and
  that the history ends with the caller's event or another thread's
  (`CallerLast`).
- *Emergency.* Two invariants. `AccountInv`: for each kind of holder, the
  counter plus what reports have told is the number of holders modulo `Half`,
  through every wrap. `LockInv`: a trigger on its way to destruction is under a
  lockout beyond its own reading of the clock, whatever other triggers have
  written since.
- *Dashboard.* `ScreenInv`: an id means one event in the bus and in the list
  (`OneSource`); between the two reads of a refresh, an event of the list is still in
  the history or older than all of it (`HalfRead`); the clocks of the loop.
  The counter, which is read second and over the whole history, then covers what
  the list still has in common with it.
- *Evidence.* `MirrorInv`: there is a chain of hashes over what was recorded, no
  two of them equal, and for each event kept a place in it, no further along than
  events are missing (`Chained`). What was cut out is in no variable, which is
  why chain and places are quantified. The least event that is altered or out of
  place, which the well-foundedness of the naturals
  gives, is where verification must stop.
- *Responses.* `ReadsInv`: for each region the times kept and some reads of the
  log correspond one to one (`Keeps`): all reads within the window and, until
  the region is read again, maybe others, as only a read of a region prunes it.
  When it has just been pruned the length of the list is the count.
- *Judges.* `JudgesInv`: both judges keep the end of the log, after d events and
  after f failures (`EventsAre`, `FailuresAre`), and whatever has left was too
  old when the last attempt was recorded. Records are in the order of
  their times and no attempt takes longer than `MaxTook`, so that an event
  behind a young front, which pruning does not look at, is not much older.
  `PenaltyFits` is carried as it is: time that goes by after a record leaves its
  premise, and only another record enters it.

**Erasing**

- *Eraser.* `EraserInv`: blocks picked and not yet overwritten are idle, free or
  raced (`PickedIsIdle`), and those already overwritten hold data only if raced
  (`DoneIsGone`).
- *Wiping.* `WipeInv`: while a file is at work each of its blocks has had every
  earlier pass on the disk, in order, and where this pass has been it is in the
  cache at least (`Working`); that the blocks that were wiped keep their last
  passes (`WipedStays`); that nothing outside the directory was touched
  (`Elsewhere`).

**Splitting secrets**

- *Pieces.* `PiecesInv`: every shard about, whatever it is filed as now, was sealed
  as some shard of a set that was encoded, and the sets are what `encode` made. A
  shard that opens is therefore the one of its index, and the k lowest of shards
  that are all data shards and all different are the data in its order. Nothing
  is assumed of the field: what is decoded from data shards is not computed.
- *Shares.* `ShareInv`: every split is what `split_secret` made of its master key
  and some coefficients; the shares yet to be written are the rest of the last
  one; a share file is empty, torn or a share of the split whose number it
  carries; and key and list of the last recovery belong together. The rest
  is algebra, as lemmas about the operators of the model. By induction over the
  bits, `++` is a commutative group in which everything is its own inverse;
  `FieldAssumption` says that `gf_mul` is the multiplication of a field, which is
  what an irreducible polynomial is for, and Fermat's theorem then makes `gf_inv`
  an inverse. What the weights of n points, each with its ratio to another point,
  leave of 1 is the product of those ratios (`PortionsComplete`, by partial
  fractions), so that one more point can be added; dividing a polynomial by
  x + u (`Division`) then gives its value at 0 from n points if its degree is
  less (`Interpolates`). Conversely, a multiplication by x + p makes a polynomial
  through any values at k - 1 points and any secret at 0 (`PolyThrough`), so that
  k - 1 shares fit every secret.

**Omega**

- *Two-person.* `PersonInv`: a session that holds a first share has one in its
  log, which says of whom (`Held`), and a released key has a session that was
  opened (`Opened`).
- *Ledger.* `LedgerInv`: each copy, a holder's or the inventory's, is
  `KeySound`: destruction, if it occurs, is its last event and the key is marked
  destroyed; unless an event was flipped each one links to the one before; and
  where a hashed field was flipped it does not verify. The copies diverge
  freely, so all of this is of each copy by itself.
- *Initialization.* `FlowInv`: the live state and the kept copy are both
  `Sound`, so that it does not matter which a restart goes on from.
- *IPC.* `IpcInv`: every frame on the wire is a request that was built
  (`FramesAreBuilt`); the deadline travels in the frame.
- *Write inspection.* `GuardInv`: the writes of a process within the window map
  one to one into its list (`Placed`), refused ones included, so that the list
  is at least as long as the count that matters; the history of readings is the
  end of all readings, and all of them while it is not full.
- *Clearances.* `NothingFlowsDown` is inductive with the types, since reading
  passes on what an object has taken in and not only its label.
- *Perimeter.* `BorderInv`: the shielding is always that of some zone, and so is
  what a shielded operation goes back to.
- *Hardware.* `HardwareInv`: what is in each blob, answer and sealed file was
  computed from the identity, registers and provider recorded with it.
- *Integrity.* `RepairInv`: the matrix of a decoder at work has the solutions of
  the system it began with (`SameSolutions`), its first columns are those of the
  unit matrix (`UnitColumns`), and positions named twice still have equal columns
  (`SameColumns`); one column of the elimination keeps all three
  (`Eliminations`). The symbols that were sent solve the first system, because a
  syndrome of the codeword, which is 0, is the received part and the erased part
  (`SyndromeSplits`, `SentSolves`), so at the end each row holds one of them
  (`JobEnds`). A column without a pivot would be a sum of the columns before it;
  multiplying the sums over powers of the positions by one factor for each of
  those (`VanishMore`) leaves a single term, which is not 0 (`Independent`). What
  `PrimitiveAssumption` says is that the powers of 2 are all symbols but 0 and
  that their multiplication is linear, which for 0x11D is textbook and for the
  polynomial of the run is evaluated. For the tree, the lemma is about one level
  (`OneLevel`): what is hashed from a node and its sibling is the node above
  exactly if the node was the right one, whether or not it was paired with itself.

Only model-checked: `IdleIsErased`, which is liveness under fairness and out of
the prover's reach. Every other property of a passing run is stated by a theorem.

## 5. Where the code and its words differ

Five differences are kept as runs in which TLC finds the property violated.

- `fde_volume_default`: `VolumeHeader::to_bytes` (`fde/volume.rs:176`) leaves
  bytes 40..56 zero and never writes `argon2_t_cost`, which `from_bytes` reads
  from 40..44; Argon2id refuses a cost of 0, so `open_volume` fails on every
  volume of the default build, where the test at `fde/volume.rs:830` expects
  success.
- `ipc_once`: `verify_request` (`omega/crypto_process.rs:228`) keeps no nonces,
  so a frame that arrives twice is served twice; line 49 says the data plane
  rejects duplicates.
- `integrity_fresh`: `encode_parity` (`omega/integrity.rs:180`) returns the part
  of the array that the division has just cleared; the parity is zero and
  `verify` refuses a fresh system.
- `reads_back`: `to_bytes` and `from_bytes` compute the header digest over
  different bytes (`fs_layer/storage.rs:154`, `:199`), so no volume that was
  written can be read; `tests/binary_volume.rs:41` expects it to be.
- `any_k_of_n`: decoding with a parity shard among the k
  (`erasure_coding.rs:296`) gives a wrong plaintext; line 11 says any k will do.

The others were met while modelling. The model contains the behaviour, and the
property that would exclude it is either restricted (section 3) or not stated.

Volume store
- Two overlapping savers share one temporary file (`storage.rs:282`): one can
  truncate what the other renames, and a torn file becomes the volume.
  `wal.rs:32` says advisory locking prevents concurrent writers; no lock is taken.
- A loader that has read the log of a killed save, and is delayed, replays it
  over a later save that was acknowledged (`wal.rs:149`).
- `load` ignores the result of the recovery (`storage.rs:258`), and with it that the
  log cannot be read (`wal.rs:114`): when the log of a save that was cut short
  cannot be replayed, load returns Ok with the old image, and a later load the
  new one. `wal.rs:10-12` says that any subsequent access applies it.
- For a path without a directory `fsync_dir` does nothing (`durability.rs:33`),
  and an acknowledged save can be undone by a power loss
  (`docs/architecture.md:22`: "crash-safe").
- The results of `sync_all` are ignored (`storage.rs:284`, `:291`). Syncs that
  fail, and a log that is there and not seen to be (`wal_path.exists`), are not
  in the model.

Volume commands and format
- Because of the header digest every load fails today. The commands are
  modelled with parsing left open, so that their properties are about the
  commands and hold again when the digest is mended.
- An encryption over an old volume that stops between volume and sidecar
  (`kdf.rs:185`) loses both the old text and the new; a mistyped passphrase at
  unmount re-keys the volume; an edit while unmount runs is lost.
- The share file of an older encryption blocks `share add`. A volume without
  blocks opens with any passphrase.
- Share signatures are checked where a recipient occurs first, and signed where
  it is added: a recipient added again keeps its old place.

FUSE (does not compile with its feature on: `getattr`, `setattr`)
- `lookup` hangs on a file without an inode: the guard of `name_map` lives to the
  end of the statement in which `register_inode` locks `name_map` again
  (`fuse_fs.rs:406-411`), and the one thread of the mount waits for itself. A
  handle that was written to and is released after its name was unlinked or
  renamed brings such a file back, and so does a map that was not saved.
- A rename registers an id derived from the new name, under which nothing is
  stored: the renamed file reads empty, against the comment at
  `fuse_fs.rs:658`. What was cached for the replaced name stays.
- A flush that fails drops the data of its handle; `flush_all_dirty` has no
  caller; a dirty handle released after an unlink brings the file back.

Desktop and installer
- `close_volume` removes the volume file, but nothing marks a volume as mounted,
  so it is never enabled. The format step shows one field and formats the path
  of another (`src/desktop/src/main.rs:784`), and overwrites an existing volume.
- A format saves the volume under its new key first and writes the sidecar then
  (`storage.rs:520-521`). When it fails or stops between the two, or leaves a
  committed log of the new volume, no passphrase opens what is there afterwards:
  the sidecar is missing, torn or the old one. The log is replayed by the next
  load, and reading the size of each volume for the list is one.
- Removal leaves the desktop entry `soteria.desktop` (`install.rs:96-127`).
- A configuration cut short stays. A link on the path that leads nowhere blocks
  both installation and removal (`install.rs:209`), and a removal deletes the
  binary first, so that the link stays. A portable installation in the directory
  of links would replace its binary by a link to itself (excluded in `Dirs`).

Event bus, detectors, responses
- `append` returns the last record of the history, which may be another
  thread's event (`bus.rs:305`).
- A full history drops its oldest record (`bus.rs:200`), where
  `docs/architecture.md:30` says "Append-only".
- `alerts` lists every registered canary as touched, and enumerations that are
  long past. A process anomaly without a pid is answered "isolate" and isolates
  nobody. Nobody feeds the detector's events to the policy, whose thresholds are
  severities where the detector's are bits.
- The simulated encryption reports an entropy alert for a payload of entropy 0
  (`simulation/ransomware_sim.rs:20`, `:34`, `:82`). In `main.rs` nothing publishes on the bus
  that the interface shows.
- A key registered with the crypto eraser after an erasure lives while
  `is_erased` says true.
- The cooldown of rate griefing counts from the last success and keeps the
  multiplier at 1 while failures are recorded in it (`rate_grief.rs:127`); after
  it nothing lowers the multiplier until the next attempt is recorded, where line
  43 says it resets if there are no attempts. Line 13 says 10^attempts for more
  than ten of them, the code multiplies 1.5^10 by 10 for each one beyond.

Temporal eraser and file erasure
- A block touched after the scan picked it is overwritten
  (`temporal_erase.rs:147`), and one touched between its overwriting and
  `mark_erased` is dropped from the map and never expires (`:151`).
- Lower indices that keep expiring use up every scan (`:104`): when the blocks
  are more than `(MaxIdle + 1) * MaxErases` a higher one may never be erased.
- The header of `secure_erase.rs` (28-34) speaks of a temporary file and a
  rename; the code overwrites in place, and what is appended meanwhile is not
  overwritten.

Emergency
- A holder counted by a trigger and dropped later makes a counter wrap below
  zero (`emergency.rs:149`; line 97 calls it the number of keys in RAM).
  `EachHolderOnce` shows that the error stays a wrapped difference.
- A restart lifts the lockout (`:103`), and a Duress after a ColdWar shortens a
  lockout of seven days to one (`:204`).
- Without hooks ColdWar destroys nothing and reports success (`:213`); the
  command line builds one without hooks or holders for each command
  (`main.rs:1645`).

Two-person release
- A session id digests one byte of the opener and the millisecond
  (`two_person.rs:221`), so two sessions can release the same key; lines
  289-291 say the key is bound to its session.
- The first share stays in the session after a release (`:329`) and releases
  again; lines 14-15 speak of zeroizing it. `abort` does not end a session.
- Below level 40 a release needs no witness (`:281`); line 40 says every
  release must be witnessed.

Audit log and revocation
- An append after a torn line is written behind it and cannot be read
  (`audit_log.rs:160`); when the torn line is the first, nothing of the file is
  read (`parse_bytes`) and `audit` exits with 2. Lines 21-22 say the reader
  truncates it.
- When the sync fails the entry is in the file and the handle repeats its
  number, so the next, honest entry is reported as tampered with (`:161`).
- A failed rename in a rotation is ignored (`:195`) and the next one overwrites
  a rotation.
- `revoke` removes the capability first and does not put it back when the log
  fails (`revocation.rs:111`; its comment announces a rollback).

Key slots, shares, sharing
- `add_slot` takes a passphrase that has a slot already, so that revoking one
  of the two does not lock it out (`slots.rs:331`).
- Revoked slots keep their place (`:346`): sixteen additions fill a table for
  good, where line 14 says "Revocation = deleting a slot".
- Two runs on a share file at once: the later save drops the other's event, or
  renames a file the other has only begun to write (`shares.rs:204`, `:209`).
- Shares carry no mark of their split: those of two splits combine to a wrong
  key without an error. `fde init` checks `--shares` and `--threshold` only after
  it has formatted, and splits the Argon2id root also in the FIPS build, where
  the volume's master comes from PBKDF2.

FDE volume, NVRAM, snapshots
- Damage to the version field of the primary is not answered by the backup
  (`volume.rs:668`).
- A format that stops after the headers leaves a volume that opens over old
  data (`:586`), against the comment at `:512`.
- A header of an earlier release has zero where the kind of KDF is read, and
  zero is no kind (`:554`; line 65 promises a legacy path).
- `zeroize` leaves the cipher, and reads go on (`:430`).
- `create_hidden_volume` derives the outer key on the path of old volumes and
  refuses every volume of this code (`hidden.rs:111`); what would follow fills
  the second half of the outer data, which its comment calls untouched.
- The NVRAM sector is the volume's first data sector, and reading it verifies
  nothing: the caller of the model does.
- A snapshot of content that has one already, cut short, tears the one there was.

COMSEC, TPM, perimeter, integrity
- `append_event` reads the clock twice (`comsec.rs:240`, `:248`); an event that
  straddles a millisecond never verifies.
- No digest covers the witness signature (`:238`; line 29 says any flipped bit
  breaks the chain).
- `insert` of an older copy makes a destroyed key active again (`:333`), and a
  second certificate replaces the first before the error is returned (`:382`).
- A register list in which each register occurs an even number of times binds a
  blob to nothing. The `tpm` commands choose their provider anew and a blob does
  not say which sealed it. `create_provider` takes the chip only with the feature
  `tpm`, which is off by default (`Cargo.toml:30`); module and commands are
  themselves compiled with it only (`lib.rs:91`, `main.rs:191`), so that its other
  branch is there for no build of this repository. The model has both. The
  hardware provider never hands its key to the chip (`tpm/hardware.rs:96`), so
  nothing it has sealed unseals.
- `can_write` ignores compartments. The end of a shielded operation goes back to
  the zone before it (`tempest.rs:281`); line 253 says to zone 0.
- `IntegritySystem::verify` accepts anything once one erasure is marked; the
  command that verifies reads its manifest back, answers `ok` and verifies nothing
  (`main.rs:1739`).
- Re-initializing the FIPS module clears its error state, which nothing consults.

## 6. Not modelled

Cryptographic primitives (taken as injective), rendering, decoy generators and
honeytokens, the daemon's empty checks, metadata and header scattering (nothing
calls them), key hierarchy and key manager (derivations without state, and a
lifecycle that accepts any transition), FIPS self-tests (a state that nothing
reads), timing countermeasures, and the benches and packaging. None of them
keeps state that a property could relate to another.

Inside the modelled components: the meaning of an image (`VolumeStore`), the
offsets and lengths of entries (`VolumeFormat`), cost parameters
(`VolumeCommands`), `getattr`, `readdir` and `read` (`FuseFs`), the Windows
steps (`Installer`), log sizes (`AuditLog`, so `rotate_if_needed` is `rotate`),
signatures of altered files and power loss of the share file, the enrollment
registry (`TwoPerson`), a second handle on a device (`FdeVolume`), scopes
(`Revocation`), the baseline for durations (`Intrusion`), the filler of free
space and the drive commands (`Wipe`), responses (`CryptoIpc`), `PowerFilter`
(`Perimeter`), the chip itself (`Hardware`). `PROJECT.json` gives the
reason per component.

Three hazards are listed that no property covers: failing syncs (the model's
syncs succeed), the gap between a volume and its sidecar, where the loss is
real, and shares of two splits in one directory, which combine to a wrong key.
Two are covered in part: of overlapping savers only the presence of the volume
is claimed, and of keys around an erasure only that none registered before it
survives. A load that cannot replay its log is in `VolumeStore` and `Desktop`
and not in `VolumeCommands`, whose commands then read the old image once more.

## 7. Plan

Done: the modules of section 2, the runs of section 3, the theorems of section 4.

Left, in order:

1. `FuseFs` with the reads as actions, once the module compiles: that a read sees
   the last write to its name.
2. `VolumeCommands` over `VolumeStore` itself instead of its abstraction, once a
   volume can be read back: the crash points of both in one model.
3. Failing syncs in `VolumeStore`, once their results are looked at.
