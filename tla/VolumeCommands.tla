--------------------------- MODULE VolumeCommands ---------------------------
(***************************************************************************)
(* The commands of soteria that work on one encrypted file,                *)
(* rust-core/src/main.rs, with what they call of fs_layer/storage.rs and   *)
(* fs_layer/kdf.rs: encrypt, quick-mount, unmount, decrypt and share.      *)
(* Commands run one at a time.  Each reads and writes several files, and   *)
(* may fail or be cut short between any two of them.                       *)
(*                                                                         *)
(* A key is the pair of passphrase and salt, the text "empty" has no block,*)
(* and "torn" is a file whose writing was cut short.  Whether a volume     *)
(* parses is left open, as its header digest decides it (VolumeFormat).    *)
(***************************************************************************)
EXTENDS Naturals, FiniteSets

CONSTANTS
    Passphrases,
    Texts,          \* plaintexts, "empty" among them
    MaxSalts        \* bound: encryptions

ASSUME VolumeCommandsAssumption == MaxSalts \in Nat

Missing == "none"
NoKey == <<Missing, 0>>
NoVolume == [key |-> NoKey, text |-> Missing]
NoAck == [p |-> Missing, text |-> Missing, shared |-> FALSE]
NoCommand == [cmd |-> "idle", at |-> "done"]

\* A sidecar is its salt; these are none and a torn one.
NoSidecar == 0
TornSidecar == MaxSalts + 1

VARIABLES
    vol,            \* the volume file: its key and its text
    sidecar,        \* the KDF sidecar: its salt
    shares,         \* the share file: the key whose fingerprint it has
    output,         \* the plaintext in the mount point
    marker,         \* .soteria-mount.json
    running,        \* the command under way, and what comes next
    salts,          \* the salts drawn
    edits,          \* what the user last wrote there and did not replace since
    acked,          \* what the last encrypt or unmount that was ok put away
    keyFile         \* the key that share unlock wrote out

commandsVars == <<vol, sidecar, shares, output, marker, running, salts, edits, acked, keyFile>>
volumeFiles == <<vol, sidecar, shares, output, marker>>
user == <<edits, acked, keyFile>>

CommandsInit ==
    /\ vol = NoVolume /\ sidecar = NoSidecar /\ shares = NoKey
    /\ output = Missing /\ marker = Missing
    /\ running = NoCommand /\ salts = 0
    /\ edits = Missing /\ acked = NoAck /\ keyFile = NoKey

-----------------------------------------------------------------------------
\* VolumeKeyFile::load, which checks the digest, and derive_volume_key
SidecarOK == sidecar \notin {NoSidecar, TornSidecar}
Derived(p) == <<p, sidecar>>

\* plaintext and verify_key_for_volume: a volume without a block opens with any
\* key.
Opens(k) == vol # NoVolume /\ (vol.key = k \/ vol.text = "empty")

Goes(next) == running' = [running EXCEPT !.at = next]

\* An error ends a command where it stands, and so does a crash.
CommandFails ==
    /\ running # NoCommand
    /\ running' = NoCommand
    /\ UNCHANGED <<volumeFiles, salts, user>>

\* save, where fs_layer/wal.rs makes it whole or not at all; after an error or a
\* crash in it the next load may still find the new volume.  That a load which
\* cannot replay the log finds the old one once more is left out.
Save(new, next) ==
    \/ vol' = new /\ Goes(next)
    \/ vol' \in {vol, new} /\ running' = NoCommand

\* A file that is written in place: cut short, it is torn.
Write(file, content, torn, next) ==
    \/ file' = content /\ Goes(next)
    \/ file' = torn /\ running' = NoCommand

-----------------------------------------------------------------------------
(* encrypt: encrypt_to_disk_with_passphrase *)

Encrypt(p, t) ==
    /\ running = NoCommand /\ salts < MaxSalts
    /\ salts' = salts + 1
    /\ running' = [cmd |-> "encrypt", at |-> "volume", p |-> p, text |-> t, salt |-> salts']
    /\ acked' = NoAck
    /\ edits' = IF output = edits THEN edits ELSE Missing
    /\ UNCHANGED <<volumeFiles, keyFile>>

EncryptVolume ==
    /\ running.cmd = "encrypt" /\ running.at = "volume"
    /\ Save([key |-> <<running.p, running.salt>>, text |-> running.text], "sidecar")
    /\ UNCHANGED <<sidecar, shares, output, marker, salts, user>>

EncryptSidecar ==
    /\ running.cmd = "encrypt" /\ running.at = "sidecar"
    /\ Write(sidecar, running.salt, TornSidecar, "done")
    /\ UNCHANGED <<vol, shares, output, marker, salts, user>>

-----------------------------------------------------------------------------
(* quick-mount *)

QuickMount(p) ==
    /\ running = NoCommand
    /\ SidecarOK /\ Opens(Derived(p))
    /\ running' = [cmd |-> "mount", at |-> "output", text |-> vol.text]
    /\ UNCHANGED <<volumeFiles, salts, user>>

\* Whatever stood in the mount point is written over.
MountOutput ==
    /\ running.cmd = "mount" /\ running.at = "output"
    /\ Write(output, running.text, "torn", "marker")
    /\ edits' = Missing
    /\ UNCHANGED <<vol, sidecar, shares, marker, salts, acked, keyFile>>

MountMarker ==
    /\ running.cmd = "mount" /\ running.at = "marker"
    /\ Write(marker, "whole", "torn", "done")
    /\ UNCHANGED <<vol, sidecar, shares, output, salts, user>>

\* The user works on the plaintext between commands.
EditText(t) ==
    /\ running = NoCommand /\ output # Missing
    /\ output' = t /\ edits' = t
    /\ UNCHANGED <<vol, sidecar, shares, marker, running, salts, acked, keyFile>>

-----------------------------------------------------------------------------
(* unmount; the passphrase is not compared with the volume's *)

Unmount(p) ==
    /\ running = NoCommand
    /\ marker = "whole" /\ output # Missing /\ SidecarOK
    /\ running' = [cmd |-> "unmount", at |-> "volume", p |-> p, text |-> output, salt |-> sidecar]
    /\ acked' = NoAck
    /\ UNCHANGED <<volumeFiles, salts, edits, keyFile>>

\* Mutant of UnmountVolume: what saving the volume returns is dropped.
UnmountVolumeIgnored ==
    /\ running.cmd = "unmount" /\ running.at = "volume"
    /\ vol' \in {vol, [key |-> <<running.p, running.salt>>, text |-> running.text]}
    /\ Goes("output")
    /\ UNCHANGED <<sidecar, shares, output, marker, salts, user>>

UnmountVolume ==
    /\ running.cmd = "unmount" /\ running.at = "volume"
    /\ Save([key |-> <<running.p, running.salt>>, text |-> running.text], "output")
    /\ UNCHANGED <<sidecar, shares, output, marker, salts, user>>

UnmountOutput ==
    /\ running.cmd = "unmount" /\ running.at = "output"
    /\ output' = Missing /\ Goes("marker")
    /\ UNCHANGED <<vol, sidecar, shares, marker, salts, user>>

UnmountMarker ==
    /\ running.cmd = "unmount" /\ running.at = "marker"
    /\ marker' = Missing /\ Goes("done")
    /\ UNCHANGED <<vol, sidecar, shares, output, salts, user>>

\* The command reports that it is done.
Report ==
    /\ running # NoCommand /\ running.at = "done"
    /\ running' = NoCommand
    /\ acked' = IF running.cmd \in {"encrypt", "unmount"}
                THEN [p |-> running.p, text |-> running.text, shared |-> FALSE] ELSE acked
    /\ UNCHANGED <<volumeFiles, salts, edits, keyFile>>

-----------------------------------------------------------------------------
(* share add and share unlock *)

\* derive_root_key_from_volume checks the passphrase on the volume, and
\* ShareFile::open its key on a share file that is there.
ShareAdd(p) ==
    /\ running = NoCommand
    /\ SidecarOK /\ Opens(Derived(p))
    /\ shares \in {NoKey, Derived(p)}
    /\ shares' = Derived(p)
    /\ acked' = IF acked = NoAck \/ vol.text = "empty" THEN acked
                ELSE [acked EXCEPT !.shared = TRUE]
    /\ UNCHANGED <<vol, sidecar, output, marker, running, salts, edits, keyFile>>

ShareUnlock ==
    /\ running = NoCommand /\ shares # NoKey
    /\ keyFile' = shares
    /\ UNCHANGED <<volumeFiles, running, salts, edits, acked>>

CommandsNext ==
    \/ \E p \in Passphrases, t \in Texts : Encrypt(p, t)
    \/ EncryptVolume \/ EncryptSidecar
    \/ \E p \in Passphrases : QuickMount(p) \/ Unmount(p) \/ ShareAdd(p)
    \/ MountOutput \/ MountMarker
    \/ \E t \in Texts : EditText(t)
    \/ UnmountVolume \/ UnmountOutput \/ UnmountMarker
    \/ Report \/ CommandFails \/ ShareUnlock

CommandsSpec == CommandsInit /\ [][CommandsNext]_commandsVars

-----------------------------------------------------------------------------
\* What decrypt gives with a passphrase.
Decrypts(p, t) == SidecarOK /\ Opens(Derived(p)) /\ vol.text = t

\* Once encrypt or unmount said it was done, the passphrase it was given brings
\* the text back from the two files, whatever fails or stops afterwards, until
\* another of them begins; and a key shared since opens the volume too
\* (decrypt_from_disk_with_passphrase, decrypt_from_disk_with_key).
AckedOpens ==
    acked # NoAck =>
        /\ Decrypts(acked.p, acked.text)
        /\ acked.shared => vol.key = shares

\* What the user wrote in the mount point is there until the volume holds it,
\* under a passphrase and the salt of the sidecar, even when an unmount fails or
\* stops at any point; only a new mount or a new encryption takes its place.
EditsSurvive ==
    edits # Missing =>
        \/ output = edits
        \/ \E p \in Passphrases : Decrypts(p, edits)

\* No text is lost, neither one a command acknowledged nor one in the mount point,
\* until the next command begins to replace it: if that is an encryption that stops
\* between the volume and the sidecar, the text it replaces is lost.
TextsSurvive == AckedOpens /\ EditsSurvive

=============================================================================
