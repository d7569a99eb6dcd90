----------------------------- MODULE MCDisk -----------------------------
(* What lies on a disk: the encrypted volume, the keys and recipients of      *)
(* volumes, the state kept across mounts, and snapshots. A behaviour is one   *)
(* of one part, chosen at the start, while the others rest. The module        *)
(* extended is KeySlots: three slots, so that a passphrase occurs twice, and  *)
(* two master keys, so that tables replace tables.                            *)
EXTENDS KeySlots, FdeVolume, ShareFile, Nvram, Snapshots, TLC

VARIABLE part

ASSUME KeySlotsAssumption

-----------------------------------------------------------------------------
(* FdeVolume, extended: the build with the fips feature; two data sectors,    *)
(* two passphrases and two formats, so that a second format with another      *)
(* passphrase meets a power failure and damage at every step.                 *)

ASSUME FdeVolumeAssumption

(* ShareFile, extended: one run at a time, and enough of them to add, revoke  *)
(* and add again around a crash.                                              *)

(* Nvram, extended: a counter of two halves of one bit, and two writes.       *)

ASSUME NvramAssumption

(* Snapshots, extended: two contents, and a chain of three.                   *)

ASSUME SnapshotsAssumption

-----------------------------------------------------------------------------

PartNames == {"slots", "fde", "shares", "nvram", "snapshots"}

\* A part that rests stays in an initial state.
DiskInit ==
    /\ part \in PartNames
    /\ Init
    /\ FdeInit
    /\ part # "fde" => page[Primary] = Old
    /\ SharesInit
    /\ StateInit
    /\ SnapsInit
    /\ part # "snapshots" => source = "x"

\* Only the part chosen moves.
OthersRest ==
    /\ UNCHANGED part
    /\ part # "slots" => UNCHANGED vars
    /\ part # "fde" => UNCHANGED fdeVars
    /\ part # "shares" => UNCHANGED sharesVars
    /\ part # "nvram" => UNCHANGED nvramVars
    /\ part # "snapshots" => UNCHANGED snapshotsVars

DiskNext ==
    \/ part = "slots" /\ Next /\ OthersRest
    \/ part = "fde" /\ FdeNext /\ OthersRest
    \/ part = "shares" /\ SharesNext /\ OthersRest
    \/ part = "nvram" /\ StateNext /\ OthersRest
    \/ part = "snapshots" /\ SnapsNext /\ OthersRest

allVars == <<
    part, vars, fdeVars, sharesVars, nvramVars, snapshotsVars>>

DiskSpec == DiskInit /\ [][DiskNext]_allVars

-----------------------------------------------------------------------------
=============================================================================
