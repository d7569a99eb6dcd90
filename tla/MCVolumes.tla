---------------------------- MODULE MCVolumes ----------------------------
(* What keeps, shows and edits a volume. The parts share no state here: the   *)
(* crash protocol of one file is the module extended, and the commands, the   *)
(* format, the mounted file system, the desktop window and the installer take *)
(* its save as one step. A behaviour is one of one part, chosen at the start, *)
(* while the others rest. Two processes are enough for every pair of calls,   *)
(* and two images for a volume that has an older and a newer one.             *)
EXTENDS VolumeStore, VolumeCommands, VolumeFormat, FuseFs, Desktop, Installer, TLC

CONSTANTS p1, p2, v1, v2

VARIABLE part

FileContents == {<<"a", "b", "c">>, <<"a", "a">>}

-----------------------------------------------------------------------------
(* VolumeCommands, extended: a right and a wrong passphrase, and two          *)
(* encryptions.                                                               *)

(* VolumeFormat, extended: two files, one of which repeats a block, and two   *)
(* changes to what is read.                                                   *)

ASSUME VolumeFormatAssumption

(* FuseFs, extended: a cache that holds one block, and two handles.           *)

ASSUME FuseAssumption

(* Desktop, extended: one volume in the list and one outside of it.           *)

(* Installer, extended: the default directory and two others.                 *)

-----------------------------------------------------------------------------

PartNames == {"store", "commands", "format", "fuse", "desktop", "setup"}

\* A part that rests stays in an initial state.
VolumesInit ==
    /\ part \in PartNames
    /\ Init
    /\ CommandsInit
    /\ FormatInit
    /\ FuseInit
    /\ WindowInit
    /\ SetupInit

\* Only the part chosen moves.
OthersRest ==
    /\ UNCHANGED part
    /\ part # "store" => UNCHANGED vars
    /\ part # "commands" => UNCHANGED commandsVars
    /\ part # "format" => UNCHANGED formatVars
    /\ part # "fuse" => UNCHANGED fuseVars
    /\ part # "desktop" => UNCHANGED desktopVars
    /\ part # "setup" => UNCHANGED setupVars

VolumesNext ==
    \/ part = "store" /\ Next /\ OthersRest
    \/ part = "commands" /\ CommandsNext /\ OthersRest
    \/ part = "format" /\ FormatNext /\ OthersRest
    \/ part = "fuse" /\ FuseNext /\ OthersRest
    \/ part = "desktop" /\ WindowNext /\ OthersRest
    \/ part = "setup" /\ SetupNext /\ OthersRest

allVars == <<
    part, vars, commandsVars, formatVars, fuseVars, desktopVars,
    setupVars>>

VolumesSpec == VolumesInit /\ [][VolumesNext]_allVars

-----------------------------------------------------------------------------
=============================================================================
