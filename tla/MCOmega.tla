----------------------------- MODULE MCOmega -----------------------------
(* The parts of the omega profile. They share no state, so a behaviour is one *)
(* of one part, chosen at the start, while the others rest. TwoPerson is      *)
(* extended with one session, since sessions share nothing, two operators,    *)
(* and time for the session to expire.                                        *)
EXTENDS TwoPerson, Comsec, InitFlow, CryptoIpc, WriteGuard, Clearances, Perimeter, Hardware, Integrity, TLC

VARIABLE part

FirstBytes == [o \in {"ann", "bob"} |-> IF o = "ann" THEN 1 ELSE 2]

OneMessage == {[i \in 0..3 |-> (2 * i + 3) % 7]}

ASSUME TwoPersonAssumption

-----------------------------------------------------------------------------
(* Comsec, extended: one holder beside the inventory, so that a key has two   *)
(* copies that diverge, and two milliseconds.                                 *)

ASSUME ComsecAssumption

(* InitFlow, extended: three instants for six phases.                         *)

ASSUME InitFlowAssumption

(* CryptoIpc, extended: three frames for two requests, one of which is sent   *)
(* twice.                                                                     *)

ASSUME CryptoIpcAssumption

(* WriteGuard, extended: one process, since processes share nothing, and      *)
(* windows of two.                                                            *)

ASSUME WriteGuardAssumption

(* Clearances, extended: two subjects, and three objects, two of one level of *)
(* which one has a compartment.                                               *)

ASSUME ClearancesAssumption

(* Perimeter, extended: a destination of every sort that the checks tell      *)
(* apart.                                                                     *)

(* Hardware, extended: two registers in lists of three, so that one may occur *)
(* twice; a host name that is known or not.                                   *)

ASSUME HardwareAssumption

(* Integrity, extended: GF(8), where a codeword has seven symbols and three   *)
(* of them are parity; five blocks make a tree with odd nodes on two levels.  *)

-----------------------------------------------------------------------------

PartNames == {"two", "comsec", "flow", "ipc", "guard", "mls", "border", "tpm", "repair"}

\* A part that rests stays in an initial state.
OmegaInit ==
    /\ part \in PartNames
    /\ Init
    /\ LedgerInit
    /\ FlowInit
    /\ IpcInit
    /\ GuardInit
    /\ MlsInit
    /\ part # "mls" => \A s \in {"s1", "s2"} : clearance[s].level = "Secret"
    /\ BorderInit
    /\ part # "border" => shielding.zone = 0 /\ config = DefaultConfig
    /\ TpmInit
    /\ part # "tpm" => machineId = "m1" /\ tpm = FALSE /\ feature = FALSE
    /\ RepairInit

\* Only the part chosen moves.
OthersRest ==
    /\ UNCHANGED part
    /\ part # "two" => UNCHANGED vars
    /\ part # "comsec" => UNCHANGED comsecVars
    /\ part # "flow" => UNCHANGED flowVars
    /\ part # "ipc" => UNCHANGED ipcVars
    /\ part # "guard" => UNCHANGED guardVars
    /\ part # "mls" => UNCHANGED mlsVars
    /\ part # "border" => UNCHANGED borderVars
    /\ part # "tpm" => UNCHANGED tpmVars
    /\ part # "repair" => UNCHANGED repairVars

OmegaNext ==
    \/ part = "two" /\ Next /\ OthersRest
    \/ part = "comsec" /\ LedgerNext /\ OthersRest
    \/ part = "flow" /\ FlowNext /\ OthersRest
    \/ part = "ipc" /\ IpcNext /\ OthersRest
    \/ part = "guard" /\ GuardNext /\ OthersRest
    \/ part = "mls" /\ MlsNext /\ OthersRest
    \/ part = "border" /\ BorderNext /\ OthersRest
    \/ part = "tpm" /\ TpmNext /\ OthersRest
    \/ part = "repair" /\ RepairNext /\ OthersRest

allVars == <<
    part, vars, comsecVars, flowVars, ipcVars, guardVars, mlsVars,
    borderVars, tpmVars, repairVars>>

OmegaSpec == OmegaInit /\ [][OmegaNext]_allVars

-----------------------------------------------------------------------------
=============================================================================
