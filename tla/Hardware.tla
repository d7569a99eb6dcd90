------------------------------ MODULE Hardware ------------------------------
(***************************************************************************)
(* The software stand-ins for hardware roots of trust:                     *)
(* rust-core/src/omega/hardware/mod.rs, which one process holds, and       *)
(* rust-core/src/tpm, whose provider every tpm command chooses anew.       *)
(* Everything they hold is derived from the machine identity and the host  *)
(* name, either of which may be unreadable, so that a constant takes its   *)
(* place, or may differ after a reinstallation.  The XOR of register       *)
(* values is the set of those that occur oddly often; a digest is the      *)
(* tuple of what went into it.                                             *)
(***************************************************************************)
EXTENDS Naturals, Sequences, FiniteSets, Functions

CONSTANTS
    Machines,       \* what /etc/machine-id may say
    HostNames,      \* what hostname::get may say
    Fallback,       \* the constant used when either cannot be read
    Registers,      \* indices of the registers; 0..23 in the code
    MaxIndices,     \* bound: indices a key is sealed to
    MaxBlobs        \* bound: sealed blobs of either kind

HardwareAssumption == MaxIndices \in Nat

VARIABLES
    machineId,      \* what the file says, or Fallback when it cannot be read
    manager,        \* the identity TpmManager and PufSource have read
    hostname,       \* what hostname::get says, or Fallback
    device,         \* the host name Fido2Device has read
    tpm,            \* there is a TPM, that is, tpm_available
    feature,        \* the program was built with the feature tpm
    blobs,          \* the sealed blobs, each with the identity it was sealed under
    sealed,         \* the files of the command tpm seal, with the circumstances
    challenged      \* answers to a challenge, with the identity then

tpmVars == <<machineId, manager, hostname, device, tpm, feature, blobs, sealed, challenged>>
machine == <<machineId, hostname, tpm, feature>>
process == <<manager, device>>

TpmInit ==
    /\ machineId \in Machines
    /\ manager = machineId
    /\ hostname \in HostNames
    /\ device = hostname
    /\ tpm \in BOOLEAN /\ feature \in BOOLEAN
    /\ blobs = {}
    /\ sealed = {}
    /\ challenged = {}

Pcr(id, i) == <<id, i>>

\* Mutant of PcrState: the values are collected, not added up.
PcrStateAll(id, indices) == {Pcr(id, i) : i \in Range(indices)}

\* The XOR of the registers named: one that is named twice cancels out.
PcrState(id, indices) ==
    {Pcr(id, i) : i \in {j \in Range(indices) :
        Cardinality({k \in DOMAIN indices : indices[k] = j}) % 2 = 1}}

Room == Cardinality(blobs) + Cardinality(sealed) < MaxBlobs

\* seal, which refuses an index out of range; the key is masked with the digest
\* of the state, and the state is kept with it.
Seal(indices) ==
    /\ Room
    /\ blobs' = blobs \cup
           {[indices |-> indices, state |-> PcrState(manager, indices), under |-> manager]}
    /\ UNCHANGED <<machine, process, sealed, challenged>>

\* unseal: the registers have to add up to what they did; then unmasking with
\* the same state gives back the key.
Unseals(id, b) == PcrState(id, b.indices) = b.state

\* PufSource::challenge, Fido2Device::sign
Answer(id, c) == <<id, c>>

Challenge(c) ==
    /\ challenged' = challenged \cup
           {[by |-> "puf", under |-> manager, to |-> c, answer |-> Answer(manager, c)]}
    /\ UNCHANGED <<machine, process, blobs, sealed>>

SignChallenge(c) ==
    /\ challenged' = challenged \cup
           {[by |-> "fido", under |-> device, to |-> c, answer |-> Answer(device, c)]}
    /\ UNCHANGED <<machine, process, blobs, sealed>>

-----------------------------------------------------------------------------
(* The provider of a tpm command *)

\* SoftwareSealingProvider::new
DeviceKey == <<machineId, hostname>>

\* create_provider: the chip if there is one and the feature tpm is built in.
\* Without the feature lib.rs leaves the module out and main.rs its commands; the
\* branch is for a crate that has them all the same.
Provider == IF tpm /\ feature THEN "chip" ELSE "software"

\* seal: the chip is asked for an object without being given the key (hardware.rs,
\* line 96), so the object, if it makes one, does not hold it.
Blob ==
    IF Provider = "chip" THEN [format |-> "object", key |-> <<>>]
    ELSE [format |-> "envelope", key |-> DeviceKey]

\* tpm seal writes the blob and nothing about its provider.
SealFile ==
    /\ Room
    /\ sealed' = sealed \cup {[blob |-> Blob, id |-> machineId, host |-> hostname, by |-> Provider]}
    /\ UNCHANGED <<machine, process, blobs, challenged>>

\* tpm unseal, with the provider of that moment, gives back the key that was sealed:
\* the blob has to parse, to open and to hold it.  No chip's does.
FileUnseals(f) == Provider = "software" /\ f.blob = Blob

-----------------------------------------------------------------------------
\* The file becomes unreadable, readable again, or another one; so does the host
\* name; the device node of the TPM comes and goes; another build is installed.
ChangeId(id) == machineId' = id /\ UNCHANGED <<hostname, tpm, feature, process, blobs, sealed, challenged>>
ChangeHost(h) == hostname' = h /\ UNCHANGED <<machineId, tpm, feature, process, blobs, sealed, challenged>>
ChangeTpm == tpm' = ~tpm /\ UNCHANGED <<machineId, hostname, feature, process, blobs, sealed, challenged>>
ChangeBuild == feature' = ~feature /\ UNCHANGED <<machineId, hostname, tpm, process, blobs, sealed, challenged>>

\* read_machine_id and hostname::get, by the constructors
Reboot ==
    /\ manager' = machineId
    /\ device' = hostname
    /\ UNCHANGED <<machine, blobs, sealed, challenged>>

TpmNext ==
    \/ \E n \in 0..MaxIndices : \E l \in [1..n -> Registers] : Seal(l)
    \/ Challenge(1) \/ SignChallenge(1)
    \/ SealFile
    \/ \E id \in Machines \cup {Fallback} : ChangeId(id)
    \/ \E h \in HostNames \cup {Fallback} : ChangeHost(h)
    \/ ChangeTpm \/ ChangeBuild
    \/ Reboot

TpmSpec == TpmInit /\ [][TpmNext]_tpmVars

-----------------------------------------------------------------------------
Cancels(indices) ==
    \A i \in Range(indices) : Cardinality({k \in DOMAIN indices : indices[k] = i}) % 2 = 0

\* After whatever starts with whatever identity could be read, a blob unseals
\* where it was sealed, and elsewhere only when the registers it names cancel
\* each other out ("TPM PCR state has changed; sealed blob is no longer valid",
\* hardware/mod.rs); two answers to a challenge agree exactly when they were
\* given under the same identity; and tpm unseal gives back what tpm seal was given
\* exactly if both take the software provider, however often the TPM and the build
\* have changed between them, and both names are read as they were then.
BoundToMachine ==
    /\ \A b \in blobs : Unseals(manager, b) <=> b.under = manager \/ Cancels(b.indices)
    /\ \A p, q \in challenged :
        p.by = q.by /\ p.to = q.to => (p.answer = q.answer <=> p.under = q.under)
    /\ \A f \in sealed :
        FileUnseals(f) <=>
            /\ f.by = "software" /\ Provider = "software"
            /\ f.id = machineId /\ f.host = hostname

=============================================================================
