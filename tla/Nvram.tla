-------------------------------- MODULE Nvram --------------------------------
(***************************************************************************)
(* The state a full-disk-encryption volume keeps across mounts,            *)
(* rust-core/src/fde/persistent.rs: one encrypted sector, at a place that  *)
(* the volume also uses for its first data sector.  A write that is cut    *)
(* leaves new blocks before old ones.  The boot counter lies across the    *)
(* first two blocks and the chain hash across the last two, so the sector  *)
(* is four parts here.  A hash stands for what was hashed.                 *)
(***************************************************************************)
EXTENDS Naturals, Sequences

CONSTANTS
    Half,           \* values of half a boot counter
    Times,          \* last_mount_unix_ms
    MaxWrites       \* bound: writes begun

NvramAssumption == Half \in Nat \ {0}

VARIABLES
    sector,         \* the sector, decrypted as NVRAM
    writing,        \* the blocks of write_nvram that are not there yet
    sealed,         \* the states that were written to the end
    writes,
    read            \* what read_nvram and verify_chain last gave

nvramVars == <<sector, writing, sealed, writes, read>>

States == [boot : 0..(Half * Half - 1), mount : Times, wipe : BOOLEAN]
Junk == [part |-> "junk"]
Refused == [boot |-> Half * Half, mount |-> 0, wipe |-> FALSE]

\* Mutant of ChainHash: the boot counter is left out.
ChainHashNoBoot(s) == <<s.mount, s.wipe>>

\* chain_hash; mount_policy_hash goes with the time of the mount
ChainHash(s) == <<s.boot, s.mount, s.wipe>>

\* seal_chain and to_bytes
SectorBytes(s) == <<
    [part |-> "magic", low |-> s.boot % Half],
    [part |-> "mount", high |-> s.boot \div Half, mount |-> s.mount],
    [part |-> "wipe", wipe |-> s.wipe, chain |-> ChainHash(s)],
    [part |-> "chain", chain |-> ChainHash(s)]>>

Deciphers(bs) == \A i \in DOMAIN bs : bs[i] # Junk

FromBytes(bs) == [boot |-> bs[2].high * Half + bs[1].low, mount |-> bs[2].mount, wipe |-> bs[3].wipe]

VerifyChain(bs) ==
    /\ bs[3].chain = ChainHash(FromBytes(bs))
    /\ bs[4].chain = ChainHash(FromBytes(bs))

StateInit ==
    /\ sector = [i \in 1..4 |-> Junk] /\ writing = <<>> /\ sealed = {} /\ writes = 0 /\ read = Refused

BeginWrite(s) ==
    /\ writing = <<>> /\ writes < MaxWrites
    /\ writing' = SectorBytes(s) /\ writes' = writes + 1 /\ read' = Refused
    /\ UNCHANGED <<sector, sealed>>

\* write_all
WriteBlock ==
    /\ writing # <<>>
    /\ sector' = [sector EXCEPT ![5 - Len(writing)] = Head(writing)]
    /\ writing' = Tail(writing)
    /\ sealed' = IF Len(writing) = 1 THEN sealed \cup {FromBytes(sector')} ELSE sealed
    /\ UNCHANGED <<writes, read>>

Cut ==
    /\ writing # <<>>
    /\ writing' = <<>>
    /\ UNCHANGED <<sector, sealed, writes, read>>

\* The volume writes its data sector 0, all of it or the first blocks.
WriteData(n) ==
    /\ writing = <<>>
    /\ sector' = [i \in 1..4 |-> IF i <= n THEN Junk ELSE sector[i]]
    /\ read' = Refused
    /\ UNCHANGED <<writing, sealed, writes>>

\* read_nvram does not verify the chain; its caller does, or takes what it gets.
Read ==
    /\ writing = <<>>
    /\ read' = IF Deciphers(sector) /\ VerifyChain(sector) THEN FromBytes(sector) ELSE Refused
    /\ UNCHANGED <<sector, writing, sealed, writes>>

StateNext ==
    \/ \E s \in States : BeginWrite(s)
    \/ WriteBlock \/ Cut \/ Read
    \/ \E n \in 1..4 : WriteData(n)

StateSpec == StateInit /\ [][StateNext]_nvramVars

-----------------------------------------------------------------------------

\* A state whose chain verifies was written to the end once: neither a cut
\* write nor a data sector in its place makes a counter, a time or a wipe flag
\* that nobody sealed together.
SealedTogether == read # Refused => read \in sealed

=============================================================================
