--------------------------- MODULE MCRecovery ---------------------------
(* What is erased for good and what can be put together again. A behaviour is *)
(* one of one part, chosen at the start, while the others rest. The module    *)
(* extended is TemporalEraser: three blocks with two erasures per scan form a *)
(* backlog, and a TTL of one interval is long enough for it to be worked off  *)
(* before the lower indices expire again.                                     *)
EXTENDS TemporalEraser, Shamir, ErasureCoding, Wipe, TLC

VARIABLE part

ThreeBlocks == {1, 2, 3}
TwoCodes == {[k |-> 2, m |-> 1, size |-> 1], [k |-> 1, m |-> 2, size |-> 2]}
ThreePlaintexts == {<<5>>, <<3, 6>>, <<5, 5>>}

-----------------------------------------------------------------------------
(* Shamir, extended: GF(8), and a second split into the directory of the      *)
(* first.                                                                     *)

(* ErasureCoding, extended: GF(8), a code with more data than parity and one  *)
(* with less, and three plaintexts whose shards may be mixed.                 *)

(* Wipe, extended: a file and a link, two blocks, two passes and a second run *)
(* after a failure.                                                           *)

-----------------------------------------------------------------------------

PartNames == {"eraser", "split", "pieces", "wipe"}

\* A part that rests stays in an initial state.
RecoveryInit ==
    /\ part \in PartNames
    /\ Init
    /\ ShareInit
    /\ PiecesInit
    /\ WipeInit
    /\ part # "wipe" => size = [f \in {"f", "o"} |-> 1]

\* Only the part chosen moves.
OthersRest ==
    /\ UNCHANGED part
    /\ part # "eraser" => UNCHANGED vars
    /\ part # "split" => UNCHANGED splitVars
    /\ part # "pieces" => UNCHANGED piecesVars
    /\ part # "wipe" => UNCHANGED wipeVars

RecoveryNext ==
    \/ part = "eraser" /\ Next /\ OthersRest
    \/ part = "split" /\ ShareNext /\ OthersRest
    \/ part = "pieces" /\ PiecesNext /\ OthersRest
    \/ part = "wipe" /\ WipeNext /\ OthersRest

allVars == <<
    part, vars, splitVars, piecesVars, wipeVars>>

RecoverySpec == RecoveryInit /\ [][RecoveryNext]_allVars /\ WF_allVars(part = "eraser" /\ Thread /\ OthersRest)

-----------------------------------------------------------------------------
=============================================================================
