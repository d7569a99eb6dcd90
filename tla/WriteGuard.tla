----------------------------- MODULE WriteGuard -----------------------------
(***************************************************************************)
(* RansomwareDefense, rust-core/src/omega/defense/mod.rs: each write is     *)
(* inspected for its extension, its entropy and the rate of its process.   *)
(* Entropy is high or low (entropy_threshold), time is counted in parts of *)
(* the window of a second, and several writes may fall on one instant.     *)
(***************************************************************************)
EXTENDS Integers, Sequences, FiniteSets, VecRetain

CONSTANTS
    Pids,
    EntropyWindow,  \* entropy_window
    WriteRateCap,   \* write_rate_cap
    WindowTicks,    \* window_ms
    MaxWrites,      \* bound: writes of a process
    MaxInstant      \* bound: the last instant

WriteGuardAssumption ==
    EntropyWindow \in Nat /\ WriteRateCap \in Nat /\ WindowTicks \in Nat

VARIABLES
    entropyHistory,     \* per process: the last readings, TRUE for high
    writes,             \* per process: instants of the writes it still counts
    allowList,
    detectionCount,
    inspected,          \* per process: the writes that were looked at, and what came of them
    instant

guardVars == <<entropyHistory, writes, allowList, detectionCount, inspected, instant>>

GuardInit ==
    /\ entropyHistory = [p \in Pids |-> <<>>]
    /\ writes = [p \in Pids |-> <<>>]
    /\ allowList = {}
    /\ detectionCount = 0
    /\ inspected = [p \in Pids |-> <<>>]
    /\ instant = 0

AllowList(p) ==
    /\ allowList' = allowList \cup {p}
    /\ UNCHANGED <<entropyHistory, writes, detectionCount, inspected, instant>>

\* The history with one more reading, the oldest dropped.
WithReading(h, high) ==
    LET g == Append(h, high) IN IF Len(g) > EntropyWindow THEN Tail(g) ELSE g

HighEntropy(h) == Len(h) = EntropyWindow /\ \A i \in DOMAIN h : h[i]

\* The writes that retain keeps.
Recent(p) == {i \in DOMAIN writes[p] : instant - writes[p][i] < WindowTicks}

\* Mutant of Counted: writes that were refused are not counted.
CountedPassed(p, passed) ==
    Retain(writes[p], Recent(p)) \o (IF passed THEN <<instant>> ELSE <<>>)

\* The writes of the window, with the present one, whatever becomes of it.
Counted(p, passed) ==
    Append(Retain(writes[p], Recent(p)), instant)

RateExceeded(p) == Len(Retain(writes[p], Recent(p))) + 1 > WriteRateCap

\* inspect_write; risky is an extension of high_risk_exts.  A process of the allow
\* list is not looked at.
InspectWrite(p, risky, high) ==
    LET h == WithReading(entropyHistory[p], high)
        passed == ~(risky \/ HighEntropy(h) \/ RateExceeded(p))
    IN IF p \in allowList THEN UNCHANGED guardVars
       ELSE /\ Len(inspected[p]) < MaxWrites
            /\ inspected' = [inspected EXCEPT ![p] =
                   Append(@, [at |-> instant, high |-> high, passed |-> passed])]
            /\ entropyHistory' = [entropyHistory EXCEPT ![p] = h]
            /\ writes' = [writes EXCEPT ![p] = Counted(p, passed)]
            /\ detectionCount' = IF passed THEN detectionCount ELSE detectionCount + 1
            /\ UNCHANGED <<allowList, instant>>

\* The clock goes forward.
GuardTick ==
    /\ instant < MaxInstant
    /\ instant' = instant + 1
    /\ UNCHANGED <<entropyHistory, writes, allowList, detectionCount, inspected>>

GuardNext ==
    \/ \E p \in Pids : AllowList(p)
    \/ \E p \in Pids, risky, high \in BOOLEAN : InspectWrite(p, risky, high)
    \/ GuardTick

GuardSpec == GuardInit /\ [][GuardNext]_guardVars

-----------------------------------------------------------------------------
\* Over any second a checked process gets through only while all it wrote, what
\* was refused included, stays within the cap, so hammering gains it nothing;
\* and once it wrote at high entropy a whole window long nothing gets through
\* until it writes something else ("cap writes per process per second",
\* defense/mod.rs).
Throttled ==
    \A p \in Pids :
        LET c == inspected[p] IN
        \A i \in DOMAIN c : c[i].passed =>
            /\ Cardinality({j \in 1..i : c[i].at - c[j].at < WindowTicks}) <= WriteRateCap
            /\ i >= EntropyWindow => \E j \in (i - EntropyWindow + 1)..i : ~c[j].high

=============================================================================
