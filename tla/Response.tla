------------------------------ MODULE Response ------------------------------
(***************************************************************************)
(* From an observation to a containment: the anomaly detector              *)
(* (rust-core/src/security), the sensors (rust-core/src/sensors), and the  *)
(* policy engine with its context (rust-core/src/response_engine).  All of *)
(* them make events; the policy judges an event that somebody hands to it, *)
(* at any later time and as often as they like.  A severity is given in    *)
(* bits of entropy, eighths of the scale, and matters to spikes only.      *)
(***************************************************************************)
EXTENDS Integers, SequencesExt, VecRetain

CONSTANTS
    Regions, Pids,
    ReadWindow,     \* AnomalyDetector::window
    ReadLimit,      \* read_window_threshold
    SpikeAt,        \* entropy_threshold of the detector, in bits
    FreezeAt,       \* entropy_spike_threshold of the policy, in the same bits
    AllowList,      \* allowed_actions; may hold words that are no action
    NoPid,          \* metadata without a pid
    MaxMinutes, MaxReads, MaxMade   \* bounds: time, reads and events

ResponseAssumption == ReadLimit \in Nat \ {0} /\ ReadWindow \in Nat /\ NoPid \notin Pids

VARIABLES
    minute,
    reads,          \* per_region_reads
    canaries,       \* the regions with a token
    readLog,        \* every read there was
    enumerated,     \* for every one of them, whether it raised MASS_ENUMERATION
    made,           \* the events made, oldest first
    frozen, isolated, revoked,      \* ResponseContext
    judged          \* what evaluate answered, with the events it was asked about

responseVars ==
    <<minute, reads, canaries, readLog, enumerated, made, frozen, isolated, revoked, judged>>
detector == <<reads, canaries, readLog, enumerated>>
context == <<frozen, isolated, revoked, judged>>

\* Severity::new, SoteriaEvent::new
Clamp(bits) == IF bits > 8 THEN 8 ELSE IF bits < 0 THEN 0 ELSE bits
Observed(type, bits, pid) == [type |-> type, bits |-> Clamp(bits), pid |-> pid]

ResponseInit ==
    /\ minute = 0 /\ reads = [r \in Regions |-> <<>>] /\ canaries = {}
    /\ readLog = <<>> /\ enumerated = <<>> /\ made = <<>>
    /\ frozen = {} /\ isolated = {} /\ revoked = {} /\ judged = {}

ResponseTick ==
    /\ minute < MaxMinutes
    /\ minute' = minute + 1
    /\ UNCHANGED <<detector, made, context>>

Make(e) == Len(made) < MaxMade /\ made' = Append(made, e)

-----------------------------------------------------------------------------
(* The detector *)

RegisterCanary(r) ==
    /\ canaries' = canaries \cup {r}
    /\ UNCHANGED <<minute, reads, readLog, enumerated, made, context>>

\* Mutant of Pruned: nothing is forgotten.
PrunedNever(times) == times

\* prune
Pruned(times) == Retain(times, {i \in DOMAIN times : minute - times[i] <= ReadWindow})

\* observe_read: the reads of this region are pruned, of no other.
ObserveRead(r) ==
    LET times == Append(Pruned(reads[r]), minute)
        many == Len(times) >= ReadLimit
    IN  /\ Len(readLog) < MaxReads
        /\ reads' = [reads EXCEPT ![r] = times]
        /\ readLog' = Append(readLog, [region |-> r, at |-> minute])
        /\ enumerated' = Append(enumerated, many)
        /\ IF many THEN Make(Observed("MASS_ENUMERATION", 5, NoPid)) ELSE UNCHANGED made
        /\ UNCHANGED <<minute, canaries, context>>

\* observe_write and entropy_event
ObserveWrite(bits) ==
    /\ bits >= SpikeAt
    /\ Make(Observed("ENTROPY_SPIKE", bits, NoPid))
    /\ UNCHANGED <<minute, detector, context>>

\* verify_canary: a token that is registered, and data that holds the marker
VerifyCanary(r) ==
    /\ r \in canaries
    /\ Make(Observed("CANARY_TOUCHED", 7, NoPid))
    /\ UNCHANGED <<minute, detector, context>>

\* alerts, the part about reads: nothing is pruned before it is counted.
ManyReads == {r \in Regions : Len(reads[r]) >= ReadLimit}

-----------------------------------------------------------------------------
(* The sensors, and the event that the command SimulateEvent makes up *)

KeyAccess(pid, allowed) ==
    /\ Make(IF allowed THEN Observed("KEY_ACCESS", 0, pid) ELSE Observed("KEY_ACCESS_DENIED", 7, pid))
    /\ UNCHANGED <<minute, detector, context>>

UnknownProcess(pid) ==
    /\ Make(Observed("PROCESS_ANOMALY", 6, pid))
    /\ UNCHANGED <<minute, detector, context>>

SeenWrite(pid) ==
    /\ Make(Observed("FS_WRITE", 1, pid))
    /\ UNCHANGED <<minute, detector, context>>

SimulateEvent(type, bits) ==
    /\ Make(Observed(type, bits, NoPid))
    /\ UNCHANGED <<minute, detector, context>>

-----------------------------------------------------------------------------
(* The policy engine *)

\* from_config: words that name no action are dropped.
Allowed == AllowList \cap {"FREEZE", "ISOLATE", "REVOKE", "ROLLBACK"}

Rule(e) ==
    CASE e.type = "ENTROPY_SPIKE" /\ e.bits >= FreezeAt -> "FREEZE"
      [] e.type = "KEY_ACCESS_DENIED" -> "REVOKE"
      [] e.type = "PROCESS_ANOMALY" -> "ISOLATE"
      [] e.type = "RANSOMWARE_PATTERN" -> "ROLLBACK"
      [] OTHER -> "ALLOW"

Decision(e) == IF Rule(e) \in Allowed THEN Rule(e) ELSE "ALLOW"

Applied(e) == Decision(e)

\* evaluate, with ResponseContext::apply; the domain is always the same.
Evaluate(e) ==
    LET action == Applied(e) IN
    /\ frozen' = frozen \cup (IF action = "FREEZE" THEN {"default"} ELSE {})
    /\ isolated' = isolated \cup (IF action = "ISOLATE" THEN {e.pid} \ {NoPid} ELSE {})
    /\ revoked' = revoked \cup (IF action = "REVOKE" THEN {"default"} ELSE {})
    /\ judged' = judged \cup {[event |-> e, action |-> Decision(e)]}
    /\ UNCHANGED <<minute, detector, made>>

ResponseNext ==
    \/ ResponseTick
    \/ \E r \in Regions : RegisterCanary(r) \/ ObserveRead(r) \/ VerifyCanary(r)
    \/ \E bits \in 6..9 : ObserveWrite(bits)
    \/ \E pid \in Pids :
        \/ \E allowed \in BOOLEAN : KeyAccess(pid, allowed)
        \/ UnknownProcess(pid) \/ SeenWrite(pid)
    \/ \E type \in {"PROCESS_ANOMALY", "RANSOMWARE_PATTERN"} : SimulateEvent(type, 4)
    \/ \E e \in ToSet(made) : Evaluate(e)

ResponseSpec == ResponseInit /\ [][ResponseNext]_responseVars

-----------------------------------------------------------------------------
(* Properties *)

Within(r, t) ==
    {i \in DOMAIN readLog :
        readLog[i].region = r /\ readLog[i].at <= t /\ t - readLog[i].at <= ReadWindow}

\* A read is called an enumeration exactly when the window that ends with it
\* holds enough reads of its region, whatever was read elsewhere meanwhile and
\* however long a region was left unpruned.
EnumerationExact ==
    \A i \in DOMAIN readLog :
        enumerated[i] <=>
            Cardinality({j \in Within(readLog[i].region, readLog[i].at) : j <= i}) >= ReadLimit

\* The list of alerts lags behind the clock, and for that reason never misses
\* a region that is read too often just now.
AlertsMissNone == {r \in Regions : Cardinality(Within(r, minute)) >= ReadLimit} \subseteq ManyReads

\* What is contained is what the answers said: an action outside the list
\* leaves no trace, and only an isolation without a process has no effect.
ContextIsAnswers ==
    /\ frozen # {} <=> \E j \in judged : j.action = "FREEZE"
    /\ revoked # {} <=> \E j \in judged : j.action = "REVOKE"
    /\ isolated = {j.event.pid : j \in {k \in judged : k.action = "ISOLATE"}} \ {NoPid}

\* The detector counts what happened and the context holds what was decided.
ResponseAccounts == EnumerationExact /\ AlertsMissNone /\ ContextIsAnswers

=============================================================================
