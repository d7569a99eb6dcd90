------------------------------ MODULE InitFlow ------------------------------
(***************************************************************************)
(* The six-phase initialization flow, rust-core/src/omega/init_flow.rs.    *)
(* InitState is a data object that callers serialize and read back: a      *)
(* restart goes on from whatever copy was kept.  Operators and notes are   *)
(* left out, since no check looks at them; an artifact is its digest.      *)
(***************************************************************************)
EXTENDS Naturals

CONSTANTS
    Artifacts,      \* digests of what a phase produced
    MaxClock        \* bound: the last instant

InitFlowAssumption == MaxClock \in Nat /\ "none" \notin Artifacts

Phases == 1..6      \* PersonaAssign .. WitnessSign

VARIABLES
    flow,           \* the live InitState
    kept,           \* the serialized copy
    births,         \* the birth certificates handed to callers
    clock

flowVars == <<flow, kept, births, clock>>

NoPhase == [at |-> 0, artifact |-> "none"]

\* completed_phases, a map, and whether birth_certificate is set.
InitState ==
    [completed : [Phases -> {NoPhase} \cup [at : 0..MaxClock, artifact : Artifacts]],
     born : BOOLEAN]

Contains(s, p) == s.completed[p] # NoPhase

IsComplete(s) == \A p \in Phases : Contains(s, p)

New == [completed |-> [p \in Phases |-> NoPhase], born |-> FALSE]

FlowInit == flow = New /\ kept = New /\ births = {} /\ clock = 0

\* Mutant of Completes: a phase only needs some phase before it.
CompletesLoose(p, a) ==
    /\ ~Contains(flow, p)
    /\ p > 1 => \E q \in Phases : q < p /\ Contains(flow, q)
    /\ flow' = [flow EXCEPT !.completed[p] = [at |-> clock, artifact |-> a]]

Completes(p, a) ==
    /\ ~Contains(flow, p)
    /\ \A q \in Phases : q < p => Contains(flow, q)
    /\ flow' = [flow EXCEPT !.completed[p] = [at |-> clock, artifact |-> a]]

CompletePhase(p, a) ==
    /\ Completes(p, a)
    /\ UNCHANGED <<kept, births, clock>>

\* The certificate is the digest of the completed phases.
IssueBirthCertificate ==
    /\ IsComplete(flow)
    /\ ~flow.born
    /\ births' = births \cup {flow.completed}
    /\ flow' = [flow EXCEPT !.born = TRUE]
    /\ UNCHANGED <<kept, clock>>

\* The caller stores the state, and a restart reads it back.
Keep == kept' = flow /\ UNCHANGED <<flow, births, clock>>
Restart == flow' = kept /\ UNCHANGED <<kept, births, clock>>

FlowTick == clock < MaxClock /\ clock' = clock + 1 /\ UNCHANGED <<flow, kept, births>>

FlowNext ==
    \/ \E p \in Phases, a \in Artifacts : CompletePhase(p, a)
    \/ IssueBirthCertificate
    \/ Keep
    \/ Restart
    \/ FlowTick

FlowSpec == FlowInit /\ [][FlowNext]_flowVars

-----------------------------------------------------------------------------
\* Whatever copies the flow went on from, a birth certificate covers the six
\* phases of one history: none is missing and each was completed no earlier
\* than the one it requires ("you cannot move from phase 3 to phase 5 without
\* completing phase 4", init_flow.rs).
BirthsInOrder ==
    \A b \in births :
        /\ \A p \in Phases : b[p] # NoPhase
        /\ \A p, q \in Phases : p < q => b[p].at <= b[q].at

=============================================================================
