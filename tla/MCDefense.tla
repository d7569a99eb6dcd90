---------------------------- MODULE MCDefense ----------------------------
(* What watches and reacts. A behaviour is one of one part, chosen at the     *)
(* start, while the others rest. The module extended is EventBus: three       *)
(* events make a history of two overflow, and two threads and two subscribers *)
(* interleave every pair of critical sections; they are interchangeable, and  *)
(* so are the threads that trigger the emergency.                             *)
EXTENDS EventBus, Emergency, Intrusion, Evidence, Dashboard, Response, TLC

CONSTANTS t1, t2, s1, s2, system, threat

VARIABLE part

KeyNames == {"a", "b"}
TwoKinds == {"Mount", "CryptoErase"}
TwoPlaces == {"max", "none"}
OneKey == {"k"}
TwoCounters == <<"ram_keys", "secure_boxes">>
TwoThreads == {t1, t2}
TwoSubscribers == {s1, s2}
TwoCategories == {system, threat}
SomeFilters == {{}, {threat}}
Symmetric == Permutations(TwoThreads) \cup Permutations(TwoSubscribers)

-----------------------------------------------------------------------------
(* Emergency, extended: counters of three bits whose figures have two, and    *)
(* two holders of each kind, enough for both wrap-arounds.                    *)

ASSUME EmergencyAssumption

(* Intrusion, extended: the thresholds of the code, brought near to each      *)
(* other.                                                                     *)

ASSUME IntrusionAssumption

(* Evidence, extended: two names for keys, and two events of which one        *)
(* changes.                                                                   *)

(* Dashboard, extended: a tick of two instants, and four events for a history *)
(* of three.                                                                  *)

(* Response, extended: two regions, a window that three reads can fill, empty *)
(* and fill again, and a list that allows two of the actions and names one    *)
(* that is none.                                                              *)

ASSUME ResponseAssumption

-----------------------------------------------------------------------------

PartNames == {"bus", "emergency", "scores", "evidence", "screen", "response"}

\* A part that rests stays in an initial state.
DefenseInit ==
    /\ part \in PartNames
    /\ Init
    /\ PanicInit
    /\ ScoresInit
    /\ EvidenceInit
    /\ ScreenInit
    /\ ResponseInit

\* Only the part chosen moves.
OthersRest ==
    /\ UNCHANGED part
    /\ part # "bus" => UNCHANGED vars
    /\ part # "emergency" => UNCHANGED emergencyVars
    /\ part # "scores" => UNCHANGED scoresVars
    /\ part # "evidence" => UNCHANGED evidenceVars
    /\ part # "screen" => UNCHANGED screenVars
    /\ part # "response" => UNCHANGED responseVars

DefenseNext ==
    \/ part = "bus" /\ Next /\ OthersRest
    \/ part = "emergency" /\ PanicNext /\ OthersRest
    \/ part = "scores" /\ ScoresNext /\ OthersRest
    \/ part = "evidence" /\ EvidenceNext /\ OthersRest
    \/ part = "screen" /\ ScreenNext /\ OthersRest
    \/ part = "response" /\ ResponseNext /\ OthersRest

allVars == <<
    part, vars, emergencyVars, scoresVars, evidenceVars, screenVars,
    responseVars>>

DefenseSpec == DefenseInit /\ [][DefenseNext]_allVars

-----------------------------------------------------------------------------
=============================================================================
