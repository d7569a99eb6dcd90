----------------------------- MODULE Clearances -----------------------------
(***************************************************************************)
(* Classifications, compartments and clearances,                           *)
(* rust-core/src/omega/classification.rs, and what becomes of information  *)
(* when subjects read and write under their rules.  An object stands for   *)
(* everything kept at one classification; what it holds is the set of      *)
(* classifications its contents came from.                                 *)
(***************************************************************************)
EXTENDS Naturals, FiniteSets

CONSTANTS
    Subjects,
    Objects         \* the classifications in use

Classification ==
    {"Unclassified", "Cui", "FveyRestricted", "Confidential", "EuRestricted",
     "NatoRestricted", "NatoConfidential", "EuConfidential", "FveyConfidential",
     "Secret", "FveySecret", "NatoSecret", "EuSecret", "TopSecret",
     "FveyTopSecret", "TopSecretSci", "CosmicTopSecret"}

ClearancesAssumption == Objects \subseteq Classification

Level == [c \in Classification |->
    CASE c = "Unclassified" -> 0
      [] c = "Cui" -> 10
      [] c = "FveyRestricted" -> 15
      [] c \in {"Confidential", "NatoRestricted"} -> 20
      [] c = "EuRestricted" -> 22
      [] c = "FveyConfidential" -> 23
      [] c = "NatoConfidential" -> 25
      [] c = "EuConfidential" -> 27
      [] c = "Secret" -> 30
      [] c = "FveySecret" -> 33
      [] c = "NatoSecret" -> 35
      [] c = "EuSecret" -> 37
      [] c \in {"TopSecret", "FveyTopSecret"} -> 40
      [] c = "TopSecretSci" -> 50
      [] OTHER -> 60]

Tags == {"SCI", "NATO-COSMIC", "FVEY", "NATO"}

\* Compartments::for_level.  Two of the FVEY markings, and the EU ones, carry no
\* compartment.
ForLevel(c) ==
    CASE c = "TopSecretSci" -> {"SCI"}
      [] c = "CosmicTopSecret" -> {"NATO-COSMIC"}
      [] c \in {"FveySecret", "FveyTopSecret"} -> {"FVEY"}
      [] c \in {"NatoConfidential", "NatoRestricted", "NatoSecret"} -> {"NATO"}
      [] OTHER -> {}

VARIABLES
    clearance,      \* what each subject presents
    seen,           \* where all that each subject read came from
    contents        \* where all that stands in each object came from

mlsVars == <<clearance, seen, contents>>

Clearance == [level : Objects, compartments : SUBSET Tags]

MlsTypeOK ==
    /\ clearance \in [Subjects -> Clearance]
    /\ seen \in [Subjects -> SUBSET Objects]
    /\ contents \in [Objects -> SUBSET Objects]

MlsInit ==
    /\ clearance \in [Subjects -> {c \in Clearance : c.compartments = {}}]
    /\ seen = [s \in Subjects |-> {}]
    /\ contents = [o \in Objects |-> {o}]

\* Clearance::with, Compartments::insert and remove: reading a subject into a
\* compartment and out of it.
With(s, tag) ==
    /\ clearance' = [clearance EXCEPT ![s].compartments = @ \cup {tag}]
    /\ UNCHANGED <<seen, contents>>

Remove(s, tag) ==
    /\ clearance' = [clearance EXCEPT ![s].compartments = @ \ {tag}]
    /\ UNCHANGED <<seen, contents>>

CanRead(level, object, compartments) ==
    /\ Level[level] >= Level[object]
    /\ ForLevel(object) \subseteq compartments

\* Mutant of CanWrite: a subject may write at its level or below.
CanWriteDown(level, object) == Level[level] >= Level[object]

CanWrite(level, object) == Level[level] = Level[object]

\* satisfies, where the object asks for no compartment beyond those of its
\* level.
Satisfies(s, object) == CanRead(clearance[s].level, object, clearance[s].compartments)

Read(s, object) ==
    /\ Satisfies(s, object)
    /\ seen' = [seen EXCEPT ![s] = @ \cup contents[object]]
    /\ UNCHANGED <<clearance, contents>>

Write(s, object) ==
    /\ CanWrite(clearance[s].level, object)
    /\ contents' = [contents EXCEPT ![object] = @ \cup seen[s]]
    /\ UNCHANGED <<clearance, seen>>

\* The tags that make a difference to an object in use.
TagsInUse == UNION {ForLevel(o) : o \in Objects}

MlsNext ==
    \E s \in Subjects :
        \/ \E tag \in TagsInUse : With(s, tag) \/ Remove(s, tag)
        \/ \E object \in Objects : Read(s, object) \/ Write(s, object)

MlsSpec == MlsInit /\ [][MlsNext]_mlsVars

-----------------------------------------------------------------------------
\* Whatever subjects pass on to each other through objects, nobody comes to know
\* anything from above the level of their clearance, and nothing from above
\* the level of an object comes to stand in it ("No Read Up", "No Write Down",
\* classification.rs).
NothingFlowsDown ==
    /\ \A s \in Subjects : \A c \in seen[s] : Level[c] <= Level[clearance[s].level]
    /\ \A o \in Objects : \A c \in contents[o] : Level[c] <= Level[o]

=============================================================================
