----------------------------- MODULE Emergency -----------------------------
(***************************************************************************)
(* The emergency controller, rust-core/src/omega/emergency.rs: counters of *)
(* what is held in memory, a lockout, and trigger(), which sweeps the      *)
(* counters, locks the operator out and, for ColdWar, calls the hooks that *)
(* destroy the volume header and the TPM seals.  Every field is an atomic  *)
(* of its own, so each access is a step and threads interleave.            *)
(*                                                                         *)
(* Time is counted in days.  Word stands for 2^64, the width of a counter, *)
(* and Half for 2^32, to which a report truncates it.  The reason, the     *)
(* source and the digest of a report are left out.                         *)
(***************************************************************************)
EXTENDS Naturals, Sequences

CONSTANTS
    Callers,        \* threads that may call trigger
    Counters,       \* the counters, in the order in which trigger swaps them
    Word, Half,     \* the modulus of a counter, and of its figure in a report
    Hooks,          \* TRUE when with_cold_war_hooks was called
    MaxHeld,        \* bound: holders of one kind at a time
    MaxTriggers,    \* bound: calls of trigger
    MaxTime         \* bound: the last day

EmergencyAssumption ==
    /\ Word \in Nat \ {0} /\ Half \in Nat \ {0} /\ Word % Half = 0
    /\ MaxHeld \in Nat /\ MaxTriggers \in Nat /\ MaxTime \in Nat
    /\ Hooks \in BOOLEAN

Kinds == {Counters[i] : i \in DOMAIN Counters}

Levels == {"panic", "duress", "coldwar"}

LockDays == [duress |-> 1, coldwar |-> 7]

VARIABLES
    counter,    \* ram_keys, secure_boxes, sessions
    lockout,    \* lockout_until_ms
    wiped,
    place, job, \* each thread's call of trigger: its level and its now
    time,
    destroyed,  \* what the hooks have destroyed: "header", "seals"
    reports,    \* the level and timestamp of every report this process returned
    held,       \* how many keys, boxes and sessions there really are
    told,       \* the sum of what reports say was wiped, modulo Half
    triggers    \* calls so far

controller == <<counter, lockout, wiped>>
world == <<time, destroyed, reports, held, told>>
emergencyVars == <<counter, lockout, wiped, place, job, time, destroyed, reports, held, told, triggers>>

Sweeping(i) == <<"sweep", i>>

PanicInit ==
    /\ counter = [k \in Kinds |-> 0]
    /\ lockout = 0
    /\ wiped = FALSE
    /\ place = [t \in Callers |-> <<"idle">>]
    /\ job = [t \in Callers |-> [level |-> "panic", now |-> 0]]
    /\ time = 0
    /\ destroyed = {}
    /\ reports = {}
    /\ held = [k \in Kinds |-> 0]
    /\ told = [k \in Kinds |-> 0]
    /\ triggers = 0

-----------------------------------------------------------------------------
(* Holders *)

\* note_ram_key_registered, note_secure_box_alloc, note_session_open.
Register(k) ==
    /\ held[k] < MaxHeld
    /\ held' = [held EXCEPT ![k] = @ + 1]
    /\ counter' = [counter EXCEPT ![k] = (@ + 1) % Word]
    /\ UNCHANGED <<lockout, wiped, place, job, time, destroyed, reports, told, triggers>>

\* note_ram_key_wiped, note_secure_box_drop, note_session_close: fetch_sub wraps.
Drop(k) ==
    /\ held[k] > 0
    /\ held' = [held EXCEPT ![k] = @ - 1]
    /\ counter' = [counter EXCEPT ![k] = (@ + Word - 1) % Word]
    /\ UNCHANGED <<lockout, wiped, place, job, time, destroyed, reports, told, triggers>>

-----------------------------------------------------------------------------
(* trigger *)

AfterSweep(level) == IF level = "panic" THEN <<"mark">> ELSE <<"lock">>

Begin(t, level) ==
    /\ place[t] = <<"idle">>
    /\ triggers < MaxTriggers
    /\ triggers' = triggers + 1
    /\ job' = [job EXCEPT ![t] = [level |-> level, now |-> time]]
    /\ place' = [place EXCEPT ![t] = Sweeping(1)]
    /\ UNCHANGED <<controller, world>>

\* swap(0) on the next counter.
Sweep(t) == \E i \in DOMAIN Counters :
    LET k == Counters[i] IN
    /\ place[t] = Sweeping(i)
    /\ told' = [told EXCEPT ![k] = (@ + counter[k]) % Half]
    /\ counter' = [counter EXCEPT ![k] = 0]
    /\ place' = [place EXCEPT ![t] = IF i < Len(Counters) THEN Sweeping(i + 1)
                                                    ELSE AfterSweep(job[t].level)]
    /\ UNCHANGED <<lockout, wiped, job, time, destroyed, reports, held, triggers>>

\* Mutant of Lock: the lockout is a length, not a point in time.
LockLength(t) ==
    /\ place[t] = <<"lock">>
    /\ lockout' = LockDays[job[t].level]
    /\ place' = [place EXCEPT ![t] = IF job[t].level = "coldwar" /\ Hooks THEN <<"header">>
                                                                    ELSE <<"mark">>]
    /\ UNCHANGED <<counter, wiped, job, world, triggers>>

\* The lockout is stored, whatever it was.
Lock(t) ==
    /\ place[t] = <<"lock">>
    /\ lockout' = job[t].now + LockDays[job[t].level]
    /\ place' = [place EXCEPT ![t] = IF job[t].level = "coldwar" /\ Hooks THEN <<"header">>
                                                                    ELSE <<"mark">>]
    /\ UNCHANGED <<counter, wiped, job, world, triggers>>

\* A hook runs; trigger ignores it when it fails.
Hook(t, what, next) ==
    /\ place[t] = <<what>>
    /\ destroyed' \in {destroyed, destroyed \cup {what}}
    /\ place' = [place EXCEPT ![t] = next]
    /\ UNCHANGED <<controller, job, time, reports, held, told, triggers>>

Mark(t) ==
    /\ place[t] = <<"mark">>
    /\ wiped' = TRUE
    /\ reports' = reports \cup {job[t]}
    /\ place' = [place EXCEPT ![t] = <<"idle">>]
    /\ UNCHANGED <<counter, lockout, job, time, destroyed, held, told, triggers>>

Trigger(t) ==
    \/ \E level \in Levels : Begin(t, level)
    \/ Sweep(t)
    \/ Lock(t)
    \/ Hook(t, "header", <<"seals">>)
    \/ Hook(t, "seals", <<"mark">>)
    \/ Mark(t)

-----------------------------------------------------------------------------

ClearWiped ==
    /\ wiped' = FALSE
    /\ UNCHANGED <<counter, lockout, place, job, world, triggers>>

\* A trigger is short against a day.
Tick ==
    /\ time < MaxTime
    /\ \A t \in Callers : place[t] = <<"idle">>
    /\ time' = time + 1
    /\ UNCHANGED <<controller, place, job, destroyed, reports, held, told, triggers>>

\* A new process: the controller is held in its memory only.
Restart ==
    /\ counter' = [k \in Kinds |-> 0]
    /\ lockout' = 0
    /\ wiped' = FALSE
    /\ place' = [t \in Callers |-> <<"idle">>]
    /\ held' = [k \in Kinds |-> 0]
    /\ told' = [k \in Kinds |-> 0]
    /\ reports' = {}
    /\ UNCHANGED <<job, time, destroyed, triggers>>

PanicNext ==
    \/ \E k \in Kinds : Register(k) \/ Drop(k)
    \/ \E t \in Callers : Trigger(t)
    \/ ClearWiped
    \/ Tick
    \/ Restart

PanicSpec == PanicInit /\ [][PanicNext]_emergencyVars

-----------------------------------------------------------------------------
(* What the controller promises *)

\* Concurrent triggers lose no holder and report none twice: modulo the width
\* of a figure, those in the counter and those in reports are the holders.
EachHolderOnce ==
    \A k \in Kinds : (counter[k] + told[k]) % Half = held[k] % Half

\* Nothing is destroyed before a lockout is in force, so a trigger that is cut
\* short never leaves a destroyed volume to an operator who is not locked out.
DestroysLockedOut == [][destroyed' # destroyed => lockout > time]_emergencyVars

\* Whoever called trigger with Duress or above is answered with a lockout of
\* at least 24 hours from the call ("lock the operator out for 24 hours"),
\* whatever triggers race and as long as the process lives.
DayLocked ==
    \A r \in reports : r.level # "panic" => lockout >= r.now + 1

\* Triggers account for every holder, lock the operator out, and destroy nothing
\* before they have.
TriggersAccount == [](EachHolderOnce /\ DayLocked) /\ DestroysLockedOut

=============================================================================
