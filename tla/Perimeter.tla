----------------------------- MODULE Perimeter -----------------------------
(***************************************************************************)
(* What may leave the machine: AirGapEnforcer of                           *)
(* rust-core/src/omega/sovereignty.rs, and the zones of                    *)
(* rust-core/src/omega/tempest.rs (noise generator, shielded operations).  *)
(* A destination is a kind of host, which both the address check and the   *)
(* URL check are asked about.  Whether a shielded operation is open is     *)
(* known to Rust, which lets nothing else touch the generator until it is  *)
(* dropped.                                                                *)
(***************************************************************************)
EXTENDS Naturals, FiniteSets

CONSTANTS
    Destinations,   \* the kinds of host asked about, out of Hosts
    AttemptWord,           \* blocked_attempts is taken modulo this; 2^64 in the code
    NoZone          \* no operation is open

Hosts == {"loopback4", "loopback6", "localhost", "net10", "net192", "net172private",
          "net172public", "fc00", "zero", "public"}

\* is_loopback and is_private
IsLoopback(h) == h \in {"loopback4", "loopback6", "localhost"}
IsPrivate(h) == h \in {"net10", "net192", "net172private", "fc00", "zero"}

Modes == 0..2       \* Connected, Intranet, AirGap
Zones == 0..5

VARIABLES
    config,         \* SovereigntyConfig: mode and the three switches
    armed,
    blockedAttempts,
    shielding,      \* ShieldingConfig of the noise generator
    prevZone,       \* prev_zone of the open ShieldedOperation
    jamCycles       \* whether total_jam_cycles is positive

borderVars == <<config, armed, blockedAttempts, shielding, prevZone, jamCycles>>

DefaultConfig == [mode |-> 0, ntp |-> TRUE, telemetry |-> TRUE, attestation |-> TRUE]
AirGapConfig == [mode |-> 2, ntp |-> FALSE, telemetry |-> FALSE, attestation |-> FALSE]

\* for_zone; jamming_iterations grows with the zone and is positive from Zone1
\* on.
ForZone(z) ==
    [zone |-> z, softwareJamming |-> z >= 1, redBlackSeparation |-> z >= 2,
     noSubprocess |-> z >= 3, iterates |-> z >= 1]

RequiresHardware(z) == z >= 3
RequiresAirGap(z) == z >= 4

BorderInit ==
    /\ config \in {DefaultConfig, AirGapConfig}
    /\ armed = TRUE
    /\ blockedAttempts = 0
    /\ shielding \in {ForZone(z) : z \in Zones}
    /\ prevZone = NoZone
    /\ jamCycles = FALSE

-----------------------------------------------------------------------------
(* AirGapEnforcer *)

\* Mutant of AllowsEgress: the intranet mode forgets the loopback.
AllowsEgressNet(mode, h) ==
    \/ mode = 0
    \/ mode = 1 /\ IsPrivate(h)
    \/ mode = 2 /\ IsLoopback(h)

AllowsEgress(mode, h) ==
    \/ mode = 0
    \/ mode = 1 /\ (IsLoopback(h) \/ IsPrivate(h))
    \/ mode = 2 /\ IsLoopback(h)

\* The URL is matched as text: the IPv6 loopback is no exception, all of 172.
\* counts as private, and so does no other network but 10. and 192.168.
AllowsUrl(mode, h) ==
    \/ h \in {"loopback4", "localhost"}
    \/ mode = 0
    \/ mode = 1 /\ h \in {"net10", "net192", "net172private", "net172public"}

Passes(allowed) ==
    /\ blockedAttempts' = IF armed /\ ~allowed THEN (blockedAttempts + 1) % AttemptWord ELSE blockedAttempts
    /\ UNCHANGED <<config, armed, shielding, prevZone, jamCycles>>

CheckEgress(h) == Passes(AllowsEgress(config.mode, h))
CheckUrl(h) == Passes(AllowsUrl(config.mode, h))

\* check_ntp and check_telemetry heed neither the mode nor whether the enforcer
\* is armed, and count nothing.
NtpAllowed == config.ntp
TelemetryAllowed == config.telemetry

SetMode(m) ==
    /\ config' = [config EXCEPT !.mode = m]
    /\ UNCHANGED <<armed, blockedAttempts, shielding, prevZone, jamCycles>>

Arm(on) ==
    /\ armed' = on
    /\ UNCHANGED <<config, blockedAttempts, shielding, prevZone, jamCycles>>

-----------------------------------------------------------------------------
(* ElectromagneticNoiseGenerator and ShieldedOperation *)

SetZone(z) ==
    /\ prevZone = NoZone
    /\ shielding' = ForZone(z)
    /\ UNCHANGED <<config, armed, blockedAttempts, prevZone, jamCycles>>

\* jam(0) does as many iterations as the zone asks for.
Jam ==
    /\ shielding.softwareJamming
    /\ jamCycles' = (jamCycles \/ shielding.iterates)
    /\ UNCHANGED <<config, armed, blockedAttempts, shielding, prevZone>>

Enter(z) ==
    /\ prevZone = NoZone
    /\ prevZone' = shielding.zone
    /\ shielding' = ForZone(z)
    /\ UNCHANGED <<config, armed, blockedAttempts, jamCycles>>

Drop ==
    /\ prevZone # NoZone
    /\ shielding' = ForZone(prevZone)
    /\ prevZone' = NoZone
    /\ UNCHANGED <<config, armed, blockedAttempts, jamCycles>>

BorderNext ==
    \/ \E h \in Destinations : CheckEgress(h) \/ CheckUrl(h)
    \/ \E m \in Modes : SetMode(m)
    \/ \E on \in BOOLEAN : Arm(on)
    \/ \E z \in Zones : SetZone(z) \/ Enter(z)
    \/ Jam
    \/ Drop

BorderSpec == BorderInit /\ [][BorderNext]_borderVars

-----------------------------------------------------------------------------
\* What gets out as things stand: through the enforcer, and by the generator's
\* network_egress_allowed and subprocess_allowed.
Outlets ==
    {<<"address", h>> : h \in {d \in Destinations : ~armed \/ AllowsEgress(config.mode, d)}}
        \cup {<<"url", h>> : h \in {d \in Destinations : ~armed \/ AllowsUrl(config.mode, d)}}
        \cup (IF shielding.redBlackSeparation THEN {} ELSE {<<"any", "network">>})
        \cup (IF shielding.noSubprocess THEN {} ELSE {<<"any", "subprocess">>})

\* No step opens an outlet unless it disarms the enforcer, turns to a laxer mode
\* or goes to a lower zone, so that leaving a shielded operation opens what was
\* open before it and nothing else ("progressively stronger", tempest.rs;
\* "`AirGap` is the strictest", sovereignty.rs).
NoOutletOpens ==
    [][ /\ armed => armed'
        /\ config.mode <= config.mode'
        /\ shielding.zone <= shielding'.zone
        => Outlets' \subseteq Outlets ]_borderVars

=============================================================================
