------------------------------- MODULE Intrusion -------------------------------
(***************************************************************************)
(* The two judges of decryption attempts: ThreatMatrix, which scores the   *)
(* attempts of a window (rust-core/src/intrusion/threat_matrix.rs), and    *)
(* RateGriefer, which makes the next key derivation dearer after failures  *)
(* (rust-core/src/deception/rate_grief.rs).  Attempts overlap, and each is *)
(* recorded with both when it ends; the matrix keeps the time it began.    *)
(***************************************************************************)
EXTENDS Integers, Sequences, FiniteSets

CONSTANTS
    ScoreWindow,    \* ThreatMatrixConfig::window
    GriefWindow,    \* RateGriefConfig::window
    Cooldown,       \* RateGriefConfig::cooldown
    Steep,          \* failures from which the multiplier grows tenfold; 10 in the code
    MaxMultiplier,  \* RateGriefConfig::max_multiplier, as a growth
    Sequential, Parallel, Uniform,  \* events from which each pattern is looked for
    Busy, Flood,    \* events in a window that make a rate of 1 and of 10 per second
    Blocks,         \* block numbers
    MaxTook,        \* bound: how long an attempt takes
    MaxMoment,      \* bound: time
    MaxAttempts     \* bound: attempts

IntrusionAssumption ==
    /\ ScoreWindow \in Nat /\ GriefWindow \in Nat /\ Cooldown \in Nat
    /\ MaxMultiplier \in Nat /\ MaxTook \in Nat /\ MaxMoment \in Nat

VARIABLES
    moment,
    inFlight,       \* attempts that have not ended
    log,            \* every attempt that was recorded, with the time of its record
    events,         \* ThreatMatrix::events
    threatLevel,    \* ThreatMatrix::current_level
    failures,       \* RateGriefer::failures
    multiplier,     \* RateGriefer::multiplier, as a growth; 0 is 1.0
    lastSuccess     \* RateGriefer::last_success, or Never

scoresVars == <<moment, inFlight, log, events, threatLevel, failures, multiplier, lastSuccess>>

Never == MaxMoment + 1

ScoresInit ==
    /\ moment = 0 /\ inFlight = {} /\ log = <<>>
    /\ events = <<>> /\ threatLevel = 0
    /\ failures = <<>> /\ multiplier = 0 /\ lastSuccess = Never

-----------------------------------------------------------------------------
(* The score *)

Count(S) == Cardinality(S)
Failed(evs) == Count({i \in DOMAIN evs : ~evs[i].ok})
If(condition, points) == IF condition THEN points ELSE 0

\* detect_sequential_access: more steps to the next block than half the events
InSequence(evs) ==
    /\ Len(evs) >= Sequential
    /\ Count({i \in 2..Len(evs) : evs[i].block = evs[i - 1].block + 1}) > Len(evs) \div 2

\* detect_parallelism: one begins before the end of one recorded earlier
InParallel(evs) ==
    /\ Len(evs) >= Parallel
    /\ \E i, j \in DOMAIN evs : i < j /\ evs[j].at < evs[i].at + evs[i].took

\* detect_uniform_timing: equal intervals; a later start that is recorded earlier
\* counts as no interval, and a mean of none is uniform.
Gap(evs, i) == IF evs[i].at > evs[i - 1].at THEN evs[i].at - evs[i - 1].at ELSE 0
InStep(evs) ==
    Len(evs) >= Uniform /\ Count({Gap(evs, i) : i \in 2..Len(evs)}) = 1

\* compute_score without a baseline: rates of wrong keys above 5, 50 and 90 per cent
ScoreOf(evs) ==
    LET n == Len(evs)
        wrong == Failed(evs)
    IN IF n = 0 THEN 0
       ELSE If(20 * wrong > n, 10) + If(2 * wrong > n, 20) + If(10 * wrong > 9 * n, 20)
          + If(InSequence(evs), 15) + If(InParallel(evs), 20) + If(wrong > 0 /\ InStep(evs), 10)
          + If(n > Busy, 10) + If(n > Flood, 20)

\* ThreatLevel::from_score
FromScore(score) == Count({bound \in {10, 25, 50, 80, 120} : bound <= score})

\* Mutant of Prune: at most one event is taken off the front.
PruneOne(times, evs, cutoff) ==
    IF evs # <<>> /\ times[1] < cutoff THEN Tail(evs) ELSE evs

\* prune, prune_old: events leave at the front for as long as it is too old.
Prune(times, evs, cutoff) ==
    LET young == {i \in DOMAIN evs : times[i] >= cutoff} IN
    IF young = {} THEN <<>>
    ELSE SubSeq(evs, CHOOSE i \in young : \A j \in young : i <= j, Len(evs))

Times(evs) == [i \in DOMAIN evs |-> evs[i].at]
CutoffOf(window) == IF moment > window THEN moment - window ELSE 0

-----------------------------------------------------------------------------
\* ThreatMatrix::record
RecordAttempt(e) ==
    LET all == Append(events, e) IN
    /\ events' = Prune(Times(all), all, CutoffOf(ScoreWindow))
    /\ threatLevel' = FromScore(ScoreOf(events'))

\* How dear so many failures make it: 1.5^count, and beyond ten, tenfold for each
\* one more, as numbers in the same order.
Growth(count) == IF count <= Steep THEN count ELSE Steep + 10 * (count - Steep)

Capped(growth) == IF growth < MaxMultiplier THEN growth ELSE MaxMultiplier

\* update_multiplier: 1.0 in the cooldown that follows a success.  Nothing else
\* lowers it before the next record.
MultiplierOf(count) ==
    IF lastSuccess # Never /\ moment - lastSuccess < Cooldown THEN 0
    ELSE Capped(Growth(count))

RecordFailure ==
    LET all == Append(failures, moment) IN
    /\ failures' = Prune(all, all, CutoffOf(GriefWindow))
    /\ multiplier' = MultiplierOf(Len(failures'))
    /\ UNCHANGED lastSuccess

RecordSuccess ==
    /\ lastSuccess' = moment
    /\ failures' = <<>>
    /\ multiplier' = 0

Attempt(b) ==
    /\ Cardinality(inFlight) + Len(log) < MaxAttempts
    /\ \A a \in inFlight : a.block # b
    /\ inFlight' = inFlight \cup {[at |-> moment, block |-> b]}
    /\ UNCHANGED <<moment, log, events, threatLevel, failures, multiplier, lastSuccess>>

Conclude(a, ok) ==
    LET e == [at |-> a.at, block |-> a.block, ok |-> ok, took |-> moment - a.at] IN
    /\ inFlight' = inFlight \ {a}
    /\ log' = Append(log, [e EXCEPT !.took = moment])
    /\ RecordAttempt(e)
    /\ IF ok THEN RecordSuccess ELSE RecordFailure
    /\ UNCHANGED moment

ScoresTick ==
    /\ moment < MaxMoment
    /\ \A a \in inFlight : moment - a.at < MaxTook
    /\ moment' = moment + 1
    /\ UNCHANGED <<inFlight, log, events, threatLevel, failures, multiplier, lastSuccess>>

ScoresNext ==
    \/ \E b \in Blocks : Attempt(b)
    \/ \E a \in inFlight, ok \in BOOLEAN : Conclude(a, ok)
    \/ ScoresTick

ScoresSpec == ScoresInit /\ [][ScoresNext]_scoresVars

-----------------------------------------------------------------------------
(* log[i].took is the time of the i-th record. *)

\* The level was computed from every attempt that had begun within the window
\* when the last one was recorded, however attempts overlap, and from none that
\* had begun longer ago than the window and one attempt, although prune looks at
\* the front only and the front need not be the oldest.
WindowIsWhole ==
    log # <<>> =>
        LET last == log[Len(log)].took
            Seen(i) == \E k \in DOMAIN events : events[k].at = log[i].at /\ events[k].block = log[i].block
        IN /\ \A i \in DOMAIN log : log[i].at + ScoreWindow >= last => Seen(i)
           /\ \A k \in DOMAIN events : events[k].at + ScoreWindow + MaxTook >= last

\* When a failure is recorded the multiplier becomes the one that the failures call
\* for which were recorded in the window before and after the last success, up to
\* the maximum; but none in the cooldown after a success ("the legitimate user
\* resets the counter", rate_grief.rs:14, and the test multiplier_is_capped).  What
\* it should be later, while there are no attempts, the code and its comment at
\* line 43 answer differently, and this does not say.
PenaltyFits ==
    log # <<>> /\ ~log[Len(log)].ok /\ log[Len(log)].took = moment =>
        LET Successes == {i \in DOMAIN log : log[i].ok}
            Counted == {i \in DOMAIN log :
                /\ ~log[i].ok /\ log[i].took + GriefWindow >= moment
                /\ \A j \in Successes : j < i}
        IN multiplier =
               IF \E j \in Successes : moment - log[j].took < Cooldown THEN 0
               ELSE Capped(Growth(Count(Counted)))

\* The threat matrix judges by the whole of its last window of attempts, and the
\* next key derivation grows dearer with the failures in the grief window and
\* with nothing else when a failure is recorded (threat_matrix.rs, rate_grief.rs).
JudgesAreFair == WindowIsWhole /\ PenaltyFits

=============================================================================
