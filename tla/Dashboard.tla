------------------------------ MODULE Dashboard -------------------------------
(***************************************************************************)
(* The terminal interface, rust-core/src/tui/app.rs: a loop that draws,    *)
(* waits for a key for up to a tick, and reads the event bus again when a  *)
(* tick has passed.  Other threads publish meanwhile; of the bus only the  *)
(* bounded history counts.  Drawing takes no time.                         *)
(***************************************************************************)
EXTENDS Integers, SequencesExt

CONSTANTS
    TickRate,       \* App::tick_rate
    Shown,          \* events on the screen; 50 in the code
    Limit,          \* the history of the bus
    MaxClock,       \* bound: time
    MaxPublished    \* bound: events published

ASSUME DashboardAssumption ==
    /\ TickRate \in Nat \ {0} /\ Shown \in Nat \ {0}
    /\ Limit \in Nat /\ Limit >= Shown

VARIABLES
    clock,
    recent,         \* EventBus::history: ids and whether an event is severe
    published,      \* how many events there were
    at,             \* where the loop is
    until,          \* when the wait for a key ends
    lastTick,       \* App::last_tick
    tab,            \* App::active_tab
    quit,           \* App::should_quit
    rows,           \* RuntimeState::events
    threats,        \* RuntimeState::active_threats
    readAt,         \* when events was read
    kept            \* the ids that were in the history when threats was counted

screenVars == <<clock, recent, published, at, until, lastTick, tab, quit, rows, threats, readAt, kept>>
bus == <<recent, published>>
screen == <<rows, threats, readAt, kept>>

Tabs == 0..4

\* recent(50), count_by_severity
Recent == SubSeq(recent, IF Len(recent) > Shown THEN Len(recent) - Shown + 1 ELSE 1, Len(recent))
Severe(evs) == Cardinality({i \in DOMAIN evs : evs[i].severe})
Ids(evs) == {evs[i].id : i \in DOMAIN evs}

\* App::new; the threats are not counted before the first refresh.
ScreenInit ==
    /\ clock = 0 /\ published = 1 /\ recent = <<[id |-> 1, severe |-> FALSE]>>
    /\ at = "draw" /\ until = 0 /\ lastTick = 0 /\ tab = 0 /\ quit = FALSE
    /\ rows = recent /\ threats = 0 /\ readAt = 0 /\ kept = {1}

\* Any thread that holds the bus.
Publish(severe) ==
    /\ published < MaxPublished /\ at # "done"
    /\ published' = published + 1
    /\ LET e == [id |-> published', severe |-> severe]
           young == IF Len(recent) >= Limit THEN Tail(recent) ELSE recent
       IN recent' = Append(young, e)
    /\ UNCHANGED <<clock, at, until, lastTick, tab, quit, screen>>

DrawScreen ==
    /\ at = "draw"
    /\ at' = "wait" /\ until' = clock + TickRate
    /\ UNCHANGED <<clock, bus, lastTick, tab, quit, screen>>

ClockTick ==
    /\ at = "wait" /\ clock < until /\ clock < MaxClock
    /\ clock' = clock + 1
    /\ UNCHANGED <<bus, at, until, lastTick, tab, quit, screen>>

-----------------------------------------------------------------------------
(* refresh: recent and count_by_severity each take the lock of the history *)

\* Mutant of RefreshPart: the threats are counted before the events are read.
RefreshPartSwapped(part) ==
    \/ part = "second" /\ rows' = Recent /\ readAt' = clock /\ UNCHANGED <<threats, kept>>
    \/ part = "first" /\ threats' = Severe(recent) /\ kept' = Ids(recent) /\ UNCHANGED <<rows, readAt>>

RefreshPart(part) ==
    \/ part = "first" /\ rows' = Recent /\ readAt' = clock /\ UNCHANGED <<threats, kept>>
    \/ part = "second" /\ threats' = Severe(recent) /\ kept' = Ids(recent) /\ UNCHANGED <<rows, readAt>>

-----------------------------------------------------------------------------
(* The rest of the loop: handle_key, then the tick, then should_quit *)

\* q and Esc, the digits, Tab and BackTab, and every other key
PressKey(t, q) ==
    /\ at = "wait"
    /\ tab' = t /\ quit' = (quit \/ q)
    /\ at' = "check"
    /\ UNCHANGED <<clock, bus, until, lastTick, screen>>

\* r refreshes at once; the tick is not put off by it.
PressRefresh ==
    /\ at = "wait"
    /\ RefreshPart("first") /\ at' = "key"
    /\ UNCHANGED <<clock, bus, until, lastTick, tab, quit>>

EndRefresh ==
    /\ at = "key"
    /\ RefreshPart("second") /\ at' = "check"
    /\ UNCHANGED <<clock, bus, until, lastTick, tab, quit>>

NoKey ==
    /\ at = "wait" /\ clock = until
    /\ at' = "check"
    /\ UNCHANGED <<clock, bus, until, lastTick, tab, quit, screen>>

Due == clock - lastTick >= TickRate

BeginTick ==
    /\ at = "check" /\ Due
    /\ RefreshPart("first") /\ at' = "tick"
    /\ UNCHANGED <<clock, bus, until, lastTick, tab, quit>>

AfterLoop == IF quit THEN "done" ELSE "draw"

EndTick ==
    /\ at = "tick"
    /\ RefreshPart("second") /\ at' = AfterLoop /\ lastTick' = clock
    /\ UNCHANGED <<clock, bus, until, tab, quit>>

NotDue ==
    /\ at = "check" /\ ~Due
    /\ at' = AfterLoop
    /\ UNCHANGED <<clock, bus, until, lastTick, tab, quit, screen>>

ScreenNext ==
    \/ \E severe \in BOOLEAN : Publish(severe)
    \/ DrawScreen \/ ClockTick \/ NoKey
    \/ \E t \in Tabs, q \in BOOLEAN : PressKey(t, q)
    \/ PressRefresh \/ EndRefresh
    \/ BeginTick \/ EndTick \/ NotDue

ScreenSpec == ScreenInit /\ [][ScreenNext]_screenVars

-----------------------------------------------------------------------------
(* Properties *)

\* Keys do not starve the refresh: what is on the screen was read less than
\* two ticks ago, however often one is pressed.
NeverStale == at # "done" => clock - readAt < 2 * TickRate

\* Between two refreshes the counter knows every severe event the list shows,
\* but for those that the bounded history dropped before it was counted: the
\* bus goes on between the two calls, and the list is the older of the two.
CounterCoversList ==
    at \notin {"key", "tick"} =>
        /\ \A e \in ToSet(rows) : e.id \in kept \/ \A k \in kept : e.id < k
        /\ threats >= Cardinality({e \in ToSet(rows) : e.severe /\ e.id \in kept})

\* The screen is fresh and its two halves agree.
ScreenTells == NeverStale /\ CounterCoversList

=============================================================================
