------------------------------ MODULE EventBus ------------------------------
(***************************************************************************)
(* The in-memory event bus, rust-core/src/event_bus/bus.rs, used by        *)
(* several threads.  publish is three critical sections: it draws an id    *)
(* from a global counter, records the event in the bounded history under   *)
(* the history lock, and sends it to the matching subscribers while it     *)
(* holds the subscriber lock for reading, one subscriber after the other.  *)
(* append publishes and then returns the last record of the history.       *)
(*                                                                         *)
(* Channels are unbounded: inbox is everything that was sent to a          *)
(* subscriber, read or not.  Event payloads are left out.                  *)
(***************************************************************************)
EXTENDS Naturals, Sequences, SequencesExt

CONSTANTS
    Threads,        \* threads that publish
    Subscribers,    \* subscriber ids, each drawn once from the counter
    Categories,     \* event categories
    System,         \* the category append gives every event
    Filters,        \* the filters subscribers ask for
    HistoryLimit,   \* history_limit
    MaxEvents,      \* bound: events published in a behaviour
    None            \* no event

ASSUME BusAssumption ==
    /\ System \in Categories
    /\ Filters \subseteq SUBSET Categories
    /\ HistoryLimit \in Nat \ {0}
    /\ MaxEvents \in Nat

VARIABLES
    nextId,     \* NEXT_EVENT_ID
    history,    \* the recorded events, oldest first
    status,     \* "new", "on" or "off" for every subscriber id
    filter,     \* the categories a subscriber asked for; {} is all of them
    since,      \* the counter when the subscriber was inserted
    inbox,      \* what was sent to the subscriber
    pc,         \* where a thread is inside publish or append
    ev,         \* the event a thread is publishing
    todo,       \* subscribers the thread's loop has still to visit
    api         \* "publish" or "append"

vars == <<nextId, history, status, filter, since, inbox, pc, ev, todo, api>>

Event == [id : 1..MaxEvents, cat : Categories, by : Threads]

TypeOK ==
    /\ nextId \in 1..(MaxEvents + 1)
    /\ history \in Seq(Event) /\ Len(history) <= HistoryLimit
    /\ status \in [Subscribers -> {"new", "on", "off"}]
    /\ filter \in [Subscribers -> SUBSET Categories]
    /\ since \in [Subscribers -> 1..(MaxEvents + 1)]
    /\ inbox \in [Subscribers -> Seq(Event)]
    /\ pc \in [Threads -> {"idle", "record", "lock", "deliver", "last"}]
    /\ ev \in [Threads -> Event \cup {None}]
    /\ todo \in [Threads -> SUBSET Subscribers]
    /\ api \in [Threads -> {"publish", "append"}]

Init ==
    /\ nextId = 1
    /\ history = <<>>
    /\ status = [s \in Subscribers |-> "new"]
    /\ filter = [s \in Subscribers |-> {}]
    /\ since = [s \in Subscribers |-> 1]
    /\ inbox = [s \in Subscribers |-> <<>>]
    /\ pc = [t \in Threads |-> "idle"]
    /\ ev = [t \in Threads |-> None]
    /\ todo = [t \in Threads |-> {}]
    /\ api = [t \in Threads |-> "publish"]

Wants(s, e) == filter[s] = {} \/ e.cat \in filter[s]

Go(t, from, to) ==
    /\ pc[t] = from
    /\ pc' = [pc EXCEPT ![t] = to]

\* What is local to a call goes when the call returns.
Forget(t) ==
    /\ ev' = [ev EXCEPT ![t] = None]
    /\ api' = [api EXCEPT ![t] = "publish"]

-----------------------------------------------------------------------------
(* publish *)

\* NEXT_EVENT_ID.fetch_add, from publish or, for System events, from append.
Draw(t, c, a) ==
    /\ nextId <= MaxEvents
    /\ a = "append" => c = System
    /\ Go(t, "idle", "record")
    /\ ev' = [ev EXCEPT ![t] = [id |-> nextId, cat |-> c, by |-> t]]
    /\ api' = [api EXCEPT ![t] = a]
    /\ nextId' = nextId + 1
    /\ UNCHANGED <<history, status, filter, since, inbox, todo>>

Evicted == IF Len(history) >= HistoryLimit THEN Tail(history) ELSE history

Record(t) ==
    /\ Go(t, "record", "lock")
    /\ history' = Append(Evicted, ev[t])
    /\ UNCHANGED <<nextId, status, filter, since, inbox, ev, todo, api>>

\* The subscribers are read-locked for the whole loop.
BeginDelivery(t) ==
    /\ Go(t, "lock", "deliver")
    /\ todo' = [todo EXCEPT ![t] = {s \in Subscribers : status[s] = "on" /\ Wants(s, ev[t])}]
    /\ UNCHANGED <<nextId, history, status, filter, since, inbox, ev, api>>

\* Mutant of Deliver: a full inbox drops the event, as a bounded channel would.
DeliverBounded(t, s) ==
    /\ pc[t] = "deliver"
    /\ s \in todo[t]
    /\ todo' = [todo EXCEPT ![t] = @ \ {s}]
    /\ inbox' = [inbox EXCEPT ![s] = IF Len(@) >= 2 THEN @ ELSE Append(@, ev[t])]
    /\ UNCHANGED <<nextId, history, status, filter, since, pc, ev, api>>

\* try_send to one subscriber; the map is visited in any order.
Deliver(t, s) ==
    /\ pc[t] = "deliver"
    /\ s \in todo[t]
    /\ todo' = [todo EXCEPT ![t] = @ \ {s}]
    /\ inbox' = [inbox EXCEPT ![s] = Append(@, ev[t])]
    /\ UNCHANGED <<nextId, history, status, filter, since, pc, ev, api>>

\* The read lock is dropped; publish returns, append goes on.
EndDelivery(t) ==
    /\ todo[t] = {}
    /\ \/ api[t] = "append" /\ Go(t, "deliver", "last") /\ UNCHANGED <<ev, api>>
       \/ api[t] = "publish" /\ Go(t, "deliver", "idle") /\ Forget(t)
    /\ UNCHANGED <<nextId, history, status, filter, since, inbox, todo>>

\* append returns history.last(): Last(history) if there is one, else ev[t].
ReturnLast(t) ==
    /\ Go(t, "last", "idle")
    /\ Forget(t)
    /\ UNCHANGED <<nextId, history, status, filter, since, inbox, todo>>

Returned(t) == IF history = <<>> THEN ev[t] ELSE Last(history)

-----------------------------------------------------------------------------
(* subscribe and unsubscribe take the subscriber lock for writing *)

NoReader == \A t \in Threads : pc[t] # "deliver"

Subscribe(s, f) ==
    /\ NoReader
    /\ status[s] = "new"
    /\ status' = [status EXCEPT ![s] = "on"]
    /\ filter' = [filter EXCEPT ![s] = f]
    /\ since' = [since EXCEPT ![s] = nextId]
    /\ UNCHANGED <<nextId, history, inbox, pc, ev, todo, api>>

Unsubscribe(s) ==
    /\ NoReader
    /\ status[s] = "on"
    /\ status' = [status EXCEPT ![s] = "off"]
    /\ UNCHANGED <<nextId, history, filter, since, inbox, pc, ev, todo, api>>

Step(t) ==
    \/ Record(t)
    \/ BeginDelivery(t)
    \/ \E s \in Subscribers : Deliver(t, s)
    \/ EndDelivery(t)
    \/ ReturnLast(t)

Next ==
    \/ \E t \in Threads :
        \/ \E c \in Categories, a \in {"publish", "append"} : Draw(t, c, a)
        \/ Step(t)
    \/ \E s \in Subscribers :
        \/ \E f \in Filters : Subscribe(s, f)
        \/ Unsubscribe(s)

Spec == Init /\ [][Next]_vars

-----------------------------------------------------------------------------
(* What the bus promises *)

Numbered(seq) == \A i, j \in DOMAIN seq :
    i < j /\ seq[i].by = seq[j].by => seq[i].id < seq[j].id

\* However publishers interleave, the history and every inbox hold the events
\* of one thread in the order that thread published them, none of them twice.
PerThreadOrder ==
    /\ Numbered(history)
    /\ \A s \in Subscribers : Numbered(inbox[s])

InFlight(e) == \E t \in Threads : pc[t] # "idle" /\ ev[t] = e

\* publish "delivers to all matching subscribers" (bus.rs, publish): a
\* subscriber that was there when the event drew its number, and still is when
\* publish has returned, has been sent it.
NoMissedEvent ==
    \A s \in Subscribers, e \in ToSet(history) :
        /\ status[s] = "on"
        /\ since[s] <= e.id
        /\ Wants(s, e)
        /\ ~InFlight(e)
        => e \in ToSet(inbox[s])

\* Nothing is sent to a subscriber once unsubscribe has returned.
QuietAfterUnsubscribe ==
    [][\A s \in Subscribers : status[s] = "off" => inbox'[s] = inbox[s]]_vars

\* What append hands back is the record of its own event or of one that another
\* thread recorded after it, never an older one, however full the history is
\* ("Append a legacy SoteriaEvent to the bus", bus.rs, append).
AppendReturnsRecent ==
    \A t \in Threads : pc[t] = "last" => Returned(t) = ev[t] \/ Returned(t).by # t

\* The bus delivers in order, completely and not after the end of a subscription,
\* and append answers with what is current.
BusDelivers ==
    /\ [](PerThreadOrder /\ NoMissedEvent /\ AppendReturnsRecent)
    /\ QuietAfterUnsubscribe

=============================================================================
