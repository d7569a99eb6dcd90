--------------------------- MODULE Defense_proofs ---------------------------
(***************************************************************************)
(* What is proved of the parts that watch and react, which MCDefense       *)
(* checks, for every value of their constants.  The parts share no state:  *)
(* each section is about one of them.                                      *)
(***************************************************************************)
EXTENDS EventBus, Emergency, Dashboard, Evidence, Response, Intrusion,
        Integers, TLAPS, SequenceTheorems, FiniteSetTheorems, WellFoundedInduction

-----------------------------------------------------------------------------
(* EventBus, for any threads, subscribers, filters and size of the         *)
(* history.  Publishing is three critical sections, and the invariant says *)
(* for each how far an event has come: its number is above all earlier     *)
(* ones of its thread, and a subscriber who is still to get it is still in *)
(* the list of its loop.                                                   *)

Shape ==
    /\ nextId \in Nat \ {0}
    /\ history \in Seq(Event)
    /\ status \in [Subscribers -> {"new", "on", "off"}]
    /\ filter \in [Subscribers -> SUBSET Categories]
    /\ since \in [Subscribers -> Nat]
    /\ inbox \in [Subscribers -> Seq(Event)]
    /\ pc \in [Threads -> {"idle", "record", "lock", "deliver", "last"}]
    /\ ev \in [Threads -> Event \cup {None}]
    /\ todo \in [Threads -> SUBSET Subscribers]
    /\ api \in [Threads -> {"publish", "append"}]

\* The event of a call, and the subscribers its loop has still to visit.
Calls ==
    \A t \in Threads :
        /\ pc[t] # "idle" => ev[t] \in Event /\ ev[t].by = t /\ ev[t].id < nextId
        /\ pc[t] # "deliver" => todo[t] = {}
        /\ \A s \in todo[t] : status[s] = "on"

\* e is later than all that seq has of its thread.
Above(e, seq) == \A i \in DOMAIN seq : seq[i].by = e.by => seq[i].id < e.id

Drawn(seq) == \A i \in DOMAIN seq : seq[i].id < nextId

\* Whether thread t is still to send its event to s.
Owes(t, s) == pc[t] \in {"record", "lock"} \/ s \in todo[t]

Ordered ==
    /\ Numbered(history) /\ Drawn(history)
    /\ \A s \in Subscribers : Numbered(inbox[s]) /\ Drawn(inbox[s])
    /\ \A t \in Threads : pc[t] = "record" => Above(ev[t], history)
    /\ \A t \in Threads, s \in Subscribers : Owes(t, s) => Above(ev[t], inbox[s])

\* A recorded event that a subscriber should have is there or still owed.
Pending ==
    \A s \in Subscribers, e \in ToSet(history) :
        status[s] = "on" /\ since[s] <= e.id /\ Wants(s, e) =>
            \/ e \in ToSet(inbox[s])
            \/ \E t \in Threads : ev[t] = e /\ (pc[t] = "lock" \/ s \in todo[t])

\* From its recording on, nothing older of a call's thread is the last record.
CallerLast ==
    \A t \in Threads : pc[t] \in {"lock", "deliver", "last"} =>
        /\ history # <<>>
        /\ Last(history) = ev[t] \/ Last(history).by # t

BusInv == Shape /\ Calls /\ Ordered /\ Pending /\ CallerLast

-----------------------------------------------------------------------------
(* Sequences *)

LEMMA Indices ==
    ASSUME NEW seq \in Seq(Event)
    PROVE  /\ Len(seq) \in Nat /\ DOMAIN seq = 1..Len(seq)
           /\ \A i \in DOMAIN seq : seq[i] \in Event
BY LenProperties, ElementOfSeq

LEMMA Pushed ==
    ASSUME NEW seq \in Seq(Event), NEW e \in Event
    PROVE  /\ Append(seq, e) \in Seq(Event) /\ Append(seq, e) # <<>>
           /\ Last(Append(seq, e)) = e
           /\ \A i \in DOMAIN Append(seq, e) :
                  \/ i \in DOMAIN seq /\ Append(seq, e)[i] = seq[i]
                  \/ i = Len(seq) + 1 /\ Append(seq, e)[i] = e
           /\ ToSet(Append(seq, e)) = ToSet(seq) \cup {e}
<1>1. Len(seq) \in Nat /\ DOMAIN seq = 1..Len(seq)
  BY Indices
<1>2. /\ Append(seq, e) \in Seq(Event) /\ Append(seq, e) # <<>>
      /\ Len(Append(seq, e)) = Len(seq) + 1
      /\ \A i \in 1..Len(seq) : Append(seq, e)[i] = seq[i]
      /\ Append(seq, e)[Len(seq) + 1] = e
  BY AppendProperties
<1>3. DOMAIN Append(seq, e) = 1..Len(seq) + 1
  BY <1>2, LenProperties
<1>4. Last(Append(seq, e)) = e
  BY <1>2 DEF Last
<1>5. ToSet(Append(seq, e)) = ToSet(seq) \cup {e}
  BY <1>1, <1>2, <1>3 DEF ToSet
<1> QED
  BY <1>1, <1>2, <1>3, <1>4, <1>5

LEMMA NumberedPushed ==
    ASSUME NEW seq \in Seq(Event), NEW e \in Event, Numbered(seq), Above(e, seq)
    PROVE  Numbered(Append(seq, e))
<1> SUFFICES ASSUME NEW i \in DOMAIN Append(seq, e), NEW j \in DOMAIN Append(seq, e), i < j,
                    Append(seq, e)[i].by = Append(seq, e)[j].by
             PROVE  Append(seq, e)[i].id < Append(seq, e)[j].id
  BY DEF Numbered
<1>1. Len(seq) \in Nat /\ DOMAIN seq = 1..Len(seq)
  BY Indices
<1>2. /\ \/ i \in DOMAIN seq /\ Append(seq, e)[i] = seq[i]
         \/ i = Len(seq) + 1
      /\ \/ j \in DOMAIN seq /\ Append(seq, e)[j] = seq[j]
         \/ j = Len(seq) + 1 /\ Append(seq, e)[j] = e
  BY Pushed
<1>3. i \in DOMAIN seq /\ Append(seq, e)[i] = seq[i]
  BY <1>1, <1>2
<1> QED
  BY <1>2, <1>3 DEF Numbered, Above

\* Eviction keeps the order of what it keeps.
LEMMA EvictedKeeps ==
    ASSUME BusInv
    PROVE  /\ Evicted \in Seq(Event) /\ Numbered(Evicted)
           /\ \A i \in DOMAIN Evicted : \E j \in DOMAIN history : Evicted[i] = history[j]
           /\ ToSet(Evicted) \subseteq ToSet(history)
<1>1. history \in Seq(Event) /\ Numbered(history)
  BY DEF BusInv, Shape, Ordered
<1>2. Len(history) \in Nat /\ DOMAIN history = 1..Len(history)
  BY <1>1, Indices
<1>3. CASE Len(history) >= HistoryLimit
  <2>1. history # <<>> /\ Evicted = Tail(history)
    BY <1>1, <1>2, <1>3, BusAssumption, EmptySeq DEF Evicted
  <2>2. /\ Tail(history) \in Seq(Event) /\ Len(Tail(history)) = Len(history) - 1
        /\ \A i \in 1..Len(Tail(history)) : Tail(history)[i] = history[i + 1]
    BY <1>1, <2>1, HeadTailProperties
  <2>3. DOMAIN Tail(history) = 1..Len(history) - 1
    BY <2>2, LenProperties
  <2>4. \A i \in DOMAIN Tail(history) : i + 1 \in DOMAIN history /\ Tail(history)[i] = history[i + 1]
    BY <1>2, <2>2, <2>3
  <2>5. Numbered(Tail(history))
    <3> SUFFICES ASSUME NEW i \in DOMAIN Tail(history), NEW j \in DOMAIN Tail(history), i < j,
                        Tail(history)[i].by = Tail(history)[j].by
                 PROVE  Tail(history)[i].id < Tail(history)[j].id
      BY DEF Numbered
    <3>1. i + 1 < j + 1
      BY <1>2, <2>3
    <3> QED
      BY <1>1, <2>4, <3>1 DEF Numbered
  <2> QED
    BY <2>1, <2>2, <2>4, <2>5 DEF ToSet
<1>4. CASE ~(Len(history) >= HistoryLimit)
  BY <1>1, <1>4 DEF Evicted
<1> QED
  BY <1>3, <1>4

LEMMA Kept ==
    ASSUME BusInv, NEW e \in ToSet(history)
    PROVE  e \in Event /\ e.id < nextId
<1>1. PICK i \in DOMAIN history : history[i] = e
  BY DEF ToSet
<1> QED
  BY <1>1, Indices DEF BusInv, Shape, Ordered, Drawn

-----------------------------------------------------------------------------
(* The invariant *)

LEMMA InitBusInv == Init => BusInv
<1> SUFFICES ASSUME Init PROVE BusInv
  OBVIOUS
<1>1. /\ <<>> \in Seq(Event) /\ DOMAIN <<>> = {} /\ ToSet(<<>>) = {}
  BY LenProperties DEF ToSet
<1>2. Shape
  BY <1>1 DEF Init, Shape
<1>3. Calls
  BY DEF Init, Calls
<1>4. Ordered
  BY <1>1 DEF Init, Ordered, Numbered, Drawn, Above, Owes
<1>5. Pending
  BY <1>1 DEF Init, Pending
<1>6. CallerLast
  BY DEF Init, CallerLast
<1> QED
  BY <1>2, <1>3, <1>4, <1>5, <1>6 DEF BusInv

LEMMA DrawKeeps ==
    ASSUME BusInv, NEW t \in Threads, NEW c \in Categories, NEW a \in {"publish", "append"},
           Draw(t, c, a)
    PROVE  BusInv'
<1> DEFINE e == [id |-> nextId, cat |-> c, by |-> t]
<1>1. e \in Event /\ e.id = nextId /\ e.by = t
  BY DEF BusInv, Shape, Draw, Event
<1>2. /\ pc[t] = "idle" /\ pc' = [pc EXCEPT ![t] = "record"]
      /\ ev' = [ev EXCEPT ![t] = e] /\ api' = [api EXCEPT ![t] = a]
      /\ nextId' = nextId + 1
      /\ UNCHANGED <<history, status, filter, since, inbox, todo>>
  BY DEF Draw, Go
<1> HIDE DEF e
<1>3. Shape'
  BY <1>1, <1>2 DEF BusInv, Shape
<1>4. Calls'
  BY <1>1, <1>2 DEF BusInv, Shape, Calls, Event
<1>5. Ordered'
  <2>1. \A seq \in Seq(Event) : Drawn(seq) => Drawn(seq)' /\ Above(e, seq)
    <3> SUFFICES ASSUME NEW seq \in Seq(Event), Drawn(seq)
                 PROVE  (\A i \in DOMAIN seq : seq[i].id < nextId') /\ Above(e, seq)
      BY DEF Drawn
    <3>1. \A i \in DOMAIN seq : seq[i].id \in Nat
      <4>1. \A i \in DOMAIN seq : seq[i] \in Event
        BY Indices
      <4>2. \A x \in Event : x.id \in Nat
        BY DEF Event
      <4> QED
        BY <4>1, <4>2
    <3> QED
      BY <1>1, <1>2, <3>1 DEF Drawn, Above, BusInv, Shape
  <2>2. Drawn(history)' /\ Numbered(history)' /\ Above(e, history)
    BY <1>2, <2>1 DEF BusInv, Shape, Ordered, Drawn
  <2>3. ASSUME NEW s \in Subscribers
        PROVE  Drawn(inbox[s])' /\ Numbered(inbox[s])' /\ Above(e, inbox[s])
    <3>1. inbox[s] \in Seq(Event) /\ inbox'[s] = inbox[s]
      BY <1>2 DEF BusInv, Shape
    <3> QED
      BY <1>2, <2>1, <3>1 DEF BusInv, Ordered, Drawn
  <2>4. \A u \in Threads : pc'[u] = "record" => Above(ev'[u], history')
    BY <1>2, <2>2 DEF BusInv, Shape, Ordered
  <2>5. \A u \in Threads, s \in Subscribers : Owes(u, s)' => Above(ev'[u], inbox'[s])
    <3> TAKE u \in Threads, s \in Subscribers
    <3>1. inbox' = inbox /\ Above(e, inbox[s])
      BY <1>2, <2>3
    <3>2. CASE u = t
      BY <1>2, <3>1, <3>2 DEF BusInv, Shape
    <3>3. CASE u # t
      <4>1. ev'[u] = ev[u] /\ pc'[u] = pc[u]
        BY <1>2, <3>3 DEF BusInv, Shape
      <4>2. Owes(u, s)' => Owes(u, s)
        BY <1>2, <4>1 DEF Owes
      <4> QED
        BY <3>1, <4>1, <4>2 DEF BusInv, Ordered
    <3> QED
      BY <3>2, <3>3
  <2> QED
    BY <2>2, <2>3, <2>4, <2>5 DEF Ordered, Above
<1>6. Pending'
  <2>1. /\ todo[t] = {} /\ pc[t] = "idle"
        /\ \A u \in Threads \ {t} : ev'[u] = ev[u] /\ pc'[u] = pc[u]
    <3>1. pc[t] = "idle" /\ todo[t] = {}
      BY <1>2 DEF BusInv, Calls
    <3>2. \A u \in Threads \ {t} : ev'[u] = ev[u] /\ pc'[u] = pc[u]
      BY <1>2 DEF BusInv, Shape
    <3> QED
      BY <3>1, <3>2
  <2>2. Pending
    BY DEF BusInv
  <2> QED
    BY <1>2, <2>1, <2>2 DEF Pending, Wants
<1>7. CallerLast'
  BY <1>2 DEF BusInv, Shape, CallerLast
<1> QED
  BY <1>3, <1>4, <1>5, <1>6, <1>7 DEF BusInv

LEMMA RecordKeeps ==
    ASSUME BusInv, NEW t \in Threads, Record(t)
    PROVE  BusInv'
<1>1. /\ pc[t] = "record" /\ pc' = [pc EXCEPT ![t] = "lock"]
      /\ history' = Append(Evicted, ev[t])
      /\ UNCHANGED <<nextId, status, filter, since, inbox, ev, todo, api>>
  BY DEF Record, Go
<1>2. ev[t] \in Event /\ ev[t].by = t /\ ev[t].id < nextId /\ todo[t] = {}
  BY <1>1 DEF BusInv, Calls
<1>3. /\ Evicted \in Seq(Event) /\ Numbered(Evicted)
      /\ \A i \in DOMAIN Evicted : \E j \in DOMAIN history : Evicted[i] = history[j]
      /\ ToSet(Evicted) \subseteq ToSet(history)
  BY EvictedKeeps
<1>4. /\ history' \in Seq(Event) /\ history' # <<>> /\ Last(history') = ev[t]
      /\ \A i \in DOMAIN history' :
             \/ i \in DOMAIN Evicted /\ history'[i] = Evicted[i]
             \/ history'[i] = ev[t]
      /\ ToSet(history') = ToSet(Evicted) \cup {ev[t]}
  BY <1>1, <1>2, <1>3, Pushed
<1>5. Shape'
  BY <1>1, <1>4 DEF BusInv, Shape
<1>6. Calls'
  BY <1>1, <1>2 DEF BusInv, Shape, Calls
<1>7. Ordered'
  <2>1. Above(ev[t], Evicted)
    BY <1>1, <1>3 DEF BusInv, Ordered, Above
  <2>2. Numbered(history') /\ (\A i \in DOMAIN history' : history'[i].id < nextId)
    BY <1>1, <1>2, <1>3, <1>4, <2>1, NumberedPushed DEF BusInv, Ordered, Drawn
  <2>3. ASSUME NEW u \in Threads, pc'[u] = "record"
        PROVE  Above(ev[u], history')
    <3>1. u # t /\ pc[u] = "record"
      BY <1>1, <2>3 DEF BusInv, Shape
    <3>2. Above(ev[u], history) /\ ev[u].by = u
      BY <3>1 DEF BusInv, Ordered, Calls
    <3> QED
      BY <1>2, <1>3, <1>4, <3>1, <3>2 DEF Above
  <2>4. \A u \in Threads, s \in Subscribers : Owes(u, s)' => Owes(u, s)
    BY <1>1 DEF BusInv, Shape, Owes
  <2> QED
    BY <1>1, <2>2, <2>3, <2>4 DEF BusInv, Ordered, Numbered, Drawn, Above
<1>8. Pending'
  <2> SUFFICES ASSUME NEW s \in Subscribers, NEW e \in ToSet(history'), status[s] = "on",
                      since[s] <= e.id, Wants(s, e), e \notin ToSet(inbox[s])
               PROVE  \E u \in Threads : ev[u] = e /\ (pc'[u] = "lock" \/ s \in todo[u])
    BY <1>1 DEF Pending, Wants
  <2>1. CASE e = ev[t]
    BY <1>1, <2>1 DEF BusInv, Shape
  <2>2. CASE e \in ToSet(history)
    <3>1. PICK u \in Threads : ev[u] = e /\ (pc[u] = "lock" \/ s \in todo[u])
      BY <2>2 DEF BusInv, Pending
    <3>2. u # t
      BY <1>1, <1>2, <3>1
    <3> QED
      BY <1>1, <3>1, <3>2 DEF BusInv, Shape
  <2> QED
    BY <1>3, <1>4, <2>1, <2>2
<1>9. CallerLast'
  BY <1>1, <1>2, <1>4 DEF BusInv, Shape, CallerLast
<1> QED
  BY <1>5, <1>6, <1>7, <1>8, <1>9 DEF BusInv

LEMMA DeliverKeeps ==
    ASSUME BusInv, NEW t \in Threads, NEW s \in Subscribers, Deliver(t, s)
    PROVE  BusInv'
<1>1. /\ pc[t] = "deliver" /\ s \in todo[t]
      /\ todo' = [todo EXCEPT ![t] = @ \ {s}]
      /\ inbox' = [inbox EXCEPT ![s] = Append(@, ev[t])]
      /\ UNCHANGED <<nextId, history, status, filter, since, pc, ev, api>>
  BY DEF Deliver
<1>2. ev[t] \in Event /\ ev[t].by = t /\ ev[t].id < nextId
  BY <1>1 DEF BusInv, Calls
<1>3. /\ inbox[s] \in Seq(Event) /\ inbox'[s] = Append(inbox[s], ev[t])
      /\ \A r \in Subscribers \ {s} : inbox'[r] = inbox[r]
      /\ todo'[t] = todo[t] \ {s} /\ \A u \in Threads \ {t} : todo'[u] = todo[u]
  BY <1>1 DEF BusInv, Shape
<1>4. /\ inbox'[s] \in Seq(Event)
      /\ \A i \in DOMAIN inbox'[s] :
             \/ i \in DOMAIN inbox[s] /\ inbox'[s][i] = inbox[s][i]
             \/ inbox'[s][i] = ev[t]
      /\ ToSet(inbox'[s]) = ToSet(inbox[s]) \cup {ev[t]}
  BY <1>2, <1>3, Pushed
<1>5. Shape'
  BY <1>1, <1>4 DEF BusInv, Shape
<1>6. Calls'
  BY <1>1, <1>3 DEF BusInv, Shape, Calls
<1>7. Ordered'
  <2>1. Above(ev[t], inbox[s]) /\ Numbered(inbox[s]) /\ Drawn(inbox[s])
    BY <1>1 DEF BusInv, Ordered, Owes
  <2>2. Numbered(inbox'[s]) /\ (\A i \in DOMAIN inbox'[s] : inbox'[s][i].id < nextId)
    BY <1>2, <1>3, <1>4, <2>1, NumberedPushed DEF Drawn
  <2>3. \A r \in Subscribers : Numbered(inbox'[r]) /\ (\A i \in DOMAIN inbox'[r] : inbox'[r][i].id < nextId)
    BY <1>3, <2>2 DEF BusInv, Ordered, Drawn
  <2>4. ASSUME NEW u \in Threads, NEW r \in Subscribers, Owes(u, r)'
        PROVE  Above(ev[u], inbox'[r])
    <3>1. Owes(u, r) /\ Above(ev[u], inbox[r])
      BY <1>1, <1>3, <2>4 DEF BusInv, Ordered, Owes
    <3>2. CASE r # s
      BY <1>3, <3>1, <3>2
    <3>3. CASE r = s
      <4>1. u # t
        BY <1>1, <1>3, <2>4, <3>3 DEF Owes
      <4>2. pc[u] # "idle"
        BY <3>1 DEF BusInv, Calls, Owes
      <4>3. ev[u].by = u
        BY <4>2 DEF BusInv, Calls
      <4> QED
        BY <1>2, <1>4, <3>1, <3>3, <4>1, <4>3 DEF Above
    <3> QED
      BY <3>2, <3>3
  <2> QED
    BY <1>1, <2>3, <2>4 DEF BusInv, Ordered, Numbered, Drawn, Above
<1>8. Pending'
  <2> SUFFICES ASSUME NEW r \in Subscribers, NEW e \in ToSet(history), status[r] = "on",
                      since[r] <= e.id, Wants(r, e), e \notin ToSet(inbox'[r])
               PROVE  \E u \in Threads : ev[u] = e /\ (pc[u] = "lock" \/ r \in todo'[u])
    BY <1>1 DEF Pending, Wants
  <2>1. e \notin ToSet(inbox[r])
    BY <1>3, <1>4
  <2>2. PICK u \in Threads : ev[u] = e /\ (pc[u] = "lock" \/ r \in todo[u])
    BY <2>1 DEF BusInv, Pending
  <2>3. CASE u = t /\ r = s
    BY <1>4, <2>2, <2>3
  <2>4. CASE u # t \/ r # s
    BY <1>3, <2>2, <2>4
  <2> QED
    BY <2>3, <2>4
<1>9. CallerLast'
  BY <1>1 DEF BusInv, CallerLast
<1> QED
  BY <1>5, <1>6, <1>7, <1>8, <1>9 DEF BusInv

\* The remaining steps send and record nothing.
LEMMA QuietKeeps ==
    ASSUME BusInv, UNCHANGED <<nextId, history, inbox>>, Shape', Calls', Pending',
           \A t \in Threads : pc'[t] = "record" => pc[t] = "record" /\ ev'[t] = ev[t],
           \A t \in Threads, s \in Subscribers : Owes(t, s)' => Owes(t, s) /\ ev'[t] = ev[t],
           \A t \in Threads : pc'[t] \in {"lock", "deliver", "last"} =>
               pc[t] \in {"lock", "deliver", "last"} /\ ev'[t] = ev[t]
    PROVE  BusInv'
<1>1. Ordered'
  BY DEF BusInv, Ordered, Numbered, Drawn, Above
<1>2. CallerLast'
  BY DEF BusInv, CallerLast
<1> QED
  BY <1>1, <1>2 DEF BusInv

LEMMA BeginDeliveryKeeps ==
    ASSUME BusInv, NEW t \in Threads, BeginDelivery(t)
    PROVE  BusInv'
<1>1. /\ pc[t] = "lock" /\ pc' = [pc EXCEPT ![t] = "deliver"]
      /\ todo' = [todo EXCEPT ![t] = {s \in Subscribers : status[s] = "on" /\ Wants(s, ev[t])}]
      /\ UNCHANGED <<nextId, history, status, filter, since, inbox, ev, api>>
  BY DEF BeginDelivery, Go
<1>2. Shape'
  BY <1>1 DEF BusInv, Shape
<1>3. Calls'
  BY <1>1 DEF BusInv, Shape, Calls
<1>4. Pending'
  BY <1>1 DEF BusInv, Shape, Pending, Wants
<1> QED
  BY <1>1, <1>2, <1>3, <1>4, QuietKeeps DEF BusInv, Shape, Owes

LEMMA EndDeliveryKeeps ==
    ASSUME BusInv, NEW t \in Threads, EndDelivery(t) \/ ReturnLast(t)
    PROVE  BusInv'
<1>1. /\ pc[t] \in {"deliver", "last"} /\ todo[t] = {}
      /\ \/ pc' = [pc EXCEPT ![t] = "last"] /\ UNCHANGED <<ev, api>>
         \/ pc' = [pc EXCEPT ![t] = "idle"] /\ Forget(t)
      /\ UNCHANGED <<nextId, history, status, filter, since, inbox, todo>>
  BY DEF EndDelivery, ReturnLast, Go, BusInv, Calls
<1>2. Shape'
  BY <1>1 DEF BusInv, Shape, Forget
<1>3. Calls'
  <2>1. CASE pc' = [pc EXCEPT ![t] = "last"] /\ UNCHANGED <<ev, api>>
    BY <1>1, <2>1 DEF BusInv, Shape, Calls
  <2>2. CASE pc' = [pc EXCEPT ![t] = "idle"] /\ Forget(t)
    <3>1. \A u \in Threads \ {t} : ev'[u] = ev[u] /\ pc'[u] = pc[u]
      BY <2>2 DEF BusInv, Shape, Forget
    <3>2. pc'[t] = "idle" /\ todo' = todo /\ status' = status /\ nextId' = nextId
      BY <1>1, <2>2 DEF BusInv, Shape
    <3> QED
      BY <1>1, <3>1, <3>2 DEF BusInv, Calls
  <2> QED
    BY <1>1, <2>1, <2>2
<1>4. Pending'
  BY <1>1 DEF BusInv, Shape, Pending, Wants, Forget
<1> QED
  BY <1>1, <1>2, <1>3, <1>4, QuietKeeps DEF BusInv, Shape, Owes, Forget

LEMMA SubscriptionsKeep ==
    ASSUME BusInv, NEW s \in Subscribers,
           (\E f \in Filters : Subscribe(s, f)) \/ Unsubscribe(s)
    PROVE  BusInv'
<1>1. \A t \in Threads : todo[t] = {}
  BY DEF Subscribe, Unsubscribe, NoReader, BusInv, Calls
<1>2. UNCHANGED <<nextId, history, inbox, pc, ev, todo, api>>
  BY DEF Subscribe, Unsubscribe
<1>3. Shape'
  <2>1. /\ status' \in [Subscribers -> {"new", "on", "off"}]
        /\ filter' \in [Subscribers -> SUBSET Categories]
        /\ since' \in [Subscribers -> Nat]
    <3>1. ASSUME NEW f \in Filters, Subscribe(s, f)
          PROVE  /\ status' \in [Subscribers -> {"new", "on", "off"}]
                 /\ filter' \in [Subscribers -> SUBSET Categories]
                 /\ since' \in [Subscribers -> Nat]
      <4>1. f \in SUBSET Categories
        BY BusAssumption
      <4> QED
        BY <3>1, <4>1 DEF Subscribe, BusInv, Shape
    <3>2. CASE Unsubscribe(s)
      BY <3>2 DEF Unsubscribe, BusInv, Shape
    <3> QED
      BY <3>1, <3>2
  <2> QED
    BY <1>2, <2>1 DEF BusInv, Shape
<1>4. Calls'
  BY <1>1, <1>2 DEF BusInv, Calls
<1>5. Pending'
  <2> SUFFICES ASSUME NEW r \in Subscribers, NEW e \in ToSet(history), status'[r] = "on",
                      since'[r] <= e.id, Wants(r, e)'
               PROVE  \/ e \in ToSet(inbox[r])
                      \/ \E t \in Threads : ev[t] = e /\ (pc[t] = "lock" \/ r \in todo[t])
    BY <1>2 DEF Pending
  <2>1. e.id \in Nat /\ e.id < nextId
    BY Kept DEF Event
  <2>2. status[r] = "on" /\ since'[r] = since[r] /\ filter'[r] = filter[r]
    BY <2>1 DEF Subscribe, Unsubscribe, BusInv, Shape
  <2> QED
    BY <2>2 DEF BusInv, Pending, Wants
<1> QED
  BY <1>2, <1>3, <1>4, <1>5, QuietKeeps DEF Owes

LEMMA NextKeeps == BusInv /\ [Next]_vars => BusInv'
<1> SUFFICES ASSUME BusInv, [Next]_vars PROVE BusInv'
  OBVIOUS
<1>1. ASSUME NEW t \in Threads, Step(t) PROVE BusInv'
  BY <1>1, RecordKeeps, BeginDeliveryKeeps, DeliverKeeps, EndDeliveryKeeps DEF Step
<1>2. ASSUME NEW s \in Subscribers, (\E f \in Filters : Subscribe(s, f)) \/ Unsubscribe(s)
      PROVE  BusInv'
  BY <1>2, SubscriptionsKeep
<1>3. CASE UNCHANGED vars
  BY <1>3 DEF vars, BusInv, Shape, Calls, Ordered, Numbered, Drawn, Above, Owes, Pending, Wants, CallerLast
<1> QED
  BY <1>1, <1>2, <1>3, DrawKeeps DEF Next

-----------------------------------------------------------------------------
(* What follows *)

LEMMA BusInvDelivers == BusInv => PerThreadOrder /\ NoMissedEvent /\ AppendReturnsRecent
<1> SUFFICES ASSUME BusInv PROVE PerThreadOrder /\ NoMissedEvent /\ AppendReturnsRecent
  OBVIOUS
<1>1. PerThreadOrder
  BY DEF BusInv, Ordered, PerThreadOrder
<1>2. NoMissedEvent
  BY DEF BusInv, Pending, Calls, NoMissedEvent, InFlight
<1>3. AppendReturnsRecent
  BY DEF BusInv, CallerLast, AppendReturnsRecent, Returned
<1> QED
  BY <1>1, <1>2, <1>3

LEMMA QuietStep ==
    BusInv /\ [Next]_vars =>
        [\A s \in Subscribers : status[s] = "off" => inbox'[s] = inbox[s]]_vars
<1> SUFFICES ASSUME BusInv, [Next]_vars, NEW s \in Subscribers, status[s] = "off"
             PROVE  inbox'[s] = inbox[s]
  OBVIOUS
<1>1. ASSUME NEW t \in Threads, NEW r \in Subscribers, Deliver(t, r)
      PROVE  inbox'[s] = inbox[s]
  <2>1. r # s
    BY <1>1 DEF Deliver, BusInv, Calls
  <2> QED
    BY <1>1, <2>1 DEF Deliver, BusInv, Shape
<1> QED
  BY <1>1 DEF Next, Step, Draw, Record, BeginDelivery, EndDelivery, ReturnLast, Subscribe,
              Unsubscribe, vars

\* The bus delivers in order, completely and nothing after the end of a
\* subscription, and append answers with what is current (publish, append).
THEOREM BusKeeps == Spec => BusDelivers
<1>1. BusInv /\ [Next]_vars =>
          [\A s \in Subscribers : status[s] = "off" => inbox'[s] = inbox[s]]_vars
  BY QuietStep
<1> QED
  BY <1>1, InitBusInv, NextKeeps, BusInvDelivers, PTL DEF Spec, BusDelivers, QuietAfterUnsubscribe

-----------------------------------------------------------------------------
(* Emergency, for any threads, counters, widths and bounds. What a counter *)
(* holds, modulo the width of a figure, survives every addition modulo the *)
(* width of the counter, since the one divides the other; the lockout is   *)
(* about where a thread stands: past its lock it is in force, whoever      *)
(* stored it last, because no day passes while a trigger runs.             *)

LEMMA Products ==
    ASSUME NEW d \in Int, NEW n \in Nat, d >= 1 
    PROVE  d * n >= n
OBVIOUS
LEMMA DivMod ==
    ASSUME NEW a \in Int, NEW n \in Nat \ {0}
    PROVE  /\ a % n \in 0..n-1 
           /\ a \div n \in Int
           /\ a % n = a - n * (a \div n)
<1>1. a % n \in 0..n-1  /\ a \div n \in Int
  OBVIOUS
<1>2. a % n = a - n * (a \div n)
  OBVIOUS
<1> QED
  BY <1>1, <1>2
LEMMA RemainderUnique ==
    ASSUME NEW n \in Nat \ {0}, NEW q \in Int, NEW r \in 0..n-1, NEW p \in Int, NEW s \in 0..n-1,
           n * q + r = n * p + s
    PROVE  r = s
<1>1. n * (q - p) = s - r
  OBVIOUS
<1>2. CASE q - p >= 1
  <2>1. n * (q - p) >= n
    BY <1>2, Products
  <2> QED
    BY <1>1, <2>1
<1>3. CASE p - q >= 1
  <2>1. n * (p - q) >= n
    BY <1>3, Products
  <2>2. n * (p - q) = r - s
    BY <1>1
  <2> QED
    BY <2>2, <2>1
<1> QED
  BY <1>1, <1>2, <1>3
LEMMA Shifted ==
    ASSUME NEW a \in Int, NEW z \in Int, NEW n \in Nat \ {0}
    PROVE  (a + n * z) % n = a % n
<1> DEFINE b == a + n * z
           q == a \div n
           p == b \div n
           r == a % n
           s == b % n
<1>0. n * z \in Int /\ b \in Int
  OBVIOUS
<1>1. q \in Int /\ r \in 0..n-1 /\ r = a - n * q
  BY DivMod
<1>2. p \in Int /\ s \in 0..n-1 /\ s = b - n * p
  BY <1>0, DivMod
<1> HIDE DEF q, p, r, s
<1>3. q + z \in Int /\ n * (q + z) = n * q + n * z
  BY <1>1
<1>4. n * (q + z) + r = b /\ n * p + s = b
  BY <1>1, <1>2, <1>3
<1>5. n * (q + z) + r = n * p + s
  BY <1>4
<1>6. r = s
  BY <1>1, <1>2, <1>3, <1>5, RemainderUnique
<1> QED
  BY <1>6 DEF r, s

\* Two numbers that differ by a multiple of n.
Congruent(a, b, n) == \E z \in Int : a = b + n * z

LEMMA SameRemainder ==
    ASSUME NEW n \in Nat \ {0}, NEW a \in Int, NEW b \in Int
    PROVE  a % n = b % n <=> Congruent(a, b, n)
<1>1. ASSUME a % n = b % n
      PROVE  Congruent(a, b, n)
  <2> DEFINE q == a \div n
             p == b \div n
  <2>1. q \in Int /\ p \in Int /\ a % n = a - n * q /\ b % n = b - n * p
    BY DivMod
  <2> HIDE DEF q, p
  <2>2. n * (q - p) = n * q - n * p /\ n * q \in Int /\ n * p \in Int /\ q - p \in Int
    BY <2>1
  <2>3. a = b + n * (q - p)
    BY <1>1, <2>1, <2>2
  <2> QED
    BY <2>2, <2>3, Zenon DEF Congruent
<1>2. ASSUME Congruent(a, b, n)
      PROVE  a % n = b % n
  <2>1. PICK z \in Int : a = b + n * z
    BY <1>2, Zenon DEF Congruent
  <2> QED
    BY <2>1, Shifted
<1> QED
  BY <1>1, <1>2

LEMMA CongruentSums ==
    ASSUME NEW n \in Nat \ {0}, NEW a \in Int, NEW b \in Int, NEW c \in Int, NEW d \in Int,
           Congruent(a, b, n), Congruent(c, d, n)
    PROVE  Congruent(a + c, b + d, n)
<1>1. PICK y \in Int : a = b + n * y
  BY Zenon DEF Congruent
<1>2. PICK z \in Int : c = d + n * z
  BY Zenon DEF Congruent
<1>3. n * (y + z) = n * y + n * z /\ n * y \in Int /\ n * z \in Int /\ y + z \in Int
  OBVIOUS
<1>4. a + c = b + d + n * (y + z)
  BY <1>1, <1>2, <1>3
<1> QED
  BY <1>3, <1>4, Zenon DEF Congruent

LEMMA CongruentChains ==
    ASSUME NEW n \in Nat \ {0}, NEW a \in Int, NEW b \in Int, NEW c \in Int,
           Congruent(a, b, n), Congruent(b, c, n)
    PROVE  Congruent(a, c, n)
BY SameRemainder

\* A remainder, of the modulus or of a multiple of it, is congruent.
LEMMA CongruentRemainder ==
    ASSUME NEW n \in Nat \ {0}, NEW w \in Nat \ {0}, w % n = 0, NEW a \in Int
    PROVE  Congruent(a % w, a, n) /\ a % w \in 0..w-1
<1> DEFINE p == w \div n
           q == a \div w
<1>1. p \in Int /\ q \in Int /\ w % n = w - n * p /\ a % w = a - w * q /\ a % w \in 0..w-1
  BY DivMod
<1> HIDE DEF p, q
<1>2. w = n * p
  BY <1>1
<1>3. w * q = n * (p * q) /\ p * q \in Int
  BY <1>1, <1>2
<1>4. n * (-(p * q)) = -(n * (p * q)) /\ -(p * q) \in Int
  BY <1>3
<1>5. a % w = a + n * (-(p * q))
  BY <1>1, <1>3, <1>4
<1> QED
  BY <1>1, <1>4, <1>5, Zenon DEF Congruent

\* One holder: what the counter has and reports have told is who holds.
Accounted(c, t, h) == (c + t) % Half = h % Half

LEMMA StepsAccounted ==
    ASSUME EmergencyAssumption, NEW c \in Nat, NEW t \in Nat, NEW h \in Nat, Accounted(c, t, h)
    PROVE  /\ Accounted((c + 1) % Word, t, h + 1) /\ (c + 1) % Word \in Nat
           /\ Accounted((c + (Word - 1)) % Word, t, h - 1)
           /\ (c + (Word - 1)) % Word \in Nat
           /\ Accounted(0, (t + c) % Half, h) /\ (t + c) % Half \in Nat
<1>1. Word \in Nat \ {0} /\ Half \in Nat \ {0} /\ Word % Half = 0 /\ Half % Half = 0
  BY DEF EmergencyAssumption
<1>2. /\ c + t \in Int /\ h \in Int /\ c + 1 \in Int /\ c + (Word - 1) \in Int /\ t + c \in Int
      /\ h + 1 \in Int /\ h - 1 \in Int /\ -1 \in Int /\ 1 \in Int /\ 0 \in Int /\ t \in Int
      /\ (c + 1) + t \in Int /\ (c + (Word - 1)) + t \in Int /\ Word - 1 \in Int /\ Word \in Int
  BY <1>1
<1>3. Congruent(c + t, h, Half)
  BY <1>1, <1>2, SameRemainder, Zenon DEF Accounted
<1>4. \A x \in Int : Congruent(x, x, Half)
  BY <1>1, SameRemainder
<1>5. Accounted((c + 1) % Word, t, h + 1) /\ (c + 1) % Word \in Nat
  <2> DEFINE d == (c + 1) % Word
  <2>1. Congruent(d, c + 1, Half) /\ d \in 0..Word-1
    BY <1>1, <1>2, CongruentRemainder, Zenon
  <2> HIDE DEF d
  <2>2. d \in Int /\ d \in Nat /\ d + t \in Int
    BY <1>1, <2>1
  <2>3. Congruent(d + t, (c + 1) + t, Half)
    BY <1>1, <1>2, <1>4, <2>1, <2>2, CongruentSums, Zenon
  <2>4. Congruent((c + t) + 1, h + 1, Half)
    BY <1>1, <1>2, <1>3, <1>4, CongruentSums, Zenon
  <2>5. (c + t) + 1 = (c + 1) + t
    OBVIOUS
  <2>6. Congruent(d + t, h + 1, Half)
    BY <1>1, <1>2, <2>2, <2>3, <2>4, <2>5, CongruentChains, Zenon
  <2>7. (d + t) % Half = (h + 1) % Half
    BY <1>1, <1>2, <2>2, <2>6, SameRemainder, Zenon
  <2> QED
    BY <2>2, <2>7, Zenon DEF Accounted, d
<1>6. /\ Accounted((c + (Word - 1)) % Word, t, h - 1)
      /\ (c + (Word - 1)) % Word \in Nat
  <2> DEFINE d == (c + (Word - 1)) % Word
  <2>1. Congruent(d, c + (Word - 1), Half) /\ d \in 0..Word-1
    BY <1>1, <1>2, CongruentRemainder, Zenon
  <2> HIDE DEF d
  <2>2. d \in Int /\ d \in Nat /\ d + t \in Int
    BY <1>1, <2>1
  <2>3. Congruent(d + t, (c + (Word - 1)) + t, Half)
    BY <1>1, <1>2, <1>4, <2>1, <2>2, CongruentSums, Zenon
  <2>4. Congruent(Word, 0, Half)
    <3>1. 0 % Half = 0
      BY <1>1
    <3> QED
      BY <1>1, <1>2, <3>1, SameRemainder, Zenon
  <2>5. Congruent(Word + (-1), 0 + (-1), Half) /\ Word + (-1) \in Int /\ 0 + (-1) \in Int
    <3>1. Congruent(-1, -1, Half) /\ Word + (-1) \in Int /\ 0 + (-1) \in Int
      BY <1>1, <1>4
    <3> QED
      BY <1>1, <1>2, <2>4, <3>1, CongruentSums, Zenon
  <2>6. Congruent((c + t) + (Word + (-1)), h + (0 + (-1)), Half)
    BY <1>1, <1>2, <1>3, <2>5, CongruentSums, Zenon
  <2>7. (c + t) + (Word + (-1)) = (c + (Word - 1)) + t /\ h + (0 + (-1)) = h - 1
    BY <1>1
  <2>8. Congruent(d + t, h - 1, Half)
    BY <1>1, <1>2, <2>2, <2>3, <2>6, <2>7, CongruentChains, Zenon
  <2>9. (d + t) % Half = (h - 1) % Half
    BY <1>1, <1>2, <2>2, <2>8, SameRemainder, Zenon
  <2> QED
    BY <2>2, <2>9, Zenon DEF Accounted, d
<1>7. Accounted(0, (t + c) % Half, h) /\ (t + c) % Half \in Nat
  <2> DEFINE d == (t + c) % Half
  <2>1. Congruent(d, t + c, Half) /\ d \in 0..Half-1
    BY <1>1, <1>2, CongruentRemainder, Zenon
  <2> HIDE DEF d
  <2>2. d \in Int /\ d \in Nat /\ 0 + d = d /\ t + c = c + t
    BY <1>1, <2>1
  <2>3. Congruent(d, h, Half)
    BY <1>1, <1>2, <1>3, <2>1, <2>2, CongruentChains, Zenon
  <2>4. d % Half = h % Half
    BY <1>1, <1>2, <2>2, <2>3, SameRemainder, Zenon
  <2> QED
    BY <2>2, <2>4 DEF Accounted, d
<1> QED
  BY <1>5, <1>6, <1>7

AccountInv ==
    /\ counter \in [Kinds -> Nat] /\ told \in [Kinds -> Nat] /\ held \in [Kinds -> Nat]
    /\ \A k \in Kinds : Accounted(counter[k], told[k], held[k])

\* A thread that has begun is of this day; one past its lock has locked, whoever
\* stored the lockout since.
LockInv ==
    /\ time \in Nat /\ lockout \in Nat
    /\ place = [t \in Callers |-> place[t]]
    /\ job \in [Callers -> [level : Levels, now : Nat]]
    /\ reports \subseteq [level : Levels, now : Nat]
    /\ \A t \in Callers :
        /\ place[t][1] # "idle" => job[t].now = time
        /\ place[t][1] \in {"lock", "header", "seals"} => job[t].level # "panic"
        /\ place[t][1] \in {"header", "seals"} => lockout >= time + 1
        /\ place[t][1] = "mark" /\ job[t].level # "panic" => lockout >= time + 1
    /\ \A r \in reports : /\ r.now <= time
                          /\ r.level # "panic" => lockout >= r.now + 1

LEMMA AccountStep ==
    ASSUME EmergencyAssumption, AccountInv, [PanicNext]_emergencyVars PROVE AccountInv'
<1>0. ASSUME NEW k \in Kinds, NEW c \in Nat, NEW t \in Nat, NEW h \in Nat,
             counter' = [counter EXCEPT ![k] = c], told' = [told EXCEPT ![k] = t],
             held' = [held EXCEPT ![k] = h], Accounted(c, t, h)
      PROVE  AccountInv'
  <2>1. /\ counter' \in [Kinds -> Nat] /\ told' \in [Kinds -> Nat] /\ held' \in [Kinds -> Nat]
    BY <1>0 DEF AccountInv
  <2>2. ASSUME NEW j \in Kinds
        PROVE  Accounted(counter'[j], told'[j], held'[j])
    BY <1>0 DEF AccountInv
  <2> QED
    BY <2>1, <2>2 DEF AccountInv, Accounted
<1>00. ASSUME UNCHANGED <<counter, told, held>>
       PROVE  AccountInv'
  BY <1>00 DEF AccountInv, Accounted
<1>000. ASSUME NEW k \in Kinds
        PROVE  /\ counter[k] \in Nat /\ told[k] \in Nat /\ held[k] \in Nat
               /\ Accounted(counter[k], told[k], held[k])
               /\ counter = [counter EXCEPT ![k] = counter[k]]
               /\ told = [told EXCEPT ![k] = told[k]]
               /\ held = [held EXCEPT ![k] = held[k]]
  BY DEF AccountInv
<1>1. ASSUME NEW k \in Kinds, Register(k)
      PROVE  AccountInv'
  <2>1. /\ counter' = [counter EXCEPT ![k] = (counter[k] + 1) % Word]
        /\ held' = [held EXCEPT ![k] = held[k] + 1] /\ told' = told
    BY <1>1 DEF Register
  <2>2. /\ Accounted((counter[k] + 1) % Word, told[k], held[k] + 1)
        /\ (counter[k] + 1) % Word \in Nat /\ held[k] + 1 \in Nat
    BY <1>000, StepsAccounted
  <2> QED
    BY <1>0, <1>000, <2>1, <2>2
<1>2. ASSUME NEW k \in Kinds, Drop(k)
      PROVE  AccountInv'
  <2>1. /\ counter' = [counter EXCEPT ![k] = (counter[k] + (Word - 1)) % Word]
        /\ held' = [held EXCEPT ![k] = held[k] - 1] /\ told' = told /\ held[k] > 0
    BY <1>2 DEF Drop
  <2>2. /\ Accounted((counter[k] + (Word - 1)) % Word, told[k], held[k] - 1)
        /\ (counter[k] + (Word - 1)) % Word \in Nat /\ held[k] - 1 \in Nat
    BY <1>000, <2>1, StepsAccounted
  <2> QED
    BY <1>0, <1>000, <2>1, <2>2
<1>3. ASSUME NEW t \in Callers, Sweep(t)
      PROVE  AccountInv'
  <2>1. PICK i \in DOMAIN Counters :
            /\ told' = [told EXCEPT ![Counters[i]] = (@ + counter[Counters[i]]) % Half]
            /\ counter' = [counter EXCEPT ![Counters[i]] = 0]
            /\ held' = held
    BY <1>3 DEF Sweep
  <2>2. PICK k \in Kinds : k = Counters[i]
    BY DEF Kinds
  <2>3. /\ told' = [told EXCEPT ![k] = (told[k] + counter[k]) % Half]
        /\ counter' = [counter EXCEPT ![k] = 0]
    BY <2>1, <2>2
  <2>4. /\ Accounted(0, (told[k] + counter[k]) % Half, held[k])
        /\ (told[k] + counter[k]) % Half \in Nat
    BY <1>000, StepsAccounted
  <2> QED
    BY <1>0, <1>000, <2>1, <2>3, <2>4
<1>4. CASE Restart
  <2>1. Accounted(0, 0, 0)
    BY DEF Accounted
  <2> QED
    BY <1>4, <2>1 DEF Restart, AccountInv
<1>5. ASSUME NEW t \in Callers, Trigger(t), ~Sweep(t)
      PROVE  AccountInv'
  BY <1>00, <1>5 DEF Trigger, Begin, Lock, Hook, Mark, controller, world
<1>6. CASE ClearWiped \/ Tick \/ UNCHANGED emergencyVars
  BY <1>00, <1>6 DEF ClearWiped, Tick, controller, world, emergencyVars
<1> QED
  BY <1>1, <1>2, <1>3, <1>4, <1>5, <1>6 DEF PanicNext

LEMMA LockStep ==
    ASSUME LockInv, [PanicNext]_emergencyVars
    PROVE  LockInv' /\ (destroyed' # destroyed => lockout > time)
<1> DEFINE Goal == LockInv' /\ (destroyed' # destroyed => lockout > time)
<1>1. ASSUME NEW t \in Callers, NEW level \in Levels, Begin(t, level)
      PROVE  Goal
  <2>1. /\ \A u \in Callers : place'[u] = IF u = t THEN Sweeping(1) ELSE place[u]
        /\ place' = [u \in Callers |-> place'[u]]
        /\ job' = [job EXCEPT ![t] = [level |-> level, now |-> time]]
        /\ UNCHANGED <<time, lockout, reports, destroyed>>
    BY <1>1 DEF Begin, LockInv, controller, world
  <2>2. Sweeping(1)[1] = "sweep"
    BY DEF Sweeping
  <2> QED
    BY <2>1, <2>2 DEF LockInv
<1>2. ASSUME NEW t \in Callers, Sweep(t)
      PROVE  Goal
  <2>1. /\ place[t][1] = "sweep"
        /\ UNCHANGED <<time, lockout, reports, destroyed, job>>
    BY <1>2 DEF Sweep, Sweeping
  <2>2. PICK p : /\ place' = [place EXCEPT ![t] = p]
                 /\ p[1] = "sweep" \/ p[1] = IF job[t].level = "panic" THEN "mark" ELSE "lock"
    <3>1. PICK i \in DOMAIN Counters :
             place' = [place EXCEPT ![t] = IF i < Len(Counters) THEN Sweeping(i + 1)
                                           ELSE AfterSweep(job[t].level)]
      BY <1>2, Zenon DEF Sweep
    <3> DEFINE p == IF i < Len(Counters) THEN Sweeping(i + 1) ELSE AfterSweep(job[t].level)
    <3>2. p[1] = "sweep" \/ p[1] = IF job[t].level = "panic" THEN "mark" ELSE "lock"
      BY DEF Sweeping, AfterSweep
    <3> QED
      BY <3>1, <3>2, Zenon
  <2>3. \A u \in Callers : place'[u] = IF u = t THEN p ELSE place[u]
    BY <2>2 DEF LockInv
  <2>4. place' = [u \in Callers |-> place'[u]]
    BY <2>2 DEF LockInv
  <2> QED
    BY <2>1, <2>2, <2>3, <2>4 DEF LockInv
<1>3. ASSUME NEW t \in Callers, Lock(t)
      PROVE  Goal
  <2>1. /\ place[t][1] = "lock"
        /\ UNCHANGED <<time, reports, destroyed, job>>
        /\ lockout' = job[t].now + LockDays[job[t].level]
    BY <1>3 DEF Lock, world
  <2>2. LockDays[job[t].level] \in Nat \ {0} /\ job[t].now = time
    BY <2>1 DEF LockDays, LockInv, Levels
  <2>3. PICK p : /\ place' = [place EXCEPT ![t] = p]
                 /\ p[1] = "header" \/ p[1] = "mark"
    <3> DEFINE p == IF job[t].level = "coldwar" /\ Hooks THEN <<"header">> ELSE <<"mark">>
    <3>1. place' = [place EXCEPT ![t] = p]
      BY <1>3 DEF Lock
    <3>2. p[1] = "header" \/ p[1] = "mark"
      OBVIOUS
    <3> QED
      BY <3>1, <3>2, Zenon
  <2>4. /\ \A u \in Callers : place'[u] = IF u = t THEN p ELSE place[u]
        /\ place' = [u \in Callers |-> place'[u]]
    BY <2>3 DEF LockInv
  <2>5. lockout' \in Nat /\ lockout' >= time + 1
    BY <2>1, <2>2 DEF LockInv
  <2>6. \A r \in reports : lockout' >= r.now + 1
    BY <2>5 DEF LockInv
  <2> QED
    BY <2>1, <2>2, <2>3, <2>4, <2>5, <2>6 DEF LockInv
<1>4. ASSUME NEW t \in Callers, Hook(t, "header", <<"seals">>) \/ Hook(t, "seals", <<"mark">>)
      PROVE  Goal
  <2>1. /\ place[t][1] \in {"header", "seals"}
        /\ UNCHANGED <<time, reports, lockout, job>>
    BY <1>4 DEF Hook, controller
  <2>2. PICK p : /\ place' = [place EXCEPT ![t] = p]
                 /\ p[1] = "seals" \/ p[1] = "mark"
    <3>1. /\ <<"seals">>[1] = "seals" /\ <<"mark">>[1] = "mark"
          /\ \/ place' = [place EXCEPT ![t] = <<"seals">>]
             \/ place' = [place EXCEPT ![t] = <<"mark">>]
      BY <1>4 DEF Hook
    <3> QED
      BY <3>1, Zenon
  <2>3. /\ \A u \in Callers : place'[u] = IF u = t THEN p ELSE place[u]
        /\ place' = [u \in Callers |-> place'[u]]
    BY <2>2 DEF LockInv
  <2> QED
    BY <2>1, <2>2, <2>3 DEF LockInv
<1>5. ASSUME NEW t \in Callers, Mark(t)
      PROVE  Goal
  <2>1. /\ place[t][1] = "mark"
        /\ UNCHANGED <<time, destroyed, lockout, job>>
        /\ reports' = reports \cup {job[t]}
        /\ place' = [place EXCEPT ![t] = <<"idle">>]
    BY <1>5 DEF Mark
  <2>2. /\ \A u \in Callers : place'[u] = IF u = t THEN <<"idle">> ELSE place[u]
        /\ place' = [u \in Callers |-> place'[u]]
    BY <2>1 DEF LockInv
  <2>3. job[t] \in [level : Levels, now : Nat] /\ job[t].now = time
    BY <2>1 DEF LockInv
  <2> QED
    BY <2>1, <2>2, <2>3 DEF LockInv
<1>6. CASE Tick
  <2>1. \A t \in Callers : place[t][1] = "idle"
    BY <1>6 DEF Tick
  <2>2. /\ time' = time + 1 /\ UNCHANGED <<lockout, place, job, reports, destroyed>>
    BY <1>6 DEF Tick, controller
  <2> QED
    BY <2>1, <2>2 DEF LockInv
<1>7. CASE Restart
  BY <1>7 DEF Restart, LockInv
<1>8. CASE ClearWiped
  BY <1>8 DEF ClearWiped, LockInv, world
<1>9. ASSUME NEW k \in Kinds, Register(k) \/ Drop(k)
      PROVE  Goal
  BY <1>9 DEF Register, Drop, LockInv
<1>10. CASE UNCHANGED emergencyVars
  BY <1>10 DEF LockInv, emergencyVars
<1> QED
  BY <1>1, <1>2, <1>3, <1>4, <1>5, <1>6, <1>7, <1>8, <1>9, <1>10 DEF PanicNext, Trigger

\* For any threads, counters and widths: concurrent triggers lose and repeat no
\* holder, whoever was told of a lockout is under it, and nothing is destroyed
\* before a lockout is in force (trigger).
THEOREM PanicAccounts == ASSUME EmergencyAssumption PROVE PanicSpec => TriggersAccount
<1>1. PanicInit => AccountInv /\ LockInv
  <2> SUFFICES ASSUME PanicInit PROVE AccountInv /\ LockInv
    OBVIOUS
  <2>1. AccountInv
    BY DEF PanicInit, AccountInv, Accounted
  <2>2. /\ \A t \in Callers : place[t][1] = "idle"
        /\ place = [t \in Callers |-> place[t]]
    BY DEF PanicInit
  <2>3. job \in [Callers -> [level : Levels, now : Nat]]
    BY DEF PanicInit, Levels
  <2> QED
    BY <2>1, <2>2, <2>3 DEF PanicInit, LockInv
<1>2. AccountInv /\ [PanicNext]_emergencyVars => AccountInv'
  BY AccountStep
<1>3. LockInv /\ [PanicNext]_emergencyVars
        => LockInv' /\ (destroyed' # destroyed => lockout > time)
  BY LockStep
<1>4. AccountInv /\ LockInv => EachHolderOnce /\ DayLocked
  BY DEF AccountInv, Accounted, EachHolderOnce, LockInv, DayLocked
<1> QED
  BY <1>1, <1>2, <1>3, <1>4, PTL DEF PanicSpec, TriggersAccount, DestroysLockedOut

-----------------------------------------------------------------------------
(* Dashboard: the screen is fresh and its counter covers its list, for any *)
(* tick, rows and size of the history.  A refresh reads the bus twice, so  *)
(* the invariant follows the list from the first read to the second: each  *)
(* event is still in the history or older than all that is.                *)

Entry == [id : Nat, severe : BOOLEAN]

\* What the bus keeps is numbered upwards, and none is later than the last one.
History ==
    /\ published \in Nat
    /\ recent \in Seq(Entry)
    /\ \A i \in DOMAIN recent : recent[i].id \in 1..published
    /\ \A i, j \in DOMAIN recent : i < j => recent[i].id < recent[j].id

\* The list was cut from the bus: an id means the same event in both.
OneSource ==
    /\ \A e \in ToSet(rows) : e.id \in 1..published
    /\ \A e \in ToSet(rows), i \in DOMAIN recent : recent[i].id = e.id => recent[i] = e

\* An event of a list read in a refresh under way is still in the history, or
\* older than all of it.
HalfRead ==
    at \in {"key", "tick"} =>
        \A e \in ToSet(rows) :
            (\E i \in DOMAIN recent : recent[i] = e) \/ (\A i \in DOMAIN recent : e.id < recent[i].id)

\* When the loop is where, reckoned from the last tick: time passes in the wait
\* for a key only.
Clocks ==
    /\ clock \in Nat /\ lastTick \in Nat /\ readAt \in Nat /\ until \in Nat
    /\ at \in {"draw", "wait", "key", "check", "tick", "done"}
    /\ lastTick <= readAt /\ readAt <= clock
    /\ at = "draw" => clock - lastTick < TickRate
    /\ at \in {"wait", "key", "check"} => clock <= until /\ until - lastTick < 2 * TickRate
    /\ at = "tick" => readAt = clock

ScreenInv == History /\ OneSource /\ HalfRead /\ Clocks /\ CounterCoversList

LEMMA InitScreenInv == ScreenInit => ScreenInv
<1> SUFFICES ASSUME ScreenInit PROVE ScreenInv
  OBVIOUS
<1>0. DEFINE e == [id |-> 1, severe |-> FALSE]
<1>1. /\ e \in Entry /\ e.id = 1 /\ ~e.severe
      /\ recent = <<e>> /\ rows = <<e>> /\ kept = {1} /\ published = 1 /\ threats = 0 /\ at = "draw"
  BY DEF ScreenInit, Entry
<1> HIDE DEF e
<1>2. ToSet(rows) = {e}
  BY <1>1 DEF ToSet
<1>3. History
  <2>1. recent \in Seq(Entry) /\ DOMAIN recent = 1..1 /\ recent[1].id = 1
    BY <1>1
  <2> QED
    BY <1>1, <2>1 DEF History
<1>4. OneSource
  <2>1. DOMAIN recent = 1..1 /\ recent[1] = e
    BY <1>1
  <2> QED
    BY <1>1, <1>2, <2>1 DEF OneSource
<1>5. HalfRead
  BY <1>1 DEF HalfRead
<1>6. Clocks
  BY DashboardAssumption DEF ScreenInit, Clocks
<1>7. CounterCoversList
  <2>1. {f \in ToSet(rows) : f.severe /\ f.id \in kept} = {}
    BY <1>1, <1>2
  <2>2. \A f \in ToSet(rows) : f.id \in kept
    BY <1>1, <1>2
  <2>3. Cardinality({f \in ToSet(rows) : f.severe /\ f.id \in kept}) = 0
    BY <2>1, FS_EmptySet, Zenon
  <2>4. threats >= 0
    BY <1>1
  <2>5. threats >= Cardinality({f \in ToSet(rows) : f.severe /\ f.id \in kept})
    BY <2>3, <2>4, Zenon
  <2> QED
    BY <2>2, <2>5, Zenon DEF CounterCoversList
<1> QED
  BY <1>3, <1>4, <1>5, <1>6, <1>7 DEF ScreenInv

\* One event more: at most the oldest is dropped.
LEMMA PublishKeeps ==
    ASSUME History, OneSource, HalfRead, NEW severe \in BOOLEAN, Publish(severe)
    PROVE  History' /\ OneSource' /\ HalfRead'
<1> DEFINE e == [id |-> published', severe |-> severe]
           young == IF Len(recent) >= Limit THEN Tail(recent) ELSE recent
           n == Len(young)
<1>1. recent' = Append(young, e) /\ published' = published + 1 /\ UNCHANGED <<at, rows>>
  BY DEF Publish, screen
<1>2. e.id = published + 1 /\ e \in Entry
  BY <1>1 DEF Entry, History
<1> HIDE DEF e
<1>3. /\ recent \in Seq(Entry) /\ Len(recent) \in Nat /\ DOMAIN recent = 1..Len(recent)
      /\ published \in Nat
  BY DEF History
<1>4. PICK d \in {0, 1} : /\ d <= Len(recent) /\ n = Len(recent) - d
                          /\ young \in Seq(Entry)
                          /\ \A i \in 1..n : young[i] = recent[i + d]
  <2>1. CASE Len(recent) >= Limit
    <3>1. young = Tail(recent) /\ recent # <<>> /\ Len(recent) >= 1
      BY <1>3, <2>1, DashboardAssumption, EmptySeq
    <3>2. /\ Tail(recent) \in Seq(Entry) /\ Len(Tail(recent)) = Len(recent) - 1
          /\ \A i \in 1..Len(Tail(recent)) : Tail(recent)[i] = recent[i + 1]
      BY <1>3, <3>1, HeadTailProperties
    <3> QED
      BY <1>3, <3>1, <3>2
  <2>2. CASE ~(Len(recent) >= Limit)
    <3>1. young = recent /\ 0 \in {0, 1} /\ 0 <= Len(recent) /\ n = Len(recent) - 0
      BY <1>3, <2>2
    <3>2. \A i \in 1..n : young[i] = recent[i + 0]
      <4>1. \A i \in 1..n : i + 0 = i
        OBVIOUS
      <4> QED
        BY <3>1, <4>1, Zenon
    <3> QED
      BY <1>3, <3>1, <3>2
  <2> QED
    BY <2>1, <2>2
<1> HIDE DEF young
<1>5. /\ recent' \in Seq(Entry) /\ Len(recent') = n + 1 /\ recent'[n + 1] = e
      /\ \A i \in 1..n : recent'[i] = young[i]
  BY <1>1, <1>2, <1>4, AppendProperties
<1>6. /\ n \in Nat /\ DOMAIN recent' = 1..(n + 1) /\ recent'[n + 1] = e
      /\ \A i \in 1..n : i + d \in DOMAIN recent /\ recent'[i] = recent[i + d]
  BY <1>3, <1>4, <1>5
<1> HIDE DEF n
<1>7. History'
  <2>1. \A i \in 1..n : recent'[i].id \in 1..published
    BY <1>6 DEF History
  <2>2. \A i \in DOMAIN recent' : recent'[i].id \in 1..published'
    <3>1. ASSUME NEW i \in DOMAIN recent', i # n + 1 PROVE recent'[i].id \in 1..published'
      <4>1. i \in 1..n
        BY <1>6, <3>1
      <4>2. recent'[i].id \in 1..published
        BY <2>1, <4>1
      <4> QED
        BY <1>1, <1>3, <4>2
    <3>2. recent'[n + 1].id \in 1..published'
      BY <1>1, <1>2, <1>3, <1>6
    <3> QED
      BY <3>1, <3>2
  <2>3. ASSUME NEW i \in DOMAIN recent', NEW j \in DOMAIN recent', i < j
        PROVE  recent'[i].id < recent'[j].id
    <3>1. CASE j = n + 1
      BY <1>2, <1>3, <1>6, <2>1, <2>3, <3>1
    <3>2. CASE j # n + 1
      <4>1. i \in 1..n /\ j \in 1..n /\ i + d < j + d
        BY <1>6, <2>3, <3>2
      <4> QED
        BY <1>6, <4>1 DEF History
    <3> QED
      BY <3>1, <3>2
  <2> QED
    BY <1>1, <1>3, <1>5, <2>2, <2>3 DEF History
<1>8. OneSource'
  <2>1. \A f \in ToSet(rows) : f.id \in 1..published /\ f.id # published + 1
    BY <1>3 DEF OneSource
  <2>2. ASSUME NEW f \in ToSet(rows), NEW i \in DOMAIN recent', recent'[i].id = f.id
        PROVE  recent'[i] = f
    <3>1. i \in 1..n
      BY <1>2, <1>6, <2>1, <2>2
    <3> QED
      BY <1>6, <2>2, <3>1 DEF OneSource
  <2> QED
    BY <1>1, <1>3, <2>1, <2>2 DEF OneSource
<1>9. HalfRead'
  <2>1. SUFFICES ASSUME at \in {"key", "tick"}, NEW f \in ToSet(rows)
                 PROVE  (\E i \in DOMAIN recent' : recent'[i] = f) \/ (\A i \in DOMAIN recent' : f.id < recent'[i].id)
    BY <1>1 DEF HalfRead
  <2>2. f.id \in 1..published
    BY DEF OneSource
  <2>3. CASE \A i \in DOMAIN recent : f.id < recent[i].id
    <3>1. ASSUME NEW k \in 1..n PROVE f.id < recent'[k].id
      <4>1. k + d \in DOMAIN recent /\ recent'[k] = recent[k + d]
        BY <1>6
      <4> QED
        BY <2>3, <4>1
    <3>2. f.id < recent'[n + 1].id
      BY <1>2, <1>3, <1>6, <2>2
    <3>3. \A k \in DOMAIN recent' : k = n + 1 \/ k \in 1..n
      BY <1>6
    <3> QED
      BY <3>1, <3>2, <3>3
  <2>4. ASSUME NEW i \in DOMAIN recent, recent[i] = f
        PROVE  (\E k \in DOMAIN recent' : recent'[k] = f) \/ (\A k \in DOMAIN recent' : f.id < recent'[k].id)
    <3>1. CASE i > d
      <4>1. i - d \in 1..n /\ (i - d) + d = i
        BY <1>3, <1>4, <1>6, <3>1 DEF n
      <4>2. recent'[i - d] = f
        BY <1>6, <2>4, <4>1
      <4> QED
        BY <1>6, <4>1, <4>2
    <3>2. CASE ~(i > d)
      <4>1. \A k \in 1..n : i < k + d
        BY <1>3, <1>6, <3>2
      <4>2. \A k \in 1..n : f.id < recent'[k].id
        BY <1>6, <2>4, <4>1 DEF History
      <4>3. f.id < e.id
        BY <1>2, <1>3, <2>2
      <4> QED
        BY <1>6, <4>2, <4>3
    <3> QED
      BY <3>1, <3>2
  <2> QED
    BY <2>1, <2>3, <2>4 DEF HalfRead
<1> QED
  BY <1>7, <1>8, <1>9

\* Only a refresh changes the screen, and only an event the bus.
LEMMA BusRests ==
    ASSUME History, OneSource, UNCHANGED <<recent, published>>, UNCHANGED rows
    PROVE  History' /\ OneSource'
BY DEF History, OneSource

LEMMA SecondPart ==
    ASSUME History, OneSource, HalfRead, at \in {"key", "tick"}, RefreshPart("second"),
           UNCHANGED <<recent, published>>
    PROVE  CounterCoversList'
<1> DEFINE S == {i \in DOMAIN recent : recent[i].severe}
           A == {e \in ToSet(rows) : e.severe /\ e.id \in Ids(recent)}
<1>1. threats' = Severe(recent) /\ kept' = Ids(recent) /\ UNCHANGED <<rows, readAt>>
  BY DEF RefreshPart
<1>2. \A e \in ToSet(rows) : e.id \in kept' \/ \A k \in kept' : e.id < k
  BY <1>1 DEF HalfRead, Ids
<1>3. IsFiniteSet(S)
  <2>1. S \in SUBSET (1..Len(recent)) /\ Len(recent) \in Nat
    BY DEF History
  <2> QED
    BY <2>1, FS_Interval, FS_Subset
<1>4. A \subseteq {recent[i] : i \in S}
  <2>1. ASSUME NEW e \in A PROVE \E i \in S : recent[i] = e
    <3>1. PICK i \in DOMAIN recent : recent[i].id = e.id
      BY DEF Ids
    <3>2. recent[i] = e
      BY <3>1 DEF OneSource
    <3>3. e.severe
      OBVIOUS
    <3> QED
      BY <3>2, <3>3, Zenon
  <2> QED
    BY <2>1, Zenon
<1>5. IsFiniteSet({recent[i] : i \in S}) /\ Cardinality({recent[i] : i \in S}) <= Cardinality(S)
  <2> DEFINE f == [i \in S |-> recent[i]]
             T == {recent[i] : i \in S}
  <2>1. f \in Surjection(S, T)
    BY DEF Surjection
  <2> QED
    BY <1>3, <2>1, FS_Surjection
<1>6. Cardinality(A) <= Cardinality(S)
  BY <1>3, <1>4, <1>5, FS_Subset, FS_CardinalityType
<1>7. threats' >= Cardinality(A)
  BY <1>1, <1>3, <1>4, <1>5, <1>6, FS_Subset, FS_CardinalityType DEF Severe
<1> QED
  BY <1>1, <1>2, <1>7 DEF CounterCoversList

\* The first part of a refresh takes its list from the history.
LEMMA FirstPart ==
    ASSUME History, OneSource, RefreshPart("first"), UNCHANGED <<recent, published>>
    PROVE  History' /\ OneSource' /\ HalfRead' /\ readAt' = clock
<1>1. rows' = Recent /\ readAt' = clock
  BY DEF RefreshPart
<1> DEFINE m == IF Len(recent) > Shown THEN Len(recent) - Shown + 1 ELSE 1
<1>2. /\ recent \in Seq(Entry) /\ Len(recent) \in Nat /\ m \in 1..(Len(recent) + 1)
      /\ DOMAIN recent = 1..Len(recent)
  BY DashboardAssumption DEF History
<1>3. Recent = SubSeq(recent, m, Len(recent))
  BY DEF Recent
<1> HIDE DEF m
<1>4. \A i \in DOMAIN Recent : \E j \in DOMAIN recent : Recent[i] = recent[j]
  <2>1. PICK n \in Nat : n = Len(recent)
    BY <1>2
  <2>2. PICK s : s = SubSeq(recent, m, n)
    OBVIOUS
  <2>3. DOMAIN s = 1..n - m + 1 /\ \A i \in 1..n - m + 1 : s[i] = recent[m + i - 1]
    BY <1>2, <2>1, <2>2
  <2>4. \A i \in 1..n - m + 1 : m + i - 1 \in 1..n
    BY <1>2, <2>1
  <2> QED
    BY <1>2, <1>3, <2>1, <2>2, <2>3, <2>4
<1>5. ASSUME NEW e \in ToSet(rows') PROVE \E j \in DOMAIN recent : recent[j] = e
  BY <1>1, <1>4 DEF ToSet
<1>6. OneSource'
  <2>1. ASSUME NEW e \in ToSet(rows'), NEW i \in DOMAIN recent, recent[i].id = e.id
        PROVE  recent[i] = e
    <3>1. PICK j \in DOMAIN recent : recent[j] = e
      BY <1>5
    <3>2. i = j
      <4>1. recent[i].id \in Nat /\ recent[i].id = recent[j].id
        BY <2>1, <3>1 DEF History
      <4> QED
        BY <1>2, <4>1 DEF History
    <3> QED
      BY <3>1, <3>2
  <2>2. \A e \in ToSet(rows') : e.id \in 1..published
    BY <1>5 DEF History
  <2> QED
    BY <2>1, <2>2 DEF OneSource
<1>7. HalfRead'
  BY <1>5 DEF HalfRead
<1> QED
  BY <1>1, <1>6, <1>7, BusRests DEF History

LEMMA ScreenStep == ASSUME ScreenInv, [ScreenNext]_screenVars PROVE ScreenInv'
<1>0. History /\ OneSource /\ HalfRead /\ Clocks /\ CounterCoversList
  BY DEF ScreenInv
<1>1. ASSUME NEW severe \in BOOLEAN, Publish(severe) PROVE ScreenInv'
  <2>1. UNCHANGED <<clock, at, until, lastTick, tab, quit, rows, threats, readAt, kept>>
    BY <1>1 DEF Publish, screen
  <2>2. Clocks' /\ CounterCoversList'
    BY <1>0, <2>1 DEF Clocks, CounterCoversList
  <2> QED
    BY <1>0, <1>1, <2>2, PublishKeeps DEF ScreenInv
\* The refresh under way goes on from what it has read.
<1>2. ASSUME RefreshPart("second"), at \in {"key", "tick"}, at' \in {"check", "draw", "done"}, Clocks',
             UNCHANGED <<recent, published>>
      PROVE  ScreenInv'
  <2>1. CounterCoversList' /\ UNCHANGED rows
    BY <1>0, <1>2, SecondPart DEF RefreshPart
  <2>2. HalfRead'
    BY <1>2 DEF HalfRead
  <2> QED
    BY <1>0, <1>2, <2>1, <2>2, BusRests DEF ScreenInv
<1>3. ASSUME RefreshPart("first"), at' \in {"key", "tick"}, Clocks', UNCHANGED <<recent, published>>
      PROVE  ScreenInv'
  <2>1. CounterCoversList'
    BY <1>3 DEF CounterCoversList
  <2> QED
    BY <1>0, <1>3, <2>1, FirstPart DEF ScreenInv
\* A step that neither reads nor ends a refresh.
<1>4. ASSUME at \notin {"key", "tick"}, at' \notin {"key", "tick"}, Clocks',
             UNCHANGED <<recent, published, rows, threats, readAt, kept>>
      PROVE  ScreenInv'
  <2>1. CounterCoversList' /\ HalfRead'
    BY <1>0, <1>4 DEF CounterCoversList, HalfRead
  <2> QED
    BY <1>0, <1>4, <2>1, BusRests DEF ScreenInv
<1> USE DashboardAssumption DEF Clocks
<1>5. CASE DrawScreen
  BY <1>0, <1>4, <1>5 DEF DrawScreen, bus, screen
<1>6. CASE ClockTick
  BY <1>0, <1>4, <1>6 DEF ClockTick, bus, screen
<1>7. CASE NoKey
  BY <1>0, <1>4, <1>7 DEF NoKey, bus, screen
<1>8. ASSUME NEW t \in Tabs, NEW q \in BOOLEAN, PressKey(t, q) PROVE ScreenInv'
  BY <1>0, <1>4, <1>8 DEF PressKey, bus, screen
<1>9. CASE PressRefresh
  BY <1>0, <1>3, <1>9 DEF PressRefresh, RefreshPart, bus
<1>10. CASE EndRefresh
  BY <1>0, <1>2, <1>10 DEF EndRefresh, RefreshPart, bus
<1>11. CASE BeginTick
  BY <1>0, <1>3, <1>11 DEF BeginTick, RefreshPart, bus
<1>12. CASE EndTick
  BY <1>0, <1>2, <1>12 DEF EndTick, RefreshPart, AfterLoop, bus
<1>13. CASE NotDue
  BY <1>0, <1>4, <1>13 DEF NotDue, Due, AfterLoop, bus, screen
<1>14. CASE UNCHANGED screenVars
  BY <1>0, <1>14, BusRests DEF screenVars, ScreenInv, HalfRead, CounterCoversList
<1> QED
  BY <1>1, <1>5, <1>6, <1>7, <1>8, <1>9, <1>10, <1>11, <1>12, <1>13, <1>14 DEF ScreenNext

\* The screen is less than two ticks old, and between refreshes its counter knows
\* every severe event that its list shows and the history still had (tui/app.rs,
\* refresh and run_loop), whatever is pressed and published, and when.
THEOREM ScreenStaysTrue == ScreenSpec => []ScreenTells
<1>1. ScreenInv => ScreenTells
  <2>1. Clocks => NeverStale
    BY DashboardAssumption DEF Clocks, NeverStale
  <2> QED
    BY <2>1 DEF ScreenInv, ScreenTells
<1>2. ScreenInv /\ [ScreenNext]_screenVars => ScreenInv'
  BY ScreenStep
<1> QED
  BY InitScreenInv, <1>1, <1>2, PTL DEF ScreenSpec

-----------------------------------------------------------------------------
(* Evidence, for any names, events, keys and numbers of changes.  What was *)
(* cut out of the mirror is in no variable: the invariant says that there  *)
(* is a chain, of which no two hashes are equal, and a place in it for     *)
(* each event kept.                                                        *)

KeySlot == [name : Names, live : BOOLEAN, after : Nat]

ErasedInv ==
    /\ keys \in Seq(KeySlot)
    /\ erasures \in Seq(Seq(Names))
    /\ EraseIsComplete

\* The hashes of what was recorded, and where the events kept were.
Chained(c, pos) ==
    LET n == Len(recorded)
        m == Len(mirror)
    IN /\ c[0] = Zero /\ tip = c[n]
       /\ \A i \in 1..n : c[i] = HashOf(c[i - 1], recorded[i])
       /\ \A i, j \in 0..n : c[i] = c[j] => i = j
       /\ \A k \in 1..m : /\ pos[k] \in 1..n /\ k <= pos[k] /\ pos[k] <= k + (n - m)
                          /\ mirror[k].chain = c[pos[k]]
       /\ changes = 0 => m = n

MirrorInv ==
    /\ changes \in Nat
    /\ recorded \in Seq(Incident)
    /\ \E hashes : mirror \in Seq([data : Incident, chain : hashes])
    /\ Len(mirror) <= Len(recorded)
    /\ \E c, pos : Chained(c, pos)

EvidenceInv == ErasedInv /\ MirrorInv

-----------------------------------------------------------------------------
\* Two hashes are equal exactly when what they cover is, and none is the first.
LEMMA HashesDiffer ==
    ASSUME NEW p, NEW q, NEW e, NEW f
    PROVE  /\ HashOf(p, e) = HashOf(q, f) <=> p = q /\ HashOf(Zero, e) = HashOf(Zero, f)
           /\ HashOf(p, e) # Zero
<1>1. \A a, b, c, d, x, y, z, w : <<a, b, c, d>> = <<x, y, z, w>> <=> a = x /\ b = y /\ c = z /\ d = w
  OBVIOUS
<1>2. \A a, b, c, d : <<a, b, c, d>> # <<>>
  OBVIOUS
<1> QED
  BY <1>1, <1>2, Zenon DEF HashOf, Zero

LEMMA LeastPlace ==
    ASSUME NEW T, T \subseteq Nat, T # {}
    PROVE  \E x \in T : \A y \in T : x <= y
<1> DEFINE R == {ss \in Nat \X Nat : ss[1] < ss[2]}
<1>1. IsWellFoundedOn(R, Nat)
  BY NatLessThanWellFounded DEF OpToRel
<1> HIDE DEF R
<1>2. PICK x \in T : \A y \in T : ~ (<<y, x>> \in R)
  BY <1>1, WFMin
<1>3. ASSUME NEW y \in T PROVE x <= y
  <2>1. y \in Nat /\ x \in Nat
    OBVIOUS
  <2>2. <<y, x>> \in Nat \X Nat /\ <<y, x>>[1] = y /\ <<y, x>>[2] = x
    BY <2>1
  <2>3. ~(y < x)
    BY <1>2, <2>2 DEF R
  <2> QED
    BY <2>1, <2>3
<1> QED
  BY <1>3

LEMMA MirrorShape ==
    ASSUME MirrorInv
    PROVE  /\ Len(mirror) \in Nat /\ DOMAIN mirror = 1..Len(mirror)
           /\ Len(recorded) \in Nat /\ DOMAIN recorded = 1..Len(recorded)
           /\ \A k \in 1..Len(mirror) : mirror[k].data \in Incident
<1>1. PICK hashes : mirror \in Seq([data : Incident, chain : hashes])
  BY DEF MirrorInv
<1>2. recorded \in Seq(Incident)
  BY DEF MirrorInv
<1> DEFINE Remaining == [data : Incident, chain : hashes]
<1>3. \A e \in Remaining : e.data \in Incident
  OBVIOUS
<1> HIDE DEF Remaining
<1>4. mirror \in Seq(Remaining)
  BY <1>1 DEF Remaining
<1>5. Len(mirror) \in Nat /\ DOMAIN mirror = 1..Len(mirror) /\ \A k \in 1..Len(mirror) : mirror[k] \in Remaining
  BY <1>4
<1> QED
  BY <1>2, <1>3, <1>5

-----------------------------------------------------------------------------
(* CryptoEraser *)

LEMMA RegisterKeeps ==
    ASSUME ErasedInv, NEW name \in Names, RegisterKey(name) PROVE ErasedInv'
<1> DEFINE n == Len(keys)
           k == [name |-> name, live |-> TRUE, after |-> Len(erasures)]
<1>1. /\ keys \in Seq(KeySlot)
      /\ n \in Nat /\ DOMAIN keys = 1..n /\ erasures \in Seq(Seq(Names)) /\ Len(erasures) \in Nat
  BY DEF ErasedInv
<1>2. k \in KeySlot /\ k.live /\ k.after = Len(erasures)
  BY <1>1 DEF KeySlot
<1>3. keys' = Append(keys, k) /\ erasures' = erasures /\ erased' = erased
  BY DEF RegisterKey
<1> HIDE DEF k
<1>4. /\ keys' \in Seq(KeySlot)
      /\ DOMAIN keys' = 1..(n + 1) /\ keys'[n + 1] = k /\ \A i \in 1..n : keys'[i] = keys[i]
  BY <1>1, <1>2, <1>3, AppendProperties
<1>5. \A i \in DOMAIN keys' : i = n + 1 \/ i \in DOMAIN keys
  BY <1>1, <1>4
<1>6. EraseIsComplete'
  <2>1. \A i \in DOMAIN keys : keys[i].live => keys[i].after = Len(erasures)
    BY DEF ErasedInv, EraseIsComplete
  <2>2. \A i \in DOMAIN keys' : keys'[i].live => keys'[i].after = Len(erasures')
    BY <1>1, <1>2, <1>3, <1>4, <1>5, <2>1
  <2>3. erased => /\ erasures # <<>>
                  /\ \A i \in DOMAIN keys :
                         keys[i].live \/ (i <= Len(Last(erasures)) /\ Last(erasures)[i] = keys[i].name)
    BY DEF ErasedInv, EraseIsComplete
  <2>4. ASSUME erased, NEW i \in DOMAIN keys'
        PROVE  keys'[i].live \/ (i <= Len(Last(erasures)) /\ Last(erasures)[i] = keys'[i].name)
    BY <1>1, <1>2, <1>4, <1>5, <2>3, <2>4
  <2> QED
    BY <1>3, <2>2, <2>3, <2>4 DEF EraseIsComplete
<1> QED
  BY <1>3, <1>4, <1>1, <1>6 DEF ErasedInv

LEMMA EraseKeeps ==
    ASSUME ErasedInv, Erase PROVE ErasedInv'
<1> DEFINE n == Len(keys)
           named == [i \in DOMAIN keys |-> keys[i].name]
<1>1. /\ keys \in Seq(KeySlot)
      /\ n \in Nat /\ DOMAIN keys = 1..n /\ erasures \in Seq(Seq(Names)) /\ Len(erasures) \in Nat
      /\ \A i \in 1..n : keys[i] \in KeySlot
  BY DEF ErasedInv
<1>2. /\ keys' = [i \in DOMAIN keys |-> [keys[i] EXCEPT !.live = FALSE]]
      /\ erasures' = Append(erasures, named) /\ erased' = TRUE
  BY DEF Erase
<1>3. named \in Seq(Names) /\ Len(named) = n /\ \A i \in 1..n : named[i] = keys[i].name
  BY <1>1 DEF KeySlot
<1>4. /\ DOMAIN keys' = 1..n
      /\ \A i \in 1..n : /\ keys'[i] \in KeySlot
                         /\ keys'[i].name = keys[i].name /\ ~keys'[i].live
  BY <1>1, <1>2 DEF KeySlot
<1>5. keys' \in Seq(KeySlot)
  <2>1. keys' = [i \in 1..n |-> keys'[i]]
    BY <1>1, <1>2
  <2> QED
    BY <1>1, <1>4, <2>1
<1> HIDE DEF named
<1>6. erasures' \in Seq(Seq(Names)) /\ erasures' # <<>> /\ Last(erasures') = named
  BY <1>1, <1>2, <1>3, AppendProperties DEF Last
<1>7. EraseIsComplete'
  BY <1>1, <1>3, <1>4, <1>6 DEF EraseIsComplete
<1> QED
  BY <1>5, <1>6, <1>7 DEF ErasedInv

-----------------------------------------------------------------------------
(* ForensicMirror *)

LEMMA RecordEventKeeps ==
    ASSUME MirrorInv, NEW e \in Incident, RecordEvent(e) PROVE MirrorInv'
<1> DEFINE n == Len(recorded)
           h == HashOf(tip, e)
           new == [data |-> e, chain |-> h]
<1>1. /\ n \in Nat /\ DOMAIN mirror = 1..Len(mirror) /\ Len(mirror) \in Nat
      /\ recorded \in Seq(Incident) /\ changes = 0 /\ changes \in Nat
  BY MirrorShape DEF MirrorInv, RecordEvent
<1>2. PICK hashes : mirror \in Seq([data : Incident, chain : hashes])
  BY DEF MirrorInv
<1>3. PICK c, pos : Chained(c, pos)
  BY DEF MirrorInv
<1>4. /\ mirror' = Append(mirror, new) /\ tip' = h
      /\ recorded' = Append(recorded, e) /\ changes' = changes
  BY DEF RecordEvent
<1>5. /\ recorded' \in Seq(Incident) /\ Len(recorded') = n + 1
      /\ recorded'[n + 1] = e /\ \A i \in 1..n : recorded'[i] = recorded[i]
  BY <1>1, <1>4, AppendProperties
<1> DEFINE Old == [data : Incident, chain : hashes]
           New == [data : Incident, chain : hashes \cup {h}]
<1>6. \A x \in Old : x \in New
  OBVIOUS
<1>7. new \in New /\ new.chain = h
  OBVIOUS
<1> HIDE DEF Old, New
<1>8. mirror \in Seq(New)
  <2>1. mirror \in Seq(Old)
    BY <1>2 DEF Old
  <2> QED
    BY <1>6, <2>1, ElementOfSeq, IsASeq
<1> HIDE DEF new
<1>9. /\ mirror' \in Seq(New) /\ Len(mirror') = Len(mirror) + 1
      /\ mirror'[Len(mirror) + 1] = new /\ \A k \in 1..Len(mirror) : mirror'[k] = mirror[k]
  BY <1>4, <1>7, <1>8, AppendProperties
<1>10. /\ Len(mirror) = n /\ c[0] = Zero /\ tip = c[n]
       /\ \A i \in 1..n : c[i] = HashOf(c[i - 1], recorded[i])
       /\ \A i, j \in 0..n : c[i] = c[j] => i = j
       /\ \A k \in 1..n : mirror[k].chain = c[k]
  <2>1. /\ Len(mirror) = n /\ c[0] = Zero /\ tip = c[n]
        /\ \A i \in 1..n : c[i] = HashOf(c[i - 1], recorded[i])
        /\ \A i, j \in 0..n : c[i] = c[j] => i = j
    BY <1>1, <1>3 DEF Chained
  <2>2. ASSUME NEW k \in 1..n PROVE mirror[k].chain = c[k]
    <3>1. /\ pos[k] \in 1..n /\ k <= pos[k] /\ pos[k] <= k + (n - n) /\ mirror[k].chain = c[pos[k]]
      BY <1>3, <2>1 DEF Chained
    <3>2. pos[k] = k
      BY <1>1, <3>1
    <3> QED
      BY <3>1, <3>2
  <2> QED
    BY <2>1, <2>2
<1>11. PICK d, same : /\ \A i \in 0..n : d[i] = c[i]
                      /\ d[n + 1] = h
                      /\ \A k \in 1..(n + 1) : same[k] = k
  <2> DEFINE longer == [i \in 0..(n + 1) |-> IF i <= n THEN c[i] ELSE h]
             places == [k \in 1..(n + 1) |-> k]
  <2>1. /\ \A i \in 0..n : longer[i] = c[i]
        /\ longer[n + 1] = h
        /\ \A k \in 1..(n + 1) : places[k] = k
    BY <1>1
  <2> HIDE DEF longer, places
  <2> QED
    BY <2>1
<1>12. ASSUME NEW i \in 0..n PROVE h # c[i]
  <2>1. CASE i = 0
    BY <1>10, <2>1, HashesDiffer
  <2>2. CASE i # 0
    <3>1. i \in 1..n /\ i - 1 \in 0..n /\ n \in 0..n /\ i - 1 # n
      BY <1>1, <2>2
    <3>2. c[i - 1] # tip
      BY <1>10, <3>1
    <3>3. c[i] = HashOf(c[i - 1], recorded[i])
      BY <1>10, <3>1
    <3> QED
      BY <3>2, <3>3, HashesDiffer
  <2> QED
    BY <2>1, <2>2
<1>13. \A i \in 1..(n + 1) : d[i] = HashOf(d[i - 1], recorded'[i])
  <2>1. ASSUME NEW i \in 1..n PROVE d[i] = HashOf(d[i - 1], recorded'[i])
    <3>1. i \in 0..n /\ i - 1 \in 0..n
      BY <1>1
    <3> QED
      BY <1>5, <1>10, <1>11, <3>1
  <2>2. d[n + 1] = HashOf(d[(n + 1) - 1], recorded'[n + 1])
    <3>1. n \in 0..n /\ (n + 1) - 1 = n
      BY <1>1
    <3> QED
      BY <1>5, <1>10, <1>11, <3>1
  <2>3. \A i \in 1..(n + 1) : i \in 1..n \/ i = n + 1
    BY <1>1
  <2> QED
    BY <2>1, <2>2, <2>3
<1>14. ASSUME NEW i \in 0..(n + 1), NEW j \in 0..(n + 1), d[i] = d[j] PROVE i = j
  <2>1. (i \in 0..n \/ i = n + 1) /\ (j \in 0..n \/ j = n + 1)
    BY <1>1
  <2> QED
    BY <1>10, <1>11, <1>12, <1>14, <2>1
<1>15. ASSUME NEW k \in 1..(n + 1)
       PROVE  /\ same[k] \in 1..(n + 1) /\ k <= same[k] /\ same[k] <= k + ((n + 1) - (n + 1))
              /\ mirror'[k].chain = d[same[k]]
  <2>1. same[k] = k /\ k <= k /\ k <= k + ((n + 1) - (n + 1))
    BY <1>1, <1>11
  <2>2. CASE k = n + 1
    BY <1>7, <1>9, <1>10, <1>11, <2>1, <2>2
  <2>3. CASE k # n + 1
    <3>1. k \in 1..n /\ k \in 0..n
      BY <1>1, <2>3
    <3> QED
      BY <1>9, <1>10, <1>11, <2>1, <3>1
  <2> QED
    BY <2>2, <2>3
<1>16. Chained(d, same)'
  <2>1. d[0] = Zero /\ tip' = d[n + 1]
    BY <1>1, <1>4, <1>10, <1>11
  <2>2. Len(recorded') = n + 1 /\ Len(mirror') = n + 1
    BY <1>5, <1>9, <1>10
  <2> QED
    BY <1>13, <1>14, <1>15, <2>1, <2>2 DEF Chained
<1>17. \E hs : mirror' \in Seq([data : Incident, chain : hs])
  BY <1>9 DEF New
<1>18. changes' \in Nat /\ Len(mirror') <= Len(recorded')
  BY <1>1, <1>4, <1>5, <1>9, <1>10
<1> QED
  BY <1>5, <1>16, <1>17, <1>18 DEF MirrorInv

\* Without its i-th element.
LEMMA Removed ==
    ASSUME NEW S, NEW seq \in Seq(S), NEW i \in 1..Len(seq)
    PROVE  /\ RemoveAt(seq, i) \in Seq(S) /\ Len(RemoveAt(seq, i)) = Len(seq) - 1
           /\ \A k \in 1..(Len(seq) - 1) :
                  RemoveAt(seq, i)[k] = seq[IF k < i THEN k ELSE k + 1]
<1> DEFINE m == Len(seq)
           left == SubSeq(seq, 1, i - 1)
           right == SubSeq(seq, i + 1, m)
<1>1. m \in Nat /\ i \in Int /\ 1 <= i /\ i <= m
  OBVIOUS
<1>2. \A k \in 1..m : seq[k] \in S
  BY ElementOfSeq
<1>3. left \in Seq(S) /\ Len(left) = i - 1 /\ \A k \in 1..(i - 1) : left[k] = seq[k]
  <2>1. \A k \in 1..(i - 1) : seq[k] \in S
    BY <1>1, <1>2
  <2>2. left \in Seq(S) /\ Len(left) = IF 1 <= i - 1 THEN (i - 1) - 1 + 1 ELSE 0
    BY <1>1, <2>1, SubSeqProperties
  <2>3. \A k \in 1..((i - 1) - 1 + 1) : left[k] = seq[1 + k - 1]
    BY <1>1, <2>1, SubSeqProperties
  <2>4. \A k \in 1..(i - 1) : k \in 1..((i - 1) - 1 + 1) /\ 1 + k - 1 = k
    BY <1>1
  <2> HIDE DEF left
  <2>5. Len(left) = i - 1
    BY <1>1, <2>2
  <2>6. \A k \in 1..(i - 1) : left[k] = seq[k]
    BY <2>3, <2>4
  <2> QED
    BY <2>2, <2>5, <2>6
<1>4. right \in Seq(S) /\ Len(right) = m - i /\ \A k \in 1..(m - i) : right[k] = seq[i + k]
  <2>1. \A k \in (i + 1)..m : seq[k] \in S
    BY <1>1, <1>2
  <2>2. right \in Seq(S) /\ Len(right) = IF i + 1 <= m THEN m - (i + 1) + 1 ELSE 0
    BY <1>1, <2>1, SubSeqProperties
  <2>3. \A k \in 1..(m - (i + 1) + 1) : right[k] = seq[(i + 1) + k - 1]
    BY <1>1, <2>1, SubSeqProperties
  <2>4. \A k \in 1..(m - i) : k \in 1..(m - (i + 1) + 1) /\ (i + 1) + k - 1 = i + k
    BY <1>1
  <2> HIDE DEF right
  <2>5. Len(right) = m - i
    BY <1>1, <2>2
  <2>6. \A k \in 1..(m - i) : right[k] = seq[i + k]
    BY <2>3, <2>4
  <2> QED
    BY <2>2, <2>5, <2>6
<1> HIDE DEF left, right
<1>5. /\ left \o right \in Seq(S) /\ Len(left \o right) = Len(left) + Len(right)
      /\ \A k \in 1..(Len(left) + Len(right)) :
             (left \o right)[k] = IF k <= Len(left) THEN left[k] ELSE right[k - Len(left)]
  BY <1>3, <1>4, ConcatProperties
<1>6. RemoveAt(seq, i) = left \o right
  BY DEF RemoveAt, left, right
<1>7. Len(left) + Len(right) = m - 1
  BY <1>1, <1>3, <1>4
<1>8. ASSUME NEW k \in 1..(m - 1) PROVE (left \o right)[k] = seq[IF k < i THEN k ELSE k + 1]
  <2>1. CASE k < i
    <3>1. k \in 1..(i - 1) /\ k <= Len(left)
      BY <1>1, <1>3, <2>1
    <3> QED
      BY <1>3, <1>5, <1>7, <2>1, <3>1
  <2>2. CASE ~(k < i)
    <3>1. ~(k <= Len(left)) /\ k - Len(left) \in 1..(m - i) /\ i + (k - Len(left)) = k + 1
      BY <1>1, <1>3, <2>2
    <3>2. (left \o right)[k] = right[k - Len(left)]
      BY <1>5, <1>7, <3>1
    <3>3. right[k - Len(left)] = seq[i + (k - Len(left))]
      BY <1>4, <3>1
    <3> QED
      BY <2>2, <3>1, <3>2, <3>3
  <2> QED
    BY <2>1, <2>2
<1> QED
  BY <1>5, <1>6, <1>7, <1>8

LEMMA LoseKeeps ==
    ASSUME MirrorInv, NEW i \in DOMAIN mirror, Lose(i) PROVE MirrorInv'
<1> DEFINE n == Len(recorded)
           m == Len(mirror)
<1>1. n \in Nat /\ m \in Nat /\ i \in 1..m /\ changes \in Nat
  BY MirrorShape DEF MirrorInv
<1>2. PICK hashes : mirror \in Seq([data : Incident, chain : hashes])
  BY DEF MirrorInv
<1>3. PICK c, pos : Chained(c, pos)
  BY DEF MirrorInv
<1>4. /\ mirror' = RemoveAt(mirror, i) /\ changes' = changes + 1
      /\ tip' = tip /\ recorded' = recorded
  BY DEF Lose, Change
<1>5. /\ mirror' \in Seq([data : Incident, chain : hashes]) /\ Len(mirror') = m - 1
      /\ \A k \in 1..(m - 1) : mirror'[k] = mirror[IF k < i THEN k ELSE k + 1]
  BY <1>1, <1>2, <1>4, Removed
<1>6. PICK rest : \A k \in 1..(m - 1) : rest[k] = pos[IF k < i THEN k ELSE k + 1]
  <2> DEFINE places == [k \in 1..(m - 1) |-> pos[IF k < i THEN k ELSE k + 1]]
  <2>1. \A k \in 1..(m - 1) : places[k] = pos[IF k < i THEN k ELSE k + 1]
    OBVIOUS
  <2> HIDE DEF places
  <2> QED
    BY <2>1
<1>7. ASSUME NEW k \in 1..(m - 1)
      PROVE  /\ rest[k] \in 1..n /\ k <= rest[k] /\ rest[k] <= k + (n - (m - 1))
             /\ mirror'[k].chain = c[rest[k]]
  <2> DEFINE o == IF k < i THEN k ELSE k + 1
  <2>1. o \in 1..m /\ k <= o /\ o <= k + 1
    BY <1>1
  <2>2. rest[k] = pos[o] /\ mirror'[k] = mirror[o]
    BY <1>5, <1>6
  <2> HIDE DEF o
  <2>3. pos[o] \in 1..n /\ o <= pos[o] /\ pos[o] <= o + (n - m) /\ mirror[o].chain = c[pos[o]]
    BY <1>3, <2>1 DEF Chained
  <2> QED
    BY <1>1, <2>1, <2>2, <2>3
<1>8. Len(mirror') <= Len(recorded') /\ changes' \in Nat /\ changes' # 0
  BY <1>1, <1>4, <1>5 DEF MirrorInv
<1>9. Chained(c, rest)'
  BY <1>3, <1>4, <1>5, <1>7, <1>8 DEF Chained
<1> QED
  BY <1>4, <1>5, <1>8, <1>9 DEF MirrorInv

LEMMA AlterKeeps ==
    ASSUME MirrorInv, NEW i \in DOMAIN mirror, NEW e \in Incident, Alter(i, e) PROVE MirrorInv'
<1>1. i \in 1..Len(mirror) /\ changes \in Nat /\ DOMAIN mirror = 1..Len(mirror) /\ Len(mirror) \in Nat
  BY MirrorShape DEF MirrorInv
<1>2. PICK hashes : mirror \in Seq([data : Incident, chain : hashes])
  BY DEF MirrorInv
<1>3. PICK c, pos : Chained(c, pos)
  BY DEF MirrorInv
<1>4. /\ mirror' = [mirror EXCEPT ![i].data = e] /\ changes' = changes + 1
      /\ tip' = tip /\ recorded' = recorded
  BY DEF Alter, Change
<1> DEFINE Remaining == [data : Incident, chain : hashes]
           new == [mirror[i] EXCEPT !.data = e]
<1>5. mirror[i] \in Remaining
  BY <1>1, <1>2, ElementOfSeq
<1>6. new \in Remaining /\ new.chain = mirror[i].chain
  BY <1>5
<1>7. mirror' = [mirror EXCEPT ![i] = new]
  BY <1>4
<1> HIDE DEF Remaining, new
<1>8. mirror' \in Seq(Remaining) /\ Len(mirror') = Len(mirror)
  BY <1>1, <1>2, <1>6, <1>7, ExceptSeq DEF Remaining
<1>9. \A k \in 1..Len(mirror) : mirror'[k].chain = mirror[k].chain
  BY <1>1, <1>6, <1>7
<1>10. changes' \in Nat /\ changes' # 0
  BY <1>1, <1>4
<1>11. Chained(c, pos)'
  BY <1>3, <1>4, <1>8, <1>9, <1>10 DEF Chained
<1> QED
  BY <1>4, <1>8, <1>10, <1>11 DEF MirrorInv, Remaining

-----------------------------------------------------------------------------
\* The hash before the k-th event kept, as verify takes it.
HashBefore(k) == IF k = 1 THEN Zero ELSE mirror[k - 1].chain

Follows(k) == HashOf(HashBefore(k), mirror[k].data) = mirror[k].chain

Unchanged(k) == k <= Len(recorded) /\ HashOf(Zero, mirror[k].data) = HashOf(Zero, recorded[k])

\* An event kept in its place, with what came before it in its place, follows
\* exactly when it is what was recorded.
LEMMA InPlace ==
    ASSUME MirrorInv, NEW c, NEW pos, Chained(c, pos), NEW k \in 1..Len(mirror),
           pos[k] = k, k > 1 => pos[k - 1] = k - 1
    PROVE  Follows(k) <=> Unchanged(k)
<1>0. Len(mirror) \in Nat /\ Len(recorded) \in Nat
  BY MirrorShape
<1>1. k \in 1..Len(recorded) /\ k <= Len(recorded)
  <2>1. pos[k] \in 1..Len(recorded)
    BY DEF Chained
  <2> QED
    BY <1>0, <2>1
<1>2. mirror[k].chain = c[k] /\ c[k] = HashOf(c[k - 1], recorded[k]) /\ c[0] = Zero
  BY <1>1 DEF Chained
<1>3. HashBefore(k) = c[k - 1]
  <2>1. CASE k = 1
    BY <1>2, <2>1 DEF HashBefore
  <2>2. CASE k # 1
    <3>1. k - 1 \in 1..Len(mirror) /\ pos[k - 1] = k - 1
      BY <1>0, <2>2
    <3>2. mirror[k - 1].chain = c[pos[k - 1]]
      BY <3>1 DEF Chained
    <3> QED
      BY <2>2, <3>1, <3>2 DEF HashBefore
  <2> QED
    BY <2>1, <2>2
<1> QED
  BY <1>1, <1>2, <1>3, HashesDiffer DEF Follows, Unchanged

\* If all events kept follow, nothing is missing between them.
LEMMA AllInPlace ==
    ASSUME MirrorInv, NEW c, NEW pos, Chained(c, pos), \A k \in 1..Len(mirror) : Follows(k)
    PROVE  \A k \in 1..Len(mirror) : pos[k] = k
<1> SUFFICES ASSUME NEW b \in 1..Len(mirror), pos[b] # b PROVE FALSE
  OBVIOUS
<1> DEFINE Moved == {j \in 1..Len(mirror) : pos[j] # j}
<1>0. Len(mirror) \in Nat /\ Len(recorded) \in Nat
  BY MirrorShape
<1>1. PICK k \in Moved : \A j \in Moved : k <= j
  <2>1. Moved \subseteq Nat /\ Moved # {}
    OBVIOUS
  <2> QED
    BY <2>1, LeastPlace
<1>2. /\ k \in 1..Len(mirror) /\ pos[k] # k
      /\ pos[k] \in 1..Len(recorded) /\ mirror[k].chain = c[pos[k]]
      /\ c[pos[k]] = HashOf(c[pos[k] - 1], recorded[pos[k]])
  BY <1>1 DEF Chained
<1>3. HashBefore(k) = c[k - 1]
  <2>1. CASE k = 1
    BY <2>1 DEF HashBefore, Chained
  <2>2. CASE k # 1
    <3>1. k - 1 \in 1..Len(mirror) /\ ~(k <= k - 1)
      BY <1>2, <2>2
    <3>2. pos[k - 1] = k - 1
      BY <1>1, <3>1
    <3>3. mirror[k - 1].chain = c[pos[k - 1]]
      BY <3>1 DEF Chained
    <3> QED
      BY <2>2, <3>2, <3>3 DEF HashBefore
  <2> QED
    BY <2>1, <2>2
<1>4. c[k - 1] = c[pos[k] - 1]
  <2>1. HashOf(c[k - 1], mirror[k].data) = HashOf(c[pos[k] - 1], recorded[pos[k]])
    BY <1>2, <1>3 DEF Follows
  <2> QED
    BY <2>1, HashesDiffer
<1>5. k - 1 \in 0..Len(recorded) /\ pos[k] - 1 \in 0..Len(recorded)
  BY <1>0, <1>2 DEF MirrorInv
<1>6. k - 1 = pos[k] - 1
  BY <1>4, <1>5 DEF Chained
<1> QED
  BY <1>2, <1>6

LEMMA MirrorTells == ASSUME MirrorInv PROVE MirrorBlames
<1>1. PICK c, pos : Chained(c, pos)
  BY DEF MirrorInv
<1>2. /\ Len(mirror) \in Nat /\ DOMAIN mirror = 1..Len(mirror) /\ Len(recorded) \in Nat
      /\ Len(mirror) <= Len(recorded)
  BY MirrorShape DEF MirrorInv
<1> DEFINE Wrong == {i \in DOMAIN mirror : ~Follows(i)}
           Off == {i \in DOMAIN mirror : ~Unchanged(i)}
<1>3. Verify(mirror) = IF Wrong = {} THEN 0 ELSE CHOOSE i \in Wrong : \A j \in Wrong : i <= j
  BY DEF Verify, Follows, HashBefore
<1>4. ASSUME Len(recorded) - Len(mirror) = 0
      PROVE  Verify(mirror) = IF Off = {} THEN 0 ELSE CHOOSE i \in Off : \A j \in Off : i <= j
  <2>1. ASSUME NEW k \in 1..Len(mirror) PROVE pos[k] = k
    <3>1. pos[k] \in 1..Len(recorded) /\ k <= pos[k] /\ pos[k] <= k + (Len(recorded) - Len(mirror))
      BY <1>1 DEF Chained
    <3> QED
      BY <1>2, <1>4, <3>1
  <2>2. ASSUME NEW k \in 1..Len(mirror) PROVE Follows(k) <=> Unchanged(k)
    <3>1. k > 1 => k - 1 \in 1..Len(mirror)
      BY <1>2
    <3> QED
      BY <1>1, <2>1, <3>1, InPlace
  <2>3. Wrong = Off
    BY <1>2, <2>2
  <2> HIDE DEF Wrong, Off
  <2> QED
    BY <1>3, <2>3
<1>5. ASSUME Verify(mirror) = 0 PROVE Off = {}
  <2>1. Wrong = {}
    <3> SUFFICES ASSUME Wrong # {} PROVE FALSE
      OBVIOUS
    <3>1. Wrong \subseteq Nat
      BY <1>2
    <3>2. \E i \in Wrong : \A j \in Wrong : i <= j
      BY <3>1, LeastPlace
    <3>3. (CHOOSE i \in Wrong : \A j \in Wrong : i <= j) \in Wrong
      BY <3>2
    <3>4. 0 \in Wrong
      BY <1>3, <1>5, <3>3
    <3> QED
      BY <1>2, <3>4
  <2>2. \A k \in 1..Len(mirror) : Follows(k)
    BY <1>2, <2>1
  <2>3. \A k \in 1..Len(mirror) : pos[k] = k
    BY <1>1, <2>2, AllInPlace
  <2>4. ASSUME NEW k \in 1..Len(mirror) PROVE Unchanged(k)
    <3>1. k > 1 => k - 1 \in 1..Len(mirror)
      BY <1>2
    <3> QED
      BY <1>1, <2>2, <2>3, <3>1, InPlace
  <2> QED
    BY <1>2, <2>4
<1> QED
  BY <1>4, <1>5 DEF MirrorBlames, Unchanged

-----------------------------------------------------------------------------
\* After an erasure only keys registered since are alive, and the mirror tells what
\* was changed in its events or cut out of them, for any names, events and
\* numbers of keys and changes (crypto_eraser.rs, forensic_mirror.rs).
THEOREM EvidenceStands == EvidenceSpec => []EvidenceHolds
<1>1. EvidenceInit => EvidenceInv
  <2> SUFFICES ASSUME EvidenceInit PROVE EvidenceInv
    OBVIOUS
  <2>1. ErasedInv
    <3>1. keys = <<>> /\ erasures = <<>> /\ ~erased /\ DOMAIN keys = {}
      BY DEF EvidenceInit
    <3>2. keys \in Seq(KeySlot) /\ erasures \in Seq(Seq(Names))
      BY <3>1, EmptySeq
    <3>3. EraseIsComplete
      BY <3>1 DEF EraseIsComplete
    <3> QED
      BY <3>2, <3>3 DEF ErasedInv
  <2>2. /\ recorded \in Seq(Incident) /\ changes \in Nat /\ Len(mirror) = 0 /\ Len(recorded) = 0
        /\ mirror \in Seq([data : Incident, chain : {}])
    BY EmptySeq DEF EvidenceInit
  <2>3. Chained([k \in {0} |-> Zero], <<>>)
    BY <2>2 DEF Chained, EvidenceInit
  <2>4. MirrorInv
    BY <2>2, <2>3 DEF MirrorInv
  <2> QED
    BY <2>1, <2>4 DEF EvidenceInv
<1>2. EvidenceInv /\ [EvidenceNext]_evidenceVars => EvidenceInv'
  <2> SUFFICES ASSUME EvidenceInv, [EvidenceNext]_evidenceVars PROVE EvidenceInv'
    OBVIOUS
  <2>1. ErasedInv /\ MirrorInv
    BY DEF EvidenceInv
  <2>2. ASSUME UNCHANGED <<keys, erasures, erased>> PROVE ErasedInv'
    BY <2>1, <2>2 DEF ErasedInv, EraseIsComplete
  <2>3. ASSUME UNCHANGED <<mirror, tip, recorded, changes>> PROVE MirrorInv'
    <3>1. PICK c, pos : Chained(c, pos)
      BY <2>1 DEF MirrorInv
    <3>2. Chained(c, pos)'
      BY <2>3, <3>1 DEF Chained
    <3>3. /\ changes' \in Nat /\ recorded' \in Seq(Incident) /\ Len(mirror') <= Len(recorded')
          /\ \E hashes : mirror' \in Seq([data : Incident, chain : hashes])
      BY <2>1, <2>3 DEF MirrorInv
    <3> QED
      BY <3>2, <3>3 DEF MirrorInv
  <2>4. ASSUME NEW name \in Names, RegisterKey(name) PROVE EvidenceInv'
    <3>1. UNCHANGED <<mirror, tip, recorded, changes>>
      BY <2>4 DEF RegisterKey
    <3> QED
      BY <2>1, <2>3, <2>4, <3>1, RegisterKeeps DEF EvidenceInv
  <2>5. CASE Erase
    <3>1. UNCHANGED <<mirror, tip, recorded, changes>>
      BY <2>5 DEF Erase
    <3> QED
      BY <2>1, <2>3, <2>5, <3>1, EraseKeeps DEF EvidenceInv
  <2>6. ASSUME NEW e \in Incident, RecordEvent(e) PROVE EvidenceInv'
    <3>1. UNCHANGED <<keys, erasures, erased>>
      BY <2>6 DEF RecordEvent
    <3> QED
      BY <2>1, <2>2, <2>6, <3>1, RecordEventKeeps DEF EvidenceInv
  <2>7. ASSUME NEW i \in DOMAIN mirror, Lose(i) PROVE EvidenceInv'
    <3>1. UNCHANGED <<keys, erasures, erased>>
      BY <2>7 DEF Lose, Change
    <3> QED
      BY <2>1, <2>2, <2>7, <3>1, LoseKeeps DEF EvidenceInv
  <2>8. ASSUME NEW i \in DOMAIN mirror, NEW e \in Incident, Alter(i, e) PROVE EvidenceInv'
    <3>1. UNCHANGED <<keys, erasures, erased>>
      BY <2>8 DEF Alter, Change
    <3> QED
      BY <2>1, <2>2, <2>8, <3>1, AlterKeeps DEF EvidenceInv
  <2>9. CASE UNCHANGED evidenceVars
    BY <2>2, <2>3, <2>9 DEF EvidenceInv, evidenceVars
  <2> QED
    BY <2>4, <2>5, <2>6, <2>7, <2>8, <2>9 DEF EvidenceNext
<1>3. EvidenceInv => EvidenceHolds
  BY MirrorTells DEF EvidenceInv, ErasedInv, EvidenceHolds
<1> QED
  BY <1>1, <1>2, <1>3, PTL DEF EvidenceSpec

-----------------------------------------------------------------------------
(* Response, for any regions, processes, window, limit and list.  What is  *)
(* kept of the reads of a region are times of reads in the log, each once, *)
(* among them all that the window still holds; others may be left, since   *)
(* only a read of the region itself prunes.                                *)

ReadEvent == [region : Regions, at : Nat]

\* spot: for the reads of the log that are kept, where their times are.
Keeps(r, spot) ==
    /\ DOMAIN spot \subseteq {i \in DOMAIN readLog : readLog[i].region = r}
    /\ Within(r, minute) \subseteq DOMAIN spot
    /\ \A i \in DOMAIN spot : /\ spot[i] \in 1..Len(reads[r])
                               /\ reads[r][spot[i]] = readLog[i].at
    /\ \A i, j \in DOMAIN spot : spot[i] = spot[j] => i = j
    /\ \A k \in 1..Len(reads[r]) : \E i \in DOMAIN spot : spot[i] = k

ReadsInv ==
    /\ minute \in Nat
    /\ readLog \in Seq(ReadEvent)
    /\ enumerated \in Seq(BOOLEAN)
    /\ Len(enumerated) = Len(readLog)
    /\ reads \in [Regions -> Seq(Nat)]
    /\ \A i \in DOMAIN readLog : readLog[i].at <= minute
    /\ \A r \in Regions : \E spot : Keeps(r, spot)
    /\ EnumerationExact

-----------------------------------------------------------------------------
\* The window that ends now, counted in the list.
LEMMA KeptCount ==
    ASSUME NEW T, NEW m \in Nat, NEW spot,
           T \subseteq DOMAIN spot,
           \A i \in DOMAIN spot : spot[i] \in 1..m,
           \A i, j \in DOMAIN spot : spot[i] = spot[j] => i = j
    PROVE  /\ IsFiniteSet(T) /\ Cardinality(T) \in Nat /\ Cardinality(T) <= m
           /\ (T = DOMAIN spot /\ \A k \in 1..m : \E i \in DOMAIN spot : spot[i] = k)
                 => Cardinality(T) = m
<1> DEFINE f == [i \in T |-> spot[i]]
<1>1. f \in Injection(T, 1..m)
  BY DEF Injection, IsInjective
<1>2. IsFiniteSet(1..m) /\ Cardinality(1..m) = m
  BY FS_Interval
<1>3. IsFiniteSet(T) /\ Cardinality(T) <= m
  BY <1>1, <1>2, FS_Injection
<1>4. Cardinality(T) \in Nat
  BY <1>3, FS_CardinalityType
<1>5. ASSUME T = DOMAIN spot, \A k \in 1..m : \E i \in DOMAIN spot : spot[i] = k
      PROVE  Cardinality(T) = m
  <2>1. f \in Surjection(T, 1..m)
    BY <1>1, <1>5 DEF Injection, Surjection
  <2> QED
    BY <1>1, <1>2, <2>1, FS_Injection
<1> QED
  BY <1>3, <1>4, <1>5

\* A read of a region leaves in its list what its window holds, and itself.
LEMMA ReadKeeps ==
    ASSUME ResponseAssumption, ReadsInv, NEW r \in Regions,
           readLog' = Append(readLog, [region |-> r, at |-> minute]),
           reads' = [reads EXCEPT ![r] = Append(Pruned(reads[r]), minute)],
           minute' = minute
    PROVE  /\ reads' \in [Regions -> Seq(Nat)]
           /\ Len(reads'[r]) = Cardinality(Within(r, minute)')
           /\ \A q \in Regions : \E spot : Keeps(q, spot)'
           /\ readLog' \in Seq(ReadEvent) /\ Len(readLog') = Len(readLog) + 1
           /\ readLog'[Len(readLog) + 1] = [region |-> r, at |-> minute]
           /\ \A i \in DOMAIN readLog : readLog'[i] = readLog[i]
<1>1. PICK times \in Seq(Nat) : times = reads[r]
  BY DEF ReadsInv
<1>2. PICK n \in Nat : n = Len(readLog)
  BY DEF ReadsInv
<1>3. PICK spot : Keeps(r, spot)
  BY DEF ReadsInv
<1>4. minute \in Nat /\ readLog \in Seq(ReadEvent) /\ reads \in [Regions -> Seq(Nat)]
  BY DEF ReadsInv
<1>5. [region |-> r, at |-> minute] \in ReadEvent
  BY <1>4 DEF ReadEvent
<1>6. /\ readLog' \in Seq(ReadEvent) /\ Len(readLog') = n + 1
      /\ readLog'[n + 1] = [region |-> r, at |-> minute]
      /\ \A i \in 1..n : readLog'[i] = readLog[i]
      /\ DOMAIN readLog = 1..n /\ DOMAIN readLog' = 1..n + 1
  BY <1>2, <1>4, <1>5, AppendProperties
<1>7. PICK Stays : Stays = {k \in DOMAIN times : minute - times[k] <= ReadWindow}
  OBVIOUS
<1>8. Stays \subseteq DOMAIN times
  BY <1>7
<1>9. PICK c \in Nat : c = Cardinality(Stays)
  BY <1>8, RetainedShape
<1>10. PICK stays \in Seq(Nat) : stays = Retain(times, Stays)
  BY <1>8, RetainedShape
<1>11. /\ Len(stays) = c
       /\ \A k \in Stays : Rank(Stays, k) \in 1..c /\ stays[Rank(Stays, k)] = times[k]
       /\ \A k, l \in Stays : Rank(Stays, k) = Rank(Stays, l) => k = l
       /\ \A l \in 1..c : \E k \in Stays : Rank(Stays, k) = l
  BY <1>8, <1>9, <1>10, RetainedShape
<1>12. reads'[r] = Append(stays, minute)
  BY <1>1, <1>4, <1>7, <1>10 DEF Pruned
<1>13. /\ reads'[r] \in Seq(Nat) /\ Len(reads'[r]) = c + 1 /\ reads'[r][c + 1] = minute
       /\ \A k \in 1..c : reads'[r][k] = stays[k]
  <2>1. /\ Append(stays, minute) \in Seq(Nat) /\ Len(Append(stays, minute)) = Len(stays) + 1
        /\ \A k \in 1..Len(stays) : Append(stays, minute)[k] = stays[k]
        /\ Append(stays, minute)[Len(stays) + 1] = minute
    BY <1>4, <1>10, AppendProperties
  <2> QED
    BY <1>11, <1>12, <2>1
<1>14. PICK D : D = Within(r, minute)'
  OBVIOUS
<1>15. n + 1 \in D /\ \A i \in D : i \in 1..n + 1 /\ (i # n + 1 => i \in 1..n /\ i \in Within(r, minute))
  <2>1. D = {i \in 1..n + 1 : readLog'[i].region = r /\ readLog'[i].at <= minute
                                /\ minute - readLog'[i].at <= ReadWindow}
    BY <1>6, <1>14 DEF Within
  <2>2. n + 1 \in D
    <3>1. readLog'[n + 1].region = r /\ readLog'[n + 1].at = minute
      BY <1>6
    <3>2. minute <= minute /\ minute - minute <= ReadWindow
      BY <1>4 DEF ResponseAssumption
    <3>3. n + 1 \in 1..n + 1
      BY <1>2
    <3> QED
      BY <2>1, <3>1, <3>2, <3>3
  <2>3. ASSUME NEW i \in D, i # n + 1 PROVE i \in 1..n /\ i \in Within(r, minute)
    <3>1. i \in 1..n
      BY <2>1, <2>3
    <3> QED
      BY <1>6, <2>1, <3>1 DEF Within
  <2> QED
    BY <2>1, <2>2, <2>3
<1>16. ASSUME NEW i \in Within(r, minute)
       PROVE  i \in D /\ i \in 1..n /\ i \in DOMAIN spot /\ spot[i] \in Stays
  <2>1. /\ i \in 1..n /\ readLog[i].region = r
        /\ readLog[i].at <= minute /\ minute - readLog[i].at <= ReadWindow
    BY <1>6 DEF Within
  <2>2. i \in DOMAIN spot /\ spot[i] \in 1..Len(times) /\ times[spot[i]] = readLog[i].at
    BY <1>1, <1>3 DEF Keeps
  <2>3. spot[i] \in Stays
    BY <1>7, <2>1, <2>2
  <2>4. i \in D
    BY <1>6, <1>14, <2>1 DEF Within
  <2> QED
    BY <2>1, <2>2, <2>3, <2>4
<1>17. ASSUME NEW k \in Stays PROVE \E i \in Within(r, minute) : spot[i] = k
  <2>1. k \in 1..Len(times) /\ minute - times[k] <= ReadWindow
    BY <1>7
  <2>2. PICK i \in DOMAIN spot : spot[i] = k
    BY <1>1, <1>3, <2>1 DEF Keeps
  <2>3. i \in DOMAIN readLog /\ readLog[i].region = r /\ readLog[i].at = times[k]
    BY <1>1, <1>3, <2>2 DEF Keeps
  <2>4. readLog[i].at <= minute
    BY <2>3 DEF ReadsInv
  <2> QED
    BY <2>1, <2>2, <2>3, <2>4 DEF Within
<1>18. PICK new : /\ DOMAIN new = D
                  /\ \A i \in D : new[i] = IF i = n + 1 THEN c + 1 ELSE Rank(Stays, spot[i])
  <2> DEFINE f == [i \in D |-> IF i = n + 1 THEN c + 1 ELSE Rank(Stays, spot[i])]
  <2>1. DOMAIN f = D /\ \A i \in D : f[i] = IF i = n + 1 THEN c + 1 ELSE Rank(Stays, spot[i])
    OBVIOUS
  <2> HIDE DEF f
  <2> QED
    BY <2>1
<1>19. ASSUME NEW i \in D, i # n + 1
       PROVE  /\ i \in 1..n /\ i \in DOMAIN spot /\ spot[i] \in Stays
              /\ new[i] = Rank(Stays, spot[i]) /\ new[i] \in 1..c
              /\ reads'[r][new[i]] = readLog[i].at
  <2>1. i \in 1..n /\ i \in DOMAIN spot /\ spot[i] \in Stays
    BY <1>15, <1>16, <1>19
  <2>2. new[i] = Rank(Stays, spot[i]) /\ new[i] \in 1..c /\ stays[new[i]] = times[spot[i]]
    BY <1>11, <1>18, <1>19, <2>1
  <2>3. times[spot[i]] = readLog[i].at
    BY <1>1, <1>3, <2>1 DEF Keeps
  <2> QED
    BY <1>13, <2>1, <2>2, <2>3
<1>20. new[n + 1] = c + 1
  BY <1>15, <1>18
<1>21. ASSUME NEW i \in D
       PROVE  new[i] \in 1..c + 1 /\ reads'[r][new[i]] = readLog'[i].at /\ readLog'[i].region = r
  <2>1. readLog'[i].region = r
    BY <1>14 DEF Within
  <2>2. CASE i = n + 1
    BY <1>6, <1>9, <1>13, <1>20, <2>1, <2>2
  <2>3. CASE i # n + 1
    <3>1. i \in 1..n /\ new[i] \in 1..c /\ reads'[r][new[i]] = readLog[i].at
      BY <1>19, <2>3
    <3>2. readLog'[i] = readLog[i] /\ new[i] \in 1..c + 1
      BY <1>6, <1>9, <3>1
    <3> QED
      BY <2>1, <3>1, <3>2
  <2> QED
    BY <2>2, <2>3
<1>22. ASSUME NEW i \in D, NEW j \in D, new[i] = new[j] PROVE i = j
  <2>1. CASE i = n + 1 \/ j = n + 1
    BY <1>9, <1>19, <1>20, <1>22, <2>1
  <2>2. CASE i # n + 1 /\ j # n + 1
    <3>1. spot[i] = spot[j] /\ i \in DOMAIN spot /\ j \in DOMAIN spot
      BY <1>11, <1>19, <1>22, <2>2
    <3> QED
      BY <1>3, <3>1 DEF Keeps
  <2> QED
    BY <2>1, <2>2
<1>23. ASSUME NEW k \in 1..c + 1 PROVE \E i \in D : new[i] = k
  <2>1. CASE k = c + 1
    BY <1>15, <1>20, <2>1
  <2>2. CASE k # c + 1
    <3>1. k \in 1..c
      BY <2>2
    <3>2. PICK s \in Stays : Rank(Stays, s) = k
      BY <1>11, <3>1
    <3>3. PICK i \in Within(r, minute) : spot[i] = s
      BY <1>17
    <3>4. i \in D /\ i \in 1..n
      BY <1>16
    <3>5. i # n + 1
      BY <3>4
    <3> QED
      BY <1>18, <3>2, <3>3, <3>4, <3>5
  <2> QED
    BY <2>1, <2>2
<1>24. Keeps(r, new)'
  <2>1. DOMAIN new \subseteq {i \in DOMAIN readLog' : readLog'[i].region = r}
    BY <1>6, <1>15, <1>18, <1>21
  <2>2. Within(r, minute)' \subseteq DOMAIN new
    BY <1>14, <1>18
  <2> QED
    BY <1>13, <1>18, <1>21, <1>22, <1>23, <2>1, <2>2 DEF Keeps
<1>25. ASSUME NEW q \in Regions, q # r PROVE \E p : Keeps(q, p)'
  <2>1. PICK p : Keeps(q, p)
    BY DEF ReadsInv
  <2>2. reads'[q] = reads[q]
    BY <1>4, <1>25
  <2>3. DOMAIN p \subseteq {i \in DOMAIN readLog' : readLog'[i].region = q}
    BY <1>6, <2>1 DEF Keeps
  <2>4. \A i \in DOMAIN p : readLog'[i] = readLog[i]
    BY <1>6, <2>1 DEF Keeps
  <2>5. ASSUME NEW i \in Within(q, minute)' PROVE i \in DOMAIN p
    <3>1. /\ i \in 1..n + 1 /\ readLog'[i].region = q /\ readLog'[i].at <= minute
          /\ minute - readLog'[i].at <= ReadWindow
      BY <1>6 DEF Within
    <3>2. i # n + 1
      BY <1>6, <1>25, <3>1
    <3>3. i \in 1..n
      BY <3>1, <3>2
    <3>4. i \in Within(q, minute)
      BY <1>6, <3>1, <3>3 DEF Within
    <3> QED
      BY <2>1, <3>4 DEF Keeps
  <2>6. Keeps(q, p)'
    BY <2>1, <2>2, <2>3, <2>4, <2>5 DEF Keeps
  <2> QED
    BY <2>6
<1>26. Cardinality(D) = c + 1
  <2>1. c + 1 \in Nat /\ D = DOMAIN new
    BY <1>9, <1>18
  <2>2. /\ \A i \in DOMAIN new : new[i] \in 1..c + 1
        /\ \A i, j \in DOMAIN new : new[i] = new[j] => i = j
        /\ \A k \in 1..c + 1 : \E i \in DOMAIN new : new[i] = k
    BY <1>18, <1>21, <1>22, <1>23
  <2> QED
    BY <2>1, <2>2, KeptCount
<1>27. reads' \in [Regions -> Seq(Nat)]
  BY <1>4, <1>13
<1> QED
  BY <1>2, <1>6, <1>13, <1>14, <1>24, <1>25, <1>26, <1>27

\* What EnumerationExact says of the i-th read.
CountedAt(i) ==
    enumerated[i] <=>
        Cardinality({j \in Within(readLog[i].region, readLog[i].at) : j <= i}) >= ReadLimit

LEMMA ReadsGoOn ==
    ASSUME ResponseAssumption, ReadsInv, NEW r \in Regions, ObserveRead(r)
    PROVE  ReadsInv'
<1>1. PICK many \in BOOLEAN : many = (Len(Append(Pruned(reads[r]), minute)) >= ReadLimit)
  <2>1. (Len(Append(Pruned(reads[r]), minute)) >= ReadLimit) \in BOOLEAN
    OBVIOUS
  <2> QED
    BY <2>1, Zenon
<1>2. /\ readLog' = Append(readLog, [region |-> r, at |-> minute])
      /\ reads' = [reads EXCEPT ![r] = Append(Pruned(reads[r]), minute)]
      /\ minute' = minute
      /\ enumerated' = Append(enumerated, many)
  BY <1>1 DEF ObserveRead
<1>3. /\ minute \in Nat /\ readLog \in Seq(ReadEvent) /\ enumerated \in Seq(BOOLEAN)
      /\ Len(enumerated) = Len(readLog) /\ reads \in [Regions -> Seq(Nat)]
  BY DEF ReadsInv
<1>4. PICK n \in Nat : n = Len(readLog)
  BY <1>3
<1>5. /\ reads' \in [Regions -> Seq(Nat)]
      /\ Len(reads'[r]) = Cardinality(Within(r, minute)')
      /\ \A q \in Regions : \E spot : Keeps(q, spot)'
  BY <1>2, ReadKeeps
<1>6. /\ readLog' \in Seq(ReadEvent) /\ Len(readLog') = n + 1
      /\ readLog'[n + 1] = [region |-> r, at |-> minute]
      /\ \A i \in 1..n : readLog'[i] = readLog[i]
      /\ DOMAIN readLog = 1..n /\ DOMAIN readLog' = 1..n + 1
  <2>1. /\ readLog' \in Seq(ReadEvent) /\ Len(readLog') = Len(readLog) + 1
        /\ readLog'[Len(readLog) + 1] = [region |-> r, at |-> minute]
        /\ \A i \in DOMAIN readLog : readLog'[i] = readLog[i]
    BY <1>2, ReadKeeps
  <2>2. DOMAIN readLog = 1..n /\ DOMAIN readLog' = 1..n + 1
    BY <1>3, <1>4, <2>1
  <2> QED
    BY <1>4, <2>1, <2>2
<1>7. /\ enumerated' \in Seq(BOOLEAN) /\ Len(enumerated') = n + 1
      /\ enumerated'[n + 1] = many /\ \A i \in 1..n : enumerated'[i] = enumerated[i]
  BY <1>2, <1>3, <1>4, AppendProperties
<1>8. many = (Cardinality(Within(r, minute)') >= ReadLimit)
  <2>1. reads'[r] = Append(Pruned(reads[r]), minute)
    BY <1>2, <1>3
  <2> QED
    BY <1>1, <1>5, <2>1
<1>9. CountedAt(n + 1)'
  <2>1. readLog'[n + 1].region = r /\ readLog'[n + 1].at = minute
    BY <1>6
  <2>2. {j \in Within(r, minute)' : j <= n + 1} = Within(r, minute)'
    <3>1. \A j \in Within(r, minute)' : j \in 1..n + 1
      BY <1>6 DEF Within
    <3>2. \A j \in 1..n + 1 : j <= n + 1
      BY <1>4
    <3> QED
      BY <3>1, <3>2
  <2>3. {j \in Within(readLog[n + 1].region, readLog[n + 1].at)' : j <= n + 1} = Within(r, minute)'
    BY <1>2, <2>1, <2>2 DEF Within
  <2>4. enumerated'[n + 1] = (Cardinality(Within(r, minute)') >= ReadLimit)
    BY <1>7, <1>8
  <2> QED
    BY <2>3, <2>4 DEF CountedAt
<1>10. ASSUME NEW i \in 1..n PROVE CountedAt(i)'
  <2>1. CountedAt(i)
    BY <1>6 DEF ReadsInv, EnumerationExact, CountedAt
  <2>2. readLog'[i] = readLog[i] /\ enumerated'[i] = enumerated[i]
    BY <1>6, <1>7
  <2>3. \A j : j \in 1..n + 1 /\ j <= i <=> j \in 1..n /\ j <= i
    BY <1>4
  <2>4. {j \in Within(readLog[i].region, readLog[i].at)' : j <= i}
        = {j \in Within(readLog[i].region, readLog[i].at) : j <= i}
    BY <1>6, <2>2, <2>3 DEF Within
  <2> QED
    BY <2>1, <2>2, <2>4 DEF CountedAt
<1>11. EnumerationExact'
  <2>1. \A i \in 1..n + 1 : i = n + 1 \/ i \in 1..n
    BY <1>4
  <2>2. \A i \in DOMAIN readLog' : CountedAt(i)'
    BY <1>6, <1>9, <1>10, <2>1
  <2> QED
    BY <2>2 DEF EnumerationExact, CountedAt
<1>12. \A i \in DOMAIN readLog' : readLog'[i].at <= minute'
  <2> SUFFICES ASSUME NEW i \in DOMAIN readLog' PROVE readLog'[i].at <= minute
    BY <1>2
  <2>1. CASE i = n + 1
    BY <1>3, <1>6, <2>1
  <2>2. CASE i # n + 1
    <3>1. i \in 1..n
      BY <1>4, <1>6, <2>2
    <3> QED
      BY <1>6, <3>1 DEF ReadsInv
  <2> QED
    BY <2>1, <2>2
<1> QED
  BY <1>2, <1>3, <1>5, <1>6, <1>7, <1>11, <1>12 DEF ReadsInv

\* As time passes the window only loses reads.
LEMMA TimePasses == ASSUME ResponseAssumption, ReadsInv, ResponseTick PROVE ReadsInv'
<1>1. /\ minute' = minute + 1 /\ minute \in Nat /\ readLog' = readLog /\ reads' = reads
      /\ enumerated' = enumerated /\ readLog \in Seq(ReadEvent)
  BY DEF ResponseTick, ReadsInv, detector
<1>2. ASSUME NEW r \in Regions, NEW i \in Within(r, minute)' PROVE i \in Within(r, minute)
  <2>1. /\ i \in DOMAIN readLog /\ readLog[i].region = r
        /\ (minute + 1) - readLog[i].at <= ReadWindow
    BY <1>1 DEF Within
  <2>2. readLog[i] \in ReadEvent
    BY <1>1, <2>1
  <2>3. readLog[i].at <= minute /\ readLog[i].at \in Nat
    BY <2>1, <2>2 DEF ReadsInv, ReadEvent
  <2>4. minute - readLog[i].at <= ReadWindow
    BY <1>1, <2>1, <2>3 DEF ResponseAssumption
  <2> QED
    BY <2>1, <2>3, <2>4 DEF Within
<1>3. ASSUME NEW r \in Regions PROVE \E spot : Keeps(r, spot)'
  <2>1. PICK spot : Keeps(r, spot)
    BY DEF ReadsInv
  <2>2. Keeps(r, spot)'
    BY <1>1, <1>2, <2>1 DEF Keeps
  <2> QED
    BY <2>2
<1>4. EnumerationExact'
  BY <1>1 DEF ReadsInv, EnumerationExact, Within
<1>5. \A i \in DOMAIN readLog' : readLog'[i].at <= minute'
  <2> SUFFICES ASSUME NEW i \in DOMAIN readLog PROVE readLog[i].at <= minute + 1
    BY <1>1
  <2>1. readLog[i] \in ReadEvent
    BY <1>1
  <2>2. readLog[i].at <= minute /\ readLog[i].at \in Nat
    BY <2>1 DEF ReadsInv, ReadEvent
  <2> QED
    BY <1>1, <2>2
<1> QED
  BY <1>1, <1>3, <1>4, <1>5 DEF ReadsInv

LEMMA ReadsRest ==
    ASSUME ReadsInv, UNCHANGED <<minute, reads, readLog, enumerated>> PROVE ReadsInv'
<1>1. \A r \in Regions : \E spot : Keeps(r, spot)'
  <2> SUFFICES ASSUME NEW r \in Regions PROVE \E spot : Keeps(r, spot)'
    OBVIOUS
  <2>1. PICK spot : Keeps(r, spot)
    BY DEF ReadsInv
  <2>2. Within(r, minute)' = Within(r, minute)
    BY DEF Within
  <2>3. Keeps(r, spot)'
    BY <2>1, <2>2 DEF Keeps
  <2> QED
    BY <2>3
<1>2. EnumerationExact'
  BY DEF ReadsInv, EnumerationExact, Within
<1> QED
  BY <1>1, <1>2 DEF ReadsInv

\* Only evaluate writes the context, and it notes what it answers.
LEMMA AnswersNoted == ASSUME ContextIsAnswers, NEW e, Evaluate(e) PROVE ContextIsAnswers'
<1>1. PICK action : action = Decision(e)
  OBVIOUS
<1>2. PICK answer : answer = [event |-> e, action |-> action]
  OBVIOUS
<1>3. answer.action = action /\ answer.event = e
  BY <1>2
<1>4. /\ frozen' = frozen \cup (IF action = "FREEZE" THEN {"default"} ELSE {})
      /\ isolated' = isolated \cup (IF action = "ISOLATE" THEN {e.pid} \ {NoPid} ELSE {})
      /\ revoked' = revoked \cup (IF action = "REVOKE" THEN {"default"} ELSE {})
      /\ judged' = judged \cup {answer}
  BY <1>1, <1>2 DEF Evaluate, Applied
<1>5. frozen' # {} <=> \E j \in judged' : j.action = "FREEZE"
  BY <1>3, <1>4 DEF ContextIsAnswers
<1>6. revoked' # {} <=> \E j \in judged' : j.action = "REVOKE"
  BY <1>3, <1>4 DEF ContextIsAnswers
<1>7. isolated' = {j.event.pid : j \in {k \in judged' : k.action = "ISOLATE"}} \ {NoPid}
  <2>1. CASE action = "ISOLATE"
    <3>1. {k \in judged' : k.action = "ISOLATE"} = {k \in judged : k.action = "ISOLATE"} \cup {answer}
      BY <1>3, <1>4, <2>1
    <3> QED
      BY <1>3, <1>4, <2>1, <3>1 DEF ContextIsAnswers
  <2>2. CASE action # "ISOLATE"
    <3>1. {k \in judged' : k.action = "ISOLATE"} = {k \in judged : k.action = "ISOLATE"}
      BY <1>3, <1>4, <2>2
    <3> QED
      BY <1>4, <2>2, <3>1 DEF ContextIsAnswers
  <2> QED
    BY <2>1, <2>2
<1> QED
  BY <1>5, <1>6, <1>7 DEF ContextIsAnswers

LEMMA ResponseStarts == ResponseInit => ReadsInv /\ ContextIsAnswers
<1> SUFFICES ASSUME ResponseInit PROVE ReadsInv /\ ContextIsAnswers
  OBVIOUS
<1>1. /\ minute = 0 /\ reads = [r \in Regions |-> <<>>] /\ readLog = <<>> /\ enumerated = <<>>
      /\ frozen = {} /\ isolated = {} /\ revoked = {} /\ judged = {}
  BY DEF ResponseInit
<1>2. ContextIsAnswers
  BY <1>1 DEF ContextIsAnswers
<1>3. ASSUME NEW r \in Regions PROVE \E spot : Keeps(r, spot)
  <2>1. DOMAIN readLog = {} /\ Len(reads[r]) = 0
    BY <1>1
  <2>2. PICK spot : DOMAIN spot = {}
    <3>1. DOMAIN [i \in {} |-> 0] = {}
      OBVIOUS
    <3> QED
      BY <3>1
  <2>3. Within(r, minute) = {}
    BY <2>1 DEF Within
  <2>4. 1..Len(reads[r]) = {}
    BY <2>1
  <2>5. Keeps(r, spot)
    BY <2>2, <2>3, <2>4 DEF Keeps
  <2> QED
    BY <2>5
<1>4. EnumerationExact /\ \A i \in DOMAIN readLog : readLog[i].at <= minute
  BY <1>1 DEF EnumerationExact
<1> QED
  BY <1>1, <1>2, <1>3, <1>4 DEF ReadsInv

LEMMA NextReadsInv ==
    ASSUME ResponseAssumption, ReadsInv, ContextIsAnswers, [ResponseNext]_responseVars
    PROVE  ReadsInv' /\ ContextIsAnswers'
<1>1. CASE ResponseTick
  <2>1. ReadsInv'
    BY <1>1, TimePasses
  <2>2. ContextIsAnswers'
    BY <1>1 DEF ResponseTick, context, ContextIsAnswers
  <2> QED
    BY <2>1, <2>2
<1>2. ASSUME NEW r \in Regions, RegisterCanary(r) PROVE ReadsInv' /\ ContextIsAnswers'
  <2>1. UNCHANGED <<minute, reads, readLog, enumerated>>
    BY <1>2 DEF RegisterCanary
  <2>2. ContextIsAnswers'
    BY <1>2 DEF RegisterCanary, context, ContextIsAnswers
  <2> QED
    BY <2>1, <2>2, ReadsRest
<1>3. ASSUME NEW r \in Regions, ObserveRead(r) PROVE ReadsInv' /\ ContextIsAnswers'
  <2>1. ReadsInv'
    BY <1>3, ReadsGoOn
  <2>2. ContextIsAnswers'
    BY <1>3 DEF ObserveRead, context, ContextIsAnswers
  <2> QED
    BY <2>1, <2>2
<1>4. ASSUME UNCHANGED <<minute, detector, context>> PROVE ReadsInv' /\ ContextIsAnswers'
  <2>1. UNCHANGED <<minute, reads, readLog, enumerated>>
    BY <1>4 DEF detector
  <2>2. ContextIsAnswers'
    BY <1>4 DEF context, ContextIsAnswers
  <2> QED
    BY <2>1, <2>2, ReadsRest
<1>5. ASSUME NEW e, Evaluate(e) PROVE ReadsInv' /\ ContextIsAnswers'
  <2>1. UNCHANGED <<minute, reads, readLog, enumerated>>
    BY <1>5 DEF Evaluate, detector
  <2> QED
    BY <1>5, <2>1, ReadsRest, AnswersNoted
<1>6. CASE UNCHANGED responseVars
  BY <1>4, <1>6 DEF responseVars, detector, context
<1>7. ASSUME NEW r \in Regions, VerifyCanary(r) PROVE ReadsInv' /\ ContextIsAnswers'
  BY <1>4, <1>7 DEF VerifyCanary
<1>8. ASSUME NEW bits \in 6..9, ObserveWrite(bits) PROVE ReadsInv' /\ ContextIsAnswers'
  BY <1>4, <1>8 DEF ObserveWrite
<1>9. ASSUME NEW pid \in Pids, UnknownProcess(pid) \/ SeenWrite(pid) \/ \E allowed \in BOOLEAN : KeyAccess(pid, allowed)
      PROVE  ReadsInv' /\ ContextIsAnswers'
  BY <1>4, <1>9 DEF UnknownProcess, SeenWrite, KeyAccess
<1>10. ASSUME NEW type, NEW bits, SimulateEvent(type, bits) PROVE ReadsInv' /\ ContextIsAnswers'
  BY <1>4, <1>10 DEF SimulateEvent
<1> QED
  BY <1>1, <1>2, <1>3, <1>5, <1>6, <1>7, <1>8, <1>9, <1>10 DEF ResponseNext

\* Every read in the window is in the list, so the list is no shorter.
LEMMA NoneMissed == ASSUME ResponseAssumption, ReadsInv PROVE AlertsMissNone
<1> SUFFICES ASSUME NEW r \in Regions, Cardinality(Within(r, minute)) >= ReadLimit
             PROVE  Len(reads[r]) >= ReadLimit
  BY DEF AlertsMissNone, ManyReads
<1>1. PICK m \in Nat : m = Len(reads[r])
  BY DEF ReadsInv
<1>2. PICK spot : Keeps(r, spot)
  BY DEF ReadsInv
<1>3. /\ Within(r, minute) \subseteq DOMAIN spot
      /\ \A i \in DOMAIN spot : spot[i] \in 1..m
      /\ \A i, j \in DOMAIN spot : spot[i] = spot[j] => i = j
  BY <1>1, <1>2 DEF Keeps
<1>4. PICK w \in Nat : w = Cardinality(Within(r, minute)) /\ w <= m
  BY <1>3, KeptCount
<1> QED
  BY <1>1, <1>4 DEF ResponseAssumption

\* An observation counts what its window holds, whatever is read elsewhere and
\* whenever; the alerts miss no region; and the context is what was answered
\* (AnomalyDetector, PolicyEngine and ResponseContext).
THEOREM ResponsesAccount == ASSUME ResponseAssumption PROVE ResponseSpec => []ResponseAccounts
<1>1. ResponseInit => ReadsInv /\ ContextIsAnswers
  BY ResponseStarts
<1>2. (ReadsInv /\ ContextIsAnswers) /\ [ResponseNext]_responseVars => (ReadsInv /\ ContextIsAnswers)'
  BY NextReadsInv
<1>3. ReadsInv /\ ContextIsAnswers => ResponseAccounts
  BY NoneMissed DEF ReadsInv, ResponseAccounts
<1> QED
  BY <1>1, <1>2, <1>3, PTL DEF ResponseSpec

-----------------------------------------------------------------------------
(* Intrusion, for any windows, thresholds, blocks and bounds.  Both judges *)
(* keep the end of what was recorded: the invariant says that whatever has *)
(* been taken off the front was too old, and that the front was not when   *)
(* the last attempt was recorded.  Records are in the order of their times *)
(* and an attempt does not last longer than MaxTook, so that what is       *)
(* behind the front is not much older than the front.                      *)

Attempted == [at : Nat, block : Blocks, ok : BOOLEAN, took : Nat]

\* When the last attempt was recorded.
LastRecord == log[Len(log)].took

LogInOrder ==
    /\ moment \in Nat /\ moment <= MaxMoment
    /\ \A a \in inFlight : a.at \in Nat /\ a.block \in Blocks /\ a.at <= moment /\ moment <= a.at + MaxTook
    /\ log \in Seq(Attempted)
    /\ \A i \in DOMAIN log : /\ log[i].took <= moment
                             /\ log[i].at <= log[i].took /\ log[i].took <= log[i].at + MaxTook
    /\ \A i, j \in DOMAIN log : i <= j => log[i].took <= log[j].took

\* d attempts have left the window of the matrix, and the rest is in it.
EventsAre(d) ==
    /\ Len(events) = Len(log) - d
    /\ \A k \in 1..Len(events) : events[k].at = log[d + k].at /\ events[k].block = log[d + k].block
    /\ \A i \in 1..d : log[i].at + ScoreWindow < LastRecord
    /\ events # <<>> => events[1].at + ScoreWindow >= LastRecord

\* s is the last success, or 0, and after it f failures in all do not count.
FailuresAre(s, f) ==
    /\ s <= f /\ f <= Len(log)
    /\ s = 0 => lastSuccess = Never
    /\ s > 0 => log[s].ok /\ lastSuccess = log[s].took
    /\ \A i \in s + 1..Len(log) : ~log[i].ok
    /\ Len(failures) = Len(log) - f
    /\ \A k \in 1..Len(failures) : failures[k] = log[f + k].took
    /\ \A i \in s + 1..f : log[i].took + GriefWindow < LastRecord
    /\ failures # <<>> => failures[1] + GriefWindow >= LastRecord

JudgesInv ==
    /\ LogInOrder
    /\ events \in Seq(Attempted) /\ failures \in Seq(Nat)
    /\ \E d \in Nat : EventsAre(d)
    /\ \E s, f \in Nat : FailuresAre(s, f)
    /\ PenaltyFits

-----------------------------------------------------------------------------
\* Pruning takes off the front all that is too old before the first that is not.
LEMMA PruneDrops ==
    ASSUME NEW S, NEW evs \in Seq(S), NEW times, NEW cutoff
    PROVE  \E d \in 0..Len(evs) :
               /\ Prune(times, evs, cutoff) \in Seq(S)
               /\ Len(Prune(times, evs, cutoff)) = Len(evs) - d
               /\ \A k \in 1..Len(evs) - d : Prune(times, evs, cutoff)[k] = evs[d + k]
               /\ \A i \in 1..d : ~(times[i] >= cutoff)
               /\ d < Len(evs) => times[d + 1] >= cutoff
<1>1. PICK n \in Nat : n = Len(evs)
  OBVIOUS
<1>2. DOMAIN evs = 1..n /\ \A i \in 1..n : evs[i] \in S
  BY <1>1, ElementOfSeq
<1>3. PICK young : young = {i \in 1..n : times[i] >= cutoff}
  OBVIOUS
<1>4. PICK result : result = Prune(times, evs, cutoff)
  OBVIOUS
<1>5. CASE young = {}
  <2>1. result = <<>>
    BY <1>2, <1>3, <1>4, <1>5 DEF Prune
  <2>2. result \in Seq(S) /\ Len(result) = n - n
    BY <2>1
  <2>3. \A k \in 1..n - n : result[k] = evs[n + k]
    OBVIOUS
  <2>4. \A i \in 1..n : ~(times[i] >= cutoff)
    BY <1>3, <1>5
  <2> QED
    BY <1>1, <1>4, <2>2, <2>3, <2>4
<1>6. CASE young # {}
  <2>1. \E m \in young : \A j \in young : m <= j
    <3>1. young \subseteq Nat
      BY <1>3
    <3> QED
      BY <1>6, <3>1, LeastPlace
  <2>2. PICK m : m = CHOOSE i \in young : \A j \in young : i <= j
    OBVIOUS
  <2>3. m \in young /\ \A j \in young : m <= j
    BY <2>1, <2>2
  <2>4. m \in 1..n /\ times[m] >= cutoff
    BY <1>3, <2>3
  <2>5. result = SubSeq(evs, m, n)
    BY <1>1, <1>2, <1>3, <1>4, <1>6, <2>2 DEF Prune
  <2>6. \A i \in m..n : evs[i] \in S
    BY <1>2, <2>4
  <2>7. /\ result \in Seq(S)
        /\ Len(result) = (IF m <= n THEN n - m + 1 ELSE 0)
        /\ \A i \in 1..n - m + 1 : result[i] = evs[m + i - 1]
    BY <2>4, <2>5, <2>6, SubSeqProperties
  <2>8. PICK d \in 0..n : d = m - 1 /\ d < n
    BY <2>4
  <2>9. Len(result) = n - d
    BY <2>4, <2>7, <2>8
  <2>10. ASSUME NEW k \in 1..n - d PROVE result[k] = evs[d + k]
    <3>1. k \in 1..n - m + 1 /\ m + k - 1 = d + k
      BY <2>4, <2>8
    <3> QED
      BY <2>7, <3>1
  <2>11. ASSUME NEW i \in 1..d PROVE ~(times[i] >= cutoff)
    <3>1. i \in 1..n /\ ~(m <= i)
      BY <2>4, <2>8
    <3> QED
      BY <1>3, <2>3, <3>1
  <2>12. times[d + 1] >= cutoff
    <3>1. d + 1 = m
      BY <2>4, <2>8
    <3> QED
      BY <2>4, <3>1
  <2> QED
    BY <1>1, <1>4, <2>7, <2>9, <2>10, <2>11, <2>12
<1> QED
  BY <1>5, <1>6


LEMMA CutoffTells ==
    ASSUME moment \in Nat, NEW t \in Nat, NEW window \in Nat
    PROVE  t >= CutoffOf(window) <=> t + window >= moment
BY DEF CutoffOf

\* The record of an attempt that ends now.
LEMMA Recorded ==
    ASSUME JudgesInv, NEW a \in inFlight, NEW ok \in BOOLEAN,
           NEW rec, rec = [at |-> a.at, block |-> a.block, ok |-> ok, took |-> moment],
           log' = Append(log, rec), inFlight' = inFlight \ {a}, moment' = moment
    PROVE  /\ rec \in Attempted /\ LogInOrder'
           /\ Len(log') = Len(log) + 1 /\ log'[Len(log) + 1] = rec
           /\ \A i \in 1..Len(log) : log'[i] = log[i]
           /\ LastRecord' = moment
           /\ Len(log) > 0 => LastRecord <= moment
<1>1. /\ moment \in Nat /\ moment <= MaxMoment /\ log \in Seq(Attempted)
      /\ a.at \in Nat /\ a.block \in Blocks /\ a.at <= moment /\ moment <= a.at + MaxTook
  BY DEF JudgesInv, LogInOrder
<1>2. rec \in Attempted
  BY <1>1 DEF Attempted
<1>3. PICK n \in Nat : n = Len(log)
  BY <1>1
<1>4. /\ log' \in Seq(Attempted) /\ Len(log') = n + 1 /\ log'[n + 1] = rec
      /\ \A i \in 1..n : log'[i] = log[i]
  BY <1>1, <1>2, <1>3, AppendProperties
<1>5. DOMAIN log = 1..n /\ DOMAIN log' = 1..n + 1
  BY <1>1, <1>3, <1>4
<1>6. rec.at = a.at /\ rec.took = moment
  OBVIOUS
<1>7. \A i \in DOMAIN log' : i = n + 1 \/ i \in 1..n
  BY <1>3, <1>5
<1>8. ASSUME NEW i \in DOMAIN log'
      PROVE  /\ log'[i].took <= moment
             /\ log'[i].at <= log'[i].took /\ log'[i].took <= log'[i].at + MaxTook
  <2>1. CASE i = n + 1
    BY <1>1, <1>4, <1>6, <2>1
  <2>2. CASE i \in 1..n
    BY <1>4, <1>5, <2>2 DEF JudgesInv, LogInOrder
  <2> QED
    BY <1>7, <2>1, <2>2
<1>9. ASSUME NEW i \in DOMAIN log', NEW j \in DOMAIN log', i <= j
      PROVE  log'[i].took <= log'[j].took
  <2>1. CASE j = n + 1
    BY <1>4, <1>6, <1>8, <2>1
  <2>2. CASE j \in 1..n
    <3>1. i \in 1..n
      BY <1>3, <1>5, <1>9, <2>2
    <3> QED
      BY <1>4, <1>5, <1>9, <2>2, <3>1 DEF JudgesInv, LogInOrder
  <2> QED
    BY <1>7, <2>1, <2>2
<1>10. \A b \in inFlight' : b.at \in Nat /\ b.block \in Blocks /\ b.at <= moment /\ moment <= b.at + MaxTook
  BY DEF JudgesInv, LogInOrder
<1>11. LogInOrder'
  BY <1>1, <1>4, <1>8, <1>9, <1>10 DEF LogInOrder
<1>12. n > 0 => LastRecord <= moment
  <2>1. n > 0 => n \in DOMAIN log
    BY <1>5
  <2> QED
    BY <1>3, <2>1 DEF LastRecord, JudgesInv, LogInOrder
<1> QED
  BY <1>2, <1>3, <1>4, <1>6, <1>11, <1>12 DEF LastRecord

LEMMA MatrixSlides ==
    ASSUME IntrusionAssumption, JudgesInv, NEW a \in inFlight, NEW ok \in BOOLEAN,
           NEW rec, rec = [at |-> a.at, block |-> a.block, ok |-> ok, took |-> moment],
           NEW e, e = [at |-> a.at, block |-> a.block, ok |-> ok, took |-> moment - a.at],
           log' = Append(log, rec), inFlight' = inFlight \ {a}, moment' = moment,
           RecordAttempt(e)
    PROVE  events' \in Seq(Attempted) /\ \E d \in Nat : EventsAre(d)'
<1>1. PICK n \in Nat : n = Len(log)
  BY DEF JudgesInv, LogInOrder
<1>2. PICK d \in Nat : EventsAre(d)
  BY DEF JudgesInv
<1>3. /\ rec \in Attempted /\ Len(log') = n + 1 /\ log'[n + 1] = rec
      /\ \A i \in 1..n : log'[i] = log[i]
      /\ LastRecord' = moment
      /\ n > 0 => LastRecord <= moment
  BY <1>1, Recorded
<1>4. /\ moment \in Nat /\ log \in Seq(Attempted) /\ events \in Seq(Attempted)
      /\ ScoreWindow \in Nat /\ \A i \in 1..n : log[i].at \in Nat /\ log[i].took \in Nat
      /\ n > 0 => LastRecord \in Nat
  <2>1. /\ moment \in Nat /\ log \in Seq(Attempted) /\ events \in Seq(Attempted)
        /\ ScoreWindow \in Nat
    BY DEF JudgesInv, LogInOrder, IntrusionAssumption
  <2>2. \A i \in 1..n : log[i].at \in Nat /\ log[i].took \in Nat
    <3>1. \A i \in 1..n : log[i] \in Attempted
      BY <1>1, <2>1
    <3> QED
      BY <3>1 DEF Attempted
  <2> QED
    BY <1>1, <2>1, <2>2 DEF LastRecord
<1>5. e \in Attempted /\ e.at = a.at /\ e.block = a.block
  <2>1. a.at \in Nat /\ a.block \in Blocks /\ a.at <= moment
    BY DEF JudgesInv, LogInOrder
  <2>2. moment - a.at \in Nat
    BY <1>4, <2>1
  <2> QED
    BY <2>1, <2>2 DEF Attempted
<1>6. PICK all \in Seq(Attempted) : all = Append(events, e)
  BY <1>4, <1>5, AppendProperties
<1>7. PICK m \in Nat : m = Len(events) /\ m = n - d
  <2>1. Len(events) \in Nat
    BY <1>4, LenProperties
  <2>2. Len(events) = n - d
    BY <1>1, <1>2 DEF EventsAre
  <2> QED
    BY <2>1, <2>2
<1>8. Len(all) = m + 1 /\ all[m + 1] = e /\ \A k \in 1..m : all[k] = events[k]
  <2>1. /\ Len(Append(events, e)) = Len(events) + 1
        /\ \A k \in 1..Len(events) : Append(events, e)[k] = events[k]
        /\ Append(events, e)[Len(events) + 1] = e
    BY <1>4, <1>5, AppendProperties
  <2> QED
    BY <1>6, <1>7, <2>1
<1>9. ASSUME NEW k \in 1..m + 1
      PROVE  all[k].at = log'[d + k].at /\ all[k].block = log'[d + k].block /\ all[k].at \in Nat
  <2>1. all[k] \in Attempted
    BY <1>8
  <2>2. CASE k = m + 1
    <3>1. d + k = n + 1
      BY <1>7, <2>2
    <3> QED
      <4>1. all[k] = e /\ log'[d + k] = rec
        BY <1>3, <1>8, <2>2, <3>1
      <4>2. rec.at = a.at /\ rec.block = a.block
        OBVIOUS
      <4>3. e.at \in Nat
        BY <1>5 DEF Attempted
      <4> QED
        BY <1>5, <4>1, <4>2, <4>3
  <2>3. CASE k # m + 1
    <3>1. k \in 1..m /\ d + k \in 1..n
      BY <1>7, <2>3
    <3> QED
      BY <1>2, <1>3, <1>7, <1>8, <2>1, <3>1 DEF EventsAre, Attempted
  <2> QED
    BY <2>2, <2>3
<1>10. PICK cutoff : cutoff = CutoffOf(ScoreWindow)
  OBVIOUS
<1>11. PICK times : times = Times(all)
  OBVIOUS
<1>12. \A k \in 1..m + 1 : times[k] = all[k].at
  BY <1>8, <1>11 DEF Times
<1>13. events' = Prune(times, all, cutoff)
  BY <1>6, <1>10, <1>11 DEF RecordAttempt
<1>14. PICK x \in 0..m + 1 :
           /\ events' \in Seq(Attempted) /\ Len(events') = m + 1 - x
           /\ \A k \in 1..m + 1 - x : events'[k] = all[x + k]
           /\ \A i \in 1..x : ~(times[i] >= cutoff)
           /\ x < m + 1 => times[x + 1] >= cutoff
  <2>1. all \in Seq(Attempted) /\ m + 1 \in Nat /\ m + 1 = Len(all)
    BY <1>6, <1>7, <1>8
  <2>2. PICK x \in 0..Len(all) :
            /\ Prune(times, all, cutoff) \in Seq(Attempted)
            /\ Len(Prune(times, all, cutoff)) = Len(all) - x
            /\ \A k \in 1..Len(all) - x : Prune(times, all, cutoff)[k] = all[x + k]
            /\ \A i \in 1..x : ~(times[i] >= cutoff)
            /\ x < Len(all) => times[x + 1] >= cutoff
    BY <2>1, PruneDrops
  <2>3. x \in 0..m + 1 /\ m + 1 - x = Len(all) - x
    BY <2>1, <2>2
  <2>4. events' \in Seq(Attempted) /\ Len(events') = m + 1 - x
    BY <1>13, <2>2, <2>3, Zenon
  <2>5. \A k \in 1..m + 1 - x : events'[k] = all[x + k]
    BY <1>13, <2>2, <2>3, Zenon
  <2>6. x < m + 1 => times[x + 1] >= cutoff
    BY <2>1, <2>2, Zenon
  <2> QED
    BY <2>2, <2>3, <2>4, <2>5, <2>6, Zenon
<1>15. PICK y \in Nat : y = d + x
  BY <1>14
<1>16. Len(events') = Len(log') - y
  BY <1>3, <1>7, <1>14, <1>15
<1>17. ASSUME NEW k \in 1..Len(events')
       PROVE  events'[k].at = log'[y + k].at /\ events'[k].block = log'[y + k].block
  <2>1. k \in 1..m + 1 - x /\ x + k \in 1..m + 1 /\ d + (x + k) = y + k
    BY <1>14, <1>15
  <2> QED
    BY <1>9, <1>14, <2>1
<1>18. ASSUME NEW i \in 1..y PROVE log'[i].at + ScoreWindow < LastRecord'
  <2>1. CASE i <= d
    <3>1. i \in 1..d /\ i \in 1..n /\ n > 0
      BY <1>7, <2>1
    <3>2. log[i].at + ScoreWindow < LastRecord /\ LastRecord <= moment /\ log'[i] = log[i]
      BY <1>2, <1>3, <3>1 DEF EventsAre
    <3>3. log[i].at \in Nat /\ LastRecord \in Nat
      BY <1>4, <3>1
    <3>4. log[i].at + ScoreWindow < moment
      BY <1>4, <3>2, <3>3
    <3> QED
      BY <1>3, <3>2, <3>4
  <2>2. CASE ~(i <= d)
    <3>1. PICK k \in 1..x : d + k = i
      <4>1. i - d \in 1..x /\ d + (i - d) = i
        BY <1>14, <1>15, <2>2
      <4> QED
        BY <4>1
    <3>2. k \in 1..m + 1
      BY <1>14
    <3>3. all[k].at = log'[i].at /\ all[k].at \in Nat /\ ~(all[k].at >= cutoff)
      BY <1>9, <1>12, <1>14, <3>1, <3>2
    <3>4. ~(all[k].at + ScoreWindow >= moment)
      BY <1>4, <1>10, <3>3, CutoffTells
    <3>5. all[k].at + ScoreWindow < moment
      <4>1. PICK t \in Nat : t = all[k].at
        BY <3>3
      <4>2. moment \in Nat /\ ScoreWindow \in Nat
        BY <1>4
      <4>3. t + ScoreWindow < moment
        BY <3>4, <4>1, <4>2
      <4> QED
        BY <4>1, <4>3
    <3> QED
      BY <1>3, <3>3, <3>5
  <2> QED
    BY <2>1, <2>2
<1>19. ASSUME events' # <<>> PROVE events'[1].at + ScoreWindow >= LastRecord'
  <2>1. Len(events') # 0
    BY <1>14, <1>19, EmptySeq
  <2>2. x < m + 1 /\ x + 1 \in 1..m + 1 /\ 1 \in 1..m + 1 - x
    BY <1>14, <2>1
  <2>3. events'[1] = all[x + 1] /\ all[x + 1].at >= cutoff /\ all[x + 1].at \in Nat
    BY <1>9, <1>12, <1>14, <2>2
  <2> QED
    BY <1>3, <1>4, <1>10, <2>3, CutoffTells
<1>20. EventsAre(y)'
  BY <1>16, <1>17, <1>18, <1>19 DEF EventsAre
<1> QED
  BY <1>14, <1>20


\* What an attempt that fails leaves of the failures, and how many count.
LEMMA GriefSlides ==
    ASSUME IntrusionAssumption, JudgesInv, NEW a \in inFlight,
           NEW rec, rec = [at |-> a.at, block |-> a.block, ok |-> FALSE, took |-> moment],
           log' = Append(log, rec), inFlight' = inFlight \ {a}, moment' = moment,
           RecordFailure
    PROVE  failures' \in Seq(Nat) /\ \E s, f \in Nat : FailuresAre(s, f)'
<1>1. PICK n \in Nat : n = Len(log)
  BY DEF JudgesInv, LogInOrder
<1>2. PICK s \in Nat, f \in Nat : FailuresAre(s, f)
  BY DEF JudgesInv
<1>3. /\ Len(log') = n + 1 /\ log'[n + 1] = rec
      /\ \A i \in 1..n : log'[i] = log[i]
      /\ LastRecord' = moment
      /\ n > 0 => LastRecord <= moment
  BY <1>1, Recorded
<1>4. /\ moment \in Nat /\ log \in Seq(Attempted) /\ failures \in Seq(Nat) /\ GriefWindow \in Nat
      /\ \A i \in 1..n : log[i].took \in Nat
      /\ n > 0 => LastRecord \in Nat
  <2>1. moment \in Nat /\ log \in Seq(Attempted) /\ failures \in Seq(Nat) /\ GriefWindow \in Nat
    BY DEF JudgesInv, LogInOrder, IntrusionAssumption
  <2>2. \A i \in 1..n : log[i].took \in Nat
    <3>1. \A i \in 1..n : log[i] \in Attempted
      BY <1>1, <2>1
    <3> QED
      BY <3>1 DEF Attempted
  <2> QED
    BY <1>1, <2>1, <2>2 DEF LastRecord
<1>5. ~rec.ok /\ rec.took = moment
  BY Zenon
<1>6. PICK all \in Seq(Nat) : all = Append(failures, moment)
  BY <1>4, AppendProperties
<1>7. PICK m \in Nat : m = Len(failures) /\ m = n - f
  <2>1. Len(failures) \in Nat
    BY <1>4, LenProperties
  <2>2. Len(failures) = n - f
    BY <1>1, <1>2 DEF FailuresAre
  <2> QED
    BY <2>1, <2>2
<1>8. Len(all) = m + 1 /\ all[m + 1] = moment /\ \A k \in 1..m : all[k] = failures[k]
  <2>1. /\ Len(Append(failures, moment)) = Len(failures) + 1
        /\ \A k \in 1..Len(failures) : Append(failures, moment)[k] = failures[k]
        /\ Append(failures, moment)[Len(failures) + 1] = moment
    BY <1>4, AppendProperties
  <2> QED
    BY <1>6, <1>7, <2>1
<1>9. ASSUME NEW k \in 1..m + 1 PROVE all[k] = log'[f + k].took /\ all[k] \in Nat
  <2>1. all[k] \in Nat
    BY <1>8
  <2>2. CASE k = m + 1
    <3>1. f + k = n + 1
      BY <1>7, <2>2
    <3> QED
      BY <1>3, <1>5, <1>8, <2>1, <2>2, <3>1
  <2>3. CASE k # m + 1
    <3>1. k \in 1..m /\ f + k \in 1..n
      BY <1>7, <2>3
    <3> QED
      <4>1. all[k] = failures[k] /\ log'[f + k] = log[f + k]
        BY <1>3, <1>8, <3>1
      <4>2. failures[k] = log[f + k].took
        BY <1>2, <1>7, <3>1 DEF FailuresAre
      <4> QED
        BY <2>1, <4>1, <4>2
  <2> QED
    BY <2>2, <2>3
<1>10. PICK cutoff : cutoff = CutoffOf(GriefWindow)
  OBVIOUS
<1>11. failures' = Prune(all, all, cutoff) /\ lastSuccess' = lastSuccess
  BY <1>6, <1>10 DEF RecordFailure
<1>12. PICK x \in 0..m + 1 :
           /\ failures' \in Seq(Nat) /\ Len(failures') = m + 1 - x
           /\ \A k \in 1..m + 1 - x : failures'[k] = all[x + k]
           /\ \A i \in 1..x : ~(all[i] >= cutoff)
           /\ x < m + 1 => all[x + 1] >= cutoff
  <2>1. all \in Seq(Nat) /\ m + 1 \in Nat /\ m + 1 = Len(all)
    BY <1>6, <1>7, <1>8
  <2>2. PICK x \in 0..Len(all) :
            /\ Prune(all, all, cutoff) \in Seq(Nat)
            /\ Len(Prune(all, all, cutoff)) = Len(all) - x
            /\ \A k \in 1..Len(all) - x : Prune(all, all, cutoff)[k] = all[x + k]
            /\ \A i \in 1..x : ~(all[i] >= cutoff)
            /\ x < Len(all) => all[x + 1] >= cutoff
    BY <2>1, PruneDrops
  <2>3. x \in 0..m + 1 /\ m + 1 - x = Len(all) - x
    BY <2>1, <2>2
  <2>4. failures' \in Seq(Nat) /\ Len(failures') = m + 1 - x
    BY <1>11, <2>2, <2>3, Zenon
  <2>5. \A k \in 1..m + 1 - x : failures'[k] = all[x + k]
    BY <1>11, <2>2, <2>3, Zenon
  <2>6. x < m + 1 => all[x + 1] >= cutoff
    BY <2>1, <2>2, Zenon
  <2> QED
    BY <2>2, <2>3, <2>4, <2>5, <2>6, Zenon
<1>13. PICK g \in Nat : g = f + x
  BY <1>12
<1>14. /\ s <= g /\ g <= Len(log') /\ Len(failures') = Len(log') - g
  <2>1. s <= f
    BY <1>2 DEF FailuresAre
  <2> QED
    BY <1>3, <1>7, <1>12, <1>13, <2>1
<1>15. /\ s = 0 => lastSuccess' = Never
       /\ s > 0 => log'[s].ok /\ lastSuccess' = log'[s].took
  <2>1. s \in 0..n
    BY <1>1, <1>2 DEF FailuresAre
  <2>2. s > 0 => log'[s] = log[s]
    BY <1>3, <2>1
  <2> QED
    BY <1>2, <1>11, <2>2 DEF FailuresAre
<1>16. ASSUME NEW i \in s + 1..Len(log') PROVE ~log'[i].ok
  <2>1. CASE i = n + 1
    BY <1>3, <1>5, <2>1
  <2>2. CASE i # n + 1
    <3>1. i \in s + 1..n /\ i \in 1..n
      BY <1>3, <2>2
    <3> QED
      BY <1>1, <1>2, <1>3, <3>1 DEF FailuresAre
  <2> QED
    BY <2>1, <2>2
<1>17. ASSUME NEW k \in 1..Len(failures') PROVE failures'[k] = log'[g + k].took
  <2>1. k \in 1..m + 1 - x /\ x + k \in 1..m + 1 /\ f + (x + k) = g + k
    BY <1>12, <1>13
  <2> QED
    BY <1>9, <1>12, <2>1
<1>18. ASSUME NEW i \in s + 1..g PROVE log'[i].took + GriefWindow < LastRecord'
  <2>1. CASE i <= f
    <3>1. i \in s + 1..f /\ i \in 1..n /\ n > 0
      BY <1>7, <2>1
    <3>2. log[i].took + GriefWindow < LastRecord /\ LastRecord <= moment /\ log'[i] = log[i]
      BY <1>2, <1>3, <3>1 DEF FailuresAre
    <3>3. log[i].took \in Nat /\ LastRecord \in Nat
      BY <1>4, <3>1
    <3>4. log[i].took + GriefWindow < moment
      <4>1. moment \in Nat /\ GriefWindow \in Nat
        BY <1>4
      <4> QED
        BY <3>2, <3>3, <4>1
    <3> QED
      BY <1>3, <3>2, <3>4
  <2>2. CASE ~(i <= f)
    <3>1. PICK k \in 1..x : f + k = i
      <4>1. i - f \in 1..x /\ f + (i - f) = i
        BY <1>12, <1>13, <2>2
      <4> QED
        BY <4>1
    <3>2. k \in 1..m + 1
      BY <1>12
    <3>3. PICK t \in Nat : t = log'[i].took /\ ~(t >= cutoff)
      BY <1>9, <1>12, <3>1, <3>2
    <3>4. ~(t + GriefWindow >= moment)
      BY <1>4, <1>10, <3>3, CutoffTells
    <3>5. t + GriefWindow < moment
      <4>1. moment \in Nat /\ GriefWindow \in Nat
        BY <1>4
      <4> QED
        BY <3>4, <4>1
    <3> QED
      BY <1>3, <3>3, <3>5
  <2> QED
    BY <2>1, <2>2
<1>19. ASSUME failures' # <<>> PROVE failures'[1] + GriefWindow >= LastRecord'
  <2>1. Len(failures') # 0
    BY <1>12, <1>19, EmptySeq
  <2>2. x < m + 1 /\ x + 1 \in 1..m + 1 /\ 1 \in 1..m + 1 - x
    BY <1>12, <2>1
  <2>3. PICK t \in Nat : t = failures'[1] /\ t >= cutoff
    BY <1>9, <1>12, <2>2
  <2> QED
    BY <1>3, <1>4, <1>10, <2>3, CutoffTells
<1>20. FailuresAre(s, g)'
  BY <1>14, <1>15, <1>16, <1>17, <1>18, <1>19 DEF FailuresAre
<1> QED
  BY <1>12, <1>20


LEMMA Between ==
    \A a, b \in Int : Cardinality(a..b) = IF a > b THEN 0 ELSE b - a + 1
BY FS_Interval

\* The failures that count are the last ones, and the cooldown is about the last
\* success.
LEMMA PenaltyIs ==
    ASSUME IntrusionAssumption, LogInOrder', NEW s \in Nat, NEW f \in Nat, FailuresAre(s, f)',
           LastRecord' = moment, moment' = moment, moment \in Nat, moment <= MaxMoment, lastSuccess' = lastSuccess,
           failures' \in Seq(Nat), multiplier' = MultiplierOf(Len(failures'))
    PROVE  PenaltyFits'
<1>1. PICK n \in Nat : n = Len(log')
  BY DEF LogInOrder
<1>2. /\ DOMAIN log' = 1..n /\ MaxMoment \in Nat /\ GriefWindow \in Nat
      /\ \A i \in 1..n : log'[i].took \in Nat /\ log'[i].took <= moment'
      /\ \A i, j \in 1..n : i <= j => log'[i].took <= log'[j].took
  <2>1. log' \in Seq(Attempted) /\ DOMAIN log' = 1..n
    BY <1>1 DEF LogInOrder
  <2>2. \A i \in 1..n : log'[i] \in Attempted
    BY <1>1, <2>1
  <2>3. \A i \in 1..n : log'[i].took \in Nat
    BY <2>2 DEF Attempted
  <2> QED
    BY <2>1, <2>3 DEF LogInOrder, IntrusionAssumption
<1>3. /\ s <= f /\ f <= n
      /\ s = 0 => lastSuccess = Never
      /\ s > 0 => log'[s].ok /\ lastSuccess = log'[s].took
      /\ \A i \in s + 1..n : ~log'[i].ok
      /\ Len(failures') = n - f
      /\ \A k \in 1..Len(failures') : failures'[k] = log'[f + k].took
      /\ \A i \in s + 1..f : log'[i].took + GriefWindow < moment
      /\ failures' # <<>> => failures'[1] + GriefWindow >= moment
  BY <1>1 DEF FailuresAre
<1>4. PICK Successes : Successes = {i \in 1..n : log'[i].ok}
  OBVIOUS
<1>5. PICK Counted : Counted = {i \in 1..n : /\ ~log'[i].ok
                                             /\ log'[i].took + GriefWindow >= moment
                                             /\ \A j \in Successes : j < i}
  OBVIOUS
<1>6. \A j \in Successes : j \in 1..n /\ j <= s
  <2> SUFFICES ASSUME NEW j \in Successes PROVE j \in 1..n /\ j <= s
    OBVIOUS
  <2>1. j \in 1..n /\ log'[j].ok
    BY <1>4
  <2>2. j \notin s + 1..n
    BY <1>3, <2>1
  <2> QED
    BY <2>1, <2>2
<1>7. s > 0 => s \in Successes
  BY <1>3, <1>4
<1>8. Counted = f + 1..n
  <2>1. ASSUME NEW i \in Counted PROVE i \in f + 1..n
    <3>1. i \in 1..n /\ log'[i].took + GriefWindow >= moment /\ \A j \in Successes : j < i
      BY <1>5
    <3>2. i > s
      BY <1>7, <3>1
    <3>3. i \notin s + 1..f
      <4>1. SUFFICES ASSUME i \in s + 1..f PROVE FALSE
        OBVIOUS
      <4>2. log'[i].took + GriefWindow < moment
        BY <1>3, <4>1
      <4>3. PICK t \in Nat : t = log'[i].took
        BY <1>2, <3>1
      <4>4. t + GriefWindow >= moment /\ t + GriefWindow < moment /\ GriefWindow \in Nat
        BY <1>2, <3>1, <4>2, <4>3
      <4> QED
        BY <4>4
    <3> QED
      BY <3>1, <3>2, <3>3
  <2>2. ASSUME NEW i \in f + 1..n PROVE i \in Counted
    <3>1. i \in 1..n /\ i \in s + 1..n /\ f + 1 \in 1..n /\ f + 1 <= i
      BY <1>3
    <3>2. ~log'[i].ok
      BY <1>3, <3>1
    <3>3. Len(failures') # 0 /\ 1 \in 1..Len(failures')
      BY <1>3, <3>1
    <3>4. failures'[1] + GriefWindow >= moment /\ failures'[1] = log'[f + 1].took
      <4>1. failures' # <<>>
        BY <3>3
      <4> QED
        BY <1>3, <3>3, <4>1
    <3>5. log'[i].took + GriefWindow >= moment
      <4>1. PICK t \in Nat, u \in Nat : t = log'[i].took /\ u = log'[f + 1].took /\ u <= t
        BY <1>2, <3>1
      <4>2. PICK g \in Nat, m \in Nat : g = GriefWindow /\ m = moment
        BY <1>2
      <4>3. u + g >= m
        BY <3>4, <4>1, <4>2
      <4>4. t + g >= m
        <5>1. t \in Nat /\ u \in Nat /\ u <= t
          BY <4>1
        <5>2. g \in Nat /\ m \in Nat
          BY <4>2
        <5> QED
          BY <4>3, <5>1, <5>2
      <4> QED
        BY <4>1, <4>2, <4>4
    <3>6. \A j \in Successes : j < i
      BY <1>3, <1>6, <3>1
    <3> QED
      BY <1>5, <3>1, <3>2, <3>5, <3>6
  <2> QED
    BY <2>1, <2>2
<1>9. Count(Counted) = Len(failures')
  <2>1. f + 1 \in Int /\ n \in Int
    OBVIOUS
  <2>2. Cardinality(f + 1..n) = IF f + 1 > n THEN 0 ELSE n - (f + 1) + 1
    BY <2>1, Between
  <2>3. Cardinality(f + 1..n) = n - f
    BY <1>3, <2>2
  <2> QED
    BY <1>3, <1>8, <2>3 DEF Count
<1>10. (\E j \in Successes : moment - log'[j].took < Cooldown)
       <=> lastSuccess # Never /\ moment - lastSuccess < Cooldown
  <2>1. ASSUME NEW j \in Successes, moment - log'[j].took < Cooldown
        PROVE  lastSuccess # Never /\ moment - lastSuccess < Cooldown
    <3>1. j \in 1..n /\ j <= s /\ s > 0 /\ s \in 1..n
      BY <1>3, <1>6
    <3>2. PICK t \in Nat, u \in Nat : t = log'[j].took /\ u = log'[s].took /\ t <= u /\ u <= moment'
      BY <1>2, <3>1
    <3>3. lastSuccess = u
      BY <1>3, <3>1, <3>2
    <3>4. moment' \in Nat /\ moment' <= MaxMoment
      BY DEF LogInOrder
    <3>5. u # Never
      BY <1>2, <3>2, <3>4 DEF Never
    <3>6. moment - u < Cooldown
      <4>1. PICK c \in Nat, m \in Nat : c = Cooldown /\ m = moment
        BY DEF IntrusionAssumption
      <4>2. m - t < c
        BY <2>1, <3>2, <4>1
      <4>3. m - u < c
        <5>1. t \in Nat /\ u \in Nat /\ t <= u
          BY <3>2
        <5>2. c \in Nat /\ m \in Nat
          BY <4>1
        <5> QED
          BY <4>2, <5>1, <5>2
      <4> QED
        BY <4>1, <4>3
    <3> QED
      BY <3>3, <3>5, <3>6
  <2>2. ASSUME lastSuccess # Never, moment - lastSuccess < Cooldown
        PROVE  \E j \in Successes : moment - log'[j].took < Cooldown
    <3>1. s > 0
      BY <1>3, <2>2
    <3> QED
      BY <1>3, <1>7, <2>2, <3>1
  <2> QED
    BY <2>1, <2>2
<1> QED
  <2>1. LastRecord' = log'[n].took /\ LastRecord' = moment
    BY <1>1 DEF LastRecord
  <2> QED
    BY <1>1, <1>2, <1>3, <1>4, <1>5, <1>9, <1>10, <2>1 DEF PenaltyFits, MultiplierOf


LEMMA SuccessForgets ==
    ASSUME IntrusionAssumption, JudgesInv, NEW a \in inFlight,
           NEW rec, rec = [at |-> a.at, block |-> a.block, ok |-> TRUE, took |-> moment],
           log' = Append(log, rec), inFlight' = inFlight \ {a}, moment' = moment,
           RecordSuccess
    PROVE  failures' \in Seq(Nat) /\ (\E s, f \in Nat : FailuresAre(s, f)') /\ PenaltyFits'
<1>1. PICK n \in Nat : n = Len(log)
  BY DEF JudgesInv, LogInOrder
<1>2. Len(log') = n + 1 /\ log'[n + 1] = rec
  BY <1>1, Recorded
<1>3. rec.ok /\ rec.took = moment
  BY Zenon
<1>4. failures' = <<>> /\ lastSuccess' = moment
  BY DEF RecordSuccess
<1>5. PICK s \in Nat : s = n + 1
  OBVIOUS
<1>6. s + 1..Len(log') = {} /\ s + 1..s = {} /\ s > 0 /\ s # 0 /\ s <= s
  BY <1>2, <1>5
<1>7. log'[s].ok /\ lastSuccess' = log'[s].took
  BY <1>2, <1>3, <1>4, <1>5
<1>8. Len(failures') = 0 /\ Len(log') = s /\ 1..Len(failures') = {}
  BY <1>2, <1>4, <1>5
<1>9. FailuresAre(s, s)'
  BY <1>4, <1>6, <1>7, <1>8 DEF FailuresAre
<1>10. PenaltyFits'
  BY <1>2, <1>3 DEF PenaltyFits
<1> QED
  BY <1>4, <1>9, <1>10

LEMMA ConcludeKeeps ==
    ASSUME IntrusionAssumption, JudgesInv, NEW a \in inFlight, NEW ok \in BOOLEAN, Conclude(a, ok)
    PROVE  JudgesInv'
<1>1. PICK rec : rec = [at |-> a.at, block |-> a.block, ok |-> ok, took |-> moment]
  OBVIOUS
<1>2. PICK e : e = [at |-> a.at, block |-> a.block, ok |-> ok, took |-> moment - a.at]
  OBVIOUS
<1>3. /\ log' = Append(log, rec) /\ inFlight' = inFlight \ {a} /\ moment' = moment
      /\ RecordAttempt(e) /\ (IF ok THEN RecordSuccess ELSE RecordFailure)
  <2>1. [e EXCEPT !.took = moment] = rec
    BY <1>1, <1>2
  <2> QED
    BY <1>2, <2>1 DEF Conclude
<1>4. LogInOrder' /\ LastRecord' = moment
  BY <1>1, <1>3, Recorded
<1>5. events' \in Seq(Attempted) /\ \E d \in Nat : EventsAre(d)'
  BY <1>1, <1>2, <1>3, MatrixSlides
<1>6. failures' \in Seq(Nat) /\ (\E s, f \in Nat : FailuresAre(s, f)') /\ PenaltyFits'
  <2>1. CASE ok
    <3>1. rec = [at |-> a.at, block |-> a.block, ok |-> TRUE, took |-> moment]
      BY <1>1, <2>1, Zenon
    <3> QED
      BY <1>3, <2>1, <3>1, SuccessForgets
  <2>2. CASE ~ok
    <3>1. rec = [at |-> a.at, block |-> a.block, ok |-> FALSE, took |-> moment] /\ RecordFailure
      <4>1. ok = FALSE
        BY <2>2
      <4> QED
        BY <1>1, <1>3, <4>1
    <3>2. failures' \in Seq(Nat) /\ \E s, f \in Nat : FailuresAre(s, f)'
      BY <1>3, <3>1, GriefSlides
    <3>3. PICK s \in Nat, f \in Nat : FailuresAre(s, f)'
      BY <3>2
    <3>4. multiplier' = MultiplierOf(Len(failures')) /\ lastSuccess' = lastSuccess
      BY <3>1 DEF RecordFailure
    <3>5. moment \in Nat /\ moment <= MaxMoment
      BY DEF JudgesInv, LogInOrder
    <3>6. PenaltyFits'
      BY <1>3, <1>4, <3>2, <3>3, <3>4, <3>5, PenaltyIs
    <3> QED
      BY <3>2, <3>6
  <2> QED
    BY <2>1, <2>2
<1> QED
  BY <1>4, <1>5, <1>6 DEF JudgesInv

\* What is left alone, however attempts begin and time passes.
LEMMA JudgesRest ==
    ASSUME JudgesInv, LogInOrder', UNCHANGED <<log, events, failures, multiplier, lastSuccess>>,
           moment' \in {moment, moment + 1}
    PROVE  JudgesInv'
<1>1. PICK d \in Nat : EventsAre(d)
  BY DEF JudgesInv
<1>2. PICK s \in Nat, f \in Nat : FailuresAre(s, f)
  BY DEF JudgesInv
<1>3. EventsAre(d)' /\ FailuresAre(s, f)'
  BY <1>1, <1>2 DEF EventsAre, FailuresAre, LastRecord
<1>4. CASE moment' = moment
  BY <1>3, <1>4 DEF JudgesInv, PenaltyFits
<1>5. CASE moment' = moment + 1
  <2>1. log # <<>> => log[Len(log)].took # moment + 1
    <3>1. SUFFICES ASSUME log # <<>> PROVE log[Len(log)].took # moment + 1
      OBVIOUS
    <3>2. log \in Seq(Attempted) /\ moment \in Nat
      BY DEF JudgesInv, LogInOrder
    <3>3. Len(log) \in DOMAIN log
      BY <3>1, <3>2
    <3>4. log[Len(log)].took \in Nat /\ log[Len(log)].took <= moment
      <4>1. log[Len(log)] \in Attempted
        BY <3>2, <3>3
      <4>2. log[Len(log)].took <= moment
        BY <3>3 DEF JudgesInv, LogInOrder
      <4> QED
        BY <4>1, <4>2 DEF Attempted
    <3> QED
      BY <3>2, <3>4
  <2>2. PenaltyFits'
    BY <1>5, <2>1 DEF PenaltyFits
  <2> QED
    BY <1>3, <2>2 DEF JudgesInv
<1> QED
  BY <1>4, <1>5

LEMMA NextJudgesInv ==
    ASSUME IntrusionAssumption, JudgesInv, [ScoresNext]_scoresVars PROVE JudgesInv'
<1>1. ASSUME NEW b \in Blocks, Attempt(b) PROVE JudgesInv'
  <2>1. PICK new : new = [at |-> moment, block |-> b]
    OBVIOUS
  <2>2. inFlight' = inFlight \cup {new} /\ moment' = moment /\ log' = log
    BY <1>1, <2>1 DEF Attempt
  <2>3. moment \in Nat /\ moment <= moment + MaxTook
    BY DEF JudgesInv, LogInOrder, IntrusionAssumption
  <2>4. new.at \in Nat /\ new.block \in Blocks /\ new.at <= moment /\ moment <= new.at + MaxTook
    BY <2>1, <2>3
  <2>5. LogInOrder'
    BY <2>2, <2>4 DEF JudgesInv, LogInOrder
  <2> QED
    BY <1>1, <2>5, JudgesRest DEF Attempt
<1>2. CASE ScoresTick
  <2>1. /\ moment' = moment + 1 /\ moment < MaxMoment /\ log' = log /\ inFlight' = inFlight
        /\ \A a \in inFlight : moment - a.at < MaxTook
    BY <1>2 DEF ScoresTick
  <2>2. /\ moment \in Nat /\ MaxTook \in Nat /\ MaxMoment \in Nat /\ log \in Seq(Attempted)
        /\ \A a \in inFlight : a.at \in Nat /\ a.block \in Blocks /\ a.at <= moment
        /\ \A i \in DOMAIN log : log[i].took <= moment
    BY DEF JudgesInv, LogInOrder, IntrusionAssumption
  <2>3. ASSUME NEW a \in inFlight PROVE a.at <= moment + 1 /\ moment + 1 <= a.at + MaxTook
    BY <2>1, <2>2
  <2>4. ASSUME NEW i \in DOMAIN log PROVE log[i].took <= moment + 1
    <3>1. log[i] \in Attempted
      BY <2>2
    <3>2. log[i].took \in Nat /\ log[i].took <= moment
      BY <2>2, <3>1 DEF Attempted
    <3> QED
      BY <2>2, <3>2
  <2>5. moment + 1 \in Nat /\ moment + 1 <= MaxMoment
    BY <2>1, <2>2
  <2>6. LogInOrder'
    BY <2>1, <2>2, <2>3, <2>4, <2>5 DEF JudgesInv, LogInOrder
  <2> QED
    BY <1>2, <2>6, JudgesRest DEF ScoresTick
<1>3. CASE UNCHANGED scoresVars
  <2>1. LogInOrder'
    BY <1>3 DEF JudgesInv, LogInOrder, scoresVars
  <2> QED
    BY <1>3, <2>1, JudgesRest DEF scoresVars
<1> QED
  BY <1>1, <1>2, <1>3, ConcludeKeeps DEF ScoresNext

LEMMA JudgesStart == ASSUME IntrusionAssumption, ScoresInit PROVE JudgesInv
<1>1. /\ moment = 0 /\ inFlight = {} /\ log = <<>> /\ events = <<>> /\ failures = <<>>
      /\ lastSuccess = Never
  BY DEF ScoresInit
<1>2. EventsAre(0) /\ FailuresAre(0, 0)
  BY <1>1 DEF EventsAre, FailuresAre
<1>3. LogInOrder
  BY <1>1 DEF LogInOrder, IntrusionAssumption
<1>4. PenaltyFits
  BY <1>1 DEF PenaltyFits
<1> QED
  BY <1>1, <1>2, <1>3, <1>4 DEF JudgesInv

\* What is behind the front was recorded later, and had not begun long before.
LEMMA WindowHolds == ASSUME IntrusionAssumption, JudgesInv PROVE WindowIsWhole
<1>1. PICK n \in Nat : n = Len(log)
  BY DEF JudgesInv, LogInOrder
<1>2. PICK d \in Nat : EventsAre(d)
  BY DEF JudgesInv
<1>3. PICK m \in Nat : m = Len(events) /\ m = n - d
  <2>1. Len(events) \in Nat
    BY LenProperties DEF JudgesInv
  <2> QED
    BY <1>1, <1>2, <2>1 DEF EventsAre
<1>4. /\ DOMAIN log = 1..n /\ DOMAIN events = 1..m
      /\ \A i \in 1..n : log[i].at \in Nat /\ log[i].took \in Nat
      /\ ScoreWindow \in Nat /\ MaxTook \in Nat
  <2>1. log \in Seq(Attempted) /\ events \in Seq(Attempted)
    BY DEF JudgesInv, LogInOrder
  <2>2. \A i \in 1..n : log[i] \in Attempted
    BY <1>1, <2>1
  <2>3. \A i \in 1..n : log[i].at \in Nat /\ log[i].took \in Nat
    BY <2>2 DEF Attempted
  <2>4. DOMAIN log = 1..Len(log) /\ DOMAIN events = 1..Len(events)
    BY <2>1, LenProperties
  <2>5. DOMAIN log = 1..n /\ DOMAIN events = 1..m
    BY <1>1, <1>3, <2>4
  <2> QED
    BY <2>3, <2>5 DEF IntrusionAssumption
<1>5. ASSUME log # <<>> PROVE n > 0 /\ LastRecord \in Nat
  <2>1. n # 0
    BY <1>1, <1>5, EmptySeq DEF JudgesInv, LogInOrder
  <2> QED
    BY <1>1, <1>4, <2>1 DEF LastRecord
<1>6. ASSUME log # <<>>, NEW i \in DOMAIN log, log[i].at + ScoreWindow >= LastRecord
      PROVE  \E k \in DOMAIN events : events[k].at = log[i].at /\ events[k].block = log[i].block
  <2>1. i \notin 1..d
    <3>1. SUFFICES ASSUME i \in 1..d PROVE FALSE
      OBVIOUS
    <3>2. log[i].at + ScoreWindow < LastRecord
      BY <1>2, <3>1 DEF EventsAre
    <3>3. PICK t \in Nat, w \in Nat, l \in Nat : t = log[i].at /\ w = ScoreWindow /\ l = LastRecord
      BY <1>4, <1>5, <1>6
    <3> QED
      BY <1>6, <3>2, <3>3
  <2>2. i - d \in 1..m /\ d + (i - d) = i
    BY <1>3, <1>4, <2>1
  <2> QED
    BY <1>2, <1>3, <1>4, <2>2 DEF EventsAre
<1>7. ASSUME log # <<>>, NEW k \in DOMAIN events
      PROVE  events[k].at + ScoreWindow + MaxTook >= LastRecord
  <2>1. k \in 1..m /\ 1 \in 1..m /\ d + k \in 1..n /\ d + 1 \in 1..n /\ d + 1 <= d + k
    BY <1>3, <1>4
  <2>2. events[k].at = log[d + k].at /\ events[1].at = log[d + 1].at
    BY <1>2, <1>3, <2>1 DEF EventsAre
  <2>3. events[1].at + ScoreWindow >= LastRecord
    <3>1. events # <<>>
      BY <1>3, <2>1
    <3> QED
      BY <1>2, <3>1 DEF EventsAre
  <2>4. /\ log[d + k].took <= log[d + k].at + MaxTook
        /\ log[d + 1].at <= log[d + 1].took /\ log[d + 1].took <= log[d + k].took
    BY <1>4, <2>1 DEF JudgesInv, LogInOrder
  <2>5. PICK x \in Nat, y \in Nat, t \in Nat, u \in Nat :
            x = log[d + 1].at /\ y = log[d + k].at /\ t = log[d + 1].took /\ u = log[d + k].took
    BY <1>4, <2>1
  <2>6. PICK w \in Nat, h \in Nat, l \in Nat : w = ScoreWindow /\ h = MaxTook /\ l = LastRecord
    BY <1>4, <1>5, <1>7
  <2>7. x + w >= l
    BY <2>2, <2>3, <2>5, <2>6
  <2>8. u <= y + h /\ x <= t /\ t <= u
    BY <2>4, <2>5, <2>6
  <2>9. y + w + h >= l
    BY <2>7, <2>8
  <2> QED
    BY <2>2, <2>5, <2>6, <2>9
<1> QED
  BY <1>6, <1>7 DEF WindowIsWhole, LastRecord

\* The level is computed from the whole window, however attempts overlap, and when a
\* failure is recorded the multiplier is computed, up to its maximum, from the
\* failures that count and from nothing else (threat_matrix.rs and rate_grief.rs).
THEOREM JudgesStayFair == ASSUME IntrusionAssumption PROVE ScoresSpec => []JudgesAreFair
<1>1. ScoresInit => JudgesInv
  BY JudgesStart
<1>2. JudgesInv /\ [ScoresNext]_scoresVars => JudgesInv'
  BY NextJudgesInv
<1>3. JudgesInv => JudgesAreFair
  BY WindowHolds DEF JudgesInv, JudgesAreFair
<1> QED
  BY <1>1, <1>2, <1>3, PTL DEF ScoresSpec

=============================================================================
