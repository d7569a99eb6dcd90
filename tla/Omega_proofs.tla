---------------------------- MODULE Omega_proofs ----------------------------
(***************************************************************************)
(* What is proved of the parts of the omega profile that MCOmega checks,   *)
(* for every value of their constants.  The parts share no state: each     *)
(* section is about one of them, and its theorem about the specification   *)
(* of that part alone.                                                     *)
(***************************************************************************)
EXTENDS TwoPerson, InitFlow, CryptoIpc, Clearances, Comsec, Perimeter, Hardware,
        WriteGuard, Integrity, TLAPS, FiniteSetTheorems, SequenceTheorems

-----------------------------------------------------------------------------
(* TwoPerson, for any sessions, operators and timeout.  The log is related *)
(* to the release through the first share that the session still holds.    *)

Firsts(s) == {i \in DOMAIN log[s] : log[s][i].what = "first"}

\* The share a session holds is the only first share in its log.
Held(s) ==
    /\ ~Opened(s) => session[s].first = None
    /\ session[s].first = None => Firsts(s) = {}
    /\ session[s].first # None => Says(s, "first", session[s].first)
    /\ \A i, j \in Firsts(s) : i = j

PersonInv ==
    /\ TypeOK
    /\ log \in [Sessions -> Seq(Event)]
    /\ \A s \in Sessions : Held(s)
    /\ \A r \in released : Opened(r.session)
    /\ LogTellsRelease

\* What l \o m says is what l and m say.
LEMMA Joined ==
    ASSUME NEW l \in Seq(Event), NEW m \in Seq(Event)
    PROVE  /\ l \o m \in Seq(Event)
           /\ Len(l \o m) = Len(l) + Len(m)
           /\ \A i \in DOMAIN l : i <= Len(l) /\ i \in DOMAIN (l \o m) /\ (l \o m)[i] = l[i]
           /\ \A i \in DOMAIN (l \o m) : i \notin DOMAIN l =>
                  i - Len(l) \in DOMAIN m /\ (l \o m)[i] = m[i - Len(l)]
           /\ \A i \in DOMAIN m : Len(l) + i \in DOMAIN (l \o m) /\ (l \o m)[Len(l) + i] = m[i]
<1>1. /\ Len(l) \in Nat /\ DOMAIN l = 1..Len(l)
      /\ Len(m) \in Nat /\ DOMAIN m = 1..Len(m)
  BY LenProperties
<1>2. /\ l \o m \in Seq(Event) /\ Len(l \o m) = Len(l) + Len(m)
      /\ \A i \in 1..Len(l) + Len(m) :
             (l \o m)[i] = IF i <= Len(l) THEN l[i] ELSE m[i - Len(l)]
  BY ConcatProperties
<1>3. DOMAIN (l \o m) = 1..Len(l) + Len(m)
  BY <1>2, LenProperties
<1> QED
  BY <1>1, <1>2, <1>3

LEMMA OneEntry ==
    ASSUME NEW E, NEW e \in E
    PROVE  <<e>> \in Seq(E) /\ Len(<<e>>) = 1 /\ DOMAIN <<e>> = {1} /\ <<e>>[1] = e
OBVIOUS

Kinds == {"opened", "first", "witness", "second", "released", "aborted"}

LEMMA Entries ==
    ASSUME NEW what \in Kinds, NEW by \in Operators \cup {None}
    PROVE  /\ Entry(what, by) \in Seq(Event) /\ Len(Entry(what, by)) = 1
           /\ DOMAIN Entry(what, by) = {1}
           /\ Entry(what, by)[1] = [what |-> what, by |-> by]
<1>1. [what |-> what, by |-> by] \in Event
  BY DEF Event, Kinds
<1> QED
  BY <1>1, OneEntry DEF Entry

\* One entry more.
LEMMA JoinedOne ==
    ASSUME NEW l \in Seq(Event), NEW m \in Seq(Event), Len(m) = 1, DOMAIN m = {1}
    PROVE  /\ l \o m \in Seq(Event)
           /\ Len(l \o m) = Len(l) + 1
           /\ \A i \in DOMAIN (l \o m) :
                  (i \in DOMAIN l /\ (l \o m)[i] = l[i]) \/ (l \o m)[i] = m[1]
           /\ \A i \in DOMAIN l : i \in DOMAIN (l \o m) /\ (l \o m)[i] = l[i]
           /\ \E i \in DOMAIN (l \o m) : (l \o m)[i] = m[1]
<1> DEFINE lm == l \o m
<1>1. /\ lm \in Seq(Event) /\ Len(lm) = Len(l) + 1
      /\ \A i \in DOMAIN l : i \in DOMAIN lm /\ lm[i] = l[i]
      /\ \A i \in DOMAIN lm : i \notin DOMAIN l =>
             i - Len(l) \in DOMAIN m /\ lm[i] = m[i - Len(l)]
      /\ Len(l) + 1 \in DOMAIN lm /\ lm[Len(l) + 1] = m[1]
  <2>1. \A i \in DOMAIN m : Len(l) + i \in DOMAIN lm /\ lm[Len(l) + i] = m[i]
    BY Joined
  <2>2. Len(lm) = Len(l) + Len(m)
    BY Joined
  <2>3. /\ lm \in Seq(Event)
        /\ \A i \in DOMAIN l : i \in DOMAIN lm /\ lm[i] = l[i]
        /\ \A i \in DOMAIN lm : i \notin DOMAIN l =>
               i - Len(l) \in DOMAIN m /\ lm[i] = m[i - Len(l)]
    BY Joined
  <2>4. Len(l) + 1 \in DOMAIN lm /\ lm[Len(l) + 1] = m[1]
    BY <2>1
  <2> QED
    BY <2>2, <2>3, <2>4
<1> HIDE DEF lm
<1>2. \A i \in DOMAIN lm : (i \in DOMAIN l /\ lm[i] = l[i]) \/ lm[i] = m[1]
  <2> TAKE i \in DOMAIN lm
  <2>1. CASE i \notin DOMAIN l
    <3>1. i - Len(l) \in DOMAIN m /\ lm[i] = m[i - Len(l)]
      BY <1>1, <2>1
    <3>2. i - Len(l) = 1
      BY <3>1
    <3> QED
      BY <3>1, <3>2
  <2> QED
    BY <1>1, <2>1
<1>3. \E i \in DOMAIN lm : lm[i] = m[1]
  BY <1>1
<1> QED
  BY <1>1, <1>2, <1>3 DEF lm

\* Concatenation by a name of its own, which the provers leave alone.
Cat(l, m) == l \o m

LEMMA Regrouped ==
    ASSUME NEW l \in Seq(Event), NEW a \in Seq(Event), NEW b \in Seq(Event)
    PROVE  Cat(l, a) \in Seq(Event) /\ Cat(Cat(l, a), b) = Cat(l, Cat(a, b))
<1>1. l \o a \in Seq(Event)
  BY ConcatProperties
<1>2. (l \o a) \o b = l \o (a \o b)
  BY ConcatAssociative, SMT
<1> QED
  BY <1>1, <1>2 DEF Cat

LEMMA JoinedThree ==
    ASSUME NEW l \in Seq(Event), NEW a \in Seq(Event), NEW b \in Seq(Event), NEW c \in Seq(Event)
    PROVE  Cat(Cat(Cat(l, a), b), c) = Cat(l, Cat(Cat(a, b), c))
BY Regrouped

LEMMA Typed ==
    ASSUME PersonInv, NEW s \in Sessions
    PROVE  /\ log[s] \in Seq(Event) /\ Len(log[s]) \in Nat /\ Len(log[s]) <= MaxLog
           /\ DOMAIN log[s] = 1..Len(log[s])
<1>1. log[s] \in Seq(Event) /\ Len(log[s]) <= MaxLog
  BY DEF PersonInv, TypeOK
<1> QED
  BY <1>1, LenProperties

LEMMA InitPersonInv == ASSUME TwoPersonAssumption PROVE Init => PersonInv
<1> SUFFICES ASSUME Init PROVE PersonInv
  OBVIOUS
<1>1. /\ session \in [Sessions -> SessionState] /\ log = [s \in Sessions |-> <<>>]
      /\ released = {} /\ time = 0
  BY DEF Init
<1>2. \A s \in Sessions : session[s].first = None /\ ~Opened(s) /\ Firsts(s) = {}
  BY DEF Init, Opened, Firsts
<1>3. TypeOK
  BY <1>1 DEF TypeOK, TwoPersonAssumption
<1> QED
  BY <1>1, <1>2, <1>3 DEF PersonInv, Held, LogTellsRelease

-----------------------------------------------------------------------------
\* A session that only adds entries which are no first shares keeps what it
\* holds.
LEMMA HeldByMore ==
    ASSUME PersonInv, NEW s \in Sessions, NEW m \in Seq(Event),
           \A i \in DOMAIN m : m[i].what # "first",
           log'[s] = log[s] \o m,
           session'[s].first = session[s].first, session'[s].class = session[s].class
    PROVE  /\ Held(s)'
           /\ \A what, by : Says(s, what, by) => Says(s, what, by)'
<1>1. log[s] \in Seq(Event)
  BY DEF PersonInv
<1>2. /\ \A i \in DOMAIN log[s] : i \in DOMAIN log'[s] /\ log'[s][i] = log[s][i]
      /\ \A i \in DOMAIN log'[s] : i \notin DOMAIN log[s] =>
             i - Len(log[s]) \in DOMAIN m /\ log'[s][i] = m[i - Len(log[s])]
  BY <1>1, Joined
<1>3. Firsts(s)' = Firsts(s)
  BY <1>2 DEF Firsts
<1>4. ASSUME NEW what, NEW by, Says(s, what, by) PROVE Says(s, what, by)'
  BY <1>2, <1>4 DEF Says
<1>5. Held(s)
  BY DEF PersonInv
<1> QED
  BY <1>3, <1>4, <1>5 DEF Held, Opened

\* What does not touch a session keeps what it holds.
LEMMA HeldByOthers ==
    ASSUME PersonInv, NEW s \in Sessions, log'[s] = log[s], session'[s] = session[s]
    PROVE  /\ Held(s)'
           /\ \A what, by : Says(s, what, by) <=> Says(s, what, by)'
           /\ Opened(s)' <=> Opened(s)
           /\ NeedsWitness(s)' <=> NeedsWitness(s)
<1>1. Held(s)
  BY DEF PersonInv
<1> QED
  BY <1>1 DEF Held, Says, Opened, NeedsWitness, Firsts

LEMMA OpenKeeps ==
    ASSUME TwoPersonAssumption, PersonInv,
           NEW s \in Sessions, NEW o \in Operators, NEW c \in Classes, Open(s, o, c)
    PROVE  PersonInv'
<1> DEFINE e == Entry("opened", o)
<1>1. e \in Seq(Event) /\ Len(e) = 1 /\ DOMAIN e = {1} /\ e[1].what = "opened"
  <2>1. "opened" \in Kinds /\ o \in Operators \cup {None}
    BY DEF Kinds
  <2>2. e \in Seq(Event) /\ Len(e) = 1 /\ DOMAIN e = {1} /\ e[1] = [what |-> "opened", by |-> o]
    BY <2>1, Entries
  <2> QED
    BY <2>2
<1>2. log' = [log EXCEPT ![s] = e]
  BY DEF Open
<1> HIDE DEF e
<1>3. \A r \in released : r.session \in Sessions \ {s}
  BY DEF Open, PersonInv, TypeOK
<1>4. \A t \in Sessions \ {s} : log'[t] = log[t] /\ session'[t] = session[t]
  BY DEF Open, PersonInv, TypeOK
<1>5. session'[s].first = None /\ Opened(s)'
  BY DEF Open, PersonInv, TypeOK, Opened, Classes
<1>6. Firsts(s)' = {}
  BY <1>1, <1>2 DEF PersonInv, Firsts
<1>7. \A t \in Sessions : Held(t)'
  BY <1>4, <1>5, <1>6, HeldByOthers DEF Held
<1>8. LogTellsRelease' /\ \A r \in released' : Opened(r.session)'
  BY <1>3, <1>4, HeldByOthers DEF Open, PersonInv, LogTellsRelease
<1>9. session' \in [Sessions -> SessionState] /\ log' \in [Sessions -> Seq(Event)]
  <2>1. SessionId(o) \in Ids
    BY DEF SessionId, Ids, PersonInv, TypeOK
  <2>2. [id |-> SessionId(o), class |-> c, created |-> time, first |-> None, witness |-> FALSE]
            \in SessionState
    BY <2>1 DEF SessionState, PersonInv, TypeOK
  <2> QED
    BY <1>1, <1>2, <2>2 DEF Open, PersonInv, TypeOK
<1>10. \A t \in Sessions : Len(log'[t]) <= MaxLog
  <2>1. \A t \in Sessions \ {s} : Len(log'[t]) <= MaxLog
    BY <1>4 DEF PersonInv, TypeOK
  <2>2. log'[s] = e
    BY <1>2 DEF PersonInv
  <2>3. 1 <= MaxLog
    BY DEF TwoPersonAssumption
  <2> QED
    BY <1>1, <2>1, <2>2, <2>3
<1> QED
  BY <1>7, <1>8, <1>9, <1>10 DEF PersonInv, TypeOK, Open

LEMMA FirstKeeps ==
    ASSUME TwoPersonAssumption, PersonInv,
           NEW s \in Sessions, NEW o \in Operators, FirstShare(s, o)
    PROVE  PersonInv'
<1> DEFINE e == Entry("first", o)
           l == log[s]
<1>1. e \in Seq(Event) /\ Len(e) = 1 /\ DOMAIN e = {1} /\ e[1] = [what |-> "first", by |-> o]
  <2>1. "first" \in Kinds /\ o \in Operators \cup {None}
    BY DEF Kinds
  <2> QED
    BY <2>1, Entries
<1>2. l \in Seq(Event) /\ log' = [log EXCEPT ![s] = l \o e]
  BY DEF FirstShare, PersonInv
<1> HIDE DEF e, l
<1>3. /\ l \o e \in Seq(Event)
      /\ Len(l \o e) = Len(l) + 1
      /\ \A i \in DOMAIN l : i \in DOMAIN (l \o e) /\ (l \o e)[i] = l[i]
      /\ \A i \in DOMAIN (l \o e) : i \notin DOMAIN l => i = Len(l) + 1
      /\ (Len(l) + 1) \in DOMAIN (l \o e) /\ (l \o e)[Len(l) + 1] = e[1]
  <2>1. Len(l) \in Nat /\ DOMAIN l = 1..Len(l)
    BY <1>2, LenProperties
  <2>2. /\ l \o e \in Seq(Event)
        /\ Len(l \o e) = Len(l) + Len(e)
        /\ \A i \in DOMAIN l : i \in DOMAIN (l \o e) /\ (l \o e)[i] = l[i]
        /\ \A i \in DOMAIN (l \o e) : i \notin DOMAIN l => i - Len(l) \in DOMAIN e
        /\ \A i \in DOMAIN e : Len(l) + i \in DOMAIN (l \o e) /\ (l \o e)[Len(l) + i] = e[i]
    BY <1>1, <1>2, Joined
  <2>3. DOMAIN (l \o e) = 1..Len(l \o e)
    BY <2>2, LenProperties
  <2>4. \A i \in DOMAIN (l \o e) : i \notin DOMAIN l => i = Len(l) + 1
    BY <1>1, <2>1, <2>2, <2>3
  <2> QED
    BY <1>1, <2>1, <2>2, <2>4
<1>4. log'[s] = l \o e /\ log' \in [Sessions -> Seq(Event)]
  BY <1>2, <1>3 DEF PersonInv
<1>5. session'[s].first = o /\ session'[s].class = session[s].class
  BY DEF FirstShare, PersonInv, TypeOK
<1>6. \A t \in Sessions \ {s} : log'[t] = log[t] /\ session'[t] = session[t]
  BY DEF FirstShare, PersonInv, TypeOK
<1>7. Held(s)'
  <2>1. Firsts(s) = {}
    BY DEF FirstShare, PersonInv, Held
  <2>2. Firsts(s)' \subseteq {Len(l) + 1}
    BY <1>3, <1>4, <2>1 DEF Firsts, l
  <2>3. Says(s, "first", o)'
    BY <1>1, <1>3, <1>4 DEF Says
  <2>4. o # None /\ Opened(s)'
    BY <1>5 DEF TwoPersonAssumption, FirstShare, Opened
  <2> QED
    BY <1>5, <2>2, <2>3, <2>4 DEF Held
<1>8. \A t \in Sessions : Held(t)'
  BY <1>6, <1>7, HeldByOthers
<1>9. \A t \in Sessions : /\ \A what, by : Says(t, what, by) => Says(t, what, by)'
                          /\ NeedsWitness(t)' <=> NeedsWitness(t)
                          /\ Opened(t)' <=> Opened(t)
  <2>1. \A what, by : Says(s, what, by) => Says(s, what, by)'
    BY <1>3, <1>4 DEF Says, l
  <2> QED
    BY <1>5, <1>6, <2>1, HeldByOthers DEF NeedsWitness, Opened
<1>10. released' = released /\ \A r \in released : r.session \in Sessions
  BY DEF FirstShare, PersonInv, TypeOK
<1>11. LogTellsRelease' /\ \A r \in released' : Opened(r.session)'
  BY <1>9, <1>10 DEF PersonInv, LogTellsRelease
<1>12. \A t \in Sessions : Len(log'[t]) <= MaxLog
  <2>1. Len(log[s]) < MaxLog /\ Len(log[s]) \in Nat /\ MaxLog \in Nat
    BY Typed DEF FirstShare, TwoPersonAssumption
  <2>2. Len(log'[s]) <= MaxLog
    BY <1>3, <1>4, <2>1 DEF l
  <2> QED
    BY <1>6, <2>2, Typed
<1>13. session' \in [Sessions -> SessionState]
  <2>1. session' = [session EXCEPT ![s].first = o]
    BY DEF FirstShare
  <2>2. session \in [Sessions -> SessionState]
    BY DEF PersonInv, TypeOK
  <2>3. [session[s] EXCEPT !.first = o] \in SessionState
    BY <2>2 DEF SessionState
  <2> QED
    BY <2>1, <2>2, <2>3
<1> QED
  BY <1>4, <1>8, <1>11, <1>12, <1>13 DEF PersonInv, TypeOK, FirstShare

\* A release and an abort only add entries of other kinds.
LEMMA AddKeeps ==
    ASSUME TwoPersonAssumption, PersonInv, NEW s \in Sessions, NEW m \in Seq(Event),
           \A i \in DOMAIN m : m[i].what # "first",
           Len(log[s]) + Len(m) <= MaxLog,
           log' = [log EXCEPT ![s] = log[s] \o m],
           session' \in [Sessions -> SessionState],
           \A t \in Sessions \ {s} : session'[t] = session[t],
           session'[s].first = session[s].first, session'[s].class = session[s].class
    PROVE  /\ log' \in [Sessions -> Seq(Event)]
           /\ \A t \in Sessions : Held(t)' /\ Len(log'[t]) <= MaxLog
           /\ \A t \in Sessions : /\ \A what, by : Says(t, what, by) => Says(t, what, by)'
                                  /\ NeedsWitness(t)' <=> NeedsWitness(t)
                                  /\ Opened(t)' <=> Opened(t)
<1>1. log[s] \o m \in Seq(Event) /\ Len(log[s] \o m) = Len(log[s]) + Len(m)
  BY DEF PersonInv
<1>2. log'[s] = log[s] \o m /\ log' \in [Sessions -> Seq(Event)]
  BY <1>1 DEF PersonInv
<1>3. \A t \in Sessions \ {s} : log'[t] = log[t]
  BY DEF PersonInv
<1>4. Held(s)' /\ \A what, by : Says(s, what, by) => Says(s, what, by)'
  BY <1>2, HeldByMore
<1>5. (NeedsWitness(s)' <=> NeedsWitness(s)) /\ (Opened(s)' <=> Opened(s))
  BY DEF NeedsWitness, Opened
<1>6. \A t \in Sessions : Len(log'[t]) <= MaxLog
  BY <1>1, <1>2, <1>3 DEF PersonInv, TypeOK
<1>7. \A t \in Sessions \ {s} :
          /\ Held(t)'
          /\ \A what, by : Says(t, what, by) => Says(t, what, by)'
          /\ NeedsWitness(t)' <=> NeedsWitness(t)
          /\ Opened(t)' <=> Opened(t)
  BY <1>3, HeldByOthers
<1> QED
  BY <1>2, <1>4, <1>5, <1>6, <1>7

LEMMA AbortKeeps ==
    ASSUME TwoPersonAssumption, PersonInv, NEW s \in Sessions, Abort(s)
    PROVE  PersonInv'
<1> DEFINE m == Entry("aborted", None)
<1>1. m \in Seq(Event) /\ Len(m) = 1 /\ \A i \in DOMAIN m : m[i].what # "first"
  <2>1. "aborted" \in Kinds /\ None \in Operators \cup {None}
    BY DEF Kinds
  <2>2. m \in Seq(Event) /\ Len(m) = 1 /\ DOMAIN m = {1} /\ m[1] = [what |-> "aborted", by |-> None]
    BY <2>1, Entries
  <2> QED
    BY <2>2
<1>2. log' = [log EXCEPT ![s] = log[s] \o m] /\ session' = session /\ released' = released
  BY DEF Abort
<1> HIDE DEF m
<1>3. Len(log[s]) + Len(m) <= MaxLog
  <2>1. Len(log[s]) < MaxLog /\ MaxLog \in Nat
    BY DEF Abort, TwoPersonAssumption
  <2> QED
    BY <1>1, <2>1, Typed
<1>4. session' \in [Sessions -> SessionState]
  BY <1>2 DEF PersonInv, TypeOK
<1>5. /\ log' \in [Sessions -> Seq(Event)]
      /\ \A t \in Sessions : Held(t)' /\ Len(log'[t]) <= MaxLog
      /\ \A t \in Sessions : /\ \A what, by : Says(t, what, by) => Says(t, what, by)'
                             /\ NeedsWitness(t)' <=> NeedsWitness(t)
                             /\ Opened(t)' <=> Opened(t)
  BY <1>1, <1>2, <1>3, <1>4, AddKeeps
<1>6. LogTellsRelease' /\ \A r \in released' : Opened(r.session)'
  BY <1>2, <1>5 DEF PersonInv, TypeOK, LogTellsRelease
<1> QED
  BY <1>2, <1>4, <1>5, <1>6 DEF PersonInv, TypeOK, Abort

LEMMA SecondKeeps ==
    ASSUME TwoPersonAssumption, PersonInv,
           NEW s \in Sessions, NEW o \in Operators, NEW w \in BOOLEAN, SecondShare(s, o, w)
    PROVE  PersonInv'
<1> DEFINE vouched == IF w THEN Entry("witness", None) ELSE <<>>
           second == Entry("second", o)
           end == Entry("released", None)
           m == vouched \o second \o end
           new == [session |-> s, key |-> Key(s, o), witnessed |-> w]
<1>1. /\ \A by \in Operators \cup {None} : /\ Entry("witness", by) \in Seq(Event)
                                           /\ Len(Entry("witness", by)) = 1
                                           /\ DOMAIN Entry("witness", by) = {1}
                                           /\ Entry("witness", by)[1] = [what |-> "witness", by |-> by]
      /\ second \in Seq(Event) /\ Len(second) = 1 /\ DOMAIN second = {1}
      /\ second[1] = [what |-> "second", by |-> o]
      /\ end \in Seq(Event) /\ Len(end) = 1 /\ DOMAIN end = {1}
      /\ end[1] = [what |-> "released", by |-> None]
  <2>1. {"witness", "second", "released"} \subseteq Kinds /\ {o, None} \subseteq Operators \cup {None}
    BY DEF Kinds
  <2> QED
    BY <2>1, Entries
<1>2. /\ vouched \in Seq(Event) /\ Len(vouched) \in {0, 1} /\ DOMAIN vouched \subseteq {1}
      /\ w => 1 \in DOMAIN vouched
      /\ 1 \in DOMAIN vouched => vouched[1] = [what |-> "witness", by |-> None]
  BY <1>1
<1> HIDE DEF vouched, second, end
<1>3. /\ m \in Seq(Event) /\ Len(m) \in {2, 3}
      /\ \A i \in DOMAIN m : m[i].what # "first"
      /\ \E i \in DOMAIN m : m[i] = [what |-> "second", by |-> o]
      /\ w => \E i \in DOMAIN m : m[i] = [what |-> "witness", by |-> None]
  <2> DEFINE h == vouched \o second
  <2>1. /\ h \in Seq(Event) /\ Len(h) = Len(vouched) + 1
        /\ \A i \in DOMAIN h : (i \in DOMAIN vouched /\ h[i] = vouched[i]) \/ h[i] = second[1]
        /\ \A i \in DOMAIN vouched : i \in DOMAIN h /\ h[i] = vouched[i]
        /\ \E i \in DOMAIN h : h[i] = second[1]
    <3>1. vouched \in Seq(Event) /\ second \in Seq(Event) /\ Len(second) = 1 /\ DOMAIN second = {1}
      BY <1>1, <1>2
    <3> QED
      BY <3>1, JoinedOne
  <2> HIDE DEF h
  <2>2. /\ m \in Seq(Event) /\ Len(m) = Len(h) + 1
        /\ \A i \in DOMAIN m : (i \in DOMAIN h /\ m[i] = h[i]) \/ m[i] = end[1]
        /\ \A i \in DOMAIN h : i \in DOMAIN m /\ m[i] = h[i]
    <3>1. m = h \o end
      BY DEF h
    <3>2. h \in Seq(Event) /\ end \in Seq(Event) /\ Len(end) = 1 /\ DOMAIN end = {1}
      BY <1>1, <2>1
    <3> QED
      BY <3>1, <3>2, JoinedOne
  <2>3. Len(m) \in {2, 3}
    <3>1. CASE Len(vouched) = 0
      BY <2>1, <2>2, <3>1
    <3>2. CASE Len(vouched) = 1
      BY <2>1, <2>2, <3>2
    <3> QED
      BY <1>2, <3>1, <3>2
  <2>4. \A i \in DOMAIN h : h[i].what # "first"
    <3> TAKE i \in DOMAIN h
    <3>1. CASE i \in DOMAIN vouched /\ h[i] = vouched[i]
      <4>1. i = 1
        BY <1>2, <3>1
      <4>2. h[i] = [what |-> "witness", by |-> None]
        BY <1>2, <3>1, <4>1
      <4> QED
        BY <4>2
    <3>2. CASE h[i] = second[1]
      BY <1>1, <3>2
    <3> QED
      BY <2>1, <3>1, <3>2
  <2>5. \A i \in DOMAIN m : m[i].what # "first"
    <3> TAKE i \in DOMAIN m
    <3>1. CASE i \in DOMAIN h /\ m[i] = h[i]
      BY <2>4, <3>1
    <3>2. CASE m[i] = end[1]
      BY <1>1, <3>2
    <3> QED
      BY <2>2, <3>1, <3>2
  <2>6. \E i \in DOMAIN m : m[i] = [what |-> "second", by |-> o]
    <3>1. PICK i \in DOMAIN h : h[i] = second[1]
      BY <2>1
    <3> QED
      BY <1>1, <2>2, <3>1
  <2>7. w => \E i \in DOMAIN m : m[i] = [what |-> "witness", by |-> None]
    BY <1>2, <2>1, <2>2
  <2> QED
    BY <2>2, <2>3, <2>5, <2>6, <2>7
<1> HIDE DEF m
<1>4. log' = [log EXCEPT ![s] = log[s] \o m]
  <2>1. log[s] \in Seq(Event)
    BY Typed
  <2>2. ((log[s] \o vouched) \o second) \o end = log[s] \o m
    <3>1. vouched \in Seq(Event) /\ second \in Seq(Event) /\ end \in Seq(Event)
      BY <1>1, <1>2
    <3>2. ((log[s] \o vouched) \o second) \o end = log[s] \o ((vouched \o second) \o end)
      <4>1. Cat(Cat(Cat(log[s], vouched), second), end) = Cat(log[s], Cat(Cat(vouched, second), end))
        BY <2>1, <3>1, JoinedThree
      <4> QED
        BY <4>1 DEF Cat
    <3>3. m = (vouched \o second) \o end
      BY DEF m
    <3> QED
      BY <3>2, <3>3, Zenon
  <2> QED
    BY <2>2 DEF SecondShare, vouched, second, end
<1>5. Len(log[s]) + Len(m) <= MaxLog
  <2>1. Len(log[s]) + 3 <= MaxLog /\ MaxLog \in Nat
    BY DEF SecondShare, TwoPersonAssumption
  <2>2. PICK k \in {2, 3} : Len(m) = k
    BY <1>3
  <2>3. PICK j \in Nat : Len(log[s]) = j
    BY Typed
  <2>4. j + k <= MaxLog
    BY <2>1, <2>3
  <2> QED
    BY <2>2, <2>3, <2>4
<1>6. /\ session' \in [Sessions -> SessionState]
      /\ \A t \in Sessions \ {s} : session'[t] = session[t]
      /\ session'[s].first = session[s].first /\ session'[s].class = session[s].class
  <2> DEFINE signed == [session[s] EXCEPT !.witness = session[s].witness \/ w]
  <2>1. session \in [Sessions -> SessionState] /\ session[s] \in SessionState
    BY DEF PersonInv, TypeOK
  <2>2. session' = [session EXCEPT ![s] = signed]
    BY DEF SecondShare
  <2>3. session[s].witness \/ w \in BOOLEAN
    BY <2>1 DEF SessionState
  <2>4. /\ signed \in SessionState
        /\ signed.first = session[s].first /\ signed.class = session[s].class
    BY <2>1, <2>3 DEF SessionState
  <2> HIDE DEF signed
  <2> QED
    BY <2>1, <2>2, <2>4
<1>7. released' = released \cup {new} /\ time' = time
  BY DEF SecondShare
<1>8. new.session = s /\ new.key.shares = {session[s].first, o} /\ new.witnessed = w
  BY DEF Key
<1>9. new.key \in [id : Ids, shares : SUBSET Operators]
  <2>1. session[s].id \in Ids /\ session[s].first \in Operators \cup {None}
    BY DEF PersonInv, TypeOK, SessionState
  <2>2. session[s].first \in Operators
    BY <2>1 DEF SecondShare, Releasable
  <2> QED
    BY <2>1, <2>2 DEF Key
<1> HIDE DEF new
<1>12. /\ log' \in [Sessions -> Seq(Event)]
       /\ \A t \in Sessions : Held(t)' /\ Len(log'[t]) <= MaxLog
       /\ \A t \in Sessions : /\ \A what, by : Says(t, what, by) => Says(t, what, by)'
                              /\ NeedsWitness(t)' <=> NeedsWitness(t)
                              /\ Opened(t)' <=> Opened(t)
  BY <1>3, <1>4, <1>5, <1>6, AddKeeps
<1>13. Says(s, "second", o)' /\ (w => Says(s, "witness", None)')
  <2>1. log'[s] = log[s] \o m /\ log[s] \in Seq(Event)
    BY <1>4 DEF PersonInv
  <2>2. \A i \in DOMAIN m : Len(log[s]) + i \in DOMAIN log'[s] /\ log'[s][Len(log[s]) + i] = m[i]
    <3>1. m \in Seq(Event)
      BY <1>3
    <3>2. \A i \in DOMAIN m : /\ Len(log[s]) + i \in DOMAIN (log[s] \o m)
                              /\ (log[s] \o m)[Len(log[s]) + i] = m[i]
      BY <2>1, <3>1, Joined
    <3> QED
      BY <2>1, <3>2
  <2> QED
    BY <1>3, <2>2 DEF Says
<1>14. /\ session[s].first \in Operators /\ session[s].first # o
       /\ Says(s, "first", session[s].first)' /\ (NeedsWitness(s)' => w)
  <2>1. /\ session[s].first \notin {None, o} /\ session[s].first \in Operators \cup {None}
        /\ NeedsWitness(s) => w
    BY DEF SecondShare, Releasable, PersonInv, TypeOK, SessionState
  <2>2. Says(s, "first", session[s].first)
    BY <2>1 DEF PersonInv, Held
  <2>3. Says(s, "first", session[s].first)'
    <3>1. \A what, by : Says(s, what, by) => Says(s, what, by)'
      BY <1>12
    <3>2. session'[s].first = session[s].first
      BY <1>6
    <3> QED
      BY <2>2, <3>1, <3>2
  <2>4. NeedsWitness(s)' => w
    BY <1>12, <2>1
  <2> QED
    BY <2>1, <2>3, <2>4
<1>15. LogTellsRelease'
  <2>1. ASSUME NEW r \in released
        PROVE  /\ \E a, b \in Operators : /\ a # b /\ r.key.shares = {a, b}
                                          /\ Says(r.session, "first", a)'
                                          /\ Says(r.session, "second", b)'
               /\ NeedsWitness(r.session)' => Says(r.session, "witness", None)'
    BY <1>12 DEF PersonInv, TypeOK, LogTellsRelease
  <2>2. ASSUME NEW r, r = new
        PROVE  /\ \E a, b \in Operators : /\ a # b /\ r.key.shares = {a, b}
                                          /\ Says(r.session, "first", a)'
                                          /\ Says(r.session, "second", b)'
               /\ NeedsWitness(r.session)' => Says(r.session, "witness", None)'
    <3>1. r.session = s /\ r.key.shares = {session[s].first, o}
      BY <1>8, <2>2
    <3>2. PICK a \in Operators : a = session[s].first
      BY <1>14
    <3>3. a # o /\ Says(s, "first", a)' /\ Says(s, "second", o)'
      BY <1>6, <1>13, <1>14, <3>2
    <3> QED
      BY <1>13, <1>14, <3>1, <3>2, <3>3
  <2> QED
    BY <1>7, <2>1, <2>2 DEF LogTellsRelease
<1>16. \A r \in released' : Opened(r.session)'
  BY <1>7, <1>8, <1>12 DEF PersonInv, TypeOK, SecondShare, Releasable
<1>17. TypeOK'
  BY <1>6, <1>7, <1>8, <1>9, <1>12 DEF PersonInv, TypeOK
<1> QED
  BY <1>12, <1>15, <1>16, <1>17 DEF PersonInv

LEMMA NextPersonInv ==
    ASSUME TwoPersonAssumption, PersonInv, [Next]_vars PROVE PersonInv'
<1>1. ASSUME session' = session, log' = log, released' = released, time' \in 0..MaxTime
      PROVE  PersonInv'
  <2>1. \A t \in Sessions : Held(t)'
    BY <1>1, HeldByOthers
  <2>2. LogTellsRelease'
    BY <1>1, HeldByOthers DEF PersonInv, TypeOK, LogTellsRelease
  <2> QED
    BY <1>1, <2>1, <2>2 DEF PersonInv, TypeOK, Opened
<1>2. CASE Tick
  BY <1>1, <1>2 DEF Tick, PersonInv, TypeOK, TwoPersonAssumption
<1>3. CASE UNCHANGED vars
  BY <1>1, <1>3 DEF vars, PersonInv, TypeOK
<1> QED
  BY <1>2, <1>3, OpenKeeps, FirstKeeps, SecondKeeps, AbortKeeps DEF Next

LEMMA PersonInvHolds == ASSUME TwoPersonAssumption PROVE Spec => []PersonInv
<1>1. PersonInv /\ [Next]_vars => PersonInv'
  BY NextPersonInv
<1> QED
  BY InitPersonInv, <1>1, PTL DEF Spec

-----------------------------------------------------------------------------
\* The log accounts for what a session takes and gives, for any operators
\* (submit_first_share and submit_second_share).
THEOREM SessionsAccount == ASSUME TwoPersonAssumption PROVE Spec => []SessionAccounts
<1>1. PersonInv => SessionAccounts
  <2> SUFFICES ASSUME PersonInv PROVE OneFirstShare
    BY DEF SessionAccounts, PersonInv
  <2> SUFFICES ASSUME NEW s \in Sessions PROVE Cardinality(Firsts(s)) <= 1
    BY DEF OneFirstShare, Firsts
  <2>1. \A i, j \in Firsts(s) : i = j
    BY DEF PersonInv, Held
  <2>2. CASE Firsts(s) = {}
    BY <2>2, FS_EmptySet
  <2>3. CASE Firsts(s) # {}
    <3>1. PICK i \in Firsts(s) : TRUE
      BY <2>3
    <3>2. Firsts(s) = {i}
      BY <2>1, <3>1
    <3> QED
      BY <3>2, FS_Singleton
  <2> QED
    BY <2>2, <2>3
<1> QED
  BY PersonInvHolds, <1>1, PTL

\* An expired session stays closed, however long it stays (is_expired).
THEOREM ExpiredStay == ASSUME TwoPersonAssumption PROVE Spec => ExpiredForGood
<1> DEFINE Closed == \A s \in Sessions : Opened(s) /\ Expired(s) =>
        /\ session'[s] = session[s]
        /\ \A i \in DOMAIN log'[s] : i > Len(log[s]) => log'[s][i].what = "aborted"
<1>1. PersonInv /\ [Next]_vars => [Closed]_vars
  <2> SUFFICES ASSUME PersonInv, Next, NEW s \in Sessions, Opened(s), Expired(s)
               PROVE  /\ session'[s] = session[s]
                      /\ \A i \in DOMAIN log'[s] :
                             i > Len(log[s]) => log'[s][i].what = "aborted"
    OBVIOUS
  <2>1. log[s] \in Seq(Event) /\ \A i \in DOMAIN log[s] : i <= Len(log[s])
    BY DEF PersonInv
  <2>2. CASE Tick
    BY <2>1, <2>2 DEF Tick
  <2>3. ASSUME NEW t \in Sessions, t # s,
               \/ \E o \in Operators, c \in Classes : Open(t, o, c)
               \/ \E o \in Operators : FirstShare(t, o)
               \/ \E o \in Operators, w \in BOOLEAN : SecondShare(t, o, w)
               \/ Abort(t)
        PROVE  session'[s] = session[s] /\ log'[s] = log[s]
    BY <2>3 DEF PersonInv, TypeOK, Open, FirstShare, SecondShare, Abort
  <2>4. CASE Abort(s)
    <3>1. log'[s] = log[s] \o Entry("aborted", None) /\ session' = session
      BY <2>4 DEF Abort, PersonInv
    <3>2. \A i \in DOMAIN log'[s] : i > Len(log[s]) => log'[s][i].what = "aborted"
      BY <2>1, <3>1 DEF Entry
    <3> QED
      BY <3>1, <3>2
  <2>5. /\ \A o \in Operators, c \in Classes : ~Open(s, o, c)
        /\ \A o \in Operators : ~FirstShare(s, o)
        /\ \A o \in Operators, w \in BOOLEAN : ~SecondShare(s, o, w)
    BY DEF Open, FirstShare, SecondShare, Releasable
  <2> QED
    BY <2>1, <2>2, <2>3, <2>4, <2>5 DEF Next
<1> QED
  BY PersonInvHolds, <1>1, PTL DEF Spec, ExpiredForGood

-----------------------------------------------------------------------------
(* InitFlow, for any artifacts and however long the flow takes.  What makes *)
(* it inductive is that every copy of the state, the live one and the one   *)
(* kept, is a prefix of the phases with instants that do not decrease, none *)
(* of them later than now.                                                  *)

\* A copy of the state that the flow may go on from.
Sound(s) ==
    /\ s \in InitState
    /\ \A p \in Phases : Contains(s, p) => s.completed[p].at <= clock
    /\ \A p, q \in Phases : p < q /\ Contains(s, q) =>
           Contains(s, p) /\ s.completed[p].at <= s.completed[q].at

FlowInv == clock \in 0..MaxClock /\ Sound(flow) /\ Sound(kept) /\ BirthsInOrder

LEMMA InitFlowInv == ASSUME InitFlowAssumption PROVE FlowInit => FlowInv
<1> SUFFICES ASSUME FlowInit PROVE FlowInv
  OBVIOUS
<1>1. New \in InitState /\ \A p \in Phases : ~Contains(New, p)
  BY DEF New, InitState, Contains
<1>2. Sound(New)
  BY <1>1 DEF Sound
<1> QED
  BY <1>2 DEF FlowInit, FlowInv, BirthsInOrder, InitFlowAssumption

\* Completing a phase keeps the copy sound: all phases before it are complete,
\* no phase after it is, and no instant is later than now.
LEMMA CompletesSound ==
    ASSUME InitFlowAssumption, FlowInv, NEW p \in Phases, NEW a \in Artifacts,
           CompletePhase(p, a)
    PROVE  Sound(flow)'
<1> DEFINE new == [at |-> clock, artifact |-> a]
<1>1. /\ flow'.completed = [flow.completed EXCEPT ![p] = new]
      /\ flow'.born = flow.born
      /\ clock' = clock
  BY DEF CompletePhase, Completes, FlowInv, Sound, InitState
<1>2. new # NoPhase
  BY DEF InitFlowAssumption, NoPhase
<1>3. flow \in InitState /\ clock \in 0..MaxClock
  BY DEF FlowInv, Sound
<1>4. flow' \in InitState
  BY <1>3 DEF CompletePhase, Completes, InitState
<1>5. \A q \in Phases : Contains(flow, q)' <=> q = p \/ Contains(flow, q)
  BY <1>1, <1>2, <1>3 DEF Contains, InitState
<1>6. \A q \in Phases : Contains(flow, q) => flow.completed[q].at <= clock
  BY DEF FlowInv, Sound
<1>7. \A q \in Phases : Contains(flow, q)' => flow'.completed[q].at <= clock'
  BY <1>1, <1>3, <1>5, <1>6 DEF InitState, InitFlowAssumption
<1>8. ASSUME NEW q \in Phases, NEW r \in Phases, q < r, Contains(flow, r)'
      PROVE  Contains(flow, q)' /\ flow'.completed[q].at <= flow'.completed[r].at
  <2>1. CASE r = p
    <3>1. Contains(flow, q) /\ q # p
      BY <1>8, <2>1 DEF CompletePhase, Completes, Phases
    <3> QED
      BY <1>1, <1>3, <1>5, <1>6, <2>1, <3>1 DEF InitState
  <2>2. CASE r # p
    <3>1. Contains(flow, r)
      BY <1>5, <1>8, <2>2
    <3>2. Contains(flow, q) /\ flow.completed[q].at <= flow.completed[r].at
      BY <1>8, <3>1 DEF FlowInv, Sound
    <3>3. q # p
      BY <3>2 DEF CompletePhase, Completes
    <3> QED
      BY <1>1, <1>3, <1>5, <2>2, <3>2, <3>3 DEF InitState
  <2> QED
    BY <2>1, <2>2
<1> QED
  BY <1>4, <1>7, <1>8 DEF Sound, Contains

\* A sound copy stays sound as the clock goes on.
LEMMA SoundLater ==
    ASSUME NEW s, clock \in Nat, clock' \in Nat, clock <= clock', MaxClock \in Nat, Sound(s),
           NEW t, t = s
    PROVE  /\ t \in InitState
           /\ \A p \in Phases : Contains(t, p) => t.completed[p].at <= clock'
           /\ \A p, q \in Phases : p < q /\ Contains(t, q) =>
                  Contains(t, p) /\ t.completed[p].at <= t.completed[q].at
<1>1. ASSUME NEW p \in Phases, Contains(s, p)
      PROVE  s.completed[p].at \in Nat /\ s.completed[p].at <= clock
  BY <1>1 DEF Sound, InitState, Contains
<1>2. \A p \in Phases : Contains(s, p) => s.completed[p].at <= clock'
  BY <1>1
<1> QED
  BY <1>2 DEF Sound

LEMMA NextFlowInv ==
    ASSUME InitFlowAssumption, FlowInv, [FlowNext]_flowVars PROVE FlowInv'
<1>1. clock \in Nat /\ MaxClock \in Nat
  BY DEF FlowInv, InitFlowAssumption
<1>2. ASSUME NEW p \in Phases, NEW a \in Artifacts, CompletePhase(p, a)
      PROVE  FlowInv'
  <2>1. Sound(flow)'
    BY <1>2, CompletesSound
  <2>2. Sound(kept)'
    BY <1>1, <1>2, SoundLater DEF CompletePhase, FlowInv, Sound, Contains
  <2> QED
    BY <1>2, <2>1, <2>2 DEF CompletePhase, FlowInv, BirthsInOrder
<1>3. CASE IssueBirthCertificate
  <2>1. /\ flow'.completed = flow.completed /\ flow' \in InitState
        /\ clock' = clock /\ kept' = kept /\ births' = births \cup {flow.completed}
    BY <1>3 DEF IssueBirthCertificate, FlowInv, Sound, InitState
  <2>2. Sound(flow)' /\ Sound(kept)'
    BY <2>1 DEF FlowInv, Sound, Contains
  <2>3. \A p, q \in Phases : /\ flow.completed[p] # NoPhase
                             /\ p < q => flow.completed[p].at <= flow.completed[q].at
    BY <1>3 DEF IssueBirthCertificate, IsComplete, FlowInv, Sound, Contains
  <2> QED
    BY <2>1, <2>2, <2>3 DEF FlowInv, BirthsInOrder
<1>4. CASE Keep
  BY <1>4 DEF Keep, FlowInv, Sound, Contains, BirthsInOrder
<1>5. CASE Restart
  BY <1>5 DEF Restart, FlowInv, Sound, Contains, BirthsInOrder
<1>6. CASE FlowTick
  <2>1. clock' \in 0..MaxClock /\ clock <= clock' /\ clock' \in Nat
    BY <1>1, <1>6 DEF FlowTick, FlowInv
  <2>2. Sound(flow)'
    BY <1>1, <1>6, <2>1, SoundLater DEF FlowTick, FlowInv, Sound, Contains
  <2>3. Sound(kept)'
    BY <1>1, <1>6, <2>1, SoundLater DEF FlowTick, FlowInv, Sound, Contains
  <2> QED
    BY <1>6, <2>1, <2>2, <2>3 DEF FlowTick, FlowInv, BirthsInOrder
<1>7. CASE UNCHANGED flowVars
  BY <1>7 DEF flowVars, FlowInv, Sound, Contains, BirthsInOrder
<1> QED
  BY <1>2, <1>3, <1>4, <1>5, <1>6, <1>7 DEF FlowNext

\* A birth certificate covers all phases in order, whatever copies of the state
\* the flow went on from (complete_phase and issue_birth_certificate).
THEOREM BirthsHold == ASSUME InitFlowAssumption PROVE FlowSpec => []BirthsInOrder
<1>1. FlowInv => BirthsInOrder
  BY DEF FlowInv
<1>2. FlowInv /\ [FlowNext]_flowVars => FlowInv'
  BY NextFlowInv
<1> QED
  BY InitFlowInv, <1>1, <1>2, PTL DEF FlowSpec

-----------------------------------------------------------------------------
(* CryptoIpc, for any operations, bounds and keys.  A request is checked   *)
(* when it is served and never looked at again, so what has to be carried  *)
(* along is only that frames hold requests the control plane built.        *)

Request == [request_id : Nat, nonce : Nat, deadline : Nat, op : Ops, hmac : Nat \X Ops]
Frame == [at : Nat, request : Request, whole : BOOLEAN]
Serving == [request : Request, at : Nat, key : Nat]

IpcTypeOK ==
    /\ controlKey \in Nat /\ dataKey \in Nat /\ sends \in Nat /\ ms \in Nat
    /\ built \in Seq(Request) /\ served \in Seq(Serving)
    /\ wire \subseteq Frame

FramesAreBuilt == \A f \in wire : \E i \in DOMAIN built : built[i] = f.request

IpcInv == IpcTypeOK /\ FramesAreBuilt /\ ServedInTime

LEMMA BuildKeeps ==
    ASSUME CryptoIpcAssumption, IpcInv, NEW op \in Ops, NEW ttl \in 0..1, BuildRequest(op, ttl)
    PROVE  IpcInv'
<1> DEFINE r == [request_id |-> (Len(built) + 1) % IdWord, nonce |-> Len(built) + 1,
                 deadline |-> ms + ttl, op |-> op, hmac |-> Sign(controlKey, op)]
<1>1. Len(built) \in Nat /\ built \in Seq(Request) /\ served \in Seq(Serving)
  BY DEF IpcInv, IpcTypeOK
<1>2. (Len(built) + 1) % IdWord \in Nat /\ ms + ttl \in Nat /\ Sign(controlKey, op) \in Nat \X Ops
  BY <1>1 DEF CryptoIpcAssumption, IpcInv, IpcTypeOK, Sign
<1>3. r \in Request
  BY <1>1, <1>2 DEF Request
<1>4. built' = Append(built, r) /\ UNCHANGED <<controlKey, dataKey, wire, sends, served, ms>>
  BY DEF BuildRequest
<1> HIDE DEF r
<1>5. built' \in Seq(Request) /\ \A i \in DOMAIN built : i \in DOMAIN built' /\ built'[i] = built[i]
  BY <1>1, <1>3, <1>4
<1>6. IpcTypeOK'
  BY <1>4, <1>5 DEF IpcInv, IpcTypeOK
<1>7. FramesAreBuilt'
  BY <1>4, <1>5 DEF IpcInv, FramesAreBuilt
<1>8. ServedInTime'
  BY <1>4, <1>5 DEF IpcInv, ServedInTime
<1> QED
  BY <1>6, <1>7, <1>8 DEF IpcInv

LEMMA SendKeeps ==
    ASSUME IpcInv, NEW i \in DOMAIN built, NEW whole \in BOOLEAN, Send(i, whole)
    PROVE  IpcInv'
<1>1. /\ sends' = sends + 1 /\ UNCHANGED <<controlKey, dataKey, built, served, ms>>
      /\ wire' = wire \cup {[at |-> sends', request |-> built[i], whole |-> whole]}
  BY DEF Send
<1>2. built[i] \in Request /\ sends' \in Nat
  BY <1>1 DEF IpcInv, IpcTypeOK
<1>3. [at |-> sends', request |-> built[i], whole |-> whole] \in Frame
  BY <1>2 DEF Frame
<1>4. IpcTypeOK'
  BY <1>1, <1>2, <1>3 DEF IpcInv, IpcTypeOK
<1>5. FramesAreBuilt'
  BY <1>1 DEF IpcInv, FramesAreBuilt
<1> QED
  BY <1>1, <1>4, <1>5 DEF IpcInv, ServedInTime

LEMMA DeliverKeeps ==
    ASSUME IpcInv, NEW f \in wire, Deliver(f)
    PROVE  IpcInv'
<1>1. wire' = wire \ {f} /\ UNCHANGED <<controlKey, dataKey, built, sends, ms>>
  BY DEF Deliver
<1>2. FramesAreBuilt'
  BY <1>1 DEF IpcInv, FramesAreBuilt
<1>3. CASE served' = served
  BY <1>1, <1>2, <1>3 DEF IpcInv, IpcTypeOK, ServedInTime
<1>4. CASE served' # served
  <2> DEFINE new == [request |-> f.request, at |-> ms, key |-> dataKey]
  <2>1. VerifyRequest(f.request) /\ served' = Append(served, new)
    BY <1>4 DEF Deliver
  <2>2. f.request \in Request
    BY DEF IpcInv, IpcTypeOK, Frame
  <2>3. new \in Serving
    BY <2>2 DEF IpcInv, IpcTypeOK, Serving
  <2>4. new.at <= new.request.deadline /\ new.request.hmac[1] = new.key
    BY <2>1 DEF VerifyRequest, Sign
  <2>5. \E i \in DOMAIN built : built[i] = new.request
    BY DEF IpcInv, FramesAreBuilt
  <2> HIDE DEF new
  <2>6. /\ served' \in Seq(Serving)
        /\ \A k \in DOMAIN served' :
               \/ k \in DOMAIN served /\ served'[k] = served[k]
               \/ served'[k] = new
    BY <2>1, <2>3 DEF IpcInv, IpcTypeOK
  <2>7. IpcTypeOK'
    BY <1>1, <2>6 DEF IpcInv, IpcTypeOK
  <2>8. ServedInTime'
    BY <1>1, <2>4, <2>5, <2>6 DEF IpcInv, ServedInTime
  <2> QED
    BY <1>2, <2>7, <2>8 DEF IpcInv
<1> QED
  BY <1>3, <1>4

\* What the data plane serves was built under the key it was checked with and
\* is not late (verify_request), whatever the wire and the planes do.
THEOREM ServedInTimeAlways ==
    ASSUME CryptoIpcAssumption PROVE IpcSpec => []ServedInTime
<1>1. IpcInit => IpcInv
  BY DEF IpcInit, IpcInv, IpcTypeOK, FramesAreBuilt, ServedInTime
<1>2. IpcInv /\ [IpcNext]_ipcVars => IpcInv'
  <2> SUFFICES ASSUME IpcInv, [IpcNext]_ipcVars PROVE IpcInv'
    OBVIOUS
  <2>1. ASSUME NEW f \in wire, Lose(f) PROVE IpcInv'
    BY <2>1 DEF Lose, IpcInv, IpcTypeOK, FramesAreBuilt, ServedInTime
  <2>2. CASE RestartData \/ RestartControl \/ IpcTick
    BY <2>2 DEF RestartData, RestartControl, IpcTick, IpcInv, IpcTypeOK, FramesAreBuilt, ServedInTime
  <2>3. CASE UNCHANGED ipcVars
    BY <2>3 DEF ipcVars, IpcInv, IpcTypeOK, FramesAreBuilt, ServedInTime
  <2> QED
    BY <2>1, <2>2, <2>3, BuildKeeps, SendKeeps, DeliverKeeps DEF IpcNext
<1>3. IpcInv => ServedInTime
  BY DEF IpcInv
<1> QED
  BY <1>1, <1>2, <1>3, PTL DEF IpcSpec

-----------------------------------------------------------------------------
(* Clearances, for any subjects and classifications: the reading rule bounds *)
(* what a subject comes to know by its clearance, and the writing rule what *)
(* an object comes to hold by its level.                                    *)

LEMMA LevelIsNat == \A c \in Classification : Level[c] \in Nat
<1> TAKE c \in Classification
<1> QED
  BY DEF Level

\* Every reachable state is of its type.
THEOREM ClearancesTypes ==
    ASSUME ClearancesAssumption PROVE MlsSpec => []MlsTypeOK
<1>1. MlsInit => MlsTypeOK
  BY DEF MlsInit, MlsTypeOK, Clearance
<1>2. MlsTypeOK /\ [MlsNext]_mlsVars => MlsTypeOK'
  <2> SUFFICES ASSUME MlsTypeOK, [MlsNext]_mlsVars PROVE MlsTypeOK'
    OBVIOUS
  <2>1. ASSUME NEW s \in Subjects, NEW tag \in TagsInUse, With(s, tag) \/ Remove(s, tag)
        PROVE  MlsTypeOK'
    <3>1. tag \in Tags
      BY DEF TagsInUse, ForLevel, Tags
    <3> QED
      BY <2>1, <3>1 DEF MlsTypeOK, Clearance, With, Remove
  <2>2. ASSUME NEW s \in Subjects, NEW o \in Objects, Read(s, o)
        PROVE  MlsTypeOK'
    BY <2>2 DEF MlsTypeOK, Read
  <2>3. ASSUME NEW s \in Subjects, NEW o \in Objects, Write(s, o)
        PROVE  MlsTypeOK'
    BY <2>3 DEF MlsTypeOK, Write
  <2>4. CASE UNCHANGED mlsVars
    BY <2>4 DEF MlsTypeOK, mlsVars
  <2> QED
    BY <2>1, <2>2, <2>3, <2>4 DEF MlsNext
<1> QED
  BY <1>1, <1>2, PTL DEF MlsSpec

LEMMA NothingFlowsDownStep ==
    ASSUME ClearancesAssumption, MlsTypeOK, NothingFlowsDown, [MlsNext]_mlsVars
    PROVE  NothingFlowsDown'
<1>1. ASSUME NEW s \in Subjects, NEW tag \in TagsInUse, With(s, tag) \/ Remove(s, tag)
      PROVE  NothingFlowsDown'
  <2>1. \A t \in Subjects : clearance'[t].level = clearance[t].level
    BY <1>1 DEF MlsTypeOK, Clearance, With, Remove
  <2> QED
    BY <1>1, <2>1 DEF NothingFlowsDown, With, Remove
<1>2. ASSUME NEW s \in Subjects, NEW o \in Objects, Read(s, o)
      PROVE  NothingFlowsDown'
  <2>1. \A c \in contents[o] : Level[c] <= Level[clearance[s].level]
    <3> TAKE c \in contents[o]
    <3>1. Level[c] <= Level[o] /\ Level[o] <= Level[clearance[s].level]
      BY <1>2 DEF NothingFlowsDown, Read, Satisfies, CanRead
    <3>2. {c, o, clearance[s].level} \subseteq Classification
      BY DEF MlsTypeOK, Clearance, ClearancesAssumption
    <3> QED
      BY <3>1, <3>2, LevelIsNat
  <2>2. seen' = [seen EXCEPT ![s] = @ \cup contents[o]]
    BY <1>2 DEF Read
  <2> QED
    BY <1>2, <2>1, <2>2 DEF NothingFlowsDown, MlsTypeOK, Read
<1>3. ASSUME NEW s \in Subjects, NEW o \in Objects, Write(s, o)
      PROVE  NothingFlowsDown'
  <2>1. \A c \in seen[s] : Level[c] <= Level[o]
    BY <1>3 DEF NothingFlowsDown, Write, CanWrite
  <2>2. contents' = [contents EXCEPT ![o] = @ \cup seen[s]]
    BY <1>3 DEF Write
  <2> QED
    BY <1>3, <2>1, <2>2 DEF NothingFlowsDown, MlsTypeOK, Write
<1>4. CASE UNCHANGED mlsVars
  BY <1>4 DEF NothingFlowsDown, mlsVars
<1> QED
  BY <1>1, <1>2, <1>3, <1>4 DEF MlsNext

\* Whatever subjects pass on to each other through objects, nothing is known or
\* kept below the level it came from (CanRead and CanWrite).
THEOREM ClearancesHold ==
    ASSUME ClearancesAssumption PROVE MlsSpec => []NothingFlowsDown
<1>1. MlsInit => NothingFlowsDown
  <2> SUFFICES ASSUME MlsInit PROVE NothingFlowsDown
    OBVIOUS
  <2>1. \A o \in Objects : \A c \in contents[o] : c = o /\ Level[c] \in Nat
    BY LevelIsNat DEF MlsInit, ClearancesAssumption
  <2> QED
    BY <2>1 DEF MlsInit, NothingFlowsDown
<1>2. MlsTypeOK /\ NothingFlowsDown /\ [MlsNext]_mlsVars => NothingFlowsDown'
  BY NothingFlowsDownStep
<1> QED
  BY <1>1, <1>2, ClearancesTypes, PTL DEF MlsSpec

-----------------------------------------------------------------------------
(* Perimeter, for any destinations.  The outlets depend on whether the     *)
(* enforcer is armed, on its mode and on the zone alone, and none of the   *)
(* three opens one when it grows; the zone tells all of the shielding,     *)
(* since the shielding is only ever made by for_zone.                      *)

Shielded == shielding \in {ForZone(z) : z \in Zones}

BorderInv ==
    /\ config \in [mode : Modes, ntp : BOOLEAN, telemetry : BOOLEAN, attestation : BOOLEAN]
    /\ Shielded
    /\ prevZone # NoZone => prevZone \in Zones

LEMMA InitBorderInv == BorderInit => BorderInv
<1> SUFFICES ASSUME BorderInit PROVE BorderInv
  OBVIOUS
<1>1. config \in [mode : Modes, ntp : BOOLEAN, telemetry : BOOLEAN, attestation : BOOLEAN]
  <2>1. /\ DefaultConfig.mode = 0 /\ AirGapConfig.mode = 2
        /\ {DefaultConfig, AirGapConfig}
               \subseteq [mode : Modes, ntp : BOOLEAN, telemetry : BOOLEAN,
                          attestation : BOOLEAN]
    BY DEF DefaultConfig, AirGapConfig, Modes
  <2> QED
    BY <2>1 DEF BorderInit
<1>2. Shielded /\ prevZone = NoZone
  BY DEF BorderInit, Shielded
<1> QED
  BY <1>1, <1>2 DEF BorderInv

LEMMA NextBorderInv ==
    ASSUME BorderInv, [BorderNext]_borderVars
    PROVE  BorderInv'
<1>1. ASSUME NEW h \in Destinations, CheckEgress(h) \/ CheckUrl(h)
      PROVE  BorderInv'
  BY <1>1 DEF CheckEgress, CheckUrl, Passes, BorderInv, Shielded
<1>2. ASSUME NEW m \in Modes, SetMode(m)
      PROVE  BorderInv'
  BY <1>2 DEF SetMode, BorderInv, Shielded
<1>3. ASSUME NEW on \in BOOLEAN, Arm(on)
      PROVE  BorderInv'
  BY <1>3 DEF Arm, BorderInv, Shielded
<1>4. ASSUME NEW z \in Zones, SetZone(z)
      PROVE  BorderInv'
  BY <1>4 DEF SetZone, BorderInv, Shielded
<1>5. ASSUME NEW z \in Zones, Enter(z)
      PROVE  BorderInv'
  <2>1. shielding.zone \in Zones
    BY DEF BorderInv, Shielded, ForZone
  <2> QED
    BY <1>5, <2>1 DEF Enter, BorderInv, Shielded
<1>6. CASE Jam
  BY <1>6 DEF Jam, BorderInv, Shielded
<1>7. CASE Drop
  BY <1>7 DEF Drop, BorderInv, Shielded
<1>8. CASE UNCHANGED borderVars
  BY <1>8 DEF borderVars, BorderInv, Shielded
<1> QED
  BY <1>1, <1>2, <1>3, <1>4, <1>5, <1>6, <1>7, <1>8 DEF BorderNext

\* A stricter mode lets through nothing that a laxer one does not
\* (SovereigntyMode::allows_egress and check_url).
LEMMA StricterModes ==
    ASSUME NEW m \in Modes, NEW n \in Modes, m <= n, NEW h
    PROVE  /\ AllowsEgress(n, h) => AllowsEgress(m, h)
           /\ AllowsUrl(n, h) => AllowsUrl(m, h)
BY DEF Modes, AllowsEgress, AllowsUrl, IsLoopback, IsPrivate

\* A higher zone takes nothing off the shielding (ShieldingConfig::for_zone).
LEMMA HigherZones ==
    ASSUME NEW y \in Zones, NEW z \in Zones, y <= z
    PROVE  /\ ForZone(y).redBlackSeparation => ForZone(z).redBlackSeparation
           /\ ForZone(y).noSubprocess => ForZone(z).noSubprocess
<1>1. \A x \in Zones : /\ ForZone(x).redBlackSeparation = (x >= 2)
                                /\ ForZone(x).noSubprocess = (x >= 3)
  BY Zenon DEF ForZone
<1>2. y \in Nat /\ z \in Nat
  BY DEF Zones
<1>3. (y >= 2 => z >= 2) /\ (y >= 3 => z >= 3)
  BY <1>2
<1> QED
  BY <1>1, <1>3

\* For any destinations: no step, the end of a shielded operation included,
\* opens an outlet unless it disarms the enforcer, turns to a laxer mode or goes
\* to a lower zone (AirGapEnforcer, ShieldedOperation::drop).
THEOREM OutletsStayClosed == BorderSpec => NoOutletOpens
<1>1. BorderInit => BorderInv
  BY InitBorderInv
<1>2. BorderInv /\ [BorderNext]_borderVars => BorderInv'
  BY NextBorderInv
<1>3. ASSUME BorderInv, BorderInv', armed => armed', config.mode <= config.mode',
             shielding.zone <= shielding'.zone
      PROVE  Outlets' \subseteq Outlets
  <2>1. /\ config.mode \in Modes /\ config'.mode \in Modes
        /\ config.mode <= config'.mode
    BY <1>3 DEF BorderInv
  <2>2. PICK y \in Zones, z \in Zones :
            /\ shielding = ForZone(y) /\ shielding' = ForZone(z)
            /\ y <= z
    BY <1>3 DEF BorderInv, Shielded, ForZone
  <2>3. /\ shielding.redBlackSeparation => shielding'.redBlackSeparation
        /\ shielding.noSubprocess => shielding'.noSubprocess
    BY <2>2, HigherZones
  <2>4. \A h \in Destinations :
            /\ ~armed' \/ AllowsEgress(config'.mode, h)
                   => ~armed \/ AllowsEgress(config.mode, h)
            /\ ~armed' \/ AllowsUrl(config'.mode, h)
                   => ~armed \/ AllowsUrl(config.mode, h)
    BY <1>3, <2>1, StricterModes
  <2> QED
    BY <2>3, <2>4 DEF Outlets
<1> QED
  BY <1>1, <1>2, <1>3, PTL DEF BorderSpec, NoOutletOpens

-----------------------------------------------------------------------------
(* Hardware, for any machines, host names and registers.  What is kept     *)
(* tells under which identity it was made, and two identities give one     *)
(* state to a list of registers only when each occurs an even number of    *)
(* times.                                                                  *)

HardwareInv ==
    /\ \A b \in blobs : /\ \E n \in Nat : DOMAIN b.indices = 1..n
                        /\ b.state = PcrState(b.under, b.indices)
    /\ \A c \in challenged : c.answer = Answer(c.under, c.to)
    /\ \A f \in sealed :
           \/ f.by = "chip" /\ f.blob = [format |-> "object", key |-> <<>>]
           \/ f.by = "software" /\ f.blob = [format |-> "envelope", key |-> <<f.id, f.host>>]

Odd(indices) ==
    {j \in Range(indices) : Cardinality({k \in DOMAIN indices : indices[k] = j}) % 2 = 1}

\* The states of two identities agree on a list exactly when the identities do or
\* every register of the list cancels out.
LEMMA StatesTell ==
    ASSUME NEW indices, NEW n \in Nat, DOMAIN indices = 1..n, NEW x, NEW y
    PROVE  PcrState(x, indices) = PcrState(y, indices) <=> x = y \/ Cancels(indices)
<1> DEFINE Spots(j) == {k \in DOMAIN indices : indices[k] = j}
<1>1. \A j : Cardinality(Spots(j)) % 2 = 0 <=> Cardinality(Spots(j)) % 2 # 1
  <2> SUFFICES ASSUME NEW j
               PROVE  Cardinality(Spots(j)) \in Nat
    BY \A c \in Nat : c % 2 = 0 <=> c % 2 # 1
  <2>1. IsFiniteSet(1..n)
    BY FS_Interval
  <2>2. IsFiniteSet(Spots(j))
    BY <2>1, FS_Subset
  <2> QED
    BY <2>2, FS_CardinalityType
<1>2. Cancels(indices) <=> Odd(indices) = {}
  BY <1>1 DEF Cancels, Odd
<1>3. \A z : PcrState(z, indices) = {<<z, j>> : j \in Odd(indices)}
  BY DEF PcrState, Pcr, Odd
<1>4. ASSUME NEW j \in Odd(indices), PcrState(x, indices) = PcrState(y, indices)
      PROVE  x = y
  <2>1. <<x, j>> \in PcrState(y, indices)
    BY <1>3, <1>4
  <2> QED
    BY <1>3, <2>1
<1> QED
  BY <1>2, <1>3, <1>4

LEMMA NextHardwareInv ==
    ASSUME HardwareAssumption, HardwareInv, [TpmNext]_tpmVars PROVE HardwareInv'
<1>1. ASSUME NEW n \in 0..MaxIndices, NEW l \in [1..n -> Registers], Seal(l)
      PROVE  HardwareInv'
  BY <1>1 DEF Seal, HardwareInv, HardwareAssumption, machine, process
<1>2. ASSUME Challenge(1) \/ SignChallenge(1)
      PROVE  HardwareInv'
  BY <1>2 DEF Challenge, SignChallenge, HardwareInv, machine, process
<1>3. CASE SealFile
  <2>1. \A f \in sealed' : f \in sealed \/ f = [blob |-> Blob, id |-> machineId,
                                              host |-> hostname, by |-> Provider]
    BY <1>3 DEF SealFile
  <2>2. \/ Provider = "chip" /\ Blob = [format |-> "object", key |-> <<>>]
        \/ Provider = "software" /\ Blob = [format |-> "envelope", key |-> <<machineId, hostname>>]
    BY DEF Provider, Blob, DeviceKey
  <2> QED
    BY <1>3, <2>1, <2>2 DEF SealFile, HardwareInv, machine, process
<1>4. ASSUME NEW id, ChangeId(id) \/ ChangeHost(id)
      PROVE  HardwareInv'
  BY <1>4 DEF ChangeId, ChangeHost, HardwareInv, process
<1>5. CASE ChangeTpm \/ ChangeBuild
  BY <1>5 DEF ChangeTpm, ChangeBuild, HardwareInv, process
<1>6. CASE Reboot
  BY <1>6 DEF Reboot, HardwareInv, machine
<1>7. CASE UNCHANGED tpmVars
  BY <1>7 DEF tpmVars, HardwareInv
<1> QED
  BY <1>1, <1>2, <1>3, <1>4, <1>5, <1>6, <1>7 DEF TpmNext

\* Whatever starts with whatever identity: a blob unseals under the identity it was
\* sealed under, and under another one exactly when its registers cancel out; answers
\* tell identities apart; and a file of tpm seal gives back its key exactly where
\* both commands take the software provider under the same two names
\* (hardware/mod.rs, tpm/).
THEOREM HardwareBinds == ASSUME HardwareAssumption PROVE TpmSpec => []BoundToMachine
<1>1. TpmInit => HardwareInv
  BY DEF TpmInit, HardwareInv
<1>2. HardwareInv => BoundToMachine
  <2> SUFFICES ASSUME HardwareInv PROVE BoundToMachine
    OBVIOUS
  <2>1. ASSUME NEW b \in blobs
        PROVE  Unseals(manager, b) <=> b.under = manager \/ Cancels(b.indices)
    BY StatesTell DEF HardwareInv, Unseals
  <2>2. ASSUME NEW p \in challenged, NEW q \in challenged, p.to = q.to
        PROVE  p.answer = q.answer <=> p.under = q.under
    BY <2>2 DEF HardwareInv, Answer
  <2>3. ASSUME NEW f \in sealed
        PROVE  FileUnseals(f) <=> /\ f.by = "software" /\ Provider = "software"
                                  /\ f.id = machineId /\ f.host = hostname
    <3>1. CASE Provider # "software"
      BY <3>1 DEF FileUnseals
    <3>2. CASE Provider = "software"
      <4>1. Blob = [format |-> "envelope", key |-> <<machineId, hostname>>]
        BY <3>2 DEF Blob, DeviceKey
      <4>2. CASE f.by = "chip" /\ f.blob = [format |-> "object", key |-> <<>>]
        <5>1. f.blob.format # Blob.format
          BY <4>1, <4>2
        <5> QED
          BY <4>2, <5>1 DEF FileUnseals
      <4>3. CASE f.by = "software" /\ f.blob = [format |-> "envelope", key |-> <<f.id, f.host>>]
        <5>1. f.blob = Blob <=> f.id = machineId /\ f.host = hostname
          BY <4>1, <4>3
        <5> QED
          BY <3>2, <4>3, <5>1 DEF FileUnseals
      <4> QED
        BY <4>2, <4>3 DEF HardwareInv
    <3> QED
      BY <3>1, <3>2
  <2> QED
    BY <2>1, <2>2, <2>3 DEF BoundToMachine
<1> QED
  BY <1>1, <1>2, NextHardwareInv, PTL DEF TpmSpec

-----------------------------------------------------------------------------
(* Comsec, for any holders, keys, kinds of event and bounds. The invariant *)
(* is about every copy of a key on its own, wherever it is held: a copy in *)
(* which nothing has flipped links each event to the one before it, and    *)
(* its field last to the last one; one in which a hashed bit has flipped   *)
(* holds an event that fails, and keeps it, since events are only          *)
(* appended.                                                               *)

Hashed == {"event_id", "prev", "stamp", "kind"}
Last(key) == IF key.chain = <<>> THEN Genesis ELSE key.chain[Len(key.chain)].event_id

EventSound(key, i) ==
    LET e == key.chain[i]
        prev == IF i = 1 THEN Genesis ELSE key.chain[i - 1].event_id
    IN  /\ e.prev = prev
        /\ e.kind \in EventKinds
        /\ e.stamp \in 0..MaxMillis
        /\ \E t \in 0..MaxMillis : /\ e.event_id = Digest(prev, key.id, t, e.kind)
                                   /\ ~key.split => t = e.stamp

KeyShape(key) ==
    /\ key = [id |-> key.id, chain |-> key.chain, last |-> key.last,
              destroyed |-> key.destroyed, split |-> key.split, flipped |-> key.flipped]
    /\ key.destroyed \in BOOLEAN
    /\ key.split \in BOOLEAN
    /\ key.chain \in Seq(Range(key.chain))
    /\ \A i \in DOMAIN key.chain :
        LET e == key.chain[i]
        IN  e = [event_id |-> e.event_id, prev |-> e.prev, key_id |-> e.key_id,
                 stamp |-> e.stamp, kind |-> e.kind, witness |-> e.witness]

DestroyedLast(key) ==
    \A i \in DOMAIN key.chain :
        key.chain[i].kind = "Destroy" => i = Len(key.chain) /\ key.destroyed

KeySound(key) ==
    /\ KeyShape(key)
    /\ DestroyedLast(key)
    /\ key.flipped = "none" => /\ \A i \in DOMAIN key.chain : EventSound(key, i)
                               /\ key.last = Last(key)
    /\ key.flipped \in Hashed => ~VerifyChain(key)

LedgerInv ==
    /\ now \in 0..MaxMillis
    /\ held \in [Holders -> Copies \cup {NoKey}]
    /\ keys \in [KeyIds -> Copies \cup {NoKey}]
    /\ \A key \in Copies : KeySound(key)

\* A sequence of whatever events, and one event more.
LEMMA Longer ==
    ASSUME NEW c, c \in Seq(Range(c)), NEW e
    PROVE  /\ Append(c, e) \in Seq(Range(Append(c, e)))
           /\ Len(Append(c, e)) = Len(c) + 1 /\ Len(c) \in Nat
           /\ DOMAIN c = 1..Len(c) /\ DOMAIN Append(c, e) = 1..Len(c) + 1
           /\ \A i \in 1..Len(c) : Append(c, e)[i] = c[i]
           /\ Append(c, e)[Len(c) + 1] = e
           /\ Append(c, e) # <<>>
<1> DEFINE S == Range(c) \cup {e}
<1>1. c \in Seq(S)
  BY DEF Range
<1>2. e \in S
  OBVIOUS
<1> HIDE DEF S
<1>3. /\ Append(c, e) \in Seq(S)
      /\ Len(Append(c, e)) = Len(c) + 1 /\ Len(c) \in Nat
      /\ DOMAIN c = 1..Len(c) /\ DOMAIN Append(c, e) = 1..Len(c) + 1
      /\ \A i \in 1..Len(c) : Append(c, e)[i] = c[i]
      /\ Append(c, e)[Len(c) + 1] = e
  BY <1>1, <1>2
<1> DEFINE a == Append(c, e)
<1>4. a \in Seq(Range(a))
  <2> HIDE DEF a
  <2>1. a \in Seq(S)
    BY <1>3 DEF a
  <2> QED
    BY <2>1 DEF Range
<1> QED
  BY <1>3, <1>4

LEMMA FreshSound ==
    ASSUME NEW short PROVE KeySound(NewKey(short)) /\ NewKey(short) # NoKey
<1> DEFINE k == NewKey(short)
<1>1. k.chain = <<>> /\ k.flipped = "none" /\ k.last = Genesis
  BY DEF NewKey
<1>2. KeyShape(k)
  <2>1. <<>> \in Seq(Range(<<>>)) /\ DOMAIN <<>> = {}
    OBVIOUS
  <2>2. k.destroyed = FALSE /\ k.split = FALSE
    BY Zenon DEF NewKey
  <2>3. k = [id |-> k.id, chain |-> k.chain, last |-> k.last,
              destroyed |-> k.destroyed, split |-> k.split, flipped |-> k.flipped]
    BY Zenon DEF NewKey
  <2> QED
    BY <1>1, <2>1, <2>2, <2>3 DEF KeyShape
<1>3. k # NoKey
  BY DEF NewKey, NoKey
<1> QED
  BY <1>1, <1>2, <1>3 DEF KeySound, DestroyedLast, Last, Hashed

\* What append_event makes of the fields of a key.
LEMMA AppendedFields ==
    ASSUME NEW key, KeyShape(key), NEW kind, NEW t1, NEW t2,
           NEW new, new = Appended(key, kind, t1, t2),
           NEW e, e = [event_id |-> Digest(key.last, key.id, t1, kind), prev |-> key.last,
                       key_id |-> key.id, stamp |-> t2, kind |-> kind, witness |-> "signed"]
    PROVE  /\ new.id = key.id /\ new.chain = Append(key.chain, e)
           /\ new.last = e.event_id
           /\ new.destroyed <=> key.destroyed \/ kind = "Destroy"
           /\ new.split <=> key.split \/ t1 # t2
           /\ new.destroyed \in BOOLEAN /\ new.split \in BOOLEAN
           /\ new.flipped = key.flipped
           /\ new = [id |-> new.id, chain |-> new.chain, last |-> new.last,
                     destroyed |-> new.destroyed, split |-> new.split, flipped |-> new.flipped]
<1>1. new = [key EXCEPT !.chain = Append(@, e), !.last = e.event_id,
                        !.destroyed = @ \/ kind = "Destroy", !.split = @ \/ t1 # t2]
  BY DEF Appended, Linked
<1>2. DOMAIN key = {"id", "chain", "last", "destroyed", "split", "flipped"}
  BY DEF KeyShape
<1>3. /\ new.id = key.id /\ new.chain = Append(key.chain, e)
      /\ new.last = e.event_id /\ new.flipped = key.flipped
  BY <1>1, <1>2
<1>4. /\ new.destroyed = (key.destroyed \/ kind = "Destroy")
      /\ new.split = (key.split \/ t1 # t2)
  BY <1>1, <1>2, Zenon
<1>5. new.destroyed \in BOOLEAN /\ new.split \in BOOLEAN
  BY <1>4, Zenon
<1>6. new = [id |-> new.id, chain |-> new.chain, last |-> new.last,
             destroyed |-> new.destroyed, split |-> new.split, flipped |-> new.flipped]
  BY <1>1, <1>2
<1>7. /\ new.destroyed <=> key.destroyed \/ kind = "Destroy"
      /\ new.split <=> key.split \/ t1 # t2
  BY <1>4, Zenon
<1> QED
  BY <1>3, <1>5, <1>6, <1>7

\* An event appended leaves the others where they are and links to the last one.
LEMMA AppendedSound ==
    ASSUME NEW key, KeySound(key), MayAppend(key), ComsecAssumption,
           NEW kind \in EventKinds, NEW t1 \in 0..MaxMillis, NEW t2 \in 0..MaxMillis
    PROVE  KeySound(Appended(key, kind, t1, t2)) /\ Appended(key, kind, t1, t2) # NoKey
<1> DEFINE new == Appended(key, kind, t1, t2)
           e == [event_id |-> Digest(key.last, key.id, t1, kind), prev |-> key.last,
                 key_id |-> key.id, stamp |-> t2, kind |-> kind, witness |-> "signed"]
           n == Len(key.chain)
<1>1. KeyShape(key)
  BY DEF KeySound
<1>2. /\ new.id = key.id /\ new.chain = Append(key.chain, e)
      /\ new.last = e.event_id
      /\ new.destroyed <=> key.destroyed \/ kind = "Destroy"
      /\ new.split <=> key.split \/ t1 # t2
      /\ new.destroyed \in BOOLEAN /\ new.split \in BOOLEAN
      /\ new.flipped = key.flipped
      /\ new = [id |-> new.id, chain |-> new.chain, last |-> new.last,
                destroyed |-> new.destroyed, split |-> new.split, flipped |-> new.flipped]
  BY <1>1, AppendedFields
<1>3. /\ e.event_id = Digest(key.last, key.id, t1, kind) /\ e.prev = key.last
      /\ e.stamp = t2 /\ e.kind = kind
      /\ e = [event_id |-> e.event_id, prev |-> e.prev, key_id |-> e.key_id,
              stamp |-> e.stamp, kind |-> e.kind, witness |-> e.witness]
  OBVIOUS
<1> HIDE DEF new, e
<1>4. /\ new.chain \in Seq(Range(new.chain))
      /\ Len(new.chain) = n + 1 /\ n \in Nat
      /\ DOMAIN key.chain = 1..n /\ DOMAIN new.chain = 1..n + 1
      /\ \A i \in 1..n : new.chain[i] = key.chain[i]
      /\ new.chain[n + 1] = e
      /\ new.chain # <<>>
  BY <1>1, <1>2, Longer DEF KeyShape
<1>5. KeyShape(new)
  <2>1. \A i \in DOMAIN new.chain : new.chain[i] = e \/ \E j \in DOMAIN key.chain : new.chain[i] = key.chain[j]
    BY <1>4
  <2> QED
    BY <1>1, <1>2, <1>3, <1>4, <2>1 DEF KeyShape
<1>6. DestroyedLast(new)
  <2>1. ~key.destroyed
    BY DEF MayAppend
  <2>2. \A i \in 1..n : new.chain[i].kind # "Destroy"
    BY <1>4, <2>1 DEF KeySound, DestroyedLast
  <2>3. \A i \in DOMAIN new.chain : new.chain[i].kind = "Destroy" => i = n + 1 /\ kind = "Destroy"
    BY <1>3, <1>4, <2>2
  <2> QED
    BY <1>2, <1>4, <2>3 DEF DestroyedLast
<1>7. ASSUME new.flipped = "none"
      PROVE  /\ \A i \in DOMAIN new.chain : EventSound(new, i)
             /\ new.last = Last(new)
  <2>1. /\ \A i \in DOMAIN key.chain : EventSound(key, i)
        /\ key.last = Last(key)
    BY <1>2, <1>7 DEF KeySound
  <2>2. ASSUME NEW i \in 1..n
        PROVE  EventSound(new, i)
    <3>1. /\ new.chain[i] = key.chain[i]
          /\ i # 1 => new.chain[i - 1] = key.chain[i - 1]
      <4>1. i # 1 => i - 1 \in 1..n
        BY <1>4
      <4> QED
        BY <1>4, <4>1
    <3>2. ~new.split => ~key.split
      BY <1>2
    <3> QED
      BY <1>2, <1>4, <2>1, <3>1, <3>2 DEF EventSound
  <2>3. EventSound(new, n + 1)
    <3>1. key.last = IF n + 1 = 1 THEN Genesis ELSE new.chain[(n + 1) - 1].event_id
      <4>1. key.chain = <<>> <=> n = 0
        BY <1>1 DEF KeyShape
      <4>2. n # 0 => n \in 1..n /\ (n + 1) - 1 = n
        BY <1>4
      <4> QED
        BY <1>4, <2>1, <4>1, <4>2 DEF Last
    <3>2. ~new.split => t1 = t2
      BY <1>2
    <3> QED
      BY <1>2, <1>3, <1>4, <3>1, <3>2 DEF EventSound
  <2>4. new.last = Last(new)
    BY <1>2, <1>4 DEF Last
  <2> QED
    BY <1>4, <2>2, <2>3, <2>4
<1>8. ASSUME new.flipped \in Hashed
      PROVE  ~VerifyChain(new)
  <2>1. PICK i \in 1..n : ~EventOK(key, i)
    BY <1>2, <1>4, <1>8 DEF KeySound, VerifyChain
  <2>2. i # 1 => i - 1 \in 1..n
    BY <1>4
  <2>3. /\ new.chain[i] = key.chain[i]
        /\ i # 1 => new.chain[i - 1] = key.chain[i - 1]
    BY <1>4, <2>2
  <2>4. ~EventOK(new, i)
    BY <1>2, <2>1, <2>3 DEF EventOK
  <2> QED
    BY <1>4, <2>4 DEF VerifyChain
<1>9. new # NoKey
  BY <1>2 DEF NoKey
<1> QED
  BY <1>5, <1>6, <1>7, <1>8, <1>9 DEF KeySound, new

\* record_destroy marks a key and leaves its chain alone.
LEMMA DestroyedSound ==
    ASSUME NEW key, KeySound(key)
    PROVE  KeySound([key EXCEPT !.destroyed = TRUE]) /\ [key EXCEPT !.destroyed = TRUE] # NoKey
<1> DEFINE new == [key EXCEPT !.destroyed = TRUE]
<1>1. DOMAIN key = {"id", "chain", "last", "destroyed", "split", "flipped"}
  BY DEF KeySound, KeyShape
<1>2. /\ new.id = key.id /\ new.chain = key.chain /\ new.last = key.last
      /\ new.flipped = key.flipped /\ DOMAIN new = DOMAIN key
  BY <1>1
<1>3. new.destroyed = TRUE /\ new.split = key.split
  BY <1>1, Zenon
<1>4. new = [id |-> new.id, chain |-> new.chain, last |-> new.last,
             destroyed |-> new.destroyed, split |-> new.split, flipped |-> new.flipped]
  <2>1. new = [f \in DOMAIN key |-> new[f]]
    OBVIOUS
  <2> HIDE DEF new
  <2> QED
    BY <1>1, <2>1
<1> HIDE DEF new
<1>5. KeyShape(new)
  <2>1. new.destroyed \in BOOLEAN /\ new.split \in BOOLEAN
    BY <1>3, Zenon DEF KeySound, KeyShape
  <2> QED
    BY <1>2, <1>4, <2>1, Zenon DEF KeySound, KeyShape
<1>6. DestroyedLast(new)
  BY <1>2, <1>3, Zenon DEF KeySound, DestroyedLast
<1>7. \A i : /\ EventSound(key, i) => EventSound(new, i)
             /\ EventOK(new, i) => EventOK(key, i)
  BY <1>2, <1>3, Zenon DEF EventSound, EventOK
<1>8. new # NoKey
  BY <1>1, <1>2 DEF NoKey
<1> QED
  BY <1>2, <1>5, <1>6, <1>7, <1>8 DEF KeySound, Last, VerifyChain, new

LEMMA SeqOfItself ==
    ASSUME NEW n \in Nat, NEW c, c = [i \in 1..n |-> c[i]]
    PROVE  c \in Seq(Range(c)) /\ Len(c) = n
<1> DEFINE S == Range(c)
<1>1. \A i \in 1..n : c[i] \in S
  BY DEF Range
<1> HIDE DEF S
<1>2. [i \in 1..n |-> c[i]] \in Seq(S)
  BY <1>1
<1>3. DOMAIN c = 1..n
  OBVIOUS
<1>4. c \in Seq(S)
  BY <1>2
<1> QED
  BY <1>3, <1>4 DEF S

LEMMA DigestsDiffer ==
    ASSUME NEW p, NEW id, NEW t, NEW kind
    PROVE  /\ \A q, jd, u, other : Digest(p, id, t, kind) = Digest(q, jd, u, other)
                                    => t = u /\ kind = other
           /\ \A x : [flip |-> x] # Digest(p, id, t, kind) /\ [flip |-> x] # Genesis
<1>1. \A q, jd, u, other : /\ Digest(q, jd, u, other).t = u
                           /\ Digest(q, jd, u, other).kind = other
                           /\ DOMAIN Digest(q, jd, u, other) = {"prev", "id", "t", "kind"}
  BY DEF Digest
<1>2. \A x : DOMAIN [flip |-> x] = {"flip"} /\ DOMAIN Genesis = {"id"}
  BY DEF Genesis
<1>3. {"flip"} # {"id"} /\ {"flip"} # {"prev", "id", "t", "kind"}
  OBVIOUS
<1> QED
  BY <1>1, <1>2, <1>3

\* The event with a flipped bit: the fields, and why it fails when it is hashed.
LEMMA FlippedEvent ==
    ASSUME ComsecAssumption, NEW key, KeyShape(key), NEW i \in DOMAIN key.chain,
           EventSound(key, i), i # 1 => EventSound(key, i - 1),
           NEW field \in Fields, NEW g, g = Flipped(key.chain[i], field),
           NEW prev, prev = IF i = 1 THEN Genesis ELSE key.chain[i - 1].event_id
    PROVE  /\ g = [event_id |-> g.event_id, prev |-> g.prev, key_id |-> g.key_id,
                  stamp |-> g.stamp, kind |-> g.kind, witness |-> g.witness]
           /\ g.kind = key.chain[i].kind \/ g.kind = "flipped"
           /\ field \in Hashed
                => ~(g.prev = prev /\ g.event_id = Digest(prev, key.id, g.stamp, g.kind))
<1> DEFINE e == key.chain[i]
<1>1. /\ DOMAIN e = {"event_id", "prev", "key_id", "stamp", "kind", "witness"}
      /\ e = [event_id |-> e.event_id, prev |-> e.prev, key_id |-> e.key_id,
              stamp |-> e.stamp, kind |-> e.kind, witness |-> e.witness]
  BY DEF KeyShape
<1>2. PICK t \in 0..MaxMillis : e.event_id = Digest(prev, key.id, t, e.kind)
  BY DEF EventSound
<1>3. e.kind \in EventKinds /\ e.stamp \in 0..MaxMillis /\ MaxMillis \in Nat
  BY DEF EventSound, ComsecAssumption
<1>4. prev # [flip |-> "prev"]
  <2>1. CASE i = 1
    BY <2>1, DigestsDiffer
  <2>2. CASE i # 1
    <3>1. \E q, u, k : prev = Digest(q, key.id, u, k)
      BY <2>2 DEF EventSound
    <3> QED
      BY <3>1, DigestsDiffer
  <2> QED
    BY <2>1, <2>2
<1> HIDE DEF e
<1>5. CASE field = "event_id"
  <2>1. g = [e EXCEPT !.event_id = [flip |-> "event_id"]]
    BY <1>5 DEF Flipped, e
  <2>2. g.event_id = [flip |-> "event_id"] /\ g.kind = e.kind
    BY <1>1, <2>1
  <2>3. g = [event_id |-> g.event_id, prev |-> g.prev, key_id |-> g.key_id,
             stamp |-> g.stamp, kind |-> g.kind, witness |-> g.witness]
    BY <1>1, <2>1
  <2> QED
    BY <2>2, <2>3, DigestsDiffer DEF e
<1>6. CASE field = "prev"
  <2>1. g = [e EXCEPT !.prev = [flip |-> "prev"]]
    BY <1>6 DEF Flipped, e
  <2>2. g.prev = [flip |-> "prev"] /\ g.kind = e.kind
    BY <1>1, <2>1
  <2>3. g = [event_id |-> g.event_id, prev |-> g.prev, key_id |-> g.key_id,
             stamp |-> g.stamp, kind |-> g.kind, witness |-> g.witness]
    BY <1>1, <2>1
  <2> QED
    BY <1>4, <2>2, <2>3 DEF e
<1>7. CASE field = "stamp"
  <2>1. g = [e EXCEPT !.stamp = @ + MaxMillis + 1]
    BY <1>7 DEF Flipped, e
  <2>2. /\ g.event_id = Digest(prev, key.id, t, e.kind) /\ g.kind = e.kind
        /\ g.stamp = e.stamp + MaxMillis + 1
    BY <1>1, <1>2, <2>1 DEF e
  <2>3. g = [event_id |-> g.event_id, prev |-> g.prev, key_id |-> g.key_id,
             stamp |-> g.stamp, kind |-> g.kind, witness |-> g.witness]
    BY <1>1, <2>1
  <2>4. t # g.stamp
    BY <1>3, <2>2
  <2> QED
    BY <2>2, <2>3, <2>4, DigestsDiffer DEF e
<1>8. CASE field = "kind"
  <2>1. g = [e EXCEPT !.kind = "flipped"]
    BY <1>8 DEF Flipped, e
  <2>2. /\ g.event_id = Digest(prev, key.id, t, e.kind) /\ g.kind = "flipped"
    BY <1>1, <1>2, <2>1 DEF e
  <2>3. g = [event_id |-> g.event_id, prev |-> g.prev, key_id |-> g.key_id,
             stamp |-> g.stamp, kind |-> g.kind, witness |-> g.witness]
    BY <1>1, <2>1
  <2>4. e.kind # "flipped"
    BY <1>3 DEF ComsecAssumption
  <2> QED
    BY <2>2, <2>3, <2>4, DigestsDiffer DEF e
<1>9. CASE field \in {"witness", "key_id"}
  <2>1. g = [e EXCEPT !.witness = "flipped"] \/ g = [e EXCEPT !.key_id = <<"flipped", 0>>]
    BY <1>9 DEF Flipped, e
  <2>2. g.kind = e.kind
    BY <1>1, <2>1
  <2>3. g = [event_id |-> g.event_id, prev |-> g.prev, key_id |-> g.key_id,
             stamp |-> g.stamp, kind |-> g.kind, witness |-> g.witness]
    BY <1>1, <2>1
  <2> QED
    BY <1>9, <2>2, <2>3 DEF e, Hashed
<1> QED
  BY <1>5, <1>6, <1>7, <1>8, <1>9 DEF Fields

\* A key in which a bit has flipped, for the first time.
LEMMA FlippedSound ==
    ASSUME ComsecAssumption, NEW key, KeySound(key), key.flipped = "none",
           NEW i \in DOMAIN key.chain, NEW field \in Fields, NEW new,
           new = [key EXCEPT !.chain = [key.chain EXCEPT ![i] = Flipped(key.chain[i], field)],
                             !.flipped = field]
    PROVE  KeySound(new) /\ new # NoKey
<1> DEFINE g == Flipped(key.chain[i], field)
           n == Len(key.chain)
<1>1. DOMAIN key = {"id", "chain", "last", "destroyed", "split", "flipped"}
  BY DEF KeySound, KeyShape
<1>2. /\ new.id = key.id /\ new.last = key.last /\ new.flipped = field
      /\ new.chain = [key.chain EXCEPT ![i] = g]
      /\ new.destroyed = key.destroyed /\ new.split = key.split
      /\ new = [id |-> new.id, chain |-> new.chain, last |-> new.last,
                destroyed |-> new.destroyed, split |-> new.split, flipped |-> new.flipped]
  BY <1>1
<1>3. /\ key.chain \in Seq(Range(key.chain)) /\ n \in Nat /\ DOMAIN key.chain = 1..n
      /\ DOMAIN new.chain = 1..n
      /\ \A j \in 1..n : new.chain[j] = IF j = i THEN g ELSE key.chain[j]
  BY <1>2 DEF KeySound, KeyShape
<1>4. /\ EventSound(key, i)
      /\ i # 1 => EventSound(key, i - 1)
  <2>1. i # 1 => i - 1 \in 1..n
    BY <1>3
  <2> QED
    BY <1>3, <2>1 DEF KeySound
<1>5. /\ g = [event_id |-> g.event_id, prev |-> g.prev, key_id |-> g.key_id,
              stamp |-> g.stamp, kind |-> g.kind, witness |-> g.witness]
      /\ g.kind = key.chain[i].kind \/ g.kind = "flipped"
      /\ field \in Hashed
            => LET prev == IF i = 1 THEN Genesis ELSE key.chain[i - 1].event_id
               IN  ~(g.prev = prev /\ g.event_id = Digest(prev, key.id, g.stamp, g.kind))
  BY <1>4, FlippedEvent DEF KeySound
<1> HIDE DEF g
<1>6. new.chain \in Seq(Range(new.chain)) /\ Len(new.chain) = n
  <2>1. new.chain = [j \in 1..n |-> new.chain[j]]
    BY <1>2, <1>3
  <2> QED
    BY <1>3, <2>1, SeqOfItself
<1>7. KeyShape(new)
  <2>1. \A j \in 1..n : LET e == new.chain[j]
                       IN  e = [event_id |-> e.event_id, prev |-> e.prev, key_id |-> e.key_id,
                                stamp |-> e.stamp, kind |-> e.kind, witness |-> e.witness]
    BY <1>3, <1>5 DEF KeySound, KeyShape
  <2>2. new.destroyed \in BOOLEAN /\ new.split \in BOOLEAN
    BY <1>2, Zenon DEF KeySound, KeyShape
  <2> QED
    BY <1>2, <1>3, <1>6, <2>1, <2>2, Zenon DEF KeyShape
<1>8. DestroyedLast(new)
  BY <1>2, <1>3, <1>5, <1>6 DEF KeySound, DestroyedLast
<1>9. field \in Hashed => ~VerifyChain(new)
  <2>1. new.chain[i] = g /\ (i # 1 => new.chain[i - 1] = key.chain[i - 1])
    <3>1. i # 1 => i - 1 \in 1..n
      BY <1>3
    <3> QED
      BY <1>3, <3>1
  <2>2. field \in Hashed => ~EventOK(new, i)
    BY <1>2, <1>5, <2>1 DEF EventOK
  <2> QED
    BY <1>3, <2>2 DEF VerifyChain
<1>10. new # NoKey
  BY <1>1, <1>2 DEF NoKey
<1> QED
  BY <1>2, <1>7, <1>8, <1>9, <1>10 DEF KeySound, Fields

LEMMA NextLedgerInv ==
    ASSUME ComsecAssumption, LedgerInv, [LedgerNext]_comsecVars PROVE LedgerInv'
<1> DEFINE Kept == Copies \cup {NoKey}
\* A step that changes one copy to a sound one, or moves copies.
<1>1. ASSUME now' \in 0..MaxMillis,
             NEW k, k = NoKey \/ (k # NoKey /\ KeySound(k)),
             NEW H, NEW Books,
             held' = [h \in Holders |-> H[h]], keys' = [id \in KeyIds |-> Books[id]],
             \A h \in Holders : H[h] \in Kept \cup {k},
             \A id \in KeyIds : Books[id] \in Kept \cup {k}
      PROVE  LedgerInv'
  <2>1. Copies' \subseteq (Copies \cup {k}) \ {NoKey}
    BY <1>1 DEF Copies
  <2>2. \A c \in Copies' : KeySound(c)
    BY <1>1, <2>1 DEF LedgerInv
  <2>3. /\ held' \in [Holders -> Copies' \cup {NoKey}]
        /\ keys' \in [KeyIds -> Copies' \cup {NoKey}]
    BY <1>1 DEF Copies
  <2> QED
    BY <1>1, <2>2, <2>3 DEF LedgerInv
<1>2. now \in 0..MaxMillis /\ MaxMillis \in Nat
      /\ held = [h \in Holders |-> held[h]] /\ keys = [id \in KeyIds |-> keys[id]]
      /\ (\A h \in Holders : held[h] \in Kept) /\ (\A id \in KeyIds : keys[id] \in Kept)
  BY DEF LedgerInv, ComsecAssumption
<1>3. \A k \in Kept : k # NoKey => KeySound(k)
  BY DEF LedgerInv
<1>4. now' \in Reading => now' \in 0..MaxMillis
  BY <1>2 DEF Reading
<1> HIDE DEF Kept
<1>5. CASE LedgerTick
  <2>1. now' \in 0..MaxMillis
    BY <1>2, <1>5 DEF LedgerTick
  <2> QED
    BY <1>1, <1>2, <1>5, <2>1 DEF LedgerTick
<1>6. ASSUME NEW h \in Holders, NEW short \in ShortIds, Create(h, short)
      PROVE  LedgerInv'
  <2>1. /\ held' = [j \in Holders |-> [held EXCEPT ![h] = NewKey(short)][j]]
        /\ \A j \in Holders : [held EXCEPT ![h] = NewKey(short)][j] \in Kept \cup {NewKey(short)}
    BY <1>2, <1>6 DEF Create
  <2> QED
    BY <1>1, <1>2, <1>6, <2>1, FreshSound DEF Create
<1>7. ASSUME NEW h \in Holders, NEW kind \in EventKinds, AppendHeld(h, kind)
      PROVE  LedgerInv'
  <2> DEFINE k == Appended(held[h], kind, now, now')
  <2>1. KeySound(k) /\ k # NoKey
    <3>1. MayAppend(held[h]) /\ held[h] # NoKey /\ now' \in 0..MaxMillis
      BY <1>4, <1>7 DEF AppendHeld, MayAppend
    <3> QED
      BY <1>2, <1>3, <3>1, AppendedSound
  <2>2. held' = [held EXCEPT ![h] = k]
    BY <1>7 DEF AppendHeld
  <2> HIDE DEF k
  <2>3. /\ held' = [j \in Holders |-> [held EXCEPT ![h] = k][j]]
        /\ \A j \in Holders : [held EXCEPT ![h] = k][j] \in Kept \cup {k}
    BY <1>2, <2>2
  <2> QED
    BY <1>1, <1>2, <1>4, <1>7, <2>1, <2>3 DEF AppendHeld
<1>8. ASSUME NEW id \in KeyIds, NEW kind \in EventKinds, AppendKept(id, kind)
      PROVE  LedgerInv'
  <2> DEFINE k == Appended(keys[id], kind, now, now')
  <2>1. KeySound(k) /\ k # NoKey
    <3>1. MayAppend(keys[id]) /\ keys[id] # NoKey /\ now' \in 0..MaxMillis
      BY <1>4, <1>8 DEF AppendKept, MayAppend
    <3> QED
      BY <1>2, <1>3, <3>1, AppendedSound
  <2>2. keys' = [keys EXCEPT ![id] = k]
    BY <1>8 DEF AppendKept
  <2> HIDE DEF k
  <2>3. /\ keys' = [j \in KeyIds |-> [keys EXCEPT ![id] = k][j]]
        /\ \A j \in KeyIds : [keys EXCEPT ![id] = k][j] \in Kept \cup {k}
    BY <1>2, <2>2
  <2> QED
    BY <1>1, <1>2, <1>4, <1>8, <2>1, <2>3 DEF AppendKept
<1>9. ASSUME NEW h \in Holders, Insert(h)
      PROVE  LedgerInv'
  <2>1. /\ keys' = [j \in KeyIds |-> [keys EXCEPT ![held[h].id] = held[h]][j]]
        /\ \A j \in KeyIds : [keys EXCEPT ![held[h].id] = held[h]][j] \in Kept
    BY <1>2, <1>9 DEF Insert
  <2> QED
    BY <1>1, <1>2, <1>9, <2>1 DEF Insert
<1>10. ASSUME NEW h \in Holders, NEW id \in KeyIds, Fetch(h, id)
       PROVE  LedgerInv'
  <2>1. /\ held' = [j \in Holders |-> [held EXCEPT ![h] = keys[id]][j]]
        /\ \A j \in Holders : [held EXCEPT ![h] = keys[id]][j] \in Kept
    BY <1>2, <1>10 DEF Fetch
  <2> QED
    BY <1>1, <1>2, <1>10, <2>1 DEF Fetch
<1>11. ASSUME NEW id \in KeyIds, NEW i \in 1..MaxEvents, NEW field \in Fields,
              Flip(id, i, field)
       PROVE  LedgerInv'
  <2> DEFINE key == keys[id]
             k == [key EXCEPT !.chain = [key.chain EXCEPT ![i] = Flipped(key.chain[i], field)],
                              !.flipped = field]
  <2>1. key # NoKey /\ i \in DOMAIN key.chain /\ KeySound(key) /\ key.flipped = "none"
    BY <1>2, <1>3, <1>11 DEF Flip, Copies
  <2>2. KeySound(k) /\ k # NoKey
    <3> HIDE DEF key
    <3>1. ASSUME NEW new, new = k PROVE KeySound(new) /\ new # NoKey
      BY <2>1, <3>1, FlippedSound, Zenon
    <3> QED
      BY <3>1, Zenon
  <2>3. keys' = [keys EXCEPT ![id] = k]
    BY <1>2, <1>11 DEF Flip
  <2> HIDE DEF k
  <2>4. /\ keys' = [j \in KeyIds |-> [keys EXCEPT ![id] = k][j]]
        /\ \A j \in KeyIds : [keys EXCEPT ![id] = k][j] \in Kept \cup {k}
    BY <1>2, <2>3
  <2> QED
    BY <1>1, <1>2, <1>11, <2>2, <2>4 DEF Flip
<1>12. ASSUME NEW id \in issued, RecordDestroy(id)
       PROVE  LedgerInv'
  <2> DEFINE key == keys[id]
             k == IF key = NoKey THEN NoKey ELSE [key EXCEPT !.destroyed = TRUE]
  <2>1. CASE id \in KeyIds
    <3>1. k = NoKey \/ (k # NoKey /\ KeySound(k))
      BY <1>2, <1>3, <2>1, DestroyedSound
    <3>2. keys' = [keys EXCEPT ![id] = k]
      BY <1>12 DEF RecordDestroy
    <3> HIDE DEF k
    <3>3. /\ keys' = [j \in KeyIds |-> [keys EXCEPT ![id] = k][j]]
          /\ \A j \in KeyIds : [keys EXCEPT ![id] = k][j] \in Kept \cup {k}
      BY <1>2, <3>2
    <3> QED
      BY <1>1, <1>2, <1>12, <3>1, <3>3 DEF RecordDestroy
  <2>2. CASE id \notin KeyIds
    <3>1. keys' = keys
      BY <1>2, <1>12, <2>2 DEF RecordDestroy
    <3> QED
      BY <1>1, <1>2, <1>12, <3>1 DEF RecordDestroy
  <2> QED
    BY <2>1, <2>2
<1>13. CASE UNCHANGED comsecVars
  BY <1>1, <1>2, <1>13 DEF comsecVars
<1> QED
  BY <1>5, <1>6, <1>7, <1>8, <1>9, <1>10, <1>11, <1>12, <1>13 DEF LedgerNext

\* A chain of custody ends with the destruction and verifies exactly when nothing
\* hashed in it has changed, for any holders, keys and kinds of event
\* (append_event, verify_chain).
THEOREM LedgerSound == ASSUME ComsecAssumption PROVE LedgerSpec => []LedgerHolds
<1>1. LedgerInit => LedgerInv
  BY DEF LedgerInit, LedgerInv, Copies, ComsecAssumption
<1>2. LedgerInv => LedgerHolds
  <2> SUFFICES ASSUME LedgerInv, NEW key \in Copies
               PROVE  /\ \A i \in DOMAIN key.chain :
                            key.chain[i].kind = "Destroy" => i = Len(key.chain) /\ key.destroyed
                      /\ key.flipped = "none" /\ ~key.split => VerifyChain(key)
                      /\ key.flipped \in Hashed => ~VerifyChain(key)
    BY Zenon DEF LedgerHolds, DestroyIsTerminal, VerifyIsExact, ChainsVerify, FlipsFound, Hashed
  <2>1. KeySound(key)
    BY DEF LedgerInv
  <2>2. key.flipped = "none" /\ ~key.split => VerifyChain(key)
    BY <2>1, Zenon DEF KeySound, EventSound, VerifyChain, EventOK
  <2> QED
    BY <2>1, <2>2, Zenon DEF KeySound, DestroyedLast
<1> QED
  BY <1>1, <1>2, NextLedgerInv, PTL DEF LedgerSpec

-----------------------------------------------------------------------------
(* WriteGuard, for any processes, windows and caps.  What a window has     *)
(* dropped is never late enough again, so the writes of a process that     *)
(* count now each have a place of their own in its list.                   *)

Inspection == [at : Nat, high : BOOLEAN, passed : BOOLEAN]

\* The writes that a window ending now would count.
InWindow(p) == {i \in 1..Len(inspected[p]) : instant - inspected[p][i].at < WindowTicks}

\* place: where each of them is in the list.
Placed(p, place) ==
    /\ \A i \in InWindow(p) : /\ place[i] \in 1..Len(writes[p])
                              /\ writes[p][place[i]] = inspected[p][i].at
    /\ \A i, j \in InWindow(p) : place[i] = place[j] => i = j

\* The history holds the last readings, and all of them while it is not full.
Readings(p) ==
    LET h == entropyHistory[p]
        n == Len(inspected[p])
    IN /\ Len(h) <= EntropyWindow /\ Len(h) <= n
       /\ Len(h) = n \/ Len(h) = EntropyWindow
       /\ \A k \in 1..Len(h) : h[k] = inspected[p][n - Len(h) + k].high

GuardInv ==
    /\ instant \in Nat
    /\ inspected \in [Pids -> Seq(Inspection)]
    /\ writes \in [Pids -> Seq(Nat)]
    /\ entropyHistory \in [Pids -> Seq(BOOLEAN)]
    /\ \A p \in Pids : (\E place : Placed(p, place)) /\ Readings(p)
    /\ Throttled

-----------------------------------------------------------------------------
\* What Throttled says of the i-th write of p.
ThrottledAt(p, i) ==
    LET c == inspected[p] IN
    c[i].passed =>
        /\ Cardinality({j \in 1..i : c[i].at - c[j].at < WindowTicks}) <= WriteRateCap
        /\ i >= EntropyWindow => \E j \in (i - EntropyWindow + 1)..i : ~c[j].high

LEMMA UpTo == \A m \in Nat : IsFiniteSet(1..m) /\ Cardinality(1..m) = m
BY FS_Interval

LEMMA StillCounted ==
    ASSUME NEW p, NEW S, writes[p] \in Seq(S)
    PROVE  LET R == Recent(p) IN
           /\ Retain(writes[p], R) \in Seq(S)
           /\ Len(Retain(writes[p], R)) = Cardinality(R)
           /\ Cardinality(R) \in Nat
           /\ \A i \in R : /\ Rank(R, i) \in 1..Cardinality(R)
                           /\ Retain(writes[p], R)[Rank(R, i)] = writes[p][i]
           /\ \A i, j \in R : Rank(R, i) = Rank(R, j) => i = j
<1>1. PICK seq \in Seq(S) : seq = writes[p]
  OBVIOUS
<1>2. PICK R : R = Recent(p)
  OBVIOUS
<1>3. R \subseteq DOMAIN seq
  BY <1>1, <1>2 DEF Recent
<1>4. /\ Retain(seq, R) \in Seq(S)
      /\ Len(Retain(seq, R)) = Cardinality(R)
      /\ Cardinality(R) \in Nat
      /\ \A i \in R : /\ Rank(R, i) \in 1..Cardinality(R)
                      /\ Retain(seq, R)[Rank(R, i)] = seq[i]
      /\ \A i, j \in R : Rank(R, i) = Rank(R, j) => i = j
  BY <1>3, RetainedShape
<1> QED
  BY <1>1, <1>2, <1>4

LEMMA ReadOn ==
    ASSUME WriteGuardAssumption, GuardInv, NEW p \in Pids, NEW high \in BOOLEAN,
           NEW passed \in BOOLEAN,
           inspected'[p] = Append(inspected[p], [at |-> instant, high |-> high, passed |-> passed]),
           entropyHistory'[p] = WithReading(entropyHistory[p], high)
    PROVE  Readings(p)' /\ entropyHistory'[p] \in Seq(BOOLEAN)
<1> DEFINE h == entropyHistory[p]
           g == Append(h, high)
           new == entropyHistory'[p]
           n == Len(inspected[p])
           e == [at |-> instant, high |-> high, passed |-> passed]
<1>1. /\ h \in Seq(BOOLEAN) /\ Len(h) \in Nat /\ inspected[p] \in Seq(Inspection) /\ n \in Nat
      /\ e \in Inspection /\ EntropyWindow \in Nat
  BY DEF GuardInv, Inspection, WriteGuardAssumption
<1>2. /\ Len(h) <= EntropyWindow /\ Len(h) <= n /\ (Len(h) = n \/ Len(h) = EntropyWindow)
      /\ \A k \in 1..Len(h) : h[k] = inspected[p][n - Len(h) + k].high
  BY DEF GuardInv, Readings
<1>0. e.high = high
  BY Zenon
<1> HIDE DEF e
<1>3. /\ Len(inspected'[p]) = n + 1 /\ inspected'[p][n + 1] = e
      /\ \A k \in 1..n : inspected'[p][k] = inspected[p][k]
  BY <1>1, AppendProperties DEF e
<1>4. /\ g \in Seq(BOOLEAN) /\ Len(g) = Len(h) + 1 /\ g[Len(h) + 1] = high
      /\ \A k \in 1..Len(h) : g[k] = h[k]
  BY <1>1, AppendProperties
<1> HIDE DEF g, h, n
<1>5. \A k \in 1..Len(g) : g[k] = inspected'[p][(n + 1) - Len(g) + k].high
  <2> SUFFICES ASSUME NEW k \in 1..Len(g) PROVE g[k] = inspected'[p][(n + 1) - Len(g) + k].high
    OBVIOUS
  <2>0. (n + 1) - Len(g) + k = n - Len(h) + k
    BY <1>1, <1>4
  <2>1. CASE k = Len(h) + 1
    <3>1. n - Len(h) + k = n + 1
      BY <1>1, <2>1
    <3> QED
      BY <1>0, <1>3, <1>4, <2>0, <2>1, <3>1
  <2>2. CASE k # Len(h) + 1
    <3>1. k \in 1..Len(h) /\ n - Len(h) + k \in 1..n
      BY <1>1, <1>2, <1>4, <2>2
    <3>2. g[k] = inspected[p][n - Len(h) + k].high
      BY <1>2, <1>4, <3>1
    <3> QED
      BY <1>3, <2>0, <3>1, <3>2
  <2> QED
    BY <2>1, <2>2
<1>6. new = IF Len(g) > EntropyWindow THEN Tail(g) ELSE g
  BY DEF WithReading, g, h
<1>7. CASE Len(g) > EntropyWindow
  <2>1. Len(h) = EntropyWindow
    BY <1>1, <1>2, <1>4, <1>7
  <2>2. g # <<>>
    BY <1>1, <1>4, EmptySeq
  <2>3. /\ new = Tail(g) /\ new \in Seq(BOOLEAN) /\ Len(new) = Len(h)
        /\ \A k \in 1..Len(h) : new[k] = g[k + 1]
    <3>1. /\ Tail(g) \in Seq(BOOLEAN) /\ Len(Tail(g)) = Len(g) - 1
          /\ \A k \in 1..Len(Tail(g)) : Tail(g)[k] = g[k + 1]
      BY <1>4, <2>2, HeadTailProperties
    <3>2. Len(g) - 1 = Len(h)
      BY <1>1, <1>4
    <3> QED
      BY <1>6, <1>7, <3>1, <3>2
  <2>4. ASSUME NEW k \in 1..Len(h) PROVE new[k] = inspected'[p][(n + 1) - Len(new) + k].high
    <3>1. k + 1 \in 1..Len(g) /\ (n + 1) - Len(g) + (k + 1) = (n + 1) - Len(new) + k
      <4>1. Len(new) = Len(h)
        BY <2>3
      <4> HIDE DEF new
      <4> QED
        BY <1>1, <1>4, <4>1
    <3> QED
      BY <1>5, <2>3, <3>1
  <2>5. Len(new) <= EntropyWindow /\ Len(new) <= n + 1 /\ Len(new) = EntropyWindow
    BY <1>1, <1>2, <2>1, <2>3
  <2> QED
    BY <1>3, <2>3, <2>4, <2>5 DEF Readings, n
<1>8. CASE ~(Len(g) > EntropyWindow)
  <2>1. new = g
    BY <1>6, <1>8
  <2>2. Len(g) <= EntropyWindow /\ Len(g) <= n + 1 /\ (Len(g) = n + 1 \/ Len(g) = EntropyWindow)
    BY <1>1, <1>2, <1>4, <1>8
  <2> QED
    BY <1>3, <1>4, <1>5, <2>1, <2>2 DEF Readings, n
<1> QED
  BY <1>7, <1>8

LEMMA CountedOn ==
    ASSUME WriteGuardAssumption, GuardInv, NEW p \in Pids, NEW high \in BOOLEAN,
           NEW passed \in BOOLEAN,
           inspected'[p] = Append(inspected[p], [at |-> instant, high |-> high, passed |-> passed]),
           writes'[p] = Counted(p, passed), instant' = instant
    PROVE  /\ writes'[p] \in Seq(Nat)
           /\ Len(writes'[p]) = Len(Retain(writes[p], Recent(p))) + 1
           /\ \E place : Placed(p, place)'
<1>0. PICK R : R = Recent(p)
  OBVIOUS
<1> DEFINE c == Cardinality(R)
           stays == Retain(writes[p], R)
           n == Len(inspected[p])
           e == [at |-> instant, high |-> high, passed |-> passed]
<1>1. /\ writes[p] \in Seq(Nat) /\ inspected[p] \in Seq(Inspection) /\ n \in Nat /\ instant \in Nat
      /\ e \in Inspection /\ e.at = instant /\ Len(writes[p]) \in Nat /\ DOMAIN writes[p] = 1..Len(writes[p])
  BY DEF GuardInv, Inspection
<1>2. PICK place : Placed(p, place)
  BY DEF GuardInv
<1>3. R \subseteq DOMAIN writes[p]
  BY <1>0 DEF Recent
<1>4. /\ stays \in Seq(Nat) /\ Len(stays) = c
      /\ c \in Nat
      /\ \A i \in R : Rank(R, i) \in 1..c /\ stays[Rank(R, i)] = writes[p][i]
      /\ \A i, j \in R : Rank(R, i) = Rank(R, j) => i = j
  BY <1>0, <1>1, StillCounted
<1> HIDE DEF e
<1>6. /\ Len(inspected'[p]) = n + 1 /\ inspected'[p][n + 1] = e
      /\ \A k \in 1..n : inspected'[p][k] = inspected[p][k]
  BY <1>1, AppendProperties DEF e
<1>7. /\ writes'[p] \in Seq(Nat) /\ Len(writes'[p]) = c + 1 /\ writes'[p][c + 1] = instant
      /\ \A k \in 1..c : writes'[p][k] = stays[k]
  <2>1. writes'[p] = Append(stays, instant)
    BY <1>0 DEF Counted
  <2> HIDE DEF stays, c
  <2> QED
    BY <1>1, <1>4, <2>1, AppendProperties
<1>8. ASSUME NEW i \in InWindow(p)'
      PROVE  i \in 1..n + 1 /\ (i # n + 1 => i \in InWindow(p) /\ place[i] \in R /\ i \in 1..n)
  <2>1. i \in 1..n + 1 /\ instant - inspected'[p][i].at < WindowTicks
    BY <1>6 DEF InWindow
  <2>2. ASSUME i # n + 1 PROVE i \in InWindow(p) /\ place[i] \in R
    <3>1. i \in 1..n
      BY <1>1, <2>1, <2>2
    <3>2. i \in InWindow(p)
      BY <1>6, <2>1, <3>1 DEF InWindow
    <3>3. place[i] \in 1..Len(writes[p]) /\ writes[p][place[i]] = inspected[p][i].at
      BY <1>2, <3>2 DEF Placed
    <3> QED
      BY <1>0, <1>1, <3>2, <3>3 DEF Recent, InWindow
  <2> QED
    BY <1>1, <2>1, <2>2
<1>9. PICK new : \A i \in InWindow(p)' : new[i] = IF i = n + 1 THEN c + 1 ELSE Rank(R, place[i])
  <2> DEFINE f == [i \in InWindow(p)' |-> IF i = n + 1 THEN c + 1 ELSE Rank(R, place[i])]
  <2>1. \A i \in InWindow(p)' : f[i] = IF i = n + 1 THEN c + 1 ELSE Rank(R, place[i])
    OBVIOUS
  <2> HIDE DEF f
  <2> QED
    BY <2>1
<1> HIDE DEF c, stays
<1>10. ASSUME NEW i \in InWindow(p)'
       PROVE  new[i] \in 1..c + 1 /\ writes'[p][new[i]] = inspected'[p][i].at
  <2>1. CASE i = n + 1
    BY <1>1, <1>4, <1>6, <1>7, <1>9, <2>1 DEF e
  <2>2. CASE i # n + 1
    <3>1. i \in InWindow(p) /\ place[i] \in R /\ i \in 1..n
      BY <1>8, <2>2
    <3>2. new[i] = Rank(R, place[i]) /\ new[i] \in 1..c
      BY <1>4, <1>9, <2>2, <3>1
    <3>3. writes'[p][new[i]] = writes[p][place[i]]
      BY <1>4, <1>7, <3>1, <3>2
    <3>4. writes[p][place[i]] = inspected[p][i].at
      BY <1>2, <3>1 DEF Placed
    <3> QED
      BY <1>4, <1>6, <3>1, <3>2, <3>3, <3>4
  <2> QED
    BY <2>1, <2>2
<1>11. ASSUME NEW i \in InWindow(p)', NEW j \in InWindow(p)', new[i] = new[j] PROVE i = j
  <2>1. ASSUME NEW k \in InWindow(p)', k # n + 1
        PROVE  new[k] = Rank(R, place[k]) /\ place[k] \in R /\ k \in InWindow(p) /\ new[k] # c + 1
    BY <1>4, <1>8, <1>9, <2>1
  <2>2. \A k \in InWindow(p)' : k = n + 1 => new[k] = c + 1
    BY <1>9
  <2>3. CASE i = n + 1 \/ j = n + 1
    BY <1>11, <2>1, <2>2, <2>3
  <2>4. CASE i # n + 1 /\ j # n + 1
    <3>1. place[i] = place[j] /\ i \in InWindow(p) /\ j \in InWindow(p)
      BY <1>4, <1>11, <2>1, <2>4
    <3> QED
      BY <1>2, <3>1 DEF Placed
  <2> QED
    BY <2>3, <2>4
<1>12. Placed(p, new)'
  BY <1>7, <1>10, <1>11 DEF Placed
<1> QED
  BY <1>0, <1>4, <1>7, <1>12 DEF stays

\* A write that passes is within the cap, with all that the window counts, and
\* some reading of a full history is low.
LEMMA PassedNext ==
    ASSUME WriteGuardAssumption, NEW p \in Pids, NEW n \in Nat,
           Len(inspected'[p]) = n + 1, inspected'[p][n + 1].at = instant',
           Len(writes'[p]) <= WriteRateCap, ~HighEntropy(entropyHistory'[p]),
           writes'[p] \in Seq(Nat), entropyHistory'[p] \in Seq(BOOLEAN),
           \E place : Placed(p, place)', Readings(p)'
    PROVE  ThrottledAt(p, n + 1)'
<1> DEFINE T == {j \in 1..n + 1 : instant' - inspected'[p][j].at < WindowTicks}
<1>0. PICK m \in Nat : m = Len(writes'[p])
  <2>1. Len(writes'[p]) \in Nat
    BY LenProperties
  <2> QED
    BY <2>1
<1>1. PICK place : Placed(p, place)'
  OBVIOUS
<1>2. T = InWindow(p)'
  BY DEF InWindow
<1>3. /\ \A i \in T : place[i] \in 1..m
      /\ \A i, j \in T : place[i] = place[j] => i = j
  BY <1>0, <1>1, <1>2 DEF Placed
<1>4. Cardinality(T) <= WriteRateCap
  <2> DEFINE f == [i \in T |-> place[i]]
  <2> HIDE DEF T
  <2>2. f \in Injection(T, 1..m)
    BY <1>3 DEF Injection, IsInjective
  <2>1. m \in Nat
    BY <1>0
  <2>3. IsFiniteSet(1..m) /\ Cardinality(1..m) = m
    BY <2>1, UpTo
  <2>4. IsFiniteSet(T) /\ Cardinality(T) <= m
    BY <2>2, <2>3, FS_Injection
  <2>5. Cardinality(T) \in Nat /\ m <= WriteRateCap
    BY <1>0, <2>4, FS_CardinalityType
  <2> QED
    BY <2>4, <2>5 DEF WriteGuardAssumption
<1> DEFINE h == entropyHistory'[p]
<1>5. ASSUME n + 1 >= EntropyWindow
      PROVE  \E j \in ((n + 1) - EntropyWindow + 1)..(n + 1) : ~inspected'[p][j].high
  <2>1. Len(h) = EntropyWindow /\ EntropyWindow \in Nat /\ DOMAIN h = 1..Len(h)
    BY <1>5 DEF Readings, WriteGuardAssumption
  <2>2. PICK k \in 1..EntropyWindow : ~h[k]
    BY <2>1 DEF HighEntropy
  <2>3. (n + 1) - EntropyWindow + k \in ((n + 1) - EntropyWindow + 1)..(n + 1)
    BY <2>1
  <2>4. h[k] = inspected'[p][(n + 1) - EntropyWindow + k].high
    BY <2>1 DEF Readings
  <2>5. ~inspected'[p][(n + 1) - EntropyWindow + k].high
    BY <2>2, <2>4
  <2> QED
    BY <2>3, <2>5
<1> QED
  BY <1>4, <1>5 DEF ThrottledAt

-----------------------------------------------------------------------------
\* The writes that were inspected before keep what is said of them.
LEMMA InspectKeeps ==
    ASSUME WriteGuardAssumption, GuardInv, NEW p \in Pids, NEW risky \in BOOLEAN,
           NEW high \in BOOLEAN, InspectWrite(p, risky, high), p \notin allowList
    PROVE  GuardInv'
<1> DEFINE h == WithReading(entropyHistory[p], high)
           passed == ~(risky \/ HighEntropy(h) \/ RateExceeded(p))
           e == [at |-> instant, high |-> high, passed |-> passed]
<1>1. /\ inspected' = [inspected EXCEPT ![p] = Append(@, e)]
      /\ entropyHistory' = [entropyHistory EXCEPT ![p] = h]
      /\ writes' = [writes EXCEPT ![p] = Counted(p, passed)]
      /\ instant' = instant
  BY DEF InspectWrite
<1>2. passed \in BOOLEAN
  BY Zenon
<1>3. /\ instant \in Nat /\ inspected \in [Pids -> Seq(Inspection)]
      /\ writes \in [Pids -> Seq(Nat)] /\ entropyHistory \in [Pids -> Seq(BOOLEAN)]
  BY DEF GuardInv
<1>4. passed => ~HighEntropy(h) /\ ~RateExceeded(p)
  OBVIOUS
<1> HIDE DEF passed, h
<1>5. /\ inspected'[p] = Append(inspected[p], [at |-> instant, high |-> high, passed |-> passed])
      /\ entropyHistory'[p] = h /\ writes'[p] = Counted(p, passed)
      /\ \A q \in Pids : q # p => /\ inspected'[q] = inspected[q]
                                  /\ entropyHistory'[q] = entropyHistory[q]
                                  /\ writes'[q] = writes[q]
  BY <1>1, <1>3
<1>6. Readings(p)' /\ h \in Seq(BOOLEAN)
  BY <1>2, <1>5, ReadOn DEF h
<1>7. /\ Counted(p, passed) \in Seq(Nat)
      /\ Len(writes'[p]) = Len(Retain(writes[p], Recent(p))) + 1
      /\ \E place : Placed(p, place)'
  BY <1>1, <1>2, <1>5, CountedOn
<1>8. e \in Inspection /\ e.at = instant
  BY <1>2, <1>3 DEF Inspection
<1>9. e.passed = passed
  BY Zenon
<1> HIDE DEF e
<1>17. PICK n \in Nat : n = Len(inspected[p])
  BY <1>3
<1>10. /\ inspected[p] \in Seq(Inspection) /\ n = Len(inspected[p])
       /\ Len(inspected'[p]) = n + 1 /\ inspected'[p][n + 1] = e
       /\ \A k \in 1..n : inspected'[p][k] = inspected[p][k]
       /\ inspected'[p] \in Seq(Inspection)
  BY <1>17, <1>3, <1>5, <1>8, AppendProperties DEF e
<1>11. /\ inspected' \in [Pids -> Seq(Inspection)]
       /\ writes' \in [Pids -> Seq(Nat)] /\ entropyHistory' \in [Pids -> Seq(BOOLEAN)]
  BY <1>1, <1>3, <1>5, <1>6, <1>7, <1>10
<1>12. ThrottledAt(p, n + 1)'
  <2>1. CASE ~passed
    BY <1>9, <1>10, <2>1 DEF ThrottledAt
  <2>2. CASE passed
    <3>1. Len(writes'[p]) <= WriteRateCap
      <4>1. ~(Len(writes'[p]) > WriteRateCap)
        BY <1>4, <1>7, <2>2 DEF RateExceeded
      <4>2. writes'[p] \in Seq(Nat)
        BY <1>3, <1>11
      <4>3. Len(writes'[p]) \in Nat
        BY <4>2, LenProperties
      <4> QED
        BY <4>1, <4>3 DEF WriteGuardAssumption
    <3>2. ~HighEntropy(entropyHistory'[p])
      BY <1>4, <1>5, <2>2
    <3>3. /\ Len(inspected'[p]) = n + 1 /\ inspected'[p][n + 1].at = instant'
          /\ writes'[p] \in Seq(Nat) /\ entropyHistory'[p] \in Seq(BOOLEAN)
      BY <1>1, <1>8, <1>10, <1>11
    <3> QED
      BY <1>6, <1>7, <1>10, <3>1, <3>2, <3>3, PassedNext
  <2> QED
    BY <2>1, <2>2
<1>13. ASSUME NEW i \in 1..n, ThrottledAt(p, i) PROVE ThrottledAt(p, i)'
  <2>0. i \in Nat /\ i <= n
    BY <1>10
  <2>1. \A j \in 1..i : inspected'[p][j] = inspected[p][j]
    BY <1>10, <2>0
  <2>2. inspected'[p][i] = inspected[p][i]
    BY <1>10
  <2>3. {j \in 1..i : inspected'[p][i].at - inspected'[p][j].at < WindowTicks}
        = {j \in 1..i : inspected[p][i].at - inspected[p][j].at < WindowTicks}
    BY <2>1, <2>2
  <2>4. ASSUME i >= EntropyWindow
        PROVE  (i - EntropyWindow + 1)..i \subseteq 1..i
    BY <2>0, <2>4 DEF WriteGuardAssumption
  <2> QED
    BY <1>13, <2>1, <2>2, <2>3, <2>4 DEF ThrottledAt
<1>14. \A i \in DOMAIN inspected'[p] : ThrottledAt(p, i)'
  <2> SUFFICES ASSUME NEW i \in DOMAIN inspected'[p] PROVE ThrottledAt(p, i)'
    OBVIOUS
  <2>1. i \in 1..n + 1
    BY <1>10
  <2>2. CASE i = n + 1
    BY <1>12, <2>2
  <2>3. CASE i # n + 1
    <3>1. i \in 1..n /\ i \in DOMAIN inspected[p]
      BY <1>10, <2>1, <2>3
    <3>2. ThrottledAt(p, i)
      BY <3>1 DEF GuardInv, Throttled, ThrottledAt
    <3> QED
      BY <1>13, <3>1, <3>2
  <2> QED
    BY <2>2, <2>3
<1>15. ASSUME NEW q \in Pids
       PROVE  /\ (\E place : Placed(q, place)') /\ Readings(q)'
              /\ \A i \in DOMAIN inspected'[q] : ThrottledAt(q, i)'
  <2>1. CASE q = p
    BY <1>6, <1>7, <1>14, <2>1
  <2>2. CASE q # p
    <3>1. inspected'[q] = inspected[q] /\ entropyHistory'[q] = entropyHistory[q] /\ writes'[q] = writes[q]
      BY <1>5, <2>2
    <3>2. /\ \E place : Placed(q, place)
          /\ Readings(q)
          /\ \A i \in DOMAIN inspected[q] : ThrottledAt(q, i)
      BY DEF GuardInv, Throttled, ThrottledAt
    <3>3. PICK place : Placed(q, place)
      BY <3>2
    <3>4. Placed(q, place)'
      BY <1>1, <3>1, <3>3 DEF Placed, InWindow
    <3>5. Readings(q)'
      BY <3>1, <3>2 DEF Readings
    <3>6. \A i \in DOMAIN inspected'[q] : ThrottledAt(q, i)'
      BY <3>1, <3>2 DEF ThrottledAt
    <3> QED
      BY <3>4, <3>5, <3>6
  <2> QED
    BY <2>1, <2>2
<1>16. Throttled'
  BY <1>15 DEF Throttled, ThrottledAt
<1> QED
  BY <1>1, <1>3, <1>11, <1>15, <1>16 DEF GuardInv

\* As time passes the window only loses writes.
LEMMA TickKeeps == ASSUME WriteGuardAssumption PROVE GuardInv /\ GuardTick => GuardInv'
<1> SUFFICES ASSUME GuardInv, GuardTick PROVE GuardInv'
  OBVIOUS
<1>1. /\ instant' = instant + 1 /\ instant \in Nat
      /\ inspected' = inspected /\ writes' = writes /\ entropyHistory' = entropyHistory
  BY DEF GuardTick, GuardInv
<1>2. ASSUME NEW p \in Pids, NEW i \in InWindow(p)' PROVE i \in InWindow(p)
  <2>1. inspected[p] \in Seq(Inspection)
    BY DEF GuardInv
  <2>2. i \in 1..Len(inspected[p]) /\ (instant + 1) - inspected[p][i].at < WindowTicks
    BY <1>1 DEF InWindow
  <2>3. inspected[p][i] \in Inspection
    BY <2>1, <2>2
  <2>4. inspected[p][i].at \in Nat
    BY <2>3 DEF Inspection
  <2>5. instant - inspected[p][i].at < WindowTicks
    <3>1. WindowTicks \in Nat
      BY DEF WriteGuardAssumption
    <3> QED
      BY <1>1, <2>2, <2>4, <3>1
  <2> QED
    BY <2>2, <2>5 DEF InWindow
<1>3. ASSUME NEW p \in Pids PROVE (\E place : Placed(p, place)') /\ Readings(p)'
  <2>1. PICK place : Placed(p, place)
    BY DEF GuardInv
  <2>2. Placed(p, place)'
    BY <1>1, <1>2, <2>1 DEF Placed
  <2>3. Readings(p)'
    BY <1>1 DEF GuardInv, Readings
  <2> QED
    BY <2>2, <2>3
<1>4. Throttled'
  BY <1>1 DEF GuardInv, Throttled
<1> QED
  BY <1>1, <1>3, <1>4 DEF GuardInv

LEMMA GuardStays ==
    GuardInv /\ UNCHANGED <<entropyHistory, writes, inspected, instant>> => GuardInv'
<1> SUFFICES ASSUME GuardInv, UNCHANGED <<entropyHistory, writes, inspected, instant>>
             PROVE  GuardInv'
  OBVIOUS
<1>1. \A p \in Pids : InWindow(p)' = InWindow(p) /\ Readings(p)'
  BY DEF GuardInv, InWindow, Readings
<1>2. \A p \in Pids : \E place : Placed(p, place)'
  <2> SUFFICES ASSUME NEW p \in Pids PROVE \E place : Placed(p, place)'
    OBVIOUS
  <2>1. PICK place : Placed(p, place)
    BY DEF GuardInv
  <2>2. Placed(p, place)'
    BY <1>1, <2>1 DEF Placed
  <2> QED
    BY <2>2
<1>3. Throttled'
  BY DEF GuardInv, Throttled
<1> QED
  BY <1>1, <1>2, <1>3 DEF GuardInv

LEMMA GuardStarts == ASSUME WriteGuardAssumption PROVE GuardInit => GuardInv
<1> SUFFICES ASSUME GuardInit PROVE GuardInv
  OBVIOUS
<1>1. \A p \in Pids : inspected[p] = <<>> /\ writes[p] = <<>> /\ entropyHistory[p] = <<>>
  BY DEF GuardInit
<1>2. ASSUME NEW p \in Pids PROVE (\E place : Placed(p, place)) /\ Readings(p)
  <2>1. Len(inspected[p]) = 0 /\ Len(entropyHistory[p]) = 0
    BY <1>1
  <2>2. InWindow(p) = {}
    BY <2>1 DEF InWindow
  <2>3. Placed(p, <<>>)
    BY <2>2 DEF Placed
  <2>4. Readings(p)
    BY <2>1 DEF Readings, WriteGuardAssumption
  <2> QED
    BY <2>3, <2>4
<1>3. Throttled
  BY <1>1 DEF Throttled
<1>4. instant \in Nat /\ inspected \in [Pids -> Seq(Inspection)]
      /\ writes \in [Pids -> Seq(Nat)] /\ entropyHistory \in [Pids -> Seq(BOOLEAN)]
  BY DEF GuardInit
<1> QED
  BY <1>2, <1>3, <1>4 DEF GuardInv

\* Over any second a process gets through only while all it wrote stays within
\* the cap, and never after a whole window at high entropy (inspect_write,
\* defense/mod.rs).
THEOREM WritesAreThrottled == ASSUME WriteGuardAssumption PROVE GuardSpec => []Throttled
<1>1. GuardInit => GuardInv
  BY GuardStarts
<1>2. GuardInv /\ [GuardNext]_guardVars => GuardInv'
  <2> SUFFICES ASSUME GuardInv, [GuardNext]_guardVars PROVE GuardInv'
    OBVIOUS
  <2>1. CASE \E p \in Pids : AllowList(p)
    BY <2>1, GuardStays DEF AllowList
  <2>2. ASSUME NEW p \in Pids, NEW risky \in BOOLEAN, NEW high \in BOOLEAN,
               InspectWrite(p, risky, high)
        PROVE  GuardInv'
    <3>1. CASE p \in allowList
      BY <2>2, <3>1, GuardStays DEF InspectWrite, guardVars
    <3>2. CASE p \notin allowList
      BY <2>2, <3>2, InspectKeeps
    <3> QED
      BY <3>1, <3>2
  <2>3. CASE GuardTick
    BY <2>3, TickKeeps
  <2>4. CASE UNCHANGED guardVars
    BY <2>4, GuardStays DEF guardVars
  <2> QED
    BY <2>1, <2>2, <2>3, <2>4 DEF GuardNext
<1>3. GuardInv => Throttled
  BY DEF GuardInv
<1> QED
  BY <1>1, <1>2, <1>3, PTL DEF GuardSpec

-----------------------------------------------------------------------------
(* Integrity: the Merkle tree.  What a proof leads to from a leaf is the   *)
(* node above it, level by level, if the leaf is the right one, and        *)
(* something else on every level if it is not.                             *)

\* The levels up to the n-th.
LevelsBy(leaves, n, f) == f = [g \in 0..n |-> IF g = 0 THEN leaves ELSE Up(f[g - 1])]

LEMMA LevelsExist ==
    ASSUME NEW leaves
    PROVE  \A n \in Nat : \E f : LevelsBy(leaves, n, f)
<1> DEFINE T == {n \in Nat : \E f : LevelsBy(leaves, n, f)}
<1>1. 0 \in T
  <2> DEFINE f == [g \in 0..0 |-> leaves]
  <2>1. f = [g \in 0..0 |-> IF g = 0 THEN leaves ELSE Up(f[g - 1])]
    OBVIOUS
  <2> HIDE DEF f
  <2>2. LevelsBy(leaves, 0, f)
    BY <2>1 DEF LevelsBy
  <2> QED
    BY <2>2
<1>2. ASSUME NEW n \in Nat, n \in T PROVE n + 1 \in T
  <2>1. PICK f : LevelsBy(leaves, n, f)
    BY <1>2
  <2>2. \A g \in 0..n : f[g] = IF g = 0 THEN leaves ELSE Up(f[g - 1])
    BY <2>1 DEF LevelsBy
  <2> DEFINE F == [g \in 0..(n + 1) |-> IF g = 0 THEN leaves ELSE Up(f[g - 1])]
  <2>3. ASSUME NEW g \in 0..(n + 1), g # 0 PROVE F[g - 1] = f[g - 1]
    <3>1. g - 1 \in 0..n /\ g - 1 \in 0..(n + 1)
      BY <2>3
    <3> QED
      BY <2>2, <3>1
  <2>4. F = [g \in 0..(n + 1) |-> IF g = 0 THEN leaves ELSE Up(F[g - 1])]
    BY <2>3
  <2> HIDE DEF F
  <2>5. LevelsBy(leaves, n + 1, F)
    BY <2>4 DEF LevelsBy
  <2> QED
    BY <2>5
<1> HIDE DEF T
<1>3. \A n \in Nat : n \in T
  BY <1>1, <1>2, AllNumbers
<1> QED
  BY <1>3 DEF T

LEMMA Levels ==
    ASSUME NEW leaves
    PROVE  /\ LevelAt(leaves, 0) = leaves
           /\ \A h \in Nat : LevelAt(leaves, h + 1) = Up(LevelAt(leaves, h))
<1> DEFINE F(n) == CHOOSE f : LevelsBy(leaves, n, f)
<1>1. \A n \in Nat : LevelsBy(leaves, n, F(n))
  BY LevelsExist
<1>2. \A n \in Nat : LevelAt(leaves, n) = F(n)[n]
  BY DEF LevelAt, LevelsBy
<1> HIDE DEF F
<1>3. \A n \in Nat : \A g \in 0..n : F(n)[g] = IF g = 0 THEN leaves ELSE Up(F(n)[g - 1])
  BY <1>1 DEF LevelsBy
<1>4. ASSUME NEW h \in Nat PROVE F(h + 1)[h] = F(h)[h]
  <2> DEFINE T == {g \in Nat : g <= h => F(h + 1)[g] = F(h)[g]}
  <2>1. 0 \in T
    <3>1. 0 \in 0..h /\ 0 \in 0..(h + 1) /\ h + 1 \in Nat
      OBVIOUS
    <3>2. F(h)[0] = leaves /\ F(h + 1)[0] = leaves
      BY <1>3, <3>1
    <3> QED
      BY <3>2
  <2>2. ASSUME NEW g \in Nat, g \in T PROVE g + 1 \in T
    <3> SUFFICES ASSUME g + 1 <= h PROVE F(h + 1)[g + 1] = F(h)[g + 1]
      OBVIOUS
    <3>1. g + 1 \in 0..h /\ g + 1 \in 0..(h + 1) /\ g + 1 # 0 /\ (g + 1) - 1 = g /\ g <= h /\ h + 1 \in Nat
      OBVIOUS
    <3>2. F(h + 1)[g] = F(h)[g]
      BY <2>2, <3>1
    <3>3. F(h)[g + 1] = Up(F(h)[g]) /\ F(h + 1)[g + 1] = Up(F(h + 1)[g])
      BY <1>3, <3>1
    <3> QED
      BY <3>2, <3>3
  <2> HIDE DEF T
  <2>3. h \in T
    BY <2>1, <2>2, AllNumbers
  <2> QED
    BY <2>3 DEF T
<1>5. ASSUME NEW h \in Nat PROVE LevelAt(leaves, h + 1) = Up(LevelAt(leaves, h))
  <2>1. h + 1 \in Nat /\ h + 1 \in 0..(h + 1) /\ h + 1 # 0 /\ (h + 1) - 1 = h
    OBVIOUS
  <2>2. F(h + 1)[h + 1] = Up(F(h + 1)[h])
    BY <1>3, <2>1
  <2> QED
    BY <1>2, <1>4, <2>1, <2>2
<1>6. LevelAt(leaves, 0) = leaves
  <2>1. 0 \in 0..0
    OBVIOUS
  <2>2. F(0)[0] = leaves
    BY <1>3, <2>1
  <2> QED
    BY <1>2, <2>2
<1> QED
  BY <1>5, <1>6

\* A level of n nodes.
Nodes(level, n) == n \in Nat \ {0} /\ level = [i \in 1..n |-> level[i]]

LEMMA NodesLen ==
    ASSUME NEW level, NEW n, Nodes(level, n)
    PROVE  Len(level) = n /\ DOMAIN level = 1..n
<1> DEFINE S == {level[i] : i \in 1..n}
<1>1. level \in [1..n -> S] /\ n \in Nat
  BY DEF Nodes
<1> HIDE DEF S
<1> QED
  BY <1>1

LEMMA UpNodes ==
    ASSUME NEW level, NEW n, Nodes(level, n)
    PROVE  Nodes(Up(level), (n + 1) \div 2)
<1>1. Len(level) = n /\ n \in Nat \ {0}
  BY NodesLen DEF Nodes
<1>2. (n + 1) \div 2 \in Nat \ {0}
  BY <1>1
<1>3. PICK m : m = (n + 1) \div 2
  OBVIOUS
<1>4. Up(level) = [i \in 1..m |->
          <<level[2 * i - 1], IF 2 * i <= Len(level) THEN level[2 * i] ELSE level[2 * i - 1]>>]
  BY <1>1, <1>3 DEF Up
<1>5. Up(level) = [i \in 1..m |-> Up(level)[i]]
  BY <1>4
<1> QED
  BY <1>2, <1>3, <1>5 DEF Nodes

\* Levels shrink until there is one node.
LEMMA LevelsShrink ==
    ASSUME NEW leaves, NEW n, Nodes(leaves, n)
    PROVE  \A h \in Nat : \E m : /\ Nodes(LevelAt(leaves, h), m)
                                 /\ m = 1 \/ m + h <= n
<1>0. n \in Nat \ {0}
  BY DEF Nodes
<1> DEFINE T == {h \in Nat : \E m : Nodes(LevelAt(leaves, h), m) /\ (m = 1 \/ m + h <= n)}
<1>1. 0 \in T
  <2>1. Nodes(LevelAt(leaves, 0), n) /\ n + 0 <= n
    BY <1>0, Levels
  <2> QED
    BY <2>1
<1>2. ASSUME NEW h \in Nat, h \in T PROVE h + 1 \in T
  <2>1. PICK m : Nodes(LevelAt(leaves, h), m) /\ (m = 1 \/ m + h <= n)
    BY <1>2
  <2>2. m \in Nat \ {0}
    BY <2>1 DEF Nodes
  <2>3. Nodes(LevelAt(leaves, h + 1), (m + 1) \div 2)
    BY <2>1, Levels, UpNodes
  <2>4. (m + 1) \div 2 = 1 \/ ((m + 1) \div 2) + (h + 1) <= n
    BY <1>0, <2>1, <2>2
  <2> QED
    BY <2>3, <2>4
<1> HIDE DEF T
<1>3. \A h \in Nat : h \in T
  BY <1>1, <1>2, AllNumbers
<1> QED
  BY <1>3 DEF T

LEMMA HeightIs ==
    ASSUME NEW leaves, NEW n, Nodes(leaves, n)
    PROVE  /\ Height(leaves) \in Nat
           /\ Nodes(LevelAt(leaves, Height(leaves)), 1)
<1>0. n \in Nat \ {0} /\ Len(leaves) = n
  BY NodesLen DEF Nodes
<1> DEFINE T == {h \in 0..n : Len(LevelAt(leaves, h)) <= 1}
<1>1. n \in T
  <2>1. PICK m : Nodes(LevelAt(leaves, n), m) /\ (m = 1 \/ m + n <= n)
    BY <1>0, LevelsShrink
  <2>2. m \in Nat \ {0} /\ Len(LevelAt(leaves, n)) = m
    BY <2>1, NodesLen DEF Nodes
  <2> QED
    BY <1>0, <2>1, <2>2
<1>2. T \subseteq Nat /\ T # {}
  BY <1>0, <1>1
<1> HIDE DEF T
<1>3. PICK x \in T : \A y \in T : x <= y
  BY <1>2, LeastNumber
<1>4. x \in 0..n /\ Len(LevelAt(leaves, x)) <= 1
  BY <1>3 DEF T
<1>5. ASSUME NEW g \in 0..(x - 1) PROVE Len(LevelAt(leaves, g)) > 1
  <2>1. g \in Nat /\ g \in 0..n /\ ~(x <= g)
    BY <1>0, <1>4
  <2>2. PICK m : Nodes(LevelAt(leaves, g), m)
    BY <2>1, LevelsShrink
  <2>3. m \in Nat /\ Len(LevelAt(leaves, g)) = m
    BY <2>2, NodesLen DEF Nodes
  <2>4. ~(Len(LevelAt(leaves, g)) <= 1)
    BY <1>3, <2>1 DEF T
  <2> QED
    BY <2>3, <2>4
<1>6. /\ Height(leaves) \in 0..n
      /\ Len(LevelAt(leaves, Height(leaves))) <= 1
  BY <1>0, <1>4, <1>5 DEF Height
<1>7. PICK m : Nodes(LevelAt(leaves, Height(leaves)), m)
  BY <1>6, LevelsShrink
<1>8. m \in Nat \ {0} /\ Len(LevelAt(leaves, Height(leaves))) = m
  BY <1>7, NodesLen DEF Nodes
<1>9. m = 1
  BY <1>6, <1>8
<1> QED
  BY <1>6, <1>7, <1>9

LEMMA Ancestors ==
    ASSUME NEW i \in Nat
    PROVE  /\ Ancestor(i, 0) = i
           /\ \A h \in Nat : Ancestor(i, h) \in Nat
           /\ \A h \in Nat : Ancestor(i, h + 1) = Ancestor(i, h) \div 2
<1> DEFINE half(h) == [m \in 1..h |-> [idx \in Nat |-> idx \div 2]]
<1>1. Ancestor(i, 0) = i
  BY LoopZero DEF Ancestor
<1>2. ASSUME NEW h \in Nat PROVE RoundsIn(half(h), h, Nat)
  BY DEF RoundsIn
<1>3. ASSUME NEW h \in Nat PROVE Ancestor(i, h) \in Nat
  <2>1. PICK body : body = half(h)
    OBVIOUS
  <2>2. Loop(i, body, h) \in Nat
    BY <1>2, <2>1, LoopType
  <2> QED
    BY <2>1, <2>2 DEF Ancestor
<1>4. ASSUME NEW h \in Nat PROVE Ancestor(i, h + 1) = Ancestor(i, h) \div 2
  <2>1. PICK body : body = half(h + 1)
    OBVIOUS
  <2>2. PICK shorter : shorter = half(h)
    OBVIOUS
  <2>3. h + 1 \in Nat /\ h + 1 \in 1..(h + 1)
    OBVIOUS
  <2>4. SameRounds(shorter, body, h) /\ body[h + 1] = [idx \in Nat |-> idx \div 2]
    BY <2>1, <2>2, <2>3 DEF SameRounds
  <2>5. Loop(i, body, h + 1) = body[h + 1][Loop(i, shorter, h)]
    <3>1. RoundsIn(body, h + 1, Nat)
      BY <1>2, <2>1, <2>3
    <3>2. PICK V : V = Nat
      OBVIOUS
    <3>3. i \in V /\ RoundsIn(body, h + 1, V)
      BY <3>1, <3>2
    <3> HIDE DEF half
    <3> QED
      BY <2>4, <3>3, LoopNext
  <2>6. Ancestor(i, h + 1) = Loop(i, body, h + 1) /\ Ancestor(i, h) = Loop(i, shorter, h)
    BY <2>1, <2>2 DEF Ancestor
  <2> QED
    BY <1>3, <2>4, <2>5, <2>6
<1> QED
  BY <1>1, <1>3, <1>4

\* The hash one level up, with the sibling that the proof gives.
NodesJoined(i, proof, h, x) ==
    IF Ancestor(i, h - 1) % 2 = 0 THEN <<x, proof[h]>> ELSE <<proof[h], x>>

ClimbsBy(leaf, i, proof, n, f) == f = [h \in 0..n |-> IF h = 0 THEN leaf ELSE NodesJoined(i, proof, h, f[h - 1])]
ClimbOf(leaf, i, proof, n, f) == \A h \in 0..n : f[h] = IF h = 0 THEN leaf ELSE NodesJoined(i, proof, h, f[h - 1])

LEMMA Climbs ==
    ASSUME NEW leaf, NEW i, NEW proof, Len(proof) \in Nat
    PROVE  \E f : Climb(leaf, i, proof) = f[Len(proof)] /\ ClimbOf(leaf, i, proof, Len(proof), f)
<1> DEFINE T == {n \in Nat : \E f : ClimbsBy(leaf, i, proof, n, f)}
<1>1. 0 \in T
  <2> DEFINE f == [h \in 0..0 |-> leaf]
  <2>1. f = [h \in 0..0 |-> IF h = 0 THEN leaf ELSE NodesJoined(i, proof, h, f[h - 1])]
    OBVIOUS
  <2> HIDE DEF f
  <2>2. ClimbsBy(leaf, i, proof, 0, f)
    BY <2>1 DEF ClimbsBy
  <2> QED
    BY <2>2
<1>2. ASSUME NEW n \in Nat, n \in T PROVE n + 1 \in T
  <2>1. PICK f : ClimbsBy(leaf, i, proof, n, f)
    BY <1>2
  <2>2. \A h \in 0..n : f[h] = IF h = 0 THEN leaf ELSE NodesJoined(i, proof, h, f[h - 1])
    BY <2>1 DEF ClimbsBy
  <2> DEFINE F == [h \in 0..(n + 1) |-> IF h = 0 THEN leaf ELSE NodesJoined(i, proof, h, f[h - 1])]
  <2>3. ASSUME NEW h \in 0..(n + 1), h # 0 PROVE F[h - 1] = f[h - 1]
    <3>1. h - 1 \in 0..n /\ h - 1 \in 0..(n + 1)
      BY <2>3
    <3> QED
      BY <2>2, <3>1
  <2>4. F = [h \in 0..(n + 1) |-> IF h = 0 THEN leaf ELSE NodesJoined(i, proof, h, F[h - 1])]
    BY <2>3
  <2> HIDE DEF F
  <2>5. ClimbsBy(leaf, i, proof, n + 1, F)
    BY <2>4 DEF ClimbsBy
  <2> QED
    BY <2>5
<1> HIDE DEF T
<1>3. Len(proof) \in T
  BY <1>1, <1>2, AllNumbers
<1> DEFINE C == CHOOSE f : ClimbsBy(leaf, i, proof, Len(proof), f)
<1>4. ClimbsBy(leaf, i, proof, Len(proof), C)
  BY <1>3 DEF T
<1>5. Climb(leaf, i, proof) = C[Len(proof)]
  BY DEF Climb, ClimbsBy, NodesJoined
<1> HIDE DEF C
<1> QED
  BY <1>4, <1>5 DEF ClimbsBy, ClimbOf

\* One level: what is hashed is the node above exactly if it was the node.
LEMMA OneLevel ==
    ASSUME NEW level, NEW n, Nodes(level, n), NEW a \in 0..(n - 1), NEW x
    PROVE  /\ a \div 2 \in 0..(((n + 1) \div 2) - 1)
           /\ (IF a % 2 = 0 THEN <<x, Sibling(level, a)>> ELSE <<Sibling(level, a), x>>)
                  = Up(level)[(a \div 2) + 1] <=> x = level[a + 1]
<1>1. n \in Nat \ {0} /\ Len(level) = n
  BY NodesLen DEF Nodes
<1>2. PICK q \in Nat : q = a \div 2
  BY <1>1
<1>3. PICK m \in Nat : m = (n + 1) \div 2
  BY <1>1
<1>4. q \in 0..(m - 1)
  BY <1>1, <1>2, <1>3
<1>5. q + 1 \in 1..m /\ 2 * (q + 1) - 1 = 2 * q + 1 /\ 2 * (q + 1) = 2 * q + 2
  BY <1>3, <1>4
<1>6. Up(level)[q + 1] = <<level[2 * q + 1], IF 2 * q + 2 <= n THEN level[2 * q + 2] ELSE level[2 * q + 1]>>
  BY <1>1, <1>3, <1>5 DEF Up
<1>7. CASE a % 2 = 0
  <2>1. a = 2 * q /\ a + 1 = 2 * q + 1 /\ a + 2 = 2 * q + 2
    BY <1>2, <1>7
  <2>2. Sibling(level, a) = IF 2 * q + 2 <= n THEN level[2 * q + 2] ELSE level[2 * q + 1]
    <3>1. a + 1 < n <=> 2 * q + 2 <= n
      BY <1>1, <2>1
    <3> QED
      BY <1>1, <1>7, <2>1, <3>1 DEF Sibling
  <2>3. <<x, Sibling(level, a)>> = Up(level)[q + 1] <=> x = level[a + 1]
    BY <1>6, <2>1, <2>2
  <2> QED
    BY <1>2, <1>3, <1>4, <1>7, <2>3
<1>8. CASE a % 2 # 0
  <2>1. a % 2 = 1 /\ a = 2 * q + 1 /\ a + 1 = 2 * q + 2 /\ 2 * q + 2 <= n
    BY <1>1, <1>2, <1>8
  <2>2. Sibling(level, a) = level[2 * q + 1]
    BY <2>1 DEF Sibling
  <2>3. <<Sibling(level, a), x>> = Up(level)[q + 1] <=> x = level[a + 1]
    BY <1>6, <2>1, <2>2
  <2> QED
    BY <1>2, <1>3, <1>4, <1>8, <2>3
<1> QED
  BY <1>7, <1>8

LEMMA ProofsTell ==
    ASSUME NEW leaves, NEW n, Nodes(leaves, n), NEW i \in 0..(n - 1), NEW leaf
    PROVE  VerifyProof(Root(leaves), leaf, i, Proof(leaves, i)) <=> leaf = leaves[i + 1]
<1>1. PICK H \in Nat : H = Height(leaves)
  BY HeightIs
<1>2. n \in Nat \ {0} /\ i \in Nat
  BY DEF Nodes
<1>3. PICK proof : proof = Proof(leaves, i)
  OBVIOUS
<1>4. proof = [h \in 1..H |-> Sibling(LevelAt(leaves, h - 1), Ancestor(i, h - 1))]
  BY <1>1, <1>3 DEF Proof
<1>5. Len(proof) = H
  <2> DEFINE S == {proof[h] : h \in 1..H}
  <2>1. proof \in [1..H -> S]
    BY <1>4
  <2> HIDE DEF S
  <2> QED
    BY <2>1
<1>6. PICK C : Climb(leaf, i, proof) = C[H] /\ ClimbOf(leaf, i, proof, H, C)
  BY <1>1, <1>5, Climbs
<1> DEFINE T == {h \in Nat : h <= H =>
                    \E m : /\ Nodes(LevelAt(leaves, h), m) /\ Ancestor(i, h) \in 0..(m - 1)
                           /\ C[h] = LevelAt(leaves, h)[Ancestor(i, h) + 1] <=> leaf = leaves[i + 1]}
<1>7. 0 \in T
  <2>1. LevelAt(leaves, 0) = leaves /\ Ancestor(i, 0) = i
    BY <1>2, Levels, Ancestors
  <2>2. C[0] = leaf
    BY <1>1, <1>6 DEF ClimbOf
  <2> QED
    BY <2>1, <2>2
<1>8. ASSUME NEW h \in Nat, h \in T PROVE h + 1 \in T
  <2> SUFFICES ASSUME h + 1 <= H
               PROVE  \E m : /\ Nodes(LevelAt(leaves, h + 1), m) /\ Ancestor(i, h + 1) \in 0..(m - 1)
                             /\ C[h + 1] = LevelAt(leaves, h + 1)[Ancestor(i, h + 1) + 1] <=> leaf = leaves[i + 1]
    OBVIOUS
  <2>1. PICK m : /\ Nodes(LevelAt(leaves, h), m) /\ Ancestor(i, h) \in 0..(m - 1)
                 /\ C[h] = LevelAt(leaves, h)[Ancestor(i, h) + 1] <=> leaf = leaves[i + 1]
    BY <1>8
  <2>2. PICK level : level = LevelAt(leaves, h)
    OBVIOUS
  <2>3. PICK a \in Nat : a = Ancestor(i, h)
    BY <1>2, Ancestors
  <2>4. LevelAt(leaves, h + 1) = Up(level) /\ Ancestor(i, h + 1) = a \div 2
    BY <1>2, <2>2, <2>3, Levels, Ancestors
  <2>5. h + 1 \in 1..H /\ h + 1 \in 0..H /\ (h + 1) - 1 = h /\ h + 1 # 0
    BY <1>1
  <2>6. C[h + 1] = NodesJoined(i, proof, h + 1, C[h]) /\ proof[h + 1] = Sibling(level, a)
    BY <1>4, <1>6, <2>2, <2>3, <2>5 DEF ClimbOf
  <2>7. C[h + 1] = IF a % 2 = 0 THEN <<C[h], Sibling(level, a)>> ELSE <<Sibling(level, a), C[h]>>
    BY <2>3, <2>5, <2>6 DEF NodesJoined
  <2>8. PICK x : x = C[h]
    OBVIOUS
  <2>9. /\ a \div 2 \in 0..(((m + 1) \div 2) - 1)
        /\ (IF a % 2 = 0 THEN <<x, Sibling(level, a)>> ELSE <<Sibling(level, a), x>>)
               = Up(level)[(a \div 2) + 1] <=> x = level[a + 1]
    <3>1. Nodes(level, m) /\ a \in 0..(m - 1)
      BY <2>1, <2>2, <2>3
    <3> QED
      BY <3>1, OneLevel
  <2>10. Nodes(LevelAt(leaves, h + 1), (m + 1) \div 2)
    BY <2>1, <2>2, <2>4, UpNodes
  <2>11. C[h + 1] = LevelAt(leaves, h + 1)[Ancestor(i, h + 1) + 1] <=> leaf = leaves[i + 1]
    <3>1. C[h + 1] = Up(level)[(a \div 2) + 1] <=> x = level[a + 1]
      BY <2>7, <2>8, <2>9
    <3>2. x = level[a + 1] <=> leaf = leaves[i + 1]
      BY <2>1, <2>2, <2>3, <2>8
    <3> QED
      BY <2>4, <3>1, <3>2
  <2> QED
    BY <2>4, <2>9, <2>10, <2>11
<1> HIDE DEF T
<1>9. H \in T
  BY <1>7, <1>8, AllNumbers
<1>10. PICK m : /\ Nodes(LevelAt(leaves, H), m) /\ Ancestor(i, H) \in 0..(m - 1)
                /\ C[H] = LevelAt(leaves, H)[Ancestor(i, H) + 1] <=> leaf = leaves[i + 1]
  BY <1>9 DEF T
<1>11. m = 1
  <2>1. Nodes(LevelAt(leaves, H), 1)
    BY <1>1, HeightIs
  <2>2. Len(LevelAt(leaves, H)) = 1 /\ Len(LevelAt(leaves, H)) = m
    BY <1>10, <2>1, NodesLen
  <2> QED
    BY <2>2
<1>12. Ancestor(i, H) = 0 /\ Root(leaves) = LevelAt(leaves, H)[1]
  BY <1>1, <1>2, <1>10, <1>11, Ancestors DEF Root
<1>13. C[H] = Root(leaves) <=> leaf = leaves[i + 1]
  BY <1>10, <1>12
<1> QED
  BY <1>3, <1>6, <1>13 DEF VerifyProof

-----------------------------------------------------------------------------
(* Integrity: the field.  Every symbol but 0 is a power of 2, so that a    *)
(* product adds exponents.                                                 *)

LEMMA FieldSize ==
    /\ N \in Nat /\ N >= 3 /\ Symbols = 0..N
    /\ Parity \in Nat /\ Parity >= 1 /\ Parity <= N - 1
<1>1. Bits \in Nat /\ Bits >= 2 /\ Bits - 1 \in Nat /\ (Bits - 1) + 1 = Bits
  BY BitsAssumption DEF BitsAssumption
<1>2. Bits - 2 \in Nat /\ (Bits - 2) + 1 = Bits - 1
  BY <1>1
<1>3. PICK p \in Nat : p = Power2(Bits - 2)
  BY <1>2, Powers2
<1>4. p >= 1 /\ Power2(Bits - 1) = 2 * p
  BY <1>2, <1>3, Powers2
<1>5. Power2(Bits) = 2 * (2 * p)
  BY <1>1, <1>4, Powers2
<1>6. N = 4 * p - 1 /\ Symbols = 0..N
  BY <1>5 DEF N, Size, Symbols
<1> QED
  BY <1>4, <1>6, IntegrityAssumption DEF IntegrityAssumption

LEMMA OneRest ==
    ASSUME NEW n \in Nat, NEW h \in Int, NEW k \in Int, NEW r \in 0..(n - 1), NEW s \in 0..(n - 1),
           n * h + r = n * k + s
    PROVE  r = s
<1>1. CASE h = k
  BY <1>1
<1>2. CASE h < k
  <2>1. PICK d \in Nat : k = h + 1 + d
    <3>1. k - h - 1 \in Nat /\ k = h + 1 + (k - h - 1)
      BY <1>2
    <3> QED
      BY <3>1
  <2>2. n * k = n * h + n + n * d /\ n * d >= 0
    BY <2>1
  <2> QED
    BY <2>2
<1>3. CASE k < h
  <2>1. PICK d \in Nat : h = k + 1 + d
    <3>1. h - k - 1 \in Nat /\ h = k + 1 + (h - k - 1)
      BY <1>3
    <3> QED
      BY <3>1
  <2>2. n * h = n * k + n + n * d /\ n * d >= 0
    BY <2>1
  <2> QED
    BY <2>2
<1> QED
  BY <1>1, <1>2, <1>3

LEMMA Rests ==
    ASSUME NEW n \in Nat, n > 0, NEW a \in Nat
    PROVE  /\ a % n \in 0..(n - 1)
           /\ \E h \in Int : a = n * h + (a % n)
<1>1. a % n \in 0..(n - 1)
  OBVIOUS
<1>2. a \div n \in Int /\ a = n * (a \div n) + (a % n)
  OBVIOUS
<1> QED
  BY <1>1, <1>2

LEMMA RestOfSum ==
    ASSUME NEW n \in Nat, n > 0, NEW a \in Nat, NEW b \in Nat
    PROVE  /\ ((a % n) + (b % n)) % n = (a + b) % n
           /\ (a + n) % n = a % n
           /\ a < n => a % n = a
<1>1. PICK r \in 0..(n - 1) : r = a % n
  BY Rests
<1>2. PICK s \in 0..(n - 1) : s = b % n
  BY Rests
<1>3. PICK h \in Int : a = n * h + r
  BY <1>1, Rests
<1>4. PICK k \in Int : b = n * k + s
  BY <1>2, Rests
<1>5. (r + s) % n = (a + b) % n
  <2>0. r + s \in Nat /\ a + b \in Nat
    OBVIOUS
  <2>1. PICK t \in 0..(n - 1) : t = (r + s) % n
    BY <2>0, Rests
  <2>2. PICK u \in 0..(n - 1) : u = (a + b) % n
    BY <2>0, Rests
  <2>3. PICK v \in Int : r + s = n * v + t
    BY <2>0, <2>1, Rests
  <2>4. PICK w \in Int : a + b = n * w + u
    BY <2>0, <2>2, Rests
  <2>5. h + k + v \in Int /\ n * (h + k + v) + t = n * w + u
    <3>1. n * (h + k + v) = n * h + n * k + n * v
      OBVIOUS
    <3> QED
      BY <1>3, <1>4, <2>3, <2>4, <3>1
  <2> QED
    BY <2>1, <2>2, <2>5, OneRest
<1>6. (a + n) % n = r
  <2>0. a + n \in Nat
    OBVIOUS
  <2>1. PICK t \in 0..(n - 1) : t = (a + n) % n
    BY <2>0, Rests
  <2>2. PICK v \in Int : a + n = n * v + t
    BY <2>0, <2>1, Rests
  <2>3. h + 1 \in Int /\ n * (h + 1) + r = n * v + t
    <3>1. n * (h + 1) = n * h + n
      OBVIOUS
    <3> QED
      BY <1>3, <2>2, <3>1
  <2> QED
    BY <2>1, <2>3, OneRest
<1>7. ASSUME a < n PROVE r = a
  <2>1. n * h + r = n * 0 + a /\ a \in 0..(n - 1) /\ 0 \in Int
    BY <1>3, <1>7
  <2> QED
    BY <2>1, OneRest
<1> QED
  BY <1>1, <1>2, <1>5, <1>6, <1>7

One == Alpha(0)

LEMMA Alphas ==
    /\ \A i \in Nat : Alpha(i) \in Symbols /\ Alpha(i) # 0
    /\ \A x \in Symbols : x # 0 => Log[x] \in Nat /\ Log[x] < N /\ Alpha(Log[x]) = x
    /\ \A i \in Nat : Log[Alpha(i)] = i % N
    /\ \A i \in Nat : i < N => Log[Alpha(i)] = i
<1>1. N \in Nat /\ N > 0 /\ Symbols = 0..N
  BY FieldSize
<1>2. \A i \in Nat : i % N \in 0..(N - 1)
  BY <1>1, Rests
<1>3. \A i \in Nat : Alpha(i) \in Symbols /\ Alpha(i) # 0
  BY <1>2, PrimitiveAssumption DEF PrimitiveAssumption, Alpha
<1>4. ASSUME NEW x \in Symbols, x # 0
      PROVE  Log[x] \in 0..(N - 1) /\ Exp[Log[x]] = x /\ Alpha(Log[x]) = x
  <2>1. x \in 1..N
    BY <1>1, <1>4
  <2>2. \E i \in 0..(N - 1) : Exp[i] = x
    BY <2>1, PrimitiveAssumption DEF PrimitiveAssumption
  <2>3. Log[x] = CHOOSE i \in 0..(N - 1) : Exp[i] = x
    BY <2>1 DEF Log
  <2>4. Log[x] \in 0..(N - 1) /\ Exp[Log[x]] = x
    BY <2>2, <2>3
  <2>5. PICK l \in 0..(N - 1) : l = Log[x]
    BY <2>4
  <2>6. l % N = l
    BY <1>1, RestOfSum
  <2> QED
    BY <2>4, <2>5, <2>6 DEF Alpha
<1>5. ASSUME NEW i \in Nat PROVE Log[Alpha(i)] = i % N
  <2>1. PICK x \in Symbols : x = Alpha(i)
    BY <1>3
  <2>2. Log[x] \in 0..(N - 1) /\ Exp[Log[x]] = x
    BY <1>3, <1>4, <2>1
  <2>3. Exp[i % N] = x /\ i % N \in 0..(N - 1)
    BY <1>2, <2>1 DEF Alpha
  <2> QED
    BY <2>1, <2>2, <2>3, PrimitiveAssumption DEF PrimitiveAssumption
<1>6. \A i \in Nat : i < N => i % N = i
  BY <1>1, RestOfSum
<1>7. \A x \in Symbols : x # 0 => Log[x] \in Nat /\ Log[x] < N /\ Alpha(Log[x]) = x
  BY <1>1, <1>4
<1> QED
  BY <1>3, <1>5, <1>6, <1>7

LEMMA AlphaSums ==
    ASSUME NEW i \in Nat, NEW j \in Nat
    PROVE  /\ Alpha(i) ** Alpha(j) = Alpha(i + j)
           /\ Alpha(i + N) = Alpha(i)
<1>1. N \in Nat /\ N > 0
  BY FieldSize
<1>2. Alpha(i) # 0 /\ Alpha(j) # 0
  BY Alphas
<1>3. Alpha(i) ** Alpha(j) = Alpha(Log[Alpha(i)] + Log[Alpha(j)])
  BY <1>2 DEF **, Mul
<1>4. Alpha(i) ** Alpha(j) = Alpha((i % N) + (j % N))
  BY <1>3, Alphas
<1>5. ((i % N) + (j % N)) % N = (i + j) % N /\ (i + N) % N = i % N
  BY <1>1, RestOfSum
<1> QED
  BY <1>4, <1>5 DEF Alpha

\* Multiplication in the field.
LEMMA Products ==
    /\ \A a, b \in Symbols : a ** b \in Symbols /\ a ** b = b ** a
    /\ \A a \in Symbols : a ** 0 = 0 /\ 0 ** a = 0 /\ a ** One = a /\ One ** a = a
    /\ \A a, b \in Symbols : a # 0 /\ b # 0 => a ** b # 0
    /\ \A a, b, c \in Symbols : (a ** b) ** c = a ** (b ** c)
    /\ \A a, b, c \in Symbols : a ** (b ++ c) = (a ** b) ++ (a ** c) /\ (b ++ c) ** a = (b ** a) ++ (c ** a)
    /\ One \in Symbols /\ One # 0
<1>0. One \in Symbols /\ One # 0 /\ 0 \in Symbols
  BY Alphas, Additions DEF One
<1>1. ASSUME NEW a \in Symbols, a # 0 PROVE \E i \in Nat : a = Alpha(i)
  BY <1>1, Alphas
<1>2. \A a : a ** 0 = 0 /\ 0 ** a = 0
  BY DEF **, Mul
<1>3. ASSUME NEW a \in Symbols, NEW b \in Symbols, a # 0, b # 0
      PROVE  a ** b \in Symbols /\ a ** b = b ** a /\ a ** b # 0
  <2>1. PICK i \in Nat : a = Alpha(i)
    BY <1>1, <1>3
  <2>2. PICK j \in Nat : b = Alpha(j)
    BY <1>1, <1>3
  <2>3. a ** b = Alpha(i + j) /\ b ** a = Alpha(j + i) /\ i + j = j + i /\ i + j \in Nat
    BY <2>1, <2>2, AlphaSums
  <2> QED
    BY <2>3, Alphas
<1>4. \A a, b \in Symbols : a ** b \in Symbols /\ a ** b = b ** a
  BY <1>0, <1>2, <1>3
<1>5. ASSUME NEW a \in Symbols PROVE a ** One = a /\ One ** a = a
  <2>1. CASE a = 0
    BY <1>2, <2>1
  <2>2. CASE a # 0
    <3>1. PICK i \in Nat : a = Alpha(i)
      BY <1>1, <2>2
    <3>2. Alpha(i) ** Alpha(0) = Alpha(i + 0) /\ i + 0 = i
      BY AlphaSums
    <3>3. a ** One = a
      BY <3>1, <3>2 DEF One
    <3> QED
      BY <1>0, <1>4, <3>3
  <2> QED
    BY <2>1, <2>2
<1>6. ASSUME NEW a \in Symbols, NEW b \in Symbols, NEW c \in Symbols
      PROVE  (a ** b) ** c = a ** (b ** c)
  <2>1. CASE a = 0 \/ b = 0 \/ c = 0
    BY <1>2, <2>1
  <2>2. CASE a # 0 /\ b # 0 /\ c # 0
    <3>1. PICK i \in Nat : a = Alpha(i)
      BY <1>1, <2>2
    <3>2. PICK j \in Nat : b = Alpha(j)
      BY <1>1, <2>2
    <3>3. PICK k \in Nat : c = Alpha(k)
      BY <1>1, <2>2
    <3>4. i + j \in Nat /\ j + k \in Nat /\ (i + j) + k = i + (j + k)
      OBVIOUS
    <3>5. a ** b = Alpha(i + j) /\ b ** c = Alpha(j + k)
      BY <3>1, <3>2, <3>3, AlphaSums
    <3>6. (a ** b) ** c = Alpha((i + j) + k)
      BY <3>3, <3>4, <3>5, AlphaSums
    <3>7. a ** (b ** c) = Alpha(i + (j + k))
      BY <3>1, <3>4, <3>5, AlphaSums
    <3> QED
      BY <3>4, <3>6, <3>7
  <2> QED
    BY <2>1, <2>2
<1>7. \A a, b, c \in Symbols : a ** (b ++ c) = (a ** b) ++ (a ** c)
  BY PrimitiveAssumption DEF PrimitiveAssumption
<1>8. ASSUME NEW a \in Symbols, NEW b \in Symbols, NEW c \in Symbols
      PROVE  (b ++ c) ** a = (b ** a) ++ (c ** a)
  <2>1. b ++ c \in Symbols
    BY Additions
  <2>2. (b ++ c) ** a = a ** (b ++ c) /\ a ** b = b ** a /\ a ** c = c ** a
    BY <1>4, <2>1
  <2> QED
    BY <1>7, <2>2
<1> QED
  BY <1>0, <1>2, <1>3, <1>4, <1>5, <1>6, <1>7, <1>8

LEMMA ZeroProducts ==
    ASSUME NEW a \in Symbols, NEW b \in Symbols
    PROVE  a ** b = 0 <=> a = 0 \/ b = 0
<1>1. CASE a = 0
  BY <1>1, Products
<1>2. CASE b = 0
  BY <1>2, Products
<1>3. CASE a # 0 /\ b # 0
  BY <1>3, Products
<1> QED
  BY <1>1, <1>2, <1>3

LEMMA Inverses ==
    ASSUME NEW x \in Symbols, x # 0
    PROVE  Inv(x) \in Symbols /\ Inv(x) # 0 /\ x ** Inv(x) = One
<1>1. N \in Nat
  BY FieldSize
<1>2. PICK l \in Nat : l = Log[x] /\ l < N /\ Alpha(l) = x
  BY Alphas
<1>3. N - l \in Nat /\ l + (N - l) = 0 + N
  BY <1>1, <1>2
<1>4. Inv(x) = Alpha(N - l)
  BY <1>2 DEF Inv
<1>5. x ** Inv(x) = Alpha(0 + N)
  BY <1>2, <1>3, <1>4, AlphaSums
<1>6. Alpha(0 + N) = Alpha(0)
  BY AlphaSums
<1> QED
  BY <1>3, <1>4, <1>5, <1>6, Alphas DEF One

\* The powers of two positions differ.
LEMMA PositionsTell ==
    ASSUME NEW i \in 0..(N - 1), NEW j \in 0..(N - 1), i # j
    PROVE  Alpha(i) ++ Alpha(j) # 0
<1>1. N \in Nat
  BY FieldSize
<1>2. Log[Alpha(i)] = i /\ Log[Alpha(j)] = j
  BY <1>1, Alphas
<1>3. PICK x \in Symbols : x = Alpha(i)
  BY <1>1, Alphas
<1>4. PICK y \in Symbols : y = Alpha(j)
  BY <1>1, Alphas
<1>5. (x ++ y) ++ y = x ++ (y ++ y) /\ y ++ y = 0 /\ x ++ 0 = x /\ 0 ++ y = y
  BY Additions
<1> QED
  BY <1>2, <1>3, <1>4, <1>5

Combines(h, a, f, b, g, n) == \A m \in 1..n : h[m] = (a ** f[m]) ++ (b ** g[m])

LEMMA LinearSums ==
    ASSUME NEW L \in Nat, NEW h, NEW f, NEW g, NEW a \in Symbols, NEW b \in Symbols,
           Valued(f, L), Valued(g, L), Combines(h, a, f, b, g, L)
    PROVE  SumTo(h, L) = (a ** SumTo(f, L)) ++ (b ** SumTo(g, L))
<1>1. PICK s \in [Symbols -> Symbols] : \A x \in Symbols : s[x] = a ** x
  <2>1. \A x \in Symbols : a ** x \in Symbols
    BY Products
  <2>2. [x \in Symbols |-> a ** x] \in [Symbols -> Symbols]
    BY <2>1
  <2> QED
    BY <2>2
<1>2. PICK t \in [Symbols -> Symbols] : \A x \in Symbols : t[x] = b ** x
  <2>1. \A x \in Symbols : b ** x \in Symbols
    BY Products
  <2>2. [x \in Symbols |-> b ** x] \in [Symbols -> Symbols]
    BY <2>1
  <2> QED
    BY <2>2
<1>3. Additive(s) /\ Additive(t)
  <2>1. \A x, y \in Symbols : x ++ y \in Symbols
    BY Additions
  <2>2. \A x, y \in Symbols : a ** (x ++ y) = (a ** x) ++ (a ** y) /\ b ** (x ++ y) = (b ** x) ++ (b ** y)
    BY Products
  <2>3. ASSUME NEW x \in Symbols, NEW y \in Symbols
        PROVE  s[x ++ y] = s[x] ++ s[y] /\ t[x ++ y] = t[x] ++ t[y]
    BY <1>1, <1>2, <2>1, <2>2
  <2> QED
    BY <2>3 DEF Additive
<1>4. CombinesBy(h, s, f, t, g, L)
  <2>1. \A m \in 1..L : f[m] \in Symbols /\ g[m] \in Symbols
    BY DEF Valued
  <2> QED
    BY <1>1, <1>2, <2>1 DEF Combines, CombinesBy
<1>5. SumTo(f, L) \in Symbols /\ SumTo(g, L) \in Symbols
  BY SumsInside
<1>6. SumTo(h, L) = s[SumTo(f, L)] ++ t[SumTo(g, L)]
  BY <1>3, <1>4, <1>5, AdditiveSums
<1> QED
  BY <1>1, <1>2, <1>5, <1>6

-----------------------------------------------------------------------------
(* Integrity: the elimination.  A column changes neither the solutions of  *)
(* the system nor the columns before it.                                   *)

Rows(w) == [1..w -> Symbols]
Matrices(w) == [1..Parity -> Rows(w)]

Terms(row, y, n) == [k \in 1..n |-> row[k] ** y[k]]
Dot(row, y, n) == SumTo(Terms(row, y, n), n)
Solves(m, y, n) == \A r \in 1..Parity : Dot(m[r], y, n) = 0

\* Column k is 1 in row k and 0 in all others.
UnitColumns(m, c) == \A r \in 1..Parity, k \in 1..c : m[r][k] = IF r = k THEN One ELSE 0

LEMMA Dots ==
    ASSUME NEW w \in Nat, NEW row \in Rows(w), NEW y \in Rows(w)
    PROVE  /\ Valued(Terms(row, y, w), w)
           /\ Dot(row, y, w) \in Symbols
<1>1. ASSUME NEW k \in 1..w PROVE Terms(row, y, w)[k] \in Symbols
  <2>1. row[k] \in Symbols /\ y[k] \in Symbols /\ Terms(row, y, w)[k] = row[k] ** y[k]
    BY DEF Terms, Rows
  <2> QED
    BY <2>1, Products
<1>2. Valued(Terms(row, y, w), w)
  BY <1>1 DEF Valued
<1> QED
  BY <1>2, SumsInside DEF Dot

\* The product with a sum of rows.
RowOfSum(row, a, u, b, v, w) == \A k \in 1..w : row[k] = (a ** u[k]) ++ (b ** v[k])

LEMMA DotOfSum ==
    ASSUME NEW w \in Nat, NEW row \in Rows(w), NEW u \in Rows(w),
           NEW v \in Rows(w), NEW y \in Rows(w),
           NEW a \in Symbols, NEW b \in Symbols,
           RowOfSum(row, a, u, b, v, w)
    PROVE  Dot(row, y, w) = (a ** Dot(u, y, w)) ++ (b ** Dot(v, y, w))
<1>1. Valued(Terms(u, y, w), w) /\ Valued(Terms(v, y, w), w)
  BY Dots
<1>2. ASSUME NEW k \in 1..w
      PROVE  Terms(row, y, w)[k] = (a ** Terms(u, y, w)[k]) ++ (b ** Terms(v, y, w)[k])
  <2>1. PICK p \in Symbols : p = u[k]
    BY DEF Rows
  <2>2. PICK q \in Symbols : q = v[k]
    BY DEF Rows
  <2>3. PICK z \in Symbols : z = y[k]
    BY DEF Rows
  <2>4. row[k] = (a ** p) ++ (b ** q)
    BY <2>1, <2>2 DEF RowOfSum
  <2>5. a ** p \in Symbols /\ b ** q \in Symbols
    BY Products
  <2>6. ((a ** p) ++ (b ** q)) ** z = ((a ** p) ** z) ++ ((b ** q) ** z)
    BY <2>5, Products
  <2>7. (a ** p) ** z = a ** (p ** z) /\ (b ** q) ** z = b ** (q ** z)
    BY Products
  <2> QED
    BY <2>1, <2>2, <2>3, <2>4, <2>6, <2>7 DEF Terms
<1>3. Combines(Terms(row, y, w), a, Terms(u, y, w), b, Terms(v, y, w), w)
  BY <1>2 DEF Combines
<1> HIDE DEF Terms
<1> QED
  BY <1>1, <1>3, LinearSums DEF Dot

MoreRow(row, f, a, g, w) == \A k \in 1..w : row[k] = f[k] ++ (a ** g[k])

LEMMA DotOfMore ==
    ASSUME NEW w \in Nat, NEW row \in Rows(w), NEW f \in Rows(w),
           NEW g \in Rows(w), NEW y \in Rows(w), NEW a \in Symbols,
           MoreRow(row, f, a, g, w)
    PROVE  Dot(row, y, w) = Dot(f, y, w) ++ (a ** Dot(g, y, w))
<1>1. PICK o \in Symbols : o = One
  BY Products
<1>2. ASSUME NEW k \in 1..w PROVE row[k] = (o ** f[k]) ++ (a ** g[k])
  <2>1. PICK x \in Symbols : x = f[k]
    BY DEF Rows
  <2>2. o ** x = x
    BY <1>1, Products
  <2> QED
    BY <2>1, <2>2 DEF MoreRow
<1>3. RowOfSum(row, o, f, a, g, w)
  BY <1>2 DEF RowOfSum
<1>4. Dot(row, y, w) = (o ** Dot(f, y, w)) ++ (a ** Dot(g, y, w))
  BY <1>3, DotOfSum
<1>5. PICK e \in Symbols : e = Dot(f, y, w)
  BY Dots
<1>6. o ** e = e
  BY <1>1, Products
<1> QED
  BY <1>4, <1>5, <1>6

\* The rows of s are those of m.
SameRows(s, m) ==
    /\ \A r \in 1..Parity : \E q \in 1..Parity : s[r] = m[q]
    /\ \A q \in 1..Parity : \E r \in 1..Parity : s[r] = m[q]

LEMMA Swaps ==
    ASSUME NEW w \in Nat, NEW m \in Matrices(w), NEW c \in 1..Parity, NEW p \in c..Parity
    PROVE  /\ Swapped(m, c, p) \in Matrices(w)
           /\ Swapped(m, c, p)[c] = m[p]
           /\ SameRows(Swapped(m, c, p), m)
           /\ UnitColumns(m, c - 1) => UnitColumns(Swapped(m, c, p), c - 1)
<1>0. p \in 1..Parity /\ c \in 1..Parity /\ c <= p
  BY FieldSize
<1> DEFINE s == Swapped(m, c, p)
<1>1. \A q \in 1..Parity : s[q] = m[IF q = c THEN p ELSE IF q = p THEN c ELSE q]
  BY DEF Swapped
<1>2. s = [q \in 1..Parity |-> s[q]]
  BY DEF Swapped
<1> HIDE DEF s
<1>3. \A q \in 1..Parity : m[q] \in Rows(w)
  BY DEF Matrices, Rows
<1>4. \A q \in 1..Parity : s[q] \in Rows(w)
  BY <1>0, <1>1, <1>3
<1>5. s \in Matrices(w)
  BY <1>2, <1>4 DEF Matrices
<1>6. s[c] = m[p] /\ s[p] = m[c]
  BY <1>0, <1>1
<1>7. ASSUME NEW q \in 1..Parity, q # c, q # p PROVE s[q] = m[q]
  BY <1>1, <1>7
<1>8. \A r \in 1..Parity : \E q \in 1..Parity : s[r] = m[q]
  BY <1>0, <1>6, <1>7
<1>9. \A q \in 1..Parity : \E r \in 1..Parity : s[r] = m[q]
  BY <1>0, <1>6, <1>7
<1>10. ASSUME UnitColumns(m, c - 1), NEW r \in 1..Parity, NEW l \in 1..(c - 1)
       PROVE  s[r][l] = IF r = l THEN One ELSE 0
  <2>1. PICK q \in 1..Parity : s[r] = m[q] /\ (q = r \/ (r \in {c, p} /\ q \in {c, p}))
    BY <1>0, <1>6, <1>7
  <2>2. m[q][l] = IF q = l THEN One ELSE 0
    BY <1>10 DEF UnitColumns
  <2>3. CASE q = r
    BY <2>1, <2>2, <2>3
  <2>4. CASE r \in {c, p} /\ q \in {c, p}
    <3>1. l < c /\ l < p
      BY <1>0, FieldSize
    <3>2. r # l /\ q # l
      BY <1>0, <2>4, <3>1
    <3> QED
      BY <2>1, <2>2, <3>2
  <2> QED
    BY <2>1, <2>3, <2>4
<1>11. UnitColumns(m, c - 1) => UnitColumns(s, c - 1)
  BY <1>10 DEF UnitColumns
<1>12. SameRows(s, m)
  BY <1>8, <1>9 DEF SameRows
<1> QED
  BY <1>5, <1>6, <1>11, <1>12 DEF s

\* The elimination of column c once a pivot stands in row c.
Swept(s, c) ==
    LET unit == [k \in DOMAIN s[c] |-> s[c][k] ** Inv(s[c][c])] IN
    [r \in 1..Parity |-> [k \in DOMAIN unit |->
        IF r = c THEN unit[k] ELSE s[r][k] ++ (s[r][c] ** unit[k])]]

\* What that leaves.
SweptFrom(n, s, c, w) ==
    /\ \A k \in 1..w : n[c][k] = s[c][k] ** Inv(s[c][c])
    /\ \A r \in 1..Parity, k \in 1..w : r # c => n[r][k] = s[r][k] ++ (s[r][c] ** n[c][k])

LEMMA Sweeps ==
    ASSUME NEW w \in Nat, NEW s \in Matrices(w), NEW c \in 1..Parity, c \in 1..w, s[c][c] # 0
    PROVE  /\ Swept(s, c) \in Matrices(w)
           /\ SweptFrom(Swept(s, c), s, c, w)
<1>1. \A r \in 1..Parity, k \in 1..w : s[r][k] \in Symbols
  BY DEF Matrices, Rows
<1>2. DOMAIN s[c] = 1..w
  BY DEF Matrices, Rows
<1>3. PICK i \in Symbols : i = Inv(s[c][c])
  BY <1>1, Inverses
<1>4. PICK unit : unit = [k \in 1..w |-> s[c][k] ** i]
  OBVIOUS
<1>5. unit \in Rows(w)
  <2>1. \A k \in 1..w : s[c][k] ** i \in Symbols
    BY <1>1, Products
  <2> QED
    BY <1>4, <2>1 DEF Rows
<1>6. Swept(s, c) = [r \in 1..Parity |-> [k \in 1..w |->
                        IF r = c THEN unit[k] ELSE s[r][k] ++ (s[r][c] ** unit[k])]]
  <2>1. unit = [k \in DOMAIN s[c] |-> s[c][k] ** Inv(s[c][c])] /\ DOMAIN unit = 1..w
    BY <1>2, <1>3, <1>4
  <2> QED
    BY <2>1 DEF Swept
<1>7. \A r \in 1..Parity, k \in 1..w :
          (IF r = c THEN unit[k] ELSE s[r][k] ++ (s[r][c] ** unit[k])) \in Symbols
  <2> SUFFICES ASSUME NEW r \in 1..Parity, NEW k \in 1..w
               PROVE  unit[k] \in Symbols /\ s[r][k] ++ (s[r][c] ** unit[k]) \in Symbols
    OBVIOUS
  <2>1. unit[k] \in Symbols /\ s[r][k] \in Symbols /\ s[r][c] \in Symbols
    BY <1>1, <1>5 DEF Rows
  <2>2. s[r][c] ** unit[k] \in Symbols
    BY <2>1, Products
  <2> QED
    BY <2>1, <2>2, Additions
<1>8. Swept(s, c) \in Matrices(w)
  BY <1>6, <1>7 DEF Matrices, Rows
<1>9. \A k \in 1..w : Swept(s, c)[c][k] = unit[k]
  BY <1>6
<1>10. \A k \in 1..w : unit[k] = s[c][k] ** i
  BY <1>4
<1>11. \A r \in 1..Parity, k \in 1..w : r # c => Swept(s, c)[r][k] = s[r][k] ++ (s[r][c] ** unit[k])
  BY <1>6
<1>12. SweptFrom(Swept(s, c), s, c, w)
  BY <1>3, <1>9, <1>10, <1>11 DEF SweptFrom
<1> QED
  BY <1>8, <1>12

LEMMA SweptColumns ==
    ASSUME NEW w \in Nat, NEW s \in Matrices(w), NEW c \in 1..Parity, c \in 1..w, s[c][c] # 0,
           UnitColumns(s, c - 1), NEW n, SweptFrom(n, s, c, w)
    PROVE  UnitColumns(n, c)
<1>1. \A r \in 1..Parity, k \in 1..w : s[r][k] \in Symbols
  BY DEF Matrices, Rows
<1>2. PICK x \in Symbols : x = s[c][c] /\ x # 0
  BY <1>1
<1>3. c \in Nat /\ c >= 1 /\ c <= Parity /\ Parity \in Nat /\ 1 \in Nat
  BY FieldSize
<1>4. n[c][c] = One
  <2>1. n[c][c] = x ** Inv(x)
    BY <1>2 DEF SweptFrom
  <2> QED
    BY <1>2, <2>1, Inverses
<1>5. ASSUME NEW r \in 1..Parity, r # c PROVE n[r][c] = 0
  <2>1. PICK a \in Symbols : a = s[r][c]
    BY <1>1
  <2>2. n[r][c] = a ++ (a ** One)
    BY <1>4, <1>5, <2>1 DEF SweptFrom
  <2> QED
    BY <2>2, Products, Additions
<1>6. ASSUME NEW k \in 1..(c - 1), NEW r \in 1..Parity PROVE n[r][k] = IF r = k THEN One ELSE 0
  <2>1. k \in 1..w /\ k # c /\ k \in 1..Parity
    BY <1>3
  <2>2. s[c][k] = 0 /\ s[r][k] = IF r = k THEN One ELSE 0
    BY <2>1 DEF UnitColumns
  <2>3. PICK i \in Symbols : i = Inv(s[c][c])
    BY <1>2, Inverses
  <2>4. n[c][k] = 0
    <3>1. n[c][k] = 0 ** i
      BY <2>1, <2>2, <2>3 DEF SweptFrom
    <3> QED
      BY <3>1, Products
  <2>5. CASE r = c
    BY <2>1, <2>4, <2>5
  <2>6. CASE r # c
    <3>1. PICK a \in Symbols : a = s[r][c]
      BY <1>1
    <3>2. PICK b \in Symbols : b = s[r][k]
      BY <1>1, <2>1
    <3>3. n[r][k] = b ++ (a ** 0)
      BY <2>1, <2>4, <2>6, <3>1, <3>2 DEF SweptFrom
    <3>4. n[r][k] = b
      BY <3>3, Products, Additions
    <3> QED
      BY <2>2, <3>2, <3>4
  <2> QED
    BY <2>5, <2>6
<1>7. ASSUME NEW k \in 1..c, NEW r \in 1..Parity PROVE n[r][k] = IF r = k THEN One ELSE 0
  <2>1. k = c \/ k \in 1..(c - 1)
    OBVIOUS
  <2> QED
    BY <1>4, <1>5, <1>6, <2>1
<1> QED
  BY <1>7 DEF UnitColumns

LEMMA SweptSolves ==
    ASSUME NEW w \in Nat, NEW s \in Matrices(w), NEW c \in 1..Parity, c \in 1..w, s[c][c] # 0,
           NEW n \in Matrices(w), SweptFrom(n, s, c, w), NEW y \in Rows(w)
    PROVE  Solves(n, y, w) <=> Solves(s, y, w)
<1>1. \A r \in 1..Parity : s[r] \in Rows(w)
  BY DEF Matrices, Rows
<1>2. PICK u \in Rows(w) : u = s[c]
  BY <1>1
<1>3. \A r \in 1..Parity : n[r] \in Rows(w)
  BY DEF Matrices, Rows
<1>4. PICK i \in Symbols : i = Inv(s[c][c]) /\ i # 0
  BY <1>1, Inverses DEF Rows
<1>5. PICK d \in Symbols : d = Dot(s[c], y, w)
  BY <1>1, Dots
<1>6. Dot(n[c], y, w) = i ** d
  <2>1. ASSUME NEW k \in 1..w PROVE n[c][k] = (i ** s[c][k]) ++ (0 ** s[c][k])
    <3>1. PICK x \in Symbols : x = s[c][k]
      BY <1>1 DEF Rows
    <3>2. n[c][k] = x ** i
      BY <1>4, <3>1 DEF SweptFrom
    <3>3. x ** i = i ** x /\ 0 ** x = 0 /\ i ** x \in Symbols
      BY Products
    <3>4. (i ** x) ++ 0 = i ** x
      BY <3>3, Additions
    <3> QED
      BY <3>1, <3>2, <3>3, <3>4
  <2>2. Dot(n[c], y, w) = (i ** d) ++ (0 ** d)
    <3>1. PICK z \in Symbols : z = 0
      BY Additions
    <3>2. PICK row \in Rows(w) : row = n[c]
      BY <1>3
    <3>3. RowOfSum(row, i, u, z, u, w)
      BY <1>2, <2>1, <3>1, <3>2 DEF RowOfSum
    <3>4. Dot(row, y, w) = (i ** Dot(u, y, w)) ++ (z ** Dot(u, y, w))
      BY <3>3, DotOfSum
    <3> QED
      BY <1>2, <1>5, <3>1, <3>2, <3>4
  <2>3. 0 ** d = 0 /\ i ** d \in Symbols
    BY Products
  <2>4. (i ** d) ++ 0 = i ** d
    BY <2>3, Additions
  <2> QED
    BY <2>2, <2>3, <2>4
<1>7. ASSUME NEW r \in 1..Parity, r # c
      PROVE  \E a \in Symbols : Dot(n[r], y, w) = Dot(s[r], y, w) ++ (a ** Dot(n[c], y, w))
  <2>1. PICK a \in Symbols : a = s[r][c]
    BY <1>1 DEF Rows
  <2>2. PICK row \in Rows(w) : row = n[r]
    BY <1>3
  <2>3. PICK f \in Rows(w) : f = s[r]
    BY <1>1
  <2>4. PICK g \in Rows(w) : g = n[c]
    BY <1>3
  <2>5. \A k \in 1..w : row[k] = f[k] ++ (a ** g[k])
    BY <1>7, <2>1, <2>2, <2>3, <2>4 DEF SweptFrom
  <2>6. Dot(row, y, w) = Dot(f, y, w) ++ (a ** Dot(g, y, w))
    BY <2>5, DotOfMore DEF MoreRow
  <2> QED
    BY <2>2, <2>3, <2>4, <2>6
<1>8. ASSUME NEW r \in 1..Parity, r # c, Dot(n[c], y, w) = 0
      PROVE  Dot(n[r], y, w) = Dot(s[r], y, w)
  <2>1. PICK a \in Symbols : Dot(n[r], y, w) = Dot(s[r], y, w) ++ (a ** 0)
    BY <1>7, <1>8
  <2>2. PICK e \in Symbols : e = Dot(s[r], y, w)
    BY <1>1, Dots
  <2>3. e ++ (a ** 0) = e
    BY Products, Additions
  <2> QED
    BY <2>1, <2>2, <2>3
<1>9. Dot(n[c], y, w) = 0 <=> d = 0
  <2>1. i ** d = 0 <=> d = 0
    BY <1>4, ZeroProducts
  <2> QED
    BY <1>6, <2>1
<1>10. ASSUME Solves(s, y, w), NEW r \in 1..Parity PROVE Dot(n[r], y, w) = 0
  <2>1. \A q \in 1..Parity : Dot(s[q], y, w) = 0
    BY <1>10 DEF Solves
  <2> HIDE DEF Dot
  <2> QED
    BY <1>5, <1>8, <1>9, <2>1
<1>11. ASSUME Solves(n, y, w), NEW r \in 1..Parity PROVE Dot(s[r], y, w) = 0
  <2>1. \A q \in 1..Parity : Dot(n[q], y, w) = 0
    BY <1>11 DEF Solves
  <2> QED
    BY <1>5, <1>8, <1>9, <2>1
<1>12. Solves(n, y, w) <=> Solves(s, y, w)
  BY <1>10, <1>11 DEF Solves
<1> QED
  BY <1>12

LEMMA EliminatedIs ==
    ASSUME NEW w \in Nat, NEW m \in Matrices(w), NEW c \in 1..Parity, c \in 1..w, Pivots(m, c) # {}
    PROVE  \E p \in c..Parity : m[p][c] # 0 /\ Eliminated(m, c) = Swept(Swapped(m, c, p), c)
<1> DEFINE p == CHOOSE r \in Pivots(m, c) : \A q \in Pivots(m, c) : r <= q
<1>1. Pivots(m, c) \subseteq Nat
  BY DEF Pivots
<1>2. \E r \in Pivots(m, c) : \A q \in Pivots(m, c) : r <= q
  BY <1>1, LeastNumber
<1>3. p \in Pivots(m, c)
  BY <1>2
<1>4. Eliminated(m, c) = Swept(Swapped(m, c, p), c)
  BY DEF Eliminated, Swept
<1>5. p \in c..Parity /\ m[p][c] # 0
  BY <1>3 DEF Pivots
<1> QED
  BY <1>4, <1>5

SameColumns(m, k, l) == \A r \in 1..Parity : m[r][k] = m[r][l]

\* What one column of the elimination leaves as it was.
LEMMA Eliminations ==
    ASSUME NEW w \in Nat, NEW m \in Matrices(w), NEW c \in 1..Parity, c \in 1..w, Pivots(m, c) # {},
           UnitColumns(m, c - 1)
    PROVE  /\ Eliminated(m, c) \in Matrices(w)
           /\ UnitColumns(Eliminated(m, c), c)
           /\ \A y \in Rows(w) : Solves(Eliminated(m, c), y, w) <=> Solves(m, y, w)
           /\ \A k, l \in 1..w : SameColumns(m, k, l) => SameColumns(Eliminated(m, c), k, l)
<1>1. PICK p \in c..Parity : m[p][c] # 0 /\ Eliminated(m, c) = Swept(Swapped(m, c, p), c)
  BY EliminatedIs
<1>2. PICK s \in Matrices(w) : s = Swapped(m, c, p) /\ s[c] = m[p] /\ SameRows(s, m) /\ UnitColumns(s, c - 1)
  BY Swaps
<1>3. s[c][c] # 0
  BY <1>1, <1>2
<1>4. PICK n \in Matrices(w) : n = Swept(s, c) /\ SweptFrom(n, s, c, w)
  BY <1>3, Sweeps
<1>5. n = Eliminated(m, c)
  BY <1>1, <1>2, <1>4
<1>6. UnitColumns(n, c)
  BY <1>2, <1>3, <1>4, SweptColumns
<1>7. ASSUME NEW y \in Rows(w) PROVE Solves(n, y, w) <=> Solves(m, y, w)
  <2>1. Solves(n, y, w) <=> Solves(s, y, w)
    BY <1>3, <1>4, SweptSolves
  <2>2. Solves(s, y, w) <=> Solves(m, y, w)
    <3>1. ASSUME Solves(m, y, w), NEW r \in 1..Parity PROVE Dot(s[r], y, w) = 0
      <4>1. PICK q \in 1..Parity : s[r] = m[q]
        BY <1>2 DEF SameRows
      <4> QED
        BY <3>1, <4>1 DEF Solves
    <3>2. ASSUME Solves(s, y, w), NEW q \in 1..Parity PROVE Dot(m[q], y, w) = 0
      <4>1. PICK r \in 1..Parity : s[r] = m[q]
        BY <1>2 DEF SameRows
      <4> QED
        BY <3>2, <4>1 DEF Solves
    <3> QED
      BY <3>1, <3>2 DEF Solves
  <2> QED
    BY <2>1, <2>2
<1>8. ASSUME NEW k \in 1..w, NEW l \in 1..w, SameColumns(m, k, l), NEW r \in 1..Parity
      PROVE  n[r][k] = n[r][l]
  <2>1. \A q \in 1..Parity : s[q][k] = s[q][l]
    <3>1. ASSUME NEW q \in 1..Parity PROVE s[q][k] = s[q][l]
      <4>1. PICK j \in 1..Parity : s[q] = m[j]
        BY <1>2 DEF SameRows
      <4> QED
        BY <1>8, <4>1 DEF SameColumns
    <3> QED
      BY <3>1
  <2>2. n[c][k] = n[c][l]
    BY <1>4, <2>1 DEF SweptFrom
  <2> QED
    BY <1>4, <2>1, <2>2 DEF SweptFrom
<1>9. \A k, l \in 1..w : SameColumns(m, k, l) => SameColumns(n, k, l)
  BY <1>8 DEF SameColumns
<1> QED
  BY <1>5, <1>6, <1>7, <1>9

-----------------------------------------------------------------------------
(* Integrity: the system of the erasures.  The symbols that were sent      *)
(* solve it, and no column lacks a pivot unless a position was named       *)
(* twice: the rows are powers of the positions.                            *)

Words == [0..(N - 1) -> Symbols]

\* e different positions.
Different(erased, e) ==
    /\ e \in 1..Parity /\ erased \in [1..e -> 0..(N - 1)]
    /\ \A k, l \in 1..e : erased[k] = erased[l] => k = l

LEMMA CodewordsAre ==
    ASSUME NEW sent \in Codewords
    PROVE  sent \in Words /\ IsCodeword(sent)
<1>1. PICK data \in Messages, p \in [K..(N - 1) -> Symbols] :
          sent = [m \in 0..(N - 1) |-> IF m < K THEN data[m] ELSE p[m]]
  BY DEF Codewords
<1>2. N \in Nat /\ Parity \in Nat /\ Parity <= N - 1 /\ K = N - Parity
  BY FieldSize DEF K
<1>3. data \in [0..(K - 1) -> Symbols]
  BY IntegrityAssumption DEF IntegrityAssumption
<1>4. ASSUME NEW m \in 0..(N - 1) PROVE (IF m < K THEN data[m] ELSE p[m]) \in Symbols
  <2>1. m < K => m \in 0..(K - 1)
    BY <1>2
  <2>2. ~(m < K) => m \in K..(N - 1)
    BY <1>2
  <2> QED
    BY <1>3, <2>1, <2>2
<1>5. sent \in Words
  BY <1>1, <1>4 DEF Words
<1> QED
  BY <1>5 DEF Codewords

SyndromeTerms(word, j, S) ==
    [m \in 1..N |-> IF m - 1 \in S THEN word[m - 1] ** Alpha(j * (m - 1)) ELSE 0]

LEMMA Syndromes ==
    ASSUME NEW word \in Words, NEW j \in Nat, NEW S
    PROVE  /\ Valued(SyndromeTerms(word, j, S), N)
           /\ Syndrome(word, j, S) = SumTo(SyndromeTerms(word, j, S), N)
           /\ Syndrome(word, j, S) \in Symbols
<1>1. N \in Nat
  BY FieldSize
<1>2. ASSUME NEW m \in 1..N PROVE SyndromeTerms(word, j, S)[m] \in Symbols
  <2>1. m - 1 \in 0..(N - 1) /\ m - 1 \in Nat
    BY <1>1
  <2>2. j * (m - 1) \in Nat
    BY <2>1
  <2>3. word[m - 1] \in Symbols /\ Alpha(j * (m - 1)) \in Symbols /\ 0 \in Symbols
    BY <2>1, <2>2, Alphas, Additions DEF Words
  <2>4. word[m - 1] ** Alpha(j * (m - 1)) \in Symbols
    BY <2>3, Products
  <2> QED
    BY <2>3, <2>4 DEF SyndromeTerms
<1>3. Valued(SyndromeTerms(word, j, S), N)
  BY <1>2 DEF Valued
<1>4. Syndrome(word, j, S) = SumTo(SyndromeTerms(word, j, S), N)
  BY DEF Syndrome, SyndromeTerms
<1> QED
  BY <1>1, <1>3, <1>4, SumsInside

\* The positions that are not among the first n erased.
Beside(erased, n) == (0..(N - 1)) \ {erased[k] : k \in 1..n}

\* What the erased symbols add to a syndrome.
Parts(word, erased, j, e) == [k \in 1..e |-> Alpha(j * erased[k]) ** word[erased[k]]]

LEMMA SyndromeSplits ==
    ASSUME NEW word \in Words, NEW j \in Nat, NEW e, NEW erased, Different(erased, e)
    PROVE  /\ Valued(Parts(word, erased, j, e), e)
           /\ SumTo(Parts(word, erased, j, e), e) ++ Syndrome(word, j, Beside(erased, e))
              = Syndrome(word, j, 0..(N - 1))
<1>0. N \in Nat /\ e \in Nat /\ Parity \in Nat
  BY FieldSize DEF Different
<1>1. ASSUME NEW k \in 1..e
      PROVE  /\ erased[k] \in 0..(N - 1) /\ erased[k] \in Nat
             /\ Parts(word, erased, j, e)[k] = word[erased[k]] ** Alpha(j * erased[k])
             /\ Parts(word, erased, j, e)[k] \in Symbols
  <2>1. PICK p \in 0..(N - 1) : p = erased[k]
    BY DEF Different
  <2>2. p \in Nat /\ j * p \in Nat
    BY <1>0
  <2>3. word[p] \in Symbols /\ Alpha(j * p) \in Symbols
    BY <2>2, Alphas DEF Words
  <2>4. Alpha(j * p) ** word[p] = word[p] ** Alpha(j * p) /\ word[p] ** Alpha(j * p) \in Symbols
    BY <2>3, Products
  <2> QED
    BY <2>1, <2>2, <2>4 DEF Parts
<1>2. Valued(Parts(word, erased, j, e), e)
  BY <1>1 DEF Valued
<1> DEFINE f == Parts(word, erased, j, e)
           all == Syndrome(word, j, 0..(N - 1))
           T == {n \in Nat : n <= e => SumTo(f, n) ++ Syndrome(word, j, Beside(erased, n)) = all}
<1>3. 0 \in T
  <2>1. Beside(erased, 0) = 0..(N - 1)
    BY DEF Beside
  <2>2. all \in Symbols
    BY Syndromes
  <2>3. SumTo(f, 0) = 0
    BY SumOfNone
  <2> QED
    BY <2>1, <2>2, <2>3, Additions
<1>4. ASSUME NEW n \in Nat, n \in T PROVE n + 1 \in T
  <2> HIDE DEF f
  <2> SUFFICES ASSUME n + 1 <= e
               PROVE  SumTo(f, n + 1) ++ Syndrome(word, j, Beside(erased, n + 1)) = all
    OBVIOUS
  <2>1. n <= e /\ n + 1 \in 1..e /\ \A m \in 1..(n + 1) : m \in 1..e
    BY <1>0
  <2>2. Valued(f, n + 1)
    BY <1>1, <2>1 DEF Valued, f
  <2>3. PICK a \in Symbols : a = SumTo(f, n)
    BY <2>2, Sums
  <2>4. PICK b \in Symbols : b = f[n + 1] /\ b = word[erased[n + 1]] ** Alpha(j * erased[n + 1])
    BY <1>1, <2>1 DEF f
  <2>5. SumTo(f, n + 1) = a ++ b
    BY <2>2, <2>3, <2>4, Sums
  <2>6. PICK p \in 0..(N - 1) : p = erased[n + 1]
    BY <1>1, <2>1
  <2>7. p + 1 \in 1..N /\ (p + 1) - 1 = p
    BY <1>0
  <2>8. Beside(erased, n + 1) = Beside(erased, n) \ {p} /\ p \in Beside(erased, n)
    <3>1. \A k \in 1..n : k \in 1..e /\ k # n + 1 /\ k \in 1..(n + 1)
      BY <1>0, <2>1
    <3>2. \A k \in 1..n : erased[k] # p
      BY <2>1, <2>6, <3>1 DEF Different
    <3>3. \A k \in 1..(n + 1) : k \in 1..n \/ k = n + 1
      OBVIOUS
    <3>4. n + 1 \in 1..(n + 1)
      OBVIOUS
    <3>5. {erased[k] : k \in 1..(n + 1)} = {erased[k] : k \in 1..n} \cup {p}
      BY <2>6, <3>1, <3>3, <3>4
    <3> QED
      BY <3>2, <3>5 DEF Beside
  <2>9. PICK s \in Symbols : s = Syndrome(word, j, Beside(erased, n)) /\ s = SumTo(SyndromeTerms(word, j, Beside(erased, n)), N)
    BY Syndromes
  <2>10. PICK t \in Symbols : t = Syndrome(word, j, Beside(erased, n + 1)) /\ t = SumTo(SyndromeTerms(word, j, Beside(erased, n + 1)), N)
    BY Syndromes
  <2>11. s = t ++ b
    <3>1. PICK g : g = SyndromeTerms(word, j, Beside(erased, n)) /\ Valued(g, N)
      BY Syndromes
    <3>2. PICK h : h = SyndromeTerms(word, j, Beside(erased, n + 1)) /\ Valued(h, N)
      BY Syndromes
    <3>3. PICK q \in 1..N : q = p + 1
      BY <2>7
    <3>4. g[q] = b /\ h[q] = 0
      <4>1. q - 1 = p
        BY <2>7, <3>3
      <4>2. g[q] = IF q - 1 \in Beside(erased, n) THEN word[q - 1] ** Alpha(j * (q - 1)) ELSE 0
        BY <3>1 DEF SyndromeTerms
      <4>3. h[q] = IF q - 1 \in Beside(erased, n + 1) THEN word[q - 1] ** Alpha(j * (q - 1)) ELSE 0
        BY <3>2 DEF SyndromeTerms
      <4> QED
        BY <2>4, <2>6, <2>8, <4>1, <4>2, <4>3
    <3>5. ASSUME NEW m \in 1..N, m # q PROVE g[m] = h[m]
      <4>1. m - 1 # p
        BY <1>0, <3>3, <3>5
      <4> QED
        BY <2>8, <3>1, <3>2, <4>1 DEF SyndromeTerms
    <3>6. SumTo(g, N) ++ g[q] = SumTo(h, N) ++ h[q]
      BY <1>0, <3>1, <3>2, <3>5, OneApart
    <3>7. s ++ b = t
      BY <2>9, <2>10, <3>1, <3>2, <3>4, <3>6, Additions
    <3>8. (s ++ b) ++ b = s ++ (b ++ b) /\ b ++ b = 0 /\ s ++ 0 = s
      BY Additions
    <3> QED
      BY <3>7, <3>8
  <2>12. a ++ s = all
    BY <1>4, <2>1, <2>3, <2>9
  <2>13. (a ++ b) ++ t = a ++ (b ++ t) /\ b ++ t = t ++ b
    BY Additions
  <2> QED
    BY <2>5, <2>10, <2>11, <2>12, <2>13
<1> HIDE DEF f, all, T
<1>5. e \in T
  BY <1>0, <1>3, <1>4, AllNumbers
<1>6. SumTo(f, e) ++ Syndrome(word, j, Beside(erased, e)) = all
  BY <1>0, <1>5 DEF T
<1> QED
  BY <1>2, <1>6 DEF f, all

\* A word with e positions to decode; a position may be named twice.
Damaged(word, erased, e) ==
    /\ word \in Words
    /\ e \in 1..Parity /\ erased \in [1..e -> 0..(N - 1)] /\ Len(erased) = e

LEMMA Systems ==
    ASSUME NEW word, NEW erased, NEW e, Damaged(word, erased, e)
    PROVE  /\ System(word, erased) \in Matrices(e + 1)
           /\ \A j \in 1..Parity, k \in 1..e : System(word, erased)[j][k] = Alpha(j * erased[k])
           /\ \A j \in 1..Parity :
                  System(word, erased)[j][e + 1] = Syndrome(word, j, Beside(erased, e))
<1>0. N \in Nat /\ Parity \in Nat /\ e \in Nat
  BY FieldSize DEF Damaged
<1>1. DOMAIN erased = 1..e /\ Len(erased) = e /\ word \in Words
  BY DEF Damaged
<1>2. (0..(N - 1)) \ Range(erased) = Beside(erased, e)
  BY <1>1 DEF Range, Beside
<1>3. PICK entry : entry = [j \in 1..Parity |-> [k \in 1..(e + 1) |->
          IF k > e THEN Syndrome(word, j, Beside(erased, e)) ELSE Alpha(j * erased[k])]]
  OBVIOUS
<1>4. System(word, erased) = entry
  BY <1>1, <1>2, <1>3 DEF System
<1>5. ASSUME NEW j \in 1..Parity, NEW k \in 1..(e + 1)
      PROVE  (IF k > e THEN Syndrome(word, j, Beside(erased, e)) ELSE Alpha(j * erased[k])) \in Symbols
  <2>1. Syndrome(word, j, Beside(erased, e)) \in Symbols
    BY <1>0, <1>1, Syndromes
  <2>2. ASSUME ~(k > e) PROVE Alpha(j * erased[k]) \in Symbols
    <3>1. k \in 1..e
      BY <1>0, <2>2
    <3>2. PICK p \in Nat : p = erased[k]
      BY <1>0, <3>1 DEF Damaged
    <3>3. j * p \in Nat
      BY <1>0
    <3> QED
      BY <3>2, <3>3, Alphas
  <2> QED
    BY <2>1, <2>2
<1>6. System(word, erased) \in Matrices(e + 1)
  BY <1>3, <1>4, <1>5 DEF Matrices, Rows
<1>7. \A k \in 1..e : k \in 1..(e + 1) /\ ~(k > e)
  BY <1>0
<1>8. e + 1 \in 1..(e + 1) /\ e + 1 > e
  BY <1>0
<1> QED
  BY <1>3, <1>4, <1>6, <1>7, <1>8

Received(sent, erased, x) == [i \in 0..(N - 1) |-> IF i \in Range(erased) THEN x ELSE sent[i]]

\* The symbols that were sent at the erased positions, with 1 for the last column.
Sent(sent, erased, e) == [k \in 1..(e + 1) |-> IF k = e + 1 THEN One ELSE sent[erased[k]]]

LEMMA ReceivedIs ==
    ASSUME NEW sent \in Words, NEW x \in Symbols, NEW erased
    PROVE  Received(sent, erased, x) \in Words
BY DEF Words, Received

LEMMA SentSolves ==
    ASSUME NEW sent \in Codewords, NEW x \in Symbols, NEW e, NEW erased,
           Different(erased, e), Len(erased) = e
    PROVE  /\ Sent(sent, erased, e) \in Rows(e + 1)
           /\ Solves(System(Received(sent, erased, x), erased), Sent(sent, erased, e), e + 1)
<1>0. N \in Nat /\ Parity \in Nat /\ e \in Nat
  BY FieldSize DEF Different
<1>1. sent \in Words /\ IsCodeword(sent)
  BY CodewordsAre
<1>2. PICK word \in Words : word = Received(sent, erased, x)
  BY <1>1, ReceivedIs
<1>3. Damaged(word, erased, e)
  BY DEF Damaged, Different
<1>4. PICK m \in Matrices(e + 1) : m = System(word, erased)
  BY <1>3, Systems
<1>5. Sent(sent, erased, e) \in Rows(e + 1)
  <2>1. ASSUME NEW k \in 1..(e + 1), k # e + 1 PROVE sent[erased[k]] \in Symbols
    <3>1. k \in 1..e
      BY <1>0, <2>1
    <3>2. erased[k] \in 0..(N - 1)
      BY <3>1 DEF Different
    <3> QED
      BY <1>1, <3>2 DEF Words
  <2>2. One \in Symbols
    BY Products
  <2>3. \A k \in 1..(e + 1) : (IF k = e + 1 THEN One ELSE sent[erased[k]]) \in Symbols
    BY <2>1, <2>2
  <2> QED
    BY <2>3 DEF Sent, Rows
<1>6. PICK y \in Rows(e + 1) : y = Sent(sent, erased, e)
  BY <1>5
<1>7. ASSUME NEW j \in 1..Parity PROVE Dot(m[j], y, e + 1) = 0
  <2>0. j \in Nat /\ e + 1 \in Nat
    BY <1>0
  <2>1. PICK row \in Rows(e + 1) : row = m[j]
    BY DEF Matrices
  <2>2. PICK f : f = Terms(row, y, e + 1) /\ Valued(f, e + 1)
    BY <2>0, Dots
  <2>3. Dot(row, y, e + 1) = SumTo(f, e + 1)
    BY <2>2 DEF Dot
  <2>4. SumTo(f, e + 1) = SumTo(f, e) ++ f[e + 1]
    BY <1>0, <2>2, Sums
  <2>5. PICK g : g = Parts(sent, erased, j, e) /\ Valued(g, e)
    BY <1>1, <2>0, SyndromeSplits
  <2>6. ASSUME NEW k \in 1..e PROVE f[k] = g[k]
    <3>1. k \in 1..(e + 1) /\ k # e + 1
      BY <1>0
    <3>2. y[k] = sent[erased[k]]
      BY <1>6, <3>1 DEF Sent
    <3>3. row[k] = Alpha(j * erased[k])
      BY <1>3, <1>4, <2>1, Systems
    <3>4. f[k] = row[k] ** y[k]
      BY <2>2, <3>1 DEF Terms
    <3> QED
      BY <2>5, <3>2, <3>3, <3>4 DEF Parts
  <2>7. SumTo(f, e) = SumTo(g, e)
    BY <1>0, <2>6, SameSum
  <2>8. PICK z \in Symbols : z = Syndrome(sent, j, Beside(erased, e))
    BY <1>1, <2>0, Syndromes
  <2>9. Syndrome(word, j, Beside(erased, e)) = z
    <3>1. DOMAIN erased = 1..e
      BY DEF Different
    <3>2. ASSUME NEW q \in 1..N, q - 1 \in Beside(erased, e) PROVE word[q - 1] = sent[q - 1]
      <4>1. q - 1 \in 0..(N - 1) /\ q - 1 \notin Range(erased)
        BY <1>0, <3>1, <3>2 DEF Beside, Range
      <4> QED
        BY <1>2, <4>1 DEF Received
    <3>3. SyndromeTerms(word, j, Beside(erased, e)) = SyndromeTerms(sent, j, Beside(erased, e))
      BY <3>2 DEF SyndromeTerms
    <3> QED
      BY <1>1, <2>0, <2>8, <3>3, Syndromes
  <2>10. f[e + 1] = z
    <3>1. e + 1 \in 1..(e + 1)
      BY <1>0
    <3>2. f[e + 1] = row[e + 1] ** y[e + 1]
      BY <2>2, <3>1 DEF Terms
    <3>3. row[e + 1] = z
      BY <1>3, <1>4, <2>1, <2>9, Systems
    <3>4. y[e + 1] = One
      BY <1>6, <3>1 DEF Sent
    <3> QED
      BY <3>2, <3>3, <3>4, Products
  <2>11. SumTo(g, e) ++ z = Syndrome(sent, j, 0..(N - 1))
    BY <1>1, <2>0, <2>5, <2>8, SyndromeSplits
  <2>12. Syndrome(sent, j, 0..(N - 1)) = 0
    BY <1>1 DEF IsCodeword
  <2> QED
    BY <2>1, <2>3, <2>4, <2>7, <2>10, <2>11, <2>12
<1>8. Solves(m, y, e + 1)
  BY <1>7 DEF Solves
<1> QED
  BY <1>2, <1>4, <1>5, <1>6, <1>8

\* Sums over powers of the positions; weights that vanish at the first n.
Powers(erased, z, j, e) == [k \in 1..e |-> Alpha(j * erased[k]) ** z[k]]
Weighed(g, y, e) == [k \in 1..e |-> g[k] ** y[k]]

Vanishing(erased, y, e, g, n) ==
    /\ g \in Rows(e)
    /\ \A k \in 1..e : g[k] = 0 <=> k <= n
    /\ \A j \in 1..(Parity - n) : SumTo(Powers(erased, Weighed(g, y, e), j, e), e) = 0

LEMMA PowersInside ==
    ASSUME NEW e, NEW erased, Different(erased, e), NEW z \in Rows(e), NEW j \in Nat
    PROVE  Valued(Powers(erased, z, j, e), e)
<1>1. ASSUME NEW k \in 1..e PROVE Powers(erased, z, j, e)[k] \in Symbols
  <2>1. PICK p \in Nat : p = erased[k]
    BY FieldSize DEF Different
  <2>2. j * p \in Nat
    OBVIOUS
  <2>3. Alpha(j * p) \in Symbols /\ z[k] \in Symbols
    BY <2>2, Alphas DEF Rows
  <2>4. Alpha(j * p) ** z[k] \in Symbols
    BY <2>3, Products
  <2> QED
    BY <2>1, <2>4 DEF Powers
<1> QED
  BY <1>1 DEF Valued

LEMMA WeighedInside ==
    ASSUME NEW e, NEW g \in Rows(e), NEW y \in Rows(e)
    PROVE  Weighed(g, y, e) \in Rows(e)
<1>1. ASSUME NEW k \in 1..e PROVE g[k] ** y[k] \in Symbols
  <2>1. g[k] \in Symbols /\ y[k] \in Symbols
    BY DEF Rows
  <2> QED
    BY <2>1, Products
<1> QED
  BY <1>1 DEF Weighed, Rows

LEMMA VanishMore ==
    ASSUME NEW e, NEW erased, Different(erased, e), NEW y \in Rows(e), NEW n \in Nat, n < e,
           NEW g, Vanishing(erased, y, e, g, n)
    PROVE  \E h : Vanishing(erased, y, e, h, n + 1)
<1>0. N \in Nat /\ Parity \in Nat /\ e \in Nat /\ e <= Parity /\ n + 1 \in 1..e
  BY FieldSize DEF Different
<1>1. g \in Rows(e) /\ \A k \in 1..e : g[k] \in Symbols
  BY DEF Vanishing, Rows
<1>2. \A k \in 1..e : erased[k] \in 0..(N - 1) /\ erased[k] \in Nat /\ Alpha(erased[k]) \in Symbols
  <2>1. \A k \in 1..e : erased[k] \in 0..(N - 1)
    BY DEF Different
  <2>2. \A p \in 0..(N - 1) : p \in Nat
    BY <1>0
  <2> QED
    BY <2>1, <2>2, Alphas
<1>3. PICK b \in Symbols : b = Alpha(erased[n + 1])
  BY <1>0, <1>2
<1>4. PICK h : h = [k \in 1..e |-> g[k] ** (Alpha(erased[k]) ++ b)]
  OBVIOUS
<1>5. ASSUME NEW k \in 1..e PROVE h[k] \in Symbols /\ (h[k] = 0 <=> k <= n + 1)
  <2>1. PICK a \in Symbols : a = Alpha(erased[k])
    BY <1>2
  <2>2. PICK c \in Symbols : c = g[k] /\ (c = 0 <=> k <= n)
    BY <1>1 DEF Vanishing
  <2>3. h[k] = c ** (a ++ b) /\ a ++ b \in Symbols
    BY <1>4, <2>1, <2>2, Additions
  <2>4. a ++ b = 0 <=> k = n + 1
    <3>1. CASE k = n + 1
      BY <1>3, <2>1, <3>1, Additions
    <3>2. CASE k # n + 1
      <4>1. erased[k] # erased[n + 1]
        BY <1>0, <3>2 DEF Different
      <4> QED
        BY <1>0, <1>2, <1>3, <2>1, <3>2, <4>1, PositionsTell
    <3> QED
      BY <3>1, <3>2
  <2>5. k <= n + 1 <=> k <= n \/ k = n + 1
    BY <1>0
  <2>6. c ** (a ++ b) \in Symbols /\ (c ** (a ++ b) = 0 <=> c = 0 \/ a ++ b = 0)
    <3>1. PICK d \in Symbols : d = a ++ b
      BY <2>3
    <3> QED
      BY <3>1, Products, ZeroProducts
  <2> QED
    BY <2>2, <2>3, <2>4, <2>5, <2>6
<1>6. h \in Rows(e)
  BY <1>4, <1>5 DEF Rows
<1>7. ASSUME NEW j \in 1..(Parity - (n + 1)) PROVE SumTo(Powers(erased, Weighed(h, y, e), j, e), e) = 0
  <2>1. j \in Nat /\ j + 1 \in Nat /\ j \in 1..(Parity - n) /\ j + 1 \in 1..(Parity - n)
    BY <1>0
  <2>2. PICK u \in Rows(e) : u = Weighed(g, y, e)
    BY <1>1, WeighedInside
  <2>3. PICK f : f = Powers(erased, u, j + 1, e) /\ Valued(f, e) /\ SumTo(f, e) = 0
    BY <2>1, <2>2, PowersInside DEF Vanishing
  <2>4. PICK t : t = Powers(erased, u, j, e) /\ Valued(t, e) /\ SumTo(t, e) = 0
    BY <2>1, <2>2, PowersInside DEF Vanishing
  <2>5. PICK s : s = Powers(erased, Weighed(h, y, e), j, e)
    OBVIOUS
  <2>6. ASSUME NEW k \in 1..e PROVE s[k] = (One ** f[k]) ++ (b ** t[k])
    <3>1. PICK p \in Nat : p = erased[k]
      BY <1>2
    <3>2. j * p \in Nat /\ (j + 1) * p = j * p + p
      BY <2>1
    <3>3. PICK q \in Symbols : q = Alpha(j * p)
      BY <3>2, Alphas
    <3>4. PICK a \in Symbols : a = Alpha(p)
      BY Alphas
    <3>5. PICK v \in Symbols : v = u[k] /\ v = g[k] ** y[k]
      BY <2>2 DEF Rows, Weighed
    <3>6. f[k] = (q ** a) ** v /\ t[k] = q ** v
      <4>1. Alpha((j + 1) * p) = q ** a
        BY <3>2, <3>3, <3>4, AlphaSums
      <4> QED
        BY <2>3, <2>4, <3>1, <3>3, <3>5, <4>1 DEF Powers
    <3>7. s[k] = q ** ((g[k] ** (a ++ b)) ** y[k])
      BY <1>4, <2>5, <3>1, <3>3, <3>4 DEF Powers, Weighed
    <3>8. PICK c \in Symbols : c = g[k]
      BY <1>1
    <3>9. PICK z \in Symbols : z = y[k]
      BY DEF Rows
    <3>10. PICK ab \in Symbols : ab = a ++ b
      BY Additions
    <3>11. q ** ((c ** ab) ** z) = (q ** ab) ** v
      <4>1. (c ** ab) ** z = (ab ** c) ** z /\ (ab ** c) ** z = ab ** (c ** z)
        BY Products
      <4>2. q ** (ab ** v) = (q ** ab) ** v
        BY Products
      <4> QED
        BY <3>5, <3>8, <3>9, <4>1, <4>2
    <3>12. (q ** ab) ** v = ((q ** a) ** v) ++ ((q ** b) ** v)
      <4>1. q ** ab = (q ** a) ++ (q ** b) /\ q ** a \in Symbols /\ q ** b \in Symbols
        BY <3>10, Products
      <4> QED
        BY <4>1, Products
    <3>13. (q ** b) ** v = b ** (q ** v)
      <4>1. q ** b = b ** q /\ (b ** q) ** v = b ** (q ** v)
        BY Products
      <4> QED
        BY <4>1
    <3>14. One ** ((q ** a) ** v) = (q ** a) ** v
      <4>1. q ** a \in Symbols
        BY Products
      <4>2. (q ** a) ** v \in Symbols
        BY <4>1, Products
      <4> QED
        BY <4>2, Products
    <3> QED
      BY <3>6, <3>7, <3>8, <3>9, <3>10, <3>11, <3>12, <3>13, <3>14
  <2>7. Combines(s, One, f, b, t, e)
    BY <2>6 DEF Combines
  <2>8. One \in Symbols
    BY Products
  <2>9. SumTo(s, e) = (One ** SumTo(f, e)) ++ (b ** SumTo(t, e))
    BY <1>0, <2>3, <2>4, <2>7, <2>8, LinearSums
  <2>10. (One ** 0) ++ (b ** 0) = 0
    BY <2>8, Products, Additions
  <2> QED
    BY <2>3, <2>4, <2>5, <2>9, <2>10
<1>8. Vanishing(erased, y, e, h, n + 1)
  BY <1>5, <1>6, <1>7 DEF Vanishing
<1> QED
  BY <1>8

\* The columns of the system are independent.
LEMMA Independent ==
    ASSUME NEW e, NEW erased, Different(erased, e), NEW y \in Rows(e), NEW c \in 1..e,
           y[c] = One, \A k \in 1..e : k > c => y[k] = 0,
           \A j \in 1..Parity : SumTo(Powers(erased, y, j, e), e) = 0
    PROVE  FALSE
<1>0. N \in Nat /\ Parity \in Nat /\ e \in Nat /\ e <= Parity /\ c \in Nat /\ c >= 1 /\ c <= e
  BY FieldSize DEF Different
<1> DEFINE T == {n \in Nat : n < c => \E g : Vanishing(erased, y, e, g, n)}
<1>1. 0 \in T
  <2>1. PICK g : g = [k \in 1..e |-> One]
    OBVIOUS
  <2>2. g \in Rows(e) /\ \A k \in 1..e : g[k] = 0 <=> k <= 0
    BY <1>0, <2>1, Products DEF Rows
  <2>3. Weighed(g, y, e) = y
    <3>1. \A k \in 1..e : g[k] ** y[k] = y[k]
      BY <2>1, Products DEF Rows
    <3>2. Weighed(g, y, e) = [k \in 1..e |-> y[k]]
      BY <3>1 DEF Weighed
    <3> QED
      BY <3>2 DEF Rows
  <2>4. Parity - 0 = Parity
    BY <1>0
  <2>5. Vanishing(erased, y, e, g, 0)
    BY <2>2, <2>3, <2>4 DEF Vanishing
  <2> QED
    BY <2>5
<1>2. ASSUME NEW n \in Nat, n \in T PROVE n + 1 \in T
  <2> SUFFICES ASSUME n + 1 < c PROVE \E h : Vanishing(erased, y, e, h, n + 1)
    OBVIOUS
  <2>1. n < c /\ n < e
    BY <1>0
  <2>2. PICK g : Vanishing(erased, y, e, g, n)
    BY <1>2, <2>1
  <2> QED
    BY <2>1, <2>2, VanishMore
<1> HIDE DEF T
<1>3. PICK n \in Nat : n = c - 1 /\ n \in T /\ n < c
  <2>1. c - 1 \in Nat /\ c - 1 < c
    BY <1>0
  <2> QED
    BY <1>1, <1>2, <2>1, AllNumbers
<1>4. PICK g : Vanishing(erased, y, e, g, n)
  BY <1>3 DEF T
<1>5. PICK u \in Rows(e) : u = Weighed(g, y, e)
  BY <1>4, WeighedInside DEF Vanishing
<1>6. 1 \in 1..(Parity - n) /\ 1 \in Nat
  BY <1>0, <1>3
<1>7. PICK f : f = Powers(erased, u, 1, e) /\ Valued(f, e) /\ SumTo(f, e) = 0
  BY <1>4, <1>5, <1>6, PowersInside DEF Vanishing
<1>8. ASSUME NEW k \in 1..e PROVE f[k] = 0 <=> k # c
  <2>1. PICK p \in Nat : p = erased[k]
    BY <1>0 DEF Different
  <2>2. 1 * p = p
    OBVIOUS
  <2>3. PICK a \in Symbols : a = Alpha(1 * p) /\ a # 0
    BY <2>2, Alphas
  <2>4. PICK b \in Symbols : b = g[k] /\ (b = 0 <=> k <= n)
    BY <1>4 DEF Rows, Vanishing
  <2>5. PICK z \in Symbols : z = y[k]
    BY DEF Rows
  <2>6. f[k] = a ** (b ** z)
    BY <1>5, <1>7, <2>1, <2>3, <2>4, <2>5 DEF Powers, Weighed
  <2>7. b ** z \in Symbols
    BY Products
  <2>8. f[k] = 0 <=> b = 0 \/ z = 0
    <3>1. PICK v \in Symbols : v = b ** z
      BY <2>7
    <3>2. v = 0 <=> b = 0 \/ z = 0
      BY <3>1, ZeroProducts
    <3>3. a ** v = 0 <=> v = 0
      BY <2>3, ZeroProducts
    <3> QED
      BY <2>6, <3>1, <3>2, <3>3
  <2>9. k = c => z # 0
    BY <2>5, Products
  <2>10. k > c => z = 0
    BY <2>5
  <2>11. k <= n <=> k < c
    BY <1>0, <1>3
  <2>12. k < c \/ k = c \/ k > c
    BY <1>0
  <2> QED
    BY <2>4, <2>8, <2>9, <2>10, <2>11, <2>12
<1>9. SumTo(f, e) = f[c]
  BY <1>0, <1>7, <1>8, OneTerm
<1> QED
  BY <1>7, <1>8, <1>9

LEMMA PivotExists ==
    ASSUME NEW word, NEW erased, NEW e, Damaged(word, erased, e), Different(erased, e),
           NEW m \in Matrices(e + 1), NEW c \in 1..e, UnitColumns(m, c - 1),
           \A y \in Rows(e + 1) : Solves(m, y, e + 1) <=> Solves(System(word, erased), y, e + 1)
    PROVE  Pivots(m, c) # {}
<1> SUFFICES ASSUME Pivots(m, c) = {} PROVE FALSE
  OBVIOUS
<1>0. N \in Nat /\ Parity \in Nat /\ e \in Nat /\ e <= Parity /\ c \in Nat /\ c >= 1 /\ c <= e /\ c \in 1..Parity
  BY FieldSize DEF Different
<1>1. \A r \in 1..Parity, k \in 1..(e + 1) : m[r][k] \in Symbols
  BY DEF Matrices, Rows
<1>2. PICK y : y = [k \in 1..(e + 1) |-> IF k < c THEN m[k][c] ELSE IF k = c THEN One ELSE 0]
  OBVIOUS
<1>3. y \in Rows(e + 1)
  <2>1. ASSUME NEW k \in 1..(e + 1), k < c PROVE m[k][c] \in Symbols
    <3>1. k \in 1..Parity /\ c \in 1..(e + 1)
      BY <1>0, <2>1
    <3> QED
      BY <1>1, <3>1
  <2>2. One \in Symbols /\ 0 \in Symbols
    BY Products, Additions
  <2>3. \A k \in 1..(e + 1) : (IF k < c THEN m[k][c] ELSE IF k = c THEN One ELSE 0) \in Symbols
    BY <2>1, <2>2
  <2> QED
    BY <1>2, <2>3 DEF Rows
<1>4. \A r \in 1..Parity, k \in 1..(e + 1) : k < c => m[r][k] = IF r = k THEN One ELSE 0
  <2>1. \A k \in 1..(e + 1) : k < c => k \in 1..(c - 1)
    BY <1>0
  <2> QED
    BY <2>1 DEF UnitColumns
<1>5. ASSUME NEW r \in 1..Parity, ~(r < c) PROVE m[r][c] = 0
  <2>1. r \in c..Parity
    BY <1>0, <1>5
  <2> QED
    BY <2>1 DEF Pivots
<1>6. ASSUME NEW r \in 1..Parity PROVE Dot(m[r], y, e + 1) = 0
  <2>1. PICK row \in Rows(e + 1) : row = m[r]
    BY DEF Matrices
  <2>2. PICK f : f = Terms(row, y, e + 1) /\ Valued(f, e + 1) /\ Dot(row, y, e + 1) = SumTo(f, e + 1)
    BY <1>0, <1>3, Dots DEF Dot
  <2>3. PICK a \in Symbols : a = m[r][c]
    BY <1>0, <1>1
  <2>4. c \in 1..(e + 1) /\ e + 1 \in Nat
    BY <1>0
  <2>5. ASSUME NEW k \in 1..(e + 1)
        PROVE  /\ k # r /\ k # c => f[k] = 0
               /\ k = c => f[k] = a
               /\ k = r /\ r < c => f[k] = a
    <3>1. PICK x \in Symbols : x = row[k]
      BY DEF Rows
    <3>2. PICK z \in Symbols : z = y[k]
      BY <1>3 DEF Rows
    <3>3. f[k] = x ** z
      BY <2>2, <3>1, <3>2 DEF Terms
    <3>4. ASSUME k > c PROVE z = 0
      BY <1>0, <1>2, <3>2, <3>4
    <3>5. k = c => z = One /\ x = a
      BY <1>2, <2>1, <2>3, <3>1, <3>2
    <3>6. k < c => x = IF r = k THEN One ELSE 0
      BY <1>4, <2>1, <3>1
    <3>7. k < c /\ k = r => z = a
      BY <1>2, <2>3, <3>2
    <3>8. k < c \/ k = c \/ k > c
      BY <1>0
    <3>9. One ** z = z /\ x ** One = x /\ 0 ** z = 0 /\ x ** 0 = 0
      BY Products
    <3> QED
      BY <3>3, <3>4, <3>5, <3>6, <3>7, <3>8, <3>9
  <2>6. CASE r < c
    <3>1. PICK q \in 1..(e + 1) : q = r
      BY <1>0, <2>6
    <3>2. q # c /\ f[q] = a /\ f[c] = a
      BY <1>0, <2>4, <2>5, <2>6, <3>1
    <3>3. \A k \in 1..(e + 1) : k # q /\ k # c => f[k] = 0
      BY <2>5, <3>1
    <3>4. SumTo(f, e + 1) = f[q] ++ f[c]
      BY <2>2, <2>4, <3>2, <3>3, TwoTerms
    <3> QED
      BY <2>1, <2>2, <3>2, <3>4, Additions
  <2>7. CASE ~(r < c)
    <3>1. a = 0
      BY <1>5, <2>3, <2>7
    <3>2. \A k \in 1..(e + 1) : f[k] = 0
      <4>1. ASSUME NEW k \in 1..(e + 1) PROVE f[k] = 0
        <5>1. CASE k = c
          BY <2>5, <3>1, <5>1
        <5>2. CASE k # c /\ k # r
          BY <2>5, <5>2
        <5>3. CASE k # c /\ k = r
          <6>1. k > c
            BY <1>0, <2>7, <5>3
          <6>2. y[k] = 0 /\ row[k] \in Symbols
            BY <1>0, <1>2, <6>1 DEF Rows
          <6> QED
            BY <2>2, <6>2, Products DEF Terms
        <5> QED
          BY <5>1, <5>2, <5>3
      <4> QED
        BY <4>1
    <3> QED
      BY <2>1, <2>2, <2>4, <3>2, NoTerms
  <2> QED
    BY <2>6, <2>7
<1>7. Solves(m, y, e + 1)
  BY <1>6 DEF Solves
<1>8. Solves(System(word, erased), y, e + 1)
  BY <1>3, <1>7
<1>9. PICK z \in Rows(e) : z = [k \in 1..e |-> y[k]]
  <2>1. \A k \in 1..e : k \in 1..(e + 1)
    BY <1>0
  <2>2. [k \in 1..e |-> y[k]] \in Rows(e)
    BY <1>3, <2>1 DEF Rows
  <2> QED
    BY <2>2
<1>10. z[c] = One /\ \A k \in 1..e : k > c => z[k] = 0
  BY <1>0, <1>2, <1>9
<1>11. ASSUME NEW j \in 1..Parity PROVE SumTo(Powers(erased, z, j, e), e) = 0
  <2>0. j \in Nat /\ e + 1 \in Nat
    BY <1>0
  <2>1. PICK s \in Matrices(e + 1) : s = System(word, erased)
    BY Systems
  <2>2. PICK row \in Rows(e + 1) : row = s[j]
    BY DEF Matrices
  <2>3. PICK f : f = Terms(row, y, e + 1) /\ Valued(f, e + 1) /\ SumTo(f, e + 1) = 0
    <3>1. Dot(row, y, e + 1) = 0
      BY <1>8, <2>1, <2>2 DEF Solves
    <3> QED
      BY <1>3, <2>0, <3>1, Dots DEF Dot
  <2>4. SumTo(f, e + 1) = SumTo(f, e) ++ f[e + 1]
    BY <1>0, <2>3, Sums
  <2>5. f[e + 1] = 0
    <3>1. e + 1 \in 1..(e + 1) /\ ~(e + 1 < c) /\ e + 1 # c
      BY <1>0
    <3>2. y[e + 1] = 0 /\ row[e + 1] \in Symbols
      BY <1>2, <3>1 DEF Rows
    <3> QED
      BY <2>3, <3>1, <3>2, Products DEF Terms
  <2>6. ASSUME NEW k \in 1..e PROVE f[k] = Powers(erased, z, j, e)[k]
    <3>1. k \in 1..(e + 1)
      BY <1>0
    <3>2. row[k] = Alpha(j * erased[k])
      BY <2>1, <2>2, Systems
    <3> QED
      BY <1>9, <2>3, <3>1, <3>2 DEF Terms, Powers
  <2>7. SumTo(f, e) = SumTo(Powers(erased, z, j, e), e)
    BY <1>0, <2>6, SameSum
  <2>8. SumTo(f, e) \in Symbols
    BY <1>0, <2>3, Sums
  <2> QED
    BY <2>3, <2>4, <2>5, <2>7, <2>8, Additions
<1> QED
  BY <1>10, <1>11, Independent

-----------------------------------------------------------------------------
(* Integrity: a decoder at work.  Between two columns its matrix has the   *)
(* solutions of the system it began with, and the columns done are those   *)
(* of the unit matrix.                                                     *)

Jobs ==
    {[sent |-> sent, word |-> Received(sent, erased, x), erased |-> erased] :
        sent \in Codewords, erased \in Erasures, x \in Noise}

SameSolutions(m, n, w) == \A y \in Rows(w) : Solves(m, y, w) <=> Solves(n, y, w)

Reduced(job, m, c) ==
    LET e == Len(job.erased) IN
    /\ m \in Matrices(e + 1)
    /\ UnitColumns(m, c)
    /\ \A k, l \in 1..e : job.erased[k] = job.erased[l] => SameColumns(m, k, l)
    /\ SameSolutions(m, System(job.word, job.erased), e + 1)

RepairInv ==
    /\ blocks \in Seq(Leaves)
    /\ decoding \in Jobs \cup {NotDecoding}
    /\ decoding = NotDecoding => col = 0
    /\ decoding # NotDecoding => col \in 0..Len(decoding.erased) /\ Reduced(decoding, aug, col)

\* What a job is about.
JobOf(job, sent, x, e) ==
    /\ sent \in Codewords /\ x \in Symbols
    /\ job.sent = sent /\ job.word = Received(sent, job.erased, x)
    /\ e = Len(job.erased) /\ Damaged(job.word, job.erased, e)

LEMMA JobsAre ==
    ASSUME NEW job \in Jobs
    PROVE  \E sent, x, e : JobOf(job, sent, x, e)
<1>0. N \in Nat /\ Parity \in Nat
  BY FieldSize
<1>1. PICK sent \in Codewords, erased \in Erasures, x \in Noise :
          job = [sent |-> sent, word |-> Received(sent, erased, x), erased |-> erased]
  BY DEF Jobs
<1>2. PICK e \in 1..Parity : erased \in [1..e -> Places]
  BY DEF Erasures
<1>3. erased \in [1..e -> 0..(N - 1)] /\ x \in Symbols
  BY <1>2, IntegrityAssumption DEF IntegrityAssumption
<1>4. Len(erased) = e
  <2>1. e \in Nat
    BY <1>0
  <2> QED
    BY <1>3, <2>1
<1>5. PICK word \in Words : word = Received(sent, erased, x)
  BY <1>3, CodewordsAre, ReceivedIs
<1>6. Damaged(word, erased, e)
  BY <1>3, <1>4 DEF Damaged
<1>7. job.sent = sent /\ job.word = word /\ job.erased = erased
  BY <1>1, <1>5
<1>8. JobOf(job, sent, x, e)
  BY <1>3, <1>4, <1>5, <1>6, <1>7 DEF JobOf
<1> QED
  BY <1>8

LEMMA JobBegins ==
    ASSUME NEW job \in Jobs
    PROVE  Reduced(job, System(job.word, job.erased), 0)
<1>1. PICK sent, x, e : JobOf(job, sent, x, e)
  BY JobsAre
<1>2. PICK m \in Matrices(e + 1) : m = System(job.word, job.erased)
  BY <1>1, Systems DEF JobOf
<1>3. UnitColumns(m, 0)
  BY DEF UnitColumns
<1>4. ASSUME NEW k \in 1..e, NEW l \in 1..e, job.erased[k] = job.erased[l] PROVE SameColumns(m, k, l)
  <2>1. \A r \in 1..Parity : m[r][k] = Alpha(r * job.erased[k]) /\ m[r][l] = Alpha(r * job.erased[l])
    BY <1>1, <1>2, Systems DEF JobOf
  <2> QED
    BY <1>4, <2>1 DEF SameColumns
<1>5. SameSolutions(m, m, e + 1)
  BY DEF SameSolutions
<1> QED
  BY <1>1, <1>2, <1>3, <1>4, <1>5 DEF JobOf, Reduced

LEMMA JobGoesOn ==
    ASSUME NEW job \in Jobs, NEW m, NEW c \in Nat, c < Len(job.erased), Reduced(job, m, c), Pivots(m, c + 1) # {}
    PROVE  Reduced(job, Eliminated(m, c + 1), c + 1)
<1>1. PICK sent, x, e : JobOf(job, sent, x, e)
  BY JobsAre
<1>2. e = Len(job.erased) /\ e \in Nat /\ e <= Parity /\ Parity \in Nat /\ e + 1 \in Nat
  BY <1>1, FieldSize DEF JobOf, Damaged
<1>3. PICK d : d = c + 1 /\ d \in 1..Parity /\ d \in 1..(e + 1) /\ d - 1 = c
  BY <1>2
<1>4. /\ m \in Matrices(e + 1) /\ UnitColumns(m, d - 1)
      /\ \A k, l \in 1..e : job.erased[k] = job.erased[l] => SameColumns(m, k, l)
      /\ SameSolutions(m, System(job.word, job.erased), e + 1)
  BY <1>2, <1>3 DEF Reduced
<1>5. Pivots(m, d) # {}
  BY <1>3
<1>6. PICK n \in Matrices(e + 1) : n = Eliminated(m, d)
  BY <1>2, <1>3, <1>4, <1>5, Eliminations
<1>7. UnitColumns(n, d)
  BY <1>2, <1>3, <1>4, <1>5, <1>6, Eliminations
<1>8. SameSolutions(n, m, e + 1)
  BY <1>2, <1>3, <1>4, <1>5, <1>6, Eliminations DEF SameSolutions
<1>9. SameSolutions(n, System(job.word, job.erased), e + 1)
  BY <1>4, <1>8 DEF SameSolutions
<1>10. ASSUME NEW k \in 1..e, NEW l \in 1..e, job.erased[k] = job.erased[l] PROVE SameColumns(n, k, l)
  <2>1. k \in 1..(e + 1) /\ l \in 1..(e + 1)
    BY <1>2
  <2>2. SameColumns(m, k, l)
    BY <1>4, <1>10
  <2> QED
    BY <1>2, <1>3, <1>4, <1>5, <1>6, <2>1, <2>2, Eliminations
<1> QED
  BY <1>2, <1>3, <1>6, <1>7, <1>9, <1>10 DEF Reduced

\* The decoder gives up a job only if a position is named twice.
LEMMA JobHasPivot ==
    ASSUME NEW job \in Jobs, NEW m, NEW c \in Nat, c < Len(job.erased), Reduced(job, m, c), IsInjective(job.erased)
    PROVE  Pivots(m, c + 1) # {}
<1>1. PICK sent, x, e : JobOf(job, sent, x, e)
  BY JobsAre
<1>2. e = Len(job.erased) /\ e \in Nat
  BY <1>1, FieldSize DEF JobOf, Damaged
<1>3. PICK d \in 1..e : d = c + 1 /\ d - 1 = c
  BY <1>2
<1>4. Different(job.erased, e)
  BY <1>1 DEF JobOf, Damaged, Different, IsInjective
<1>5. m \in Matrices(e + 1) /\ UnitColumns(m, d - 1)
      /\ SameSolutions(m, System(job.word, job.erased), e + 1)
  BY <1>2, <1>3 DEF Reduced
<1>6. Pivots(m, d) # {}
  BY <1>1, <1>4, <1>5, PivotExists DEF JobOf, SameSolutions
<1> QED
  BY <1>3, <1>6

\* In the end each row holds the symbol of its position.
LEMMA JobEnds ==
    ASSUME NEW job \in Jobs, NEW m, Reduced(job, m, Len(job.erased)), NEW k \in DOMAIN job.erased
    PROVE  m[k][Len(job.erased) + 1] = job.sent[job.erased[k]]
<1>1. PICK sent, x, e : JobOf(job, sent, x, e)
  BY JobsAre
<1>2. e = Len(job.erased) /\ e \in Nat /\ e <= Parity /\ Parity \in Nat /\ e + 1 \in Nat /\ k \in 1..e
  BY <1>1, FieldSize DEF JobOf, Damaged
<1>3. /\ m \in Matrices(e + 1) /\ UnitColumns(m, e)
      /\ \A i, j \in 1..e : job.erased[i] = job.erased[j] => SameColumns(m, i, j)
      /\ SameSolutions(m, System(job.word, job.erased), e + 1)
  BY <1>2 DEF Reduced
<1>4. ASSUME NEW i \in 1..e, NEW j \in 1..e, job.erased[i] = job.erased[j] PROVE i = j
  <2>1. i \in 1..Parity /\ m[i][i] = m[i][j]
    BY <1>2, <1>3, <1>4 DEF SameColumns
  <2>2. m[i][i] = One /\ m[i][j] = IF i = j THEN One ELSE 0
    BY <1>3, <2>1 DEF UnitColumns
  <2> QED
    BY <2>1, <2>2, Products
<1>5. Different(job.erased, e)
  BY <1>1, <1>4 DEF JobOf, Damaged, Different
<1>6. PICK y \in Rows(e + 1) : y = Sent(sent, job.erased, e) /\ Solves(m, y, e + 1)
  <2>1. job.word = Received(sent, job.erased, x) /\ sent \in Codewords /\ x \in Symbols /\ Len(job.erased) = e
    BY <1>1 DEF JobOf
  <2>2. Sent(sent, job.erased, e) \in Rows(e + 1)
    BY <1>5, <2>1, SentSolves
  <2>3. Solves(System(job.word, job.erased), Sent(sent, job.erased, e), e + 1)
    BY <1>5, <2>1, SentSolves
  <2> QED
    BY <1>3, <2>2, <2>3 DEF SameSolutions
<1>7. k \in 1..Parity /\ k \in 1..(e + 1) /\ e + 1 \in 1..(e + 1) /\ k # e + 1
  BY <1>2
<1>8. PICK row \in Rows(e + 1) : row = m[k]
  BY <1>3, <1>7 DEF Matrices
<1>9. PICK f : f = Terms(row, y, e + 1) /\ Valued(f, e + 1) /\ SumTo(f, e + 1) = 0
  <2>1. Dot(row, y, e + 1) = 0
    BY <1>6, <1>7, <1>8 DEF Solves
  <2> QED
    BY <1>2, <2>1, Dots DEF Dot
<1>10. y[k] = sent[job.erased[k]] /\ y[e + 1] = One
  BY <1>6, <1>7 DEF Sent
<1>11. PICK a \in Symbols : a = y[k]
  BY <1>7 DEF Rows
<1>12. PICK b \in Symbols : b = row[e + 1]
  BY <1>7 DEF Rows
<1>13. f[k] = a /\ f[e + 1] = b
  <2>1. row[k] = One
    BY <1>2, <1>3, <1>7, <1>8 DEF UnitColumns
  <2> QED
    BY <1>7, <1>9, <1>10, <1>11, <1>12, <2>1, Products DEF Terms
<1>14. ASSUME NEW i \in 1..(e + 1), i # k, i # e + 1 PROVE f[i] = 0
  <2>1. i \in 1..e
    BY <1>2, <1>14
  <2>2. row[i] = 0 /\ y[i] \in Symbols
    BY <1>3, <1>7, <1>8, <1>14, <2>1 DEF UnitColumns, Rows
  <2> QED
    BY <1>9, <2>2, Products DEF Terms
<1>15. a ++ b = 0
  BY <1>2, <1>7, <1>9, <1>13, <1>14, TwoTerms
<1>16. (a ++ b) ++ b = a ++ (b ++ b) /\ b ++ b = 0 /\ a ++ 0 = a /\ 0 ++ b = b
  BY Additions
<1>17. b = a
  BY <1>15, <1>16
<1> QED
  BY <1>1, <1>2, <1>8, <1>10, <1>11, <1>12, <1>17 DEF JobOf

-----------------------------------------------------------------------------
(* The invariant. *)

LEMMA RepairInvInit == RepairInit => RepairInv
BY DEF RepairInit, RepairInv

LEMMA AddBlockKeeps == ASSUME RepairInv, NEW leaf \in Leaves, AddBlock(leaf) PROVE RepairInv'
<1>1. blocks' \in Seq(Leaves)
  BY DEF RepairInv, AddBlock
<1> QED
  BY <1>1 DEF RepairInv, AddBlock

LEMMA BuildRepairs == ASSUME RepairInv, NEW data \in Messages, Build(data) PROVE RepairInv'
<1>1. blocks' \in Seq(Leaves)
  BY DEF Build
<1> QED
  BY <1>1 DEF RepairInv, Build

LEMMA DecodeKeeps ==
    ASSUME RepairInv, NEW sent \in Codewords, NEW erased \in Erasures, NEW x \in Noise, Decode(sent, erased, x)
    PROVE  RepairInv'
<1>1. blocks' = blocks /\ col' = col /\ col = 0 /\ blocks \in Seq(Leaves)
  BY DEF RepairInv, Decode
<1>2. PICK word : word = Received(sent, erased, x)
  OBVIOUS
<1>3. decoding' = [sent |-> sent, word |-> word, erased |-> erased] /\ aug' = System(word, erased)
  BY <1>2 DEF Decode, Received
<1>4. decoding' \in Jobs
  BY <1>2, <1>3 DEF Jobs
<1>5. aug' = System(decoding'.word, decoding'.erased)
  BY <1>3
<1>6. PICK job \in Jobs : job = decoding'
  BY <1>4
<1>7. Reduced(job, aug', 0)
  BY <1>5, <1>6, JobBegins
<1>8. Len(job.erased) \in Nat
  BY JobsAre, FieldSize DEF JobOf, Damaged
<1>9. 0 \in 0..Len(job.erased)
  BY <1>8
<1> QED
  BY <1>1, <1>6, <1>7, <1>9 DEF RepairInv

LEMMA EliminateColumnKeeps == ASSUME RepairInv, EliminateColumn PROVE RepairInv'
<1>1. decoding # NotDecoding /\ col < Len(decoding.erased) /\ Pivots(aug, col + 1) # {}
      /\ aug' = Eliminated(aug, col + 1) /\ col' = col + 1 /\ decoding' = decoding /\ blocks' = blocks
  BY DEF EliminateColumn
<1>2. PICK job \in Jobs : job = decoding /\ col \in 0..Len(job.erased) /\ Reduced(job, aug, col)
  BY <1>1 DEF RepairInv
<1>3. Len(job.erased) \in Nat
  BY JobsAre, FieldSize DEF JobOf, Damaged
<1>4. col \in Nat /\ col + 1 \in 0..Len(job.erased) /\ col < Len(job.erased)
  BY <1>1, <1>2, <1>3
<1>5. Reduced(job, Eliminated(aug, col + 1), col + 1)
  BY <1>1, <1>2, <1>4, JobGoesOn
<1> QED
  BY <1>1, <1>2, <1>4, <1>5 DEF RepairInv

LEMMA RepairInvNext == RepairInv /\ [RepairNext]_repairVars => RepairInv'
<1> SUFFICES ASSUME RepairInv, [RepairNext]_repairVars PROVE RepairInv'
  OBVIOUS
<1>1. ASSUME NEW leaf \in Leaves, AddBlock(leaf) PROVE RepairInv'
  BY <1>1, AddBlockKeeps
<1>2. ASSUME NEW data \in Messages, Build(data) PROVE RepairInv'
  BY <1>2, BuildRepairs
<1>3. ASSUME NEW sent \in Codewords, NEW erased \in Erasures, NEW x \in Noise, Decode(sent, erased, x)
      PROVE  RepairInv'
  BY <1>3, DecodeKeeps
<1>4. ASSUME EliminateColumn PROVE RepairInv'
  BY <1>4, EliminateColumnKeeps
<1>5. ASSUME UNCHANGED repairVars PROVE RepairInv'
  BY <1>5 DEF RepairInv, repairVars
<1> QED
  BY <1>1, <1>2, <1>3, <1>4, <1>5 DEF RepairNext

LEMMA InvRepairs == RepairInv => ErasuresRepaired
<1> SUFFICES ASSUME RepairInv, decoding # NotDecoding
             PROVE  /\ col = Len(decoding.erased) => Decoded = decoding.sent
                    /\ IsInjective(decoding.erased) =>
                           col = Len(decoding.erased) \/ Pivots(aug, col + 1) # {}
  BY DEF ErasuresRepaired
<1>1. PICK job \in Jobs : job = decoding /\ col \in 0..Len(job.erased) /\ Reduced(job, aug, col)
  BY DEF RepairInv
<1>2. PICK sent, x, e : JobOf(job, sent, x, e)
  BY JobsAre
<1>3. e = Len(job.erased) /\ e \in Nat
  BY <1>2, FieldSize DEF JobOf, Damaged
<1>4. ASSUME col = e PROVE Decoded = job.sent
  <2>1. sent \in Words /\ job.sent = sent /\ job.word = Received(sent, job.erased, x)
    BY <1>2, CodewordsAre DEF JobOf
  <2>2. ASSUME NEW i \in 0..(N - 1)
        PROVE  sent[i] = IF i \in Range(job.erased)
                         THEN aug[CHOOSE k \in DOMAIN job.erased : job.erased[k] = i][e + 1]
                         ELSE job.word[i]
    <3>1. CASE i \in Range(job.erased)
      <4>1. PICK k \in DOMAIN job.erased : k = CHOOSE j \in DOMAIN job.erased : job.erased[j] = i
        BY <3>1 DEF Range
      <4>2. job.erased[k] = i
        BY <3>1, <4>1 DEF Range
      <4>3. aug[k][e + 1] = job.sent[job.erased[k]]
        BY <1>1, <1>3, <1>4, JobEnds
      <4> QED
        BY <2>1, <3>1, <4>1, <4>2, <4>3
    <3>2. CASE i \notin Range(job.erased)
      BY <2>1, <3>2 DEF Received
    <3> QED
      BY <3>1, <3>2
  <2>3. Decoded = [i \in 0..(N - 1) |->
                      IF i \in Range(job.erased)
                      THEN aug[CHOOSE k \in DOMAIN job.erased : job.erased[k] = i][e + 1]
                      ELSE job.word[i]]
    BY <1>1, <1>3 DEF Decoded
  <2>4. Decoded = [i \in 0..(N - 1) |-> sent[i]]
    BY <2>2, <2>3
  <2> QED
    BY <2>1, <2>4 DEF Words
<1>5. ASSUME IsInjective(job.erased), col # e PROVE Pivots(aug, col + 1) # {}
  <2>1. col \in Nat /\ col < Len(job.erased)
    BY <1>1, <1>3, <1>5
  <2> QED
    BY <1>1, <1>5, <2>1, JobHasPivot
<1> QED
  BY <1>1, <1>3, <1>4, <1>5

LEMMA InvLocates == RepairInv => ProofsLocate
<1> SUFFICES ASSUME RepairInv, blocks # <<>>, NEW i \in 0..(Len(blocks) - 1), NEW leaf \in Leaves
             PROVE  VerifyProof(Root(blocks), leaf, i, Proof(blocks, i)) <=> leaf = blocks[i + 1]
  BY DEF ProofsLocate
<1>1. blocks \in Seq(Leaves)
  BY DEF RepairInv
<1>2. PICK n \in Nat : n = Len(blocks) /\ n # 0
  BY <1>1
<1>3. blocks = [j \in 1..n |-> blocks[j]]
  BY <1>1, <1>2
<1>4. Nodes(blocks, n)
  BY <1>2, <1>3 DEF Nodes
<1> QED
  BY <1>2, <1>4, ProofsTell

\* Whatever the field, the redundancy and the damage, the decoder repairs a
\* codeword where it was damaged, and gives up on no list of different
\* positions; and the proof of a block shows that block alone
\* (brute_force_erasure_decode, MerkleTree::proof and verify_proof,
\* integrity.rs).
THEOREM DamageHandled == RepairSpec => []DamageIsHandled
<1>1. RepairInv => DamageIsHandled
  BY InvRepairs, InvLocates DEF DamageIsHandled
<1> QED
  BY <1>1, RepairInvInit, RepairInvNext, PTL DEF RepairSpec

=============================================================================
