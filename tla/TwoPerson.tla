----------------------------- MODULE TwoPerson -----------------------------
(***************************************************************************)
(* Two-person release sessions, rust-core/src/omega/two_person.rs.  A      *)
(* session takes the share of one operator, then the share of another, and *)
(* releases a key made of both.  A session is not shared between threads:  *)
(* every call is one step.  The caller supplies the time, in seconds here. *)
(*                                                                         *)
(* Shares are operators (each operator has one), a digest is the value it  *)
(* is a digest of, and the XOR of two shares is the set of the two.        *)
(***************************************************************************)
EXTENDS Naturals, Sequences, FiniteSets

CONSTANTS
    Sessions,       \* names of sessions, external to the code
    Operators,      \* operator identifiers
    FirstByte,      \* the first byte of an operator's identifier
    Timeout,        \* timeout_secs
    None,           \* no operator
    MaxLog,         \* bound: events in an audit_log
    MaxTime         \* bound: the last second

TwoPersonAssumption ==
    /\ FirstByte \in [Operators -> Nat]
    /\ None \notin Operators
    /\ Timeout \in Nat /\ MaxLog \in Nat \ {0} /\ MaxTime \in Nat

Classes == {"secret", "topsecret"}

VARIABLES
    session,    \* what each TwoPersonSession holds
    log,        \* its audit_log
    released,   \* the keys returned to callers, with how they came about
    time

vars == <<session, log, released, time>>

Ids == [byte : {FirstByte[o] : o \in Operators}, at : 0..MaxTime]

SessionState ==
    [id : Ids, class : Classes \cup {"unopened"}, created : 0..MaxTime,
     first : Operators \cup {None}, witness : BOOLEAN]

Event == [what : {"opened", "first", "witness", "second", "released", "aborted"},
          by : Operators \cup {None}]

TypeOK ==
    /\ session \in [Sessions -> SessionState]
    /\ \A s \in Sessions : log[s] \in Seq(Event) /\ Len(log[s]) <= MaxLog
    /\ \A r \in released :
           /\ r.session \in Sessions
           /\ r.key \in [id : Ids, shares : SUBSET Operators]
           /\ r.witnessed \in BOOLEAN
    /\ time \in 0..MaxTime

Init ==
    /\ session \in [Sessions -> {v \in SessionState :
           v.class = "unopened" /\ v.first = None /\ ~v.witness /\ v.created = 0
           /\ v.id = CHOOSE id \in Ids : TRUE}]
    /\ log = [s \in Sessions |-> <<>>]
    /\ released = {}
    /\ time = 0

Opened(s) == session[s].class # "unopened"

Expired(s) == time - session[s].created >= Timeout

\* requires_dual_cipher, or level 40 and above.
NeedsWitness(s) == session[s].class = "topsecret"

Entry(what, by) == <<[what |-> what, by |-> by]>>

\* The digest of the opener's first byte and the time.
SessionId(opener) == [byte |-> FirstByte[opener], at |-> time]

Open(s, opener, class) ==
    /\ ~Opened(s)
    /\ session' = [session EXCEPT ![s] =
           [id |-> SessionId(opener), class |-> class, created |-> time,
            first |-> None, witness |-> FALSE]]
    /\ log' = [log EXCEPT ![s] = Entry("opened", opener)]
    /\ UNCHANGED <<released, time>>

\* submit_first_share; a refused call changes nothing.
FirstShare(s, o) ==
    /\ Opened(s)
    /\ session[s].first = None
    /\ ~Expired(s)
    /\ Len(log[s]) < MaxLog
    /\ session' = [session EXCEPT ![s].first = o]
    /\ log' = [log EXCEPT ![s] = @ \o Entry("first", o)]
    /\ UNCHANGED <<released, time>>

\* The digest of the combined shares, keyed with the session_id.
Key(s, second) == [id |-> session[s].id, shares |-> {session[s].first, second}]

\* Mutant of Releasable: one operator may hand in both shares.
ReleasableAlone(s, second, witnessed) ==
    /\ Opened(s)
    /\ ~Expired(s)
    /\ session[s].first # None
    /\ witnessed \/ ~NeedsWitness(s)

\* Mutant of Releasable: the timeout is not looked at.
ReleasableLate(s, second, witnessed) ==
    /\ Opened(s)
    /\ session[s].first \notin {None, second}
    /\ witnessed \/ ~NeedsWitness(s)

Releasable(s, second, witnessed) ==
    /\ Opened(s)
    /\ ~Expired(s)
    /\ session[s].first \notin {None, second}
    /\ witnessed \/ ~NeedsWitness(s)

\* submit_second_share.  The share of the first operator stays in the session.
SecondShare(s, second, witnessed) ==
    /\ Releasable(s, second, witnessed)
    /\ Len(log[s]) + 3 <= MaxLog
    /\ session' = [session EXCEPT ![s].witness = @ \/ witnessed]
    /\ log' = [log EXCEPT ![s] =
           @ \o (IF witnessed THEN Entry("witness", None) ELSE <<>>)
             \o Entry("second", second) \o Entry("released", None)]
    /\ released' = released \cup
           {[session |-> s, key |-> Key(s, second), witnessed |-> witnessed]}
    /\ UNCHANGED time

\* abort only writes to the log.
Abort(s) ==
    /\ Opened(s)
    /\ Len(log[s]) < MaxLog
    /\ log' = [log EXCEPT ![s] = @ \o Entry("aborted", None)]
    /\ UNCHANGED <<session, released, time>>

Tick ==
    /\ time < MaxTime
    /\ time' = time + 1
    /\ UNCHANGED <<session, log, released>>

Next ==
    \/ \E s \in Sessions :
           \/ \E o \in Operators, c \in Classes : Open(s, o, c)
           \/ \E o \in Operators : FirstShare(s, o)
           \/ \E o \in Operators, w \in BOOLEAN : SecondShare(s, o, w)
           \/ Abort(s)
    \/ Tick

Spec == Init /\ [][Next]_vars

-----------------------------------------------------------------------------
(* What a session promises *)

Says(s, what, by) == \E i \in DOMAIN log[s] : log[s][i] = [what |-> what, by |-> by]

\* Every key that left a session is accounted for in its log: two operators,
\* different ones, handed in the shares it is made of, and above Secret a
\* witness signed ("two-person is MANDATORY", two_person.rs).
LogTellsRelease ==
    \A r \in released :
        /\ \E a, b \in Operators :
               /\ a # b
               /\ r.key.shares = {a, b}
               /\ Says(r.session, "first", a)
               /\ Says(r.session, "second", b)
        /\ NeedsWitness(r.session) => Says(r.session, "witness", None)

\* A session takes one first share in all, whatever it released or refused in
\* between ("first share already submitted", two_person.rs).
OneFirstShare ==
    \A s \in Sessions :
        Cardinality({i \in DOMAIN log[s] : log[s][i].what = "first"}) <= 1

\* Nothing is released and nothing is taken that the log does not account for
\* (submit_first_share and submit_second_share).
SessionAccounts == LogTellsRelease /\ OneFirstShare

\* While the clock does not go back, an expired session stays closed: all it
\* can still do is note that it was aborted.
ExpiredForGood ==
    [][\A s \in Sessions : Opened(s) /\ Expired(s) =>
        /\ session'[s] = session[s]
        /\ \A i \in DOMAIN log'[s] : i > Len(log[s]) => log'[s][i].what = "aborted"]_vars

=============================================================================
