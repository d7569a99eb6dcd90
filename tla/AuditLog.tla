------------------------------ MODULE AuditLog ------------------------------
(***************************************************************************)
(* The append-only audit log, rust-core/src/policy/audit_log.rs: a file of *)
(* lines, each an entry that carries the digest of everything before it,   *)
(* a handle that remembers the last digest and the next number, and        *)
(* rotation to .1, .2, and so on.  One process writes; it may crash at any *)
(* point of a call, and an I/O error may end a call at any point.          *)
(*                                                                         *)
(* A file is a sequence of lines; one that does not exist has none.  A     *)
(* line that does not parse is Junk.  A digest is the sequence of payloads *)
(* it is a digest of.  writeln! writes the text and the newline            *)
(* separately, so a line may be whole and not ended.                       *)
(***************************************************************************)
EXTENDS Naturals, FiniteSets, SequencesExt

CONSTANTS
    MaxRotations,   \* max_rotations
    Faults,         \* what may go wrong: "crash" and "error" cut a call short,
                    \* "rename" is the failure of a rename that shifts
    MaxAppends,     \* bound: calls of append
    MaxRotates      \* bound: calls of rotate

ASSUME AuditLogAssumption ==
    /\ MaxRotations \in Nat /\ MaxRotations >= 2
    /\ Faults \subseteq {"crash", "error", "rename"}
    /\ MaxAppends \in Nat /\ MaxRotates \in Nat

VARIABLES
    lines,      \* the log file
    unended,    \* its last line has no newline
    archive,    \* the rotated files .1 to .max_rotations
    handle,     \* the open AuditLog: last_chain and next_seq
    pc,
    entry,      \* the entry append is writing
    glued,      \* it is written behind a line that was not ended
    appends, rotates,   \* calls so far; an entry records its call
    acked,      \* calls of append that returned Ok
    aged,       \* calls whose entries a rotation pushed out at the end
    hit         \* the faults that have happened

file == <<lines, unended>>
calls == <<appends, rotates>>
logVars == <<lines, unended, archive, handle, pc, entry, glued, appends, rotates, acked, aged, hit>>

Closed == [open |-> FALSE, chain |-> <<>>, next |-> 0]

Shift(i) == <<"shift", i>>
Junk == [what |-> "junk"]
NoEntry == [seq |-> 0, call |-> 0, chain |-> <<>>]

LogInit ==
    /\ lines = <<>>
    /\ unended = FALSE
    /\ archive = [n \in 1..MaxRotations |-> <<>>]
    /\ handle = Closed
    /\ pc = <<"idle">>
    /\ entry = NoEntry
    /\ glued = FALSE
    /\ appends = 0
    /\ rotates = 0
    /\ acked = {}
    /\ aged = {}
    /\ hit = {}

\* parse_bytes: lines that do not parse are skipped, but one before every
\* entry ends the reading.
Entries(f) ==
    IF f = <<>> \/ Head(f) = Junk THEN {} ELSE {i \in DOMAIN f : f[i] # Junk}

\* The number that has n numbers of the set up to it.
Nth(numbers, n) == CHOOSE i \in numbers : Cardinality({j \in numbers : j <= i}) = n

Parse(f) == [n \in 1..Cardinality(Entries(f)) |-> f[Nth(Entries(f), n)]]

Chain(prev, seq, call) == Append(prev, [seq |-> seq, call |-> call])

\* What verify_bytes objects to: the first entry (from 1) with a wrong number
\* or digest.
BadEntries(es) ==
    {i \in DOMAIN es :
        \/ es[i].seq # i - 1
        \/ es[i].chain # Chain(IF i = 1 THEN <<>> ELSE es[i - 1].chain, es[i].seq, es[i].call)}

\* How the command that verifies a log ends: 1 is tampered, 2 is malformed.
AuditExit(f) ==
    CASE f = <<>> -> 0
      [] f # <<>> /\ Parse(f) = <<>> -> 2
      [] Parse(f) # <<>> -> IF BadEntries(Parse(f)) = {} THEN 0 ELSE 1

Calls(f) == {f[i].call : i \in Entries(f)}

-----------------------------------------------------------------------------
(* open, append *)

Head0(es) == IF es = <<>> THEN [open |-> TRUE, chain |-> <<>>, next |-> 0]
             ELSE [open |-> TRUE, chain |-> Last(es).chain, next |-> Last(es).seq + 1]

Open ==
    /\ pc = <<"idle">>
    /\ handle' = Head0(Parse(lines))
    /\ UNCHANGED <<file, archive, pc, entry, glued, calls, acked, aged, hit>>

\* append forms the entry; the file is opened for appending where it ends.
Begin ==
    /\ pc = <<"idle">>
    /\ handle.open
    /\ appends < MaxAppends
    /\ appends' = appends + 1
    /\ entry' = [seq |-> handle.next, call |-> appends',
                 chain |-> Chain(handle.chain, handle.next, appends')]
    /\ glued' = unended
    /\ pc' = <<"part">>
    /\ UNCHANGED <<file, archive, handle, rotates, acked, aged, hit>>

\* The first bytes of the line.  Behind a line that was not ended they spoil it.
WritePart ==
    /\ pc = <<"part">>
    /\ lines' = IF glued THEN Front(lines) \o <<Junk>> ELSE Append(lines, Junk)
    /\ unended' = TRUE
    /\ pc' = <<"full">>
    /\ UNCHANGED <<archive, handle, entry, glued, calls, acked, aged, hit>>

WriteFull ==
    /\ pc = <<"full">>
    /\ lines' = IF glued THEN lines ELSE Front(lines) \o <<entry>>
    /\ pc' = <<"newline">>
    /\ UNCHANGED <<unended, archive, handle, entry, glued, calls, acked, aged, hit>>

WriteNewline ==
    /\ pc = <<"newline">>
    /\ unended' = FALSE
    /\ pc' = <<"sync">>
    /\ UNCHANGED <<lines, archive, handle, entry, glued, calls, acked, aged, hit>>

\* sync_all succeeds, the handle moves on, and append returns Ok.
SyncReturn ==
    /\ pc = <<"sync">>
    /\ handle' = [handle EXCEPT !.chain = entry.chain, !.next = @ + 1]
    /\ acked' = acked \cup {entry.call}
    /\ pc' = <<"idle">>
    /\ UNCHANGED <<file, archive, entry, glued, calls, aged, hit>>

-----------------------------------------------------------------------------
(* rotate *)

\* A fault of that kind happens.
Strikes(fault) == fault \in Faults /\ hit' = hit \cup {fault}

\* Mutant of FirstShift: only the youngest rotation is shifted.
FirstShiftYoungest == Shift(1)

FirstShift == Shift(MaxRotations - 1)

\* rotate_if_needed finds the file too large, or rotate is called.
Rotate ==
    /\ pc = <<"idle">>
    /\ handle.open
    /\ rotates < MaxRotates
    /\ rotates' = rotates + 1
    /\ pc' = FirstShift
    /\ UNCHANGED <<file, archive, handle, entry, glued, appends, acked, aged, hit>>

AfterShift(i) == IF i = 1 THEN <<"move">> ELSE Shift(i - 1)

\* One rename of an older rotation; its failure is ignored.
ShiftOne(i) ==
    /\ pc = Shift(i)
    /\ pc' = AfterShift(i)
    /\ \/ /\ archive[i] # <<>>
          /\ archive' = [archive EXCEPT ![i + 1] = archive[i], ![i] = <<>>]
          /\ aged' = IF i + 1 = MaxRotations THEN aged \cup Calls(archive[i + 1]) ELSE aged
          /\ UNCHANGED hit
       \/ archive[i] = <<>> /\ UNCHANGED <<archive, aged, hit>>
       \/ archive[i] # <<>> /\ Strikes("rename") /\ UNCHANGED <<archive, aged>>
    /\ UNCHANGED <<file, handle, entry, glued, calls, acked>>

\* The log file becomes .1, and the chain starts over.
Move ==
    /\ pc = <<"move">>
    /\ archive' = IF lines = <<>> THEN archive ELSE [archive EXCEPT ![1] = lines]
    /\ lines' = <<>>
    /\ unended' = FALSE
    /\ handle' = Head0(<<>>)
    /\ pc' = <<"idle">>
    /\ UNCHANGED <<entry, glued, calls, acked, aged, hit>>

-----------------------------------------------------------------------------

\* An entry is being written.
Midway == {<<"part">>, <<"full">>, <<"newline">>, <<"sync">>}

\* An I/O error: the call returns Err, and so far the handle is as it was.
Fail ==
    /\ pc \in Midway \cup {<<"move">>}
    /\ Strikes("error")
    /\ pc' = <<"idle">>
    /\ UNCHANGED <<file, archive, entry, glued, calls, acked, aged>>

\* The process ends, between two calls or in the middle of one; between two
\* renames it leaves nothing unfinished.
Crash ==
    /\ IF pc \in Midway THEN Strikes("crash") ELSE UNCHANGED hit
    /\ pc' = <<"idle">>
    /\ handle' = Closed
    /\ UNCHANGED <<file, archive, entry, glued, calls, acked, aged>>

Appending == Begin \/ WritePart \/ WriteFull \/ WriteNewline \/ SyncReturn

Rotating == Rotate \/ (\E i \in 1..(MaxRotations - 1) : ShiftOne(i)) \/ Move

\* A call of the owner of the handle that is open.
LogCall == Open \/ Appending \/ Rotating \/ (Fail /\ UNCHANGED handle)

-----------------------------------------------------------------------------
(* What the log promises.  Where a promise needs the absence of a fault, it  *)
(* says which: hit names those that have happened.                           *)

Readable == Calls(lines) \cup UNION {Calls(archive[n]) : n \in 1..MaxRotations}

\* Unless a call was cut short or a rename failed, an entry whose append returned
\* Ok can be read, in the log or in a rotation, until a rotation pushes it out at
\* the end (AuditLog::append, rotate).
AckedIsKept ==
    pc = <<"idle">> /\ hit = {} => acked \subseteq aged \cup Readable

\* No append, whatever cuts it short, makes an acknowledged entry of the log
\* unreadable (AuditLog::append).
ReadableStays ==
    [][pc # <<"move">> => (acked \cap Calls(lines)) \subseteq Calls(lines')]_logVars

\* Unless a call failed, verify blames nothing that was written before a crash:
\* an entry that is Tampered has the remains of an unfinished line in front of it
\* ("detect exactly which entry was tampered with", audit_log.rs), and the audit
\* command is content with every log and rotation that no call was cut short in.
BlamesAfterTear ==
    pc = <<"idle">> /\ "error" \notin hit =>
        /\ \A i \in BadEntries(Parse(lines)) :
            \E j \in DOMAIN lines : lines[j] = Junk /\ j <= i
        /\ \A f \in {lines} \cup {archive[n] : n \in 1..MaxRotations} :
            AuditExit(f) # 0 => Junk \in ToSet(f)

\* The three together, each with its exceptions: what was acknowledged is kept, and
\* stays readable under the next append, and verify blames only what follows a tear.
LogTells == [](AckedIsKept /\ BlamesAfterTear) /\ ReadableStays

=============================================================================
