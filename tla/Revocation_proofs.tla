------------------------- MODULE Revocation_proofs -------------------------
(***************************************************************************)
(* What is proved of the audit log and of the revocation engine over it,   *)
(* for any processes, calls, rotations and faults.                         *)
(***************************************************************************)
EXTENDS Revocation, Integers, TLAPS, FiniteSetTheorems, SequenceTheorems

-----------------------------------------------------------------------------
(* Files of lines: what can be read from one.                              *)

IsSeq(f) == f \in Seq({f[i] : i \in 1..Len(f)})

\* The first n lines all parse.
Whole(f, n) == \A i \in 1..n : f[i] # Junk

\* The first n lines of two files are the same.
Agree(f, g, n) == \A i \in 1..n : g[i] = f[i]

LEMMA UpTo == ASSUME NEW n \in Nat PROVE IsFiniteSet(1..n) /\ Cardinality(1..n) = n
BY FS_Interval

LEMMA AnySequence == ASSUME NEW S, NEW f \in Seq(S) PROVE IsSeq(f)
BY DEF IsSeq

LEMMA FileBasics ==
    ASSUME NEW f, IsSeq(f)
    PROVE  /\ Len(f) \in Nat /\ DOMAIN f = 1..Len(f)
           /\ f = <<>> <=> Len(f) = 0
           /\ f # <<>> => Head(f) = f[1]
BY DEF IsSeq

LEMMA EntriesAre ==
    ASSUME NEW f, IsSeq(f)
    PROVE  /\ Entries(f) \subseteq 1..Len(f) /\ IsFiniteSet(Entries(f))
           /\ Len(f) > 0 /\ f[1] # Junk => Entries(f) = {i \in 1..Len(f) : f[i] # Junk}
           /\ ~(Len(f) > 0 /\ f[1] # Junk) => Entries(f) = {}
<1>1. /\ Entries(f) \subseteq 1..Len(f)
      /\ Len(f) > 0 /\ f[1] # Junk => Entries(f) = {i \in 1..Len(f) : f[i] # Junk}
      /\ ~(Len(f) > 0 /\ f[1] # Junk) => Entries(f) = {}
  BY FileBasics DEF Entries
<1>2. IsFiniteSet(1..Len(f))
  BY FileBasics, UpTo
<1>3. IsFiniteSet(Entries(f))
  BY <1>1, <1>2, FS_Subset
<1> QED
  BY <1>1, <1>3

\* As long as every line parses, the entries are the lines.
LEMMA NthIs ==
    ASSUME NEW f, IsSeq(f), NEW m \in 1..Len(f), Whole(f, m), NEW n \in 1..m
    PROVE  Nth(Entries(f), n) = n
<1> DEFINE K == Entries(f)
           upTo(i) == {j \in K : j <= i}
<1>1. /\ K = {i \in 1..Len(f) : f[i] # Junk} /\ IsFiniteSet(K)
      /\ Len(f) \in Nat
  BY EntriesAre, FileBasics DEF Whole
<1> HIDE DEF K
<1>2. \A i \in K : IsFiniteSet(upTo(i))
  <2>1. ASSUME NEW i PROVE IsFiniteSet(upTo(i))
    <3>1. upTo(i) \subseteq K
      OBVIOUS
    <3> QED
      BY <1>1, <3>1, FS_Subset
  <2> QED
    BY <2>1
<1>3. \A i \in 1..n : upTo(i) = 1..i
  BY <1>1 DEF Whole
<1>4. n \in K /\ Cardinality(upTo(n)) = n
  <2>1. n \in K /\ n \in Nat /\ n \in 1..n
    BY <1>1 DEF Whole
  <2>2. upTo(n) = 1..n
    BY <1>3, <2>1
  <2> QED
    BY <2>1, <2>2, UpTo
<1>5. ASSUME NEW i \in K, Cardinality(upTo(i)) = n
      PROVE  i = n
  <2>1. CASE i < n
    <3>1. i \in 1..n /\ i \in Nat
      BY <1>1, <2>1
    <3>2. Cardinality(upTo(i)) = i
      BY <1>3, <3>1, UpTo
    <3> QED
      BY <1>5, <2>1, <3>1, <3>2
  <2>2. CASE i > n
    <3>1. 1..n \subseteq upTo(i) /\ i \in upTo(i) /\ i \notin 1..n
      BY <1>1, <2>2 DEF Whole
    <3>2. IsFiniteSet(upTo(i)) /\ IsFiniteSet(1..n) /\ Cardinality(1..n) = n
      BY <1>2, UpTo
    <3>3. 1..n = upTo(i)
      <4> HIDE DEF upTo
      <4> QED
        BY <1>5, <3>1, <3>2, FS_Subset
    <3> QED
      BY <3>1, <3>3
  <2> QED
    BY <1>1, <2>1, <2>2
<1>6. \A i \in K : Cardinality(upTo(i)) = n <=> i = n
  BY <1>4, <1>5
<1>7. (CHOOSE i \in K : Cardinality(upTo(i)) = n) = n
  BY <1>4, <1>6
<1> QED
  BY <1>7 DEF Nth, K

LEMMA ParsePrefix ==
    ASSUME NEW f, IsSeq(f), NEW m \in 1..Len(f), Whole(f, m)
    PROVE  /\ DOMAIN Parse(f) = 1..Cardinality(Entries(f)) /\ Cardinality(Entries(f)) \in Nat
           /\ m <= Cardinality(Entries(f))
           /\ \A n \in 1..m : Parse(f)[n] = f[n]
<1>1. /\ Entries(f) = {i \in 1..Len(f) : f[i] # Junk} /\ IsFiniteSet(Entries(f))
      /\ Len(f) \in Nat
  BY EntriesAre, FileBasics DEF Whole
<1>2. 1..m \subseteq Entries(f)
  BY <1>1 DEF Whole
<1>3. m <= Cardinality(Entries(f)) /\ Cardinality(Entries(f)) \in Nat
  <2>1. Cardinality(1..m) = m
    BY UpTo
  <2> QED
    BY <1>1, <1>2, <2>1, FS_Subset, FS_CardinalityType
<1>4. \A n \in 1..m : Parse(f)[n] = f[n]
  <2>1. ASSUME NEW n \in 1..m PROVE Parse(f)[n] = f[n]
    <3>1. n \in 1..Cardinality(Entries(f))
      BY <1>3
    <3>2. Parse(f)[n] = f[Nth(Entries(f), n)]
      BY <3>1, Zenon DEF Parse
    <3> QED
      BY <3>2, NthIs
  <2> QED
    BY <2>1
<1> QED
  BY <1>3, <1>4 DEF Parse

LEMMA ParseWhole ==
    ASSUME NEW f, IsSeq(f), Whole(f, Len(f))
    PROVE  Parse(f) = f
<1>1. Len(f) \in Nat /\ DOMAIN f = 1..Len(f) /\ f = [i \in 1..Len(f) |-> f[i]]
  BY DEF IsSeq
<1>2. Entries(f) = 1..Len(f)
  <2>1. /\ Entries(f) \subseteq 1..Len(f)
        /\ Len(f) > 0 /\ f[1] # Junk => Entries(f) = {i \in 1..Len(f) : f[i] # Junk}
    BY EntriesAre
  <2>2. \A i \in 1..Len(f) : f[i] # Junk
    BY DEF Whole
  <2>3. CASE Len(f) = 0
    BY <2>1, <2>3
  <2>4. CASE Len(f) > 0
    <3>1. f[1] # Junk
      BY <1>1, <2>2, <2>4
    <3> QED
      BY <2>1, <2>2, <2>4, <3>1, Zenon
  <2> QED
    BY <1>1, <2>3, <2>4
<1>3. Cardinality(Entries(f)) = Len(f)
  BY <1>1, <1>2, UpTo
<1>4. DOMAIN Parse(f) = 1..Len(f) /\ Parse(f) = [i \in 1..Len(f) |-> Parse(f)[i]]
  BY <1>3 DEF Parse
<1>5. \A n \in 1..Len(f) : Parse(f)[n] = f[n]
  <2>1. ASSUME NEW n \in 1..Len(f) PROVE Parse(f)[n] = f[n]
    <3>1. Len(f) \in 1..Len(f)
      BY <1>1, <2>1
    <3> QED
      BY <2>1, <3>1, ParsePrefix
  <2> QED
    BY <2>1
<1> QED
  BY <1>1, <1>4, <1>5

\* What adding a line, or writing over the last, does to what can be read.
LEMMA LineAdded ==
    ASSUME NEW f, IsSeq(f), NEW x, NEW g, g = Append(f, x)
    PROVE  /\ IsSeq(g) /\ Len(g) = Len(f) + 1 /\ g[Len(g)] = x
           /\ Agree(f, g, Len(f))
<1> DEFINE S == {f[i] : i \in 1..Len(f)} \cup {x}
<1>1. f \in Seq(S) /\ x \in S
  <2>1. {f[i] : i \in 1..Len(f)} \subseteq S
    OBVIOUS
  <2> QED
    BY <2>1, SeqMonotonic DEF IsSeq
<1> HIDE DEF S
<1>2. /\ g \in Seq(S) /\ Len(g) = Len(f) + 1 /\ g[Len(f) + 1] = x
      /\ \A i \in 1..Len(f) : g[i] = f[i]
  BY <1>1, AppendProperties
<1> QED
  BY <1>2, AnySequence DEF Agree

LEMMA LastReplaced ==
    ASSUME NEW f, IsSeq(f), f # <<>>, NEW x, NEW g, g = Front(f) \o <<x>>
    PROVE  /\ IsSeq(g) /\ Len(g) = Len(f) /\ g[Len(f)] = x /\ Len(f) > 0
           /\ Agree(f, g, Len(f) - 1)
<1> DEFINE S == {f[i] : i \in 1..Len(f)} \cup {x}
           h == Front(f)
<1>1. f \in Seq(S) /\ x \in S /\ Len(f) \in Nat /\ Len(f) > 0
  <2>1. {f[i] : i \in 1..Len(f)} \subseteq S
    OBVIOUS
  <2> QED
    BY <2>1, SeqMonotonic, FileBasics DEF IsSeq
<1> HIDE DEF S
<1>2. h \in Seq(S) /\ Len(h) = Len(f) - 1 /\ \A i \in 1..(Len(f) - 1) : h[i] = f[i]
  BY <1>1, SubSeqProperties DEF Front
<1> HIDE DEF h
<1>3. g = Append(h, x)
  BY <1>1, <1>2, AppendIsConcat DEF h
<1>4. /\ g \in Seq(S) /\ Len(g) = Len(f) /\ g[Len(f)] = x
      /\ \A i \in 1..(Len(f) - 1) : g[i] = f[i]
  <2>1. /\ Append(h, x) \in Seq(S) /\ Len(Append(h, x)) = Len(h) + 1
        /\ \A i \in 1..Len(h) : Append(h, x)[i] = h[i]
        /\ Append(h, x)[Len(h) + 1] = x
    BY <1>1, <1>2, AppendProperties
  <2>2. Len(h) + 1 = Len(f)
    BY <1>1, <1>2
  <2> QED
    BY <1>2, <1>3, <2>1, <2>2
<1> QED
  BY <1>1, <1>4, AnySequence DEF Agree

LEMMA CallsAre ==
    ASSUME NEW f, IsSeq(f)
    PROVE  /\ Len(f) > 0 /\ f[1] # Junk =>
                Calls(f) = {f[i].call : i \in {j \in 1..Len(f) : f[j] # Junk}}
           /\ ~(Len(f) > 0 /\ f[1] # Junk) => Calls(f) = {}
BY EntriesAre DEF Calls

-----------------------------------------------------------------------------
(* The log.  What a step may do depends on how far a call has come, on     *)
(* whether the last line is ended, and on what has failed so far.          *)

GoodLine(f, i) ==
    /\ f[i].seq = i - 1
    /\ f[i].chain = Chain(IF i = 1 THEN <<>> ELSE f[i - 1].chain, f[i].seq, f[i].call)

\* What verify asks of a file, up to the first line that does not parse.
GoodFile(f) == \A i \in 1..Len(f) : Whole(f, i) => GoodLine(f, i)

\* The handle stands behind the first n lines.
AtEnd(h, f, n) == h.next = n /\ h.chain = IF n = 0 THEN <<>> ELSE f[n].chain

LogShape ==
    /\ IsSeq(lines) /\ \A n \in 1..MaxRotations : IsSeq(archive[n])
    /\ archive = [n \in 1..MaxRotations |-> archive[n]]
    /\ appends \in Nat /\ acked \subseteq 1..appends
    /\ entry = [seq |-> entry.seq, call |-> entry.call, chain |-> entry.chain]
    /\ handle = [open |-> handle.open, chain |-> handle.chain, next |-> handle.next]
    /\ pc \in {<<"idle">>, <<"move">>} \cup Midway \cup {Shift(i) : i \in 1..(MaxRotations - 1)}
    /\ glued \in BOOLEAN /\ unended \in BOOLEAN

LastLine == lines[Len(lines)]

\* How far the line of the entry has come.
Writing ==
    /\ unended => lines # <<>>
    /\ pc \in Midway => /\ entry.call = appends /\ appends > 0 /\ entry.call \notin acked
                        /\ handle.open
    /\ pc = <<"part">> => glued = unended
    /\ pc = <<"full">> => unended /\ LastLine = Junk
    /\ pc = <<"newline">> => unended /\ LastLine = IF glued THEN Junk ELSE entry
    /\ pc = <<"sync">> => ~unended /\ lines # <<>> /\ LastLine = IF glued THEN Junk ELSE entry
    /\ unended /\ LastLine # Junk => LastLine.call \notin acked

\* As long as nothing has failed.
Clean ==
    hit = {} =>
        /\ pc \notin {<<"full">>, <<"newline">>} => ~unended
        /\ pc \in Midway => ~glued
        /\ pc # <<"full">> => Whole(lines, Len(lines))
        /\ pc = <<"full">> => Whole(lines, Len(lines) - 1)
        /\ \A i \in 1..(MaxRotations - 2) : pc = Shift(i) => archive[i + 1] = <<>>
        /\ pc = <<"move">> => archive[1] = <<>>
        /\ acked \subseteq aged \cup Readable

\* As long as no call has failed, though some may have been cut short.
Digests ==
    "error" \notin hit =>
        /\ GoodFile(lines) /\ \A n \in 1..MaxRotations : GoodFile(archive[n])
        /\ handle.open /\ pc \notin Midway /\ Whole(lines, Len(lines)) =>
                AtEnd(handle, lines, Len(lines))
        /\ pc \in Midway => /\ entry.seq = handle.next
                            /\ entry.chain = Chain(handle.chain, handle.next, entry.call)
        /\ pc = <<"part">> /\ ~glued /\ Whole(lines, Len(lines)) =>
                AtEnd(handle, lines, Len(lines))
        /\ pc = <<"full">> /\ ~glued /\ Whole(lines, Len(lines) - 1) =>
                AtEnd(handle, lines, Len(lines) - 1)
        /\ pc \in {<<"newline">>, <<"sync">>} /\ ~glued /\ Whole(lines, Len(lines)) =>
                entry.seq = Len(lines) - 1

LogInv == LogShape /\ Writing /\ Clean /\ Digests

LEMMA Places ==
    /\ Midway = {<<"part">>, <<"full">>, <<"newline">>, <<"sync">>}
    /\ <<"part">> # <<"full">> /\ <<"part">> # <<"newline">> /\ <<"part">> # <<"sync">>
    /\ <<"full">> # <<"newline">> /\ <<"full">> # <<"sync">> /\ <<"newline">> # <<"sync">>
    /\ <<"idle">> \notin Midway /\ <<"move">> \notin Midway /\ <<"idle">> # <<"move">>
    /\ \A i \in Int : /\ Shift(i) \notin Midway /\ Shift(i) # <<"idle">> /\ Shift(i) # <<"move">>
                      /\ \A j \in Int : Shift(i) = Shift(j) => i = j
<1>1. /\ <<"part">>[1] = "part" /\ <<"full">>[1] = "full" /\ <<"newline">>[1] = "newline"
      /\ <<"sync">>[1] = "sync" /\ <<"idle">>[1] = "idle" /\ <<"move">>[1] = "move"
  OBVIOUS
<1>2. \A i : Shift(i)[1] = "shift" /\ Shift(i)[2] = i
  BY DEF Shift
<1> QED
  BY <1>1, <1>2 DEF Midway

LEMMA JunkIsNoEntry == ASSUME NEW s, NEW c, NEW d PROVE [seq |-> s, call |-> c, chain |-> d] # Junk
<1>1. DOMAIN Junk = {"what"} /\ DOMAIN [seq |-> s, call |-> c, chain |-> d] = {"seq", "call", "chain"}
  BY DEF Junk
<1> QED
  BY <1>1

LEMMA OpenedAtEnd ==
    ASSUME NEW f, IsSeq(f), Whole(f, Len(f)), GoodFile(f)
    PROVE  AtEnd(Head0(Parse(f)), f, Len(f))
<1>1. Parse(f) = f /\ Len(f) \in Nat /\ (f = <<>> <=> Len(f) = 0)
  BY ParseWhole, FileBasics
<1>2. CASE f = <<>>
  BY <1>1, <1>2 DEF Head0, AtEnd
<1>3. CASE f # <<>>
  <2>1. Len(f) \in 1..Len(f) /\ Len(f) # 0
    BY <1>1, <1>3
  <2>2. f[Len(f)].seq = Len(f) - 1
    BY <2>1 DEF GoodFile, GoodLine
  <2>3. /\ Head0(f).next = f[Len(f)].seq + 1
        /\ Head0(f).chain = f[Len(f)].chain
    BY <1>3 DEF Head0, Last
  <2> QED
    BY <1>1, <2>1, <2>2, <2>3 DEF AtEnd
<1> QED
  BY <1>2, <1>3

\* What the lines up to k are good for, when the others are looked at.
LEMMA GoodStays ==
    ASSUME NEW f, NEW g, IsSeq(f), IsSeq(g), GoodFile(f), NEW k \in Nat, k <= Len(f), k <= Len(g),
           Agree(f, g, k), \A i \in 1..Len(g) : i > k /\ Whole(g, i) => GoodLine(g, i)
    PROVE  GoodFile(g)
<1>1. ASSUME NEW i \in 1..Len(g), Whole(g, i), ~(i > k) PROVE GoodLine(g, i)
  <2>1. i \in 1..k /\ i \in 1..Len(f) /\ i \in Nat
    BY <1>1, FileBasics
  <2>2. \A j \in 1..i : g[j] = f[j]
    BY <2>1 DEF Agree
  <2>3. Whole(f, i)
    BY <1>1, <2>2 DEF Whole
  <2>4. GoodLine(f, i)
    BY <2>1, <2>3 DEF GoodFile
  <2>5. g[i] = f[i] /\ (i # 1 => g[i - 1] = f[i - 1])
    BY <2>1, <2>2
  <2> QED
    BY <2>4, <2>5 DEF GoodLine
<1> QED
  BY <1>1 DEF GoodFile

\* The open of a log, and what changes neither files nor calls.
LEMMA OpenStep == ASSUME LogInv, Open PROVE LogInv'
<1>1. /\ pc = <<"idle">> /\ handle' = Head0(Parse(lines))
      /\ UNCHANGED <<lines, unended, archive, pc, entry, glued, appends, acked, aged, hit>>
  BY DEF Open, file, calls
<1>2. LogShape'
  <2>1. handle' = [open |-> handle'.open, chain |-> handle'.chain, next |-> handle'.next]
    BY <1>1 DEF Head0
  <2> QED
    BY <1>1, <2>1 DEF LogInv, LogShape
<1>3. Writing'
  BY <1>1, Places DEF LogInv, Writing, LastLine
<1>4. Clean'
  BY <1>1 DEF LogInv, Clean, Readable
<1>5. Digests'
  <2>1. ASSUME Whole(lines, Len(lines)), GoodFile(lines) PROVE AtEnd(handle', lines, Len(lines))
    BY <1>1, <2>1, OpenedAtEnd DEF LogInv, LogShape
  <2> QED
    BY <1>1, <2>1, Places DEF LogInv, Digests
<1> QED
  BY <1>2, <1>3, <1>4, <1>5 DEF LogInv

LEMMA BeginStep == ASSUME LogInv, Begin PROVE LogInv' /\ entry'.call = appends + 1
<1>1. /\ pc = <<"idle">> /\ pc' = <<"part">> /\ handle.open /\ glued' = unended
      /\ appends' = appends + 1
      /\ entry' = [seq |-> handle.next, call |-> appends + 1,
                   chain |-> Chain(handle.chain, handle.next, appends + 1)]
      /\ UNCHANGED <<lines, unended, archive, handle, acked, aged, hit>>
  BY DEF Begin, file
<1>2. /\ entry'.seq = handle.next /\ entry'.call = appends + 1
      /\ entry'.chain = Chain(handle.chain, handle.next, appends + 1)
      /\ entry' = [seq |-> entry'.seq, call |-> entry'.call, chain |-> entry'.chain]
  BY <1>1
<1>3. pc' \in Midway /\ pc \notin Midway /\ appends \in Nat /\ acked \subseteq 1..appends
  BY <1>1, Places DEF LogInv, LogShape
<1>4. LogShape'
  BY <1>1, <1>2, <1>3 DEF LogInv, LogShape
<1>5. Writing'
  BY <1>1, <1>2, <1>3, Places DEF LogInv, Writing, LastLine
<1>6. Clean'
  BY <1>1, <1>3, Places DEF LogInv, Clean, Readable
<1>7. Digests'
  BY <1>1, <1>2, <1>3, Places DEF LogInv, Digests
<1> QED
  BY <1>2, <1>4, <1>5, <1>6, <1>7 DEF LogInv

LEMMA PartStep ==
    ASSUME LogInv, WritePart
    PROVE  /\ LogInv' /\ Calls(lines') \subseteq Calls(lines)
           /\ acked \cap Calls(lines) \subseteq Calls(lines')
<1>1. /\ pc = <<"part">> /\ pc' = <<"full">> /\ unended' = TRUE
      /\ lines' = IF glued THEN Front(lines) \o <<Junk>> ELSE Append(lines, Junk)
      /\ UNCHANGED <<archive, handle, entry, glued, appends, acked, aged, hit>>
  BY DEF WritePart, calls
<1>2. /\ IsSeq(lines) /\ Len(lines) \in Nat /\ glued = unended
      /\ glued => lines # <<>> /\ (LastLine # Junk => LastLine.call \notin acked)
  BY <1>1, FileBasics DEF LogInv, LogShape, Writing
<1>3. /\ IsSeq(lines') /\ Len(lines') \in Nat /\ Len(lines') > 0
      /\ lines'[Len(lines')] = Junk
      /\ \A i \in 1..(Len(lines') - 1) : lines'[i] = lines[i]
      /\ Len(lines') = IF glued THEN Len(lines) ELSE Len(lines) + 1
  <2>1. CASE glued
    <3>1. lines' = Front(lines) \o <<Junk>>
      BY <1>1, <2>1
    <3>2. /\ IsSeq(lines') /\ Len(lines') = Len(lines) /\ lines'[Len(lines)] = Junk
          /\ Len(lines) > 0 /\ Agree(lines, lines', Len(lines) - 1)
      <4>1. IsSeq(lines) /\ lines # <<>>
        BY <1>2, <2>1
      <4> QED
        BY <3>1, <4>1, LastReplaced, Zenon
    <3> QED
      BY <1>2, <2>1, <3>2 DEF Agree
  <2>2. CASE ~glued
    <3>1. lines' = Append(lines, Junk)
      BY <1>1, <2>2
    <3>2. /\ IsSeq(lines') /\ Len(lines') = Len(lines) + 1 /\ lines'[Len(lines')] = Junk
          /\ Agree(lines, lines', Len(lines))
      BY <1>2, <3>1, LineAdded, Zenon
    <3> QED
      BY <1>2, <2>2, <3>2 DEF Agree
  <2> QED
    BY <2>1, <2>2
<1>4. lines' # <<>>
  BY <1>3, FileBasics
<1>5. Calls(lines') \subseteq Calls(lines)
  <2>1. ASSUME NEW c \in Calls(lines') PROVE c \in Calls(lines)
    <3>1. Len(lines') > 0 /\ lines'[1] # Junk
      BY <1>3, <2>1, CallsAre
    <3>2. PICK i \in 1..Len(lines') : lines'[i] # Junk /\ c = lines'[i].call
      BY <1>3, <2>1, <3>1, CallsAre
    <3>3. i # Len(lines') /\ Len(lines') # 1
      BY <1>3, <3>1, <3>2
    <3>4. /\ 1 \in 1..(Len(lines') - 1) /\ i \in 1..(Len(lines') - 1) /\ i \in 1..Len(lines)
          /\ Len(lines) > 0
      BY <1>2, <1>3, <3>2, <3>3
    <3>5. lines[1] # Junk /\ lines[i] # Junk /\ c = lines[i].call
      BY <1>3, <3>1, <3>2, <3>4
    <3> QED
      BY <1>2, <3>4, <3>5, CallsAre
  <2> QED
    BY <2>1
<1>6. acked \cap Calls(lines) \subseteq Calls(lines')
  <2>1. ASSUME NEW c \in acked, c \in Calls(lines) PROVE c \in Calls(lines')
    <3>1. Len(lines) > 0 /\ lines[1] # Junk
      BY <1>2, <2>1, CallsAre
    <3>2. PICK i \in 1..Len(lines) : lines[i] # Junk /\ c = lines[i].call
      BY <1>2, <2>1, <3>1, CallsAre
    <3>3. ~(glued /\ i = Len(lines))
      BY <1>2, <2>1, <3>2 DEF LastLine
    <3>4. /\ i \in 1..(Len(lines') - 1) /\ 1 \in 1..(Len(lines') - 1)
          /\ i \in 1..Len(lines')
      BY <1>2, <1>3, <3>2, <3>3
    <3>5. lines'[1] # Junk /\ lines'[i] # Junk /\ c = lines'[i].call
      BY <1>3, <3>1, <3>2, <3>4
    <3> QED
      BY <1>3, <3>4, <3>5, CallsAre
  <2> QED
    BY <2>1
<1>7. LogShape'
  BY <1>1, <1>3, Places DEF LogInv, LogShape
<1>8. Writing'
  BY <1>1, <1>3, <1>4, Places DEF LogInv, Writing, LastLine
<1>9. Clean'
  <2>1. ASSUME hit = {} PROVE Whole(lines', Len(lines') - 1)
    <3>1. ~glued /\ Whole(lines, Len(lines))
      BY <1>1, <2>1, Places DEF LogInv, Clean
    <3> QED
      BY <1>2, <1>3, <3>1 DEF Whole
  <2>2. ASSUME hit = {} PROVE acked \subseteq aged \cup Readable'
    BY <1>1, <1>6, <2>2 DEF LogInv, Clean, Readable
  <2> QED
    BY <1>1, <2>1, <2>2, Places DEF LogInv, Clean
<1>10. Digests'
  <2>1. ASSUME GoodFile(lines) PROVE GoodFile(lines')
    <3>1. \A i \in 1..Len(lines') : i > Len(lines') - 1 /\ Whole(lines', i) => GoodLine(lines', i)
      BY <1>3 DEF Whole
    <3>2. /\ Len(lines') - 1 \in Nat /\ Len(lines') - 1 <= Len(lines)
          /\ Len(lines') - 1 <= Len(lines') /\ Agree(lines, lines', Len(lines') - 1)
      BY <1>2, <1>3 DEF Agree
    <3> QED
      BY <1>2, <1>3, <2>1, <3>1, <3>2, GoodStays
  <2>2. ASSUME ~glued, Whole(lines', Len(lines') - 1), "error" \notin hit
        PROVE  AtEnd(handle, lines', Len(lines') - 1)
    <3>1. Len(lines') - 1 = Len(lines) /\ \A i \in 1..Len(lines) : lines'[i] = lines[i]
      BY <1>2, <1>3, <2>2
    <3>2. Whole(lines, Len(lines))
      BY <2>2, <3>1 DEF Whole
    <3>3. AtEnd(handle, lines, Len(lines))
      BY <1>1, <2>2, <3>2 DEF LogInv, Digests
    <3>4. Len(lines) # 0 => lines'[Len(lines)] = lines[Len(lines)]
      BY <1>2, <3>1
    <3> QED
      BY <3>1, <3>3, <3>4 DEF AtEnd
  <2> QED
    BY <1>1, <2>1, <2>2, Places DEF LogInv, Digests
<1> QED
  BY <1>5, <1>6, <1>7, <1>8, <1>9, <1>10 DEF LogInv

LEMMA FullStep ==
    ASSUME LogInv, WriteFull
    PROVE  /\ LogInv' /\ Calls(lines) \subseteq Calls(lines')
           /\ Calls(lines') \subseteq Calls(lines) \cup {entry.call}
<1>1. /\ pc = <<"full">> /\ pc' = <<"newline">>
      /\ lines' = IF glued THEN lines ELSE Front(lines) \o <<entry>>
      /\ UNCHANGED <<unended, archive, handle, entry, glued, appends, acked, aged, hit>>
  BY DEF WriteFull, calls
<1>2. /\ IsSeq(lines) /\ Len(lines) \in Nat /\ Len(lines) > 0 /\ lines # <<>>
      /\ unended /\ lines[Len(lines)] = Junk
      /\ entry # Junk /\ entry.call \notin acked
  BY <1>1, FileBasics, JunkIsNoEntry, Places DEF LogInv, LogShape, Writing, LastLine
<1>3. CASE glued
  <2>1. lines' = lines
    BY <1>1, <1>3
  <2>2. LogShape'
    BY <1>1, <2>1, Places DEF LogInv, LogShape
  <2>3. Writing'
    BY <1>1, <1>2, <1>3, <2>1, Places DEF LogInv, Writing, LastLine
  <2>4. Clean'
    BY <1>1, <1>3, Places DEF LogInv, Clean
  <2>5. Digests'
    BY <1>1, <1>3, <2>1, Places DEF LogInv, Digests
  <2> QED
    BY <2>1, <2>2, <2>3, <2>4, <2>5 DEF LogInv
<1>4. CASE ~glued
  <2>1. lines' = Front(lines) \o <<entry>>
    BY <1>1, <1>4
  <2>2. /\ IsSeq(lines') /\ Len(lines') = Len(lines) /\ lines'[Len(lines)] = entry
        /\ Agree(lines, lines', Len(lines) - 1)
    BY <1>2, <2>1, LastReplaced, Zenon
  <2>3. \A i \in 1..(Len(lines) - 1) : lines'[i] = lines[i]
    BY <2>2 DEF Agree
  <2>4. lines' # <<>>
    BY <1>2, <2>2, FileBasics
  <2>5. Calls(lines') \subseteq Calls(lines) \cup {entry.call}
    <3>1. ASSUME NEW c \in Calls(lines'), c # entry.call PROVE c \in Calls(lines)
      <4>1. lines'[1] # Junk
        BY <2>2, <3>1, CallsAre
      <4>2. PICK i \in 1..Len(lines') : lines'[i] # Junk /\ c = lines'[i].call
        BY <2>2, <3>1, <4>1, CallsAre
      <4>3. i \in 1..(Len(lines) - 1) /\ 1 \in 1..(Len(lines) - 1) /\ i \in 1..Len(lines)
        BY <1>2, <2>2, <3>1, <4>2
      <4>4. lines[1] # Junk /\ lines[i] # Junk /\ c = lines[i].call
        BY <2>3, <4>1, <4>2, <4>3
      <4> QED
        BY <1>2, <4>3, <4>4, CallsAre
    <3> QED
      BY <3>1
  <2>6. Calls(lines) \subseteq Calls(lines')
    <3>1. ASSUME NEW c \in Calls(lines) PROVE c \in Calls(lines')
      <4>1. lines[1] # Junk
        BY <1>2, <3>1, CallsAre
      <4>2. PICK i \in 1..Len(lines) : lines[i] # Junk /\ c = lines[i].call
        BY <1>2, <3>1, <4>1, CallsAre
      <4>3. i \in 1..(Len(lines) - 1) /\ 1 \in 1..(Len(lines) - 1) /\ i \in 1..Len(lines')
        BY <1>2, <2>2, <4>1, <4>2
      <4>4. lines'[1] # Junk /\ lines'[i] # Junk /\ c = lines'[i].call
        BY <2>3, <4>1, <4>2, <4>3
      <4> QED
        BY <1>2, <2>2, <4>3, <4>4, CallsAre
    <3> QED
      BY <3>1
  <2>7. LogShape'
    BY <1>1, <2>2, Places DEF LogInv, LogShape
  <2>8. Writing'
    BY <1>1, <1>2, <1>4, <2>2, <2>4, Places DEF LogInv, Writing, LastLine
  <2>9. Clean'
    <3>1. ASSUME hit = {} PROVE Whole(lines', Len(lines'))
      <4>1. Whole(lines, Len(lines) - 1)
        BY <1>1, <3>1 DEF LogInv, Clean
      <4> QED
        BY <1>2, <2>2, <2>3, <4>1 DEF Whole
    <3>2. ASSUME hit = {} PROVE acked \subseteq aged \cup Readable'
      BY <1>1, <2>6, <3>2 DEF LogInv, Clean, Readable
    <3> QED
      BY <1>1, <1>4, <3>1, <3>2, Places DEF LogInv, Clean
  <2>10. Digests'
    <3>1. ASSUME "error" \notin hit, Whole(lines', Len(lines'))
          PROVE  entry.seq = Len(lines') - 1 /\ GoodLine(lines', Len(lines'))
      <4>1. Whole(lines, Len(lines) - 1)
        BY <1>2, <2>2, <2>3, <3>1 DEF Whole
      <4>2. /\ AtEnd(handle, lines, Len(lines) - 1) /\ entry.seq = handle.next
            /\ entry.chain = Chain(handle.chain, handle.next, entry.call)
        BY <1>1, <1>4, <3>1, <4>1, Places DEF LogInv, Digests
      <4>3. Len(lines) # 1 => lines'[Len(lines) - 1] = lines[Len(lines) - 1]
        <5>1. Len(lines) \in Nat /\ Len(lines) > 0
          BY <1>2
        <5>2. \A n \in Nat : n > 0 /\ n # 1 => n - 1 \in 1..(n - 1)
          OBVIOUS
        <5> QED
          BY <2>3, <5>1, <5>2, Zenon
      <4> QED
        BY <1>2, <2>2, <4>2, <4>3 DEF AtEnd, GoodLine
    <3>2. ASSUME "error" \notin hit PROVE GoodFile(lines')
      <4>1. \A i \in 1..Len(lines') : i > Len(lines) - 1 /\ Whole(lines', i) => GoodLine(lines', i)
        BY <1>2, <2>2, <3>1, <3>2
      <4>2. GoodFile(lines)
        BY <3>2 DEF LogInv, Digests
      <4>3. Len(lines) - 1 \in Nat /\ Len(lines) - 1 <= Len(lines) /\ Len(lines) - 1 <= Len(lines')
        BY <1>2, <2>2
      <4> QED
        BY <1>2, <2>2, <4>1, <4>2, <4>3, GoodStays
    <3> QED
      BY <1>1, <3>1, <3>2, Places DEF LogInv, Digests
  <2> QED
    BY <2>5, <2>6, <2>7, <2>8, <2>9, <2>10 DEF LogInv
<1> QED
  BY <1>3, <1>4

LEMMA NewlineStep == ASSUME LogInv, WriteNewline PROVE LogInv'
<1>1. /\ pc = <<"newline">> /\ pc' = <<"sync">> /\ unended' = FALSE
      /\ UNCHANGED <<lines, archive, handle, entry, glued, appends, acked, aged, hit>>
  BY DEF WriteNewline, calls
<1>2. LogShape'
  BY <1>1, Places DEF LogInv, LogShape
<1>3. Writing'
  BY <1>1, Places DEF LogInv, Writing, LastLine
<1>4. Clean'
  BY <1>1, Places DEF LogInv, Clean, Readable
<1>5. Digests'
  BY <1>1, Places DEF LogInv, Digests
<1> QED
  BY <1>2, <1>3, <1>4, <1>5 DEF LogInv

LEMMA SyncStep ==
    ASSUME LogInv, SyncReturn
    PROVE  LogInv' /\ acked' = acked \cup {entry.call}
<1>1. /\ pc = <<"sync">> /\ pc' = <<"idle">> /\ acked' = acked \cup {entry.call}
      /\ handle' = [handle EXCEPT !.chain = entry.chain, !.next = @ + 1]
      /\ UNCHANGED <<lines, unended, archive, entry, glued, appends, aged, hit>>
  BY DEF SyncReturn, file, calls
<1>2. /\ handle' = [open |-> handle'.open, chain |-> handle'.chain, next |-> handle'.next]
      /\ handle'.chain = entry.chain /\ handle'.next = handle.next + 1
  BY <1>1 DEF LogInv, LogShape
<1>3. /\ IsSeq(lines) /\ Len(lines) \in Nat /\ Len(lines) > 0 /\ ~unended
      /\ lines[Len(lines)] = IF glued THEN Junk ELSE entry
      /\ entry.call \in 1..appends
  BY <1>1, FileBasics, Places DEF LogInv, LogShape, Writing, LastLine
<1>4. LogShape'
  BY <1>1, <1>2, <1>3, Places DEF LogInv, LogShape
<1>5. Writing'
  BY <1>1, <1>3, Places DEF LogInv, Writing, LastLine
<1>6. Clean'
  <2>1. ASSUME hit = {} PROVE entry.call \in Calls(lines)
    <3>1. ~glued /\ Whole(lines, Len(lines))
      BY <1>1, <2>1, Places DEF LogInv, Clean
    <3>2. lines[1] # Junk /\ lines[Len(lines)] # Junk /\ lines[Len(lines)] = entry
          /\ Len(lines) \in 1..Len(lines)
      BY <1>3, <3>1 DEF Whole
    <3> QED
      BY <1>3, <3>2, CallsAre
  <2> QED
    BY <1>1, <1>3, <2>1, Places DEF LogInv, Clean, Readable
<1>7. Digests'
  <2>1. ASSUME "error" \notin hit, Whole(lines, Len(lines))
        PROVE  AtEnd(handle', lines, Len(lines))
    <3>1. ~glued /\ lines[Len(lines)] = entry
      BY <1>3, <2>1 DEF Whole
    <3>2. entry.seq = handle.next /\ entry.seq = Len(lines) - 1
      BY <1>1, <2>1, <3>1, Places DEF LogInv, Digests
    <3> QED
      BY <1>2, <1>3, <3>1, <3>2 DEF AtEnd
  <2> QED
    BY <1>1, <2>1, Places DEF LogInv, Digests
<1> QED
  BY <1>1, <1>4, <1>5, <1>6, <1>7 DEF LogInv

\* A file that is not there.
LEMMA NoFile == /\ IsSeq(<<>>) /\ Len(<<>>) = 0 /\ Calls(<<>>) = {} /\ GoodFile(<<>>)
                /\ Whole(<<>>, Len(<<>>))
<1>1. IsSeq(<<>>) /\ Len(<<>>) = 0
  BY DEF IsSeq
<1> QED
  BY <1>1, CallsAre DEF GoodFile, Whole

LEMMA RotateStep == ASSUME LogInv, Rotate, AuditLogAssumption PROVE LogInv'
<1>1. /\ pc = <<"idle">> /\ pc' = Shift(MaxRotations - 1)
      /\ UNCHANGED <<lines, unended, archive, handle, entry, glued, appends, acked, aged, hit>>
  BY DEF Rotate, FirstShift, file
<1>2. /\ MaxRotations - 1 \in Int /\ MaxRotations - 1 \in 1..(MaxRotations - 1)
      /\ \A i \in 1..(MaxRotations - 2) : i \in Int /\ i # MaxRotations - 1
  BY DEF AuditLogAssumption
<1>3. pc' \notin Midway /\ pc' # <<"idle">> /\ pc' # <<"move">>
  BY <1>1, <1>2, Places
<1>4. LogShape'
  BY <1>1, <1>2 DEF LogInv, LogShape
<1>5. Writing'
  BY <1>1, <1>3, Places DEF LogInv, Writing, LastLine
<1>6. Clean'
  <2>1. \A i \in 1..(MaxRotations - 2) : pc' # Shift(i)
    BY <1>1, <1>2, Places
  <2> QED
    BY <1>1, <1>3, <2>1, Places DEF LogInv, Clean, Readable
<1>7. Digests'
  BY <1>1, <1>3, Places DEF LogInv, Digests
<1> QED
  BY <1>4, <1>5, <1>6, <1>7 DEF LogInv

LEMMA ShiftStep ==
    ASSUME LogInv, NEW i \in 1..(MaxRotations - 1), ShiftOne(i), AuditLogAssumption
    PROVE  LogInv' /\ Readable' \subseteq Readable
<1>1. /\ pc = Shift(i) /\ pc' = AfterShift(i)
      /\ UNCHANGED <<lines, unended, handle, entry, glued, appends, acked>>
      /\ \/ /\ archive' = [archive EXCEPT ![i + 1] = archive[i], ![i] = <<>>]
            /\ aged' = IF i + 1 = MaxRotations THEN aged \cup Calls(archive[i + 1]) ELSE aged
            /\ hit' = hit
         \/ archive[i] = <<>> /\ UNCHANGED <<archive, aged, hit>>
         \/ hit' = hit \cup {"rename"} /\ UNCHANGED <<archive, aged>>
  BY DEF ShiftOne, file, calls, Strikes
<1>2. /\ i \in 1..MaxRotations /\ i + 1 \in 1..MaxRotations /\ i \in Int /\ i + 1 # i
      /\ i + 1 # MaxRotations => i \in 1..(MaxRotations - 2)
  BY DEF AuditLogAssumption
<1>3. pc \notin Midway /\ pc # <<"idle">> /\ pc # <<"move">>
  BY <1>1, <1>2, Places
<1>4. /\ pc' \notin Midway /\ pc' # <<"idle">>
      /\ pc' \in {<<"move">>} \cup {Shift(j) : j \in 1..(MaxRotations - 1)}
      /\ \A j \in 1..(MaxRotations - 2) : pc' = Shift(j) => i = j + 1
      /\ pc' = <<"move">> => i = 1
  <2>1. CASE i = 1
    BY <1>1, <2>1, Places DEF AfterShift
  <2>2. CASE i # 1
    <3>1. i - 1 \in 1..(MaxRotations - 1) /\ i - 1 \in Int /\ pc' = Shift(i - 1)
      BY <1>1, <2>2 DEF AfterShift
    <3>2. \A j \in 1..(MaxRotations - 2) : pc' = Shift(j) => i - 1 = j
      BY <3>1, Places
    <3> QED
      BY <3>1, <3>2, Places
  <2> QED
    BY <2>1, <2>2
<1>5. /\ archive' = [n \in 1..MaxRotations |-> archive'[n]]
      /\ \A n \in 1..MaxRotations :
            \/ archive'[n] = archive[n] \/ archive'[n] = <<>>
            \/ n = i + 1 /\ archive'[n] = archive[i]
      /\ \A n \in 1..MaxRotations : n # i /\ n # i + 1 => archive'[n] = archive[n]
      /\ hit' = {} => archive'[i] = <<>>
      /\ archive' = archive \/ archive'[i + 1] = archive[i]
  BY <1>1, <1>2 DEF LogInv, LogShape
<1>6. LogShape'
  <2>1. \A n \in 1..MaxRotations : IsSeq(archive'[n])
    BY <1>2, <1>5, NoFile DEF LogInv, LogShape
  <2> QED
    BY <1>1, <1>4, <1>5, <2>1 DEF LogInv, LogShape
<1>7. Writing'
  BY <1>1, <1>3, <1>4, Places DEF LogInv, Writing, LastLine
<1>8. Readable' \subseteq Readable
  <2>1. \A n \in 1..MaxRotations : Calls(archive'[n]) \subseteq Readable
    BY <1>2, <1>5, NoFile DEF Readable
  <2> QED
    BY <1>1, <2>1 DEF Readable
<1>9. Clean'
  <2>1. ASSUME hit' = {} PROVE acked \subseteq aged' \cup Readable'
    <3>1. hit = {} /\ aged \subseteq aged'
      BY <1>1, <2>1
    <3>2. Calls(lines) \subseteq aged' \cup Readable'
      BY <1>1 DEF Readable
    <3>3. ASSUME NEW n \in 1..MaxRotations PROVE Calls(archive[n]) \subseteq aged' \cup Readable'
      <4>1. CASE archive' = archive
        BY <4>1 DEF Readable
      <4>2. CASE n = i /\ archive' # archive
        BY <1>2, <1>5, <4>2 DEF Readable
      <4>3. CASE n = i + 1 /\ archive' # archive
        <5>1. CASE i + 1 = MaxRotations
          BY <1>1, <4>3, <5>1
        <5>2. CASE i + 1 # MaxRotations
          BY <1>1, <1>2, <3>1, <4>3, <5>2, NoFile DEF LogInv, Clean
        <5> QED
          BY <5>1, <5>2
      <4>4. CASE n # i /\ n # i + 1
        BY <1>5, <4>4 DEF Readable
      <4> QED
        BY <4>1, <4>2, <4>3, <4>4
    <3>4. Readable \subseteq aged' \cup Readable'
      BY <3>2, <3>3 DEF Readable
    <3> QED
      BY <3>1, <3>4 DEF LogInv, Clean
  <2>2. ASSUME hit' = {} PROVE hit = {}
    BY <1>1, <2>2
  <2>3. ASSUME hit' = {}, NEW j \in 1..(MaxRotations - 2), pc' = Shift(j) PROVE archive'[j + 1] = <<>>
    BY <1>4, <1>5, <2>3
  <2>4. ASSUME hit' = {}, pc' = <<"move">> PROVE archive'[1] = <<>>
    BY <1>4, <1>5, <2>4
  <2>5. /\ pc \notin {<<"full">>, <<"newline">>} /\ pc # <<"full">>
        /\ pc' \notin {<<"full">>, <<"newline">>} /\ pc' # <<"full">>
    BY <1>3, <1>4, Places
  <2> QED
    BY <1>1, <1>4, <2>1, <2>2, <2>3, <2>4, <2>5 DEF LogInv, Clean
<1>10. Digests'
  <2>1. ASSUME "error" \notin hit' PROVE "error" \notin hit /\ \A n \in 1..MaxRotations : GoodFile(archive'[n])
    <3>1. "error" \notin hit
      BY <1>1, <2>1
    <3> QED
      BY <1>2, <1>5, <3>1, NoFile DEF LogInv, Digests
  <2> QED
    BY <1>1, <1>3, <1>4, <2>1, Places DEF LogInv, Digests
<1> QED
  BY <1>6, <1>7, <1>8, <1>9, <1>10 DEF LogInv

LEMMA MoveStep ==
    ASSUME LogInv, Move, AuditLogAssumption
    PROVE  LogInv' /\ Readable' \subseteq Readable
<1>1. /\ pc = <<"move">> /\ pc' = <<"idle">> /\ lines' = <<>> /\ unended' = FALSE
      /\ archive' = IF lines = <<>> THEN archive ELSE [archive EXCEPT ![1] = lines]
      /\ handle' = [open |-> TRUE, chain |-> <<>>, next |-> 0]
      /\ UNCHANGED <<entry, glued, appends, acked, aged, hit>>
  BY DEF Move, calls, Head0
<1>2. 1 \in 1..MaxRotations
  BY DEF AuditLogAssumption
<1>3. /\ archive' = [n \in 1..MaxRotations |-> archive'[n]]
      /\ \A n \in 1..MaxRotations : archive'[n] = archive[n] \/ (n = 1 /\ archive'[n] = lines)
      /\ lines = <<>> \/ archive'[1] = lines
      /\ \A n \in 1..MaxRotations : n # 1 => archive'[n] = archive[n]
  BY <1>1, <1>2 DEF LogInv, LogShape
<1>4. handle'.chain = <<>> /\ handle'.next = 0
      /\ handle' = [open |-> handle'.open, chain |-> handle'.chain, next |-> handle'.next]
  BY <1>1
<1>5. LogShape'
  <2>1. IsSeq(lines') /\ \A n \in 1..MaxRotations : IsSeq(archive'[n])
    BY <1>1, <1>3, NoFile DEF LogInv, LogShape
  <2> QED
    BY <1>1, <1>3, <1>4, <2>1 DEF LogInv, LogShape
<1>6. Writing'
  BY <1>1, Places DEF LogInv, Writing
<1>7. Readable' \subseteq Readable
  <2>1. \A n \in 1..MaxRotations : Calls(archive'[n]) \subseteq Readable
    BY <1>3 DEF Readable
  <2> QED
    BY <1>1, <2>1, NoFile DEF Readable
<1>8. Clean'
  <2>1. ASSUME hit = {} PROVE Readable \subseteq Readable'
    <3>1. Calls(archive[1]) = {}
      BY <1>1, <2>1, NoFile DEF LogInv, Clean
    <3>2. Calls(lines) \subseteq Readable'
      BY <1>2, <1>3, NoFile DEF Readable
    <3>3. ASSUME NEW n \in 1..MaxRotations PROVE Calls(archive[n]) \subseteq Readable'
      BY <1>3, <3>1 DEF Readable
    <3> QED
      BY <3>2, <3>3 DEF Readable
  <2>2. Whole(lines', Len(lines'))
    BY <1>1, NoFile
  <2>3. \A i \in 1..(MaxRotations - 2) : i \in Int /\ pc' # Shift(i)
    BY <1>1, Places
  <2> QED
    BY <1>1, <2>1, <2>2, <2>3, Places DEF LogInv, Clean
<1>9. Digests'
  <2>1. ASSUME "error" \notin hit PROVE GoodFile(lines') /\ \A n \in 1..MaxRotations : GoodFile(archive'[n])
    BY <1>1, <1>3, <2>1, NoFile DEF LogInv, Digests
  <2>2. AtEnd(handle', lines', Len(lines'))
    BY <1>1, <1>4, NoFile DEF AtEnd
  <2> QED
    BY <1>1, <2>1, <2>2, Places DEF LogInv, Digests
<1> QED
  BY <1>5, <1>6, <1>7, <1>8, <1>9 DEF LogInv

\* A call is cut short; what it wrote stays.
LEMMA CutStep ==
    ASSUME LogInv, pc' = <<"idle">>,
           UNCHANGED <<lines, unended, archive, entry, glued, appends, acked, aged>>,
           handle' = handle \/ handle' = Closed,
           \/ hit' = hit \cup {"error"}
           \/ handle' = Closed /\ hit' = hit \cup {"crash"}
           \/ handle' = Closed /\ hit' = hit /\ pc \notin Midway
    PROVE  LogInv'
<1>1. handle' = [open |-> handle'.open, chain |-> handle'.chain, next |-> handle'.next]
  BY DEF LogInv, LogShape, Closed
<1>2. /\ pc' \notin Midway /\ pc' # <<"move">> /\ pc' # <<"full">> /\ pc' # <<"newline">>
      /\ pc' # <<"part">> /\ pc' # <<"sync">>
      /\ \A i \in 1..(MaxRotations - 2) : i \in Int /\ pc' # Shift(i)
  BY Places
<1>3. LogShape'
  BY <1>1 DEF LogInv, LogShape
<1>4. Writing'
  BY <1>2, Places DEF LogInv, Writing, LastLine
<1>5. Clean'
  <2>1. ASSUME hit' = {} PROVE hit = {} /\ pc \notin Midway
    BY <2>1
  <2> QED
    BY <1>2, <2>1, Places DEF LogInv, Clean, Readable
<1>6. Digests'
  <2>1. ASSUME "error" \notin hit' PROVE "error" \notin hit /\ ~handle'.open
    BY <2>1 DEF Closed
  <2> QED
    BY <1>2, <2>1, Places DEF LogInv, Digests
<1> QED
  BY <1>3, <1>4, <1>5, <1>6 DEF LogInv

\* revoke lets go of the handle before it opens its own.
LEMMA CloseStep ==
    ASSUME LogInv, pc = <<"idle">>, handle' = Closed,
           UNCHANGED <<lines, unended, archive, pc, entry, glued, appends, acked, aged, hit>>
    PROVE  LogInv'
BY CutStep, Places

LEMMA FailStep ==
    ASSUME LogInv, Fail, handle' = handle \/ handle' = Closed
    PROVE  LogInv'
<1>1. /\ pc' = <<"idle">> /\ hit' = hit \cup {"error"}
      /\ UNCHANGED <<lines, unended, archive, entry, glued, appends, acked, aged>>
  BY DEF Fail, Strikes, file, calls
<1> QED
  BY <1>1, CutStep

LEMMA CrashStep == ASSUME LogInv, Crash PROVE LogInv'
<1>1. /\ pc' = <<"idle">> /\ handle' = Closed
      /\ UNCHANGED <<lines, unended, archive, entry, glued, appends, acked, aged>>
      /\ hit' = hit \cup {"crash"} \/ (hit' = hit /\ pc \notin Midway)
  BY DEF Crash, Strikes, file, calls
<1> QED
  BY <1>1, CutStep

LEMMA LogUnchanged == ASSUME LogInv, UNCHANGED logVars PROVE LogInv'
<1>1. UNCHANGED <<lines, unended, archive, handle, pc, entry, glued, appends, acked, aged, hit>>
  BY DEF logVars
<1>2. LogShape'
  BY <1>1 DEF LogInv, LogShape
<1>3. Writing'
  BY <1>1 DEF LogInv, Writing, LastLine
<1>4. Clean'
  BY <1>1 DEF LogInv, Clean, Readable
<1>5. Digests'
  BY <1>1 DEF LogInv, Digests
<1> QED
  BY <1>2, <1>3, <1>4, <1>5 DEF LogInv

LEMMA LogStarts == LogInit /\ AuditLogAssumption => LogInv
<1> SUFFICES ASSUME LogInit, AuditLogAssumption PROVE LogInv
  OBVIOUS
<1>1. /\ lines = <<>> /\ unended = FALSE /\ handle = [open |-> FALSE, chain |-> <<>>, next |-> 0]
      /\ entry = [seq |-> 0, call |-> 0, chain |-> <<>>]
      /\ archive = [n \in 1..MaxRotations |-> <<>>] /\ \A n \in 1..MaxRotations : archive[n] = <<>>
      /\ pc = <<"idle">> /\ glued = FALSE /\ appends = 0 /\ acked = {} /\ hit = {}
  BY DEF LogInit, Closed, NoEntry
<1>2. \A i \in 1..(MaxRotations - 2) : i \in Int /\ pc # Shift(i)
  BY <1>1, Places
<1>3. LogShape
  BY <1>1, NoFile DEF LogShape
<1>4. Writing
  BY <1>1, Places DEF Writing
<1>5. Clean
  BY <1>1, <1>2, NoFile, Places DEF Clean
<1>6. Digests
  BY <1>1, NoFile, Places DEF Digests
<1> QED
  BY <1>3, <1>4, <1>5, <1>6 DEF LogInv

-----------------------------------------------------------------------------
(* The engine.  A record counts as noticed while it is on its way.         *)

Coming == IF busy # NoProc /\ pc \in Midway THEN {entry.call} ELSE {}

RevInv ==
    /\ IsSeq(history)
    /\ made \subseteq 1..appends /\ Noticed \subseteq acked
    /\ busy = NoProc /\ pc \in Midway => entry.call \notin made
    /\ busy # NoProc => pc \in Midway \cup {<<"idle">>}
    /\ "error" \notin hit => made \cap Readable \subseteq Noticed \cup Coming

\* What a call on the log does to what can be read and to the counters.
LEMMA WriteReads ==
    ASSUME LogInv, WritePart \/ WriteFull \/ WriteNewline
    PROVE  /\ LogInv' /\ Readable' \subseteq Readable \cup {entry.call}
           /\ pc' \in Midway /\ pc \in Midway /\ UNCHANGED <<entry, appends, acked, hit>>
<1>1. CASE WritePart
  BY <1>1, PartStep, Places DEF WritePart, calls, Readable
<1>2. CASE WriteFull
  BY <1>2, FullStep, Places DEF WriteFull, calls, Readable
<1>3. CASE WriteNewline
  BY <1>3, NewlineStep, Places DEF WriteNewline, calls, Readable
<1> QED
  BY <1>1, <1>2, <1>3

\* What the engine holds is as good after a step that changes nothing it depends on.
LEMMA EngineKept ==
    ASSUME RevInv, UNCHANGED <<history, made, acked, appends>>, busy' = NoProc,
           Readable' \subseteq Readable \/ "error" \in hit',
           hit \subseteq hit', pc' \notin Midway,
           busy = NoProc \/ "error" \in hit'
    PROVE  RevInv'
<1>1. Noticed' = Noticed
  BY DEF Noticed
<1>2. "error" \notin hit' => Coming = {}
  BY DEF Coming
<1> QED
  BY <1>1, <1>2 DEF RevInv

LEMMA EngineNotes ==
    ASSUME RevInv, LogInv, busy # NoProc, SyncReturn, history' = Noted, busy' = NoProc, made' = made
    PROVE  RevInv'
<1>1. /\ pc = <<"sync">> /\ pc' = <<"idle">> /\ acked' = acked \cup {entry.call}
      /\ UNCHANGED <<lines, archive, appends, hit>>
      /\ history' = Append(history, entry.call)
  BY DEF SyncReturn, file, calls, Noted
<1>2. /\ IsSeq(history) /\ IsSeq(history') /\ Len(history) \in Nat /\ Len(history') = Len(history) + 1
      /\ history'[Len(history')] = entry.call /\ Agree(history, history', Len(history))
      /\ DOMAIN history = 1..Len(history) /\ DOMAIN history' = 1..Len(history')
  <2>1. IsSeq(history)
    BY DEF RevInv
  <2>2. /\ IsSeq(history') /\ Len(history') = Len(history) + 1
        /\ history'[Len(history')] = entry.call /\ Agree(history, history', Len(history))
    BY <1>1, <2>1, LineAdded, Zenon
  <2> QED
    BY <2>1, <2>2, FileBasics
<1>3. Noticed' = Noticed \cup {entry.call}
  <2>1. ASSUME NEW c \in Noticed PROVE c \in Noticed'
    <3>1. PICK i \in 1..Len(history) : c = history[i]
      BY <1>2, <2>1 DEF Noticed
    <3>2. i \in 1..Len(history') /\ history'[i] = c
      BY <1>2, <3>1 DEF Agree
    <3> QED
      BY <1>2, <3>2 DEF Noticed
  <2>2. entry.call \in Noticed'
    <3>1. Len(history') \in 1..Len(history')
      BY <1>2
    <3> QED
      BY <1>2, <3>1 DEF Noticed
  <2>3. ASSUME NEW c \in Noticed', c # entry.call PROVE c \in Noticed
    <3>1. PICK i \in 1..Len(history') : c = history'[i]
      BY <1>2, <2>3 DEF Noticed
    <3>2. i \in 1..Len(history) /\ history[i] = c
      BY <1>2, <2>3, <3>1 DEF Agree
    <3> QED
      BY <1>2, <3>2 DEF Noticed
  <2> QED
    BY <2>1, <2>2, <2>3
<1>4. Readable' = Readable
  BY <1>1 DEF Readable
<1> QED
  BY <1>1, <1>2, <1>3, <1>4, Places DEF RevInv, Coming

LEMMA EngineStep ==
    ASSUME LogInv, RevInv, AuditLogAssumption, RevocationAssumption, [Next]_vars
    PROVE  LogInv' /\ RevInv'
<1>1. ASSUME NEW p \in Procs, Issue(p) \/ Expire(p) PROVE LogInv' /\ RevInv'
  <2>1. UNCHANGED logVars /\ UNCHANGED <<history, busy, made>>
    BY <1>1 DEF Issue, Expire
  <2> QED
    BY <2>1, LogUnchanged DEF RevInv, Noticed, Coming, Readable, logVars
<1>2. ASSUME NEW p \in Procs, Revoke(p) PROVE LogInv' /\ RevInv'
  <2>1. /\ pc = <<"idle">> /\ handle' = Closed /\ busy = NoProc /\ busy' = p
        /\ UNCHANGED <<lines, unended, archive, pc, entry, glued, appends, acked, aged, hit>>
        /\ UNCHANGED <<history, made>>
    BY <1>2 DEF Revoke, file, calls
  <2>2. LogInv'
    BY <2>1, CloseStep
  <2> QED
    BY <2>1, <2>2, Places DEF RevInv, Noticed, Coming, Readable
<1>3. CASE ReapExpired
  <2>1. UNCHANGED logVars /\ UNCHANGED <<history, busy, made>>
    BY <1>3 DEF ReapExpired
  <2> QED
    BY <2>1, LogUnchanged DEF RevInv, Noticed, Coming, Readable, logVars
<1>4. CASE OpenLog
  <2>1. Open /\ UNCHANGED <<history, busy, made>>
    BY <1>4 DEF OpenLog, engine
  <2>2. LogInv' /\ UNCHANGED <<lines, archive, pc, entry, appends, acked, hit>>
    BY <2>1, OpenStep DEF Open, file, calls
  <2> QED
    BY <2>1, <2>2 DEF RevInv, Noticed, Coming, Readable
<1>5. CASE BeginRecord
  <2>1. Begin /\ made' = made \cup {entry'.call} /\ UNCHANGED <<history, busy>> /\ busy # NoProc
    BY <1>5 DEF BeginRecord
  <2>2. /\ LogInv' /\ entry'.call = appends + 1 /\ appends' = appends + 1
        /\ pc = <<"idle">> /\ pc' = <<"part">>
        /\ UNCHANGED <<lines, archive, acked, hit>> /\ appends \in Nat
    BY <2>1, BeginStep DEF Begin, file, LogInv, LogShape
  <2>3. Coming = {} /\ Coming' = {entry'.call}
    BY <2>1, <2>2, Places DEF Coming
  <2>4. made' \subseteq 1..appends'
    BY <2>1, <2>2 DEF RevInv
  <2> QED
    BY <2>1, <2>2, <2>3, <2>4, Places DEF RevInv, Noticed, Readable
<1>6. CASE WriteRecord
  <2>1. (WritePart \/ WriteFull \/ WriteNewline) /\ busy # NoProc /\ UNCHANGED <<history, busy, made>>
    BY <1>6 DEF WriteRecord, engine
  <2>2. /\ LogInv' /\ Readable' \subseteq Readable \cup {entry.call}
        /\ pc' \in Midway /\ pc \in Midway /\ UNCHANGED <<entry, appends, acked, hit>>
    BY <2>1, WriteReads
  <2> QED
    BY <2>1, <2>2 DEF RevInv, Noticed, Coming
<1>7. CASE Finish
  BY <1>7, SyncStep, EngineNotes DEF Finish
<1>8. CASE GiveUp
  <2>1. CASE Fail /\ handle' = Closed
    <3>1. /\ LogInv' /\ pc' = <<"idle">> /\ hit' = hit \cup {"error"} /\ busy' = NoProc
          /\ UNCHANGED <<acked, appends, history, made>>
      BY <1>8, <2>1, FailStep DEF GiveUp, Fail, Strikes, calls
    <3> QED
      BY <3>1, EngineKept, Places
  <2>2. CASE ~handle.open /\ UNCHANGED logVars
    <3>1. LogInv' /\ busy # NoProc /\ busy' = NoProc /\ UNCHANGED <<history, made>>
      BY <1>8, <2>2, LogUnchanged DEF GiveUp
    <3>2. pc \notin Midway
      BY <2>2 DEF LogInv, Writing
    <3> QED
      BY <2>2, <3>1, <3>2 DEF RevInv, Noticed, Coming, Readable, logVars
  <2> QED
    BY <1>8, <2>1, <2>2 DEF GiveUp
<1>9. CASE OwnCall
  <2>1. busy = NoProc /\ LogCall /\ UNCHANGED <<history, busy, made>>
    BY <1>9 DEF OwnCall, engine
  <2>2. CASE Open
    <3>1. LogInv' /\ UNCHANGED <<lines, archive, pc, entry, appends, acked, hit>>
      BY <2>2, OpenStep DEF Open, file, calls
    <3> QED
      BY <2>1, <3>1 DEF RevInv, Noticed, Coming, Readable
  <2>3. CASE Begin
    <3>1. /\ LogInv' /\ entry'.call = appends + 1 /\ appends' = appends + 1
          /\ pc = <<"idle">> /\ UNCHANGED <<lines, archive, acked, hit>> /\ appends \in Nat
      BY <2>3, BeginStep DEF Begin, file, LogInv, LogShape
    <3>2. made \subseteq 1..(appends + 1) /\ appends + 1 \notin made
      BY <3>1 DEF RevInv
    <3> QED
      BY <2>1, <3>1, <3>2, Places DEF RevInv, Noticed, Coming, Readable
  <2>4. CASE WritePart \/ WriteFull \/ WriteNewline
    <3>1. /\ LogInv' /\ Readable' \subseteq Readable \cup {entry.call}
          /\ pc' \in Midway /\ pc \in Midway /\ UNCHANGED <<entry, appends, acked, hit>>
      BY <2>4, WriteReads
    <3> QED
      BY <2>1, <3>1 DEF RevInv, Noticed, Coming
  <2>5. CASE SyncReturn
    <3>1. /\ LogInv' /\ acked' = acked \cup {entry.call} /\ pc' = <<"idle">>
          /\ UNCHANGED <<lines, archive, entry, appends, hit>>
      BY <2>5, SyncStep DEF SyncReturn, file, calls
    <3> QED
      BY <2>1, <3>1, Places DEF RevInv, Noticed, Coming, Readable
  <2>6. CASE Rotating
    <3>1. CASE Rotate
      <4>1. /\ LogInv' /\ pc' = Shift(MaxRotations - 1) /\ UNCHANGED <<lines, archive, acked, appends, hit>>
        BY <3>1, RotateStep DEF Rotate, FirstShift, file
      <4>2. pc' \notin Midway
        BY <4>1, Places DEF AuditLogAssumption
      <4>3. Readable' = Readable
        BY <4>1 DEF Readable
      <4> QED
        BY <2>1, <4>1, <4>2, <4>3, EngineKept
    <3>2. ASSUME NEW i \in 1..(MaxRotations - 1), ShiftOne(i) PROVE LogInv' /\ RevInv'
      <4>1. /\ LogInv' /\ Readable' \subseteq Readable /\ pc' = AfterShift(i)
            /\ UNCHANGED <<acked, appends>> /\ hit \subseteq hit'
        BY <3>2, ShiftStep DEF ShiftOne, calls, Strikes
      <4>2. pc' \notin Midway
        BY <4>1, Places DEF AfterShift
      <4> QED
        BY <2>1, <4>1, <4>2, EngineKept
    <3>3. CASE Move
      <4>1. /\ LogInv' /\ Readable' \subseteq Readable /\ pc' = <<"idle">>
            /\ UNCHANGED <<acked, appends, hit>>
        BY <3>3, MoveStep DEF Move, calls
      <4> QED
        BY <2>1, <4>1, EngineKept, Places
    <3> QED
      BY <2>6, <3>1, <3>2, <3>3 DEF Rotating
  <2>7. CASE Fail /\ UNCHANGED handle
    <3>1. /\ LogInv' /\ pc' = <<"idle">> /\ hit' = hit \cup {"error"}
          /\ UNCHANGED <<acked, appends>>
      BY <2>7, FailStep DEF Fail, Strikes, calls
    <3> QED
      BY <2>1, <3>1, EngineKept, Places
  <2> QED
    BY <2>1, <2>2, <2>3, <2>4, <2>5, <2>6, <2>7 DEF LogCall, Appending
<1>10. CASE Restart
  <2>1. /\ Crash /\ history' = <<>> /\ busy' = NoProc /\ made' = {}
    BY <1>10 DEF Restart
  <2>2. /\ LogInv' /\ pc' = <<"idle">>
    BY <2>1, CrashStep DEF Crash
  <2>3. IsSeq(history') /\ Noticed' = {}
    BY <2>1, NoFile DEF Noticed
  <2> QED
    BY <2>1, <2>2, <2>3, Places DEF RevInv
<1>11. CASE UNCHANGED vars
  <2>1. UNCHANGED logVars /\ UNCHANGED <<history, busy, made>>
    BY <1>11 DEF vars, engine
  <2> QED
    BY <2>1, LogUnchanged DEF RevInv, Noticed, Coming, Readable, logVars
<1> QED
  BY <1>1, <1>2, <1>3, <1>4, <1>5, <1>6, <1>7, <1>8, <1>9, <1>10, <1>11 DEF Next

THEOREM EngineInv ==
    AuditLogAssumption /\ RevocationAssumption => (Spec => [](LogInv /\ RevInv))
<1> SUFFICES ASSUME AuditLogAssumption, RevocationAssumption PROVE Spec => [](LogInv /\ RevInv)
  OBVIOUS
<1>1. Init => LogInv /\ RevInv
  <2> SUFFICES ASSUME Init PROVE LogInv /\ RevInv
    OBVIOUS
  <2>1. LogInv /\ pc = <<"idle">>
    BY LogStarts DEF Init, LogInit
  <2>2. IsSeq(history) /\ Noticed = {} /\ made = {} /\ busy = NoProc
    BY NoFile DEF Init, Noticed
  <2> QED
    BY <2>1, <2>2, Places DEF RevInv
<1>2. LogInv /\ RevInv /\ [Next]_vars => (LogInv /\ RevInv)'
  BY EngineStep
<1> QED
  BY <1>1, <1>2, PTL DEF Spec

\* Between calls: unless some call on the log has failed, what its files show of the
\* running engine's calls has been noted, whatever was cut short; and while none was
\* even cut short, what was noted is in the files or was rotated out
\* (RevocationEngine::revoke).  An append that fails after its entry is in the file
\* is excepted: there memory and log do disagree.
THEOREM MemoryMatchesLog ==
    AuditLogAssumption /\ RevocationAssumption => (Spec => []HistoryMatchesLog)
<1> SUFFICES ASSUME AuditLogAssumption, RevocationAssumption PROVE Spec => []HistoryMatchesLog
  OBVIOUS
<1>1. LogInv /\ RevInv => HistoryMatchesLog
  <2>1. <<"idle">> \notin {<<"full">>, <<"newline">>} /\ <<"idle">> \notin Midway
    BY Places
  <2> QED
    BY <2>1 DEF LogInv, Clean, RevInv, HistoryMatchesLog, Coming
<1> QED
  BY <1>1, EngineInv, PTL

-----------------------------------------------------------------------------
(* What verify says of the files.                                          *)

LEMMA NoneBad ==
    ASSUME NEW f, IsSeq(f), GoodFile(f), NEW i \in BadEntries(Parse(f))
    PROVE  \E j \in DOMAIN f : f[j] = Junk /\ j <= i
<1> SUFFICES ASSUME ~\E j \in DOMAIN f : f[j] = Junk /\ j <= i PROVE FALSE
  OBVIOUS
<1>1. /\ Len(f) \in Nat /\ DOMAIN f = 1..Len(f)
      /\ Entries(f) \subseteq 1..Len(f) /\ IsFiniteSet(Entries(f))
  BY FileBasics, EntriesAre
<1>2. Cardinality(Entries(f)) <= Len(f) /\ Cardinality(Entries(f)) \in Nat
  BY <1>1, UpTo, FS_Subset, FS_CardinalityType
<1>3. i \in 1..Cardinality(Entries(f))
  BY DEF BadEntries, Parse
<1>4. i \in 1..Len(f) /\ i \in Nat
  BY <1>1, <1>2, <1>3
<1>5. Whole(f, i)
  BY <1>1, <1>4 DEF Whole
<1>6. \A n \in 1..i : Parse(f)[n] = f[n]
  BY <1>4, <1>5, ParsePrefix
<1>7. GoodLine(f, i)
  BY <1>4, <1>5 DEF GoodFile
<1>8. Parse(f)[i] = f[i] /\ (i # 1 => Parse(f)[i - 1] = f[i - 1])
  BY <1>4, <1>6
<1>9. /\ Parse(f)[i].seq = i - 1
      /\ Parse(f)[i].chain =
            Chain(IF i = 1 THEN <<>> ELSE Parse(f)[i - 1].chain, Parse(f)[i].seq, Parse(f)[i].call)
  BY <1>7, <1>8 DEF GoodLine
<1> QED
  BY <1>9, Zenon DEF BadEntries

LEMMA Content ==
    ASSUME NEW f, IsSeq(f), GoodFile(f), AuditExit(f) # 0
    PROVE  Junk \in ToSet(f)
<1> SUFFICES ASSUME Junk \notin ToSet(f) PROVE FALSE
  OBVIOUS
<1>1. Len(f) \in Nat /\ DOMAIN f = 1..Len(f)
  BY FileBasics
<1>2. Whole(f, Len(f))
  BY <1>1 DEF ToSet, Whole
<1>3. Parse(f) = f
  BY <1>2, ParseWhole
<1>4. BadEntries(Parse(f)) = {}
  <2>1. ASSUME NEW i \in BadEntries(Parse(f)) PROVE FALSE
    <3>1. PICK j \in DOMAIN f : f[j] = Junk
      BY <2>1, NoneBad
    <3> QED
      BY <1>1, <1>2, <3>1 DEF Whole
  <2> QED
    BY <2>1
<1>5. AuditExit(f) = 0
  <2>1. CASE f = <<>>
    BY <1>3, <2>1 DEF AuditExit
  <2>2. CASE f # <<>>
    BY <1>3, <1>4, <2>2 DEF AuditExit
  <2> QED
    BY <2>1, <2>2
<1> QED
  BY <1>5

LEMMA LinesStay ==
    ASSUME LogInv, [Next]_vars, pc # <<"move">>
    PROVE  acked \cap Calls(lines) \subseteq Calls(lines')
<1>1. CASE WritePart
  BY <1>1, PartStep
<1>2. CASE WriteFull
  BY <1>2, FullStep
<1>3. CASE UNCHANGED lines
  BY <1>3
<1>4. WritePart \/ WriteFull \/ UNCHANGED lines
  <2>1. LogCall => WritePart \/ WriteFull \/ UNCHANGED lines
    BY DEF LogCall, Open, Appending, Begin, WriteNewline, SyncReturn, Rotating, Rotate, ShiftOne,
           Move, Fail, file
  <2>2. \A p \in Procs : Issue(p) \/ Expire(p) \/ Revoke(p) => UNCHANGED lines
    BY DEF Issue, Expire, Revoke, logVars, file
  <2>3. OpenLog \/ BeginRecord \/ WriteRecord \/ Finish \/ GiveUp \/ Restart \/ ReapExpired
            => WritePart \/ WriteFull \/ UNCHANGED lines
    BY DEF OpenLog, Open, BeginRecord, Begin, WriteRecord, WriteNewline, Finish, SyncReturn,
           GiveUp, Fail, Restart, Crash, ReapExpired, logVars, file
  <2>4. UNCHANGED vars => UNCHANGED lines
    BY DEF vars, logVars
  <2> QED
    BY <2>1, <2>2, <2>3, <2>4 DEF Next, OwnCall
<1> QED
  BY <1>1, <1>2, <1>3, <1>4

\* No append makes an acknowledged entry of the log unreadable.  Between calls, while
\* no call has failed or been cut short, an acknowledged entry can be read until a
\* rotation pushes it out; and while none has failed, verify blames only what follows
\* a torn line (AuditLog::append, rotate, verify_bytes).  A rename that fails does
\* lose entries, and an append that fails after its write does mislead verify.
THEOREM LogIsSound ==
    AuditLogAssumption /\ RevocationAssumption => (Spec => LogTells)
<1> SUFFICES ASSUME AuditLogAssumption, RevocationAssumption PROVE Spec => LogTells
  OBVIOUS
<1>1. LogInv => AckedIsKept
  <2>1. <<"idle">> \notin {<<"full">>, <<"newline">>} /\ <<"idle">> \notin Midway
    BY Places
  <2> QED
    BY <2>1 DEF LogInv, Clean, AckedIsKept
<1>2. LogInv => BlamesAfterTear
  <2> SUFFICES ASSUME LogInv, pc = <<"idle">>, "error" \notin hit
               PROVE  /\ \A i \in BadEntries(Parse(lines)) :
                            \E j \in DOMAIN lines : lines[j] = Junk /\ j <= i
                      /\ \A f \in {lines} \cup {archive[n] : n \in 1..MaxRotations} :
                            AuditExit(f) # 0 => Junk \in ToSet(f)
    BY DEF BlamesAfterTear
  <2>1. \A f \in {lines} \cup {archive[n] : n \in 1..MaxRotations} : IsSeq(f) /\ GoodFile(f)
    BY DEF LogInv, LogShape, Digests
  <2>2. \A i \in BadEntries(Parse(lines)) : \E j \in DOMAIN lines : lines[j] = Junk /\ j <= i
    BY <2>1, NoneBad
  <2>3. ASSUME NEW f \in {lines} \cup {archive[n] : n \in 1..MaxRotations}, AuditExit(f) # 0
        PROVE  Junk \in ToSet(f)
    BY <2>1, <2>3, Content
  <2> QED
    BY <2>2, <2>3
<1>3. LogInv /\ [Next]_vars => [pc # <<"move">> => (acked \cap Calls(lines)) \subseteq Calls(lines')]_logVars
  BY LinesStay
<1> QED
  BY <1>1, <1>2, <1>3, EngineInv, PTL DEF Spec, LogTells, ReadableStays

=============================================================================
