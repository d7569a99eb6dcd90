---------------------------- MODULE Recovery_proofs ----------------------------
(***************************************************************************)
(* What is proved of what is erased for good, which MCRecovery checks, for *)
(* every value of the constants.  The parts share no state: each section   *)
(* is about one of them.                                                   *)
(***************************************************************************)
EXTENDS TemporalEraser, Wipe, ErasureCoding, Shamir, Integers, TLAPS, SequenceTheorems,
        FiniteSetTheorems, NaturalsInduction, WellFoundedInduction

-----------------------------------------------------------------------------
(* TemporalEraser: only idle blocks are overwritten and none is lost sight *)
(* of, for any blocks, TTL and limit per scan.  What users do between the  *)
(* thread's two critical sections is what the invariant is about: a picked *)
(* block is still idle, or its user is on record.                          *)

Types ==
    /\ tracked \in SUBSET Blocks
    /\ age \in [Blocks -> Nat]
    /\ content \in [Blocks -> {"free", "data", "noise"}]
    /\ batch \in SUBSET Blocks /\ left \in SUBSET batch
    /\ raced \in SUBSET Blocks
    /\ pc # "erase" => batch = {}

\* A block still to be overwritten is idle, was touched since it was picked, or
\* was deleted.
PickedIsIdle == \A b \in left : Expired(b) \/ b \in raced \/ content[b] = "free"

\* A picked block that is done with holds data only if a user wrote it since.
DoneIsGone == \A b \in batch \ left : content[b] = "data" => b \in raced

EraserInv == Types /\ PickedIsIdle /\ DoneIsGone /\ DataIsTracked

LEMMA InitEraserInv == Init => EraserInv
BY DEF Init, EraserInv, Types, PickedIsIdle, DoneIsGone, DataIsTracked

LEMMA NextEraserInv == ASSUME EraserInv, [Next]_vars PROVE EraserInv'
<1> USE EraserAssumption DEF EraserInv, Types, PickedIsIdle, DoneIsGone, DataIsTracked, Expired
<1>1. ASSUME NEW b \in Blocks, Touch(b)
      PROVE  EraserInv'
  <2>1. Races(b) \/ b \notin batch
    BY <1>1 DEF Races
  <2> QED
    BY <1>1, <2>1 DEF Touch
<1>2. ASSUME NEW b \in Blocks, Forget(b)
      PROVE  EraserInv'
  BY <1>2 DEF Forget
<1>3. CASE Stop
  BY <1>3 DEF Stop
<1>4. CASE Sleep
  <2>1. batch = {} /\ left = {}
    BY <1>4 DEF Sleep
  <2> QED
    BY <1>4, <2>1 DEF Sleep
<1>5. CASE Scan
  <2>1. \A b \in batch' : b \in Blocks /\ Expired(b)
    BY <1>5 DEF Scan, Selected
  <2> QED
    BY <1>5, <2>1 DEF Scan
<1>6. ASSUME NEW b \in Blocks, Erase(b)
      PROVE  EraserInv'
  <2>1. /\ content'[b] = "noise" /\ \A c \in Blocks \ {b} : content'[c] = content[c]
        /\ content' \in [Blocks -> {"free", "data", "noise"}]
    BY <1>6 DEF Erase
  <2>2. b \in batch /\ left' = left \ {b} /\ pc = "erase"
    BY <1>6 DEF Erase
  <2>3. UNCHANGED <<tracked, age, batch, pc, raced>>
    BY <1>6 DEF Erase
  <2>4. Types'
    BY <2>1, <2>2, <2>3
  <2>5. PickedIsIdle'
    BY <2>1, <2>2, <2>3
  <2>6. DoneIsGone' /\ DataIsTracked'
    BY <2>1, <2>2, <2>3
  <2> QED
    BY <2>4, <2>5, <2>6
<1>7. CASE MarkErased
  BY <1>7 DEF MarkErased
<1>8. CASE UNCHANGED vars
  BY <1>8 DEF vars
<1> QED
  BY <1>1, <1>2, <1>3, <1>4, <1>5, <1>6, <1>7, <1>8 DEF Next, Thread

LEMMA ErasesIdle ==
    ASSUME EraserInv, [Next]_vars,
           NEW b \in Blocks, content[b] # "noise", content'[b] = "noise"
    PROVE  Expired(b) \/ b \in raced \/ content[b] = "free"
<1> USE DEF EraserInv, Types
<1>1. ASSUME NEW c \in Blocks, Touch(c) \/ Forget(c)
      PROVE  FALSE
  BY <1>1 DEF Touch, Forget
<1>2. CASE Stop \/ Sleep \/ Scan \/ MarkErased \/ UNCHANGED vars
  BY <1>2 DEF Stop, Sleep, Scan, MarkErased, vars
<1>3. ASSUME NEW c \in Blocks, Erase(c)
      PROVE  b \in left
  BY <1>3 DEF Erase
<1> QED
  BY <1>1, <1>2, <1>3 DEF Next, Thread, PickedIsIdle

\* Only idle blocks are overwritten, and data keeps a TTL that runs (scan_expired
\* and mark_erased).
THEOREM EraserKeeps == Spec => IdleOnly
<1> DEFINE OnlyIdle == \A b \in Blocks : content[b] # "noise" /\ content'[b] = "noise" =>
                           Expired(b) \/ b \in raced \/ content[b] = "free"
<1>1. EraserInv /\ [Next]_vars => EraserInv'
  BY NextEraserInv
<1>2. EraserInv => DataIsTracked
  BY DEF EraserInv
<1>3. EraserInv /\ [Next]_vars => [OnlyIdle]_vars
  BY ErasesIdle
<1> QED
  BY InitEraserInv, <1>1, <1>2, <1>3, PTL DEF Spec, IdleOnly, ErasesOnlyIdle

-----------------------------------------------------------------------------
(* Wipe: what wipe_file has written is on the disk pass after pass, for    *)
(* any files, sizes and numbers of passes.  The invariant follows a pass   *)
(* through the cache: where it has been, the disk has the pass before it   *)
(* or this one; where it has not, both have the pass before it.            *)

\* The disk has held 1, 2, ..., n last of all.
EndsWith(history, n) ==
    n <= Len(history) /\ \A p \in 1..n : history[Len(history) - n + p] = p

WipeShape ==
    /\ listed \in SUBSET All
    /\ size \in [All -> 0..MaxSize]
    /\ cache \in [All -> [Offsets -> Nat]]
    /\ laid \in [All -> [Offsets -> Seq(Nat) \ {<<>>}]]
    /\ wiped \in [All -> 0..MaxSize]
    /\ run = [step |-> run.step, todo |-> run.todo, file |-> run.file,
              size |-> run.size, pass |-> run.pass, block |-> run.block]

\* A file is at work from the first pass until it is unlinked.
AtWork == run.step \in {"write", "cut", "remove"}

\* What wipe_file has done so far to block b: up to the last pass but one it is
\* on the disk, and where this pass has been, in the cache at least.
Passed(b) ==
    \/ b < run.block /\ cache[run.file][b] = run.pass
       /\ (EndsWith(laid[run.file][b], run.pass - 1) \/ EndsWith(laid[run.file][b], run.pass))
    \/ b >= run.block /\ EndsWith(laid[run.file][b], run.pass - 1)
       /\ (run.pass > 1 => cache[run.file][b] = run.pass - 1)

Working ==
    AtWork =>
        /\ run.file \in Files /\ wiped[run.file] = 0
        /\ run.size \in 0..MaxSize /\ run.block \in 1..(run.size + 1)
        /\ run.step # "remove" => size[run.file] >= run.size
        /\ run.step = "write" => run.pass \in 1..Passes
        /\ run.step = "cut" => run.pass = Passes + 1 /\ run.block = 1
        /\ run.step = "remove" => run.pass = Passes + 1 /\ run.block = 1 /\ size[run.file] = 0
        /\ \A b \in 1..run.size : Passed(b)

\* What is done stays done: nobody writes to a file that was wiped, but to append.
WipedStays ==
    \A f \in All : \A b \in 1..wiped[f] :
        EndsWith(laid[f][b], Passes) /\ cache[f][b] = Passes

Elsewhere ==
    /\ Outside \in listed
    /\ laid[Outside] = [b \in Offsets |-> <<0>>]
    /\ cache[Outside] = [b \in Offsets |-> 0]

WipeInv == WipeShape /\ Working /\ WipedStays /\ Elsewhere

-----------------------------------------------------------------------------
LEMMA LastOfEnd ==
    ASSUME NEW h \in Seq(Nat), h # <<>>, NEW n \in Nat \ {0}, EndsWith(h, n)
    PROVE  Last(h) = n
<1>1. h[Len(h) - n + n] = n /\ Len(h) \in Nat
  BY DEF EndsWith
<1>2. Len(h) - n + n = Len(h)
  BY <1>1
<1> QED
  BY <1>1, <1>2 DEF Last

LEMMA LaidShape ==
    ASSUME NEW h \in Seq(Nat), h # <<>>, NEW n \in Nat
    PROVE  Laid(h, n) \in Seq(Nat) /\ Laid(h, n) # <<>> /\ Last(Laid(h, n)) = n
<1>1. CASE Last(h) = n
  BY <1>1 DEF Laid
<1>2. CASE Last(h) # n
  <2>1. Append(h, n) \in Seq(Nat) /\ Len(Append(h, n)) = Len(h) + 1 /\ Append(h, n)[Len(h) + 1] = n
    BY AppendProperties
  <2>2. Laid(h, n) = Append(h, n)
    BY <1>2 DEF Laid
  <2>3. Append(h, n) # <<>>
    BY <2>1, EmptySeq
  <2> QED
    BY <2>1, <2>2, <2>3 DEF Last
<1> QED
  BY <1>1, <1>2

\* The same content again changes nothing.
LEMMA LaidAgain ==
    ASSUME NEW h \in Seq(Nat), h # <<>>, NEW n \in Nat \ {0}, EndsWith(h, n)
    PROVE  Laid(h, n) = h
BY LastOfEnd DEF Laid

\* A pass after its predecessor.
LEMMA LaidNext ==
    ASSUME NEW h \in Seq(Nat), h # <<>>, NEW n \in Nat \ {0}, EndsWith(h, n - 1)
    PROVE  EndsWith(Laid(h, n), n)
<1>0. Len(h) \in Nat /\ Len(h) # 0
  BY EmptySeq
<1>1. CASE n = 1 /\ Last(h) = n
  <2>1. Laid(h, n) = h /\ h[Len(h)] = 1
    BY <1>1 DEF Laid, Last
  <2> QED
    BY <1>0, <1>1, <2>1 DEF EndsWith
<1>2. CASE n # 1 /\ Last(h) = n
  <2>1. Last(h) = n - 1
    BY <1>2, LastOfEnd
  <2> QED
    BY <1>2, <2>1
<1>3. CASE Last(h) # n
  <2> DEFINE g == Append(h, n)
  <2>1. Laid(h, n) = g
    BY <1>3 DEF Laid
  <2>2. /\ Len(g) = Len(h) + 1 /\ g[Len(h) + 1] = n
        /\ \A i \in 1..Len(h) : g[i] = h[i]
    BY AppendProperties
  <2> HIDE DEF g
  <2>3. n <= Len(g) /\ \A p \in 1..(n - 1) : h[Len(h) - (n - 1) + p] = p
    BY <1>0, <2>2 DEF EndsWith
  <2>4. ASSUME NEW p \in 1..n PROVE g[Len(g) - n + p] = p
    <3>1. CASE p = n
      BY <1>0, <2>2, <3>1
    <3>2. CASE p # n
      <4>1. Len(h) - (n - 1) + p \in 1..Len(h) /\ Len(g) - n + p = Len(h) - (n - 1) + p
        BY <1>0, <2>2, <2>3, <3>2
      <4>2. p \in 1..(n - 1)
        BY <3>2
      <4>3. h[Len(h) - (n - 1) + p] = p
        BY <2>3, <4>2
      <4> QED
        BY <2>2, <4>1, <4>3
    <3> QED
      BY <3>1, <3>2
  <2> QED
    BY <2>1, <2>3, <2>4 DEF EndsWith
<1> QED
  BY <1>1, <1>2, <1>3

LEMMA EndIsSuffix ==
    ASSUME NEW h \in Seq(Nat), NEW n \in Nat, EndsWith(h, n)
    PROVE  IsSuffix([p \in 1..n |-> p], h)
<1> DEFINE s == [p \in 1..n |-> p]
           r == Reverse(s)  q == Reverse(h)
<1>1. Len(s) = n /\ Len(h) \in Nat /\ n <= Len(h)
  BY DEF EndsWith
<1>2. r = [i \in 1..n |-> n - i + 1]
  BY <1>1 DEF Reverse
<1>3. q = [i \in 1..Len(h) |-> h[Len(h) - i + 1]]
  BY DEF Reverse
<1>4. Len(r) = n /\ Len(q) = Len(h)
  BY <1>1, <1>2, <1>3
<1>5. SubSeq(r, 1, n) = [i \in 1..n |-> r[i]]
  BY <1>1, <1>2
<1>6. SubSeq(q, 1, n) = [i \in 1..n |-> q[i]]
  BY <1>1, <1>3
<1>7. ASSUME NEW i \in 1..n PROVE r[i] = q[i]
  <2>1. n - i + 1 \in 1..n /\ Len(h) - n + (n - i + 1) = Len(h) - i + 1
    BY <1>1
  <2> QED
    BY <1>1, <1>2, <1>3, <2>1 DEF EndsWith
<1>8. SubSeq(r, 1, n) = SubSeq(q, 1, n)
  <2> HIDE DEF r, q
  <2> QED
    BY <1>5, <1>6, <1>7
<1>9. IsPrefix(r, q)
  BY <1>1, <1>4, <1>8 DEF IsPrefix
<1> QED
  BY <1>9 DEF IsSuffix

-----------------------------------------------------------------------------
LEMMA BlockShape ==
    ASSUME WipeShape, NEW f \in All, NEW b \in Offsets
    PROVE  laid[f][b] \in Seq(Nat) /\ laid[f][b] # <<>> /\ cache[f][b] \in Nat
<1>1. laid[f] \in [Offsets -> Seq(Nat) \ {<<>>}] /\ cache[f] \in [Offsets -> Nat]
  BY DEF WipeShape
<1> QED
  BY <1>1

LEMMA CacheShape ==
    ASSUME WipeShape, NEW f \in All, NEW b \in Offsets, NEW n \in Nat
    PROVE  [cache EXCEPT ![f][b] = n] \in [All -> [Offsets -> Nat]]
BY DEF WipeShape

LEMMA InitWipeInv == WipeInit => WipeInv
<1> SUFFICES ASSUME WipeInit PROVE WipeInv
  OBVIOUS
<1>1. <<0>> \in Seq(Nat) /\ <<0>> # <<>>
  BY EmptySeq
<1>2. WipeShape
  BY <1>1, WipeAssumption DEF WipeInit, WipeShape, Idle, Offsets, All
<1>3. Working
  BY DEF WipeInit, Working, AtWork, Idle
<1>4. WipedStays
  BY DEF WipeInit, WipedStays
<1>5. Elsewhere
  BY DEF WipeInit, Elsewhere, All
<1> QED
  BY <1>2, <1>3, <1>4, <1>5 DEF WipeInv

\* What happens to blocks no one is at work on.
LEMMA IdleWipeInv ==
    ASSUME WipeInv, UNCHANGED <<cache, laid, wiped>>, ~AtWork', WipeShape', Outside \in listed'
    PROVE  WipeInv'
BY DEF WipeInv, Working, WipedStays, Elsewhere

LEMMA WipeStep ==
    ASSUME WipeInv, [WipeNext]_wipeVars
    PROVE  WipeInv'
<1> USE WipeAssumption DEF Offsets
<1>0. WipeShape /\ Working /\ WipedStays /\ Elsewhere /\ Outside \in All
  BY DEF WipeInv, All
<1>1. CASE Begin \/ Finish \/ VisitLink \/ Fail
  <2>1. /\ run' = [step |-> run'.step, todo |-> run'.todo, file |-> run'.file,
                   size |-> run'.size, pass |-> run'.pass, block |-> run'.block]
        /\ run'.step \in {"idle", "next"}
    <3>1. CASE run' = Idle
      BY <3>1 DEF Idle
    <3>2. CASE Begin
      BY <3>2 DEF Begin, Idle
    <3>3. CASE VisitLink
      BY <1>0, <3>3 DEF VisitLink, WipeShape
    <3> QED
      BY <1>1, <3>1, <3>2, <3>3 DEF Finish, Fail
  <2>2. ~AtWork'
    BY <2>1 DEF AtWork
  <2>4. WipeShape'
    BY <1>0, <1>1, <2>1 DEF Begin, Finish, VisitLink, Fail, WipeShape
  <2>3. UNCHANGED <<cache, laid, wiped, listed>>
    BY <1>1 DEF Begin, Finish, VisitLink, Fail
  <2> QED
    BY <1>0, <2>2, <2>3, <2>4, IdleWipeInv DEF Elsewhere
<1>2. CASE WriteBlock
  <2>1. /\ AtWork /\ run.step = "write" /\ run.block <= run.size
        /\ run.file \in Files /\ run.file \in All /\ wiped[run.file] = 0
        /\ run.size \in 0..MaxSize /\ run.block \in Offsets /\ run.pass \in 1..Passes
        /\ size[run.file] >= run.size /\ run.file # Outside
        /\ UNCHANGED <<listed, link, size, laid, runs, wiped>>
    BY <1>0, <1>2 DEF WriteBlock, AtWork, Working, All
  <2>2. run' = [run EXCEPT !.block = @ + 1] /\ cache' = [cache EXCEPT ![run.file][run.block] = run.pass]
    BY <1>2 DEF WriteBlock
  <2>3. /\ run' = [step |-> run'.step, todo |-> run'.todo, file |-> run'.file,
                   size |-> run'.size, pass |-> run'.pass, block |-> run'.block]
        /\ run'.step = run.step /\ run'.file = run.file /\ run'.size = run.size
        /\ run'.pass = run.pass /\ run'.block = run.block + 1
    BY <1>0, <2>2 DEF WipeShape
  <2>4. cache' \in [All -> [Offsets -> Nat]]
    BY <1>0, <2>1, <2>2, CacheShape
  <2>5. \A f \in All : f # run.file => cache'[f] = cache[f]
    BY <1>0, <2>2 DEF WipeShape
  <2>6. \A b \in Offsets : cache'[run.file][b] = IF b = run.block THEN run.pass ELSE cache[run.file][b]
    BY <1>0, <2>1, <2>2 DEF WipeShape
  <2>7. WipeShape'
    BY <1>0, <2>1, <2>3, <2>4 DEF WipeShape
  <2>8. ASSUME NEW b \in 1..run.size PROVE Passed(b)'
    <3>1. Passed(b) /\ b \in Offsets
      BY <1>0, <2>1 DEF Working
    <3> QED
      BY <2>1, <2>3, <2>6, <3>1 DEF Passed
  <2>9. Working'
    BY <1>0, <2>1, <2>3, <2>8 DEF Working, AtWork
  <2>10. WipedStays'
    BY <1>0, <2>1, <2>5 DEF WipedStays
  <2> QED
    BY <1>0, <2>1, <2>5, <2>7, <2>9, <2>10 DEF WipeInv, Elsewhere
<1>3. CASE SyncPass
  <2>1. /\ AtWork /\ run.step = "write" /\ run.block = run.size + 1
        /\ run.file \in Files /\ run.file \in All /\ wiped[run.file] = 0
        /\ run.size \in 0..MaxSize /\ run.pass \in 1..Passes
        /\ size[run.file] >= run.size /\ run.file # Outside
        /\ UNCHANGED <<listed, link, size, cache, runs, wiped>>
    BY <1>0, <1>3 DEF SyncPass, AtWork, Working, All
  <2>2. /\ laid' = [laid EXCEPT ![run.file] = [b \in Offsets |-> Laid(@[b], cache[run.file][b])]]
        /\ run' = [run EXCEPT !.pass = @ + 1, !.block = 1, !.step = IF run.pass = Passes THEN "cut" ELSE @]
    BY <1>3 DEF SyncPass
  <2>3. /\ run' = [step |-> run'.step, todo |-> run'.todo, file |-> run'.file,
                   size |-> run'.size, pass |-> run'.pass, block |-> run'.block]
        /\ run'.file = run.file /\ run'.size = run.size /\ run'.pass = run.pass + 1 /\ run'.block = 1
        /\ run'.step = (IF run.pass = Passes THEN "cut" ELSE "write")
    BY <1>0, <2>1, <2>2 DEF WipeShape
  <2>4. \A b \in Offsets : laid'[run.file][b] = Laid(laid[run.file][b], cache[run.file][b])
    BY <1>0, <2>1, <2>2 DEF WipeShape
  <2>5. /\ laid' = [f \in All |-> laid'[f]] /\ \A f \in All : f # run.file => laid'[f] = laid[f]
        /\ laid'[run.file] = [b \in Offsets |-> laid'[run.file][b]]
    BY <1>0, <2>1, <2>2 DEF WipeShape
  <2>6. ASSUME NEW f \in All PROVE laid'[f] \in [Offsets -> Seq(Nat) \ {<<>>}]
    <3>1. CASE f = run.file
      <4>1. ASSUME NEW b \in Offsets PROVE laid'[f][b] \in Seq(Nat) \ {<<>>}
        <5>1. laid[f][b] \in Seq(Nat) /\ laid[f][b] # <<>> /\ cache[f][b] \in Nat
          BY <1>0, BlockShape
        <5>2. laid'[f][b] = Laid(laid[f][b], cache[f][b])
          BY <2>4, <3>1
        <5>3. Laid(laid[f][b], cache[f][b]) \in Seq(Nat) /\ Laid(laid[f][b], cache[f][b]) # <<>>
          BY <5>1, LaidShape
        <5> QED
          BY <5>2, <5>3
      <4> QED
        BY <2>5, <3>1, <4>1
    <3>2. CASE f # run.file
      BY <1>0, <2>5, <3>2 DEF WipeShape
    <3> QED
      BY <3>1, <3>2
  <2>7. WipeShape'
    BY <1>0, <2>1, <2>3, <2>5, <2>6 DEF WipeShape
  <2>8. ASSUME NEW b \in 1..run.size PROVE Passed(b)'
    <3>1. Passed(b) /\ b \in Offsets
      BY <1>0, <2>1 DEF Working
    <3>2. /\ cache[run.file][b] = run.pass
          /\ EndsWith(laid[run.file][b], run.pass - 1) \/ EndsWith(laid[run.file][b], run.pass)
      BY <2>1, <3>1 DEF Passed
    <3>3. laid[run.file][b] \in Seq(Nat) /\ laid[run.file][b] # <<>> /\ run.pass \in Nat \ {0}
      BY <1>0, <2>1, <3>1, BlockShape
    <3>4. EndsWith(Laid(laid[run.file][b], run.pass), run.pass)
      BY <3>2, <3>3, LaidNext, LaidAgain
    <3>5. EndsWith(laid'[run.file][b], run.pass)
      BY <2>4, <3>1, <3>2, <3>4
    <3> QED
      BY <2>1, <2>3, <3>2, <3>5 DEF Passed
  <2>9. Working'
    BY <1>0, <2>1, <2>3, <2>8 DEF Working, AtWork
  <2>10. WipedStays'
    BY <1>0, <2>1, <2>5 DEF WipedStays
  <2> QED
    BY <1>0, <2>1, <2>5, <2>7, <2>9, <2>10 DEF WipeInv, Elsewhere
<1>4. CASE Cut
  <2>1. /\ AtWork /\ run.step = "cut" /\ run.file \in All
        /\ size' = [size EXCEPT ![run.file] = 0] /\ run' = [run EXCEPT !.step = "remove"]
        /\ UNCHANGED <<listed, link, cache, laid, runs, wiped>>
    BY <1>0, <1>4 DEF Cut, AtWork, Working, All
  <2>2. /\ run' = [step |-> run'.step, todo |-> run'.todo, file |-> run'.file,
                   size |-> run'.size, pass |-> run'.pass, block |-> run'.block]
        /\ run'.file = run.file /\ run'.size = run.size /\ run'.pass = run.pass /\ run'.block = run.block
        /\ run'.step = "remove"
    BY <1>0, <2>1 DEF WipeShape
  <2>3. WipeShape' /\ size'[run.file] = 0
    BY <1>0, <2>1, <2>2 DEF WipeShape
  <2>4. \A b \in 1..run.size : Passed(b) => Passed(b)'
    BY <2>1, <2>2 DEF Passed
  <2>5. Working'
    BY <1>0, <2>1, <2>2, <2>3, <2>4 DEF Working, AtWork
  <2> QED
    BY <1>0, <2>1, <2>3, <2>5 DEF WipeInv, WipedStays, Elsewhere
<1>5. CASE Unlink
  <2>1. /\ AtWork /\ run.step = "remove" /\ run.file \in Files /\ run.file \in All /\ run.size \in 0..MaxSize
        /\ run.pass = Passes + 1 /\ run.block = 1 /\ run.file # Outside
        /\ UNCHANGED <<link, size, cache, laid, runs>> /\ listed' = listed \ {run.file}
    BY <1>0, <1>5 DEF Unlink, AtWork, Working, All
  <2>2. /\ wiped' = (IF run.file \in listed THEN [wiped EXCEPT ![run.file] = run.size] ELSE wiped)
        /\ run' = [run EXCEPT !.step = "next"]
    BY <1>5 DEF Unlink
  <2>3. /\ run' = [step |-> run'.step, todo |-> run'.todo, file |-> run'.file,
                   size |-> run'.size, pass |-> run'.pass, block |-> run'.block]
        /\ run'.step = "next"
    BY <1>0, <2>2 DEF WipeShape
  <2>4. /\ wiped' \in [All -> 0..MaxSize]
        /\ \A f \in All : wiped'[f] = wiped[f] \/ (f = run.file /\ wiped'[f] = run.size)
    BY <1>0, <2>1, <2>2 DEF WipeShape
  <2>5. WipeShape' /\ Working'
    BY <1>0, <2>1, <2>3, <2>4 DEF WipeShape, Working, AtWork
  <2>6. ASSUME NEW b \in 1..run.size PROVE EndsWith(laid[run.file][b], Passes) /\ cache[run.file][b] = Passes
    <3>1. Passed(b)
      BY <1>0, <2>1 DEF Working
    <3> QED
      BY <2>1, <3>1 DEF Passed
  <2>7. WipedStays'
    BY <1>0, <2>1, <2>4, <2>6 DEF WipedStays
  <2> QED
    BY <1>0, <2>1, <2>5, <2>7 DEF WipeInv, Elsewhere
<1>6. ASSUME NEW f \in Files, VisitFile(f) PROVE WipeInv'
  <2>0. f \in All /\ UNCHANGED <<listed, link, size, cache, laid, runs>> /\ run.step = "next"
    BY <1>6 DEF VisitFile, All
  <2>1. CASE f \in listed
    <3>1. /\ run' = [run EXCEPT !.step = "write", !.todo = @ \ {f}, !.file = f,
                                !.size = size[f], !.pass = 1, !.block = 1]
          /\ wiped' = [wiped EXCEPT ![f] = 0]
      BY <1>6, <2>1 DEF VisitFile
    <3>2. /\ run' = [step |-> run'.step, todo |-> run'.todo, file |-> run'.file,
                     size |-> run'.size, pass |-> run'.pass, block |-> run'.block]
          /\ run'.step = "write" /\ run'.file = f /\ run'.size = size[f] /\ run'.pass = 1 /\ run'.block = 1
      BY <1>0, <3>1 DEF WipeShape
    <3>3. wiped' \in [All -> 0..MaxSize] /\ wiped'[f] = 0 /\ \A g \in All : g # f => wiped'[g] = wiped[g]
      BY <1>0, <2>0, <3>1 DEF WipeShape
    <3>4. WipeShape' /\ size[f] \in 0..MaxSize
      BY <1>0, <2>0, <3>2, <3>3 DEF WipeShape
    <3>5. ASSUME NEW b \in 1..size[f] PROVE Passed(b)'
      <4>1. laid[f][b] \in Seq(Nat)
        BY <1>0, <2>0, <3>4 DEF WipeShape
      <4>2. EndsWith(laid'[f][b], 0)
        BY <2>0, <4>1 DEF EndsWith
      <4> QED
        BY <3>2, <3>4, <4>2 DEF Passed
    <3>6. Working'
      BY <1>6, <2>0, <3>2, <3>3, <3>4, <3>5 DEF Working, AtWork
    <3>7. WipedStays'
      BY <1>0, <2>0, <3>3 DEF WipedStays
    <3> QED
      BY <1>0, <2>0, <3>4, <3>6, <3>7 DEF WipeInv, Elsewhere
  <2>2. CASE f \notin listed
    <3>1. run' = [run EXCEPT !.todo = @ \ {f}] /\ UNCHANGED wiped
      BY <1>6, <2>2 DEF VisitFile
    <3>2. /\ run' = [step |-> run'.step, todo |-> run'.todo, file |-> run'.file,
                     size |-> run'.size, pass |-> run'.pass, block |-> run'.block]
          /\ run'.step = "next"
      BY <1>0, <2>0, <3>1 DEF WipeShape
    <3>3. ~AtWork' /\ WipeShape'
      BY <1>0, <2>0, <3>1, <3>2 DEF WipeShape, AtWork
    <3> QED
      BY <1>0, <2>0, <3>1, <3>3, IdleWipeInv DEF Elsewhere
  <2> QED
    BY <2>1, <2>2
<1>7. ASSUME NEW f \in Files, Vanish(f) PROVE WipeInv'
  <2>1. /\ UNCHANGED <<link, size, cache, laid, run, runs, wiped>>
        /\ listed' = listed \ {f} /\ Outside # f
    BY <1>7 DEF Vanish
  <2>2. WipeShape' /\ WipedStays' /\ Elsewhere'
    BY <1>0, <2>1 DEF WipeShape, WipedStays, Elsewhere
  <2>3. Working'
    BY <1>0, <2>1 DEF Working, AtWork, Passed
  <2> QED
    BY <2>2, <2>3 DEF WipeInv
<1>8. ASSUME NEW f \in Files, Grow(f) PROVE WipeInv'
  <2>1. /\ UNCHANGED <<listed, link, laid, run, runs>> /\ f \in All /\ f # Outside
        /\ size[f] \in 1..(MaxSize - 1) /\ size[f] + 1 \in Offsets
    BY <1>8 DEF Grow, All
  <2>2. /\ size' = [size EXCEPT ![f] = @ + 1]
        /\ cache' = [cache EXCEPT ![f][size[f] + 1] = 0]
        /\ wiped' = [wiped EXCEPT ![f] = 0]
    BY <1>8 DEF Grow
  <2>3. size' \in [All -> 0..MaxSize] /\ cache' \in [All -> [Offsets -> Nat]] /\ wiped' \in [All -> 0..MaxSize]
    <3>1. size[f] + 1 \in 0..MaxSize /\ 0 \in 0..MaxSize
      BY <2>1
    <3>2. size' \in [All -> 0..MaxSize]
      BY <1>0, <2>1, <2>2, <3>1 DEF WipeShape
    <3>3. cache' \in [All -> [Offsets -> Nat]]
      BY <1>0, <2>1, <2>2, CacheShape
    <3>4. wiped' \in [All -> 0..MaxSize]
      BY <1>0, <2>1, <2>2, <3>1 DEF WipeShape
    <3> QED
      BY <3>2, <3>3, <3>4
  <2>4. /\ size'[f] = size[f] + 1 /\ wiped'[f] = 0
        /\ \A b \in Offsets : b # size[f] + 1 => cache'[f][b] = cache[f][b]
        /\ \A g \in All : g # f => size'[g] = size[g] /\ wiped'[g] = wiped[g] /\ cache'[g] = cache[g]
    BY <1>0, <2>1, <2>2 DEF WipeShape
  <2>5. WipeShape'
    BY <1>0, <2>1, <2>3 DEF WipeShape
  <2>6. WipedStays' /\ Elsewhere'
    <3>1. ASSUME NEW g \in All, NEW b \in 1..wiped'[g] PROVE EndsWith(laid[g][b], Passes) /\ cache'[g][b] = Passes
      <4>1. g # f
        BY <2>4
      <4> QED
        BY <1>0, <2>4, <4>1 DEF WipedStays
    <3>2. WipedStays'
      BY <2>1, <3>1 DEF WipedStays
    <3>3. Elsewhere'
      BY <1>0, <2>1, <2>4 DEF Elsewhere
    <3> QED
      BY <3>2, <3>3
  <2>7. Working'
    <3>1. SUFFICES ASSUME AtWork PROVE Working'
      BY <2>1 DEF Working, AtWork
    <3>2. run.file \in All /\ wiped'[run.file] = 0 /\ size'[run.file] \in 0..MaxSize /\ size[run.file] \in 0..MaxSize
      <4>1. run.file \in All /\ wiped[run.file] = 0
        BY <1>0, <3>1 DEF Working, All
      <4> QED
        BY <1>0, <2>3, <2>4, <4>1 DEF WipeShape
    <3>3. run.step # "remove" => size'[run.file] >= run.size
      BY <1>0, <2>1, <2>4, <3>1, <3>2 DEF Working
    <3>4. run.step = "remove" => f # run.file
      BY <1>0, <2>1, <3>1 DEF Working
    <3>5. ASSUME NEW b \in 1..run.size PROVE Passed(b)'
      <4>1. Passed(b) /\ b \in Offsets
        BY <1>0, <3>1 DEF Working
      <4>2. run.file = f => b # size[f] + 1
        BY <1>0, <2>1, <3>1 DEF Working, AtWork
      <4>3. cache'[run.file][b] = cache[run.file][b]
        BY <2>4, <3>2, <4>1, <4>2
      <4> QED
        BY <2>1, <4>1, <4>3 DEF Passed
    <3> QED
      BY <1>0, <2>1, <2>4, <3>1, <3>2, <3>3, <3>4, <3>5 DEF Working, AtWork
  <2> QED
    BY <2>5, <2>6, <2>7 DEF WipeInv
<1>9. ASSUME NEW f \in All, NEW b \in Offsets, WriteBack(f, b) PROVE WipeInv'
  <2>1. /\ UNCHANGED <<listed, link, size, cache, run, runs, wiped>>
        /\ laid' = [laid EXCEPT ![f][b] = Laid(@, cache[f][b])]
    BY <1>9 DEF WriteBack
  <2>2. /\ \A g \in All, c \in Offsets : (g # f \/ c # b) => laid'[g][c] = laid[g][c]
        /\ laid'[f][b] = Laid(laid[f][b], cache[f][b])
        /\ \A g \in All : laid'[g] = [c \in Offsets |-> laid'[g][c]]
        /\ laid' = [g \in All |-> laid'[g]]
    BY <1>0, <2>1 DEF WipeShape
  <2>3. /\ laid[f][b] \in Seq(Nat) /\ laid[f][b] # <<>> /\ cache[f][b] \in Nat
        /\ laid'[f][b] \in Seq(Nat) \ {<<>>}
    <3>1. laid[f][b] \in Seq(Nat) /\ laid[f][b] # <<>> /\ cache[f][b] \in Nat
      BY <1>0, BlockShape
    <3>2. Laid(laid[f][b], cache[f][b]) \in Seq(Nat) /\ Laid(laid[f][b], cache[f][b]) # <<>>
      BY <3>1, LaidShape
    <3>3. laid' = [laid EXCEPT ![f][b] = Laid(@, cache[f][b])]
      BY <2>1
    <3>4. laid'[f][b] = Laid(laid[f][b], cache[f][b])
      BY <1>0, <3>3 DEF WipeShape
    <3>5. laid'[f][b] \in Seq(Nat) \ {<<>>}
      BY <3>2, <3>4
    <3> QED
      BY <3>1, <3>5
  <2>4. ASSUME NEW g \in All, NEW c \in Offsets PROVE laid'[g][c] \in Seq(Nat) \ {<<>>}
    <3>1. CASE g = f /\ c = b
      BY <2>3, <3>1
    <3>2. CASE g # f \/ c # b
      <4>1. laid'[g][c] = laid[g][c]
        BY <2>2, <3>2
      <4>2. laid[g][c] \in Seq(Nat) \ {<<>>}
        BY <1>0 DEF WipeShape
      <4> QED
        BY <4>1, <4>2
    <3> QED
      BY <3>1, <3>2
  <2>5. laid' \in [All -> [Offsets -> Seq(Nat) \ {<<>>}]]
    <3>1. ASSUME NEW g \in All PROVE laid'[g] \in [Offsets -> Seq(Nat) \ {<<>>}]
      BY <2>2, <2>4
    <3> QED
      BY <2>2, <3>1
  <2>6. WipeShape'
    BY <1>0, <2>1, <2>5 DEF WipeShape
  <2>7. ASSUME AtWork, NEW c \in 1..run.size PROVE Passed(c)'
    <3>1. Passed(c) /\ c \in Offsets /\ run.file \in All /\ run.pass \in Nat \ {0}
      BY <1>0, <2>7 DEF Working, All, AtWork
    <3>2. CASE run.file # f \/ c # b
      BY <2>1, <2>2, <3>1, <3>2 DEF Passed
    <3>3. CASE run.file = f /\ c = b /\ c < run.block
      <4>1. /\ cache[f][b] = run.pass
            /\ EndsWith(laid[f][b], run.pass - 1) \/ EndsWith(laid[f][b], run.pass)
        BY <1>0, <2>7, <3>1, <3>3 DEF Passed, Working
      <4>2. EndsWith(laid'[f][b], run.pass)
        BY <2>2, <2>3, <3>1, <4>1, LaidNext, LaidAgain
      <4> QED
        BY <2>1, <3>3, <4>1, <4>2 DEF Passed
    <3>4. CASE run.file = f /\ c = b /\ ~(c < run.block)
      <4>1. /\ c >= run.block /\ EndsWith(laid[f][b], run.pass - 1)
            /\ run.pass > 1 => cache[f][b] = run.pass - 1
        BY <1>0, <2>7, <3>1, <3>4 DEF Passed, Working
      <4>2. CASE run.pass > 1
        <5>1. run.pass - 1 \in Nat \ {0} /\ cache[f][b] = run.pass - 1
          BY <3>1, <4>1, <4>2
        <5>2. laid'[f][b] = laid[f][b]
          BY <2>2, <2>3, <4>1, <5>1, LaidAgain
        <5> QED
          BY <2>1, <3>4, <4>1, <5>2 DEF Passed
      <4>3. CASE run.pass = 1
        <5>1. EndsWith(laid'[f][b], 0)
          BY <2>3 DEF EndsWith
        <5> QED
          BY <2>1, <3>4, <4>1, <4>3, <5>1 DEF Passed
      <4> QED
        BY <3>1, <4>2, <4>3
    <3> QED
      BY <3>2, <3>3, <3>4
  <2>8. Working'
    BY <1>0, <2>1, <2>7 DEF Working, AtWork
  <2>9. ASSUME NEW g \in All, NEW c \in 1..wiped[g]
        PROVE  EndsWith(laid'[g][c], Passes) /\ cache[g][c] = Passes
    <3>1. EndsWith(laid[g][c], Passes) /\ cache[g][c] = Passes
      BY <1>0 DEF WipedStays
    <3>3. c \in Offsets
      BY <1>0 DEF WipeShape
    <3>2. laid'[g][c] = laid[g][c]
      <4>1. CASE g = f /\ c = b
        BY <2>2, <2>3, <3>1, <4>1, LaidAgain
      <4>2. CASE g # f \/ c # b
        BY <2>2, <3>3, <4>2
      <4> QED
        BY <4>1, <4>2
    <3> QED
      BY <3>1, <3>2
  <2>10. WipedStays'
    BY <2>1, <2>9 DEF WipedStays
  <2>11. laid'[Outside] = laid[Outside]
    <3>1. CASE f = Outside
      <4>1. laid[f][b] = <<0>> /\ cache[f][b] = 0
        BY <1>0, <3>1 DEF Elsewhere
      <4>2. Laid(<<0>>, 0) = <<0>>
        BY DEF Laid, Last
      <4>3. \A c \in Offsets : laid'[Outside][c] = laid[Outside][c]
        BY <1>0, <2>2, <3>1, <4>1, <4>2
      <4>4. laid[Outside] = [c \in Offsets |-> laid[Outside][c]]
        BY <1>0 DEF WipeShape
      <4>5. laid'[Outside] = [c \in Offsets |-> laid'[Outside][c]]
        BY <1>0, <2>2
      <4> QED
        BY <4>3, <4>4, <4>5
    <3>2. CASE f # Outside
      BY <1>0, <2>1, <3>2 DEF WipeShape
    <3> QED
      BY <3>1, <3>2
  <2> QED
    BY <1>0, <2>1, <2>6, <2>8, <2>10, <2>11 DEF WipeInv, Elsewhere
<1>10. CASE PowerLoss
  <2>1. /\ cache' = [f \in All |-> [b \in Offsets |-> Last(laid[f][b])]]
        /\ listed' \in {listed} \cup {listed \cup {f} : f \in Files}
        /\ run' = Idle /\ UNCHANGED <<link, size, laid, runs, wiped>>
    BY <1>10 DEF PowerLoss
  <2>2. listed' \in SUBSET All /\ Outside \in listed'
    BY <1>0, <2>1 DEF WipeShape, Elsewhere, All
  <2>3. ASSUME NEW f \in All, NEW b \in Offsets PROVE Last(laid[f][b]) \in Nat
    <3>1. laid[f][b] \in Seq(Nat) /\ laid[f][b] # <<>>
      BY <1>0 DEF WipeShape
    <3>2. Len(laid[f][b]) \in DOMAIN laid[f][b]
      BY <3>1, EmptySeq
    <3> QED
      BY <3>1, <3>2 DEF Last
  <2>4. cache' \in [All -> [Offsets -> Nat]]
    BY <2>1, <2>3
  <2>5. WipeShape' /\ ~AtWork'
    BY <1>0, <2>1, <2>2, <2>4 DEF WipeShape, AtWork, Idle
  <2>6. ASSUME NEW f \in All, NEW b \in 1..wiped[f] PROVE EndsWith(laid[f][b], Passes) /\ cache'[f][b] = Passes
    <3>1. b \in Offsets /\ EndsWith(laid[f][b], Passes)
      BY <1>0 DEF WipedStays, WipeShape
    <3>2. laid[f][b] \in Seq(Nat) /\ laid[f][b] # <<>>
      BY <1>0, <3>1 DEF WipeShape
    <3>3. Last(laid[f][b]) = Passes
      BY <3>1, <3>2, LastOfEnd
    <3> QED
      BY <2>1, <3>1, <3>3
  <2>7. WipedStays'
    BY <2>1, <2>6 DEF WipedStays
  <2>8. \A b \in Offsets : Last(laid[Outside][b]) = 0
    BY <1>0 DEF Elsewhere, Last
  <2>9. cache'[Outside] = [b \in Offsets |-> 0]
    BY <1>0, <2>1, <2>8
  <2> QED
    BY <1>0, <2>1, <2>2, <2>5, <2>7, <2>9 DEF WipeInv, Working, Elsewhere
<1>11. CASE UNCHANGED wipeVars
  BY <1>11 DEF wipeVars, WipeInv, WipeShape, Working, AtWork, Passed, WipedStays, Elsewhere
<1> QED
  BY <1>1, <1>2, <1>3, <1>4, <1>5, <1>6, <1>7, <1>8, <1>9, <1>10, <1>11 DEF WipeNext

\* When wipe_file returns Ok, each block the file had at its start has been
\* overwritten on the disk by every pass in order, and nothing is written
\* through a link (secure_erase.rs, wipe_file and wipe_dir_recursive): for any
\* files, sizes, passes and runs, whatever fails, is lost or is appended.
THEOREM WipesHold == WipeSpec => []WipedForGood
<1>1. WipeInv => WipedForGood
  <2> SUFFICES ASSUME WipeInv PROVE WipedForGood
    OBVIOUS
  <2>1. ASSUME NEW f \in All, NEW b \in 1..wiped[f] PROVE IsSuffix([p \in 1..Passes |-> p], laid[f][b])
    <3>1. b \in Offsets /\ EndsWith(laid[f][b], Passes)
      BY WipeAssumption DEF WipeInv, WipedStays, WipeShape, Offsets
    <3>2. laid[f][b] \in Seq(Nat)
      BY <3>1 DEF WipeInv, WipeShape
    <3> QED
      BY <3>1, <3>2, EndIsSuffix, WipeAssumption
  <2> QED
    BY <2>1 DEF WipedForGood, EveryPassLaid, LinkNotFollowed, WipeInv, Elsewhere
<1> QED
  BY <1>1, InitWipeInv, WipeStep, PTL DEF WipeSpec

-----------------------------------------------------------------------------
(* ErasureCoding: what decoding returns from data shards stands where it   *)
(* stood in a plaintext, for any field, configurations and plaintexts.     *)
(* The invariant is that every shard about was sealed as some shard of a   *)
(* set encoded; what a shard is filed as says nothing.                     *)

\* Every shard that is offered has an index.
Indexed(available, n) == DOMAIN available = 1..n /\ \A i \in 1..n : available[i].index \in Nat

LEMMA LowestIs ==
    ASSUME NEW n \in Nat, NEW available, Indexed(available, n),
           NEW S \in SUBSET (1..n), S # {}
    PROVE  /\ Lowest(available, S) \in S
           /\ \A j \in S : available[Lowest(available, S)].index <= available[j].index
<1> DEFINE Keys == {available[i].index : i \in S}
<1>1. Keys \subseteq Nat /\ Keys # {}
  BY DEF Indexed
<1>2. PICK x \in Keys : \A y \in Keys : x <= y
  BY <1>1, LeastNumber
<1> DEFINE Firsts == {i \in S : available[i].index = x}
<1>3. Firsts \subseteq Nat /\ Firsts # {}
  <2>1. PICK i \in S : x = available[i].index
    OBVIOUS
  <2>2. i \in Firsts
    BY <2>1
  <2>3. S \subseteq Nat
    OBVIOUS
  <2> QED
    BY <2>2, <2>3
<1>4. PICK i \in Firsts : \A j \in Firsts : i <= j
  BY <1>3, LeastNumber
<1>5. ASSUME NEW j \in S
      PROVE  \/ available[i].index < available[j].index
             \/ available[i].index = available[j].index /\ i <= j
  <2>1. available[j].index \in Nat /\ available[i].index = x /\ x \in Nat /\ x <= available[j].index
    BY <1>1, <1>2
  <2>2. available[j].index = x => i <= j
    BY <1>4
  <2> QED
    BY <2>1, <2>2
<1>6. /\ Lowest(available, S) \in S
      /\ \A j \in S :
          \/ available[Lowest(available, S)].index < available[j].index
          \/ available[Lowest(available, S)].index = available[j].index /\ Lowest(available, S) <= j
  BY <1>5 DEF Lowest
<1>7. \A j \in S : available[j].index \in Nat
  BY DEF Indexed
<1> DEFINE low == Lowest(available, S)
<1>8. low \in S /\ \A j \in S :
          \/ available[low].index < available[j].index
          \/ available[low].index = available[j].index
  BY <1>6
<1> HIDE DEF low
<1>9. ASSUME NEW j \in S PROVE available[low].index <= available[j].index
  <2>1. available[low].index \in Nat /\ available[j].index \in Nat
    BY <1>7, <1>8
  <2> QED
    BY <1>8, <2>1
<1> QED
  BY <1>8, <1>9 DEF low

\* The places not yet taken when p shards were chosen.
RestAt(available, f, p) == IF p = 0 THEN DOMAIN available ELSE f[p - 1] \ {Lowest(available, f[p - 1])}

ChoosesBy(available, cfg, n, f) ==
    /\ f \in [0..cfg.k -> SUBSET (1..n)]
    /\ f = [p \in 0..cfg.k |-> RestAt(available, f, p)]
    /\ Chosen(available, cfg) = [p \in 1..cfg.k |-> available[Lowest(available, f[p - 1])]]

LEMMA RestUnfolds ==
    ASSUME NEW n \in Nat, NEW available, DOMAIN available = 1..n, NEW cfg, cfg.k \in Nat
    PROVE  \E f : ChoosesBy(available, cfg, n, f)
<1> DEFINE V == SUBSET (1..n)
           k == cfg.k
           drop == [p \in 1..k |-> [S \in V |-> S \ {Lowest(available, S)}]]
<1>1. drop \in [1..k -> [V -> V]] /\ 1..n \in V
  OBVIOUS
<1>2. PICK f \in [0..k -> V] : f = [p \in 0..k |-> Recursive(1..n, drop, f, p)]
  <2> HIDE DEF V, drop, k
  <2>1. k \in Nat
    BY DEF k
  <2> QED
    BY <1>1, <2>1, RecursionExists
<1>3. ASSUME NEW p \in 0..k PROVE Recursive(1..n, drop, f, p) = RestAt(available, f, p)
  <2>1. CASE p = 0
    BY <2>1 DEF Recursive, RestAt
  <2>2. CASE p # 0
    <3>1. p \in 1..k /\ p - 1 \in 0..k
      BY <2>2
    <3>2. f[p - 1] \in V
      BY <3>1
    <3>3. drop[p][f[p - 1]] = f[p - 1] \ {Lowest(available, f[p - 1])}
      BY <3>1, <3>2
    <3> QED
      BY <2>2, <3>3 DEF Recursive, RestAt
  <2> QED
    BY <2>1, <2>2
<1>4. f = [p \in 0..k |-> RestAt(available, f, p)]
  BY <1>2, <1>3
<1> DEFINE g == CHOOSE h : h = [p \in 0..k |-> RestAt(available, h, p)]
<1>5. g = [p \in 0..k |-> RestAt(available, g, p)]
  BY <1>4
<1>6. Chosen(available, cfg) = [p \in 1..k |-> available[Lowest(available, g[p - 1])]]
  BY DEF Chosen, RestAt
<1>7. g \in [0..k -> V]
  <2> DEFINE T == {m \in Nat : m <= k => g[m] \in V}
  <2> HIDE DEF g
  <2>0. \A p \in 0..k : g[p] = RestAt(available, g, p)
    BY <1>5
  <2>1. 0 \in T
    <3>1. 0 \in 0..k /\ k \in Nat
      OBVIOUS
    <3>2. g[0] = RestAt(available, g, 0)
      BY <2>0, <3>1
    <3> QED
      BY <3>2 DEF RestAt
  <2>2. ASSUME NEW m \in Nat, m \in T PROVE m + 1 \in T
    <3> SUFFICES ASSUME m + 1 <= k PROVE g[m + 1] \in V
      OBVIOUS
    <3>1. m + 1 \in 0..k /\ m + 1 # 0 /\ (m + 1) - 1 = m /\ m <= k
      OBVIOUS
    <3>2. g[m] \in V
      BY <2>2, <3>1
    <3>3. g[m + 1] = g[m] \ {Lowest(available, g[m])}
      BY <2>0, <3>1 DEF RestAt
    <3> QED
      BY <3>2, <3>3
  <2> HIDE DEF T
  <2>3. \A m \in Nat : m \in T
    BY <2>1, <2>2, AllNumbers
  <2>4. \A m \in 0..k : g[m] \in V
    BY <2>3 DEF T
  <2> QED
    BY <1>5, <2>4
<1> QED
  BY <1>5, <1>6, <1>7 DEF ChoosesBy

\* The shards chosen stand at different places, in the order of their indices.
LEMMA ChosenSorted ==
    ASSUME NEW n \in Nat, NEW available, Indexed(available, n),
           NEW cfg, cfg.k \in Nat, cfg.k <= n
    PROVE  \E order \in [1..cfg.k -> 1..n] :
               /\ Chosen(available, cfg) = [p \in 1..cfg.k |-> available[order[p]]]
               /\ \A p \in 1..cfg.k : p + 1 <= cfg.k =>
                      available[order[p]].index <= available[order[p + 1]].index
<1> DEFINE k == cfg.k
<1>1. PICK f : /\ f \in [0..k -> SUBSET (1..n)]
               /\ f = [p \in 0..k |-> RestAt(available, f, p)]
               /\ Chosen(available, cfg) = [p \in 1..k |-> available[Lowest(available, f[p - 1])]]
  <2>1. DOMAIN available = 1..n
    BY DEF Indexed
  <2>2. PICK f : ChoosesBy(available, cfg, n, f)
    BY <2>1, RestUnfolds
  <2> QED
    BY <2>2 DEF ChoosesBy
<1>2. f[0] = 1..n
  BY <1>1 DEF RestAt, Indexed
<1>3. ASSUME NEW p \in 1..k PROVE p - 1 \in 0..k /\ f[p] = f[p - 1] \ {Lowest(available, f[p - 1])}
  <2>1. p - 1 \in 0..k /\ p \in 0..k /\ p # 0
    OBVIOUS
  <2>2. f[p] = RestAt(available, f, p)
    BY <1>1, <2>1
  <2> QED
    BY <2>1, <2>2 DEF RestAt
<1> DEFINE T == {m \in Nat : m <= k => IsFiniteSet(f[m]) /\ Cardinality(f[m]) \in Nat /\ Cardinality(f[m]) + m >= n}
<1>4. 0 \in T
  <2>1. IsFiniteSet(1..n) /\ Cardinality(1..n) = n
    <3>1. Cardinality(1..n) = IF 1 > n THEN 0 ELSE n - 1 + 1
      BY FS_Interval
    <3> QED
      BY <3>1, FS_Interval
  <2> QED
    BY <1>2, <2>1
<1>5. ASSUME NEW m \in Nat, m \in T PROVE m + 1 \in T
  <2> SUFFICES ASSUME m + 1 <= k
               PROVE  IsFiniteSet(f[m + 1]) /\ Cardinality(f[m + 1]) \in Nat /\ Cardinality(f[m + 1]) + (m + 1) >= n
    OBVIOUS
  <2>1. m + 1 \in 1..k /\ (m + 1) - 1 = m /\ m <= k
    OBVIOUS
  <2>2. IsFiniteSet(f[m]) /\ Cardinality(f[m]) \in Nat /\ Cardinality(f[m]) + m >= n
    BY <1>5, <2>1
  <2> DEFINE i == Lowest(available, f[m])
  <2>3. f[m + 1] = f[m] \ {i}
    BY <1>3, <2>1
  <2>4. IsFiniteSet(f[m] \ {i}) /\ Cardinality(f[m] \ {i}) = IF i \in f[m] THEN Cardinality(f[m]) - 1 ELSE Cardinality(f[m])
    BY <2>2, FS_RemoveElement
  <2>5. Cardinality(f[m] \ {i}) \in Nat
    BY <2>4, FS_CardinalityType
  <2> HIDE DEF i
  <2> QED
    BY <2>2, <2>3, <2>4, <2>5
<1> HIDE DEF T
<1>6. \A m \in Nat : m \in T
  BY <1>4, <1>5, AllNumbers
<1>7. ASSUME NEW p \in 1..k PROVE f[p - 1] \in SUBSET (1..n) /\ f[p - 1] # {}
  <2>1. p - 1 \in Nat /\ p - 1 <= k /\ p - 1 < n /\ p - 1 \in 0..k
    OBVIOUS
  <2>2. Cardinality(f[p - 1]) \in Nat /\ Cardinality(f[p - 1]) + (p - 1) >= n
    BY <1>6, <2>1 DEF T
  <2>3. Cardinality(f[p - 1]) # 0
    BY <2>1, <2>2
  <2> QED
    BY <1>1, <2>1, <2>3, FS_EmptySet
<1> DEFINE order == [p \in 1..k |-> Lowest(available, f[p - 1])]
<1>8. ASSUME NEW p \in 1..k
      PROVE  /\ order[p] \in f[p - 1]
             /\ \A j \in f[p - 1] : available[order[p]].index <= available[j].index
  BY <1>7, LowestIs
<1>9. order \in [1..k -> 1..n]
  BY <1>7, <1>8
<1>10. ASSUME NEW p \in 1..k, p + 1 <= k
       PROVE  available[order[p]].index <= available[order[p + 1]].index
  <2>1. p + 1 \in 1..k /\ (p + 1) - 1 = p
    BY <1>10
  <2>2. order[p + 1] \in f[p]
    BY <1>8, <2>1
  <2>3. order[p + 1] \in f[p - 1]
    BY <1>3, <2>2
  <2> QED
    BY <1>8, <2>3
<1>11. Chosen(available, cfg) = [p \in 1..k |-> available[order[p]]]
  BY <1>1
<1> HIDE DEF order
<1> QED
  BY <1>9, <1>10, <1>11

\* Indices that grow from place to place and stay below k are 0 to k - 1.
LEMMA GrowingFills ==
    ASSUME NEW k \in Nat, NEW f \in [1..k -> Nat],
           \A p \in 1..k : f[p] < k,
           \A p \in 1..k : p + 1 <= k => f[p] < f[p + 1]
    PROVE  \A p \in 1..k : f[p] = p - 1
<1> DEFINE Up == {m \in Nat : m + 1 <= k => f[m + 1] >= m}
           Down == {m \in Nat : m < k => f[k - m] + m < k}
<1>1. 0 \in Up
  <2>1. 0 + 1 <= k => 0 + 1 \in 1..k
    OBVIOUS
  <2>2. 0 + 1 <= k => f[0 + 1] \in Nat
    BY <2>1
  <2> QED
    BY <2>2
<1>2. ASSUME NEW m \in Nat, m \in Up PROVE m + 1 \in Up
  <2> SUFFICES ASSUME (m + 1) + 1 <= k PROVE f[(m + 1) + 1] >= m + 1
    OBVIOUS
  <2>1. m + 1 \in 1..k /\ m + 1 <= k /\ (m + 1) + 1 \in 1..k
    OBVIOUS
  <2>2. f[m + 1] \in Nat /\ f[(m + 1) + 1] \in Nat /\ f[m + 1] < f[(m + 1) + 1] /\ f[m + 1] >= m
    BY <1>2, <2>1
  <2> QED
    BY <2>2
<1>3. 0 \in Down
  <2>1. 0 < k => k - 0 \in 1..k /\ k - 0 = k
    OBVIOUS
  <2>2. 0 < k => f[k - 0] \in Nat /\ f[k - 0] < k
    BY <2>1
  <2> QED
    BY <2>2
<1>4. ASSUME NEW m \in Nat, m \in Down PROVE m + 1 \in Down
  <2> SUFFICES ASSUME m + 1 < k PROVE f[k - (m + 1)] + (m + 1) < k
    OBVIOUS
  <2>1. k - (m + 1) \in 1..k /\ (k - (m + 1)) + 1 = k - m /\ k - m \in 1..k /\ m < k
    OBVIOUS
  <2>2. f[k - (m + 1)] \in Nat /\ f[k - m] \in Nat /\ f[k - (m + 1)] < f[k - m] /\ f[k - m] + m < k
    BY <1>4, <2>1
  <2> QED
    BY <2>2
<1>5. \A m \in Nat : m \in Up /\ m \in Down
  <2> HIDE DEF Up, Down
  <2> QED
    BY <1>1, <1>2, <1>3, <1>4, AllNumbers
<1> SUFFICES ASSUME NEW p \in 1..k PROVE f[p] = p - 1
  OBVIOUS
<1>6. /\ p - 1 \in Nat /\ k - p \in Nat /\ (p - 1) + 1 = p /\ k - (k - p) = p
      /\ (p - 1) + 1 <= k /\ k - p < k
  OBVIOUS
<1>7. f[p] \in Nat /\ f[p] >= p - 1 /\ f[p] + (k - p) < k
  BY <1>5, <1>6
<1> QED
  BY <1>7

\* Place i of the whole is place Place(i, width) of piece Part(i, width).
Part(i, width) == (i - 1) \div width
Place(i, width) == ((i - 1) % width) + 1

LiesInPiece(i, k, width) ==
    /\ Part(i, width) \in 0..(k - 1) /\ Part(i, width) + 1 \in 1..k
    /\ (Part(i, width) + 1) - 1 = Part(i, width)
    /\ Place(i, width) \in 1..width
    /\ Part(i, width) * width + Place(i, width) = i

LEMMA PlaceInPiece ==
    ASSUME NEW k \in Nat, NEW width \in Nat, NEW i \in 1..(k * width)
    PROVE  LiesInPiece(i, k, width)
<1>1. PICK a \in Nat : a = i - 1 /\ a < k * width
  OBVIOUS
<1>2. width > 0
  <2> SUFFICES ASSUME width = 0 PROVE FALSE
    OBVIOUS
  <2>1. k * width = 0
    OBVIOUS
  <2> QED
    BY <1>1, <2>1
<1>3. a = (a \div width) * width + (a % width) /\ a % width \in Nat /\ a % width < width /\ a \div width \in Nat
  BY <1>2
<1>4. PICK q \in Nat : q = a \div width
  BY <1>3
<1>5. PICK o \in Nat : o = a % width
  BY <1>3
<1>6. a = q * width + o /\ o < width
  BY <1>3, <1>4, <1>5
<1>7. q * width < k * width
  <2>1. q * width \in Nat /\ k * width \in Nat
    OBVIOUS
  <2> QED
    BY <1>1, <1>6, <2>1
<1>8. q < k
  BY <1>2, <1>7
<1>9. Part(i, width) = q /\ Place(i, width) = o + 1
  BY <1>1, <1>4, <1>5 DEF Part, Place
<1>10. q \in 0..(k - 1) /\ q + 1 \in 1..k /\ (q + 1) - 1 = q /\ o + 1 \in 1..width
  BY <1>6, <1>8
<1>11. q * width + (o + 1) = i
  <2>1. q * width \in Nat
    OBVIOUS
  <2> QED
    BY <1>1, <1>6, <2>1
<1> QED
  BY <1>9, <1>10, <1>11 DEF LiesInPiece

\* What encode returns for a plaintext, beside it.
Entries == {[plain |-> plain, set |-> Encode(plain, cfg)] : plain \in Plaintexts, cfg \in Configs}

\* A shard that was sealed as the j-th of an entry, whatever it is filed as.
SealedFor(shard, entry) ==
    LET cfg == entry.set.config IN
    \E j \in 0..(cfg.k + cfg.m - 1), index \in Nat, len \in Nat :
        shard = [index |-> index, len |-> len,
                 piece |-> EncodedShards(DataShards(entry.plain, cfg), cfg)[j],
                 aad |-> Aad(cfg, j, Len(entry.plain))]

\* The sets are what encode returned, and every shard about was sealed for one of them.
PiecesInv ==
    /\ sets \in Seq(Entries)
    /\ \A s \in DOMAIN sets : EncodeOK(sets[s].plain, sets[s].set.config)
    /\ \A shard \in pool : \E s \in DOMAIN sets : SealedFor(shard, sets[s])

LEMMA EntryIs ==
    ASSUME NEW entry \in Entries
    PROVE  /\ entry.plain \in Plaintexts /\ entry.plain \in Seq(Nat)
           /\ Len(entry.plain) \in Nat
           /\ entry.set.config \in Configs
           /\ entry.set.config \in [k : Nat, m : Nat, size : Nat]
           /\ entry.set = Encode(entry.plain, entry.set.config)
           /\ entry.set.len = Len(entry.plain)
           /\ entry.set.shards =
                  {SealShard(entry.set.config, j,
                             EncodedShards(DataShards(entry.plain, entry.set.config), entry.set.config)[j],
                             Len(entry.plain)) :
                      j \in 0..(entry.set.config.k + entry.set.config.m - 1)}
<1>1. PICK plain \in Plaintexts : \E cfg \in Configs : entry = [plain |-> plain, set |-> Encode(plain, cfg)]
  BY DEF Entries
<1>2. PICK cfg \in Configs : entry = [plain |-> plain, set |-> Encode(plain, cfg)]
  BY <1>1
<1>3. entry.plain = plain /\ entry.set = Encode(plain, cfg)
  BY <1>2
<1>4. plain \in Seq(Nat) /\ cfg \in [k : Nat, m : Nat, size : Nat]
  BY PiecesAssumption
<1>5. Len(plain) \in Nat
  BY <1>4
<1>6. DOMAIN EncodedShards(DataShards(plain, cfg), cfg) = 0..(cfg.k + cfg.m - 1)
  BY DEF EncodedShards
<1>7. /\ Encode(plain, cfg).config = cfg /\ Encode(plain, cfg).len = Len(plain)
      /\ Encode(plain, cfg).shards =
             {SealShard(cfg, j, EncodedShards(DataShards(plain, cfg), cfg)[j], Len(plain)) :
                 j \in 0..(cfg.k + cfg.m - 1)}
  BY <1>6 DEF Encode
<1> QED
  BY <1>3, <1>4, <1>5, <1>7

LEMMA InitPiecesInv == PiecesInit => PiecesInv
<1>1. <<>> \in Seq(Entries) /\ DOMAIN <<>> = {}
  OBVIOUS
<1> QED
  BY <1>1 DEF PiecesInit, PiecesInv

\* A shard, filed as another one.
Filed(shard, index, len) == [shard EXCEPT !.index = index, !.len = len]

LEMMA Refiled ==
    ASSUME NEW shard, NEW i, NEW l, NEW piece, NEW aad, NEW index, NEW len,
           shard = [index |-> i, len |-> l, piece |-> piece, aad |-> aad]
    PROVE  Filed(shard, index, len)
               = [index |-> index, len |-> len, piece |-> piece, aad |-> aad]
<1>1. PICK r : r = Filed(shard, index, len)
  OBVIOUS
<1>2. r = [x \in {"index", "len", "piece", "aad"} |->
               IF x = "index" THEN index ELSE IF x = "len" THEN len ELSE shard[x]]
  BY <1>1 DEF Filed
<1>3. r.index = index /\ r.len = len /\ r.piece = piece /\ r.aad = aad
  BY <1>2
<1>4. r = [index |-> r.index, len |-> r.len, piece |-> r.piece, aad |-> r.aad]
  BY <1>2
<1> QED
  BY <1>1, <1>3, <1>4

LEMMA NextPiecesInv == ASSUME PiecesInv, [PiecesNext]_piecesVars PROVE PiecesInv'
<1> USE DEF PiecesInv
<1>1. ASSUME NEW plain \in Plaintexts, NEW cfg \in Configs, EncodeSet(plain, cfg) PROVE PiecesInv'
  <2> DEFINE entry == [plain |-> plain, set |-> Encode(plain, cfg)]
  <2>1. entry \in Entries /\ entry.plain = plain /\ entry.set.config = cfg
    <3>1. Encode(plain, cfg).config = cfg
      BY DEF Encode
    <3>2. entry \in Entries
      BY DEF Entries
    <3> QED
      BY <3>1, <3>2
  <2>2. sets' = Append(sets, entry) /\ pool' = pool \cup entry.set.shards /\ EncodeOK(plain, cfg)
    BY <1>1 DEF EncodeSet
  <2> HIDE DEF entry
  <2>3. Len(sets) \in Nat /\ DOMAIN sets = 1..Len(sets)
    OBVIOUS
  <2>4. /\ sets' \in Seq(Entries) /\ DOMAIN sets' = 1..(Len(sets) + 1)
        /\ sets'[Len(sets) + 1] = entry
        /\ \A s \in DOMAIN sets : s \in DOMAIN sets' /\ sets'[s] = sets[s]
    BY <2>1, <2>2, <2>3
  <2>5. \A s \in DOMAIN sets' : EncodeOK(sets'[s].plain, sets'[s].set.config)
    BY <2>1, <2>2, <2>3, <2>4
  <2>6. ASSUME NEW shard \in entry.set.shards PROVE SealedFor(shard, entry)
    <3>1. PICK j \in 0..(cfg.k + cfg.m - 1) :
              shard = SealShard(cfg, j, EncodedShards(DataShards(plain, cfg), cfg)[j], Len(plain))
      <4>1. entry.set.shards =
                {SealShard(entry.set.config, j,
                           EncodedShards(DataShards(entry.plain, entry.set.config), entry.set.config)[j],
                           Len(entry.plain)) :
                    j \in 0..(entry.set.config.k + entry.set.config.m - 1)}
        BY <2>1, EntryIs
      <4> QED
        BY <2>1, <2>6, <4>1
    <3>2. j \in Nat /\ Len(plain) \in Nat
      BY <2>1, EntryIs
    <3> QED
      BY <2>1, <3>1, <3>2 DEF SealedFor, SealShard
  <2>7. \A shard \in pool' : \E s \in DOMAIN sets' : SealedFor(shard, sets'[s])
    BY <2>2, <2>3, <2>4, <2>6
  <2> QED
    BY <2>4, <2>5, <2>7
<1>2. ASSUME NEW shard \in pool, LoseShard(shard) PROVE PiecesInv'
  BY <1>2 DEF LoseShard, Damage
<1>3. ASSUME NEW shard \in pool, NEW index \in Labels,
             NEW len \in {Len(p) : p \in Plaintexts}, Relabel(shard, index, len)
      PROVE  PiecesInv'
  <2> DEFINE new == Filed(shard, index, len)
  <2>1. index \in Nat /\ len \in Nat
    BY PiecesAssumption
  <2>2. sets' = sets /\ pool' = (pool \ {shard}) \cup {new}
    BY <1>3 DEF Relabel, Damage, Filed
  <2>3. PICK s \in DOMAIN sets : SealedFor(shard, sets[s])
    OBVIOUS
  <2> DEFINE cfg == sets[s].set.config
             piece(j) == EncodedShards(DataShards(sets[s].plain, cfg), cfg)[j]
  <2>4. PICK j \in 0..(cfg.k + cfg.m - 1) : \E i \in Nat, l \in Nat :
            shard = [index |-> i, len |-> l, piece |-> piece(j), aad |-> Aad(cfg, j, Len(sets[s].plain))]
    BY <2>3 DEF SealedFor
  <2>5. new = [index |-> index, len |-> len, piece |-> piece(j), aad |-> Aad(cfg, j, Len(sets[s].plain))]
    <3>1. PICK i \in Nat : \E l \in Nat :
              shard = [index |-> i, len |-> l, piece |-> piece(j), aad |-> Aad(cfg, j, Len(sets[s].plain))]
      BY <2>4
    <3>2. PICK l \in Nat :
              shard = [index |-> i, len |-> l, piece |-> piece(j), aad |-> Aad(cfg, j, Len(sets[s].plain))]
      BY <3>1
    <3> HIDE DEF piece, cfg
    <3> QED
      BY <3>2, Refiled
  <2>6. SealedFor(new, sets[s])
    BY <2>1, <2>5 DEF SealedFor
  <2> HIDE DEF new
  <2> QED
    BY <2>2, <2>6
<1>4. CASE UNCHANGED piecesVars
  BY <1>4 DEF piecesVars
<1> QED
  BY <1>1, <1>2, <1>3, <1>4 DEF PiecesNext

\* What stands at place i of a plaintext that was padded.
Padded(plain, i) == IF i <= Len(plain) THEN plain[i] ELSE 0

IsDataPiece(piece, plain, cfg, j) ==
    \A o \in 1..cfg.size : piece[o] = Padded(plain, j * cfg.size + o)

LEMMA DataPiece ==
    ASSUME NEW plain, NEW cfg \in [k : Nat, m : Nat, size : Nat], NEW j \in 0..(cfg.k - 1)
    PROVE  /\ j \in 0..(cfg.k + cfg.m - 1)
           /\ IsDataPiece(EncodedShards(DataShards(plain, cfg), cfg)[j], plain, cfg, j)
<1>1. j \in 0..(cfg.k + cfg.m - 1) /\ j < cfg.k
  <2>1. cfg.k \in Nat /\ cfg.m \in Nat
    OBVIOUS
  <2> QED
    BY <2>1
<1>2. EncodedShards(DataShards(plain, cfg), cfg)[j] = DataShards(plain, cfg)[j]
  BY <1>1 DEF EncodedShards
<1>3. \A o \in 1..cfg.size : DataShards(plain, cfg)[j][o] = Padded(plain, j * cfg.size + o)
  BY DEF DataShards, Padded
<1> QED
  BY <1>1, <1>2, <1>3 DEF IsDataPiece

\* What a decoding with data shards has chosen: the p-th shard chosen is the p-th
\* of the data, of a plaintext encoded with the same configuration.
LEMMA ChosenInPlace ==
    ASSUME PiecesInv, NEW s \in DOMAIN sets, NEW n \in Nat, sets[s].set.config.k <= n,
           NEW available \in Available(n),
           DecodeOK(sets[s].set, available),
           DataOnly(sets[s].set.config, Chosen(available, sets[s].set.config))
    PROVE  LET cfg == sets[s].set.config
               chosen == Chosen(available, cfg)
           IN /\ DOMAIN chosen = 1..cfg.k
              /\ \A p \in 1..cfg.k :
                  /\ chosen[p] \in pool /\ chosen[p].index = p - 1
                  /\ \E t \in DOMAIN sets :
                      /\ sets[t].set.config = cfg
                      /\ chosen[p].piece = EncodedShards(DataShards(sets[t].plain, cfg), cfg)[p - 1]
<1> DEFINE cfg == sets[s].set.config
           chosen == Chosen(available, cfg)
<1>0. sets[s] \in Entries /\ \A t \in DOMAIN sets : sets[t] \in Entries
  BY DEF PiecesInv
<1>1. cfg \in [k : Nat, m : Nat, size : Nat] /\ cfg.k \in Nat /\ cfg.k <= n
  BY <1>0, EntryIs
<1>2. available \in [1..n -> pool]
  BY DEF Available
<1>3. ASSUME NEW shard \in pool
      PROVE  \E t \in DOMAIN sets : \E j \in 0..(sets[t].set.config.k + sets[t].set.config.m - 1) :
                 /\ shard.index \in Nat /\ shard.len \in Nat
                 /\ shard.piece = EncodedShards(DataShards(sets[t].plain, sets[t].set.config), sets[t].set.config)[j]
                 /\ shard.aad = <<sets[t].set.config, j, Len(sets[t].plain)>>
  <2>1. PICK t \in DOMAIN sets : SealedFor(shard, sets[t])
    BY DEF PiecesInv
  <2> DEFINE c == sets[t].set.config
             piece(j) == EncodedShards(DataShards(sets[t].plain, c), c)[j]
  <2>2. PICK j \in 0..(c.k + c.m - 1) : \E i \in Nat, l \in Nat :
            shard = [index |-> i, len |-> l, piece |-> piece(j), aad |-> Aad(c, j, Len(sets[t].plain))]
    BY <2>1 DEF SealedFor
  <2>3. /\ shard.index \in Nat /\ shard.len \in Nat /\ shard.piece = piece(j)
        /\ shard.aad = Aad(c, j, Len(sets[t].plain))
    BY <2>2
  <2> QED
    BY <2>3 DEF Aad
<1>4. Indexed(available, n)
  BY <1>2, <1>3 DEF Indexed
<1>5. PICK order \in [1..cfg.k -> 1..n] :
          /\ chosen = [p \in 1..cfg.k |-> available[order[p]]]
          /\ \A p \in 1..cfg.k : p + 1 <= cfg.k =>
                 available[order[p]].index <= available[order[p + 1]].index
  <2> HIDE DEF cfg
  <2> QED
    BY <1>1, <1>4, ChosenSorted
<1>6. DOMAIN chosen = 1..cfg.k /\ \A p \in 1..cfg.k : chosen[p] = available[order[p]] /\ chosen[p] \in pool
  BY <1>2, <1>5
<1>7. /\ \A p \in 1..cfg.k : OpensShard(cfg, chosen[p])
      /\ \A p, q \in 1..cfg.k : chosen[p].index = chosen[q].index => p = q
      /\ \A p \in 1..cfg.k : chosen[p].index < cfg.k
  <2> HIDE DEF chosen
  <2>1. \A i \in DOMAIN chosen : OpensShard(cfg, chosen[i])
    BY DEF DecodeOK, chosen
  <2>2. MatrixRegular(chosen)
    BY DEF DecodeOK, chosen
  <2>3. \A i \in DOMAIN chosen : chosen[i].index < cfg.k
    BY DEF DataOnly, chosen
  <2> QED
    BY <1>6, <2>1, <2>2, <2>3 DEF MatrixRegular
<1> HIDE DEF chosen
<1> DEFINE f == [p \in 1..cfg.k |-> chosen[p].index]
<1>8. f \in [1..cfg.k -> Nat]
  BY <1>3, <1>6
<1>9. ASSUME NEW p \in 1..cfg.k, p + 1 <= cfg.k PROVE f[p] < f[p + 1]
  <2>1. p + 1 \in 1..cfg.k /\ p # p + 1
    BY <1>1, <1>9
  <2>2. f[p] \in Nat /\ f[p + 1] \in Nat
    BY <1>8, <2>1
  <2>3. f[p] <= f[p + 1] /\ f[p] # f[p + 1]
    BY <1>5, <1>6, <1>7, <1>9, <2>1
  <2> QED
    BY <2>2, <2>3
<1>10. \A p \in 1..cfg.k : f[p] = p - 1
  <2>1. \A p \in 1..cfg.k : f[p] < cfg.k
    BY <1>7
  <2> HIDE DEF f, cfg
  <2> QED
    BY <1>1, <1>8, <1>9, <2>1, GrowingFills
<1>11. ASSUME NEW p \in 1..cfg.k
       PROVE  /\ chosen[p] \in pool /\ chosen[p].index = p - 1
              /\ \E t \in DOMAIN sets :
                  /\ sets[t].set.config = cfg
                  /\ chosen[p].piece = EncodedShards(DataShards(sets[t].plain, cfg), cfg)[p - 1]
  <2>1. chosen[p] \in pool /\ chosen[p].index = p - 1
    BY <1>6, <1>10
  <2>2. PICK t \in DOMAIN sets : \E j \in 0..(sets[t].set.config.k + sets[t].set.config.m - 1) :
            /\ chosen[p].piece = EncodedShards(DataShards(sets[t].plain, sets[t].set.config), sets[t].set.config)[j]
            /\ chosen[p].aad = <<sets[t].set.config, j, Len(sets[t].plain)>>
    BY <1>3, <2>1
  <2>3. PICK j \in 0..(sets[t].set.config.k + sets[t].set.config.m - 1) :
            /\ chosen[p].piece = EncodedShards(DataShards(sets[t].plain, sets[t].set.config), sets[t].set.config)[j]
            /\ chosen[p].aad = <<sets[t].set.config, j, Len(sets[t].plain)>>
    BY <2>2
  <2>4. chosen[p].aad = <<cfg, chosen[p].index, chosen[p].len>>
    BY <1>7 DEF OpensShard, Aad
  <2>5. sets[t].set.config = cfg /\ j = p - 1
    BY <2>1, <2>3, <2>4
  <2> QED
    BY <2>1, <2>3, <2>5
<1> QED
  BY <1>6, <1>11 DEF chosen

LEMMA DecodesInPlace ==
    ASSUME PiecesInv, NEW s \in DOMAIN sets, NEW n \in Nat, sets[s].set.config.k <= n,
           NEW available \in Available(n),
           DecodeOK(sets[s].set, available),
           DataOnly(sets[s].set.config, Chosen(available, sets[s].set.config))
    PROVE  LET set == sets[s].set
               chosen == Chosen(available, set.config)
               result == Decode(set, available)
           IN /\ \A i \in DOMAIN result : \E t \in DOMAIN sets :
                  /\ sets[t].set.config = set.config
                  /\ result[i] = IF i <= Len(sets[t].plain) THEN sets[t].plain[i] ELSE 0
              /\ (\A i \in DOMAIN chosen : chosen[i] \in set.shards) => result = sets[s].plain
<1> DEFINE set == sets[s].set
           cfg == set.config
           chosen == Chosen(available, cfg)
           result == Decode(set, available)
           width == cfg.size
<1>0. sets[s] \in Entries /\ EncodeOK(sets[s].plain, cfg)
  BY DEF PiecesInv
<1>1. /\ cfg \in [k : Nat, m : Nat, size : Nat] /\ cfg.k \in Nat /\ width \in Nat
      /\ sets[s].plain \in Seq(Nat) /\ Len(sets[s].plain) \in Nat /\ set.len = Len(sets[s].plain)
  BY <1>0, EntryIs
<1>2. DOMAIN chosen = 1..cfg.k
  BY ChosenInPlace
<1>3. \A p \in 1..cfg.k :
          /\ chosen[p].index = p - 1
          /\ \E t \in DOMAIN sets :
              /\ sets[t].set.config = cfg
              /\ chosen[p].piece = EncodedShards(DataShards(sets[t].plain, cfg), cfg)[p - 1]
  BY ChosenInPlace
<1>4. result = [i \in {j \in 1..(cfg.k * width) : j <= set.len} |-> chosen[Part(i, width) + 1].piece[Place(i, width)]]
  BY DEF Decode, Part, Place
<1> HIDE DEF chosen, result, width, cfg, set
<1>5. ASSUME NEW i \in DOMAIN result
      PROVE  /\ i \in 1..(cfg.k * width) /\ result[i] = chosen[Part(i, width) + 1].piece[Place(i, width)]
             /\ Part(i, width) + 1 \in 1..cfg.k /\ Part(i, width) \in 0..(cfg.k - 1) /\ (Part(i, width) + 1) - 1 = Part(i, width)
             /\ Place(i, width) \in 1..width /\ Part(i, width) * width + Place(i, width) = i
  <2>1. i \in 1..(cfg.k * width) /\ result[i] = chosen[Part(i, width) + 1].piece[Place(i, width)]
    BY <1>4
  <2>2. LiesInPiece(i, cfg.k, width)
    BY <1>1, <2>1, PlaceInPiece
  <2> QED
    BY <2>1, <2>2 DEF LiesInPiece
<1>6. ASSUME NEW i \in DOMAIN result
      PROVE  \E t \in DOMAIN sets :
                 /\ sets[t].set.config = cfg
                 /\ result[i] = IF i <= Len(sets[t].plain) THEN sets[t].plain[i] ELSE 0
  <2>1. PICK p \in 0..(cfg.k - 1) : p = Part(i, width) /\ p + 1 \in 1..cfg.k /\ (p + 1) - 1 = p
    BY <1>5
  <2>2. PICK t \in DOMAIN sets :
              /\ sets[t].set.config = cfg
              /\ chosen[p + 1].piece = EncodedShards(DataShards(sets[t].plain, cfg), cfg)[p]
    BY <1>3, <2>1
  <2>3. result[i] = EncodedShards(DataShards(sets[t].plain, cfg), cfg)[p][Place(i, width)]
    BY <1>5, <2>1, <2>2
  <2>4. result[i] = Padded(sets[t].plain, p * width + Place(i, width))
    <3>1. PICK o \in 1..width : o = Place(i, width)
      BY <1>5
    <3>2. IsDataPiece(EncodedShards(DataShards(sets[t].plain, cfg), cfg)[p], sets[t].plain, cfg, p)
      BY <1>1, DataPiece
    <3> QED
      BY <2>3, <3>1, <3>2 DEF width, IsDataPiece
  <2>5. result[i] = Padded(sets[t].plain, i)
    BY <1>5, <2>1, <2>4
  <2> QED
    BY <2>2, <2>5 DEF Padded
<1>7. ASSUME \A i \in DOMAIN chosen : chosen[i] \in set.shards PROVE result = sets[s].plain
  <2>1. Len(sets[s].plain) <= cfg.k * width
    BY <1>0 DEF EncodeOK, width
  <2>2. DOMAIN result = 1..Len(sets[s].plain)
    <3>1. cfg.k * width \in Nat
      BY <1>1
    <3>2. DOMAIN result = {j \in 1..(cfg.k * width) : j <= set.len}
      BY <1>4
    <3> QED
      BY <1>1, <2>1, <3>1, <3>2
  <2>3. ASSUME NEW i \in DOMAIN result PROVE result[i] = sets[s].plain[i]
    <3>1. PICK p \in 0..(cfg.k - 1) : p = Part(i, width) /\ p + 1 \in 1..cfg.k /\ (p + 1) - 1 = p
      BY <1>5
    <3>2. chosen[p + 1] \in set.shards
      BY <1>2, <1>7, <3>1
    <3>3. PICK j \in 0..(cfg.k + cfg.m - 1) :
              chosen[p + 1] = SealShard(cfg, j, EncodedShards(DataShards(sets[s].plain, cfg), cfg)[j], Len(sets[s].plain))
      BY <1>0, <3>2, EntryIs DEF set, cfg
    <3>4. /\ chosen[p + 1].index = j
          /\ chosen[p + 1].piece = EncodedShards(DataShards(sets[s].plain, cfg), cfg)[j]
      BY <3>3 DEF SealShard
    <3>5. j = p
      BY <1>3, <3>1, <3>4
    <3>6. result[i] = Padded(sets[s].plain, p * width + Place(i, width))
      <4>1. result[i] = EncodedShards(DataShards(sets[s].plain, cfg), cfg)[p][Place(i, width)]
        BY <1>5, <3>1, <3>4, <3>5
      <4>2. PICK o \in 1..width : o = Place(i, width)
        BY <1>5
      <4>3. IsDataPiece(EncodedShards(DataShards(sets[s].plain, cfg), cfg)[p], sets[s].plain, cfg, p)
        BY <1>1, DataPiece
      <4> QED
        BY <4>1, <4>2, <4>3 DEF width, IsDataPiece
    <3>7. result[i] = Padded(sets[s].plain, i)
      BY <1>5, <3>1, <3>6
    <3>8. i <= Len(sets[s].plain)
      BY <2>2
    <3> QED
      BY <3>7, <3>8 DEF Padded
  <2>4. result = [i \in DOMAIN result |-> result[i]] /\ sets[s].plain = [i \in 1..Len(sets[s].plain) |-> sets[s].plain[i]]
    <3>1. result = [i \in DOMAIN result |-> result[i]]
      BY <1>4
    <3>2. PICK q \in Seq(Nat) : q = sets[s].plain
      BY <1>1
    <3>3. q = [i \in 1..Len(q) |-> q[i]]
      OBVIOUS
    <3> QED
      BY <3>1, <3>2, <3>3
  <2> QED
    BY <2>2, <2>3, <2>4
<1> QED
  BY <1>6, <1>7 DEF result, cfg, set, chosen

LEMMA PiecesInvInPlace == PiecesInv => PiecesInPlace
<1> SUFFICES ASSUME PiecesInv PROVE PiecesInPlace
  OBVIOUS
<1>1. ASSUME NEW s \in DOMAIN sets, NEW n \in {sets[s].set.config.k, sets[s].set.config.k + 1}
      PROVE  n \in Nat /\ sets[s].set.config.k <= n
  <2>1. sets[s] \in Entries
    BY DEF PiecesInv
  <2>2. sets[s].set.config.k \in Nat
    BY <2>1, EntryIs
  <2> QED
    BY <2>2
<1> QED
  BY <1>1, DecodesInPlace DEF PiecesInPlace

\* Decoding from data shards gives an error, or in every place what stands there
\* in a plaintext encoded with the same configuration, and the plaintext itself
\* from shards of its own set (erasure_coding.rs, decode), for any field,
\* configurations and plaintexts.
THEOREM PiecesStayInPlace == PiecesSpec => []PiecesInPlace
<1>1. PiecesSpec => []PiecesInv
  <2>1. PiecesInit => PiecesInv
    BY InitPiecesInv
  <2>2. PiecesInv /\ [PiecesNext]_piecesVars => PiecesInv'
    BY NextPiecesInv
  <2> QED
    BY <2>1, <2>2, PTL DEF PiecesSpec
<1> QED
  BY <1>1, PiecesInvInPlace, PTL

-----------------------------------------------------------------------------
(* Shamir: multiplication and inverses. *)

\* Multiplication in the field.
LEMMA Products ==
    /\ \A a, b \in Symbols : a ** b \in Symbols /\ a ** b = b ** a
    /\ \A a, b, c \in Symbols : (a ** b) ** c = a ** (b ** c)
    /\ \A a, b, c \in Symbols : a ** (b ++ c) = (a ** b) ++ (a ** c)
    /\ \A a, b, c \in Symbols : (b ++ c) ** a = (b ** a) ++ (c ** a)
    /\ \A a \in Symbols : 1 ** a = a /\ a ** 1 = a /\ 0 ** a = 0 /\ a ** 0 = 0
<1>1. /\ \A a, b \in Symbols : a ** b \in Symbols /\ a ** b = b ** a
      /\ \A a, b, c \in Symbols : (a ** b) ** c = a ** (b ** c)
      /\ \A a, b, c \in Symbols : a ** (b ++ c) = (a ** b) ++ (a ** c)
      /\ \A a \in Symbols : 1 ** a = a
  BY FieldAssumption DEF FieldAssumption
<1>2. ASSUME NEW a \in Symbols, NEW b \in Symbols, NEW c \in Symbols
      PROVE  (b ++ c) ** a = (b ** a) ++ (c ** a)
  <2>1. b ++ c \in Symbols
    BY Additions
  <2>2. (b ++ c) ** a = a ** (b ++ c) /\ b ** a = a ** b /\ c ** a = a ** c
    BY <1>1, <2>1
  <2> QED
    BY <1>1, <2>2
<1>3. ASSUME NEW a \in Symbols
      PROVE  a ** 1 = a /\ 0 ** a = 0 /\ a ** 0 = 0
  <2>1. 0 \in Symbols /\ 1 \in Symbols /\ 0 ++ 0 = 0
    BY Additions
  <2>2. a ** 1 = a /\ 0 ** a = a ** 0 /\ a ** 0 \in Symbols
    BY <1>1, <2>1
  <2>3. a ** (0 ++ 0) = (a ** 0) ++ (a ** 0)
    BY <1>1, <2>1
  <2>4. (a ** 0) ++ (a ** 0) = 0
    BY <2>2, Additions
  <2> QED
    BY <2>1, <2>2, <2>3, <2>4
<1> QED
  BY <1>1, <1>2, <1>3

\* a ^ n, one factor at a time, and a ^ (m + n).
LEMMA PowersUp ==
    ASSUME NEW a \in Symbols
    PROVE  /\ GfPower(a, 0) = 1
           /\ \A n \in Nat : GfPower(a, n) \in Symbols
           /\ \A n \in Nat : GfPower(a, n + 1) = GfPower(a, n) ** a
           /\ \A m, n \in Nat : GfPower(a, m + n) = GfPower(a, m) ** GfPower(a, n)
<1> DEFINE times(n) == [m \in 1..n |-> [acc \in Symbols |-> acc ** a]]
<1>1. 1 \in Symbols
  BY Additions
<1>2. GfPower(a, 0) = 1
  BY <1>1, LoopZero DEF GfPower
<1>3. \A acc \in Symbols : acc ** a \in Symbols
  BY Products
<1>4. ASSUME NEW n \in Nat PROVE GfPower(a, n) \in Symbols
  <2>1. RoundsIn(times(n), n, Symbols)
    BY <1>3 DEF RoundsIn
  <2> HIDE DEF times
  <2>2. Loop(1, times(n), n) \in Symbols
    BY <1>1, <2>1, LoopType
  <2> QED
    BY <2>2 DEF GfPower, times
<1>5. ASSUME NEW n \in Nat PROVE GfPower(a, n + 1) = GfPower(a, n) ** a
  <2>1. RoundsIn(times(n + 1), n + 1, Symbols)
    BY <1>3 DEF RoundsIn
  <2>2. SameRounds(times(n), times(n + 1), n)
    BY DEF SameRounds
  <2>3. n + 1 \in 1..(n + 1) /\ times(n + 1)[n + 1] = [acc \in Symbols |-> acc ** a]
    OBVIOUS
  <2> HIDE DEF times
  <2>4. Loop(1, times(n + 1), n + 1) = times(n + 1)[n + 1][Loop(1, times(n), n)]
    BY <1>1, <2>1, <2>2, LoopNext
  <2>5. GfPower(a, n + 1) = Loop(1, times(n + 1), n + 1) /\ GfPower(a, n) = Loop(1, times(n), n)
    BY DEF GfPower, times
  <2> QED
    BY <1>4, <2>3, <2>4, <2>5
<1>6. ASSUME NEW m \in Nat PROVE \A n \in Nat : GfPower(a, m + n) = GfPower(a, m) ** GfPower(a, n)
  <2> DEFINE T == {n \in Nat : GfPower(a, m + n) = GfPower(a, m) ** GfPower(a, n)}
  <2>1. 0 \in T
    <3>1. m + 0 = m /\ GfPower(a, m) ** 1 = GfPower(a, m)
      BY <1>4, Products
    <3> QED
      BY <1>2, <3>1
  <2>2. ASSUME NEW n \in Nat, n \in T PROVE n + 1 \in T
    <3>1. m + (n + 1) = (m + n) + 1 /\ m + n \in Nat
      OBVIOUS
    <3>2. GfPower(a, m + (n + 1)) = (GfPower(a, m) ** GfPower(a, n)) ** a
      BY <1>5, <2>2, <3>1
    <3>3. GfPower(a, n + 1) = GfPower(a, n) ** a
      BY <1>5
    <3>4. (GfPower(a, m) ** GfPower(a, n)) ** a = GfPower(a, m) ** (GfPower(a, n) ** a)
      BY <1>4, Products
    <3> QED
      BY <3>2, <3>3, <3>4
  <2> HIDE DEF T
  <2>3. \A n \in Nat : n \in T
    BY <2>1, <2>2, AllNumbers
  <2> QED
    BY <2>3 DEF T
<1> QED
  BY <1>2, <1>4, <1>5, <1>6

\* The loop of gf_inv, after n rounds.
Climbed(a, n) == Loop(a, [m \in 1..n |-> [r \in Symbols |-> (r ** r) ** a]], n)

LEMMA Climbing ==
    ASSUME NEW a \in Symbols
    PROVE  \A n \in Nat : Climbed(a, n) = GfPower(a, Power2(n + 1) - 1)
<1> DEFINE climb(n) == [m \in 1..n |-> [r \in Symbols |-> (r ** r) ** a]]
           T == {n \in Nat : Climbed(a, n) = GfPower(a, Power2(n + 1) - 1)}
<1>1. \A r \in Symbols : (r ** r) ** a \in Symbols
  BY Products
<1>2. 0 \in T
  <2>1. Climbed(a, 0) = a
    BY LoopZero DEF Climbed
  <2>2. Power2(0) = 1 /\ Power2(0 + 1) = 2 * Power2(0)
    BY Powers2
  <2>3. GfPower(a, 0 + 1) = a
    BY PowersUp, Products
  <2> QED
    BY <2>1, <2>2, <2>3
<1>3. ASSUME NEW n \in Nat, n \in T PROVE n + 1 \in T
  <2>1. RoundsIn(climb(n + 1), n + 1, Symbols)
    BY <1>1 DEF RoundsIn
  <2>2. SameRounds(climb(n), climb(n + 1), n)
    BY DEF SameRounds
  <2>3. n + 1 \in 1..(n + 1) /\ climb(n + 1)[n + 1] = [r \in Symbols |-> (r ** r) ** a]
    OBVIOUS
  <2> HIDE DEF climb
  <2>4. Loop(a, climb(n + 1), n + 1) = climb(n + 1)[n + 1][Loop(a, climb(n), n)]
    BY <2>1, <2>2, LoopNext
  <2>5. Climbed(a, n + 1) = Loop(a, climb(n + 1), n + 1) /\ Climbed(a, n) = Loop(a, climb(n), n)
    BY DEF Climbed, climb
  <2>6. PICK p \in Nat : p = Power2(n + 1)
    BY Powers2
  <2>7. p >= 1 /\ Power2((n + 1) + 1) = 2 * p
    BY <2>6, Powers2
  <2>8. PICK r \in Symbols : r = Climbed(a, n) /\ r = GfPower(a, p - 1)
    <3>1. p - 1 \in Nat
      BY <2>7
    <3> QED
      BY <1>3, <2>6, <3>1, PowersUp
  <2>9. Climbed(a, n + 1) = (r ** r) ** a
    BY <2>3, <2>4, <2>5, <2>8
  <2>10. p - 1 \in Nat /\ (p - 1) + (p - 1) \in Nat /\ ((p - 1) + (p - 1)) + 1 = 2 * p - 1
    BY <2>7
  <2>11. GfPower(a, (p - 1) + (p - 1)) = r ** r
    BY <2>8, <2>10, PowersUp
  <2>12. GfPower(a, ((p - 1) + (p - 1)) + 1) = (r ** r) ** a
    BY <2>10, <2>11, PowersUp
  <2> QED
    BY <2>7, <2>9, <2>10, <2>12
<1> HIDE DEF T
<1>4. \A n \in Nat : n \in T
  BY <1>2, <1>3, AllNumbers
<1> QED
  BY <1>4 DEF T

\* gf_inv is the inverse.
LEMMA Inverses ==
    /\ \A a \in Symbols : Inv[a] \in Symbols
    /\ \A a \in Symbols \ {0} : a ** Inv[a] = 1
<1>1. Bits \in Nat /\ Bits - 2 \in Nat /\ (Bits - 2) + 1 = Bits - 1 /\ Bits - 1 \in Nat /\ (Bits - 1) + 1 = Bits
  BY BitsAssumption DEF BitsAssumption
<1>2. PICK p \in Nat : p = Power2(Bits - 1)
  BY <1>1, Powers2
<1>3. p >= 1 /\ Size = 2 * p
  BY <1>1, <1>2, Powers2 DEF Size
<1>4. p - 1 \in Nat /\ (p - 1) + (p - 1) \in Nat /\ ((p - 1) + (p - 1)) + 1 = Size - 1
  BY <1>3
<1>5. ASSUME NEW a \in Symbols
      PROVE  Inv[a] = GfPower(a, (p - 1) + (p - 1)) /\ Inv[a] \in Symbols
  <2>1. Climb(a) = Climbed(a, Bits - 2)
    BY DEF Climb, Climbed
  <2>2. Climb(a) = GfPower(a, p - 1)
    BY <1>1, <1>2, <2>1, Climbing
  <2>3. Inv[a] = Climb(a) ** Climb(a)
    BY DEF Inv
  <2> QED
    BY <1>4, <2>2, <2>3, PowersUp
<1>6. ASSUME NEW a \in Symbols \ {0} PROVE a ** Inv[a] = 1
  <2>1. GfPower(a, Size - 1) = 1
    BY FieldAssumption DEF FieldAssumption
  <2>2. GfPower(a, ((p - 1) + (p - 1)) + 1) = GfPower(a, (p - 1) + (p - 1)) ** a
    BY <1>4, PowersUp
  <2>3. Inv[a] ** a = 1
    BY <1>4, <1>5, <2>1, <2>2
  <2> QED
    BY <1>5, <2>3, Products
<1> QED
  BY <1>5, <1>6

\* Products and quotients of what is not zero.
LEMMA Quotients ==
    ASSUME NEW a \in Symbols \ {0}, NEW b \in Symbols \ {0}
    PROVE  /\ a ** b \in Symbols \ {0}
           /\ Inv[a ** b] = Inv[a] ** Inv[b]
<1>1. a \in Symbols /\ b \in Symbols /\ Inv[a] \in Symbols /\ Inv[b] \in Symbols /\ a ** b \in Symbols
  BY Inverses, Products
<1>2. a ** Inv[a] = 1 /\ b ** Inv[b] = 1 /\ 1 \in Symbols
  BY Inverses, Additions
<1> DEFINE ia == Inv[a]
           ib == Inv[b]
<1>3. ia \in Symbols /\ ib \in Symbols /\ a ** ia = 1 /\ b ** ib = 1
  BY <1>1, <1>2
<1> HIDE DEF ia, ib
<1>4. a ** b # 0
  <2> SUFFICES ASSUME a ** b = 0 PROVE FALSE
    OBVIOUS
  <2>1. (ia ** a) ** b = ia ** (a ** b)
    BY <1>1, <1>3, Products
  <2>2. ia ** a = 1 /\ 1 ** b = b /\ ia ** 0 = 0
    BY <1>1, <1>3, Products
  <2> QED
    BY <2>1, <2>2
<1>5. (a ** b) ** Inv[a ** b] = 1 /\ Inv[a ** b] \in Symbols
  BY <1>1, <1>4, Inverses
<1>6. (a ** b) ** (ia ** ib) = 1
  <2>1. ia ** ib \in Symbols /\ ia ** ib = ib ** ia
    BY <1>3, Products
  <2>2. (a ** b) ** (ia ** ib) = a ** (b ** (ia ** ib))
    BY <1>1, <2>1, Products
  <2>3. b ** (ib ** ia) = (b ** ib) ** ia
    BY <1>1, <1>3, Products
  <2>4. 1 ** ia = ia
    BY <1>3, Products
  <2> QED
    BY <1>3, <2>1, <2>2, <2>3, <2>4
<1>7. (a ** b) ** (Inv[a] ** Inv[b]) = 1
  BY <1>6 DEF ia, ib
<1>8. PICK c \in Symbols : c = a ** b
  BY <1>1
<1>9. PICK d \in Symbols : d = Inv[a] ** Inv[b]
  BY <1>1, Products
<1>10. PICK e \in Symbols : e = Inv[a ** b]
  BY <1>5
<1>11. e = d
  <2>1. c ** e = 1 /\ c ** d = 1
    BY <1>5, <1>7, <1>8, <1>9, <1>10
  <2>2. (e ** c) ** d = e ** (c ** d)
    BY Products
  <2>3. e ** c = 1 /\ 1 ** d = d /\ e ** 1 = e
    BY <2>1, Products
  <2> QED
    BY <2>1, <2>2, <2>3
<1> QED
  BY <1>1, <1>4, <1>9, <1>10, <1>11

-----------------------------------------------------------------------------
(* Sums, products and ratios. *)

\* A sum is linear.
Combines(h, a, f, b, g, n) == \A m \in 1..n : h[m] = (a ** f[m]) ++ (b ** g[m])

LEMMA ExchangeFactors ==
    ASSUME NEW a \in Symbols, NEW b \in Symbols, NEW c \in Symbols, NEW d \in Symbols
    PROVE  (a ** b) ** (c ** d) = (a ** c) ** (b ** d)
<1>1. b ** c = c ** b /\ b ** d \in Symbols /\ c ** d \in Symbols
  BY Products
<1>2. (a ** b) ** (c ** d) = a ** (b ** (c ** d))
  BY <1>1, Products
<1>3. b ** (c ** d) = (b ** c) ** d
  BY Products
<1>4. (c ** b) ** d = c ** (b ** d)
  BY Products
<1>5. a ** (c ** (b ** d)) = (a ** c) ** (b ** d)
  BY <1>1, Products
<1> QED
  BY <1>1, <1>2, <1>3, <1>4, <1>5

LEMMA LinearSums ==
    ASSUME NEW N \in Nat, NEW h, NEW f, NEW g, NEW a \in Symbols, NEW b \in Symbols,
           Valued(f, N), Valued(g, N), Combines(h, a, f, b, g, N)
    PROVE  SumTo(h, N) = (a ** SumTo(f, N)) ++ (b ** SumTo(g, N))
<1>1. PICK s \in [Symbols -> Symbols] : \A x \in Symbols : s[x] = a ** x
  <2>1. \A x \in Symbols : a ** x \in Symbols
    BY Products
  <2>2. [x \in Symbols |-> a ** x] \in [Symbols -> Symbols]
    BY <2>1
  <2> QED
    BY <2>2
<1>2. PICK t \in [Symbols -> Symbols] : \A x \in Symbols : t[x] = b ** x
  <2>1. \A x \in Symbols : b ** x \in Symbols
    BY Products
  <2>2. [x \in Symbols |-> b ** x] \in [Symbols -> Symbols]
    BY <2>1
  <2> QED
    BY <2>2
<1>3. Additive(s) /\ Additive(t)
  <2>1. \A x, y \in Symbols : x ++ y \in Symbols
    BY Additions
  <2>2. \A x, y \in Symbols : a ** (x ++ y) = (a ** x) ++ (a ** y) /\ b ** (x ++ y) = (b ** x) ++ (b ** y)
    BY Products
  <2>3. ASSUME NEW x \in Symbols, NEW y \in Symbols
        PROVE  s[x ++ y] = s[x] ++ s[y] /\ t[x ++ y] = t[x] ++ t[y]
    BY <1>1, <1>2, <2>1, <2>2
  <2> QED
    BY <2>3 DEF Additive
<1>4. CombinesBy(h, s, f, t, g, N)
  <2>1. \A m \in 1..N : f[m] \in Symbols /\ g[m] \in Symbols
    BY DEF Valued
  <2> QED
    BY <1>1, <1>2, <2>1 DEF Combines, CombinesBy
<1>5. SumTo(f, N) \in Symbols /\ SumTo(g, N) \in Symbols
  BY SumsInside
<1>6. SumTo(h, N) = s[SumTo(f, N)] ++ t[SumTo(g, N)]
  BY <1>3, <1>4, <1>5, AdditiveSums
<1> QED
  BY <1>1, <1>2, <1>5, <1>6

\* Products that leave one factor out.
Multiplied(f, i, m) == [acc \in Symbols |-> IF m = i THEN acc ELSE acc ** f[m]]

LEMMA ProductsBut ==
    ASSUME NEW n \in Nat, NEW f, NEW i, Valued(f, n + 1)
    PROVE  /\ ProductBut(f, n, i) \in Symbols /\ ProductBut(f, n + 1, i) \in Symbols
           /\ n + 1 = i => ProductBut(f, n + 1, i) = ProductBut(f, n, i)
           /\ n + 1 # i => ProductBut(f, n + 1, i) = ProductBut(f, n, i) ** f[n + 1]
<1> DEFINE times(m) == [j \in 1..m |-> Multiplied(f, i, j)]
<1>1. 1 \in Symbols
  BY Additions
<1>2. \A j \in 1..(n + 1) : f[j] \in Symbols /\ Multiplied(f, i, j) \in [Symbols -> Symbols]
  <2>1. \A j \in 1..(n + 1) : f[j] \in Symbols
    BY DEF Valued
  <2>2. \A j \in 1..(n + 1), acc \in Symbols : acc ** f[j] \in Symbols
    BY <2>1, Products
  <2> QED
    BY <2>1, <2>2 DEF Multiplied
<1>3. RoundsIn(times(n + 1), n + 1, Symbols)
  BY <1>2 DEF RoundsIn
<1>4. SameRounds(times(n), times(n + 1), n) /\ RoundsIn(times(n), n, Symbols)
  BY <1>2 DEF SameRounds, RoundsIn
<1>5. n + 1 \in 1..(n + 1) /\ times(n + 1)[n + 1] = Multiplied(f, i, n + 1)
  OBVIOUS
<1>6. ProductBut(f, n, i) = Loop(1, times(n), n) /\ ProductBut(f, n + 1, i) = Loop(1, times(n + 1), n + 1)
  BY DEF ProductBut, Multiplied
<1> HIDE DEF times
<1>7. Loop(1, times(n), n) \in Symbols
  BY <1>1, <1>4, LoopType
<1>8. Loop(1, times(n + 1), n + 1) = times(n + 1)[n + 1][Loop(1, times(n), n)]
  BY <1>1, <1>3, <1>4, LoopNext
<1>9. ProductBut(f, n + 1, i) = Multiplied(f, i, n + 1)[ProductBut(f, n, i)]
  BY <1>5, <1>6, <1>8
<1>10. ProductBut(f, n, i) \in Symbols /\ f[n + 1] \in Symbols
  BY <1>2, <1>5, <1>6, <1>7
<1>11. ProductBut(f, n, i) ** f[n + 1] \in Symbols
  BY <1>10, Products
<1> QED
  BY <1>9, <1>10, <1>11 DEF Multiplied

LEMMA ProductOfNone == ASSUME NEW f, NEW i PROVE ProductBut(f, 0, i) = 1
<1>1. 1 \in Symbols
  BY Additions
<1> QED
  BY <1>1, LoopZero DEF ProductBut

LEMMA SameProduct ==
    ASSUME NEW n \in Nat, NEW f, NEW g, NEW i, NEW j,
           \A m \in 1..n : (m = i <=> m = j) /\ (m # i => f[m] = g[m])
    PROVE  ProductBut(f, n, i) = ProductBut(g, n, j)
<1>1. ASSUME NEW m \in 1..n PROVE Multiplied(f, i, m) = Multiplied(g, j, m)
  BY DEF Multiplied
<1>2. [m \in 1..n |-> Multiplied(f, i, m)] = [m \in 1..n |-> Multiplied(g, j, m)]
  BY <1>1
<1> QED
  BY <1>2 DEF ProductBut, Multiplied

\* a / (a + b)
Ratio(a, b) == a ** Inv[a ++ b]

LEMMA Nonzero ==
    ASSUME NEW a \in Symbols, NEW b \in Symbols, a # b
    PROVE  a ++ b \in Symbols \ {0}
<1>1. a ++ b \in Symbols
  BY Additions
<1>2. a ++ b # 0
  <2> SUFFICES ASSUME a ++ b = 0 PROVE FALSE
    OBVIOUS
  <2>1. (a ++ b) ++ b = a ++ (b ++ b) /\ b ++ b = 0 /\ a ++ 0 = a /\ 0 ++ b = b
    BY Additions
  <2> QED
    BY <2>1
<1> QED
  BY <1>1, <1>2

LEMMA Ratios ==
    /\ \A a, b \in Symbols : Ratio(a, b) \in Symbols
    /\ \A a, b \in Symbols : a # b => Ratio(a, b) ++ Ratio(b, a) = 1
<1>1. ASSUME NEW a \in Symbols, NEW b \in Symbols
      PROVE  Ratio(a, b) \in Symbols
  <2>1. a ++ b \in Symbols
    BY Additions
  <2>2. Inv[a ++ b] \in Symbols
    BY <2>1, Inverses
  <2> QED
    BY <2>2, Products DEF Ratio
<1>2. ASSUME NEW a \in Symbols, NEW b \in Symbols, a # b
      PROVE  Ratio(a, b) ++ Ratio(b, a) = 1
  <2>1. PICK s \in Symbols \ {0} : s = a ++ b
    BY <1>2, Nonzero
  <2>2. b ++ a = s
    BY <2>1, Additions
  <2>3. PICK t \in Symbols : t = Inv[s] /\ s ** t = 1
    BY Inverses
  <2>4. (a ** t) ++ (b ** t) = (a ++ b) ** t
    BY Products
  <2> QED
    BY <2>1, <2>2, <2>3, <2>4 DEF Ratio
<1> QED
  BY <1>1, <1>2

\* Partial fractions.
LEMMA Fractions ==
    ASSUME NEW z \in Symbols, NEW u \in Symbols, NEW x \in Symbols, z # u, z # x, u # x
    PROVE  Ratio(u, x) ** Ratio(z, x) = (Ratio(u, z) ** Ratio(z, x)) ++ (Ratio(z, u) ** Ratio(u, x))
<1>1. PICK zx \in Symbols \ {0} : zx = z ++ x
  BY Nonzero
<1>2. PICK ux \in Symbols \ {0} : ux = u ++ x
  BY Nonzero
<1>3. PICK uz \in Symbols \ {0} : uz = u ++ z
  BY Nonzero
<1>4. PICK a \in Symbols : a = Inv[zx] /\ zx ** a = 1
  BY Inverses
<1>5. PICK b \in Symbols : b = Inv[ux] /\ ux ** b = 1
  BY Inverses
<1>6. PICK c \in Symbols : c = Inv[uz] /\ uz ** c = 1
  BY Inverses
<1>7. ux ++ zx = uz
  <2>1. (u ++ x) ++ (z ++ x) = (u ++ z) ++ (x ++ x)
    BY Exchange
  <2>2. x ++ x = 0 /\ u ++ z \in Symbols /\ uz ++ 0 = uz
    BY Additions
  <2> QED
    BY <1>1, <1>2, <1>3, <2>1, <2>2
<1>8. uz ** (a ** b) = a ++ b
  <2>1. a ** b \in Symbols /\ a ** b = b ** a
    BY Products
  <2>2. (ux ++ zx) ** (a ** b) = (ux ** (a ** b)) ++ (zx ** (a ** b))
    BY <2>1, Products
  <2>3. ux ** (b ** a) = (ux ** b) ** a
    BY Products
  <2>4. zx ** (a ** b) = (zx ** a) ** b
    BY Products
  <2>5. 1 ** a = a /\ 1 ** b = b
    BY Products
  <2> QED
    BY <1>4, <1>5, <1>7, <2>1, <2>2, <2>3, <2>4, <2>5
<1>9. c ** (a ++ b) = a ** b
  <2>1. a ** b \in Symbols /\ c ** uz = uz ** c
    BY Products
  <2>2. c ** (uz ** (a ** b)) = (c ** uz) ** (a ** b)
    BY <2>1, Products
  <2>3. 1 ** (a ** b) = a ** b
    BY <2>1, Products
  <2> QED
    BY <1>6, <1>8, <2>1, <2>2, <2>3
<1>10. Ratio(u, x) = u ** b /\ Ratio(z, x) = z ** a
  BY <1>1, <1>2, <1>4, <1>5 DEF Ratio
<1>11. Ratio(u, z) = u ** c /\ Ratio(z, u) = z ** c
  <2>1. z ++ u = u ++ z
    BY Additions
  <2> QED
    BY <1>3, <1>6, <2>1 DEF Ratio
<1>12. (u ** b) ** (z ** a) = (u ** z) ** (a ** b)
  <2>1. b ** a = a ** b
    BY Products
  <2> QED
    BY <2>1, ExchangeFactors
<1>13. (u ** c) ** (z ** a) = (u ** z) ** (c ** a)
  BY ExchangeFactors
<1>14. (z ** c) ** (u ** b) = (u ** z) ** (c ** b)
  <2>1. z ** u = u ** z
    BY Products
  <2> QED
    BY <2>1, ExchangeFactors
<1>15. ((u ** z) ** (c ** a)) ++ ((u ** z) ** (c ** b)) = (u ** z) ** (c ** (a ++ b))
  <2>1. u ** z \in Symbols /\ c ** a \in Symbols /\ c ** b \in Symbols
    BY Products
  <2>2. (c ** a) ++ (c ** b) = c ** (a ++ b)
    BY Products
  <2>3. ((u ** z) ** (c ** a)) ++ ((u ** z) ** (c ** b)) = (u ** z) ** ((c ** a) ++ (c ** b))
    BY <2>1, Products
  <2> QED
    BY <2>2, <2>3
<1> QED
  BY <1>9, <1>10, <1>11, <1>12, <1>13, <1>14, <1>15

-----------------------------------------------------------------------------
(* Weights of points for interpolation at 0. *)

\* Points to interpolate at: n symbols that are not 0, no two the same.
Points(x, n) ==
    /\ x \in [1..n -> Symbols \ {0}]
    /\ \A i, j \in 1..n : x[i] = x[j] => i = j

RatiosTo(x, z) == [j \in DOMAIN x |-> Ratio(x[j], z)]

\* What the i-th of the first n values weighs in the value at 0, and the product
\* that completes the weights to 1.
Weight(x, n, i) == ProductBut(RatiosTo(x, x[i]), n, i)
Gap(x, n, z) == ProductBut(RatiosTo(x, z), n, 0)

LEMMA RatiosValued ==
    ASSUME NEW N \in Nat, NEW x, Points(x, N), NEW z \in Symbols
    PROVE  /\ Valued(RatiosTo(x, z), N)
           /\ \A j \in 1..N : RatiosTo(x, z)[j] = Ratio(x[j], z) /\ x[j] \in Symbols /\ x[j] # 0
<1>1. DOMAIN x = 1..N /\ \A j \in 1..N : x[j] \in Symbols /\ x[j] # 0
  BY DEF Points
<1>2. \A j \in 1..N : RatiosTo(x, z)[j] = Ratio(x[j], z)
  BY <1>1 DEF RatiosTo
<1>3. \A j \in 1..N : Ratio(x[j], z) \in Symbols
  BY <1>1, Ratios
<1> QED
  BY <1>1, <1>2, <1>3 DEF Valued

LEMMA Weights ==
    ASSUME NEW N \in Nat, NEW x, Points(x, N)
    PROVE  /\ \A z \in Symbols : Gap(x, 0, z) = 1
           /\ \A n \in 0..N, z \in Symbols : Gap(x, n, z) \in Symbols
           /\ \A n \in 0..N, i \in 1..N : Weight(x, n, i) \in Symbols
           /\ \A n \in 0..(N - 1), z \in Symbols : Gap(x, n + 1, z) = Gap(x, n, z) ** Ratio(x[n + 1], z)
           /\ \A n \in 0..(N - 1) : Weight(x, n + 1, n + 1) = Gap(x, n, x[n + 1])
           /\ \A n \in 0..(N - 1) : \A i \in 1..n : Weight(x, n + 1, i) = Weight(x, n, i) ** Ratio(x[n + 1], x[i])
<1>1. ASSUME NEW n \in 0..(N - 1), NEW z \in Symbols
      PROVE  n \in Nat /\ n + 1 \in 1..N /\ Valued(RatiosTo(x, z), n + 1) /\ RatiosTo(x, z)[n + 1] = Ratio(x[n + 1], z)
  <2>1. n \in Nat /\ n + 1 \in 1..N /\ \A m \in 1..(n + 1) : m \in 1..N
    OBVIOUS
  <2> QED
    BY <2>1, RatiosValued DEF Valued
<1>2. ASSUME NEW z \in Symbols, NEW n \in 0..N, NEW i
      PROVE  ProductBut(RatiosTo(x, z), n, i) \in Symbols
  <2>1. CASE n = 0
    BY <2>1, ProductOfNone, Additions
  <2>2. CASE n # 0
    <3>1. PICK m \in 0..(N - 1) : n = m + 1
      <4>1. n - 1 \in 0..(N - 1) /\ n = (n - 1) + 1
        BY <2>2
      <4> QED
        BY <4>1
    <3>2. m \in Nat /\ Valued(RatiosTo(x, z), m + 1)
      BY <1>1
    <3> QED
      BY <3>1, <3>2, ProductsBut
  <2> QED
    BY <2>1, <2>2
<1>3. \A i \in 1..N : x[i] \in Symbols
  BY RatiosValued, Additions
<1>4. ASSUME NEW n \in 0..(N - 1), NEW z \in Symbols
      PROVE  Gap(x, n + 1, z) = Gap(x, n, z) ** Ratio(x[n + 1], z)
  <2>1. n + 1 # 0
    OBVIOUS
  <2> QED
    BY <1>1, <2>1, ProductsBut DEF Gap
<1>5. ASSUME NEW n \in 0..(N - 1)
      PROVE  Weight(x, n + 1, n + 1) = Gap(x, n, x[n + 1])
  <2>1. PICK u \in Symbols : u = x[n + 1]
    BY <1>3
  <2>2. ProductBut(RatiosTo(x, u), n + 1, n + 1) = ProductBut(RatiosTo(x, u), n, n + 1)
    BY <1>1, ProductsBut
  <2>3. \A m \in 1..n : (m = n + 1 <=> m = 0)
    OBVIOUS
  <2>4. ProductBut(RatiosTo(x, u), n, n + 1) = ProductBut(RatiosTo(x, u), n, 0)
    BY <2>3, SameProduct
  <2> QED
    BY <2>1, <2>2, <2>4 DEF Weight, Gap
<1>6. ASSUME NEW n \in 0..(N - 1), NEW i \in 1..n
      PROVE  Weight(x, n + 1, i) = Weight(x, n, i) ** Ratio(x[n + 1], x[i])
  <2>1. n + 1 # i /\ i \in 1..N
    OBVIOUS
  <2>2. PICK z \in Symbols : z = x[i]
    BY <1>3, <2>1
  <2>3. ProductBut(RatiosTo(x, z), n + 1, i) = ProductBut(RatiosTo(x, z), n, i) ** Ratio(x[n + 1], z)
    BY <1>1, <2>1, ProductsBut
  <2> QED
    BY <2>2, <2>3 DEF Weight
<1> QED
  <2>1. \A z \in Symbols : Gap(x, 0, z) = 1
    BY ProductOfNone DEF Gap
  <2>2. \A n \in 0..N, z \in Symbols : Gap(x, n, z) \in Symbols
    BY <1>2 DEF Gap
  <2>3. \A n \in 0..N, i \in 1..N : Weight(x, n, i) \in Symbols
    BY <1>2, <1>3 DEF Weight
  <2> QED
    BY <2>1, <2>2, <2>3, <1>4, <1>5, <1>6

\* The weights of the first n points, each with its ratio to z.
Portions(x, n, z) == [i \in 1..n |-> Weight(x, n, i) ** Ratio(z, x[i])]

\* The portions and the gap are all there is.
LEMMA PortionsComplete ==
    ASSUME NEW N \in Nat, NEW x, Points(x, N)
    PROVE  \A n \in 0..N, z \in Symbols :
               (\A i \in 1..n : x[i] # z) => Gap(x, n, z) ++ SumTo(Portions(x, n, z), n) = 1
<1> DEFINE Complete(n) == \A z \in Symbols :
               (\A i \in 1..n : x[i] # z) => Gap(x, n, z) ++ SumTo(Portions(x, n, z), n) = 1
           T == {n \in Nat : n <= N => Complete(n)}
<1>1. 0 \in T
  <2>1. ASSUME NEW z \in Symbols PROVE Gap(x, 0, z) ++ SumTo(Portions(x, 0, z), 0) = 1
    BY Weights, SumOfNone, Additions
  <2> QED
    BY <2>1
<1>2. \A i \in 1..N : x[i] \in Symbols
  BY RatiosValued, Additions
<1>3. ASSUME NEW n \in Nat, n \in T PROVE n + 1 \in T
  <2> SUFFICES ASSUME n + 1 <= N, NEW z \in Symbols, \A i \in 1..(n + 1) : x[i] # z
               PROVE  Gap(x, n + 1, z) ++ SumTo(Portions(x, n + 1, z), n + 1) = 1
    OBVIOUS
  <2>1. n \in 0..(N - 1) /\ n \in 0..N /\ n + 1 \in 1..N /\ n + 1 \in 1..(n + 1)
        /\ \A i \in 1..n : i \in 1..N /\ i \in 1..(n + 1) /\ i # n + 1
    OBVIOUS
  <2>2. PICK u \in Symbols : u = x[n + 1]
    BY <1>2, <2>1
  <2>3. \A i \in 1..n : x[i] # u
    BY <2>1, <2>2 DEF Points
  <2>4. z # u /\ \A i \in 1..n : x[i] # z
    BY <2>1, <2>2
  <2>5. Gap(x, n, z) ++ SumTo(Portions(x, n, z), n) = 1
    BY <1>3, <2>1, <2>4
  <2>6. Gap(x, n, u) ++ SumTo(Portions(x, n, u), n) = 1
    BY <1>3, <2>1, <2>3
  <2>7. ASSUME NEW y \in Symbols PROVE Valued(Portions(x, n, y), n)
    <3>1. ASSUME NEW i \in 1..n PROVE Portions(x, n, y)[i] \in Symbols
      <4>1. Weight(x, n, i) \in Symbols /\ x[i] \in Symbols
        BY <1>2, <2>1, Weights
      <4>2. Weight(x, n, i) ** Ratio(y, x[i]) \in Symbols
        BY <4>1, Ratios, Products
      <4> QED
        BY <4>2 DEF Portions
    <3> QED
      BY <3>1 DEF Valued
  <2>8. PICK p \in Symbols : p = Ratio(u, z)
    BY Ratios
  <2>9. PICK q \in Symbols : q = Ratio(z, u)
    BY Ratios
  <2>10. p ++ q = 1
    BY <2>4, <2>8, <2>9, Ratios
  <2>11. Combines(Portions(x, n + 1, z), p, Portions(x, n, z), q, Portions(x, n, u), n)
    <3> SUFFICES ASSUME NEW i \in 1..n
                 PROVE  Portions(x, n + 1, z)[i] = (p ** Portions(x, n, z)[i]) ++ (q ** Portions(x, n, u)[i])
      BY DEF Combines
    <3>1. PICK y \in Symbols : y = x[i]
      BY <1>2, <2>1
    <3>2. PICK w \in Symbols : w = Weight(x, n, i)
      BY <2>1, Weights
    <3>3. PICK a \in Symbols : a = Ratio(z, y)
      BY Ratios
    <3>4. PICK b \in Symbols : b = Ratio(u, y)
      BY Ratios
    <3>5. b ** a = (p ** a) ++ (q ** b)
      <4>1. z # y /\ u # y /\ z # u
        BY <2>3, <2>4, <3>1
      <4> QED
        BY <2>8, <2>9, <3>3, <3>4, <4>1, Fractions
    <3>6. Weight(x, n + 1, i) = w ** b
      BY <2>1, <2>2, <3>1, <3>2, <3>4, Weights
    <3>7. Portions(x, n + 1, z)[i] = (w ** b) ** a
      BY <2>1, <3>1, <3>3, <3>6 DEF Portions
    <3>8. Portions(x, n, z)[i] = w ** a /\ Portions(x, n, u)[i] = w ** b
      BY <3>1, <3>2, <3>3, <3>4 DEF Portions
    <3>9. (w ** b) ** a = w ** (b ** a)
      BY Products
    <3>10. w ** ((p ** a) ++ (q ** b)) = (w ** (p ** a)) ++ (w ** (q ** b))
      <4>1. p ** a \in Symbols /\ q ** b \in Symbols
        BY Products
      <4> QED
        BY <4>1, Products
    <3>11. w ** (p ** a) = p ** (w ** a) /\ w ** (q ** b) = q ** (w ** b)
      <4>1. (w ** p) ** a = w ** (p ** a) /\ (p ** w) ** a = p ** (w ** a) /\ w ** p = p ** w
        BY Products
      <4>2. (w ** q) ** b = w ** (q ** b) /\ (q ** w) ** b = q ** (w ** b) /\ w ** q = q ** w
        BY Products
      <4> QED
        BY <4>1, <4>2
    <3> QED
      BY <3>5, <3>7, <3>8, <3>9, <3>10, <3>11
  <2>12. PICK s \in Symbols : s = SumTo(Portions(x, n, z), n)
    BY <2>7, SumsInside
  <2>13. PICK t \in Symbols : t = SumTo(Portions(x, n, u), n)
    BY <2>7, SumsInside
  <2>14. SumTo(Portions(x, n + 1, z), n) = (p ** s) ++ (q ** t)
    BY <2>7, <2>11, <2>12, <2>13, LinearSums
  <2>15. PICK g \in Symbols : g = Gap(x, n, z)
    BY <2>1, Weights
  <2>16. PICK h \in Symbols : h = Gap(x, n, u)
    BY <2>1, Weights
  <2>17. Gap(x, n + 1, z) = p ** g
    <3>1. Gap(x, n + 1, z) = g ** p
      BY <2>1, <2>2, <2>8, <2>15, Weights
    <3> QED
      BY <3>1, Products
  <2>18. Portions(x, n + 1, z)[n + 1] = q ** h
    <3>1. Weight(x, n + 1, n + 1) = h
      BY <2>1, <2>2, <2>16, Weights
    <3>2. Portions(x, n + 1, z)[n + 1] = h ** q
      BY <2>1, <2>2, <2>9, <3>1 DEF Portions
    <3> QED
      BY <3>2, Products
  <2>19. SumTo(Portions(x, n + 1, z), n + 1) = ((p ** s) ++ (q ** t)) ++ (q ** h)
    <3>1. Valued(Portions(x, n + 1, z), n + 1)
      <4>1. ASSUME NEW i \in 1..(n + 1) PROVE Portions(x, n + 1, z)[i] \in Symbols
        <5>1. Weight(x, n + 1, i) \in Symbols /\ x[i] \in Symbols
          <6>1. n + 1 \in 0..N /\ i \in 1..N
            BY <2>1
          <6> QED
            BY <1>2, <6>1, Weights
        <5>2. Weight(x, n + 1, i) ** Ratio(z, x[i]) \in Symbols
          BY <5>1, Ratios, Products
        <5> QED
          BY <5>2 DEF Portions
      <4> QED
        BY <4>1 DEF Valued
    <3> QED
      BY <2>14, <2>18, <3>1, Sums
  <2>20. p ** g \in Symbols /\ p ** s \in Symbols /\ q ** t \in Symbols /\ q ** h \in Symbols
    BY Products
  <2>21. (p ** g) ++ (((p ** s) ++ (q ** t)) ++ (q ** h)) = ((p ** g) ++ (p ** s)) ++ ((q ** h) ++ (q ** t))
    <3>1. ((p ** s) ++ (q ** t)) ++ (q ** h) = (p ** s) ++ ((q ** t) ++ (q ** h))
      BY <2>20, Additions
    <3>2. (q ** t) ++ (q ** h) = (q ** h) ++ (q ** t) /\ (q ** h) ++ (q ** t) \in Symbols
      BY <2>20, Additions
    <3>3. ((p ** g) ++ (p ** s)) ++ ((q ** h) ++ (q ** t)) = (p ** g) ++ ((p ** s) ++ ((q ** h) ++ (q ** t)))
      BY <2>20, <3>2, Additions
    <3> QED
      BY <3>1, <3>2, <3>3
  <2>22. (p ** g) ++ (p ** s) = p /\ (q ** h) ++ (q ** t) = q
    <3>1. g ++ s = 1 /\ h ++ t = 1
      BY <2>5, <2>6, <2>12, <2>13, <2>15, <2>16
    <3>2. p ** (g ++ s) = (p ** g) ++ (p ** s) /\ q ** (h ++ t) = (q ** h) ++ (q ** t)
      BY Products
    <3>3. p ** 1 = p /\ q ** 1 = q
      BY Products
    <3> QED
      BY <3>1, <3>2, <3>3
  <2> QED
    BY <2>10, <2>17, <2>19, <2>21, <2>22
<1> HIDE DEF T, Complete
<1>4. \A n \in Nat : n \in T
  BY <1>1, <1>3, AllNumbers
<1>5. \A n \in 0..N : Complete(n)
  <2>1. \A n \in 0..N : n \in Nat /\ n <= N
    OBVIOUS
  <2> QED
    BY <1>4, <2>1 DEF T
<1> QED
  BY <1>5 DEF Complete

-----------------------------------------------------------------------------
(* Polynomials. *)

\* Horner's rule, by the lowest coefficient.
Horner(c, x) == [m \in 1..Len(c) |-> [acc \in Symbols |-> (acc ** x) ++ c[Len(c) + 1 - m]]]

LEMMA HornersRounds ==
    ASSUME NEW c \in Seq(Symbols), NEW x \in Symbols
    PROVE  RoundsIn(Horner(c, x), Len(c), Symbols) /\ EvalPoly(c, x) = Loop(0, Horner(c, x), Len(c))
           /\ EvalPoly(c, x) \in Symbols
<1>1. ASSUME NEW m \in 1..Len(c), NEW acc \in Symbols
      PROVE  (acc ** x) ++ c[Len(c) + 1 - m] \in Symbols
  <2>1. Len(c) + 1 - m \in 1..Len(c)
    OBVIOUS
  <2>2. c[Len(c) + 1 - m] \in Symbols
    BY <2>1
  <2>3. acc ** x \in Symbols
    BY Products
  <2> QED
    BY <2>2, <2>3, Additions
<1>2. RoundsIn(Horner(c, x), Len(c), Symbols)
  BY <1>1 DEF RoundsIn, Horner
<1>3. EvalPoly(c, x) = Loop(0, Horner(c, x), Len(c))
  BY DEF EvalPoly, Horner
<1>4. Len(c) \in Nat /\ 0 \in Symbols
  BY Additions
<1> QED
  BY <1>2, <1>3, <1>4, LoopType

LEMMA EmptyPoly == ASSUME NEW x \in Symbols PROVE EvalPoly(<<>>, x) = 0
<1>1. 0 \in Symbols
  BY Additions
<1>2. Len(<<>>) = 0
  OBVIOUS
<1>3. <<>> \in Seq(Symbols)
  OBVIOUS
<1>4. EvalPoly(<<>>, x) = Loop(0, Horner(<<>>, x), 0)
  BY <1>2, <1>3, HornersRounds
<1> QED
  BY <1>1, <1>4, LoopZero

LEMMA LongerPoly ==
    ASSUME NEW a \in Symbols, NEW d \in Seq(Symbols), NEW x \in Symbols
    PROVE  EvalPoly(<<a>> \o d, x) = (EvalPoly(d, x) ** x) ++ a
<1> DEFINE c == <<a>> \o d
<1>1. c \in Seq(Symbols) /\ Len(c) = Len(d) + 1 /\ c[1] = a /\ \A i \in 1..Len(d) : c[i + 1] = d[i]
  OBVIOUS
<1>2. PICK n \in Nat : n = Len(d)
  OBVIOUS
<1> HIDE DEF c
<1>3. RoundsIn(Horner(c, x), n + 1, Symbols) /\ EvalPoly(c, x) = Loop(0, Horner(c, x), n + 1)
  BY <1>1, <1>2, HornersRounds
<1>4. EvalPoly(d, x) \in Symbols /\ EvalPoly(d, x) = Loop(0, Horner(d, x), n)
  BY <1>2, HornersRounds
<1>5. SameRounds(Horner(d, x), Horner(c, x), n)
  <2> SUFFICES ASSUME NEW m \in 1..n PROVE Horner(d, x)[m] = Horner(c, x)[m]
    BY DEF SameRounds
  <2>1. m \in 1..Len(d) /\ m \in 1..Len(c)
    BY <1>1, <1>2
  <2>2. Len(d) + 1 - m \in 1..Len(d) /\ (Len(d) + 1 - m) + 1 = Len(c) + 1 - m
    BY <1>1, <2>1
  <2>3. c[Len(c) + 1 - m] = d[Len(d) + 1 - m]
    BY <1>1, <2>2
  <2>4. Horner(d, x)[m] = [acc \in Symbols |-> (acc ** x) ++ d[Len(d) + 1 - m]]
    BY <2>1 DEF Horner
  <2>5. Horner(c, x)[m] = [acc \in Symbols |-> (acc ** x) ++ c[Len(c) + 1 - m]]
    BY <2>1 DEF Horner
  <2> QED
    BY <2>3, <2>4, <2>5
<1>6. 0 \in Symbols
  BY Additions
<1>7. Loop(0, Horner(c, x), n + 1) = Horner(c, x)[n + 1][Loop(0, Horner(d, x), n)]
  BY <1>3, <1>5, <1>6, LoopNext
<1>8. Horner(c, x)[n + 1] = [acc \in Symbols |-> (acc ** x) ++ a]
  <2>1. n + 1 \in 1..Len(c) /\ Len(c) + 1 - (n + 1) = 1
    BY <1>1, <1>2
  <2>2. Horner(c, x)[n + 1] = [acc \in Symbols |-> (acc ** x) ++ c[Len(c) + 1 - (n + 1)]]
    BY <2>1 DEF Horner
  <2> QED
    BY <1>1, <2>1, <2>2
<1>9. EvalPoly(c, x) = (EvalPoly(d, x) ** x) ++ a
  BY <1>3, <1>4, <1>7, <1>8
<1> QED
  BY <1>9 DEF c

FirstAndRest(c, S) == \E a \in S : \E d \in Seq(S) : c = <<a>> \o d /\ Len(c) = Len(d) + 1

LEMMA Unconsed ==
    ASSUME NEW S, NEW c \in Seq(S), c # <<>>
    PROVE  FirstAndRest(c, S)
<1>1. Head(c) \in S /\ Tail(c) \in Seq(S) /\ Len(c) = Len(Tail(c)) + 1
  OBVIOUS
<1>2. c = <<Head(c)>> \o Tail(c)
  OBVIOUS
<1> QED
  BY <1>1, <1>2 DEF FirstAndRest

LEMMA Sequence == ASSUME NEW S, NEW n \in Nat, NEW d \in [1..n -> S] PROVE d \in Seq(S) /\ Len(d) = n
OBVIOUS

LEMMA Consed ==
    ASSUME NEW S, NEW n \in Nat, NEW a \in S, NEW d \in [1..n -> S]
    PROVE  <<a>> \o d \in [1..(n + 1) -> S]
<1>1. d \in Seq(S) /\ Len(d) = n
  OBVIOUS
<1>2. <<a>> \in Seq(S) /\ Len(<<a>>) = 1
  OBVIOUS
<1>3. <<a>> \o d \in Seq(S)
  BY <1>1, <1>2
<1>4. Len(<<a>> \o d) = n + 1
  BY <1>1, <1>2
<1> DEFINE e == <<a>> \o d
<1>5. e \in Seq(S) /\ Len(e) = n + 1
  BY <1>3, <1>4
<1> HIDE DEF e
<1>6. e \in [1..Len(e) -> S]
  BY <1>5
<1>7. e \in [1..(n + 1) -> S]
  BY <1>5, <1>6
<1> QED
  BY <1>7 DEF e

\* The value at 0 is the first coefficient.
LEMMA AtZero ==
    ASSUME NEW a \in Symbols, NEW d \in Seq(Symbols)
    PROVE  EvalPoly(<<a>> \o d, 0) = a
<1>1. 0 \in Symbols
  BY Additions
<1>2. EvalPoly(d, 0) \in Symbols
  BY <1>1, HornersRounds
<1>3. EvalPoly(d, 0) ** 0 = 0 /\ 0 ++ a = a
  BY <1>2, Additions, Products
<1> QED
  BY <1>1, <1>3, LongerPoly

\* f(x) = f(u) + (x + u) r(x), with a polynomial r of one degree less.
Divided(c, u, d) == \A x \in Symbols : EvalPoly(c, x) = EvalPoly(c, u) ++ ((x ++ u) ** EvalPoly(d, x))

LEMMA Division ==
    ASSUME NEW u \in Symbols
    PROVE  \A n \in Nat : \A c \in Seq(Symbols) :
               Len(c) <= n + 1 => \E d \in Seq(Symbols) : Len(d) <= n /\ Divided(c, u, d)
<1> DEFINE Divides(n) == \A c \in Seq(Symbols) :
               Len(c) <= n + 1 => \E d \in Seq(Symbols) : Len(d) <= n /\ Divided(c, u, d)
           T == {n \in Nat : Divides(n)}
<1>1. ASSUME NEW c \in Seq(Symbols), Len(c) <= 1
      PROVE  Divided(c, u, <<>>)
  <2> SUFFICES ASSUME NEW x \in Symbols
               PROVE  EvalPoly(c, x) = EvalPoly(c, u) ++ ((x ++ u) ** EvalPoly(<<>>, x))
    BY DEF Divided
  <2>1. EvalPoly(c, x) = EvalPoly(c, u)
    <3>1. CASE c = <<>>
      BY <3>1, EmptyPoly
    <3>2. CASE c # <<>>
      <4>1. PICK a \in Symbols : \E d \in Seq(Symbols) : c = <<a>> \o d /\ Len(c) = Len(d) + 1
        <5>1. FirstAndRest(c, Symbols)
          BY <3>2, Unconsed
        <5> QED
          BY <5>1 DEF FirstAndRest
      <4>2. PICK d \in Seq(Symbols) : c = <<a>> \o d /\ Len(c) = Len(d) + 1
        BY <4>1
      <4>3. d = <<>>
        BY <1>1, <4>2
      <4>4. \A y \in Symbols : EvalPoly(c, y) = (EvalPoly(<<>>, y) ** y) ++ a
        BY <4>2, <4>3, LongerPoly
      <4>5. \A y \in Symbols : EvalPoly(<<>>, y) ** y = 0
        BY EmptyPoly, Products
      <4> QED
        BY <4>4, <4>5
    <3> QED
      BY <3>1, <3>2
  <2>2. EvalPoly(<<>>, x) = 0 /\ x ++ u \in Symbols
    BY EmptyPoly, Additions
  <2>3. (x ++ u) ** 0 = 0
    BY <2>2, Products
  <2>4. EvalPoly(c, u) \in Symbols
    BY HornersRounds
  <2>5. EvalPoly(c, u) ++ 0 = EvalPoly(c, u)
    BY <2>4, Additions
  <2> QED
    BY <2>1, <2>2, <2>3, <2>5
<1>2. 0 \in T
  <2>1. ASSUME NEW c \in Seq(Symbols), Len(c) <= 0 + 1
        PROVE  \E d \in Seq(Symbols) : Len(d) <= 0 /\ Divided(c, u, d)
    <3>1. Divided(c, u, <<>>)
      BY <1>1, <2>1
    <3>2. <<>> \in Seq(Symbols) /\ Len(<<>>) <= 0
      OBVIOUS
    <3> QED
      BY <3>1, <3>2
  <2> QED
    BY <2>1
<1>3. ASSUME NEW n \in Nat, n \in T PROVE n + 1 \in T
  <2> SUFFICES ASSUME NEW c \in Seq(Symbols), Len(c) <= (n + 1) + 1
               PROVE  \E d \in Seq(Symbols) : Len(d) <= n + 1 /\ Divided(c, u, d)
    OBVIOUS
  <2>1. CASE c = <<>>
    <3>1. Divided(c, u, <<>>)
      <4>1. Len(c) <= 1
        BY <2>1
      <4> QED
        BY <1>1, <4>1
    <3>2. <<>> \in Seq(Symbols) /\ Len(<<>>) <= n + 1
      OBVIOUS
    <3> QED
      BY <3>1, <3>2
  <2>2. CASE c # <<>>
    <3>1. PICK a \in Symbols : \E t \in Seq(Symbols) : c = <<a>> \o t /\ Len(c) = Len(t) + 1
      <4>1. FirstAndRest(c, Symbols)
        BY <2>2, Unconsed
      <4> QED
        BY <4>1 DEF FirstAndRest
    <3>2. PICK t \in Seq(Symbols) : c = <<a>> \o t /\ Len(c) = Len(t) + 1
      BY <3>1
    <3>3. PICK d \in Seq(Symbols) : Len(d) <= n /\ Divided(t, u, d)
      <4>1. Len(t) <= n + 1
        BY <3>2
      <4> QED
        BY <1>3, <4>1
    <3>4. PICK v \in Symbols : v = EvalPoly(t, u)
      BY HornersRounds
    <3>5. <<v>> \o d \in Seq(Symbols) /\ Len(<<v>> \o d) <= n + 1
      BY <3>3
    <3>6. Divided(c, u, <<v>> \o d)
      <4> SUFFICES ASSUME NEW x \in Symbols
                   PROVE  EvalPoly(c, x) = EvalPoly(c, u) ++ ((x ++ u) ** EvalPoly(<<v>> \o d, x))
        BY DEF Divided
      <4>1. PICK q \in Symbols : q = EvalPoly(d, x)
        BY HornersRounds
      <4>2. PICK s \in Symbols : s = x ++ u
        BY Additions
      <4>3. EvalPoly(t, x) = v ++ (s ** q)
        BY <3>3, <3>4, <4>1, <4>2 DEF Divided
      <4>4. EvalPoly(c, x) = ((v ++ (s ** q)) ** x) ++ a /\ EvalPoly(c, u) = (v ** u) ++ a
        BY <3>2, <3>4, <4>3, LongerPoly
      <4>5. EvalPoly(<<v>> \o d, x) = (q ** x) ++ v
        BY <4>1, LongerPoly
      <4>6. s ** q \in Symbols /\ q ** x \in Symbols /\ v ** u \in Symbols /\ v ** x \in Symbols /\ (s ** q) ** x \in Symbols /\ s ** v \in Symbols
        BY Products
      <4>7. (v ++ (s ** q)) ** x = (v ** x) ++ ((s ** q) ** x)
        BY <4>6, Products
      <4>8. s ** ((q ** x) ++ v) = ((s ** q) ** x) ++ (s ** v)
        <5>1. s ** ((q ** x) ++ v) = (s ** (q ** x)) ++ (s ** v)
          BY <4>6, Products
        <5>2. s ** (q ** x) = (s ** q) ** x
          BY Products
        <5> QED
          BY <5>1, <5>2
      <4>9. (s ** v) ++ (v ** u) = v ** x
        <5>1. s ** v = (x ** v) ++ (u ** v)
          BY <4>2, Products
        <5>2. x ** v = v ** x /\ u ** v = v ** u
          BY Products
        <5>3. ((v ** x) ++ (v ** u)) ++ (v ** u) = (v ** x) ++ ((v ** u) ++ (v ** u))
          BY <4>6, Additions
        <5>4. (v ** u) ++ (v ** u) = 0 /\ (v ** x) ++ 0 = v ** x
          BY <4>6, Additions
        <5> QED
          BY <5>1, <5>2, <5>3, <5>4
      <4>10. PICK p \in Symbols : p = (s ** q) ** x
        BY <4>6
      <4>11. PICK sv \in Symbols : sv = s ** v
        BY <4>6
      <4>12. PICK vu \in Symbols : vu = v ** u
        BY <4>6
      <4>13. ((sv ++ vu) ++ p) ++ a = (vu ++ a) ++ (p ++ sv)
        <5>1. (vu ++ a) ++ (p ++ sv) = (vu ++ p) ++ (a ++ sv)
          BY Exchange
        <5>2. (vu ++ p) ++ (sv ++ a) = (vu ++ sv) ++ (p ++ a)
          BY Exchange
        <5>3. a ++ sv = sv ++ a /\ vu ++ sv = sv ++ vu /\ sv ++ vu \in Symbols
          BY Additions
        <5>4. (sv ++ vu) ++ (p ++ a) = ((sv ++ vu) ++ p) ++ a
          BY <5>3, Additions
        <5> QED
          BY <5>1, <5>2, <5>3, <5>4
      <4>14. EvalPoly(c, x) = ((sv ++ vu) ++ p) ++ a
        BY <4>4, <4>7, <4>9, <4>10, <4>11, <4>12
      <4>15. EvalPoly(c, u) = vu ++ a /\ s ** EvalPoly(<<v>> \o d, x) = p ++ sv
        BY <4>4, <4>5, <4>8, <4>10, <4>11, <4>12
      <4> QED
        BY <4>2, <4>13, <4>14, <4>15
    <3> QED
      BY <3>5, <3>6
  <2> QED
    BY <2>1, <2>2
<1> HIDE DEF T, Divides
<1>4. \A n \in Nat : n \in T
  BY <1>2, <1>3, AllNumbers
<1>5. \A n \in Nat : Divides(n)
  BY <1>4 DEF T
<1> QED
  BY <1>5 DEF Divides

\* A polynomial r times x + p, and s: one degree more.
MultipleOf(c, p, s, d) == \A x \in Symbols : EvalPoly(d, x) = s ++ ((x ++ p) ** EvalPoly(c, x))

LEMMA Multiplication ==
    ASSUME NEW p \in Symbols
    PROVE  \A n \in Nat : \A c \in [1..n -> Symbols], s \in Symbols :
               \E d \in [1..(n + 1) -> Symbols] : MultipleOf(c, p, s, d)
<1> DEFINE Multiplies(n) == \A c \in [1..n -> Symbols], s \in Symbols :
               \E d \in [1..(n + 1) -> Symbols] : MultipleOf(c, p, s, d)
           T == {n \in Nat : Multiplies(n)}
<1>1. 0 \in T
  <2>1. ASSUME NEW c \in [1..0 -> Symbols], NEW s \in Symbols
        PROVE  \E d \in [1..(0 + 1) -> Symbols] : MultipleOf(c, p, s, d)
    <3>1. c = <<>> /\ <<s>> \o <<>> = <<s>> /\ <<s>> \in [1..1 -> Symbols] /\ <<>> \in Seq(Symbols)
      OBVIOUS
    <3>2. ASSUME NEW x \in Symbols PROVE EvalPoly(<<s>>, x) = s ++ ((x ++ p) ** EvalPoly(c, x))
      <4>1. EvalPoly(<<s>>, x) = (EvalPoly(<<>>, x) ** x) ++ s
        BY <3>1, LongerPoly
      <4>2. EvalPoly(<<>>, x) = 0 /\ x ++ p \in Symbols
        BY EmptyPoly, Additions
      <4>3. 0 ** x = 0 /\ (x ++ p) ** 0 = 0 /\ 0 ++ s = s /\ s ++ 0 = s
        BY <4>2, Additions, Products
      <4> QED
        BY <3>1, <4>1, <4>2, <4>3
    <3> QED
      BY <3>1, <3>2 DEF MultipleOf
  <2> QED
    BY <2>1
<1>2. ASSUME NEW n \in Nat, n \in T PROVE n + 1 \in T
  <2> SUFFICES ASSUME NEW c \in [1..(n + 1) -> Symbols], NEW s \in Symbols
               PROVE  \E d \in [1..((n + 1) + 1) -> Symbols] : MultipleOf(c, p, s, d)
    OBVIOUS
  <2>1. c \in Seq(Symbols) /\ Len(c) = n + 1 /\ c # <<>>
    OBVIOUS
  <2>2. PICK a \in Symbols : \E t \in Seq(Symbols) : c = <<a>> \o t /\ Len(c) = Len(t) + 1
    <3>1. FirstAndRest(c, Symbols)
      BY <2>1, Unconsed
    <3> QED
      BY <3>1 DEF FirstAndRest
  <2>3. PICK t \in Seq(Symbols) : c = <<a>> \o t /\ Len(c) = Len(t) + 1
    BY <2>2
  <2>4. t \in [1..n -> Symbols]
    BY <2>1, <2>3
  <2>5. PICK d \in [1..(n + 1) -> Symbols] : MultipleOf(t, p, a, d)
    BY <1>2, <2>4
  <2>6. PICK b \in Symbols : b = s ++ (p ** a)
    BY Additions, Products
  <2>7. d \in Seq(Symbols) /\ <<b>> \o d \in [1..((n + 1) + 1) -> Symbols]
    <3>1. d \in Seq(Symbols) /\ Len(d) = n + 1
      OBVIOUS
    <3>2. n + 1 \in Nat
      OBVIOUS
    <3> QED
      BY <3>1, <3>2, Consed
  <2>8. ASSUME NEW x \in Symbols PROVE EvalPoly(<<b>> \o d, x) = s ++ ((x ++ p) ** EvalPoly(c, x))
    <3>1. PICK q \in Symbols : q = EvalPoly(t, x)
      BY HornersRounds
    <3>2. PICK w \in Symbols : w = x ++ p
      BY Additions
    <3>3. EvalPoly(d, x) = a ++ (w ** q)
      BY <2>5, <3>1, <3>2 DEF MultipleOf
    <3>4. EvalPoly(<<b>> \o d, x) = ((a ++ (w ** q)) ** x) ++ b
      BY <2>7, <3>3, LongerPoly
    <3>5. EvalPoly(c, x) = (q ** x) ++ a
      BY <2>3, <3>1, LongerPoly
    <3>6. w ** q \in Symbols /\ q ** x \in Symbols /\ p ** a \in Symbols /\ a ** x \in Symbols /\ (w ** q) ** x \in Symbols /\ w ** a \in Symbols
      BY Products
    <3>7. (a ++ (w ** q)) ** x = (a ** x) ++ ((w ** q) ** x)
      BY <3>6, Products
    <3>8. w ** ((q ** x) ++ a) = ((w ** q) ** x) ++ (w ** a)
      <4>1. w ** ((q ** x) ++ a) = (w ** (q ** x)) ++ (w ** a)
        BY <3>6, Products
      <4>2. w ** (q ** x) = (w ** q) ** x
        BY Products
      <4> QED
        BY <4>1, <4>2
    <3>9. w ** a = (a ** x) ++ (p ** a)
      <4>1. w ** a = (x ** a) ++ (p ** a) /\ x ** a = a ** x
        BY <3>2, Products
      <4> QED
        BY <4>1
    <3>10. PICK f \in Symbols : f = (w ** q) ** x
      BY <3>6
    <3>11. PICK g \in Symbols : g = a ** x
      BY <3>6
    <3>12. PICK h \in Symbols : h = p ** a
      BY <3>6
    <3>13. (g ++ f) ++ (s ++ h) = s ++ (f ++ (g ++ h))
      <4>1. (g ++ f) ++ (s ++ h) = (g ++ s) ++ (f ++ h)
        BY Exchange
      <4>2. g ++ s = s ++ g /\ f ++ h \in Symbols
        BY Additions
      <4>3. (s ++ g) ++ (f ++ h) = s ++ (g ++ (f ++ h))
        BY <4>2, Additions
      <4>4. g ++ (f ++ h) = (g ++ f) ++ h /\ (f ++ g) ++ h = f ++ (g ++ h) /\ f ++ g = g ++ f
        BY Additions
      <4> QED
        BY <4>1, <4>2, <4>3, <4>4
    <3>14. EvalPoly(<<b>> \o d, x) = (g ++ f) ++ (s ++ h)
      BY <2>6, <3>4, <3>7, <3>10, <3>11, <3>12
    <3>15. w ** EvalPoly(c, x) = f ++ (g ++ h)
      BY <3>5, <3>8, <3>9, <3>10, <3>11, <3>12
    <3> QED
      BY <3>2, <3>13, <3>14, <3>15
  <2> QED
    BY <2>7, <2>8 DEF MultipleOf
<1> HIDE DEF T, Multiplies
<1>3. \A n \in Nat : n \in T
  BY <1>1, <1>2, AllNumbers
<1>4. \A n \in Nat : Multiplies(n)
  BY <1>3 DEF T
<1> QED
  BY <1>4 DEF Multiplies

-----------------------------------------------------------------------------
(* What interpolation gives, and what it leaves open. *)

\* The weighted values of a polynomial at the first n points.
Weighted(x, n, c) == [i \in 1..n |-> Weight(x, n, i) ** EvalPoly(c, x[i])]

\* Lagrange's interpolation at 0: a polynomial of degree below n, from n points.
LEMMA Interpolates ==
    ASSUME NEW N \in Nat, NEW x, Points(x, N)
    PROVE  \A n \in 0..N : \A c \in Seq(Symbols) :
               Len(c) <= n => SumTo(Weighted(x, n, c), n) = EvalPoly(c, 0)
<1> DEFINE Exact(n) == \A c \in Seq(Symbols) : Len(c) <= n => SumTo(Weighted(x, n, c), n) = EvalPoly(c, 0)
           T == {n \in Nat : n <= N => Exact(n)}
<1>1. \A i \in 1..N : x[i] \in Symbols
  BY RatiosValued, Additions
<1>2. 0 \in T
  <2>1. ASSUME NEW c \in Seq(Symbols), Len(c) <= 0
        PROVE  SumTo(Weighted(x, 0, c), 0) = EvalPoly(c, 0)
    <3>1. c = <<>> /\ 0 \in Symbols
      BY <2>1, Additions
    <3> QED
      BY <3>1, EmptyPoly, SumOfNone
  <2> QED
    BY <2>1
<1>3. ASSUME NEW n \in Nat, n \in T PROVE n + 1 \in T
  <2> SUFFICES ASSUME n + 1 <= N, NEW c \in Seq(Symbols), Len(c) <= n + 1
               PROVE  SumTo(Weighted(x, n + 1, c), n + 1) = EvalPoly(c, 0)
    OBVIOUS
  <2>1. n \in 0..(N - 1) /\ n \in 0..N /\ n + 1 \in 0..N /\ n + 1 \in 1..N /\ n + 1 \in 1..(n + 1)
        /\ n <= N /\ \A i \in 1..n : i \in 1..N /\ i \in 1..(n + 1) /\ i # n + 1
    OBVIOUS
  <2>2. PICK u \in Symbols : u = x[n + 1]
    BY <1>1, <2>1
  <2>3. \A i \in 1..n : x[i] # u
    BY <2>1, <2>2 DEF Points
  <2>4. PICK d \in Seq(Symbols) : Len(d) <= n /\ Divided(c, u, d)
    BY Division
  <2>5. SumTo(Weighted(x, n, d), n) = EvalPoly(d, 0)
    BY <1>3, <2>1, <2>4
  <2>6. PICK v \in Symbols : v = EvalPoly(c, u)
    BY HornersRounds
  <2>7. PICK r \in Symbols : r = EvalPoly(d, 0)
    BY Additions, HornersRounds
  <2>8. Gap(x, n, u) ++ SumTo(Portions(x, n, u), n) = 1
    BY <2>1, <2>3, PortionsComplete
  <2>9. Valued(Portions(x, n, u), n) /\ Valued(Weighted(x, n, d), n)
    <3>1. ASSUME NEW i \in 1..n PROVE Portions(x, n, u)[i] \in Symbols /\ Weighted(x, n, d)[i] \in Symbols
      <4>1. Weight(x, n, i) \in Symbols /\ x[i] \in Symbols
        BY <1>1, <2>1, Weights
      <4>2. Ratio(u, x[i]) \in Symbols /\ EvalPoly(d, x[i]) \in Symbols
        BY <4>1, Ratios, HornersRounds
      <4>3. Weight(x, n, i) ** Ratio(u, x[i]) \in Symbols /\ Weight(x, n, i) ** EvalPoly(d, x[i]) \in Symbols
        BY <4>1, <4>2, Products
      <4> QED
        BY <4>3 DEF Portions, Weighted
    <3> QED
      BY <3>1 DEF Valued
  <2>10. Combines(Weighted(x, n + 1, c), v, Portions(x, n, u), u, Weighted(x, n, d), n)
    <3> SUFFICES ASSUME NEW i \in 1..n
                 PROVE  Weighted(x, n + 1, c)[i] = (v ** Portions(x, n, u)[i]) ++ (u ** Weighted(x, n, d)[i])
      BY DEF Combines
    <3>1. PICK y \in Symbols : y = x[i]
      BY <1>1, <2>1
    <3>2. PICK w \in Symbols : w = Weight(x, n, i)
      BY <2>1, Weights
    <3>3. PICK b \in Symbols : b = Ratio(u, y)
      BY Ratios
    <3>4. PICK q \in Symbols : q = EvalPoly(d, y)
      BY HornersRounds
    <3>5. Weight(x, n + 1, i) = w ** b
      BY <2>1, <2>2, <3>1, <3>2, <3>3, Weights
    <3>6. EvalPoly(c, y) = v ++ ((y ++ u) ** q)
      BY <2>4, <2>6, <3>4 DEF Divided
    <3>7. Weighted(x, n + 1, c)[i] = (w ** b) ** (v ++ ((y ++ u) ** q))
      BY <2>1, <3>1, <3>5, <3>6 DEF Weighted
    <3>8. Portions(x, n, u)[i] = w ** b /\ Weighted(x, n, d)[i] = w ** q
      BY <3>1, <3>2, <3>3, <3>4 DEF Portions, Weighted
    <3>9. PICK s \in Symbols : s = u ++ y
      BY Additions
    <3>10. y ++ u = s
      BY <3>9, Additions
    <3>11. b ** s = u
      <4>1. s # 0
        <5>1. u # y
          BY <2>3, <3>1
        <5> QED
          BY <3>9, <5>1, Nonzero
      <4>2. PICK t \in Symbols : t = Inv[s] /\ s ** t = 1
        BY <4>1, Inverses
      <4>3. b = u ** t
        BY <3>3, <3>9, <4>2 DEF Ratio
      <4>4. (u ** t) ** s = u ** (t ** s) /\ t ** s = s ** t /\ u ** 1 = u
        BY Products
      <4> QED
        BY <4>2, <4>3, <4>4
    <3>12. w ** b \in Symbols /\ s ** q \in Symbols /\ w ** q \in Symbols
      BY Products
    <3>13. (w ** b) ** (v ++ (s ** q)) = ((w ** b) ** v) ++ ((w ** b) ** (s ** q))
      BY <3>12, Products
    <3>14. (w ** b) ** v = v ** (w ** b)
      BY <3>12, Products
    <3>15. (w ** b) ** (s ** q) = u ** (w ** q)
      <4>1. w ** b = b ** w
        BY Products
      <4>2. (b ** w) ** (s ** q) = (b ** s) ** (w ** q)
        BY ExchangeFactors
      <4> QED
        BY <3>11, <4>1, <4>2
    <3> QED
      BY <3>7, <3>8, <3>10, <3>13, <3>14, <3>15
  <2>11. PICK g \in Symbols : g = Gap(x, n, u)
    BY <2>1, Weights
  <2>12. PICK h \in Symbols : h = SumTo(Portions(x, n, u), n)
    BY <2>9, SumsInside
  <2>13. SumTo(Weighted(x, n + 1, c), n) = (v ** h) ++ (u ** r)
    BY <2>5, <2>7, <2>9, <2>10, <2>12, LinearSums
  <2>14. Weighted(x, n + 1, c)[n + 1] = g ** v
    <3>1. Weight(x, n + 1, n + 1) = g
      BY <2>1, <2>2, <2>11, Weights
    <3> QED
      BY <2>1, <2>2, <2>6, <3>1 DEF Weighted
  <2>15. Valued(Weighted(x, n + 1, c), n + 1)
    <3>1. ASSUME NEW i \in 1..(n + 1) PROVE Weighted(x, n + 1, c)[i] \in Symbols
      <4>1. i \in 1..N
        BY <2>1
      <4>2. Weight(x, n + 1, i) \in Symbols /\ EvalPoly(c, x[i]) \in Symbols
        BY <1>1, <2>1, <4>1, Weights, HornersRounds
      <4>3. Weight(x, n + 1, i) ** EvalPoly(c, x[i]) \in Symbols
        BY <4>2, Products
      <4> QED
        BY <4>3 DEF Weighted
    <3> QED
      BY <3>1 DEF Valued
  <2>16. SumTo(Weighted(x, n + 1, c), n + 1) = ((v ** h) ++ (u ** r)) ++ (g ** v)
    BY <2>13, <2>14, <2>15, Sums
  <2>17. v ** h \in Symbols /\ u ** r \in Symbols /\ v ** g \in Symbols /\ g ** v = v ** g
    BY Products
  <2>18. ((v ** h) ++ (u ** r)) ++ (v ** g) = ((v ** g) ++ (v ** h)) ++ (u ** r)
    <3>1. ((v ** h) ++ (u ** r)) ++ (v ** g) = (v ** g) ++ ((v ** h) ++ (u ** r))
      <4>1. (v ** h) ++ (u ** r) \in Symbols
        BY <2>17, Additions
      <4> QED
        BY <2>17, <4>1, Additions
    <3> QED
      BY <2>17, <3>1, Additions
  <2>19. (v ** g) ++ (v ** h) = v
    <3>1. v ** (g ++ h) = (v ** g) ++ (v ** h) /\ v ** 1 = v
      BY Products
    <3> QED
      BY <2>8, <2>11, <2>12, <3>1
  <2>20. EvalPoly(c, 0) = v ++ (u ** r)
    <3>1. 0 \in Symbols /\ 0 ++ u = u
      BY Additions
    <3>2. EvalPoly(c, 0) = EvalPoly(c, u) ++ ((0 ++ u) ** EvalPoly(d, 0))
      BY <2>4, <3>1 DEF Divided
    <3> QED
      BY <2>6, <2>7, <3>1, <3>2
  <2> QED
    BY <2>16, <2>17, <2>18, <2>19, <2>20
<1> HIDE DEF T, Exact
<1>4. \A n \in Nat : n \in T
  BY <1>2, <1>3, AllNumbers
<1>5. \A n \in 0..N : Exact(n)
  <2>1. \A n \in 0..N : n \in Nat /\ n <= N
    OBVIOUS
  <2> QED
    BY <1>4, <2>1 DEF T
<1> QED
  BY <1>5 DEF Exact

\* A polynomial that is a at 0 and y[i] at i, for n values of i.
LEMMA PolyThrough ==
    \A n \in Nat : \A K \in SUBSET (Symbols \ {0}) :
        IsFiniteSet(K) /\ Cardinality(K) = n =>
            \A y \in [K -> Symbols], a \in Symbols :
                \E d \in [1..n -> Symbols] : \A i \in K : EvalPoly(<<a>> \o d, i) = y[i]
<1> DEFINE Through(n) == \A K \in SUBSET (Symbols \ {0}) :
        IsFiniteSet(K) /\ Cardinality(K) = n =>
            \A y \in [K -> Symbols], a \in Symbols :
                \E d \in [1..n -> Symbols] : \A i \in K : EvalPoly(<<a>> \o d, i) = y[i]
           T == {n \in Nat : Through(n)}
<1>1. 0 \in T
  <2>1. ASSUME NEW K \in SUBSET (Symbols \ {0}), IsFiniteSet(K), Cardinality(K) = 0, NEW a \in Symbols, NEW y \in [K -> Symbols]
        PROVE  \E d \in [1..0 -> Symbols] : \A i \in K : EvalPoly(<<a>> \o d, i) = y[i]
    <3>1. K = {}
      BY <2>1, FS_EmptySet
    <3>2. <<>> \in [1..0 -> Symbols]
      OBVIOUS
    <3> QED
      BY <3>1, <3>2
  <2> QED
    BY <2>1
<1>2. ASSUME NEW n \in Nat, n \in T PROVE n + 1 \in T
  <2>1. ASSUME NEW K \in SUBSET (Symbols \ {0}), IsFiniteSet(K), Cardinality(K) = n + 1, NEW a \in Symbols, NEW y \in [K -> Symbols]
        PROVE  \E d \in [1..(n + 1) -> Symbols] : \A i \in K : EvalPoly(<<a>> \o d, i) = y[i]
    <3>1. K # {}
      BY <2>1, FS_EmptySet
    <3>2. PICK p \in K : TRUE
      BY <3>1
    <3>3. p \in Symbols /\ p # 0
      BY <3>2
    <3> DEFINE rest == K \ {p}
    <3>4. rest \in SUBSET (Symbols \ {0}) /\ IsFiniteSet(rest) /\ Cardinality(rest) = n
      <4>1. IsFiniteSet(rest) /\ Cardinality(rest) = Cardinality(K) - 1
        BY <2>1, <3>2, FS_RemoveElement
      <4> QED
        BY <2>1, <4>1
    <3>5. PICK v \in Symbols : v = y[p]
      BY <3>2
    <3>6. PICK t \in Symbols : p ** t = 1
      BY <3>3, Inverses
    <3>7. PICK b \in Symbols : b = (a ++ v) ** t
      BY Additions, Products
    <3> DEFINE z == [i \in rest |-> (y[i] ++ v) ** Inv[i ++ p]]
    <3>8. ASSUME NEW i \in rest
          PROVE  i \in Symbols /\ y[i] \in Symbols /\ z[i] \in Symbols /\ (i ++ p) ** z[i] = y[i] ++ v
      <4>1. i \in Symbols /\ y[i] \in Symbols /\ i # p
        OBVIOUS
      <4>2. PICK s \in Symbols \ {0} : s = i ++ p
        BY <3>3, <4>1, Nonzero
      <4>3. PICK e \in Symbols : e = Inv[s] /\ s ** e = 1
        BY Inverses
      <4>4. PICK w \in Symbols : w = y[i] ++ v
        BY <4>1, Additions
      <4>5. z[i] = w ** e
        BY <4>2, <4>3, <4>4
      <4>6. s ** (w ** e) = w
        <5>1. w ** e = e ** w /\ (s ** e) ** w = s ** (e ** w) /\ 1 ** w = w
          BY Products
        <5> QED
          BY <4>3, <5>1
      <4>7. w ** e \in Symbols
        BY Products
      <4> QED
        BY <4>1, <4>2, <4>4, <4>5, <4>6, <4>7
    <3>9. z \in [rest -> Symbols]
      <4>1. z = [i \in rest |-> z[i]]
        OBVIOUS
      <4>2. \A i \in rest : z[i] \in Symbols
        BY <3>8
      <4> HIDE DEF z
      <4> QED
        BY <4>1, <4>2
    <3> HIDE DEF z, rest
    <3>10. PICK d \in [1..n -> Symbols] : \A i \in rest : EvalPoly(<<b>> \o d, i) = z[i]
      <4>1. Through(n)
        BY <1>2
      <4> QED
        BY <3>4, <3>9, <4>1
    <3>11. PICK c \in [1..(n + 1) -> Symbols] : c = <<b>> \o d
      BY Consed
    <3>12. PICK f \in [1..((n + 1) + 1) -> Symbols] : MultipleOf(c, p, v, f)
      <4>1. n + 1 \in Nat
        OBVIOUS
      <4> QED
        BY <3>3, <4>1, Multiplication
    <3>13. c \in Seq(Symbols) /\ d \in Seq(Symbols) /\ f \in Seq(Symbols) /\ f # <<>> /\ Len(f) = (n + 1) + 1
      <4>1. n + 1 \in Nat /\ (n + 1) + 1 \in Nat /\ (n + 1) + 1 # 0
        OBVIOUS
      <4>2. d \in Seq(Symbols)
        BY Sequence
      <4>3. c \in Seq(Symbols)
        BY <4>1, Sequence
      <4>4. f \in Seq(Symbols) /\ Len(f) = (n + 1) + 1
        BY <4>1, Sequence
      <4>5. f # <<>>
        BY <4>1, <4>4
      <4> QED
        BY <4>2, <4>3, <4>4, <4>5
    <3>14. PICK h \in Symbols : \E g \in Seq(Symbols) : f = <<h>> \o g /\ Len(f) = Len(g) + 1
      <4>1. FirstAndRest(f, Symbols)
        BY <3>13, Unconsed
      <4> QED
        BY <4>1 DEF FirstAndRest
    <3>15. PICK g \in Seq(Symbols) : f = <<h>> \o g /\ Len(f) = Len(g) + 1
      BY <3>14
    <3>16. g \in [1..(n + 1) -> Symbols]
      <4>1. Len(g) = n + 1
        BY <3>13, <3>15
      <4> QED
        BY <4>1
    <3>17. h = a
      <4>1. 0 \in Symbols /\ 0 ++ p = p
        BY <3>3, Additions
      <4>2. EvalPoly(f, 0) = v ++ ((0 ++ p) ** EvalPoly(c, 0))
        BY <3>12, <4>1 DEF MultipleOf
      <4>3. EvalPoly(c, 0) = b /\ EvalPoly(f, 0) = h
        BY <3>11, <3>13, <3>15, AtZero
      <4>4. PICK w \in Symbols : w = a ++ v
        BY Additions
      <4>5. p ** (w ** t) = w
        <5>1. w ** t = t ** w /\ (p ** t) ** w = p ** (t ** w) /\ 1 ** w = w
          BY <3>3, Products
        <5> QED
          BY <3>6, <5>1
      <4>6. v ++ w = a
        <5>1. v ++ (a ++ v) = (a ++ v) ++ v
          BY <4>4, Additions
        <5>2. (a ++ v) ++ v = a ++ (v ++ v) /\ v ++ v = 0 /\ a ++ 0 = a
          BY Additions
        <5> QED
          BY <4>4, <5>1, <5>2
      <4> QED
        BY <3>7, <4>1, <4>2, <4>3, <4>4, <4>5, <4>6
    <3>18. ASSUME NEW i \in K PROVE EvalPoly(<<a>> \o g, i) = y[i]
      <4>1. i \in Symbols /\ EvalPoly(f, i) = v ++ ((i ++ p) ** EvalPoly(c, i))
        BY <3>12 DEF MultipleOf
      <4>2. EvalPoly(c, i) \in Symbols
        BY <3>13, <4>1, HornersRounds
      <4>3. CASE i = p
        <5>1. i ++ p = 0 /\ 0 ** EvalPoly(c, i) = 0 /\ v ++ 0 = v
          BY <3>3, <4>2, <4>3, Additions, Products
        <5> QED
          BY <3>5, <3>15, <3>17, <4>1, <4>3, <5>1
      <4>4. CASE i # p
        <5>1. i \in rest
          BY <4>4 DEF rest
        <5>2. y[i] \in Symbols /\ (i ++ p) ** z[i] = y[i] ++ v /\ EvalPoly(c, i) = z[i]
          BY <3>8, <3>10, <3>11, <5>1
        <5>3. PICK w \in Symbols : w = y[i]
          BY <5>2
        <5>4. v ++ (w ++ v) = w
          <6>1. w ++ v \in Symbols
            BY Additions
          <6>2. v ++ (w ++ v) = (w ++ v) ++ v
            BY <6>1, Additions
          <6>3. (w ++ v) ++ v = w ++ (v ++ v) /\ v ++ v = 0 /\ w ++ 0 = w
            BY Additions
          <6> QED
            BY <6>2, <6>3
        <5> QED
          BY <3>15, <3>17, <4>1, <5>2, <5>3, <5>4
      <4> QED
        BY <4>3, <4>4
    <3> QED
      BY <3>16, <3>18
  <2>2. Through(n + 1)
    BY <2>1
  <2> HIDE DEF Through
  <2> QED
    BY <2>2
<1> HIDE DEF T, Through
<1>3. \A n \in Nat : n \in T
  BY <1>1, <1>2, AllNumbers
<1>4. \A n \in Nat : Through(n)
  BY <1>3 DEF T
<1> QED
  BY <1>4 DEF Through

-----------------------------------------------------------------------------
(* Both implementations of reconstruction, and the directory of shares. *)

\* The product of the quotients is the quotient of the products.
LEMMA OneQuotient ==
    ASSUME NEW N \in Nat, NEW x, Points(x, N), NEW i \in 1..N, NEW sums,
           \A j \in 1..N : sums[j] = x[j] ++ x[i]
    PROVE  ProductBut(x, N, i) ** Inv[ProductBut(sums, N, i)] = Weight(x, N, i)
<1> DEFINE SplitUp(n) == /\ ProductBut(x, n, i) \in Symbols
                       /\ ProductBut(sums, n, i) \in Symbols \ {0}
                       /\ ProductBut(x, n, i) ** Inv[ProductBut(sums, n, i)] = Weight(x, n, i)
           T == {n \in Nat : n <= N => SplitUp(n)}
<1>1. \A j \in 1..N : x[j] \in Symbols /\ x[j] # 0
  BY RatiosValued, Additions
<1>2. 0 \in T
  <2>1. ProductBut(x, 0, i) = 1 /\ ProductBut(sums, 0, i) = 1 /\ Weight(x, 0, i) = 1
    BY ProductOfNone DEF Weight
  <2>2. 1 \in Symbols \ {0}
    BY Additions
  <2> QED
    BY <2>1, <2>2, Inverses
<1>3. ASSUME NEW n \in Nat, n \in T PROVE n + 1 \in T
  <2> SUFFICES ASSUME n + 1 <= N PROVE SplitUp(n + 1)
    OBVIOUS
  <2>1. n <= N /\ n \in 0..(N - 1) /\ n + 1 \in 1..N /\ \A m \in 1..(n + 1) : m \in 1..N
    OBVIOUS
  <2>2. PICK z \in Symbols : z = x[i]
    BY <1>1
  <2>3. Valued(RatiosTo(x, z), n + 1) /\ RatiosTo(x, z)[n + 1] = Ratio(x[n + 1], z)
    BY <2>1, RatiosValued DEF Valued
  <2>4. Valued(x, n + 1)
    BY <1>1, <2>1 DEF Valued
  <2>5. Valued(sums, n + 1)
    <3>1. ASSUME NEW m \in 1..(n + 1) PROVE sums[m] \in Symbols
      <4>1. sums[m] = x[m] ++ z /\ x[m] \in Symbols
        BY <1>1, <2>1, <2>2
      <4> QED
        BY <4>1, Additions
    <3> QED
      BY <3>1 DEF Valued
  <2>6. PICK a \in Symbols : a = ProductBut(x, n, i)
    BY <2>4, ProductsBut
  <2>7. PICK b \in Symbols \ {0} : b = ProductBut(sums, n, i)
    BY <1>3, <2>1
  <2>8. a ** Inv[b] = ProductBut(RatiosTo(x, z), n, i)
    BY <1>3, <2>1, <2>2, <2>6, <2>7 DEF Weight
  <2>9. Weight(x, n + 1, i) = ProductBut(RatiosTo(x, z), n + 1, i)
    BY <2>2 DEF Weight
  <2>10. CASE n + 1 = i
    BY <2>3, <2>4, <2>5, <2>6, <2>7, <2>8, <2>9, <2>10, ProductsBut
  <2>11. CASE n + 1 # i
    <3>1. PICK u \in Symbols : u = x[n + 1]
      BY <1>1, <2>1
    <3>2. u # z
      BY <2>1, <2>2, <2>11, <3>1 DEF Points
    <3>3. PICK d \in Symbols \ {0} : d = u ++ z
      BY <3>2, Nonzero
    <3>4. sums[n + 1] = d /\ Ratio(u, z) = u ** Inv[d]
      BY <2>1, <2>2, <3>1, <3>3 DEF Ratio
    <3>5. ProductBut(x, n + 1, i) = a ** u
      BY <2>4, <2>6, <2>11, <3>1, ProductsBut
    <3>6. ProductBut(sums, n + 1, i) = b ** d
      BY <2>5, <2>7, <2>11, <3>4, ProductsBut
    <3>7. ProductBut(RatiosTo(x, z), n + 1, i) = (a ** Inv[b]) ** (u ** Inv[d])
      BY <2>3, <2>8, <2>11, <3>1, <3>4, ProductsBut
    <3>8. b ** d \in Symbols \ {0} /\ Inv[b ** d] = Inv[b] ** Inv[d]
      BY Quotients
    <3>9. PICK s \in Symbols : s = Inv[b]
      BY Inverses
    <3>10. PICK t \in Symbols : t = Inv[d]
      BY Inverses
    <3>11. (a ** u) ** (s ** t) = (a ** s) ** (u ** t)
      BY ExchangeFactors
    <3>12. a ** u \in Symbols
      BY Products
    <3> QED
      BY <2>9, <3>5, <3>6, <3>7, <3>8, <3>9, <3>10, <3>11, <3>12
  <2> QED
    BY <2>10, <2>11
<1> HIDE DEF T, SplitUp
<1>4. N \in T
  BY <1>2, <1>3, AllNumbers
<1>5. SplitUp(N)
  BY <1>4 DEF T
<1> QED
  BY <1>5 DEF SplitUp

\* Shares of one polynomial, at indices that are not 0 and all different.
SharesOn(shares, n, c) ==
    /\ DOMAIN shares = 1..n
    /\ \A i \in 1..n : shares[i].index \in Symbols \ {0} /\ shares[i].y = EvalPoly(c, shares[i].index)
    /\ \A i, j \in 1..n : shares[i].index = shares[j].index => i = j

\* Both implementations give back the first coefficient.
LEMMA BothExact ==
    ASSUME NEW n \in Nat, NEW k \in 1..n, NEW c \in Seq(Symbols), Len(c) <= k, NEW shares, SharesOn(shares, n, c)
    PROVE  /\ Len(shares) = n => Interpolated(shares) = EvalPoly(c, 0)
           /\ Reconstruct(shares, k) = EvalPoly(c, 0)
<1> DEFINE x == [j \in 1..n |-> shares[j].index]
<1>1. \A j \in 1..n : x[j] = shares[j].index /\ x[j] \in Symbols
  BY DEF SharesOn
<1>2. Points(x, n)
  BY DEF Points, SharesOn
<1> HIDE DEF x
<1>3. \A j \in 1..n : shares[j].y = EvalPoly(c, x[j]) /\ EvalPoly(c, x[j]) \in Symbols
  BY <1>1, HornersRounds DEF SharesOn
<1>4. ASSUME Len(shares) = n PROVE Interpolated(shares) = EvalPoly(c, 0)
  <2>1. ASSUME NEW i \in 1..n PROVE Basis(shares, i) ** shares[i].y = Weighted(x, n, c)[i]
    <3> DEFINE sums == [j \in 1..n |-> shares[j].index ++ shares[i].index]
    <3>1. \A j \in 1..n : sums[j] = x[j] ++ x[i]
      BY <1>1
    <3>2. Basis(shares, i) = ProductBut(x, n, i) ** Inv[ProductBut(sums, n, i)]
      BY <1>4 DEF Basis, x
    <3> HIDE DEF sums
    <3>3. Basis(shares, i) = Weight(x, n, i)
      BY <1>2, <3>1, <3>2, OneQuotient
    <3> QED
      BY <1>3, <3>3 DEF Weighted
  <2> DEFINE f == [i \in DOMAIN shares |-> Basis(shares, i) ** shares[i].y]
  <2>2. \A i \in 1..n : f[i] = Weighted(x, n, c)[i]
    BY <2>1 DEF SharesOn
  <2>3. Interpolated(shares) = SumTo(f, n)
    BY <1>4 DEF Interpolated
  <2> HIDE DEF f
  <2>4. SumTo(f, n) = SumTo(Weighted(x, n, c), n)
    BY <2>2, SameSum
  <2>5. n \in 0..n /\ Len(c) <= n
    OBVIOUS
  <2> QED
    BY <1>2, <2>3, <2>4, <2>5, Interpolates
<1>5. Reconstruct(shares, k) = EvalPoly(c, 0)
  <2> DEFINE factors(i) == [j \in 1..k |-> shares[j].index ** Inv[shares[j].index ++ shares[i].index]]
             f == [i \in 1..k |-> shares[i].y ** ProductBut(factors(i), k, i)]
  <2>1. \A i \in 1..k : i \in 1..n
    OBVIOUS
  <2>2. ASSUME NEW i \in 1..k PROVE shares[i].y ** ProductBut(factors(i), k, i) = Weighted(x, k, c)[i]
    <3>1. DOMAIN x = 1..n
      BY DEF x
    <3>2. \A m \in 1..k : factors(i)[m] = RatiosTo(x, x[i])[m]
      BY <1>1, <2>1, <3>1 DEF RatiosTo, Ratio
    <3> HIDE DEF factors
    <3>3. ProductBut(factors(i), k, i) = Weight(x, k, i)
      BY <3>2, SameProduct DEF Weight
    <3>4. Weight(x, k, i) \in Symbols
      <4>1. k \in 0..n /\ i \in 1..n
        BY <2>1
      <4> QED
        BY <1>2, <4>1, Weights
    <3>5. PICK v \in Symbols : v = EvalPoly(c, x[i]) /\ v = shares[i].y
      BY <1>3, <2>1
    <3>6. v ** Weight(x, k, i) = Weight(x, k, i) ** v
      BY <3>4, Products
    <3> QED
      BY <3>3, <3>5, <3>6 DEF Weighted
  <2>3. \A i \in 1..k : f[i] = Weighted(x, k, c)[i]
    BY <2>2
  <2>4. Reconstruct(shares, k) = SumTo(f, k)
    BY DEF Reconstruct
  <2> HIDE DEF f
  <2>5. SumTo(f, k) = SumTo(Weighted(x, k, c), k)
    BY <2>3, SameSum
  <2>6. k \in 0..n
    OBVIOUS
  <2> QED
    BY <1>2, <2>4, <2>5, <2>6, Interpolates
<1> QED
  BY <1>4, <1>5

\* What has been split, and the records of its shares.
ShareRecords == [index : Nat, y : Symbols]
FileEntries == [index : Nat, y : Nat, split : Nat]

Drawn(s) ==
    /\ s.k \in 2..s.n /\ s.n \in 2..MaxShares
    /\ \E draws \in [1..(s.k - 1) -> Symbols] : s.shares = SplitSecret(s.secret, draws, s.n)

Splits == {s \in [secret : Symbols, k : Nat, n : Nat, shares : Seq(ShareRecords)] : Drawn(s)}

\* e is a share of one of the splits ss.
ShareOf(e, ss) ==
    /\ e.split \in DOMAIN ss
    /\ e.index \in 1..ss[e.split].n
    /\ e.y = ss[e.split].shares[e.index].y

\* Every share on its way, on file or given to recover-key is one of a split.
SplitsInv == splits \in Seq(Splits)

PendingInv ==
    /\ pending \in Seq(ShareRecords)
    /\ pending # <<>> => splits # <<>>
    /\ \A j \in 1..Len(pending) :
           /\ pending[j].index \in 1..splits[Len(splits)].n
           /\ pending[j] = splits[Len(splits)].shares[pending[j].index]

DirInv ==
    /\ dir \in [1..MaxShares -> FileEntries]
    /\ \A i \in 1..MaxShares : dir[i] \in {NoShare, Torn} \/ ShareOf(dir[i], splits)

UsedInv ==
    /\ used \in Seq(FileEntries)
    /\ \A i \in 1..Len(used) : ShareOf(used[i], splits)
    /\ used # <<>> => CombineOK(used) /\ key = Interpolated(used)

ShareInv == SplitsInv /\ PendingInv /\ DirInv /\ UsedInv

LEMMA Indices == \A i \in 1..MaxShares : i \in Symbols \ {0}
<1>1. PICK s \in Nat : s = Size
  BY BitsAssumption, Powers2 DEF BitsAssumption, Size
<1>2. MaxShares \in 1..(s - 1) /\ Symbols = 0..(s - 1)
  BY <1>1, ShareAssumption DEF ShareAssumption, Symbols
<1> QED
  BY <1>1, <1>2

LEMMA SharesMade ==
    ASSUME NEW secret \in Symbols, NEW draws \in Seq(Symbols), NEW n \in 1..MaxShares
    PROVE  LET shares == SplitSecret(secret, draws, n) IN
           /\ shares \in Seq(ShareRecords) /\ Len(shares) = n /\ DOMAIN shares = 1..n
           /\ \A i \in 1..n : shares[i].index = i /\ shares[i].y = EvalPoly(<<secret>> \o draws, i)
<1> DEFINE shares == SplitSecret(secret, draws, n)
<1>1. n \in Nat /\ \A i \in 1..n : i \in 1..MaxShares /\ i \in Nat
  BY ShareAssumption DEF ShareAssumption
<1>2. ASSUME NEW i \in 1..n PROVE [index |-> i, y |-> EvalPoly(<<secret>> \o draws, i)] \in ShareRecords
  <2>1. <<secret>> \o draws \in Seq(Symbols) /\ i \in Symbols
    BY <1>1, Indices
  <2>2. EvalPoly(<<secret>> \o draws, i) \in Symbols
    BY <2>1, HornersRounds
  <2> QED
    BY <1>1, <2>2 DEF ShareRecords
<1>3. shares \in [1..n -> ShareRecords]
  BY <1>2 DEF SplitSecret
<1>4. \A i \in 1..n : shares[i].index = i /\ shares[i].y = EvalPoly(<<secret>> \o draws, i)
  BY DEF SplitSecret
<1> HIDE DEF shares
<1>5. shares \in Seq(ShareRecords) /\ Len(shares) = n /\ DOMAIN shares = 1..n
  BY <1>1, <1>3
<1> QED
  BY <1>4, <1>5 DEF shares

\* A share of a split is the value of its polynomial.
LEMMA SplitFacts ==
    ASSUME NEW s \in Splits
    PROVE  /\ s.secret \in Symbols /\ s.k \in 2..s.n /\ s.n \in 2..MaxShares
           /\ \E draws \in Seq(Symbols) :
                  /\ Len(draws) + 1 = s.k
                  /\ \A i \in 1..s.n : s.shares[i].index = i /\ s.shares[i].y = EvalPoly(<<s.secret>> \o draws, i)
<1>1. s.secret \in Symbols /\ s.k \in 2..s.n /\ s.n \in 2..MaxShares
  BY DEF Splits, Drawn
<1>2. PICK draws \in [1..(s.k - 1) -> Symbols] : s.shares = SplitSecret(s.secret, draws, s.n)
  BY DEF Splits, Drawn
<1>3. s.k - 1 \in Nat /\ (s.k - 1) + 1 = s.k
  BY <1>1
<1>4. draws \in Seq(Symbols) /\ Len(draws) = s.k - 1
  BY <1>3
<1>5. s.n \in 1..MaxShares
  BY <1>1
<1>6. \A i \in 1..s.n : s.shares[i].index = i /\ s.shares[i].y = EvalPoly(<<s.secret>> \o draws, i)
  BY <1>1, <1>2, <1>4, <1>5, SharesMade
<1> QED
  BY <1>1, <1>3, <1>4, <1>6

LEMMA WithinBound ==
    ASSUME NEW s \in Splits
    PROVE  \A i \in 1..s.n : i \in 1..MaxShares
<1>1. PICK n \in 2..MaxShares : n = s.n
  BY SplitFacts
<1>2. MaxShares \in Nat
  <2>1. PICK z \in Nat : z = Size
    BY BitsAssumption, Powers2 DEF BitsAssumption, Size
  <2> QED
    BY <2>1, ShareAssumption DEF ShareAssumption
<1>3. \A i \in 1..n : i \in 1..MaxShares
  BY <1>2
<1> QED
  BY <1>1, <1>3

LEMMA ShareInitOK == ShareInit => ShareInv
<1> SUFFICES ASSUME ShareInit PROVE ShareInv
  OBVIOUS
<1>1. splits = <<>> /\ pending = <<>> /\ used = <<>> /\ dir = [i \in 1..MaxShares |-> NoShare]
  BY DEF ShareInit
<1>2. SplitsInv /\ PendingInv /\ UsedInv
  BY <1>1 DEF SplitsInv, PendingInv, UsedInv
<1>3. NoShare \in FileEntries
  BY DEF NoShare, FileEntries
<1>4. DirInv
  BY <1>1, <1>3 DEF DirInv
<1> QED
  BY <1>2, <1>4 DEF ShareInv

LEMMA SplitStep ==
    ASSUME ShareInv, NEW secret \in Secrets, NEW k \in 2..MaxShares, NEW n \in 2..MaxShares,
           NEW draws \in [1..(k - 1) -> Draws], Split(secret, draws, n)
    PROVE  ShareInv'
<1> DEFINE shares == SplitSecret(secret, draws, n)
           new == [secret |-> secret, k |-> k, n |-> n, shares |-> shares]
<1>1. secret \in Symbols /\ draws \in [1..(k - 1) -> Symbols]
  BY ShareAssumption DEF ShareAssumption
<1>2. k \in Nat /\ n \in Nat /\ k - 1 \in Nat /\ (k - 1) + 1 = k /\ n \in 1..MaxShares
  OBVIOUS
<1>3. draws \in Seq(Symbols) /\ Len(draws) = k - 1
  BY <1>1, <1>2
<1>4. shares \in Seq(ShareRecords) /\ Len(shares) = n /\ \A i \in 1..n : shares[i].index = i
  BY <1>1, <1>2, <1>3, SharesMade
<1>5. /\ ThresholdOK(k, n) /\ pending' = shares
      /\ splits' = Append(splits, new)
      /\ dir' = dir /\ used' = used /\ key' = key
  BY <1>2, <1>3 DEF Split
<1>6. new \in Splits
  <2>1. k \in 2..n
    BY <1>5 DEF ThresholdOK
  <2>2. new \in [secret : Symbols, k : Nat, n : Nat, shares : Seq(ShareRecords)]
    BY <1>1, <1>2, <1>4
  <2>3. new.k = k /\ new.n = n /\ new.secret = secret /\ new.shares = shares
    OBVIOUS
  <2>4. Drawn(new)
    <3> HIDE DEF new
    <3> QED
      BY <1>1, <2>1, <2>3 DEF Drawn
  <2> QED
    BY <2>2, <2>4 DEF Splits
<1>7. new.n = n /\ new.shares = shares
  OBVIOUS
<1> HIDE DEF new, shares
<1>8. splits' \in Seq(Splits) /\ Len(splits') = Len(splits) + 1 /\ splits'[Len(splits) + 1] = new
      /\ \A s \in DOMAIN splits : s \in DOMAIN splits' /\ splits'[s] = splits[s]
  BY <1>5, <1>6 DEF ShareInv, SplitsInv
<1>9. \A e : ShareOf(e, splits) => ShareOf(e, splits')
  BY <1>8 DEF ShareOf
<1>10. SplitsInv'
  BY <1>8 DEF SplitsInv
<1>11. PendingInv'
  <2>1. splits' # <<>>
    BY <1>8 DEF ShareInv, SplitsInv
  <2>2. splits'[Len(splits')].n = n /\ splits'[Len(splits')].shares = shares
    BY <1>7, <1>8
  <2>3. \A j \in 1..Len(shares) : shares[j].index = j /\ j \in 1..n
    BY <1>4
  <2>4. pending' \in Seq(ShareRecords)
    BY <1>4, <1>5
  <2>5. \A j \in 1..Len(pending') : /\ pending'[j].index \in 1..splits'[Len(splits')].n
                                    /\ pending'[j] = splits'[Len(splits')].shares[pending'[j].index]
    BY <1>5, <2>2, <2>3
  <2> QED
    BY <2>1, <2>4, <2>5 DEF PendingInv
<1>12. DirInv'
  BY <1>5, <1>9 DEF ShareInv, DirInv
<1>13. UsedInv'
  <2>1. used \in Seq(FileEntries) /\ (used # <<>> => CombineOK(used) /\ key = Interpolated(used))
        /\ \A i \in 1..Len(used) : ShareOf(used[i], splits')
    BY <1>9 DEF ShareInv, UsedInv
  <2> QED
    BY <1>5, <2>1 DEF UsedInv
<1> QED
  BY <1>10, <1>11, <1>12, <1>13 DEF ShareInv

LEMMA SameUsed ==
    ASSUME UsedInv, splits' = splits, used' = used, key' = key
    PROVE  UsedInv'
BY DEF UsedInv

\* The rest of what is on its way.
LEMMA PendingTail ==
    ASSUME PendingInv, pending # <<>>, splits' = splits, pending' = Tail(pending)
    PROVE  PendingInv'
<1>1. pending' \in Seq(ShareRecords) /\ Len(pending') = Len(pending) - 1 /\ splits' # <<>>
      /\ \A j \in 1..Len(pending') : pending'[j] = pending[j + 1] /\ j + 1 \in 1..Len(pending)
  BY DEF PendingInv
<1>2. \A j \in 1..Len(pending') :
          /\ pending'[j].index \in 1..splits'[Len(splits')].n
          /\ pending'[j] = splits'[Len(splits')].shares[pending'[j].index]
  BY <1>1 DEF PendingInv
<1> QED
  BY <1>1, <1>2 DEF PendingInv

\* The share that is written next.
LEMMA NextShare ==
    ASSUME SplitsInv, PendingInv, pending # <<>>
    PROVE  LET e == [index |-> Head(pending).index, y |-> Head(pending).y, split |-> Len(splits)] IN
           e \in FileEntries /\ ShareOf(e, splits) /\ e.index \in 1..MaxShares
<1>1. Head(pending) = pending[1] /\ 1 \in 1..Len(pending) /\ pending[1] \in ShareRecords
  BY DEF PendingInv
<1>2. splits # <<>> /\ Len(splits) \in DOMAIN splits /\ splits[Len(splits)] \in Splits /\ Len(splits) \in Nat
  BY DEF SplitsInv, PendingInv
<1>3. PICK s \in Splits : s = splits[Len(splits)]
  BY <1>2
<1>4. PICK h \in ShareRecords : h = Head(pending)
  BY <1>1
<1>5. h.index \in 1..s.n /\ h = s.shares[h.index]
  BY <1>1, <1>3, <1>4 DEF PendingInv
<1>7. h.index \in Nat /\ h.y \in Symbols /\ h.index \in 1..MaxShares
  <2>1. h.index \in 1..MaxShares
    BY <1>5, WithinBound
  <2> QED
    BY <2>1 DEF ShareRecords
<1>8. h.y \in Nat
  <2>1. PICK z \in Nat : z = Size
    BY BitsAssumption, Powers2 DEF BitsAssumption, Size
  <2>2. Symbols \subseteq Nat
    BY <2>1 DEF Symbols
  <2> QED
    BY <1>7, <2>2
<1> DEFINE e == [index |-> h.index, y |-> h.y, split |-> Len(splits)]
<1>9. e.index = h.index /\ e.y = h.y /\ e.split = Len(splits)
  OBVIOUS
<1>10. e \in FileEntries
  BY <1>2, <1>7, <1>8 DEF FileEntries
<1> HIDE DEF e
<1>11. ShareOf(e, splits)
  BY <1>2, <1>3, <1>5, <1>9 DEF ShareOf
<1> QED
  BY <1>4, <1>7, <1>9, <1>10, <1>11 DEF e

LEMMA WriteShareStep == ShareInv /\ WriteShare => ShareInv'
<1> SUFFICES ASSUME ShareInv, WriteShare PROVE ShareInv'
  OBVIOUS
<1> USE DEF ShareInv
<1> DEFINE e == [index |-> Head(pending).index, y |-> Head(pending).y, split |-> Len(splits)]
<1>1. pending # <<>> /\ pending' = Tail(pending) /\ splits' = splits /\ used' = used /\ key' = key
      /\ dir' = [dir EXCEPT ![e.index] = e]
  BY DEF WriteShare
<1>2. e \in FileEntries /\ ShareOf(e, splits) /\ e.index \in 1..MaxShares
  BY <1>1, NextShare
<1> HIDE DEF e
<1>3. DirInv'
  BY <1>1, <1>2 DEF DirInv
<1>4. PendingInv' /\ SplitsInv' /\ UsedInv'
  BY <1>1, PendingTail, SameUsed DEF SplitsInv
<1> QED
  BY <1>3, <1>4

LEMMA StopSplitStep == ShareInv /\ StopSplit => ShareInv'
<1> SUFFICES ASSUME ShareInv, StopSplit PROVE ShareInv'
  OBVIOUS
<1> USE DEF ShareInv
<1>1. pending' = <<>> /\ splits' = splits /\ used' = used /\ key' = key
      /\ dir' \in {dir, [dir EXCEPT ![Head(pending).index] = Torn]}
  BY DEF StopSplit
<1>2. Torn \in FileEntries
  BY DEF Torn, FileEntries
<1>3. DirInv'
  BY <1>1, <1>2 DEF DirInv
<1>4. PendingInv' /\ SplitsInv' /\ UsedInv'
  BY <1>1, SameUsed DEF SplitsInv, PendingInv
<1> QED
  BY <1>3, <1>4

LEMMA RecoverKeyStep ==
    ASSUME ShareInv, NEW paths \in Paths, RecoverKey(paths)
    PROVE  ShareInv'
<1> USE DEF ShareInv
<1> DEFINE shares == [i \in DOMAIN paths |-> dir[paths[i]]]
<1>1. /\ \A i \in DOMAIN shares : shares[i] \notin {NoShare, Torn}
      /\ CombineOK(shares) /\ used' = shares /\ key' = Interpolated(shares)
      /\ splits' = splits /\ dir' = dir /\ pending' = pending
  BY DEF RecoverKey
<1>2. PICK m \in 1..MaxShares : paths \in [1..m -> 1..MaxShares]
  BY DEF Paths
<1>3. \A i \in 1..m : shares[i] = dir[paths[i]] /\ paths[i] \in 1..MaxShares
  BY <1>2
<1>4. shares \in [1..m -> FileEntries]
  BY <1>2 DEF DirInv
<1>5. DOMAIN shares = 1..m
  BY <1>2
<1> HIDE DEF shares
<1>6. m \in Nat
  BY ShareAssumption DEF ShareAssumption
<1>7. shares \in Seq(FileEntries) /\ Len(shares) = m
  BY <1>4, <1>6
<1>8. \A i \in 1..m : ShareOf(shares[i], splits)
  BY <1>1, <1>3, <1>5 DEF DirInv
<1>9. UsedInv'
  BY <1>1, <1>7, <1>8 DEF UsedInv
<1>10. SplitsInv' /\ PendingInv' /\ DirInv'
  BY <1>1 DEF SplitsInv, PendingInv, DirInv
<1> QED
  BY <1>9, <1>10

LEMMA ShareStep == ShareInv /\ [ShareNext]_splitVars => ShareInv'
<1> SUFFICES ASSUME ShareInv, [ShareNext]_splitVars PROVE ShareInv'
  OBVIOUS
<1>1. ASSUME NEW secret \in Secrets, NEW k \in 2..MaxShares, NEW n \in 2..MaxShares,
             NEW draws \in [1..(k - 1) -> Draws], Split(secret, draws, n) \/ InitSplit(secret, draws, n)
      PROVE  ShareInv'
  BY <1>1, SplitStep DEF InitSplit
<1>2. CASE WriteShare
  BY <1>2, WriteShareStep
<1>3. CASE StopSplit
  BY <1>3, StopSplitStep
<1>4. ASSUME NEW paths \in Paths, RecoverKey(paths) PROVE ShareInv'
  BY <1>4, RecoverKeyStep
<1>5. CASE UNCHANGED splitVars
  <2>1. splits' = splits /\ dir' = dir /\ pending' = pending /\ used' = used /\ key' = key
    BY <1>5 DEF splitVars
  <2> QED
    BY <2>1, SameUsed DEF ShareInv, SplitsInv, PendingInv, DirInv
<1> QED
  BY <1>1, <1>2, <1>3, <1>4, <1>5 DEF ShareNext

\* The first property: the master key comes back.
LEMMA MasterBack == ShareInv => RecoversMaster
<1> SUFFICES ASSUME ShareInv, NEW s \in DOMAIN splits, \A i \in DOMAIN used : used[i].split = s,
                    Len(used) >= splits[s].k
             PROVE  key = splits[s].secret /\ Reconstruct(used, splits[s].k) = key
  BY DEF RecoversMaster
<1>1. PICK r \in Splits : r = splits[s]
  BY DEF ShareInv, SplitsInv
<1>2. r.secret \in Symbols /\ r.k \in 2..r.n /\ r.n \in 2..MaxShares
  BY SplitFacts
<1>3. PICK draws \in Seq(Symbols) :
          /\ Len(draws) + 1 = r.k
          /\ \A i \in 1..r.n : r.shares[i].index = i /\ r.shares[i].y = EvalPoly(<<r.secret>> \o draws, i)
  BY SplitFacts
<1>4. PICK n \in Nat : n = Len(used) /\ DOMAIN used = 1..n
  BY DEF ShareInv, UsedInv
<1>5. n >= r.k /\ r.k \in 1..n /\ used # <<>>
  BY <1>1, <1>2, <1>4
<1>6. CombineOK(used) /\ key = Interpolated(used)
  BY <1>5 DEF ShareInv, UsedInv
<1> DEFINE c == <<r.secret>> \o draws
<1>7. c \in Seq(Symbols) /\ Len(c) <= r.k
  BY <1>2, <1>3
<1>8. EvalPoly(c, 0) = r.secret
  BY <1>2, AtZero
<1> HIDE DEF c
<1>9. SharesOn(used, n, c)
  <2>1. ASSUME NEW i \in 1..n
        PROVE  used[i].index \in Symbols \ {0} /\ used[i].y = EvalPoly(c, used[i].index)
    <3>1. ShareOf(used[i], splits) /\ used[i].split = s
      BY <1>4 DEF ShareInv, UsedInv
    <3>2. used[i].index \in 1..r.n /\ used[i].y = r.shares[used[i].index].y
      BY <1>1, <3>1 DEF ShareOf
    <3>3. used[i].y = EvalPoly(c, used[i].index)
      BY <1>3, <3>2 DEF c
    <3>4. used[i].index \in 1..MaxShares
      BY <3>2, WithinBound
    <3> QED
      BY <3>3, <3>4, Indices
  <2>2. \A i, j \in 1..n : used[i].index = used[j].index => i = j
    BY <1>4, <1>6 DEF CombineOK
  <2> QED
    BY <1>4, <2>1, <2>2 DEF SharesOn
<1>10. Interpolated(used) = EvalPoly(c, 0) /\ Reconstruct(used, r.k) = EvalPoly(c, 0)
  BY <1>4, <1>5, <1>7, <1>9, BothExact
<1> QED
  BY <1>1, <1>6, <1>8, <1>10

\* The second: fewer shares than the threshold leave every master key possible.
LEMMA NothingTold == ShareInv => TooFewTellNothing
<1> DEFINE split == Last(splits)
<1> SUFFICES ASSUME ShareInv, pending # <<>>,
                    NEW known \in kSubset(split.k - 1, 1..split.n), NEW secret \in Symbols
             PROVE  \E draws \in [1..(split.k - 1) -> Symbols] :
                        \A i \in known : EvalPoly(<<secret>> \o draws, i) = split.shares[i].y
  BY DEF TooFewTellNothing
<1>1. PICK r \in Splits : r = split
  BY DEF ShareInv, SplitsInv, PendingInv, Last
<1>2. r.k \in 2..r.n /\ r.n \in 2..MaxShares
  BY SplitFacts
<1>3. PICK draws \in Seq(Symbols) :
          \A i \in 1..r.n : r.shares[i].index = i /\ r.shares[i].y = EvalPoly(<<r.secret>> \o draws, i)
  BY SplitFacts
<1>4. PICK n \in Nat : n = r.k - 1
  BY <1>2
<1>5. known \subseteq 1..r.n /\ Cardinality(known) = n
  BY <1>1, <1>4 DEF kSubset
<1>6. IsFiniteSet(known)
  <2>1. IsFiniteSet(1..r.n)
    BY <1>2, FS_Interval
  <2> QED
    BY <1>5, <2>1, FS_Subset
<1>7. \A i \in 1..r.n : i \in Symbols \ {0} /\ r.shares[i].y \in Symbols
  <2>1. ASSUME NEW i \in 1..r.n PROVE i \in Symbols \ {0} /\ r.shares[i].y \in Symbols
    <3>1. i \in 1..MaxShares
      BY WithinBound
    <3>2. i \in Symbols \ {0} /\ r.secret \in Symbols
      BY <3>1, Indices, SplitFacts
    <3>3. <<r.secret>> \o draws \in Seq(Symbols)
      BY <3>2
    <3>4. EvalPoly(<<r.secret>> \o draws, i) \in Symbols
      BY <3>2, <3>3, HornersRounds
    <3> QED
      BY <1>3, <3>2, <3>4
  <2> QED
    BY <2>1
<1> DEFINE y == [i \in known |-> r.shares[i].y]
<1>8. y \in [known -> Symbols] /\ known \in SUBSET (Symbols \ {0})
  BY <1>5, <1>7
<1>9. \A i \in known : y[i] = r.shares[i].y
  OBVIOUS
<1> HIDE DEF y, split
<1>10. PICK d \in [1..n -> Symbols] : \A i \in known : EvalPoly(<<secret>> \o d, i) = y[i]
  BY <1>5, <1>6, <1>8, PolyThrough
<1> QED
  BY <1>1, <1>4, <1>9, <1>10

\* SharesExact: whatever is split, written, torn and written over, as many shares
\* of a split as its threshold give back its master key by both implementations,
\* and one fewer rules no master key out (fde/shamir.rs, split and reconstruct),
\* for every field, threshold and number of shares.
THEOREM SharesAreExact == ShareSpec => []SharesExact
<1>1. ShareInv => SharesExact
  BY MasterBack, NothingTold DEF SharesExact
<1> QED
  BY <1>1, ShareInitOK, ShareStep, PTL DEF ShareSpec

=============================================================================
