--------------------------- MODULE MacClock_proofs ---------------------------
(* Proofs about MacClock, for any number of threads and any width of the     *)
(* hardware clock: until two calls overlap, the 64-bit time is exact, and    *)
(* however they overlap no wrap is lost.                                     *)
EXTENDS MacClock, FiniteSetTheorems, TLAPS

USE ClockWraps, DelaysAreShort

-----------------------------------------------------------------------------
(* While calls follow one another, `last` is the reading of the latest call  *)
(* and `upper` counts its epoch, a call's own reading excepted until it has  *)
(* been stored and counted.                                                  *)
Sequential ==
  /\ \A s, t \in Threads : ~Idle(s) /\ ~Idle(t) => s = t
  /\ WithinWrap(last, now)
  /\ Quiet => upper = last.epoch

Progress(t) ==
  LET c == call[t]
  IN  /\ c.pc \in {"load", "store"} => WithinWrap(last, c.at) /\ upper = last.epoch
      /\ c.pc = "store" => c.seen = last
      /\ c.pc = "count" => /\ c.at = last /\ WithinWrap(c.seen, c.at)
                           /\ upper = c.seen.epoch
      /\ c.pc = "upper" => c.at = last /\ upper = last.epoch
      /\ ~Idle(t) => WithinWrap(c.at, now)

ExactInv ==
  /\ TypeOK
  /\ overlaps = 0 => Sequential /\ \A t \in Threads : Progress(t)

-----------------------------------------------------------------------------
(* Two readings within one wrap of each other: the lower 32 bits tell        *)
(* whether the clock wrapped between them (wifi.rs:268-271).                 *)
LEMMA WrapShows ==
  ASSUME NEW a \in Times, NEW b \in Times, WithinWrap(a, b)
  PROVE  b.epoch = IF b.low < a.low THEN a.epoch + 1 ELSE a.epoch
BY DEF Times, WithinWrap

LEMMA FollowingTyped ==
  ASSUME NEW a \in Times
  PROVE  Following(a) \in Times
BY DEF Times, Following

(* A frame received d before the clock was read gets its own time back       *)
(* (csi.rs:184-193).                                                         *)
LEMMA StampExact ==
  ASSUME NEW time \in Times, NEW d \in Delays, Since(time, d)
  PROVE  RxTimestampWrap(time, Earlier(time, d).low) = Earlier(time, d)
<1>1. d \in Nat /\ 1 <= d /\ d < Modulus /\ Modulus \in Nat
  OBVIOUS
<1>2. time.epoch \in Nat /\ time.low \in Nat /\ time.low < Modulus
  BY DEF Times
<1>3. CASE time.low >= d
  BY <1>1, <1>2, <1>3 DEF RxTimestampWrap, Earlier
<1>4. CASE ~(time.low >= d)
  <2>1. Modulus + time.low - d >= time.low
    BY <1>1, <1>2
  <2>. QED BY <1>1, <1>2, <1>4, <2>1 DEF RxTimestampWrap, Earlier
<1>. QED BY <1>3, <1>4

-----------------------------------------------------------------------------
LEMMA Initially == Init => ExactInv
<1> SUFFICES ASSUME Init PROVE ExactInv
  OBVIOUS
<1>1. Zero \in Times /\ WithinWrap(Zero, Zero) /\ Zero.epoch = 0
  BY DEF Zero, Times, WithinWrap
<1>2. /\ now = Zero /\ last = Zero /\ upper = 0 /\ overlaps = 0
      /\ call = [t \in Threads |-> [pc |-> "idle", at |-> Zero, seen |-> Zero]]
  BY DEF Init
<1>3. [pc |-> "idle", at |-> Zero, seen |-> Zero] \in Calls
  BY <1>1 DEF Calls
<1>4. TypeOK
  BY <1>1, <1>2, <1>3 DEF TypeOK
<1>5. \A t \in Threads : call[t].pc = "idle"
  BY <1>2
<1>. QED BY <1>1, <1>2, <1>4, <1>5 DEF ExactInv, Sequential, Progress, Idle

LEMMA TypePreserved == TypeOK /\ [Next]_vars => TypeOK'
<1> SUFFICES ASSUME TypeOK, [Next]_vars PROVE TypeOK'
  OBVIOUS
<1>1. Zero \in Times
  BY DEF Zero, Times
<1>2. ASSUME NEW t \in Threads, ReadHardware(t) PROVE TypeOK'
  <2>1. [pc |-> "load", at |-> now, seen |-> Zero] \in Calls
    BY <1>1 DEF TypeOK, Calls
  <2>2. overlaps' \in Nat
    BY <1>2 DEF ReadHardware, TypeOK
  <2>. QED BY <1>2, <2>1, <2>2 DEF ReadHardware, TypeOK
<1>3. ASSUME NEW t \in Threads, LoadLast(t) \/ StoreLast(t) \/ CountWrap(t) \/ Returns(t)
      PROVE  TypeOK'
  <2>1. call[t].at \in Times /\ call[t].seen \in Times
    BY DEF TypeOK, Calls
  <2>2. call' \in [Threads -> Calls]
    BY <1>1, <1>3, <2>1 DEF LoadLast, StoreLast, CountWrap, Returns, TypeOK, Calls
  <2>3. last' \in Times /\ now' \in Times /\ upper' \in Nat /\ overlaps' \in Nat
    BY <1>3, <2>1 DEF LoadLast, StoreLast, CountWrap, Returns, TypeOK
  <2>. QED BY <2>2, <2>3 DEF TypeOK
<1>4. CASE Tick
  BY <1>4, FollowingTyped DEF Tick, TypeOK
<1>5. CASE UNCHANGED vars
  BY <1>5 DEF vars, TypeOK
<1>. QED BY <1>2, <1>3, <1>4, <1>5 DEF Next

LEMMA ExactPreserved == ExactInv /\ [Next]_vars => ExactInv'
<1> SUFFICES ASSUME ExactInv, [Next]_vars, overlaps' = 0
             PROVE  Sequential' /\ \A t \in Threads : Progress(t)'
  BY TypePreserved DEF ExactInv
<1>1. TypeOK /\ TypeOK'
  BY TypePreserved DEF ExactInv
<1>2. overlaps = 0
  BY <1>1 DEF TypeOK, Next, ReadHardware, LoadLast, StoreLast, CountWrap, Returns, Tick, vars
<1>3. Sequential /\ \A t \in Threads : Progress(t)
  BY <1>2 DEF ExactInv
<1>4. \A t \in Threads : call[t] \in Calls
  BY <1>1 DEF TypeOK
<1>5. ASSUME NEW t \in Threads, ReadHardware(t)
      PROVE  Sequential' /\ \A s \in Threads : Progress(s)'
  <2>1. Quiet /\ upper = last.epoch
    BY <1>1, <1>2, <1>3, <1>5 DEF ReadHardware, Sequential, TypeOK
  <2>2. /\ call'[t].pc = "load" /\ call'[t].at = now
        /\ \A s \in Threads : s # t => call'[s].pc = "idle"
        /\ UNCHANGED <<now, last, upper>>
    BY <1>1, <1>5, <2>1 DEF ReadHardware, Quiet, Idle, TypeOK
  <2>3. WithinWrap(now, now)
    BY <1>1 DEF WithinWrap, TypeOK, Times
  <2>. QED BY <1>3, <2>1, <2>2, <2>3 DEF Sequential, Progress, Idle, Quiet
<1>6. ASSUME NEW t \in Threads, LoadLast(t) \/ StoreLast(t) \/ CountWrap(t) \/ Returns(t)
      PROVE  Sequential' /\ \A s \in Threads : Progress(s)'
  <2>1. ~Idle(t) /\ \A s \in Threads : s # t => Idle(s)
    BY <1>3, <1>6 DEF LoadLast, StoreLast, CountWrap, Returns, Idle, Sequential
  <2>2. \A s \in Threads : s # t => call'[s].pc = "idle"
    BY <1>1, <1>6, <2>1 DEF LoadLast, StoreLast, CountWrap, Returns, Idle, TypeOK
  <2>3. now' = now /\ Progress(t) /\ WithinWrap(call[t].at, now) /\ WithinWrap(last, now)
    BY <1>3, <1>6, <2>1 DEF LoadLast, StoreLast, CountWrap, Returns, Progress, Sequential
  <2>4. SUFFICES /\ WithinWrap(last, now)' /\ Progress(t)'
                 /\ Idle(t)' => (upper = last.epoch)'
    BY <2>2 DEF Sequential, Progress, Idle, Quiet
  <2>5. CASE LoadLast(t)
    BY <1>1, <2>3, <2>5 DEF LoadLast, Progress, Idle, TypeOK
  <2>6. CASE StoreLast(t)
    BY <1>1, <2>3, <2>6 DEF StoreLast, Progress, Idle, TypeOK
  <2>7. CASE CountWrap(t)
    <3>1. call[t].at \in Times /\ call[t].seen \in Times
      BY <1>4 DEF Calls
    <3>2. upper' = call[t].at.epoch
      BY <2>3, <2>7, <3>1, WrapShows DEF CountWrap, Wrapped, Progress
    <3>. QED BY <1>1, <2>3, <2>7, <3>2 DEF CountWrap, Progress, Idle, TypeOK
  <2>8. CASE Returns(t)
    BY <1>1, <2>3, <2>8 DEF Returns, Progress, Idle, TypeOK
  <2>. QED BY <1>6, <2>5, <2>6, <2>7, <2>8
<1>7. CASE Tick
  BY <1>3, <1>7 DEF Tick, Sequential, Progress, Idle, Quiet
<1>8. CASE UNCHANGED vars
  BY <1>3, <1>8 DEF vars, Sequential, Progress, Idle, Quiet
<1>. QED BY <1>5, <1>6, <1>7, <1>8 DEF Next

LEMMA ExactInvariant == Spec => []ExactInv
BY Initially, ExactPreserved, PTL DEF Spec

-----------------------------------------------------------------------------
(* Every reading fits in 32 bits (wifi.rs:260).                              *)
THEOREM ClockTyped == Spec => []TypeOK
<1>1. ExactInv => TypeOK
  BY DEF ExactInv
<1>. QED BY <1>1, ExactInvariant, PTL

(* Calls that follow one another return the time of their reading.           *)
THEOREM ClockExact == Spec => []ExactUntilOverlap
<1>1. ExactInv => ExactUntilOverlap
  <2>1. SUFFICES ASSUME ExactInv, NEW t \in Threads, overlaps = 0, Returning(t)
                 PROVE  Value(t) = call[t].at
    BY DEF ExactUntilOverlap
  <2>2. call[t].at \in Times /\ upper = call[t].at.epoch
    BY <2>1 DEF ExactInv, Progress, Returning, TypeOK, Calls
  <2>. QED BY <2>2 DEF Value, Times
<1>. QED BY <1>1, ExactInvariant, PTL

(* Their frames are stamped with the time they were received at.             *)
THEOREM StampsExact == Spec => []StampsExactUntilOverlap
<1>1. TypeOK /\ ExactUntilOverlap => StampsExactUntilOverlap
  <2>1. SUFFICES ASSUME TypeOK, ExactUntilOverlap, NEW t \in Threads, NEW d \in Delays,
                        overlaps = 0, Returning(t), Since(call[t].at, d)
                 PROVE  RxTimestampWrap(Value(t), Earlier(call[t].at, d).low)
                          = Earlier(call[t].at, d)
    BY DEF StampsExactUntilOverlap
  <2>2. call[t].at \in Times /\ Value(t) = call[t].at
    BY <2>1 DEF TypeOK, Calls, ExactUntilOverlap
  <2>. QED BY <2>1, <2>2, StampExact
<1>. QED BY <1>1, ClockTyped, ClockExact, PTL

-----------------------------------------------------------------------------
(* Calls that overlap store their readings in any order, so `last` may go    *)
(* back.  But a reading of an epoch that neither `last` nor any call in      *)
(* progress has seen is stored by a call that saw the epoch before it, and   *)
(* that call adds the wrap: it is Pending from its store to its count.       *)
Pending == {t \in Threads : call[t].pc = "count" /\ Wrapped(t)}

Counted == upper + Cardinality(Pending)

(* The wraps counted or about to be cover the reading stored last and every  *)
(* one a call compares its own with; and a reading is at most one wrap ahead *)
(* of the one its call has seen, which then shows (wifi.rs:262-271).         *)
LostInv ==
  /\ TypeOK
  /\ WithinWrap(last, now)
  /\ \A t \in Threads : ~Idle(t) => WithinWrap(call[t].at, now)
  /\ IsFiniteSet(Pending)
  /\ Counted >= last.epoch
  /\ \A t \in Threads : call[t].pc = "store" =>
       /\ Counted >= call[t].seen.epoch
       /\ \/ call[t].at.epoch <= call[t].seen.epoch
          \/ call[t].at.epoch = call[t].seen.epoch + 1 /\ Wrapped(t)

(* Of two readings within a wrap before the same time, the one of the later  *)
(* epoch shows the wrap.                                                     *)
LEMMA BothWithinWrap ==
  ASSUME NEW a \in Times, NEW b \in Times, NEW time \in Times,
         WithinWrap(a, time), WithinWrap(b, time)
  PROVE  b.epoch <= a.epoch \/ (b.epoch = a.epoch + 1 /\ b.low < a.low)
BY DEF Times, WithinWrap

(* What a step of a call adds to the count: a wrap, from the store on.       *)
LEMMA CountedChanges ==
  ASSUME TypeOK, TypeOK', IsFiniteSet(Pending), NEW t \in Threads,
         ReadHardware(t) \/ LoadLast(t) \/ StoreLast(t) \/ CountWrap(t) \/ Returns(t)
  PROVE  /\ IsFiniteSet(Pending') /\ Counted \in Nat
         /\ Counted' = IF StoreLast(t) /\ Wrapped(t) THEN Counted + 1 ELSE Counted
<1>1. /\ call \in [Threads -> Calls] /\ upper \in Nat /\ Cardinality(Pending) \in Nat
      /\ Counted \in Nat /\ Counted = upper + Cardinality(Pending)
  BY FS_CardinalityType DEF TypeOK, Counted
<1>2. \A s \in Threads : s # t =>
        /\ call'[s] = call[s] /\ Wrapped(s)' <=> Wrapped(s)
        /\ s \in Pending' <=> s \in Pending
  BY <1>1 DEF ReadHardware, LoadLast, StoreLast, CountWrap, Returns, Wrapped, Pending
<1>3. Pending \subseteq Threads /\ Pending' \subseteq Threads
  BY DEF Pending
<1>4. CASE ReadHardware(t) \/ LoadLast(t) \/ Returns(t)
  <2>1. t \notin Pending /\ t \notin Pending' /\ upper' = upper /\ ~StoreLast(t)
    BY <1>1, <1>4 DEF ReadHardware, LoadLast, Returns, StoreLast, Idle, Pending
  <2>2. Pending' = Pending
    BY <1>2, <1>3, <2>1
  <2>. QED BY <1>1, <2>1, <2>2 DEF Counted
<1>5. CASE StoreLast(t)
  <2>1. /\ t \notin Pending /\ upper' = upper /\ (Wrapped(t)' <=> Wrapped(t))
        /\ t \in Pending' <=> Wrapped(t)
    BY <1>1, <1>5 DEF StoreLast, Pending, Wrapped
  <2>2. CASE Wrapped(t)
    <3>1. Pending' = Pending \cup {t}
      BY <1>2, <1>3, <2>1, <2>2
    <3>2. IsFiniteSet(Pending') /\ Cardinality(Pending') = Cardinality(Pending) + 1
      BY <2>1, <3>1, FS_AddElement
    <3>. QED BY <1>1, <1>5, <2>1, <2>2, <3>2 DEF Counted
  <2>3. CASE ~Wrapped(t)
    <3>1. Pending' = Pending
      BY <1>2, <1>3, <2>1, <2>3
    <3>. QED BY <1>1, <2>1, <2>3, <3>1 DEF Counted
  <2>. QED BY <2>2, <2>3
<1>6. CASE CountWrap(t)
  <2>1. /\ t \notin Pending' /\ ~StoreLast(t) /\ (t \in Pending <=> Wrapped(t))
        /\ upper' = IF Wrapped(t) THEN upper + 1 ELSE upper
    BY <1>1, <1>6 DEF CountWrap, StoreLast, Pending
  <2>2. CASE Wrapped(t)
    <3>1. Pending' = Pending \ {t}
      BY <1>2, <1>3, <2>1, <2>2
    <3>2. IsFiniteSet(Pending') /\ Cardinality(Pending') = Cardinality(Pending) - 1
      BY <2>1, <2>2, <3>1, FS_RemoveElement
    <3>. QED BY <1>1, <2>1, <2>2, <3>2 DEF Counted
  <2>3. CASE ~Wrapped(t)
    <3>1. Pending' = Pending
      BY <1>2, <1>3, <2>1, <2>3
    <3>. QED BY <1>1, <2>1, <2>3, <3>1 DEF Counted
  <2>. QED BY <2>2, <2>3
<1>. QED BY <1>4, <1>5, <1>6

LEMMA LostInitially == Init => LostInv
<1> SUFFICES ASSUME Init PROVE LostInv
  OBVIOUS
<1>1. Zero \in Times /\ WithinWrap(Zero, Zero) /\ Zero.epoch = 0
  BY DEF Zero, Times, WithinWrap
<1>2. now = Zero /\ last = Zero /\ upper = 0 /\ \A t \in Threads : call[t].pc = "idle"
  BY DEF Init
<1>3. Pending = {}
  BY <1>2 DEF Pending
<1>4. IsFiniteSet(Pending) /\ Counted = 0
  BY <1>2, <1>3, FS_EmptySet DEF Counted
<1>5. TypeOK
  BY Initially DEF ExactInv
<1>. QED BY <1>1, <1>2, <1>4, <1>5 DEF LostInv, Idle

LEMMA LostPreserved == LostInv /\ [Next]_vars => LostInv'
<1> SUFFICES ASSUME LostInv, [Next]_vars PROVE LostInv'
  OBVIOUS
<1>1. TypeOK /\ TypeOK'
  BY TypePreserved DEF LostInv
<1>2. /\ \A t \in Threads : call[t] \in Calls /\ call[t].at \in Times /\ call[t].seen \in Times
      /\ call \in [Threads -> Calls] /\ last \in Times /\ now \in Times /\ upper \in Nat
  BY <1>1 DEF TypeOK, Calls
<1>3. IsFiniteSet(Pending) /\ Cardinality(Pending) \in Nat
  BY FS_CardinalityType DEF LostInv
<1>4. Counted \in Nat /\ Counted = upper + Cardinality(Pending)
  BY <1>2, <1>3 DEF Counted
<1>5. ASSUME NEW t \in Threads,
             ReadHardware(t) \/ LoadLast(t) \/ StoreLast(t) \/ CountWrap(t) \/ Returns(t)
      PROVE  LostInv'
  <2>1. \A s \in Threads : s # t => call'[s] = call[s]
    BY <1>2, <1>5 DEF ReadHardware, LoadLast, StoreLast, CountWrap, Returns
  <2>2. \A s \in Threads : s # t => (Wrapped(s)' <=> Wrapped(s)) /\ (Idle(s)' <=> Idle(s))
    BY <2>1 DEF Wrapped, Idle
  <2>3. now' = now /\ WithinWrap(last, now)'
    <3>1. CASE ~StoreLast(t)
      BY <1>5, <3>1 DEF ReadHardware, LoadLast, CountWrap, Returns, LostInv
    <3>2. CASE StoreLast(t)
      BY <3>2 DEF StoreLast, LostInv, Idle
    <3>. QED BY <3>1, <3>2
  <2>4. WithinWrap(now, now)
    BY <1>2 DEF WithinWrap, Times
  <2>5. ~Idle(t)' => WithinWrap(call[t].at, now)'
    BY <1>2, <1>5, <2>3, <2>4
       DEF ReadHardware, LoadLast, StoreLast, CountWrap, Returns, LostInv, Idle
  <2>6. SUFFICES /\ IsFiniteSet(Pending)' /\ Counted' \in Nat
                 /\ Counted' >= Counted /\ Counted' >= last'.epoch
                 /\ call'[t].pc = "store" =>
                      /\ Counted' >= call'[t].seen.epoch
                      /\ \/ call'[t].at.epoch <= call'[t].seen.epoch
                         \/ call'[t].at.epoch = call'[t].seen.epoch + 1 /\ Wrapped(t)'
    <3>1. \A s \in Threads : ~Idle(s)' => WithinWrap(call[s].at, now)'
      BY <2>1, <2>2, <2>3, <2>5 DEF LostInv
    <3>2. ASSUME NEW s \in Threads, s # t, call'[s].pc = "store"
          PROVE  /\ Counted' >= call'[s].seen.epoch
                 /\ \/ call'[s].at.epoch <= call'[s].seen.epoch
                    \/ call'[s].at.epoch = call'[s].seen.epoch + 1 /\ Wrapped(s)'
      <4>1. call'[s] = call[s] /\ (Wrapped(s)' <=> Wrapped(s)) /\ call[s].seen.epoch \in Nat
        BY <1>2, <2>1, <2>2, <3>2 DEF Times
      <4>2. /\ Counted >= call[s].seen.epoch
            /\ \/ call[s].at.epoch <= call[s].seen.epoch
               \/ call[s].at.epoch = call[s].seen.epoch + 1 /\ Wrapped(s)
        BY <3>2, <4>1 DEF LostInv
      <4>3. Counted' >= call[s].seen.epoch
        BY <1>4, <2>6, <4>1, <4>2
      <4>. QED BY <4>1, <4>2, <4>3
    <3>. QED BY <1>1, <2>3, <2>6, <3>1, <3>2 DEF LostInv
  <2>7. /\ IsFiniteSet(Pending') /\ Counted \in Nat
        /\ Counted' = IF StoreLast(t) /\ Wrapped(t) THEN Counted + 1 ELSE Counted
    BY <1>1, <1>5, CountedChanges DEF LostInv
  <2>8. CASE ReadHardware(t) \/ CountWrap(t) \/ Returns(t)
    <3>1. call'[t].pc # "store" /\ last' = last /\ ~StoreLast(t)
      BY <1>2, <2>8 DEF ReadHardware, CountWrap, Returns, StoreLast, Idle
    <3>. QED BY <2>7, <3>1 DEF LostInv
  <2>9. CASE LoadLast(t)
    <3>1. /\ last' = last /\ ~StoreLast(t) /\ ~Idle(t)
          /\ call'[t] = [pc |-> "store", at |-> call[t].at, seen |-> last]
      BY <1>2, <2>9 DEF LoadLast, StoreLast, Idle
    <3>2. call[t].at.epoch <= last.epoch
          \/ (call[t].at.epoch = last.epoch + 1 /\ call[t].at.low < last.low)
      BY <1>2, <3>1, BothWithinWrap DEF LostInv
    <3>3. /\ call'[t].seen = last /\ call'[t].at = call[t].at
          /\ (Wrapped(t)' <=> call[t].at.low < last.low)
      BY <3>1 DEF Wrapped
    <3>. QED BY <2>7, <3>1, <3>2, <3>3 DEF LostInv
  <2>10. CASE StoreLast(t)
    <3>1. call[t].pc = "store" /\ last' = call[t].at /\ call'[t].pc = "count"
      BY <1>2, <2>10 DEF StoreLast
    <3>2. Counted >= call[t].seen.epoch
          /\ (call[t].at.epoch <= call[t].seen.epoch
              \/ (call[t].at.epoch = call[t].seen.epoch + 1 /\ Wrapped(t)))
      BY <3>1 DEF LostInv
    <3>3. call[t].at.epoch \in Nat /\ call[t].seen.epoch \in Nat
      BY <1>2 DEF Times
    <3>. QED BY <2>7, <2>10, <3>1, <3>2, <3>3
  <2>. QED BY <1>5, <2>8, <2>9, <2>10
<1>6. CASE Tick
  <2>1. UNCHANGED <<last, upper, call>> /\ WithinWrap(last, now')
        /\ \A t \in Threads : ~Idle(t) => WithinWrap(call[t].at, now')
    BY <1>6 DEF Tick
  <2>2. Pending' = Pending /\ \A t \in Threads : Wrapped(t)' <=> Wrapped(t)
    BY <2>1 DEF Pending, Wrapped
  <2>3. Counted' = Counted
    BY <2>1, <2>2 DEF Counted
  <2>. QED BY <1>1, <2>1, <2>2, <2>3 DEF LostInv, Idle
<1>7. CASE UNCHANGED vars
  <2>1. Pending' = Pending /\ \A t \in Threads : Wrapped(t)' <=> Wrapped(t)
    BY <1>7 DEF Pending, Wrapped, vars
  <2>2. Counted' = Counted
    BY <1>7, <2>1 DEF Counted, vars
  <2>. QED BY <1>1, <1>7, <2>1, <2>2 DEF LostInv, Idle, vars
<1>. QED BY <1>5, <1>6, <1>7 DEF Next

(* However the calls overlap, no wrap is lost: once they have all returned   *)
(* the count is not behind the reading stored last.                          *)
THEOREM WrapsKept == Spec => []NoWrapLost
<1>1. LostInv => NoWrapLost
  <2>1. SUFFICES ASSUME LostInv, Quiet PROVE upper >= last.epoch
    BY DEF NoWrapLost
  <2>2. Pending = {}
    BY <2>1 DEF Pending, Quiet, Idle
  <2>3. Counted = upper /\ Counted >= last.epoch
    BY <2>1, <2>2, FS_EmptySet DEF Counted, LostInv, TypeOK
  <2>. QED BY <2>3
<1>. QED BY <1>1, LostInitially, LostPreserved, PTL DEF Spec
-----------------------------------------------------------------------------
(* How far ahead.  A call counts one wrap at most, so from one quiet state to*)
(* the next as many wraps are counted as calls are begun, and all of these   *)
(* but the first overlap another.  The first one's count is covered when the *)
(* reading stored last has moved to a later epoch; and when it has not, some *)
(* call of the epoch they began in does not count: the one that read last,   *)
(* for every reading it may find is one before it, or shows a lower value    *)
(* after the wrap.                                                           *)
Open == {t \in Threads : call[t].pc \in {"load", "store"}}

(* The count, once every open call has added to it. *)
Foreseen == Counted + Cardinality(Open)

(* Of the open calls of epoch e, t read last, and will not count. *)
Spared(t, e) ==
  /\ call[t].at.epoch = e
  /\ last.epoch = e => last.low <= call[t].at.low
  /\ \A u \in Open : call[u].at.epoch = e => call[u].at.low <= call[t].at.low
  /\ call[t].pc = "store" => ~Wrapped(t)

(* Epoch e is that of the reading stored last when the first of the calls in *)
(* progress, or of those that overlapped them, was begun.                    *)
DriftFrom(e) ==
  /\ last.epoch >= e /\ \A t \in Open : call[t].at.epoch >= e
  /\ Foreseen <= e + overlaps + 1
  /\ \/ Foreseen <= e + overlaps
     \/ /\ \A t \in Open : call[t].at.epoch > e
        /\ last.epoch > e \/ Open # {}
     \/ \E t \in Open : Spared(t, e)

DriftInv == LostInv /\ IsFiniteSet(Open) /\ \E e \in Nat : DriftFrom(e)
LEMMA DriftInitially == Init => DriftInv
<1> SUFFICES ASSUME Init PROVE DriftInv
  OBVIOUS
<1>1. LostInv
  BY LostInitially
<1>2. last.epoch = 0 /\ upper = 0 /\ overlaps = 0 /\ \A t \in Threads : call[t].pc = "idle"
  BY DEF Init, Zero
<1>3. Open = {} /\ Pending = {}
  BY <1>2 DEF Open, Pending
<1>4. IsFiniteSet(Open) /\ Foreseen = 0
  BY <1>2, <1>3, FS_EmptySet DEF Foreseen, Counted
<1>5. DriftFrom(0)
  BY <1>2, <1>3, <1>4 DEF DriftFrom
<1>. QED BY <1>1, <1>4, <1>5 DEF DriftInv

(* A step of a call opens it, or closes it at its store.                     *)
LEMMA OpenChanges ==
  ASSUME LostInv, LostInv', IsFiniteSet(Open), NEW t \in Threads,
         ReadHardware(t) \/ LoadLast(t) \/ StoreLast(t) \/ CountWrap(t) \/ Returns(t)
  PROVE  /\ IsFiniteSet(Open') /\ Foreseen \in Nat
         /\ ReadHardware(t) => Open' = Open \cup {t} /\ Foreseen' = Foreseen + 1
         /\ StoreLast(t) =>
              /\ Open' = Open \ {t} /\ t \in Open
              /\ Foreseen' = IF Wrapped(t) THEN Foreseen ELSE Foreseen - 1
         /\ LoadLast(t) => t \in Open
         /\ ~ReadHardware(t) /\ ~StoreLast(t) => Open' = Open /\ Foreseen' = Foreseen
<1>1. /\ call \in [Threads -> Calls] /\ Cardinality(Open) \in Nat
  BY FS_CardinalityType DEF LostInv, TypeOK
<1>2. /\ Counted \in Nat
      /\ Counted' = IF StoreLast(t) /\ Wrapped(t) THEN Counted + 1 ELSE Counted
  BY CountedChanges DEF LostInv
<1>3. \A s \in Threads : s # t => (s \in Open' <=> s \in Open)
  BY <1>1 DEF ReadHardware, LoadLast, StoreLast, CountWrap, Returns, Open
<1>4. Open \subseteq Threads /\ Open' \subseteq Threads
  BY DEF Open
<1>5. CASE ReadHardware(t)
  <2>1. t \notin Open /\ t \in Open' /\ ~StoreLast(t) /\ ~LoadLast(t)
    BY <1>1, <1>5 DEF ReadHardware, StoreLast, LoadLast, Idle, Open
  <2>2. Open' = Open \cup {t}
    BY <1>3, <1>4, <2>1
  <2>3. IsFiniteSet(Open') /\ Cardinality(Open') = Cardinality(Open) + 1
    BY <2>1, <2>2, FS_AddElement
  <2>. QED BY <1>1, <1>2, <1>5, <2>1, <2>2, <2>3 DEF Foreseen
<1>6. CASE StoreLast(t)
  <2>1. t \in Open /\ t \notin Open' /\ ~ReadHardware(t)
    BY <1>1, <1>6 DEF StoreLast, ReadHardware, Idle, Open
  <2>2. Open' = Open \ {t}
    BY <1>3, <1>4, <2>1
  <2>3. IsFiniteSet(Open') /\ Cardinality(Open') = Cardinality(Open) - 1
    BY <2>1, <2>2, FS_RemoveElement
  <2>4. ~LoadLast(t) \/ t \in Open
    BY <2>1
  <2>. QED BY <1>1, <1>2, <1>6, <2>1, <2>2, <2>3, <2>4 DEF Foreseen
<1>7. CASE ~ReadHardware(t) /\ ~StoreLast(t)
  <2>1. (t \in Open' <=> t \in Open) /\ (LoadLast(t) => t \in Open)
    BY <1>1, <1>7 DEF LoadLast, CountWrap, Returns, Open
  <2>2. Open' = Open
    BY <1>3, <1>4, <2>1
  <2>. QED BY <1>1, <1>2, <1>7, <2>1, <2>2 DEF Foreseen
<1>. QED BY <1>5, <1>6, <1>7

(* A call that begins now has read last; in epoch e it is one to be spared.  *)
LEMMA NewestSpared ==
  ASSUME LostInv, NEW t \in Threads, ReadHardware(t),
         NEW e \in Nat, now.epoch = e, Open' = Open \cup {t}
  PROVE  t \in Open' /\ Spared(t, e)'
<1>1. /\ call'[t] = [pc |-> "load", at |-> now, seen |-> Zero] /\ last' = last
      /\ \A u \in Threads : u # t => call'[u] = call[u]
  BY DEF ReadHardware, LostInv, TypeOK
<1>2. last \in Times /\ now \in Times /\ WithinWrap(last, now)
  BY DEF LostInv, TypeOK
<1>3. last.epoch = e => last.low <= now.low
  BY <1>2 DEF WithinWrap, Times
<1>4. ASSUME NEW u \in Open', call'[u].at.epoch = e PROVE call'[u].at.low <= now.low
  <2>1. CASE u = t
    BY <1>1, <1>2, <2>1 DEF Times
  <2>2. CASE u # t
    <3>1. u \in Threads /\ call'[u] = call[u] /\ ~Idle(u) /\ call[u].at \in Times
      BY <1>1, <2>2 DEF Open, Idle, LostInv, TypeOK, Calls
    <3>2. WithinWrap(call[u].at, now) /\ call[u].at.epoch = e
      BY <1>4, <3>1 DEF LostInv
    <3>. QED BY <1>2, <3>1, <3>2 DEF WithinWrap, Times
  <2>. QED BY <2>1, <2>2
<1>. QED BY <1>1, <1>3, <1>4 DEF Spared

(* A new call, when no other is in progress: the reading stored last is the  *)
(* one to start from.                                                        *)
LEMMA FirstCallDrifts ==
  ASSUME LostInv, LostInv', IsFiniteSet(Open), NEW e \in Nat, DriftFrom(e),
         NEW t \in Threads, ReadHardware(t), Quiet
  PROVE  DriftFrom(last.epoch)'
<1>1. /\ Open' = Open \cup {t} /\ Foreseen \in Nat /\ Foreseen' = Foreseen + 1
  BY OpenChanges
<1>2. /\ call'[t] = [pc |-> "load", at |-> now, seen |-> Zero]
      /\ UNCHANGED <<now, last, overlaps>>
  BY DEF ReadHardware, LostInv, TypeOK
<1>3. /\ last \in Times /\ now \in Times /\ WithinWrap(last, now) /\ overlaps \in Nat
      /\ last.epoch \in Nat /\ now.epoch \in Nat /\ now.epoch >= last.epoch
  BY DEF LostInv, TypeOK, WithinWrap, Times
<1>4. Open = {} /\ Open' = {t}
  BY <1>1 DEF Open, Quiet, Idle
<1>5. Foreseen <= last.epoch + overlaps
  BY <1>1, <1>3, <1>4 DEF DriftFrom
<1>6. /\ last'.epoch >= last.epoch /\ \A u \in Open' : call'[u].at.epoch >= last.epoch
      /\ Foreseen' <= last.epoch + overlaps' + 1
  BY <1>1, <1>2, <1>3, <1>4, <1>5
<1>7. CASE now.epoch = last.epoch
  BY <1>1, <1>2, <1>3, <1>6, <1>7, NewestSpared DEF DriftFrom
<1>8. CASE now.epoch > last.epoch
  <2>1. Open' # {} /\ \A u \in Open' : call'[u].at.epoch > last.epoch
    BY <1>2, <1>4, <1>8
  <2>. QED BY <1>2, <1>6, <2>1 DEF DriftFrom
<1>. QED BY <1>3, <1>7, <1>8

(* A new call among others is one more overlap.                              *)
LEMMA NextCallDrifts ==
  ASSUME LostInv, LostInv', IsFiniteSet(Open), NEW e \in Nat, DriftFrom(e),
         NEW t \in Threads, ReadHardware(t), ~Quiet
  PROVE  DriftFrom(e)'
<1>1. /\ Open' = Open \cup {t} /\ Foreseen \in Nat /\ Foreseen' = Foreseen + 1
  BY OpenChanges
<1>2. /\ call'[t] = [pc |-> "load", at |-> now, seen |-> Zero]
      /\ \A u \in Threads : u # t => call'[u] = call[u]
      /\ UNCHANGED <<now, last>> /\ overlaps' = overlaps + 1 /\ Idle(t)
  BY DEF ReadHardware, LostInv, TypeOK
<1>3. /\ last \in Times /\ now \in Times /\ WithinWrap(last, now) /\ overlaps \in Nat
      /\ last.epoch \in Nat /\ now.epoch \in Nat /\ now.epoch >= last.epoch
  BY DEF LostInv, TypeOK, WithinWrap, Times
<1>4. /\ t \notin Open /\ Open \subseteq Threads
      /\ \A u \in Open : call'[u] = call[u] /\ Wrapped(u)' = Wrapped(u)
  BY <1>2 DEF Open, Idle, Wrapped
<1>5. /\ last'.epoch >= e /\ \A u \in Open' : call'[u].at.epoch >= e
      /\ Foreseen' <= e + overlaps' + 1
  BY <1>1, <1>2, <1>3, <1>4 DEF DriftFrom
<1>6. CASE Foreseen <= e + overlaps
  <2>1. Foreseen' <= e + overlaps'
    BY <1>1, <1>2, <1>3, <1>6
  <2>. QED BY <1>5, <2>1 DEF DriftFrom
<1>7. CASE now.epoch = e
  BY <1>1, <1>5, <1>7, NewestSpared DEF DriftFrom
<1>8. CASE now.epoch > e /\ \A u \in Open : call[u].at.epoch > e
  <2>1. Open' # {} /\ \A u \in Open' : call'[u].at.epoch > e
    BY <1>1, <1>2, <1>4, <1>8
  <2>. QED BY <1>5, <2>1 DEF DriftFrom
<1>9. CASE now.epoch > e /\ \E u \in Open : Spared(u, e)
  <2>1. PICK u \in Open : Spared(u, e)
    BY <1>9
  <2>2. /\ call'[u].at.epoch = e /\ (last'.epoch = e => last'.low <= call'[u].at.low)
        /\ (call'[u].pc = "store" => ~Wrapped(u)')
    BY <1>2, <1>4, <2>1 DEF Spared
  <2>3. ASSUME NEW v \in Open', call'[v].at.epoch = e PROVE call'[v].at.low <= call'[u].at.low
    <3>1. v \in Open
      BY <1>1, <1>2, <1>9, <2>3
    <3>. QED BY <1>4, <2>1, <2>3, <3>1 DEF Spared
  <2>4. u \in Open' /\ Spared(u, e)'
    BY <1>1, <2>2, <2>3 DEF Spared
  <2>. QED BY <1>5, <2>4 DEF DriftFrom
<1>10. now.epoch >= e
  BY <1>3 DEF DriftFrom
<1>. QED BY <1>3, <1>6, <1>7, <1>8, <1>9, <1>10 DEF DriftFrom

(* The call to be spared finds no reading that it would count a wrap for.    *)
LEMMA LoadDrifts ==
  ASSUME LostInv, LostInv', IsFiniteSet(Open), NEW e \in Nat, DriftFrom(e),
         NEW t \in Threads, LoadLast(t)
  PROVE  DriftFrom(e)'
<1>1. Open' = Open /\ Foreseen' = Foreseen /\ t \in Open
  <2>1. ~ReadHardware(t) /\ ~StoreLast(t)
    BY DEF LoadLast, ReadHardware, StoreLast, Idle
  <2>. QED BY <2>1, OpenChanges
<1>2. /\ call'[t] = [pc |-> "store", at |-> call[t].at, seen |-> last]
      /\ \A u \in Threads : u # t => call'[u] = call[u]
      /\ UNCHANGED <<now, last, overlaps>> /\ ~Idle(t)
  BY DEF LoadLast, LostInv, TypeOK, Idle
<1>3. \A u \in Open : call'[u].at = call[u].at
  BY <1>2 DEF Open
<1>4. ASSUME NEW u \in Open, Spared(u, e) PROVE Spared(u, e)'
  <2>1. ASSUME call'[u].pc = "store" PROVE ~Wrapped(u)'
    <3>1. CASE u # t
      BY <1>2, <1>4, <2>1, <3>1 DEF Spared, Wrapped, Open
    <3>2. CASE u = t
      <4>1. /\ call[t].at \in Times /\ last \in Times /\ now \in Times
            /\ WithinWrap(call[t].at, now) /\ WithinWrap(last, now)
        BY <1>2 DEF LostInv, TypeOK, Calls
      <4>2. call[t].at.epoch = e /\ last.epoch >= e
            /\ (last.epoch = e => last.low <= call[t].at.low)
        BY <1>4, <3>2 DEF Spared, DriftFrom
      <4>3. last.low <= call[t].at.low
        BY <4>1, <4>2 DEF WithinWrap, Times
      <4>4. Wrapped(t)' <=> call[t].at.low < last.low
        BY <1>2 DEF Wrapped
      <4>. QED BY <3>2, <4>1, <4>3, <4>4 DEF Times
    <3>. QED BY <3>1, <3>2
  <2>. QED BY <1>1, <1>2, <1>3, <1>4, <2>1 DEF Spared
<1>. QED BY <1>1, <1>2, <1>3, <1>4 DEF DriftFrom

(* A store that does not show a wrap makes up for the one too many.          *)
LEMMA StoreDrifts ==
  ASSUME LostInv, LostInv', IsFiniteSet(Open), NEW e \in Nat, DriftFrom(e),
         NEW t \in Threads, StoreLast(t)
  PROVE  DriftFrom(e)'
<1>1. /\ Open' = Open \ {t} /\ t \in Open /\ Foreseen \in Nat
      /\ Foreseen' = IF Wrapped(t) THEN Foreseen ELSE Foreseen - 1
  BY OpenChanges
<1>2. /\ call[t].pc = "store" /\ last' = call[t].at
      /\ \A u \in Threads : u # t => call'[u] = call[u]
      /\ UNCHANGED <<now, overlaps>>
  BY DEF StoreLast, LostInv, TypeOK
<1>3. /\ call[t].at \in Times /\ last \in Times /\ overlaps \in Nat
      /\ last.epoch \in Nat /\ call[t].at.epoch \in Nat
  BY DEF LostInv, TypeOK, Calls, Times
<1>4. \A u \in Open' : u \in Open /\ call'[u] = call[u] /\ (Wrapped(u)' <=> Wrapped(u))
  BY <1>1, <1>2 DEF Open, Wrapped
<1>5. /\ last'.epoch >= e /\ \A u \in Open' : call'[u].at.epoch >= e
      /\ Foreseen' <= e + overlaps' + 1
  BY <1>1, <1>2, <1>3, <1>4 DEF DriftFrom
<1>6. CASE ~Wrapped(t) \/ Foreseen <= e + overlaps
  <2>1. Foreseen' <= e + overlaps'
    BY <1>1, <1>2, <1>3, <1>6 DEF DriftFrom
  <2>. QED BY <1>5, <2>1 DEF DriftFrom
<1>7. CASE \A u \in Open : call[u].at.epoch > e
  <2>1. last'.epoch > e /\ \A u \in Open' : call'[u].at.epoch > e
    BY <1>1, <1>2, <1>4, <1>7
  <2>. QED BY <1>5, <2>1 DEF DriftFrom
<1>8. CASE Wrapped(t) /\ \E u \in Open : Spared(u, e)
  <2>1. PICK u \in Open : Spared(u, e)
    BY <1>8
  <2>2. u # t /\ u \in Open'
    BY <1>1, <1>2, <1>8, <2>1 DEF Spared
  <2>3. /\ call'[u].at.epoch = e /\ (call'[u].pc = "store" => ~Wrapped(u)')
        /\ (last'.epoch = e => last'.low <= call'[u].at.low)
    BY <1>1, <1>2, <1>4, <2>1, <2>2 DEF Spared
  <2>4. \A v \in Open' : call'[v].at.epoch = e => call'[v].at.low <= call'[u].at.low
    BY <1>4, <2>1, <2>2 DEF Spared
  <2>5. Spared(u, e)'
    BY <2>3, <2>4 DEF Spared
  <2>. QED BY <1>5, <2>2, <2>5 DEF DriftFrom
<1>. QED BY <1>6, <1>7, <1>8 DEF DriftFrom

LEMMA DriftPreserved == DriftInv /\ [Next]_vars => DriftInv'
<1> SUFFICES ASSUME DriftInv, [Next]_vars PROVE DriftInv'
  OBVIOUS
<1>1. LostInv /\ LostInv' /\ IsFiniteSet(Open)
  BY LostPreserved DEF DriftInv
<1>2. PICK e \in Nat : DriftFrom(e)
  BY DEF DriftInv
<1>3. last.epoch \in Nat
  BY <1>1 DEF LostInv, TypeOK, Times
<1>4. ASSUME NEW t \in Threads,
             ReadHardware(t) \/ LoadLast(t) \/ StoreLast(t) \/ CountWrap(t) \/ Returns(t)
      PROVE  DriftInv'
  <2>1. IsFiniteSet(Open')
    BY <1>1, <1>4, OpenChanges
  <2>2. CASE ReadHardware(t)
    <3>1. DriftFrom(last.epoch)' \/ DriftFrom(e)'
      BY <1>1, <1>2, <2>2, FirstCallDrifts, NextCallDrifts
    <3>2. last'.epoch \in Nat /\ last' = last
      BY <1>3, <2>2 DEF ReadHardware
    <3>. QED BY <1>1, <2>1, <3>1, <3>2 DEF DriftInv
  <2>3. CASE LoadLast(t)
    BY <1>1, <1>2, <2>1, <2>3, LoadDrifts DEF DriftInv
  <2>4. CASE StoreLast(t)
    BY <1>1, <1>2, <2>1, <2>4, StoreDrifts DEF DriftInv
  <2>5. CASE CountWrap(t) \/ Returns(t)
    <3>1. ~ReadHardware(t) /\ ~StoreLast(t)
      BY <2>5 DEF CountWrap, Returns, ReadHardware, StoreLast, Idle
    <3>2. Open' = Open /\ Foreseen' = Foreseen
      BY <1>1, <1>4, <3>1, OpenChanges
    <3>3. UNCHANGED <<last, overlaps>> /\ \A u \in Open : call'[u] = call[u]
      BY <1>1, <2>5 DEF CountWrap, Returns, Open, LostInv, TypeOK
    <3>4. \A u \in Open : Spared(u, e) => Spared(u, e)'
      BY <3>2, <3>3 DEF Spared, Wrapped
    <3>5. DriftFrom(e)'
      BY <1>2, <3>2, <3>3, <3>4 DEF DriftFrom
    <3>. QED BY <1>1, <2>1, <3>5 DEF DriftInv
  <2>. QED BY <1>4, <2>2, <2>3, <2>4, <2>5
<1>5. CASE Tick \/ UNCHANGED vars
  <2>1. UNCHANGED <<last, upper, call, overlaps>>
    BY <1>5 DEF Tick, vars
  <2>2. Open' = Open /\ Foreseen' = Foreseen /\ \A u \in Open : Wrapped(u)' <=> Wrapped(u)
    BY <2>1 DEF Open, Foreseen, Counted, Pending, Wrapped
  <2>3. DriftFrom(e)'
    BY <1>2, <2>1, <2>2 DEF DriftFrom, Spared
  <2>. QED BY <1>1, <1>2, <2>2, <2>3 DEF DriftInv
<1>. QED BY <1>4, <1>5 DEF Next

(* However many threads call and however their calls overlap, the count is   *)
(* ahead of the clock by no more wraps than calls overlapped another one.    *)
THEOREM AheadNoFurther == Spec => []AheadByOverlaps
<1>1. DriftInv => AheadByOverlaps
  <2>1. SUFFICES ASSUME DriftInv, NEW e \in Nat, DriftFrom(e)
                 PROVE  upper <= now.epoch + overlaps
    BY DEF DriftInv, AheadByOverlaps
  <2>2. /\ upper \in Nat /\ overlaps \in Nat /\ now \in Times /\ last \in Times
        /\ now.epoch \in Nat /\ last.epoch \in Nat /\ now.epoch >= last.epoch
    BY <2>1 DEF DriftInv, LostInv, TypeOK, WithinWrap, Times
  <2>3. /\ Cardinality(Pending) \in Nat /\ Cardinality(Open) \in Nat
        /\ Foreseen = upper + Cardinality(Pending) + Cardinality(Open)
    BY <2>1, FS_CardinalityType DEF DriftInv, LostInv, Foreseen, Counted
  <2>4. CASE Open = {}
    BY <2>1, <2>2, <2>3, <2>4 DEF DriftFrom
  <2>5. CASE Open # {}
    <3>1. Cardinality(Open) > 0
      BY <2>1, <2>3, <2>5, FS_EmptySet DEF DriftInv
    <3>. QED BY <2>1, <2>2, <2>3, <3>1 DEF DriftFrom
  <2>. QED BY <2>4, <2>5
<1>. QED BY <1>1, DriftInitially, DriftPreserved, PTL DEF Spec
=============================================================================
