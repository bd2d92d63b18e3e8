------------------------------ MODULE MacClock ------------------------------
(* The board's 64-bit microsecond clock, get_mac_counter (firmware/src/      *)
(* wifi.rs), and the receive time csi_rx_callback (csi.rs) makes of it.      *)
(*                                                                           *)
(* The hardware counts modulo 2^32.  Software counts the wraps in an atomic  *)
(* by comparing each reading with the one before it, in another atomic.  The *)
(* executor's thread (mac_counter_keepalive and the notifications sent,      *)
(* espnow.rs:65) and the WiFi task (every CSI frame, csi.rs:184, and every   *)
(* notification received, espnow.rs:93) call it; each access to the          *)
(* hardware or to an atomic is an action.                                    *)
(*                                                                           *)
(* A time is an epoch, the number of wraps so far, and the 32 bits below it. *)
(* A reading is kept with its true epoch, which no action looks at.          *)
EXTENDS Naturals

CONSTANTS Threads,    \* the executor's thread and the WiFi task
          Modulus,    \* 2^32
          Delays,     \* from a frame's reception to the reading in its callback
          Epochs,     \* bound on the clock
          MaxOverlaps \* bound on overlaps

ASSUME ClockWraps == Modulus \in Nat \ {0} /\ Epochs \in Nat /\ MaxOverlaps \in Nat
(* The callback runs after the frame, and less than 71 minutes after it. *)
ASSUME DelaysAreShort == Delays \subseteq 1 .. Modulus - 1

VARIABLES now,         \* the true time
          last,        \* MAC_LAST_LOWER: the reading stored last
          upper,       \* MAC_UPPER_BITS
          call,        \* each thread's call of get_mac_counter
          overlaps     \* history: calls begun while another was in progress

vars == <<now, last, upper, call, overlaps>>

Times == [epoch : Nat, low : 0 .. Modulus - 1]
Zero == [epoch |-> 0, low |-> 0]

(* `at` is the call's reading, `seen` what it found in MAC_LAST_LOWER. *)
Calls == [pc : {"idle", "load", "store", "count", "upper"}, at : Times, seen : Times]

Idle(t) == call[t].pc = "idle"
Quiet == \A t \in Threads : Idle(t)

(* The clock, reading a and later at b, wrapped at most once in between, and *)
(* then shows a lower value.                                                 *)
WithinWrap(a, b) ==
  \/ a.epoch = b.epoch /\ a.low <= b.low
  \/ a.epoch + 1 = b.epoch /\ b.low < a.low

Following(time) ==
  IF time.low = Modulus - 1 THEN [epoch |-> time.epoch + 1, low |-> 0]
                            ELSE [time EXCEPT !.low = @ + 1]

-----------------------------------------------------------------------------
(* get_mac_counter *)

ReadHardware(t) ==
  /\ Idle(t)
  /\ call' = [call EXCEPT ![t] = [pc |-> "load", at |-> now, seen |-> Zero]]
  /\ \/ Quiet /\ UNCHANGED overlaps
     \/ ~Quiet /\ overlaps < MaxOverlaps /\ overlaps' = overlaps + 1
  /\ UNCHANGED <<now, last, upper>>

LoadLast(t) ==
  /\ call[t].pc = "load"
  /\ call' = [call EXCEPT ![t] = [pc |-> "store", at |-> call[t].at, seen |-> last]]
  /\ UNCHANGED <<now, last, upper, overlaps>>

StoreLast_BugUntruncated(t) ==
  /\ call[t].pc = "store"
  /\ last' = [call[t].at EXCEPT !.low = @ + Modulus * call[t].at.epoch]
  /\ call' = [call EXCEPT ![t] = [pc |-> "count", at |-> call[t].at, seen |-> call[t].seen]]
  /\ UNCHANGED <<now, upper, overlaps>>

StoreLast(t) ==
  /\ call[t].pc = "store"
  /\ last' = call[t].at
  /\ call' = [call EXCEPT ![t] = [pc |-> "count", at |-> call[t].at, seen |-> call[t].seen]]
  /\ UNCHANGED <<now, upper, overlaps>>

Wrapped_BugStoredFirst(t) == call[t].at.low < last.low

Wrapped_BugNotStrict(t) == call[t].at.low <= call[t].seen.low

Wrapped(t) == call[t].at.low < call[t].seen.low

CountWrap(t) ==
  /\ call[t].pc = "count"
  /\ upper' = IF Wrapped(t) THEN upper + 1 ELSE upper
  /\ call' = [call EXCEPT ![t] = [pc |-> "upper", at |-> call[t].at, seen |-> call[t].seen]]
  /\ UNCHANGED <<now, last, overlaps>>

Value(t) == [epoch |-> upper, low |-> call[t].at.low]

(* The call loads the upper bits and returns Value(t). *)
Returns(t) ==
  /\ call[t].pc = "upper"
  /\ call' = [call EXCEPT ![t] = [pc |-> "idle", at |-> Zero, seen |-> Zero]]
  /\ UNCHANGED <<now, last, upper, overlaps>>

-----------------------------------------------------------------------------
(* csi_rx_callback: the frame's 32-bit receive time `low` gets the epoch of  *)
(* the clock, or the one before it if the clock wrapped since.               *)
RxTimestampWrap_BugNoOverflow(mac, low) == [epoch |-> mac.epoch, low |-> low]

RxTimestampWrap(mac, low) ==
  [epoch |-> IF mac.low > low THEN mac.epoch ELSE mac.epoch - 1, low |-> low]

(* The time d before `time`, once the board has been up that long. *)
Since(time, d) == time.epoch > 0 \/ time.low >= d
Earlier(time, d) ==
  IF time.low >= d THEN [epoch |-> time.epoch, low |-> time.low - d]
  ELSE [epoch |-> time.epoch - 1, low |-> Modulus + time.low - d]

-----------------------------------------------------------------------------
(* mac_counter_keepalive calls every 60 s and no thread is held up for long: *)
(* the reading stored last is replaced, and a call that has read the         *)
(* hardware over, before the clock, which takes 71 minutes to wrap, shows    *)
(* that reading again.                                                       *)
Tick ==
  /\ now.epoch <= Epochs
  /\ now' = Following(now)
  /\ WithinWrap(last, now')
  /\ \A t \in Threads : ~Idle(t) => WithinWrap(call[t].at, now')
  /\ UNCHANGED <<last, upper, call, overlaps>>

Init ==
  /\ now = Zero /\ last = Zero /\ upper = 0
  /\ call = [t \in Threads |-> [pc |-> "idle", at |-> Zero, seen |-> Zero]]
  /\ overlaps = 0

Next ==
  \/ \E t \in Threads :
       ReadHardware(t) \/ LoadLast(t) \/ StoreLast(t) \/ CountWrap(t) \/ Returns(t)
  \/ Tick

Spec == Init /\ [][Next]_vars

-----------------------------------------------------------------------------
(* Every reading fits in 32 bits (wifi.rs:260).                              *)
TypeOK ==
  /\ now \in Times /\ last \in Times /\ upper \in Nat
  /\ call \in [Threads -> Calls]
  /\ overlaps \in Nat

Returning(t) == call[t].pc = "upper"

(* As long as no two calls have been in progress at once, a call returns the *)
(* time of its reading (wifi.rs:258-275).                                    *)
ExactUntilOverlap ==
  \A t \in Threads : overlaps = 0 /\ Returning(t) => Value(t) = call[t].at

(* As long, every frame is stamped with the time it was received at, also    *)
(* when the clock wrapped before its callback ran (csi.rs:184-193).          *)
StampsExactUntilOverlap ==
  \A t \in Threads, d \in Delays :
    overlaps = 0 /\ Returning(t) /\ Since(call[t].at, d) =>
      LET received == Earlier(call[t].at, d)
      IN  RxTimestampWrap(Value(t), received.low) = received

(* However the calls overlap, no wrap is lost: with no call in progress the  *)
(* count of wraps is never behind the reading stored last (wifi.rs:262-271). *)
NoWrapLost == Quiet => upper >= last.epoch

(* Two readings that cross may count one wrap twice, or one that was none;   *)
(* but each call that overlaps another puts the clock ahead by at most one   *)
(* wrap, however many threads call and however long a call takes: the damage *)
(* does not spread (wifi.rs:258-275).                                        *)
AheadByOverlaps == upper <= now.epoch + overlaps

(* "If we wrapped, increment upper bits" (wifi.rs:268), and only then: the   *)
(* board's time is never ahead of the clock.                                 *)
CountsOnlyWraps == upper <= now.epoch
=============================================================================
