------------------------------ MODULE RateLimiter ------------------------------
(***************************************************************************)
(* The per-key rate limiter, internal/rates/memory.go: a sliding-window    *)
(* estimate over one-second and one-minute windows.                        *)
(*                                                                         *)
(* Time is counted in ticks; a second has SecTicks and a minute MinTicks   *)
(* of them (the code counts nanoseconds).  Keys share no state, so the     *)
(* module has one.  Allow reads the clock before it takes the key's mutex: *)
(* a call may enter the critical section with an older time than a call    *)
(* that entered before it.                                                 *)
(***************************************************************************)
EXTENDS Integers

CONSTANTS
  Requests,   \* request handlers
  Limits,     \* <<rps_limit, rpm_limit>> pairs a request may carry, 0 = off
  SecTicks,   \* secWindowNS
  MinTicks,   \* minWindowNS
  Span,       \* how long the clock runs (bound)
  MaxDelay    \* longest wait between reading the clock and the lock (bound)

ASSUME RateAssumption ==
  /\ SecTicks \in Nat \ {0}
  /\ MinTicks \in Nat \ {0}
  /\ MinTicks >= 2 * SecTicks /\ MinTicks % SecTicks = 0
  /\ Span \in Nat
  /\ MaxDelay \in Nat
  /\ Limits \subseteq Nat \X Nat

VARIABLES
  sec,        \* the one-second windowCounter of the key
  min,        \* the one-minute windowCounter
  clock,      \* wall clock
  call,       \* request -> its Allow call
  served      \* tick -> calls allowed with a clock reading of at most that (history)

rateVars == <<sec, min, clock, call, served>>

(* The program starts long after windowStart's zero value.                 *)
Start == 2 * MinTicks
Ticks == Start..(Start + Span)

Idle == [at |-> "idle", now |-> Start, limits |-> <<0, 0>>, retry |-> 0]

RateTypeOK ==
  /\ sec \in [start : Nat, prev : Nat, curr : Nat]
  /\ min \in [start : Nat, prev : Nat, curr : Nat]
  /\ clock \in Ticks
  /\ call \in [Requests -> [at : {"idle", "lock", "limited"}, now : Ticks,
                            limits : Limits \cup {<<0, 0>>},
                            retry : 0..(MinTicks \div SecTicks)]]
  /\ served \in [Ticks -> Nat]

NewWindow == [start |-> 0, prev |-> 0, curr |-> 0]

RateInit ==
  /\ sec = NewWindow
  /\ min = NewWindow
  /\ clock = Start
  /\ call = [r \in Requests |-> Idle]
  /\ served = [t \in Ticks |-> 0]

-----------------------------------------------------------------------------
(* Mutant: the window moves on without its count becoming the previous.    *)
Advance_ForgetsPrev(w, t, W) ==
  IF t - w.start >= W
    THEN [start |-> t - ((t - w.start) % W), prev |-> 0, curr |-> 0]
    ELSE w

(* estimateCount, its side effect: window w as of time t.                  *)
Advance(w, t, W) ==
  IF t - w.start >= W
    THEN [start |-> t - ((t - w.start) % W),
          prev  |-> IF (t - w.start) \div W = 1 THEN w.curr ELSE 0,
          curr  |-> 0]
    ELSE w

(* Its result, on the advanced window.  t is before w.start when the call  *)
(* was overtaken at the lock; the weight of prev then exceeds one.         *)
Estimate(w, t, W) == (w.prev * (W - (t - w.start))) \div W + w.curr

(* Seconds to wait, rounded up, and clamped by newRetryAfterError to at    *)
(* least 1 and at most one minute.                                         *)
Clamp(s) == CASE s < 1 -> 1 [] s > MinTicks \div SecTicks -> MinTicks \div SecTicks [] OTHER -> s

(* Mutants: no rounding up; no clamp.                                      *)
RetryAfter_Unclamped(w, t, W) == (W - (t - w.start)) \div SecTicks + 1
RetryAfter_RoundsDown(w, t, W) == Clamp((W - (t - w.start)) \div SecTicks)

RetryAfter(w, t, W) == Clamp((W - (t - w.start)) \div SecTicks + 1)

Count(w) == [start |-> w.start, prev |-> w.prev, curr |-> w.curr + 1]

-----------------------------------------------------------------------------
(* Allow up to the lock: both limits off returns at once, otherwise the    *)
(* clock is read.                                                          *)
AllowCall(r, l) ==
  /\ call[r].at # "lock"
  /\ l[1] > 0 \/ l[2] > 0
  /\ call' = [call EXCEPT ![r] = [at |-> "lock", now |-> clock, limits |-> l, retry |-> 0]]
  /\ UNCHANGED <<sec, min, clock, served>>

Limited(r, retry) == call' = [call EXCEPT ![r] = [Idle EXCEPT !.at = "limited", !.retry = retry]]

(* The three ways out of the critical section; the window of a limit that  *)
(* is off, or that an earlier rejection leaves unread, is not advanced.    *)
RejectRPS(r) ==
  LET t == call[r].now
      s == Advance(sec, t, SecTicks)
  IN
  /\ call[r].at = "lock"
  /\ call[r].limits[1] > 0
  /\ Estimate(s, t, SecTicks) + 1 > call[r].limits[1]
  /\ sec' = s
  /\ Limited(r, RetryAfter(s, t, SecTicks))
  /\ UNCHANGED <<min, clock, served>>

(* Mutant: one more than the limit.                                        *)
RPSPasses_OneMore(r, s) ==
  call[r].limits[1] > 0 => Estimate(s, call[r].now, SecTicks) <= call[r].limits[1]

RPSPasses(r, s) ==
  call[r].limits[1] > 0 => Estimate(s, call[r].now, SecTicks) + 1 <= call[r].limits[1]

RejectRPM(r) ==
  LET t == call[r].now
      s == IF call[r].limits[1] > 0 THEN Advance(sec, t, SecTicks) ELSE sec
      m == Advance(min, t, MinTicks)
  IN
  /\ call[r].at = "lock"
  /\ RPSPasses(r, s)
  /\ call[r].limits[2] > 0
  /\ Estimate(m, t, MinTicks) + 1 > call[r].limits[2]
  /\ sec' = s
  /\ min' = m
  /\ Limited(r, RetryAfter(m, t, MinTicks))
  /\ UNCHANGED <<clock, served>>

Admit(r) ==
  LET t == call[r].now
      s == IF call[r].limits[1] > 0 THEN Advance(sec, t, SecTicks) ELSE sec
      m == IF call[r].limits[2] > 0 THEN Advance(min, t, MinTicks) ELSE min
  IN
  /\ call[r].at = "lock"
  /\ RPSPasses(r, s)
  /\ call[r].limits[2] > 0 => Estimate(m, t, MinTicks) + 1 <= call[r].limits[2]
  /\ sec' = IF call[r].limits[1] > 0 THEN Count(s) ELSE s
  /\ min' = IF call[r].limits[2] > 0 THEN Count(m) ELSE m
  /\ call' = [call EXCEPT ![r] = Idle]
  /\ served' = [u \in Ticks |-> IF u >= t THEN served[u] + 1 ELSE served[u]]
  /\ UNCHANGED clock

(* Time passes; no handler is kept from the mutex for more than MaxDelay.  *)
TickClock ==
  /\ clock + 1 \in Ticks
  /\ \A r \in Requests : call[r].at = "lock" => clock - call[r].now < MaxDelay
  /\ clock' = clock + 1
  /\ UNCHANGED <<sec, min, call, served>>

RateNext ==
  \/ \E r \in Requests :
       \/ \E l \in Limits : AllowCall(r, l)
       \/ RejectRPS(r)
       \/ RejectRPM(r)
       \/ Admit(r)
  \/ TickClock

RateSpec == RateInit /\ [][RateNext]_rateVars
-----------------------------------------------------------------------------
MaxRPS == CHOOSE n \in {l[1] : l \in Limits} : \A l \in Limits : l[1] <= n
MaxRPM == CHOOSE n \in {l[2] : l \in Limits} : \A l \in Limits : l[2] <= n

(* Calls allowed with a clock reading in the W ticks up to t.              *)
Upto(t) == IF t < Start THEN 0 ELSE served[t]
ServedIn(t, W) == Upto(t) - Upto(t - W)

(* A window never counts more than its limit allows, whatever order the    *)
(* overtaken calls enter the lock in.                                      *)
WindowsWithinLimit ==
  /\ MaxRPS > 0 => sec.curr <= MaxRPS /\ sec.prev <= MaxRPS
  /\ MaxRPM > 0 => min.curr <= MaxRPM /\ min.prev <= MaxRPM

Sliding(limit, W) ==
  \A t \in Ticks :
    LET e == t % W IN
    /\ e + 1 = W => ServedIn(t, W) <= limit
    /\ e + MaxDelay < W => W * (ServedIn(t, W) - limit) <= limit * e + (W - 1)
    /\ ServedIn(t, W) <= 2 * limit

(* What the sliding estimate buys over fixed windows.  A window that the   *)
(* clock aligns serves no more than the limit.  A stretch of one window    *)
(* that ends e ticks after a boundary serves at most limit * (1 + e / W),  *)
(* rounded up: no burst at the boundary itself.  The ticks at the end of a *)
(* window that an overtaken call may still come from are the exception;    *)
(* nothing ever serves more than twice the limit.  For limits nobody       *)
(* changes (one element of Limits) and delays of at most a second.         *)
SlidingBound ==
  /\ MaxRPS > 0 => Sliding(MaxRPS, SecTicks)
  /\ MaxRPM > 0 => Sliding(MaxRPM, MinTicks)

(* Would window w let a call in at time t?                                 *)
Allows(w, t, W, limit) == limit > 0 => Estimate(Advance(w, t, W), t, W) + 1 <= limit

(* Retry-After is enough: a client that waits for as long as it was told   *)
(* is let in by the window that rejected it, if nobody else used the key   *)
(* and nobody lowered its limit meanwhile (one element of Limits).  A call *)
(* that its second rejects has not looked at its minute, which may reject  *)
(* it next; the second stays open for one that its minute rejected.  The   *)
(* one exception is a minute that is full at its very first tick, where    *)
(* the clamp to 60 takes the advice one tick short.                        *)
RetryAfterSuffices ==
  [][\A r \in Requests :
       LET limits == call[r].limits
           t == clock + call'[r].retry * SecTicks
       IN
       /\ RejectRPS(r) \/ RejectRPM(r) => Allows(sec', t, SecTicks, limits[1])
       /\ RejectRPM(r) /\ clock # min'.start => Allows(min', t, MinTicks, limits[2])]_rateVars
=============================================================================
