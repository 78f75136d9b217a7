--------------------------- MODULE RateLimiterProofs ---------------------------
(***************************************************************************)
(* RateLimiter for any number of handlers, any limits and window lengths:  *)
(* its types, the bound on what a window counts, that Retry-After is long  *)
(* enough, and what is served over any stretch of time.                    *)
(*                                                                         *)
(* The arithmetic of the two windows is in lemmas about Advance, Estimate  *)
(* and RetryAfter for one window of any length W.                          *)
(***************************************************************************)
EXTENDS RateLimiter, TLAPS

Window == [start : Nat, prev : Nat, curr : Nat]

(* Integer division as the code uses it, for dividends of either sign.     *)
LEMMA DivMod ==
  ASSUME NEW x \in Int, NEW W \in Nat \ {0}
  PROVE  /\ x \div W \in Int /\ x % W \in Int
         /\ 0 <= x % W /\ x % W < W
         /\ W * (x \div W) <= x /\ x < W * ((x \div W) + 1)
         /\ x >= 0 => x \div W >= 0 /\ x % W <= x
         /\ x >= W => x \div W >= 1
         /\ x \div W = 1 => x % W = x - W /\ x >= W
<1>1. x \div W \in Int /\ x % W \in Int /\ 0 <= x % W /\ x % W < W
  BY SMT
<1>2. W * (x \div W) <= x /\ x < W * ((x \div W) + 1)
  BY SMT
<1>3. x >= 0 => x \div W >= 0 /\ x % W <= x
  BY SMT
<1>4. (x >= W => x \div W >= 1) /\ (x \div W = 1 => x % W = x - W /\ x >= W)
  BY SMT
<1> QED
  BY <1>1, <1>2, <1>3, <1>4

(* A quotient is below any bound its dividend is a multiple below.         *)
LEMMA DivBelow ==
  ASSUME NEW x \in Int, NEW W \in Nat \ {0}, NEW b \in Int, x < W * b
  PROVE  x \div W < b
BY SMT

(* The weighted count of the previous window is a number, and less than    *)
(* the count itself once a part of the window has passed.                  *)
LEMMA Weighted ==
  ASSUME NEW n \in Nat, NEW k \in Nat, NEW W \in Nat \ {0}
  PROVE  /\ (n * k) \div W \in Nat
         /\ k < W /\ n > 0 => (n * k) \div W < n
         /\ k <= W => (n * k) \div W <= n
         /\ n = 0 => (n * k) \div W = 0
<1>1. n * k \in Nat
  OBVIOUS
<1>2. (n * k) \div W \in Nat
  BY <1>1, DivMod
<1>3. ASSUME k < W, n > 0 PROVE (n * k) \div W < n
  <2>1. n * k < W * n
    BY <1>3
  <2> QED
    BY <1>1, <2>1, DivBelow
<1>4. ASSUME k <= W PROVE (n * k) \div W <= n
  <2>1. n * k < W * (n + 1)
    BY <1>4
  <2>2. (n * k) \div W < n + 1
    BY <1>1, <2>1, DivBelow
  <2> QED
    BY <1>2, <2>2
<1>5. ASSUME n = 0 PROVE (n * k) \div W = 0
  <2>1. n * k < W * 1 /\ n * k = 0
    BY <1>5
  <2> QED
    BY <1>1, <1>2, <2>1, DivBelow
<1> QED
  BY <1>2, <1>3, <1>4, <1>5

(* Moving a window on to time t, also when the call was overtaken and t is *)
(* before the window's start.                                              *)
LEMMA Advanced ==
  ASSUME NEW w \in Window, NEW t \in Nat, NEW W \in Nat \ {0}
  PROVE  /\ Advance(w, t, W) \in Window
         /\ t - Advance(w, t, W).start < W
         /\ Advance(w, t, W).start <= t \/ Advance(w, t, W).start = w.start
         /\ Advance(w, t, W).curr \in {w.curr, 0}
         /\ Advance(w, t, W).prev \in {w.prev, w.curr, 0}
<1> DEFINE x == t - w.start
           s == Advance(w, t, W)
           start == t - (x % W)
           prev == IF x \div W = 1 THEN w.curr ELSE 0
<1>1. x \in Int /\ w.start \in Nat /\ w.prev \in Nat /\ w.curr \in Nat
      /\ w = [start |-> w.start, prev |-> w.prev, curr |-> w.curr]
  BY DEF Window
<1>2. CASE x >= W
  <2>1. s = [start |-> start, prev |-> prev, curr |-> 0]
    BY <1>2 DEF Advance
  <2>2. x % W \in Int /\ 0 <= x % W /\ x % W < W /\ x % W <= x
    BY <1>1, <1>2, DivMod
  <2>3. start \in Nat /\ start <= t /\ t - start < W
    BY <1>1, <2>2
  <2>4. prev \in Nat /\ prev \in {w.curr, 0}
    BY <1>1
  <2> HIDE DEF s, start, prev, x
  <2>5. s \in Window /\ s.start = start /\ s.prev = prev /\ s.curr = 0
    BY <2>1, <2>3, <2>4 DEF Window
  <2> QED
    BY <2>3, <2>4, <2>5 DEF s
<1>3. CASE ~(x >= W)
  <2>1. s = w
    BY <1>3 DEF Advance
  <2>2. x < W
    BY <1>1, <1>3
  <2> HIDE DEF s
  <2> QED
    BY <1>1, <2>1, <2>2 DEF s
<1> QED
  BY <1>2, <1>3

(* The estimate is a number and at least what the window counts itself.    *)
LEMMA Estimated ==
  ASSUME NEW w \in Window, NEW t \in Nat, NEW W \in Nat \ {0}, t - w.start < W
  PROVE  /\ Estimate(w, t, W) \in Nat
         /\ Estimate(w, t, W) >= w.curr
<1> DEFINE k == W - (t - w.start)
           e == (w.prev * k) \div W
<1>1. w.start \in Nat /\ w.prev \in Nat /\ w.curr \in Nat
  BY DEF Window
<1>2. k \in Nat
  BY <1>1
<1>3. Estimate(w, t, W) = e + w.curr
  BY DEF Estimate
<1> HIDE DEF k
<1>4. e \in Nat
  BY <1>1, <1>2, Weighted
<1> HIDE DEF e
<1> QED
  BY <1>1, <1>3, <1>4

(* Who waits until after the end of the window is let in; and at its end,  *)
(* if the window is not full.                                              *)
LEMMA Waited ==
  ASSUME NEW w \in Window, NEW t \in Nat, NEW W \in Nat \ {0},
         NEW limit \in Nat, w.curr <= limit,
         t - w.start >= W,
         t - w.start > W \/ w.curr < limit
  PROVE  Allows(w, t, W, limit)
<1> SUFFICES ASSUME limit > 0
             PROVE  Estimate(Advance(w, t, W), t, W) + 1 <= limit
  BY DEF Allows
<1> DEFINE x == t - w.start
           start == t - (x % W)
           prev == IF x \div W = 1 THEN w.curr ELSE 0
           s == [start |-> start, prev |-> prev, curr |-> 0]
           k == W - (x % W)
<1>1. x \in Int /\ w.start \in Nat /\ w.curr \in Nat /\ prev \in Nat
  BY DEF Window
<1>2. /\ x % W \in Int /\ 0 <= x % W /\ x % W < W
      /\ x \div W = 1 => x % W = x - W
  BY <1>1, DivMod
<1>3. Advance(w, t, W) = s
  BY DEF Advance
<1>4. Estimate(s, t, W) = (prev * (W - (t - start))) \div W + 0
  BY DEF Estimate
<1>5. W - (t - start) = k /\ k \in Nat /\ k <= W
  BY <1>2
<1>6. /\ prev = w.curr /\ x % W = x - W
      \/ prev = 0
  BY <1>2
<1> DEFINE e == (prev * k) \div W
<1>7. Estimate(s, t, W) = e + 0
  BY <1>4, <1>5
<1>8. x > W \/ w.curr < limit
  OBVIOUS
<1>9. k = W - (x % W)
  OBVIOUS
<1> HIDE DEF prev, k, s, x, start
<1>10. /\ e \in Nat
       /\ k < W /\ prev > 0 => e < prev
       /\ e <= prev
       /\ prev = 0 => e = 0
  BY <1>1, <1>5, Weighted
<1> HIDE DEF e
<1>11. CASE prev = 0
  BY <1>3, <1>7, <1>10, <1>11
<1>12. CASE prev > 0 /\ w.curr < limit
  BY <1>1, <1>3, <1>6, <1>7, <1>10, <1>12
<1>13. CASE prev > 0 /\ x > W
  <2>1. x % W > 0 /\ prev = w.curr
    BY <1>1, <1>6, <1>13
  <2>2. k < W
    BY <1>2, <1>9, <2>1
  <2> QED
    BY <1>1, <1>3, <1>7, <1>10, <1>13, <2>1, <2>2
<1> QED
  BY <1>1, <1>8, <1>11, <1>12, <1>13

(* A minute is a whole number of seconds.                                  *)
LEMMA Minute ==
  /\ SecTicks \in Nat \ {0} /\ MinTicks \in Nat \ {0}
  /\ MinTicks \div SecTicks \in Nat /\ MinTicks \div SecTicks >= 2
  /\ MinTicks = SecTicks * (MinTicks \div SecTicks)
<1>1. /\ SecTicks \in Nat \ {0} /\ MinTicks \in Nat \ {0}
      /\ MinTicks >= 2 * SecTicks /\ MinTicks % SecTicks = 0
  BY RateAssumption
<1>2. ASSUME NEW x \in Int, NEW W \in Nat \ {0}, NEW q, q = x \div W
      PROVE  x % W = x - W * q
  BY <1>2, SMT
<1> DEFINE q == MinTicks \div SecTicks
<1>3. q \in Int /\ MinTicks % SecTicks = MinTicks - SecTicks * q
  BY <1>1, <1>2, DivMod
<1>4. MinTicks < SecTicks * (q + 1)
  BY <1>1, DivMod
<1> HIDE DEF q
<1>5. MinTicks = SecTicks * q
  BY <1>1, <1>3
<1>6. q >= 2
  <2>1. SecTicks * 2 < SecTicks * (q + 1)
    BY <1>1, <1>3, <1>4
  <2> QED
    BY <1>1, <1>3, <2>1
<1> QED
  BY <1>1, <1>3, <1>5, <1>6 DEF q

(* Retry-After is between one second and one minute, and longer than what  *)
(* is left of the window unless it is a minute.                            *)
LEMMA Advised ==
  ASSUME NEW w \in Window, NEW t \in Nat, NEW W \in Nat, t - w.start < W
  PROVE  /\ RetryAfter(w, t, W) \in 1..(MinTicks \div SecTicks)
         /\ \/ RetryAfter(w, t, W) * SecTicks > W - (t - w.start)
            \/ RetryAfter(w, t, W) * SecTicks = MinTicks
<1> DEFINE d == W - (t - w.start)
           s == d \div SecTicks + 1
           n == MinTicks \div SecTicks
<1>1. d \in Nat /\ d > 0 /\ SecTicks \in Nat \ {0}
  BY Minute DEF Window
<1>2. n \in Nat /\ n >= 2 /\ MinTicks = SecTicks * n
  BY Minute
<1>3. RetryAfter(w, t, W) = Clamp(s)
  BY DEF RetryAfter
<1> HIDE DEF d
<1>4. s \in Int /\ s >= 1 /\ d < SecTicks * s
  BY <1>1, DivMod
<1> HIDE DEF s
<1>5. Clamp(s) = IF s > n THEN n ELSE s
  BY <1>4 DEF Clamp
<1>6. CASE s > n
  BY <1>1, <1>2, <1>3, <1>5, <1>6
<1>7. CASE ~(s > n)
  <2>1. s * SecTicks = SecTicks * s
    BY <1>1, <1>4
  <2> HIDE DEF n
  <2>2. s \in 1..n
    BY <1>2, <1>4, <1>7
  <2>3. s * SecTicks > d
    BY <1>1, <1>4, <2>1
  <2> QED
    BY <1>3, <1>5, <1>7, <2>2, <2>3 DEF n, d
<1> QED
  BY <1>6, <1>7

-----------------------------------------------------------------------------
(* Clock readings are not in the future and no window starts there; a call *)
(* that waits for the lock carries limits.                                 *)
Punctual ==
  /\ sec.start <= clock /\ min.start <= clock
  /\ \A r \in Requests :
       /\ call[r].now <= clock
       /\ call[r].at = "lock" => call[r].limits \in Limits

RateInv == RateTypeOK /\ Punctual

(* The clock counts in natural numbers.                                    *)
LEMMA TickType ==
  /\ Start \in Nat /\ Ticks \subseteq Nat /\ Start \in Ticks
  /\ \A t \in Ticks : t >= Start
BY RateAssumption DEF Start, Ticks

Call == [at : {"idle", "lock", "limited"}, now : Ticks, limits : Limits \cup {<<0, 0>>},
         retry : 0..(MinTicks \div SecTicks)]

(* A call that is not waiting for the lock.                                *)
LEMMA IdleCall ==
  Idle \in Call /\ Idle.at = "idle" /\ Idle.now = Start
BY TickType, Minute DEF Idle, Call

(* A rejected call and its advice.                                         *)
LEMMA LimitedCall ==
  ASSUME NEW n \in 0..(MinTicks \div SecTicks),
         NEW c, c = [Idle EXCEPT !.at = "limited", !.retry = n]
  PROVE  c \in Call /\ c.at = "limited" /\ c.now = Start
BY IdleCall DEF Call

(* What a handler finds inside the critical section.                       *)
LEMMA AtLock ==
  ASSUME RateInv, NEW r \in Requests, call[r].at = "lock"
  PROVE  /\ call[r].now \in Nat /\ call[r].now \in Ticks /\ call[r].now <= clock
         /\ clock \in Nat
         /\ sec \in Window /\ min \in Window
         /\ call[r].limits \in Limits
         /\ call[r].limits[1] \in Nat /\ call[r].limits[2] \in Nat
<1>1. call[r].limits \in Limits
  BY DEF RateInv, Punctual
<1>2. call[r].limits[1] \in Nat /\ call[r].limits[2] \in Nat
  BY <1>1, RateAssumption
<1>3. call[r] \in Call
  BY DEF RateInv, RateTypeOK, Call
<1> QED
  BY <1>1, <1>2, <1>3, TickType DEF RateInv, RateTypeOK, Punctual, Window, Call

(* A window the critical section may leave behind: it has not moved, or    *)
(* moved on to the call's clock reading, and may count the call.           *)
Leaves(w, v, t) ==
  /\ v \in Window
  /\ v.start <= t \/ v.start = w.start

(* However the critical section treats a window, it leaves such a one.     *)
LEMMA LeavesAdvanced ==
  ASSUME NEW w \in Window, NEW t \in Nat, NEW W \in Nat \ {0}
  PROVE  /\ Leaves(w, w, t) /\ Leaves(w, Count(w), t)
         /\ Leaves(w, Advance(w, t, W), t)
         /\ Leaves(w, Count(Advance(w, t, W)), t)
<1> DEFINE s == Advance(w, t, W)
<1>1. s \in Window /\ (s.start <= t \/ s.start = w.start)
  BY Advanced
<1>2. ASSUME NEW v \in Window
      PROVE  Count(v) \in Window /\ Count(v).start = v.start
  BY DEF Count, Window
<1> HIDE DEF s
<1> QED
  BY <1>1, <1>2 DEF Leaves, s

(* A critical section that leaves these windows, and its call c.           *)
LEMMA LockStepInv ==
  ASSUME RateInv, NEW r \in Requests, call[r].at = "lock",
         Leaves(sec, sec', call[r].now), Leaves(min, min', call[r].now),
         NEW c \in Call, c.at # "lock", c.now = Start,
         call' = [call EXCEPT ![r] = c], clock' = clock,
         served' \in [Ticks -> Nat]
  PROVE  RateInv'
<1>1. /\ call[r].now \in Nat /\ call[r].now <= clock /\ clock \in Nat /\ clock \in Ticks
      /\ clock >= Start /\ Start \in Nat
      /\ call \in [Requests -> Call]
      /\ sec.start <= clock /\ min.start <= clock
      /\ sec' \in Window /\ min' \in Window
  BY AtLock, TickType DEF RateInv, RateTypeOK, Punctual, Call, Leaves
<1>2. sec'.start <= clock' /\ min'.start <= clock'
  BY <1>1 DEF Leaves, Window
<1>3. call' \in [Requests -> Call]
  BY <1>1
<1>4. RateTypeOK'
  BY <1>1, <1>3 DEF RateTypeOK, Window, Call
<1>5. ASSUME NEW u \in Requests
      PROVE  call'[u].now <= clock' /\ (call'[u].at = "lock" => call'[u].limits \in Limits)
  <2>1. CASE u = r
    <3>1. call'[u] = c
      BY <1>1, <2>1
    <3> QED
      BY <1>1, <3>1
  <2>2. CASE u # r
    <3>1. call'[u] = call[u]
      BY <1>1, <2>2
    <3> QED
      BY <3>1 DEF RateInv, Punctual
  <2> QED
    BY <2>1, <2>2
<1> QED
  BY <1>2, <1>4, <1>5 DEF RateInv, Punctual

(* Every step keeps the types and the order of clock readings.             *)
LEMMA RateStepInv ==
  ASSUME RateInv, [RateNext]_rateVars
  PROVE  RateInv'
<1> USE DEF RateInv
<1>t. /\ call \in [Requests -> Call] /\ clock \in Ticks /\ clock \in Nat
      /\ served \in [Ticks -> Nat]
  BY TickType DEF RateTypeOK, Call
<1>0. SecTicks \in Nat \ {0} /\ MinTicks \in Nat \ {0} /\ MinTicks \div SecTicks \in Nat
  BY Minute
<1>1. ASSUME NEW r \in Requests, NEW l \in Limits, AllowCall(r, l) PROVE RateInv'
  <2> DEFINE c == [at |-> "lock", now |-> clock, limits |-> l, retry |-> 0]
  <2>1. /\ c \in Call /\ c.now = clock /\ c.limits = l
    BY <1>t, <1>0 DEF Call
  <2>2. call' = [call EXCEPT ![r] = c] /\ UNCHANGED <<sec, min, clock, served>>
    BY <1>1 DEF AllowCall
  <2> HIDE DEF c
  <2>3. RateTypeOK'
    BY <1>t, <2>1, <2>2 DEF RateTypeOK, Call
  <2>4. ASSUME NEW u \in Requests
        PROVE  call'[u].now <= clock' /\ (call'[u].at = "lock" => call'[u].limits \in Limits)
    <3>1. call'[u] = call[u] \/ call'[u] = c
      BY <1>t, <2>2
    <3> QED
      BY <1>t, <2>1, <2>2, <3>1 DEF Punctual
  <2> QED
    BY <2>2, <2>3, <2>4 DEF Punctual
<1>2. ASSUME NEW r \in Requests, RejectRPS(r) PROVE RateInv'
  <2> DEFINE t == call[r].now
             s == Advance(sec, t, SecTicks)
             n == RetryAfter(s, t, SecTicks)
             c == [Idle EXCEPT !.at = "limited", !.retry = n]
  <2>1. /\ call[r].at = "lock" /\ sec' = s /\ UNCHANGED <<min, clock, served>>
        /\ call' = [call EXCEPT ![r] = c]
    BY <1>2 DEF RejectRPS, Limited
  <2>2. t \in Nat /\ sec \in Window /\ min \in Window
    BY <2>1, AtLock
  <2>3. s \in Window /\ t - s.start < SecTicks
    BY <1>0, <2>2, Advanced
  <2>4. n \in 0..(MinTicks \div SecTicks)
    <3>1. n \in 1..(MinTicks \div SecTicks)
      BY <1>0, <2>2, <2>3, Advised
    <3> QED
      BY <1>0, <3>1
  <2>5. Leaves(sec, sec', t) /\ Leaves(min, min', t)
    BY <1>0, <2>1, <2>2, LeavesAdvanced
  <2> HIDE DEF t, s, n
  <2>6. c \in Call /\ c.at = "limited" /\ c.now = Start
    BY <2>4, LimitedCall
  <2> HIDE DEF c
  <2>7. served' \in [Ticks -> Nat] /\ clock' = clock /\ c.at # "lock"
    BY <1>t, <2>1, <2>6
  <2> QED
    BY <2>1, <2>5, <2>6, <2>7, LockStepInv DEF t
<1>3. ASSUME NEW r \in Requests, RejectRPM(r) PROVE RateInv'
  <2> DEFINE t == call[r].now
             s == IF call[r].limits[1] > 0 THEN Advance(sec, t, SecTicks) ELSE sec
             m == Advance(min, t, MinTicks)
             n == RetryAfter(m, t, MinTicks)
             c == [Idle EXCEPT !.at = "limited", !.retry = n]
  <2>1. /\ call[r].at = "lock" /\ sec' = s /\ min' = m /\ UNCHANGED <<clock, served>>
        /\ call' = [call EXCEPT ![r] = c]
    BY <1>3 DEF RejectRPM, Limited
  <2>2. t \in Nat /\ sec \in Window /\ min \in Window
    BY <2>1, AtLock
  <2>3. m \in Window /\ t - m.start < MinTicks
    BY <1>0, <2>2, Advanced
  <2>4. n \in 0..(MinTicks \div SecTicks)
    <3>1. n \in 1..(MinTicks \div SecTicks)
      BY <1>0, <2>2, <2>3, Advised
    <3> QED
      BY <1>0, <3>1
  <2>5. Leaves(sec, sec', t) /\ Leaves(min, min', t)
    BY <1>0, <2>1, <2>2, LeavesAdvanced
  <2> HIDE DEF t, s, m, n
  <2>6. c \in Call /\ c.at = "limited" /\ c.now = Start
    BY <2>4, LimitedCall
  <2> HIDE DEF c
  <2>7. served' \in [Ticks -> Nat] /\ clock' = clock /\ c.at # "lock"
    BY <1>t, <2>1, <2>6
  <2> QED
    BY <2>1, <2>5, <2>6, <2>7, LockStepInv DEF t
<1>4. ASSUME NEW r \in Requests, Admit(r) PROVE RateInv'
  <2> DEFINE t == call[r].now
             s == IF call[r].limits[1] > 0 THEN Advance(sec, t, SecTicks) ELSE sec
             m == IF call[r].limits[2] > 0 THEN Advance(min, t, MinTicks) ELSE min
  <2>1. /\ call[r].at = "lock" /\ UNCHANGED clock
        /\ sec' = (IF call[r].limits[1] > 0 THEN Count(s) ELSE s)
        /\ min' = (IF call[r].limits[2] > 0 THEN Count(m) ELSE m)
        /\ call' = [call EXCEPT ![r] = Idle]
        /\ served' = [u \in Ticks |-> IF u >= t THEN served[u] + 1 ELSE served[u]]
    BY <1>4 DEF Admit
  <2>2. t \in Nat /\ t \in Ticks /\ sec \in Window /\ min \in Window
    BY <2>1, AtLock
  <2>3. Leaves(sec, sec', t) /\ Leaves(min, min', t)
    BY <1>0, <2>1, <2>2, LeavesAdvanced
  <2> HIDE DEF t, s, m
  <2>4. served' \in [Ticks -> Nat]
    BY <1>t, <2>1, <2>2
  <2>5. Idle \in Call /\ Idle.at # "lock" /\ Idle.now = Start
    BY IdleCall
  <2> QED
    BY <2>1, <2>3, <2>4, <2>5, LockStepInv DEF t
<1>5. CASE TickClock
  <2>1. clock' = clock + 1 /\ clock' \in Ticks /\ UNCHANGED <<sec, min, call, served>>
    BY <1>5 DEF TickClock
  <2>2. RateTypeOK'
    BY <2>1 DEF RateTypeOK
  <2>3. /\ sec.start \in Nat /\ min.start \in Nat
        /\ \A u \in Requests : call[u].now \in Nat
    BY <1>t, TickType DEF RateTypeOK, Call
  <2> QED
    BY <1>t, <2>1, <2>2, <2>3 DEF Punctual
<1>6. CASE UNCHANGED rateVars
  BY <1>6 DEF rateVars, RateTypeOK, Punctual
<1> QED
  BY <1>1, <1>2, <1>3, <1>4, <1>5, <1>6 DEF RateNext

(* No call has entered the lock yet.                                       *)
LEMMA RateInitInv == RateInit => RateInv
<1> SUFFICES ASSUME RateInit PROVE RateInv
  OBVIOUS
<1>1. RateTypeOK
  BY TickType, IdleCall, Minute DEF RateInit, RateTypeOK, NewWindow, Call
<1>2. NewWindow.start = 0 /\ Start \in Nat
  BY TickType DEF NewWindow
<1>3. ASSUME NEW u \in Requests PROVE call[u] = Idle
  BY DEF RateInit
<1>4. sec.start = 0 /\ min.start = 0 /\ clock = Start
  BY <1>2 DEF RateInit
<1>5. Punctual
  BY <1>2, <1>3, <1>4, IdleCall DEF Punctual
<1> QED
  BY <1>1, <1>5 DEF RateInv

(* The types and the order of clock readings hold throughout.              *)
THEOREM RateInvariant == RateSpec => []RateInv
<1>1. RateInit => RateInv
  BY RateInitInv
<1>2. RateInv /\ [RateNext]_rateVars => RateInv'
  BY RateStepInv
<1> QED
  BY <1>1, <1>2, PTL DEF RateSpec

(* The windows, the clock readings and the advice to clients keep their    *)
(* types: Retry-After is never more than a minute and a window never       *)
(* starts before time zero, however the calls overtake each other.         *)
THEOREM RateIsTyped == RateSpec => []RateTypeOK
BY RateInvariant, PTL DEF RateInv

-----------------------------------------------------------------------------
(* No window counts more than the largest limit a request carried.         *)
Counts(w, limit) == w.curr <= limit /\ w.prev <= limit

CountInv == RateInv /\ Counts(sec, MaxRPS) /\ Counts(min, MaxRPM)

(* The largest limits, where there are any.                                *)
Bounded ==
  /\ \E n \in {l[1] : l \in Limits} : \A l \in Limits : l[1] <= n
  /\ \E n \in {l[2] : l \in Limits} : \A l \in Limits : l[2] <= n

(* They are limits that some request carries.                              *)
LEMMA Maxima ==
  ASSUME Bounded
  PROVE  /\ MaxRPS \in {l[1] : l \in Limits} /\ \A l \in Limits : l[1] <= MaxRPS
         /\ MaxRPM \in {l[2] : l \in Limits} /\ \A l \in Limits : l[2] <= MaxRPM
         /\ MaxRPS \in Nat /\ MaxRPM \in Nat
<1>1. MaxRPS \in {l[1] : l \in Limits} /\ \A l \in Limits : l[1] <= MaxRPS
  BY DEF Bounded, MaxRPS
<1>2. MaxRPM \in {l[2] : l \in Limits} /\ \A l \in Limits : l[2] <= MaxRPM
  BY DEF Bounded, MaxRPM
<1>3. \A l \in Limits : l[1] \in Nat /\ l[2] \in Nat
  BY RateAssumption
<1> QED
  BY <1>1, <1>2, <1>3

(* Looking at a window keeps its counts within the limit; so does counting *)
(* a call that passed.                                                     *)
LEMMA CountsKept ==
  ASSUME NEW w \in Window, NEW t \in Nat, NEW W \in Nat \ {0},
         NEW most \in Nat, Counts(w, most), NEW limit \in Nat, limit <= most
  PROVE  /\ Counts(Advance(w, t, W), most)
         /\ Estimate(Advance(w, t, W), t, W) + 1 <= limit => Counts(Count(Advance(w, t, W)), most)
<1> DEFINE s == Advance(w, t, W)
           e == Estimate(s, t, W)
<1>1. /\ s \in Window /\ t - s.start < W
      /\ s.curr \in {w.curr, 0} /\ s.prev \in {w.prev, w.curr, 0}
  BY Advanced
<1>2. s.curr <= most /\ s.prev <= most
  BY <1>1 DEF Counts
<1> HIDE DEF s
<1>3. e \in Nat /\ e >= s.curr
  BY <1>1, Estimated
<1>4. s.curr \in Nat /\ Count(s).curr = s.curr + 1 /\ Count(s).prev = s.prev
  BY <1>1 DEF Window, Count
<1> HIDE DEF e
<1>5. Counts(s, most)
  BY <1>2 DEF Counts
<1>6. e + 1 <= limit => Counts(Count(s), most)
  BY <1>2, <1>3, <1>4 DEF Counts
<1> QED
  BY <1>5, <1>6 DEF s, e

(* Every step keeps the counts within the limits.                         *)
LEMMA CountStepInv ==
  ASSUME Bounded, CountInv, [RateNext]_rateVars
  PROVE  CountInv'
<1>0. RateInv /\ RateInv' /\ Counts(sec, MaxRPS) /\ Counts(min, MaxRPM)
  BY RateStepInv DEF CountInv
<1>m. SecTicks \in Nat \ {0} /\ MinTicks \in Nat \ {0} /\ MaxRPS \in Nat /\ MaxRPM \in Nat
  BY Minute, Maxima
<1>l. ASSUME NEW r \in Requests, call[r].at = "lock"
      PROVE  /\ call[r].now \in Nat /\ sec \in Window /\ min \in Window
             /\ call[r].limits[1] \in Nat /\ call[r].limits[1] <= MaxRPS
             /\ call[r].limits[2] \in Nat /\ call[r].limits[2] <= MaxRPM
  BY <1>0, <1>l, AtLock, Maxima
<1>1. ASSUME NEW r \in Requests, RejectRPS(r) \/ RejectRPM(r)
      PROVE  Counts(sec', MaxRPS) /\ Counts(min', MaxRPM)
  <2>1. /\ call[r].at = "lock"
        /\ sec' = sec \/ sec' = Advance(sec, call[r].now, SecTicks)
        /\ min' = min \/ min' = Advance(min, call[r].now, MinTicks)
    BY <1>1 DEF RejectRPS, RejectRPM
  <2> QED
    BY <1>0, <1>l, <1>m, <2>1, CountsKept
<1>2. ASSUME NEW r \in Requests, Admit(r)
      PROVE  Counts(sec', MaxRPS) /\ Counts(min', MaxRPM)
  <2>1. /\ call[r].at = "lock"
        /\ \/ sec' = sec
           \/ /\ Estimate(Advance(sec, call[r].now, SecTicks), call[r].now, SecTicks) + 1
                    <= call[r].limits[1]
              /\ sec' = Count(Advance(sec, call[r].now, SecTicks))
        /\ \/ min' = min
           \/ /\ Estimate(Advance(min, call[r].now, MinTicks), call[r].now, MinTicks) + 1
                    <= call[r].limits[2]
              /\ min' = Count(Advance(min, call[r].now, MinTicks))
    BY <1>2 DEF Admit, RPSPasses
  <2> QED
    BY <1>0, <1>l, <1>m, <2>1, CountsKept
<1>3. CASE TickClock \/ (\E r \in Requests, l \in Limits : AllowCall(r, l)) \/ UNCHANGED rateVars
  <2>1. sec' = sec /\ min' = min
    BY <1>3 DEF TickClock, AllowCall, rateVars
  <2> QED
    BY <1>0, <2>1 DEF CountInv
<1> QED
  BY <1>0, <1>1, <1>2, <1>3 DEF CountInv, RateNext

(* No window ever counts more than the largest limit.                      *)
THEOREM CountInvariant == ASSUME Bounded PROVE RateSpec => []CountInv
<1>1. RateInit => CountInv
  <2> SUFFICES ASSUME RateInit PROVE CountInv
    OBVIOUS
  <2>1. sec = NewWindow /\ min = NewWindow /\ NewWindow.curr = 0 /\ NewWindow.prev = 0
    BY DEF RateInit, NewWindow
  <2>2. Counts(sec, MaxRPS) /\ Counts(min, MaxRPM)
    BY <2>1, Maxima DEF Counts
  <2> QED
    BY <2>2, RateInitInv DEF CountInv
<1>2. CountInv /\ [RateNext]_rateVars => CountInv'
  BY CountStepInv
<1> QED
  BY <1>1, <1>2, PTL DEF RateSpec

(* A window never counts more calls than the largest limit any request     *)
(* carried, in whatever order calls that read the clock early enter the    *)
(* critical section.  Bounded: there is a largest limit.                   *)
THEOREM WindowsHold == ASSUME Bounded PROVE RateSpec => []WindowsWithinLimit
<1>1. CountInv => WindowsWithinLimit
  BY DEF CountInv, Counts, WindowsWithinLimit
<1> QED
  BY <1>1, CountInvariant, PTL

-----------------------------------------------------------------------------
(* Retry-After, for limits nobody changes.                                 *)
(* The wait ends after the window that rejected the call; a second that    *)
(* was passed had room for one more.                                       *)
LEMMA AdviceSuffices ==
  ASSUME CountInv, Bounded, \A l, m \in Limits : l = m, [RateNext]_rateVars,
         NEW r \in Requests, RejectRPS(r) \/ RejectRPM(r),
         NEW t, t = clock + call'[r].retry * SecTicks
  PROVE  /\ Allows(sec', t, SecTicks, call[r].limits[1])
         /\ RejectRPM(r) /\ clock # min'.start => Allows(min', t, MinTicks, call[r].limits[2])
<1> DEFINE now == call[r].now
           first == call[r].limits[1]
           second == call[r].limits[2]
           retry == call'[r].retry
<1>0. RateInv /\ CountInv'
  BY CountStepInv DEF CountInv
<1>1. /\ call[r].at = "lock" /\ now \in Nat /\ now <= clock /\ clock \in Nat
      /\ sec \in Window /\ min \in Window
      /\ call[r].limits \in Limits /\ first \in Nat /\ second \in Nat
  BY <1>0, AtLock DEF RejectRPS, RejectRPM
<1>2. MaxRPS = first /\ MaxRPM = second
  BY <1>1, Maxima
<1>3. SecTicks \in Nat \ {0} /\ MinTicks \in Nat \ {0} /\ MinTicks >= 2 * SecTicks
  BY RateAssumption
<1>4. /\ sec' \in Window /\ sec'.start <= clock /\ sec'.curr <= first
      /\ min' \in Window /\ min'.start <= clock /\ min'.curr <= second
      /\ clock' = clock
  BY <1>0, <1>2 DEF CountInv, Counts, RateInv, RateTypeOK, Punctual, Window, RejectRPS, RejectRPM
<1>5. call \in [Requests -> Call]
  BY <1>0 DEF RateInv, RateTypeOK, Call
<1>6. ASSUME RejectRPS(r)
      PROVE  /\ first > 0 /\ now - sec'.start < SecTicks
             /\ retry = RetryAfter(sec', now, SecTicks)
  BY <1>1, <1>3, <1>5, <1>6, Advanced DEF RejectRPS, Limited, Idle
<1>7. ASSUME RejectRPM(r)
      PROVE  /\ now - min'.start < MinTicks
             /\ retry = RetryAfter(min', now, MinTicks)
  BY <1>1, <1>3, <1>5, <1>7, Advanced DEF RejectRPM, Limited, Idle
<1>8. ASSUME RejectRPM(r), first > 0
      PROVE  sec'.curr < first
  <2>1. /\ sec' = Advance(sec, now, SecTicks)
        /\ Estimate(sec', now, SecTicks) + 1 <= first
    BY <1>8 DEF RejectRPM, RPSPasses
  <2>2. Estimate(sec', now, SecTicks) \in Nat /\ Estimate(sec', now, SecTicks) >= sec'.curr
    BY <1>1, <1>3, <1>4, <2>1, Advanced, Estimated
  <2>3. sec'.curr \in Nat
    BY <1>4 DEF Window
  <2> QED
    BY <1>1, <2>1, <2>2, <2>3
<1> HIDE DEF now, first, second, retry
<1>9. t = clock + retry * SecTicks
  BY DEF retry
<1> DEFINE wait == retry * SecTicks
<1>10. ASSUME RejectRPS(r) PROVE Allows(sec', t, SecTicks, first)
  <2>1. /\ retry \in 1..(MinTicks \div SecTicks)
        /\ wait > SecTicks - (now - sec'.start) \/ wait = MinTicks
    BY <1>1, <1>3, <1>4, <1>6, <1>10, Advised
  <2>2. wait \in Nat /\ t = clock + wait
    BY <1>1, <1>3, <1>9, <2>1, Minute
  <2> HIDE DEF wait
  <2>3. t \in Nat /\ t - sec'.start > SecTicks /\ t - sec'.start >= SecTicks
    BY <1>1, <1>3, <1>4, <2>1, <2>2 DEF Window
  <2> QED
    BY <1>1, <1>3, <1>4, <2>3, Waited
<1>11. ASSUME RejectRPM(r)
       PROVE  /\ Allows(sec', t, SecTicks, first)
              /\ clock # min'.start => Allows(min', t, MinTicks, second)
  <2>0. /\ now - min'.start < MinTicks /\ retry = RetryAfter(min', now, MinTicks)
        /\ min' \in Window /\ now \in Nat /\ MinTicks \in Nat
    BY <1>1, <1>3, <1>4, <1>7, <1>11
  <2>1. /\ retry \in 1..(MinTicks \div SecTicks)
        /\ wait > MinTicks - (now - min'.start) \/ wait = MinTicks
    BY <2>0, Advised
  <2>2. wait \in Nat /\ t = clock + wait /\ wait >= SecTicks
    <3>1. retry \in Nat /\ retry >= 1
      BY <2>1, Minute
    <3> QED
      BY <1>1, <1>3, <1>9, <3>1
  <2> HIDE DEF wait
  <2>3. /\ t \in Nat /\ t - sec'.start >= SecTicks
        /\ clock # min'.start => t - min'.start > MinTicks /\ t - min'.start >= MinTicks
    BY <1>1, <1>3, <1>4, <2>1, <2>2 DEF Window
  <2>4. Allows(sec', t, SecTicks, first)
    <3>1. CASE first > 0
      BY <1>1, <1>3, <1>4, <1>8, <1>11, <2>3, <3>1, Waited
    <3>2. CASE ~(first > 0)
      BY <3>2 DEF Allows
    <3> QED
      BY <3>1, <3>2
  <2>5. ASSUME clock # min'.start PROVE Allows(min', t, MinTicks, second)
    BY <1>1, <1>3, <1>4, <2>3, <2>5, Waited
  <2> QED
    BY <2>4, <2>5
<1> QED
  BY <1>10, <1>11 DEF first, second

(* A client that waits as long as Retry-After told it is let in by the     *)
(* window that rejected it, for any limits, window lengths and delays at   *)
(* the lock, except when a minute is full at its first tick.  The limits   *)
(* are the same for all requests, or a later PATCH would void the advice.  *)
THEOREM AdviceIsEnough ==
  ASSUME \A l, m \in Limits : l = m
  PROVE  RateSpec => RetryAfterSuffices
<1> DEFINE Enough ==
      \A r \in Requests :
        LET limits == call[r].limits
            t == clock + call'[r].retry * SecTicks
        IN
        /\ RejectRPS(r) \/ RejectRPM(r) => Allows(sec', t, SecTicks, limits[1])
        /\ RejectRPM(r) /\ clock # min'.start => Allows(min', t, MinTicks, limits[2])
<1>1. CASE Bounded
  <2>1. CountInv /\ [RateNext]_rateVars => Enough
    BY <1>1, AdviceSuffices
  <2> QED
    BY <1>1, <2>1, CountInvariant, PTL DEF RateSpec, RetryAfterSuffices
<1>2. CASE ~Bounded
  <2>1. ASSUME NEW l \in Limits PROVE FALSE
    <3>1. l[1] \in Nat /\ l[2] \in Nat
      BY RateAssumption
    <3>2. \A m \in Limits : m[1] <= l[1] /\ m[2] <= l[2]
      BY <3>1
    <3> QED
      BY <1>2, <3>2 DEF Bounded
  <2>2. RateInv => Enough
    BY <2>1 DEF RateInv, Punctual, RejectRPS, RejectRPM
  <2> QED
    BY <2>2, RateInvariant, PTL DEF RateSpec, RetryAfterSuffices
<1> QED
  BY <1>1, <1>2

-----------------------------------------------------------------------------
(* What a stretch of time serves, for limits nobody changes.  f is the     *)
(* number of calls allowed up to a time, for every time.                   *)
End == Start + Span

Allowed ==
  [u \in Int |-> IF u < Start THEN 0 ELSE IF u <= End THEN served[u] ELSE served[End]]

History(f) ==
  /\ f \in [Int -> Nat]
  /\ \A u, v \in Int : u <= v => f[u] <= f[v]
  /\ \A u \in Int : f[u] <= f[End]

(* One more call, with the clock reading t.                                *)
OneMore(f, g, t) ==
  g \in [Int -> Nat] /\ \A u \in Int : g[u] = IF u >= t THEN f[u] + 1 ELSE f[u]

(* A window counts every call since its start in curr, every call of the   *)
(* window before in prev or curr, and nothing is read past its end.  Calls *)
(* that were overtaken make the counters larger than the history.          *)
Covers(w, W, f) ==
  /\ w.start % W = 0
  /\ f[End] - f[(w.start - W) - 1] <= w.prev + w.curr
  /\ f[End] - f[w.start - 1] <= w.curr
  /\ f[End] = f[(w.start + W) - 1]

Smooth(x, W, limit, f) ==
  LET e == x % W
      n == f[x] - f[x - W]
  IN
  /\ e + 1 = W => n <= limit
  /\ e + MaxDelay < W => W * (n - limit) <= limit * e + (W - 1)
  /\ n <= 2 * limit

Slides(w, W, limit, f) ==
  limit > 0 => Covers(w, W, f) /\ \A x \in Int : Smooth(x, W, limit, f)

SlideInv ==
  /\ CountInv /\ History(Allowed)
  /\ \A r \in Requests : call[r].at = "lock" => clock - call[r].now <= MaxDelay
  /\ Slides(sec, SecTicks, MaxRPS, Allowed)
  /\ Slides(min, MinTicks, MaxRPM, Allowed)
(* Multiplying by a length keeps the order.                                *)
LEMMA Times ==
  ASSUME NEW W \in Nat \ {0}, NEW i \in Int, NEW j \in Int
  PROVE  (i <= j <=> W * i <= W * j) /\ W * i \in Int
OBVIOUS

(* Division with remainder is the only way to write a number so.           *)
LEMMA Divided ==
  ASSUME NEW W \in Nat \ {0}, NEW x \in Int, NEW q \in Int, NEW r \in 0..(W - 1), x = W * q + r
  PROVE  x \div W = q /\ x % W = r
<1> DEFINE d == x \div W
<1>1. d \in Int /\ W * d <= x /\ x < W * (d + 1) /\ x % W = x - W * d
  <2>1. x % W = x - W * d
    BY SMT
  <2> QED
    BY <2>1, DivMod
<1> HIDE DEF d
<1>2. W * (q + 1) = W * q + W /\ W * (d + 1) = W * d + W
  BY <1>1
<1>3. W * q <= x /\ x < W * (q + 1) /\ W * q \in Int
  BY <1>2, Times
<1>4. q <= d
  <2>1. ~(d + 1 <= q)
    <3>1. ~(W * (d + 1) <= W * q)
      BY <1>1, <1>3, Times
    <3> QED
      BY <1>1, <3>1, Times
  <2> QED
    BY <1>1, <2>1
<1>5. d <= q
  <2>1. ~(q + 1 <= d)
    <3>1. ~(W * (q + 1) <= W * d)
      BY <1>1, <1>3, Times
    <3> QED
      BY <1>1, <3>1, Times
  <2> QED
    BY <1>1, <2>1
<1>6. d = q
  BY <1>1, <1>4, <1>5
<1> QED
  BY <1>1, <1>3, <1>6 DEF d

(* Where a time lies in its window.                                        *)
LEMMA Aligned ==
  ASSUME NEW W \in Nat \ {0}, NEW x \in Int
  PROVE  /\ x % W \in 0..(W - 1)
         /\ (x - (x % W)) % W = 0
         /\ ((x - (x % W)) - 1) % W = W - 1
<1> DEFINE d == x \div W  r == x % W
<1>1. d \in Int /\ r \in 0..(W - 1)
  BY DivMod
<1>2. r = x - W * d
  BY SMT
<1> HIDE DEF d, r
<1> DEFINE b == x - r  c == b - 1
<1>3. b \in Int /\ b = W * d + 0 /\ 0 \in 0..(W - 1)
  BY <1>1, <1>2, Times
<1>4. c \in Int /\ c = W * (d - 1) + (W - 1) /\ d - 1 \in Int /\ W - 1 \in 0..(W - 1)
  <2>1. W * (d - 1) = W * d - W
    BY <1>1
  <2> QED
    BY <1>1, <1>3, <2>1, Times
<1> HIDE DEF b, c
<1>5. b % W = 0
  BY <1>1, <1>3, Divided
<1>6. c % W = W - 1
  <2> DEFINE e == d - 1
  <2>1. e \in Int /\ c = W * e + (W - 1)
    BY <1>4
  <2> HIDE DEF e
  <2> QED
    BY <1>4, <2>1, Divided
<1> QED
  BY <1>1, <1>5, <1>6 DEF b, c, r

(* Different windows lie at least a window apart.                          *)
LEMMA Apart ==
  ASSUME NEW W \in Nat \ {0}, NEW a \in Int, NEW b \in Int, a % W = 0, b % W = 0, a < b
  PROVE  a + W <= b
<1> DEFINE i == a \div W  j == b \div W
<1>1. i \in Int /\ j \in Int
  BY DivMod
<1>2. a = W * i /\ b = W * j
  <2>1. a % W = a - W * i /\ b % W = b - W * j
    BY SMT
  <2> QED
    BY <1>1, <2>1, Times
<1> HIDE DEF i, j
<1>3. ~(W * j <= W * i)
  BY <1>1, <1>2, Times
<1>4. i + 1 <= j
  BY <1>1, <1>3, Times
<1>5. W * (i + 1) <= W * j /\ W * (i + 1) = W * i + W
  BY <1>1, <1>4, Times
<1> QED
  BY <1>2, <1>5

(* A window later is aligned as well.                                      *)
LEMMA NextAligned ==
  ASSUME NEW W \in Nat \ {0}, NEW b \in Int, b % W = 0
  PROVE  b + W \in Int /\ (b + W) % W = 0
<1> DEFINE i == b \div W  j == i + 1  c == b + W
<1>1. i \in Int /\ b = W * i
  <2>1. b % W = b - W * i
    BY SMT
  <2> QED
    BY <2>1, DivMod, Times
<1> HIDE DEF i
<1>2. j \in Int /\ c \in Int /\ c = W * j + 0 /\ 0 \in 0..(W - 1)
  BY <1>1
<1> HIDE DEF j, c
<1>3. c % W = 0
  BY <1>2, Divided
<1> QED
  BY <1>3 DEF c

(* A window moves by whole windows.                                        *)
LEMMA MovesOn ==
  ASSUME NEW S \in Int, NEW t \in Int, NEW W \in Nat \ {0}, S % W = 0, t - S >= W
  PROVE  LET T == t - ((t - S) % W) IN
         /\ T \in Int /\ T % W = 0 /\ T <= t
         /\ (t - S) \div W = 1 => T = S + W
         /\ (t - S) \div W # 1 => T >= S + 2 * W
<1> DEFINE x == t - S  q == x \div W  r == x % W  i == S \div W  T == t - r
<1>1. x \in Int /\ q \in Int /\ r \in 0..(W - 1) /\ q >= 1 /\ i \in Int
  BY DivMod
<1>2. S = W * i /\ r = x - W * q
  <2>1. S % W = S - W * i /\ r = x - W * q
    BY SMT
  <2> QED
    BY <1>1, <2>1, Times
<1>3. x = t - S
  OBVIOUS
<1> HIDE DEF x, q, r, i
<1>4. T = S + W * q /\ W * q \in Int
  BY <1>1, <1>2, <1>3, Times
<1>5. T % W = 0
  <2> DEFINE k == i + q
  <2>1. k \in Int /\ T = W * k + 0 /\ T \in Int /\ 0 \in 0..(W - 1)
    <3>1. W * (i + q) = W * i + W * q
      BY <1>1
    <3> QED
      BY <1>1, <1>2, <1>4, <3>1
  <2> HIDE DEF k, T
  <2> QED
    BY <2>1, Divided
<1>6. q = 1 => T = S + W
  BY <1>4
<1>7. q # 1 => T >= S + 2 * W
  <2>1. q # 1 => 2 <= q
    BY <1>1
  <2>2. q # 1 => W * 2 <= W * q
    BY <1>1, <2>1, Times
  <2> QED
    BY <1>4, <2>2
<1>8. T \in Int /\ T <= t
  BY <1>1
<1> QED
  BY <1>5, <1>6, <1>7, <1>8 DEF q, r, x

(* Moving a window on does not lose calls.                                 *)
LEMMA CoversAdvanced ==
  ASSUME NEW w \in Window, NEW t \in Nat, NEW W \in Nat \ {0}, NEW f,
         History(f), Covers(w, W, f)
  PROVE  Covers(Advance(w, t, W), W, f)
<1> DEFINE S == w.start  x == t - S  T == t - (x % W)
<1>1. S \in Nat /\ w.prev \in Nat /\ w.curr \in Nat /\ End \in Int
  BY RateAssumption DEF Window, End, Start
<1>2. /\ \A u, v \in Int : u <= v => f[u] <= f[v]
      /\ \A u \in Int : f[u] <= f[End]
      /\ \A u \in Int : f[u] \in Nat
  BY DEF History
<1>3. CASE ~(x >= W)
  BY <1>3 DEF Advance
<1>4. CASE x >= W
  <2> DEFINE prev == IF x \div W = 1 THEN w.curr ELSE 0
             s == [start |-> T, prev |-> prev, curr |-> 0]
  <2>1. Advance(w, t, W) = s
    BY <1>4 DEF Advance
  <2>2. /\ T \in Int /\ T % W = 0
        /\ x \div W = 1 => T = S + W
        /\ x \div W # 1 => T >= S + 2 * W
    <3>1. S \in Int /\ t \in Int /\ S % W = 0 /\ t - S >= W
      BY <1>1, <1>4 DEF Covers
    <3> QED
      BY <3>1, MovesOn
  <2>3. f[End] - f[S - 1] <= w.curr /\ f[End] = f[(S + W) - 1]
    BY DEF Covers
  <2> DEFINE a == (T - W) - 1  b == T - 1  c == (T + W) - 1  d == (S + W) - 1
  <2>4. a \in Int /\ b \in Int /\ c \in Int /\ d \in Int /\ d <= b /\ d <= c
    BY <1>1, <2>2
  <2>5. x \div W = 1 => a = S - 1 /\ prev = w.curr
    BY <1>1, <2>2
  <2>6. x \div W # 1 => d <= a /\ prev = 0
    BY <1>1, <2>2
  <2>7. f[End] = f[d]
    BY <2>3
  <2> HIDE DEF a, b, c, d, prev, T, x
  <2>8. f[End] - f[b] <= 0 /\ f[End] = f[c]
    <3>1. f[d] <= f[b] /\ f[d] <= f[c] /\ f[b] <= f[End] /\ f[c] <= f[End]
      BY <1>2, <2>4
    <3>2. f[b] \in Nat /\ f[c] \in Nat /\ f[d] \in Nat /\ f[End] \in Nat
      BY <1>1, <1>2, <2>4
    <3> QED
      BY <2>7, <3>1, <3>2
  <2>9. f[End] - f[a] <= prev
    <3>1. CASE x \div W = 1
      BY <2>3, <2>5, <3>1
    <3>2. CASE x \div W # 1
      <4>1. f[d] <= f[a] /\ f[a] <= f[End] /\ f[a] \in Nat /\ f[d] \in Nat /\ prev = 0
        BY <1>2, <2>4, <2>6, <3>2
      <4> QED
        BY <2>7, <4>1
    <3> QED
      BY <3>1, <3>2
  <2>10. prev + 0 = prev
    BY <1>1 DEF prev
  <2>11. s.start = T /\ s.prev = prev /\ s.curr = 0
    OBVIOUS
  <2> HIDE DEF s
  <2> QED
    BY <2>1, <2>2, <2>8, <2>9, <2>10, <2>11 DEF Covers, a, b, c
<1> QED
  BY <1>3, <1>4
(* Counting a call that was let in keeps up with the history.              *)
LEMMA CoversCounted ==
  ASSUME NEW w \in Window, NEW t \in Nat, NEW W \in Nat \ {0}, NEW f, NEW g,
         History(f), OneMore(f, g, t), t <= End, t - w.start < W, Covers(w, W, f)
  PROVE  Covers(Count(w), W, g)
<1> DEFINE S == w.start  a == (S - W) - 1  b == S - 1  c == (S + W) - 1
           s == Count(w)
<1>1. S \in Nat /\ w.prev \in Nat /\ w.curr \in Nat /\ End \in Int
  BY RateAssumption DEF Window, End, Start
<1>2. s.start = S /\ s.prev = w.prev /\ s.curr = w.curr + 1
  BY DEF Count
<1>3. a \in Int /\ b \in Int /\ c \in Int /\ c >= t
  BY <1>1
<1>4. f[a] \in Nat /\ f[b] \in Nat /\ f[c] \in Nat /\ f[End] \in Nat
  BY <1>1, <1>3 DEF History
<1>5. /\ g[End] = f[End] + 1 /\ g[c] = f[c] + 1
      /\ g[a] \in {f[a], f[a] + 1} /\ g[b] \in {f[b], f[b] + 1}
  BY <1>1, <1>3 DEF OneMore
<1>6. S % W = 0 /\ f[End] - f[a] <= w.prev + w.curr /\ f[End] - f[b] <= w.curr /\ f[End] = f[c]
  BY DEF Covers
<1> HIDE DEF a, b, c, s
<1>7. /\ g[End] - g[a] <= w.prev + (w.curr + 1)
      /\ g[End] - g[b] <= w.curr + 1
      /\ g[End] = g[c]
  BY <1>1, <1>4, <1>5, <1>6
<1> QED
  BY <1>2, <1>6, <1>7 DEF Covers, a, b, c, s

(* What the estimate says about the counters of a window that lets a call  *)
(* in.                                                                     *)
LEMMA LetIn ==
  ASSUME NEW w \in Window, NEW t \in Nat, NEW W \in Nat \ {0}, t - w.start < W,
         NEW limit \in Nat, Estimate(w, t, W) + 1 <= limit
  PROVE  /\ w.curr + 1 <= limit
         /\ t < w.start => (w.prev + w.curr) + 1 <= limit
         /\ t >= w.start =>
              W * (((w.prev + w.curr) + 1) - limit) <= w.prev * (t - w.start) + (W - 1)
<1> DEFINE p == w.prev  c == w.curr  y == t - w.start  k == W - y  e == (p * k) \div W
<1>1. p \in Nat /\ c \in Nat /\ y \in Int /\ k \in Nat /\ k = W - y
  BY DEF Window
<1>2. Estimate(w, t, W) = e + c
  BY DEF Estimate
<1>3. y = t - w.start /\ w.start \in Nat
  BY DEF Window
<1> HIDE DEF p, c, y, k
<1>4. p * k \in Nat /\ e \in Nat
  <2>1. p * k \in Nat
    BY <1>1
  <2>2. (p * k) \div W \in Nat
    BY <1>1, Weighted
  <2> QED
    BY <2>1, <2>2
<1>5. p * k < W * (e + 1)
  <2> DEFINE v == p * k
  <2>1. v \in Int /\ e = v \div W
    BY <1>4
  <2> HIDE DEF v
  <2>2. v < W * ((v \div W) + 1)
    BY <2>1, DivMod
  <2> QED
    BY <2>1, <2>2 DEF v
<1> HIDE DEF e
<1>6. (e + c) + 1 <= limit
  BY <1>2
<1>7. t < w.start => (p + c) + 1 <= limit
  <2>1. t < w.start => k >= W
    BY <1>1, <1>3
  <2>2. k >= W => W * p <= p * k
    BY <1>1
  <2>3. ~(W * (e + 1) <= W * p) => ~(e + 1 <= p)
    BY <1>1, <1>4, Times
  <2>4. W * p \in Int /\ W * (e + 1) \in Int
    BY <1>1, <1>4
  <2>5. k >= W => p <= e
    <3>1. k >= W => ~(W * (e + 1) <= W * p)
      BY <1>4, <1>5, <2>2, <2>4
    <3> QED
      BY <1>1, <1>4, <2>3, <3>1
  <2> QED
    BY <1>1, <1>4, <1>6, <2>1, <2>5
<1>8. W * (((p + c) + 1) - limit) <= p * y + (W - 1)
  <2> DEFINE m == limit - c
  <2>1. m \in Int /\ e + 1 <= m
    BY <1>1, <1>4, <1>6
  <2> HIDE DEF m
  <2>2. W * (e + 1) <= W * m /\ W * m \in Int
    BY <1>4, <2>1, Times
  <2>3. p * k = W * p - p * y /\ W * p \in Int /\ p * y \in Int
    BY <1>1
  <2>4. W * p - p * y <= W * m - 1
    BY <1>4, <1>5, <2>2, <2>3
  <2>5. W * (((p + c) + 1) - limit) = W * p - W * m + W
    <3>1. ((p + c) + 1) - limit = (p - m) + 1
      BY <1>1 DEF m
    <3>2. W * ((p - m) + 1) = (W * p - W * m) + W
      BY <1>1, <2>1
    <3> QED
      BY <2>2, <2>3, <3>1, <3>2
  <2> QED
    BY <2>2, <2>3, <2>4, <2>5
<1> QED
  BY <1>1, <1>4, <1>6, <1>7, <1>8 DEF p, c, y

(* The three bounds on a stretch that ends e ticks into a window, once it  *)
(* serves no more than n calls.                                            *)
LEMMA Within ==
  ASSUME NEW W \in Nat \ {0}, NEW e \in 0..(W - 1), NEW limit \in Nat,
         NEW n \in Int, n <= limit
  PROVE  n <= limit /\ W * (n - limit) <= limit * e + (W - 1) /\ n <= 2 * limit
<1> DEFINE m == n - limit
<1>1. m \in Int /\ m <= 0
  OBVIOUS
<1> HIDE DEF m
<1>2. W * m <= W * 0 /\ W * 0 = 0
  BY <1>1, Times
<1>3. limit * e \in Nat
  OBVIOUS
<1>4. W * m \in Int
  BY <1>1
<1> QED
  BY <1>2, <1>3, <1>4 DEF m
(* The clock has an end, and a call may wait so long.                      *)
LEMMA EndType == End \in Int /\ MaxDelay \in Nat
BY RateAssumption DEF End, Start

(* The counters bound the stretch that ends at x, on which a call let in   *)
(* at t falls, by where the window starts: S the start of w, B of the      *)
(* window of x, n the calls of the stretch before this one.                *)
LEMMA StretchWithin ==
  ASSUME NEW w \in Window, NEW W \in Nat \ {0}, NEW f, History(f), Covers(w, W, f),
         NEW t \in Nat, t - w.start < W, w.start - t <= MaxDelay, MaxDelay <= W,
         NEW limit \in Nat, w.prev <= limit, Estimate(w, t, W) + 1 <= limit,
         NEW x \in Int, x - W < t, t <= x,
         \A y \in Int : Smooth(y, W, limit, f),
         NEW e, e = x % W, NEW n, n = f[x] - f[x - W] + 1
  PROVE  /\ e + 1 = W => n <= limit
         /\ e + MaxDelay < W => W * (n - limit) <= limit * e + (W - 1)
         /\ n <= 2 * limit
<1> DEFINE S == w.start  B == x - e  z == x - W  a == (S - W) - 1  b == S - 1  c == (S + W) - 1
<1>1. S \in Nat /\ w.prev \in Nat /\ w.curr \in Nat /\ End \in Int /\ MaxDelay \in Nat
  <2>1. S \in Nat /\ w.prev \in Nat /\ w.curr \in Nat
    BY DEF Window
  <2> QED
    BY <2>1, EndType
<1>2. e \in 0..(W - 1) /\ B % W = 0 /\ (B - 1) % W = W - 1 /\ B \in Int /\ x = B + e
  <2>1. /\ x % W \in 0..(W - 1)
        /\ (x - (x % W)) % W = 0
        /\ ((x - (x % W)) - 1) % W = W - 1
    BY Aligned, Zenon
  <2>2. e \in 0..(W - 1) /\ B % W = 0 /\ (B - 1) % W = W - 1
    BY <2>1, Zenon
  <2> QED
    BY <2>2
<1>3. /\ \A u, v \in Int : u <= v => f[u] <= f[v]
      /\ \A u \in Int : f[u] \in Nat /\ f[u] <= f[End]
  BY DEF History
<1>4. S % W = 0 /\ f[End] - f[a] <= w.prev + w.curr /\ f[End] - f[b] <= w.curr /\ f[End] = f[c]
  BY DEF Covers
<1>5. /\ w.curr + 1 <= limit
      /\ t < S => (w.prev + w.curr) + 1 <= limit
      /\ t >= S => W * (((w.prev + w.curr) + 1) - limit) <= w.prev * (t - S) + (W - 1)
  BY LetIn
<1>6. z \in Int /\ a \in Int /\ b \in Int /\ c \in Int /\ B - 1 \in Int
  BY <1>1, <1>2
<1>7. f[x] \in Nat /\ f[z] \in Nat /\ f[a] \in Nat /\ f[b] \in Nat /\ f[c] \in Nat /\ f[End] \in Nat
  BY <1>1, <1>3, <1>6
<1>8. n = (f[x] - f[z]) + 1 /\ n \in Int /\ f[x] <= f[End]
  BY <1>3, <1>7
<1>9. z = x - W /\ a = (S - W) - 1 /\ b = S - 1 /\ c = (S + W) - 1
  OBVIOUS
<1>10. S < B => S + W <= B
  BY <1>1, <1>2, <1>4, Apart
<1>11. B < S => B + W <= S
  BY <1>1, <1>2, <1>4, Apart
<1>12. t - S < W /\ S - t <= MaxDelay /\ z < t
  OBVIOUS
<1> HIDE DEF S, B, z, a, b, c
<1>13. ASSUME n <= limit
       PROVE  n <= limit /\ W * (n - limit) <= limit * e + (W - 1) /\ n <= 2 * limit
  BY <1>2, <1>8, <1>13, Within
<1>14. ASSUME S = B
       PROVE  /\ e + 1 = W => n <= limit
              /\ e + MaxDelay < W => W * (n - limit) <= limit * e + (W - 1)
              /\ n <= 2 * limit
  <2>1. a <= z /\ f[a] <= f[z]
    <3>1. a <= z
      BY <1>1, <1>2, <1>9, <1>14
    <3> QED
      BY <1>3, <1>6, <3>1
  <2>2. n <= (w.prev + w.curr) + 1
    BY <1>1, <1>4, <1>7, <1>8, <2>1
  <2>3. CASE t < S
    <3>1. n <= limit
      BY <1>1, <1>5, <1>8, <2>2, <2>3
    <3> QED
      BY <1>13, <3>1
  <2>4. CASE t >= S
    <3>1. e + 1 = W => n <= limit
      <4>1. e + 1 = W => z = b
        BY <1>1, <1>2, <1>9, <1>14
      <4> QED
        BY <1>1, <1>4, <1>5, <1>7, <1>8, <4>1
    <3>2. W * (n - limit) <= limit * e + (W - 1)
      <4> DEFINE m == n - limit  k == ((w.prev + w.curr) + 1) - limit  d == t - S
      <4>1. m \in Int /\ k \in Int /\ m <= k /\ d \in Nat /\ d <= e
        BY <1>1, <1>2, <1>8, <2>2, <2>4, <1>14
      <4>2. W * k <= w.prev * d + (W - 1)
        BY <1>5, <2>4
      <4> HIDE DEF m, k, d
      <4>3. W * m <= W * k /\ W * m \in Int /\ W * k \in Int
        BY <4>1, Times
      <4>4. w.prev * d <= limit * e /\ w.prev * d \in Nat /\ limit * e \in Nat
        <5>1. w.prev * d <= limit * d
          BY <1>1, <4>1
        <5>2. limit * d <= limit * e
          BY <1>2, <4>1
        <5>3. w.prev * d \in Nat /\ limit * d \in Nat /\ limit * e \in Nat
          BY <1>1, <1>2, <4>1
        <5> QED
          BY <5>1, <5>2, <5>3
      <4> QED
        BY <4>2, <4>3, <4>4 DEF m
    <3>3. n <= 2 * limit
      BY <1>1, <1>5, <1>8, <2>2
    <3> QED
      BY <3>1, <3>2, <3>3
  <2> QED
    BY <1>1, <2>3, <2>4
<1>15. ASSUME S < B
       PROVE  n <= limit
  <2>1. b <= z
    BY <1>1, <1>2, <1>6, <1>9, <1>10, <1>12, <1>15
  <2>2. f[b] <= f[z]
    BY <1>3, <1>6, <2>1
  <2> QED
    BY <1>1, <1>4, <1>5, <1>7, <1>8, <2>2
<1>16. ASSUME B < S
       PROVE  /\ e + 1 = W => n <= limit
              /\ ~(e + MaxDelay < W)
              /\ n <= 2 * limit
  <2>1. B + W <= S /\ t <= B + e /\ e < W
    BY <1>2, <1>11, <1>16
  <2>2. t < S /\ S = B + W /\ ~(e + MaxDelay < W)
    <3>1. S - MaxDelay <= B + e
      BY <1>1, <1>2, <1>12, <2>1
    <3>2. S < B + 2 * W
      BY <1>1, <1>2, <2>1, <3>1
    <3>3. S = B + W
      <4> DEFINE C == B + W
      <4>1. C % W = 0 /\ C \in Int
        BY <1>2, NextAligned
      <4>2. C < S => C + W <= S
        <5> HIDE DEF C
        <5> QED
          BY <1>1, <1>4, <4>1, Apart DEF S
      <4> QED
        BY <1>1, <1>2, <2>1, <3>2, <4>2
    <3> QED
      BY <1>1, <1>2, <2>1, <3>1, <3>3
  <2>3. f[x] - f[B - 1] + 1 <= limit
    <3>1. B - 1 = a
      BY <1>1, <1>2, <1>9, <2>2
    <3> QED
      BY <1>1, <1>4, <1>5, <1>7, <1>8, <2>2, <3>1
  <2>4. e + 1 = W => n <= limit
    <3>1. e + 1 = W => z = B - 1
      BY <1>2, <1>9
    <3> QED
      BY <1>7, <1>8, <2>3, <3>1
  <2>5. f[B - 1] - f[z] <= limit
    <3> DEFINE y == B - 1
    <3>1. y \in Int /\ y % W = W - 1 /\ (W - 1) + 1 = W
      BY <1>2
    <3>2. y - W <= z /\ y - W \in Int
      BY <1>2, <1>9
    <3> HIDE DEF y
    <3>3. f[y] - f[y - W] <= limit
      BY <3>1 DEF Smooth
    <3>4. f[y - W] <= f[z] /\ f[y] \in Nat /\ f[y - W] \in Nat
      BY <1>3, <1>6, <3>1, <3>2
    <3>5. f[y] - f[z] <= limit
      BY <1>7, <3>3, <3>4
    <3> QED
      BY <3>5 DEF y
  <2>6. f[B - 1] \in Nat
    BY <1>3, <1>6
  <2> QED
    BY <1>7, <1>8, <2>2, <2>3, <2>4, <2>5, <2>6
<1>17. S = B \/ S < B \/ B < S
  BY <1>1, <1>2
<1> QED
  BY <1>13, <1>14, <1>15, <1>16, <1>17

(* A call that is let in keeps every stretch within its bounds.            *)
LEMMA SmoothCounted ==
  ASSUME NEW w \in Window, NEW W \in Nat \ {0}, NEW f, History(f), Covers(w, W, f),
         NEW t \in Nat, t - w.start < W, w.start - t <= MaxDelay, MaxDelay <= W,
         NEW limit \in Nat, w.prev <= limit, Estimate(w, t, W) + 1 <= limit,
         \A y \in Int : Smooth(y, W, limit, f),
         NEW g, OneMore(f, g, t), NEW x \in Int
  PROVE  Smooth(x, W, limit, g)
<1>1. f[x] \in Nat /\ f[x - W] \in Nat
  BY DEF History
<1>2. /\ g[x] = IF x >= t THEN f[x] + 1 ELSE f[x]
      /\ g[x - W] = IF x - W >= t THEN f[x - W] + 1 ELSE f[x - W]
  BY DEF OneMore
<1>3. CASE x - W < t /\ t <= x
  <2>1. g[x] - g[x - W] = f[x] - f[x - W] + 1
    BY <1>1, <1>2, <1>3
  <2> DEFINE n == f[x] - f[x - W] + 1  e == x % W
  <2>2. /\ e + 1 = W => n <= limit
        /\ e + MaxDelay < W => W * (n - limit) <= limit * e + (W - 1)
        /\ n <= 2 * limit
    <3>1. n = f[x] - f[x - W] + 1 /\ e = x % W /\ x - W < t /\ t <= x
      BY <1>3
    <3> HIDE DEF n, e
    <3> QED
      BY <3>1, StretchWithin
  <2> QED
    BY <2>1, <2>2 DEF Smooth
<1>4. CASE ~(x - W < t /\ t <= x)
  <2>1. g[x] - g[x - W] = f[x] - f[x - W]
    BY <1>1, <1>2, <1>4
  <2>2. Smooth(x, W, limit, f)
    OBVIOUS
  <2> QED
    BY <2>1, <2>2 DEF Smooth
<1> QED
  BY <1>3, <1>4
(* Looking at a window changes nothing about the calls it lets in.         *)
LEMMA SlidesAdvanced ==
  ASSUME NEW w \in Window, NEW t \in Nat, NEW W \in Nat \ {0}, NEW f, History(f),
         NEW limit, Slides(w, W, limit, f)
  PROVE  Slides(Advance(w, t, W), W, limit, f)
BY CoversAdvanced DEF Slides

(* A window that lets in a call and counts it.                             *)
LEMMA SlidesCounted ==
  ASSUME NEW w \in Window, NEW t \in Nat, t <= End, NEW W \in Nat \ {0},
         NEW limit \in Nat, limit > 0, Counts(w, limit), MaxDelay <= W, w.start - t <= MaxDelay,
         NEW f, History(f), Slides(w, W, limit, f),
         Estimate(Advance(w, t, W), t, W) + 1 <= limit,
         NEW g, OneMore(f, g, t)
  PROVE  Slides(Count(Advance(w, t, W)), W, limit, g)
<1> DEFINE s == Advance(w, t, W)
<1>1. /\ s \in Window /\ t - s.start < W /\ (s.start <= t \/ s.start = w.start)
      /\ s.prev \in {w.prev, w.curr, 0}
  BY Advanced
<1>2. Covers(s, W, f) /\ \A y \in Int : Smooth(y, W, limit, f)
  BY CoversAdvanced DEF Slides
<1>3. s.prev <= limit
  BY <1>1 DEF Counts
<1>4. Estimate(s, t, W) + 1 <= limit
  OBVIOUS
<1> HIDE DEF s
<1>5. s.start - t <= MaxDelay
  BY <1>1, EndType DEF Window
<1>6. Covers(Count(s), W, g)
  BY <1>1, <1>2, CoversCounted
<1>7. ASSUME NEW x \in Int PROVE Smooth(x, W, limit, g)
  BY <1>1, <1>2, <1>3, <1>4, <1>5, SmoothCounted
<1> QED
  BY <1>6, <1>7 DEF Slides, s

(* The history stays one.                                                  *)
LEMMA HistoryGoesOn ==
  ASSUME NEW f, NEW g, NEW t \in Nat, t <= End, History(f), OneMore(f, g, t)
  PROVE  History(g)
<1>1. g \in [Int -> Nat]
  BY DEF OneMore
<1>2. \A u \in Int : f[u] \in Nat /\ g[u] = IF u >= t THEN f[u] + 1 ELSE f[u]
  BY DEF History, OneMore
<1>3. ASSUME NEW u \in Int, NEW v \in Int, u <= v PROVE g[u] <= g[v]
  <2>1. f[u] <= f[v]
    BY <1>3 DEF History
  <2>2. u >= t => v >= t
    BY <1>3
  <2> QED
    BY <1>2, <2>1, <2>2
<1>4. ASSUME NEW u \in Int PROVE g[u] <= g[End]
  <2>1. f[u] <= f[End] /\ End >= t
    BY DEF History
  <2> QED
    BY <1>2, <2>1, EndType
<1> QED
  BY <1>1, <1>3, <1>4 DEF History

(* Admit adds its call to the history.                                     *)
LEMMA AdmitServes ==
  ASSUME RateInv, NEW r \in Requests, Admit(r)
  PROVE  call[r].now <= End /\ OneMore(Allowed, Allowed', call[r].now)
<1> DEFINE t == call[r].now
<1>1. t \in Ticks /\ served \in [Ticks -> Nat]
  BY AtLock DEF Admit, RateInv, RateTypeOK
<1>2. served' = [u \in Ticks |-> IF u >= t THEN served[u] + 1 ELSE served[u]]
  BY DEF Admit
<1>3. /\ Start \in Nat /\ End \in Nat /\ Ticks = Start..End
      /\ t \in Nat /\ Start <= t /\ t <= End /\ End \in Ticks
  BY <1>1, RateAssumption DEF Ticks, End, Start
<1> HIDE DEF t
<1>4. ASSUME NEW u \in Int
      PROVE  Allowed'[u] \in Nat /\ Allowed'[u] = IF u >= t THEN Allowed[u] + 1 ELSE Allowed[u]
  <2>1. /\ Allowed[u] = IF u < Start THEN 0 ELSE IF u <= End THEN served[u] ELSE served[End]
        /\ Allowed'[u] = IF u < Start THEN 0 ELSE IF u <= End THEN served'[u] ELSE served'[End]
    BY DEF Allowed, End, Start
  <2>2. CASE u < Start
    <3>1. ~(u >= t)
      BY <1>3, <2>2
    <3> QED
      BY <2>1, <2>2, <3>1
  <2>3. CASE u \in Ticks
    <3>1. ~(u < Start) /\ u <= End
      BY <1>3, <2>3
    <3> QED
      BY <1>1, <1>2, <2>1, <2>3, <3>1
  <2>4. CASE ~(u < Start) /\ ~(u <= End)
    <3>1. u >= t
      BY <1>3, <2>4
    <3>2. served'[End] = served[End] + 1 /\ served[End] \in Nat
      BY <1>1, <1>2, <1>3
    <3> QED
      BY <2>1, <2>4, <3>1, <3>2
  <2> QED
    BY <1>3, <2>2, <2>3, <2>4
<1>5. Allowed' \in [Int -> Nat]
  <2>1. Allowed' = [u \in Int |-> Allowed'[u]]
    BY DEF Allowed
  <2> QED
    BY <1>4, <2>1
<1> QED
  BY <1>3, <1>4, <1>5 DEF OneMore, t

(* Every step keeps every stretch within its bounds.                       *)
LEMMA SlideStepInv ==
  ASSUME NEW l, Limits = {l}, MaxDelay <= SecTicks, SlideInv, [RateNext]_rateVars
  PROVE  SlideInv'
<1> DEFINE Waits == \A r \in Requests : call[r].at = "lock" => clock - call[r].now <= MaxDelay
<1>0. CountInv /\ RateInv /\ History(Allowed) /\ Waits
  BY DEF SlideInv, CountInv
<1>1. l[1] \in Nat /\ l[2] \in Nat
  BY RateAssumption
<1>2. Bounded
  BY <1>1 DEF Bounded
<1>3. CountInv'
  BY <1>0, <1>2, CountStepInv
<1>4. MaxRPS = l[1] /\ MaxRPM = l[2] /\ Counts(sec, l[1]) /\ Counts(min, l[2])
  BY <1>0, <1>2, Maxima DEF CountInv
<1>5. /\ SecTicks \in Nat \ {0} /\ MinTicks \in Nat \ {0}
      /\ MaxDelay <= SecTicks /\ MaxDelay <= MinTicks
  BY RateAssumption
<1>6. /\ Slides(sec, SecTicks, l[1], Allowed) /\ Slides(min, MinTicks, l[2], Allowed)
  BY <1>4 DEF SlideInv
<1>7. clock \in Nat /\ call \in [Requests -> Call]
  BY <1>0, TickType DEF RateInv, RateTypeOK, Call
<1>8. SUFFICES /\ Waits' /\ History(Allowed')
               /\ Slides(sec', SecTicks, l[1], Allowed') /\ Slides(min', MinTicks, l[2], Allowed')
  <2>1. MaxRPS' = MaxRPS /\ MaxRPM' = MaxRPM
    BY DEF MaxRPS, MaxRPM
  <2> QED
    BY <1>3, <1>4, <1>8, <2>1 DEF SlideInv, History, Slides, Covers, Smooth, End, Start
<1>9. ASSUME NEW r \in Requests, call[r].at = "lock"
      PROVE  /\ call[r].now \in Nat /\ call[r].now <= clock
             /\ sec \in Window /\ min \in Window /\ call[r].limits = l
             /\ sec.start - call[r].now <= MaxDelay /\ min.start - call[r].now <= MaxDelay
  <2>1. /\ call[r].now \in Nat /\ call[r].now <= clock
        /\ sec \in Window /\ min \in Window /\ call[r].limits \in Limits
    BY <1>0, <1>9, AtLock
  <2>2. sec.start <= clock /\ min.start <= clock /\ clock - call[r].now <= MaxDelay
    BY <1>0, <1>9 DEF RateInv, Punctual
  <2> QED
    BY <1>7, <2>1, <2>2, EndType DEF Window
<1>10. ASSUME NEW r \in Requests, RejectRPS(r) \/ RejectRPM(r) \/ Admit(r)
       PROVE  Waits'
  <2> DEFINE Left == call'[r].at # "lock" /\ \A u \in Requests \ {r} : call'[u] = call[u]
  <2>a. ASSUME NEW c, call' = [call EXCEPT ![r] = c], c.at # "lock" PROVE Left
    BY <1>7, <2>a
  <2>b. ASSUME NEW n, Limited(r, n) PROVE Left
    <3> DEFINE c == [Idle EXCEPT !.at = "limited", !.retry = n]
    <3>1. call' = [call EXCEPT ![r] = c] /\ c.at # "lock"
      BY <2>b DEF Limited, Idle
    <3> HIDE DEF c, Left
    <3> QED
      BY <2>a, <3>1
  <2>c. ASSUME Admit(r) PROVE Left
    <3>1. call' = [call EXCEPT ![r] = Idle] /\ Idle.at # "lock"
      BY <2>c, IdleCall DEF Admit
    <3> HIDE DEF Left
    <3> QED
      BY <2>a, <3>1
  <2>1. clock' = clock
    BY <1>10 DEF RejectRPS, RejectRPM, Admit
  <2>2. Left
    <3> HIDE DEF Left
    <3> QED
      BY <1>10, <2>b, <2>c DEF RejectRPS, RejectRPM
  <2> QED
    BY <1>0, <2>1, <2>2
<1>11. ASSUME NEW r \in Requests, RejectRPS(r) \/ RejectRPM(r)
       PROVE  /\ History(Allowed')
              /\ Slides(sec', SecTicks, l[1], Allowed') /\ Slides(min', MinTicks, l[2], Allowed')
  <2>1. /\ call[r].at = "lock" /\ served' = served
        /\ sec' = sec \/ sec' = Advance(sec, call[r].now, SecTicks)
        /\ min' = min \/ min' = Advance(min, call[r].now, MinTicks)
    BY <1>11 DEF RejectRPS, RejectRPM
  <2>2. Allowed' = Allowed
    BY <2>1 DEF Allowed, End, Start
  <2> QED
    BY <1>0, <1>5, <1>6, <1>9, <2>1, <2>2, SlidesAdvanced
<1>12. ASSUME NEW r \in Requests, Admit(r)
       PROVE  /\ History(Allowed')
              /\ Slides(sec', SecTicks, l[1], Allowed') /\ Slides(min', MinTicks, l[2], Allowed')
  <2> DEFINE t == call[r].now
  <2>1. call[r].at = "lock"
    BY <1>12 DEF Admit
  <2>2. /\ t \in Nat /\ sec \in Window /\ min \in Window /\ call[r].limits = l
        /\ sec.start - t <= MaxDelay /\ min.start - t <= MaxDelay
    BY <1>9, <2>1
  <2>3. t <= End /\ OneMore(Allowed, Allowed', t)
    BY <1>0, <1>12, AdmitServes
  <2>4. l[1] > 0 => /\ Estimate(Advance(sec, t, SecTicks), t, SecTicks) + 1 <= l[1]
                    /\ sec' = Count(Advance(sec, t, SecTicks))
    BY <1>12, <2>2 DEF Admit, RPSPasses
  <2>5. l[2] > 0 => /\ Estimate(Advance(min, t, MinTicks), t, MinTicks) + 1 <= l[2]
                    /\ min' = Count(Advance(min, t, MinTicks))
    BY <1>12, <2>2 DEF Admit
  <2> HIDE DEF t
  <2>6. History(Allowed')
    BY <1>0, <2>2, <2>3, HistoryGoesOn
  <2>7. Slides(sec', SecTicks, l[1], Allowed')
    <3>1. CASE l[1] > 0
      BY <1>0, <1>1, <1>4, <1>5, <1>6, <2>2, <2>3, <2>4, <3>1, SlidesCounted
    <3>2. CASE ~(l[1] > 0)
      BY <3>2 DEF Slides
    <3> QED
      BY <3>1, <3>2
  <2>8. Slides(min', MinTicks, l[2], Allowed')
    <3>1. CASE l[2] > 0
      BY <1>0, <1>1, <1>4, <1>5, <1>6, <2>2, <2>3, <2>5, <3>1, SlidesCounted
    <3>2. CASE ~(l[2] > 0)
      BY <3>2 DEF Slides
    <3> QED
      BY <3>1, <3>2
  <2> QED
    BY <2>6, <2>7, <2>8
<1>13. ASSUME UNCHANGED <<sec, min, served>>
       PROVE  /\ History(Allowed')
              /\ Slides(sec', SecTicks, l[1], Allowed') /\ Slides(min', MinTicks, l[2], Allowed')
  <2>1. Allowed' = Allowed
    BY <1>13 DEF Allowed, End, Start
  <2> QED
    BY <1>0, <1>6, <1>13, <2>1
<1>14. ASSUME NEW r \in Requests, NEW m \in Limits, AllowCall(r, m)
       PROVE  /\ Waits' /\ History(Allowed')
              /\ Slides(sec', SecTicks, l[1], Allowed') /\ Slides(min', MinTicks, l[2], Allowed')
  <2>1. /\ clock' = clock /\ UNCHANGED <<sec, min, served>>
        /\ call' = [call EXCEPT ![r] = [at |-> "lock", now |-> clock, limits |-> m, retry |-> 0]]
    BY <1>14 DEF AllowCall
  <2>2. call'[r].now = clock /\ \A u \in Requests \ {r} : call'[u] = call[u]
    BY <1>7, <2>1
  <2>3. ASSUME NEW u \in Requests, call'[u].at = "lock" PROVE clock' - call'[u].now <= MaxDelay
    <3>1. CASE u = r
      BY <1>7, <2>1, <2>2, <3>1, EndType
    <3>2. CASE u # r
      BY <1>0, <2>1, <2>2, <2>3, <3>2
    <3> QED
      BY <3>1, <3>2
  <2> QED
    BY <1>13, <2>1, <2>3
<1>15. CASE TickClock
  <2>1. /\ clock' = clock + 1 /\ UNCHANGED <<sec, min, call, served>>
        /\ \A r \in Requests : call[r].at = "lock" => clock - call[r].now < MaxDelay
    BY <1>15 DEF TickClock
  <2>2. Waits'
    BY <1>7, <1>9, <2>1, EndType
  <2> QED
    BY <1>13, <2>1, <2>2
<1>16. CASE UNCHANGED rateVars
  <2>1. UNCHANGED <<sec, min, clock, call, served>>
    BY <1>16 DEF rateVars
  <2> QED
    BY <1>0, <1>13, <2>1
<1> QED
  BY <1>10, <1>11, <1>12, <1>14, <1>15, <1>16 DEF RateNext

(* Nothing has been served.                                                *)
LEMMA SlideInitInv ==
  ASSUME NEW l, Limits = {l}, RateInit
  PROVE  SlideInv
<1>1. l[1] \in Nat /\ l[2] \in Nat
  BY RateAssumption
<1>2. Bounded
  BY <1>1 DEF Bounded
<1>3. MaxRPS = l[1] /\ MaxRPM = l[2]
  BY <1>2, Maxima
<1>4. /\ sec = NewWindow /\ min = NewWindow
      /\ NewWindow.start = 0 /\ NewWindow.prev = 0 /\ NewWindow.curr = 0
  BY DEF RateInit, NewWindow
<1>5. CountInv
  <2>1. Counts(sec, MaxRPS) /\ Counts(min, MaxRPM)
    BY <1>1, <1>3, <1>4 DEF Counts
  <2> QED
    BY <2>1, RateInitInv DEF CountInv
<1>6. Allowed = [u \in Int |-> 0]
  <2>1. served = [u \in Ticks |-> 0] /\ Start \in Int /\ End \in Int /\ Ticks = Start..End
    BY TickType, EndType DEF RateInit, Ticks, End
  <2>2. ASSUME NEW u \in Int PROVE Allowed[u] = 0
    <3>1. Allowed[u] = IF u < Start THEN 0 ELSE IF u <= End THEN served[u] ELSE served[End]
      BY DEF Allowed
    <3>2. Start <= End
      BY RateAssumption DEF End, Start
    <3> QED
      BY <2>1, <3>1, <3>2
  <2> QED
    BY <2>2 DEF Allowed
<1>7. \A u \in Int : Allowed[u] = 0
  BY <1>6
<1>8. History(Allowed)
  BY <1>6, EndType DEF History
<1>9. ASSUME NEW W \in Nat \ {0}, NEW limit \in Nat
      PROVE  Slides(NewWindow, W, limit, Allowed)
  <2>1. Covers(NewWindow, W, Allowed)
    <3>1. 0 % W = 0
      OBVIOUS
    <3> QED
      BY <1>4, <1>7, <3>1, EndType DEF Covers
  <2>2. ASSUME NEW x \in Int PROVE Smooth(x, W, limit, Allowed)
    <3>1. Allowed[x] - Allowed[x - W] = 0 /\ 0 <= limit /\ 0 \in Int
      BY <1>7
    <3>2. x % W \in 0..(W - 1)
      BY Aligned
    <3> DEFINE e == x % W
    <3>3. 0 <= limit /\ W * (0 - limit) <= limit * e + (W - 1) /\ 0 <= 2 * limit
      BY <3>1, <3>2, Within
    <3> QED
      BY <3>1, <3>3 DEF Smooth
  <2> QED
    BY <2>1, <2>2 DEF Slides
<1>10. \A r \in Requests : call[r].at # "lock"
  BY IdleCall DEF RateInit
<1> QED
  BY <1>1, <1>3, <1>4, <1>5, <1>8, <1>9, <1>10, Minute DEF SlideInv

(* Bounds on the calls let in within one window's time, for limits nobody  *)
(* changes and calls that wait at most a second for the lock, whatever the *)
(* lengths of the windows: an aligned window serves at most the limit, a   *)
(* stretch that ends e ticks after a boundary at most limit * (1 + e / W), *)
(* and no stretch more than twice the limit.                               *)
THEOREM StretchesHold ==
  ASSUME NEW l, Limits = {l}, MaxDelay <= SecTicks
  PROVE  RateSpec => []SlidingBound
<1>1. RateInit => SlideInv
  BY SlideInitInv
<1>2. SlideInv /\ [RateNext]_rateVars => SlideInv'
  BY SlideStepInv
<1>3. SlideInv => SlidingBound
  <2> SUFFICES ASSUME SlideInv PROVE SlidingBound
    OBVIOUS
  <2>1. ASSUME NEW t \in Ticks, NEW W \in Nat \ {0}
        PROVE  ServedIn(t, W) = Allowed[t] - Allowed[t - W]
    <3>1. /\ Start \in Int /\ End \in Int /\ t \in Int /\ Start <= t /\ t <= End
      BY TickType, EndType DEF Ticks, End
    <3>2. ASSUME NEW u \in Int, u <= End PROVE Upto(u) = Allowed[u]
      BY <3>2 DEF Upto, Allowed
    <3>3. t - W \in Int /\ t - W <= End
      BY <3>1
    <3> QED
      BY <3>1, <3>2, <3>3 DEF ServedIn
  <2>2. ASSUME NEW w, NEW W \in Nat \ {0}, NEW limit, limit > 0, Slides(w, W, limit, Allowed)
        PROVE  Sliding(limit, W)
    <3>1. ASSUME NEW t \in Ticks
          PROVE  /\ (t % W) + 1 = W => ServedIn(t, W) <= limit
                 /\ (t % W) + MaxDelay < W =>
                      W * (ServedIn(t, W) - limit) <= limit * (t % W) + (W - 1)
                 /\ ServedIn(t, W) <= 2 * limit
      <4>1. t \in Int
        BY TickType
      <4>2. Smooth(t, W, limit, Allowed)
        BY <2>2, <4>1 DEF Slides
      <4> QED
        BY <2>1, <4>2 DEF Smooth
    <3> QED
      BY <3>1 DEF Sliding
  <2> QED
    BY <2>2, Minute DEF SlideInv, SlidingBound
<1> QED
  BY <1>1, <1>2, <1>3, PTL DEF RateSpec
=============================================================================
