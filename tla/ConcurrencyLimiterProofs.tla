----------------------- MODULE ConcurrencyLimiterProofs -----------------------
(***************************************************************************)
(* ConcurrencyLimiter keeps its cap for any set of handlers, keys and      *)
(* limits.  LimiterInv is inductive: the cap itself is not, because Add    *)
(* compares the counter, not the set of holders, so the proof carries that *)
(* the counter is exact (SlotsAccounted), which in turn needs every caller *)
(* to work on the published object (OneCounterPerKey).                     *)
(***************************************************************************)
EXTENDS ConcurrencyLimiter, FiniteSetTheorems, TLAPS

(* The holders of key k admitted under a limit of n or less.               *)
HoldersUpTo(k, n) == {r \in Holders(k) : call[r].limit <= n}

(* Limits are natural numbers.                                             *)
LEMMA LimitType ==
  ASSUME LimiterTypeOK, NEW r \in Requests
  PROVE  call[r].limit \in Nat
<1>1. call[r].limit \in Limits \cup {0}
  BY DEF LimiterTypeOK
<1>2. \A l \in Limits \cup {0} : l \in Nat
  BY LimiterAssumption
<1> QED
  BY <1>1, <1>2

(* The sets the invariant counts are finite, as Requests is.               *)
LEMMA FiniteOccupants ==
  ASSUME NEW k
  PROVE  /\ IsFiniteSet(Occupants(k))
         /\ IsFiniteSet(Occupants(k)')
         /\ Cardinality(Occupants(k)) \in Nat
<1>1. Occupants(k) \subseteq Requests /\ Occupants(k)' \subseteq Requests
  BY DEF Occupants, Counted
<1>2. IsFiniteSet(Occupants(k)) /\ IsFiniteSet(Occupants(k)')
  BY <1>1, LimiterAssumption, FS_Subset
<1> QED
  BY <1>2, FS_CardinalityType

(* Holders admitted under small limits are among the occupants.            *)
LEMMA HoldersFinite ==
  ASSUME NEW k, NEW n
  PROVE  /\ IsFiniteSet(HoldersUpTo(k, n))
         /\ IsFiniteSet(HoldersUpTo(k, n)')
         /\ HoldersUpTo(k, n)' \subseteq Occupants(k)'
         /\ Cardinality(HoldersUpTo(k, n)) \in Nat
         /\ Cardinality(HoldersUpTo(k, n)') \in Nat
<1>1. HoldersUpTo(k, n) \subseteq Requests /\ HoldersUpTo(k, n)' \subseteq Requests
  BY DEF HoldersUpTo, Holders
<1>2. IsFiniteSet(HoldersUpTo(k, n)) /\ IsFiniteSet(HoldersUpTo(k, n)')
  BY <1>1, LimiterAssumption, FS_Subset
<1>3. HoldersUpTo(k, n)' \subseteq Occupants(k)'
  BY DEF HoldersUpTo, Holders, Occupants, Counted
<1> QED
  BY <1>2, <1>3, FS_CardinalityType

(* Init establishes the invariant: no request is inside the limiter.       *)
LEMMA LimiterInitInv == LimiterInit => LimiterInv
<1> SUFFICES ASSUME LimiterInit PROVE LimiterInv
  OBVIOUS
<1>1. LimiterTypeOK
  BY DEF LimiterInit, LimiterTypeOK, Idle, Phases
<1>2. OneCounterPerKey
  BY DEF LimiterInit, OneCounterPerKey, Counted, Idle, Phases
<1>3. SlotsAccounted
  BY DEF LimiterInit, SlotsAccounted
<1>4. HoldersWithinLimit
  <2> SUFFICES ASSUME NEW k \in Keys, NEW n \in Limits
               PROVE  Cardinality(HoldersUpTo(k, n)) <= n
    BY DEF HoldersWithinLimit, HoldersUpTo
  <2>1. HoldersUpTo(k, n) = {}
    BY DEF LimiterInit, Idle, HoldersUpTo, Holders
  <2> QED
    BY <2>1, FS_EmptySet, LimiterAssumption
<1> QED
  BY <1>1, <1>2, <1>3, <1>4 DEF LimiterInv

(* When no request of any key joins the holders, the cap is kept.          *)
LEMMA FewerHoldersKeepCap ==
  ASSUME HoldersWithinLimit,
         \A k \in Keys, n \in Limits : HoldersUpTo(k, n)' \subseteq HoldersUpTo(k, n)
  PROVE  HoldersWithinLimit'
<1> SUFFICES ASSUME NEW k \in Keys, NEW n \in Limits
             PROVE  Cardinality(HoldersUpTo(k, n)') <= n
  BY DEF HoldersWithinLimit, HoldersUpTo
<1>1. Cardinality(HoldersUpTo(k, n)) <= n
  BY DEF HoldersWithinLimit, HoldersUpTo
<1>2. Cardinality(HoldersUpTo(k, n)') <= Cardinality(HoldersUpTo(k, n))
  BY HoldersFinite, FS_Subset
<1> QED
  BY <1>1, <1>2, HoldersFinite, LimiterAssumption

(* The steps that neither count nor admit: a call begins, or finds the     *)
(* counter of its key.                                                     *)
LEMMA LookupInv ==
  ASSUME LimiterInv, NEW r \in Requests,
         \/ \E k \in Keys, l \in Limits : AcquireUnlimited(r, k, l) \/ AcquireStart(r, k, l)
         \/ Load(r)
  PROVE  LimiterInv'
<1> USE DEF LimiterInv
<1>1. LimiterTypeOK' /\ OneCounterPerKey'
  <2>1. ASSUME NEW k \in Keys, NEW l \in Limits, AcquireUnlimited(r, k, l)
        PROVE  LimiterTypeOK' /\ OneCounterPerKey'
    <3>1. LimiterTypeOK'
      BY <2>1 DEF LimiterTypeOK, AcquireUnlimited, Phases
    <3>a. l \in Nat /\ ~(l > 0)
      BY <2>1, LimiterAssumption DEF AcquireUnlimited
    <3>2. OneCounterPerKey'
      BY <2>1, <3>a DEF LimiterTypeOK, OneCounterPerKey, Counted, AcquireUnlimited
    <3> QED
      BY <3>1, <3>2
  <2>2. ASSUME NEW k \in Keys, NEW l \in Limits, AcquireStart(r, k, l)
        PROVE  LimiterTypeOK' /\ OneCounterPerKey'
    <3>1. LimiterTypeOK'
      BY <2>2 DEF LimiterTypeOK, AcquireStart, Phases
    <3>2. OneCounterPerKey'
      BY <2>2 DEF LimiterTypeOK, OneCounterPerKey, Counted, AcquireStart
    <3> QED
      BY <3>1, <3>2
  <2>3. ASSUME Load(r)
        PROVE  LimiterTypeOK' /\ OneCounterPerKey'
    <3>1. call[r].key \in Keys
      BY <2>3 DEF Load, OneCounterPerKey
    <3>2. LimiterTypeOK'
      BY <2>3, <3>1 DEF LimiterTypeOK, Load, Step, Phases
    <3>3. OneCounterPerKey'
      BY <2>3, <3>1 DEF LimiterTypeOK, OneCounterPerKey, Counted, Load, Step
    <3> QED
      BY <3>2, <3>3
  <2> QED
    BY <2>1, <2>2, <2>3
<1>3. \A k \in Keys : Occupants(k)' = Occupants(k)
  BY LimiterAssumption
  DEF LimiterTypeOK, Occupants, Counted, AcquireUnlimited, AcquireStart, Load, Step
<1>4. SlotsAccounted'
  BY <1>3 DEF SlotsAccounted, AcquireUnlimited, AcquireStart, Load, Step
<1>5. \A k \in Keys, n \in Limits : HoldersUpTo(k, n)' \subseteq HoldersUpTo(k, n)
  BY LimiterAssumption
  DEF LimiterTypeOK, HoldersUpTo, Holders, AcquireUnlimited, AcquireStart, Load, Step
<1> QED
  BY <1>1, <1>4, <1>5, FewerHoldersKeepCap

(* A counter published for a key that had none starts at zero, and no      *)
(* request of that key can be inside the limiter yet.                      *)
LEMMA LoadOrStoreInv ==
  ASSUME LimiterInv, NEW r \in Requests, LoadOrStore(r)
  PROVE  LimiterInv'
<1> USE DEF LimiterInv
<1>1. LimiterTypeOK'
  BY DEF LimiterTypeOK, OneCounterPerKey, Counted, LoadOrStore, Step, Phases
<1>2. OneCounterPerKey'
  BY LimiterAssumption DEF LimiterTypeOK, OneCounterPerKey, Counted, LoadOrStore, Step, Phases
<1>3. \A k \in Keys : Occupants(k)' = Occupants(k)
  BY DEF LimiterTypeOK, Occupants, Counted, LoadOrStore, Step
<1>4. SlotsAccounted'
  <2> SUFFICES ASSUME NEW k \in Keys, counters'[k] # None
               PROVE  count[k][counters'[k]] = Cardinality(Occupants(k))
    BY <1>3 DEF SlotsAccounted, LoadOrStore, Step
  <2>1. CASE counters[k] # None
    BY <2>1 DEF SlotsAccounted, LoadOrStore, Step, LimiterTypeOK
  <2>2. CASE counters[k] = None
    <3>1. counters'[k] = r /\ count[k][r] = 0
      BY <2>2, LimiterAssumption DEF LoadOrStore, Step, LimiterTypeOK, OneCounterPerKey, Counted
    <3>2. Occupants(k) = {}
      <4> SUFFICES ASSUME NEW q \in Requests, q \in Occupants(k) PROVE FALSE
        BY DEF Occupants, Counted
      <4>1. call[q].ctr # None /\ counters[k] = call[q].ctr
        BY DEF Occupants, Counted, OneCounterPerKey
      <4> QED
        BY <4>1, <2>2
    <3> QED
      BY <3>1, <3>2, FS_EmptySet
  <2> QED
    BY <2>1, <2>2
<1>5. \A k \in Keys, n \in Limits : HoldersUpTo(k, n)' \subseteq HoldersUpTo(k, n)
  BY DEF LimiterTypeOK, HoldersUpTo, Holders, LoadOrStore, Step
<1> QED
  BY <1>1, <1>2, <1>4, <1>5, FewerHoldersKeepCap

(* Add counts its caller before it decides, so the counter it compares     *)
(* with the limit bounds the holders, the caller included.                 *)
LEMMA AddInv ==
  ASSUME LimiterInv, NEW r \in Requests, Add(r)
  PROVE  LimiterInv'
<1> USE DEF LimiterInv
<1>a. call[r].at = "add"
  BY DEF Add
<1>b. call[r].key \in Keys /\ call[r].ctr # None /\ counters[call[r].key] = call[r].ctr
  BY <1>a DEF OneCounterPerKey, Counted
<1>c. call[r].limit \in Nat /\ call[r].limit > 0 /\ call[r].ctr \in Requests
  BY <1>a, <1>b, LimitType DEF OneCounterPerKey, Counted, LimiterTypeOK
<1> PICK key \in Keys, ctr \in Requests, lim \in Nat :
       key = call[r].key /\ ctr = call[r].ctr /\ lim = call[r].limit
  BY <1>b, <1>c
<1>1. counters[key] = ctr /\ lim > 0 /\ count[key][ctr] \in Nat
  BY <1>b, <1>c DEF LimiterTypeOK
<1>2. /\ \A k \in Keys, o \in Requests :
           count'[k][o] = IF k = key /\ o = ctr THEN count[k][o] + 1 ELSE count[k][o]
      /\ counters' = counters
  BY <1>1 DEF Add, Step, LimiterTypeOK
<1>3. LimiterTypeOK'
  BY <1>1 DEF Add, Step, LimiterTypeOK, Phases
<1>4. OneCounterPerKey'
  BY <1>1, <1>2 DEF Add, Step, LimiterTypeOK, OneCounterPerKey, Counted, Phases
<1>5. /\ r \notin Occupants(key)
      /\ Occupants(key)' = Occupants(key) \cup {r}
      /\ \A k \in Keys \ {key} : Occupants(k)' = Occupants(k)
  BY <1>1 DEF Add, Step, LimiterTypeOK, Occupants, Counted
<1>6. Cardinality(Occupants(key)') = Cardinality(Occupants(key)) + 1
  BY <1>5, FiniteOccupants, FS_AddElement
<1>7. SlotsAccounted'
  <2> SUFFICES ASSUME NEW k \in Keys, counters[k] # None
               PROVE  count'[k][counters[k]] = Cardinality(Occupants(k)')
    BY <1>2 DEF SlotsAccounted
  <2>1. count[k][counters[k]] = Cardinality(Occupants(k)) /\ counters[k] \in Requests
    BY DEF SlotsAccounted, LimiterTypeOK
  <2>2. CASE k = key
    BY <2>1, <2>2, <1>1, <1>2, <1>6
  <2>3. CASE k # key
    BY <2>1, <2>3, <1>2, <1>5
  <2> QED
    BY <2>2, <2>3
<1>8. HoldersWithinLimit'
  <2> SUFFICES ASSUME NEW k \in Keys, NEW n \in Limits
               PROVE  Cardinality(HoldersUpTo(k, n)') <= n
    BY DEF HoldersWithinLimit, HoldersUpTo
  <2>1. CASE k = key /\ lim <= n /\ call'[r].at = "admitted"
    <3>1. Cardinality(Occupants(key)') <= lim
      <4>1. count[key][ctr] + 1 <= lim
        BY <2>1, <1>1 DEF Add, Step, LimiterTypeOK
      <4>2. count[key][ctr] = Cardinality(Occupants(key))
        BY <1>1, LimiterAssumption DEF SlotsAccounted
      <4> QED
        BY <4>1, <4>2, <1>6
    <3>2. Cardinality(HoldersUpTo(k, n)') <= Cardinality(Occupants(key)')
      BY <2>1, HoldersFinite, FiniteOccupants, FS_Subset
    <3>3. Cardinality(Occupants(key)') \in Nat
      BY FiniteOccupants, FS_CardinalityType
    <3> QED
      BY <3>1, <3>2, <3>3, <2>1, <1>1, HoldersFinite, LimiterAssumption
  <2>2. CASE ~(k = key /\ lim <= n /\ call'[r].at = "admitted")
    <3>1. HoldersUpTo(k, n)' \subseteq HoldersUpTo(k, n)
      BY <2>2, <1>1 DEF HoldersUpTo, Holders, Add, Step, LimiterTypeOK
    <3>2. Cardinality(HoldersUpTo(k, n)') <= Cardinality(HoldersUpTo(k, n))
      BY <3>1, HoldersFinite, FS_Subset
    <3>3. Cardinality(HoldersUpTo(k, n)) <= n
      BY DEF HoldersWithinLimit, HoldersUpTo
    <3> QED
      BY <3>2, <3>3, HoldersFinite, LimiterAssumption
  <2> QED
    BY <2>1, <2>2
<1> QED
  BY <1>3, <1>4, <1>7, <1>8

(* Undo and Release of a counted slot take back exactly the caller's own   *)
(* increment.                                                              *)
LEMMA GiveBackInv ==
  ASSUME LimiterInv, NEW r \in Requests, Undo(r) \/ Release(r)
  PROVE  LimiterInv'
<1> USE DEF LimiterInv
<1>a. call[r].at \in {"undo", "admitted"}
  BY DEF Undo, Release
<1>b. call[r].key \in Keys
  BY <1>a DEF OneCounterPerKey, Counted
<1> PICK key \in Keys : key = call[r].key
  BY <1>b
<1>0. call[r].limit \in Nat
  BY LimitType
<1>1. \A k \in Keys, n \in Limits : HoldersUpTo(k, n)' \subseteq HoldersUpTo(k, n)
  BY DEF LimiterTypeOK, HoldersUpTo, Holders, Undo, Release, Idle
<1>2. HoldersWithinLimit'
  BY <1>1, FewerHoldersKeepCap
<1>3. CASE r \in Occupants(key)
  <2>a. call[r].ctr # None /\ counters[key] = call[r].ctr
    BY <1>3 DEF Occupants, Counted, OneCounterPerKey
  <2> PICK ctr \in Requests : ctr = call[r].ctr
    BY <2>a DEF LimiterTypeOK
  <2>1. /\ counters[key] = ctr /\ count[key][ctr] \in Nat
        /\ counters' = counters
        /\ count' = [count EXCEPT ![key][ctr] = @ - 1]
        /\ call' = [call EXCEPT ![r] = Idle]
    BY <1>0, <1>3, <2>a, LimiterAssumption DEF Occupants, Counted, Undo, Release, LimiterTypeOK
  <2>2. \A k \in Keys, o \in Requests :
          count'[k][o] = IF k = key /\ o = ctr THEN count[k][o] - 1 ELSE count[k][o]
    BY <1>0, <2>1 DEF LimiterTypeOK
  <2>3. /\ Occupants(key)' = Occupants(key) \ {r}
        /\ \A k \in Keys \ {key} : Occupants(k)' = Occupants(k)
    BY <1>0, <2>1 DEF Occupants, Counted, LimiterTypeOK, Idle
  <2>4. /\ Cardinality(Occupants(key)') = Cardinality(Occupants(key)) - 1
        /\ Cardinality(Occupants(key)') \in Nat
    BY <1>3, <2>3, FiniteOccupants, FS_RemoveElement, FS_CardinalityType
  <2>5. count[key][ctr] = Cardinality(Occupants(key))
    BY <1>0, <2>1, LimiterAssumption DEF SlotsAccounted
  <2>6. LimiterTypeOK'
    BY <1>0, <2>1, <2>4, <2>5, LimiterAssumption DEF LimiterTypeOK, Idle, Phases
  <2>7. OneCounterPerKey'
    BY <1>0, <2>1, <2>2 DEF OneCounterPerKey, Counted, LimiterTypeOK, Idle, Phases
  <2>8. SlotsAccounted'
    <3> SUFFICES ASSUME NEW k \in Keys, counters[k] # None
                 PROVE  count'[k][counters[k]] = Cardinality(Occupants(k)')
      BY <2>1 DEF SlotsAccounted
    <3>1. count[k][counters[k]] = Cardinality(Occupants(k)) /\ counters[k] \in Requests
      BY DEF SlotsAccounted, LimiterTypeOK
    <3>2. CASE k = key
      BY <3>1, <3>2, <2>1, <2>2, <2>4
    <3>3. CASE k # key
      BY <3>1, <3>3, <2>2, <2>3
    <3> QED
      BY <3>2, <3>3
  <2> QED
    BY <1>2, <2>6, <2>7, <2>8
<1>4. CASE r \notin Occupants(key)
  <2>1. /\ counters' = counters /\ count' = count
        /\ call' = [call EXCEPT ![r] = Idle]
    BY <1>0, <1>4 DEF Occupants, Counted, Undo, Release
  <2>2. LimiterTypeOK'
    BY <2>1, LimiterAssumption DEF LimiterTypeOK, Idle, Phases
  <2>3. OneCounterPerKey'
    BY <2>1 DEF OneCounterPerKey, Counted, LimiterTypeOK, Idle, Phases
  <2>4. \A k \in Keys : Occupants(k)' = Occupants(k)
    BY <1>4, <2>1 DEF Occupants, Counted, LimiterTypeOK, Idle
  <2>5. SlotsAccounted'
    BY <2>1, <2>4 DEF SlotsAccounted
  <2> QED
    BY <1>2, <2>2, <2>3, <2>5
<1> QED
  BY <1>3, <1>4

(* Every step of the limiter keeps the invariant.                          *)
LEMMA LimiterStepInv ==
  ASSUME LimiterInv, [LimiterNext]_limiterVars
  PROVE  LimiterInv'
<1>1. CASE LimiterNext
  <2>1. PICK r \in Requests :
          \/ \E k \in Keys, l \in Limits : AcquireUnlimited(r, k, l) \/ AcquireStart(r, k, l)
          \/ Load(r)
          \/ LoadOrStore(r)
          \/ Add(r)
          \/ Undo(r)
          \/ Release(r)
    BY <1>1 DEF LimiterNext
  <2> QED
    BY <2>1, LookupInv, LoadOrStoreInv, AddInv, GiveBackInv
<1>2. CASE UNCHANGED limiterVars
  BY <1>2 DEF limiterVars, LimiterInv, LimiterTypeOK, OneCounterPerKey, Counted, SlotsAccounted,
              HoldersWithinLimit, Holders, Occupants, Counted
<1> QED
  BY <1>1, <1>2

(* The invariant holds in every reachable state.                           *)
THEOREM LimiterInvariant == LimiterSpec => []LimiterInv
<1>1. LimiterInit => LimiterInv
  BY LimiterInitInv
<1>2. LimiterInv /\ [LimiterNext]_limiterVars => LimiterInv'
  BY LimiterStepInv
<1> QED
  BY <1>1, <1>2, PTL DEF LimiterSpec

(* No counter of memory.go goes below zero: an Add(-1) follows an Add(1).  *)
THEOREM LimiterIsTyped == LimiterSpec => []LimiterTypeOK
BY LimiterInvariant, PTL DEF LimiterInv

(* Handlers that race to create the counter of a key share the object that *)
(* LoadOrStore published; the one that lost the race never counts.         *)
THEOREM CountersAreShared == LimiterSpec => []OneCounterPerKey
BY LimiterInvariant, PTL DEF LimiterInv

(* The cap: Acquire never over-admits, for any number of handlers, keys    *)
(* and any limits the key may be PATCHed to while they run.                *)
THEOREM LimiterSafe == LimiterSpec => []HoldersWithinLimit
<1>1. LimiterInv => HoldersWithinLimit
  BY DEF LimiterInv
<1> QED
  BY <1>1, LimiterInvariant, PTL

(* The counter is exact and never negative: no slot leaks or returns       *)
(* twice.                                                                  *)
THEOREM LimiterCounts == LimiterSpec => [](LimiterTypeOK /\ SlotsAccounted)
<1>1. LimiterInv => LimiterTypeOK /\ SlotsAccounted
  BY DEF LimiterInv
<1> QED
  BY <1>1, LimiterInvariant, PTL

(* A caller is only rejected when it counted at least `limit' requests of  *)
(* its key inside the limiter.                                             *)
THEOREM LimiterRejections == LimiterSpec => RejectedOnlyUnderContention
<1> DEFINE Justified ==
             \A r \in Requests :
               call[r].at = "add" /\ call'[r].at = "undo"
                 => Cardinality(Occupants(call[r].key)) >= call[r].limit
<1>1. LimiterInv /\ [LimiterNext]_limiterVars => [Justified]_limiterVars
  <2> SUFFICES ASSUME LimiterInv, LimiterNext, NEW r \in Requests,
                      call[r].at = "add", call'[r].at = "undo"
               PROVE  Cardinality(Occupants(call[r].key)) >= call[r].limit
    OBVIOUS
  <2>1. Add(r)
    BY DEF LimiterNext, LimiterInv, LimiterTypeOK, AcquireUnlimited, AcquireStart, Load, Step,
           LoadOrStore, Add, Undo, Release, Idle
  <2>a. call[r].key \in Keys /\ call[r].ctr # None /\ counters[call[r].key] = call[r].ctr
    BY DEF LimiterInv, OneCounterPerKey, Counted
  <2>2. /\ call[r].key \in Keys /\ call[r].ctr \in Requests
        /\ counters[call[r].key] = call[r].ctr
        /\ call[r].limit \in Nat /\ count[call[r].key][call[r].ctr] \in Nat
    BY <2>a, LimitType DEF LimiterInv, LimiterTypeOK
  <2>3. count[call[r].key][call[r].ctr] + 1 > call[r].limit
    <3>1. call'[r].at = IF count[call[r].key][call[r].ctr] + 1 > call[r].limit
                          THEN "undo" ELSE "admitted"
      BY <2>1 DEF Add, Step, LimiterInv, LimiterTypeOK
    <3> QED
      BY <3>1
  <2>4. count[call[r].key][call[r].ctr] = Cardinality(Occupants(call[r].key))
    BY <2>2, LimiterAssumption DEF LimiterInv, SlotsAccounted
  <2> QED
    BY <2>2, <2>3, <2>4
<1> QED
  BY <1>1, LimiterInvariant, PTL DEF LimiterSpec, RejectedOnlyUnderContention
=============================================================================
