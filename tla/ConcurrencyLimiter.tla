-------------------------- MODULE ConcurrencyLimiter --------------------------
(***************************************************************************)
(* The per-key concurrency cap, internal/concurrency/memory.go.            *)
(*                                                                         *)
(* The store is a sync.Map from key id to a heap-allocated atomic counter. *)
(* Acquire is not one atomic step: it looks the counter up (creating it    *)
(* with LoadOrStore when absent), adds one, and takes the one back in a    *)
(* second atomic operation when the sum exceeds the limit.  Every request  *)
(* handler runs on its own goroutine, so the steps below interleave.       *)
(*                                                                         *)
(* A counter object is named by the request that allocated it; two         *)
(* handlers that race to create the counter of a key allocate two objects, *)
(* of which LoadOrStore publishes one.                                     *)
(***************************************************************************)
EXTENDS VirtualKeys, Integers, FiniteSets

CONSTANTS
  Requests,   \* request handlers (goroutines); a handler may serve again
  Limits,     \* values max_concurrent may have; 0 means unlimited
  None        \* no counter, no key

ASSUME LimiterAssumption ==
  /\ Limits \subseteq Nat
  /\ IsFiniteSet(Requests)
  /\ None \notin Requests \cup Keys

VARIABLES
  counters,   \* key id -> the published counter object, or None
  count,      \* key id -> counter object -> its value
  call        \* request -> where it is in Acquire / Release, with arguments

limiterVars == <<counters, count, call>>

Phases == {"idle", "load", "store", "add", "undo", "admitted"}

Idle == [at |-> "idle", key |-> None, limit |-> 0, ctr |-> None]

(* The call of r goes on to phase p with counter object o.                 *)
Step(r, p, o) ==
  call' = [call EXCEPT ![r] = [at |-> p, key |-> @.key, limit |-> @.limit, ctr |-> o]]

LimiterTypeOK ==
  /\ counters \in [Keys -> Requests \cup {None}]
  /\ count \in [Keys -> [Requests -> Nat]]
  /\ call \in [Requests -> [at    : Phases,
                            key   : Keys \cup {None},
                            limit : Limits \cup {0},
                            ctr   : Requests \cup {None}]]

LimiterInit ==
  /\ counters = [k \in Keys |-> None]
  /\ count = [k \in Keys |-> [o \in Requests |-> 0]]
  /\ call = [r \in Requests |-> Idle]

-----------------------------------------------------------------------------
(* Acquire(keyID, limit).  limit comes from the key record the request     *)
(* resolved, so concurrent requests of one key may carry different limits  *)
(* while an operator PATCHes max_concurrent.                               *)

AcquireUnlimited(r, k, l) ==
  /\ call[r].at = "idle"
  /\ l <= 0
  /\ call' = [call EXCEPT ![r] = [at |-> "admitted", key |-> k, limit |-> l, ctr |-> None]]
  /\ UNCHANGED <<counters, count>>

AcquireStart(r, k, l) ==
  /\ call[r].at = "idle"
  /\ l > 0
  /\ call' = [call EXCEPT ![r] = [at |-> "load", key |-> k, limit |-> l, ctr |-> None]]
  /\ UNCHANGED <<counters, count>>

Load(r) ==
  LET o == counters[call[r].key] IN
  /\ call[r].at = "load"
  /\ Step(r, IF o = None THEN "store" ELSE "add", o)
  /\ UNCHANGED <<counters, count>>

(* Mutant: Store instead of LoadOrStore, the loser of a creation race      *)
(* replaces the published counter.                                         *)
LoadOrStore_Overwrites(r) ==
  /\ call[r].at = "store"
  /\ counters' = [counters EXCEPT ![call[r].key] = r]
  /\ Step(r, "add", r)
  /\ UNCHANGED count

LoadOrStore(r) ==
  LET k == call[r].key
      o == IF counters[k] = None THEN r ELSE counters[k]
  IN
  /\ call[r].at = "store"
  /\ counters' = [counters EXCEPT ![k] = o]
  /\ Step(r, "add", o)
  /\ UNCHANGED count

(* Mutants: the comparison is off by one, either way.                      *)
Add_AdmitsOneMore(r) ==
  LET k == call[r].key
      o == call[r].ctr
  IN
  /\ call[r].at = "add"
  /\ count' = [count EXCEPT ![k][o] = @ + 1]
  /\ Step(r, IF count[k][o] > call[r].limit THEN "undo" ELSE "admitted", o)
  /\ UNCHANGED counters

Add_RejectsOneEarly(r) ==
  LET k == call[r].key
      o == call[r].ctr
  IN
  /\ call[r].at = "add"
  /\ count' = [count EXCEPT ![k][o] = @ + 1]
  /\ Step(r, IF count[k][o] + 1 >= call[r].limit THEN "undo" ELSE "admitted", o)
  /\ UNCHANGED counters

Add(r) ==
  LET k == call[r].key
      o == call[r].ctr
  IN
  /\ call[r].at = "add"
  /\ count' = [count EXCEPT ![k][o] = @ + 1]
  /\ Step(r, IF count[k][o] + 1 > call[r].limit THEN "undo" ELSE "admitted", o)
  /\ UNCHANGED counters

(* Mutant: a caller over the limit waits for a slot instead of returning.  *)
Undo_Waits(r) ==
  /\ call[r].at = "undo"
  /\ count[call[r].key][call[r].ctr] <= call[r].limit
  /\ Step(r, "admitted", call[r].ctr)
  /\ UNCHANGED <<counters, count>>

Undo(r) ==
  /\ call[r].at = "undo"
  /\ count' = [count EXCEPT ![call[r].key][call[r].ctr] = @ - 1]
  /\ call' = [call EXCEPT ![r] = Idle]
  /\ UNCHANGED counters

(* Mutant: Release ignores its limit, so a request admitted while the key  *)
(* was unlimited returns a slot it never took.                             *)
Release_IgnoresLimit(r) ==
  LET k == call[r].key
      o == counters[k]
  IN
  /\ call[r].at = "admitted"
  /\ count' = IF o = None THEN count ELSE [count EXCEPT ![k][o] = @ - 1]
  /\ call' = [call EXCEPT ![r] = Idle]
  /\ UNCHANGED counters

(* Release(keyID, limit), deferred by the request that was admitted.       *)
Release(r) ==
  LET k == call[r].key
      o == counters[k]
  IN
  /\ call[r].at = "admitted"
  /\ count' = IF call[r].limit <= 0 \/ o = None
                THEN count
                ELSE [count EXCEPT ![k][o] = @ - 1]
  /\ call' = [call EXCEPT ![r] = Idle]
  /\ UNCHANGED counters

LimiterNext ==
  \E r \in Requests :
    \/ \E k \in Keys, l \in Limits : AcquireUnlimited(r, k, l) \/ AcquireStart(r, k, l)
    \/ Load(r)
    \/ LoadOrStore(r)
    \/ Add(r)
    \/ Undo(r)
    \/ Release(r)

(* A goroutine that is inside Acquire keeps running.  Nothing forces a     *)
(* client to send another request, nor an admitted one to end: its         *)
(* upstream call may last for ever, so Release has no fairness here.       *)
LimiterFairness ==
  \A r \in Requests : WF_limiterVars(Load(r) \/ LoadOrStore(r) \/ Add(r) \/ Undo(r))

LimiterSpec == LimiterInit /\ [][LimiterNext]_limiterVars /\ LimiterFairness

-----------------------------------------------------------------------------
(* Requests of key k that hold a counted slot.                             *)
Holders(k) ==
  {r \in Requests : call[r].key = k /\ call[r].at = "admitted" /\ call[r].limit > 0}

(* The increment of request r has not been taken back.                     *)
Counted(r) == call[r].at = "undo" \/ (call[r].at = "admitted" /\ call[r].limit > 0)

Occupants(k) == {r \in Requests : call[r].key = k /\ Counted(r)}

(* One counter per key: from its lookup to its release a request works on  *)
(* the counter object published for its key, and an object that lost the   *)
(* creation race never counts anything.                                    *)
OneCounterPerKey ==
  /\ \A r \in Requests :
       /\ call[r].at # "idle" => call[r].key \in Keys
       /\ call[r].at \in {"load", "store", "add", "undo"} => call[r].limit > 0
       /\ call[r].at = "add" \/ Counted(r)
            => call[r].ctr # None /\ counters[call[r].key] = call[r].ctr
  /\ \A k \in Keys, o \in Requests : counters[k] # o => count[k][o] = 0

(* Acquire never over-admits.  Among the requests of a key that hold a     *)
(* slot at the same time, at most n were admitted under a limit of n or    *)
(* less, whatever limits the requests carried (max_concurrent may be       *)
(* PATCHed up and down while they run) and however the Add(1) / Add(-1)    *)
(* pairs of concurrent Acquires interleave.  With one fixed limit this is  *)
(* "at most limit requests in flight".                                     *)
HoldersWithinLimit ==
  \A k \in Keys : \A n \in Limits :
    Cardinality({r \in Holders(k) : call[r].limit <= n}) <= n

(* No slot leaks and none is returned twice: the published counter of a    *)
(* key is exactly the number of requests that hold a slot plus those about *)
(* to take their increment back, so an idle key is at zero again and two   *)
(* handlers racing to create the counter share one object.                 *)
SlotsAccounted ==
  \A k \in Keys : counters[k] # None => count[k][counters[k]] = Cardinality(Occupants(k))

(* The inductive invariant of ConcurrencyLimiterProofs.                    *)
LimiterInv == LimiterTypeOK /\ OneCounterPerKey /\ SlotsAccounted /\ HoldersWithinLimit

(* A rejection is never issued to a lone caller: the caller counted at     *)
(* least `limit' other requests of its key inside the limiter.             *)
RejectedOnlyUnderContention ==
  [][\A r \in Requests :
       call[r].at = "add" /\ call'[r].at = "undo"
         => Cardinality(Occupants(call[r].key)) >= call[r].limit]_limiterVars

(* Acquire rejects, it never queues: the call returns its verdict even if  *)
(* no request that holds a slot ever releases it.                          *)
AcquireReturns ==
  \A r \in Requests :
    call[r].at \in {"load", "store", "add", "undo"} ~> call[r].at \in {"admitted", "idle"}
=============================================================================
