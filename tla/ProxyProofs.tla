------------------------------ MODULE ProxyProofs ------------------------------
(***************************************************************************)
(* Proxy for any set of handlers, keys, settings and costs: the pipeline   *)
(* uses the limiter as it is meant to be used, so every slot comes back    *)
(* and no key exceeds its cap; what reaches an upstream passed every gate; *)
(* what it cost is on the books before its slot is free; and a budget is   *)
(* overshot by no more than one request per handler.                       *)
(*                                                                         *)
(* Most of it is local to one handler and its call of the limiter          *)
(* (LocalOK).  GateOK relates the copy of the key a handler works on to    *)
(* the moment it was made.                                                 *)
(*                                                                         *)
(* The last part is about Shutdown, whose handlers take the steps of the   *)
(* pipeline next to the drain: a drain that runs to its end loses no       *)
(* spend, and slots stay with their requests until the process ends.       *)
(***************************************************************************)
EXTENDS Shutdown, ConcurrencyLimiterProofs

Resolved == {"validate", "check", "rate", "acquire"} \cup Dispatched

(* What is true of a handler with progress q and limiter call c.  It works *)
(* on a key record once it has resolved one; it is inside the limiter only *)
(* while it acquires a slot for a limited key or holds one; and it has no  *)
(* usage before its upstream answered and no bill before its end.          *)
LocalOK(q, c) ==
  /\ q.at \in Resolved => q.key \in Keys /\ q.vkey \in Row
  /\ q.at = "acquire" /\ c.at # "idle" => q.vkey.cfg["max_concurrent"] > 0
  /\ q.at \in Dispatched =>
       /\ c.at \in {"idle", "admitted"}
       /\ c.at = "admitted" <=> q.vkey.cfg["max_concurrent"] > 0
  /\ q.at \notin Dispatched \cup {"acquire"} => c.at = "idle"
  /\ q.at # "release" => q.billed = 0
  /\ q.at \notin Dispatched \/ q.at = "upstream" => q.usage = 0 /\ ~q.stream
  /\ q.at = "record" => ~q.stream

(* The usage of a request that is about to release its slot is recorded.   *)
BilledOK(q) ==
  q.at = "release" /\ q.usage > 0 =>
    \/ q.billed = 1
    \/ MeterFails
    \/ ~q.stream /\ (q.gone \/ q.late)

(* The key of the request has budget left, by the settings of the copy.    *)
Solvent(r) ==
  MeterFails \/ ~Exceeded(req[r].key, today, Setting(r, "daily_budget"), 0)

(* Which gates a handler has seen open.  Between ResolveKey and the checks *)
(* the copy of the key says what was true of the key when it was copied:   *)
(* a copy that would pass now was usable then.  A request whose client has *)
(* left may pass the budget check, but is not dispatched.                  *)
GateOK(r) ==
  /\ req[r].at \notin {"idle", "release"} => "drain" \in seen[r]
  /\ req[r].at \notin {"idle", "release", "killswitch"} => "freeze" \in seen[r]
  /\ req[r].at = "validate" /\ ~IsRevoked(req[r].vkey) /\ ~IsExpired(req[r].vkey, now) /\ Solvent(r)
       => "key" \in seen[r]
  /\ req[r].at = "check" /\ Solvent(r) => "key" \in seen[r]
  /\ req[r].at \in {"rate", "acquire"} => req[r].gone \/ "key" \in seen[r]
  /\ req[r].at \in Dispatched \ {"release"} => "key" \in seen[r]

ProxyInv ==
  /\ ProxyTypeOK
  /\ LimiterInv
  /\ \A r \in Requests : LocalOK(req[r], call[r]) /\ BilledOK(req[r]) /\ GateOK(r)

-----------------------------------------------------------------------------
(* The settings of a resolved key are limits Acquire may be called with.   *)
LEMMA SettingType ==
  ASSUME NEW q, q.vkey \in Row, NEW f \in Fields
  PROVE  /\ q.vkey.cfg[f] \in Values /\ q.vkey.cfg[f] \in Limits
         /\ q.vkey.cfg[f] \in Nat
BY ProxyAssumption, LimiterAssumption DEF Row

(* The three settings ServeHTTP reads are settings of every key.           *)
LEMMA SettingNames ==
  "max_concurrent" \in Fields /\ "daily_budget" \in Fields /\ "timeout" \in Fields
BY ProxyAssumption

(* Usage is a natural number.                                              *)
LEMMA UsageType ==
  ASSUME NEW q \in Progress
  PROVE  q.usage \in Nat
<1>1. q.usage \in Costs \cup {0}
  BY DEF Progress
<1>2. \A c \in Costs \cup {0} : c \in Nat
  BY LedgerAssumption
<1> QED
  BY <1>1, <1>2

(* A handler that is not serving.                                          *)
LEMMA NoRequestOK ==
  /\ NoRequest \in Progress
  /\ NoRequest.at = "idle"
  /\ \A c : c.at = "idle" => LocalOK(NoRequest, c)
  /\ BilledOK(NoRequest)
BY DEF NoRequest, Progress, Routes, Resolved, Dispatched, LocalOK, BilledOK

(* Goto changes nothing of a handler but where it is.                      *)
LEMMA GotoReq ==
  ASSUME req \in [Requests -> Progress], NEW r \in Requests,
         NEW p \in {"idle"} \cup Gatework \cup Dispatched, Goto(r, p)
  PROVE  /\ req' \in [Requests -> Progress]
         /\ \A u \in Requests \ {r} : req'[u] = req[u]
         /\ req'[r].at = p /\ req'[r].key = req[r].key /\ req'[r].vkey = req[r].vkey
         /\ req'[r].usage = req[r].usage /\ req'[r].stream = req[r].stream
         /\ req'[r].gone = req[r].gone /\ req'[r].late = req[r].late
         /\ req'[r].billed = req[r].billed
<1> DEFINE q == [req[r] EXCEPT !.at = p]
<1>1. req[r] \in Progress /\ req' = [req EXCEPT ![r] = q]
  BY DEF Goto
<1>2. /\ q \in Progress
      /\ q.at = p /\ q.key = req[r].key /\ q.vkey = req[r].vkey
      /\ q.usage = req[r].usage /\ q.stream = req[r].stream
      /\ q.gone = req[r].gone /\ q.late = req[r].late /\ q.billed = req[r].billed
  BY <1>1 DEF Progress
<1> HIDE DEF q
<1> QED
  BY <1>1, <1>2

(* Reject ends the request and touches no other.                           *)
LEMMA RejectReq ==
  ASSUME req \in [Requests -> Progress], NEW r \in Requests, Reject(r)
  PROVE  /\ req' \in [Requests -> Progress]
         /\ \A u \in Requests \ {r} : req'[u] = req[u]
         /\ req'[r] = NoRequest
BY NoRequestOK DEF Reject

-----------------------------------------------------------------------------
(* What a step of handler r may do: its own progress stays consistent, the *)
(* other handlers are not touched, the limiter is used by its own          *)
(* operations, spend only grows and nothing else changes.                  *)
Handled(r) ==
  /\ req' \in [Requests -> Progress]
  /\ \A u \in Requests \ {r} : req'[u] = req[u] /\ call'[u] = call[u]
  /\ LocalOK(req'[r], call'[r]) /\ BilledOK(req'[r])
  /\ [LimiterNext]_limiterVars
  /\ UNCHANGED <<tabVars, flags, today>>
  /\ LedgerTypeOK'
  /\ \A k \in Keys : day'[k][today] >= day[k][today]

(* A step of the handler alone.                                            *)
LEMMA OwnStep ==
  ASSUME LedgerTypeOK, NEW r \in Requests,
         req' \in [Requests -> Progress],
         \A u \in Requests \ {r} : req'[u] = req[u],
         LocalOK(req'[r], call[r]), BilledOK(req'[r]),
         UNCHANGED <<limVars, tabVars, ledVars, flags>>
  PROVE  Handled(r)
<1>1. UNCHANGED limiterVars /\ call' = call
  BY DEF limVars, limiterVars
<1>2. UNCHANGED <<tabVars, flags, today>> /\ day' = day /\ month' = month
  BY DEF ledVars
<1>3. LedgerTypeOK' /\ \A k \in Keys : day'[k][today] >= day[k][today]
  BY <1>2 DEF LedgerTypeOK
<1> QED
  BY <1>1, <1>2, <1>3 DEF Handled

(* The state a handler's step starts from.                                 *)
Consistent(r) ==
  /\ LedgerTypeOK /\ LimiterTypeOK /\ TableTypeOK
  /\ req \in [Requests -> Progress]
  /\ LocalOK(req[r], call[r])

(* The gates before the limiter.                                           *)
LEMMA GatesHandled ==
  ASSUME NEW r \in Requests, Consistent(r),
         \/ \E route \in Routes, k \in Keys \cup {None} : Arrive(r, route, k)
         \/ KillSwitch(r) \/ ResolveKey(r) \/ Validate(r) \/ CheckBudget(r) \/ RateLimit(r)
  PROVE  Handled(r)
<1> USE DEF Consistent, At
<1>1. ASSUME NEW route \in Routes, NEW k \in Keys \cup {None}, Arrive(r, route, k)
      PROVE  Handled(r)
  <2> DEFINE q == [NoRequest EXCEPT !.at = "killswitch", !.route = route, !.key = k]
  <2>0. /\ NoRequest \in Progress
        /\ NoRequest.billed = 0 /\ NoRequest.usage = 0 /\ ~NoRequest.stream
    BY NoRequestOK DEF NoRequest
  <2>1. /\ q \in Progress /\ q.at = "killswitch" /\ q.billed = 0 /\ q.usage = 0 /\ ~q.stream
    BY <2>0 DEF Progress, Gatework
  <2>2. req' = [req EXCEPT ![r] = q] /\ req[r].at = "idle"
        /\ UNCHANGED <<limVars, tabVars, ledVars, flags>>
    BY <1>1 DEF Arrive
  <2> HIDE DEF q
  <2>3. LocalOK(q, call[r]) /\ BilledOK(q)
    BY <2>1, <2>2 DEF LocalOK, BilledOK, Resolved, Dispatched
  <2> QED
    BY <2>1, <2>2, <2>3, OwnStep
<1>2. ASSUME NEW p \in {"killswitch", "validate", "check", "rate"}, req[r].at = p, Reject(r),
             UNCHANGED <<limVars, tabVars, ledVars, flags>>
      PROVE  Handled(r)
  <2>1. call[r].at = "idle"
    BY <1>2 DEF LocalOK, Dispatched
  <2> QED
    BY <1>2, <2>1, RejectReq, NoRequestOK, OwnStep
<1>3. ASSUME NEW p \in {"resolve", "check", "rate", "acquire"}, Goto(r, p),
             req[r].at \in {"killswitch", "validate", "check", "rate"},
             p # "resolve" => req[r].at # "killswitch",
             UNCHANGED <<limVars, tabVars, ledVars, flags>>
      PROVE  Handled(r)
  <2>1. /\ req' \in [Requests -> Progress]
        /\ \A u \in Requests \ {r} : req'[u] = req[u]
        /\ req'[r].at = p /\ req'[r].key = req[r].key /\ req'[r].vkey = req[r].vkey
        /\ req'[r].usage = req[r].usage /\ req'[r].stream = req[r].stream
        /\ req'[r].billed = req[r].billed
    BY <1>3, GotoReq DEF Gatework
  <2>2. LocalOK(req'[r], call[r]) /\ BilledOK(req'[r])
    BY <1>3, <2>1 DEF LocalOK, BilledOK, Resolved, Dispatched
  <2> QED
    BY <1>3, <2>1, <2>2, OwnStep
<1>4. CASE KillSwitch(r)
  BY <1>4, <1>2, <1>3 DEF KillSwitch
<1>5. CASE ResolveKey(r)
  <2> USE <1>5 DEF ResolveKey
  <2>1. CASE Reject(r)
    <3>1. call[r].at = "idle"
      BY DEF LocalOK, Dispatched
    <3> QED
      BY <2>1, <3>1, RejectReq, NoRequestOK, OwnStep
  <2>2. CASE /\ req[r].key \in Keys /\ rows[req[r].key] # Nil
             /\ req' = [req EXCEPT ![r].at = "validate", ![r].vkey = rows[req[r].key]]
    <3> DEFINE q == [req[r] EXCEPT !.at = "validate", !.vkey = rows[req[r].key]]
    <3>1. rows[req[r].key] \in Row
      BY <2>2 DEF TableTypeOK
    <3>2. req[r] \in Progress /\ req' = [req EXCEPT ![r] = q]
      BY <2>2
    <3>3. /\ q \in Progress /\ q.at = "validate" /\ q.key = req[r].key
          /\ q.vkey = rows[req[r].key] /\ q.usage = req[r].usage
          /\ q.stream = req[r].stream /\ q.billed = req[r].billed
      BY <3>1, <3>2 DEF Progress, Gatework
    <3> HIDE DEF q
    <3>4. LocalOK(q, call[r]) /\ BilledOK(q)
      BY <2>2, <3>1, <3>3 DEF LocalOK, BilledOK, Resolved, Dispatched
    <3> QED
      BY <3>2, <3>3, <3>4, OwnStep
  <2> QED
    BY <2>1, <2>2
<1>6. CASE Validate(r)
  BY <1>6, <1>2, <1>3 DEF Validate
<1>7. CASE CheckBudget(r)
  BY <1>7, <1>2, <1>3 DEF CheckBudget
<1>8. CASE RateLimit(r)
  BY <1>8, <1>2, <1>3 DEF RateLimit
<1> QED
  BY <1>1, <1>4, <1>5, <1>6, <1>7, <1>8

(* A step inside the limiter.                                              *)
LEMMA LimiterStep ==
  ASSUME NEW r \in Requests, Consistent(r),
         req' \in [Requests -> Progress],
         \A u \in Requests \ {r} : req'[u] = req[u] /\ call'[u] = call[u],
         LocalOK(req'[r], call'[r]), BilledOK(req'[r]),
         LimiterNext,
         UNCHANGED <<tabVars, ledVars, flags>>
  PROVE  Handled(r)
<1>1. UNCHANGED <<tabVars, flags, today>> /\ day' = day /\ month' = month
  BY DEF ledVars
<1>2. LedgerTypeOK' /\ \A k \in Keys : day'[k][today] >= day[k][today]
  BY <1>1 DEF LedgerTypeOK, Consistent
<1> QED
  BY <1>1, <1>2 DEF Handled

(* A handler that calls Acquire holds a resolved key of the limiter.       *)
LEMMA AcquiresForKey ==
  ASSUME NEW r \in Requests, Consistent(r), req[r].at = "acquire"
  PROVE  /\ req[r].key \in Keys /\ req[r].vkey \in Row
         /\ Setting(r, "max_concurrent") \in Limits /\ Setting(r, "max_concurrent") \in Nat
<1>1. req[r].key \in Keys /\ req[r].vkey \in Row
  BY DEF Consistent, LocalOK, Resolved
<1> QED
  BY <1>1, SettingType, SettingNames DEF Setting

(* The steps that take a slot, or go without one when the key is unlimited.*)
LEMMA AcquireHandled ==
  ASSUME NEW r \in Requests, Consistent(r),
         DispatchUnlimited(r) \/ Acquire(r) \/ AcquireStep(r) \/ Dispatch(r) \/ RejectConcurrency(r)
  PROVE  Handled(r)
<1> USE DEF Consistent, At
<1>t. call \in [Requests -> [at : Phases, key : Keys \cup {None}, limit : Limits \cup {0},
                             ctr : Requests \cup {None}]]
  BY DEF LimiterTypeOK
<1>1. ASSUME req[r].at = "acquire", RoundTrip(r), UNCHANGED <<limVars, tabVars, ledVars, flags>>,
             call[r].at \in {"idle", "admitted"},
             call[r].at = "admitted" <=> Setting(r, "max_concurrent") > 0
      PROVE  Handled(r)
  <2>1. PICK p \in {"release", "upstream"} : Goto(r, p)
    BY <1>1 DEF RoundTrip
  <2>2. /\ req' \in [Requests -> Progress]
        /\ \A u \in Requests \ {r} : req'[u] = req[u]
        /\ req'[r].at = p /\ req'[r].key = req[r].key /\ req'[r].vkey = req[r].vkey
        /\ req'[r].usage = req[r].usage /\ req'[r].stream = req[r].stream
        /\ req'[r].billed = req[r].billed
    BY <2>1, GotoReq DEF Dispatched
  <2>3. LocalOK(req'[r], call[r]) /\ BilledOK(req'[r])
    BY <1>1, <2>2 DEF LocalOK, BilledOK, Resolved, Dispatched, Setting
  <2> QED
    BY <1>1, <2>2, <2>3, OwnStep
<1>2. CASE DispatchUnlimited(r)
  <2>1. /\ req[r].at = "acquire" /\ Setting(r, "max_concurrent") = 0 /\ RoundTrip(r)
        /\ UNCHANGED <<limVars, tabVars, ledVars, flags>>
    BY <1>2 DEF DispatchUnlimited
  <2>2. call[r].at = "idle" /\ ~(Setting(r, "max_concurrent") > 0)
    BY <2>1 DEF LocalOK, Setting
  <2> QED
    BY <1>1, <2>1, <2>2
<1>3. CASE Dispatch(r)
  <2>1. /\ req[r].at = "acquire" /\ call[r].at = "admitted" /\ RoundTrip(r)
        /\ UNCHANGED <<limVars, tabVars, ledVars, flags>>
    BY <1>3 DEF Dispatch
  <2>2. Setting(r, "max_concurrent") > 0
    BY <2>1 DEF LocalOK, Setting
  <2> QED
    BY <1>1, <2>1, <2>2
<1>4. ASSUME req[r].at = "acquire", Setting(r, "max_concurrent") > 0,
             LimiterNext, req' = req, call'[r].at # "idle",
             \A u \in Requests \ {r} : call'[u] = call[u],
             UNCHANGED <<tabVars, ledVars, flags>>
      PROVE  Handled(r)
  <2>1. LocalOK(req'[r], call'[r]) /\ BilledOK(req'[r])
    BY <1>4 DEF LocalOK, BilledOK, Resolved, Dispatched, Setting
  <2> QED
    BY <1>4, <2>1, LimiterStep
<1>5. CASE Acquire(r)
  <2>1. /\ req[r].at = "acquire" /\ req' = req
        /\ AcquireStart(r, req[r].key, Setting(r, "max_concurrent"))
        /\ UNCHANGED <<tabVars, ledVars, flags>>
    BY <1>5 DEF Acquire
  <2>2. Setting(r, "max_concurrent") > 0 /\ call'[r].at = "load"
        /\ \A u \in Requests \ {r} : call'[u] = call[u]
    BY <2>1, <1>t DEF AcquireStart
  <2>3. LimiterNext
    BY <2>1, AcquiresForKey DEF LimiterNext
  <2> QED
    BY <1>4, <2>1, <2>2, <2>3
<1>6. CASE AcquireStep(r)
  <2>1. /\ Load(r) \/ LoadOrStore(r) \/ Add(r)
        /\ req' = req /\ UNCHANGED <<tabVars, ledVars, flags>>
    BY <1>6 DEF AcquireStep
  <2>2. /\ call[r].at \in {"load", "store", "add"}
        /\ call'[r].at \in {"store", "add", "undo", "admitted"}
        /\ \A u \in Requests \ {r} : call'[u] = call[u]
    BY <2>1, <1>t DEF Load, LoadOrStore, Add, Step
  <2>3. req[r].at = "acquire" /\ Setting(r, "max_concurrent") > 0
    BY <2>2 DEF LocalOK, Setting
  <2>4. LimiterNext
    BY <2>1 DEF LimiterNext
  <2> QED
    BY <1>4, <2>1, <2>2, <2>3, <2>4
<1>7. CASE RejectConcurrency(r)
  <2>1. Undo(r) /\ Reject(r) /\ UNCHANGED <<tabVars, ledVars, flags>>
    BY <1>7 DEF RejectConcurrency
  <2>2. call'[r].at = "idle" /\ \A u \in Requests \ {r} : call'[u] = call[u]
    BY <2>1, <1>t DEF Undo, Idle
  <2>3. LimiterNext
    BY <2>1 DEF LimiterNext
  <2> QED
    BY <2>1, <2>2, <2>3, RejectReq, NoRequestOK, LimiterStep
<1> QED
  BY <1>2, <1>3, <1>5, <1>6, <1>7

(* A step of a dispatched handler that moves it on or changes what it has  *)
(* learnt of the answer, without a bill.                                   *)
LEMMA DispatchedStep ==
  ASSUME NEW r \in Requests, Consistent(r), NEW q \in Progress,
         req' = [req EXCEPT ![r] = q],
         UNCHANGED <<limVars, tabVars, ledVars, flags>>,
         req[r].at \in Dispatched, q.at \in Dispatched,
         q.key = req[r].key, q.vkey = req[r].vkey,
         q.billed = req[r].billed, req[r].at # "release",
         q.at = "upstream" => q.usage = 0 /\ ~q.stream,
         q.at = "record" => ~q.stream,
         BilledOK(q)
  PROVE  Handled(r)
<1>1. LocalOK(q, call[r])
  BY DEF Consistent, LocalOK, Resolved, Dispatched
<1> QED
  BY <1>1, OwnStep DEF Consistent

(* The adapter.                                                            *)
LEMMA AdapterHandled ==
  ASSUME NEW r \in Requests, Consistent(r), Adapter(r)
  PROVE  Handled(r)
<1> USE DEF At
<1>t. req[r] \in Progress
  BY DEF Consistent
<1>1. ASSUME NEW p \in {"closing", "release"}, Goto(r, p),
             UNCHANGED <<limVars, tabVars, ledVars, flags>>,
             req[r].at \in {"upstream", "stream"}, p = "release" => req[r].usage = 0
      PROVE  Handled(r)
  <2> DEFINE q == [req[r] EXCEPT !.at = p]
  <2>1. /\ q \in Progress /\ q.at = p /\ q.key = req[r].key /\ q.vkey = req[r].vkey
        /\ q.usage = req[r].usage /\ q.stream = req[r].stream /\ q.billed = req[r].billed
    BY <1>t DEF Progress, Dispatched
  <2>2. req' = [req EXCEPT ![r] = q]
    BY <1>1 DEF Goto
  <2> HIDE DEF q
  <2>3. BilledOK(q)
    BY <1>1, <2>1 DEF BilledOK
  <2> QED
    BY <1>1, <2>1, <2>2, <2>3, DispatchedStep DEF Dispatched
<1>2. CASE UpstreamFails(r)
  <2>1. req[r].at = "upstream" /\ req[r].usage = 0
    BY <1>2 DEF UpstreamFails, Consistent, LocalOK
  <2>2. Goto(r, "release") /\ UNCHANGED <<limVars, tabVars, ledVars, flags>>
    BY <1>2 DEF UpstreamFails
  <2> QED
    BY <1>1, <2>1, <2>2
<1>3. CASE StreamEnds(r)
  <2>1. req[r].usage \in Nat
    BY <1>t, UsageType
  <2>2. /\ req[r].at = "stream" /\ UNCHANGED <<limVars, tabVars, ledVars, flags>>
        /\ Goto(r, IF req[r].usage > 0 THEN "closing" ELSE "release")
    BY <1>3 DEF StreamEnds
  <2> QED
    BY <1>1, <2>1, <2>2
<1>4. CASE RespondsStream(r)
  <2> DEFINE q == [req[r] EXCEPT !.at = "stream", !.stream = TRUE]
  <2>1. /\ q \in Progress /\ q.at = "stream" /\ q.key = req[r].key /\ q.vkey = req[r].vkey
        /\ q.billed = req[r].billed
    BY <1>t DEF Progress, Dispatched
  <2>2. req' = [req EXCEPT ![r] = q] /\ req[r].at = "upstream"
        /\ UNCHANGED <<limVars, tabVars, ledVars, flags>>
    BY <1>4 DEF RespondsStream
  <2> HIDE DEF q
  <2> QED
    BY <2>1, <2>2, DispatchedStep DEF Dispatched, BilledOK
<1>5. ASSUME NEW u \in Costs \cup {0}, RespondsJSON(r, u) PROVE Handled(r)
  <2> DEFINE p == IF u > 0 THEN "record" ELSE "release"
             q == [req[r] EXCEPT !.at = p, !.usage = u]
  <2>0. u \in Nat
    BY LedgerAssumption
  <2>1. /\ q \in Progress /\ q.at = p /\ q.usage = u /\ q.key = req[r].key
        /\ q.vkey = req[r].vkey /\ q.stream = req[r].stream /\ q.billed = req[r].billed
    BY <1>t DEF Progress, Dispatched
  <2>2. req' = [req EXCEPT ![r] = q] /\ req[r].at = "upstream"
        /\ UNCHANGED <<limVars, tabVars, ledVars, flags>>
    BY <1>5 DEF RespondsJSON
  <2>3. ~req[r].stream
    BY <2>2 DEF Consistent, LocalOK
  <2>4. p \in {"record", "release"} /\ (p = "release" => u = 0)
    BY <2>0
  <2> HIDE DEF q, p
  <2>5. BilledOK(q)
    BY <2>0, <2>1, <2>4 DEF BilledOK
  <2> QED
    BY <2>1, <2>2, <2>3, <2>4, <2>5, DispatchedStep DEF Dispatched
<1>6. ASSUME NEW u \in Costs \cup {0}, StreamUsage(r, u) PROVE Handled(r)
  <2> DEFINE q == [req[r] EXCEPT !.usage = u]
  <2>1. /\ q \in Progress /\ q.at = req[r].at /\ q.key = req[r].key
        /\ q.vkey = req[r].vkey /\ q.billed = req[r].billed
    BY <1>t DEF Progress
  <2>2. req' = [req EXCEPT ![r] = q] /\ req[r].at = "stream"
        /\ UNCHANGED <<limVars, tabVars, ledVars, flags>>
    BY <1>6 DEF StreamUsage
  <2> HIDE DEF q
  <2> QED
    BY <2>1, <2>2, DispatchedStep DEF Dispatched, BilledOK
<1> QED
  BY <1>2, <1>3, <1>4, <1>5, <1>6 DEF Adapter

(* The bill: Record on the request's key, or the error path of recordSpend.*)
LEMMA RecordHandled ==
  ASSUME NEW r \in Requests, Consistent(r), RecordSpend(r)
  PROVE  Handled(r)
<1> USE DEF At
<1>t. /\ req[r] \in Progress /\ req[r].at \in {"record", "closing"}
      /\ req[r].key \in Keys /\ req[r].billed = 0
      /\ req[r].at = "record" => ~req[r].stream
      /\ UNCHANGED <<limVars, tabVars, flags>>
  BY DEF Consistent, LocalOK, Resolved, Dispatched, RecordSpend
<1>1. CASE Bill(r)
  <2> DEFINE q == [req[r] EXCEPT !.at = "release", !.billed = 1]
             c == req[r].usage
             k == req[r].key
  <2>1. /\ q \in Progress /\ q.at = "release" /\ q.key = req[r].key /\ q.vkey = req[r].vkey
        /\ q.billed = 1
    <3>1. req[r] \in Progress /\ 1 \in 0..1
      BY <1>t
    <3> QED
      BY <3>1 DEF Progress, Dispatched
  <2>2. req' = [req EXCEPT ![r] = q]
    <3>1. req[r].billed + 1 = 1
      BY <1>t
    <3> QED
      BY <1>1, <3>1 DEF Bill
  <2>3. LocalOK(q, call[r]) /\ BilledOK(q)
    BY <1>t, <2>1 DEF Consistent, LocalOK, BilledOK, Resolved, Dispatched
  <2>4. /\ today \in Days /\ c \in Nat /\ MonthOf(today) \in Months
        /\ UNCHANGED today
        /\ day' = [day EXCEPT ![k][today] = @ + c]
        /\ month' = [month EXCEPT ![k][MonthOf(today)] = @ + c]
        /\ LedgerTypeOK
    <3>1. today \in Days /\ LedgerTypeOK
      BY DEF Consistent, LedgerTypeOK
    <3>2. c \in Nat /\ MonthOf(today) \in Months
      BY <1>t, <3>1, UsageType DEF Months
    <3>3. Record(k, today, c)
      BY <1>1 DEF Bill
    <3> QED
      BY <3>1, <3>2, <3>3 DEF Record
  <2>5. k \in Keys
    BY <1>t
  <2> HIDE DEF q, c, k
  <2>6. LedgerTypeOK' /\ \A i \in Keys : day'[i][today] >= day[i][today]
    <3> HIDE DEF Days, Months, MonthOf
    <3>1. /\ day' \in [Keys -> [Days -> Nat]]
          /\ \A i \in Keys : day'[i][today] >= day[i][today]
      BY <2>4, <2>5 DEF LedgerTypeOK
    <3>2. month' \in [Keys -> [Months -> Nat]]
      BY <2>4, <2>5 DEF LedgerTypeOK
    <3> QED
      BY <2>4, <3>1, <3>2 DEF LedgerTypeOK
  <2>7. UNCHANGED limiterVars /\ call' = call
    BY <1>t DEF limVars, limiterVars
  <2> QED
    BY <1>t, <2>1, <2>2, <2>3, <2>4, <2>6, <2>7 DEF Handled, Consistent
<1>2. CASE RecordFails(r) /\ (MeterFails \/ (At(r, "record") /\ CtxDone(r)))
  <2> DEFINE q == [req[r] EXCEPT !.at = "release"]
  <2>1. /\ q \in Progress /\ q.at = "release" /\ q.key = req[r].key /\ q.vkey = req[r].vkey
        /\ q.billed = req[r].billed /\ q.stream = req[r].stream
        /\ q.gone = req[r].gone /\ q.late = req[r].late
    BY <1>t DEF Progress, Dispatched
  <2>2. req' = [req EXCEPT ![r] = q] /\ UNCHANGED ledVars
    BY <1>2 DEF RecordFails, Goto
  <2> HIDE DEF q
  <2>3. BilledOK(q)
    BY <1>2, <1>t, <2>1 DEF BilledOK, CtxDone
  <2> QED
    BY <1>t, <2>1, <2>2, <2>3, DispatchedStep DEF Dispatched
<1> QED
  BY <1>1, <1>2 DEF RecordSpend

(* The end of a request, and what its client and its timer do meanwhile.   *)
LEMMA EndHandled ==
  ASSUME NEW r \in Requests, Consistent(r), Return(r) \/ ClientGone(r) \/ Deadline(r)
  PROVE  Handled(r)
<1> USE DEF At
<1>t. req[r] \in Progress /\ req \in [Requests -> Progress]
      /\ call \in [Requests -> [at : Phases, key : Keys \cup {None}, limit : Limits \cup {0},
                                ctr : Requests \cup {None}]]
  BY DEF Consistent, LimiterTypeOK
<1>1. CASE Return(r)
  <2>1. /\ req[r].at = "release" /\ Reject(r) /\ UNCHANGED <<tabVars, ledVars, flags>>
        /\ IF call[r].at = "admitted" THEN Release(r) ELSE UNCHANGED limVars
    BY <1>1 DEF Return
  <2>2. call[r].at \in {"idle", "admitted"}
    BY <2>1 DEF Consistent, LocalOK, Dispatched
  <2>3. CASE call[r].at = "admitted"
    <3>1. Release(r) /\ LimiterNext
      BY <2>1, <2>3 DEF LimiterNext
    <3>2. call'[r].at = "idle" /\ \A u \in Requests \ {r} : call'[u] = call[u]
      BY <1>t, <3>1 DEF Release, Idle
    <3> QED
      BY <1>t, <2>1, <3>1, <3>2, RejectReq, NoRequestOK, LimiterStep
  <2>4. CASE call[r].at = "idle"
    BY <1>t, <2>1, <2>4, RejectReq, NoRequestOK, OwnStep DEF Consistent
  <2> QED
    BY <2>2, <2>3, <2>4
<1>2. ASSUME NEW q \in Progress, req' = [req EXCEPT ![r] = q],
             req[r].at # "release",
             q.at = req[r].at, q.key = req[r].key, q.vkey = req[r].vkey,
             q.usage = req[r].usage, q.stream = req[r].stream, q.billed = req[r].billed,
             UNCHANGED <<limVars, tabVars, ledVars, flags>>
      PROVE  Handled(r)
  <2>1. LocalOK(q, call[r]) /\ BilledOK(q)
    BY <1>2 DEF Consistent, LocalOK, BilledOK
  <2> QED
    BY <1>t, <1>2, <2>1, OwnStep DEF Consistent
<1>3. CASE ClientGone(r)
  <2> DEFINE q == [req[r] EXCEPT !.gone = TRUE]
  <2>1. /\ q \in Progress /\ q.at = req[r].at /\ q.key = req[r].key /\ q.vkey = req[r].vkey
        /\ q.usage = req[r].usage /\ q.stream = req[r].stream /\ q.billed = req[r].billed
    BY <1>t DEF Progress
  <2>2. req' = [req EXCEPT ![r] = q] /\ req[r].at # "release"
        /\ UNCHANGED <<limVars, tabVars, ledVars, flags>>
    BY <1>3 DEF ClientGone
  <2> HIDE DEF q
  <2> QED
    BY <1>2, <2>1, <2>2
<1>4. CASE Deadline(r)
  <2> DEFINE q == [req[r] EXCEPT !.late = TRUE]
  <2>1. /\ q \in Progress /\ q.at = req[r].at /\ q.key = req[r].key /\ q.vkey = req[r].vkey
        /\ q.usage = req[r].usage /\ q.stream = req[r].stream /\ q.billed = req[r].billed
    BY <1>t DEF Progress
  <2>2. req' = [req EXCEPT ![r] = q] /\ req[r].at # "release"
        /\ UNCHANGED <<limVars, tabVars, ledVars, flags>>
    BY <1>4 DEF Deadline
  <2> HIDE DEF q
  <2> QED
    BY <1>2, <2>1, <2>2
<1> QED
  BY <1>1, <1>3, <1>4

(* Every step of a handler.                                                *)
LEMMA HandleHandled ==
  ASSUME NEW r \in Requests, Consistent(r), Handle(r)
  PROVE  Handled(r)
BY GatesHandled, AcquireHandled, AdapterHandled, RecordHandled, EndHandled DEF Handle, Gates

-----------------------------------------------------------------------------
(* What a handler on its way has seen after a step.                        *)
LEMMA Observed ==
  ASSUME Observe, NEW r \in Requests
  PROVE  /\ seen'[r] = {} \/ req'[r].at \notin {"idle", "release"}
         /\ req'[r].at \notin {"idle", "release"} =>
              /\ seen[r] \subseteq seen'[r]
              /\ ~draining' => "drain" \in seen'[r]
              /\ ~frozen' => "freeze" \in seen'[r]
              /\ Usable(req[r].key)' => "key" \in seen'[r]
<1>1. seen'[r] = IF req'[r].at \in {"idle", "release"} THEN {} ELSE seen[r] \cup OpenGates(r)'
  BY DEF Observe
<1>2. /\ ~draining' => "drain" \in OpenGates(r)'
      /\ ~frozen' => "freeze" \in OpenGates(r)'
      /\ Usable(req[r].key)' => "key" \in OpenGates(r)'
  BY DEF OpenGates
<1> QED
  BY <1>1, <1>2

(* A handler that is done, or about to return its slot, has no gates to    *)
(* account for.                                                            *)
LEMMA GateDone ==
  ASSUME NEW r \in Requests, req'[r].at \in {"idle", "release"}
  PROVE  GateOK(r)'
BY DEF GateOK, Dispatched

(* What spend and time may do while a handler is on its way.               *)
TimePasses ==
  /\ LedgerTypeOK /\ LedgerTypeOK' /\ UNCHANGED today
  /\ \A k \in Keys : day'[k][today] >= day[k][today]
  /\ now \in Time /\ now' \in Time /\ now' >= now

(* A copy that has budget left now had it before.                          *)
LEMMA WasSolvent ==
  ASSUME NEW r \in Requests, TimePasses, req[r].key \in Keys, req[r].vkey \in Row,
         req'[r].key = req[r].key, req'[r].vkey = req[r].vkey, Solvent(r)'
  PROVE  Solvent(r)
<1> DEFINE k == req[r].key
           b == req[r].vkey.cfg["daily_budget"]
<1>1. b \in Nat /\ k \in Keys /\ today \in Days /\ today' = today
  BY SettingType, SettingNames DEF TimePasses, LedgerTypeOK
<1>2. day[k][today] \in Nat /\ day'[k][today] \in Nat /\ day'[k][today] >= day[k][today]
  BY <1>1 DEF TimePasses, LedgerTypeOK
<1>3. Solvent(r)' <=> MeterFails \/ ~(b > 0 /\ day'[k][today] >= b)
  BY <1>1 DEF Solvent, Setting, Exceeded
<1>4. Solvent(r) <=> MeterFails \/ ~(b > 0 /\ day[k][today] >= b)
  BY DEF Solvent, Setting, Exceeded
<1> HIDE DEF k, b
<1> QED
  BY <1>1, <1>2, <1>3, <1>4

(* A copy that has not expired now had not before.                         *)
LEMMA WasNotExpired ==
  ASSUME TimePasses, NEW row \in Row, ~IsExpired(row, now')
  PROVE  ~IsExpired(row, now)
BY TableAssumption DEF TimePasses, IsExpired, Row, Time

(* A handler that stays where it is keeps what it has seen.                *)
LEMMA GateKept ==
  ASSUME NEW r \in Requests, Consistent(r), GateOK(r), TimePasses, Observe,
         req'[r].at = req[r].at, req'[r].key = req[r].key, req'[r].vkey = req[r].vkey,
         req[r].gone => req'[r].gone
  PROVE  GateOK(r)'
<1>1. CASE req[r].at \in {"idle", "release"}
  BY <1>1, GateDone
<1>2. CASE req[r].at \notin {"idle", "release"}
  <2>1. seen[r] \subseteq seen'[r]
    BY <1>2, Observed
  <2>2. req[r].at \in {"validate", "check"} => (Solvent(r)' => Solvent(r))
    BY WasSolvent DEF Consistent, LocalOK, Resolved
  <2>3. req[r].at = "validate" /\ ~IsExpired(req[r].vkey, now') => ~IsExpired(req[r].vkey, now)
    BY WasNotExpired DEF Consistent, LocalOK, Resolved
  <2> QED
    BY <1>2, <2>1, <2>2, <2>3 DEF GateOK
<1> QED
  BY <1>1, <1>2

(* A dispatched handler that goes on keeps what it has seen.               *)
LEMMA GateDispatched ==
  ASSUME NEW r \in Requests, GateOK(r), Observe,
         req[r].at \in Dispatched \ {"release"}, req'[r].at \in Dispatched
  PROVE  GateOK(r)'
<1>1. CASE req'[r].at = "release"
  BY <1>1, GateDone
<1>2. CASE req'[r].at # "release"
  <2>1. seen[r] \subseteq seen'[r]
    BY <1>2, Observed DEF Dispatched
  <2>2. {"drain", "freeze", "key"} \subseteq seen[r]
    BY DEF GateOK, Dispatched
  <2> QED
    BY <1>2, <2>1, <2>2 DEF GateOK, Dispatched
<1> QED
  BY <1>1, <1>2

(* The gates themselves: each check that passes extends what was seen.     *)
LEMMA GatePassed ==
  ASSUME NEW r \in Requests, Consistent(r), GateOK(r), TimePasses, Observe,
         \/ \E route \in Routes, k \in Keys \cup {None} : Arrive(r, route, k)
         \/ KillSwitch(r) \/ ResolveKey(r) \/ Validate(r) \/ CheckBudget(r) \/ RateLimit(r)
         \/ DispatchUnlimited(r) \/ Dispatch(r)
  PROVE  GateOK(r)'
<1> USE DEF At
<1>t. req \in [Requests -> Progress] /\ req[r] \in Progress
  BY DEF Consistent
<1>d. UNCHANGED <<tabVars, ledVars, flags>>
  BY DEF Arrive, KillSwitch, ResolveKey, Validate, CheckBudget, RateLimit, DispatchUnlimited, Dispatch
<1>0. ASSUME Reject(r) PROVE GateOK(r)'
  BY <1>0, <1>t, RejectReq, NoRequestOK, GateDone
<1>g. ASSUME NEW p \in {"resolve", "check", "rate", "acquire"}, Goto(r, p)
      PROVE  /\ req'[r].at = p /\ req'[r].key = req[r].key /\ req'[r].vkey = req[r].vkey
             /\ req'[r].gone = req[r].gone /\ seen[r] \subseteq seen'[r]
  <2>1. /\ req'[r].at = p /\ req'[r].key = req[r].key /\ req'[r].vkey = req[r].vkey
        /\ req'[r].gone = req[r].gone
    BY <1>g, <1>t, GotoReq DEF Gatework
  <2> QED
    BY <2>1, Observed
<1>1. ASSUME NEW route \in Routes, NEW k \in Keys \cup {None}, Arrive(r, route, k)
      PROVE  GateOK(r)'
  <2>1. req'[r].at = "killswitch" /\ ~draining'
    BY <1>1, <1>t DEF Arrive, flags, NoRequest
  <2> QED
    BY <2>1, Observed DEF GateOK, Dispatched
<1>2. CASE KillSwitch(r)
  <2>1. CASE Goto(r, "resolve") /\ ~frozen
    <3>1. ~frozen' /\ req[r].at = "killswitch"
      BY <1>2, <2>1, <1>d DEF flags, KillSwitch
    <3>2. "freeze" \in seen'[r] /\ "drain" \in seen'[r]
      BY <2>1, <3>1, <1>g, Observed DEF GateOK
    <3> QED
      BY <2>1, <3>2, <1>g DEF GateOK, Dispatched
  <2> QED
    BY <1>2, <1>0, <2>1 DEF KillSwitch
<1>3. CASE ResolveKey(r)
  <2>1. CASE /\ req[r].key \in Keys /\ rows[req[r].key] # Nil
             /\ req' = [req EXCEPT ![r].at = "validate", ![r].vkey = rows[req[r].key]]
    <3> DEFINE q == [req[r] EXCEPT !.at = "validate", !.vkey = rows[req[r].key]]
    <3>1. req' = [req EXCEPT ![r] = q]
      BY <2>1
    <3>2. /\ q.at = "validate" /\ q.key = req[r].key /\ q.vkey = rows[req[r].key]
      BY <1>t DEF Progress
    <3> HIDE DEF q
    <3>3. /\ req'[r].at = "validate" /\ req'[r].key = req[r].key
          /\ req'[r].vkey = rows[req[r].key]
      BY <1>t, <3>1, <3>2
    <3>4. /\ seen[r] \subseteq seen'[r] /\ "drain" \in seen[r] /\ "freeze" \in seen[r]
          /\ Usable(req[r].key)' => "key" \in seen'[r]
      BY <1>3, <3>3, Observed DEF ResolveKey, GateOK
    <3>5. /\ rows' = rows /\ now' = now /\ day' = day /\ month' = month /\ today' = today
      BY <1>d DEF tabVars, ledVars
    <3>6. Usable(req[r].key)' <=>
            /\ ~IsRevoked(req'[r].vkey) /\ ~IsExpired(req'[r].vkey, now') /\ Solvent(r)'
      BY <2>1, <3>3, <3>5 DEF Usable, Solvent, Setting, Exceeded, IsRevoked, IsExpired
    <3> QED
      BY <3>3, <3>4, <3>6 DEF GateOK, Dispatched
  <2> QED
    BY <1>3, <1>0, <2>1 DEF ResolveKey
<1>s. req[r].at \in Resolved => req[r].key \in Keys /\ req[r].vkey \in Row
  BY DEF Consistent, LocalOK
<1>4. CASE Validate(r)
  <2>1. CASE /\ Goto(r, "check") /\ ~IsRevoked(req[r].vkey) /\ ~IsExpired(req[r].vkey, now)
    <3>1. /\ Solvent(r) => "key" \in seen[r]
          /\ "drain" \in seen[r] /\ "freeze" \in seen[r] /\ req[r].at = "validate"
      BY <1>4, <2>1 DEF Validate, GateOK
    <3>2. Solvent(r)' => Solvent(r)
      BY <2>1, <3>1, <1>s, <1>g, WasSolvent DEF Resolved
    <3> QED
      BY <2>1, <3>1, <3>2, <1>g DEF GateOK, Dispatched
  <2> QED
    BY <1>4, <1>0, <2>1 DEF Validate
<1>5. CASE CheckBudget(r)
  <2>1. CASE Goto(r, "rate") /\ (Solvent(r) \/ req[r].gone)
    <3>1. /\ Solvent(r) => "key" \in seen[r]
          /\ "drain" \in seen[r] /\ "freeze" \in seen[r]
      BY <1>5 DEF CheckBudget, GateOK
    <3> QED
      BY <2>1, <3>1, <1>g DEF GateOK, Dispatched
  <2> QED
    BY <1>5, <1>0, <2>1 DEF CheckBudget, Solvent
<1>6. CASE RateLimit(r)
  <2>1. CASE Goto(r, "acquire")
    <3>1. /\ req[r].gone \/ "key" \in seen[r]
          /\ "drain" \in seen[r] /\ "freeze" \in seen[r]
      BY <1>6 DEF RateLimit, GateOK
    <3> QED
      BY <2>1, <3>1, <1>g DEF GateOK, Dispatched
  <2> QED
    BY <1>6, <1>0, <2>1 DEF RateLimit
<1>7. CASE DispatchUnlimited(r) \/ Dispatch(r)
  <2>1. /\ req[r].at = "acquire"
        /\ Goto(r, IF req[r].gone THEN "release" ELSE "upstream")
    BY <1>7 DEF DispatchUnlimited, Dispatch, RoundTrip
  <2>2. /\ req[r].gone \/ "key" \in seen[r]
        /\ "drain" \in seen[r] /\ "freeze" \in seen[r]
    BY <2>1 DEF GateOK
  <2>3. CASE req[r].gone
    <3>1. req'[r].at = "release"
      BY <1>t, <2>1, <2>3, GotoReq DEF Dispatched
    <3> QED
      BY <3>1, GateDone
  <2>4. CASE ~req[r].gone
    <3>1. req'[r].at = "upstream"
      BY <1>t, <2>1, <2>4, GotoReq DEF Dispatched
    <3>2. seen[r] \subseteq seen'[r]
      BY <3>1, Observed
    <3> QED
      BY <2>2, <2>4, <3>1, <3>2 DEF GateOK, Dispatched
  <2> QED
    BY <2>3, <2>4
<1> QED
  BY <1>1, <1>2, <1>3, <1>4, <1>5, <1>6, <1>7

(* Every step of a handler keeps what is known of its gates.               *)
LEMMA GateHandled ==
  ASSUME NEW r \in Requests, Consistent(r), GateOK(r), TimePasses, Observe, Handle(r)
  PROVE  GateOK(r)'
<1> USE DEF At
<1>t. req \in [Requests -> Progress] /\ req[r] \in Progress
  BY DEF Consistent
<1>1. ASSUME Acquire(r) \/ AcquireStep(r) PROVE GateOK(r)'
  BY <1>1, GateKept DEF Acquire, AcquireStep
<1>2. ASSUME ClientGone(r) \/ Deadline(r) PROVE GateOK(r)'
  <2>1. /\ req'[r].at = req[r].at /\ req'[r].key = req[r].key /\ req'[r].vkey = req[r].vkey
        /\ req[r].gone => req'[r].gone
    BY <1>2, <1>t DEF ClientGone, Deadline, Progress
  <2> QED
    BY <2>1, GateKept
<1>3. ASSUME RejectConcurrency(r) \/ Return(r) PROVE GateOK(r)'
  BY <1>3, <1>t, RejectReq, NoRequestOK, GateDone DEF RejectConcurrency, Return
<1>4. ASSUME Adapter(r) \/ RecordSpend(r) PROVE GateOK(r)'
  <2>g. ASSUME NEW p \in Dispatched, Goto(r, p) PROVE req'[r].at \in Dispatched
    BY <2>g, <1>t, GotoReq
  <2>1. ASSUME UpstreamFails(r) \/ StreamEnds(r) \/ RecordSpend(r)
        PROVE  req[r].at \in Dispatched \ {"release"} /\ req'[r].at \in Dispatched
    <3>1. req[r].at \in Dispatched \ {"release"}
      BY <2>1 DEF UpstreamFails, StreamEnds, RecordSpend, Dispatched
    <3>2. CASE \E p \in Dispatched : Goto(r, p)
      BY <3>1, <3>2, <2>g
    <3>3. CASE Bill(r)
      BY <3>1, <3>3, <1>t DEF Bill, Progress, Dispatched
    <3> QED
      BY <2>1, <3>2, <3>3 DEF UpstreamFails, StreamEnds, RecordSpend, RecordFails, Dispatched
  <2>2. ASSUME RespondsStream(r)
        PROVE  req[r].at \in Dispatched \ {"release"} /\ req'[r].at \in Dispatched
    BY <2>2, <1>t DEF RespondsStream, Progress, Dispatched
  <2>3. ASSUME NEW u \in Costs \cup {0}, RespondsJSON(r, u)
        PROVE  req[r].at \in Dispatched \ {"release"} /\ req'[r].at \in Dispatched
    BY <2>3, <1>t DEF RespondsJSON, Progress, Dispatched
  <2>4. ASSUME NEW u \in Costs \cup {0}, StreamUsage(r, u)
        PROVE  req[r].at \in Dispatched \ {"release"} /\ req'[r].at \in Dispatched
    BY <2>4, <1>t DEF StreamUsage, Progress, Dispatched
  <2> QED
    BY <1>4, <2>1, <2>2, <2>3, <2>4, GateDispatched DEF Adapter
<1> QED
  BY <1>1, <1>2, <1>3, <1>4, GatePassed DEF Handle, Gates

-----------------------------------------------------------------------------
(* An operation of the keystore leaves a table of rows.                    *)
LEMMA TableStepTyped ==
  ASSUME TableTypeOK, NEW k \in Keys, Administer(k)
  PROVE  TableTypeOK' /\ now' = now
<1>1. ASSUME NEW c \in [Fields -> Values], NEW x \in Time \cup {Nil}, NEW v \in Time \cup {Nil}
      PROVE  [cfg |-> c, expiresAt |-> x, revokedAt |-> v] \in Row
  BY DEF Row
<1>2. \A c \in Configs : c \in [Fields -> Values]
  BY ProxyAssumption
<1>3. rows[k] = Nil \/ (rows[k].cfg \in [Fields -> Values]
                        /\ rows[k].expiresAt \in Time \cup {Nil}
                        /\ rows[k].revokedAt \in Time \cup {Nil})
  BY DEF TableTypeOK, Row
<1>4. ASSUME NEW c \in Configs, NEW e \in Time \cup {Nil}, Create(k, c, e)
      PROVE  TableTypeOK' /\ now' = now
  <2>1. [cfg |-> c, expiresAt |-> e, revokedAt |-> Nil] \in Row
    BY <1>1, <1>2
  <2> QED
    BY <1>4, <2>1 DEF Create, TableTypeOK
<1>5. ASSUME Revoke(k) PROVE TableTypeOK' /\ now' = now
  <2>1. rows[k] # Nil /\ UNCHANGED <<now, backend>>
        /\ rows' = [rows EXCEPT ![k] = [cfg |-> rows[k].cfg, expiresAt |-> rows[k].expiresAt,
                                        revokedAt |-> now]]
    BY <1>5 DEF Revoke, Stamp, TableTypeOK
  <2>2. [cfg |-> rows[k].cfg, expiresAt |-> rows[k].expiresAt, revokedAt |-> now] \in Row
    BY <1>1, <1>3, <2>1 DEF TableTypeOK
  <2> QED
    BY <2>1, <2>2 DEF TableTypeOK
<1>6. ASSUME NEW c \in Configs, NEW e \in Time \cup {Nil, Keep},
             Update(k, [set |-> c, expires |-> e])
      PROVE  TableTypeOK' /\ now' = now
  <2> DEFINE p == [set |-> c, expires |-> e]
             d == [f \in Fields |-> IF f \in DOMAIN p.set THEN p.set[f] ELSE rows[k].cfg[f]]
             x == IF p.expires = Keep THEN rows[k].expiresAt ELSE p.expires
  <2>1. rows[k] # Nil /\ UNCHANGED <<now, backend>>
        /\ rows' = [rows EXCEPT ![k] = ApplyTo(rows[k], p)]
    BY <1>6 DEF Update
  <2>2. ApplyTo(rows[k], p) = [cfg |-> d, expiresAt |-> x, revokedAt |-> rows[k].revokedAt]
    BY DEF ApplyTo
  <2>3. d \in [Fields -> Values]
    BY <1>2, <1>3, <2>1
  <2>4. x \in Time \cup {Nil}
    BY <1>3, <2>1
  <2> HIDE DEF d, x, p
  <2>5. ApplyTo(rows[k], p) \in Row
    BY <1>1, <1>3, <2>1, <2>2, <2>3, <2>4
  <2> QED
    BY <2>1, <2>5 DEF TableTypeOK
<1> QED
  BY <1>4, <1>5, <1>6 DEF Administer

(* Init: no handler is serving.                                            *)
LEMMA ProxyInitInv == ProxyInit => ProxyInv
<1> SUFFICES ASSUME ProxyInit PROVE ProxyInv
  OBVIOUS
<1> USE DEF ProxyInit
<1>1. LimiterInv /\ \A r \in Requests : call[r].at = "idle"
  BY LimiterInitInv DEF LimiterInit, Idle
<1>2. LedgerTypeOK /\ TableTypeOK
  BY LedgerAssumption, TableAssumption
  DEF LedgerInit, LedgerTypeOK, Days, TableInit, TableTypeOK, Time
<1>3. ProxyTypeOK
  <2>1. req \in [Requests -> Progress] /\ frozen \in BOOLEAN /\ draining \in BOOLEAN
    BY NoRequestOK
  <2>2. seen \in [Requests -> SUBSET {"drain", "freeze", "key"}] /\ ops \in 0..MaxOps
    BY ProxyAssumption
  <2> QED
    BY <1>1, <1>2, <2>1, <2>2 DEF ProxyTypeOK, LimiterInv
<1>4. \A r \in Requests : LocalOK(req[r], call[r]) /\ BilledOK(req[r]) /\ GateOK(r)
  BY <1>1, NoRequestOK DEF GateOK, Dispatched
<1> QED
  BY <1>1, <1>3, <1>4 DEF ProxyInv

(* What a handler's history may hold.                                      *)
LEMMA ObserveTyped ==
  ASSUME seen \in [Requests -> SUBSET {"drain", "freeze", "key"}], Observe
  PROVE  seen' \in [Requests -> SUBSET {"drain", "freeze", "key"}]
<1>1. \A r \in Requests : OpenGates(r)' \subseteq {"drain", "freeze", "key"}
  BY DEF OpenGates
<1> QED
  BY <1>1 DEF Observe

(* A step of one handler, seen by all.                                     *)
LEMMA HandlerStepInv ==
  ASSUME ProxyInv, NEW r \in Requests, Handle(r), Observe, UNCHANGED ops
  PROVE  ProxyInv'
<1>1. Consistent(r) /\ GateOK(r)
  BY DEF ProxyInv, ProxyTypeOK, Consistent
<1>2. Handled(r)
  BY <1>1, HandleHandled
<1>3. LimiterInv'
  BY <1>2, LimiterStepInv DEF ProxyInv, Handled
<1>4. TableTypeOK' /\ now' = now /\ frozen' = frozen /\ draining' = draining
  BY <1>2 DEF Handled, tabVars, flags, ProxyInv, ProxyTypeOK, TableTypeOK
<1>5. ProxyTypeOK'
  BY <1>2, <1>3, <1>4, ObserveTyped DEF ProxyInv, ProxyTypeOK, LimiterInv, Handled
<1>6. TimePasses
  BY <1>2, <1>4 DEF TimePasses, Handled, ProxyInv, ProxyTypeOK, TableTypeOK, Time
<1>7. LocalOK(req'[r], call'[r]) /\ BilledOK(req'[r]) /\ GateOK(r)'
  BY <1>1, <1>2, <1>6, GateHandled DEF Handled
<1>8. ASSUME NEW u \in Requests \ {r}
      PROVE  LocalOK(req'[u], call'[u]) /\ BilledOK(req'[u]) /\ GateOK(u)'
  <2>1. req'[u] = req[u] /\ call'[u] = call[u]
    BY <1>2 DEF Handled
  <2>2. Consistent(u) /\ GateOK(u) /\ BilledOK(req[u])
    BY DEF ProxyInv, ProxyTypeOK, Consistent
  <2>3. GateOK(u)'
    BY <1>6, <2>1, <2>2, GateKept
  <2> QED
    BY <2>1, <2>2, <2>3 DEF Consistent
<1>9. \A u \in Requests : LocalOK(req'[u], call'[u]) /\ BilledOK(req'[u]) /\ GateOK(u)'
  BY <1>7, <1>8
<1> QED
  BY <1>3, <1>5, <1>9 DEF ProxyInv

(* A step of the operators or of the clock, seen by the handlers.          *)
LEMMA OutsideStepInv ==
  ASSUME ProxyInv, Operate \/ (ClockTick /\ UNCHANGED ops), Observe
  PROVE  ProxyInv'
<1>1. UNCHANGED <<limVars, ledVars, req>>
  BY DEF Operate, ClockTick
<1>2. LimiterInv'
  BY <1>1, LimiterStepInv DEF ProxyInv, limVars, limiterVars
<1>3. TableTypeOK' /\ now' >= now /\ frozen' \in BOOLEAN /\ draining' \in BOOLEAN
  <2>t. TableTypeOK /\ frozen \in BOOLEAN /\ draining \in BOOLEAN /\ now \in Nat
    BY DEF ProxyInv, ProxyTypeOK, TableTypeOK, Time
  <2>1. CASE ClockTick
    BY <2>t, <2>1, TableAssumption DEF ClockTick, Tick, TableTypeOK, Time, flags
  <2>2. ASSUME NEW k \in Keys, Administer(k)
        PROVE  TableTypeOK' /\ now' >= now /\ frozen' \in BOOLEAN /\ draining' \in BOOLEAN
    BY <2>t, <2>2, TableStepTyped DEF Administer, flags
  <2>3. CASE SetDraining \/ \E v \in BOOLEAN : SetFrozen(v)
    <3>1. rows' = rows /\ now' = now /\ backend' = backend
      BY <2>3 DEF SetDraining, SetFrozen, tabVars
    <3>2. frozen' \in BOOLEAN /\ draining' \in BOOLEAN
      BY <2>t, <2>3 DEF SetDraining, SetFrozen
    <3> QED
      BY <2>t, <3>1, <3>2 DEF TableTypeOK
  <2> QED
    BY <2>1, <2>2, <2>3 DEF Operate
<1>4. ops' \in 0..MaxOps
  BY ProxyAssumption DEF Operate, ProxyInv, ProxyTypeOK
<1>5. LedgerTypeOK' /\ day' = day /\ today' = today /\ LedgerTypeOK
  BY <1>1 DEF ledVars, LedgerTypeOK, ProxyInv, ProxyTypeOK
<1>6. ProxyTypeOK'
  BY <1>1, <1>2, <1>3, <1>4, <1>5, ObserveTyped DEF ProxyInv, ProxyTypeOK, LimiterInv
<1>7. TimePasses
  BY <1>3, <1>5 DEF TimePasses, ProxyInv, ProxyTypeOK, LedgerTypeOK, TableTypeOK, Time
<1>8. ASSUME NEW u \in Requests
      PROVE  LocalOK(req'[u], call'[u]) /\ BilledOK(req'[u]) /\ GateOK(u)'
  <2>1. req' = req /\ call' = call
    BY <1>1 DEF limVars
  <2>2. Consistent(u) /\ GateOK(u) /\ BilledOK(req[u])
    BY DEF ProxyInv, ProxyTypeOK, Consistent
  <2>3. GateOK(u)'
    BY <1>7, <2>1, <2>2, GateKept
  <2> QED
    BY <2>1, <2>2, <2>3 DEF Consistent
<1> QED
  BY <1>2, <1>6, <1>8 DEF ProxyInv

(* Every step of the pipeline keeps the invariant.                         *)
LEMMA ProxyStepInv ==
  ASSUME ProxyInv, [ProxyNext]_proxyVars
  PROVE  ProxyInv'
<1>1. CASE ProxyNext
  BY <1>1, HandlerStepInv, OutsideStepInv DEF ProxyNext
<1>2. CASE UNCHANGED proxyVars
  <2>1. /\ UNCHANGED <<day, month, today, rows, now, backend, frozen, draining, req, seen, ops, call>>
        /\ UNCHANGED limiterVars
    BY <1>2 DEF proxyVars, limVars, limiterVars, tabVars, ledVars, flags
  <2>2. LimiterInv'
    BY <2>1, LimiterStepInv DEF ProxyInv
  <2>3. ProxyTypeOK'
    BY <2>1, <2>2 DEF ProxyInv, ProxyTypeOK, LimiterInv, LedgerTypeOK, TableTypeOK
  <2>4. \A u \in Requests : GateOK(u)'
    BY <2>1 DEF ProxyInv, GateOK, Solvent, Setting, Exceeded
  <2> QED
    BY <2>1, <2>2, <2>3, <2>4 DEF ProxyInv
<1> QED
  BY <1>1, <1>2

(* The invariant holds in every reachable state of the pipeline.           *)
THEOREM ProxyInvariant == ProxySpec => []ProxyInv
<1>1. ProxyInit => ProxyInv
  BY ProxyInitInv
<1>2. ProxyInv /\ [ProxyNext]_proxyVars => ProxyInv'
  BY ProxyStepInv
<1> QED
  BY <1>1, <1>2, PTL DEF ProxySpec

(* The pipeline keeps its types: no counter, bucket or copy of a key is    *)
(* ever anything else, whatever handlers, clients and operators do.        *)
THEOREM ProxyIsTyped == ProxySpec => []ProxyTypeOK
BY ProxyInvariant, PTL DEF ProxyInv

(* Exactly the dispatched requests of limited keys hold slots: no way into *)
(* or out of ServeHTTP leaks one or returns one it never took, although    *)
(* max_concurrent may be PATCHed while they run.                           *)
THEOREM SlotsFollow == ProxySpec => []SlotsFollowRequests
<1>1. ProxyInv => SlotsFollowRequests
  BY DEF ProxyInv, SlotsFollowRequests, LocalOK, Setting
<1> QED
  BY <1>1, ProxyInvariant, PTL

(* No request reaches its upstream without having passed every gate at a   *)
(* moment the gate was open, although the checks work on a copy.           *)
THEOREM GatesHold == ProxySpec => []GatesEnforced
<1>1. ProxyInv => GatesEnforced
  <2> SUFFICES ASSUME ProxyInv, NEW r \in Requests, req[r].at \in Dispatched \ {"release"}
               PROVE  seen[r] = {"drain", "freeze", "key"}
    BY DEF GatesEnforced
  <2>1. GateOK(r) /\ seen[r] \subseteq {"drain", "freeze", "key"}
    BY DEF ProxyInv, ProxyTypeOK
  <2> QED
    BY <2>1 DEF GateOK, Dispatched
<1> QED
  BY <1>1, ProxyInvariant, PTL

(* Spend is recorded before the slot that paid for it is free.             *)
THEOREM BilledFirst == ProxySpec => []BilledBeforeRelease
<1>1. ProxyInv => BilledBeforeRelease
  BY DEF ProxyInv, BilledBeforeRelease, BilledOK, CtxDone
<1> QED
  BY <1>1, ProxyInvariant, PTL

(* Composition: the handlers of the pipeline use the limiter by its own    *)
(* operations only, and with a key and a limit it may be called with.      *)
THEOREM PipelineUsesLimiter == ProxySpec => UsesLimiter
<1>1. ProxyInit => LimiterInit
  BY DEF ProxyInit
<1>2. ProxyInv /\ [ProxyNext]_proxyVars => [LimiterNext]_limiterVars
  <2> SUFFICES ASSUME ProxyInv, [ProxyNext]_proxyVars
               PROVE  [LimiterNext]_limiterVars
    OBVIOUS
  <2>1. ASSUME NEW r \in Requests, Handle(r) PROVE [LimiterNext]_limiterVars
    <3>1. Consistent(r)
      BY DEF ProxyInv, ProxyTypeOK, Consistent
    <3> QED
      BY <2>1, <3>1, HandleHandled DEF Handled
  <2>2. CASE Operate \/ ClockTick \/ UNCHANGED proxyVars
    BY <2>2 DEF Operate, ClockTick, proxyVars, limVars, limiterVars
  <2> QED
    BY <2>1, <2>2 DEF ProxyNext
<1> QED
  BY <1>1, <1>2, ProxyInvariant, PTL DEF ProxySpec, UsesLimiter

(* So the cap holds in the pipeline: the requests of a key that hold a slot*)
(* are never more than the limit they were admitted under.                 *)
THEOREM PipelineKeepsCap == ProxySpec => []HoldersWithinLimit
BY ProxyInvariant, PTL DEF ProxyInv, LimiterInv

-----------------------------------------------------------------------------
(* The stores of the pipeline.  A handler changes the books by Record only,*)
(* with the key and the cost of its request.                               *)
LEMMA HandlerUsesLedger ==
  ASSUME NEW r \in Requests, Consistent(r), Handle(r)
  PROVE  [LedgerNext]_ledgerVars
<1>1. CASE Bill(r) /\ (At(r, "record") \/ At(r, "closing"))
  <2>1. req[r].key \in Keys /\ today \in Days /\ req[r].usage \in Costs \cup {0}
    BY <1>1 DEF Consistent, LocalOK, Resolved, Dispatched, At, LedgerTypeOK, Progress
  <2>2. Record(req[r].key, today, req[r].usage)
    BY <1>1 DEF Bill
  <2>3. req[r].usage \in Costs
    BY <2>1, <2>2 DEF Record
  <2> QED
    BY <2>1, <2>2, <2>3 DEF LedgerNext
<1>2. CASE UNCHANGED ledVars
  BY <1>2 DEF ledVars, ledgerVars
<1>3. CASE RecordSpend(r)
  BY <1>1, <1>2, <1>3 DEF RecordSpend, RecordFails
<1>4. CASE Gates(r)
  BY <1>2, <1>4 DEF Gates, KillSwitch, ResolveKey, Validate, CheckBudget, RateLimit,
                    DispatchUnlimited, Acquire, AcquireStep, Dispatch, RejectConcurrency
<1>5. CASE Adapter(r)
  BY <1>2, <1>5 DEF Adapter, UpstreamFails, RespondsStream, StreamEnds, RespondsJSON, StreamUsage
<1> QED
  BY <1>2, <1>3, <1>4, <1>5 DEF Handle, Arrive, Return, ClientGone, Deadline

(* The admin API changes the table by the operations of the Store          *)
(* interface only.                                                         *)
LEMMA AdminUsesTable ==
  ASSUME NEW k \in Keys, Administer(k)
  PROVE  TableNext
<1>1. \A c \in Configs : c \in [Fields -> Values]
  BY ProxyAssumption
<1>2. ASSUME NEW c \in Configs, NEW e \in Time \cup {Nil}, Create(k, c, e) PROVE TableNext
  BY <1>1, <1>2 DEF TableNext, TableStep
<1>3. ASSUME NEW c \in Configs, NEW e \in Time \cup {Nil, Keep},
             Update(k, [set |-> c, expires |-> e])
      PROVE  TableNext
  <2>1. c \in UNION {[S -> Values] : S \in SUBSET Fields}
    BY <1>1
  <2>2. [set |-> c, expires |-> e] \in KeyPatch
    BY <2>1 DEF KeyPatch
  <2> QED
    BY <1>3, <2>2 DEF TableNext
<1>4. ASSUME Revoke(k) PROVE TableNext
  BY <1>4 DEF TableNext, TableStep
<1> QED
  BY <1>2, <1>3, <1>4 DEF Administer

(* Composition: all that the pipeline and its operators do to the spend    *)
(* meter and to the keystore are operations of the Meter and Store         *)
(* interfaces.  SqliteMeterProofs shows the SQLite meter to implement the  *)
(* first; KeyStoreProofs shows the keystores to implement KeyPatches,      *)
(* whose steps are steps of the table, when PATCHes do not overlap.        *)
THEOREM PipelineUsesStores == ProxySpec => LedgerSpec /\ TableSpec
<1>1. ProxyInit => LedgerInit /\ TableInit
  BY DEF ProxyInit
<1>2. ProxyInv /\ [ProxyNext]_proxyVars => [LedgerNext]_ledgerVars
  <2> SUFFICES ASSUME ProxyInv, [ProxyNext]_proxyVars PROVE [LedgerNext]_ledgerVars
    OBVIOUS
  <2>1. ASSUME NEW r \in Requests, Handle(r) PROVE [LedgerNext]_ledgerVars
    <3>1. Consistent(r)
      BY DEF ProxyInv, ProxyTypeOK, Consistent
    <3> QED
      BY <2>1, <3>1, HandlerUsesLedger
  <2>2. CASE Operate \/ ClockTick \/ UNCHANGED proxyVars
    BY <2>2 DEF Operate, ClockTick, proxyVars, ledVars, ledgerVars
  <2> QED
    BY <2>1, <2>2 DEF ProxyNext
<1>3. ProxyInv /\ [ProxyNext]_proxyVars => [TableNext]_tableVars
  <2> SUFFICES ASSUME ProxyInv, [ProxyNext]_proxyVars PROVE [TableNext]_tableVars
    OBVIOUS
  <2>1. ASSUME NEW r \in Requests, Handle(r) PROVE [TableNext]_tableVars
    <3>1. Consistent(r)
      BY DEF ProxyInv, ProxyTypeOK, Consistent
    <3> QED
      BY <2>1, <3>1, HandleHandled DEF Handled, tabVars, tableVars
  <2>2. CASE ClockTick
    BY <2>2 DEF ClockTick, TableNext, TableStep
  <2>3. CASE Operate
    BY <2>3, AdminUsesTable DEF Operate, SetFrozen, SetDraining, tabVars, tableVars
  <2>4. CASE UNCHANGED proxyVars
    BY <2>4 DEF proxyVars, tabVars, tableVars
  <2> QED
    BY <2>1, <2>2, <2>3, <2>4 DEF ProxyNext
<1> QED
  BY <1>1, <1>2, <1>3, ProxyInvariant, PTL DEF ProxySpec, LedgerSpec, TableSpec

-----------------------------------------------------------------------------
(* Overshoot, for a budget nobody changes and a meter that does not fail.  *)

(* Every key, and every copy of one, has the settings of Configs.          *)
Configured ==
  /\ \A k \in Keys : rows[k] # Nil => rows[k].cfg \in Configs
  /\ \A r \in Requests : req[r].at \in Resolved => req[r].vkey.cfg \in Configs

OvershootInv == ProxyInv /\ Configured /\ OvershootBounded

(* Requests past the budget check are counted among the handlers.          *)
LEMMA UnbilledFinite ==
  ASSUME NEW k
  PROVE  /\ IsFiniteSet(Unbilled(k)) /\ Cardinality(Unbilled(k)) \in Nat
         /\ IsFiniteSet(Unbilled(k)') /\ Cardinality(Unbilled(k)') \in Nat
         /\ Unbilled(k) \subseteq Requests /\ Unbilled(k)' \subseteq Requests
         /\ Cardinality(Requests) \in Nat
<1>1. Unbilled(k) \subseteq Requests /\ Unbilled(k)' \subseteq Requests
  BY DEF Unbilled
<1>2. IsFiniteSet(Unbilled(k)) /\ IsFiniteSet(Unbilled(k)')
  BY <1>1, LimiterAssumption, FS_Subset
<1> QED
  BY <1>1, <1>2, LimiterAssumption, FS_CardinalityType

(* The most expensive request.                                             *)
LEMMA MaxCostType ==
  ASSUME \E c \in Costs : \A d \in Costs : d <= c
  PROVE  MaxCost \in Nat /\ \A c \in Costs : c <= MaxCost
<1>1. MaxCost \in Costs /\ \A d \in Costs : d <= MaxCost
  BY DEF MaxCost
<1> QED
  BY <1>1, LedgerAssumption

(* Fewer requests cost no more.                                            *)
LEMMA CostMonotone ==
  ASSUME NEW m \in Nat, NEW i \in Nat, NEW j \in Nat, i <= j
  PROVE  m * i <= m * j /\ m * i \in Nat /\ m * j \in Nat /\ m * (i + 1) = m * i + m
OBVIOUS

(* A request that is past the budget check and may still be billed.        *)
Open(q) ==
  \/ q.at \in {"upstream", "stream", "record", "closing"}
  \/ q.at \in {"rate", "acquire"} /\ ~q.gone

(* What a step of handler r means for the budgets: it bills an open request*)
(* and closes it, or it opens none but one whose key had budget left.      *)
Bills(r) ==
  /\ Open(req[r]) /\ ~Open(req'[r])
  /\ req[r].key \in Keys /\ req[r].usage \in Costs
  /\ Record(req[r].key, today, req[r].usage)

OpensSolvent(r) ==
  /\ UNCHANGED day
  /\ Open(req'[r]) =>
       /\ req'[r].key = req[r].key
       /\ \/ Open(req[r])
          \/ /\ req[r].at = "check"
             /\ ~Exceeded(req[r].key, today, Setting(r, "daily_budget"), 0)

(* A handler's copy of the key stays what it was resolved to.              *)
CopyKept(r) ==
  req'[r].at \in Resolved =>
    \/ req[r].at \in Resolved /\ req'[r].vkey = req[r].vkey
    \/ req[r].key \in Keys /\ rows[req[r].key] # Nil /\ req'[r].vkey = rows[req[r].key]

(* A step of a handler bills an open request, or opens none on a spent    *)
(* budget; its copy of the key is kept or new.                             *)
LEMMA HandleSpends ==
  ASSUME NEW r \in Requests, Consistent(r), ~MeterFails, Handle(r)
  PROVE  (Bills(r) \/ OpensSolvent(r)) /\ CopyKept(r)
<1> USE DEF At
<1>t. req \in [Requests -> Progress] /\ req[r] \in Progress
  BY DEF Consistent
<1>u. ledVars' = ledVars => UNCHANGED day
  BY DEF ledVars
<1>0. ASSUME Reject(r), UNCHANGED ledVars PROVE OpensSolvent(r) /\ CopyKept(r)
  BY <1>0, <1>t, <1>u, RejectReq, NoRequestOK DEF OpensSolvent, CopyKept, Open, Resolved, Dispatched
<1>g. ASSUME NEW p \in {"resolve", "check", "rate", "acquire"} \cup Dispatched, Goto(r, p),
             UNCHANGED ledVars,
             p \in Resolved => req[r].at \in Resolved,
             p \in {"upstream", "stream", "record", "closing"} => Open(req[r]),
             p \in {"rate", "acquire"} /\ ~req[r].gone =>
               \/ Open(req[r])
               \/ /\ req[r].at = "check"
                  /\ ~Exceeded(req[r].key, today, Setting(r, "daily_budget"), 0)
      PROVE  OpensSolvent(r) /\ CopyKept(r)
  <2>1. /\ req'[r].at = p /\ req'[r].key = req[r].key /\ req'[r].vkey = req[r].vkey
        /\ req'[r].gone = req[r].gone
    BY <1>g, <1>t, GotoReq DEF Gatework
  <2>2. CopyKept(r)
    BY <1>g, <2>1 DEF CopyKept
  <2>3. Open(req'[r]) => \/ p \in {"upstream", "stream", "record", "closing"}
                         \/ p \in {"rate", "acquire"} /\ ~req[r].gone
    BY <2>1 DEF Open
  <2> QED
    BY <1>g, <1>u, <2>1, <2>2, <2>3 DEF OpensSolvent
<1>q. ASSUME NEW q, req' = [req EXCEPT ![r] = q], q.key = req[r].key, q.vkey = req[r].vkey,
             UNCHANGED ledVars,
             q.at \in Resolved => req[r].at \in Resolved,
             Open(q) => Open(req[r])
      PROVE  OpensSolvent(r) /\ CopyKept(r)
  <2>1. req'[r] = q
    BY <1>q, <1>t
  <2> QED
    BY <1>q, <1>u, <2>1 DEF OpensSolvent, CopyKept
<1>1. ASSUME NEW route \in Routes, NEW k \in Keys \cup {None}, Arrive(r, route, k)
      PROVE  OpensSolvent(r) /\ CopyKept(r)
  <2>1. req'[r].at = "killswitch" /\ UNCHANGED ledVars
    BY <1>1, <1>t DEF Arrive, NoRequest
  <2> QED
    BY <2>1, <1>u DEF OpensSolvent, CopyKept, Open, Resolved, Dispatched
<1>2. ASSUME KillSwitch(r) PROVE OpensSolvent(r) /\ CopyKept(r)
  BY <1>2, <1>0, <1>g DEF KillSwitch, Resolved, Dispatched
<1>3. ASSUME ResolveKey(r) PROVE OpensSolvent(r) /\ CopyKept(r)
  <2>1. CASE /\ req[r].key \in Keys /\ rows[req[r].key] # Nil
             /\ req' = [req EXCEPT ![r].at = "validate", ![r].vkey = rows[req[r].key]]
    <3> DEFINE q == [req[r] EXCEPT !.at = "validate", !.vkey = rows[req[r].key]]
    <3>1. req' = [req EXCEPT ![r] = q]
      BY <2>1
    <3>2. q.at = "validate" /\ q.vkey = rows[req[r].key]
      BY <1>t DEF Progress
    <3> HIDE DEF q
    <3>3. req'[r].at = "validate" /\ req'[r].vkey = rows[req[r].key]
      BY <1>t, <3>1, <3>2
    <3> QED
      BY <1>3, <1>u, <2>1, <3>3 DEF ResolveKey, OpensSolvent, CopyKept, Open
  <2> QED
    BY <1>3, <1>0, <2>1 DEF ResolveKey
<1>4. ASSUME Validate(r) PROVE OpensSolvent(r) /\ CopyKept(r)
  BY <1>4, <1>0, <1>g DEF Validate, Resolved, Dispatched
<1>5. ASSUME CheckBudget(r) PROVE OpensSolvent(r) /\ CopyKept(r)
  BY <1>5, <1>0, <1>g DEF CheckBudget, Resolved, Dispatched
<1>6. ASSUME RateLimit(r) PROVE OpensSolvent(r) /\ CopyKept(r)
  <2>1. CASE Goto(r, "acquire")
    BY <1>6, <2>1, <1>g DEF RateLimit, Resolved, Dispatched, Open
  <2> QED
    BY <1>6, <1>0, <2>1 DEF RateLimit
<1>7. ASSUME DispatchUnlimited(r) \/ Dispatch(r) PROVE OpensSolvent(r) /\ CopyKept(r)
  <2>1. /\ req[r].at = "acquire" /\ UNCHANGED ledVars
        /\ Goto(r, IF req[r].gone THEN "release" ELSE "upstream")
    BY <1>7 DEF DispatchUnlimited, Dispatch, RoundTrip
  <2>2. req[r].at \in Resolved /\ (~req[r].gone => Open(req[r]))
    BY <2>1 DEF Open, Resolved
  <2>3. CASE req[r].gone
    BY <2>1, <2>2, <2>3, <1>g DEF Dispatched
  <2>4. CASE ~req[r].gone
    BY <2>1, <2>2, <2>4, <1>g DEF Dispatched
  <2> QED
    BY <2>3, <2>4
<1>8. ASSUME Acquire(r) \/ AcquireStep(r) PROVE OpensSolvent(r) /\ CopyKept(r)
  BY <1>8, <1>u DEF Acquire, AcquireStep, OpensSolvent, CopyKept
<1>9. ASSUME RejectConcurrency(r) \/ Return(r) PROVE OpensSolvent(r) /\ CopyKept(r)
  BY <1>9, <1>0 DEF RejectConcurrency, Return
<1>10. ASSUME Adapter(r) PROVE OpensSolvent(r) /\ CopyKept(r)
  <2>1. CASE UpstreamFails(r) \/ StreamEnds(r)
    <3>1. /\ req[r].at \in {"upstream", "stream"} /\ UNCHANGED ledVars
          /\ \E p \in {"closing", "release"} : Goto(r, p)
      BY <2>1 DEF UpstreamFails, StreamEnds
    <3>2. req[r].at \in Resolved /\ Open(req[r])
      BY <3>1 DEF Open, Resolved, Dispatched
    <3> QED
      BY <3>1, <3>2, <1>g DEF Dispatched
  <2>2. CASE RespondsStream(r)
    <3> DEFINE q == [req[r] EXCEPT !.at = "stream", !.stream = TRUE]
    <3>1. q.key = req[r].key /\ q.vkey = req[r].vkey
      BY <1>t DEF Progress
    <3>2. req' = [req EXCEPT ![r] = q] /\ req[r].at = "upstream" /\ UNCHANGED ledVars
      BY <2>2 DEF RespondsStream
    <3> HIDE DEF q
    <3>3. req[r].at \in Resolved /\ Open(req[r])
      BY <3>2 DEF Open, Resolved, Dispatched
    <3> QED
      BY <3>1, <3>2, <3>3, <1>q
  <2>3. ASSUME NEW u \in Costs \cup {0}, RespondsJSON(r, u) PROVE OpensSolvent(r) /\ CopyKept(r)
    <3> DEFINE p == IF u > 0 THEN "record" ELSE "release"
               q == [req[r] EXCEPT !.at = p, !.usage = u]
    <3>1. q.key = req[r].key /\ q.vkey = req[r].vkey
      BY <1>t DEF Progress
    <3>2. req' = [req EXCEPT ![r] = q] /\ req[r].at = "upstream" /\ UNCHANGED ledVars
      BY <2>3 DEF RespondsJSON
    <3> HIDE DEF q
    <3>3. req[r].at \in Resolved /\ Open(req[r])
      BY <3>2 DEF Open, Resolved, Dispatched
    <3> QED
      BY <3>1, <3>2, <3>3, <1>q
  <2>4. ASSUME NEW u \in Costs \cup {0}, StreamUsage(r, u) PROVE OpensSolvent(r) /\ CopyKept(r)
    <3> DEFINE q == [req[r] EXCEPT !.usage = u]
    <3>1. q.key = req[r].key /\ q.vkey = req[r].vkey
      BY <1>t DEF Progress
    <3>2. req' = [req EXCEPT ![r] = q] /\ req[r].at = "stream" /\ UNCHANGED ledVars
      BY <2>4 DEF StreamUsage
    <3> HIDE DEF q
    <3>3. req[r].at \in Resolved /\ Open(req[r])
      BY <3>2 DEF Open, Resolved, Dispatched
    <3> QED
      BY <3>1, <3>2, <3>3, <1>q
  <2> QED
    BY <1>10, <2>1, <2>2, <2>3, <2>4 DEF Adapter
<1>11. ASSUME RecordSpend(r) PROVE (Bills(r) \/ OpensSolvent(r)) /\ CopyKept(r)
  <2>1. /\ req[r].at \in {"record", "closing"} /\ req[r].at \in Resolved
        /\ Open(req[r]) /\ req[r].key \in Keys
    BY <1>11 DEF RecordSpend, Open, Resolved, Dispatched, Consistent, LocalOK
  <2>2. CASE Bill(r)
    <3> DEFINE q == [req[r] EXCEPT !.at = "release", !.billed = @ + 1]
    <3>1. q.at = "release" /\ q.vkey = req[r].vkey
      BY <1>t DEF Progress
    <3>2. req' = [req EXCEPT ![r] = q] /\ Record(req[r].key, today, req[r].usage)
      BY <2>2 DEF Bill
    <3> HIDE DEF q
    <3>3. req'[r].at = "release" /\ req'[r].vkey = req[r].vkey
      BY <1>t, <3>1, <3>2
    <3>4. req[r].usage \in Costs
      <4>1. req[r].usage \in Costs \cup {0} /\ req[r].usage > 0
        BY <1>t, <3>2 DEF Progress, Record
      <4> QED
        BY <4>1
    <3> QED
      BY <2>1, <3>2, <3>3, <3>4 DEF Bills, CopyKept, Open
  <2>3. CASE RecordFails(r)
    BY <2>1, <2>3, <1>g DEF RecordFails, Dispatched
  <2> QED
    BY <1>11, <2>2, <2>3 DEF RecordSpend
<1>12. ASSUME ClientGone(r) \/ Deadline(r) PROVE OpensSolvent(r) /\ CopyKept(r)
  <2>1. /\ req'[r].at = req[r].at /\ req'[r].key = req[r].key /\ req'[r].vkey = req[r].vkey
        /\ req[r].gone => req'[r].gone
        /\ UNCHANGED ledVars
    BY <1>12, <1>t DEF ClientGone, Deadline, Progress
  <2> QED
    BY <2>1, <1>u DEF OpensSolvent, CopyKept, Open
<1> QED
  BY <1>1, <1>2, <1>3, <1>4, <1>5, <1>6, <1>7, <1>8, <1>9, <1>10, <1>11, <1>12
  DEF Handle, Gates

(* One key has the settings of Configs after every step, and every handler *)
(* a copy of them.                                                         *)
LEMMA ConfiguredStep ==
  ASSUME ProxyInv, Configured, ~MeterFails, [ProxyNext]_proxyVars
  PROVE  Configured'
<1>1. ASSUME NEW r \in Requests, Handle(r) PROVE Configured'
  <2>1. Consistent(r)
    BY DEF ProxyInv, ProxyTypeOK, Consistent
  <2>2. CopyKept(r)
    BY <1>1, <2>1, HandleSpends
  <2>3. rows' = rows /\ \A u \in Requests \ {r} : req'[u] = req[u]
    BY <1>1, <2>1, HandleHandled DEF Handled, tabVars
  <2>4. \A u \in Requests : req'[u].at \in Resolved => req'[u].vkey.cfg \in Configs
    BY <2>2, <2>3 DEF Configured, CopyKept
  <2> QED
    BY <2>3, <2>4 DEF Configured
<1>2. ASSUME NEW k \in Keys, Administer(k), req' = req PROVE Configured'
  <2>0. rows \in [Keys -> Row \cup {Nil}]
    BY DEF ProxyInv, ProxyTypeOK, TableTypeOK
  <2>1. ASSUME NEW row, rows' = [rows EXCEPT ![k] = row], row.cfg \in Configs
        PROVE  Configured'
    BY <1>2, <2>0, <2>1 DEF Configured
  <2>2. ASSUME NEW c \in Configs, NEW e, Create(k, c, e) PROVE Configured'
    <3> DEFINE row == [cfg |-> c, expiresAt |-> e, revokedAt |-> Nil]
    <3>1. rows' = [rows EXCEPT ![k] = row] /\ row.cfg = c
      BY <2>2 DEF Create
    <3> HIDE DEF row
    <3> QED
      BY <2>1, <3>1
  <2>3. ASSUME Revoke(k) PROVE Configured'
    <3> DEFINE row == [cfg |-> rows[k].cfg, expiresAt |-> rows[k].expiresAt, revokedAt |-> now]
    <3>1. rows' = [rows EXCEPT ![k] = row] /\ rows[k] # Nil /\ row.cfg = rows[k].cfg
      BY <2>0, <2>3 DEF Revoke, Stamp
    <3> HIDE DEF row
    <3> QED
      BY <2>1, <3>1 DEF Configured
  <2>4. ASSUME NEW c \in Configs, NEW e, Update(k, [set |-> c, expires |-> e])
        PROVE  Configured'
    <3> DEFINE p == [set |-> c, expires |-> e]
               row == ApplyTo(rows[k], p)
    <3>1. rows' = [rows EXCEPT ![k] = row] /\ rows[k] # Nil
      BY <2>4 DEF Update
    <3>2. row.cfg = [f \in Fields |-> IF f \in DOMAIN p.set THEN p.set[f] ELSE rows[k].cfg[f]]
      BY DEF ApplyTo
    <3>3. c \in [Fields -> Values] /\ p.set = c
      BY ProxyAssumption
    <3> HIDE DEF p, row
    <3>4. row.cfg = c
      BY <3>2, <3>3
    <3> QED
      BY <2>1, <3>1, <3>4
  <2> QED
    BY <1>2, <2>2, <2>3, <2>4 DEF Administer
<1>3. ASSUME UNCHANGED <<rows, req>> PROVE Configured'
  BY <1>3 DEF Configured
<1>4. CASE Operate
  BY <1>4, <1>2, <1>3 DEF Operate, SetFrozen, SetDraining, tabVars
<1>5. CASE ClockTick \/ UNCHANGED proxyVars
  BY <1>5, <1>3 DEF ClockTick, Tick, proxyVars, tabVars
<1> QED
  BY <1>1, <1>4, <1>5 DEF ProxyNext

(* Counting open requests: whoever is past the check at the end was there  *)
(* before, unless the key had budget left.                                 *)
LEMMA UnbilledIsOpen ==
  ASSUME NEW k, NEW r
  PROVE  /\ r \in Unbilled(k) <=> r \in Requests /\ req[r].key = k /\ Open(req[r])
         /\ r \in Unbilled(k)' <=> r \in Requests /\ req'[r].key = k /\ Open(req'[r])
BY DEF Unbilled, Open

(* Of two sets of handlers the smaller has fewer members.                  *)
LEMMA Fewer ==
  ASSUME NEW S \in SUBSET Requests, NEW T \in SUBSET S
  PROVE  /\ Cardinality(S) \in Nat /\ Cardinality(T) \in Nat
         /\ Cardinality(T) <= Cardinality(S)
         /\ \A r \in S : r \notin T => Cardinality(T) + 1 <= Cardinality(S)
<1>1. IsFiniteSet(S) /\ IsFiniteSet(T)
  BY LimiterAssumption, FS_Subset
<1>2. Cardinality(S) \in Nat /\ Cardinality(T) \in Nat /\ Cardinality(T) <= Cardinality(S)
  BY <1>1, FS_CardinalityType, FS_Subset
<1>3. ASSUME NEW r \in S, r \notin T PROVE Cardinality(T) + 1 <= Cardinality(S)
  <2>1. IsFiniteSet(S \ {r}) /\ Cardinality(S \ {r}) = Cardinality(S) - 1
    BY <1>1, <1>3, FS_RemoveElement
  <2>2. Cardinality(T) <= Cardinality(S \ {r})
    BY <1>3, <2>1, FS_Subset
  <2> QED
    BY <1>2, <2>1, <2>2
<1> QED
  BY <1>2, <1>3

(* No step of a handler takes a key further past its budget than what was  *)
(* already on its way.                                                     *)
LEMMA OvershootStep ==
  ASSUME OvershootInv, ~MeterFails,
         \E c \in Costs : \A d \in Costs : d <= c,
         \A c, d \in Configs : c["daily_budget"] = d["daily_budget"],
         NEW r \in Requests, Handle(r),
         NEW k \in Keys, NEW cfg \in Configs,
         cfg["daily_budget"] > 0, day'[k][today'] >= cfg["daily_budget"]
  PROVE  day'[k][today'] + MaxCost * Cardinality(Unbilled(k)')
           <= cfg["daily_budget"] - 1 + MaxCost * Cardinality(Requests)
<1> DEFINE B == cfg["daily_budget"]
           U == Unbilled(k)
           V == Unbilled(k)'
           x == day[k][today]
           y == day'[k][today']
<1>0. Consistent(r) /\ Handled(r) /\ OvershootBounded /\ Configured
  BY HandleHandled DEF OvershootInv, ProxyInv, ProxyTypeOK, Consistent
<1>1. /\ today' = today /\ \A u \in Requests \ {r} : req'[u] = req[u]
      /\ x \in Nat /\ y \in Nat /\ y >= x
      /\ day \in [Keys -> [Days -> Nat]] /\ today \in Days
  BY <1>0 DEF Handled, Consistent, LedgerTypeOK
<1>2. B \in Nat /\ B > 0 /\ y >= B
  BY ProxyAssumption, SettingNames, LimiterAssumption
<1>3. MaxCost \in Nat /\ \A c \in Costs : c <= MaxCost
  BY MaxCostType
<1>4. x >= B => x + MaxCost * Cardinality(U) <= B - 1 + MaxCost * Cardinality(Requests)
  BY <1>0, <1>2 DEF OvershootBounded
<1>5. U \subseteq Requests /\ V \subseteq Requests /\ Cardinality(Requests) \in Nat
  BY UnbilledFinite
<1>6. ASSUME NEW u \in V, u # r PROVE u \in U
  BY <1>1, <1>6, UnbilledIsOpen
<1>7. ASSUME NEW u \in Costs, y = x + u, r \in U, r \notin V
      PROVE  y + MaxCost * Cardinality(V) <= B - 1 + MaxCost * Cardinality(Requests)
  <2>1. V \subseteq U
    BY <1>6, <1>7
  <2>2. /\ Cardinality(U) \in Nat /\ Cardinality(V) \in Nat
        /\ Cardinality(V) + 1 <= Cardinality(U)
        /\ Cardinality(U) <= Cardinality(Requests)
    BY <1>5, <1>7, <2>1, Fewer
  <2>3. u \in Nat /\ u <= MaxCost
    BY <1>3, LedgerAssumption
  <2> DEFINE m == MaxCost
             i == Cardinality(V)
             j == Cardinality(U)
             n == Cardinality(Requests)
             a == m * i
             b == m * j
             c == m * n
  <2>4. m \in Nat /\ i \in Nat /\ j \in Nat /\ n \in Nat /\ i + 1 <= j /\ i + 1 <= n
    BY <1>3, <1>5, <2>2
  <2> HIDE DEF B, U, V, x, y, m, i, j, n
  <2>5. a + m <= b /\ a + m <= c /\ a \in Nat /\ b \in Nat /\ c \in Nat
    BY <2>4, CostMonotone
  <2>6. u <= m /\ y = x + u
    BY <1>7, <2>3 DEF m
  <2>7. x >= B => x + b <= B - 1 + c
    BY <1>4 DEF m, j, n, b, c
  <2> HIDE DEF a, b, c
  <2>8. y + a <= B - 1 + c
    BY <1>1, <1>2, <2>3, <2>4, <2>5, <2>6, <2>7
  <2> QED
    BY <2>8 DEF m, i, n, a, c
<1>8. ASSUME y = x, V \subseteq U
      PROVE  y + MaxCost * Cardinality(V) <= B - 1 + MaxCost * Cardinality(Requests)
  <2> DEFINE m == MaxCost
             i == Cardinality(V)
             j == Cardinality(U)
             n == Cardinality(Requests)
  <2>1. m \in Nat /\ i \in Nat /\ j \in Nat /\ n \in Nat /\ i <= j
    BY <1>3, <1>5, <1>8, Fewer
  <2>2. x + m * j <= B - 1 + m * n
    BY <1>2, <1>4, <1>8
  <2> HIDE DEF B, U, V, x, y, m, i, j, n
  <2>3. m * i <= m * j /\ m * i \in Nat /\ m * j \in Nat
    BY <2>1, CostMonotone
  <2>4. m * n \in Nat
    BY <2>1, CostMonotone
  <2> QED
    BY <1>1, <1>2, <1>8, <2>2, <2>3, <2>4 DEF m, i, n
<1>9. CASE Bills(r)
  <2>1. /\ r \notin V
        /\ req[r].usage \in Costs /\ req[r].usage \in Nat
        /\ req[r].key \in Keys
        /\ day' = [day EXCEPT ![req[r].key][today] = @ + req[r].usage]
    BY <1>9, LedgerAssumption, UnbilledIsOpen DEF Bills, Record
  <2>2. CASE req[r].key = k
    <3>1. y = x + req[r].usage
      BY <1>1, <2>1, <2>2
    <3>2. r \in U
      BY <1>9, <2>2, UnbilledIsOpen DEF Bills
    <3> QED
      BY <1>7, <2>1, <3>1, <3>2
  <2>3. CASE req[r].key # k
    <3>1. y = x
      BY <1>1, <2>1, <2>3
    <3>2. V \subseteq U
      BY <1>6, <2>1
    <3> QED
      BY <1>8, <3>1, <3>2
  <2> QED
    BY <2>2, <2>3
<1>10. CASE OpensSolvent(r)
  <2>1. y = x
    BY <1>1, <1>10 DEF OpensSolvent
  <2>2. ASSUME r \in V PROVE r \in U
    <3>1. Open(req'[r]) /\ req'[r].key = k /\ req[r].key = k
      BY <1>10, <2>2, UnbilledIsOpen DEF OpensSolvent
    <3>2. ~(req[r].at = "check" /\ ~Exceeded(k, today, Setting(r, "daily_budget"), 0))
      <4>1. req[r].at = "check" => Setting(r, "daily_budget") = B
        BY <1>0 DEF Configured, Setting, Resolved
      <4> QED
        BY <1>2, <2>1, <4>1 DEF Exceeded
    <3> QED
      BY <1>10, <3>1, <3>2, UnbilledIsOpen DEF OpensSolvent
  <2>3. V \subseteq U
    BY <1>6, <2>2
  <2> QED
    BY <1>8, <2>1, <2>3
<1> QED
  BY <1>0, <1>9, <1>10, HandleSpends

(* The overshoot of a daily budget: at most the budget less one unit plus  *)
(* one request's cost for each handler, for any number of handlers, keys   *)
(* and costs.  The budget is the same for all keys and no PATCH changes it,*)
(* and the meter returns no errors (a meter that fails lets everything     *)
(* through).                                                               *)
THEOREM Overshoot ==
  ASSUME ~MeterFails,
         \E c \in Costs : \A d \in Costs : d <= c,
         \A c, d \in Configs : c["daily_budget"] = d["daily_budget"]
  PROVE  ProxySpec => []OvershootBounded
<1>1. ProxyInit => OvershootInv
  <2> SUFFICES ASSUME ProxyInit PROVE OvershootInv
    OBVIOUS
  <2>1. \A k \in Keys : day[k][today] = 0
    <3>1. 0 \in Days
      BY LedgerAssumption DEF Days
    <3>2. today = 0 /\ day = [k \in Keys |-> [d \in Days |-> 0]]
      BY DEF ProxyInit, LedgerInit
    <3>3. ASSUME NEW k \in Keys PROVE day[k][today] = 0
      <4>1. day[k] = [d \in Days |-> 0]
        BY <3>2
      <4>2. day[k][0] = 0
        BY <3>1, <4>1
      <4> QED
        BY <3>2, <4>2
    <3> QED
      BY <3>3
  <2>2. \A cfg \in Configs : cfg["daily_budget"] \in Nat
    BY ProxyAssumption, SettingNames, LimiterAssumption
  <2>3. OvershootBounded
    BY <2>1, <2>2 DEF OvershootBounded
  <2>4. Configured
    BY DEF ProxyInit, TableInit, Configured, NoRequest, Resolved, Dispatched
  <2> QED
    BY <2>3, <2>4, ProxyInitInv DEF OvershootInv
<1>2. OvershootInv /\ [ProxyNext]_proxyVars => OvershootInv'
  <2> SUFFICES ASSUME OvershootInv, [ProxyNext]_proxyVars PROVE OvershootInv'
    OBVIOUS
  <2>1. ProxyInv' /\ Configured'
    BY ProxyStepInv, ConfiguredStep DEF OvershootInv
  <2>2. ASSUME NEW r \in Requests, Handle(r) PROVE OvershootBounded'
    <3> SUFFICES ASSUME NEW k \in Keys, NEW cfg \in Configs,
                        cfg["daily_budget"] > 0, day'[k][today'] >= cfg["daily_budget"]
                 PROVE  day'[k][today'] + MaxCost * Cardinality(Unbilled(k)')
                          <= cfg["daily_budget"] - 1 + MaxCost * Cardinality(Requests)
      BY DEF OvershootBounded
    <3> QED
      BY <2>2, OvershootStep
  <2>3. ASSUME UNCHANGED <<day, today, req>> PROVE OvershootBounded'
    BY <2>3 DEF OvershootInv, OvershootBounded, Unbilled
  <2>4. UNCHANGED <<day, today, req>> \/ \E r \in Requests : Handle(r)
    BY DEF ProxyNext, Operate, ClockTick, proxyVars, ledVars
  <2> QED
    BY <2>1, <2>2, <2>3, <2>4 DEF OvershootInv
<1>3. OvershootInv => OvershootBounded
  BY DEF OvershootInv
<1> QED
  BY <1>1, <1>2, <1>3, PTL DEF ProxySpec

-----------------------------------------------------------------------------
(* Shutdown.  What was proved of one step of a handler holds here.  The    *)
(* invariant of the pipeline does not: a handler that outlived a drain     *)
(* that was cut short finds the meter closed, passes the budget check on   *)
(* that error and drops its spend.                                         *)

(* The meter is closed late, and unless the drain was cut short nobody is  *)
(* left then: Shutdown returned because no connection was active, and no   *)
(* new one can be.                                                         *)
MainOK ==
  /\ process \in {"serving", "draining", "forced", "closing", "returning", "exited"}
  /\ meterClosed \in BOOLEAN /\ cut \in BOOLEAN
  /\ meterClosed => process \in {"returning", "exited"}
  /\ process = "forced" => cut
  /\ process \in {"closing", "returning", "exited"} /\ ~cut => InFlight = {}

(* Usage that a request drops on its way out has a reason.                 *)
Accounted(q) == BilledOK(q) \/ (meterClosed /\ cut)

ShutdownInv ==
  /\ ProxyTypeOK /\ LimiterInv /\ MainOK
  /\ \A r \in Requests : LocalOK(req[r], call[r]) /\ Accounted(req[r])

-----------------------------------------------------------------------------
(* The request of a step is in flight, unless the process still serves.    *)
LEMMA NobodyLeft ==
  ASSUME ShutdownInv, NEW r \in Requests, Connected(r)
  PROVE  \/ process \in {"serving", "draining", "forced"}
         \/ cut
BY DEF ShutdownInv, MainOK, Connected, InFlight, At

(* A handler that asks a closed meter goes on with the error.              *)
LEMMA ClosedMeterHandled ==
  ASSUME ShutdownInv, NEW r \in Requests, MeterIsClosed(r)
  PROVE  /\ req' \in [Requests -> Progress]
         /\ \A u \in Requests \ {r} : req'[u] = req[u]
         /\ LocalOK(req'[r], call[r])
         /\ UNCHANGED <<limVars, tabVars, ledVars, flags>>
<1>1. /\ req \in [Requests -> Progress] /\ LocalOK(req[r], call[r])
      /\ UNCHANGED <<limVars, tabVars, flags>>
  BY DEF ShutdownInv, ProxyTypeOK, MeterIsClosed
<1>2. PICK p \in {"rate", "release"} :
        /\ Goto(r, p) /\ UNCHANGED ledVars
        /\ p = "rate" => req[r].at = "check"
        /\ p = "release" => req[r].at \in {"record", "closing"}
  BY DEF MeterIsClosed, AsksMeter, RecordFails, At
<1>3. /\ req' \in [Requests -> Progress]
      /\ \A u \in Requests \ {r} : req'[u] = req[u]
      /\ req'[r].at = p /\ req'[r].key = req[r].key /\ req'[r].vkey = req[r].vkey
      /\ req'[r].usage = req[r].usage /\ req'[r].stream = req[r].stream
      /\ req'[r].billed = req[r].billed
  BY <1>1, <1>2, GotoReq DEF Gatework, Dispatched
<1>4. LocalOK(req'[r], call[r])
  BY <1>1, <1>2, <1>3 DEF LocalOK, Resolved, Dispatched
<1> QED
  BY <1>1, <1>2, <1>3, <1>4

(* What a step of a handler does, with the meter open or closed.           *)
LEMMA ServeHandled ==
  ASSUME ShutdownInv, NEW r \in Requests, Serve(r)
  PROVE  /\ req' \in [Requests -> Progress]
         /\ \A u \in Requests \ {r} : req'[u] = req[u] /\ call'[u] = call[u]
         /\ LocalOK(req'[r], call'[r])
         /\ BilledOK(req'[r]) \/ meterClosed
         /\ [LimiterNext]_limiterVars
         /\ UNCHANGED <<tabVars, flags>> /\ LedgerTypeOK'
<1>1. Consistent(r)
  BY DEF ShutdownInv, ProxyTypeOK, Consistent
<1>2. CASE Handle(r)
  BY <1>1, <1>2, HandleHandled DEF Handled
<1>3. CASE MeterIsClosed(r) /\ meterClosed
  <2>1. /\ req' \in [Requests -> Progress]
        /\ \A u \in Requests \ {r} : req'[u] = req[u]
        /\ LocalOK(req'[r], call[r])
        /\ UNCHANGED <<limVars, tabVars, ledVars, flags>>
    BY <1>3, ClosedMeterHandled
  <2>2. call' = call /\ UNCHANGED limiterVars /\ LedgerTypeOK'
    BY <1>1, <2>1 DEF limVars, limiterVars, ledVars, Consistent, LedgerTypeOK
  <2> QED
    BY <1>3, <2>1, <2>2
<1> QED
  BY <1>2, <1>3 DEF Serve, Handle

-----------------------------------------------------------------------------
(* A step that leaves main alone.                                          *)
LEMMA ServeStepInv ==
  ASSUME ShutdownInv, NEW r \in Requests, Serve(r), Observe, UNCHANGED ops, UNCHANGED mainVars
  PROVE  ShutdownInv'
<1>1. /\ req' \in [Requests -> Progress]
      /\ \A u \in Requests \ {r} : req'[u] = req[u] /\ call'[u] = call[u]
      /\ LocalOK(req'[r], call'[r])
      /\ BilledOK(req'[r]) \/ meterClosed
      /\ [LimiterNext]_limiterVars
      /\ UNCHANGED <<tabVars, flags>> /\ LedgerTypeOK'
  BY ServeHandled
<1>2. process' = process /\ meterClosed' = meterClosed /\ cut' = cut
  BY DEF mainVars
<1>3. Connected(r)
  BY DEF Serve
<1>4. LimiterInv'
  BY <1>1, LimiterStepInv DEF ShutdownInv
<1>5. ProxyTypeOK'
  <2>1. TableTypeOK' /\ frozen' = frozen /\ draining' = draining
    BY <1>1 DEF tabVars, flags, ShutdownInv, ProxyTypeOK, TableTypeOK
  <2> QED
    BY <1>1, <1>4, <2>1, ObserveTyped DEF ShutdownInv, ProxyTypeOK, LimiterInv
<1>6. MainOK'
  <2>1. \/ process \in {"serving", "draining", "forced"}
        \/ cut
    BY <1>3, NobodyLeft
  <2> QED
    BY <1>2, <2>1 DEF ShutdownInv, MainOK
<1>7. meterClosed => cut
  BY <1>3, NobodyLeft DEF ShutdownInv, MainOK
<1>8. ASSUME NEW u \in Requests
      PROVE  LocalOK(req'[u], call'[u]) /\ Accounted(req[u])'
  <2>1. CASE u = r
    BY <1>1, <1>2, <1>7, <2>1 DEF Accounted
  <2>2. CASE u # r
    <3>1. req'[u] = req[u] /\ call'[u] = call[u]
      BY <1>1, <2>2
    <3> QED
      BY <1>2, <3>1 DEF ShutdownInv, Accounted
  <2> QED
    BY <2>1, <2>2
<1> QED
  BY <1>4, <1>5, <1>6, <1>8 DEF ShutdownInv

(* A step that leaves the handlers, their slots and the books alone keeps  *)
(* the invariant if main's part of it holds.  Nothing opens the meter      *)
(* again or undoes a cut.                                                  *)
LEMMA QuietStepInv ==
  ASSUME ShutdownInv, UNCHANGED <<limVars, ledVars, req>>,
         TableTypeOK', frozen' \in BOOLEAN, draining' \in BOOLEAN, ops' \in 0..MaxOps,
         seen' \in [Requests -> SUBSET {"drain", "freeze", "key"}],
         MainOK', meterClosed => meterClosed', cut => cut'
  PROVE  ShutdownInv'
<1>1. /\ counters' = counters /\ count' = count /\ call' = call
      /\ day' = day /\ month' = month /\ today' = today /\ req' = req
  BY DEF limVars, ledVars
<1>2. LimiterInv'
  BY <1>1, LimiterStepInv DEF ShutdownInv, limiterVars
<1>3. LedgerTypeOK'
  BY <1>1 DEF ShutdownInv, ProxyTypeOK, LedgerTypeOK
<1>4. ProxyTypeOK'
  BY <1>1, <1>2, <1>3 DEF ShutdownInv, ProxyTypeOK, LimiterInv
<1>5. ASSUME NEW u \in Requests
      PROVE  LocalOK(req'[u], call'[u]) /\ Accounted(req[u])'
  <2>1. LocalOK(req[u], call[u]) /\ Accounted(req[u])
    BY DEF ShutdownInv
  <2> QED
    BY <1>1, <2>1 DEF Accounted
<1> QED
  BY <1>2, <1>4, <1>5 DEF ShutdownInv

(* The clock and the operators.                                            *)
LEMMA OperatorStepInv ==
  ASSUME ShutdownInv, (ClockTick /\ UNCHANGED ops) \/ Administrate, Observe, UNCHANGED mainVars
  PROVE  ShutdownInv'
<1>1. UNCHANGED <<limVars, ledVars, req>>
  BY DEF Administrate, ClockTick
<1>2. TableTypeOK' /\ frozen' \in BOOLEAN /\ draining' \in BOOLEAN
  <2>t. TableTypeOK /\ frozen \in BOOLEAN /\ draining \in BOOLEAN
    BY DEF ShutdownInv, ProxyTypeOK
  <2>1. CASE ClockTick
    BY <2>t, <2>1, TableAssumption DEF ClockTick, Tick, TableTypeOK, Time, flags
  <2>2. ASSUME NEW k \in Keys, Administer(k)
        PROVE  TableTypeOK' /\ frozen' \in BOOLEAN /\ draining' \in BOOLEAN
    BY <2>t, <2>2, TableStepTyped DEF Administer, flags
  <2>3. ASSUME NEW v \in BOOLEAN, SetFrozen(v)
        PROVE  TableTypeOK' /\ frozen' \in BOOLEAN /\ draining' \in BOOLEAN
    BY <2>t, <2>3 DEF SetFrozen, tabVars, TableTypeOK
  <2> QED
    BY <2>1, <2>2, <2>3 DEF Administrate
<1>3. ops' \in 0..MaxOps
  BY ProxyAssumption DEF Administrate, ShutdownInv, ProxyTypeOK
<1>4. seen' \in [Requests -> SUBSET {"drain", "freeze", "key"}]
  BY ObserveTyped DEF ShutdownInv, ProxyTypeOK
<1>5. MainOK' /\ meterClosed' = meterClosed /\ cut' = cut
  <2>1. /\ process' = process /\ meterClosed' = meterClosed /\ cut' = cut
        /\ InFlight' = InFlight
    BY <1>1 DEF mainVars, InFlight, At
  <2> QED
    BY <2>1 DEF ShutdownInv, MainOK
<1> QED
  BY <1>1, <1>2, <1>3, <1>4, <1>5, QuietStepInv

(* The signals, and main until it returns.  Drained is the one step that   *)
(* has to see that nobody is left; from there on no connection is open.    *)
LEMMA MainStepInv ==
  ASSUME ShutdownInv,
         \/ Signalled
         \/ (Drained \/ GraceExpires \/ ForcedReturns \/ CloseMeter) /\ UNCHANGED proxyVars
         \/ UNCHANGED shutdownVars
  PROVE  ShutdownInv'
<1>1. /\ UNCHANGED <<limVars, tabVars, ledVars, req, seen, ops>>
      /\ frozen' = frozen /\ draining' \in {draining, TRUE}
  BY DEF Signalled, FirstSignal, proxyVars, shutdownVars, flags
<1>2. /\ TableTypeOK' /\ frozen' \in BOOLEAN /\ draining' \in BOOLEAN /\ ops' \in 0..MaxOps
      /\ seen' \in [Requests -> SUBSET {"drain", "freeze", "key"}]
  BY <1>1 DEF ShutdownInv, ProxyTypeOK, TableTypeOK, tabVars
<1>3. MainOK' /\ (meterClosed => meterClosed') /\ (cut => cut')
  <2>1. InFlight' = InFlight /\ MainOK
    BY <1>1 DEF InFlight, At, ShutdownInv
  <2>2. CASE FirstSignal
    BY <2>1, <2>2 DEF FirstSignal, MainOK
  <2>3. CASE SecondSignal
    BY <2>1, <2>3 DEF SecondSignal, MainOK
  <2>4. CASE Drained
    BY <2>1, <2>4 DEF Drained, MainOK
  <2>5. CASE GraceExpires
    BY <2>1, <2>5 DEF GraceExpires, MainOK
  <2>6. CASE ForcedReturns
    BY <2>1, <2>6 DEF ForcedReturns, MainOK
  <2>7. CASE CloseMeter
    BY <2>1, <2>7 DEF CloseMeter, MainOK
  <2>8. CASE UNCHANGED shutdownVars
    BY <2>1, <2>8 DEF shutdownVars, mainVars, MainOK
  <2> QED
    BY <2>2, <2>3, <2>4, <2>5, <2>6, <2>7, <2>8 DEF Signalled
<1> QED
  BY <1>1, <1>2, <1>3, QuietStepInv

(* The process ends: no handler, no slot and no counter is left.           *)
LEMMA ExitInv ==
  ASSUME ShutdownInv, Exit
  PROVE  ShutdownInv'
<1>1. LimiterInit'
  BY DEF Exit, LimiterInit
<1>2. LimiterInv'
  BY <1>1, LimiterInitInv, PTL
<1>3. \A r \in Requests : req'[r] = NoRequest /\ call'[r].at = "idle"
  BY DEF Exit, Idle
<1>4. ProxyTypeOK'
  <2>1. req' \in [Requests -> Progress]
    BY NoRequestOK DEF Exit
  <2>2. /\ seen' \in [Requests -> SUBSET {"drain", "freeze", "key"}]
        /\ rows' = rows /\ now' = now /\ backend' = backend
        /\ day' = day /\ month' = month /\ today' = today
        /\ frozen' = frozen /\ draining' = draining /\ ops' = ops
    BY DEF Exit, tabVars, ledVars, flags
  <2>3. TableTypeOK' /\ LedgerTypeOK'
    BY <2>2 DEF ShutdownInv, ProxyTypeOK, TableTypeOK, LedgerTypeOK
  <2> QED
    BY <1>2, <2>1, <2>2, <2>3 DEF ShutdownInv, ProxyTypeOK, LimiterInv
<1>5. InFlight' = {}
  BY <1>3, NoRequestOK DEF InFlight, At
<1>6. MainOK'
  BY <1>5 DEF ShutdownInv, MainOK, Exit
<1>7. \A r \in Requests : LocalOK(req'[r], call'[r]) /\ Accounted(req[r])'
  BY <1>3, NoRequestOK DEF Accounted
<1> QED
  BY <1>2, <1>4, <1>6, <1>7 DEF ShutdownInv

(* Every step of the process keeps the invariant.                          *)
LEMMA ShutdownStepInv ==
  ASSUME ShutdownInv, [ShutdownNext]_shutdownVars
  PROVE  ShutdownInv'
<1>1. CASE Signalled \/ Main \/ UNCHANGED shutdownVars
  BY <1>1, MainStepInv, ExitInv DEF Main
<1>2. CASE /\ \/ (ClockTick \/ \E r \in Requests : Serve(r)) /\ UNCHANGED ops
              \/ Administrate
           /\ Observe /\ UNCHANGED mainVars
  BY <1>2, ServeStepInv, OperatorStepInv
<1> QED
  BY <1>1, <1>2 DEF ShutdownNext

(* The invariant holds from the first request to the exit of the process.  *)
THEOREM ShutdownInvariant == ShutdownSpec => []ShutdownInv
<1>1. ShutdownInit => ShutdownInv
  BY ProxyInitInv DEF ShutdownInit, ShutdownInv, ProxyInv, MainOK, Accounted
<1>2. ShutdownInv /\ [ShutdownNext]_shutdownVars => ShutdownInv'
  BY ShutdownStepInv
<1> QED
  BY <1>1, <1>2, PTL DEF ShutdownSpec

(* A drain that runs to its end loses no spend: when main closes the meter *)
(* nobody is left to record.  What a drain that was cut short drops, it    *)
(* drops only because the meter is closed.                                 *)
THEOREM DrainLoses == ShutdownSpec => []DrainLosesNothing
<1>1. ShutdownInv => DrainLosesNothing
  <2> SUFFICES ASSUME ShutdownInv PROVE DrainLosesNothing
    OBVIOUS
  <2>1. meterClosed /\ ~cut => InFlight = {}
    BY DEF ShutdownInv, MainOK
  <2>2. \A r \in Requests : Accounted(req[r])
    BY DEF ShutdownInv
  <2> QED
    BY <2>1, <2>2 DEF DrainLosesNothing, Accounted, BilledOK, At, CtxDone
<1> QED
  BY <1>1, ShutdownInvariant, PTL

(* Slots stay with their requests and within the caps of their keys while  *)
(* the process drains and after it was told to stop: a handler that finds  *)
(* the meter closed still returns its slot.                                *)
THEOREM DrainKeepsSlots == ShutdownSpec => [](SlotsFollowRequests /\ HoldersWithinLimit)
<1>1. ShutdownInv => SlotsFollowRequests /\ HoldersWithinLimit
  BY DEF ShutdownInv, SlotsFollowRequests, LocalOK, Setting, LimiterInv
<1> QED
  BY <1>1, ShutdownInvariant, PTL
=============================================================================
