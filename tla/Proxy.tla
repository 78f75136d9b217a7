--------------------------------- MODULE Proxy ---------------------------------
(***************************************************************************)
(* The request pipeline, internal/proxy/proxy.go with its two adapters,    *)
(* composed of the concurrency limiter (ConcurrencyLimiter), the spend     *)
(* meter (SpendLedger) and the keystore (KeyTable), next to the operators  *)
(* that freeze, drain, PATCH and revoke.                                   *)
(*                                                                         *)
(* ServeHTTP reads the drain flag, the kill switch, the key record, the    *)
(* clock, the spend and the in-flight counter one after the other; other   *)
(* handlers and the operators act in between.  The key record is a copy    *)
(* that stays as it was resolved until the request ends.                   *)
(*                                                                         *)
(* Every rejection writes one error response and ends the request; status  *)
(* codes and bodies are left out.  The rate limiter's verdict is arbitrary *)
(* here (it has its own module).  The two adapters differ only in wire     *)
(* formats.                                                                *)
(***************************************************************************)
EXTENDS ConcurrencyLimiter, SpendLedger, KeyTable

Upstreams == {"openai", "anthropic"}
Routes == Upstreams \cup {"unknown"}

CONSTANTS
  Upstream,    \* key -> the upstream it was created for
  Configs,     \* settings keys may have (bound on Create and PATCH)
  MeterFails,  \* the meter may return errors
  MaxSpend,    \* no upstream bills a key past this (bound)
  MaxOps       \* operator actions in one behaviour (bound)

ASSUME ProxyAssumption ==
  /\ Upstream \in [Keys -> Upstreams]
  /\ Configs \subseteq [Fields -> Values]
  /\ MeterFails \in BOOLEAN
  /\ MaxSpend \in Nat /\ MaxOps \in Nat
  /\ {"max_concurrent", "daily_budget", "timeout"} \subseteq Fields
  /\ Values \subseteq Limits   \* Acquire is called with the key's own setting

VARIABLES
  frozen,      \* the kill switch
  draining,    \* the shutdown-drain flag
  req,         \* request -> its progress through ServeHTTP
  seen,        \* request -> gates that were open since it arrived (history)
  ops          \* operator actions so far

limVars == <<counters, count, call>>
tabVars == <<rows, now, backend>>
ledVars == <<day, month, today>>
flags == <<frozen, draining>>
proxyVars == <<limVars, tabVars, ledVars, flags, req, seen, ops>>

NoRequest == [at |-> "idle", route |-> "unknown", key |-> None, vkey |-> Nil, usage |-> 0,
              stream |-> FALSE, gone |-> FALSE, late |-> FALSE, billed |-> 0]

(* Where ServeHTTP is: before dispatch, in the adapter, on the way out.    *)
Gatework == {"killswitch", "resolve", "validate", "check", "rate", "acquire"}
Dispatched == {"upstream", "record", "stream", "closing", "release"}

Progress ==
  [at : {"idle"} \cup Gatework \cup Dispatched, route : Routes, key : Keys \cup {None},
   vkey : Row \cup {Nil}, usage : Costs \cup {0}, stream : BOOLEAN,
   gone : BOOLEAN, late : BOOLEAN, billed : 0..1]

ProxyTypeOK ==
  /\ LimiterTypeOK /\ LedgerTypeOK /\ TableTypeOK
  /\ frozen \in BOOLEAN /\ draining \in BOOLEAN
  /\ req \in [Requests -> Progress]
  /\ seen \in [Requests -> SUBSET {"drain", "freeze", "key"}]
  /\ ops \in 0..MaxOps

ProxyInit ==
  /\ LimiterInit /\ LedgerInit /\ TableInit
  /\ frozen = FALSE /\ draining = FALSE
  /\ req = [r \in Requests |-> NoRequest]
  /\ seen = [r \in Requests |-> {}]
  /\ ops = 0

At(r, p) == req[r].at = p
Goto(r, p) == req' = [req EXCEPT ![r].at = p]
Reject(r) == req' = [req EXCEPT ![r] = NoRequest]
Setting(r, f) == req[r].vkey.cfg[f]
CtxDone(r) == req[r].gone \/ req[r].late

-----------------------------------------------------------------------------
(* The gates of ServeHTTP, in order.                                       *)

(* Routing and the drain flag.  k = None is a missing or malformed bearer  *)
(* token.                                                                  *)
Arrive(r, route, k) ==
  /\ At(r, "idle")
  /\ route # "unknown" /\ ~draining
  /\ req' = [req EXCEPT ![r] = [NoRequest EXCEPT !.at = "killswitch", !.route = route, !.key = k]]
  /\ UNCHANGED <<limVars, tabVars, ledVars, flags>>

KillSwitch(r) ==
  /\ At(r, "killswitch")
  /\ IF frozen THEN Reject(r) ELSE Goto(r, "resolve")
  /\ UNCHANGED <<limVars, tabVars, ledVars, flags>>

(* No such key, or the lookup fails, which it may do at any time on SQLite *)
(* (a busy database, a client that left): the request is refused either    *)
(* way.                                                                    *)
ResolveKey(r) ==
  LET k == req[r].key IN
  /\ At(r, "resolve")
  /\ \/ /\ k \notin Keys \/ backend = "sqlite" \/ (k \in Keys /\ rows[k] = Nil)
        /\ Reject(r)
     \/ /\ k \in Keys /\ rows[k] # Nil
        /\ req' = [req EXCEPT ![r].at = "validate", ![r].vkey = rows[k]]
  /\ UNCHANGED <<limVars, tabVars, ledVars, flags>>

(* Mutant: expiry is left to the sweeper.                                  *)
Validate_NoExpiry(r) ==
  /\ At(r, "validate")
  /\ IF IsRevoked(req[r].vkey) \/ Upstream[req[r].key] # req[r].route
       THEN Reject(r)
       ELSE Goto(r, "check")
  /\ UNCHANGED <<limVars, tabVars, ledVars, flags>>

Validate(r) ==
  /\ At(r, "validate")
  /\ IF \/ IsRevoked(req[r].vkey)
        \/ IsExpired(req[r].vkey, now)
        \/ Upstream[req[r].key] # req[r].route
       THEN Reject(r)
       ELSE Goto(r, "check")
  /\ UNCHANGED <<limVars, tabVars, ledVars, flags>>

(* Budgets; a meter error lets the request through, and a context that is  *)
(* cancelled, as the client left, makes one.                               *)
CheckBudget(r) ==
  /\ At(r, "check")
  /\ \/ /\ ~Exceeded(req[r].key, today, Setting(r, "daily_budget"), 0)
        /\ Goto(r, "rate")
     \/ /\ Exceeded(req[r].key, today, Setting(r, "daily_budget"), 0)
        /\ Reject(r)
     \/ /\ Setting(r, "daily_budget") > 0
        /\ MeterFails \/ req[r].gone
        /\ Goto(r, "rate")
  /\ UNCHANGED <<limVars, tabVars, ledVars, flags>>

RateLimit(r) ==
  /\ At(r, "rate")
  /\ Reject(r) \/ Goto(r, "acquire")
  /\ UNCHANGED <<limVars, tabVars, ledVars, flags>>

(* The adapter sends the request on, unless its context is already done:   *)
(* then the transport refuses it and errorHandler answers.                 *)
RoundTrip(r) == Goto(r, IF req[r].gone THEN "release" ELSE "upstream")

(* max_concurrent = 0 does not touch the limiter at all.                   *)
DispatchUnlimited(r) ==
  /\ At(r, "acquire")
  /\ Setting(r, "max_concurrent") = 0
  /\ RoundTrip(r)
  /\ UNCHANGED <<limVars, tabVars, ledVars, flags>>

Acquire(r) ==
  /\ At(r, "acquire")
  /\ AcquireStart(r, req[r].key, Setting(r, "max_concurrent"))
  /\ UNCHANGED <<tabVars, ledVars, flags, req>>

AcquireStep(r) ==
  /\ Load(r) \/ LoadOrStore(r) \/ Add(r)
  /\ UNCHANGED <<tabVars, ledVars, flags, req>>

Dispatch(r) ==
  /\ At(r, "acquire")
  /\ call[r].at = "admitted"
  /\ RoundTrip(r)
  /\ UNCHANGED <<limVars, tabVars, ledVars, flags>>

RejectConcurrency(r) ==
  /\ Undo(r)
  /\ Reject(r)
  /\ UNCHANGED <<tabVars, ledVars, flags>>

-----------------------------------------------------------------------------
(* The adapter: ReverseProxy with rewrite, modifyResponse, errorHandler.   *)

(* Dial, read or context error: errorHandler answers 502 or 504.           *)
UpstreamFails(r) ==
  /\ At(r, "upstream")
  /\ Goto(r, "release")
  /\ UNCHANGED <<limVars, tabVars, ledVars, flags>>

Affordable(r, u) == u = 0 \/ day[req[r].key][today] + u <= MaxSpend

(* A JSON body, read to its end.  u = 0: an error status, no usage, or a   *)
(* model the pricer does not know.  The buffered body is copied to the     *)
(* client afterwards, with the slot still held: the place "release" lasts  *)
(* until that copy, or the writing of an error answer, is over.            *)
RespondsJSON(r, u) ==
  /\ At(r, "upstream") /\ Affordable(r, u)
  /\ req' = [req EXCEPT ![r].at = IF u > 0 THEN "record" ELSE "release", ![r].usage = u]
  /\ UNCHANGED <<limVars, tabVars, ledVars, flags>>

(* An event stream, or a body of another type, which is passed through and *)
(* never reports usage.                                                    *)
RespondsStream(r) ==
  /\ At(r, "upstream")
  /\ req' = [req EXCEPT ![r].at = "stream", ![r].stream = TRUE]
  /\ UNCHANGED <<limVars, tabVars, ledVars, flags>>

(* A usage event of the stream replaces the totals seen so far.            *)
StreamUsage(r, u) ==
  /\ At(r, "stream")
  /\ u # req[r].usage /\ Affordable(r, u)
  /\ req' = [req EXCEPT ![r].usage = u]
  /\ UNCHANGED <<limVars, tabVars, ledVars, flags>>

(* Mutant: the meter write moves behind the handler's return.              *)
StreamEnds_Deferred(r) ==
  /\ At(r, "stream")
  /\ Goto(r, "release")
  /\ UNCHANGED <<limVars, tabVars, ledVars, flags>>

(* The copy to the client ends (end of stream, error, disconnect, timeout  *)
(* trailer) and the body is closed; Close reports usage if it saw any.     *)
StreamEnds(r) ==
  /\ At(r, "stream")
  /\ Goto(r, IF req[r].usage > 0 THEN "closing" ELSE "release")
  /\ UNCHANGED <<limVars, tabVars, ledVars, flags>>

Bill(r) ==
  /\ Record(req[r].key, today, req[r].usage)
  /\ req' = [req EXCEPT ![r].at = "release", ![r].billed = @ + 1]

RecordFails(r) ==
  /\ Goto(r, "release")
  /\ UNCHANGED ledVars

(* Mutant: Close reports again on every call.                              *)
RecordSpend_Repeats(r) ==
  /\ At(r, "record") \/ At(r, "closing")
  /\ \/ Bill(r)
     \/ /\ Record(req[r].key, today, req[r].usage)
        /\ req' = [req EXCEPT ![r].billed = @ + 1]
  /\ UNCHANGED <<limVars, tabVars, flags>>

(* recordSpend.  A stream is recorded on a background context.  A JSON     *)
(* response is recorded on the request's own context, which the SQLite     *)
(* meter honours (and the in-memory meter ignores).                        *)
RecordSpend(r) ==
  /\ At(r, "record") \/ At(r, "closing")
  /\ \/ Bill(r)
     \/ /\ MeterFails \/ (At(r, "record") /\ CtxDone(r))
        /\ RecordFails(r)
  /\ UNCHANGED <<limVars, tabVars, flags>>

(* Mutant: no slot is returned once the client is gone.                    *)
Return_LeaksOnDisconnect(r) ==
  /\ At(r, "release")
  /\ IF call[r].at = "admitted" /\ ~req[r].gone THEN Release(r) ELSE UNCHANGED limVars
  /\ Reject(r)
  /\ UNCHANGED <<tabVars, ledVars, flags>>

(* Mutant: the release looks the key's limit up again.                     *)
Return_RereadsKey(r) ==
  LET k == req[r].key IN
  /\ At(r, "release")
  /\ count' = IF counters[k] # None /\ rows[k].cfg["max_concurrent"] > 0
                THEN [count EXCEPT ![k][counters[k]] = @ - 1]
                ELSE count
  /\ call' = [call EXCEPT ![r] = Idle]
  /\ Reject(r)
  /\ UNCHANGED <<counters, tabVars, ledVars, flags>>

(* ServeHTTP returns: the deferred Release runs, on every way out.         *)
Return(r) ==
  /\ At(r, "release")
  /\ IF call[r].at = "admitted" THEN Release(r) ELSE UNCHANGED limVars
  /\ Reject(r)
  /\ UNCHANGED <<tabVars, ledVars, flags>>

(* The client disconnects, which the server notices before the handler is  *)
(* done with it.                                                           *)
ClientGone(r) ==
  /\ req[r].at \notin {"idle", "release"}
  /\ ~req[r].gone
  /\ req' = [req EXCEPT ![r].gone = TRUE]
  /\ UNCHANGED <<limVars, tabVars, ledVars, flags>>

(* Mutant: the timeout covers the wait for the response headers only.      *)
Deadline_HeadersOnly(r) ==
  /\ At(r, "upstream")
  /\ Setting(r, "timeout") > 0
  /\ ~req[r].late
  /\ req' = [req EXCEPT ![r].late = TRUE]
  /\ UNCHANGED <<limVars, tabVars, ledVars, flags>>

(* The per-key upstream timeout fires.                                     *)
Deadline(r) ==
  /\ req[r].at \in Dispatched \ {"release"}
  /\ Setting(r, "timeout") > 0
  /\ ~req[r].late
  /\ req' = [req EXCEPT ![r].late = TRUE]
  /\ UNCHANGED <<limVars, tabVars, ledVars, flags>>

-----------------------------------------------------------------------------
(* The admin API and the shutdown signal.                                  *)
SetFrozen(v) ==
  /\ frozen' = v
  /\ UNCHANGED <<tabVars, draining>>

SetDraining ==
  /\ draining' = TRUE
  /\ UNCHANGED <<tabVars, frozen>>

Administer(k) ==
  /\ \/ \E cfg \in Configs, e \in Time \cup {Nil} :
          (e # Nil => e > now) /\ Create(k, cfg, e)
     \/ Revoke(k)
     \/ \E cfg \in Configs, e \in Time \cup {Nil, Keep} :
          (e \in Time => e > now) /\ Update(k, [set |-> cfg, expires |-> e])
  /\ UNCHANGED flags

(* Operations that change nothing are stuttering steps and not counted.    *)
Operate ==
  /\ ops < MaxOps
  /\ ops' = ops + 1
  /\ \/ \E v \in BOOLEAN : SetFrozen(v)
     \/ SetDraining
     \/ \E k \in Keys : Administer(k)
  /\ <<rows, flags>>' # <<rows, flags>>
  /\ UNCHANGED <<limVars, ledVars, req>>

ClockTick ==
  /\ Tick
  /\ UNCHANGED <<limVars, ledVars, flags, req>>

-----------------------------------------------------------------------------
(* The gates that are open for request r right now.                        *)
Usable(k) ==
  /\ k \in Keys
  /\ rows[k] # Nil
  /\ ~IsRevoked(rows[k])
  /\ ~IsExpired(rows[k], now)
  /\ MeterFails \/ ~Exceeded(k, today, rows[k].cfg["daily_budget"], 0)

OpenGates(r) ==
  {g \in {"drain", "freeze", "key"} :
     CASE g = "drain" -> ~draining [] g = "freeze" -> ~frozen [] g = "key" -> Usable(req[r].key)}

Observe ==
  seen' = [r \in Requests |->
             IF req'[r].at \in {"idle", "release"} THEN {} ELSE seen[r] \cup OpenGates(r)']

Gates(r) ==
  KillSwitch(r) \/ ResolveKey(r) \/ Validate(r) \/ CheckBudget(r) \/ RateLimit(r)
    \/ DispatchUnlimited(r) \/ Acquire(r) \/ AcquireStep(r) \/ Dispatch(r) \/ RejectConcurrency(r)

Adapter(r) ==
  UpstreamFails(r) \/ RespondsStream(r) \/ StreamEnds(r)
    \/ \E u \in Costs \cup {0} : RespondsJSON(r, u) \/ StreamUsage(r, u)

Handle(r) ==
  \/ \E route \in Routes, k \in Keys \cup {None} : Arrive(r, route, k)
  \/ Gates(r) \/ Adapter(r) \/ RecordSpend(r) \/ Return(r)
  \/ ClientGone(r) \/ Deadline(r)

ProxyNext ==
  /\ \/ (ClockTick \/ \E r \in Requests : Handle(r)) /\ UNCHANGED ops
     \/ Operate
  /\ Observe

Bookkeeping == Observe /\ UNCHANGED ops

(* Handlers keep running, timers fire and a cancelled context ends the     *)
(* upstream call.  The copy to a client that stops reading, on the way to  *)
(* Return or of a stream, ends by http.Server's WriteTimeout.  The         *)
(* upstream itself promises nothing.                                       *)
ProxyFairness ==
  \A r \in Requests :
    /\ WF_proxyVars((Gates(r) \/ RecordSpend(r) \/ Return(r)) /\ Bookkeeping)
    /\ WF_proxyVars(Deadline(r) /\ Bookkeeping)
    /\ WF_proxyVars(CtxDone(r) /\ (UpstreamFails(r) \/ StreamEnds(r)) /\ Bookkeeping)

ProxySpec == ProxyInit /\ [][ProxyNext]_proxyVars /\ ProxyFairness
-----------------------------------------------------------------------------
(* The pipeline uses the limiter as it is meant to be used, so what is     *)
(* proved of the limiter holds of it here.                                 *)
UsesLimiter == LimiterInit /\ [][LimiterNext]_limiterVars

(* A slot is held exactly by the dispatched requests of a limited key: no  *)
(* way into or out of ServeHTTP leaks one or skips one, whatever PATCH did *)
(* to the key's max_concurrent meanwhile.                                  *)
SlotsFollowRequests ==
  \A r \in Requests :
    /\ req[r].at \in Dispatched =>
         (call[r].at = "admitted" <=> Setting(r, "max_concurrent") > 0)
    /\ req[r].at \notin Dispatched \cup {"acquire"} => call[r].at = "idle"

(* Only what may be served is served.  A request that reached its upstream *)
(* saw the replica not draining and not frozen at some moment since it     *)
(* arrived, and at one and the same moment (of one UTC day) its key        *)
(* present, not revoked, not expired and within its budget, although the   *)
(* checks run one by one on a copy of the key, and although a meter whose  *)
(* context is cancelled lets the request pass.                             *)
GatesEnforced ==
  \A r \in Requests :
    req[r].at \in Dispatched \ {"release"} => seen[r] = {"drain", "freeze", "key"}

(* Spend is on the books before the slot is free: a request that is about  *)
(* to release its slot has recorded the usage it saw, once, unless the     *)
(* meter failed or a JSON response outlived its request context.           *)
BilledBeforeRelease ==
  \A r \in Requests :
    req[r].at = "release" /\ req[r].usage > 0 =>
      \/ req[r].billed = 1
      \/ MeterFails
      \/ ~req[r].stream /\ CtxDone(r)

(* Requests of key k past the budget check that may still be billed; one   *)
(* whose client left before dispatch will not be sent.                     *)
Unbilled(k) ==
  {r \in Requests :
     /\ req[r].key = k
     /\ \/ req[r].at \in {"upstream", "stream", "record", "closing"}
        \/ req[r].at \in {"rate", "acquire"} /\ ~req[r].gone}

MaxCost == CHOOSE c \in Costs : \A d \in Costs : d <= c

(* Overshoot is what was past the check when the budget ran out, and no    *)
(* more: once a key has spent its daily budget, its spend plus all that    *)
(* the requests past the check can still add stays within one request's    *)
(* cost for each handler.  For a budget nobody changes (the same in all of *)
(* Configs) and a meter that does not fail.                                *)
OvershootBounded ==
  \A k \in Keys : \A cfg \in Configs :
    cfg["daily_budget"] > 0 /\ day[k][today] >= cfg["daily_budget"] =>
      day[k][today] + MaxCost * Cardinality(Unbilled(k))
        <= cfg["daily_budget"] - 1 + MaxCost * Cardinality(Requests)

(* What docs/admin-api.md says of max_concurrent: with a cap of K and      *)
(* requests of cost C the overshoot is at most K * C.  The budget is       *)
(* checked before the slot is acquired, so requests that queue up between  *)
(* the two dispatch later on a verdict that is stale.                      *)
OvershootWithinKC ==
  \A k \in Keys : \A cfg \in Configs :
    cfg["daily_budget"] > 0 /\ cfg["max_concurrent"] > 0 =>
      day[k][today] <= cfg["daily_budget"] + cfg["max_concurrent"] * MaxCost

(* What docs/architecture.md says of the record call: it runs on a         *)
(* background context, so no disconnect loses spend.  Only streams do.     *)
SpendSurvivesDisconnect ==
  \A r \in Requests :
    req[r].at = "release" /\ req[r].usage > 0 /\ ~MeterFails => req[r].billed = 1
=============================================================================
