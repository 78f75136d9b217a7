-------------------------------- MODULE Shutdown --------------------------------
(***************************************************************************)
(* The end of the process, the second half of main in cmd/rein/main.go,    *)
(* composed with the request pipeline (Proxy).                             *)
(*                                                                         *)
(* The first signal sets the drain flag and starts http.Server.Shutdown,   *)
(* which returns nil once no connection is active, or an error when the    *)
(* grace period is over; the latter ends neither a connection nor a        *)
(* handler.  A second signal calls Close, which cancels the requests and   *)
(* forgets their connections, so Shutdown returns as well.  Then the       *)
(* meter's database is closed and main returns; what still runs dies.      *)
(***************************************************************************)
EXTENDS Proxy

VARIABLES
  process,       \* how far main is
  meterClosed,   \* the SQLite meter's database is closed
  cut            \* the drain ended by the grace period or a second signal

mainVars == <<process, meterClosed, cut>>
shutdownVars == <<proxyVars, mainVars>>

ShutdownTypeOK ==
  /\ ProxyTypeOK
  /\ process \in {"serving", "draining", "forced", "closing", "returning", "exited"}
  /\ meterClosed \in BOOLEAN /\ cut \in BOOLEAN

ShutdownInit ==
  /\ ProxyInit
  /\ process = "serving"
  /\ meterClosed = FALSE /\ cut = FALSE

InFlight == {r \in Requests : ~At(r, "idle")}

-----------------------------------------------------------------------------
(* The handlers.  Check and Record of a closed database return an error:   *)
(* the budget check lets the request pass, the spend is lost.              *)
AsksMeter(r) ==
  \/ At(r, "record") \/ At(r, "closing")
  \/ At(r, "check") /\ Setting(r, "daily_budget") > 0

MeterIsClosed(r) ==
  /\ AsksMeter(r)
  /\ IF At(r, "check") THEN Goto(r, "rate") /\ UNCHANGED ledVars ELSE RecordFails(r)
  /\ UNCHANGED <<limVars, tabVars, flags>>

(* After a drain that was not cut short no connection is left to carry a   *)
(* request.                                                                *)
Connected(r) == ~At(r, "idle") \/ cut \/ process \in {"serving", "draining"}

Serve(r) ==
  /\ Connected(r)
  /\ IF meterClosed /\ AsksMeter(r)
       THEN MeterIsClosed(r) \/ ClientGone(r) \/ Deadline(r)
       ELSE Handle(r)

(* Only main sets the drain flag here.                                     *)
Administrate ==
  /\ ops < MaxOps
  /\ ops' = ops + 1
  /\ \/ \E v \in BOOLEAN : v # frozen /\ SetFrozen(v)
     \/ \E k \in Keys : Administer(k) /\ rows' # rows
  /\ UNCHANGED <<limVars, ledVars, req>>

-----------------------------------------------------------------------------
(* main.                                                                   *)
(* SIGTERM or SIGINT arrives and main, which does nothing but wait for it, *)
(* takes it.  The channel holds two, so one that comes while main is busy  *)
(* with the first is not lost.                                             *)
FirstSignal ==
  /\ process = "serving"
  /\ process' = "draining" /\ draining' = TRUE
  /\ UNCHANGED <<meterClosed, cut, frozen>>

Drained ==
  /\ process = "draining" /\ InFlight = {}
  /\ process' = "closing"
  /\ UNCHANGED <<meterClosed, cut>>

(* Mutant: Shutdown gets a context without a deadline.                     *)
GraceExpires_Never ==
  /\ process = "draining" /\ InFlight = {}
  /\ process' = "closing" /\ cut' = TRUE
  /\ UNCHANGED meterClosed

GraceExpires ==
  /\ process = "draining"
  /\ process' = "closing" /\ cut' = TRUE
  /\ UNCHANGED meterClosed

SecondSignal ==
  /\ process = "draining"
  /\ process' = "forced" /\ cut' = TRUE
  /\ UNCHANGED meterClosed

ForcedReturns ==
  /\ process = "forced" /\ process' = "closing"
  /\ UNCHANGED <<meterClosed, cut>>

(* Mutant: the meter is closed when the drain begins.                      *)
CloseMeter_Early ==
  /\ process \in {"draining", "closing"} /\ ~meterClosed
  /\ process' = IF process = "closing" THEN "returning" ELSE process
  /\ meterClosed' = (backend = "sqlite")
  /\ UNCHANGED cut

(* Only the SQLite meter has a Close.                                      *)
CloseMeter ==
  /\ process = "closing" /\ process' = "returning"
  /\ meterClosed' = (backend = "sqlite")
  /\ UNCHANGED cut

(* main returns: whatever still runs dies with the process.                *)
Exit ==
  /\ process = "returning" /\ process' = "exited"
  /\ counters' = [k \in Keys |-> None] /\ count' = [k \in Keys |-> [r \in Requests |-> 0]]
  /\ call' = [r \in Requests |-> Idle]
  /\ req' = [r \in Requests |-> NoRequest] /\ seen' = [r \in Requests |-> {}]
  /\ UNCHANGED <<tabVars, ledVars, flags, ops, meterClosed, cut>>

Signalled ==
  \/ FirstSignal /\ UNCHANGED <<limVars, tabVars, ledVars, req, seen, ops>>
  \/ SecondSignal /\ UNCHANGED proxyVars

Main ==
  \/ (Drained \/ GraceExpires \/ ForcedReturns \/ CloseMeter) /\ UNCHANGED proxyVars
  \/ Exit

Running == process # "exited"

ShutdownNext ==
  \/ Signalled \/ Main
  \/ /\ Running
     /\ \/ (ClockTick \/ \E r \in Requests : Serve(r)) /\ UNCHANGED ops
        \/ Administrate
     /\ Observe
     /\ UNCHANGED mainVars

(* As in Proxy while the process lives; main runs, the grace timer fires.  *)
While(A) == Running /\ A /\ Bookkeeping /\ UNCHANGED mainVars

ShutdownFairness ==
  /\ WF_shutdownVars(Main)
  /\ \A r \in Requests :
       /\ WF_shutdownVars(While(~meterClosed /\ (Gates(r) \/ RecordSpend(r) \/ Return(r))))
       /\ WF_shutdownVars(While(Deadline(r)))
       /\ WF_shutdownVars(While(CtxDone(r) /\ (UpstreamFails(r) \/ StreamEnds(r))))

ShutdownSpec == ShutdownInit /\ [][ShutdownNext]_shutdownVars /\ ShutdownFairness
-----------------------------------------------------------------------------
(* A key that set an upstream timeout cannot be starved of its slots by an *)
(* upstream that never answers, before, during and after the drain: each   *)
(* slot comes back or the process ends.                                    *)
SlotsReturnOrExit ==
  \A r \in Requests :
    (call[r].at = "admitted" /\ req[r].at \in Dispatched /\ Setting(r, "timeout") > 0)
      ~> (call[r].at = "idle" \/ process = "exited")

(* A drain that runs to its end loses no spend: the meter is closed only   *)
(* when no handler runs.  When the drain is cut short, what is lost is     *)
(* what was not recorded by then; usage that is dropped has no other       *)
(* reason than this, a failing meter, or a JSON response that outlived its *)
(* request context.                                                        *)
DrainLosesNothing ==
  /\ meterClosed /\ ~cut => InFlight = {}
  /\ \A r \in Requests :
       At(r, "release") /\ req[r].usage > 0 =>
         \/ req[r].billed = 1
         \/ MeterFails
         \/ ~req[r].stream /\ CtxDone(r)
         \/ meterClosed /\ cut

(* A signal ends the process, whatever handlers, clients and upstreams do. *)
SignalEndsProcess == (process = "draining") ~> (process = "exited")
=============================================================================
