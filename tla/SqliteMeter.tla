------------------------------ MODULE SqliteMeter ------------------------------
(***************************************************************************)
(* The SQLite spend meter, internal/meter/sqlite.go, under concurrent      *)
(* Record and Check calls, failing statements and a crash of the process.  *)
(*                                                                         *)
(* The connection pool holds one connection: BeginTx and QueryContext wait *)
(* for it, a transaction keeps it until Commit or Rollback and a query     *)
(* until its rows are closed.  Record reads the clock before it waits, so  *)
(* a day may end between that and the commit.                              *)
(***************************************************************************)
EXTENDS SpendLedger

CONSTANTS
  Callers,     \* goroutines that call the meter
  Caps,        \* budgets a Check may be called with (0 = none)
  MaxRecords,  \* calls of Record in a behaviour (bound)
  None

ASSUME MeterAssumption ==
  /\ Caps \subseteq Nat
  /\ MaxRecords \in Nat
  /\ None \notin Callers \cup {"ok", "exceeded", "error"}

VARIABLES
  conn,        \* the caller that holds the connection, or None
  tx,          \* what its open transaction has added to <<day, month>> buckets
  job,         \* caller -> its call in progress
  records,     \* calls of Record so far (bound)
  committed    \* key -> day -> cost of the Records that committed (history)

meterVars == <<day, month, today, conn, tx, job, records, committed>>

Returned == [at |-> "returned", key |-> None, d |-> 0, cost |-> 0,
             dailyCap |-> 0, monthCap |-> 0, late |-> FALSE, verdict |-> None]

Job == [at : {"returned", "begin", "day", "month", "commit", "query", "close"},
        key : Keys \cup {None}, d : Days, cost : Costs \cup {0},
        dailyCap : Caps \cup {0}, monthCap : Caps \cup {0},
        late : BOOLEAN, verdict : {None, "ok", "exceeded", "error"}]

MeterTypeOK ==
  /\ LedgerTypeOK
  /\ conn \in Callers \cup {None}
  /\ tx \in [day : Costs \cup {0}, month : Costs \cup {0}]
  /\ job \in [Callers -> Job]
  /\ records \in 0..MaxRecords
  /\ committed \in [Keys -> [Days -> Nat]]

NoTx == [day |-> 0, month |-> 0]

MeterInit ==
  /\ LedgerInit
  /\ conn = None
  /\ tx = NoTx
  /\ job = [w \in Callers |-> Returned]
  /\ records = 0
  /\ committed = [k \in Keys |-> [d \in Days |-> 0]]

At(w, p) == job[w].at = p
Goto(w, p) == job' = [job EXCEPT ![w].at = p]
Return(w) == job' = [job EXCEPT ![w] = Returned]

-----------------------------------------------------------------------------
(* Record: clock, BEGIN, two upserts, COMMIT.                              *)
RecordCall(w, k, c) ==
  /\ At(w, "returned")
  /\ c > 0
  /\ records < MaxRecords
  /\ records' = records + 1
  /\ job' = [job EXCEPT ![w] = [Returned EXCEPT !.at = "begin", !.key = k, !.d = today, !.cost = c]]
  /\ UNCHANGED <<day, month, today, conn, tx, committed>>

Begin(w) ==
  /\ At(w, "begin")
  /\ conn = None
  /\ conn' = w
  /\ tx' = NoTx
  /\ Goto(w, "day")
  /\ UNCHANGED <<day, month, today, records, committed>>

(* Mutant: an upsert that already went through is retried.                 *)
UpsertDay_Retries(w) ==
  /\ At(w, "day")
  /\ tx' = [tx EXCEPT !.day = @ + job[w].cost]
  /\ Goto(w, "month") \/ UNCHANGED job
  /\ UNCHANGED <<day, month, today, conn, records, committed>>

UpsertDay(w) ==
  /\ At(w, "day")
  /\ tx' = [tx EXCEPT !.day = job[w].cost]
  /\ Goto(w, "month")
  /\ UNCHANGED <<day, month, today, conn, records, committed>>

UpsertMonth(w) ==
  /\ At(w, "month")
  /\ tx' = [tx EXCEPT !.month = job[w].cost]
  /\ Goto(w, "commit")
  /\ UNCHANGED <<day, month, today, conn, records, committed>>

(* The rows of the transaction become durable together.                    *)
Apply(w) ==
  /\ day' = [day EXCEPT ![job[w].key][job[w].d] = @ + tx.day]
  /\ month' = [month EXCEPT ![job[w].key][MonthOf(job[w].d)] = @ + tx.month]

(* Mutant: the month bucket is chosen by the clock at commit time.         *)
Commit_ReadsClockAgain(w) ==
  /\ At(w, "commit")
  /\ day' = [day EXCEPT ![job[w].key][job[w].d] = @ + tx.day]
  /\ month' = [month EXCEPT ![job[w].key][MonthOf(today)] = @ + tx.month]
  /\ committed' = [committed EXCEPT ![job[w].key][job[w].d] = @ + job[w].cost]
  /\ conn' = None
  /\ tx' = NoTx
  /\ Return(w)
  /\ UNCHANGED <<today, records>>

(* COMMIT takes effect.  Record then returns nil, or the error of a COMMIT *)
(* that reported one all the same: the error changes nothing here, for     *)
(* nobody retries a Record.                                                *)
Commit(w) ==
  /\ At(w, "commit")
  /\ Apply(w)
  /\ committed' = [committed EXCEPT ![job[w].key][job[w].d] = @ + job[w].cost]
  /\ conn' = None
  /\ tx' = NoTx
  /\ Return(w)
  /\ UNCHANGED <<today, records>>

(* Mutant: no transaction, so a failing second upsert leaves the first.    *)
RecordFail_KeepsWrites(w) ==
  /\ job[w].at \in {"begin", "day", "month", "commit"}
  /\ IF conn = w THEN Apply(w) /\ conn' = None /\ tx' = NoTx
                 ELSE UNCHANGED <<day, month, conn, tx>>
  /\ Return(w)
  /\ UNCHANGED <<today, records, committed>>

(* Mutant: the error path forgets tx.Rollback, and the connection with it. *)
RecordFail_NoRollback(w) ==
  /\ job[w].at \in {"begin", "day", "month", "commit"}
  /\ Return(w)
  /\ UNCHANGED <<day, month, today, conn, tx, records, committed>>

(* A statement fails (busy database, I/O error, the caller's context is    *)
(* done, also while waiting for the connection), or a COMMIT without       *)
(* effect: Rollback, and an error.                                         *)
RecordFail(w) ==
  /\ job[w].at \in {"begin", "day", "month", "commit"}
  /\ IF conn = w THEN conn' = None /\ tx' = NoTx ELSE UNCHANGED <<conn, tx>>
  /\ Return(w)
  /\ UNCHANGED <<day, month, today, records, committed>>

-----------------------------------------------------------------------------
(* Check: clock, one SELECT of both buckets, rows.Close.                   *)
CheckCall(w, k, dc, mc) ==
  /\ At(w, "returned")
  /\ dc > 0 \/ mc > 0
  /\ job' = [job EXCEPT ![w] = [Returned EXCEPT !.at = "query", !.key = k, !.d = today,
               !.dailyCap = dc, !.monthCap = mc, !.late = Exceeded(k, today, dc, mc)]]
  /\ UNCHANGED <<day, month, today, conn, tx, records, committed>>

(* Mutant: the day is read when the connection is there.                   *)
Query_ReadsClock(w) ==
  LET j == job[w] IN
  /\ At(w, "query")
  /\ conn = None
  /\ conn' = w
  /\ job' = [job EXCEPT ![w].at = "close", ![w].verdict =
               IF Exceeded(j.key, today, j.dailyCap, j.monthCap) THEN "exceeded" ELSE "ok"]
  /\ UNCHANGED <<day, month, today, tx, records, committed>>

Query(w) ==
  LET j == job[w] IN
  /\ At(w, "query")
  /\ conn = None
  /\ conn' = w
  /\ job' = [job EXCEPT ![w].at = "close", ![w].verdict =
               IF Exceeded(j.key, j.d, j.dailyCap, j.monthCap) THEN "exceeded" ELSE "ok"]
  /\ UNCHANGED <<day, month, today, tx, records, committed>>

(* The query or the scan of its rows fails.                                *)
QueryFail(w) ==
  /\ At(w, "query")
  /\ Return(w)
  /\ UNCHANGED <<day, month, today, conn, tx, records, committed>>

ScanFail(w) ==
  /\ At(w, "close")
  /\ job[w].verdict # "error"
  /\ job' = [job EXCEPT ![w].verdict = "error"]
  /\ UNCHANGED <<day, month, today, conn, tx, records, committed>>

(* Mutant: rows.Close is skipped when the scan failed.                     *)
CloseRows_NotOnError(w) ==
  /\ At(w, "close")
  /\ conn' = IF job[w].verdict = "error" THEN conn ELSE None
  /\ Return(w)
  /\ UNCHANGED <<day, month, today, tx, records, committed>>

CloseRows(w) ==
  /\ At(w, "close")
  /\ conn' = None
  /\ Return(w)
  /\ UNCHANGED <<day, month, today, tx, records, committed>>

-----------------------------------------------------------------------------
(* The process dies and restarts: committed rows survive, the open         *)
(* transaction and every call in progress do not.                          *)
Crash ==
  /\ conn' = None
  /\ tx' = NoTx
  /\ job' = [w \in Callers |-> Returned]
  /\ UNCHANGED <<day, month, today, records, committed>>

Midnight == NextDay /\ UNCHANGED <<conn, tx, job, records, committed>>

Holding(w) == UpsertDay(w) \/ UpsertMonth(w) \/ Commit(w) \/ CloseRows(w)

MeterNext ==
  \/ \E w \in Callers :
       \/ \E k \in Keys, c \in Costs : RecordCall(w, k, c)
       \/ \E k \in Keys, dc \in Caps, mc \in Caps : CheckCall(w, k, dc, mc)
       \/ Begin(w) \/ Query(w) \/ Holding(w)
       \/ RecordFail(w) \/ QueryFail(w) \/ ScanFail(w)
  \/ Crash
  \/ Midnight

(* A caller that holds the connection keeps running.  database/sql hands a *)
(* free connection to any of the waiting callers, not to the first: that   *)
(* none is passed over for ever is a matter of chance, and assumed.        *)
MeterFairness ==
  \A w \in Callers :
    /\ WF_meterVars(Holding(w))
    /\ SF_meterVars(Begin(w) \/ Query(w))

MeterSpec == MeterInit /\ [][MeterNext]_meterVars /\ MeterFairness
-----------------------------------------------------------------------------
(* The meter implements the ledger: whatever statements fail and wherever  *)
(* the process dies, the durable buckets change as if Record were atomic.  *)
ImplementsLedger == LedgerSpec

SpentIn(k, m) ==
  LET upto[d \in Days] == (IF MonthOf(d) = m THEN day[k][d] ELSE 0)
                             + IF d = 0 THEN 0 ELSE upto[d - 1]
  IN  upto[MaxDay]

(* A month is the sum of its days (Record writes both buckets "in a single *)
(* transaction, so a crash between the two writes cannot leave them out of *)
(* sync"), also for a call that began before midnight.                     *)
MonthIsSumOfDays ==
  \A k \in Keys : \A m \in Months :
    month[k][m] = SpentIn(k, m)

(* Spend is exact: a bucket holds the cost of every Record that came       *)
(* through its COMMIT (so of every one that returned nil) and nothing of   *)
(* one that failed or died before, under any interleaving of callers.      *)
SpendIsExact ==
  \A k \in Keys : \A d \in Days : day[k][d] = committed[k][d]

(* The budget gate does not reopen: a Check called when the key had        *)
(* already reached its cap never answers ok, however long it waits for     *)
(* the connection and whatever happens meanwhile.                          *)
LateCheckNeverPasses ==
  \A w \in Callers : job[w].late => job[w].verdict # "ok"

(* Nobody waits for the connection for ever: every call returns.           *)
CallsReturn ==
  \A w \in Callers : job[w].at # "returned" ~> job[w].at = "returned"
=============================================================================
