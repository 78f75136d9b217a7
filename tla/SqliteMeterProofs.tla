--------------------------- MODULE SqliteMeterProofs ---------------------------
(***************************************************************************)
(* SqliteMeter for any set of callers, keys, costs and caps and a calendar *)
(* of any length: its durable buckets change as if Record were atomic, they*)
(* hold exactly the committed spend, and a Check of a spent budget never   *)
(* passes.  None of the three is inductive.  MeterInv adds that the        *)
(* connection belongs to the one call that is between its BEGIN or SELECT  *)
(* and its end, so the open transaction is that call's and holds its own   *)
(* cost, and that the buckets a waiting Check will read only grow.         *)
(***************************************************************************)
EXTENDS SqliteMeter, WellFoundedInduction, TLAPS

(* The connection is held by the call that runs a transaction or a query,  *)
(* and by no other: MaxOpenConns is one.                                   *)
ConnIsHolder ==
  \A w \in Callers : conn = w <=> job[w].at \in {"day", "month", "commit", "close"}

(* A call in progress is about a key, on a day the calendar has reached.   *)
CallsAreTyped ==
  \A w \in Callers :
    /\ job[w].at # "returned" => job[w].key \in Keys /\ job[w].d <= today
    /\ job[w].at \in {"begin", "day", "month", "commit"} => job[w].cost \in Costs /\ job[w].cost > 0

(* The open transaction holds the cost of the call that runs it.           *)
TxIsOwn ==
  \A w \in Callers :
    /\ job[w].at \in {"month", "commit"} => tx.day = job[w].cost
    /\ job[w].at = "commit" => tx.month = job[w].cost

(* A Check that was called on a spent budget still finds it spent, and it  *)
(* has no verdict before it has read the buckets.                          *)
LateStaysLate ==
  \A w \in Callers :
    /\ job[w].late => /\ job[w].at \in {"query", "close"}
                      /\ Exceeded(job[w].key, job[w].d, job[w].dailyCap, job[w].monthCap)
    /\ job[w].at = "query" => job[w].verdict = None

MeterInv ==
  /\ MeterTypeOK
  /\ ConnIsHolder
  /\ CallsAreTyped
  /\ TxIsOwn
  /\ LateStaysLate
  /\ SpendIsExact
  /\ LateCheckNeverPasses

(* A day belongs to a month of the calendar.                               *)
LEMMA MonthOfDay ==
  ASSUME NEW d \in Days
  PROVE  MonthOf(d) \in Months
BY DEF Months

(* Init: empty buckets, a free connection and no call in progress.         *)
LEMMA MeterInitInv == MeterInit => MeterInv
<1> SUFFICES ASSUME MeterInit PROVE MeterInv
  OBVIOUS
<1> USE DEF MeterInit, LedgerInit, Returned
<1>1. MeterTypeOK
  BY LedgerAssumption, MeterAssumption DEF MeterTypeOK, LedgerTypeOK, Days, Job, NoTx
<1>2. ConnIsHolder
  BY MeterAssumption DEF ConnIsHolder
<1>3. CallsAreTyped /\ TxIsOwn /\ LateStaysLate /\ LateCheckNeverPasses
  BY DEF CallsAreTyped, TxIsOwn, LateStaysLate, LateCheckNeverPasses
<1>4. SpendIsExact
  BY DEF SpendIsExact
<1> QED
  BY <1>1, <1>2, <1>3, <1>4 DEF MeterInv

(* A call of Record or Check begins: it reads the clock and its arguments. *)
LEMMA CallInv ==
  ASSUME MeterInv, NEW w \in Callers,
         \/ \E k \in Keys, c \in Costs : RecordCall(w, k, c)
         \/ \E k \in Keys, dc \in Caps, mc \in Caps : CheckCall(w, k, dc, mc)
  PROVE  MeterInv'
<1> USE DEF MeterInv
<1>1. ASSUME NEW k \in Keys, NEW c \in Costs, RecordCall(w, k, c)
      PROVE  MeterInv'
  <2> DEFINE j == [Returned EXCEPT !.at = "begin", !.key = k, !.d = today, !.cost = c]
  <2>t. today \in Days /\ c \in Nat /\ c > 0
    BY <1>1, LedgerAssumption DEF MeterTypeOK, LedgerTypeOK, RecordCall
  <2>j. /\ j \in Job
        /\ j.at = "begin" /\ j.key = k /\ j.d = today /\ j.cost = c /\ ~j.late
    BY <2>t, MeterAssumption DEF Job, Returned
  <2>s. /\ job' = [job EXCEPT ![w] = j] /\ job[w].at = "returned"
        /\ records < MaxRecords /\ records' = records + 1
        /\ UNCHANGED <<day, month, today, conn, tx, committed>>
    BY <1>1 DEF RecordCall, At
  <2> HIDE DEF j
  <2>1. MeterTypeOK'
    <3>1. job' \in [Callers -> Job]
      BY <2>s, <2>j DEF MeterTypeOK
    <3>2. records' \in 0..MaxRecords
      BY <2>s, MeterAssumption DEF MeterTypeOK
    <3> QED
      BY <2>s, <3>1, <3>2 DEF MeterTypeOK, LedgerTypeOK
  <2>2. ConnIsHolder' /\ TxIsOwn'
    BY <2>s, <2>j DEF MeterTypeOK, ConnIsHolder, TxIsOwn
  <2>3. CallsAreTyped'
    BY <2>s, <2>j, <2>t DEF MeterTypeOK, CallsAreTyped, Days
  <2>4. LateStaysLate' /\ SpendIsExact' /\ LateCheckNeverPasses'
    BY <2>s, <2>j DEF MeterTypeOK, LateStaysLate, SpendIsExact, LateCheckNeverPasses, Exceeded
  <2> QED
    BY <2>1, <2>2, <2>3, <2>4
<1>2. ASSUME NEW k \in Keys, NEW dc \in Caps, NEW mc \in Caps, CheckCall(w, k, dc, mc)
      PROVE  MeterInv'
  <2> DEFINE j == [Returned EXCEPT !.at = "query", !.key = k, !.d = today,
                     !.dailyCap = dc, !.monthCap = mc, !.late = Exceeded(k, today, dc, mc)]
  <2>t. today \in Days /\ Exceeded(k, today, dc, mc) \in BOOLEAN
    BY DEF MeterTypeOK, LedgerTypeOK, Exceeded
  <2>j. /\ j \in Job
        /\ j.at = "query" /\ j.key = k /\ j.d = today /\ j.dailyCap = dc /\ j.monthCap = mc
        /\ j.late = Exceeded(k, today, dc, mc) /\ j.verdict = None
    BY <2>t, MeterAssumption DEF Job, Returned
  <2>s. /\ job' = [job EXCEPT ![w] = j] /\ job[w].at = "returned"
        /\ UNCHANGED <<day, month, today, conn, tx, records, committed>>
    BY <1>2 DEF CheckCall, At
  <2> HIDE DEF j
  <2>1. MeterTypeOK'
    BY <2>s, <2>j DEF MeterTypeOK, LedgerTypeOK
  <2>2. ConnIsHolder' /\ TxIsOwn'
    BY <2>s, <2>j DEF MeterTypeOK, ConnIsHolder, TxIsOwn
  <2>3. CallsAreTyped'
    BY <2>s, <2>j, <2>t DEF MeterTypeOK, CallsAreTyped, Days
  <2>4. LateStaysLate' /\ SpendIsExact' /\ LateCheckNeverPasses'
    BY <2>s, <2>j, <2>t, MeterAssumption
    DEF MeterTypeOK, LateStaysLate, SpendIsExact, LateCheckNeverPasses, Exceeded
  <2> QED
    BY <2>1, <2>2, <2>3, <2>4
<1> QED
  BY <1>1, <1>2

(* A call that is not in progress.                                         *)
LEMMA ReturnedJob ==
  /\ Returned \in Job
  /\ Returned.at = "returned" /\ ~Returned.late /\ Returned.verdict = None
BY LedgerAssumption DEF Returned, Job, Days

(* Caps are natural numbers.                                               *)
LEMMA CapType ==
  ASSUME MeterTypeOK, NEW w \in Callers
  PROVE  job[w].d \in Days /\ job[w].dailyCap \in Nat /\ job[w].monthCap \in Nat
<1>1. job[w].d \in Days /\ job[w].dailyCap \in Caps \cup {0} /\ job[w].monthCap \in Caps \cup {0}
  BY DEF MeterTypeOK, Job
<1>2. \A x \in Caps \cup {0} : x \in Nat
  BY MeterAssumption
<1> QED
  BY <1>1, <1>2

(* A call that goes on to its next statement keeps everything else.        *)
LEMMA GotoJob ==
  ASSUME MeterTypeOK, NEW w \in Callers, NEW p \in {"day", "month", "commit"}, Goto(w, p)
  PROVE  /\ job' \in [Callers -> Job]
         /\ \A u \in Callers \ {w} : job'[u] = job[u]
         /\ job'[w].at = p /\ job'[w].key = job[w].key /\ job'[w].d = job[w].d
         /\ job'[w].cost = job[w].cost /\ job'[w].late = job[w].late
         /\ job'[w].verdict = job[w].verdict
<1> DEFINE j == [job[w] EXCEPT !.at = p]
<1>1. job[w] \in Job
  BY DEF MeterTypeOK
<1>2. /\ j \in Job
      /\ j.at = p /\ j.key = job[w].key /\ j.d = job[w].d
      /\ j.cost = job[w].cost /\ j.late = job[w].late /\ j.verdict = job[w].verdict
  BY <1>1 DEF Job
<1>3. job' = [job EXCEPT ![w] = j]
  BY DEF Goto
<1> HIDE DEF j
<1> QED
  BY <1>2, <1>3 DEF MeterTypeOK

(* The connection passes to a waiting call: a transaction begins, or a     *)
(* SELECT reads the buckets, which are at least what they were when the    *)
(* Check was called.                                                       *)
LEMMA TakeConnInv ==
  ASSUME MeterInv, NEW w \in Callers, Begin(w) \/ Query(w)
  PROVE  MeterInv'
<1> USE DEF MeterInv
<1>1. ASSUME Begin(w) PROVE MeterInv'
  <2> USE <1>1 DEF Begin, At
  <2>j. Goto(w, "day")
    OBVIOUS
  <2>1. MeterTypeOK'
    BY <2>j, GotoJob DEF MeterTypeOK, LedgerTypeOK, NoTx
  <2>2. ConnIsHolder' /\ TxIsOwn'
    BY <2>j, GotoJob, MeterAssumption DEF ConnIsHolder, TxIsOwn
  <2>3. CallsAreTyped'
    BY <2>j, GotoJob DEF CallsAreTyped
  <2>4. LateStaysLate' /\ SpendIsExact' /\ LateCheckNeverPasses'
    BY <2>j, GotoJob DEF LateStaysLate, SpendIsExact, LateCheckNeverPasses, Exceeded
  <2> QED
    BY <2>1, <2>2, <2>3, <2>4
<1>2. ASSUME Query(w) PROVE MeterInv'
  <2> DEFINE v == IF Exceeded(job[w].key, job[w].d, job[w].dailyCap, job[w].monthCap)
                    THEN "exceeded" ELSE "ok"
  <2>s. /\ job[w].at = "query" /\ conn = None /\ conn' = w
        /\ job' = [job EXCEPT ![w].at = "close", ![w].verdict = v]
        /\ UNCHANGED <<day, month, today, tx, records, committed>>
    BY <1>2 DEF Query, At
  <2>v. v \in {"ok", "exceeded"} /\ (job[w].late => v # "ok")
    BY DEF LateStaysLate
  <2> HIDE DEF v
  <2>1. MeterTypeOK'
    <3> DEFINE j == [job[w] EXCEPT !.at = "close", !.verdict = v]
    <3>1. job[w] \in Job /\ job' = [job EXCEPT ![w] = j]
      BY <2>s DEF MeterTypeOK
    <3>2. j \in Job
      BY <2>v, <3>1 DEF Job
    <3> HIDE DEF j
    <3> QED
      BY <2>s, <3>1, <3>2 DEF MeterTypeOK, LedgerTypeOK
  <2>2. ConnIsHolder' /\ TxIsOwn'
    BY <2>s, MeterAssumption DEF MeterTypeOK, ConnIsHolder, TxIsOwn, Job
  <2>3. CallsAreTyped'
    BY <2>s DEF MeterTypeOK, CallsAreTyped, Job
  <2>4. LateStaysLate' /\ SpendIsExact' /\ LateCheckNeverPasses'
    BY <2>s, <2>v DEF MeterTypeOK, LateStaysLate, SpendIsExact, LateCheckNeverPasses, Exceeded, Job
  <2> QED
    BY <2>1, <2>2, <2>3, <2>4
<1> QED
  BY <1>1, <1>2

(* An upsert adds the cost of the call to its own transaction: no other    *)
(* call is between BEGIN and COMMIT.                                       *)
LEMMA UpsertInv ==
  ASSUME MeterInv, NEW w \in Callers, UpsertDay(w) \/ UpsertMonth(w)
  PROVE  MeterInv'
<1> USE DEF MeterInv
<1> USE DEF UpsertDay, UpsertMonth, At
<1>1. \A u \in Callers \ {w} : job[u].at \notin {"day", "month", "commit", "close"}
  BY DEF ConnIsHolder
<1>2. job[w].cost \in Costs
  BY DEF CallsAreTyped
<1>3. PICK p \in {"month", "commit"} : Goto(w, p) /\ UNCHANGED <<day, month, today, conn, records, committed>>
  OBVIOUS
<1>4. MeterTypeOK'
  BY <1>2, <1>3, GotoJob DEF MeterTypeOK, LedgerTypeOK
<1>5. ConnIsHolder'
  BY <1>3, GotoJob DEF ConnIsHolder
<1>6. TxIsOwn'
  <2>1. CASE UpsertDay(w)
    BY <2>1, <1>1, GotoJob DEF TxIsOwn, MeterTypeOK
  <2>2. CASE UpsertMonth(w)
    BY <2>2, <1>1, GotoJob DEF TxIsOwn, MeterTypeOK
  <2> QED
    BY <2>1, <2>2
<1>7. CallsAreTyped'
  BY <1>3, GotoJob DEF CallsAreTyped
<1>8. LateStaysLate' /\ SpendIsExact' /\ LateCheckNeverPasses'
  BY <1>3, GotoJob DEF LateStaysLate, SpendIsExact, LateCheckNeverPasses, Exceeded
<1> QED
  BY <1>4, <1>5, <1>6, <1>7, <1>8

(* A committed transaction is one Record of the ledger.                    *)
LEMMA CommitIsRecord ==
  ASSUME MeterInv, NEW w \in Callers, Commit(w)
  PROVE  /\ job[w].key \in Keys /\ job[w].d \in Days /\ job[w].cost \in Costs
         /\ Record(job[w].key, job[w].d, job[w].cost)
<1>1. job[w].at = "commit"
  BY DEF Commit, At
<1>2. /\ job[w].key \in Keys /\ job[w].d <= today
      /\ job[w].cost \in Costs /\ job[w].cost > 0
  BY <1>1 DEF MeterInv, CallsAreTyped
<1>3. job[w].d \in Days
  BY DEF MeterInv, MeterTypeOK, Job
<1>4. tx.day = job[w].cost /\ tx.month = job[w].cost
  BY <1>1 DEF MeterInv, TxIsOwn
<1> QED
  BY <1>2, <1>3, <1>4 DEF Commit, Apply, Record

(* A Record of the ledger only adds to buckets.                            *)
LEMMA RecordGrows ==
  ASSUME LedgerTypeOK, NEW k \in Keys, NEW d \in Days, NEW c \in Costs, Record(k, d, c)
  PROVE  /\ LedgerTypeOK'
         /\ \A i \in Keys, e \in Days : day'[i][e] >= day[i][e]
         /\ \A i \in Keys, m \in Months : month'[i][m] >= month[i][m]
<1>1. c \in Nat /\ MonthOf(d) \in Months
  BY LedgerAssumption, MonthOfDay
<1>2. day' = [day EXCEPT ![k][d] = @ + c] /\ month' = [month EXCEPT ![k][MonthOf(d)] = @ + c]
  BY DEF Record
<1> HIDE DEF MonthOf, Months, Days
<1>3. /\ day' \in [Keys -> [Days -> Nat]]
      /\ \A i \in Keys, e \in Days : day'[i][e] >= day[i][e]
  BY <1>1, <1>2 DEF LedgerTypeOK
<1>4. /\ month' \in [Keys -> [Months -> Nat]]
      /\ \A i \in Keys, m \in Months : month'[i][m] >= month[i][m]
  BY <1>1, <1>2 DEF LedgerTypeOK
<1> QED
  BY <1>3, <1>4 DEF LedgerTypeOK, Record

(* A budget that was spent stays spent when buckets only grow.             *)
LEMMA SpentStaysSpent ==
  ASSUME LedgerTypeOK, LedgerTypeOK',
         \A i \in Keys, e \in Days : day'[i][e] >= day[i][e],
         \A i \in Keys, m \in Months : month'[i][m] >= month[i][m],
         NEW k \in Keys, NEW d \in Days, NEW dc \in Nat, NEW mc \in Nat, Exceeded(k, d, dc, mc)
  PROVE  Exceeded(k, d, dc, mc)'
<1>1. MonthOf(d) \in Months
  BY MonthOfDay
<1>2. day[k][d] \in Nat /\ day'[k][d] \in Nat /\ day'[k][d] >= day[k][d]
  BY DEF LedgerTypeOK
<1>3. /\ month[k][MonthOf(d)] \in Nat /\ month'[k][MonthOf(d)] \in Nat
      /\ month'[k][MonthOf(d)] >= month[k][MonthOf(d)]
  BY <1>1 DEF LedgerTypeOK
<1> QED
  BY <1>2, <1>3 DEF Exceeded

(* Commit makes the rows durable, counts the cost and frees the connection.*)
LEMMA CommitInv ==
  ASSUME MeterInv, NEW w \in Callers, Commit(w)
  PROVE  MeterInv'
<1> USE DEF MeterInv
<1> DEFINE k == job[w].key
           d == job[w].d
           c == job[w].cost
<1>1. k \in Keys /\ d \in Days /\ c \in Costs /\ c \in Nat /\ Record(k, d, c)
  BY CommitIsRecord, LedgerAssumption
<1>2. /\ LedgerTypeOK'
      /\ \A i \in Keys, e \in Days : day'[i][e] >= day[i][e]
      /\ \A i \in Keys, m \in Months : month'[i][m] >= month[i][m]
  BY <1>1, RecordGrows DEF MeterTypeOK
<1>3. /\ committed' = [committed EXCEPT ![k][d] = @ + c]
      /\ conn' = None /\ tx' = NoTx
      /\ job' = [job EXCEPT ![w] = Returned]
      /\ UNCHANGED <<today, records>>
      /\ job[w].at = "commit"
  BY DEF Commit, Return, At
<1>4. day' = [day EXCEPT ![k][d] = @ + c]
  BY <1>1 DEF Record
<1>5. \A u \in Callers \ {w} : job[u].at \notin {"day", "month", "commit", "close"}
  BY <1>3 DEF ConnIsHolder
<1> HIDE DEF k, d, c
<1>6. MeterTypeOK'
  BY <1>1, <1>2, <1>3, ReturnedJob DEF MeterTypeOK, NoTx
<1>7. ConnIsHolder' /\ TxIsOwn'
  BY <1>3, <1>5, ReturnedJob, MeterAssumption DEF MeterTypeOK, ConnIsHolder, TxIsOwn
<1>8. CallsAreTyped'
  BY <1>3, ReturnedJob DEF MeterTypeOK, CallsAreTyped
<1>9. LateStaysLate'
  <2> SUFFICES ASSUME NEW u \in Callers
               PROVE  /\ job'[u].late => /\ job'[u].at \in {"query", "close"}
                                         /\ Exceeded(job[u].key, job[u].d, job[u].dailyCap, job[u].monthCap)'
                      /\ job'[u].at = "query" => job'[u].verdict = None
    BY DEF LateStaysLate
  <2>1. CASE u = w
    BY <2>1, <1>3, ReturnedJob DEF MeterTypeOK
  <2>2. CASE u # w
    <3>1. job'[u] = job[u]
      BY <2>2, <1>3 DEF MeterTypeOK
    <3>2. job[u].d \in Days /\ job[u].dailyCap \in Nat /\ job[u].monthCap \in Nat
      BY CapType
    <3>3. ASSUME job[u].late
          PROVE  Exceeded(job[u].key, job[u].d, job[u].dailyCap, job[u].monthCap)'
      <4>1. /\ job[u].key \in Keys
            /\ Exceeded(job[u].key, job[u].d, job[u].dailyCap, job[u].monthCap)
        BY <3>3 DEF LateStaysLate, CallsAreTyped
      <4> DEFINE K == job[u].key
                 D == job[u].d
                 dc == job[u].dailyCap
                 mc == job[u].monthCap
      <4>2. Exceeded(K, D, dc, mc)'
        BY <4>1, <3>1, <3>2, <1>2, SpentStaysSpent DEF MeterTypeOK, Exceeded
      <4> QED
        BY <4>2
    <3> QED
      BY <3>1, <3>3 DEF LateStaysLate
  <2> QED
    BY <2>1, <2>2
<1>10. SpendIsExact'
  BY <1>1, <1>3, <1>4 DEF MeterTypeOK, LedgerTypeOK, SpendIsExact
<1>11. LateCheckNeverPasses'
  BY <1>3, ReturnedJob DEF MeterTypeOK, LateCheckNeverPasses
<1> QED
  BY <1>6, <1>7, <1>8, <1>9, <1>10, <1>11

(* A call returns without a write: it gives the connection back if it had  *)
(* it, and the open transaction of another call stays as it is.            *)
LEMMA ReturnInv ==
  ASSUME MeterInv, NEW w \in Callers, Return(w),
         conn' = IF conn = w THEN None ELSE conn,
         tx' = tx \/ (conn = w /\ tx' = NoTx),
         UNCHANGED <<day, month, today, records, committed>>
  PROVE  MeterInv'
<1> USE DEF MeterInv
<1>1. job' = [job EXCEPT ![w] = Returned]
  BY DEF Return
<1>2. conn = w => \A u \in Callers \ {w} : job[u].at \notin {"day", "month", "commit", "close"}
  BY DEF ConnIsHolder
<1>3. MeterTypeOK'
  BY <1>1, ReturnedJob DEF MeterTypeOK, LedgerTypeOK, NoTx
<1>4. ConnIsHolder' /\ TxIsOwn'
  BY <1>1, <1>2, ReturnedJob, MeterAssumption DEF MeterTypeOK, ConnIsHolder, TxIsOwn
<1>5. CallsAreTyped'
  BY <1>1, ReturnedJob DEF MeterTypeOK, CallsAreTyped
<1>6. LateStaysLate' /\ SpendIsExact' /\ LateCheckNeverPasses'
  BY <1>1, ReturnedJob DEF MeterTypeOK, LateStaysLate, SpendIsExact, LateCheckNeverPasses, Exceeded
<1> QED
  BY <1>3, <1>4, <1>5, <1>6

(* Errors and the end of a Check.                                          *)
LEMMA EndInv ==
  ASSUME MeterInv, NEW w \in Callers,
         RecordFail(w) \/ QueryFail(w) \/ ScanFail(w) \/ CloseRows(w)
  PROVE  MeterInv'
<1>1. CASE RecordFail(w)
  BY <1>1, ReturnInv DEF RecordFail
<1>2. CASE QueryFail(w)
  <2>1. conn # w
    BY <1>2 DEF QueryFail, At, MeterInv, ConnIsHolder
  <2> QED
    BY <1>2, <2>1, ReturnInv DEF QueryFail
<1>3. CASE CloseRows(w)
  <2>1. conn = w
    BY <1>3 DEF CloseRows, At, MeterInv, ConnIsHolder
  <2> QED
    BY <1>3, <2>1, ReturnInv DEF CloseRows
<1>4. CASE ScanFail(w)
  <2> USE DEF MeterInv
  <2> DEFINE j == [job[w] EXCEPT !.verdict = "error"]
  <2>1. /\ job[w] \in Job /\ job[w].at = "close"
        /\ job' = [job EXCEPT ![w] = j]
        /\ UNCHANGED <<day, month, today, conn, tx, records, committed>>
    BY <1>4 DEF ScanFail, At, MeterTypeOK
  <2>2. /\ j \in Job
        /\ j.at = "close" /\ j.key = job[w].key /\ j.d = job[w].d /\ j.cost = job[w].cost
        /\ j.dailyCap = job[w].dailyCap /\ j.monthCap = job[w].monthCap
        /\ j.late = job[w].late /\ j.verdict = "error"
    BY <2>1 DEF Job
  <2> HIDE DEF j
  <2>3. MeterTypeOK'
    BY <2>1, <2>2 DEF MeterTypeOK, LedgerTypeOK
  <2>4. ConnIsHolder' /\ TxIsOwn' /\ CallsAreTyped'
    BY <2>1, <2>2 DEF MeterTypeOK, ConnIsHolder, TxIsOwn, CallsAreTyped
  <2>5. LateStaysLate' /\ SpendIsExact' /\ LateCheckNeverPasses'
    BY <2>1, <2>2 DEF MeterTypeOK, LateStaysLate, SpendIsExact, LateCheckNeverPasses, Exceeded
  <2> QED
    BY <2>3, <2>4, <2>5
<1> QED
  BY <1>1, <1>2, <1>3, <1>4

(* The process dies: the durable buckets are untouched and nothing waits.  *)
LEMMA CrashInv ==
  ASSUME MeterInv, Crash
  PROVE  MeterInv'
<1> USE DEF MeterInv, Crash
<1>1. MeterTypeOK'
  BY ReturnedJob DEF MeterTypeOK, LedgerTypeOK, NoTx
<1>2. ConnIsHolder' /\ TxIsOwn' /\ CallsAreTyped'
  BY ReturnedJob, MeterAssumption DEF ConnIsHolder, TxIsOwn, CallsAreTyped
<1>3. LateStaysLate' /\ SpendIsExact' /\ LateCheckNeverPasses'
  BY ReturnedJob DEF LateStaysLate, SpendIsExact, LateCheckNeverPasses
<1> QED
  BY <1>1, <1>2, <1>3

(* Midnight passes under calls in progress, which keep the day they read.  *)
LEMMA MidnightInv ==
  ASSUME MeterInv, Midnight
  PROVE  MeterInv'
<1> USE DEF MeterInv, Midnight, NextDay
<1>1. MeterTypeOK'
  BY LedgerAssumption DEF MeterTypeOK, LedgerTypeOK, Days
<1>2. ConnIsHolder' /\ TxIsOwn'
  BY DEF ConnIsHolder, TxIsOwn
<1>3. CallsAreTyped'
  <2>1. \A w \in Callers : job[w].d \in Int
    BY DEF MeterTypeOK, Job, Days
  <2> QED
    BY <2>1 DEF CallsAreTyped, MeterTypeOK, LedgerTypeOK, Days
<1>4. LateStaysLate' /\ SpendIsExact' /\ LateCheckNeverPasses'
  BY DEF LateStaysLate, SpendIsExact, LateCheckNeverPasses, Exceeded
<1> QED
  BY <1>1, <1>2, <1>3, <1>4

(* Every step of the meter keeps the invariant.                            *)
LEMMA MeterStepInv ==
  ASSUME MeterInv, [MeterNext]_meterVars
  PROVE  MeterInv'
<1>1. ASSUME UNCHANGED meterVars PROVE MeterInv'
  BY <1>1 DEF meterVars, MeterInv, MeterTypeOK, LedgerTypeOK, ConnIsHolder, CallsAreTyped, TxIsOwn,
              LateStaysLate, SpendIsExact, LateCheckNeverPasses, Exceeded
<1>2. ASSUME NEW w \in Callers,
             \/ \E k \in Keys, c \in Costs : RecordCall(w, k, c)
             \/ \E k \in Keys, dc \in Caps, mc \in Caps : CheckCall(w, k, dc, mc)
             \/ Begin(w) \/ Query(w) \/ Holding(w)
             \/ RecordFail(w) \/ QueryFail(w) \/ ScanFail(w)
      PROVE  MeterInv'
  BY <1>2, CallInv, TakeConnInv, UpsertInv, CommitInv, EndInv DEF Holding
<1>3. ASSUME Crash \/ Midnight PROVE MeterInv'
  BY <1>3, CrashInv, MidnightInv
<1> QED
  BY <1>1, <1>2, <1>3 DEF MeterNext

(* The invariant holds in every reachable state of the meter.              *)
THEOREM MeterInvariant == MeterSpec => []MeterInv
<1>1. MeterInit => MeterInv
  BY MeterInitInv
<1>2. MeterInv /\ [MeterNext]_meterVars => MeterInv'
  BY MeterStepInv
<1> QED
  BY <1>1, <1>2, PTL DEF MeterSpec

(* The meter's state keeps its types: whatever the calls, the failing      *)
(* statements and the crashes of sqlite.go, no bucket goes below zero and  *)
(* no commit lands outside the calendar.                                   *)
THEOREM MeterIsTyped == MeterSpec => []MeterTypeOK
BY MeterInvariant, PTL DEF MeterInv

(* Each day bucket of the database holds the cost of the Records that came *)
(* through their COMMIT, and nothing of one that failed or died.           *)
THEOREM SpendExact == MeterSpec => []SpendIsExact
BY MeterInvariant, PTL DEF MeterInv

(* A Check called on a budget that is spent never answers ok.              *)
THEOREM BudgetStaysClosed == MeterSpec => []LateCheckNeverPasses
BY MeterInvariant, PTL DEF MeterInv

(* A step of the meter is a step of the ledger or leaves its buckets and   *)
(* calendar alone: Commit is a Record, Midnight is NextDay.                *)
LEMMA MeterStepRefines ==
  ASSUME MeterInv, [MeterNext]_meterVars
  PROVE  [LedgerNext]_ledgerVars
<1> USE DEF ledgerVars
<1>1. ASSUME NEW w \in Callers, Commit(w) PROVE LedgerNext
  BY <1>1, CommitIsRecord DEF LedgerNext
<1>2. ASSUME Midnight PROVE LedgerNext
  BY <1>2 DEF Midnight, LedgerNext
<1>3. ASSUME UNCHANGED meterVars PROVE UNCHANGED ledgerVars
  BY <1>3 DEF meterVars
<1>4. ASSUME NEW w \in Callers,
             \/ \E k \in Keys, c \in Costs : RecordCall(w, k, c)
             \/ \E k \in Keys, dc \in Caps, mc \in Caps : CheckCall(w, k, dc, mc)
             \/ Begin(w) \/ Query(w) \/ UpsertDay(w) \/ UpsertMonth(w) \/ CloseRows(w)
             \/ RecordFail(w) \/ QueryFail(w) \/ ScanFail(w)
      PROVE  UNCHANGED ledgerVars
  BY <1>4 DEF RecordCall, CheckCall, Begin, Query, UpsertDay, UpsertMonth, CloseRows,
              RecordFail, QueryFail, ScanFail
<1>5. ASSUME Crash PROVE UNCHANGED ledgerVars
  BY <1>5 DEF Crash
<1> QED
  BY <1>1, <1>2, <1>3, <1>4, <1>5 DEF MeterNext, Holding

(* Refinement: transactions over one connection, with statements that fail *)
(* anywhere and a process that may die, implement the atomic ledger of the *)
(* Meter interface.                                                        *)
THEOREM MeterImplementsLedger == MeterSpec => ImplementsLedger
<1>1. MeterInit => LedgerInit
  BY DEF MeterInit
<1>2. MeterInv /\ [MeterNext]_meterVars => [LedgerNext]_ledgerVars
  BY MeterStepRefines
<1> QED
  BY <1>1, <1>2, MeterInvariant, PTL DEF MeterSpec, ImplementsLedger, LedgerSpec
-----------------------------------------------------------------------------
(* The days of a month, added up.                                          *)
Share(k, m, d) == IF MonthOf(d) = m THEN day[k][d] ELSE 0

(* g adds the shares of the days up from the first.                        *)
AddsUp(g, k, m) ==
  g = [d \in Days |-> Share(k, m, d) + IF d = 0 THEN 0 ELSE g[d - 1]]

SumsInv ==
  \A k \in Keys, m \in Months :
    \E g \in [Days -> Nat] : AddsUp(g, k, m) /\ g[MaxDay] = month[k][m]

(* A nonempty set of natural numbers has a least one.                      *)
LEMMA LeastDay ==
  ASSUME NEW T, T \subseteq Nat, T # {}
  PROVE  \E x \in T : \A y \in T : x <= y
<1>1. \A R : IsWellFoundedOn(R, Nat) => \E x \in T : \A y \in T : ~ (<<y, x>> \in R)
  BY WFMin
<1>2. IsWellFoundedOn({ss \in Nat \X Nat : ss[1] < ss[2]}, Nat)
  BY NatLessThanWellFounded, Zenon DEF OpToRel
<1>3. PICK x \in T : \A y \in T : ~ (<<y, x>> \in {ss \in Nat \X Nat : ss[1] < ss[2]})
  BY <1>1, <1>2
<1>4. \A y \in T : x <= y
  <2>1. ASSUME NEW y \in T, y < x PROVE FALSE
    <3>1. <<y, x>> \in Nat \X Nat /\ <<y, x>>[1] < <<y, x>>[2]
      BY <2>1
    <3> QED
      BY <1>3, <3>1
  <2> QED
    BY <2>1
<1> QED
  BY <1>4

(* Days can be added up in one way: two sums that differ would differ on a *)
(* first day.                                                              *)
LEMMA OneSum ==
  ASSUME NEW k, NEW m, NEW g, NEW h, AddsUp(g, k, m), AddsUp(h, k, m)
  PROVE  g = h
<1> DEFINE T == {d \in Days : g[d] # h[d]}
<1>1. /\ g = [d \in Days |-> g[d]] /\ h = [d \in Days |-> h[d]]
      /\ \A d \in Days : /\ g[d] = Share(k, m, d) + IF d = 0 THEN 0 ELSE g[d - 1]
                         /\ h[d] = Share(k, m, d) + IF d = 0 THEN 0 ELSE h[d - 1]
  BY DEF AddsUp
<1>2. SUFFICES ASSUME T # {} PROVE FALSE
  BY <1>1
<1>3. PICK x \in T : \A y \in T : x <= y
  <2>1. T \subseteq Nat
    BY DEF Days
  <2> QED
    BY <1>2, <2>1, LeastDay
<1>4. x \in Days /\ g[x] # h[x]
  OBVIOUS
<1>5. x # 0
  BY <1>1, <1>4
<1>6. x - 1 \in Days /\ x - 1 < x
  BY <1>4, <1>5, LedgerAssumption DEF Days
<1>7. g[x - 1] = h[x - 1]
  <2>1. ~(x <= x - 1)
    BY <1>4, LedgerAssumption DEF Days
  <2> QED
    BY <1>3, <1>6, <2>1
<1> QED
  BY <1>1, <1>4, <1>5, <1>7

(* The property is about the only sum there is.                            *)
LEMMA SumsAreTotals == SumsInv => MonthIsSumOfDays
<1> SUFFICES ASSUME SumsInv, NEW k \in Keys, NEW m \in Months
             PROVE  month[k][m] = SpentIn(k, m)
  BY DEF MonthIsSumOfDays
<1>1. PICK g \in [Days -> Nat] : AddsUp(g, k, m) /\ g[MaxDay] = month[k][m]
  BY DEF SumsInv
<1> DEFINE c == CHOOSE f : f = [d \in Days |-> Share(k, m, d) + IF d = 0 THEN 0 ELSE f[d - 1]]
<1>2. AddsUp(c, k, m)
  BY <1>1 DEF AddsUp
<1>3. SpentIn(k, m) = c[MaxDay]
  BY DEF SpentIn, Share
<1> HIDE DEF c
<1> QED
  BY <1>1, <1>2, <1>3, OneSum

(* Empty days add up to an empty month.                                    *)
LEMMA SumsInit == LedgerInit => SumsInv
<1> SUFFICES ASSUME LedgerInit, NEW k \in Keys, NEW m \in Months
             PROVE  \E g \in [Days -> Nat] : AddsUp(g, k, m) /\ g[MaxDay] = month[k][m]
  BY DEF SumsInv
<1> DEFINE g == [d \in Days |-> 0]
<1>1. g \in [Days -> Nat] /\ g[MaxDay] = month[k][m]
  BY LedgerAssumption DEF LedgerInit, Days
<1>2. \A d \in Days : Share(k, m, d) = 0 /\ (d # 0 => d - 1 \in Days)
  BY LedgerAssumption DEF LedgerInit, Share, Days
<1>3. AddsUp(g, k, m)
  BY <1>2 DEF AddsUp
<1> QED
  BY <1>1, <1>3

(* A Record adds its cost to a day and so to every sum from that day on;   *)
(* the sum of its month is the only one that changes.                      *)
LEMMA RecordAdds ==
  ASSUME LedgerTypeOK, SumsInv, NEW i \in Keys, NEW e \in Days, NEW c \in Costs, Record(i, e, c)
  PROVE  SumsInv'
<1> SUFFICES ASSUME NEW k \in Keys, NEW m \in Months
             PROVE  \E g \in [Days -> Nat] : AddsUp(g, k, m)' /\ g[MaxDay] = month'[k][m]
  BY DEF SumsInv, AddsUp, Days, Months
<1>1. PICK g \in [Days -> Nat] : AddsUp(g, k, m) /\ g[MaxDay] = month[k][m]
  BY DEF SumsInv
<1>2. /\ c \in Nat /\ MonthOf(e) \in Months /\ MaxDay \in Days /\ MaxDay \in Nat
      /\ Days \subseteq Nat /\ \A d \in Days : d <= MaxDay /\ (d # 0 => d - 1 \in Days)
  BY LedgerAssumption, MonthOfDay DEF Days
<1>3. /\ day \in [Keys -> [Days -> Nat]] /\ month \in [Keys -> [Months -> Nat]]
      /\ day' = [day EXCEPT ![i][e] = @ + c] /\ month' = [month EXCEPT ![i][MonthOf(e)] = @ + c]
  BY DEF LedgerTypeOK, Record
<1>4. \A d \in Days : g[d] = Share(k, m, d) + IF d = 0 THEN 0 ELSE g[d - 1]
  BY <1>1 DEF AddsUp
<1>5. \A d \in Days : Share(k, m, d) \in Nat
  BY <1>3 DEF Share
<1>6. CASE k = i /\ m = MonthOf(e)
  <2> DEFINE h == [d \in Days |-> IF d >= e THEN g[d] + c ELSE g[d]]
  <2>1. h \in [Days -> Nat]
    BY <1>2
  <2>2. month'[k][m] = month[k][m] + c
    BY <1>2, <1>3, <1>6
  <2>3. h[MaxDay] = month'[k][m]
    BY <1>1, <1>2, <2>2
  <2>4. ASSUME NEW d \in Days
        PROVE  Share(k, m, d)' = IF d = e THEN Share(k, m, d) + c ELSE Share(k, m, d)
    <3>1. day'[k][d] = IF d = e THEN day[k][d] + c ELSE day[k][d]
      BY <1>3, <1>6
    <3> QED
      BY <1>6, <3>1 DEF Share
  <2>5. ASSUME NEW d \in Days
        PROVE  h[d] = Share(k, m, d)' + IF d = 0 THEN 0 ELSE h[d - 1]
    <3>1. d \in Nat /\ e \in Nat /\ g[d] \in Nat /\ Share(k, m, d) \in Nat
      BY <1>2, <1>5
    <3>2. CASE d = 0
      <4>1. g[d] = Share(k, m, d)
        BY <1>4, <1>5, <3>2
      <4> HIDE DEF Share
      <4> QED
        BY <1>2, <2>4, <3>1, <3>2, <4>1
    <3>3. CASE d # 0
      <4>1. d - 1 \in Days /\ g[d - 1] \in Nat /\ g[d] = Share(k, m, d) + g[d - 1]
        BY <1>2, <1>4, <3>3
      <4>2. h[d - 1] = IF d - 1 >= e THEN g[d - 1] + c ELSE g[d - 1]
        BY <4>1
      <4>3. h[d] = IF d >= e THEN g[d] + c ELSE g[d]
        OBVIOUS
      <4> HIDE DEF h
      <4>4. CASE d = e
        BY <1>2, <2>4, <3>1, <3>3, <4>1, <4>2, <4>3, <4>4
      <4>5. CASE d < e
        BY <1>2, <2>4, <3>1, <3>3, <4>1, <4>2, <4>3, <4>5
      <4>6. CASE d > e
        BY <1>2, <2>4, <3>1, <3>3, <4>1, <4>2, <4>3, <4>6
      <4> QED
        BY <3>1, <4>4, <4>5, <4>6
    <3> QED
      BY <3>2, <3>3
  <2>6. AddsUp(h, k, m)'
    <3>1. h = [d \in Days |-> h[d]]
      OBVIOUS
    <3> HIDE DEF h
    <3> QED
      BY <2>5, <3>1 DEF AddsUp
  <2> QED
    BY <2>1, <2>3, <2>6
<1>7. CASE ~(k = i /\ m = MonthOf(e))
  <2>1. month'[k][m] = month[k][m]
    BY <1>2, <1>3, <1>7
  <2>2. ASSUME NEW d \in Days PROVE Share(k, m, d)' = Share(k, m, d)
    BY <1>3, <1>7 DEF Share
  <2>3. AddsUp(g, k, m)'
    BY <1>1, <2>2 DEF AddsUp
  <2> QED
    BY <1>1, <2>1, <2>3
<1> QED
  BY <1>6, <1>7

(* The two upserts of sqlite.go commit together, so at every moment, and   *)
(* after a crash at any, the bucket of a month is the sum of the buckets   *)
(* of its days: also for a call that was overtaken by midnight.            *)
THEOREM MonthsAddUp == MeterSpec => []MonthIsSumOfDays
<1>1. MeterInit => SumsInv
  BY SumsInit DEF MeterInit
<1>2. MeterInv /\ SumsInv /\ [MeterNext]_meterVars => SumsInv'
  <2> SUFFICES ASSUME MeterInv, SumsInv, [MeterNext]_meterVars PROVE SumsInv'
    OBVIOUS
  <2>1. [LedgerNext]_ledgerVars /\ LedgerTypeOK
    BY MeterStepRefines DEF MeterInv, MeterTypeOK
  <2>2. CASE \E k \in Keys, d \in Days, c \in Costs : Record(k, d, c)
    BY <2>1, <2>2, RecordAdds
  <2>3. CASE NextDay \/ UNCHANGED ledgerVars
    <3>1. UNCHANGED <<day, month>>
      BY <2>3 DEF NextDay, ledgerVars
    <3> QED
      BY <3>1 DEF SumsInv, AddsUp, Share
  <2> QED
    BY <2>1, <2>2, <2>3 DEF LedgerNext
<1> QED
  BY <1>1, <1>2, MeterInvariant, SumsAreTotals, PTL DEF MeterSpec
=============================================================================
