------------------------------ MODULE SpendLedger ------------------------------
(***************************************************************************)
(* What the spend meter promises (the Meter interface of                   *)
(* internal/meter/meter.go): each key has a bucket of spend per UTC day    *)
(* and per UTC month, and one Record adds its cost to both at once.  The   *)
(* mutex of meter.Memory gives exactly this; SqliteMeter implements it     *)
(* with transactions.  Costs are whole units instead of floats.            *)
(***************************************************************************)
EXTENDS VirtualKeys, Integers

CONSTANTS
  Costs,         \* what one request may cost
  MaxDay,        \* the calendar ends here (bound)
  DaysPerMonth   \* length of a month

ASSUME LedgerAssumption ==
  /\ Costs \subseteq Nat
  /\ MaxDay \in Nat
  /\ DaysPerMonth \in Nat \ {0}

VARIABLES
  day,           \* key -> day -> spend
  month,         \* key -> month -> spend
  today          \* the UTC calendar

ledgerVars == <<day, month, today>>

Days == 0..MaxDay
MonthOf(d) == d \div DaysPerMonth
Months == {MonthOf(d) : d \in Days}

LedgerTypeOK ==
  /\ day \in [Keys -> [Days -> Nat]]
  /\ month \in [Keys -> [Months -> Nat]]
  /\ today \in Days

LedgerInit ==
  /\ day = [k \in Keys |-> [d \in Days |-> 0]]
  /\ month = [k \in Keys |-> [m \in Months |-> 0]]
  /\ today = 0

(* Mutant: the comparison lets a key spend past a cap it has reached.      *)
Exceeded_OnlyAbove(k, d, dailyCap, monthCap) ==
  \/ dailyCap > 0 /\ day[k][d] > dailyCap
  \/ monthCap > 0 /\ month[k][MonthOf(d)] > monthCap

(* Check returns ErrBudgetExceeded; a cap of 0 is no cap.                  *)
Exceeded(k, d, dailyCap, monthCap) ==
  \/ dailyCap > 0 /\ day[k][d] >= dailyCap
  \/ monthCap > 0 /\ month[k][MonthOf(d)] >= monthCap

(* Record with the clock read on day d.                                    *)
Record(k, d, c) ==
  /\ d <= today
  /\ c > 0
  /\ day' = [day EXCEPT ![k][d] = @ + c]
  /\ month' = [month EXCEPT ![k][MonthOf(d)] = @ + c]
  /\ UNCHANGED today

NextDay ==
  /\ today < MaxDay
  /\ today' = today + 1
  /\ UNCHANGED <<day, month>>

LedgerNext ==
  \/ \E k \in Keys, d \in Days, c \in Costs : Record(k, d, c)
  \/ NextDay

LedgerSpec == LedgerInit /\ [][LedgerNext]_ledgerVars
=============================================================================
