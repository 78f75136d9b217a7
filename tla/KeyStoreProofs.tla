---------------------------- MODULE KeyStoreProofs ----------------------------
(***************************************************************************)
(* KeyStore for any set of keys, settings and admin handlers and a clock   *)
(* of any length.  A sweep works on a list that is old when it stamps the  *)
(* last key, and an Update writes a row it read before others wrote: the   *)
(* invariant says what is still true of both when they are used.           *)
(***************************************************************************)
EXTENDS KeyStore, TLAPS

(* What the sweeper and the handlers remember is about keys that exist (a  *)
(* key is never deleted) and instants that have passed.                    *)
HasCopy(a) == pending[a] # Nil /\ pending[a].row # Nil

MemoryIsHistory ==
  /\ ticker # Nil => ticker <= now
  /\ \A e \in sweep : e.key \in Existing /\ Passed(e.at)
  /\ \A a \in Admins : HasCopy(a) => pending[a].key \in Existing /\ backend = "sqlite"

StoreInv ==
  /\ StoreTypeOK
  /\ MemoryIsHistory
  /\ StampsAreHistory

-----------------------------------------------------------------------------
(* The second an instant lies in never decreases.                          *)
LEMMA SecondsGrow ==
  ASSUME NEW t \in Nat, NEW u \in Nat, t <= u
  PROVE  t \div 2 <= u \div 2
OBVIOUS

(* What has passed stays so, and an expiry that compares as reached, as a  *)
(* time or as text, at an instant that has passed has passed itself.       *)
LEMMA PassedFacts ==
  ASSUME TableTypeOK
  PROVE  /\ \A t \in Time : t <= now => Passed(t)
         /\ \A t \in Time, u \in Time : u <= now /\ AtOrBefore(t, u) => Passed(t)
         /\ now' \in Time /\ now' >= now /\ backend' = backend =>
              \A t \in Time : Passed(t) =>
                IF backend' = "memory" THEN t <= now' ELSE t \div 2 <= now' \div 2
<1>1. now \in Nat /\ Time \subseteq Nat
  BY DEF TableTypeOK, Time
<1>2. ASSUME NEW t \in Time, t <= now PROVE Passed(t)
  BY <1>1, <1>2, SecondsGrow DEF Passed
<1>3. ASSUME NEW t \in Time, NEW u \in Time, u <= now, AtOrBefore(t, u) PROVE Passed(t)
  <2>1. CASE backend = "memory"
    BY <1>1, <1>3, <2>1 DEF Passed, AtOrBefore
  <2>2. CASE backend # "memory"
    <3>1. u \div 2 <= now \div 2
      BY <1>1, <1>3, SecondsGrow
    <3>2. t \div 2 <= u \div 2
      BY <1>1, <1>3, <2>2 DEF AtOrBefore
    <3>3. t \div 2 \in Int /\ u \div 2 \in Int /\ now \div 2 \in Int
      BY <1>1
    <3> QED
      BY <2>2, <3>1, <3>2, <3>3 DEF Passed
  <2> QED
    BY <2>1, <2>2
<1>4. ASSUME NEW t \in Time, Passed(t), now' \in Time, now' >= now, backend' = backend
      PROVE  IF backend' = "memory" THEN t <= now' ELSE t \div 2 <= now' \div 2
  <2>1. now' \in Nat /\ t \in Nat
    BY <1>1, <1>4
  <2>2. now \div 2 <= now' \div 2
    BY <1>1, <1>4, <2>1, SecondsGrow
  <2>3. t \div 2 \in Int /\ now' \div 2 \in Int /\ now \div 2 \in Int
    BY <1>1, <2>1
  <2>4. CASE backend = "memory"
    BY <1>1, <1>4, <2>1, <2>4 DEF Passed
  <2>5. CASE backend # "memory"
    <3>1. t \div 2 <= now \div 2
      BY <1>4, <2>5 DEF Passed
    <3> QED
      BY <1>4, <2>2, <2>3, <2>5, <3>1
  <2> QED
    BY <2>4, <2>5
<1> QED
  BY <1>2, <1>3, <1>4

(* An existing key has a row of the table.                                 *)
LEMMA ExistingRow ==
  ASSUME TableTypeOK, NEW k \in Existing
  PROVE  /\ k \in Keys /\ rows[k] \in Row /\ rows[k] # Nil
         /\ rows[k].cfg \in [Fields -> Values]
         /\ rows[k].expiresAt \in Time \cup {Nil}
         /\ rows[k].revokedAt \in Time \cup {Nil}
<1>1. k \in Keys /\ rows[k] \in Row
  BY DEF TableTypeOK, Existing
<1> QED
  BY <1>1 DEF Existing, Row

(* A row assembled from its three columns is a row, and not the absent one.*)
LEMMA RowOf ==
  ASSUME NEW c \in [Fields -> Values], NEW e \in Time \cup {Nil}, NEW v \in Time \cup {Nil}
  PROVE  /\ [cfg |-> c, expiresAt |-> e, revokedAt |-> v] \in Row
         /\ [cfg |-> c, expiresAt |-> e, revokedAt |-> v] # Nil
BY RowAssumption DEF Row

(* Applying a patch to a row gives a row with the same stamp, in which the *)
(* settings the patch does not name are those of the old row.              *)
LEMMA ApplyToRow ==
  ASSUME NEW row \in Row, NEW p \in KeyPatch
  PROVE  /\ ApplyTo(row, p) \in Row
         /\ ApplyTo(row, p).revokedAt = row.revokedAt
         /\ DOMAIN p.set \subseteq Fields
         /\ \A f \in Fields \ DOMAIN p.set : ApplyTo(row, p).cfg[f] = row.cfg[f]
<1>1. PICK S \in SUBSET Fields : p.set \in [S -> Values]
  BY DEF KeyPatch
<1>2. p.expires \in Time \cup {Nil, Keep}
  BY DEF KeyPatch
<1> DEFINE c == [f \in Fields |-> IF f \in DOMAIN p.set THEN p.set[f] ELSE row.cfg[f]]
           x == IF p.expires = Keep THEN row.expiresAt ELSE p.expires
<1>3. row.cfg \in [Fields -> Values] /\ row.expiresAt \in Time \cup {Nil}
      /\ row.revokedAt \in Time \cup {Nil}
  BY DEF Row
<1>4. c \in [Fields -> Values]
  BY <1>1, <1>3
<1>5. x \in Time \cup {Nil}
  BY <1>2, <1>3
<1>6. ApplyTo(row, p) = [cfg |-> c, expiresAt |-> x, revokedAt |-> row.revokedAt]
  BY DEF ApplyTo
<1>7. \A f \in Fields \ DOMAIN p.set : c[f] = row.cfg[f]
  OBVIOUS
<1> HIDE DEF c, x
<1> QED
  BY <1>1, <1>3, <1>4, <1>5, <1>6, <1>7, RowOf

(* Writing one existing row leaves the set of existing keys as it is.      *)
LEMMA WriteKeepsExisting ==
  ASSUME TableTypeOK, NEW k \in Keys, NEW r \in Row, rows' = [rows EXCEPT ![k] = r]
  PROVE  /\ rows' \in [Keys -> Row \cup {Nil}]
         /\ Existing' = Existing \cup {k}
         /\ rows'[k] = r
         /\ \A j \in Keys \ {k} : rows'[j] = rows[j]
BY RowAssumption DEF TableTypeOK, Existing

(* The copy a PATCH takes on SQLite is the patched row, and it stays a     *)
(* PATCH of the same key and with the same patch.                          *)
LEMMA SelectedCopy ==
  ASSUME TableTypeOK, NEW a \in Admins, PatchSelect(a),
         pending \in [Admins -> Pending \cup {Nil}]
  PROVE  LET k == pending[a].key
             q == [pending[a] EXCEPT !.row = ApplyTo(rows[k], pending[a].patch)]
         IN  /\ q \in Pending /\ q.key = k /\ q.patch = pending[a].patch
             /\ q.row = ApplyTo(rows[k], pending[a].patch)
             /\ q.row \in Row /\ q.patch \in KeyPatch
<1> DEFINE k == pending[a].key
           r == ApplyTo(rows[k], pending[a].patch)
<1>1. pending[a] \in Pending /\ rows[k] # Nil
  BY DEF PatchSelect
<1>2. k \in Keys /\ pending[a].patch \in Patches
  BY <1>1 DEF Pending
<1>3. pending[a].patch \in KeyPatch /\ rows[k] \in Row
  BY <1>1, <1>2, BoundsAssumption DEF TableTypeOK
<1>4. r \in Row
  BY <1>3, ApplyToRow
<1> HIDE DEF r
<1>5. [pending[a] EXCEPT !.row = r] = [key |-> k, patch |-> pending[a].patch, row |-> r]
  BY <1>1 DEF Pending
<1>6. [key |-> k, patch |-> pending[a].patch, row |-> r] \in Pending
  BY <1>2, <1>4 DEF Pending
<1> QED
  BY <1>3, <1>4, <1>5, <1>6 DEF r

(* A stamp changes nothing but the stamp.                                  *)
LEMMA StampRow ==
  ASSUME TableTypeOK, NEW k \in Existing, NEW at \in Time, Stamp(k, at)
  PROVE  /\ rows' \in [Keys -> Row \cup {Nil}]
         /\ Existing' = Existing
         /\ rows'[k].cfg = rows[k].cfg /\ rows'[k].expiresAt = rows[k].expiresAt
         /\ rows'[k].revokedAt = at /\ at # Nil
         /\ \A j \in Keys \ {k} : rows'[j] = rows[j]
<1> DEFINE r == [cfg |-> rows[k].cfg, expiresAt |-> rows[k].expiresAt, revokedAt |-> at]
<1>1. k \in Keys /\ r \in Row
  BY ExistingRow, RowOf
<1>2. rows' = [rows EXCEPT ![k] = r]
  BY <1>1 DEF Stamp, TableTypeOK
<1>3. at # Nil
  BY TableAssumption DEF Time
<1>4. r.cfg = rows[k].cfg /\ r.expiresAt = rows[k].expiresAt /\ r.revokedAt = at
  OBVIOUS
<1> HIDE DEF r
<1>5. Existing \cup {k} = Existing
  OBVIOUS
<1> QED
  BY <1>1, <1>2, <1>3, <1>4, <1>5, WriteKeepsExisting

(* The second half of a PATCH on SQLite, on a key that is not revoked,     *)
(* writes the settings and the expiry of the copy, and not the stamp.      *)
LEMMA PatchUpdateRow ==
  ASSUME StoreInv, NEW a \in Admins, PatchUpdate(a), ~IsRevoked(rows[pending[a].key])
  PROVE  /\ pending[a].key \in Existing
         /\ rows' \in [Keys -> Row \cup {Nil}]
         /\ Existing' = Existing
         /\ rows'[pending[a].key] = [cfg       |-> pending[a].row.cfg,
                                     expiresAt |-> pending[a].row.expiresAt,
                                     revokedAt |-> Nil]
         /\ \A j \in Keys \ {pending[a].key} : rows'[j] = rows[j]
<1> DEFINE k == pending[a].key
           r == [cfg |-> pending[a].row.cfg, expiresAt |-> pending[a].row.expiresAt,
                 revokedAt |-> Nil]
<1>0. pending[a] # Nil /\ pending[a].row # Nil /\ WriteCopy(k, pending[a].row)
  BY DEF PatchUpdate
<1>1. k \in Existing
  BY <1>0 DEF StoreInv, MemoryIsHistory, HasCopy
<1>2. pending[a] \in Pending /\ pending[a].row \in Row
  BY <1>0 DEF StoreInv, StoreTypeOK, Pending
<1>3. rows[k].revokedAt = Nil
  BY DEF IsRevoked
<1>4. k \in Keys /\ r \in Row
  BY <1>1, <1>2, RowOf, ExistingRow DEF Row, StoreInv, StoreTypeOK
<1>5. rows' = [rows EXCEPT ![k] = r]
  BY <1>0, <1>3, <1>4 DEF WriteCopy, StoreInv, StoreTypeOK, TableTypeOK
<1> HIDE DEF k, r
<1>6. Existing \cup {k} = Existing
  BY <1>1
<1>7. /\ k \in Existing
      /\ rows' \in [Keys -> Row \cup {Nil}]
      /\ Existing' = Existing
      /\ rows'[k] = r
      /\ \A j \in Keys \ {k} : rows'[j] = rows[j]
  BY <1>1, <1>4, <1>5, <1>6, WriteKeepsExisting DEF StoreInv, StoreTypeOK
<1> QED
  BY <1>7 DEF k, r

-----------------------------------------------------------------------------
(* What a step may do to the table: no key disappears, the row of a        *)
(* revoked key keeps its settings, its expiry and (on SQLite) its stamp,   *)
(* and a stamp that is new is of an instant that has passed.               *)
HistoryKept ==
  /\ TableTypeOK'
  /\ Existing \subseteq Existing'
  /\ backend' = backend /\ now' >= now
  /\ \A k \in Existing : IsRevoked(rows[k]) =>
       /\ rows'[k].cfg = rows[k].cfg
       /\ rows'[k].expiresAt = rows[k].expiresAt
       /\ IsRevoked(rows'[k])
       /\ backend = "sqlite" => rows'[k].revokedAt = rows[k].revokedAt
  /\ \A k \in Existing' : IsRevoked(rows'[k]) =>
       \/ k \in Existing /\ rows'[k].revokedAt = rows[k].revokedAt
       \/ rows'[k].revokedAt \in Time /\ Passed(rows'[k].revokedAt)

(* A step that writes no row keeps the history.                            *)
LEMMA NoWriteKeepsHistory ==
  ASSUME TableTypeOK, UNCHANGED <<rows, backend>>, now' \in Time, now' >= now
  PROVE  HistoryKept
BY DEF HistoryKept, TableTypeOK, Existing, IsRevoked

(* A stamp that is not in the future, on a key that has none or in the     *)
(* memory backend, keeps the history.                                      *)
LEMMA StampKeepsHistory ==
  ASSUME TableTypeOK, NEW k \in Existing, NEW at \in Time, Passed(at), Stamp(k, at),
         IsRevoked(rows[k]) => backend # "sqlite",
         UNCHANGED <<now, backend>>
  PROVE  HistoryKept
<1>1. /\ rows' \in [Keys -> Row \cup {Nil}]
      /\ Existing' = Existing
      /\ rows'[k].cfg = rows[k].cfg /\ rows'[k].expiresAt = rows[k].expiresAt
      /\ rows'[k].revokedAt = at /\ at # Nil
      /\ \A j \in Keys \ {k} : rows'[j] = rows[j]
  BY StampRow
<1>2. TableTypeOK' /\ now' >= now
  BY <1>1 DEF TableTypeOK, Time
<1>3. Existing \subseteq Keys
  BY DEF Existing
<1> QED
  BY <1>1, <1>2, <1>3 DEF HistoryKept, IsRevoked

(* Writing the settings and the expiry of a key that is not revoked keeps  *)
(* the history.                                                            *)
LEMMA PatchKeepsHistory ==
  ASSUME TableTypeOK, NEW k \in Existing, ~IsRevoked(rows[k]),
         rows' \in [Keys -> Row \cup {Nil}], Existing' = Existing,
         rows'[k].revokedAt = Nil,
         \A j \in Keys \ {k} : rows'[j] = rows[j],
         UNCHANGED <<now, backend>>
  PROVE  HistoryKept
<1>1. TableTypeOK' /\ now' >= now
  BY DEF TableTypeOK, Time
<1>2. Existing \subseteq Keys
  BY DEF Existing
<1> QED
  BY <1>1, <1>2 DEF HistoryKept, IsRevoked

(* An Update of the table is such a write.                                 *)
LEMMA UpdateRow ==
  ASSUME TableTypeOK, NEW k \in Keys, NEW p \in KeyPatch, Update(k, p)
  PROVE  /\ k \in Existing /\ ~IsRevoked(rows[k])
         /\ rows' \in [Keys -> Row \cup {Nil}] /\ Existing' = Existing
         /\ rows'[k].revokedAt = Nil
         /\ \A f \in Fields \ DOMAIN p.set : rows'[k].cfg[f] = rows[k].cfg[f]
         /\ \A j \in Keys \ {k} : rows'[j] = rows[j]
<1>1. k \in Existing /\ ~IsRevoked(rows[k])
  BY DEF Update, Existing
<1>2. /\ ApplyTo(rows[k], p) \in Row /\ ApplyTo(rows[k], p).revokedAt = Nil
      /\ \A f \in Fields \ DOMAIN p.set : ApplyTo(rows[k], p).cfg[f] = rows[k].cfg[f]
  BY <1>1, ExistingRow, ApplyToRow DEF IsRevoked
<1>3. rows' = [rows EXCEPT ![k] = ApplyTo(rows[k], p)]
  BY DEF Update
<1>4. Existing \cup {k} = Existing
  BY <1>1
<1> QED
  BY <1>1, <1>2, <1>3, <1>4, WriteKeepsExisting

(* Every step of the store keeps the history of the table.                 *)
LEMMA StepKeepsHistory ==
  ASSUME StoreInv, StoreNext
  PROVE  HistoryKept
<1>t. TableTypeOK /\ now \in Time /\ Time \subseteq Nat
  BY DEF StoreInv, StoreTypeOK, TableTypeOK, Time
<1>1. ASSUME NEW k \in Keys, NEW cfg \in [Fields -> Values], NEW e \in Time \cup {Nil},
             CreateKey(k, cfg, e)
      PROVE  HistoryKept
  <2> DEFINE r == [cfg |-> cfg, expiresAt |-> e, revokedAt |-> Nil]
  <2>1. r \in Row /\ r.revokedAt = Nil
    BY RowOf
  <2>2. rows[k] = Nil /\ rows' = [rows EXCEPT ![k] = r] /\ UNCHANGED <<now, backend>>
    BY <1>1 DEF CreateKey, Create
  <2> HIDE DEF r
  <2>3. /\ rows' \in [Keys -> Row \cup {Nil}]
        /\ Existing' = Existing \cup {k}
        /\ rows'[k] = r
        /\ \A j \in Keys \ {k} : rows'[j] = rows[j]
    BY <1>t, <2>1, <2>2, WriteKeepsExisting
  <2>4. TableTypeOK' /\ now' >= now
    BY <1>t, <2>2, <2>3 DEF TableTypeOK
  <2>5. k \notin Existing /\ Existing \subseteq Keys
    BY <2>2 DEF Existing
  <2> QED
    BY <2>1, <2>2, <2>3, <2>4, <2>5 DEF HistoryKept, IsRevoked
<1>2. ASSUME NEW k \in Keys, RevokeKey(k) PROVE HistoryKept
  <2>1. k \in Existing /\ Passed(now)
    BY <1>2, <1>t, PassedFacts DEF RevokeKey, Revoke, Existing
  <2> QED
    BY <1>2, <1>t, <2>1, StampKeepsHistory DEF RevokeKey, Revoke
<1>3. ASSUME NEW a \in Admins, PatchMemory(a) PROVE HistoryKept
  <2>1. PICK k \in Keys, p \in KeyPatch : Update(k, p)
    BY <1>3, BoundsAssumption DEF PatchMemory, StoreInv, StoreTypeOK, Pending
  <2>2. UNCHANGED <<now, backend>>
    BY <2>1 DEF Update
  <2> QED
    BY <1>t, <2>1, <2>2, UpdateRow, PatchKeepsHistory
<1>4. ASSUME NEW a \in Admins, PatchUpdate(a) PROVE HistoryKept
  <2>1. CASE IsRevoked(rows[pending[a].key])
    BY <1>4, <1>t, <2>1, NoWriteKeepsHistory DEF PatchUpdate
  <2>2. CASE ~IsRevoked(rows[pending[a].key])
    <3>1. UNCHANGED <<now, backend>>
      BY <1>4 DEF PatchUpdate
    <3> DEFINE k == pending[a].key
               r == [cfg |-> pending[a].row.cfg, expiresAt |-> pending[a].row.expiresAt,
                     revokedAt |-> Nil]
    <3>2. /\ k \in Existing
          /\ rows' \in [Keys -> Row \cup {Nil}]
          /\ Existing' = Existing
          /\ rows'[k] = r
          /\ \A j \in Keys \ {k} : rows'[j] = rows[j]
      BY <1>4, <2>2, PatchUpdateRow
    <3>3. ~IsRevoked(rows[k]) /\ r.revokedAt = Nil
      BY <2>2
    <3> HIDE DEF k, r
    <3> QED
      BY <1>t, <3>1, <3>2, <3>3, PatchKeepsHistory
  <2> QED
    BY <2>1, <2>2
<1>5. ASSUME NEW e \in sweep, SweepRevoke(e) PROVE HistoryKept
  <2>1. e.key \in Existing /\ Passed(e.at) /\ e.at \in Time
    BY DEF StoreInv, MemoryIsHistory, StoreTypeOK
  <2>2. CASE IsRevoked(rows[e.key])
    BY <1>5, <1>t, <2>2, NoWriteKeepsHistory DEF SweepRevoke
  <2>3. CASE ~IsRevoked(rows[e.key])
    BY <1>5, <1>t, <2>1, <2>3, StampKeepsHistory DEF SweepRevoke
  <2> QED
    BY <2>2, <2>3
<1>6. ASSUME NEW e \in sweep, SweepFail(e) PROVE HistoryKept
  BY <1>6, <1>t, NoWriteKeepsHistory DEF SweepFail
<1>7. ASSUME \/ \E a \in Admins, k \in Keys, p \in Patches : PatchCall(a, k, p)
             \/ \E a \in Admins : PatchRefused(a) \/ PatchSelect(a) \/ PatchFails(a)
      PROVE  HistoryKept
  BY <1>7, <1>t, NoWriteKeepsHistory DEF PatchCall, PatchRefused, PatchSelect, PatchFails
<1>8. ASSUME TickerFires \/ SweepList \/ SweepListFail \/ Restart PROVE HistoryKept
  BY <1>8, <1>t, NoWriteKeepsHistory DEF TickerFires, SweepList, SweepListFail, Restart
<1>9. ASSUME ClockTick PROVE HistoryKept
  <2>1. now' \in Time /\ now' >= now
    BY <1>9, <1>t, TableAssumption DEF ClockTick, Tick, Time
  <2> QED
    BY <1>9, <1>t, <2>1, NoWriteKeepsHistory DEF ClockTick, Tick
<1> QED
  BY <1>1, <1>2, <1>3, <1>4, <1>5, <1>6, <1>7, <1>8, <1>9 DEF StoreNext

-----------------------------------------------------------------------------
(* Init: an empty table, and nothing remembered.                           *)
LEMMA StoreInitInv == StoreInit => StoreInv
<1> SUFFICES ASSUME StoreInit PROVE StoreInv
  OBVIOUS
<1> USE DEF StoreInit, TableInit
<1>1. StoreTypeOK
  BY TableAssumption DEF StoreTypeOK, TableTypeOK, Time
<1>2. MemoryIsHistory /\ StampsAreHistory
  BY DEF MemoryIsHistory, HasCopy, StampsAreHistory, Existing
<1> QED
  BY <1>1, <1>2 DEF StoreInv

(* When the history is kept, no stamp lies in the future afterwards.       *)
LEMMA HistoryKeepsStamps ==
  ASSUME StoreInv, HistoryKept
  PROVE  StampsAreHistory'
<1> SUFFICES ASSUME NEW k \in Existing', IsRevoked(rows'[k])
             PROVE  Passed(rows[k].revokedAt)'
  BY DEF StampsAreHistory, IsRevoked
<1> DEFINE at == rows'[k].revokedAt
<1>1. TableTypeOK /\ now' \in Time /\ now' >= now /\ backend' = backend
  BY DEF HistoryKept, StoreInv, StoreTypeOK, TableTypeOK
<1>2. at \in Time
  <2>1. k \in Keys /\ rows'[k] \in Row
    BY DEF HistoryKept, TableTypeOK, Existing
  <2> QED
    BY <2>1 DEF Row, IsRevoked
<1>3. Passed(at)
  BY DEF HistoryKept, StoreInv, StampsAreHistory, IsRevoked
<1> HIDE DEF at
<1>4. IF backend' = "memory" THEN at <= now' ELSE at \div 2 <= now' \div 2
  BY <1>1, <1>2, <1>3, PassedFacts
<1> QED
  BY <1>4 DEF at, Passed

(* A listed key exists, and its expiry had passed at the tick of the list. *)
LEMMA ListedIsHistory ==
  ASSUME StoreInv, ticker # Nil
  PROVE  /\ ListExpiring(ticker) \subseteq [key : Keys, at : Time]
         /\ \A e \in ListExpiring(ticker) : e.key \in Existing /\ Passed(e.at)
<1>1. TableTypeOK /\ ticker \in Time /\ ticker <= now
  BY DEF StoreInv, StoreTypeOK, MemoryIsHistory
<1> SUFFICES ASSUME NEW k \in Existing, rows[k].expiresAt # Nil,
                    AtOrBefore(rows[k].expiresAt, ticker)
             PROVE  k \in Keys /\ rows[k].expiresAt \in Time /\ Passed(rows[k].expiresAt)
  BY DEF ListExpiring, Listed
<1>2. k \in Keys /\ rows[k].expiresAt \in Time
  BY <1>1, ExistingRow
<1> QED
  BY <1>1, <1>2, PassedFacts

(* What is remembered before a step and kept by it is still history.       *)
LEMMA OldMemoryIsHistory ==
  ASSUME StoreInv, HistoryKept,
         ticker' \in {ticker, now, Nil}, sweep' \subseteq sweep,
         pending' \in [Admins -> Pending \cup {Nil}],
         answer' \in [Admins -> Answers \cup {Nil}],
         \A a \in Admins : pending'[a] # Nil /\ pending'[a].row # Nil =>
           pending'[a] = pending[a] \/ (pending'[a].key \in Existing /\ backend = "sqlite")
  PROVE  StoreTypeOK' /\ MemoryIsHistory'
<1>1. /\ now \in Int /\ now' \in Int /\ now' >= now /\ backend' = backend
      /\ Existing \subseteq Existing'
      /\ now \in Time /\ ticker \in Time \cup {Nil}
      /\ TableTypeOK /\ now' \in Time
  BY DEF HistoryKept, StoreInv, StoreTypeOK, TableTypeOK, Time
<1>2. StoreTypeOK'
  BY <1>1 DEF HistoryKept, StoreInv, StoreTypeOK
<1>3. ticker' # Nil => ticker' <= now'
  BY <1>1, TableAssumption DEF StoreInv, MemoryIsHistory, Time
<1>4. ASSUME NEW e \in sweep' PROVE e.key \in Existing' /\ Passed(e.at)'
  <2>1. e.key \in Existing /\ e.at \in Time /\ Passed(e.at)
    BY DEF StoreInv, StoreTypeOK, MemoryIsHistory
  <2>2. IF backend' = "memory" THEN e.at <= now' ELSE e.at \div 2 <= now' \div 2
    BY <1>1, <2>1, PassedFacts
  <2> QED
    BY <1>1, <2>1, <2>2 DEF Passed
<1>5. ASSUME NEW a \in Admins, HasCopy(a)'
      PROVE  pending'[a].key \in Existing' /\ backend' = "sqlite"
  BY <1>1, <1>5 DEF StoreInv, MemoryIsHistory, HasCopy
<1> QED
  BY <1>2, <1>3, <1>4, <1>5 DEF MemoryIsHistory

(* Every step of the store keeps the invariant.                            *)
LEMMA StoreStepInv ==
  ASSUME StoreInv, [StoreNext]_storeVars
  PROVE  StoreInv'
<1>1. ASSUME UNCHANGED storeVars PROVE StoreInv'
  BY <1>1 DEF storeVars, StoreInv, StoreTypeOK, TableTypeOK, MemoryIsHistory, HasCopy,
              StampsAreHistory, Passed, Existing, IsRevoked
<1>2. ASSUME StoreNext PROVE StoreInv'
  <2>1. HistoryKept
    BY <1>2, StepKeepsHistory
  <2>2. StampsAreHistory'
    BY <2>1, HistoryKeepsStamps
  <2>t. /\ pending \in [Admins -> Pending \cup {Nil}]
        /\ answer \in [Admins -> Answers \cup {Nil}]
        /\ \A how \in Answers : how \in Answers \cup {Nil}
        /\ Existing \subseteq Existing' /\ backend' = backend
    BY <2>1 DEF StoreInv, StoreTypeOK, HistoryKept
  <2>3. ASSUME \/ \E k \in Keys, cfg \in [Fields -> Values], e \in Time \cup {Nil} : CreateKey(k, cfg, e)
               \/ \E k \in Keys : RevokeKey(k)
               \/ TickerFires \/ SweepListFail \/ ClockTick
               \/ \E e \in sweep : SweepRevoke(e) \/ SweepFail(e)
        PROVE  StoreTypeOK' /\ MemoryIsHistory'
    <3>1. /\ ticker' \in {ticker, now, Nil} /\ sweep' \subseteq sweep
          /\ pending' = pending /\ answer' = answer
      BY <2>3 DEF CreateKey, RevokeKey, TickerFires, SweepListFail, ClockTick,
                  SweepRevoke, SweepFail
    <3>2. \A b \in Admins : pending'[b] # Nil /\ pending'[b].row # Nil =>
            pending'[b] = pending[b] \/ (pending'[b].key \in Existing /\ backend = "sqlite")
      BY <3>1
    <3>3. /\ pending' \in [Admins -> Pending \cup {Nil}]
          /\ answer' \in [Admins -> Answers \cup {Nil}]
      BY <2>t, <3>1
    <3> QED
      BY <2>1, <3>1, <3>2, <3>3, OldMemoryIsHistory
  <2>4. ASSUME NEW a \in Admins,
               PatchMemory(a) \/ PatchRefused(a) \/ PatchUpdate(a) \/ PatchFails(a)
        PROVE  StoreTypeOK' /\ MemoryIsHistory'
    <3>1. PICK how \in Answers : Answer(a, how)
      BY <2>4 DEF PatchMemory, PatchRefused, PatchUpdate, PatchFails, Answers
    <3>2. /\ ticker' = ticker /\ sweep' = sweep
          /\ pending' = [pending EXCEPT ![a] = Nil]
          /\ answer' = [answer EXCEPT ![a] = how]
      BY <3>1 DEF Answer
    <3>3. \A b \in Admins : pending'[b] # Nil /\ pending'[b].row # Nil =>
            pending'[b] = pending[b] \/ (pending'[b].key \in Existing /\ backend = "sqlite")
      BY <2>t, <3>2
    <3>4. /\ pending' \in [Admins -> Pending \cup {Nil}]
          /\ answer' \in [Admins -> Answers \cup {Nil}]
      BY <2>t, <3>2
    <3>5. ticker' \in {ticker, now, Nil} /\ sweep' \subseteq sweep
      BY <3>2
    <3> QED
      BY <2>1, <3>3, <3>4, <3>5, OldMemoryIsHistory
  <2>5. ASSUME Restart PROVE StoreTypeOK' /\ MemoryIsHistory'
    <3>1. /\ ticker' = Nil /\ sweep' = {} /\ pending' = [a \in Admins |-> Nil]
      BY <2>5 DEF Restart
    <3>2. answer' \in [Admins -> Answers \cup {Nil}]
      BY <2>5, <2>t DEF Restart, Answers
    <3> QED
      BY <2>1, <3>1, <3>2, OldMemoryIsHistory
  <2>6. ASSUME SweepList PROVE StoreTypeOK' /\ MemoryIsHistory'
    <3>1. /\ sweep' \subseteq [key : Keys, at : Time]
          /\ \A e \in sweep' : e.key \in Existing /\ Passed(e.at)
      BY <2>6, ListedIsHistory DEF SweepList
    <3>2. UNCHANGED <<rows, now, backend, pending, answer>> /\ ticker' = Nil
      BY <2>6 DEF SweepList
    <3>3. Existing' = Existing
      BY <3>2 DEF Existing
    <3> QED
      BY <3>1, <3>2, <3>3
      DEF StoreInv, StoreTypeOK, TableTypeOK, MemoryIsHistory, HasCopy, Passed
  <2>7. ASSUME NEW a \in Admins, NEW k \in Keys, NEW p \in Patches, PatchCall(a, k, p)
        PROVE  StoreTypeOK' /\ MemoryIsHistory'
    <3> DEFINE q == [key |-> k, patch |-> p, row |-> Nil]
    <3>1. q \in Pending /\ q.row = Nil
      BY DEF Pending
    <3>2. /\ pending' = [pending EXCEPT ![a] = q]
          /\ answer' = [answer EXCEPT ![a] = Nil]
          /\ ticker' = ticker /\ sweep' = sweep
      BY <2>7 DEF PatchCall
    <3> HIDE DEF q
    <3>3. \A b \in Admins : pending'[b] # Nil /\ pending'[b].row # Nil =>
            pending'[b] = pending[b] \/ (pending'[b].key \in Existing /\ backend = "sqlite")
      BY <2>t, <3>1, <3>2
    <3>4. /\ pending' \in [Admins -> Pending \cup {Nil}]
          /\ answer' \in [Admins -> Answers \cup {Nil}]
      BY <2>t, <3>1, <3>2
    <3>5. ticker' \in {ticker, now, Nil} /\ sweep' \subseteq sweep
      BY <3>2
    <3> QED
      BY <2>1, <3>3, <3>4, <3>5, OldMemoryIsHistory
  <2>8. ASSUME NEW a \in Admins, PatchSelect(a) PROVE StoreTypeOK' /\ MemoryIsHistory'
    <3> DEFINE k == pending[a].key
               q == [pending[a] EXCEPT !.row = ApplyTo(rows[k], pending[a].patch)]
    <3>1. k \in Existing /\ backend = "sqlite"
      BY <2>8, <2>t DEF PatchSelect, Existing, Pending
    <3>2. q \in Pending /\ q.key = k
      BY <2>8, <2>t, SelectedCopy DEF StoreInv, StoreTypeOK
    <3>3. /\ pending' = [pending EXCEPT ![a] = q]
          /\ ticker' = ticker /\ sweep' = sweep /\ answer' = answer
      BY <2>8 DEF PatchSelect
    <3> HIDE DEF q, k
    <3>4. \A b \in Admins : pending'[b] # Nil /\ pending'[b].row # Nil =>
            pending'[b] = pending[b] \/ (pending'[b].key \in Existing /\ backend = "sqlite")
      BY <2>t, <3>1, <3>2, <3>3
    <3>5. /\ pending' \in [Admins -> Pending \cup {Nil}]
          /\ answer' \in [Admins -> Answers \cup {Nil}]
      BY <2>t, <3>2, <3>3
    <3>6. ticker' \in {ticker, now, Nil} /\ sweep' \subseteq sweep
      BY <3>3
    <3> QED
      BY <2>1, <3>4, <3>5, <3>6, OldMemoryIsHistory
  <2> QED
    BY <1>2, <2>2, <2>3, <2>4, <2>5, <2>6, <2>7, <2>8 DEF StoreNext, StoreInv
<1> QED
  BY <1>1, <1>2

(* The invariant holds in every reachable state of the store.              *)
THEOREM StoreInvariant == StoreSpec => []StoreInv
<1>1. StoreInit => StoreInv
  BY StoreInitInv
<1>2. StoreInv /\ [StoreNext]_storeVars => StoreInv'
  BY StoreStepInv
<1> QED
  BY <1>1, <1>2, PTL DEF StoreSpec

(* The store keeps its types: the sweeper never stamps a row that does not *)
(* exist and a PATCH never writes a row that is not one.                   *)
THEOREM StoreIsTyped == StoreSpec => []StoreTypeOK
BY StoreInvariant, PTL DEF StoreInv

(* No revocation stamp lies in the future, however late the sweeper is and *)
(* whatever moved the expiry since it listed the key.                      *)
THEOREM StampsStayHistory == StoreSpec => []StampsAreHistory
BY StoreInvariant, PTL DEF StoreInv

(* A revoked key is final: no PATCH in flight, sweep or second revocation  *)
(* brings it back or writes its settings.                                  *)
THEOREM RevocationIsFinal == StoreSpec => RevokedRowIsFinal
<1> DEFINE Final == \A k \in Existing : IsRevoked(rows[k]) =>
                      /\ rows'[k].cfg = rows[k].cfg
                      /\ rows'[k].expiresAt = rows[k].expiresAt
                      /\ IsRevoked(rows'[k])
                      /\ backend = "sqlite" => rows'[k].revokedAt = rows[k].revokedAt
<1>1. StoreInv /\ [StoreNext]_storeVars => [Final]_storeVars
  BY StepKeepsHistory DEF HistoryKept
<1>2. RevokedRowIsFinal <=> [][Final]_storeVars
  BY DEF RevokedRowIsFinal
<1> HIDE DEF Final
<1> QED
  BY <1>1, <1>2, StoreInvariant, PTL DEF StoreSpec

-----------------------------------------------------------------------------
(* PATCHes of one key do not overlap.  SQLite.Update does not ensure it:   *)
(* without it a PATCH may write back what another one has just changed.    *)
NonOverlapping ==
  \A a, b \in Admins :
    HasCopy(a) /\ HasCopy(b) /\ pending[a].key = pending[b].key => a = b

(* What a PATCH is about to write is still its patch of the current row,   *)
(* unless the key was revoked after it was read.                           *)
PatchOfCurrentRow ==
  \A a \in Admins : HasCopy(a) =>
    LET row == rows[pending[a].key]
    IN  /\ \A f \in Fields \ DOMAIN pending[a].patch.set :
             pending[a].row.cfg[f] = row.cfg[f]
        /\ ~IsRevoked(row) => pending[a].row = ApplyTo(row, pending[a].patch)

(* Nothing but a revocation gets between the two halves of a PATCH.        *)
LEMMA OnlyRevokedMeanwhile ==
  ASSUME StoreInv, NonOverlapping, StoreNext,
         NEW b \in Admins, HasCopy(b), pending'[b] # Nil,
         NEW j \in Existing, j = pending[b].key
  PROVE  /\ pending'[b] = pending[b]
         /\ \/ rows'[j] = rows[j]
            \/ rows'[j].cfg = rows[j].cfg /\ IsRevoked(rows'[j])
<1> DEFINE Goal == /\ pending'[b] = pending[b]
                   /\ \/ rows'[j] = rows[j]
                      \/ rows'[j].cfg = rows[j].cfg /\ IsRevoked(rows'[j])
<1>t. /\ TableTypeOK /\ now \in Time /\ j \in Keys /\ rows[j] # Nil
      /\ backend = "sqlite" /\ pending[b] # Nil /\ pending[b].row # Nil
      /\ pending \in [Admins -> Pending \cup {Nil}]
  BY DEF StoreInv, StoreTypeOK, TableTypeOK, Existing, MemoryIsHistory, HasCopy
<1>1. ASSUME NEW k \in Existing, NEW at \in Time, Stamp(k, at), pending' = pending
      PROVE  Goal
  <2>1. /\ rows'[k].cfg = rows[k].cfg /\ rows'[k].revokedAt = at /\ at # Nil
        /\ \A i \in Keys \ {k} : rows'[i] = rows[i]
    BY <1>1, <1>t, StampRow
  <2> QED
    BY <1>1, <1>t, <2>1 DEF IsRevoked
<1>2. ASSUME NEW k \in Keys, NEW cfg \in [Fields -> Values], NEW e \in Time \cup {Nil},
             CreateKey(k, cfg, e)
      PROVE  Goal
  BY <1>2, <1>t DEF CreateKey, Create, TableTypeOK
<1>3. ASSUME NEW k \in Keys, RevokeKey(k) PROVE Goal
  BY <1>3, <1>t, <1>1 DEF RevokeKey, Revoke, Existing
<1>4. ASSUME NEW e \in sweep, SweepRevoke(e) PROVE Goal
  <2>1. e.key \in Existing /\ e.at \in Time
    BY DEF StoreInv, MemoryIsHistory, StoreTypeOK
  <2> QED
    BY <1>4, <2>1, <1>1 DEF SweepRevoke
<1>a. ASSUME NEW a \in Admins, NEW how, Answer(a, how) PROVE a # b /\ pending'[b] = pending[b]
  BY <1>a, <1>t DEF Answer
<1>5. ASSUME NEW a \in Admins, PatchUpdate(a) PROVE Goal
  <2>1. a # b /\ pending'[b] = pending[b]
    BY <1>5, <1>a DEF PatchUpdate
  <2>2. pending[a].key # j
    BY <1>5, <2>1 DEF PatchUpdate, NonOverlapping, HasCopy
  <2>3. CASE IsRevoked(rows[pending[a].key])
    BY <1>5, <2>1, <2>3 DEF PatchUpdate
  <2>4. CASE ~IsRevoked(rows[pending[a].key])
    BY <1>5, <1>t, <2>1, <2>2, <2>4, PatchUpdateRow
  <2> QED
    BY <2>3, <2>4
<1>6. ASSUME NEW a \in Admins, PatchSelect(a) PROVE Goal
  <2>1. /\ pending[a].row = Nil /\ rows' = rows
        /\ \A c \in Admins : c # a => pending'[c] = pending[c]
    BY <1>6, <1>t DEF PatchSelect
  <2>2. a # b
    BY <1>t, <2>1
  <2> QED
    BY <2>1, <2>2
<1>7. ASSUME NEW a \in Admins, NEW k \in Keys, NEW p \in Patches, PatchCall(a, k, p) PROVE Goal
  <2>1. /\ pending[a] = Nil /\ rows' = rows
        /\ \A c \in Admins : c # a => pending'[c] = pending[c]
    BY <1>7, <1>t DEF PatchCall
  <2>2. a # b
    BY <1>t, <2>1
  <2> QED
    BY <2>1, <2>2
<1>8. ASSUME NEW a \in Admins, PatchMemory(a) PROVE Goal
  BY <1>8, <1>t DEF PatchMemory
<1>9. ASSUME NEW a \in Admins, PatchRefused(a) \/ PatchFails(a) PROVE Goal
  <2>1. rows' = rows /\ \E how : Answer(a, how)
    BY <1>9 DEF PatchRefused, PatchFails
  <2> QED
    BY <1>a, <2>1
<1>10. ASSUME \/ TickerFires \/ SweepList \/ SweepListFail \/ ClockTick
              \/ \E e \in sweep : SweepFail(e)
       PROVE  Goal
  BY <1>10 DEF TickerFires, SweepList, SweepListFail, ClockTick, Tick, SweepFail
<1>11. ASSUME Restart PROVE Goal
  BY <1>11 DEF Restart
<1> QED
  BY <1>2, <1>3, <1>4, <1>5, <1>6, <1>7, <1>8, <1>9, <1>10, <1>11 DEF StoreNext

(* A copy is taken by the SELECT and by nothing else.                      *)
LEMMA OnlySelectCopies ==
  ASSUME StoreInv, StoreNext, NEW b \in Admins, ~HasCopy(b), HasCopy(b)'
  PROVE  PatchSelect(b)
<1>t. /\ pending \in [Admins -> Pending \cup {Nil}]
      /\ pending'[b] # pending[b]
      /\ pending'[b] # Nil /\ pending'[b].row # Nil
  BY DEF StoreInv, StoreTypeOK, HasCopy
<1>1. ASSUME NEW a \in Admins, NEW k \in Keys, NEW p \in Patches, PatchCall(a, k, p)
      PROVE  FALSE
  <2>1. pending' = [pending EXCEPT ![a] = [key |-> k, patch |-> p, row |-> Nil]]
    BY <1>1 DEF PatchCall
  <2>2. pending'[b] = pending[b] \/ pending'[b].row = Nil
    BY <1>t, <2>1
  <2> QED
    BY <1>t, <2>2
<1>2. ASSUME NEW a \in Admins,
             PatchMemory(a) \/ PatchRefused(a) \/ PatchUpdate(a) \/ PatchFails(a)
      PROVE  FALSE
  <2>1. pending' = [pending EXCEPT ![a] = Nil]
    BY <1>2 DEF PatchMemory, PatchRefused, PatchUpdate, PatchFails, Answer
  <2>2. pending'[b] = pending[b] \/ pending'[b] = Nil
    BY <1>t, <2>1
  <2> QED
    BY <1>t, <2>2
<1>3. ASSUME NEW a \in Admins, PatchSelect(a) PROVE a = b
  BY <1>3, <1>t DEF PatchSelect
<1>4. ASSUME \/ \E k \in Keys, cfg \in [Fields -> Values], e \in Time \cup {Nil} : CreateKey(k, cfg, e)
             \/ \E k \in Keys : RevokeKey(k)
             \/ TickerFires \/ SweepList \/ SweepListFail \/ ClockTick \/ Restart
             \/ \E e \in sweep : SweepRevoke(e) \/ SweepFail(e)
      PROVE  FALSE
  BY <1>4, <1>t DEF CreateKey, RevokeKey, TickerFires, SweepList, SweepListFail, ClockTick,
                    Restart, SweepRevoke, SweepFail
<1> QED
  BY <1>1, <1>2, <1>3, <1>4 DEF StoreNext

(* As long as PATCHes of a key do not overlap, every step keeps what a     *)
(* PATCH is about to write a patch of the current row.                     *)
LEMMA PatchStepInv ==
  ASSUME StoreInv, NonOverlapping, PatchOfCurrentRow, [StoreNext]_storeVars
  PROVE  PatchOfCurrentRow'
<1>1. ASSUME UNCHANGED storeVars PROVE PatchOfCurrentRow'
  BY <1>1 DEF storeVars, PatchOfCurrentRow, HasCopy, IsRevoked, ApplyTo
<1>2. ASSUME StoreNext PROVE PatchOfCurrentRow'
  <2> SUFFICES ASSUME NEW b \in Admins, HasCopy(b)'
               PROVE  /\ \A f \in Fields \ DOMAIN pending'[b].patch.set :
                           pending'[b].row.cfg[f] = rows'[pending'[b].key].cfg[f]
                      /\ ~IsRevoked(rows'[pending'[b].key]) =>
                           pending'[b].row = ApplyTo(rows'[pending'[b].key], pending'[b].patch)
    BY DEF PatchOfCurrentRow, IsRevoked, ApplyTo
  <2>1. CASE HasCopy(b)
    <3> DEFINE j == pending[b].key
    <3>1. j \in Existing
      BY <2>1 DEF StoreInv, MemoryIsHistory
    <3>2. /\ pending'[b] = pending[b]
          /\ \/ rows'[j] = rows[j]
             \/ rows'[j].cfg = rows[j].cfg /\ IsRevoked(rows'[j])
      BY <1>2, <2>1, <3>1, OnlyRevokedMeanwhile DEF HasCopy
    <3>3. /\ \A f \in Fields \ DOMAIN pending[b].patch.set : pending[b].row.cfg[f] = rows[j].cfg[f]
          /\ ~IsRevoked(rows[j]) => pending[b].row = ApplyTo(rows[j], pending[b].patch)
      BY <2>1 DEF PatchOfCurrentRow
    <3> HIDE DEF j
    <3>4. pending'[b].key = j
      BY <3>2 DEF j
    <3> QED
      BY <3>2, <3>3, <3>4
  <2>2. CASE ~HasCopy(b)
    <3> DEFINE k == pending[b].key
               p == pending[b].patch
    <3>1. PatchSelect(b)
      BY <1>2, <2>2, OnlySelectCopies
    <3>t. pending \in [Admins -> Pending \cup {Nil}] /\ TableTypeOK
      BY DEF StoreInv, StoreTypeOK
    <3>2. /\ pending'[b] = [pending[b] EXCEPT !.row = ApplyTo(rows[k], p)]
          /\ rows' = rows /\ rows[k] # Nil /\ pending[b] \in Pending
      BY <3>1, <3>t DEF PatchSelect
    <3>3. /\ pending'[b].key = k /\ pending'[b].patch = p
          /\ pending'[b].row = ApplyTo(rows[k], p)
          /\ p \in KeyPatch
      BY <3>1, <3>2, <3>t, SelectedCopy
    <3>4. rows[k] \in Row
      BY <3>2, <3>t DEF Pending, TableTypeOK
    <3>5. \A f \in Fields \ DOMAIN p.set : ApplyTo(rows[k], p).cfg[f] = rows[k].cfg[f]
      BY <3>3, <3>4, ApplyToRow
    <3> HIDE DEF k, p
    <3> QED
      BY <3>2, <3>3, <3>5
  <2> QED
    BY <2>1, <2>2
<1> QED
  BY <1>1, <1>2

-----------------------------------------------------------------------------
(* The calls as their callers see them.                                    *)
LEMMA AskedOf ==
  ASSUME StoreInv, NEW a \in Admins, pending[a] # Nil
  PROVE  /\ asked[a] # Nil
         /\ asked[a].key = pending[a].key /\ asked[a].patch = pending[a].patch
         /\ pending[a].key \in Keys /\ pending[a].patch \in KeyPatch
<1>1. pending[a].key \in Keys /\ pending[a].patch \in KeyPatch
  BY BoundsAssumption DEF StoreInv, StoreTypeOK, Pending
<1>2. asked[a] = [key |-> pending[a].key, patch |-> pending[a].patch]
  BY DEF asked
<1>3. asked[a] \in [key : Keys, patch : KeyPatch]
  BY <1>1, <1>2
<1> QED
  BY <1>1, <1>2, <1>3, PendingAssumption

LEMMA AskedUnchanged ==
  ASSUME pending' = pending
  PROVE  asked' = asked
BY DEF asked

(* An answer is the return of the call.                                    *)
LEMMA AnswerIsReturn ==
  ASSUME StoreInv, NEW a \in Admins, pending[a] # Nil, NEW how, Answer(a, how)
  PROVE  Calls!Return(a, how)
<1>1. /\ pending' = [pending EXCEPT ![a] = Nil] /\ answer' = [answer EXCEPT ![a] = how]
      /\ pending \in [Admins -> Pending \cup {Nil}]
  BY DEF Answer, StoreInv, StoreTypeOK
<1>2. asked' = [asked EXCEPT ![a] = Nil]
  BY <1>1 DEF asked
<1> QED
  BY <1>1, <1>2, AskedOf DEF Calls!Return

(* The second half of a PATCH on a key that is not revoked is the Update   *)
(* its caller asked for.                                                   *)
LEMMA PatchIsUpdate ==
  ASSUME StoreInv, PatchOfCurrentRow, NEW a \in Admins, PatchUpdate(a),
         ~IsRevoked(rows[pending[a].key])
  PROVE  Update(pending[a].key, pending[a].patch)
<1> DEFINE k == pending[a].key
           copy == pending[a].row
<1>1. /\ HasCopy(a) /\ k \in Existing /\ k \in Keys /\ rows[k] # Nil
      /\ rows \in [Keys -> Row \cup {Nil}]
  BY DEF PatchUpdate, StoreInv, StoreTypeOK, TableTypeOK, MemoryIsHistory, Existing, HasCopy
<1>2. copy = ApplyTo(rows[k], pending[a].patch)
  BY <1>1 DEF PatchOfCurrentRow
<1>3. rows' = [rows EXCEPT ![k] = [cfg       |-> copy.cfg,
                                   expiresAt |-> copy.expiresAt,
                                   revokedAt |-> rows[k].revokedAt]]
  BY <1>1 DEF PatchUpdate, WriteCopy
<1>4. [cfg       |-> copy.cfg,
       expiresAt |-> copy.expiresAt,
       revokedAt |-> rows[k].revokedAt] = ApplyTo(rows[k], pending[a].patch)
  BY <1>2 DEF ApplyTo
<1>5. UNCHANGED <<now, backend>>
  BY DEF PatchUpdate
<1> HIDE DEF k, copy
<1>6. rows' = [rows EXCEPT ![k] = ApplyTo(rows[k], pending[a].patch)] /\ ~IsRevoked(rows[k])
  BY <1>3, <1>4 DEF k
<1> QED
  BY <1>1, <1>5, <1>6 DEF Update, k

(* A PATCH that ends is one of the three ends of a call.                   *)
LEMMA PatchEndRefines ==
  ASSUME StoreInv, PatchOfCurrentRow, NEW a \in Admins,
         PatchMemory(a) \/ PatchRefused(a) \/ PatchUpdate(a) \/ PatchFails(a)
  PROVE  Calls!PatchesNext
<1>p. pending[a] # Nil
  BY DEF PatchMemory, PatchRefused, PatchUpdate, PatchFails
<1>k. /\ asked[a] # Nil
      /\ asked[a].key = pending[a].key /\ asked[a].patch = pending[a].patch
  BY <1>p, AskedOf
<1>1. ASSUME Update(pending[a].key, pending[a].patch), Answer(a, "ok")
      PROVE  Calls!PatchesNext
  <2>1. Calls!Return(a, "ok")
    BY <1>1, <1>p, AnswerIsReturn
  <2>2. Calls!Update(asked[a].key, asked[a].patch)
    BY <1>1, <1>k DEF Update, Calls!Update, Calls!IsRevoked, IsRevoked, ApplyTo, Calls!ApplyTo
  <2>3. Calls!Apply(a)
    BY <2>1, <2>2 DEF Calls!Apply
  <2> QED
    BY <2>3 DEF Calls!PatchesNext
<1>2. ASSUME rows[pending[a].key] # Nil => IsRevoked(rows[pending[a].key]),
             Answer(a, "refused"), UNCHANGED <<rows, now, backend>>
      PROVE  Calls!PatchesNext
  <2>1. Calls!Return(a, "refused")
    BY <1>2, <1>p, AnswerIsReturn
  <2>2. Calls!Refuse(a)
    BY <1>2, <1>k, <2>1 DEF Calls!Refuse, Calls!IsRevoked, IsRevoked, Calls!tableVars
  <2> QED
    BY <2>2 DEF Calls!PatchesNext
<1>3. CASE PatchMemory(a)
  BY <1>3, <1>1 DEF PatchMemory
<1>4. CASE PatchRefused(a)
  BY <1>4, <1>2 DEF PatchRefused
<1>5. CASE PatchUpdate(a)
  <2>1. CASE IsRevoked(rows[pending[a].key])
    BY <1>5, <1>2, <2>1 DEF PatchUpdate
  <2>2. CASE ~IsRevoked(rows[pending[a].key])
    BY <1>5, <1>1, <2>2, PatchIsUpdate DEF PatchUpdate
  <2> QED
    BY <2>1, <2>2
<1>6. CASE PatchFails(a)
  <2>1. /\ pending' = [pending EXCEPT ![a] = Nil] /\ answer' = [answer EXCEPT ![a] = "error"]
        /\ pending \in [Admins -> Pending \cup {Nil}]
        /\ answer \in [Admins -> Answers \cup {Nil}]
        /\ UNCHANGED <<rows, now, backend>>
    BY <1>6 DEF PatchFails, Answer, StoreInv, StoreTypeOK
  <2>2. asked' = [b \in Admins |-> IF b \in {a} THEN Nil ELSE asked[b]]
    BY <2>1 DEF asked
  <2>3. answer' = [b \in Admins |-> IF b \in {a} THEN "error" ELSE answer[b]]
    BY <2>1
  <2>4. Calls!Lose({a})
    BY <1>k, <2>1, <2>2, <2>3 DEF Calls!Lose, Calls!tableVars
  <2> QED
    BY <2>4 DEF Calls!PatchesNext
<1> QED
  BY <1>3, <1>4, <1>5, <1>6

(* A restart ends every call in progress without an answer of its own.     *)
LEMMA RestartRefines ==
  ASSUME StoreInv, Restart
  PROVE  Calls!PatchesNext
<1> DEFINE S == {a \in Admins : pending[a] # Nil}
<1>1. /\ pending' = [a \in Admins |-> Nil]
      /\ answer' = [a \in Admins |-> IF pending[a] # Nil THEN "error" ELSE answer[a]]
      /\ UNCHANGED <<rows, now, backend>>
  BY DEF Restart
<1>2. \A a \in S : asked[a] # Nil
  BY AskedOf
<1>3. asked' = [a \in Admins |-> IF a \in S THEN Nil ELSE asked[a]]
  BY <1>1 DEF asked
<1>4. answer' = [a \in Admins |-> IF a \in S THEN "error" ELSE answer[a]]
  BY <1>1
<1>5. S \in SUBSET Admins
  OBVIOUS
<1> HIDE DEF S
<1>6. Calls!Lose(S)
  BY <1>1, <1>2, <1>3, <1>4 DEF Calls!Lose, Calls!tableVars
<1> QED
  BY <1>5, <1>6 DEF Calls!PatchesNext

(* As long as PATCHes of a key do not overlap, a step of the store is a    *)
(* step of KeyPatches or leaves what callers see alone.                    *)
LEMMA StoreStepRefines ==
  ASSUME StoreInv, PatchOfCurrentRow, [StoreNext]_storeVars
  PROVE  [Calls!PatchesNext]_(Calls!patchVars)
<1> USE DEF Calls!patchVars
<1>1. ASSUME NEW k \in Keys, NEW cfg \in [Fields -> Values], NEW e \in Time \cup {Nil},
             CreateKey(k, cfg, e)
      PROVE  Calls!PatchesNext
  <2>1. asked' = asked /\ answer' = answer
    BY <1>1, AskedUnchanged DEF CreateKey
  <2>2. Calls!Create(k, cfg, e)
    BY <1>1 DEF CreateKey, Create, Calls!Create
  <2>3. Calls!TableStep
    BY <2>2 DEF Calls!TableStep, Calls!Time, Time
  <2> QED
    BY <2>1, <2>3 DEF Calls!PatchesNext
<1>2. ASSUME NEW k \in Keys, RevokeKey(k) PROVE Calls!PatchesNext
  <2>1. asked' = asked /\ answer' = answer
    BY <1>2, AskedUnchanged DEF RevokeKey
  <2>2. Calls!Revoke(k)
    BY <1>2 DEF RevokeKey, Revoke, Calls!Revoke, IsRevoked, Calls!IsRevoked, Stamp, Calls!Stamp
  <2>3. Calls!TableStep
    BY <2>2 DEF Calls!TableStep
  <2> QED
    BY <2>1, <2>3 DEF Calls!PatchesNext
<1>3. ASSUME NEW a \in Admins, NEW k \in Keys, NEW p \in Patches, PatchCall(a, k, p)
      PROVE  Calls!PatchesNext
  <2>1. /\ pending[a] = Nil
        /\ pending' = [pending EXCEPT ![a] = [key |-> k, patch |-> p, row |-> Nil]]
        /\ answer' = [answer EXCEPT ![a] = Nil] /\ UNCHANGED <<rows, now, backend>>
        /\ pending \in [Admins -> Pending \cup {Nil}]
    BY <1>3 DEF PatchCall, StoreInv, StoreTypeOK
  <2>2. [key |-> k, patch |-> p, row |-> Nil] # Nil
    BY PendingAssumption DEF Pending
  <2>3. asked[a] = Nil /\ asked' = [asked EXCEPT ![a] = [key |-> k, patch |-> p]]
    BY <2>1, <2>2 DEF asked
  <2>4. Calls!Ask(a, k, p)
    BY <2>1, <2>3 DEF Calls!Ask, Calls!tableVars
  <2>5. p \in Calls!KeyPatch
    BY BoundsAssumption DEF KeyPatch, Calls!KeyPatch, Time, Calls!Time
  <2> QED
    BY <2>4, <2>5 DEF Calls!PatchesNext
<1>4. ASSUME NEW a \in Admins,
             PatchMemory(a) \/ PatchRefused(a) \/ PatchUpdate(a) \/ PatchFails(a)
      PROVE  Calls!PatchesNext
  BY <1>4, PatchEndRefines
<1>5. ASSUME NEW a \in Admins, PatchSelect(a) PROVE UNCHANGED Calls!patchVars
  <2>1. /\ pending' = [pending EXCEPT ![a].row = ApplyTo(rows[pending[a].key], pending[a].patch)]
        /\ pending[a] # Nil /\ UNCHANGED <<rows, now, backend, answer>>
        /\ pending \in [Admins -> Pending \cup {Nil}] /\ TableTypeOK
    BY <1>5 DEF PatchSelect, StoreInv, StoreTypeOK
  <2> DEFINE q == [pending[a] EXCEPT !.row = ApplyTo(rows[pending[a].key], pending[a].patch)]
  <2>2. q \in Pending /\ q.key = pending[a].key /\ q.patch = pending[a].patch
    BY <1>5, <2>1, SelectedCopy
  <2>3. pending' = [pending EXCEPT ![a] = q]
    BY <2>1
  <2> HIDE DEF q
  <2>4. q # Nil
    BY <2>2, PendingAssumption
  <2>5. asked' = asked
    BY <2>1, <2>2, <2>3, <2>4 DEF asked
  <2> QED
    BY <2>1, <2>5
<1>6. ASSUME NEW e \in sweep, SweepRevoke(e) PROVE [Calls!PatchesNext]_(Calls!patchVars)
  <2>1. e.key \in Keys /\ e.at \in Time /\ rows[e.key] # Nil
    BY DEF StoreInv, StoreTypeOK, MemoryIsHistory, Existing
  <2>2. asked' = asked /\ UNCHANGED <<answer, now, backend>>
    BY <1>6, AskedUnchanged DEF SweepRevoke
  <2>3. CASE IsRevoked(rows[e.key])
    BY <1>6, <2>2, <2>3 DEF SweepRevoke
  <2>4. CASE ~IsRevoked(rows[e.key])
    <3>1. Calls!RevokeAt(e.key, e.at)
      BY <1>6, <2>1, <2>2, <2>4
      DEF SweepRevoke, Calls!RevokeAt, IsRevoked, Calls!IsRevoked, Stamp, Calls!Stamp
    <3>2. Calls!TableStep
      BY <2>1, <3>1 DEF Calls!TableStep, Calls!Time, Time
    <3> QED
      BY <2>2, <3>2 DEF Calls!PatchesNext
  <2> QED
    BY <2>3, <2>4
<1>7. ASSUME ClockTick PROVE Calls!PatchesNext
  <2>1. asked' = asked /\ answer' = answer
    BY <1>7, AskedUnchanged DEF ClockTick
  <2>2. Calls!TableStep
    BY <1>7 DEF ClockTick, Tick, Calls!Tick, Calls!TableStep
  <2> QED
    BY <2>1, <2>2 DEF Calls!PatchesNext
<1>8. ASSUME \/ TickerFires \/ SweepList \/ SweepListFail
             \/ \E e \in sweep : SweepFail(e)
             \/ UNCHANGED storeVars
      PROVE  UNCHANGED Calls!patchVars
  BY <1>8, AskedUnchanged DEF TickerFires, SweepList, SweepListFail, SweepFail, storeVars
<1>9. ASSUME Restart PROVE Calls!PatchesNext
  BY <1>9, RestartRefines
<1> QED
  BY <1>1, <1>2, <1>3, <1>4, <1>5, <1>6, <1>7, <1>8, <1>9 DEF StoreNext

(* The end of a PATCH leaves the settings it does not name.                *)
LEMMA PatchStepPreserves ==
  ASSUME StoreInv, PatchOfCurrentRow, StoreNext,
         NEW a \in Admins, pending[a] # Nil, pending'[a] = Nil, rows[pending[a].key] # Nil,
         NEW f \in Fields \ DOMAIN pending[a].patch.set
  PROVE  rows'[pending[a].key].cfg[f] = rows[pending[a].key].cfg[f]
<1>t. pending \in [Admins -> Pending \cup {Nil}] /\ \A q \in Pending : q # Nil
  BY PendingAssumption DEF StoreInv, StoreTypeOK
<1>1. \/ PatchMemory(a) \/ PatchRefused(a) \/ PatchUpdate(a) \/ PatchFails(a)
      \/ Restart
  <2>1. ASSUME NEW b \in Admins, PatchSelect(b) PROVE FALSE
    <3> DEFINE q == [pending[b] EXCEPT !.row = ApplyTo(rows[pending[b].key], pending[b].patch)]
    <3>1. q \in Pending
      BY <2>1, <1>t, SelectedCopy DEF StoreInv, StoreTypeOK
    <3>2. pending' = [pending EXCEPT ![b] = q]
      BY <2>1 DEF PatchSelect
    <3> HIDE DEF q
    <3> QED
      BY <1>t, <3>1, <3>2
  <2>2. ASSUME NEW b \in Admins, NEW k \in Keys, NEW p \in Patches, PatchCall(b, k, p)
        PROVE  FALSE
    BY <2>2, <1>t DEF PatchCall
  <2>3. ASSUME NEW b \in Admins,
               PatchMemory(b) \/ PatchRefused(b) \/ PatchUpdate(b) \/ PatchFails(b)
        PROVE  a = b
    BY <2>3, <1>t DEF PatchMemory, PatchRefused, PatchUpdate, PatchFails, Answer
  <2>4. ASSUME \/ \E k \in Keys, cfg \in [Fields -> Values], e \in Time \cup {Nil} : CreateKey(k, cfg, e)
               \/ \E k \in Keys : RevokeKey(k)
               \/ TickerFires \/ SweepList \/ SweepListFail \/ ClockTick
               \/ \E e \in sweep : SweepRevoke(e) \/ SweepFail(e)
        PROVE  FALSE
    BY <2>4 DEF CreateKey, RevokeKey, TickerFires, SweepList, SweepListFail, ClockTick,
                SweepRevoke, SweepFail
  <2> QED
    BY <2>1, <2>2, <2>3, <2>4 DEF StoreNext
<1>2. CASE Restart \/ PatchRefused(a) \/ PatchFails(a)
  BY <1>2 DEF Restart, PatchRefused, PatchFails
<1>3. CASE PatchUpdate(a)
  <2>1. CASE IsRevoked(rows[pending[a].key])
    BY <1>3, <2>1 DEF PatchUpdate
  <2>2. CASE ~IsRevoked(rows[pending[a].key])
    <3> DEFINE r == [cfg |-> pending[a].row.cfg, expiresAt |-> pending[a].row.expiresAt,
                     revokedAt |-> Nil]
    <3>0. rows'[pending[a].key] = r
      BY <1>3, <2>2, PatchUpdateRow
    <3>1. rows'[pending[a].key].cfg = pending[a].row.cfg
      BY <3>0
    <3>2. pending[a].row.cfg[f] = rows[pending[a].key].cfg[f]
      BY <1>3 DEF PatchOfCurrentRow, HasCopy, PatchUpdate
    <3> QED
      BY <3>1, <3>2
  <2> QED
    BY <2>1, <2>2
<1>4. CASE PatchMemory(a)
  <2>1. Update(pending[a].key, pending[a].patch)
    BY <1>4 DEF PatchMemory
  <2>2. pending[a].key \in Keys /\ pending[a].patch \in KeyPatch /\ TableTypeOK
    BY AskedOf DEF StoreInv, StoreTypeOK
  <2> QED
    BY <2>1, <2>2, UpdateRow
<1> QED
  BY <1>1, <1>2, <1>3, <1>4

(* Whatever a PATCH is about to write is a patch of the current row for as *)
(* long as PATCHes of a key do not overlap.                                *)
THEOREM PatchInvariant == StoreSpec /\ []NonOverlapping => []PatchOfCurrentRow
<1>1. StoreInit => PatchOfCurrentRow
  BY DEF StoreInit, PatchOfCurrentRow, HasCopy
<1>2. StoreInv /\ NonOverlapping /\ PatchOfCurrentRow /\ [StoreNext]_storeVars
        => PatchOfCurrentRow'
  BY PatchStepInv
<1> QED
  BY <1>1, <1>2, StoreInvariant, PTL DEF StoreSpec

(* Refinement: with a sweeper, restarts, failed statements, revocations    *)
(* and any number of admin handlers in between, the SELECT and the UPDATE  *)
(* of SQLite.Update are the one atomic application of the caller's own     *)
(* patch that KeyPatches promises, and the answer is true, provided        *)
(* PATCHes of the same key do not overlap.  The hypothesis is needed: two  *)
(* handlers that have both read the row refute the conclusion, in the same *)
(* steps as those that KeyStoreLostUpdate finds.                           *)
THEOREM StoreImplementsTable == StoreSpec /\ []NonOverlapping => ImplementsTable
<1>1. StoreInit => Calls!PatchesInit
  <2> SUFFICES ASSUME StoreInit PROVE Calls!PatchesInit
    OBVIOUS
  <2>1. asked = [a \in Admins |-> Nil]
    BY DEF asked, StoreInit
  <2> QED
    BY <2>1 DEF StoreInit, Calls!PatchesInit, TableInit, Calls!TableInit
<1>2. StoreInv /\ PatchOfCurrentRow /\ [StoreNext]_storeVars
        => [Calls!PatchesNext]_(Calls!patchVars)
  BY StoreStepRefines
<1> QED
  BY <1>1, <1>2, StoreInvariant, PatchInvariant, PTL
  DEF StoreSpec, ImplementsTable, Calls!PatchesSpec

(* "Fields left nil in the patch are preserved", whatever else happens to  *)
(* the key between the two halves, provided its PATCHes do not overlap.    *)
THEOREM AbsentFieldsPreserved == StoreSpec /\ []NonOverlapping => PatchPreservesAbsentFields
<1> DEFINE Preserved == \A a \in Admins :
                          pending[a] # Nil /\ pending'[a] = Nil /\ rows[pending[a].key] # Nil =>
                            \A f \in Fields \ DOMAIN pending[a].patch.set :
                              rows'[pending[a].key].cfg[f] = rows[pending[a].key].cfg[f]
<1>1. StoreInv /\ PatchOfCurrentRow /\ [StoreNext]_storeVars => [Preserved]_storeVars
  BY PatchStepPreserves
<1>2. PatchPreservesAbsentFields <=> [][Preserved]_storeVars
  BY DEF PatchPreservesAbsentFields
<1> HIDE DEF Preserved
<1> QED
  BY <1>1, <1>2, StoreInvariant, PatchInvariant, PTL DEF StoreSpec
=============================================================================
