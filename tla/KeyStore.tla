------------------------------- MODULE KeyStore -------------------------------
(***************************************************************************)
(* The keystore under concurrent use: admin handlers that create, PATCH    *)
(* and revoke keys (internal/admin/admin.go), the expiry sweeper           *)
(* (internal/keys/sweeper.go) and a restart of the process, on the backend *)
(* that openKeystore (cmd/rein/main.go) chose.                             *)
(*                                                                         *)
(* keys.Memory runs each operation under its mutex.  keys.SQLite.Update is *)
(* a SELECT followed by an UPDATE of the whole row outside a transaction,  *)
(* so other writers get between the two.  The sweeper lists the expired    *)
(* keys first and stamps them one by one afterwards.                       *)
(*                                                                         *)
(* A tick of this module is half a second: SQLite compares instants as     *)
(* text, and that differs from time only within one second.                *)
(***************************************************************************)
EXTENDS KeyTable

CONSTANTS
  Admins,     \* concurrent admin PATCH handlers
  Patches,    \* the patches they send (bound)
  Expiries    \* the instants an expires_at may be set to (bound)

ASSUME BoundsAssumption == Patches \subseteq KeyPatch /\ Expiries \subseteq Time

VARIABLES
  pending,    \* admin -> its PATCH in progress and the copy of the row that
              \* SQLite.Update will write (Nil before the SELECT), or Nil
  answer,     \* admin -> what its last PATCH returned, or Nil
  ticker,     \* the tick waiting in the sweeper's channel, or Nil
  sweep       \* [key, at] pairs ListExpiring returned, not yet stamped

storeVars == <<rows, now, backend, pending, answer, ticker, sweep>>

Existing == {k \in Keys : rows[k] # Nil}

Pending == [key : Keys, patch : Patches, row : Row \cup {Nil}]

ASSUME PendingAssumption ==
  Nil \notin Pending /\ Nil \notin [key : Keys, patch : KeyPatch]

Answers == {"ok", "refused", "error"}

StoreTypeOK ==
  /\ TableTypeOK
  /\ pending \in [Admins -> Pending \cup {Nil}]
  /\ answer \in [Admins -> Answers \cup {Nil}]
  /\ ticker \in Time \cup {Nil}
  /\ sweep \subseteq [key : Keys, at : Time]

StoreInit ==
  /\ TableInit
  /\ pending = [a \in Admins |-> Nil]
  /\ answer = [a \in Admins |-> Nil]
  /\ ticker = Nil
  /\ sweep = {}

-----------------------------------------------------------------------------
(* parseExpiresAt accepts instants more than a second (two ticks) ahead.   *)
ValidExpiry(e) == e \in Time => e \in Expiries /\ e > now + 2

CreateKey(k, cfg, e) ==
  /\ ValidExpiry(e)
  /\ Create(k, cfg, e)
  /\ UNCHANGED <<pending, answer, ticker, sweep>>

RevokeKey(k) ==
  /\ Revoke(k)
  /\ UNCHANGED <<pending, answer, ticker, sweep>>

(* A PATCH handler has read its body and the clock and calls Update; the   *)
(* key need not exist.                                                     *)
PatchCall(a, k, p) ==
  /\ pending[a] = Nil
  /\ ValidExpiry(p.expires)
  /\ pending' = [pending EXCEPT ![a] = [key |-> k, patch |-> p, row |-> Nil]]
  /\ answer' = [answer EXCEPT ![a] = Nil]
  /\ UNCHANGED <<rows, now, backend, ticker, sweep>>

Answer(a, how) ==
  /\ pending' = [pending EXCEPT ![a] = Nil]
  /\ answer' = [answer EXCEPT ![a] = how]
  /\ UNCHANGED <<ticker, sweep>>

(* Update on keys.Memory: check and write under one lock.                  *)
PatchMemory(a) ==
  /\ backend = "memory"
  /\ pending[a] # Nil
  /\ Update(pending[a].key, pending[a].patch)
  /\ Answer(a, "ok")

(* Either store finds the key missing (ErrNotFound) or revoked             *)
(* (ErrRevoked) when it looks it up.                                       *)
PatchRefused(a) ==
  /\ pending[a] # Nil /\ pending[a].row = Nil
  /\ rows[pending[a].key] # Nil => IsRevoked(rows[pending[a].key])
  /\ Answer(a, "refused")
  /\ UNCHANGED <<rows, now, backend>>

(* Update on keys.SQLite, first half: GetByID, and the patch is applied to *)
(* the copy it returns.                                                    *)
PatchSelect(a) ==
  /\ backend = "sqlite"
  /\ pending[a] # Nil /\ pending[a].row = Nil
  /\ rows[pending[a].key] # Nil
  /\ ~IsRevoked(rows[pending[a].key])
  /\ pending' = [pending EXCEPT ![a].row = ApplyTo(rows[pending[a].key], pending[a].patch)]
  /\ UNCHANGED <<rows, now, backend, answer, ticker, sweep>>

(* Every mutable column of the row of key k gets its value in the copy.    *)
WriteCopy(k, copy) ==
  rows' = [rows EXCEPT ![k] = [cfg |-> copy.cfg, expiresAt |-> copy.expiresAt,
                               revokedAt |-> @.revokedAt]]

(* Mutant: nobody looks at the number of rows the UPDATE affected.         *)
PatchUpdate_CountIgnored(a) ==
  /\ pending[a] # Nil /\ pending[a].row # Nil
  /\ IF IsRevoked(rows[pending[a].key]) THEN UNCHANGED rows
                                       ELSE WriteCopy(pending[a].key, pending[a].row)
  /\ Answer(a, "ok")
  /\ UNCHANGED <<now, backend>>

(* Second half: UPDATE every mutable column WHERE revoked_at IS NULL; no   *)
(* row affected means the key was revoked in between, and ErrRevoked.      *)
PatchUpdate(a) ==
  /\ pending[a] # Nil /\ pending[a].row # Nil
  /\ \/ /\ ~IsRevoked(rows[pending[a].key])
        /\ WriteCopy(pending[a].key, pending[a].row)
        /\ Answer(a, "ok")
     \/ /\ IsRevoked(rows[pending[a].key])
        /\ UNCHANGED rows
        /\ Answer(a, "refused")
  /\ UNCHANGED <<now, backend>>

(* The SELECT or the UPDATE of keys.SQLite fails (a busy database, a       *)
(* client that left): nothing is written and the caller gets the error.    *)
PatchFails(a) ==
  /\ backend = "sqlite"
  /\ pending[a] # Nil
  /\ Answer(a, "error")
  /\ UNCHANGED <<rows, now, backend>>

-----------------------------------------------------------------------------
(* The ticker keeps at most one tick for a sweeper that is still busy.     *)
TickerFires ==
  /\ ticker = Nil
  /\ ticker' = now
  /\ UNCHANGED <<rows, now, backend, pending, answer, sweep>>

(* Expiry e has passed at instant t.  keys.Memory compares the times;      *)
(* keys.SQLite compares them as RFC3339Nano text, in which a whole second  *)
(* ("05Z") sorts after its fractions ("05.5Z").                            *)
AtOrBefore(e, t) ==
  \/ backend = "memory" /\ e <= t
  \/ /\ backend = "sqlite"
     /\ \/ e \div 2 < t \div 2
        \/ e \div 2 = t \div 2 /\ e % 2 >= t % 2

Listed(S) == {[key |-> k, at |-> rows[k].expiresAt] : k \in S}

(* Mutants: keys without an expiry are listed; keys are listed a second    *)
(* ahead of their expiry; only keys that expire at this tick are listed.   *)
ListExpiring_NullsToo(asOf) ==
  Listed({k \in Existing : /\ ~IsRevoked(rows[k])
                           /\ rows[k].expiresAt # Nil => AtOrBefore(rows[k].expiresAt, asOf)})

ListExpiring_Ahead(asOf) ==
  Listed({k \in Existing : /\ ~IsRevoked(rows[k]) /\ rows[k].expiresAt # Nil
                           /\ AtOrBefore(rows[k].expiresAt, asOf + 2)})

ListExpiring_NewOnly(asOf) ==
  Listed({k \in Existing : ~IsRevoked(rows[k]) /\ rows[k].expiresAt = asOf})

(* Keys whose expiry is at or before asOf and that are not revoked.        *)
ListExpiring(asOf) ==
  Listed({k \in Existing : /\ ~IsRevoked(rows[k]) /\ rows[k].expiresAt # Nil
                           /\ AtOrBefore(rows[k].expiresAt, asOf)})

SweepList ==
  /\ ticker # Nil
  /\ sweep = {}
  /\ sweep' = ListExpiring(ticker)
  /\ ticker' = Nil
  /\ UNCHANGED <<rows, now, backend, pending, answer>>

(* ListExpiring failed: logged, and this tick is spent.                    *)
SweepListFail ==
  /\ ticker # Nil
  /\ sweep = {}
  /\ ticker' = Nil
  /\ UNCHANGED <<rows, now, backend, pending, answer, sweep>>

(* The sweeper takes the listed keys in ORDER BY expires_at (SQLite) or    *)
(* map order (Memory).                                                     *)
NextSwept(e) ==
  /\ e \in sweep
  /\ backend = "sqlite" => \A x \in sweep : AtOrBefore(e.at, x.at)

(* Mutant: the sweeper stamps keys that are revoked already.               *)
SweepRevoke_Overwrites(e) ==
  /\ NextSwept(e)
  /\ rows' = [rows EXCEPT ![e.key] =
                [cfg |-> @.cfg, expiresAt |-> @.expiresAt, revokedAt |-> e.at]]
  /\ sweep' = sweep \ {e}
  /\ UNCHANGED <<now, backend, pending, answer, ticker>>

SweepRevoke(e) ==
  /\ NextSwept(e)
  /\ IF IsRevoked(rows[e.key]) THEN UNCHANGED rows ELSE Stamp(e.key, e.at)
  /\ sweep' = sweep \ {e}
  /\ UNCHANGED <<now, backend, pending, answer, ticker>>

(* RevokeAt failed (a busy database): logged, and left to a later sweep.   *)
SweepFail(e) ==
  /\ NextSwept(e)
  /\ sweep' = sweep \ {e}
  /\ UNCHANGED <<rows, now, backend, pending, answer, ticker>>

(* The process dies and restarts: the database survives, handlers and the  *)
(* sweep in progress do not.                                               *)
Restart ==
  /\ backend = "sqlite"
  /\ pending' = [a \in Admins |-> Nil]
  /\ answer' = [a \in Admins |-> IF pending[a] # Nil THEN "error" ELSE answer[a]]
  /\ ticker' = Nil
  /\ sweep' = {}
  /\ UNCHANGED <<rows, now, backend>>

ClockTick == Tick /\ UNCHANGED <<pending, answer, ticker, sweep>>

StoreNext ==
  \/ \E k \in Keys, cfg \in [Fields -> Values], e \in Time \cup {Nil} : CreateKey(k, cfg, e)
  \/ \E k \in Keys : RevokeKey(k)
  \/ \E a \in Admins, k \in Keys, p \in Patches : PatchCall(a, k, p)
  \/ \E a \in Admins :
       PatchMemory(a) \/ PatchRefused(a) \/ PatchSelect(a) \/ PatchUpdate(a) \/ PatchFails(a)
  \/ TickerFires
  \/ SweepList
  \/ SweepListFail
  \/ \E e \in sweep : SweepRevoke(e) \/ SweepFail(e)
  \/ Restart
  \/ ClockTick

(* Time passes (up to MaxTime, which should be a whole second), the ticker *)
(* fires and the sweeper runs for as long as the process does (it may      *)
(* restart, but not for ever before the sweep gets through), and neither   *)
(* ListExpiring nor RevokeAt fails every time it is tried.                 *)
StoreFairness ==
  /\ WF_storeVars(ClockTick)
  /\ SF_storeVars(TickerFires)
  /\ SF_storeVars(SweepList)
  /\ \A k \in Keys, t \in Expiries : SF_storeVars(SweepRevoke([key |-> k, at |-> t]))

StoreSpec == StoreInit /\ [][StoreNext]_storeVars /\ StoreFairness
-----------------------------------------------------------------------------
(* What the callers of Update see of the handlers' state.                  *)
asked == [a \in Admins |-> IF pending[a] = Nil THEN Nil
                           ELSE [key |-> pending[a].key, patch |-> pending[a].patch]]

Calls == INSTANCE KeyPatches

(* The store keeps what KeyPatches promises: every write to a row is a     *)
(* patch some caller asked for, applied to the row as it is and not as it  *)
(* was when it was read, and each caller's answer tells whether its patch  *)
(* was written, although on SQLite revocations, sweeps, failed statements  *)
(* and restarts get between the SELECT and the UPDATE.  Only PATCHes of    *)
(* one key that overlap on SQLite break it.                                *)
ImplementsTable == Calls!PatchesSpec

(* A revoked key stays revoked and its row is not written any more: no     *)
(* PATCH that read it before the revocation brings it back or changes it,  *)
(* and (on SQLite) no later revocation or sweep moves its stamp.           *)
RevokedRowIsFinal ==
  [][\A k \in Existing : IsRevoked(rows[k]) =>
       /\ rows'[k].cfg = rows[k].cfg
       /\ rows'[k].expiresAt = rows[k].expiresAt
       /\ IsRevoked(rows'[k])
       /\ backend = "sqlite" => rows'[k].revokedAt = rows[k].revokedAt]_storeVars

(* No stamp lies in the future: the sweeper only ever stamps an expiry     *)
(* that had passed when it listed the key, even if it is late or the       *)
(* expiry was moved meanwhile.  SQLite's text comparison may list a key    *)
(* ahead of its expiry, but not before the second in which it expires.     *)
Passed(at) == IF backend = "memory" THEN at <= now ELSE at \div 2 <= now \div 2

StampsAreHistory ==
  \A k \in Existing : IsRevoked(rows[k]) => Passed(rows[k].revokedAt)

(* "Fields left nil in the patch are preserved" (keys.go, Store.Update):   *)
(* a PATCH changes no setting it does not name.                            *)
PatchPreservesAbsentFields ==
  [][\A a \in Admins : pending[a] # Nil /\ pending'[a] = Nil /\ rows[pending[a].key] # Nil =>
       \A f \in Fields \ DOMAIN pending[a].patch.set :
         rows'[pending[a].key].cfg[f] = rows[pending[a].key].cfg[f]]_storeVars

(* An expired key is revoked in the table sooner or later, unless its      *)
(* expiry is moved.                                                        *)
ExpiredGetsRevoked ==
  \A k \in Keys :
    (rows[k] # Nil /\ IsExpired(rows[k], now))
      ~> (rows[k] # Nil /\ (IsRevoked(rows[k]) \/ ~IsExpired(rows[k], now)))
=============================================================================
