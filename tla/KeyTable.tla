------------------------------- MODULE KeyTable -------------------------------
(***************************************************************************)
(* The table behind the Store interface of internal/keys/keys.go: virtual  *)
(* keys on which every operation is one atomic step.  The mutex of         *)
(* keys.Memory gives exactly this.  The two backends differ in what a      *)
(* second Revoke does.  TableSpec does not say who asks for an Update or   *)
(* with which patch: KeyPatches adds the calls and their answers.          *)
(*                                                                         *)
(* Time is counted in ticks, whose length the modules that use the table   *)
(* give.  The mutable settings of a key (budgets, rate and concurrency     *)
(* limits, timeout, base URL, name) are Fields with Values; the token of a *)
(* key is as good as its id.                                               *)
(***************************************************************************)
EXTENDS VirtualKeys, Integers

CONSTANTS
  Fields,     \* mutable settings of a key
  Values,     \* values of a setting
  MaxTime,    \* the clock stops here (bound)
  Backends,   \* the stores REIN_DB_URL may select: "memory", "sqlite"
  Nil,        \* no row, no instant, "remove the expiry"
  Keep        \* "leave the expiry as it is"

ASSUME TableAssumption ==
  /\ MaxTime \in Nat
  /\ Backends \subseteq {"memory", "sqlite"}
  /\ Nil \notin Nat

VARIABLES
  rows,       \* the table: key id -> row, or Nil before Create
  now,        \* the wall clock
  backend     \* the store this process opened

tableVars == <<rows, now, backend>>

Time == 0..MaxTime

Row == [cfg : [Fields -> Values], expiresAt : Time \cup {Nil}, revokedAt : Time \cup {Nil}]

ASSUME RowAssumption == Nil \notin Row

(* A KeyPatch sets some fields and keeps, removes or moves the expiry.     *)
KeyPatch ==
  [set : UNION {[S -> Values] : S \in SUBSET Fields}, expires : Time \cup {Nil, Keep}]

(* Mutant: a field absent from the patch is reset instead of kept.         *)
ApplyTo_ResetsAbsent(row, p) ==
  [cfg       |-> [f \in Fields |-> IF f \in DOMAIN p.set THEN p.set[f]
                                                    ELSE CHOOSE v \in Values : TRUE],
   expiresAt |-> IF p.expires = Keep THEN row.expiresAt ELSE p.expires,
   revokedAt |-> row.revokedAt]

ApplyTo(row, p) ==
  [cfg       |-> [f \in Fields |-> IF f \in DOMAIN p.set THEN p.set[f] ELSE row.cfg[f]],
   expiresAt |-> IF p.expires = Keep THEN row.expiresAt ELSE p.expires,
   revokedAt |-> row.revokedAt]

IsRevoked(row) == row.revokedAt # Nil

(* Not now.Before(ExpiresAt): a key is expired from its expiry instant on. *)
IsExpired(row, t) == row.expiresAt # Nil /\ t >= row.expiresAt

TableTypeOK ==
  /\ rows \in [Keys -> Row \cup {Nil}]
  /\ now \in Time
  /\ backend \in Backends

TableInit ==
  /\ rows = [k \in Keys |-> Nil]
  /\ now = 0
  /\ backend \in Backends

Create(k, cfg, expires) ==
  /\ rows[k] = Nil
  /\ rows' = [rows EXCEPT ![k] = [cfg |-> cfg, expiresAt |-> expires, revokedAt |-> Nil]]
  /\ UNCHANGED <<now, backend>>

(* Revoke stamps the current time, RevokeAt the time the sweeper chose.    *)
(* Revoking is final and the first stamp stays, except that keys.Memory    *)
(* stamps again when a revoked key is revoked by hand.                     *)
Stamp(k, at) ==
  rows' = [rows EXCEPT ![k] = [cfg |-> @.cfg, expiresAt |-> @.expiresAt, revokedAt |-> at]]

Revoke(k) ==
  /\ rows[k] # Nil
  /\ IsRevoked(rows[k]) => backend = "memory"
  /\ Stamp(k, now)
  /\ UNCHANGED <<now, backend>>

RevokeAt(k, at) ==
  /\ rows[k] # Nil
  /\ ~IsRevoked(rows[k])
  /\ Stamp(k, at)
  /\ UNCHANGED <<now, backend>>

Update(k, p) ==
  /\ rows[k] # Nil
  /\ ~IsRevoked(rows[k])
  /\ rows' = [rows EXCEPT ![k] = ApplyTo(@, p)]
  /\ UNCHANGED <<now, backend>>

Tick ==
  /\ now < MaxTime
  /\ now' = now + 1
  /\ UNCHANGED <<rows, backend>>

(* Every operation but Update, and the clock.                              *)
TableStep ==
  \/ \E k \in Keys :
       \/ \E cfg \in [Fields -> Values], e \in Time \cup {Nil} : Create(k, cfg, e)
       \/ Revoke(k)
       \/ \E at \in Time : RevokeAt(k, at)
  \/ Tick

TableNext ==
  \/ TableStep
  \/ \E k \in Keys, p \in KeyPatch : Update(k, p)

TableSpec == TableInit /\ [][TableNext]_tableVars
=============================================================================
