------------------------------ MODULE KeyRotation ------------------------------
(***************************************************************************)
(* Rotation of the encryption key, internal/keys/rotate.go as run by       *)
(* cmd/rein-rotate-keys, next to the rein server that shares the database  *)
(* file and the operator who runs both (docs/runbooks/key-rotation.md).    *)
(*                                                                         *)
(* The tool reads all rows in one SELECT outside any transaction, then     *)
(* updates them one by one in a transaction, re-reads one of them and      *)
(* commits.  BEGIN is deferred: the write lock is taken by the first       *)
(* UPDATE, and until the commit everyone else reads the old rows (WAL).    *)
(*                                                                         *)
(* A ciphertext is the key it was encrypted under and its plaintext; the   *)
(* upstream secret of virtual key k is k itself.  Nothing deletes a row,   *)
(* and no PATCH writes upstream_key.                                       *)
(***************************************************************************)
EXTENDS VirtualKeys

CONSTANTS
  Old, New,    \* --old-key and --new-key, which must differ
  Third,       \* another key, left behind by an earlier accident
  Nil          \* no row, no server, not known

ASSUME RotationAssumption ==
  /\ Old # New /\ Old # Third /\ New # Third
  /\ Nil \notin {Old, New, Third}
  /\ Nil \notin [by : {Old, New, Third}, plain : Keys]

VARIABLES
  rows,        \* virtual key -> committed upstream_key column, or Nil
  at,          \* where the tool is
  plan,        \* the updates of planRotation: key -> new ciphertext, or Nil
  tx,          \* the updates already in the open transaction
  server,      \* the key the running server was started with, or Nil
  known,       \* the key the operator would start a server with, or Nil
  careless,    \* the operator runs the tool without stopping the server
  fresh        \* rows created since the tool was started (history)

toolVars == <<at, plan, tx>>
hostVars == <<server, known, careless>>
rotationVars == <<rows, toolVars, hostVars, fresh>>

Ciphertext == [by : {Old, New, Third}, plain : Keys]

Encrypt(c, s) == [by |-> c, plain |-> s]
Decrypts(c, e) == e.by = c

Running == {"open", "planned", "tx", "verified"}
Locked == {"tx", "verified"}
NoUpdates == [k \in Keys |-> Nil]

RotationTypeOK ==
  /\ rows \in [Keys -> Ciphertext \cup {Nil}]
  /\ plan \in [Keys -> Ciphertext \cup {Nil}]
  /\ tx \in [Keys -> Ciphertext \cup {Nil}]
  /\ at \in Running \cup {"idle", "committed", "success", "error"}
  /\ server \in {Old, New, Nil}
  /\ known \in {Old, New, Nil}
  /\ careless \in BOOLEAN
  /\ fresh \subseteq Keys

RotationInit ==
  /\ rows \in {f \in [Keys -> Ciphertext \cup {Nil}] :
                 \A k \in Keys : f[k] # Nil => f[k] \in {Encrypt(Old, k), Encrypt(Third, k)}}
  /\ at = "idle" /\ plan = NoUpdates /\ tx = NoUpdates
  /\ server = Nil /\ known = Old
  /\ careless \in BOOLEAN
  /\ fresh = {}

-----------------------------------------------------------------------------
(* The tool.                                                               *)

(* Step 3 of the runbook, after step 1 unless the operator is careless.    *)
RunTool ==
  /\ at \in {"idle", "success", "error"}
  /\ careless \/ server = Nil
  /\ at' = "open" /\ plan' = NoUpdates /\ tx' = NoUpdates
  /\ fresh' = {}
  /\ UNCHANGED <<rows, hostVars>>

Rotatable(k) == rows[k] # Nil /\ Decrypts(Old, rows[k])
Foreign(k) == rows[k] # Nil /\ ~Decrypts(Old, rows[k]) /\ ~Decrypts(New, rows[k])

(* Mutant: one ciphertext is bound to the statement for every row.         *)
PlanRotation_OneCiphertext ==
  /\ at = "open"
  /\ ~\E k \in Keys : Foreign(k)
  /\ plan' = [k \in Keys |-> IF Rotatable(k)
                               THEN Encrypt(New, rows[CHOOSE j \in Keys : Rotatable(j)].plain)
                               ELSE Nil]
  /\ at' = IF \E k \in Keys : Rotatable(k) THEN "planned" ELSE "committed"
  /\ UNCHANGED <<rows, tx, hostVars, fresh>>

(* planRotation: decrypts under the old key, re-encrypts; under the new    *)
(* key, skips; under neither, the run fails.  Without updates there is no  *)
(* transaction at all.                                                     *)
PlanRotation ==
  /\ at = "open"
  /\ ~\E k \in Keys : Foreign(k)
  /\ plan' = [k \in Keys |-> IF Rotatable(k) THEN Encrypt(New, rows[k].plain) ELSE Nil]
  /\ at' = IF \E k \in Keys : Rotatable(k) THEN "planned" ELSE "committed"
  /\ UNCHANGED <<rows, tx, hostVars, fresh>>

(* Mutant: the UPDATE is prepared on the database, not on the transaction. *)
UpdateRow_OutsideTx(k) ==
  /\ at \in {"planned", "tx"}
  /\ plan[k] # Nil /\ tx[k] = Nil
  /\ tx' = [tx EXCEPT ![k] = plan[k]]
  /\ rows' = [rows EXCEPT ![k] = plan[k]]
  /\ at' = "tx"
  /\ UNCHANGED <<plan, hostVars, fresh>>

UpdateRow(k) ==
  /\ at \in {"planned", "tx"}
  /\ plan[k] # Nil /\ tx[k] = Nil
  /\ tx' = [tx EXCEPT ![k] = plan[k]]
  /\ at' = "tx"
  /\ UNCHANGED <<rows, plan, hostVars, fresh>>

(* Re-read one of the updated rows inside the transaction.                 *)
Verify ==
  /\ at = "tx" /\ tx = plan
  /\ \E k \in Keys : tx[k] # Nil /\ Decrypts(New, tx[k])
  /\ at' = "verified"
  /\ UNCHANGED <<rows, plan, tx, hostVars, fresh>>

Commit ==
  /\ at = "verified"
  /\ rows' = [k \in Keys |-> IF tx[k] # Nil THEN tx[k] ELSE rows[k]]
  /\ at' = "committed"
  /\ UNCHANGED <<plan, tx, hostVars, fresh>>

(* The summary line: the operator goes on with the new key.                *)
Report ==
  /\ at = "committed"
  /\ at' = "success" /\ known' = New
  /\ UNCHANGED <<rows, plan, tx, server, careless, fresh>>

(* Mutant: an error after the commit is returned as well.                  *)
Fail_AfterCommit ==
  /\ at \in Running \cup {"committed"}
  /\ at' = "error"
  /\ UNCHANGED <<rows, plan, tx, hostVars, fresh>>

(* A foreign row, a statement that fails, a lock that stays taken, SIGINT: *)
(* rolled back and reported.  The operator keeps the key known before.     *)
Fail ==
  /\ at \in Running
  /\ at' = "error"
  /\ UNCHANGED <<rows, plan, tx, hostVars, fresh>>

(* The process dies without a word; the transaction is gone with it, but   *)
(* nobody knows whether it had committed.  The operator runs it again.     *)
Crash ==
  /\ at \in Running \cup {"committed"}
  /\ at' = "idle" /\ known' = Nil
  /\ UNCHANGED <<rows, plan, tx, server, careless, fresh>>

-----------------------------------------------------------------------------
(* The server, started with the key the operator goes by.                  *)

StartServer ==
  /\ server = Nil /\ known # Nil
  /\ careless \/ at \in {"idle", "success", "error"}
  /\ server' = known
  /\ UNCHANGED <<rows, toolVars, known, careless, fresh>>

StopServer ==
  /\ server # Nil
  /\ server' = Nil
  /\ UNCHANGED <<rows, toolVars, known, careless, fresh>>

(* SQLite.Create; while the tool holds the write lock the INSERT waits or  *)
(* fails with a busy error.                                                *)
CreateKey(k) ==
  /\ server # Nil /\ rows[k] = Nil
  /\ at \notin Locked
  /\ rows' = [rows EXCEPT ![k] = Encrypt(server, k)]
  /\ fresh' = fresh \cup {k}
  /\ UNCHANGED <<toolVars, hostVars>>

RotationNext ==
  \/ RunTool \/ PlanRotation \/ Verify \/ Commit \/ Report \/ Fail \/ Crash
  \/ StartServer \/ StopServer
  \/ \E k \in Keys : UpdateRow(k) \/ CreateKey(k)

RotationSpec == RotationInit /\ [][RotationNext]_rotationVars
-----------------------------------------------------------------------------
(* Neither a rotation that fails or dies half way nor one that runs next   *)
(* to a server ever loses an upstream secret: every row, committed or in   *)
(* the open transaction, still holds the plaintext it was created with.    *)
SecretsSurvive ==
  \A k \in Keys :
    /\ rows[k] # Nil => rows[k].plain = k
    /\ tx[k] # Nil => tx[k].plain = k

(* An operator who stops the server first and then goes by what the tool   *)
(* reports never ends up with a server that cannot decrypt its keys,       *)
(* whatever failed and however often the tool was run; rows under a third  *)
(* key were unreadable before.                                             *)
NoKeyStranded ==
  ~careless /\ server # Nil =>
    \A k \in Keys : rows[k] # Nil => rows[k].by \in {server, Third}

(* The inductive invariant behind the three: what the tool has planned and *)
(* written is the committed row under the new key, and a careful operator  *)
(* knows the one key of all rows whenever the tool is not running.         *)
PlanFollowsRows ==
  /\ \A k \in Keys : plan[k] # Nil => rows[k] # Nil /\ plan[k] = Encrypt(New, k)
  /\ \A k \in Keys : tx[k] # Nil => tx[k] = plan[k]
  /\ at \in {"open", "planned"} => tx = NoUpdates
  /\ at = "verified" => tx = plan
  /\ at \in {"planned", "tx", "verified"} =>
       \A k \in Keys : rows[k] # Nil =>
         /\ rows[k].by # Third
         /\ plan[k] # Nil => rows[k].by = Old
         /\ plan[k] = Nil => rows[k].by = New \/ k \in fresh

Carefully ==
  ~careless =>
    /\ at \in Running \cup {"committed"} => server = Nil /\ fresh = {}
    /\ server # Nil => server = known
    /\ \A k \in Keys : rows[k] # Nil =>
         /\ at = "committed" => rows[k].by = New
         /\ known = Old /\ at # "committed" => rows[k].by # New
         /\ known = New => rows[k].by # Old

RotationInv == RotationTypeOK /\ SecretsSurvive /\ PlanFollowsRows /\ Carefully

(* Row-by-row updates implement the rotation in one step: a run that       *)
(* reports an error or dies left every row alone, one that succeeds left   *)
(* no row under the old key but those a careless operator's server created *)
(* during the run, and a foreign row stops the run before any write.       *)
Rotation == INSTANCE AtomicRotation WITH
  enc <- [k \in Keys |-> IF rows[k] = Nil THEN Nil ELSE rows[k].by],
  run <- IF at \in Running THEN "running" ELSE IF at = "committed" THEN "rotated" ELSE at,
  fresh <- fresh

ImplementsRotation == Rotation!AtomicSpec
=============================================================================
