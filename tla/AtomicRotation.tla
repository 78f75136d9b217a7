---------------------------- MODULE AtomicRotation ----------------------------
(***************************************************************************)
(* What rein-rotate-keys promises (doc comment of RotateEncryption and     *)
(* docs/runbooks/key-rotation.md): a run re-encrypts every row of the old  *)
(* key in one step or leaves the database unchanged, a row under a third   *)
(* key stops the run before any write, and a run may be repeated.          *)
(***************************************************************************)
EXTENDS VirtualKeys

CONSTANTS
  Old, New,    \* --old-key and --new-key
  Third,       \* any other key a row may be encrypted under
  Nil          \* no row

VARIABLES
  enc,         \* virtual key -> the key its row is encrypted under, or Nil
  run,         \* the last run of the tool
  fresh        \* rows created since that run started

atomicVars == <<enc, run, fresh>>

Under(c) == {k \in Keys : enc[k] = c}

AtomicInit ==
  /\ enc \in [Keys -> {Nil, Old, Third}]
  /\ run = "idle"
  /\ fresh = {}

Start ==
  /\ run \in {"idle", "success", "error"}
  /\ run' = "running" /\ fresh' = {}
  /\ UNCHANGED enc

(* All rows of the old key, or all but rows a server created meanwhile.    *)
Rotate(S) ==
  /\ run = "running"
  /\ Under(Third) = {}
  /\ Under(Old) \ fresh \subseteq S
  /\ enc' = [k \in Keys |-> IF k \in S THEN New ELSE enc[k]]
  /\ run' = "rotated"
  /\ UNCHANGED fresh

Succeed ==
  /\ run = "rotated" /\ run' = "success"
  /\ UNCHANGED <<enc, fresh>>

Abort ==
  /\ run = "running" /\ run' = "error"
  /\ UNCHANGED <<enc, fresh>>

Die ==
  /\ run \in {"running", "rotated"} /\ run' = "idle"
  /\ UNCHANGED <<enc, fresh>>

Insert(k, c) ==
  /\ enc[k] = Nil
  /\ enc' = [enc EXCEPT ![k] = c]
  /\ fresh' = fresh \cup {k}
  /\ UNCHANGED run

AtomicNext ==
  \/ Start \/ Succeed \/ Abort \/ Die
  \/ \E S \in SUBSET Under(Old) : Rotate(S)
  \/ \E k \in Keys, c \in {Old, New} : Insert(k, c)

AtomicSpec == AtomicInit /\ [][AtomicNext]_atomicVars
=============================================================================
