------------------------------ MODULE KeyPatches ------------------------------
(***************************************************************************)
(* What a caller of Store.Update (internal/keys/keys.go) is promised: its  *)
(* own patch is applied, at one instant during the call, to the row as it  *)
(* is at that instant, and the call answers with what happened.  A patch   *)
(* is never applied to an older copy of the row, applied twice, applied    *)
(* for a caller that is told otherwise, or acknowledged and not applied.   *)
(***************************************************************************)
EXTENDS KeyTable

CONSTANT
  Admins      \* the callers: admin PATCH handlers

VARIABLES
  asked,      \* admin -> [key, patch] of its call in progress, or Nil
  answer      \* admin -> what its last call returned: "ok", "refused"
              \* (ErrNotFound, ErrRevoked), "error", or Nil

patchVars == <<rows, now, backend, asked, answer>>

PatchesInit ==
  /\ TableInit
  /\ asked = [a \in Admins |-> Nil]
  /\ answer = [a \in Admins |-> Nil]

Ask(a, k, p) ==
  /\ asked[a] = Nil
  /\ asked' = [asked EXCEPT ![a] = [key |-> k, patch |-> p]]
  /\ answer' = [answer EXCEPT ![a] = Nil]
  /\ UNCHANGED tableVars

Return(a, how) ==
  /\ asked[a] # Nil
  /\ asked' = [asked EXCEPT ![a] = Nil]
  /\ answer' = [answer EXCEPT ![a] = how]

(* The one write of a call: its patch, on the row as it is now.            *)
Apply(a) ==
  /\ Return(a, "ok")
  /\ Update(asked[a].key, asked[a].patch)

(* There is no such key, or it is revoked: nothing is written.             *)
Refuse(a) ==
  /\ Return(a, "refused")
  /\ rows[asked[a].key] # Nil => IsRevoked(rows[asked[a].key])
  /\ UNCHANGED tableVars

(* Calls end without having written: a statement failed, or the process    *)
(* died under all of them.                                                 *)
Lose(S) ==
  /\ \A a \in S : asked[a] # Nil
  /\ asked' = [a \in Admins |-> IF a \in S THEN Nil ELSE asked[a]]
  /\ answer' = [a \in Admins |-> IF a \in S THEN "error" ELSE answer[a]]
  /\ UNCHANGED tableVars

PatchesNext ==
  \/ TableStep /\ UNCHANGED <<asked, answer>>
  \/ \E a \in Admins, k \in Keys, p \in KeyPatch : Ask(a, k, p)
  \/ \E a \in Admins : Apply(a) \/ Refuse(a)
  \/ \E S \in SUBSET Admins : Lose(S)

PatchesSpec == PatchesInit /\ [][PatchesNext]_patchVars
=============================================================================
