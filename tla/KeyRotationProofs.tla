--------------------------- MODULE KeyRotationProofs ---------------------------
(***************************************************************************)
(* KeyRotation keeps every secret, strands no key and implements           *)
(* AtomicRotation, for any set of keys.  RotationInv is inductive.  What   *)
(* the properties say of a running server follows from what the operator   *)
(* knows (Carefully); that the commit rotates the right rows, although the *)
(* plan was read outside the transaction, from PlanFollowsRows.            *)
(***************************************************************************)
EXTENDS KeyRotation, TLAPS

(* The parts of a ciphertext; no ciphertext is Nil.                        *)
LEMMA CiphertextShape ==
  /\ \A e \in Ciphertext : e # Nil /\ e.by \in {Old, New, Third} /\ e.plain \in Keys
  /\ \A c \in {Old, New, Third}, s \in Keys :
       Encrypt(c, s) \in Ciphertext /\ Encrypt(c, s).by = c /\ Encrypt(c, s).plain = s
BY RotationAssumption DEF Ciphertext, Encrypt

(* Nobody has planned, written or stranded anything yet.                   *)
LEMMA RotationInitInv == RotationInit => RotationInv
<1> SUFFICES ASSUME RotationInit PROVE RotationInv
  OBVIOUS
<1> USE RotationAssumption DEF RotationInit
<1>1. RotationTypeOK
  BY DEF RotationTypeOK, NoUpdates
<1>2. SecretsSurvive
  BY CiphertextShape DEF SecretsSurvive, NoUpdates
<1>3. PlanFollowsRows
  BY DEF PlanFollowsRows, NoUpdates
<1>4. Carefully
  BY CiphertextShape DEF Carefully, Running
<1> QED
  BY <1>1, <1>2, <1>3, <1>4 DEF RotationInv

(* The tool starts: an empty plan, and the server is stopped if the        *)
(* operator is careful.                                                    *)
LEMMA RunToolInv == RotationInv /\ RunTool => RotationInv'
<1> SUFFICES ASSUME RotationInv, RunTool PROVE RotationInv'
  OBVIOUS
<1> USE RotationAssumption DEF RotationInv, RunTool, hostVars
<1>1. RotationTypeOK'
  BY DEF RotationTypeOK, NoUpdates, Running
<1>2. SecretsSurvive'
  BY DEF SecretsSurvive, NoUpdates
<1>3. PlanFollowsRows'
  BY DEF PlanFollowsRows, NoUpdates
<1>4. Carefully'
  BY DEF Carefully, Running
<1> QED
  BY <1>1, <1>2, <1>3, <1>4

(* Every row of the old key gets an update, with the secret it holds.      *)
LEMMA PlanRotationInv == RotationInv /\ PlanRotation => RotationInv'
<1> SUFFICES ASSUME RotationInv, PlanRotation PROVE RotationInv'
  OBVIOUS
<1> USE RotationAssumption DEF RotationInv, PlanRotation, hostVars
<1>1. \A k \in Keys : rows[k] # Nil =>
        /\ rows[k] \in Ciphertext /\ rows[k].plain = k
        /\ rows[k].by \in {Old, New}
        /\ Rotatable(k) <=> rows[k].by = Old
  BY CiphertextShape DEF RotationTypeOK, SecretsSurvive, Foreign, Rotatable, Decrypts
<1>2. \A k \in Keys : plan'[k] = IF Rotatable(k) THEN Encrypt(New, k) ELSE Nil
  BY <1>1 DEF Rotatable
<1>3. RotationTypeOK'
  BY <1>2, CiphertextShape DEF RotationTypeOK, Running
<1>4. SecretsSurvive'
  BY DEF SecretsSurvive
<1>5. PlanFollowsRows'
  BY <1>1, <1>2, CiphertextShape DEF PlanFollowsRows, NoUpdates, Rotatable
<1>6. Carefully'
  BY <1>1 DEF Carefully, Running
<1> QED
  BY <1>3, <1>4, <1>5, <1>6

(* One UPDATE of the open transaction.                                     *)
LEMMA UpdateRowInv ==
  ASSUME RotationInv, NEW k \in Keys, UpdateRow(k)
  PROVE  RotationInv'
<1> USE RotationAssumption DEF RotationInv, UpdateRow, hostVars
<1>1. RotationTypeOK'
  BY DEF RotationTypeOK, Running
<1>2. SecretsSurvive'
  BY CiphertextShape DEF SecretsSurvive, PlanFollowsRows, RotationTypeOK
<1>3. PlanFollowsRows'
  BY DEF PlanFollowsRows, RotationTypeOK
<1>4. Carefully'
  BY DEF Carefully, Running
<1> QED
  BY <1>1, <1>2, <1>3, <1>4

(* The commit: all planned rows, and so all rows but fresh ones, are now   *)
(* under the new key.                                                      *)
LEMMA CommitInv == RotationInv /\ Commit => RotationInv'
<1> SUFFICES ASSUME RotationInv, Commit PROVE RotationInv'
  OBVIOUS
<1> USE RotationAssumption DEF RotationInv, Commit, hostVars
<1>1. tx = plan
  BY DEF PlanFollowsRows
<1>2. \A k \in Keys : rows'[k] = IF plan[k] # Nil THEN Encrypt(New, k) ELSE rows[k]
  BY <1>1 DEF PlanFollowsRows
<1>3. RotationTypeOK'
  BY <1>1, <1>2 DEF RotationTypeOK
<1>4. SecretsSurvive'
  BY <1>2, CiphertextShape DEF SecretsSurvive
<1>5. PlanFollowsRows'
  BY <1>2, CiphertextShape DEF PlanFollowsRows
<1>6. Carefully'
  <2>1. ASSUME ~careless, NEW k \in Keys, rows'[k] # Nil
        PROVE  rows'[k].by = New
    BY <1>2, <2>1, CiphertextShape DEF PlanFollowsRows, Carefully, Running
  <2>2. ~careless => server = Nil /\ fresh = {}
    BY DEF Carefully, Running
  <2> QED
    BY <2>1, <2>2 DEF Carefully, Running
<1> QED
  BY <1>3, <1>4, <1>5, <1>6

(* The remaining steps of the tool and of the operator write no row.       *)
LEMMA NoWriteInv ==
  ASSUME RotationInv,
         Verify \/ Report \/ Fail \/ Crash \/ StartServer \/ StopServer
  PROVE  RotationInv'
<1> USE RotationAssumption
        DEF RotationInv, Verify, Report, Fail, Crash, StartServer, StopServer, hostVars, toolVars
<1>1. RotationTypeOK'
  BY DEF RotationTypeOK, Running
<1>2. SecretsSurvive'
  BY DEF SecretsSurvive
<1>3. PlanFollowsRows'
  BY DEF PlanFollowsRows, Running
<1>4. Carefully'
  BY DEF Carefully, Running, RotationTypeOK
<1> QED
  BY <1>1, <1>2, <1>3, <1>4

(* A server writes a new row under its own key.                            *)
LEMMA CreateKeyInv ==
  ASSUME RotationInv, NEW k \in Keys, CreateKey(k)
  PROVE  RotationInv'
<1> USE RotationAssumption DEF RotationInv, CreateKey, hostVars, toolVars
<1>1. server \in {Old, New} /\ Encrypt(server, k) \in Ciphertext
  BY CiphertextShape DEF RotationTypeOK
<1>2. /\ rows'[k] = Encrypt(server, k) /\ rows'[k].by = server /\ rows'[k].plain = k
      /\ \A j \in Keys \ {k} : rows'[j] = rows[j]
  BY <1>1, CiphertextShape DEF RotationTypeOK
<1>3. RotationTypeOK'
  BY <1>1 DEF RotationTypeOK
<1>4. SecretsSurvive'
  BY <1>2 DEF SecretsSurvive
<1>5. PlanFollowsRows'
  <2>1. plan[k] = Nil
    BY DEF PlanFollowsRows
  <2> QED
    BY <1>1, <1>2, <2>1 DEF PlanFollowsRows
<1>6. Carefully'
  <2> SUFFICES ASSUME ~careless PROVE Carefully'
    BY DEF Carefully
  <2>1. at \notin Running \cup {"committed"} /\ server = known
    BY DEF Carefully
  <2> QED
    BY <1>1, <1>2, <2>1 DEF Carefully
<1> QED
  BY <1>3, <1>4, <1>5, <1>6

(* Every step keeps the invariant.                                         *)
LEMMA RotationNextInv == RotationInv /\ [RotationNext]_rotationVars => RotationInv'
<1> SUFFICES ASSUME RotationInv, [RotationNext]_rotationVars PROVE RotationInv'
  OBVIOUS
<1>1. CASE RunTool
  BY <1>1, RunToolInv
<1>2. CASE PlanRotation
  BY <1>2, PlanRotationInv
<1>3. CASE \E k \in Keys : UpdateRow(k)
  BY <1>3, UpdateRowInv
<1>4. CASE Commit
  BY <1>4, CommitInv
<1>5. CASE Verify \/ Report \/ Fail \/ Crash \/ StartServer \/ StopServer
  BY <1>5, NoWriteInv
<1>6. CASE \E k \in Keys : CreateKey(k)
  BY <1>6, CreateKeyInv
<1>7. CASE UNCHANGED rotationVars
  BY <1>7 DEF rotationVars, toolVars, hostVars, RotationInv, RotationTypeOK, SecretsSurvive,
              PlanFollowsRows, Carefully
<1> QED
  BY <1>1, <1>2, <1>3, <1>4, <1>5, <1>6, <1>7 DEF RotationNext

(* RotationInv always holds: rotate.go, SQLite.Create and the operator     *)
(* between them keep the plan in step with the rows.                       *)
THEOREM RotationInvariant == RotationSpec => []RotationInv
<1> QED
  BY RotationInitInv, RotationNextInv, PTL DEF RotationSpec

(* No upstream secret is ever lost or swapped by a rotation.               *)
THEOREM SecretsSafe == RotationSpec => []SecretsSurvive
<1>1. RotationInv => SecretsSurvive
  BY DEF RotationInv
<1> QED
  BY <1>1, RotationInvariant, PTL

(* Following the runbook, a server decrypts every row it could before.     *)
THEOREM NeverStranded == RotationSpec => []NoKeyStranded
<1>1. RotationInv => NoKeyStranded
  <2> SUFFICES ASSUME RotationInv, ~careless, server # Nil, NEW k \in Keys, rows[k] # Nil
               PROVE  rows[k].by \in {server, Third}
    BY DEF NoKeyStranded
  <2>1. server = known /\ at # "committed" /\ server \in {Old, New}
    BY DEF RotationInv, Carefully, RotationTypeOK
  <2>2. rows[k].by \in {Old, New, Third}
    BY CiphertextShape DEF RotationInv, RotationTypeOK
  <2> QED
    BY <2>1, <2>2 DEF RotationInv, Carefully
<1> QED
  BY <1>1, RotationInvariant, PTL

(* The abstract state: the key of each row, and the run.                   *)
Enc == [k \in Keys |-> IF rows[k] = Nil THEN Nil ELSE rows[k].by]
Run == IF at \in Running THEN "running" ELSE IF at = "committed" THEN "rotated" ELSE at

(* Initial states of the detailed specification map to initial states.     *)
LEMMA RefinesInit == RotationInit => Rotation!AtomicInit
<1> SUFFICES ASSUME RotationInit PROVE Rotation!AtomicInit
  OBVIOUS
<1>1. ASSUME NEW k \in Keys
      PROVE  (IF rows[k] = Nil THEN Nil ELSE rows[k].by) \in {Nil, Old, Third}
  <2>1. rows[k] # Nil => rows[k] \in {Encrypt(Old, k), Encrypt(Third, k)}
    BY DEF RotationInit
  <2>2. Encrypt(Old, k).by = Old /\ Encrypt(Third, k).by = Third
    BY DEF Encrypt
  <2> QED
    BY <2>1, <2>2
<1> QED
  BY <1>1 DEF RotationInit, Rotation!AtomicInit, Running

(* A plan without updates rotates no row, and there was none to rotate; a  *)
(* plan with updates is not visible yet.                                   *)
LEMMA PlanRefines ==
  RotationInv /\ PlanRotation => [Rotation!AtomicNext]_(Rotation!atomicVars)
<1> SUFFICES ASSUME RotationInv, PlanRotation
             PROVE  [Rotation!AtomicNext]_(Rotation!atomicVars)
  OBVIOUS
<1>1. CASE \E k \in Keys : Rotatable(k)
  <2>1. UNCHANGED Rotation!atomicVars
    BY <1>1 DEF PlanRotation, Running, Rotation!atomicVars
  <2> QED
    BY <2>1
<1>2. CASE ~\E k \in Keys : Rotatable(k)
  <2>1. \A k \in Keys : Enc[k] # Old /\ Enc[k] # Third
    BY <1>2, CiphertextShape, RotationAssumption
    DEF PlanRotation, Enc, Rotatable, Foreign, Decrypts, RotationInv, RotationTypeOK
  <2>2. Rotation!Rotate({})
    BY <1>2, <2>1 DEF PlanRotation, Running, Rotation!Rotate, Rotation!Under, Enc
  <2> QED
    BY <2>2 DEF Rotation!AtomicNext
<1> QED
  BY <1>1, <1>2

(* The commit is the abstract rotation of the planned rows.                *)
LEMMA CommitRefines == RotationInv /\ Commit => Rotation!AtomicNext
<1> SUFFICES ASSUME RotationInv, Commit PROVE Rotation!AtomicNext
  OBVIOUS
<1> DEFINE S == {k \in Keys : plan[k] # Nil}
<1>1. \A k \in Keys : rows'[k] = IF k \in S THEN Encrypt(New, k) ELSE rows[k]
  BY DEF Commit, RotationInv, PlanFollowsRows
<1>2. \A k \in Keys : Enc[k] # Third
  BY CiphertextShape, RotationAssumption DEF Commit, RotationInv, PlanFollowsRows, Enc
<1>3. \A k \in S : Enc[k] = Old
  BY DEF Commit, RotationInv, PlanFollowsRows, Enc
<1>4. \A k \in Keys : Enc[k] = Old => k \in S \cup fresh
  BY RotationAssumption DEF Commit, RotationInv, PlanFollowsRows, Enc
<1>5. Enc' = [k \in Keys |-> IF k \in S THEN New ELSE Enc[k]]
  BY <1>1, CiphertextShape DEF Enc
<1>6. Rotation!Rotate(S)
  BY <1>2, <1>4, <1>5 DEF Rotation!Rotate, Rotation!Under, Commit, Running, Enc
<1>7. S \in SUBSET Rotation!Under(Old)
  BY <1>3 DEF Rotation!Under, Enc
<1> HIDE DEF S
<1> QED
  BY <1>6, <1>7 DEF Rotation!AtomicNext, Rotation!Rotate

(* A server's INSERT is the abstract one.                                  *)
LEMMA CreateRefines ==
  ASSUME RotationInv, NEW k \in Keys, CreateKey(k)
  PROVE  Rotation!AtomicNext
<1>1. server \in {Old, New} /\ Encrypt(server, k) # Nil /\ Encrypt(server, k).by = server
  BY CiphertextShape DEF CreateKey, RotationInv, RotationTypeOK
<1>2. Enc[k] = Nil /\ Enc' = [Enc EXCEPT ![k] = server]
  BY <1>1 DEF CreateKey, Enc, RotationInv, RotationTypeOK
<1>3. Rotation!Insert(k, server)
  BY <1>2 DEF CreateKey, Rotation!Insert, Enc, toolVars
<1> QED
  BY <1>1, <1>3 DEF Rotation!AtomicNext, Rotation!Insert

(* The other steps move the run or nothing.                                *)
LEMMA QuietRefines ==
  ASSUME RunTool \/ Verify \/ Report \/ Fail \/ Crash \/ StartServer \/ StopServer
           \/ (\E k \in Keys : UpdateRow(k)) \/ UNCHANGED rotationVars
  PROVE  [Rotation!AtomicNext]_(Rotation!atomicVars)
<1>1. CASE RunTool
  BY <1>1 DEF RunTool, Running, Rotation!Start, Rotation!AtomicNext
<1>2. CASE Report
  BY <1>2 DEF Report, Running, Rotation!Succeed, Rotation!AtomicNext
<1>3. CASE Fail
  BY <1>3 DEF Fail, Running, Rotation!Abort, Rotation!AtomicNext
<1>4. CASE Crash
  BY <1>4 DEF Crash, Running, Rotation!Die, Rotation!AtomicNext
<1>5. CASE Verify \/ StartServer \/ StopServer \/ (\E k \in Keys : UpdateRow(k))
             \/ UNCHANGED rotationVars
  BY <1>5 DEF Verify, StartServer, StopServer, UpdateRow, rotationVars, toolVars, Running,
              Rotation!atomicVars
<1> QED
  BY <1>1, <1>2, <1>3, <1>4, <1>5

(* The tool with its plan outside the transaction, next to a live server   *)
(* and through failures and crashes, implements the rotation in one step.  *)
THEOREM RotationRefines == RotationSpec => ImplementsRotation
<1>1. RotationInv /\ [RotationNext]_rotationVars => [Rotation!AtomicNext]_(Rotation!atomicVars)
  <2> SUFFICES ASSUME RotationInv, [RotationNext]_rotationVars
               PROVE  [Rotation!AtomicNext]_(Rotation!atomicVars)
    OBVIOUS
  <2>1. CASE PlanRotation
    BY <2>1, PlanRefines
  <2>2. CASE Commit
    BY <2>2, CommitRefines
  <2>3. CASE \E k \in Keys : CreateKey(k)
    BY <2>3, CreateRefines
  <2>4. CASE RunTool \/ Verify \/ Report \/ Fail \/ Crash \/ StartServer \/ StopServer
               \/ (\E k \in Keys : UpdateRow(k)) \/ UNCHANGED rotationVars
    BY <2>4, QuietRefines
  <2> QED
    BY <2>1, <2>2, <2>3, <2>4 DEF RotationNext
<1> QED
  BY <1>1, RefinesInit, RotationInvariant, PTL
  DEF RotationSpec, ImplementsRotation, Rotation!AtomicSpec
=============================================================================
