------------------------- MODULE ClaimLedgerProofs -------------------------
(***************************************************************************)
(* Proofs about ClaimLedger, for every set of batches, claims and          *)
(* instances and every bound.                                              *)
(***************************************************************************)
EXTENDS ClaimLedger, ArrowStateMachineProofs

----------------------------------------------------------------------------
(* Type correctness *)

(* Every step keeps the tables well-typed. *)
LEMMA TypeStep == TypeOK /\ [Next]_vars => TypeOK'
<1> SUFFICES ASSUME DbType(db), [Next]_vars
             PROVE  DbType(db')
  BY DEF TypeOK
<1> USE LedgerAssumption DEF Commit, Apply, Times, RowBound
<1>1. CASE UNCHANGED vars
  BY <1>1 DEF vars
<1>2. ASSUME NEW b \in BatchIds, NEW rows \in RowCounts, NEW size \in Sizes,
             NEW now \in Times, RegisterMasterBatch(b, rows, size, now)
      PROVE  DbType(db')
  BY <1>2, RegisterType DEF RegisterMasterBatch
<1>3. ASSUME NEW c \in ClaimIds, NEW b \in BatchIds, NEW start \in RowBound,
             NEW end \in RowBound, NEW i \in Instances, NEW now \in Times,
             ClaimRowRange(c, b, start, end, i, now)
      PROVE  DbType(db')
  BY <1>3, ClaimType DEF ClaimRowRange
<1>4. ASSUME NEW c \in ClaimIds, NEW i \in Instances, NEW now \in Times,
             RenewClaim(c, i, now)
      PROVE  DbType(db')
  BY <1>4, RenewType DEF RenewClaim
<1>5. ASSUME NEW c \in ClaimIds, NEW i \in Instances, AckClaim(c, i)
      PROVE  DbType(db')
  BY <1>5, AckType DEF AckClaim
<1>6. ASSUME NEW c \in ClaimIds, NEW i \in Instances, ReleaseClaim(c, i)
      PROVE  DbType(db')
  BY <1>6, ReleaseType DEF ReleaseClaim
<1>7. ASSUME NEW c \in ClaimIds, NEW stage \in Stages, NEW payload \in Payloads,
             NEW size \in Sizes, Checkpoint(c, stage, payload, size)
      PROVE  DbType(db')
  BY <1>7, CheckpointType DEF Checkpoint
<1>8. ASSUME NEW i \in Instances, NEW at \in HeartbeatTimes, Heartbeat(i, at)
      PROVE  DbType(db')
  BY <1>8, HeartbeatType DEF Heartbeat
<1>9. ASSUME NEW now \in Times, ReclaimExpired(now)
      PROVE  DbType(db')
  BY <1>9, ReclaimType DEF ReclaimExpired
<1>10. ASSUME NEW b \in BatchIds, NEW now \in Times, PoisonBatch(b, now)
       PROVE  DbType(db')
  BY <1>10, PoisonType DEF PoisonBatch
<1>11. CASE Reinstall
  BY <1>11, RestoreType DEF Reinstall
<1> QED
  BY <1>1, <1>2, <1>3, <1>4, <1>5, <1>6, <1>7, <1>8, <1>9, <1>10, <1>11 DEF Next

(* The empty database is well-typed. *)
LEMMA InitType == Init => TypeOK
BY DEF Init, TypeOK, EmptyDb, EmptyTable, DbType, Tables, IsPartialFn

(***************************************************************************)
(* Every handler, and a snapshot installation, leaves a well-typed         *)
(* database, for any number of batches, claims, instances and any bounds.  *)
(***************************************************************************)
THEOREM TypeCorrect == Spec => []TypeOK
BY InitType, TypeStep, PTL DEF Spec

----------------------------------------------------------------------------
(* At most one claim per row *)

(* The inductive invariant.  NoDoubleClaim alone is not inductive: a grant *)
(* consults the index, so the index must mirror the claims, and it may     *)
(* overwrite the record of a claim id that exists, so that id must stand   *)
(* for the same batch and range.                                           *)
Inv == TypeOK /\ IndexMirrorsClaims /\ ClaimsAsMinted /\ NoDoubleClaim

(* The invariants of the ledger, as the lemmas about handlers say them.    *)
LEMMA InvForHandlers ==
  /\ IndexMirrorsClaims <=> Mirror(db)
  /\ NoDoubleClaim <=> Exclusive(db)
BY DEF IndexMirrorsClaims, Mirror, NoDoubleClaim, Overlapping, Exclusive, ShareRows

(* A step that adds no holder and leaves `minted` alone keeps Inv. *)
LEMMA ShrinkStep ==
  ASSUME Inv, DbType(db'), Shrinks(db, db'), UNCHANGED minted
  PROVE  Inv'
<1>1. IndexMirrorsClaims'
  BY DEF Inv, Shrinks, IndexMirrorsClaims, Mirror
<1>2. ClaimsAsMinted'
  BY DEF Inv, Shrinks, NoNewHolder, ClaimsAsMinted
<1>3. NoDoubleClaim'
  BY DEF Inv, Shrinks, NoNewHolder, NoDoubleClaim, Overlapping
<1> QED BY <1>1, <1>2, <1>3 DEF Inv, TypeOK

(* A claim command either leaves the claims alone or grants a range that   *)
(* no occupying claim overlaps.                                            *)
LEMMA ClaimStep ==
  ASSUME Inv, NEW c \in ClaimIds, NEW b \in BatchIds, NEW start \in Nat,
         NEW end \in Nat, NEW i \in Instances, NEW now \in Nat,
         ClaimRowRange(c, b, start, end, i, now)
  PROVE  Inv'
<1> DEFINE cmd == [op |-> "ClaimRowRange", batch_id |-> b, row_range_start |-> start,
                   row_range_end |-> end, claim_id |-> c, instance_id |-> i,
                   now_at_propose |-> now]
<1>1. /\ c \in DOMAIN minted => minted[c] = cmd
      /\ db' = ApplyClaimRowRange(db, cmd).db
      /\ minted' = Put(minted, c, cmd)
  BY DEF ClaimRowRange, Commit, Apply
<1>2. DbType(db) /\ Mirror(db) /\ Exclusive(db)
  BY InvForHandlers DEF Inv, TypeOK
<1>3. DbType(db')
  BY <1>1, <1>2, ClaimType
<1>4. /\ DOMAIN minted' = DOMAIN minted \cup {c}
      /\ minted'[c] = cmd
      /\ \A x \in DOMAIN minted : minted'[x] = minted[x]
  BY <1>1 DEF Put
<1>5. c \in DOMAIN db.claims => db.claims[c].batch_id = b
  BY <1>1 DEF Inv, ClaimsAsMinted
<1>6. Mirror(db') /\ Exclusive(db')
  <2>1. cmd.row_range_start \in Nat /\ cmd.row_range_end \in Nat /\ cmd.claim_id = c
        /\ cmd.batch_id = b
    OBVIOUS
  <2> HIDE DEF cmd
  <2> QED BY <1>1, <1>2, <1>5, <2>1, GrantKeeps
<1>7. IndexMirrorsClaims' /\ NoDoubleClaim'
  BY <1>6 DEF IndexMirrorsClaims, Mirror, NoDoubleClaim, Overlapping, Exclusive, ShareRows
<1>8. ClaimsAsMinted'
  <2>1. CASE db' = db
    BY <1>4, <2>1 DEF Inv, ClaimsAsMinted
  <2>2. CASE db' # db
    <3>1. /\ DOMAIN db'.claims = DOMAIN db.claims \cup {c}
          /\ db'.claims[c] = Granted(cmd)
          /\ \A x \in DOMAIN db.claims : x # c => db'.claims[x] = db.claims[x]
      <4>1. cmd.claim_id = c
        OBVIOUS
      <4> HIDE DEF cmd
      <4>2. db'.claims = Put(db.claims, c, Granted(cmd))
        BY <1>1, <1>2, <2>2, <4>1 DEF ApplyClaimRowRange, Reply, DbType, Tables, Granted
      <4> QED BY <4>2 DEF Put
    <3>2. /\ db'.claims[c].batch_id = b
          /\ db'.claims[c].row_range_start = start
          /\ db'.claims[c].row_range_end = end
          /\ db'.claims[c].instance_id = i
      BY <3>1 DEF Granted
    <3> SUFFICES ASSUME NEW x \in DOMAIN db'.claims
                 PROVE  /\ x \in DOMAIN minted'
                        /\ db'.claims[x].batch_id = minted'[x].batch_id
                        /\ db'.claims[x].row_range_start = minted'[x].row_range_start
                        /\ db'.claims[x].row_range_end = minted'[x].row_range_end
                        /\ db'.claims[x].status \in Occupying =>
                             db'.claims[x].instance_id = minted'[x].instance_id
      BY DEF ClaimsAsMinted
    <3>3. CASE x = c
      BY <3>2, <3>3, <1>4
    <3>4. CASE x # c
      BY <3>1, <3>4, <1>4 DEF Inv, ClaimsAsMinted
    <3> QED BY <3>3, <3>4
  <2> QED BY <2>1, <2>2
<1> QED BY <1>3, <1>7, <1>8 DEF Inv, TypeOK

(* Every step is a claim command, or only shrinks the set of holders. *)
LEMMA StepShape ==
  ASSUME DbType(db), [Next]_vars
  PROVE  \/ \E c \in ClaimIds, b \in BatchIds, start, end \in RowBound,
               i \in Instances, now \in Times : ClaimRowRange(c, b, start, end, i, now)
         \/ Shrinks(db, db') /\ UNCHANGED minted
<1> USE DEF Commit, Apply
<1>1. CASE UNCHANGED vars
  BY <1>1, ClaimsUntouched DEF vars
<1>2. ASSUME NEW b, NEW rows, NEW size, NEW now, RegisterMasterBatch(b, rows, size, now)
      PROVE  Shrinks(db, db') /\ UNCHANGED minted
  <2>1. db'.claims = db.claims /\ db'.index = db.index
    BY <1>2 DEF RegisterMasterBatch, ApplyRegisterMasterBatch, Reply, DbType, Tables
  <2> QED BY <1>2, <2>1, ClaimsUntouched DEF RegisterMasterBatch
<1>3. ASSUME NEW c, NEW i, NEW now, RenewClaim(c, i, now)
      PROVE  Shrinks(db, db') /\ UNCHANGED minted
  BY <1>3, RenewShrinks DEF RenewClaim
<1>4. ASSUME NEW c, NEW i, AckClaim(c, i)
      PROVE  Shrinks(db, db') /\ UNCHANGED minted
  BY <1>4, AckShrinks DEF AckClaim
<1>5. ASSUME NEW c, NEW i, ReleaseClaim(c, i)
      PROVE  Shrinks(db, db') /\ UNCHANGED minted
  BY <1>5, ReleaseShrinks DEF ReleaseClaim
<1>6. ASSUME NEW c, NEW stage, NEW payload, NEW size, Checkpoint(c, stage, payload, size)
      PROVE  Shrinks(db, db') /\ UNCHANGED minted
  <2>1. db'.claims = db.claims /\ db'.index = db.index
    BY <1>6 DEF Checkpoint, ApplyCheckpoint, Reply, DbType, Tables
  <2> QED BY <1>6, <2>1, ClaimsUntouched DEF Checkpoint
<1>7. ASSUME NEW i, NEW at, Heartbeat(i, at)
      PROVE  Shrinks(db, db') /\ UNCHANGED minted
  <2>1. db'.claims = db.claims /\ db'.index = db.index
    BY <1>7 DEF Heartbeat, ApplyHeartbeat, Reply, DbType, Tables
  <2> QED BY <1>7, <2>1, ClaimsUntouched DEF Heartbeat
<1>8. ASSUME NEW now, ReclaimExpired(now)
      PROVE  Shrinks(db, db') /\ UNCHANGED minted
  BY <1>8, ReclaimShrinks DEF ReclaimExpired
<1>9. ASSUME NEW b, NEW now, PoisonBatch(b, now)
      PROVE  Shrinks(db, db') /\ UNCHANGED minted
  <2>1. db'.claims = db.claims /\ db'.index = db.index
    BY <1>9 DEF PoisonBatch, ApplyPoisonBatch, Reply, DbType, Tables
  <2> QED BY <1>9, <2>1, ClaimsUntouched DEF PoisonBatch
<1>10. CASE Reinstall
  BY <1>10, RestoreShrinks DEF Reinstall
<1> QED
  BY <1>1, <1>2, <1>3, <1>4, <1>5, <1>6, <1>7, <1>8, <1>9, <1>10 DEF Next

(* Inv is preserved by every step. *)
LEMMA InvInductive == Inv /\ [Next]_vars => Inv'
<1> SUFFICES ASSUME Inv, [Next]_vars
             PROVE  Inv'
  OBVIOUS
<1>1. DbType(db) /\ DbType(db')
  BY TypeStep DEF Inv, TypeOK
<1>2. ASSUME NEW c \in ClaimIds, NEW b \in BatchIds, NEW start \in RowBound,
             NEW end \in RowBound, NEW i \in Instances, NEW now \in Times,
             ClaimRowRange(c, b, start, end, i, now)
      PROVE  Inv'
  BY <1>2, ClaimStep, LedgerAssumption DEF RowBound, Times
<1>3. ASSUME Shrinks(db, db'), UNCHANGED minted
      PROVE  Inv'
  BY <1>1, <1>3, ShrinkStep
<1> QED BY <1>1, <1>2, <1>3, StepShape

(* Inv holds in every reachable state. *)
LEMMA InvHolds == Spec => []Inv
<1>1. Init => Inv
  BY InitType DEF Init, Inv, EmptyDb, EmptyTable, IndexMirrorsClaims, ClaimsAsMinted,
                  NoDoubleClaim
<1> QED BY <1>1, InvInductive, PTL DEF Spec

(***************************************************************************)
(* The central promise of the partition source: at any time no row of a    *)
(* batch belongs to two claims that are Claimed or Completed, for every    *)
(* sequence of commands, replayed ClaimRowRange entries and snapshots.     *)
(***************************************************************************)
THEOREM AtMostOneClaim == Spec => []NoDoubleClaim
BY InvHolds, PTL DEF Inv

(* The secondary index, which alone decides overlaps and scans, always     *)
(* agrees with the claims table.                                           *)
THEOREM IndexIsFaithful == Spec => []IndexMirrorsClaims
BY InvHolds, PTL DEF Inv

(***************************************************************************)
(* An acked claim is final: no step, in particular no replay of its        *)
(* ClaimRowRange entry and no late release or sweep, changes its record.   *)
(***************************************************************************)
THEOREM AckedIsFinal == Spec => CompletedIsFinal
<1> DEFINE Keeps == \A c \in DOMAIN db.claims :
                      db.claims[c].status = "Completed" =>
                        c \in DOMAIN db'.claims /\ db'.claims[c] = db.claims[c]
<1>1. ASSUME Inv, [Next]_vars
      PROVE  Keeps
  <2>1. DbType(db)
    BY <1>1 DEF Inv, TypeOK
  <2>2. ASSUME NEW c, NEW b, NEW start, NEW end, NEW i, NEW now,
               ClaimRowRange(c, b, start, end, i, now)
        PROVE  Keeps
    <3> DEFINE cmd == [op |-> "ClaimRowRange", batch_id |-> b, row_range_start |-> start,
                       row_range_end |-> end, claim_id |-> c, instance_id |-> i,
                       now_at_propose |-> now]
    <3>1. /\ c \in DOMAIN minted => minted[c] = cmd
          /\ db' = ApplyClaimRowRange(db, cmd).db
      BY <2>2 DEF ClaimRowRange, Commit, Apply
    <3>2. ASSUME c \in DOMAIN db.claims, db.claims[c].status = "Completed"
          PROVE  db' = db
      <4>1. SameClaim(db.claims[c], cmd)
        BY <1>1, <3>1, <3>2 DEF Inv, ClaimsAsMinted, SameClaim, Occupying
      <4> QED BY <3>1, <3>2, <4>1 DEF ApplyClaimRowRange, Reply
    <3>3. ASSUME NEW x \in DOMAIN db.claims, x # c
          PROVE  x \in DOMAIN db'.claims /\ db'.claims[x] = db.claims[x]
      <4>1. db'.claims = db.claims \/ \E r : db'.claims = Put(db.claims, c, r)
        BY <2>1, <3>1 DEF ApplyClaimRowRange, Reply, DbType, Tables
      <4> QED BY <3>3, <4>1 DEF Put
    <3> QED BY <3>2, <3>3
  <2>3. ASSUME Shrinks(db, db')
        PROVE  Keeps
    BY <2>3 DEF Shrinks, NoNewHolder
  <2> QED BY <1>1, <2>1, <2>2, <2>3, StepShape
<1>2. Inv /\ [Next]_vars => [Keeps]_vars
  BY <1>1
<1> HIDE DEF Keeps
<1>3. Spec => [][Keeps]_vars
  BY <1>2, InvHolds, PTL DEF Spec
<1> QED BY <1>3 DEF CompletedIsFinal, Keeps

----------------------------------------------------------------------------
(* The ledger implements RowOwnership: a grant is a Grant, an ack a        *)
(* Finish, and every other command at most a GiveBack.                     *)

(* Every step is a claim, an ack, or completes nothing. *)
LEMMA StepKinds ==
  ASSUME DbType(db), [Next]_vars
  PROVE  \/ \E c \in ClaimIds, b \in BatchIds, start, end \in RowBound,
               i \in Instances, now \in Times : ClaimRowRange(c, b, start, end, i, now)
         \/ \E c \in ClaimIds, i \in Instances : AckClaim(c, i)
         \/ NoNewHolder(db, db') /\ NoNewCompleted(db, db')
<1> USE DEF Commit, Apply
<1> DEFINE Claiming == \E c \in ClaimIds, b \in BatchIds, start, end \in RowBound,
             i \in Instances, now \in Times : ClaimRowRange(c, b, start, end, i, now)
           Acking == \E c \in ClaimIds, i \in Instances : AckClaim(c, i)
<1>0. ASSUME db'.claims = db.claims
      PROVE  NoNewCompleted(db, db')
  BY <1>0 DEF NoNewCompleted
<1>1. ASSUME UNCHANGED vars
      PROVE  NoNewCompleted(db, db')
  BY <1>1, <1>0 DEF vars
<1>2. ASSUME NEW b, NEW rows, NEW size, NEW now, RegisterMasterBatch(b, rows, size, now)
      PROVE  NoNewCompleted(db, db')
  BY <1>0, <1>2 DEF RegisterMasterBatch, ApplyRegisterMasterBatch, Reply, DbType, Tables
<1>3. ASSUME NEW c, NEW i, NEW now, RenewClaim(c, i, now)
      PROVE  NoNewCompleted(db, db')
  BY <1>3, RenewCompletesNothing DEF RenewClaim
<1>5. ASSUME NEW c, NEW i, ReleaseClaim(c, i)
      PROVE  NoNewCompleted(db, db')
  BY <1>5, ReleaseCompletesNothing DEF ReleaseClaim
<1>6. ASSUME NEW c, NEW stage, NEW payload, NEW size, Checkpoint(c, stage, payload, size)
      PROVE  NoNewCompleted(db, db')
  BY <1>0, <1>6 DEF Checkpoint, ApplyCheckpoint, Reply, DbType, Tables
<1>7. ASSUME NEW i, NEW at, Heartbeat(i, at)
      PROVE  NoNewCompleted(db, db')
  BY <1>0, <1>7 DEF Heartbeat, ApplyHeartbeat, Reply, DbType, Tables
<1>8. ASSUME NEW now, ReclaimExpired(now)
      PROVE  NoNewCompleted(db, db')
  BY <1>8, ReclaimCompletesNothing DEF ReclaimExpired
<1>9. ASSUME NEW b, NEW now, PoisonBatch(b, now)
      PROVE  NoNewCompleted(db, db')
  BY <1>0, <1>9 DEF PoisonBatch, ApplyPoisonBatch, Reply, DbType, Tables
<1>10. ASSUME Reinstall
       PROVE  NoNewCompleted(db, db')
  BY <1>0, <1>10 DEF Reinstall, RestoreState, DumpState
<1>11. Claiming \/ Acking \/ NoNewCompleted(db, db')
  BY <1>1, <1>2, <1>3, <1>5, <1>6, <1>7, <1>8, <1>9, <1>10 DEF Next
<1>12. Claiming \/ NoNewHolder(db, db')
  BY StepShape DEF Shrinks
<1> QED BY <1>11, <1>12

(* A step that neither grants nor completes gives tenures back. *)
LEMMA GiveBackStep ==
  ASSUME NoNewHolder(db, db'), NoNewCompleted(db, db')
  PROVE  \E lost \in SUBSET TenuresWith("Claimed") : Ownership!GiveBack(lost)
<1>1. \A c \in DOMAIN db.claims : Tenure(c)' = Tenure(c)
  BY DEF NoNewHolder, Tenure
<1>2. DOMAIN db'.claims = DOMAIN db.claims
  BY DEF NoNewHolder
<1>3. \A c \in DOMAIN db.claims :
        /\ db'.claims[c].status = "Claimed" => db.claims[c].status = "Claimed"
        /\ db'.claims[c].status = "Completed" <=> db.claims[c].status = "Completed"
  BY DEF NoNewHolder, NoNewCompleted, Occupying
<1>4. TenuresWith("Completed")' = TenuresWith("Completed")
  BY <1>1, <1>2, <1>3 DEF TenuresWith
<1>5. TenuresWith("Claimed")' \subseteq TenuresWith("Claimed")
  BY <1>1, <1>2, <1>3 DEF TenuresWith
<1> DEFINE lost == TenuresWith("Claimed") \ TenuresWith("Claimed")'
<1>6. lost \in SUBSET TenuresWith("Claimed")
  OBVIOUS
<1>7. TenuresWith("Claimed")' = TenuresWith("Claimed") \ lost
  BY <1>5
<1> HIDE DEF lost
<1> QED BY <1>4, <1>6, <1>7 DEF Ownership!GiveBack

(* Different claims have different tenures. *)
LEMMA TenureNamesClaim ==
  ASSUME NEW c, NEW d, Tenure(c) = Tenure(d)
  PROVE  c = d
<1>1. Tenure(c).claim = c /\ Tenure(d).claim = d
  BY DEF Tenure
<1> QED BY <1>1

(* An ack finishes the one tenure it names, or changes nothing. *)
LEMMA FinishStep ==
  ASSUME DbType(db), NEW a \in ClaimIds, NEW i \in Instances, AckClaim(a, i)
  PROVE  \/ Ownership!Finish(Tenure(a)) /\ Tenure(a) \in TenuresWith("Claimed")
         \/ UNCHANGED <<TenuresWith("Claimed"), TenuresWith("Completed")>>
<1> DEFINE cmd == [op |-> "AckClaim", claim_id |-> a, instance_id |-> i]
           r == [db.claims[a] EXCEPT !.status = "Completed", !.lease_expires_at = 0]
<1>1. db' = ApplyAckClaim(db, cmd).db
  BY DEF AckClaim, Commit, Apply
<1>2. CASE HeldBy(db, a, i)
  <2>1. /\ a \in DOMAIN db.claims
        /\ db.claims[a] \in ClaimRecord
        /\ db.claims[a].status = "Claimed"
    BY <1>2 DEF HeldBy, DbType, IsPartialFn
  <2>2. /\ r.batch_id = db.claims[a].batch_id
        /\ r.row_range_start = db.claims[a].row_range_start
        /\ r.row_range_end = db.claims[a].row_range_end
        /\ r.status = "Completed"
    BY <2>1 DEF ClaimRecord
  <2>3. db'.claims = Put(db.claims, a, r)
    BY <1>1, <1>2 DEF ApplyAckClaim, Reply, DbType, Tables
  <2> HIDE DEF r
  <2>4. /\ DOMAIN db'.claims = DOMAIN db.claims
        /\ db'.claims[a] = r
        /\ \A x \in DOMAIN db.claims : x # a => db'.claims[x] = db.claims[x]
    BY <2>1, <2>3 DEF Put
  <2>5. \A x \in DOMAIN db.claims : Tenure(x)' = Tenure(x)
    <3>1. Tenure(a)' = Tenure(a)
      BY <2>2, <2>4 DEF Tenure
    <3>2. ASSUME NEW x \in DOMAIN db.claims, x # a
          PROVE  Tenure(x)' = Tenure(x)
      BY <3>2, <2>4 DEF Tenure
    <3> QED BY <3>1, <3>2
  <2>6. Tenure(a) \in TenuresWith("Claimed")
    BY <2>1 DEF TenuresWith
  <2>7. TenuresWith("Completed")' = TenuresWith("Completed") \cup {Tenure(a)}
    BY <2>1, <2>2, <2>4, <2>5 DEF TenuresWith
  <2>8. TenuresWith("Claimed")' = TenuresWith("Claimed") \ {Tenure(a)}
    <3>1. ASSUME NEW t \in TenuresWith("Claimed")'
          PROVE  t \in TenuresWith("Claimed") /\ t # Tenure(a)
      <4>1. PICK x \in DOMAIN db'.claims : db'.claims[x].status = "Claimed" /\ t = Tenure(x)'
        BY DEF TenuresWith
      <4>2. x # a /\ x \in DOMAIN db.claims
        BY <4>1, <2>2, <2>4
      <4>3. t = Tenure(x) /\ db.claims[x].status = "Claimed"
        BY <4>1, <4>2, <2>4, <2>5
      <4> QED BY <4>2, <4>3, TenureNamesClaim DEF TenuresWith
    <3>2. ASSUME NEW t \in TenuresWith("Claimed"), t # Tenure(a)
          PROVE  t \in TenuresWith("Claimed")'
      <4>1. PICK x \in DOMAIN db.claims : db.claims[x].status = "Claimed" /\ t = Tenure(x)
        BY DEF TenuresWith
      <4>2. x # a
        BY <4>1, <3>2
      <4>3. x \in DOMAIN db'.claims /\ db'.claims[x].status = "Claimed" /\ t = Tenure(x)'
        BY <4>1, <4>2, <2>4, <2>5
      <4> QED BY <4>3 DEF TenuresWith
    <3> QED BY <3>1, <3>2
  <2> QED BY <2>6, <2>7, <2>8 DEF Ownership!Finish
<1>3. CASE ~HeldBy(db, a, i)
  <2>1. db' = db
    BY <1>1, <1>3 DEF ApplyAckClaim, Reply
  <2> QED BY <2>1 DEF TenuresWith, Tenure
<1> QED BY <1>2, <1>3

(* A claim command grants a free range under an id that is not in use, or  *)
(* leaves all tenures as they are.                                         *)
LEMMA GrantStep ==
  ASSUME Inv, NEW c \in ClaimIds, NEW b \in BatchIds, NEW start \in RowBound,
         NEW end \in RowBound, NEW i \in Instances, NEW now \in Nat,
         ClaimRowRange(c, b, start, end, i, now)
  PROVE  \/ Ownership!Grant([claim |-> c, batch |-> b, start |-> start, end |-> end])
         \/ UNCHANGED <<TenuresWith("Claimed"), TenuresWith("Completed")>>
<1> DEFINE cmd == [op |-> "ClaimRowRange", batch_id |-> b, row_range_start |-> start,
                   row_range_end |-> end, claim_id |-> c, instance_id |-> i,
                   now_at_propose |-> now]
           r == [batch_id |-> b, row_range_start |-> start, row_range_end |-> end,
                 instance_id |-> i, lease_expires_at |-> now + LeaseTtl,
                 status |-> "Claimed"]
           t == [claim |-> c, batch |-> b, start |-> start, end |-> end]
<1>1. /\ c \in DOMAIN minted => minted[c] = cmd
      /\ db' = ApplyClaimRowRange(db, cmd).db
  BY DEF ClaimRowRange, Commit, Apply
<1>2. DbType(db) /\ Mirror(db) /\ start \in Nat /\ end \in Nat
  BY LedgerAssumption DEF Inv, TypeOK, IndexMirrorsClaims, Mirror, RowBound
<1>3. CASE db' = db
  BY <1>3 DEF TenuresWith, Tenure
<1>4. CASE db' # db
  <2>1. /\ start < end
        /\ ~(c \in DOMAIN db.claims /\ SameClaim(db.claims[c], cmd))
        /\ ~HasBatchOverlap(db, b, start, end)
        /\ db'.claims = Put(db.claims, c, r)
    BY <1>1, <1>2, <1>4 DEF ApplyClaimRowRange, Reply, DbType, Tables
  <2>2. /\ DOMAIN db'.claims = DOMAIN db.claims \cup {c}
        /\ db'.claims[c] = r
        /\ \A x \in DOMAIN db.claims : x # c => db'.claims[x] = db.claims[x]
    BY <2>1 DEF Put
  <2>3. c \in DOMAIN db.claims => db.claims[c].status \notin Occupying
    BY <1>1, <2>1 DEF Inv, ClaimsAsMinted, SameClaim
  <2>4. Tenure(c)' = t
    BY <2>2 DEF Tenure
  <2>5. ASSUME NEW x \in DOMAIN db.claims, x # c
        PROVE  Tenure(x)' = Tenure(x)
    BY <2>2, <2>5 DEF Tenure
  <2>6. TenuresWith("Claimed")' = TenuresWith("Claimed") \cup {t}
    BY <2>2, <2>3, <2>4, <2>5 DEF TenuresWith, Occupying
  <2>7. TenuresWith("Completed")' = TenuresWith("Completed")
    BY <2>2, <2>3, <2>5 DEF TenuresWith, Occupying
  <2>8. ASSUME NEW u \in TenuresWith("Claimed") \cup TenuresWith("Completed")
        PROVE  u.claim # t.claim /\ Ownership!Rows(u) \cap Ownership!Rows(t) = {}
    <3>1. PICK x \in DOMAIN db.claims : db.claims[x].status \in Occupying /\ u = Tenure(x)
      BY DEF TenuresWith, Occupying
    <3>2. x # c
      BY <3>1, <2>3
    <3>3. /\ u.claim = x
          /\ u.batch = db.claims[x].batch_id
          /\ u.start = db.claims[x].row_range_start
          /\ u.end = db.claims[x].row_range_end
      BY <3>1 DEF Tenure
    <3>4. u.start \in Nat /\ u.end \in Nat
      BY <3>3, <1>2 DEF DbType, IsPartialFn, ClaimRecord
    <3>5. u.batch = b => ~(start < u.end /\ end > u.start)
      <4> DEFINE k == <<db.claims[x].batch_id, x>>
      <4>1. /\ k \in DOMAIN db.index
            /\ db.index[k] = [start |-> u.start, end |-> u.end,
                              status |-> db.claims[x].status]
        BY <1>2, <3>3 DEF Mirror
      <4> QED BY <4>1, <3>1, <3>3, <2>1 DEF HasBatchOverlap, EntriesOf
    <3>6. Ownership!Rows(u) \cap Ownership!Rows(t) = {}
      <4> SUFFICES ASSUME NEW row, row \in Ownership!Rows(u), row \in Ownership!Rows(t)
                   PROVE  FALSE
        OBVIOUS
      <4>1. PICK m \in u.start..(u.end - 1) : row = <<u.batch, m>>
        BY DEF Ownership!Rows
      <4>2. PICK n \in start..(end - 1) : row = <<b, n>>
        BY DEF Ownership!Rows
      <4>3. m = n /\ u.batch = b
        BY <4>1, <4>2
      <4> QED BY <4>3, <3>4, <3>5, <1>2
    <3> QED BY <3>2, <3>3, <3>6
  <2> QED BY <2>1, <2>6, <2>7, <2>8 DEF Ownership!Grant
<1> QED BY <1>3, <1>4

(***************************************************************************)
(* The state machine implements exclusive row ownership, for every number  *)
(* of batches, claims and instances: every command, replay of a claim      *)
(* entry and snapshot installation grants free rows, finishes held ones,   *)
(* gives rows back, or leaves all rows where they are.                     *)
(***************************************************************************)
THEOREM LedgerImplementsOwnership == Spec => ImplementsRowOwnership
<1>1. Init => Ownership!Init
  BY DEF Init, EmptyDb, EmptyTable, Ownership!Init, TenuresWith
<1>2. Inv /\ [Next]_vars
        => [Ownership!Next]_<<TenuresWith("Claimed"), TenuresWith("Completed")>>
  <2> SUFFICES ASSUME Inv, [Next]_vars
               PROVE  [Ownership!Next]_<<TenuresWith("Claimed"), TenuresWith("Completed")>>
    OBVIOUS
  <2>1. DbType(db)
    BY DEF Inv, TypeOK
  <2>2. ASSUME NEW c \in ClaimIds, NEW b \in BatchIds, NEW start \in RowBound,
               NEW end \in RowBound, NEW i \in Instances, NEW now \in Times,
               ClaimRowRange(c, b, start, end, i, now)
        PROVE  [Ownership!Next]_<<TenuresWith("Claimed"), TenuresWith("Completed")>>
    <3> DEFINE t == [claim |-> c, batch |-> b, start |-> start, end |-> end]
    <3>1. t \in [claim : ClaimIds, batch : BatchIds, start : RowBound, end : RowBound]
      OBVIOUS
    <3>2. now \in Nat
      BY LedgerAssumption DEF Times
    <3>3. \/ Ownership!Grant(t)
          \/ UNCHANGED <<TenuresWith("Claimed"), TenuresWith("Completed")>>
      BY <2>2, <3>2, GrantStep
    <3> HIDE DEF t
    <3> QED BY <3>1, <3>3 DEF Ownership!Next
  <2>3. ASSUME NEW c \in ClaimIds, NEW i \in Instances, AckClaim(c, i)
        PROVE  [Ownership!Next]_<<TenuresWith("Claimed"), TenuresWith("Completed")>>
    BY <2>1, <2>3, FinishStep DEF Ownership!Next
  <2>4. ASSUME NoNewHolder(db, db'), NoNewCompleted(db, db')
        PROVE  [Ownership!Next]_<<TenuresWith("Claimed"), TenuresWith("Completed")>>
    BY <2>4, GiveBackStep DEF Ownership!Next
  <2> QED BY <2>1, <2>2, <2>3, <2>4, StepKinds
<1> QED
  BY <1>1, <1>2, InvHolds, PTL DEF Spec, ImplementsRowOwnership, Ownership!Spec

----------------------------------------------------------------------------
(* The checkpoint sequence *)

Written(d, e, b) ==
  {k \in DOMAIN e.checkpoints : /\ e.checkpoints[k].batch_id = b
                                /\ k \in DOMAIN d.checkpoints =>
                                     e.checkpoints[k] # d.checkpoints[k]}

SeqExact(d, e) ==
  \A b \in DOMAIN d.batches :
    IF Written(d, e, b) = {}
    THEN e.batches[b].checkpoint_seq \in {0, d.batches[b].checkpoint_seq}
    ELSE /\ Cardinality(Written(d, e, b)) = 1
         /\ e.batches[b].checkpoint_seq = d.batches[b].checkpoint_seq + 1

(* Commands that write no checkpoint leave the sequences alone. *)
LEMMA QuietSeq ==
  ASSUME NEW d, NEW e, e.checkpoints = d.checkpoints,
         \A b \in DOMAIN d.batches :
           e.batches[b].checkpoint_seq \in {0, d.batches[b].checkpoint_seq}
  PROVE  SeqExact(d, e)
<1>1. \A b : Written(d, e, b) = {}
  BY DEF Written
<1> QED BY <1>1 DEF SeqExact

(* A checkpoint either is there already or counts once. *)
LEMMA CheckpointSeq ==
  ASSUME NEW d, DbType(d), NEW cmd
  PROVE  SeqExact(d, ApplyCheckpoint(d, cmd).db)
<1> DEFINE e == ApplyCheckpoint(d, cmd).db
           key == <<cmd.claim_id, cmd.stage_idx>>
           b0 == d.claims[cmd.claim_id].batch_id
           v == [batch_id |-> b0, payload |-> cmd.payload]
<1>1. CASE e = d
  BY <1>1, QuietSeq
<1>2. CASE e # d
  <2>1. /\ e.checkpoints = Put(d.checkpoints, key, v)
        /\ e.batches = IF b0 \in DOMAIN d.batches
                       THEN Put(d.batches, b0, [d.batches[b0] EXCEPT !.checkpoint_seq = @ + 1])
                       ELSE d.batches
        /\ key \in DOMAIN d.checkpoints => d.checkpoints[key].payload # cmd.payload
    BY <1>2 DEF ApplyCheckpoint, Reply, DbType, Tables
  <2>2. v.batch_id = b0 /\ v.payload = cmd.payload
    OBVIOUS
  <2> HIDE DEF e, key, v, b0
  <2>3. \A b : Written(d, e, b) = IF b = b0 THEN {key} ELSE {}
    BY <2>1, <2>2 DEF Written, Put
  <2>4. Cardinality({key}) = 1
    BY FS_Singleton
  <2>5. \A b \in DOMAIN d.batches :
          e.batches[b].checkpoint_seq =
            IF b = b0 THEN d.batches[b].checkpoint_seq + 1 ELSE d.batches[b].checkpoint_seq
    <3>1. \A b \in DOMAIN d.batches : d.batches[b] \in MasterBatchRecord
      BY DEF DbType, IsPartialFn
    <3> QED BY <2>1, <3>1 DEF Put, MasterBatchRecord
  <2>6. SeqExact(d, e)
    BY <2>3, <2>4, <2>5 DEF SeqExact
  <2> QED BY <2>6 DEF e
<1> QED BY <1>1, <1>2

(* Release counters do not touch the sequences. *)
LEMMA CountersKeepSeq ==
  ASSUME NEW d, DbType(d)
  PROVE  /\ \A lost : \A b \in DOMAIN d.batches :
              IncrementReleaseAttempts(d, lost)[b].checkpoint_seq = d.batches[b].checkpoint_seq
         /\ \A x : \A b \in DOMAIN d.batches :
              ResetReleaseAttempts(d.batches, x)[b].checkpoint_seq = d.batches[b].checkpoint_seq
<1>1. \A b \in DOMAIN d.batches : d.batches[b] \in MasterBatchRecord
  BY DEF DbType, IsPartialFn
<1>2. ASSUME NEW b \in DOMAIN d.batches, NEW n
      PROVE  [d.batches[b] EXCEPT !.release_attempts = n].checkpoint_seq = d.batches[b].checkpoint_seq
  BY <1>1 DEF MasterBatchRecord
<1> QED BY <1>2 DEF IncrementReleaseAttempts, ResetReleaseAttempts

(* Every other command leaves the checkpoints alone, and the sequences     *)
(* too, unless it registers a batch again.                                 *)
LEMMA ApplySeq ==
  ASSUME NEW d, DbType(d), NEW cmd,
         cmd.op \in {"RegisterMasterBatch", "ClaimRowRange", "RenewClaim", "AckClaim",
                     "ReleaseClaim", "Heartbeat", "ReclaimExpired", "PoisonBatch"}
  PROVE  SeqExact(d, Apply(d, cmd).db)
<1> DEFINE e == Apply(d, cmd).db
<1> SUFFICES /\ e.checkpoints = d.checkpoints
             /\ \A b \in DOMAIN d.batches :
                  e.batches[b].checkpoint_seq \in {0, d.batches[b].checkpoint_seq}
  BY QuietSeq
<1>0. \A b \in DOMAIN d.batches : d.batches[b] \in MasterBatchRecord
  BY DEF DbType, IsPartialFn
<1>1. CASE cmd.op = "RegisterMasterBatch"
  BY <1>1 DEF Apply, ApplyRegisterMasterBatch, Reply, DbType, Tables, Put
<1>2. CASE cmd.op = "ClaimRowRange"
  BY <1>2 DEF Apply, ApplyClaimRowRange, Reply, DbType, Tables
<1>3. CASE cmd.op = "RenewClaim"
  BY <1>3 DEF Apply, ApplyRenewClaim, Reply, DbType, Tables
<1>4. CASE cmd.op = "AckClaim"
  <2>1. e.batches = d.batches \/ \E x : e.batches = ResetReleaseAttempts(d.batches, x)
    BY <1>4 DEF Apply, ApplyAckClaim, Reply, DbType, Tables
  <2>2. e.checkpoints = d.checkpoints
    BY <1>4 DEF Apply, ApplyAckClaim, Reply, DbType, Tables
  <2> HIDE DEF e
  <2> QED BY <2>1, <2>2, CountersKeepSeq
<1>5. CASE cmd.op = "ReleaseClaim"
  <2>1. e.batches = d.batches \/ \E x : e.batches = IncrementReleaseAttempts(d, x)
    BY <1>5 DEF Apply, ApplyReleaseClaim, Reply, DbType, Tables
  <2>2. e.checkpoints = d.checkpoints
    BY <1>5 DEF Apply, ApplyReleaseClaim, Reply, DbType, Tables
  <2> HIDE DEF e
  <2> QED BY <2>1, <2>2, CountersKeepSeq
<1>6. CASE cmd.op = "Heartbeat"
  BY <1>6 DEF Apply, ApplyHeartbeat, Reply, DbType, Tables
<1>7. CASE cmd.op = "ReclaimExpired"
  <2>1. e.batches = d.batches \/ \E x : e.batches = IncrementReleaseAttempts(d, x)
    BY <1>7 DEF Apply, ApplyReclaimExpired, Reply, DbType, Tables
  <2>2. e.checkpoints = d.checkpoints
    BY <1>7 DEF Apply, ApplyReclaimExpired, Reply, DbType, Tables
  <2> HIDE DEF e
  <2> QED BY <2>1, <2>2, CountersKeepSeq
<1>8. CASE cmd.op = "PoisonBatch"
  <2>1. \/ e.batches = d.batches
        \/ e.batches = Put(d.batches, cmd.batch_id,
                           [d.batches[cmd.batch_id] EXCEPT !.status = "Poisoned",
                                                           !.poisoned_at = cmd.now_at_propose])
    BY <1>8 DEF Apply, ApplyPoisonBatch, Reply, DbType, Tables
  <2>2. e.checkpoints = d.checkpoints
    BY <1>8 DEF Apply, ApplyPoisonBatch, Reply, DbType, Tables
  <2> HIDE DEF e
  <2>3. ASSUME NEW b \in DOMAIN d.batches
        PROVE  [d.batches[b] EXCEPT !.status = "Poisoned",
                                    !.poisoned_at = cmd.now_at_propose].checkpoint_seq
                 = d.batches[b].checkpoint_seq
    BY <1>0 DEF MasterBatchRecord
  <2>4. ASSUME NEW b \in DOMAIN d.batches
        PROVE  e.batches[b].checkpoint_seq = d.batches[b].checkpoint_seq
    <3>1. CASE b = cmd.batch_id
      BY <2>1, <2>3, <3>1 DEF Put
    <3>2. CASE b # cmd.batch_id
      BY <2>1, <3>2 DEF Put
    <3> QED BY <3>1, <3>2
  <2> QED BY <2>2, <2>4
<1> QED BY <1>1, <1>2, <1>3, <1>4, <1>5, <1>6, <1>7, <1>8

(* The sequence of a batch counts the checkpoints written: one more for    *)
(* each write that changes something, none for a repeated command.         *)
THEOREM SequenceCountsWrites == Spec => CheckpointSeqExact
<1> DEFINE Exact == \A b \in DOMAIN db.batches :
              LET written == {k \in DOMAIN db'.checkpoints :
                                /\ db'.checkpoints[k].batch_id = b
                                /\ k \in DOMAIN db.checkpoints =>
                                     db'.checkpoints[k] # db.checkpoints[k]}
                  old == db.batches[b].checkpoint_seq
                  new == db'.batches[b].checkpoint_seq
              IN  IF written = {} THEN new \in {0, old}
                  ELSE Cardinality(written) = 1 /\ new = old + 1
<1>1. SeqExact(db, db') => Exact
  BY DEF SeqExact, Written
<1>2. ASSUME DbType(db), [Next]_vars
      PROVE  SeqExact(db, db')
  <2>1. ASSUME NEW cmd, db' = Apply(db, cmd).db,
               cmd.op \in {"RegisterMasterBatch", "ClaimRowRange", "RenewClaim", "AckClaim",
                           "ReleaseClaim", "Heartbeat", "ReclaimExpired", "PoisonBatch"}
        PROVE  SeqExact(db, db')
    BY <1>2, <2>1, ApplySeq
  <2>2. CASE UNCHANGED vars \/ Reinstall
    <3>1. db'.checkpoints = db.checkpoints /\ db'.batches = db.batches
      BY <2>2 DEF vars, Reinstall, RestoreState, DumpState
    <3> QED BY <3>1, QuietSeq
  <2>3. ASSUME NEW c, NEW stage, NEW payload, NEW size, Checkpoint(c, stage, payload, size)
        PROVE  SeqExact(db, db')
    <3> DEFINE cmd == [op |-> "Checkpoint", claim_id |-> c, stage_idx |-> stage,
                       payload |-> payload, size |-> size]
    <3>1. db' = ApplyCheckpoint(db, cmd).db
      BY <2>3 DEF Checkpoint, Commit, Apply
    <3> QED BY <1>2, <3>1, CheckpointSeq
  <2>4. CASE \/ \E b \in BatchIds, rows \in RowCounts, size \in Sizes, now \in Times :
                  RegisterMasterBatch(b, rows, size, now)
             \/ \E c \in ClaimIds, b \in BatchIds, start, end \in RowBound,
                   i \in Instances, now \in Times : ClaimRowRange(c, b, start, end, i, now)
             \/ \E c \in ClaimIds, i \in Instances, now \in Times : RenewClaim(c, i, now)
    <3>1. ASSUME NEW b, NEW rows, NEW size, NEW now, RegisterMasterBatch(b, rows, size, now)
          PROVE  SeqExact(db, db')
      BY <2>1, <3>1 DEF RegisterMasterBatch, Commit
    <3>2. ASSUME NEW c, NEW b, NEW start, NEW end, NEW i, NEW now,
                 ClaimRowRange(c, b, start, end, i, now)
          PROVE  SeqExact(db, db')
      BY <2>1, <3>2 DEF ClaimRowRange, Commit
    <3>3. ASSUME NEW c, NEW i, NEW now, RenewClaim(c, i, now)
          PROVE  SeqExact(db, db')
      BY <2>1, <3>3 DEF RenewClaim, Commit
    <3> QED BY <2>4, <3>1, <3>2, <3>3
  <2>5. CASE \/ \E c \in ClaimIds, i \in Instances : AckClaim(c, i)
             \/ \E c \in ClaimIds, i \in Instances : ReleaseClaim(c, i)
             \/ \E i \in Instances, at \in HeartbeatTimes : Heartbeat(i, at)
             \/ \E now \in Times : ReclaimExpired(now)
             \/ \E b \in BatchIds, now \in Times : PoisonBatch(b, now)
    BY <2>1, <2>5 DEF AckClaim, ReleaseClaim, Heartbeat, ReclaimExpired, PoisonBatch, Commit
  <2> QED BY <1>2, <2>2, <2>3, <2>4, <2>5 DEF Next
<1>3. TypeOK /\ [Next]_vars => [Exact]_vars
  BY <1>1, <1>2 DEF TypeOK
<1> QED BY <1>3, TypeCorrect, PTL DEF Spec, CheckpointSeqExact
=============================================================================
