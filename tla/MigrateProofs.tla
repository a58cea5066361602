----------------------------- MODULE MigrateProofs -----------------------------
(***************************************************************************)
(* For any runs and releases: every file takes effect once and in order,   *)
(* with the advisory lock or without it; with the lock, no run fails over  *)
(* another; and the runs implement the abstract ledger.                    *)
(***************************************************************************)
EXTENDS MigrateInvariant, TLAPS

(* The steps that neither touch a transaction nor what is on record.       *)
Quiet(r) ==
    Acquire(r) \/ AcquireFails(r) \/ CreateTable(r) \/ Check(r) \/ NoneLeft(r) \/ Unlock(r)

(* A file of a release is a version, and a number.                         *)
LEMMA FilesAreVersions ==
    /\ Versions \subseteq Nat
    /\ \A r \in Runs : Files[r] \subseteq Versions
  BY MigrateAssumption DEF Versions

(* The invariant holds before the first statement.                         *)
LEMMA InitIInv == Init => IInv /\ LockInv
<1> SUFFICES ASSUME Init PROVE IInv /\ LockInv
  OBVIOUS
<1> USE DEF Init, Free
<1>1. TypeOK
  BY MigrateAssumption, FilesAreVersions DEF TypeOK, Versions
<1>2. TxFits /\ InsertsDiffer
  BY DEF TxFits, InsertsDiffer, Ended
<1>3. InOrder
  BY DEF InOrder, AtFile
<1>4. AppliedOnce /\ ClaimsTruthful
  BY DEF AppliedOnce, ClaimsTruthful
<1>5. LockInv
  BY MigrateAssumption DEF LockInv, AtFile
<1> QED BY <1>1, <1>2, <1>3, <1>4, <1>5 DEF IInv

(* The quiet steps keep the invariant.                                     *)
LEMMA QuietStep ==
    ASSUME IInv, NEW r \in Runs, Quiet(r)
    PROVE  IInv'
<1> USE DEF IInv, Goto, Return
<1>1. TypeOK'
  <2> USE DEF TypeOK, Ended
  <2>1. CASE Acquire(r)
    <3>1. PICK b \in SessionsOf(r) :
            lock.holder \in {b, NoSession} /\ lock' = [holder |-> b, depth |-> lock.depth + 1]
      BY <2>1 DEF Acquire
    <3>2. lock.depth \in Nat /\ b \in Runs \cup Sessions
      BY <3>1 DEF SessionsOf, Free
    <3>3. lock' \in [holder : Runs \cup Sessions, depth : Nat \ {0}]
      BY <3>1, <3>2
    <3> QED BY <2>1, <3>3 DEF Acquire
  <2>2. CASE AcquireFails(r) \/ CreateTable(r) \/ NoneLeft(r)
    BY <2>2 DEF AcquireFails, CreateTable, NoneLeft
  <2>3. CASE Check(r)
    BY <2>3, FilesAreVersions DEF Check, Least
  <2>4. CASE Unlock(r)
    <3>1. PICK b \in SessionsOf(r) :
            lock' = IF lock.holder # b THEN lock
                    ELSE IF lock.depth = 1 THEN Free
                    ELSE [lock EXCEPT !.depth = @ - 1]
      BY <2>4 DEF Unlock
    <3>2. b \in Runs \cup Sessions /\ b # NoSession
      BY <3>1, MigrateAssumption DEF SessionsOf
    <3>3. CASE lock.holder = b /\ lock.depth # 1
      <4>1. lock \in [holder : Runs \cup Sessions, depth : Nat \ {0}]
        BY <3>2, <3>3 DEF Free
      <4> QED BY <2>4, <3>1, <3>3, <4>1 DEF Unlock
    <3>4. CASE ~(lock.holder = b /\ lock.depth # 1)
      BY <2>4, <3>1, <3>4 DEF Unlock
    <3> QED BY <3>3, <3>4
  <2> QED BY <2>1, <2>2, <2>3, <2>4 DEF Quiet
<1> HIDE DEF IInv
<1> USE DEF Quiet, Acquire, AcquireFails, CreateTable, NoneLeft, Unlock
<1>2. TxFits'
  BY DEF IInv, TypeOK, TxFits, Ended, Check
<1>3. InOrder'
  <2>1. CASE Check(r)
    <3>1. PICK v \in Least(todo[r]) :
            IF v \in recorded
              THEN /\ todo' = [todo EXCEPT ![r] = @ \ {v}]
                   /\ UNCHANGED <<pc, cur>>
              ELSE /\ cur' = [cur EXCEPT ![r] = v]
                   /\ Goto(r, "apply")
                   /\ UNCHANGED todo
      BY <2>1 DEF Check
    <3>2. v \in todo[r] /\ v \in Files[r] /\ todo[r] \subseteq Nat
      BY <3>1, FilesAreVersions DEF Least, IInv, InOrder
    <3>3. \A w \in Files[r] : w < v => w \in recorded
      BY <3>1, <3>2, FilesAreVersions DEF Least, IInv, InOrder
    <3>4. pc[r] = "check" /\ tx[r] = "none" /\ UNCHANGED <<tx, recorded, report>>
      BY <2>1 DEF Check, IInv, TxFits
    <3>5. CASE v \in recorded
      BY <3>1, <3>2, <3>4, <3>5 DEF IInv, TypeOK, InOrder, AtFile, Running
    <3>6. CASE v \notin recorded
      BY <3>1, <3>2, <3>3, <3>4, <3>6 DEF IInv, TypeOK, InOrder, AtFile, Running
    <3> QED BY <3>5, <3>6
  <2>2. CASE ~Check(r)
    BY <2>2 DEF IInv, TypeOK, InOrder, AtFile, Running
  <2> QED BY <2>1, <2>2
<1>4. InsertsDiffer'
  BY DEF IInv, TypeOK, InsertsDiffer, TxFits, Check
<1>5. AppliedOnce' /\ ClaimsTruthful'
  BY DEF IInv, AppliedOnce, ClaimsTruthful, Check
<1> QED BY <1>1, <1>2, <1>3, <1>4, <1>5 DEF IInv

(* So do the steps inside a transaction that do not decide it.             *)
LEMMA TransactionStep ==
    ASSUME IInv, NEW r \in Runs,
           \/ Apply(r) \/ InsertVersion(r) \/ InsertConflicts(r)
           \/ StatementFails(r) \/ ConnectionLost(r) \/ Kill(r)
    PROVE  IInv'
<1> USE DEF Goto, Return
<1>1. /\ UNCHANGED <<todo, cur, claimed, closed, lock, recorded, effects>>
      /\ pc[r] \notin Ended
      /\ \/ pc' = [pc EXCEPT ![r] = "record"] /\ pc[r] = "apply"
         \/ pc' = [pc EXCEPT ![r] = "commit"] /\ pc[r] = "record"
         \/ pc' = [pc EXCEPT ![r] = "unlock"]
         \/ pc' = [pc EXCEPT ![r] = "done"]
         \/ pc' = [pc EXCEPT ![r] = "killed"]
      /\ report' = report \/ report' = [report EXCEPT ![r] = "error"]
      /\ pc'[r] = "unlock" \/ pc'[r] = "done" \/ pc'[r] = "killed" \/ report' = report
      /\ \E t \in {"none", "applied", "inserted", "committing"} : tx' = [tx EXCEPT ![r] = t]
  BY DEF Apply, InsertVersion, InsertConflicts, StatementFails, ConnectionLost, Kill,
         Lingering, IInv, TypeOK, Ended
<1>2. tx'[r] \in {"inserted", "committing"} => tx[r] = "inserted" \/ MayRecord(r)
  BY DEF Apply, InsertVersion, InsertConflicts, StatementFails, ConnectionLost, Kill,
         Lingering, IInv, TypeOK, TxFits, Ended
<1>3. tx'[r] # "none" => pc[r] \in AtFile
  BY DEF Apply, InsertVersion, InsertConflicts, StatementFails, ConnectionLost, Kill,
         Lingering, IInv, TypeOK, TxFits, Ended, AtFile
<1>4. TypeOK'
  BY <1>1 DEF IInv, TypeOK, Ended
<1>5. TxFits'
  <2>1. /\ pc'[r] = "unlock" => tx'[r] = "none"
        /\ pc'[r] = "record" => tx'[r] = "applied"
        /\ pc'[r] = "commit" => tx'[r] = "inserted"
    BY DEF Apply, InsertVersion, InsertConflicts, StatementFails, ConnectionLost, Kill,
           IInv, TypeOK
  <2>2. pc'[r] \in {"record", "commit", "unlock", "done", "killed"} /\ r \notin closed
    BY <1>1 DEF IInv, TypeOK, TxFits
  <2> QED BY <1>1, <2>1, <2>2 DEF IInv, TypeOK, TxFits, Ended
<1>6. InOrder'
  BY <1>1, <1>3 DEF IInv, TypeOK, InOrder, AtFile, Running
<1>7. InsertsDiffer'
  BY <1>1, <1>2 DEF IInv, TypeOK, InsertsDiffer, MayRecord
<1>8. AppliedOnce' /\ ClaimsTruthful'
  BY <1>1 DEF IInv, AppliedOnce, ClaimsTruthful
<1> QED BY <1>4, <1>5, <1>6, <1>7, <1>8 DEF IInv

(* A transaction that takes effect is the first and only one of its file.  *)
LEMMA EffectOf ==
    ASSUME IInv, NEW r \in Runs, tx[r] \in {"inserted", "committing"}, TakesEffect(r),
           tx' = [tx EXCEPT ![r] = "none"], UNCHANGED cur
    PROVE  /\ cur[r] \in Files[r] /\ cur[r] \in Versions /\ cur[r] \notin recorded
           /\ recorded' = recorded \cup {cur[r]}
           /\ recorded' \subseteq Versions
           /\ effects' = [effects EXCEPT ![cur[r]] = 1]
           /\ effects' \in [Versions -> Nat]
           /\ AppliedOnce' /\ InsertsDiffer'
<1>1. cur[r] \in Files[r] /\ cur[r] \in Versions /\ cur[r] \notin recorded
  BY FilesAreVersions DEF IInv, InOrder, InsertsDiffer
<1>2. effects[cur[r]] = 0
  BY <1>1 DEF IInv, AppliedOnce
<1>3. effects' = [effects EXCEPT ![cur[r]] = 1]
  BY <1>1, <1>2 DEF TakesEffect
<1>4. AppliedOnce'
  BY <1>1, <1>3 DEF IInv, TypeOK, AppliedOnce, TakesEffect, Versions
<1>5. InsertsDiffer'
  BY <1>1 DEF IInv, TypeOK, InsertsDiffer, TakesEffect
<1>6. recorded' = recorded \cup {cur[r]} /\ recorded' \subseteq Versions
  BY <1>1 DEF TakesEffect, IInv, TypeOK
<1>7. effects' \in [Versions -> Nat]
  BY <1>1, <1>3 DEF IInv, TypeOK
<1> QED BY <1>1, <1>3, <1>4, <1>5, <1>6, <1>7

(* A commit the run sees keeps the invariant.                              *)
LEMMA CommitStep ==
    ASSUME IInv, NEW r \in Runs, Commit(r)
    PROVE  IInv'
<1> USE DEF Commit, Goto
<1>1. tx[r] = "inserted"
  BY DEF IInv, TxFits
<1>2. /\ cur[r] \in Files[r] /\ cur[r] \in Versions /\ cur[r] \notin recorded
      /\ recorded' = recorded \cup {cur[r]}
      /\ recorded' \subseteq Versions
      /\ effects' \in [Versions -> Nat]
      /\ AppliedOnce' /\ InsertsDiffer'
  BY <1>1, EffectOf
<1>3. TypeOK'
  BY <1>2 DEF IInv, TypeOK, Ended
<1>4. TxFits'
  BY DEF IInv, TypeOK, TxFits, Ended
<1>5. InOrder'
  BY <1>1, <1>2 DEF IInv, TypeOK, InOrder, AtFile, Running
<1>6. ClaimsTruthful'
  BY <1>2 DEF IInv, TypeOK, ClaimsTruthful
<1> QED BY <1>2, <1>3, <1>4, <1>5, <1>6 DEF IInv

(* So does the end of a session, commit or rollback.                       *)
LEMMA SessionStep ==
    ASSUME IInv, NEW r \in Runs, SessionEnds(r)
    PROVE  IInv'
<1> USE DEF SessionEnds
<1>1. /\ recorded \subseteq recorded' /\ recorded' \subseteq Versions
      /\ effects' \in [Versions -> Nat]
      /\ AppliedOnce' /\ InsertsDiffer'
  <2>1. CASE tx[r] = "committing"
    BY <2>1, EffectOf
  <2>2. CASE tx[r] # "committing"
    BY <2>2 DEF IInv, TypeOK, AppliedOnce, InsertsDiffer
  <2> QED BY <2>1, <2>2
<1>2. TypeOK'
  BY <1>1 DEF IInv, TypeOK, Free
<1>3. TxFits'
  <2>1. pc' = pc /\ pc[r] \in Ended /\ closed' = closed \cup {r}
    OBVIOUS
  <2>2. \A s \in Runs : tx'[s] = IF s = r THEN "none" ELSE tx[s]
    BY DEF IInv, TypeOK
  <2> QED BY <2>1, <2>2 DEF IInv, TxFits, Ended
<1>4. InOrder'
  BY <1>1 DEF IInv, TypeOK, InOrder
<1>5. ClaimsTruthful'
  BY <1>1 DEF IInv, ClaimsTruthful
<1> QED BY <1>1, <1>2, <1>3, <1>4, <1>5 DEF IInv

(* The invariant is inductive.                                             *)
LEMMA NextIInv == IInv /\ [Next]_vars => IInv'
<1> SUFFICES ASSUME IInv, [Next]_vars PROVE IInv'
  OBVIOUS
<1>1. CASE UNCHANGED vars
  BY <1>1 DEF vars, IInv, TypeOK, TxFits, InOrder, InsertsDiffer, AppliedOnce, ClaimsTruthful
<1> QED
  BY <1>1, QuietStep, TransactionStep, CommitStep, SessionStep DEF Next, Proceeds, Fails, Quiet

(* The strengthened invariant holds in every reachable state.              *)
THEOREM Invariance == Spec => []IInv
  BY InitIInv, NextIInv, PTL DEF Spec

(* Every file takes effect exactly when it is recorded, and never twice:   *)
(* through a pooler, where the lock guards nothing, as well.               *)
THEOREM FilesAppliedOnce == Spec => []AppliedOnce
<1>1. IInv => AppliedOnce
  BY DEF IInv
<1> QED BY <1>1, Invariance, PTL

(* What runs report as applied is on record and reported once.             *)
THEOREM ClaimsAreTrue == Spec => []ClaimsTruthful
<1>1. IInv => ClaimsTruthful
  BY DEF IInv
<1> QED BY <1>1, Invariance, PTL

(* A file on record comes after the earlier files of some release.         *)
THEOREM FilesInOrder == Spec => []AppliedInOrder
<1>1. Init => AppliedInOrder
  BY DEF Init, AppliedInOrder
<1>2. IInv /\ AppliedInOrder /\ [Next]_vars => AppliedInOrder'
  <2> SUFFICES ASSUME IInv, AppliedInOrder, [Next]_vars PROVE AppliedInOrder'
    OBVIOUS
  <2>1. ASSUME NEW r \in Runs, TakesEffect(r), tx[r] # "none" PROVE AppliedInOrder'
    BY <2>1 DEF TakesEffect, IInv, InOrder, AppliedInOrder
  <2>2. CASE UNCHANGED recorded
    BY <2>2 DEF AppliedInOrder
  <2>3. ASSUME NEW r \in Runs, Commit(r) PROVE AppliedInOrder'
    BY <2>1, <2>3 DEF Commit, IInv, TxFits
  <2>4. ASSUME NEW r \in Runs, SessionEnds(r) PROVE AppliedInOrder'
    BY <2>1, <2>2, <2>4 DEF SessionEnds
  <2> QED
    BY <2>2, <2>3, <2>4
    DEF Next, Proceeds, Fails, vars, Acquire, AcquireFails, CreateTable, Check, NoneLeft, Apply,
        InsertVersion, InsertConflicts, StatementFails, Unlock, ConnectionLost, Kill
<1> QED BY <1>1, <1>2, Invariance, PTL DEF Spec

-----------------------------------------------------------------------------
(* The lock. *)

(* On a direct connection the lock keeps every other run from committing.  *)
LEMMA NextLockInv == IInv /\ LockInv /\ [Next]_vars => LockInv'
<1> SUFFICES ASSUME IInv, LockInv, ~Pooled, [Next]_vars PROVE LockInv'
  BY DEF LockInv
<1> USE DEF Goto, Return, Ended, AtFile, Free, SessionsOf
<1>0. NoSession \notin Runs
  BY MigrateAssumption
<1>1. ASSUME NEW r \in Runs, Acquire(r) PROVE LockInv'
  BY <1>0, <1>1 DEF Acquire, LockInv, IInv, TypeOK, TxFits
<1>2. ASSUME NEW r \in Runs, Unlock(r) PROVE LockInv'
  BY <1>0, <1>2 DEF Unlock, LockInv, IInv, TypeOK, TxFits
<1>3. ASSUME NEW r \in Runs, Check(r) PROVE LockInv'
  BY <1>0, <1>3 DEF Check, LockInv, IInv, TypeOK, TxFits
<1>4. ASSUME NEW r \in Runs, AcquireFails(r) \/ CreateTable(r) \/ NoneLeft(r) PROVE LockInv'
  BY <1>0, <1>4 DEF AcquireFails, CreateTable, NoneLeft, LockInv, IInv, TypeOK, TxFits
<1>5. ASSUME NEW r \in Runs,
             \/ Apply(r) \/ InsertVersion(r) \/ InsertConflicts(r)
             \/ StatementFails(r)
      PROVE LockInv'
  BY <1>0, <1>5
  DEF Apply, InsertVersion, InsertConflicts, StatementFails, LockInv, IInv, TypeOK, TxFits
<1>6. ASSUME NEW r \in Runs, ConnectionLost(r) \/ Kill(r) PROVE LockInv'
  BY <1>0, <1>6 DEF ConnectionLost, Kill, Lingering, LockInv, IInv, TypeOK, TxFits
<1>7. ASSUME NEW r \in Runs, Commit(r) PROVE LockInv'
  <2>1. lock.holder = r
    BY <1>7 DEF Commit, LockInv
  <2> QED BY <1>0, <1>7, <2>1 DEF Commit, TakesEffect, LockInv, IInv, TypeOK, TxFits
<1>8. ASSUME NEW r \in Runs, SessionEnds(r) PROVE LockInv'
  <2>1. tx[r] # "none" => lock.holder = r
    BY <1>8 DEF LockInv
  <2>2. \A s \in Runs \ {r} : pc[s] \in AtFile /\ tx[r] # "none" => FALSE
    BY <2>1 DEF LockInv
  <2>3. pc[r] \in Ended
    BY <1>8 DEF SessionEnds
  <2> QED BY <1>0, <1>8, <2>1, <2>2, <2>3
          DEF SessionEnds, TakesEffect, LockInv, IInv, TypeOK, TxFits
<1>9. CASE UNCHANGED vars
  BY <1>9 DEF vars, LockInv
<1> QED BY <1>1, <1>2, <1>3, <1>4, <1>5, <1>6, <1>7, <1>8, <1>9 DEF Next, Proceeds, Fails

(* With the lock, what a run checked before its transaction still holds    *)
(* when it inserts and commits: no run fails over another.                 *)
THEOREM ChecksHold == Spec => []CheckNotStale
<1>1. LockInv => CheckNotStale
  BY DEF LockInv, CheckNotStale, AtFile
<1>2. Spec => []LockInv
  BY InitIInv, NextLockInv, Invariance, PTL DEF Spec
<1> QED BY <1>1, <1>2, PTL

-----------------------------------------------------------------------------
(* The abstract ledger. *)

(* A transaction that takes effect is an Apply of the ledger.              *)
LEMMA EffectRefines ==
    ASSUME IInv, NEW r \in Runs, tx[r] \in {"inserted", "committing"}, TakesEffect(r),
           tx' = [tx EXCEPT ![r] = "none"], UNCHANGED <<cur, report>>
    PROVE  Schema!Next
<1>1. /\ cur[r] \in Files[r] /\ cur[r] \notin recorded
      /\ effects' = [effects EXCEPT ![cur[r]] = 1]
  BY EffectOf
<1>2. \A w \in Files[r] : w < cur[r] => w \in recorded
  BY DEF IInv, InOrder
<1>3. Schema!Apply(r, cur[r])
  BY <1>1, <1>2 DEF Schema!Apply, TakesEffect
<1> QED BY <1>1, <1>3 DEF Schema!Next

(* Every step maps to a step of the ledger or to none.                     *)
LEMMA NextRefines == IInv /\ [Next]_vars => [Schema!Next]_(Schema!vars)
<1> SUFFICES ASSUME IInv, [Next]_vars PROVE [Schema!Next]_(Schema!vars)
  OBVIOUS
<1> USE DEF Goto, Return
<1>1. ASSUME NEW r \in Runs, Commit(r) PROVE Schema!Next
  BY <1>1, EffectRefines DEF Commit, IInv, TxFits
<1>2. ASSUME NEW r \in Runs, SessionEnds(r) PROVE [Schema!Next]_(Schema!vars)
  BY <1>2, EffectRefines DEF SessionEnds, Schema!vars
<1>3. ASSUME NEW r \in Runs, NoneLeft(r) PROVE Schema!Next
  <2>1. Files[r] \subseteq recorded /\ report[r] = "none"
    BY <1>3 DEF NoneLeft, IInv, InOrder, Running
  <2>2. Schema!Report(r, "ok")
    BY <1>3, <2>1 DEF NoneLeft, Schema!Report
  <2> QED BY <2>2 DEF Schema!Next
<1>4. ASSUME NEW r \in Runs,
             AcquireFails(r) \/ InsertConflicts(r) \/ StatementFails(r) \/ ConnectionLost(r)
      PROVE  Schema!Next
  <2>1. pc[r] \in Running /\ report' = [report EXCEPT ![r] = "error"]
    BY <1>4 DEF AcquireFails, InsertConflicts, StatementFails, ConnectionLost, Running,
                AtFile, Ended, IInv, TypeOK
  <2>2. report[r] = "none"
    BY <2>1 DEF IInv, InOrder
  <2>3. Schema!Report(r, "error")
    BY <1>4, <2>1, <2>2
    DEF AcquireFails, InsertConflicts, StatementFails, ConnectionLost, Schema!Report
  <2> QED BY <2>3 DEF Schema!Next
<1>5. ASSUME NEW r \in Runs,
             \/ Acquire(r) \/ CreateTable(r) \/ Check(r) \/ Apply(r) \/ InsertVersion(r)
             \/ Unlock(r) \/ Kill(r)
      PROVE  UNCHANGED Schema!vars
  BY <1>5 DEF Acquire, CreateTable, Check, Apply, InsertVersion, Unlock, Kill, Schema!vars
<1>6. CASE UNCHANGED vars
  BY <1>6 DEF vars, Schema!vars
<1> QED BY <1>1, <1>2, <1>3, <1>4, <1>5, <1>6 DEF Next, Proceeds, Fails

(* Any number of runs, of any releases, with or without the lock, is one   *)
(* orderly application of the files.                                       *)
THEOREM Refinement == Spec => ImplementsSchema
<1>1. Init => Schema!Init
  BY DEF Init, Schema!Init, Versions, Schema!Versions
<1> QED BY <1>1, NextRefines, Invariance, PTL DEF Spec, ImplementsSchema, Schema!Spec
=============================================================================
