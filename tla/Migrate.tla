-------------------------------- MODULE Migrate --------------------------------
(***************************************************************************)
(* cmd/migrate: concurrent runs of db.Migrate against one database.  Each  *)
(* run takes a session advisory lock, then applies the files of its        *)
(* release that are not on record, each in a transaction that also records *)
(* it.  Each statement is a step.  A run whose connection is lost leaves   *)
(* its session, with whatever transaction is open, to the server.          *)
(*                                                                         *)
(* Through a transaction pooler a statement outside a transaction runs on  *)
(* any server session, and the lock belongs to that session.               *)
(*                                                                         *)
(* Files are numbers in their lexical order.  Definitions marked "Fault"   *)
(* show what a bug in the definition that follows would do.                *)
(***************************************************************************)
EXTENDS Naturals

CONSTANTS
    Runs,       \* runs of the command
    Files,      \* per run: the *.sql files embedded in its release
    Pooled,     \* the URL leads to a transaction pooler
    Sessions,   \* the pooler's server sessions
    NoSession,
    Faults      \* subset of {"statement", "lost", "kill"}

ASSUME MigrateAssumption ==
    /\ Files \in [Runs -> SUBSET Nat]
    /\ Pooled \in BOOLEAN
    /\ NoSession \notin Sessions \cup Runs
    /\ Faults \subseteq {"statement", "lost", "kill"}

VARIABLES
    pc,         \* where each run is
    todo,       \* files of the run's loop still to come
    cur,        \* the file it is at
    claimed,    \* files it reports as applied
    report,     \* "none", "ok" or "error"
    tx,         \* the transaction open in its session
    closed,     \* runs whose session has ended
    lock,       \* the advisory lock: [holder, depth]
    recorded,   \* rows of schema_migrations
    effects     \* history: how often a file's statements were committed

vars == <<pc, todo, cur, claimed, report, tx, closed, lock, recorded, effects>>

Versions == UNION {Files[r] : r \in Runs}
Ended == {"done", "killed"}
Free == [holder |-> NoSession, depth |-> 0]

TypeOK ==
    /\ pc \in [Runs -> Ended \cup {"lock", "table", "check", "apply", "record", "commit", "unlock"}]
    /\ todo \in [Runs -> SUBSET Versions]
    /\ cur \in [Runs -> Nat]
    /\ claimed \in [Runs -> SUBSET Versions]
    /\ report \in [Runs -> {"none", "ok", "error"}]
    /\ tx \in [Runs -> {"none", "applied", "inserted", "committing"}]
    /\ closed \subseteq Runs
    /\ lock \in {Free} \cup [holder : Runs \cup Sessions, depth : Nat \ {0}]
    /\ recorded \subseteq Versions
    /\ effects \in [Versions -> Nat]

Init ==
    /\ pc = [r \in Runs |-> "lock"]
    /\ todo = Files
    /\ cur = [r \in Runs |-> 0]
    /\ claimed = [r \in Runs |-> {}]
    /\ report = [r \in Runs |-> "none"]
    /\ tx = [r \in Runs |-> "none"]
    /\ closed = {}
    /\ lock = Free
    /\ recorded = {}
    /\ effects = [v \in Versions |-> 0]

-----------------------------------------------------------------------------
Goto(r, l) == pc' = [pc EXCEPT ![r] = l]

(* Migrate returns; its deferred unlock comes next. *)
Return(r, o, l) ==
    /\ report' = [report EXCEPT ![r] = o]
    /\ Goto(r, l)

(* The server sessions a statement of run r may run in. *)
SessionsOf(r) == IF Pooled THEN Sessions ELSE {r}

(* Fault: pg_try_advisory_lock, its answer ignored. *)
TryLock(r) ==
    /\ pc[r] = "lock"
    /\ Goto(r, "table")
    /\ UNCHANGED <<todo, cur, claimed, report, tx, closed, lock, recorded, effects>>

(* A session that holds the lock gets it again. *)
Acquire(r) ==
    /\ pc[r] = "lock"
    /\ \E b \in SessionsOf(r) :
         /\ lock.holder \in {b, NoSession}
         /\ lock' = [holder |-> b, depth |-> lock.depth + 1]
    /\ Goto(r, "table")
    /\ UNCHANGED <<todo, cur, claimed, report, tx, closed, recorded, effects>>

(* The lock is not held, so its release is not deferred. *)
AcquireFails(r) ==
    /\ pc[r] = "lock" /\ "statement" \in Faults
    /\ Return(r, "error", "done")
    /\ UNCHANGED <<todo, cur, claimed, tx, closed, lock, recorded, effects>>

CreateTable(r) ==
    /\ pc[r] = "table"
    /\ Goto(r, "check")
    /\ UNCHANGED <<todo, cur, claimed, report, tx, closed, lock, recorded, effects>>

Least(S) == {v \in S : \A w \in S : v <= w}

(* SELECT EXISTS for the next file: skip it, or begin its transaction. *)
Check(r) ==
    /\ pc[r] = "check"
    /\ \E v \in Least(todo[r]) :
         IF v \in recorded
           THEN /\ todo' = [todo EXCEPT ![r] = @ \ {v}]
                /\ UNCHANGED <<pc, cur>>
           ELSE /\ cur' = [cur EXCEPT ![r] = v]
                /\ Goto(r, "apply")
                /\ UNCHANGED todo
    /\ UNCHANGED <<claimed, report, tx, closed, lock, recorded, effects>>

NoneLeft(r) ==
    /\ pc[r] = "check" /\ todo[r] = {}
    /\ Return(r, "ok", "unlock")
    /\ UNCHANGED <<todo, cur, claimed, tx, closed, lock, recorded, effects>>

Apply(r) ==
    /\ pc[r] = "apply"
    /\ tx' = [tx EXCEPT ![r] = "applied"]
    /\ Goto(r, "record")
    /\ UNCHANGED <<todo, cur, claimed, report, closed, lock, recorded, effects>>

(* Fault: the version column is no primary key. *)
MayRecordAlways(r) == TRUE

(* The primary key: an insert waits for another of the same version that   *)
(* is not yet decided, and conflicts with one that is committed.           *)
MayRecord(r) ==
    /\ cur[r] \notin recorded
    /\ \A s \in Runs \ {r} : tx[s] \in {"inserted", "committing"} => cur[s] # cur[r]

InsertVersion(r) ==
    /\ pc[r] = "record"
    /\ MayRecord(r)
    /\ tx' = [tx EXCEPT ![r] = "inserted"]
    /\ Goto(r, "commit")
    /\ UNCHANGED <<todo, cur, claimed, report, closed, lock, recorded, effects>>

InsertConflicts(r) ==
    /\ pc[r] = "record"
    /\ cur[r] \in recorded
    /\ tx' = [tx EXCEPT ![r] = "none"]
    /\ Return(r, "error", "unlock")
    /\ UNCHANGED <<todo, cur, claimed, closed, lock, recorded, effects>>

(* What the transaction of run r does to the database. *)
TakesEffect(r) ==
    /\ recorded' = recorded \cup {cur[r]}
    /\ effects' = [effects EXCEPT ![cur[r]] = @ + 1]

Commit(r) ==
    /\ pc[r] = "commit"
    /\ TakesEffect(r)
    /\ tx' = [tx EXCEPT ![r] = "none"]
    /\ claimed' = [claimed EXCEPT ![r] = @ \cup {cur[r]}]
    /\ todo' = [todo EXCEPT ![r] = @ \ {cur[r]}]
    /\ Goto(r, "check")
    /\ UNCHANGED <<cur, report, closed, lock>>

(* Fault: a file that fails is left out, and the loop goes on. *)
FailureSkipsFile(r) ==
    /\ pc[r] = "apply" /\ "statement" \in Faults
    /\ todo' = [todo EXCEPT ![r] = @ \ {cur[r]}]
    /\ Goto(r, "check")
    /\ UNCHANGED <<cur, claimed, report, tx, closed, lock, recorded, effects>>

(* The server refuses a statement; what was begun is rolled back. *)
StatementFails(r) ==
    /\ pc[r] \in {"table", "check", "apply", "record", "commit"}
    /\ "statement" \in Faults
    /\ tx' = [tx EXCEPT ![r] = "none"]
    /\ Return(r, "error", "unlock")
    /\ UNCHANGED <<todo, cur, claimed, closed, lock, recorded, effects>>

(* The deferred unlock; in a session without the lock it only warns. *)
Unlock(r) ==
    /\ pc[r] = "unlock"
    /\ \E b \in SessionsOf(r) :
         lock' = IF lock.holder # b THEN lock
                 ELSE IF lock.depth = 1 THEN Free
                 ELSE [lock EXCEPT !.depth = @ - 1]
    /\ Goto(r, "done")
    /\ UNCHANGED <<todo, cur, claimed, report, tx, closed, recorded, effects>>

-----------------------------------------------------------------------------
(* Failures of the connection and of the process. *)

(* What the server makes of a statement whose answer nobody reads. *)
Lingering(r) ==
    {tx[r]} \cup (CASE pc[r] = "apply" -> {"applied"}
                    [] pc[r] = "record" /\ MayRecord(r) -> {"inserted"}
                    [] pc[r] = "commit" -> {"committing"}
                    [] OTHER -> {})

(* The two minutes are over or the network fails: the connection is closed *)
(* and the deferred unlock with it.                                        *)
ConnectionLost(r) ==
    /\ pc[r] \notin Ended \cup {"unlock"} /\ "lost" \in Faults
    /\ \E t \in Lingering(r) : tx' = [tx EXCEPT ![r] = t]
    /\ Return(r, "error", "done")
    /\ UNCHANGED <<todo, cur, claimed, closed, lock, recorded, effects>>

Kill(r) ==
    /\ pc[r] \notin Ended /\ "kill" \in Faults
    /\ \E t \in Lingering(r) : tx' = [tx EXCEPT ![r] = t]
    /\ Goto(r, "killed")
    /\ UNCHANGED <<todo, cur, claimed, report, closed, lock, recorded, effects>>

(* Fault: the lock outlives the session, as a row of a table would. *)
SessionKeepsLock(r) ==
    /\ pc[r] \in Ended /\ r \notin closed
    /\ IF tx[r] = "committing" THEN TakesEffect(r) ELSE UNCHANGED <<recorded, effects>>
    /\ tx' = [tx EXCEPT ![r] = "none"]
    /\ closed' = closed \cup {r}
    /\ UNCHANGED <<pc, todo, cur, claimed, report, lock>>

(* The server ends the session of a run that has closed it or is gone: a   *)
(* commit it received is carried out, anything else rolled back, and the   *)
(* session's own lock released.                                            *)
SessionEnds(r) ==
    /\ pc[r] \in Ended /\ r \notin closed
    /\ IF tx[r] = "committing" THEN TakesEffect(r) ELSE UNCHANGED <<recorded, effects>>
    /\ tx' = [tx EXCEPT ![r] = "none"]
    /\ lock' = IF lock.holder = r THEN Free ELSE lock
    /\ closed' = closed \cup {r}
    /\ UNCHANGED <<pc, todo, cur, claimed, report>>

-----------------------------------------------------------------------------
Proceeds(r) ==
    \/ Acquire(r) \/ CreateTable(r) \/ Check(r) \/ NoneLeft(r) \/ Apply(r)
    \/ InsertVersion(r) \/ InsertConflicts(r) \/ Commit(r) \/ Unlock(r)

Fails(r) == AcquireFails(r) \/ StatementFails(r) \/ ConnectionLost(r) \/ Kill(r)

Next == \E r \in Runs : Proceeds(r) \/ Fails(r) \/ SessionEnds(r)

Spec == Init /\ [][Next]_vars

(* A statement is answered, the lock is granted in turn, and a session     *)
(* nobody uses is ended; no failure is ever forced.                        *)
Fairness == \A r \in Runs : SF_vars(Proceeds(r)) /\ WF_vars(SessionEnds(r))

FairSpec == Spec /\ Fairness

-----------------------------------------------------------------------------
(* Properties. *)

(* A file takes effect exactly when it is recorded and never twice, with   *)
(* the lock or without it, whatever fails in between.                      *)
AppliedOnce == \A v \in Versions : effects[v] = IF v \in recorded THEN 1 ELSE 0

(* A file on record comes after all earlier files of some release: a       *)
(* failed file stops its run.                                              *)
AppliedInOrder ==
    \A v \in recorded : \E r \in Runs :
        v \in Files[r] /\ \A w \in Files[r] : w < v => w \in recorded

(* What the command prints as applied is on record, and two runs never     *)
(* both print one file.                                                    *)
ClaimsTruthful ==
    /\ \A r \in Runs : claimed[r] \subseteq recorded
    /\ \A r, s \in Runs : r # s => claimed[r] \cap claimed[s] = {}

(* On a direct connection the answer of SELECT EXISTS still holds when the *)
(* version is inserted and committed: no run fails over another one.       *)
CheckNotStale ==
    ~Pooled => \A r \in Runs : pc[r] \in {"apply", "record", "commit"} => cur[r] \notin recorded

(* On a direct connection runs that crash, lose their connection or fail   *)
(* never keep the others waiting for the lock.                             *)
EveryRunEnds == \A r \in Runs : <>(pc[r] \in Ended)

(* Every run is a run of the abstract ledger.                              *)
Schema == INSTANCE SchemaLedger
ImplementsSchema == Schema!Spec
=============================================================================
