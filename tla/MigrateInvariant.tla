---------------------------- MODULE MigrateInvariant ----------------------------
(***************************************************************************)
(* The inductive invariants of Migrate.  IInv holds with the lock or       *)
(* without it; LockInv is what a direct connection adds.                   *)
(***************************************************************************)
EXTENDS Migrate

AtFile == {"apply", "record", "commit"}
Running == {"lock", "table", "check"} \cup AtFile

(* The transaction open in a session fits where its run is or was.         *)
TxFits ==
    \A r \in Runs :
        /\ pc[r] \in {"lock", "table", "check", "apply", "unlock"} => tx[r] = "none"
        /\ pc[r] = "record" => tx[r] = "applied"
        /\ pc[r] = "commit" => tx[r] = "inserted"
        /\ r \in closed => pc[r] \in Ended /\ tx[r] = "none"

(* A run is at a file when those before it are on record; the files it has *)
(* left behind are.                                                        *)
InOrder ==
    \A r \in Runs :
        /\ todo[r] \subseteq Files[r]
        /\ Files[r] \ todo[r] \subseteq recorded
        /\ pc[r] \in AtFile \/ tx[r] # "none" =>
              cur[r] \in Files[r] /\ \A w \in Files[r] : w < cur[r] => w \in recorded
        /\ report[r] = "ok" => Files[r] \subseteq recorded
        /\ pc[r] \in Running => report[r] = "none"

(* An undecided insert is the only one of its version.                     *)
InsertsDiffer ==
    \A r \in Runs : tx[r] \in {"inserted", "committing"} =>
        /\ cur[r] \notin recorded
        /\ \A s \in Runs \ {r} : tx[s] \in {"inserted", "committing"} => cur[s] # cur[r]

IInv == TypeOK /\ TxFits /\ InOrder /\ InsertsDiffer /\ AppliedOnce /\ ClaimsTruthful

(* The lock is held, once, by a run that is past it or has left a          *)
(* transaction behind, so no other run can commit.                         *)
LockInv ==
    ~Pooled =>
        /\ lock.holder \in Runs \cup {NoSession}
        /\ lock.depth = IF lock.holder = NoSession THEN 0 ELSE 1
        /\ \A r \in Runs :
              /\ pc[r] = "lock" => lock.holder # r
              /\ pc[r] \in {"table", "check", "unlock"} \cup AtFile \/ tx[r] # "none" =>
                    lock.holder = r
              /\ pc[r] \in AtFile => cur[r] \notin recorded
=============================================================================
