------------------------------ MODULE SchemaLedger ------------------------------
(***************************************************************************)
(* What the migrations promise: every file takes effect once, after the    *)
(* files of some release that come before it, and a run that reports       *)
(* success leaves nothing of its release undone.                           *)
(***************************************************************************)
EXTENDS Naturals

CONSTANTS
    Runs,      \* runs of the migration command
    Files      \* per run: the files of the release it belongs to

VARIABLES
    effects,   \* per file: how often its statements took effect
    recorded,  \* files on record in schema_migrations
    report     \* what each run reported: "none", "ok", "error"

vars == <<effects, recorded, report>>

Versions == UNION {Files[r] : r \in Runs}

Init ==
    /\ effects = [v \in Versions |-> 0]
    /\ recorded = {}
    /\ report = [r \in Runs |-> "none"]

(* A run that died or failed may still apply the file it was at.           *)
Apply(r, v) ==
    /\ v \in Files[r] \ recorded
    /\ \A w \in Files[r] : w < v => w \in recorded
    /\ effects' = [effects EXCEPT ![v] = 1]
    /\ recorded' = recorded \cup {v}
    /\ UNCHANGED report

Report(r, o) ==
    /\ report[r] = "none"
    /\ o = "ok" => Files[r] \subseteq recorded
    /\ report' = [report EXCEPT ![r] = o]
    /\ UNCHANGED <<effects, recorded>>

Next ==
    \E r \in Runs :
        \/ \E v \in Files[r] : Apply(r, v)
        \/ \E o \in {"ok", "error"} : Report(r, o)

Spec == Init /\ [][Next]_vars
=============================================================================
