------------------------------ MODULE LeadLedger ------------------------------
(***************************************************************************)
(* What the quote endpoint promises, told without a handler, a database or *)
(* a mail provider: a ledger of leads, the announcements sales received,   *)
(* a log of notification outcomes, and one answer per submission.          *)
(***************************************************************************)
CONSTANTS Requests, Refs, NoRef

VARIABLES
    ledger,      \* leads on record: [owner, ref]
    announced,   \* leads sales was told of: [owner, ref]
    log,         \* recorded outcomes: [ref, type]
    answer       \* what each submitter was told: [kind, ref]

vars == <<ledger, announced, log, answer>>

Entry == [owner : Requests, ref : Refs]
Open == [kind |-> "open", ref |-> NoRef]

Init ==
    /\ ledger = {} /\ announced = {} /\ log = {}
    /\ answer = [r \in Requests |-> Open]

Told(r) == answer[r].kind

(* A submission enters the ledger once, under a reference nobody else has; *)
(* it may still enter after its submitter was told of a failure.           *)
Enter(r, n) ==
    /\ Told(r) \in {"open", "unavailable", "error"}
    /\ \A e \in ledger : e.owner # r /\ e.ref # n
    /\ ledger' = ledger \cup {[owner |-> r, ref |-> n]}
    /\ UNCHANGED <<announced, log, answer>>

(* Sales hears only of leads on record, and never of one whose submitter   *)
(* was told to try again.                                                  *)
Announce(r, n) ==
    /\ Told(r) \in {"open", "accepted", "error"}
    /\ [owner |-> r, ref |-> n] \in ledger
    /\ announced' = announced \cup {[owner |-> r, ref |-> n]}
    /\ UNCHANGED <<ledger, log, answer>>

(* One outcome per lead, and "sent" only of one sales heard of. *)
Log(r, n, t) ==
    /\ [owner |-> r, ref |-> n] \in ledger
    /\ \A e \in log : e.ref # n
    /\ t = "sent" => [owner |-> r, ref |-> n] \in announced
    /\ log' = log \cup {[ref |-> n, type |-> t]}
    /\ UNCHANGED <<ledger, announced, answer>>

OnRecord(r) == \E e \in ledger : e.owner = r
Heard(r) == \E e \in announced : e.owner = r

Answer(r, k, n) ==
    /\ Told(r) = "open"
    /\ k = "accepted" => [owner |-> r, ref |-> n] \in ledger
    /\ k # "accepted" => n = NoRef
    /\ k = "declined" => ~OnRecord(r)
    /\ k \in {"declined", "unavailable"} => ~Heard(r)
    /\ answer' = [answer EXCEPT ![r] = [kind |-> k, ref |-> n]]
    /\ UNCHANGED <<ledger, announced, log>>

Next ==
    \E r \in Requests :
      \/ \E n \in Refs : Enter(r, n) \/ Announce(r, n)
      \/ \E n \in Refs, t \in {"sent", "failed"} : Log(r, n, t)
      \/ \E n \in Refs \cup {NoRef}, k \in {"accepted", "declined", "unavailable", "error"} :
           Answer(r, k, n)

Spec == Init /\ [][Next]_vars
=============================================================================
