------------------------------- MODULE QuoteRate -------------------------------
(***************************************************************************)
(* How far the hourly limit can be overrun.  The count and the insert are  *)
(* two statements of two transactions, so runs that read the same count    *)
(* all go on to insert.  Two history variables, which no step of the       *)
(* handler reads, measure what that costs.                                 *)
(***************************************************************************)
EXTENDS QuoteHandler

ASSUME RateAssumption == IsFiniteSet(Requests)

VARIABLES
    peak,      \* per address: the most runs ever between count and insert
    slipped    \* runs the limit did not judge, or that ended before their insert

rateVars == <<vars, peak, slipped>>

(* Runs of an address that were let through on a count and have not yet    *)
(* inserted.                                                               *)
Racing(ip) ==
    {r \in Requests : pc[r] = "save" /\ ClientIP(sub[r]) = ip /\ r \notin slipped}

(* Recent leads of an address that were let through on a count.            *)
Counted(ip) == {q \in Recent(ip) : q.owner \notin slipped}

Larger(a, b) == IF a < b THEN b ELSE a

RateInit ==
    /\ Init
    /\ peak = [ip \in Addrs |-> 0]
    /\ slipped = {}

RateNext ==
    /\ Next
    /\ slipped' = slipped
         \cup {r \in Requests : pc[r] = "rate" /\ pc'[r] = "save" /\ OverLimit(r)}
         \cup {q.owner : q \in late'}
    /\ peak' = [ip \in Addrs |-> Larger(peak[ip], Cardinality(Racing(ip)'))]

RateSpec == RateInit /\ [][RateNext]_rateVars

RateTypeOK ==
    /\ TypeOK
    /\ peak \in [Addrs -> Nat]
    /\ slipped \subseteq Requests

(* The leads an address gets through on a count within the hour, with the  *)
(* ones on their way, overrun the limit by less than the number of its     *)
(* runs that were ever between the count and the insert at once.           *)
RateBound ==
    Limit > 0 => \A ip \in Addrs :
        Cardinality(Counted(ip)) + Cardinality(Racing(ip))
          <= (Limit - 1) + Larger(peak[ip], 1)

(* The strengthening of RateBound that is inductive.                       *)
RateInv ==
    /\ RateTypeOK
    /\ IsFiniteSet(quotes)
    /\ \A ip \in Addrs : Cardinality(Racing(ip)) <= peak[ip]
    /\ \A q \in late : q.owner \in slipped
    /\ RateBound
=============================================================================
