---------------------------- MODULE ServerInvariant ----------------------------
(***************************************************************************)
(* The inductive invariant of ServerProcess: how much time a run may have  *)
(* taken by the stage it is at, and what main has waited for.              *)
(***************************************************************************)
EXTENDS ServerProcess

(* The most a run's calls before its stage may have taken.                 *)
SpentBefore(r) ==
    CASE stage[r] = "insert" -> CountTimeout + tries[r] * InsertTimeout
      [] stage[r] = "send"   -> CountTimeout + Attempts * InsertTimeout
      [] stage[r] = "event"  -> CountTimeout + Attempts * InsertTimeout + SendTimeout
      [] OTHER               -> 0

(* No call outlives its deadline, so the calls of a run fit its budget.    *)
OnTime ==
    \A r \in Requests :
        /\ Open(r) => spent[r] <= Timeout(stage[r])
        /\ InFlight(r) /\ stage[r] # "body" => used[r] <= SpentBefore(r) + spent[r]
        /\ stage[r] \in {"out", "header", "body"} => used[r] = 0
        /\ stage[r] \in {"out", "header"} => body[r] = 0
        /\ stage[r] = "body" => body[r] <= spent[r]
        /\ stage[r] = "out" => head[r] = 0
        /\ stage[r] = "header" => head[r] <= spent[r]
        /\ head[r] <= HeaderTimeout
        /\ used[r] <= Budget

(* A connection belongs to a run at a call on the database, and while the  *)
(* pool is open every such run has one.                                    *)
Connections ==
    /\ \A r \in conns : stage[r] \in OnDatabase
    /\ PoolOpen => /\ refused = {}
                   /\ \A r \in Requests : stage[r] \in OnDatabase => r \in conns

(* What main is at, and what it left behind on the way.                    *)
Course ==
    /\ exit = "none" <=> PoolOpen
    /\ main = "serving" => waited = 0
    /\ main = "draining" => \A r \in Requests : Open(r) => head[r] + body[r] + used[r] >= waited
    /\ main = "closing" =>
          /\ \A r \in conns : waited <= Grace + spent[r]
          /\ exit = "drained" => \A r \in Requests : ~Open(r)
          /\ exit = "grace" => \A r \in Requests :
               Open(r) => InFlight(r) /\ head[r] + body[r] + used[r] >= Grace
    /\ main = "exited" => \A r \in Requests : ~Open(r)
    /\ main # "exited" => \A r \in Requests : stage[r] # "cut"

(* What the closed pool still waits for.                                   *)
Destruction ==
    /\ destroying => main = "closing" /\ since <= CloseTimeout
    /\ destroying => \E t \in {CountTimeout, InsertTimeout, EventTimeout} : waited <= Grace + t + since

(* Why a response is lost.                                                 *)
Losses == \A r \in Requests : stage[r] = "lost" => body[r] + Budget > WriteTimeout

IInv ==
    /\ TypeOK /\ OnTime /\ Connections /\ Course /\ Destruction
    /\ RunsHaveTheirGrace /\ CleanExitIsClean /\ StopsInTime /\ Losses
=============================================================================
