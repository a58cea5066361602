---------------------------- MODULE BrevoInvariant ----------------------------
(***************************************************************************)
(* The inductive invariant of BrevoSend: attempts are made one after       *)
(* another, and the client leaves one for the next only when the API has   *)
(* refused it.  So whatever is accepted is accepted in the last attempt.   *)
(***************************************************************************)
EXTENDS BrevoSend

(* Attempts before this one were refused, those after it are not posted.   *)
InTurn ==
    \A i \in AttemptIds :
        /\ i < attempt => req[i] = "refused"
        /\ i > attempt => req[i] = "unsent"

(* Where the client is says what has become of the current attempt.        *)
Current ==
    /\ pc = "post" => req[attempt] = "unsent"
    /\ pc = "posting" =>
          /\ resp.status = 201 => req[attempt] = "accepted"
          /\ resp.status \in {400, 429, 503} => req[attempt] = "refused"
    /\ pc = "wait" => req[attempt] = "refused" /\ attempt < MaxAttempts
    /\ pc = "done" <=> outcome # "none"

(* What the call returned says no more than what has become of it.         *)
Truthful ==
    /\ outcome = "ok" => req[attempt] = "accepted"
    /\ outcome = "error" /\ last \in {429, 503} => req[attempt] = "refused"

IInv == TypeOK /\ InTurn /\ Current /\ Truthful

-----------------------------------------------------------------------------
(* Time.  What follows is inductive where no duration wraps: every number  *)
(* of seconds a header may hold is a duration, and so is the deadline with *)
(* a second more.                                                          *)
HeadersFit == \A h \in Headers : h.form = "secs" => h.secs * Sec < Bound

DeadlineFits == Timeout + Sec < Bound

(* A wait is not slept past, and it ends with room for a retry or after    *)
(* the deadline.                                                           *)
RoomInv ==
    /\ pc = "wait" => /\ now <= wakeAt
                      /\ wakeAt + Sec <= Timeout \/ wakeAt > Timeout
    /\ RetryHasRoom

(* A wait lasts as long as the API asked for.                              *)
PatienceInv ==
    /\ pc = "wait" => wakeAt >= notBefore
    /\ RetryNotEarly
=============================================================================
