------------------------------- MODULE BrevoSend -------------------------------
(***************************************************************************)
(* One call of BrevoProvider.send and the API it posts to.  The client     *)
(* posts, judges a failure, perhaps waits, and posts again; the API may    *)
(* accept a request long after the client has lost interest in it.         *)
(*                                                                         *)
(* Time advances in ticks.  The client's own steps take none: a timer, a   *)
(* deadline or a computation that is due is dealt with before the next     *)
(* tick.  Durations are the machine's integers, -Bound..Bound-1, and wrap. *)
(*                                                                         *)
(* Definitions marked "Fault" show what a bug in the definition that       *)
(* follows would do; nothing uses them.                                    *)
(***************************************************************************)
EXTENDS Integers, FiniteSets

CONSTANTS
    MaxAttempts,   \* brevoMaxAttempts
    Sec,           \* ticks of a second
    Backoff,       \* brevoDefaultBackoff, in ticks
    Timeout,       \* the deadline of the send context, in ticks from the start
    Headers,       \* Retry-After headers the API may answer with
    Bound,         \* half the range of an int and of a time.Duration
    Horizon        \* bound: the clock stops here

(* A Retry-After header: none, a number of seconds, or a date that is that *)
(* many seconds ahead.                                                     *)
Header == [form : {"none", "secs", "date"}, secs : Nat]

ASSUME BrevoAssumption ==
    /\ MaxAttempts \in Nat \ {0}
    /\ Bound \in Nat \ {0}
    /\ Sec \in Nat \ {0} /\ Backoff \in 0..(Bound - 1)
    /\ Timeout \in 0..(Bound - 1) /\ Horizon \in Nat
    /\ Headers \subseteq Header

VARIABLES
    pc,          \* "post", "posting", "wait" or "done"
    attempt,     \* the attempt the client is at
    req,         \* per attempt: "unsent", "pending", "accepted", "refused"
    resp,        \* the API's answer to the attempt: [status, header]
    last,        \* status the client judged last; 0 for none or no answer
    wakeAt,      \* when the backoff timer fires
    notBefore,   \* history: when the API last asked the client to come back
    outcome,     \* "none", "ok" or "error"
    now

vars == <<pc, attempt, req, resp, last, wakeAt, notBefore, outcome, now>>

AttemptIds == 1..MaxAttempts
NoAnswer == [status |-> 0, header |-> [form |-> "none", secs |-> 0]]

TypeOK ==
    /\ pc \in {"post", "posting", "wait", "done"}
    /\ attempt \in AttemptIds
    /\ req \in [AttemptIds -> {"unsent", "pending", "accepted", "refused"}]
    /\ resp \in [status : {0, 201, 400, 429, 500, 503}, header : Headers \cup {NoAnswer.header}]
    /\ last \in {0, 201, 400, 429, 500, 503}
    /\ wakeAt \in Int
    /\ notBefore \in Nat
    /\ outcome \in {"none", "ok", "error"}
    /\ now \in Nat

Init ==
    /\ pc = "post" /\ attempt = 1
    /\ req = [i \in AttemptIds |-> "unsent"]
    /\ resp = NoAnswer /\ last = 0
    /\ wakeAt = 0 /\ notBefore = 0
    /\ outcome = "none" /\ now = 0

-----------------------------------------------------------------------------
(* Durations. *)

Wrap(n) == ((n + Bound) % (2 * Bound)) - Bound

(* time.Duration(secs) * time.Second *)
Duration(secs) == Wrap(secs * Sec)

(* Fault: the header is not read. *)
WaitBackoffOnly(h) == Backoff

(* Only a number of seconds is read; a date falls back to the backoff. *)
Wait(h) == IF h.form = "secs" THEN Duration(h.secs) ELSE Backoff

(* Fault: the second a retry needs is left out. *)
RoomForTheWaitOnly(wait) == Timeout - now >= wait

RoomFor(wait) == Timeout - now >= Wrap(wait + Sec)

(* Fault: any server error is retried. *)
RetryableServerErrors(status) == status \in {429, 500, 503}

(* Only an answer that says the request was not accepted is retried; 0 is  *)
(* a transport failure.                                                    *)
Retryable(status) == status \in {429, 503}

Return(o) ==
    /\ pc' = "done" /\ outcome' = o
    /\ UNCHANGED <<attempt, req, resp, wakeAt, notBefore, now>>

-----------------------------------------------------------------------------
(* The client. *)

Post ==
    /\ pc = "post"
    /\ pc' = "posting"
    /\ req' = [req EXCEPT ![attempt] = "pending"]
    /\ resp' = NoAnswer
    /\ UNCHANGED <<attempt, last, wakeAt, notBefore, outcome, now>>

ReceiveAccepted ==
    /\ pc = "posting" /\ resp.status = 201
    /\ last' = resp.status
    /\ Return("ok")

(* The wait before a retry is worth starting. *)
WillRetry(status, header) ==
    attempt < MaxAttempts /\ Retryable(status) /\ RoomFor(Wait(header))

GiveUp ==
    /\ pc = "posting" /\ resp.status \notin {0, 201}
    /\ ~WillRetry(resp.status, resp.header)
    /\ last' = resp.status
    /\ Return("error")

StartWait ==
    /\ pc = "posting" /\ resp.status \notin {0, 201}
    /\ WillRetry(resp.status, resp.header)
    /\ pc' = "wait"
    /\ last' = resp.status
    /\ wakeAt' = now + Wait(resp.header)
    /\ notBefore' = IF resp.header.form = "none" THEN now
                    ELSE now + resp.header.secs * Sec
    /\ UNCHANGED <<attempt, req, resp, outcome, now>>

(* Fault: a lost connection is retried like a refusal. *)
LoseAndRetry ==
    /\ pc = "posting"
    /\ attempt < MaxAttempts
    /\ pc' = "post" /\ attempt' = attempt + 1
    /\ UNCHANGED <<req, resp, last, wakeAt, notBefore, outcome, now>>

(* The connection or the body is lost, or the deadline has come.           *)
LosePost ==
    /\ pc = "posting"
    /\ last' = 0
    /\ Return("error")

Wake ==
    /\ pc = "wait" /\ now >= wakeAt
    /\ pc' = "post"
    /\ attempt' = attempt + 1
    /\ UNCHANGED <<req, resp, last, wakeAt, notBefore, outcome, now>>

WaitCancelled ==
    /\ pc = "wait" /\ now >= Timeout
    /\ Return("error")
    /\ UNCHANGED last

-----------------------------------------------------------------------------
(* The API. It may break after it accepted: a 500 says nothing.            *)

Accept(i) ==
    /\ req[i] = "pending"
    /\ req' = [req EXCEPT ![i] = "accepted"]
    /\ IF i = attempt /\ pc = "posting"
         THEN \E s \in {201, 500} : resp' = [NoAnswer EXCEPT !.status = s]
         ELSE UNCHANGED resp
    /\ UNCHANGED <<pc, attempt, last, wakeAt, notBefore, outcome, now>>

Refuse(i) ==
    /\ req[i] = "pending"
    /\ req' = [req EXCEPT ![i] = "refused"]
    /\ IF i = attempt /\ pc = "posting"
         THEN \E s \in {400, 429, 500, 503}, h \in Headers :
                resp' = [status |-> s, header |-> h]
         ELSE UNCHANGED resp
    /\ UNCHANGED <<pc, attempt, last, wakeAt, notBefore, outcome, now>>

(* Fault: the request is built without the context. *)
DueWithoutContext ==
    \/ pc = "post"
    \/ pc = "wait" /\ (now >= wakeAt \/ now >= Timeout)

(* What the client deals with before time goes on. *)
Due ==
    \/ pc = "post"
    \/ pc = "wait" /\ (now >= wakeAt \/ now >= Timeout)
    \/ pc = "posting" /\ now >= Timeout

Tick ==
    /\ pc # "done" /\ ~Due /\ now < Horizon
    /\ now' = now + 1
    /\ UNCHANGED <<pc, attempt, req, resp, last, wakeAt, notBefore, outcome>>

Next ==
    \/ Post \/ ReceiveAccepted \/ GiveUp \/ StartWait \/ LosePost \/ Wake \/ WaitCancelled
    \/ \E i \in AttemptIds : Accept(i) \/ Refuse(i)
    \/ Tick

Spec == Init /\ [][Next]_vars

-----------------------------------------------------------------------------
(* Properties. *)

Accepted == {i \in AttemptIds : req[i] = "accepted"}

(* A call that failed on a 429 or 503 has delivered nothing and will not:   *)
(* its "failed" event can be followed up without a second mail.             *)
RefusalIsFinal ==
    outcome = "error" /\ last \in {429, 503} =>
        \A i \in AttemptIds : req[i] \in {"unsent", "refused"}

(* A retry is posted with at least a second left before the deadline.       *)
RetryHasRoom == pc = "post" /\ attempt > 1 => Timeout - now >= Sec

(* README: retries happen "honouring Retry-After".                          *)
RetryNotEarly == pc = "post" /\ attempt > 1 => now >= notBefore

(* EmailProvider: implementations honour the deadline of their context.     *)
EndsByDeadline == now > Timeout => pc = "done"

(* The call keeps the contract the handler relies on: at most one mail in   *)
(* all its attempts, and success only of an accepted one.                   *)
Contract == INSTANCE EmailContract WITH
    mails  <- Cardinality(Accepted),
    report <- IF outcome = "ok" THEN "sent"
              ELSE IF outcome = "error" THEN "failed" ELSE "none"

ImplementsContract == Contract!Spec
=============================================================================
