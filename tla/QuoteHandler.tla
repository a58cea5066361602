----------------------------- MODULE QuoteHandler -----------------------------
(***************************************************************************)
(* POST /quote: concurrent runs of QuoteHandler against one database and   *)
(* one mail provider.  A run screens the form, counts the recent leads of  *)
(* its address, inserts the lead under a fresh reference (again on a       *)
(* collision), notifies sales, records the outcome and answers.  Each call *)
(* that leaves the handler is a step of its own, so runs interleave        *)
(* between any two of them; they may run on different instances, since all *)
(* they share is the database.                                             *)
(*                                                                         *)
(* A row's reference stands for its id as well: see UniqueReferences.      *)
(*                                                                         *)
(* Definitions marked "Fault" are not part of the specification: each is   *)
(* the definition that follows with a plausible bug in it, kept to show    *)
(* that a property can tell the two apart.                                 *)
(***************************************************************************)
EXTENDS RequestGuards, FiniteSets

CONSTANTS
    Requests,      \* HTTP requests that reach the handler
    Submissions,   \* the submissions they may carry
    Refs,          \* what NewReference may return (prefix, day, random part)
    NoRef,
    Attempts,      \* insert attempts in saveQuote (3 in the code)
    Limit,         \* cfg.QuoteRateLimitPerHour; 0 turns the check off
    Window,        \* the rate limit's hour, in ticks
    Horizon,       \* bound: the clock stops here
    Faults         \* what may go wrong: a subset of FaultKinds

FaultKinds ==
    {"count",      \* the count fails or times out
     "insert",     \* the insert fails, nothing was written
     "timeout",    \* the insert times out; the server may still commit it
     "email",      \* the send fails
     "lost_ack",   \* a send that failed, or died, is delivered all the same
     "event",      \* recording the outcome fails
     "render",     \* the template of the answer fails
     "kill"}       \* the process dies or the platform freezes it

ASSUME HandlerAssumption ==
    /\ Submissions \subseteq Submission
    /\ NoRef \notin Refs
    /\ Attempts \in Nat \ {0}
    /\ Limit \in Nat /\ Window \in Nat \ {0} /\ Horizon \in Nat
    /\ Faults \subseteq FaultKinds

VARIABLES
    sub,      \* the submission each request carries
    pc,       \* where each handler run is
    tries,    \* failed inserts of the run
    ref,      \* quote.Reference once stored
    result,   \* EmailEvent.EventType of the run
    reply,    \* the response: [status, ref], status 0 when there is none
    gone,     \* requests whose visitor has navigated away
    quotes,   \* table quote_requests: [owner, ref, ip, at]
    late,     \* inserts whose caller has given up but the server has not
    events,   \* table quote_email_events: [ref, type]
    inbox,    \* mails the provider accepted: [owner, ref]
    now       \* the one clock: the database's and, as if set alike, the application's

run == <<tries, ref, result, reply>>
store == <<quotes, late, events>>
vars == <<sub, pc, run, gone, store, inbox, now>>

NoReply == [status |-> 0, ref |-> NoRef]
Ended == {"done", "killed"}
InFlight(r) == pc[r] \notin Ended \cup {"idle"}

Row == [owner : Requests, ref : Refs, ip : Addrs, at : 0..Horizon]

TypeOK ==
    /\ sub \in [Requests -> Submissions]
    /\ pc \in [Requests -> Ended \cup {"idle", "rate", "save", "send", "record", "respond"}]
    /\ tries \in [Requests -> 0..(Attempts - 1)]
    /\ ref \in [Requests -> Refs \cup {NoRef}]
    /\ result \in [Requests -> {"none", "sent", "failed"}]
    /\ reply \in [Requests -> [status : {0, 200, 400, 403, 413, 422, 429, 500, 503},
                               ref : Refs \cup {NoRef}]]
    /\ gone \subseteq Requests
    /\ quotes \subseteq Row
    /\ late \subseteq Row
    /\ events \subseteq [ref : Refs, type : {"sent", "failed"}]
    /\ inbox \subseteq [owner : Requests, ref : Refs]
    /\ now \in 0..Horizon

Init ==
    /\ sub \in [Requests -> Submissions]
    /\ pc = [r \in Requests |-> "idle"]
    /\ tries = [r \in Requests |-> 0]
    /\ ref = [r \in Requests |-> NoRef]
    /\ result = [r \in Requests |-> "none"]
    /\ reply = [r \in Requests |-> NoReply]
    /\ gone = {} /\ quotes = {} /\ late = {} /\ events = {} /\ inbox = {}
    /\ now = 0

-----------------------------------------------------------------------------
(* Helpers of the steps. *)

Goto(r, l) == pc' = [pc EXCEPT ![r] = l]

(* A response whose template fails becomes a bare 500. *)
Rendered(status, n) ==
    {[status |-> status, ref |-> n]}
      \cup (IF "render" \in Faults THEN {[status |-> 500, ref |-> NoRef]} ELSE {})

Answer(r, status, n) ==
    /\ \E a \in Rendered(status, n) : reply' = [reply EXCEPT ![r] = a]
    /\ Goto(r, "done")

(* Fault: the calls run under r.Context(), which ends when the visitor leaves. *)
CtxTiedToVisitor(r) == r \notin gone

(* The calls run under context.WithoutCancel: a visitor leaving ends none. *)
CtxAlive(r) == TRUE

(* Fault: the window is left out of the count. *)
RecentForever(ip) == {q \in quotes : q.ip = ip}

(* CountQuoteRequestsSince(now - hour). *)
Recent(ip) == {q \in quotes : q.ip = ip /\ q.at > now - Window}

(* Fault: n > limit for n >= limit. *)
OverLimitByOne(r) == Limit > 0 /\ Cardinality(Recent(ClientIP(sub[r]))) > Limit

OverLimit(r) == Limit > 0 /\ Cardinality(Recent(ClientIP(sub[r]))) >= Limit

Taken == {q.ref : q \in quotes}

MayInsert(n) == n \notin Taken

(* created_at is the schema's DEFAULT now(): the database reads its clock as *)
(* it inserts, where Recent's cutoff is of the application's.                *)
NewRow(r, n) == [owner |-> r, ref |-> n, ip |-> ClientIP(sub[r]), at |-> now]

(* Fault: every error is retried. *)
RetriesAll(err, n) == n < Attempts

(* saveQuote's loop: only a duplicate reference is tried again. *)
Retries(err, n) == err = "duplicate" /\ n < Attempts

(* Fault: a failed attempt is not counted. *)
RetryUncounted(r, err) ==
    IF err = "duplicate" THEN UNCHANGED <<tries, pc, reply>>
    ELSE Answer(r, 503, NoRef) /\ UNCHANGED tries

(* Fault: the failed save is answered, and the handler goes on. *)
GiveUpWithoutReturn(r, err) ==
    /\ reply' = [reply EXCEPT ![r] = [status |-> 503, ref |-> NoRef]]
    /\ Goto(r, "send")
    /\ UNCHANGED tries

RetryOrGiveUp(r, err) ==
    IF Retries(err, tries[r] + 1)
      THEN /\ tries' = [tries EXCEPT ![r] = @ + 1]
           /\ UNCHANGED <<pc, reply>>
      ELSE /\ Answer(r, 503, NoRef)
           /\ UNCHANGED tries

Lead(r) == [owner |-> r, ref |-> ref[r]]

(* Fault: a failed send is recorded as sent. *)
OutcomeAlwaysSent(err) == "sent"

(* EventType of a send that returned err. *)
Outcome(err) == IF err = "none" THEN "sent" ELSE "failed"

-----------------------------------------------------------------------------
(* The steps of QuoteHandler for request r. *)

(* The request is turned away before any call leaves the handler. *)
Refuse(r) ==
    /\ pc[r] = "idle"
    /\ Screening(sub[r]) # Proceed
    /\ Answer(r, Screening(sub[r]), NoRef)
    /\ UNCHANGED <<sub, tries, ref, result, gone, store, inbox, now>>

Admit(r) ==
    /\ pc[r] = "idle"
    /\ Screening(sub[r]) = Proceed
    /\ Goto(r, IF Limit > 0 THEN "rate" ELSE "save")
    /\ UNCHANGED <<sub, run, gone, store, inbox, now>>

(* The rate limit: the count is read here, the insert comes later. *)
RefuseOverLimit(r) ==
    /\ pc[r] = "rate" /\ CtxAlive(r)
    /\ OverLimit(r)
    /\ Answer(r, 429, NoRef)
    /\ UNCHANGED <<sub, tries, ref, result, gone, store, inbox, now>>

PassLimit(r) ==
    /\ pc[r] = "rate" /\ CtxAlive(r)
    /\ ~OverLimit(r)
    /\ Goto(r, "save")
    /\ UNCHANGED <<sub, run, gone, store, inbox, now>>

(* A failed count lets the submission through. *)
FailOpen(r) ==
    /\ pc[r] = "rate"
    /\ "count" \in Faults \/ ~CtxAlive(r)
    /\ Goto(r, "save")
    /\ UNCHANGED <<sub, run, gone, store, inbox, now>>

InsertCommits(r) ==
    /\ pc[r] = "save" /\ CtxAlive(r)
    /\ \E n \in Refs :
         /\ MayInsert(n)
         /\ quotes' = quotes \cup {NewRow(r, n)}
         /\ ref' = [ref EXCEPT ![r] = n]
    /\ Goto(r, "send")
    /\ UNCHANGED <<sub, tries, result, reply, gone, late, events, inbox, now>>

(* Fault: a duplicate is taken for this lead, stored earlier. *)
CollisionTakenForSuccess(r) ==
    /\ pc[r] = "save" /\ CtxAlive(r)
    /\ \E n \in Refs : ~MayInsert(n) /\ ref' = [ref EXCEPT ![r] = n]
    /\ Goto(r, "send")
    /\ UNCHANGED <<sub, tries, result, reply, gone, store, inbox, now>>

(* The reference drawn is taken: SQLSTATE 23505, ErrDuplicateReference. *)
InsertCollides(r) ==
    /\ pc[r] = "save" /\ CtxAlive(r)
    /\ \E n \in Refs : ~MayInsert(n)
    /\ RetryOrGiveUp(r, "duplicate")
    /\ UNCHANGED <<sub, ref, result, gone, store, inbox, now>>

InsertFails(r) ==
    /\ pc[r] = "save"
    /\ "insert" \in Faults \/ ~CtxAlive(r)
    /\ RetryOrGiveUp(r, "other")
    /\ UNCHANGED <<sub, ref, result, gone, store, inbox, now>>

(* Fault: an insert that timed out is taken for committed. *)
TimeoutTakenForSuccess(r) ==
    /\ pc[r] = "save"
    /\ "timeout" \in Faults
    /\ \E n \in Refs : late' = late \cup {NewRow(r, n)} /\ ref' = [ref EXCEPT ![r] = n]
    /\ Goto(r, "send")
    /\ UNCHANGED <<sub, tries, result, reply, gone, quotes, events, inbox, now>>

(* The five seconds are over and the server has the statement. *)
InsertTimesOut(r) ==
    /\ pc[r] = "save"
    /\ "timeout" \in Faults
    /\ \E n \in Refs : late' = late \cup {NewRow(r, n)}
    /\ RetryOrGiveUp(r, "other")
    /\ UNCHANGED <<sub, ref, result, gone, quotes, events, inbox, now>>

SendSucceeds(r) ==
    /\ pc[r] = "send" /\ CtxAlive(r)
    /\ inbox' = inbox \cup {Lead(r)}
    /\ result' = [result EXCEPT ![r] = Outcome("none")]
    /\ Goto(r, "record")
    /\ UNCHANGED <<sub, tries, ref, reply, gone, store, now>>

(* Fault: notifySales returns early on a failed send. *)
FailedSendUnrecorded(r) ==
    /\ pc[r] = "send" /\ "email" \in Faults
    /\ Goto(r, "respond")
    /\ UNCHANGED <<sub, run, gone, store, inbox, now>>

SendFails(r) ==
    /\ pc[r] = "send"
    /\ "email" \in Faults \/ ~CtxAlive(r)
    /\ result' = [result EXCEPT ![r] = Outcome("error")]
    /\ Goto(r, "record")
    /\ UNCHANGED <<sub, tries, ref, reply, gone, store, inbox, now>>

RecordEvent(r) ==
    /\ pc[r] = "record" /\ CtxAlive(r)
    /\ events' = events \cup {[ref |-> ref[r], type |-> result[r]]}
    /\ Goto(r, "respond")
    /\ UNCHANGED <<sub, run, gone, quotes, late, inbox, now>>

(* A failure to record is logged and otherwise ignored.  An insert given up   *)
(* that commits after all is RecordEvent: nothing reads an event, so when it  *)
(* commits is all the same.                                                   *)
RecordFails(r) ==
    /\ pc[r] = "record"
    /\ "event" \in Faults \/ ~CtxAlive(r)
    /\ Goto(r, "respond")
    /\ UNCHANGED <<sub, run, gone, store, inbox, now>>

Respond(r) ==
    /\ pc[r] = "respond"
    /\ Answer(r, 200, ref[r])
    /\ UNCHANGED <<sub, tries, ref, result, gone, store, inbox, now>>

-----------------------------------------------------------------------------
(* What happens around the handler. *)

(* The visitor closes the page; the handler runs on. *)
Leave(r) ==
    /\ InFlight(r) /\ r \notin gone
    /\ gone' = gone \cup {r}
    /\ UNCHANGED <<sub, pc, run, store, inbox, now>>

(* The process dies; the call it was in may still take effect. *)
Kill(r) ==
    /\ "kill" \in Faults /\ InFlight(r)
    /\ \/ UNCHANGED <<late, events>>
       \/ /\ pc[r] = "save"
          /\ \E n \in Refs : late' = late \cup {NewRow(r, n)}
          /\ UNCHANGED events
       \/ /\ pc[r] = "record"
          /\ events' = events \cup {[ref |-> ref[r], type |-> result[r]]}
          /\ UNCHANGED late
    /\ Goto(r, "killed")
    /\ UNCHANGED <<sub, run, gone, quotes, inbox, now>>

(* The server ends an insert nobody waits for any more. *)
LateCommit(q) ==
    /\ q \in late
    /\ MayInsert(q.ref)
    /\ quotes' = quotes \cup {q}
    /\ late' = late \ {q}
    /\ UNCHANGED <<sub, pc, run, gone, events, inbox, now>>

LateDrop(q) ==
    /\ q \in late
    /\ late' = late \ {q}
    /\ UNCHANGED <<sub, pc, run, gone, quotes, events, inbox, now>>

(* The provider delivers a mail whose send failed or died: its answer never *)
(* arrived, or came after the deadline.                                     *)
LateDelivery(r) ==
    /\ "lost_ack" \in Faults
    /\ pc[r] \in Ended \cup {"record", "respond"}
    /\ ref[r] # NoRef /\ result[r] # "sent"
    /\ inbox' = inbox \cup {Lead(r)}
    /\ UNCHANGED <<sub, pc, run, gone, store, now>>

Tick ==
    /\ now < Horizon
    /\ now' = now + 1
    /\ UNCHANGED <<sub, pc, run, gone, store, inbox>>

-----------------------------------------------------------------------------
Save(r) == InsertCommits(r) \/ InsertCollides(r) \/ InsertFails(r) \/ InsertTimesOut(r)
Notify(r) == SendSucceeds(r) \/ SendFails(r)
Record(r) == RecordEvent(r) \/ RecordFails(r)

(* A handler run past the guards; every call it makes has a deadline. *)
Proceeds(r) ==
    \/ RefuseOverLimit(r) \/ PassLimit(r) \/ FailOpen(r)
    \/ Save(r) \/ Notify(r) \/ Record(r) \/ Respond(r)

Next ==
    \/ \E r \in Requests : Refuse(r) \/ Admit(r) \/ Proceeds(r) \/ Leave(r) \/ Kill(r)
    \/ \E q \in late : LateCommit(q) \/ LateDrop(q)
    \/ \E r \in Requests : LateDelivery(r)
    \/ Tick

Spec == Init /\ [][Next]_vars

(* An admitted run goes on: each step returns or runs into its timeout. *)
Fairness == \A r \in Requests : WF_vars(Proceeds(r))

FairSpec == Spec /\ Fairness

-----------------------------------------------------------------------------
(* Properties. *)

(* Two leads never share a reference, whoever inserted them and however late *)
(* the server committed: a visitor quoting a reference names one lead.       *)
UniqueReferences == \A p, q \in quotes : p.ref = q.ref => p = q

(* One submission is one lead: saveQuote's retries never insert it twice,    *)
(* not even when an attempt that timed out commits after all.                *)
OneLeadPerSubmission ==
    \A p, q \in quotes \cup late : p.owner = q.owner => p = q

(* A visitor who was given a reference finds it on record under their own    *)
(* submission.                                                               *)
AnsweredReferenceStored ==
    \A r \in Requests : reply[r].ref # NoRef =>
        \E q \in quotes : q.owner = r /\ q.ref = reply[r].ref

(* Only forms that pass the guards are stored or announced, whatever the     *)
(* order the guards run in.                                                  *)
OnlyCleanFormsStored == \A q \in quotes \cup late : Clean(sub[q.owner])

(* With no trusted proxy a row is filed under the address of its peer,       *)
(* whatever the headers say, and so counts against that address.             *)
DirectRowsCountAgainstPeer ==
    ~TrustProxy => \A q \in quotes \cup late : q.ip = sub[q.owner].remote

(* The lead is the source of truth: sales hears of a submission only when    *)
(* its row is on record under the reference the mail quotes.                 *)
AnnouncedOnlyIfSaved ==
    \A m \in inbox : \E q \in quotes : q.owner = m.owner /\ q.ref = m.ref

(* quote_email_events tells the truth: at most one outcome per stored lead,  *)
(* and "sent" only for one whose mail the provider accepted.                 *)
EventsTruthful ==
    /\ \A d, e \in events : d.ref = e.ref => d = e
    /\ \A e \in events : \E q \in quotes :
          /\ q.ref = e.ref
          /\ e.type = "sent" => [owner |-> q.owner, ref |-> q.ref] \in inbox

(* A visitor told that the submission failed or was refused can send it      *)
(* again: sales has not been told of it.                                     *)
RefusedNeverAnnounced ==
    \A r \in Requests : reply[r].status \notin {0, 200, 500} =>
        \A m \in inbox : m.owner # r

OnRecord(r) == \E q \in quotes : q.owner = r /\ q.ref = ref[r]

Settled(r) ==
    \/ /\ reply[r].status = 200 /\ OnRecord(r)
       /\ \/ Lead(r) \in inbox /\ [ref |-> ref[r], type |-> "sent"] \in events
          \/ [ref |-> ref[r], type |-> "failed"] \in events
    \/ /\ reply[r].status = 503
       /\ \A q \in quotes \cup late : q.owner # r

(* When no insert times out, no event insert or template fails and no        *)
(* process dies, a lead past the rate limit is saved, tried to be announced  *)
(* and logged with what came of it, or not saved at all when the references  *)
(* run out; and that holds for a visitor who has navigated away as well.     *)
AllOrNothing ==
    Faults \cap {"timeout", "event", "render", "kill"} = {} =>
        \A r \in Requests : pc[r] = "save" ~> Settled(r)

-----------------------------------------------------------------------------
(* The runs implement the ledger of leads. *)

(* What a response tells the visitor. *)
AnswerKind(a) ==
    IF a.status = 0 THEN "open"
    ELSE IF a.status = 503 THEN "unavailable"
    ELSE IF a.status = 500 THEN "error"
    ELSE IF a.ref # NoRef THEN "accepted"
    ELSE "declined"

Ledger == INSTANCE LeadLedger WITH
    ledger    <- {[owner |-> q.owner, ref |-> q.ref] : q \in quotes},
    announced <- inbox,
    log       <- events,
    answer    <- [r \in Requests |-> [kind |-> AnswerKind(reply[r]), ref |-> reply[r].ref]]

(* Every step of the handlers, the database and the provider is a step of    *)
(* the abstract ledger or leaves it alone.                                   *)
ImplementsLedger == Ledger!Spec

-----------------------------------------------------------------------------
(* What the texts of the program say and the code does not hold. *)

(* README: "per-IP-hash hourly limit".                                       *)
HourlyLimitHolds ==
    Limit > 0 => \A ip \in Addrs : Cardinality(Recent(ip)) <= Limit

(* The 503 form: "we couldn't submit your request right now".                *)
UnavailableNotStored ==
    \A r \in Requests : reply[r].status = 503 => \A q \in quotes : q.owner # r
=============================================================================
