-------------------------- MODULE QuoteHandlerProofs --------------------------
(***************************************************************************)
(* Theorems about QuoteHandler, for any requests, references, limit,       *)
(* clock bound and set of faults.                                          *)
(***************************************************************************)
EXTENDS QuoteInvariant, TLAPS

(* A submission the guards let through is clean, in whatever order they ran. *)
LEMMA ScreeningIsClean ==
    ASSUME NEW s \in Submission, Screening(s) = Proceed
    PROVE  Clean(s)
  <1>1. /\ 403 # Proceed /\ 413 # Proceed /\ 400 # Proceed
        /\ 200 # Proceed /\ 422 # Proceed
    BY DEF Proceed
  <1>2. /\ SameOrigin(s) /\ ~s.website /\ s.valid
        /\ s.body # "too_large" /\ s.body # "malformed"
    BY <1>1, Zenon DEF Screening
  <1>3. s.body = "ok"
    BY <1>2 DEF Submission
  <1>4. \/ s.origin \in OwnOrigins \cup AllowedOrigins
        \/ s.origin = Absent /\ s.fetchSite \notin {"cross-site", "same-site"}
    BY <1>2 DEF SameOrigin, Absent
  <1> QED
    BY <1>2, <1>3, <1>4 DEF Clean

(* A guard's refusal is one of the handler's statuses. *)
LEMMA ScreeningStatus ==
    ASSUME NEW s \in Submission
    PROVE  Screening(s) \in {Proceed, 200, 400, 403, 413, 422}
  BY DEF Screening

(* The address a submission is filed under is an address. *)
LEMMA ClientIPType ==
    ASSUME NEW s \in Submission
    PROVE  ClientIP(s) \in Addrs
  BY GuardsAssumption DEF GuardsAssumption, Submission, ClientIP

-----------------------------------------------------------------------------
(* Type correctness. *)

Statuses == {0, 200, 400, 403, 413, 422, 429, 500, 503}

(* Answering keeps the responses and the program counters typed.            *)
LEMMA AnswerType ==
    ASSUME TypeOK, NEW r \in Requests, NEW status \in Statuses,
           NEW n \in Refs \cup {NoRef}, Answer(r, status, n)
    PROVE  /\ reply' \in [Requests -> [status : Statuses, ref : Refs \cup {NoRef}]]
           /\ pc' \in [Requests -> Ended \cup {"idle", "rate", "save", "send", "record", "respond"}]
  BY DEF TypeOK, Answer, Rendered, Goto, Ended, Statuses

(* A row made by a request is a row of the table. *)
LEMMA NewRowType ==
    ASSUME TypeOK, NEW r \in Requests, NEW n \in Refs
    PROVE  NewRow(r, n) \in Row
  BY ClientIPType, HandlerAssumption DEF HandlerAssumption, TypeOK, NewRow, Row

(* A failed insert leaves retries, responses and program counters typed.    *)
LEMMA RetryType ==
    ASSUME TypeOK, NEW r \in Requests, NEW err, RetryOrGiveUp(r, err)
    PROVE  /\ tries' \in [Requests -> 0..(Attempts - 1)]
           /\ reply' \in [Requests -> [status : Statuses, ref : Refs \cup {NoRef}]]
           /\ pc' \in [Requests -> Ended \cup {"idle", "rate", "save", "send", "record", "respond"}]
  <1>1. CASE Retries(err, tries[r] + 1)
    BY <1>1, HandlerAssumption DEF HandlerAssumption, RetryOrGiveUp, Retries, TypeOK, Statuses
  <1>2. CASE ~Retries(err, tries[r] + 1)
    <2>1. Answer(r, 503, NoRef) /\ UNCHANGED tries
      BY <1>2 DEF RetryOrGiveUp
    <2> QED
      BY <2>1, AnswerType DEF TypeOK, Statuses
  <1> QED
    BY <1>1, <1>2

(* A run at or past the send has a reference, and its lead is stored.       *)
LEMMA StoredRef ==
    ASSUME TypeOK, PhaseInv, NEW r \in Requests,
           ref[r] # NoRef \/ pc[r] \in {"send", "record", "respond"}
    PROVE  /\ Stored(r)
           /\ ref[r] \in Refs
           /\ Lead(r) \in [owner : Requests, ref : Refs]
  <1>0. Stored(r)
    BY DEF PhaseInv, Phase
  <1>1. PICK q \in quotes : q.owner = r /\ q.ref = ref[r]
    BY <1>0 DEF Stored
  <1>2. q \in Row
    BY DEF TypeOK
  <1> QED
    BY <1>0, <1>1, <1>2 DEF Row, Lead

(* Every step of a run, of the database or of the provider leaves each    *)
(* variable in its set.                                                    *)
LEMMA TypeStep == TypeOK /\ PhaseInv /\ [Next]_vars => TypeOK'
  <1> SUFFICES ASSUME TypeOK, PhaseInv, [Next]_vars PROVE TypeOK'
    OBVIOUS
  <1> USE DEF Statuses
  <1>1. ASSUME NEW r \in Requests, Refuse(r) PROVE TypeOK'
    <2>1. Screening(sub[r]) \in Statuses
      BY ScreeningStatus, HandlerAssumption DEF HandlerAssumption, TypeOK, Proceed
    <2>2. Answer(r, Screening(sub[r]), NoRef)
      BY <1>1 DEF Refuse
    <2> QED
      BY <1>1, <2>1, <2>2, AnswerType DEF Refuse, TypeOK, store
  <1>2. ASSUME NEW r \in Requests, Admit(r) PROVE TypeOK'
    BY <1>2 DEF Admit, Goto, TypeOK, run, store, Ended
  <1>3. ASSUME NEW r \in Requests, RefuseOverLimit(r) PROVE TypeOK'
    BY <1>3, AnswerType DEF RefuseOverLimit, TypeOK, store
  <1>4. ASSUME NEW r \in Requests, PassLimit(r) \/ FailOpen(r) PROVE TypeOK'
    BY <1>4 DEF PassLimit, FailOpen, Goto, TypeOK, run, store, Ended
  <1>5. ASSUME NEW r \in Requests, InsertCommits(r) PROVE TypeOK'
    BY <1>5, NewRowType DEF InsertCommits, Goto, TypeOK, Ended
  <1>6. ASSUME NEW r \in Requests, InsertCollides(r) \/ InsertFails(r) PROVE TypeOK'
    BY <1>6, RetryType DEF InsertCollides, InsertFails, TypeOK, store
  <1>7. ASSUME NEW r \in Requests, InsertTimesOut(r) PROVE TypeOK'
    BY <1>7, RetryType, NewRowType DEF InsertTimesOut, TypeOK
  <1>8. ASSUME NEW r \in Requests, Notify(r) PROVE TypeOK'
    <2>1. Lead(r) \in [owner : Requests, ref : Refs]
      BY <1>8, StoredRef DEF Notify, SendSucceeds, SendFails
    <2>2. inbox' \subseteq [owner : Requests, ref : Refs]
      BY <1>8, <2>1 DEF Notify, SendSucceeds, SendFails, TypeOK, Outcome
    <2>3. result' \in [Requests -> {"none", "sent", "failed"}]
      BY <1>8 DEF Notify, SendSucceeds, SendFails, Outcome, TypeOK
    <2> QED
      BY <1>8, <2>2, <2>3 DEF Notify, SendSucceeds, SendFails, Goto,
                        TypeOK, store, Ended
  <1>9. ASSUME NEW r \in Requests, Record(r) PROVE TypeOK'
    <2>1. [ref |-> ref[r], type |-> result[r]] \in [ref : Refs, type : {"sent", "failed"}]
      BY <1>9, StoredRef DEF Record, RecordEvent, RecordFails, PhaseInv, Phase
    <2> QED
      BY <1>9, <2>1 DEF Record, RecordEvent, RecordFails, Goto, TypeOK, run, store, Ended
  <1>10. ASSUME NEW r \in Requests, Respond(r) PROVE TypeOK'
    BY <1>10, StoredRef, AnswerType DEF Respond, TypeOK, store
  <1>11. ASSUME NEW r \in Requests, Leave(r) PROVE TypeOK'
    BY <1>11 DEF Leave, TypeOK, run, store
  <1>12. ASSUME NEW r \in Requests, Kill(r) PROVE TypeOK'
    <2>1. /\ late' \subseteq Row
          /\ events' \subseteq [ref : Refs, type : {"sent", "failed"}]
      BY <1>12, StoredRef, NewRowType DEF Kill, TypeOK, PhaseInv, Phase
    <2> QED
      BY <1>12, <2>1 DEF Kill, Goto, TypeOK, run, Ended
  <1>13. ASSUME NEW q \in late, LateCommit(q) \/ LateDrop(q) PROVE TypeOK'
    BY <1>13 DEF LateCommit, LateDrop, TypeOK, run
  <1>14. CASE Tick
    BY <1>14, HandlerAssumption DEF HandlerAssumption, Tick, TypeOK, run, store
  <1>15. CASE UNCHANGED vars
    BY <1>15 DEF vars, run, store, TypeOK
  <1>16. ASSUME NEW r \in Requests, LateDelivery(r) PROVE TypeOK'
    <2>1. Lead(r) \in [owner : Requests, ref : Refs]
      BY <1>16, StoredRef DEF LateDelivery
    <2> QED
      BY <1>16, <2>1 DEF LateDelivery, TypeOK, run, store
  <1> QED
    BY <1>1, <1>2, <1>3, <1>4, <1>5, <1>6, <1>7, <1>8, <1>9, <1>10, <1>11, <1>12, <1>13,
       <1>14, <1>15, <1>16
    DEF Next, Proceeds, Save

-----------------------------------------------------------------------------
(* The inductive invariant. *)

(* Before the first request the tables and the inbox are empty, so every   *)
(* part of the inductive invariant holds.                                  *)
THEOREM InitIInv == Init => IInv
  <1> SUFFICES ASSUME Init PROVE IInv
    OBVIOUS
  <1>1. TypeOK
    BY HandlerAssumption DEF HandlerAssumption, Init, TypeOK, NoReply, Ended
  <1>2. PhaseInv
    BY DEF Init, PhaseInv, Phase, NoTrace
  <1>3. RowInv /\ AnnouncedOnlyIfSaved /\ EventInv
    BY DEF Init, RowInv, UniqueReferences, OneLeadPerSubmission, OnlyCleanFormsStored,
           AnnouncedOnlyIfSaved, EventInv
  <1>4. ReplyInv
    BY DEF Init, ReplyInv, AnsweredReferenceStored, RefusedNeverAnnounced, NoReply
  <1> QED
    BY <1>1, <1>2, <1>3, <1>4 DEF IInv

(* What answering a request does to it, and to the others. *)
LEMMA AnswerEffect ==
    ASSUME TypeOK, NEW r \in Requests, NEW status, NEW n, Answer(r, status, n)
    PROVE  /\ pc'[r] = "done"
           /\ \/ reply'[r] = [status |-> status, ref |-> n]
              \/ reply'[r] = [status |-> 500, ref |-> NoRef]
           /\ \A x \in Requests : x # r => pc'[x] = pc[x] /\ reply'[x] = reply[x]
  BY DEF TypeOK, Answer, Rendered, Goto

(* A failed insert leaves the request trying, or answered with a failure. *)
LEMMA RetryEffect ==
    ASSUME TypeOK, NEW r \in Requests, NEW err, RetryOrGiveUp(r, err)
    PROVE  /\ \A x \in Requests : x # r => pc'[x] = pc[x] /\ reply'[x] = reply[x]
           /\ \/ pc'[r] = pc[r] /\ reply'[r] = reply[r] /\ err = "duplicate"
              \/ pc'[r] = "done" /\ reply'[r].status \in {500, 503} /\ reply'[r].ref = NoRef
  <1>1. CASE Retries(err, tries[r] + 1)
    BY <1>1 DEF RetryOrGiveUp, Retries
  <1>2. CASE ~Retries(err, tries[r] + 1)
    <2>1. Answer(r, 503, NoRef)
      BY <1>2 DEF RetryOrGiveUp
    <2>2. /\ pc'[r] = "done"
          /\ \/ reply'[r] = [status |-> 503, ref |-> NoRef]
             \/ reply'[r] = [status |-> 500, ref |-> NoRef]
          /\ \A x \in Requests : x # r => pc'[x] = pc[x] /\ reply'[x] = reply[x]
      BY <2>1, AnswerEffect
    <2> QED
      BY <2>2
  <1> QED
    BY <1>1, <1>2

(* A quiet step of run r adds nothing to the tables or the inbox.  It keeps *)
(* the invariant when r moves forward, and any reference it hands out is    *)
(* the stored one.                                                          *)
QuietMove(r) ==
    /\ pc'[r] \in {"idle", "rate", "save"} => pc[r] \in {"idle", "rate", "save"}
    /\ pc'[r] \in {"rate", "save"} => Screening(sub[r]) = Proceed
    /\ pc'[r] \in {"send", "record", "respond"} => pc[r] \in {"send", "record", "respond"}
    /\ pc'[r] = "record" => pc[r] = "record"
    /\ pc[r] \in {"respond", "done", "killed"} => pc'[r] \in {"respond", "done", "killed"}

QuietReply(r) ==
    \/ reply'[r] = reply[r] /\ (pc'[r] = "done" <=> pc[r] = "done")
    \/ reply[r] = NoReply /\ reply'[r] = NoReply
    \/ /\ reply[r] = NoReply /\ pc'[r] = "done"
       /\ \/ reply'[r].ref = NoRef /\ pc[r] \in {"idle", "rate", "save"}
          \/ reply'[r].ref = NoRef /\ reply'[r].status = 500
          \/ reply'[r].ref = ref[r] /\ reply'[r].status = 200 /\ pc[r] = "respond"

(* A step of one run that touches no table and no mail keeps the invariant *)
(* when it moves on or answers the way the code does at that point.        *)
LEMMA QuietStep ==
    ASSUME IInv, TypeOK', NEW r \in Requests, QuietMove(r), QuietReply(r),
           \A x \in Requests : x # r => pc'[x] = pc[x] /\ reply'[x] = reply[x],
           UNCHANGED <<sub, ref, result, quotes, inbox, events>>, late' \subseteq late
    PROVE  IInv'
  <1> USE DEF IInv
  <1>1. PhaseInv'
    BY DEF PhaseInv, Phase, NoTrace, Stored, Lead, QuietMove, QuietReply, NoReply
  <1>2. RowInv'
    BY DEF RowInv, UniqueReferences, OneLeadPerSubmission, OnlyCleanFormsStored
  <1>3. AnsweredReferenceStored'
    BY DEF ReplyInv, AnsweredReferenceStored, QuietReply, PhaseInv, Phase, Stored, NoReply
  <1>4. RefusedNeverAnnounced'
    BY DEF ReplyInv, RefusedNeverAnnounced, QuietReply, PhaseInv, Phase, NoTrace, NoReply
  <1>5. \A q \in late' : reply'[q.owner].status \in {0, 500, 503}
    <2> SUFFICES ASSUME NEW q \in late, q.owner = r
                 PROVE  reply'[r].status \in {0, 500, 503}
      BY DEF ReplyInv, TypeOK, Row
    <2>1. pc[r] \notin {"idle", "rate", "save"}
      BY DEF PhaseInv, Phase, NoTrace
    <2>2. pc[r] # "respond"
      <3> SUFFICES ASSUME pc[r] = "respond" PROVE FALSE
        OBVIOUS
      <3>1. PICK p \in quotes : p.owner = r
        BY DEF PhaseInv, Phase, Stored
      <3>2. p = q
        BY <3>1 DEF RowInv, OneLeadPerSubmission
      <3> QED
        BY <3>2 DEF RowInv
    <2> QED
      BY <2>1, <2>2 DEF QuietReply, ReplyInv, NoReply
  <1>6. AnnouncedOnlyIfSaved'
    BY DEF AnnouncedOnlyIfSaved
  <1>7. EventInv'
    <2>1. \A q \in quotes : pc[q.owner] \in {"respond", "done", "killed"} =>
                            pc'[q.owner] \in {"respond", "done", "killed"}
      BY DEF QuietMove, TypeOK, Row
    <2> QED
      BY <2>1 DEF EventInv
  <1>8. ReplyInv'
    BY <1>3, <1>4, <1>5 DEF ReplyInv
  <1> QED
    BY <1>1, <1>2, <1>6, <1>7, <1>8

-----------------------------------------------------------------------------
(* One lemma for each step that adds to the tables or the inbox. *)

(* A row inserted by its own run is the only one of that run. *)
LEMMA CommitStep ==
    ASSUME IInv, TypeOK', NEW r \in Requests, InsertCommits(r)
    PROVE  IInv'
  <1> USE DEF IInv
  <1>1. PICK n \in Refs : /\ n \notin Taken
                         /\ quotes' = quotes \cup {NewRow(r, n)}
                         /\ ref' = [ref EXCEPT ![r] = n]
    BY DEF InsertCommits, MayInsert
  <1>2. /\ pc[r] = "save" /\ pc' = [pc EXCEPT ![r] = "send"]
        /\ UNCHANGED <<sub, tries, result, reply, gone, late, events, inbox, now>>
    BY DEF InsertCommits, Goto
  <1>3. NewRow(r, n) \in quotes' /\ NewRow(r, n).owner = r /\ NewRow(r, n).ref = n
    BY <1>1 DEF NewRow
  <1>4. NoTrace(r)
    BY <1>2 DEF PhaseInv, Phase
  <1>5. \A q \in quotes : q.ref # n
    BY <1>1 DEF Taken
  <1>6. PhaseInv'
    <2> SUFFICES ASSUME NEW x \in Requests
                 PROVE  Phase(x)'
      BY DEF PhaseInv, Phase
    <2>1. CASE x = r
      <3>1. reply'[r] = NoReply /\ ref'[r] = n /\ pc'[r] = "send"
        BY <1>1, <1>2 DEF PhaseInv, Phase, TypeOK
      <3>2. Stored(r)'
        BY <1>3, <3>1 DEF Stored
      <3> QED
        BY <2>1, <3>1, <3>2, HandlerAssumption DEF HandlerAssumption, Phase, NoReply
    <2>2. CASE x # r
      BY <1>1, <1>2, <1>3, <2>2 DEF PhaseInv, Phase, Stored, NoTrace, Lead, TypeOK
    <2> QED
      BY <2>1, <2>2
  <1>7. RowInv'
    <2>1. UniqueReferences'
      BY <1>1, <1>3, <1>5 DEF RowInv, UniqueReferences
    <2>2. OneLeadPerSubmission'
      BY <1>1, <1>2, <1>3, <1>4 DEF RowInv, OneLeadPerSubmission, NoTrace
    <2>3. OnlyCleanFormsStored'
      <3>1. Clean(sub[r])
        BY <1>2, ScreeningIsClean, HandlerAssumption
        DEF HandlerAssumption, PhaseInv, Phase, TypeOK
      <3> QED
        BY <1>1, <1>2, <1>3, <3>1 DEF RowInv, OnlyCleanFormsStored
    <2>4. (quotes \cap late = {})'
      BY <1>1, <1>2, <1>3, <1>4 DEF RowInv, NoTrace
    <2> QED
      BY <2>1, <2>2, <2>3, <2>4 DEF RowInv
  <1>8. ReplyInv' /\ AnnouncedOnlyIfSaved'
    BY <1>1, <1>2 DEF ReplyInv, AnsweredReferenceStored, RefusedNeverAnnounced,
                      AnnouncedOnlyIfSaved
  <1>9. EventInv'
    <2>1. \A q \in quotes : q \in quotes' /\ pc'[q.owner] = pc[q.owner]
      BY <1>1, <1>2, <1>4 DEF NoTrace, TypeOK, Row
    <2> QED
      BY <1>2, <2>1 DEF EventInv
  <1> QED
    BY <1>6, <1>7, <1>8, <1>9

(* A statement handed to the server by a run that had none there, as the   *)
(* run ends unsaved.                                                       *)
LEMMA LateStep ==
    ASSUME IInv, TypeOK', NEW r \in Requests, NEW n \in Refs,
           pc[r] = "save", late' = late \cup {NewRow(r, n)},
           pc'[r] \in {"done", "killed"},
           reply'[r].status \in {0, 500, 503}, reply'[r].ref = NoRef,
           pc'[r] = "killed" => reply'[r] = NoReply,
           \A x \in Requests : x # r => pc'[x] = pc[x] /\ reply'[x] = reply[x],
           UNCHANGED <<sub, ref, result, quotes, inbox, events>>
    PROVE  IInv'
  <1> USE DEF IInv
  <1>1. NewRow(r, n).owner = r
    BY DEF NewRow
  <1>2. NoTrace(r)
    BY DEF PhaseInv, Phase
  <1>3. PhaseInv'
    BY <1>1 DEF PhaseInv, Phase, NoTrace, Stored, Lead
  <1>4. RowInv'
    <2>1. OneLeadPerSubmission'
      BY <1>1, <1>2 DEF RowInv, OneLeadPerSubmission, NoTrace
    <2>2. OnlyCleanFormsStored'
      <3>1. Clean(sub[r])
        BY ScreeningIsClean, HandlerAssumption DEF HandlerAssumption, PhaseInv, Phase, TypeOK
      <3> QED
        BY <1>1, <3>1 DEF RowInv, OnlyCleanFormsStored
    <2>3. (quotes \cap late = {})'
      BY <1>1, <1>2 DEF RowInv, NoTrace
    <2> QED
      BY <2>1, <2>2, <2>3 DEF RowInv, UniqueReferences
  <1>5. AnsweredReferenceStored'
    BY DEF ReplyInv, AnsweredReferenceStored
  <1>6. RefusedNeverAnnounced'
    BY <1>2 DEF ReplyInv, RefusedNeverAnnounced, NoTrace
  <1>7. \A q \in late' : reply'[q.owner].status \in {0, 500, 503}
    BY <1>1 DEF ReplyInv, TypeOK, Row
  <1>8. EventInv'
    <2>1. \A q \in quotes : q.owner # r
      BY <1>2 DEF NoTrace
    <2> QED
      BY <2>1 DEF EventInv, TypeOK, Row
  <1>9. AnnouncedOnlyIfSaved'
    BY DEF AnnouncedOnlyIfSaved
  <1>10. ReplyInv'
    BY <1>5, <1>6, <1>7 DEF ReplyInv
  <1> QED
    BY <1>3, <1>4, <1>8, <1>9, <1>10

(* The server inserts what its caller has given up. *)
LEMMA LateCommitStep ==
    ASSUME IInv, TypeOK', NEW q \in late, LateCommit(q)
    PROVE  IInv'
  <1> USE DEF IInv
  <1>1. /\ quotes' = quotes \cup {q} /\ late' = late \ {q}
        /\ \A p \in quotes : p.ref # q.ref
        /\ UNCHANGED <<sub, pc, tries, ref, result, reply, gone, events, inbox, now>>
    BY DEF LateCommit, MayInsert, Taken, run
  <1>2. PhaseInv'
    BY <1>1 DEF PhaseInv, Phase, NoTrace, Stored, Lead
  <1>3. RowInv'
    <2>1. UniqueReferences'
      BY <1>1 DEF RowInv, UniqueReferences
    <2>2. OneLeadPerSubmission' /\ OnlyCleanFormsStored'
      BY <1>1 DEF RowInv, OneLeadPerSubmission, OnlyCleanFormsStored
    <2>3. (quotes \cap late = {})'
      BY <1>1 DEF RowInv
    <2> QED
      BY <2>1, <2>2, <2>3 DEF RowInv
  <1>4. ReplyInv'
    BY <1>1 DEF ReplyInv, AnsweredReferenceStored, RefusedNeverAnnounced
  <1>5. AnnouncedOnlyIfSaved' /\ EventInv'
    BY <1>1 DEF AnnouncedOnlyIfSaved, EventInv
  <1> QED
    BY <1>2, <1>3, <1>4, <1>5

(* A mail about a stored lead whose visitor was not told to try again, or   *)
(* none, and perhaps the outcome of its send.                               *)
LEMMA NotifyStep ==
    ASSUME IInv, TypeOK', NEW r \in Requests,
           ref[r] # NoRef, pc[r] # "save",
           inbox' \in {inbox, inbox \cup {Lead(r)}},
           \/ UNCHANGED <<pc, result>>
           \/ /\ pc[r] = "send" /\ pc'[r] = "record"
              /\ result'[r] \in {"sent", "failed"}
              /\ result'[r] = "sent" => Lead(r) \in inbox',
           \A x \in Requests : x # r => pc'[x] = pc[x] /\ result'[x] = result[x],
           UNCHANGED <<sub, ref, reply, quotes, late, events>>
    PROVE  IInv'
  <1> USE DEF IInv
  <1>1. /\ Stored(r) /\ reply[r].status \in {0, 200, 500}
        /\ Lead(r).owner = r /\ Lead(r).ref = ref[r]
        /\ pc[r] \notin {"idle", "rate", "save"}
    <2>1. Stored(r) /\ reply[r].status \in {0, 200, 500}
      BY DEF PhaseInv, Phase
    <2>2. pc[r] \notin {"idle", "rate", "save"}
      BY <2>1 DEF PhaseInv, Phase, NoTrace, Stored
    <2> QED
      BY <2>1, <2>2 DEF Lead
  <1>2. Lead(r)' = Lead(r) /\ \A x \in Requests : Lead(x)' = Lead(x)
    BY DEF Lead
  <1>3. PhaseInv'
    <2> SUFFICES ASSUME NEW x \in Requests PROVE Phase(x)'
      BY DEF PhaseInv
    <2>0. Stored(x)' = Stored(x)
      BY DEF Stored
    <2>1. CASE x = r
      BY <1>1, <1>2, <2>0, <2>1 DEF PhaseInv, Phase
    <2>2. CASE x # r
      BY <1>1, <1>2, <2>0, <2>2 DEF PhaseInv, Phase, NoTrace
    <2> QED
      BY <2>1, <2>2
  <1>4. RowInv'
    BY DEF RowInv, UniqueReferences, OneLeadPerSubmission, OnlyCleanFormsStored
  <1>5. ReplyInv'
    BY <1>1 DEF ReplyInv, AnsweredReferenceStored, RefusedNeverAnnounced
  <1>6. AnnouncedOnlyIfSaved'
    BY <1>1 DEF AnnouncedOnlyIfSaved, Stored
  <1>7. EventInv'
    <2>1. \A q \in quotes : pc[q.owner] \in {"respond", "done", "killed"} =>
                            pc'[q.owner] = pc[q.owner]
      BY DEF TypeOK, Row
    <2> QED
      BY <2>1 DEF EventInv
  <1> QED
    BY <1>3, <1>4, <1>5, <1>6, <1>7

(* The outcome of a stored lead, the first on record for it.                *)
LEMMA RecordStep ==
    ASSUME IInv, TypeOK', NEW r \in Requests, pc[r] = "record",
           events' = events \cup {[ref |-> ref[r], type |-> result[r]]},
           pc'[r] \in {"respond", "killed"},
           \A x \in Requests : x # r => pc'[x] = pc[x],
           UNCHANGED <<sub, ref, result, reply, quotes, late, inbox>>
    PROVE  IInv'
  <1> USE DEF IInv
  <1>1. PICK s \in quotes : s.owner = r /\ s.ref = ref[r]
    BY DEF PhaseInv, Phase, Stored
  <1>2. PhaseInv'
    BY DEF PhaseInv, Phase, Stored, NoTrace, Lead
  <1>3. RowInv'
    BY DEF RowInv, UniqueReferences, OneLeadPerSubmission, OnlyCleanFormsStored
  <1>4. ReplyInv'
    BY DEF ReplyInv, AnsweredReferenceStored, RefusedNeverAnnounced
  <1>5. AnnouncedOnlyIfSaved'
    BY DEF AnnouncedOnlyIfSaved
  <1>6. EventInv'
    <2> DEFINE new == [ref |-> ref[r], type |-> result[r]]
    <2>1. new.ref = s.ref /\ new.type = result[r] /\ events' = events \cup {new}
      BY <1>1
    <2>2. ASSUME NEW e \in events, e.ref = s.ref PROVE FALSE
      <3>1. PICK q \in quotes : q.ref = s.ref /\ pc[q.owner] \in {"respond", "done", "killed"}
        BY <2>2 DEF EventInv
      <3>2. q = s
        BY <3>1 DEF RowInv, UniqueReferences
      <3> QED
        BY <1>1, <3>1, <3>2
    <2>3. new.type = "sent" => [owner |-> s.owner, ref |-> s.ref] \in inbox
      BY <1>1, <2>1 DEF PhaseInv, Phase, Lead
    <2>4. \A q \in quotes : pc[q.owner] \in {"respond", "done", "killed"} =>
                            pc'[q.owner] = pc[q.owner]
      BY DEF TypeOK, Row
    <2> HIDE DEF new
    <2> QED
      BY <1>1, <2>1, <2>2, <2>3, <2>4 DEF EventInv
  <1> QED
    BY <1>2, <1>3, <1>4, <1>5, <1>6

-----------------------------------------------------------------------------
(* The invariant is inductive.                                              *)
THEOREM NextIInv == IInv /\ [Next]_vars => IInv'
  <1> SUFFICES ASSUME IInv, [Next]_vars PROVE IInv'
    OBVIOUS
  <1>t. TypeOK /\ TypeOK'
    BY TypeStep DEF IInv
  <1>p. \A r \in Requests : pc[r] # "done" => reply[r] = NoReply
    BY DEF IInv, PhaseInv, Phase
  <1>1. ASSUME NEW r \in Requests, Refuse(r) PROVE IInv'
    <2>1. Answer(r, Screening(sub[r]), NoRef)
          /\ UNCHANGED <<sub, ref, result, quotes, late, events, inbox>>
      BY <1>1 DEF Refuse, store
    <2>3. /\ pc'[r] = "done"
          /\ \/ reply'[r] = [status |-> Screening(sub[r]), ref |-> NoRef]
             \/ reply'[r] = [status |-> 500, ref |-> NoRef]
          /\ \A x \in Requests : x # r => pc'[x] = pc[x] /\ reply'[x] = reply[x]
      BY <1>t, <2>1, AnswerEffect
    <2>2. reply'[r].ref = NoRef
      BY <2>3
    <2> QED
      BY <1>1, <1>t, <1>p, <2>1, <2>3, <2>2, QuietStep DEF Refuse, QuietMove, QuietReply
  <1>2. ASSUME NEW r \in Requests, Admit(r) PROVE IInv'
    <2>1. /\ pc[r] = "idle" /\ pc'[r] \in {"rate", "save"} /\ Screening(sub[r]) = Proceed
          /\ \A x \in Requests : x # r => pc'[x] = pc[x] /\ reply'[x] = reply[x]
          /\ UNCHANGED <<sub, ref, result, reply, quotes, late, events, inbox>>
      BY <1>2, <1>t DEF Admit, Goto, TypeOK, run, store
    <2> QED
      BY <1>t, <2>1, QuietStep DEF QuietMove, QuietReply
  <1>3. ASSUME NEW r \in Requests, RefuseOverLimit(r) PROVE IInv'
    <2>1. pc[r] = "rate" /\ Answer(r, 429, NoRef)
          /\ UNCHANGED <<sub, ref, result, quotes, late, events, inbox>>
      BY <1>3 DEF RefuseOverLimit, store
    <2>3. /\ pc'[r] = "done"
          /\ \/ reply'[r] = [status |-> 429, ref |-> NoRef]
             \/ reply'[r] = [status |-> 500, ref |-> NoRef]
          /\ \A x \in Requests : x # r => pc'[x] = pc[x] /\ reply'[x] = reply[x]
      BY <1>t, <2>1, AnswerEffect
    <2>2. reply'[r].ref = NoRef
      BY <2>3
    <2> QED
      BY <1>t, <1>p, <2>1, <2>3, <2>2, QuietStep DEF QuietMove, QuietReply
  <1>4. ASSUME NEW r \in Requests, PassLimit(r) \/ FailOpen(r) PROVE IInv'
    <2>1. /\ pc[r] = "rate" /\ pc'[r] = "save"
          /\ \A x \in Requests : x # r => pc'[x] = pc[x] /\ reply'[x] = reply[x]
          /\ UNCHANGED <<sub, ref, result, reply, quotes, late, events, inbox>>
      BY <1>4, <1>t DEF PassLimit, FailOpen, Goto, TypeOK, run, store
    <2>2. Screening(sub[r]) = Proceed
      BY <2>1 DEF IInv, PhaseInv, Phase
    <2> QED
      BY <1>t, <2>1, <2>2, QuietStep DEF QuietMove, QuietReply
  <1>5. ASSUME NEW r \in Requests, InsertCommits(r) PROVE IInv'
    BY <1>5, <1>t, CommitStep
  <1>6. ASSUME NEW r \in Requests, InsertCollides(r) \/ InsertFails(r) PROVE IInv'
    <2>1. PICK err : RetryOrGiveUp(r, err)
      BY <1>6 DEF InsertCollides, InsertFails
    <2>2. pc[r] = "save" /\ UNCHANGED <<sub, ref, result, quotes, late, events, inbox>>
      BY <1>6 DEF InsertCollides, InsertFails, store
    <2>3. /\ \A x \in Requests : x # r => pc'[x] = pc[x] /\ reply'[x] = reply[x]
          /\ \/ pc'[r] = pc[r] /\ reply'[r] = reply[r]
             \/ pc'[r] = "done" /\ reply'[r].ref = NoRef
      BY <1>t, <2>1, RetryEffect
    <2>4. Screening(sub[r]) = Proceed
      BY <2>2 DEF IInv, PhaseInv, Phase
    <2> QED
      BY <1>t, <1>p, <2>2, <2>3, <2>4, QuietStep DEF QuietMove, QuietReply
  <1>7. ASSUME NEW r \in Requests, InsertTimesOut(r) PROVE IInv'
    <2>1. PICK n \in Refs : late' = late \cup {NewRow(r, n)}
      BY <1>7 DEF InsertTimesOut
    <2>2. /\ pc[r] = "save" /\ RetryOrGiveUp(r, "other")
          /\ UNCHANGED <<sub, ref, result, quotes, events, inbox>>
      BY <1>7 DEF InsertTimesOut
    <2>3. /\ \A x \in Requests : x # r => pc'[x] = pc[x] /\ reply'[x] = reply[x]
          /\ pc'[r] = "done" /\ reply'[r].status \in {500, 503} /\ reply'[r].ref = NoRef
      BY <1>t, <2>2, RetryEffect
    <2> QED
      BY <1>t, <2>1, <2>2, <2>3, LateStep
  <1>8. ASSUME NEW r \in Requests, Notify(r) PROVE IInv'
    <2>1. /\ pc[r] = "send" /\ pc'[r] = "record"
          /\ \A x \in Requests : x # r => pc'[x] = pc[x] /\ result'[x] = result[x]
          /\ UNCHANGED <<sub, ref, reply, quotes, late, events>>
      BY <1>8, <1>t DEF Notify, SendSucceeds, SendFails, Goto, TypeOK, store
    <2>2. /\ inbox' \in {inbox, inbox \cup {Lead(r)}}
          /\ result'[r] \in {"sent", "failed"}
          /\ result'[r] = "sent" => Lead(r) \in inbox'
      BY <1>8, <1>t DEF Notify, SendSucceeds, SendFails, Outcome, TypeOK
    <2>3. ref[r] # NoRef
      BY <2>1 DEF IInv, PhaseInv, Phase
    <2> QED
      BY <1>t, <2>1, <2>2, <2>3, NotifyStep
  <1>9. ASSUME NEW r \in Requests, RecordEvent(r) PROVE IInv'
    <2>1. /\ pc[r] = "record" /\ pc'[r] = "respond"
          /\ events' = events \cup {[ref |-> ref[r], type |-> result[r]]}
          /\ \A x \in Requests : x # r => pc'[x] = pc[x]
          /\ UNCHANGED <<sub, ref, result, reply, quotes, late, inbox>>
      BY <1>9, <1>t DEF RecordEvent, Goto, TypeOK, run
    <2> QED
      BY <1>t, <2>1, RecordStep
  <1>10. ASSUME NEW r \in Requests, RecordFails(r) PROVE IInv'
    <2>1. /\ pc[r] = "record" /\ pc'[r] = "respond"
          /\ \A x \in Requests : x # r => pc'[x] = pc[x] /\ reply'[x] = reply[x]
          /\ UNCHANGED <<sub, ref, result, reply, quotes, late, events, inbox>>
      BY <1>10, <1>t DEF RecordFails, Goto, TypeOK, run, store
    <2> QED
      BY <1>t, <2>1, QuietStep DEF QuietMove, QuietReply
  <1>11. ASSUME NEW r \in Requests, Respond(r) PROVE IInv'
    <2>1. pc[r] = "respond" /\ Answer(r, 200, ref[r])
          /\ UNCHANGED <<sub, ref, result, quotes, late, events, inbox>>
      BY <1>11 DEF Respond, store
    <2>2. /\ pc'[r] = "done"
          /\ \/ reply'[r] = [status |-> 200, ref |-> ref[r]]
             \/ reply'[r] = [status |-> 500, ref |-> NoRef]
          /\ \A x \in Requests : x # r => pc'[x] = pc[x] /\ reply'[x] = reply[x]
      BY <1>t, <2>1, AnswerEffect
    <2> QED
      BY <1>t, <1>p, <2>1, <2>2, QuietStep DEF QuietMove, QuietReply
  <1>12. ASSUME NEW r \in Requests, Leave(r) PROVE IInv'
    <2>1. UNCHANGED <<sub, pc, ref, result, reply, quotes, late, events, inbox>>
      BY <1>12 DEF Leave, run, store
    <2> QED
      BY <1>t, <2>1, QuietStep DEF QuietMove, QuietReply, IInv, PhaseInv, Phase
  <1>13. ASSUME NEW r \in Requests, Kill(r) PROVE IInv'
    <2>1. /\ pc[r] \in {"rate", "save", "send", "record", "respond"} /\ pc'[r] = "killed"
          /\ \A x \in Requests : x # r => pc'[x] = pc[x]
          /\ UNCHANGED <<sub, ref, result, reply, quotes, inbox>>
      BY <1>13, <1>t DEF Kill, InFlight, Ended, Goto, TypeOK, run
    <2>2. reply[r] = NoReply
      BY <1>p, <2>1
    <2>3. CASE UNCHANGED <<late, events>>
      BY <1>t, <2>1, <2>2, <2>3, QuietStep DEF QuietMove, QuietReply
    <2>4. ASSUME NEW n \in Refs, pc[r] = "save", late' = late \cup {NewRow(r, n)},
                 UNCHANGED events
          PROVE  IInv'
      BY <1>t, <2>1, <2>2, <2>4, LateStep DEF NoReply
    <2>5. CASE /\ pc[r] = "record"
               /\ events' = events \cup {[ref |-> ref[r], type |-> result[r]]}
               /\ UNCHANGED late
      BY <1>t, <2>1, <2>5, RecordStep
    <2> QED
      BY <1>13, <2>3, <2>4, <2>5 DEF Kill
  <1>14. ASSUME NEW q \in late, LateCommit(q) PROVE IInv'
    BY <1>14, <1>t, LateCommitStep
  <1>15. ASSUME UNCHANGED <<sub, pc, ref, result, reply, quotes, events, inbox>>,
                late' \subseteq late
         PROVE  IInv'
    <2>1. PhaseInv' /\ RowInv'
      BY <1>15 DEF IInv, PhaseInv, Phase, NoTrace, Stored, Lead,
                   RowInv, UniqueReferences, OneLeadPerSubmission, OnlyCleanFormsStored
    <2>2. ReplyInv' /\ AnnouncedOnlyIfSaved' /\ EventInv'
      BY <1>15 DEF IInv, ReplyInv, AnsweredReferenceStored, RefusedNeverAnnounced,
                   AnnouncedOnlyIfSaved, EventInv
    <2> QED
      BY <1>t, <2>1, <2>2 DEF IInv
  <1>16. ASSUME NEW q \in late, LateDrop(q) PROVE IInv'
    BY <1>15, <1>16 DEF LateDrop, run
  <1>17. CASE Tick \/ UNCHANGED vars
    BY <1>15, <1>17 DEF Tick, vars, run, store
  <1>18. ASSUME NEW r \in Requests, LateDelivery(r) PROVE IInv'
    <2>1. /\ pc[r] # "save" /\ ref[r] # NoRef /\ inbox' = inbox \cup {Lead(r)}
          /\ UNCHANGED <<sub, pc, ref, result, reply, quotes, late, events>>
      BY <1>18 DEF LateDelivery, Ended, run, store
    <2> QED
      BY <1>t, <2>1, NotifyStep
  <1> QED
    BY <1>1, <1>2, <1>3, <1>4, <1>5, <1>6, <1>7, <1>8, <1>9, <1>10, <1>11, <1>12, <1>13,
       <1>14, <1>16, <1>17, <1>18
    DEF Next, Proceeds, Save, Record

(* Type correctness. *)
THEOREM Typing == Spec => []TypeOK
  BY InitIInv, NextIInv, PTL DEF Spec, IInv

(* The invariant holds of every state of every run of the program.          *)
THEOREM Invariance == Spec => []IInv
  BY InitIInv, NextIInv, PTL DEF Spec

(* Two leads never share a reference, though inserts race and commit late.  *)
THEOREM ReferencesUnique == Spec => []UniqueReferences
  <1>1. IInv => UniqueReferences
    BY DEF IInv, RowInv
  <1> QED
    BY <1>1, Invariance, PTL

(* No submission is stored twice, though its insert is retried.             *)
THEOREM OneLead == Spec => []OneLeadPerSubmission
  <1>1. IInv => OneLeadPerSubmission
    BY DEF IInv, RowInv
  <1> QED
    BY <1>1, Invariance, PTL

(* A visitor who holds a reference has a lead on record under it.           *)
THEOREM AnswersAreTrue == Spec => []AnsweredReferenceStored
  <1>1. IInv => AnsweredReferenceStored
    BY DEF IInv, ReplyInv
  <1> QED
    BY <1>1, Invariance, PTL

(* Sales hears only of leads on record.                                     *)
THEOREM AnnouncementsAreSaved == Spec => []AnnouncedOnlyIfSaved
  <1>1. IInv => AnnouncedOnlyIfSaved
    BY DEF IInv
  <1> QED
    BY <1>1, Invariance, PTL

(* Sales never hears of a submission whose visitor was told to try again.   *)
THEOREM RefusalsAreSilent == Spec => []RefusedNeverAnnounced
  <1>1. IInv => RefusedNeverAnnounced
    BY DEF IInv, ReplyInv
  <1> QED
    BY <1>1, Invariance, PTL

(* The table of outcomes tells the truth.                                   *)
THEOREM OutcomesAreTrue == Spec => []EventsTruthful
  <1>1. IInv => EventsTruthful
    BY DEF IInv, EventInv, EventsTruthful
  <1> QED
    BY <1>1, Invariance, PTL

(* Only clean forms are stored.                                             *)
THEOREM OnlyCleanStored == Spec => []OnlyCleanFormsStored
  <1>1. IInv => OnlyCleanFormsStored
    BY DEF IInv, RowInv
  <1> QED
    BY <1>1, Invariance, PTL

(* Every row is one its own run has made, and no step changes what a       *)
(* request carries.                                                        *)
LEMMA RowsAreNew ==
    ASSUME TypeOK, [Next]_vars
    PROVE  /\ sub' = sub
           /\ \A q \in quotes' \cup late' :
                q \in quotes \cup late \/ \E r \in Requests, n \in Refs : q = NewRow(r, n)
  <1>1. ASSUME NEW r \in Requests, Save(r)
        PROVE  /\ sub' = sub
               /\ \A q \in quotes' \cup late' :
                    q \in quotes \cup late \/ \E n \in Refs : q = NewRow(r, n)
    <2>1. CASE InsertCommits(r)
      BY <2>1 DEF InsertCommits
    <2>2. CASE InsertCollides(r) \/ InsertFails(r)
      BY <2>2 DEF InsertCollides, InsertFails, store
    <2>3. CASE InsertTimesOut(r)
      BY <2>3 DEF InsertTimesOut
    <2> QED BY <1>1, <2>1, <2>2, <2>3 DEF Save
  <1>2. ASSUME NEW r \in Requests, Kill(r)
        PROVE  /\ sub' = sub
               /\ \A q \in quotes' \cup late' :
                    q \in quotes \cup late \/ \E n \in Refs : q = NewRow(r, n)
    BY <1>2 DEF Kill
  <1>3. ASSUME NEW r \in Requests, \/ Refuse(r) \/ Admit(r) \/ Leave(r) \/ LateDelivery(r)
                                   \/ RefuseOverLimit(r) \/ PassLimit(r) \/ FailOpen(r)
                                   \/ Notify(r) \/ Record(r) \/ Respond(r)
        PROVE  UNCHANGED <<sub, quotes, late>>
    BY <1>3 DEF Refuse, Admit, Leave, LateDelivery, RefuseOverLimit, PassLimit, FailOpen, Notify,
                SendSucceeds, SendFails, Record, RecordEvent, RecordFails, Respond, store
  <1>4. ASSUME NEW q \in late, LateCommit(q) \/ LateDrop(q)
        PROVE  sub' = sub /\ quotes' \cup late' \subseteq quotes \cup late
    BY <1>4 DEF LateCommit, LateDrop
  <1>5. CASE Tick \/ UNCHANGED vars
    BY <1>5 DEF Tick, vars, store
  <1> QED BY <1>1, <1>2, <1>3, <1>4, <1>5 DEF Next, Proceeds

(* Behind no trusted proxy every lead counts against the address it came   *)
(* from, whatever its headers said.                                        *)
THEOREM DirectRowsFiled == Spec => []DirectRowsCountAgainstPeer
  <1>1. Init => DirectRowsCountAgainstPeer
    BY DEF Init, DirectRowsCountAgainstPeer
  <1>2. TypeOK /\ DirectRowsCountAgainstPeer /\ [Next]_vars => DirectRowsCountAgainstPeer'
    <2> SUFFICES ASSUME TypeOK, DirectRowsCountAgainstPeer, [Next]_vars, ~TrustProxy,
                        NEW q \in quotes' \cup late'
                 PROVE  q.ip = sub'[q.owner].remote
      BY DEF DirectRowsCountAgainstPeer
    <2>1. sub' = sub /\ (q \in quotes \cup late \/ \E r \in Requests, n \in Refs : q = NewRow(r, n))
      BY RowsAreNew
    <2> QED BY <2>1 DEF DirectRowsCountAgainstPeer, NewRow, ClientIP
  <1> QED
    BY <1>1, <1>2, Typing, PTL DEF Spec

(* A visitor who was answered "unavailable" has left no row anywhere. *)
UnavailableTruly == \A q \in quotes \cup late : reply[q.owner].status # 503

(* Without timeouts a run answers "unavailable" only when it has left no    *)
(* row, and no row of it comes later.                                      *)
LEMMA UnavailableStep ==
    "timeout" \notin Faults /\ IInv /\ UnavailableTruly /\ [Next]_vars => UnavailableTruly'
  <1> SUFFICES ASSUME "timeout" \notin Faults, IInv, UnavailableTruly, [Next]_vars
               PROVE  UnavailableTruly'
    OBVIOUS
  <1> USE DEF UnavailableTruly
  <1>t. /\ TypeOK
        /\ \A q \in quotes \cup late : q.owner \in Requests
        /\ \A r \in Requests : pc[r] # "done" => reply[r] = NoReply
    BY DEF IInv, TypeOK, Row, PhaseInv, Phase
  <1>1. ASSUME NEW r \in Requests, Refuse(r) \/ RefuseOverLimit(r) \/ Respond(r)
        PROVE  UnavailableTruly'
    <2>1. PICK status, n : Answer(r, status, n) /\ (status = 200 \/ NoTrace(r))
      BY <1>1 DEF Refuse, RefuseOverLimit, Respond, IInv, PhaseInv, Phase
    <2>2. /\ \/ reply'[r] = [status |-> status, ref |-> n]
             \/ reply'[r] = [status |-> 500, ref |-> NoRef]
          /\ \A y \in Requests : y # r => reply'[y] = reply[y]
      BY <1>t, <2>1, AnswerEffect
    <2>3. UNCHANGED <<quotes, late>>
      BY <1>1 DEF Refuse, RefuseOverLimit, Respond, store
    <2>4. \A q \in quotes \cup late : q.owner = r => status = 200
      BY <2>1 DEF NoTrace
    <2>5. reply'[r].status \in {status, 500}
      BY <2>2
    <2> QED
      BY <1>t, <2>2, <2>3, <2>4, <2>5
  <1>2. ASSUME NEW r \in Requests, InsertCommits(r) \/ Kill(r) PROVE UnavailableTruly'
    <2>1. reply[r] = NoReply /\ UNCHANGED reply
      BY <1>2, <1>t DEF InsertCommits, Kill, InFlight, Ended, run
    <2>2. \A q \in quotes' \cup late' : q \in quotes \cup late \/ q.owner = r
      BY <1>2 DEF InsertCommits, Kill, NewRow
    <2> QED
      BY <2>1, <2>2 DEF NoReply
  <1>3. ASSUME NEW r \in Requests, InsertCollides(r) \/ InsertFails(r) \/ InsertTimesOut(r)
        PROVE  UnavailableTruly'
    <2>1. /\ pc[r] = "save" /\ \E err : RetryOrGiveUp(r, err)
          /\ UNCHANGED <<quotes, late>>
      BY <1>3 DEF InsertCollides, InsertFails, InsertTimesOut, store
    <2>2. \A q \in quotes \cup late : q.owner # r
      BY <2>1 DEF IInv, PhaseInv, Phase, NoTrace
    <2>3. \A x \in Requests : x # r => reply'[x] = reply[x]
      BY <1>t, <2>1, RetryEffect
    <2> QED
      BY <1>t, <2>1, <2>2, <2>3
  <1>4. ASSUME NEW r \in Requests, \/ Admit(r) \/ Leave(r) \/ LateDelivery(r) \/ PassLimit(r)
                                   \/ FailOpen(r) \/ Notify(r) \/ Record(r)
        PROVE  UNCHANGED <<reply, quotes, late>>
    BY <1>4 DEF Admit, Leave, LateDelivery, PassLimit, FailOpen, Notify, SendSucceeds, SendFails,
                Record, RecordEvent, RecordFails, run, store
  <1>5. ASSUME NEW q \in late, LateCommit(q) \/ LateDrop(q)
        PROVE  UNCHANGED reply /\ quotes' \cup late' \subseteq quotes \cup late
    BY <1>5 DEF LateCommit, LateDrop, run
  <1>6. CASE Tick \/ UNCHANGED vars
    BY <1>6 DEF Tick, vars, run, store
  <1> QED
    BY <1>1, <1>2, <1>3, <1>4, <1>5, <1>6 DEF Next, Proceeds, Save

(* While no insert times out, the 503 form tells the truth: what it says    *)
(* could not be submitted is not on record, however the run was faring and  *)
(* whatever else fails.  The late commit of an insert that timed out is the *)
(* only way to the contrary.                                                *)
THEOREM UnavailableIsUnstored ==
    "timeout" \notin Faults => (Spec => []UnavailableNotStored)
  <1> SUFFICES ASSUME "timeout" \notin Faults PROVE Spec => []UnavailableNotStored
    OBVIOUS
  <1>1. Init => UnavailableTruly
    BY DEF Init, UnavailableTruly
  <1>2. IInv /\ UnavailableTruly /\ [Next]_vars => UnavailableTruly'
    BY UnavailableStep
  <1>3. TypeOK /\ UnavailableTruly => UnavailableNotStored
    BY DEF TypeOK, Row, UnavailableTruly, UnavailableNotStored
  <1> QED
    BY <1>1, <1>2, <1>3, Invariance, Typing, PTL DEF Spec

-----------------------------------------------------------------------------
(* The refinement: every step of a run, of the database or of the provider *)
(* is one step of the abstract ledger or none.                             *)

Leads == {[owner |-> q.owner, ref |-> q.ref] : q \in quotes}
Answers == [r \in Requests |-> [kind |-> AnswerKind(reply[r]), ref |-> reply[r].ref]]

(* A lead on record is an entry of the ledger, and the other way round.     *)
LEMMA EntryOfRow ==
    ASSUME NEW r, NEW n
    PROVE  [owner |-> r, ref |-> n] \in Leads <=> \E q \in quotes : q.owner = r /\ q.ref = n
  BY DEF Leads

(* An entry's owner and reference are those of a row.                       *)
LEMMA LeadsOfRows == \A e \in Leads : \E q \in quotes : e.owner = q.owner /\ e.ref = q.ref
  BY DEF Leads

(* The same responses are the same answers.                                 *)
LEMMA SameAnswers == UNCHANGED reply => UNCHANGED Answers
  BY DEF Answers

(* A new response of one run is a new answer of that run alone.             *)
LEMMA AnswersChange ==
    ASSUME NEW r \in Requests,
           \A x \in Requests : x # r => reply'[x] = reply[x]
    PROVE  Answers' = [Answers EXCEPT ![r] = [kind |-> AnswerKind(reply'[r]), ref |-> reply'[r].ref]]
  BY DEF Answers

(* A run without a response has an open answer.                             *)
LEMMA OpenAnswer ==
    ASSUME NEW r \in Requests, reply[r] = NoReply
    PROVE  Answers[r].kind = "open"
  BY DEF Answers, AnswerKind, NoReply

(* Empty tables are the empty ledger.                                      *)
THEOREM InitRefines == Init => Ledger!Init
  BY DEF Init, Ledger!Init, Ledger!Open, AnswerKind, NoReply

-----------------------------------------------------------------------------
(* The steps of the ledger, said of rows and responses. *)

(* A step that changes no lead, mail, outcome or response is invisible to  *)
(* the ledger.                                                             *)
LEMMA LedgerStutter ==
    ASSUME UNCHANGED <<Leads, inbox, events, Answers>>
    PROVE  UNCHANGED Ledger!vars
  BY DEF Ledger!vars, Leads, Answers

(* A committed insert, in time or late, is an entry.                       *)
LEMMA LedgerEnter ==
    ASSUME NEW r \in Requests, NEW n \in Refs,
           Answers[r].kind \in {"open", "unavailable", "error"},
           \A e \in Leads : e.owner # r /\ e.ref # n,
           Leads' = Leads \cup {[owner |-> r, ref |-> n]},
           UNCHANGED <<inbox, events, Answers>>
    PROVE  Ledger!Next
  <1>1. Ledger!Enter(r, n)
    BY DEF Ledger!Enter, Ledger!Told, Leads, Answers
  <1> QED
    BY <1>1 DEF Ledger!Next

(* A mail the provider accepts is an announcement.                         *)
LEMMA LedgerAnnounce ==
    ASSUME NEW r \in Requests, NEW n \in Refs,
           Answers[r].kind \in {"open", "accepted", "error"},
           [owner |-> r, ref |-> n] \in Leads,
           inbox' = inbox \cup {[owner |-> r, ref |-> n]},
           UNCHANGED <<Leads, events, Answers>>
    PROVE  Ledger!Next
  <1>1. Ledger!Announce(r, n)
    BY DEF Ledger!Announce, Ledger!Told, Leads, Answers
  <1> QED
    BY <1>1 DEF Ledger!Next

(* A row of quote_email_events is an entry of the log.                     *)
LEMMA LedgerLog ==
    ASSUME NEW r \in Requests, NEW n \in Refs, NEW t \in {"sent", "failed"},
           [owner |-> r, ref |-> n] \in Leads,
           \A e \in events : e.ref # n,
           t = "sent" => [owner |-> r, ref |-> n] \in inbox,
           events' = events \cup {[ref |-> n, type |-> t]},
           UNCHANGED <<Leads, inbox, Answers>>
    PROVE  Ledger!Next
  <1>1. Ledger!Log(r, n, t)
    BY DEF Ledger!Log, Leads, Answers
  <1> QED
    BY <1>1 DEF Ledger!Next

(* A response is an answer.                                                *)
LEMMA LedgerAnswer ==
    ASSUME NEW r \in Requests, NEW n \in Refs \cup {NoRef},
           NEW k \in {"accepted", "declined", "unavailable", "error"},
           Answers[r].kind = "open",
           k = "accepted" => [owner |-> r, ref |-> n] \in Leads,
           k # "accepted" => n = NoRef,
           k = "declined" => \A e \in Leads : e.owner # r,
           k \in {"declined", "unavailable"} => \A m \in inbox : m.owner # r,
           Answers' = [Answers EXCEPT ![r] = [kind |-> k, ref |-> n]],
           UNCHANGED <<Leads, inbox, events>>
    PROVE  Ledger!Next
  <1>1. Ledger!Answer(r, k, n)
    BY DEF Ledger!Answer, Ledger!Told, Ledger!OnRecord, Ledger!Heard, Leads, Answers
  <1> QED
    BY <1>1 DEF Ledger!Next

-----------------------------------------------------------------------------
(* The steps of the runs, mapped. *)

(* A run that answers takes the ledger's Answer step.                       *)
LEMMA AnswerRefines ==
    ASSUME IInv, NEW r \in Requests, NEW status \in Statuses \ {0}, NEW n,
           Answer(r, status, n), UNCHANGED <<quotes, inbox, events>>,
           \/ pc[r] \in {"idle", "rate", "save"} /\ n = NoRef
           \/ pc[r] = "respond" /\ status = 200 /\ n = ref[r]
    PROVE  Ledger!Next
  <1>1. reply[r] = NoReply /\ Answers[r].kind = "open"
    BY OpenAnswer DEF IInv, PhaseInv, Phase
  <1>2. /\ \/ reply'[r] = [status |-> status, ref |-> n]
           \/ reply'[r] = [status |-> 500, ref |-> NoRef]
        /\ \A x \in Requests : x # r => reply'[x] = reply[x]
    BY AnswerEffect DEF IInv
  <1>3. Answers' = [Answers EXCEPT ![r] = [kind |-> AnswerKind(reply'[r]), ref |-> reply'[r].ref]]
    BY <1>2, AnswersChange
  <1>4. UNCHANGED Leads
    BY DEF Leads
  <1>5. CASE pc[r] \in {"idle", "rate", "save"} /\ n = NoRef
    <2>1. /\ \A e \in Leads : e.owner # r
          /\ \A m \in inbox : m.owner # r
      BY <1>5, LeadsOfRows DEF IInv, PhaseInv, Phase, NoTrace
    <2>2. reply'[r].ref = NoRef /\ reply'[r].status # 0
      BY <1>2, <1>5
    <2>3. AnswerKind(reply'[r]) \in {"declined", "unavailable", "error"}
      BY <2>2 DEF AnswerKind
    <2>4. Answers' = [Answers EXCEPT ![r] = [kind |-> AnswerKind(reply'[r]), ref |-> NoRef]]
      BY <1>3, <2>2
    <2>5. UNCHANGED <<Leads, inbox, events>>
      BY <1>4
    <2> HIDE DEF Leads, Answers
    <2> QED
      BY <1>1, <2>1, <2>3, <2>4, <2>5, LedgerAnswer
  <1>6. CASE pc[r] = "respond" /\ status = 200 /\ n = ref[r]
    <2>1. [owner |-> r, ref |-> ref[r]] \in Leads /\ ref[r] \in Refs
      BY <1>6, EntryOfRow, StoredRef DEF IInv, PhaseInv, Phase, Stored
    <2>2. CASE reply'[r] = [status |-> 500, ref |-> NoRef]
      <3>1. AnswerKind(reply'[r]) = "error" /\ reply'[r].ref = NoRef
        BY <2>2 DEF AnswerKind
      <3> QED
        BY <1>1, <1>3, <1>4, <3>1, LedgerAnswer
    <2>3. CASE reply'[r] = [status |-> 200, ref |-> ref[r]]
      <3>1. AnswerKind(reply'[r]) = "accepted" /\ reply'[r].ref = ref[r]
        BY <2>1, <2>3, HandlerAssumption DEF HandlerAssumption, AnswerKind
      <3> QED
        BY <1>1, <1>3, <1>4, <2>1, <3>1, LedgerAnswer
    <2> QED
      BY <1>2, <1>6, <2>2, <2>3
  <1> QED
    BY <1>5, <1>6

(* A run that retries leaves the ledger alone; one that gives up answers.   *)
LEMMA RetryRefines ==
    ASSUME IInv, NEW r \in Requests, NEW err, pc[r] = "save", RetryOrGiveUp(r, err),
           UNCHANGED <<quotes, inbox, events>>
    PROVE  Ledger!Next \/ UNCHANGED Ledger!vars
  <1>1. CASE Retries(err, tries[r] + 1)
    <2>1. UNCHANGED <<reply, Leads>>
      BY <1>1 DEF RetryOrGiveUp, Leads
    <2> QED
      BY <2>1, SameAnswers, LedgerStutter
  <1>2. CASE ~Retries(err, tries[r] + 1)
    <2>1. Answer(r, 503, NoRef)
      BY <1>2 DEF RetryOrGiveUp
    <2> QED
      BY <2>1, AnswerRefines DEF Statuses
  <1> QED
    BY <1>1, <1>2

(* Every step of the program is a step of the ledger, or leaves it alone.   *)
THEOREM NextRefines == IInv /\ IInv' /\ [Next]_vars => [Ledger!Next]_Ledger!vars
  <1> SUFFICES ASSUME IInv, IInv', [Next]_vars
               PROVE  Ledger!Next \/ UNCHANGED Ledger!vars
    OBVIOUS
  <1>s. ASSUME UNCHANGED <<quotes, inbox, events, reply>> PROVE UNCHANGED Ledger!vars
    <2>1. UNCHANGED Leads
      BY <1>s DEF Leads
    <2> QED
      BY <1>s, <2>1, SameAnswers, LedgerStutter
  <1>1. ASSUME NEW r \in Requests, Refuse(r) PROVE Ledger!Next
    <2>1. Screening(sub[r]) \in Statuses \ {0}
      BY <1>1, ScreeningStatus, HandlerAssumption
      DEF HandlerAssumption, IInv, TypeOK, Refuse, Proceed, Statuses
    <2>2. /\ pc[r] = "idle" /\ Answer(r, Screening(sub[r]), NoRef)
          /\ UNCHANGED <<quotes, inbox, events>>
      BY <1>1 DEF Refuse, store
    <2> QED
      BY <2>1, <2>2, AnswerRefines
  <1>2. ASSUME NEW r \in Requests, Admit(r) \/ PassLimit(r) \/ FailOpen(r)
        PROVE  UNCHANGED Ledger!vars
    BY <1>2, <1>s DEF Admit, PassLimit, FailOpen, run, store
  <1>3. ASSUME NEW r \in Requests, RefuseOverLimit(r) PROVE Ledger!Next
    <2>1. pc[r] = "rate" /\ Answer(r, 429, NoRef) /\ UNCHANGED <<quotes, inbox, events>>
      BY <1>3 DEF RefuseOverLimit, store
    <2> QED
      BY <2>1, AnswerRefines DEF Statuses
  <1>4. ASSUME NEW r \in Requests, InsertCommits(r) PROVE Ledger!Next
    <2>1. PICK n \in Refs : n \notin Taken /\ quotes' = quotes \cup {NewRow(r, n)}
      BY <1>4 DEF InsertCommits, MayInsert
    <2>2. pc[r] = "save" /\ UNCHANGED <<reply, inbox, events>>
      BY <1>4 DEF InsertCommits
    <2>3. Leads' = Leads \cup {[owner |-> r, ref |-> n]}
      <3> DEFINE q == NewRow(r, n)
      <3>1. q.owner = r /\ q.ref = n
        BY DEF NewRow
      <3> HIDE DEF q
      <3>2. Leads' = Leads \cup {[owner |-> q.owner, ref |-> q.ref]}
        BY <2>1 DEF Leads, q
      <3> QED
        BY <3>1, <3>2
    <2>4. \A e \in Leads : e.owner # r /\ e.ref # n
      BY <2>1, <2>2, LeadsOfRows DEF IInv, PhaseInv, Phase, NoTrace, Taken
    <2>5. Answers[r].kind = "open"
      BY <2>2, OpenAnswer DEF IInv, PhaseInv, Phase
    <2> QED
      BY <2>2, <2>3, <2>4, <2>5, SameAnswers, LedgerEnter
  <1>5. ASSUME NEW r \in Requests, InsertCollides(r) \/ InsertFails(r) \/ InsertTimesOut(r)
        PROVE  Ledger!Next \/ UNCHANGED Ledger!vars
    <2>1. PICK err : RetryOrGiveUp(r, err)
      BY <1>5 DEF InsertCollides, InsertFails, InsertTimesOut
    <2>2. pc[r] = "save" /\ UNCHANGED <<quotes, inbox, events>>
      BY <1>5 DEF InsertCollides, InsertFails, InsertTimesOut, store
    <2> QED
      BY <2>1, <2>2, RetryRefines
  <1>6. ASSUME NEW r \in Requests, ref[r] # NoRef, inbox' = inbox \cup {Lead(r)},
               UNCHANGED <<quotes, events, reply>>
        PROVE  Ledger!Next
    <2>1. [owner |-> r, ref |-> ref[r]] \in Leads /\ ref[r] \in Refs
      BY <1>6, EntryOfRow, StoredRef DEF IInv, PhaseInv, Phase, Stored
    <2>2. Answers[r].kind \in {"open", "accepted", "error"}
      <3>1. \/ reply[r].status \in {0, 500}
            \/ reply[r].status = 200 /\ reply[r].ref # NoRef
        BY <1>6 DEF IInv, PhaseInv, Phase
      <3> QED
        BY <3>1 DEF Answers, AnswerKind
    <2>3. UNCHANGED Leads
      BY <1>6 DEF Leads
    <2> QED
      BY <1>6, <2>1, <2>2, <2>3, SameAnswers, LedgerAnnounce DEF Lead
  <1>7. ASSUME NEW r \in Requests, pc[r] = "record",
               events' = events \cup {[ref |-> ref[r], type |-> result[r]]},
               UNCHANGED <<quotes, inbox, reply>>
        PROVE  Ledger!Next
    <2>1. PICK q \in quotes : q.owner = r /\ q.ref = ref[r]
      BY <1>7 DEF IInv, PhaseInv, Phase, Stored
    <2>2. \A e \in events : e.ref # ref[r]
      <3> SUFFICES ASSUME NEW e \in events, e.ref = ref[r] PROVE FALSE
        OBVIOUS
      <3>1. PICK p \in quotes : p.ref = e.ref /\ pc[p.owner] # "record"
        BY DEF IInv, EventInv
      <3>2. p = q
        BY <2>1, <3>1 DEF IInv, RowInv, UniqueReferences
      <3> QED
        BY <1>7, <2>1, <3>1, <3>2
    <2>3. [owner |-> r, ref |-> ref[r]] \in Leads /\ ref[r] \in Refs
      BY <1>7, <2>1, EntryOfRow, StoredRef DEF IInv
    <2>4. /\ result[r] \in {"sent", "failed"}
          /\ result[r] = "sent" => [owner |-> r, ref |-> ref[r]] \in inbox
      BY <1>7 DEF IInv, PhaseInv, Phase, Lead
    <2>5. UNCHANGED Leads
      BY <1>7 DEF Leads
    <2> QED
      BY <1>7, <2>2, <2>3, <2>4, <2>5, SameAnswers, LedgerLog
  <1>8. ASSUME NEW r \in Requests, Notify(r) PROVE Ledger!Next \/ UNCHANGED Ledger!vars
    <2>1. pc[r] = "send" /\ UNCHANGED <<quotes, events, reply>>
      BY <1>8 DEF Notify, SendSucceeds, SendFails, store
    <2>3. ref[r] # NoRef
      BY <2>1 DEF IInv, PhaseInv, Phase
    <2>2. inbox' = inbox \/ inbox' = inbox \cup {Lead(r)}
      BY <1>8 DEF Notify, SendSucceeds, SendFails
    <2> QED
      BY <1>6, <1>s, <2>1, <2>2, <2>3
  <1>9. ASSUME NEW r \in Requests, Record(r) PROVE Ledger!Next \/ UNCHANGED Ledger!vars
    <2>1. CASE RecordEvent(r)
      BY <1>7, <2>1 DEF RecordEvent, run
    <2>2. CASE RecordFails(r)
      BY <1>s, <2>2 DEF RecordFails, run, store
    <2> QED
      BY <1>9, <2>1, <2>2 DEF Record
  <1>10. ASSUME NEW r \in Requests, Respond(r) PROVE Ledger!Next
    <2>1. /\ pc[r] = "respond" /\ Answer(r, 200, ref[r])
          /\ UNCHANGED <<quotes, inbox, events>>
      BY <1>10 DEF Respond, store
    <2> QED
      BY <2>1, AnswerRefines DEF Statuses
  <1>11. ASSUME NEW r \in Requests, Kill(r) PROVE Ledger!Next \/ UNCHANGED Ledger!vars
    <2>1. UNCHANGED <<quotes, reply, inbox>>
      BY <1>11 DEF Kill, run
    <2>2. CASE UNCHANGED events
      BY <1>s, <2>1, <2>2
    <2>3. CASE /\ pc[r] = "record"
               /\ events' = events \cup {[ref |-> ref[r], type |-> result[r]]}
      BY <1>7, <2>1, <2>3
    <2> QED
      BY <1>11, <2>2, <2>3 DEF Kill
  <1>12. ASSUME NEW q \in late, LateCommit(q) PROVE Ledger!Next
    <2>1. /\ quotes' = quotes \cup {q} /\ \A p \in quotes : p.ref # q.ref
          /\ UNCHANGED <<reply, inbox, events>>
      BY <1>12 DEF LateCommit, MayInsert, Taken, run
    <2>2. q.owner \in Requests /\ q.ref \in Refs
      BY DEF IInv, TypeOK, Row
    <2>3. Leads' = Leads \cup {[owner |-> q.owner, ref |-> q.ref]}
      BY <2>1 DEF Leads
    <2>4. \A p \in quotes : p.owner # q.owner
      BY DEF IInv, RowInv, OneLeadPerSubmission
    <2>5. \A e \in Leads : e.owner # q.owner /\ e.ref # q.ref
      BY <2>1, <2>4, LeadsOfRows
    <2>6. reply[q.owner].status \in {0, 500, 503}
      BY DEF IInv, ReplyInv
    <2>7. Answers[q.owner].kind \in {"open", "unavailable", "error"}
      BY <2>2, <2>6 DEF Answers, AnswerKind
    <2> QED
      BY <2>1, <2>2, <2>3, <2>5, <2>7, SameAnswers, LedgerEnter
  <1>13. ASSUME NEW q \in late, LateDrop(q) PROVE UNCHANGED Ledger!vars
    BY <1>13, <1>s DEF LateDrop, run
  <1>14. ASSUME NEW r \in Requests, Leave(r) PROVE UNCHANGED Ledger!vars
    BY <1>14, <1>s DEF Leave, run, store
  <1>16. ASSUME NEW r \in Requests, LateDelivery(r) PROVE Ledger!Next
    BY <1>6, <1>16 DEF LateDelivery, run, store
  <1>15. CASE Tick \/ UNCHANGED vars
    BY <1>15, <1>s DEF Tick, vars, run, store
  <1> QED
    BY <1>1, <1>2, <1>3, <1>4, <1>5, <1>8, <1>9, <1>10, <1>11, <1>12, <1>13, <1>14, <1>15, <1>16
    DEF Next, Proceeds, Save

(* The quote endpoint keeps the promise of the ledger.                      *)
THEOREM Refinement == Spec => ImplementsLedger
  <1>1. Spec => []IInv
    BY Invariance
  <1> QED
    BY <1>1, InitRefines, NextRefines, PTL DEF Spec, ImplementsLedger, Ledger!Spec
=============================================================================
