---------------------------- MODULE QuoteInvariant ----------------------------
(***************************************************************************)
(* The inductive invariant of QuoteHandler: what each phase of a run has   *)
(* left in the tables and in the inbox.  It is what the proofs rest on.    *)
(***************************************************************************)
EXTENDS QuoteHandler

(* Nothing of r has left the handler. *)
NoTrace(r) ==
    /\ \A q \in quotes \cup late : q.owner # r
    /\ \A m \in inbox : m.owner # r

Stored(r) == \E q \in quotes : q.owner = r /\ q.ref = ref[r]

Phase(r) ==
    /\ pc[r] \in {"idle", "rate", "save"} => NoTrace(r)
    /\ pc[r] \in {"rate", "save"} => Screening(sub[r]) = Proceed
    /\ pc[r] \in {"send", "record", "respond"} => ref[r] # NoRef
    /\ ref[r] # NoRef => /\ Stored(r)
                         /\ \/ reply[r].status \in {0, 500}
                            \/ reply[r].status = 200 /\ reply[r].ref = ref[r]
    /\ pc[r] = "record" => /\ result[r] \in {"sent", "failed"}
                           /\ result[r] = "sent" => Lead(r) \in inbox
    /\ pc[r] # "done" => reply[r] = NoReply

PhaseInv == \A r \in Requests : Phase(r)

RowInv ==
    /\ UniqueReferences
    /\ OneLeadPerSubmission
    /\ OnlyCleanFormsStored
    /\ quotes \cap late = {}

ReplyInv ==
    /\ AnsweredReferenceStored
    /\ RefusedNeverAnnounced
    /\ \A q \in late : reply[q.owner].status \in {0, 500, 503}

(* An outcome on record belongs to a stored lead whose run is past that    *)
(* step, so no run records a second one.                                   *)
EventInv ==
    /\ \A d, e \in events : d.ref = e.ref => d = e
    /\ \A e \in events : \E q \in quotes :
          /\ q.ref = e.ref
          /\ pc[q.owner] \in {"respond", "done", "killed"}
          /\ e.type = "sent" => [owner |-> q.owner, ref |-> q.ref] \in inbox

(* The inductive invariant. *)
IInv == TypeOK /\ PhaseInv /\ RowInv /\ ReplyInv /\ AnnouncedOnlyIfSaved /\ EventInv
=============================================================================
