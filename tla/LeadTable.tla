------------------------------ MODULE LeadTable ------------------------------
(***************************************************************************)
(* QuoteHandler with the data of the forms.  What validateQuote says of a  *)
(* form is the `valid` of its submission; the database is up, so that an   *)
(* insert fails only when a column refuses its value, and the record of a  *)
(* failed send only when the error message, cut to its 2000 bytes, is no   *)
(* longer text.                                                            *)
(***************************************************************************)
EXTENDS QuoteHandler, LeadMail

CONSTANT
    Inputs      \* what a request may be: [sub, form, agent, report]

ASSUME TableAssumption ==
    /\ \A in \in Inputs : in.form \in Form
    /\ "timeout" \notin Faults      \* the database answers in time

VARIABLES
    form,       \* the form of each request
    agent,      \* its User-Agent
    report      \* what a send of the request says if it fails

data == <<form, agent, report>>

Columns(r) == QuoteRecord(form[r])

TableInit ==
    /\ \E in \in [Requests -> Inputs] :
         /\ form = [r \in Requests |-> in[r].form]
         /\ agent = [r \in Requests |-> in[r].agent]
         /\ report = [r \in Requests |-> in[r].report]
         /\ sub = [r \in Requests |-> [in[r].sub EXCEPT !.valid = Errors(in[r].form) = {}]]
    /\ Init

(* At most 512 bytes of the User-Agent, shortened until what is left is       *)
(* UTF-8; a short one stays as it is.                                         *)
truncateBytes(a) == IF a.bytes <= 512 THEN a ELSE [bytes |-> 512, sound |-> TRUE]

RowFits(r) == Storable(Columns(r)) /\ truncateBytes(agent[r]).sound

(* The first 2000 bytes of a message that may have a rune across the cut. *)
truncate(m) ==
    [bytes   |-> IF m.bytes < 2000 THEN m.bytes ELSE 2000,
     torn    |-> m.bytes > 2000 /\ m.runeAcross2000]

EventFits(r) == result[r] = "failed" => ~truncate(report[r]).torn

TableNext ==
    /\ Next
    /\ UNCHANGED data
    /\ \A r \in Requests :
         /\ InsertCommits(r) => RowFits(r)
         /\ InsertFails(r) /\ ~InsertCollides(r) => ~RowFits(r)
         /\ RecordEvent(r) => EventFits(r)
         /\ RecordFails(r) => ~EventFits(r)

TableSpec == TableInit /\ [][TableNext]_<<data, vars>>

-----------------------------------------------------------------------------
(* Properties. *)

Spellings == {i.form.phone : i \in Inputs}

(* With the database up, a form that validates is stored, unless every       *)
(* reference drawn for it was another lead's, save for two kinds that no     *)
(* rule keeps from a column that refuses them: text, that of a short         *)
(* User-Agent included, that is not text to PostgreSQL, and a weight under   *)
(* half a hundredth of a kilogram.  Their visitors are told to try again in  *)
(* a moment.                                                                 *)
UnavailableOnlyForBadData ==
    \A r \in Requests : reply[r].status = 503 =>
        \/ \E c \in TextColumns : ~Columns(r)[c].sound
        \/ agent[r].bytes <= 512 /\ ~agent[r].sound
        \/ form[r].weight.kind = "number" /\ form[r].weight.milli \in 1..4
        \/ tries[r] + 1 = Attempts /\ \E q \in quotes : q.owner # r

(* A lead on record can be answered: whatever form it came from, it names    *)
(* who asks, with every word they gave, where from and where to, and has an  *)
(* address and a number to reply to; what the other form asks is left out.   *)
StoredLeadsComplete ==
    \A q \in quotes : LET lead == Columns(q.owner) IN
        /\ \A c \in {"first_name", "origin", "destination"} : lead[c].parts # <<>>
        /\ Compact(form[q.owner]) =>
             lead.first_name.parts \o lead.last_name.parts = form[q.owner].name.parts
        /\ lead.email.kind = "bare" /\ lead.email.dotted
        /\ lead.phone.plus /\ lead.phone.separators = 0 /\ Len(lead.phone.digits) \in 8..15

(* One number is one phone on record: every accepted spelling of the number  *)
(* in a stored lead gives the phone stored.  What is stored is a number the  *)
(* form takes, sent again as it stands, and it comes out unchanged.          *)
PhonesCanonical ==
    \A q \in quotes : LET phone == Columns(q.owner).phone IN
        /\ InputPattern(phone) /\ PhoneError(phone) = "none" /\ Normalize(phone) = phone
        /\ \A p \in Spellings :
             (PhoneError(p) = "none" /\ SameNumber(p, form[q.owner].phone)) => Normalize(p) = phone

(* With the database up, every answered lead has its outcome on record, save *)
(* one whose send failed with a message longer than 2000 bytes that has a    *)
(* rune across the cut.                                                      *)
OutcomesLogged ==
    \A r \in Requests : reply[r].ref # NoRef =>
        \/ \E e \in events : e.ref = reply[r].ref
        \/ report[r].bytes > 2000 /\ report[r].runeAcross2000

(* A mail says whom to answer and about what: replies go to the address on   *)
(* record, the reference stands whole in a subject of at most 200 runes, and *)
(* the sender is never nameless: the name begins with the prospect's as it   *)
(* prints, cut at 80 runes, and fits in 200, and of a prospect whose name is *)
(* control characters only it is the bare address.                           *)
MailsNameTheLead ==
    \A m \in inbox : LET lead == Columns(m.owner)
                         mail == BuildMessage(lead)
                         name == Printed(lead.first_name.parts \o lead.last_name.parts) IN
        /\ mail.replyTo.address = lead.email
        /\ Runes(mail.subject) <= 200 /\ mail.subject[4] = RefRunes + 1
        /\ IF name = <<>> THEN mail.fromName = lead.email.parts
           ELSE /\ mail.fromName # <<>> /\ Runes(mail.fromName) <= 200
                /\ Runes(name) <= 80 => SubSeq(mail.fromName, 1, Len(name)) = name
        /\ mail.weight = lead.weight_kg \/ lead.weight_kg.kind \in {"none", "nan"}
=============================================================================
