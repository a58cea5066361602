------------------------------- MODULE LeadMail -------------------------------
(***************************************************************************)
(* The mail sales gets for a lead, as BuildMessage renders it: its headers *)
(* and the lines of its body that are not the field itself.  A header is   *)
(* the lengths of its words, blanks between them.                          *)
(***************************************************************************)
EXTENDS QuoteForm, FiniteSets

CONSTANT RefRunes    \* the length of a reference

(* A subject has room for it: it is 14 runes and the brand's few.           *)
ASSUME MailAssumption == RefRunes \in 1..181

(* What is not a blank or a control character, in the words headerSafe sees: *)
(* a run of blanks and control characters is one blank, none at either end.  *)
Printed(ps) ==
    LET upTo[i \in 0..Len(ps)] ==
          IF i = 0 THEN <<>>
          ELSE IF ps[i] = 0 THEN upTo[i - 1] ELSE Append(upTo[i - 1], ps[i])
    IN upTo[Len(ps)]

(* Runes before word i, the blank in front of it included. *)
Before(ws, i) == Through(ws)[i - 1]

(* The words that begin within the limit, the last one cut at it. *)
Cut(ws, max) ==
    LET kept == {i \in DOMAIN ws : Before(ws, i) < max}
    IN [i \in 1..Cardinality(kept) |->
          IF ws[i] < max - Before(ws, i) THEN ws[i] ELSE max - Before(ws, i)]

headerSafe(ps, max) == Cut(Printed(ps), max)

(* Text in parentheses: one rune more at either end. *)
Parenthesised(ps) ==
    [i \in DOMAIN ps |-> ps[i] + (IF i = 1 THEN 1 ELSE 0) + (IF i = Len(ps) THEN 1 ELSE 0)]

(* "New quote request <ref>: <origin> -> <destination> (<company>)" *)
subjectFor(rec) ==
    headerSafe(<<3, 5, 7, RefRunes + 1>> \o rec.origin.parts \o <<1>>
                 \o rec.destination.parts \o Parenthesised(rec.company_name.parts), 200)

ProspectName(rec) == headerSafe(rec.first_name.parts \o rec.last_name.parts, 80)

(* Fault: the test for a name that prints nothing is missing. *)
FromNameInParentheses(rec) ==
    headerSafe(ProspectName(rec) \o Parenthesised(rec.email.parts), 200)

(* "<name> (<address>)", or the address as it is when no name is left. *)
FromName(rec) ==
    IF ProspectName(rec) = <<>> THEN rec.email.parts
    ELSE headerSafe(ProspectName(rec) \o Parenthesised(rec.email.parts), 200)

(* The prospect's address parses, as validateQuote parsed it. *)
BuildMessage(rec) ==
    [replyTo  |-> [name |-> ProspectName(rec), address |-> rec.email],
     fromName |-> FromName(rec),
     subject  |-> subjectFor(rec),
     company  |-> IF rec.company_name.parts = <<>> THEN <<1>> ELSE rec.company_name.parts,
     weight   |-> IF rec.weight_kg.kind = "number" THEN rec.weight_kg ELSE [kind |-> "dash"]]
=============================================================================
