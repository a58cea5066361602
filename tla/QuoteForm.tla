------------------------------ MODULE QuoteForm ------------------------------
(***************************************************************************)
(* The two quote forms: the fields a browser posts, the rules of           *)
(* validateQuote, and the record it makes of a form without errors.        *)
(*                                                                         *)
(* A text is the lengths, in runes, of its parts, and whether all of it is *)
(* text to PostgreSQL (`sound`: UTF-8 without NUL).  One rune stands       *)
(* between two parts: a blank, or where `control` says so a control        *)
(* character, which is no blank to strings.Fields and so belongs to a      *)
(* word.  A word is one part or several with control characters between    *)
(* them, some of them empty: a control character alone is two empty parts. *)
(* Blanks around a text and doubled ones are left out: every text but the  *)
(* cargo details goes through TrimSpace and collapseSpace.  A weight is in *)
(* thousandths of a kilogram, and one below a thousandth, which is not     *)
(* here, goes the way of 1 to 4 of them.  Definitions marked "Fault" show  *)
(* what a bug in the definition that follows would do; nothing uses them.  *)
(***************************************************************************)
EXTENDS PhoneNumber

Parts == Seq(Nat)

(* Separator i is the rune behind part i; an empty part is beside a control *)
(* character.                                                               *)
FormText ==
    {t \in [parts : Parts, control : SUBSET Nat, sound : BOOLEAN] :
        /\ t.control \subseteq 1..(Len(t.parts) - 1)
        /\ \A i \in 1..Len(t.parts) : t.parts[i] = 0 => {i - 1, i} \cap t.control # {}}

(* What a browser may post.  An address has parts as a text has: an atom of  *)
(* it may hold any rune beyond ASCII, blanks and control characters among    *)
(* them.                                                                     *)
Form ==
    [variant : STRING, name : FormText, last : FormText, company : FormText,
     cargo : FormText, origin : FormText, destination : FormText,
     email : [kind : {"bare", "named", "junk"}, bytes : Nat, parts : Parts, dotted : BOOLEAN],
     phone : TypedNumber, service : STRING,
     weight : [kind : {"none", "junk", "nan", "number"}, milli : Int]]

Text(words) == [parts |-> words, control |-> {}, sound |-> TRUE]
NoText == Text(<<>>)

(* Runes of the first parts of ps, the rune behind each one included. *)
Through(ps) ==
    LET runes[i \in 0..Len(ps)] == IF i = 0 THEN 0 ELSE runes[i - 1] + ps[i] + 1
    IN runes

(* RuneCountInString of parts with one rune between them. *)
Runes(ps) == IF ps = <<>> THEN 0 ELSE Through(ps)[Len(ps)] - 1

(* Anything but "full" is taken for the compact form. *)
Compact(f) == f.variant # "full"

TextOK(t, required, max) == (required => t.parts # <<>>) /\ Runes(t.parts) <= max

(* mail.ParseAddress takes a display name too; it must not have changed what *)
(* was typed.                                                                *)
EmailOK(e) == e.kind = "bare" /\ e.bytes <= 254 /\ e.dotted

(* Fault: zero is let through. *)
WeightOKAtZero(w) == w.kind \in {"none", "nan"} \/ (w.kind = "number" /\ w.milli >= 0 /\ w.milli <= 1000000000)

(* ParseFloat reads NaN, and NaN is neither at most zero nor over the limit. *)
WeightOK(w) == w.kind \in {"none", "nan"} \/ (w.kind = "number" /\ w.milli > 0 /\ w.milli <= 1000000000)

(* The fields validateQuote reports. *)
Errors(f) ==
    LET ok == [full_name     |-> Compact(f) => TextOK(f.name, TRUE, 120),
               first_name    |-> ~Compact(f) => TextOK(f.name, TRUE, 80),
               last_name     |-> ~Compact(f) => TextOK(f.last, FALSE, 80),
               company_name  |-> ~Compact(f) => TextOK(f.company, FALSE, 120),
               cargo_details |-> ~Compact(f) => TextOK(f.cargo, FALSE, 2000),
               origin        |-> TextOK(f.origin, TRUE, 120),
               destination   |-> TextOK(f.destination, TRUE, 120),
               email         |-> EmailOK(f.email),
               phone         |-> PhoneError(f.phone) = "none",
               service_type  |-> f.service = "known",
               weight_kg     |-> WeightOK(f.weight)]
    IN {field \in DOMAIN ok : ~ok[field]}

(* The parts of t from i to j. *)
Piece(t, i, j) ==
    [t EXCEPT !.parts = SubSeq(@, i, j), !.control = {c - i + 1 : c \in @ \cap (i..(j - 1))}]

(* The first word ends at the first blank, or at the end. *)
FirstWord(t) ==
    CHOOSE n \in 0..Len(t.parts) :
        /\ n \notin t.control /\ (n = 0 => t.parts = <<>>)
        /\ \A i \in 1..(n - 1) : i \in t.control

(* Fault: of a name in several words the last one is the last name. *)
NamesByLastWord(f) ==
    IF Compact(f)
      THEN <<Piece(f.name, 1, FirstWord(f.name)),
             Piece(f.name, Len(f.name.parts), Len(f.name.parts))>>
      ELSE <<f.name, f.last>>

(* First and last name: the compact form's one field is cut at its first blank. *)
Names(f) ==
    IF Compact(f)
      THEN <<Piece(f.name, 1, FirstWord(f.name)),
             Piece(f.name, FirstWord(f.name) + 1, Len(f.name.parts))>>
      ELSE <<f.name, f.last>>

(* The record of a form without errors; an empty text is stored as NULL. *)
QuoteRecord(f) ==
    [first_name    |-> Names(f)[1],
     last_name     |-> Names(f)[2],
     company_name  |-> IF Compact(f) THEN NoText ELSE f.company,
     cargo_details |-> IF Compact(f) THEN NoText ELSE f.cargo,
     origin        |-> f.origin,
     destination   |-> f.destination,
     email         |-> f.email,
     phone         |-> Normalize(f.phone),
     weight_kg     |-> f.weight]

TextColumns ==
    {"first_name", "last_name", "company_name", "cargo_details", "origin", "destination"}

(* NUMERIC(12, 2): hundredths, a half rounded away from zero. *)
Hundredths(w) == (w.milli + 5) \div 10

(* The row the table takes: text in its encoding, and weight_kg NULL or      *)
(* positive, as NaN is to PostgreSQL.                                        *)
Storable(rec) ==
    /\ \A c \in TextColumns : rec[c].sound
    /\ rec.weight_kg.kind = "number" => Hundredths(rec.weight_kg) > 0
=============================================================================
