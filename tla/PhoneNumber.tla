----------------------------- MODULE PhoneNumber -----------------------------
(***************************************************************************)
(* The rule for phone numbers: what Normalize makes of a typed number, and *)
(* what the pattern of the input field lets a browser send.                *)
(*                                                                         *)
(* A typed number is what the two rules tell apart: its digits in order,   *)
(* whether a plus stands before them, how many separators (spaces, ones    *)
(* that do not break too, dots, dashes, parentheses) are mixed in, whether  *)
(* there is a blank before the plus, whether anything else is in it, and    *)
(* the digits of an extension behind an x, ext or extension.  Definitions   *)
(* marked "Fault" show what a bug in the definition that follows would do;  *)
(* nothing uses them.                                                       *)
(***************************************************************************)
EXTENDS Integers, Sequences

TypedNumber ==
    [digits : Seq(0..9), plus : BOOLEAN, separators : Nat, lead : BOOLEAN,
     other : BOOLEAN, ext : Seq(0..9)]

Typed(digits, plus) ==
    [digits |-> digits, plus |-> plus, separators |-> 0, lead |-> FALSE,
     other |-> FALSE, ext |-> <<>>]

(* An area code and an exchange start with 2 to 9 and are no service code. *)
validNANP(ten) ==
    /\ ten[1] >= 2 /\ ten[4] >= 2
    /\ SubSeq(ten, 2, 3) # <<1, 1>> /\ SubSeq(ten, 5, 6) # <<1, 1>>

(* North American by its country code. *)
HasCode1(p) ==
    p.digits # <<>> /\ p.digits[1] = 1 /\ (p.plus \/ Len(p.digits) = 11)

(* The error Normalize returns, or "none".  Seven digits behind an x are no *)
(* extension, and the x is then a character like any other.                 *)
PhoneError(p) ==
    LET n == Len(p.digits) IN
    IF p.digits = <<>> /\ ~p.plus /\ p.separators = 0 /\ ~p.other /\ p.ext = <<>> THEN "empty"
    ELSE IF p.other \/ Len(p.ext) > 6 THEN "characters"
    ELSE IF HasCode1(p)
      THEN IF n # 11 THEN "length" ELSE IF validNANP(Tail(p.digits)) THEN "none" ELSE "nanp"
    ELSE IF p.plus
      THEN IF n \notin 8..15 THEN "length" ELSE IF p.digits[1] = 0 THEN "country" ELSE "none"
    ELSE IF n = 10 THEN IF validNANP(p.digits) THEN "none" ELSE "nanp"
    ELSE IF n < 10 THEN "length" ELSE "country"

(* Fault: ten digits get the plus and not the country code. *)
NormalizeWithoutCode(p) == [Typed(p.digits, TRUE) EXCEPT !.ext = p.ext]

(* What Normalize returns for a number without an error: +, country code and *)
(* number, and " ext. " with the extension.                                  *)
Normalize(p) ==
    LET code == IF ~p.plus /\ Len(p.digits) = 10 THEN <<1>> ELSE <<>>
    IN [Typed(code \o p.digits, TRUE) EXCEPT !.ext = p.ext]

(* The pattern attribute: an optional plus with nothing before it, seven to  *)
(* twenty digits and separators, and an extension.  Its \s takes tabs too,   *)
(* which Normalize does not: they are "other" here, and the pattern is the   *)
(* stricter for it only of numbers that are never stored.                    *)
InputPattern(p) ==
    /\ ~(p.plus /\ p.lead) /\ ~p.other
    /\ Len(p.digits) + p.separators \in 7..20
    /\ Len(p.ext) <= 6

(* The number a spelling stands for, read in the United States or Canada. *)
Dialled(p) == IF p.plus \/ Len(p.digits) # 10 THEN p.digits ELSE <<1>> \o p.digits

SameNumber(p, s) == Dialled(p) = Dialled(s) /\ p.ext = s.ext
=============================================================================
