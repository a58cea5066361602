---------------------------- MODULE MCQuoteHandler ----------------------------
(***************************************************************************)
(* Instances of QuoteHandler for TLC.                                      *)
(***************************************************************************)
EXTENDS QuoteInvariant, TLC

Form(ip) ==
    [origin |-> "https://own", fetchSite |-> "same-origin",
     realIP |-> Absent, forwarded |-> Absent, remote |-> ip,
     body |-> "ok", website |-> FALSE, valid |-> TRUE]

(* Clean forms, one per address. *)
CleanForms == {Form(ip) : ip \in Addrs}

(* A clean form and one the honeypot catches. *)
CleanAndTrapped == CleanForms \cup {[Form(ip) EXCEPT !.website = TRUE] : ip \in Addrs}

Symmetry == Permutations(Requests) \cup Permutations(Refs)
=============================================================================
