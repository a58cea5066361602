---------------------------- MODULE MCQuoteSession ----------------------------
(***************************************************************************)
(* An instance of QuoteSession for TLC: one visitor who may send the form  *)
(* a second time, and one who sends it once.                               *)
(***************************************************************************)
EXTENDS QuoteSession

CleanForms ==
    {[origin |-> "https://own", fetchSite |-> "same-origin",
      realIP |-> Absent, forwarded |-> Absent, remote |-> ip,
      body |-> "ok", website |-> FALSE, valid |-> TRUE] : ip \in Addrs}

TwoAndOne == [v \in {"v1", "v2"} |-> IF v = "v1" THEN <<"r1", "r2">> ELSE <<"r3">>]
=============================================================================
