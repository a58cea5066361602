------------------------------ MODULE MCQuoteRate ------------------------------
(***************************************************************************)
(* Instances of QuoteRate for TLC.                                         *)
(***************************************************************************)
EXTENDS QuoteRate, MCQuoteHandler
=============================================================================
