---------------------------- MODULE MCServerProcess ----------------------------
(***************************************************************************)
(* Instances of ServerProcess for TLC.                                     *)
(***************************************************************************)
EXTENDS ServerInvariant
=============================================================================
