------------------------------- MODULE MCMigrate -------------------------------
(***************************************************************************)
(* Instances of Migrate for TLC.                                           *)
(***************************************************************************)
EXTENDS MigrateInvariant, TLC

CONSTANTS r1, r2, r3

(* The second run is of the next release, which adds a file between the    *)
(* two of the first and one behind them.                                   *)
TwoReleases == r1 :> {1, 3} @@ r2 :> {1, 2, 3, 4}

(* The third run repeats the second.                                       *)
ThreeRuns == TwoReleases @@ r3 :> {1, 2, 3, 4}
=============================================================================
