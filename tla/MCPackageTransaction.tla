------------------------ MODULE MCPackageTransaction ------------------------
(* Instances of PackageTransaction for TLC: against policy 1, policy 2     *)
(* raises the floor and policy 3 tombstones a release; policy 3 is newer   *)
(* than 2 but would lower its floor.                                       *)
EXTENDS PackageTransaction, TLC

MCFloor == (0 :> 0) @@ (1 :> 1) @@ (2 :> 2) @@ (3 :> 1)
MCTombs == (0 :> {}) @@ (1 :> {}) @@ (2 :> {}) @@ (3 :> {2})
MCFiles == <<"owntransit-connector", "owntransitctl">>
MCReaderFiles == {"owntransit-connector"}
=============================================================================
