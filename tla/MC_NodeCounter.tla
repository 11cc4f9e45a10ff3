------------------------------ MODULE MC_NodeCounter ------------------------------
(***************************************************************************)
(* Two nodes in one zone, of two architectures: one of the provisioner    *)
(* counted and one of another provisioner.  Five list calls a round.      *)
(***************************************************************************)
EXTENDS NodeCounter

CONSTANTS n1, n2, EmptyMV

MCNodes == {n1, n2}
MCNodeLabels ==
    [n \in MCNodes |->
        [provisioner |-> IF n = n2 THEN "other" ELSE "default",
         zone |-> "z1",
         arch |-> IF n = n1 THEN "amd64" ELSE "arm64",
         instancetype |-> "m5.large",
         os |-> "linux"]]
MCZoneValues == <<"z1">>
MCArchValues == <<"amd64", "arm64">>
(* A cloud provider that registers an empty architecture value. *)
MCArchValuesWithEmpty == <<"amd64", EmptyMV>>
MCInstanceTypeValues == <<"m5.large">>
MCOSValues == <<"linux">>

=============================================================================
