----------------------- MODULE MC_ProviderValidation -----------------------
(***************************************************************************)
(* Inputs for ProviderValidation: every combination of an empty or set     *)
(* instance profile, capacity types drawn from a well-known and an unknown *)
(* value, subnet and security-group selectors that are nil, empty, good or *)
(* have an empty value or key, and a cluster whose name and endpoint vary  *)
(* over the cases url.Parse tells apart.  SetClusters keeps the clusters   *)
(* whose identity is set; AllClusters adds the zero-valued one.            *)
(***************************************************************************)
EXTENDS ProviderValidation

CONSTANTS EmptyMV, NilMV

MCWellKnownCapacityTypes == {"spot", "on-demand"}

Selectors ==
    {NilMV, {}, {<<"Name", "private">>}, {<<"Name", EmptyMV>>}, {<<EmptyMV, "private">>}}

Endpoints ==
    { [empty |-> TRUE,  unparsable |-> FALSE, scheme |-> EmptyMV, host |-> EmptyMV], \* ""
      [empty |-> FALSE, unparsable |-> FALSE, scheme |-> "https", host |-> "api"],   \* "https://api"
      [empty |-> FALSE, unparsable |-> FALSE, scheme |-> EmptyMV, host |-> EmptyMV], \* "api"
      [empty |-> FALSE, unparsable |-> FALSE, scheme |-> "https", host |-> EmptyMV], \* "https://"
      [empty |-> FALSE, unparsable |-> TRUE,  scheme |-> EmptyMV, host |-> EmptyMV] }\* "://api"

ConstraintsWith(clusters) ==
    [instanceProfile : {EmptyMV, "KarpenterNodeRole"},
     capacityTypes : SUBSET {"spot", "reserved"},
     subnetSelector : Selectors,
     securityGroupSelector : Selectors,
     cluster : clusters]

AllClusters == [name : {EmptyMV, "test-cluster"}, endpoint : Endpoints]
SetClusters == { x \in AllClusters : x.name # EmptyMV \/ ~EndpointEmpty(x.endpoint) }

MCSetClusterInputs == ConstraintsWith(SetClusters)
MCAllInputs == ConstraintsWith(AllClusters)

=============================================================================
