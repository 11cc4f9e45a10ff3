----------------------- MODULE MC_SchedulerRefinement -----------------------
(***************************************************************************)
(* The instance of MC_Scheduler, checked against Grouping.  The grouping   *)
(* keys are narrowed to those the instance can produce: no zone label, a  *)
(* hostname label from Inject, a well-known capacity type from a selector, *)
(* zones among the provisioner's and its taint.  A schedule opened under  *)
(* any other key fails the refinement, so the narrowing hides nothing.    *)
(***************************************************************************)
EXTENDS MC_Scheduler, SchedulerRefinement

MCSelectors ==
    { [k \in MCLabelKeys |-> IF k = "hostname" THEN h
                             ELSE IF k = "capacity" THEN ct ELSE NoValueMV]
        : h \in {NoValueMV} \cup MCHostnames, ct \in {NoValueMV} \cup MCWellKnownCapacityTypes }

MCGroupKeys == [labels : MCSelectors, taints : SUBSET MCTaints, zones : SUBSET {"z1", "z2"}]

=============================================================================
