--------------------------- MODULE MC_Scheduler ---------------------------
(***************************************************************************)
(* A small instance of Scheduler for TLC: two zones, a capacity-type key,  *)
(* one provisioner taint, three daemon sets, and three pods drawn from     *)
(* five specs that between them exercise every path of the loop: a plain   *)
(* pod with a two-zone domain (whose slice order varies), a spot pod, a    *)
(* pod with hostname spread, a relaxable pod with two preferred terms of   *)
(* equal weight and a NotIn requirement, a pod with no preference left    *)
(* whose first required OR-term names a zone the provisioner lacks, and a *)
(* pod that is rejected.                                                   *)
(***************************************************************************)
EXTENDS Scheduler

CONSTANTS NoValueMV, t1

MCLabelKeys == {"zone", "hostname", "capacity"}
MCLabelKeyOrder == <<"zone", "hostname", "capacity">>
MCValues == {"z1", "z2", "z3", "spot", "od", "bogus", "h1", "h2", "h3"}
MCHostnames == {"h1", "h2", "h3"}
MCTaints == {t1}
MCWellKnownCapacityTypes == {"spot", "od"}

EmptySelector == [k \in MCLabelKeys |-> NoValueMV]
SelectorWith(k, v) == [EmptySelector EXCEPT ![k] = v]

MCProvisionerConstraints ==
    [labels |-> EmptySelector, taints |-> {t1}, zones |-> {"z1", "z2"}]

MCDaemonSets ==
    { [tolerations |-> {t1}, nodeSelector |-> EmptySelector],
      [tolerations |-> {t1}, nodeSelector |-> SelectorWith("capacity", "spot")],
      [tolerations |-> {},   nodeSelector |-> EmptySelector] }

PlainPod ==
    [nodeSelector |-> EmptySelector, affinity |-> NoValueMV,
     tolerations |-> {t1}, spread |-> FALSE, failed |-> FALSE]

MCPodSpecs ==
    { PlainPod,
      [PlainPod EXCEPT !.nodeSelector = SelectorWith("capacity", "spot")],
      [PlainPod EXCEPT !.spread = TRUE],
      [PlainPod EXCEPT !.failed = TRUE,
          !.affinity =
            [preferred |->
                << [weight |-> 1, terms |-> << [key |-> "zone", op |-> In, values |-> {"z1"}] >>],
                   [weight |-> 1, terms |-> << [key |-> "zone", op |-> In, values |-> {"z2"}] >>] >>,
             required |->
                << << [key |-> "zone", op |-> NotIn, values |-> {"z3"}] >> >>]],
      [PlainPod EXCEPT !.failed = TRUE,
          !.affinity =
            [preferred |-> << >>,
             required |->
                << << [key |-> "zone", op |-> In, values |-> {"z3"}] >>,
                   << [key |-> "zone", op |-> In, values |-> {"z1"}] >> >>]],
      [PlainPod EXCEPT !.nodeSelector = SelectorWith("capacity", "bogus")] }

=============================================================================
