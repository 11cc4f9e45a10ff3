------------------------------ MODULE Grouping ------------------------------
(***************************************************************************)
(* What getSchedules promises (spec 4.2, 4.3, 7), free of hashing, slices  *)
(* and pipeline stages.  The pods are taken in order; each is dropped or   *)
(* placed under a key (its class).  The first pod of a key opens a group   *)
(* whose daemons are those that fit the key; later pods of the key join    *)
(* it.  The pass either returns its groups or fails as a whole, and it     *)
(* always does one of the two.                                             *)
(***************************************************************************)
EXTENDS Naturals, Sequences

CONSTANTS
    NumPods,      \* the number of pods in the batch
    Keys,         \* the grouping keys a pod may have
    DaemonSets,   \* the daemon templates of the cluster
    Fits(_, _)    \* Fits(k, d): daemon d lands on a node of key k

VARIABLES
    next,       \* the pod considered next
    groups,     \* key -> [pods: the members in order, daemons]
    class,      \* pod -> the key it was placed under
    outcome     \* "running", "returned" or "failed"

vars == <<next, groups, class, outcome>>

Init ==
    /\ next = 1
    /\ groups = [k \in {} |-> {}]
    /\ class = [p \in {} |-> {}]
    /\ outcome = "running"

(* Pod next joins the group of key k, opening it if it is the first. *)
Place(k) ==
    /\ outcome = "running" /\ next <= NumPods
    /\ groups' =
         [g \in DOMAIN groups \cup {k} |->
            IF g # k THEN groups[g]
            ELSE IF k \in DOMAIN groups
                 THEN [groups[k] EXCEPT !.pods = Append(@, next)]
                 ELSE [pods |-> <<next>>, daemons |-> {d \in DaemonSets : Fits(k, d)}]]
    /\ class' = [p \in DOMAIN class \cup {next} |-> IF p = next THEN k ELSE class[p]]
    /\ next' = next + 1
    /\ UNCHANGED outcome

(* Pod next is dropped: its constraints are invalid. *)
Drop ==
    /\ outcome = "running" /\ next <= NumPods
    /\ next' = next + 1
    /\ UNCHANGED <<groups, class, outcome>>

Fail ==
    /\ outcome = "running"
    /\ outcome' = "failed"
    /\ UNCHANGED <<next, groups, class>>

Return ==
    /\ outcome = "running" /\ next > NumPods
    /\ outcome' = "returned"
    /\ UNCHANGED <<next, groups, class>>

Next == (\E k \in Keys : Place(k)) \/ Drop \/ Fail \/ Return

SafeSpec == Init /\ [][Next]_vars

Spec == SafeSpec /\ WF_vars(Next)

=============================================================================
