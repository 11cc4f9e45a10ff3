---------------------------- MODULE NodeCounter ----------------------------
(***************************************************************************)
(* publishNodeCountsForProvisioner (src/pkg/controllers/metrics/node/      *)
(* counter.go, lines 133-235), run round after round while the cluster's   *)
(* nodes come, go and change readiness.  A round lists the provisioner's   *)
(* nodes once for the node_count gauge, then for every zone once for the   *)
(* ready count of the zone and once per architecture, instance type and    *)
(* operating system; each list call may fail, and each publishCount may    *)
(* fail.  Errors are collected and combined, never short-circuiting.       *)
(*                                                                         *)
(* A query is the record of its gauge and of its node labels; a gauge's    *)
(* series is named by the query's labels, with empty values left out       *)
(* (metricLabelsFrom).                                                     *)
(***************************************************************************)
EXTENDS Naturals, Sequences, FiniteSets

CONSTANTS
    Nodes,          \* the nodes that may exist
    NodeLabels,     \* NodeLabels[n]: the labels node n carries
    Provisioner,    \* the provisioner whose nodes are counted
    Empty,          \* the empty string
    ZoneValues, ArchValues, InstanceTypeValues, OSValues   \* known values, as sequences

LabelNames == {"provisioner", "zone", "arch", "instancetype", "os"}
Statuses == {"True", "False"}

(* The label names each gauge vector was registered with, lines 57-122. *)
GaugeLabels ==
    [node_count |-> {"provisioner"},
     ready_node_count |-> {"provisioner", "zone"},
     ready_node_arch_count |-> {"arch", "provisioner", "zone"},
     ready_node_instancetype_count |-> {"instancetype", "provisioner", "zone"},
     ready_node_os_count |-> {"os", "provisioner", "zone"}]

(* The cluster holds finitely many nodes; the known values are Go slices *)
(* of strings, filled by the cloud provider (the empty string included).  *)
ASSUME NodeCounterAssumption ==
    /\ IsFiniteSet(Nodes)
    /\ NodeLabels \in [Nodes -> [LabelNames -> STRING \cup {Empty}]]
    /\ Provisioner # Empty
    /\ \A vs \in {ZoneValues, ArchValues, InstanceTypeValues, OSValues} : vs \in Seq(STRING \cup {Empty})

VARIABLES
    present,    \* the nodes that exist
    status,     \* the status of each node's Ready condition
    k,          \* the index of the next list call of the round
    errors,     \* the errors the round has collected
    gauges,     \* the value of every gauge series set so far
    written     \* history: the series the round has set so far

vars == <<present, status, k, errors, gauges, written>>

-----------------------------------------------------------------------------
(* client.MatchingLabels of one list call. *)
Sel(zone, key, value) ==
    [l \in LabelNames |->
        IF l = "provisioner" THEN Provisioner
        ELSE IF l = "zone" THEN zone
        ELSE IF l = key THEN value ELSE Empty]

NoneSelected == Sel(Empty, "zone", Empty)

(***************************************************************************)
(* The list calls of one round in the order the loops make them, lines    *)
(* 141-187: the provisioner's nodes, then per zone the zone's ready nodes  *)
(* followed by its per-arch, per-instance-type and per-OS ready nodes.     *)
(***************************************************************************)
ZoneQueries(z) ==
    << [gauge |-> "ready_node_count", sel |-> Sel(z, "zone", z)] >>
    \o [j \in 1..Len(ArchValues) |->
          [gauge |-> "ready_node_arch_count", sel |-> Sel(z, "arch", ArchValues[j])]]
    \o [j \in 1..Len(InstanceTypeValues) |->
          [gauge |-> "ready_node_instancetype_count",
           sel |-> Sel(z, "instancetype", InstanceTypeValues[j])]]
    \o [j \in 1..Len(OSValues) |->
          [gauge |-> "ready_node_os_count", sel |-> Sel(z, "os", OSValues[j])]]

PerZone == 1 + Len(ArchValues) + Len(InstanceTypeValues) + Len(OSValues)

Queries ==
    << [gauge |-> "node_count", sel |-> NoneSelected] >>
    \o [q \in 1..Len(ZoneValues) * PerZone |->
          ZoneQueries(ZoneValues[((q - 1) \div PerZone) + 1])[((q - 1) % PerZone) + 1]]

(* The nodes a list call returns: those present whose labels match. *)
Matching(sel) ==
    { n \in present : \A l \in LabelNames : sel[l] # Empty => NodeLabels[n][l] = sel[l] }

(***************************************************************************)
(* filterReadyNodes, lines 192-206: a node whose Ready condition has a     *)
(* status that lower-cases to "true".                                      *)
(***************************************************************************)
Ready(n) == status[n] = "True"

(* The count the callback publishes: all nodes for node_count, else ready. *)
Count(q) ==
    IF q.gauge = "node_count" THEN Cardinality(Matching(q.sel))
    ELSE Cardinality({n \in Matching(q.sel) : Ready(n)})

(* metricLabelsFrom, lines 208-227: the non-empty label values. *)
MetricLabels(sel) == { <<l, sel[l]>> : l \in { m \in LabelNames : sel[m] # Empty } }

(* GetMetricWith succeeds when the labels are exactly the vector's names. *)
PublishOk(q) == { pr[1] : pr \in MetricLabels(q.sel) } = GaugeLabels[q.gauge]

Series(q) == <<q.gauge, MetricLabels(q.sel)>>

-----------------------------------------------------------------------------
Init ==
    /\ present \in SUBSET Nodes
    /\ status \in [Nodes -> Statuses]
    /\ k = 1
    /\ errors = 0
    /\ gauges = [s \in {} |-> 0]
    /\ written = {}

(***************************************************************************)
(* One consumeNodesWith call and its callback, publishCount, lines 142-187 *)
(* and 229-235: the list fails, or the count is published to the series   *)
(* (which fails when a label value is empty), the error being appended.    *)
(***************************************************************************)
SetGauge(s, q) ==
    [x \in DOMAIN s \cup {Series(q)} |-> IF x = Series(q) THEN Count(q) ELSE s[x]]

\* Mutant: the error consumeNodesWith returns is not appended.
ListFailsSilently ==
    /\ k <= Len(Queries)
    /\ k' = k + 1
    /\ UNCHANGED <<present, status, gauges, written, errors>>

ListFails ==
    /\ k <= Len(Queries)
    /\ errors' = errors + 1
    /\ k' = k + 1
    /\ UNCHANGED <<present, status, gauges, written>>

\* Mutant: the error publishCount returns is dropped.
ListAndPublishIgnoresError ==
    /\ k <= Len(Queries)
    /\ LET q == Queries[k]
       IN  IF PublishOk(q)
           THEN /\ gauges' = SetGauge(gauges, q)
                /\ written' = written \cup {Series(q)}
                /\ UNCHANGED errors
           ELSE UNCHANGED <<gauges, written, errors>>
    /\ k' = k + 1
    /\ UNCHANGED <<present, status>>

ListAndPublish ==
    /\ k <= Len(Queries)
    /\ LET q == Queries[k]
       IN  IF PublishOk(q)
           THEN /\ gauges' = SetGauge(gauges, q)
                /\ written' = written \cup {Series(q)}
                /\ UNCHANGED errors
           ELSE /\ errors' = errors + 1
                /\ UNCHANGED <<gauges, written>>
    /\ k' = k + 1
    /\ UNCHANGED <<present, status>>

\* Mutant: the next round starts with the last round's errors.
NextRoundKeepsErrors ==
    /\ k > Len(Queries)
    /\ k' = 1
    /\ written' = {}
    /\ UNCHANGED <<present, status, gauges, errors>>

(* multierr.Combine returns, line 189; the controller starts the next round. *)
NextRound ==
    /\ k > Len(Queries)
    /\ k' = 1
    /\ errors' = 0
    /\ written' = {}
    /\ UNCHANGED <<present, status, gauges>>

(* The cluster changes between list calls. *)
NodeCreated(n) ==
    /\ n \notin present
    /\ present' = present \cup {n}
    /\ UNCHANGED <<status, k, errors, gauges, written>>

NodeDeleted(n) ==
    /\ n \in present
    /\ present' = present \ {n}
    /\ UNCHANGED <<status, k, errors, gauges, written>>

ReadinessChanged(n) ==
    /\ \E s \in Statuses \ {status[n]} : status' = [status EXCEPT ![n] = s]
    /\ UNCHANGED <<present, k, errors, gauges, written>>

Next ==
    \/ ListFails \/ ListAndPublish \/ NextRound
    \/ \E n \in Nodes : NodeCreated(n) \/ NodeDeleted(n) \/ ReadinessChanged(n)

Spec == Init /\ [][Next]_vars

-----------------------------------------------------------------------------
TypeOK ==
    /\ present \subseteq Nodes
    /\ status \in [Nodes -> Statuses]
    /\ k \in 1..Len(Queries) + 1
    /\ errors \in 0..(k - 1)
    /\ \A s \in DOMAIN gauges : gauges[s] \in 0..Cardinality(Nodes)
    /\ written \subseteq DOMAIN gauges

(***************************************************************************)
(* A round that leaves a gauge series stale returns an error.  A list     *)
(* call that fails (line 142, 151, ...) skips its callback, so its series  *)
(* keeps the value of an earlier round while the other series move on;    *)
(* nothing but the combined error of line 189 tells the caller.  Once the  *)
(* round is over, either every series it names was set during the round,   *)
(* or the round has collected an error, whatever the interleaving of list  *)
(* calls, failures and node changes.                                       *)
(***************************************************************************)
StaleSeriesReported ==
    k > Len(Queries) /\ errors = 0 =>
        \A j \in 1..Len(Queries) : Series(Queries[j]) \in written

(***************************************************************************)
(* A round that could not publish a series returns an error.  When a      *)
(* known label value is the empty string, metricLabelsFrom drops it and   *)
(* GetMetricWith refuses the labels, so the gauge is silently not set;    *)
(* once the round is over, its combined error must say so, however the    *)
(* other list calls of the round went.                                     *)
(***************************************************************************)
DroppedLabelReported ==
    k > Len(Queries) /\ (\E j \in 1..Len(Queries) : ~PublishOk(Queries[j])) => errors > 0

=============================================================================
