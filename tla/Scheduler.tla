----------------------------- MODULE Scheduler -----------------------------
(***************************************************************************)
(* One call of Scheduler.Solve (src/unnamed/part_001, lines 177-376): the  *)
(* provisioner's constraints are copied and constrained, the pods' soft    *)
(* preferences relaxed, topology spread injected as hostname selectors,    *)
(* and the pods grouped one by one into schedules keyed by a set-insensitive *)
(* hash of their effective constraints, each new schedule getting the      *)
(* daemons that would land on its node; the injected hostname label is    *)
(* finally stripped and the outcome recorded in a metric.                  *)
(*                                                                         *)
(* Preferences.Relax, Topology.Inject and NewConstraints are not under     *)
(* src/: they are modelled from the spec (sections 4.2, 4.4, 4.5).         *)
(***************************************************************************)
EXTENDS NodeAffinity

CONSTANTS
    LabelKeys,          \* label keys a selector or a requirement may name
    LabelKeyOrder,      \* LabelKeys as a sequence (a Go map's iteration order)
    Values,             \* label values: zones, capacity types, hostnames, ...
    NoValue,            \* an absent map entry, a nil affinity
    ZoneKey, HostnameKey, CapacityTypeKey,
    WellKnownCapacityTypes,
    Taints,             \* taints a provisioner may carry
    Hostnames,          \* the hostnames Topology.Inject may invent
    MaxSkew,            \* the max skew of the pods' hostname spread constraint
    ProvisionerConstraints,
    DaemonSets,         \* the cluster's daemon-set templates
    PodSpecs,           \* the pod specs a caller may pass
    NumPods             \* the length of the pod slice passed to Solve

Selector == [LabelKeys -> Values \cup {NoValue}]
Req == Requirement(LabelKeys, Values)

ConstraintsType == [labels : Selector, taints : SUBSET Taints, zones : SUBSET Values]
Preference == [weight : Nat, terms : Seq(Req)]
Affinity == [preferred : Seq(Preference), required : Seq(Seq(Req))]
PodType ==
    [nodeSelector : Selector,
     affinity : {NoValue} \cup Affinity,
     tolerations : SUBSET Taints, spread : BOOLEAN, failed : BOOLEAN]
ScheduleType ==
    [constraints : [labels : Selector, taints : SUBSET Taints, zones : Seq(Values)],
     pods : Seq(1..NumPods), daemons : SUBSET DaemonSets]

ASSUME ConstantsAssumption ==
    /\ NoValue \notin Values
    /\ NoValue \notin Affinity      \* a nil affinity is not an affinity
    /\ {ZoneKey, HostnameKey, CapacityTypeKey} \subseteq LabelKeys
    /\ LabelKeyOrder \in Seq(LabelKeys)
    /\ WellKnownCapacityTypes \subseteq Values
    /\ Hostnames \subseteq Values
    /\ MaxSkew \in Nat \ {0}
    /\ NumPods \in Nat
    /\ IsFiniteSet(Values)
    /\ PodSpecs \subseteq PodType
    /\ ProvisionerConstraints \in ConstraintsType
    /\ ProvisionerConstraints.labels[HostnameKey] = NoValue
    /\ DaemonSets \subseteq [tolerations : SUBSET Taints, nodeSelector : Selector]

VARIABLES
    pc,           \* the stage of solve the call is at
    constraints,  \* the deep copy of the provisioner's constraints (line 281)
    pods,         \* the caller's pods, mutated in place by the pipeline
    i,            \* the index of the next pod of the getSchedules loop
    schedules,    \* the schedules map of getSchedules, keyed by hash
    err,          \* the stage whose error the call returns, or "none"
    observed,     \* the result label of the duration metric, once recorded
    grouped       \* history: the effective constraints of every valid pod
                  \* the loop has placed (the code discards them)

vars == <<pc, constraints, pods, i, schedules, err, observed, grouped>>

-----------------------------------------------------------------------------
(***************************************************************************)
(* Effective constraints of a pod (NewConstraints, spec 4.2 and 4.7).  The *)
(* provisioner's labels are overridden by the pod's node selector; the     *)
(* zones are the provisioner's narrowed by the pod's node affinity.  The   *)
(* pod is rejected when it does not tolerate the provisioner's taints,     *)
(* selects a label value the provisioner fixes differently, selects a      *)
(* capacity type that is not well known (validateCapacityTypes, line 41)   *)
(* or leaves no zone.                                                      *)
(***************************************************************************)
PodAffinity(pod, sortedPref) ==
    NodeAffinityFor(pod, sortedPref, LabelKeyOrder, NoValue)

EffectiveZones(c, pod, sortedPref) ==
    GetLabelValues(PodAffinity(pod, sortedPref), ZoneKey, <<c.zones>>)

\* Mutant: the pod's hostname selector is not carried into the labels.
EffectiveLabelsNoHostname(c, pod) ==
    [k \in LabelKeys |-> IF pod.nodeSelector[k] # NoValue /\ k # HostnameKey
                         THEN pod.nodeSelector[k] ELSE c.labels[k]]

EffectiveLabels(c, pod) ==
    [k \in LabelKeys |-> IF pod.nodeSelector[k] # NoValue
                         THEN pod.nodeSelector[k] ELSE c.labels[k]]

ValidConstraints(c, pod, sortedPref) ==
    LET sel == pod.nodeSelector
    IN  /\ c.taints \subseteq pod.tolerations
        /\ \A k \in LabelKeys :
              sel[k] # NoValue /\ c.labels[k] # NoValue => sel[k] = c.labels[k]
        /\ sel[CapacityTypeKey] \in WellKnownCapacityTypes \cup {NoValue}
        /\ EffectiveZones(c, pod, sortedPref) # {}

(* The effective constraints as a value whose slices are sets. *)
EffectiveConstraints(c, pod, sortedPref) ==
    [labels |-> EffectiveLabels(c, pod), taints |-> c.taints,
     zones |-> EffectiveZones(c, pod, sortedPref)]

(* The orders a slice built by iterating a Go map over S may come out in. *)
Orderings(S) == { f \in [1..Cardinality(S) -> S] : Elems(f) = S }

(* The constraints value NewConstraints returns, zones in the order zs. *)
NewConstraints(c, pod, zs) ==
    [labels |-> EffectiveLabels(c, pod), taints |-> c.taints, zones |-> zs]

(* The orders sort.Slice may leave a pod's preferred terms in. *)
SortedPrefs(pod) ==
    IF pod.affinity = NoValue THEN {<< >>}
    ELSE SortedByWeight(pod.affinity.preferred)

(* The pod after NodeAffinityFor has sorted its preferred terms in place. *)
WithPreferred(pod, sortedPref) ==
    IF pod.affinity = NoValue THEN pod
    ELSE [pod EXCEPT !.affinity.preferred = sortedPref]

(***************************************************************************)
(* hashstructure.Hash(constraints, SlicesAsSets), line 318: two values     *)
(* with the same elements in their slices hash alike.  The hash is taken   *)
(* to be injective on the values a call produces.                          *)
(***************************************************************************)
\* Mutant: the hash without SlicesAsSets.
KeyOrdered(c) == [labels |-> c.labels, taints |-> c.taints, zones |-> c.zones]

Key(c) == [labels |-> c.labels, taints |-> c.taints, zones |-> Elems(c.zones)]

(***************************************************************************)
(* DaemonWillSchedule, lines 364-376: every taint of the node tolerated,   *)
(* and the template's node selector matched by the node's labels.          *)
(***************************************************************************)
DaemonWillSchedule(c, d) ==
    /\ c.taints \subseteq d.tolerations
    /\ \A k \in LabelKeys :
          d.nodeSelector[k] # NoValue => c.labels[k] = d.nodeSelector[k]

\* Mutant: the daemons computed for the provisioner's constraints.
GetDaemonsOfProvisioner(c) ==
    { d \in DaemonSets : DaemonWillSchedule(ProvisionerConstraints, d) }

(* getDaemons, lines 346-362: the templates that will schedule there. *)
GetDaemons(c) == { d \in DaemonSets : DaemonWillSchedule(c, d) }

(* The loop of solve removing the injected hostname label, lines 299-302. *)
StripHostname(s) ==
    [k \in DOMAIN s |->
        [s[k] EXCEPT !.constraints.labels[HostnameKey] = NoValue]]

-----------------------------------------------------------------------------
Init ==
    /\ pc = "constrain"
    /\ constraints = ProvisionerConstraints
    /\ pods \in [1..NumPods -> PodSpecs]
    /\ i = 1
    /\ schedules = [k \in {} |-> NoValue]
    /\ err = "none"
    /\ observed = "none"
    /\ grouped = [p \in {} |-> NoValue]

(***************************************************************************)
(* constraints.Constrain(ctx), lines 281-284: the ConstrainHook (register  *)
(* .go line 62) may narrow the copy, or fail the call.                     *)
(***************************************************************************)
ConstrainOk ==
    /\ pc = "constrain"
    /\ \E z \in SUBSET constraints.zones :
          constraints' = [constraints EXCEPT !.zones = z]
    /\ pc' = "relax"
    /\ UNCHANGED <<pods, i, schedules, err, observed, grouped>>

ConstrainFails ==
    /\ pc = "constrain"
    /\ err' = "constrain"
    /\ pc' = "record"
    /\ UNCHANGED <<constraints, pods, i, schedules, observed, grouped>>

(***************************************************************************)
(* Preferences.Relax, line 286 (spec 4.4 and 4.6; the comments at lines    *)
(* 131 and 137): a pod that failed to schedule before loses its heaviest   *)
(* preferred term; once it has none left, it loses its first required      *)
(* OR-term, as long as another remains.  Nothing else changes.             *)
(***************************************************************************)
\* Mutant: relaxing drops the first required OR-term with the preference.
RelaxedRequired(pod) ==
    IF pod.failed /\ pod.affinity # NoValue /\ Len(pod.affinity.preferred) > 0
    THEN { [pod EXCEPT !.affinity.preferred = Tail(s), !.affinity.required = Tail(@)]
             : s \in SortedPrefs(pod) }
    ELSE IF pod.failed /\ pod.affinity # NoValue /\ Len(pod.affinity.required) > 1
    THEN { [pod EXCEPT !.affinity.required = Tail(@)] }
    ELSE {pod}

Relaxed(pod) ==
    IF pod.failed /\ pod.affinity # NoValue /\ Len(pod.affinity.preferred) > 0
    THEN { [pod EXCEPT !.affinity.preferred = Tail(s)] : s \in SortedPrefs(pod) }
    ELSE IF pod.failed /\ pod.affinity # NoValue /\ Len(pod.affinity.required) > 1
    THEN { [pod EXCEPT !.affinity.required = Tail(@)] }
    ELSE {pod}

Relax ==
    /\ pc = "relax"
    /\ \E np \in [1..Len(pods) -> UNION {Relaxed(pods[p]) : p \in 1..Len(pods)}] :
          /\ \A p \in 1..Len(pods) : np[p] \in Relaxed(pods[p])
          /\ pods' = np
    /\ pc' = "inject"
    /\ UNCHANGED <<constraints, i, schedules, err, observed, grouped>>

(***************************************************************************)
(* Topology.Inject, lines 287-293 (spec 4.5): every pod with a hostname    *)
(* spread constraint gets a hostname node selector, no hostname taking     *)
(* more than MaxSkew of them; or listing the cluster fails the call.       *)
(***************************************************************************)
SpreadPods == { p \in 1..Len(pods) : pods[p].spread }

InjectOk ==
    /\ pc = "inject"
    /\ \E h \in [SpreadPods -> Hostnames] :
          /\ \A v \in Hostnames : Cardinality({p \in SpreadPods : h[p] = v}) <= MaxSkew
          /\ pods' = [p \in 1..Len(pods) |->
                        IF p \in SpreadPods
                        THEN [pods[p] EXCEPT !.nodeSelector[HostnameKey] = h[p]]
                        ELSE pods[p]]
    /\ pc' = "group"
    /\ UNCHANGED <<constraints, i, schedules, err, observed, grouped>>

InjectFails ==
    /\ pc = "inject"
    /\ err' = "inject"
    /\ pc' = "record"
    /\ UNCHANGED <<constraints, pods, i, schedules, observed, grouped>>

(***************************************************************************)
(* One iteration of the getSchedules loop, lines 312-337, for pod i.       *)
(* NewConstraints sorts the pod's preferred terms in place (line 134) and  *)
(* either rejects the pod (the `continue`, lines 314-317) or returns its   *)
(* constraints, whose zones come out in any order.  A new hash key lists   *)
(* the daemon sets (which may fail the call) before the pod is appended.   *)
(***************************************************************************)
GroupInvalid ==
    /\ pc = "group" /\ i <= Len(pods)
    /\ \E sp \in SortedPrefs(pods[i]) :
          /\ ~ValidConstraints(constraints, pods[i], sp)
          /\ pods' = [pods EXCEPT ![i] = WithPreferred(pods[i], sp)]
    /\ i' = i + 1
    /\ UNCHANGED <<pc, constraints, schedules, err, observed, grouped>>

\* Mutant: the loop appends the index of the next pod.
AppendPodOffByOne(s, key, c) ==
    IF key \in DOMAIN s
    THEN [s EXCEPT ![key].pods = Append(@, i + 1)]
    ELSE [k \in DOMAIN s \cup {key} |->
            IF k = key THEN [constraints |-> c, pods |-> <<i + 1>>, daemons |-> GetDaemons(c)]
            ELSE s[k]]

AppendPod(s, key, c) ==
    IF key \in DOMAIN s
    THEN [s EXCEPT ![key].pods = Append(@, i)]
    ELSE [k \in DOMAIN s \cup {key} |->
            IF k = key THEN [constraints |-> c, pods |-> <<i>>, daemons |-> GetDaemons(c)]
            ELSE s[k]]

GroupValid(listFails) ==
    /\ pc = "group" /\ i <= Len(pods)
    /\ \E sp \in SortedPrefs(pods[i]) :
       /\ ValidConstraints(constraints, pods[i], sp)
       /\ pods' = [pods EXCEPT ![i] = WithPreferred(pods[i], sp)]
       /\ \E zs \in Orderings(EffectiveZones(constraints, pods[i], sp)) :
          LET c == NewConstraints(constraints, pods[i], zs)
          IN  IF listFails
              THEN /\ Key(c) \notin DOMAIN schedules
                   /\ err' = "daemons"
                   /\ pc' = "record"
                   /\ UNCHANGED <<i, schedules, grouped>>
              ELSE /\ schedules' = AppendPod(schedules, Key(c), c)
                   /\ grouped' = [p \in DOMAIN grouped \cup {i} |->
                                    IF p = i THEN EffectiveConstraints(constraints, pods[i], sp)
                                    ELSE grouped[p]]
                   /\ i' = i + 1
                   /\ UNCHANGED <<pc, err>>
    /\ UNCHANGED <<constraints, observed>>

GroupPlaced == GroupValid(FALSE)
GroupListFails == GroupValid(TRUE)

(* The loop ends; solve strips the injected hostname label, lines 299-303. *)
GroupDone ==
    /\ pc = "group" /\ i > Len(pods)
    /\ schedules' = StripHostname(schedules)
    /\ pc' = "record"
    /\ UNCHANGED <<constraints, pods, i, err, observed, grouped>>

\* Mutant: the result label is written as the error's text.
RecordErrorText ==
    /\ pc = "record"
    /\ observed' = IF err = "none" THEN "success" ELSE err
    /\ pc' = "done"
    /\ UNCHANGED <<constraints, pods, i, schedules, err, grouped>>

(* Solve records the duration metric with the call's result, lines 253-276. *)
Record ==
    /\ pc = "record"
    /\ observed' = IF err = "none" THEN "success" ELSE "error"
    /\ pc' = "done"
    /\ UNCHANGED <<constraints, pods, i, schedules, err, grouped>>

(* GetMetricWith fails, lines 264-270: a warning is logged and the call   *)
(* returns its result all the same, with no observation recorded.        *)
RecordFails ==
    /\ pc = "record"
    /\ pc' = "done"
    /\ UNCHANGED <<constraints, pods, i, schedules, err, observed, grouped>>

Next ==
    \/ ConstrainOk \/ ConstrainFails
    \/ Relax
    \/ InjectOk \/ InjectFails
    \/ GroupInvalid \/ GroupPlaced \/ GroupListFails \/ GroupDone
    \/ Record \/ RecordFails

Spec == Init /\ [][Next]_vars

-----------------------------------------------------------------------------
TypeOK ==
    /\ pc \in {"constrain", "relax", "inject", "group", "record", "done"}
    /\ constraints \in ConstraintsType
    /\ pods \in [1..NumPods -> PodType]
    /\ i \in 1..NumPods + 1
    /\ \A k \in DOMAIN schedules : schedules[k] \in ScheduleType
    /\ err \in {"none", "constrain", "inject", "daemons"}
    /\ observed \in {"none", "success", "error"}
    /\ DOMAIN grouped \subseteq 1..(i - 1)
    /\ \A p \in DOMAIN grouped : grouped[p] \in ConstraintsType

PodsOf(k) == Elems(schedules[k].pods)
Occurrences(k, p) == Cardinality({j \in 1..Len(schedules[k].pods) : schedules[k].pods[j] = p})

(***************************************************************************)
(* getSchedules partitions the valid pods by their constraints (spec 4.2,  *)
(* 8): a schedule holds only pods whose constraints were valid, every such *)
(* pod the loop has passed is in exactly one schedule, once, and two pods  *)
(* share a schedule exactly when their constraints are equal as sets,      *)
(* whatever order the map iterations put their zone slices in.             *)
(***************************************************************************)
GroupingIsPartition ==
    /\ \A k \in DOMAIN schedules : PodsOf(k) \subseteq DOMAIN grouped
    /\ \A p \in DOMAIN grouped : \E k \in DOMAIN schedules :
          /\ Occurrences(k, p) = 1
          /\ \A k2 \in DOMAIN schedules \ {k} : p \notin PodsOf(k2)
    /\ \A k1, k2 \in DOMAIN schedules : \A p \in PodsOf(k1), q \in PodsOf(k2) :
          k1 = k2 <=> grouped[p] = grouped[q]

(***************************************************************************)
(* The daemons of a schedule, computed once from the constraints of its    *)
(* first pod (lines 323-333), are exactly the daemon sets that would land  *)
(* on a node satisfying the constraints of every pod that later joined it. *)
(***************************************************************************)
DaemonsFitEveryPod ==
    \A k \in DOMAIN schedules : \A p \in PodsOf(k) :
        schedules[k].daemons = { d \in DaemonSets : DaemonWillSchedule(grouped[p], d) }

(***************************************************************************)
(* Topology spread becomes a just-in-time node selector and nothing more   *)
(* (spec 4.5, 4.1 step 6): pods injected with different hostnames never    *)
(* share a schedule, and no schedule the call returns carries the hostname *)
(* label.                                                                  *)
(***************************************************************************)
HostnameInjectionTransient ==
    /\ \A k1, k2 \in DOMAIN schedules : \A p \in PodsOf(k1), q \in PodsOf(k2) :
          pods[p].nodeSelector[HostnameKey] # pods[q].nodeSelector[HostnameKey] => k1 # k2
    /\ pc \in {"record", "done"} /\ err = "none" =>
          \A k \in DOMAIN schedules : schedules[k].constraints.labels[HostnameKey] = NoValue

(***************************************************************************)
(* Relaxation loosens a pod in the documented order (spec 4.4 and 4.6, the *)
(* comments at lines 131 and 137), whatever Relax, Inject and the in-place *)
(* sort do to it: the node selector (but for the injected hostname) and    *)
(* the tolerations never change; the preferred terms only lose members;    *)
(* and a required OR-term is dropped only once no preferred term is left,  *)
(* the first one first, and never the last one.                            *)
(***************************************************************************)
HardPart(pod) ==
    [sel |-> [k \in LabelKeys \ {HostnameKey} |-> pod.nodeSelector[k]],
     tolerations |-> pod.tolerations]
PreferredOf(pod) == IF pod.affinity = NoValue THEN << >> ELSE pod.affinity.preferred
RequiredOf(pod) == IF pod.affinity = NoValue THEN << >> ELSE pod.affinity.required

PodsRelaxedInOrder ==
    [][\A p \in 1..Len(pods) :
          /\ HardPart(pods'[p]) = HardPart(pods[p])
          /\ Len(PreferredOf(pods'[p])) <= Len(PreferredOf(pods[p]))
          /\ Elems(PreferredOf(pods'[p])) \subseteq Elems(PreferredOf(pods[p]))
          /\ \/ RequiredOf(pods'[p]) = RequiredOf(pods[p])
             \/ /\ PreferredOf(pods[p]) = << >>
                /\ Len(RequiredOf(pods[p])) > 1
                /\ RequiredOf(pods'[p]) = Tail(RequiredOf(pods[p]))]_vars

=============================================================================
