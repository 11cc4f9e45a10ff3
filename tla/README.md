# Formal models of Karpenter's scheduling, provider validation and node metrics

This directory holds TLA+ models of the parts of this repository's code under
`src/` that carry state or decisions:

- the TLC configurations that check them on small instances;
- TLAPS proofs of what matters for every value of the constants;
- `PROJECT.json`, which lists the components, runs, mutants, the line map to the source, the findings, the hazards and the theorems.

## The system and its parts

| Part | Code | Module |
|------|------|--------|
| `Scheduler.Solve`: constrain, relax, inject topology, group pods into schedules, add daemon overhead, strip the injected hostname, record the metric | `src/unnamed/part_001` lines 177-376 | `Scheduler` |
| What getSchedules promises, free of hashing and slices | spec 4.2, 4.3, 7 | `Grouping` (abstract), `SchedulerRefinement` |
| Node-affinity algebra: `NodeAffinityFor`, `GetLabels`, `GetLabelValues` | `src/unnamed/part_001` lines 97-176 | `NodeAffinity` |
| AWS provider `Constraints.Validate` | `src/unnamed/part_001` lines 26-96 | `ProviderValidation` |
| Node count gauges: `publishNodeCountsForProvisioner` | `src/pkg/controllers/metrics/node/counter.go` | `NodeCounter` |
| `ConstrainHook`, `WellKnownLabels` | `src/pkg/apis/provisioning/v1alpha4/register.go` | used by `Scheduler` and `NodeCounter` |

How the parts interact:

- `Solve` calls the hook `Constraints.Constrain`, then `Preferences.Relax` and `Topology.Inject`.
- `getSchedules` calls `NewConstraints` for each pod.
  - `NewConstraints` builds the pod's requirements with `NodeAffinityFor`.
  - It narrows the provisioner's zones with `GetLabelValues`.
  - It validates the result, which for the AWS provider includes `validateCapacityTypes`.
- The counter is an independent controller. It reads nodes that the provisioner labels.

`Preferences`, `Topology` and `NewConstraints` have no code in the repository. They are modelled from spec 4.2, 4.4 and 4.5 (the `spec_modelled` rows of the map). Their callers are modelled from the code.

## Modules

### `NodeAffinity`

Pure operators.

- A requirement is a record `[key, op, values]`. Value slices are sets, because every consumer of them (intersection, exclusion) ignores order.
- `SortedByWeight` is the set of orders the unstable `sort.Slice` at line 134 may leave the preferred terms in.
- `GetLabelValues` is written as set comprehensions, not a fold. Each loop of the Go code intersects, or subtracts, over the requirements it selects. This form is what makes it provable, because TLAPS cannot reason about recursive definitions.

### `Scheduler`

One call of `Solve`. Its variables:

- `pc` is the stage;
- `constraints` is the deep copy;
- `pods` is the caller's slice, mutated in place;
- `i` is the loop index;
- `schedules` is the hash map;
- `err` is the stage whose error the call returns;
- `observed` is the metric's result label;
- `grouped` is a history variable with the effective constraints of each valid pod placed.

Each early return of `solve` is an action that jumps to `record`:

- `ConstrainFails`;
- `InjectFails`;
- `GroupListFails`, where `getDaemons` fails for a new key.

One iteration of the getSchedules loop is one step:

- `GroupInvalid` is the `continue`.
- `GroupPlaced` covers hashing, creating the schedule with its daemons, and appending the pod.

Nondeterminism stands for what the code does not fix:

- the zone slice comes out in any order (`Orderings`), because `IntersectStringSlice` iterates a map;
- preferred terms of equal weight come out in any order (`SortedPrefs`);
- the hook may narrow the zones to any subset;
- `Inject` may pick any hostnames that respect `MaxSkew`.

`Relaxed` follows spec 4.4 and 4.6 and the comment at line 137: a pod that failed first loses its heaviest preferred term; once none is left, the outer loop drops its first required OR-term, never the last one.

The hash `Key` forgets slice order, as `SlicesAsSets` does. It is taken to be injective.

`Record` and `RecordFails` are the two branches of `GetMetricWith` at lines 264-273: the second logs a warning and leaves the result label unset, and the call returns its result all the same.

### `Grouping` and `SchedulerRefinement`

`Grouping` is the abstract pass. It has no hash, no slices and no stages. Its variables:

- `next` is the pod considered next;
- `groups` maps a key to the pods placed under it, in order, and the daemons that fit the key;
- `class` maps each placed pod to its key;
- `outcome` is `"running"`, `"returned"` or `"failed"`.

Its actions: `Place(k)` puts pod `next` under key `k`, opening the group with the daemons that fit `k` if it is new. `Drop` skips the pod. `Fail` ends the pass with an error, at any time. `Return` ends it once every pod was considered.

`SchedulerRefinement` maps `Scheduler` onto it:

- `next` is the loop index `i`;
- a group is a schedule's pods and daemons, under its hash key;
- `class` is the history `grouped`;
- `outcome` is `"failed"` once `err` is set, `"returned"` at `record` or `done` without an error, and `"running"` before.

Under this mapping `GroupPlaced` is `Place(Key(c))`, `GroupInvalid` is `Drop`, and every failing stage is `Fail`. `GroupDone` is `Return`, because the strip rewrites constraints and not pods or daemons. The stages before the loop and the metric are stutters.

### `ProviderValidation`

`validate` passes six field-validator results to one `errs.Also`. The model runs one validator per step and accumulates its errors.

- A field error is its path and its kind.
- An endpoint is abstracted to what `url.Parse`, `IsAbs` and `Hostname` tell apart: empty, unparsable, scheme, host.
- `TypeOK` says every collected error is a field error: its path is one of the checked fields (`FieldNames`), then maybe a key, a value or a cluster field.

### `NodeCounter`

Rounds of `publishNodeCountsForProvisioner`. Each step is one `consumeNodesWith` call with its callback.

- `Queries` is the exact sequence of list calls that the loops make.
- Between calls, the environment may create or delete a node or flip its readiness: `NodeCreated`, `NodeDeleted`, `ReadinessChanged`.
- Each call may fail (`ListFails`). Otherwise the ready-filtered count is published to the series named by `metricLabelsFrom` (`ListAndPublish`).
- `PublishOk` compares the label names of `metricLabelsFrom`'s output with the names the gauge vector was registered with, as `GetMetricWith` does.
- `written` is a history variable: the series the round has set so far. `NextRound` empties it.

## Runs

| Run | What it shows |
|-----|---------------|
| `scheduler_grouping` (MC_Scheduler) | See below. |
| `scheduler_refines_grouping` (MC_SchedulerRefinement) | `GroupingRefined`: under weak fairness, every behaviour of Solve is a behaviour of `Grouping`, including the liveness part: the call ends by returning or failing. |
| `provider_validation` | `AllViolationsReported`: for every combination of valid and invalid fields, with the cluster set, the fields named by the errors are exactly the fields that violate spec 4.7. |
| `provider_validation_unset_cluster` | Expected violation. With a zero `Cluster`, the code reports `cluster.name` and `cluster.endpoint` as missing. Spec 4.7 validates the cluster only "if cluster identity is set". This is recorded as a finding. |
| `node_counter` | `StaleSeriesReported`: a round that ends without an error has set every series it names during the round. A failed list call skips its callback and leaves its series at an earlier round's value, so the combined error is the only sign. |
| `node_counter_empty_value` | `DroppedLabelReported`: the cloud provider registers an empty architecture value. `metricLabelsFrom` drops it and `GetMetricWith` refuses the labels, so that gauge is never set. Every such round still returns an error. |

`scheduler_grouping` checks four properties over every interleaving and every nondeterministic choice:

- `GroupingIsPartition`: valid pods are partitioned, each pod appears once, and two pods share a schedule exactly when their effective constraints are equal as sets.
- `DaemonsFitEveryPod`: a schedule's daemons, computed from its first pod, are those that fit every member.
- `HostnameInjectionTransient`: pods with different injected hostnames never share a schedule, and no returned schedule keeps the hostname label.
- `PodsRelaxedInOrder`, an action property: no step changes a pod's node selector (but for the hostname) or tolerations, the preferred terms only lose members, and a required OR-term is dropped only when no preferred term is left and another OR-term remains, the first one first. One pod spec has no preferences and two OR-terms, so the required branch happens.

Each property has a mutant in `PROJECT.json`: a plausible bug in the mapped code under which TLC reports the property violated. Examples:

- hashing without `SlicesAsSets`;
- daemons from the provisioner's constraints;
- relaxation that drops a required OR-term together with a preference;
- a validator that short-circuits;
- a failed list call whose error is not appended;
- an error count not reset between rounds;
- a `publishCount` error that is dropped.

### Bounds and why they suffice

**Scheduler:** 3 pods from 5 specs, 2 provisioner zones plus a third value, 3 hostnames, `MaxSkew` = 1, 3 daemon sets, 1 taint. This is enough for the following to happen:

- two pods with the same constraints to reach the map with their zones in different orders;
- a pod that creates a key and a later pod that joins it;
- two spread pods to get different hostnames;
- a relaxed pod with tied weights;
- a rejected pod;
- a `getDaemons` failure after earlier pods were placed.

**Provider validation:** every value of each abstracted field: empty and non-empty strings, nil, empty and bad selectors, known and unknown capacity types, and the four endpoint shapes.

**Node counter:** `knownValuesForNodeLabels` is `WellKnownLabels` (register.go lines 54-59). In this repository its value lists are empty, so only the `node_count` call would run. The instance gives each label the values a cloud provider adds to the map, so that the zone and per-label loops run. There are 2 nodes, one of the counted provisioner and one of another, with 2 architectures and 1 zone, so each round makes 5 list calls. Node churn and failures can happen between any two calls. `node_counter_empty_value` replaces the second architecture by the empty string. `WellKnownLabels` is an exported mutable map, so nothing in the code prevents a provider from registering `""`.

**Refinement:** the instance of `scheduler_grouping`. `Grouping`'s key set is narrowed to the 96 constraint values these constants can produce (`MCGroupKeys`), because TLC enumerates `Keys` in `Place`.

Only `scheduler_refines_grouping` assumes fairness: weak fairness of Solve's next-state relation (`FairSpec`). The code justifies it:

- Solve runs in one goroutine and waits on no other;
- each stage either returns or moves on;
- each external call (the constrain hook, `Inject`, the daemon-set `List`) returns a result or an error (spec section 7: no retries, and cancellation fails the pending call).

The counter assumes no fairness. Whether a round ends is immediate there, because every call advances `k`.

`CHECK_DEADLOCK FALSE` is set where the modelled call really returns:

- Solve stops at `done`;
- validation stops at `done`.

The counter runs forever, so its deadlock check stays on.

## Proofs

`SchedulerProofs` proves `THEOREM TypeCorrect == Spec => []TypeOK` for every value of the constants satisfying `ConstantsAssumption`. The assumption requires:

- `NoValue` is neither a value nor an affinity record;
- the keys are label keys;
- the value set is finite;
- pods, daemon sets and provisioner constraints are well-typed.

`TypeOK` is inductive as it stands. The proof is `InitTypeOK` plus `NextTypeOK`, with one step per action, resting on these lemmas:

- sorting preferred terms yields a sequence of the terms (`SortedPrefsType`), and putting them back keeps a pod a pod (`WithPreferredType`);
- relaxing keeps a pod a pod (`RelaxedType`). It needs the sorted sequence to be non-empty, from the domain of `SortedByWeight`.
- effective zones are a subset of the constraints' zones (`EffectiveZonesSubset`), and every ordering of them is a sequence of values (`OrderingsType`);
- `AppendPod` and `StripHostname` keep every schedule typed.

`THEOREM RelaxesInOrder == Spec => PodsRelaxedInOrder` is proved from `TypeCorrect`.
Each step maps every pod to one that `LoosenedInOrder` allows (`NextInOrder`):

- `Relax` either replaces the preferred terms by the tail of a sorted order, or, with no preferred term left and more than one OR-term, replaces the required terms by their tail (`RelaxedInOrder`, resting on `PreferredReplaced` and `RequiredReplaced`);
- `InjectOk` writes only the hostname key (`InjectInOrder`);
- the grouping steps put back a permutation of the same terms (`WithPreferredInOrder`, resting on `SortedPrefsShape`).

That proof needs the assumption that `NoValue` is not itself an affinity record
(`NoValue \notin Affinity`, Go's nil pointer). Without it, a pod whose
affinity happened to equal `NoValue` would have its required terms read as empty by `RequiredOf`.

`SchedulerGroupingProofs` proves the two grouping invariants for every value of the constants.

- `THEOREM DaemonsFit == Spec => []DaemonsFitEveryPod`.
- `THEOREM GroupingPartition == Spec => []GroupingIsPartition`.
- `THEOREM HostnameTransient == Spec => []HostnameInjectionTransient`.

Neither invariant is inductive as it stands. The strengthening is `PInv`:

- `KeyedBy`: every schedule's daemons are the daemons that fit its key, and every pod in it was placed (is in `grouped`) with that key as its constraints;
- `Placed`: every placed pod is in the schedule of its key;
- `NoRepeats`: no schedule lists a pod twice.

The argument runs as follows:

- `GroupPlaced` appends pod `i` under `Key(c)`. That key equals the pod's effective constraints (`KeyOfNewConstraints`), because `Elems` of any ordering of the zones is the zone set.
- A new schedule's daemons are `GetDaemons(c)`, which reads only the labels and taints, so they are the daemons of the key (`DaemonsOfKey`).
- Pod `i` is in no schedule yet, because every member is in `grouped` and `grouped` only holds pods below `i`. So the append keeps `NoRepeats` (`AppendDistinct`).
- With `NoRepeats`, a member occurs once (`OccursOnce`).

`HostnameTransient` needs a second strengthening, `HInv`:

- `ConstraintsHost`: the constraints copy never carries a hostname, because the provisioner's does not and the hook narrows only zones;
- `Early`: before the loop, the index is still 1, so no pod is placed while `Relax` and `Inject` rewrite the pods;
- `HostLabel`: a placed pod's constraints carry exactly its injected hostname. `EffectiveHostname` shows this, and `WithPreferredSelector` shows the in-place sort leaves the selector alone;
- `Stripped`: a call at `record` or `done` without an error has passed through `GroupDone`.

Two pods with different hostnames therefore have different keys, and `KeyedBy` puts them in different schedules.

`SchedulerRefinementProofs` proves `THEOREM RefinesGrouping == Spec => G!SafeSpec`, the safety part of `GroupingRefined`. The invariant it needs is `Inv`: `TypeOK`, and no error before a stage has failed. `InitMaps` shows the initial state maps to `Grouping`'s. `StepMaps` shows each action maps to its abstract step, with one case per action. `BarAppendPod` and `BarStripHostname` show what appending and stripping do to the mapped groups.

`ProviderValidationProofs` proves `THEOREM ViolationsReported`, which is `Spec => []AllViolationsReported` under two hypotheses on `Inputs`:

- every input has its cluster identity set (`ClusterSet`). This is the condition the passing run `provider_validation` uses. Without it, the property fails, as the violation run `provider_validation_unset_cluster` shows and the finding records.
- an empty endpoint is not a valid URL. This is how `url.Parse` treats `""`: it parses with an empty scheme and host.

The invariant it needs is `IInv`. `c` stays an input and `step` stays in `1..7`. Every validator before `step` has added its errors to `errs`, and `errs` holds nothing else. At `done` (`step = 7`), `errs` is the union of the six validators' errors. Four lemmas (`InstanceProfilePaths`, `CapacityTypePaths`, `SelectorPaths` and `ClusterPaths`) show that each validator names its own field exactly when the field breaks the rule of spec 4.7. So the fields named are `SpecViolatedFields(c)`.

`ProviderValidationProofs` also proves `THEOREM TypeCorrect`, which is `Spec => []TypeOK` under the hypothesis `StringsTyped`: capacity types and selector keys are strings or empty, as their Go types `[]string` and `map[string]string` make them. `FoundAreFieldErrors` shows each validator returns field errors only, and `IInv` shows `errs` holds nothing else.

`NodeCounterProofs` proves three theorems for every finite set of nodes, every labelling and every list of known values, empty ones included (`NodeCounterAssumption`):

- `TypeCorrect`: `Spec => []TypeOK`. `QueriesLen` computes the number of list calls in a round, `1 + zones * PerZone`, and `CountBound` bounds a count by the number of nodes.
- `StaleReported`: `Spec => []StaleSeriesReported`. The strengthening `WrittenSoFar` says that, while the round has no error, every call made so far has set its series. It is needed because the property speaks only of the end of a round, while the series are written one call at a time.
- `DroppedReported`: `Spec => []DroppedLabelReported`. The strengthening `UnpublishedCounted` says an unpublished call earlier in the round has already left an error.

### Out of TLAPS's reach, left to TLC

- **Liveness and `ENABLED`.** The fairness part of `GroupingRefined`, that a fair Solve call ends, is checked by TLC only.
- **Induction over data.** What a recursive definition computes for every input cannot be proved. This is why `GetLabelValues` is written without recursion.
- **Recursive operators.** None are used in the proved modules.

Model-checked only, so far: the liveness part of `GroupingRefined`. Every invariant and action property of the passing runs is also proved.

## Plan (next sittings)

1. Check `GetLabelValues` against a fold-based reference definition over bounded inputs.
2. Model a second `Solve` call in sequence, to check relaxation across calls (a pod that keeps failing eventually has no preferred terms).

## Not modelled

- The fake instance type and the gomega test helpers: test code.
- Prometheus and scheme registration: wiring without decisions.
- The duration value of the metric: wall-clock time.
- `hashstructure` errors: they arise only for unsupported types, which `Constraints` does not contain.
