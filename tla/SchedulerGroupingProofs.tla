----------------------- MODULE SchedulerGroupingProofs -----------------------
(***************************************************************************)
(* The schedules getSchedules builds are keyed by their pods' effective    *)
(* constraints, and their daemons are fixed by that key, for every value   *)
(* of the constants.  DaemonsFitEveryPod, GroupingIsPartition and          *)
(* HostnameInjectionTransient follow.                                      *)
(***************************************************************************)
EXTENDS SchedulerProofs

USE ConstantsAssumption

(* NewConstraints hashes to the pod's effective constraints, whatever the  *)
(* order of its zones, and the key is a constraints value.                 *)
LEMMA KeyOfNewConstraints ==
    ASSUME NEW c \in ConstraintsType, NEW pod \in PodType, NEW sp,
           NEW zs \in Orderings(EffectiveZones(c, pod, sp))
    PROVE  /\ Key(NewConstraints(c, pod, zs)) = EffectiveConstraints(c, pod, sp)
           /\ Key(NewConstraints(c, pod, zs)) \in ConstraintsType
<1>1. Elems(zs) = EffectiveZones(c, pod, sp)
  BY DEF Orderings
<1>2. Key(NewConstraints(c, pod, zs)) = EffectiveConstraints(c, pod, sp)
  BY <1>1 DEF Key, NewConstraints, EffectiveConstraints
<1>3. EffectiveConstraints(c, pod, sp) \in ConstraintsType
  BY EffectiveZonesSubset, EffectiveLabelsType DEF EffectiveConstraints, ConstraintsType
<1>. QED
  BY <1>2, <1>3

(* getDaemons reads only the labels and taints of the constraints. *)
LEMMA DaemonsOfKey ==
    ASSUME NEW c
    PROVE  GetDaemons(c) = {d \in DaemonSets : DaemonWillSchedule(Key(c), d)}
BY DEF GetDaemons, Key, DaemonWillSchedule

(* The members of a sequence with one more element appended. *)
LEMMA ElemsAppend ==
    ASSUME NEW S, NEW sq \in Seq(S), NEW x \in S
    PROVE  Elems(Append(sq, x)) = Elems(sq) \cup {x}
<1>1. /\ Len(Append(sq, x)) = Len(sq) + 1
      /\ \A j \in 1..Len(sq) : Append(sq, x)[j] = sq[j]
      /\ Append(sq, x)[Len(sq) + 1] = x
      /\ Len(sq) \in Nat
  BY AppendProperties, LenProperties
<1>2. DOMAIN Append(sq, x) = 1..Len(sq) + 1 /\ DOMAIN sq = 1..Len(sq)
  BY AppendProperties, LenProperties
<1>. QED
  BY <1>1, <1>2 DEF Elems

-----------------------------------------------------------------------------
(***************************************************************************)
(* The strengthening: every schedule's daemons are those its key fits, and *)
(* every pod in it was placed with the key's constraints.  It holds        *)
(* because a pod joins only the schedule of its own key, a new schedule    *)
(* takes its daemons from the constraints it is keyed by, and the hostname *)
(* strip rewrites constraints but neither keys, pods nor daemons.          *)
(***************************************************************************)
KeyedBy ==
    \A k \in DOMAIN schedules :
        /\ schedules[k].daemons = {d \in DaemonSets : DaemonWillSchedule(k, d)}
        /\ \A p \in PodsOf(k) : p \in DOMAIN grouped /\ grouped[p] = k

KInv == TypeOK /\ KeyedBy

LEMMA KInvInit == Init => KInv
BY InitTypeOK DEF Init, KInv, KeyedBy

(* A step that leaves the schedules and the history keeps KeyedBy. *)
LEMMA KeyedByUnchanged ==
    ASSUME KeyedBy, UNCHANGED <<schedules, grouped>>
    PROVE  KeyedBy'
BY DEF KeyedBy, PodsOf

LEMMA KInvNext == KInv /\ [Next]_vars => KInv'
<1> SUFFICES ASSUME KInv, [Next]_vars PROVE KInv'
  OBVIOUS
<1>0. /\ pods \in Seq(PodType)
      /\ Len(pods) = NumPods
  BY PodsLen DEF KInv, TypeOK
<1>1. TypeOK'
  BY NextTypeOK DEF KInv
<1>2. CASE UNCHANGED <<schedules, grouped>>
  BY <1>1, <1>2, KeyedByUnchanged DEF KInv
<1>3. CASE GroupDone
  <2>1. /\ schedules' = StripHostname(schedules)
        /\ UNCHANGED grouped
    BY <1>3 DEF GroupDone
  <2>2. /\ DOMAIN schedules' = DOMAIN schedules
        /\ \A k \in DOMAIN schedules :
              /\ schedules'[k].pods = schedules[k].pods
              /\ schedules'[k].daemons = schedules[k].daemons
    BY <2>1 DEF StripHostname, KInv, TypeOK, ScheduleType
  <2>. QED
    BY <1>1, <2>1, <2>2 DEF KInv, KeyedBy, PodsOf
<1>4. CASE GroupPlaced
  <2>0. PICK sp \in SortedPrefs(pods[i]) :
          \E zs \in Orderings(EffectiveZones(constraints, pods[i], sp)) :
          /\ schedules' = AppendPod(schedules, Key(NewConstraints(constraints, pods[i], zs)),
                                    NewConstraints(constraints, pods[i], zs))
          /\ grouped' = [p \in DOMAIN grouped \cup {i} |->
                           IF p = i THEN EffectiveConstraints(constraints, pods[i], sp)
                           ELSE grouped[p]]
    BY <1>4 DEF GroupPlaced, GroupValid
  <2>1. PICK zs \in Orderings(EffectiveZones(constraints, pods[i], sp)) :
          /\ schedules' = AppendPod(schedules, Key(NewConstraints(constraints, pods[i], zs)),
                                    NewConstraints(constraints, pods[i], zs))
          /\ grouped' = [p \in DOMAIN grouped \cup {i} |->
                           IF p = i THEN EffectiveConstraints(constraints, pods[i], sp)
                           ELSE grouped[p]]
    BY <2>0
  <2> DEFINE nc == NewConstraints(constraints, pods[i], zs)
             key == Key(nc)
  <2>2. i \in 1..NumPods /\ i \notin DOMAIN grouped
    BY <1>4, <1>0 DEF GroupPlaced, GroupValid, KInv, TypeOK
  <2>3. key = EffectiveConstraints(constraints, pods[i], sp)
    BY <2>2, KeyOfNewConstraints DEF KInv, TypeOK
  <2>4. /\ DOMAIN grouped' = DOMAIN grouped \cup {i}
        /\ grouped'[i] = key
        /\ \A p \in DOMAIN grouped : grouped'[p] = grouped[p]
    BY <2>1, <2>2, <2>3
  <2>5. \A k \in DOMAIN schedules : \A p \in PodsOf(k) : p \in DOMAIN grouped /\ p # i
    BY <2>2 DEF KInv, KeyedBy
  <2> SUFFICES ASSUME NEW k \in DOMAIN schedules'
               PROVE  /\ schedules'[k].daemons = {d \in DaemonSets : DaemonWillSchedule(k, d)}
                      /\ \A p \in PodsOf(k)' : p \in DOMAIN grouped' /\ grouped'[p] = k
    BY <1>1 DEF KInv, KeyedBy
  <2>6. CASE k # key
    <3>1. k \in DOMAIN schedules /\ schedules'[k] = schedules[k]
      BY <2>1, <2>6 DEF AppendPod
    <3>2. \A p \in PodsOf(k)' : p \in PodsOf(k)
      BY <3>1 DEF PodsOf
    <3>. QED
      BY <3>1, <3>2, <2>4, <2>5 DEF KInv, KeyedBy
  <2>7. CASE k = key /\ key \in DOMAIN schedules
    <3>1. schedules' = [schedules EXCEPT ![key].pods = Append(@, i)]
      BY <2>1, <2>7 DEF AppendPod
    <3>2. schedules[key] \in ScheduleType
      BY <2>7 DEF KInv, TypeOK
    <3>3. /\ schedules'[key].daemons = schedules[key].daemons
          /\ schedules'[key].pods = Append(schedules[key].pods, i)
      BY <2>7, <3>1, <3>2 DEF ScheduleType
    <3>4. Elems(schedules'[key].pods) = PodsOf(key) \cup {i}
      <4>1. schedules[key].pods \in Seq(1..NumPods)
        BY <3>2 DEF ScheduleType
      <4>2. Elems(Append(schedules[key].pods, i)) = Elems(schedules[key].pods) \cup {i}
        BY <4>1, <2>2, ElemsAppend
      <4>. QED
        BY <4>2, <3>3 DEF PodsOf
    <3>5. PodsOf(k)' = PodsOf(key) \cup {i}
      BY <2>7, <3>4 DEF PodsOf
    <3>. QED
      BY <2>7, <3>3, <3>5, <2>4, <2>5 DEF KInv, KeyedBy
  <2>8. CASE k = key /\ key \notin DOMAIN schedules
    <3>1. schedules'[key] = [constraints |-> nc, pods |-> <<i>>, daemons |-> GetDaemons(nc)]
      BY <2>1, <2>8 DEF AppendPod
    <3>2. PodsOf(k)' = {i}
      BY <2>8, <3>1 DEF PodsOf, Elems
    <3>. QED
      BY <2>8, <3>1, <3>2, <2>4, DaemonsOfKey
  <2>. QED
    BY <2>6, <2>7, <2>8
<1>5. QED
  BY <1>2, <1>3, <1>4
     DEF Next, vars, ConstrainOk, ConstrainFails, Relax, InjectOk, InjectFails,
         GroupInvalid, GroupListFails, GroupValid, Record, RecordFails

-----------------------------------------------------------------------------
(* GroupPlaced appends pod i, not yet placed, under some key, and records  *)
(* that key as the pod's constraints.                                      *)
LEMMA PlacedStep ==
    ASSUME KInv, GroupPlaced
    PROVE  \E key, nc :
             /\ schedules' = AppendPod(schedules, key, nc)
             /\ grouped' = [p \in DOMAIN grouped \cup {i} |->
                              IF p = i THEN key ELSE grouped[p]]
             /\ i \in 1..NumPods /\ i \notin DOMAIN grouped
<1>0. /\ pods \in Seq(PodType)
      /\ Len(pods) = NumPods
  BY PodsLen DEF KInv, TypeOK
<1>1. PICK sp \in SortedPrefs(pods[i]) :
        \E zs \in Orderings(EffectiveZones(constraints, pods[i], sp)) :
          /\ schedules' = AppendPod(schedules, Key(NewConstraints(constraints, pods[i], zs)),
                                    NewConstraints(constraints, pods[i], zs))
          /\ grouped' = [p \in DOMAIN grouped \cup {i} |->
                           IF p = i THEN EffectiveConstraints(constraints, pods[i], sp)
                           ELSE grouped[p]]
  BY DEF GroupPlaced, GroupValid
<1>2. PICK zs \in Orderings(EffectiveZones(constraints, pods[i], sp)) :
          /\ schedules' = AppendPod(schedules, Key(NewConstraints(constraints, pods[i], zs)),
                                    NewConstraints(constraints, pods[i], zs))
          /\ grouped' = [p \in DOMAIN grouped \cup {i} |->
                           IF p = i THEN EffectiveConstraints(constraints, pods[i], sp)
                           ELSE grouped[p]]
  BY <1>1
<1>3. i \in 1..NumPods /\ i \notin DOMAIN grouped
  BY <1>0 DEF GroupPlaced, GroupValid, KInv, TypeOK
<1>4. Key(NewConstraints(constraints, pods[i], zs)) = EffectiveConstraints(constraints, pods[i], sp)
  BY <1>3, KeyOfNewConstraints DEF KInv, TypeOK
<1>. QED
  BY <1>2, <1>3, <1>4

(* Appending an element not yet present keeps a sequence free of repeats. *)
LEMMA AppendDistinct ==
    ASSUME NEW S, NEW sq \in Seq(S), NEW x \in S, x \notin Elems(sq),
           \A a, b \in 1..Len(sq) : sq[a] = sq[b] => a = b
    PROVE  \A a, b \in 1..Len(Append(sq, x)) : Append(sq, x)[a] = Append(sq, x)[b] => a = b
<1>1. /\ Len(Append(sq, x)) = Len(sq) + 1
      /\ \A j \in 1..Len(sq) : Append(sq, x)[j] = sq[j]
      /\ Append(sq, x)[Len(sq) + 1] = x
      /\ Len(sq) \in Nat
  BY AppendProperties, LenProperties
<1>2. \A j \in 1..Len(sq) : sq[j] # x
  BY LenProperties DEF Elems
<1>. QED
  BY <1>1, <1>2

(***************************************************************************)
(* The further strengthening for the partition: every placed pod sits in   *)
(* the schedule of its key, and no schedule lists a pod twice.  A pod is   *)
(* appended once, when the loop index reaches it, and never again, since   *)
(* the index only grows.                                                   *)
(***************************************************************************)
Placed ==
    \A p \in DOMAIN grouped : grouped[p] \in DOMAIN schedules /\ p \in PodsOf(grouped[p])
NoRepeats ==
    \A k \in DOMAIN schedules : \A a, b \in 1..Len(schedules[k].pods) :
        schedules[k].pods[a] = schedules[k].pods[b] => a = b

PInv == KInv /\ Placed /\ NoRepeats

LEMMA PInvInit == Init => PInv
BY KInvInit DEF Init, PInv, Placed, NoRepeats

LEMMA PInvNext == PInv /\ [Next]_vars => PInv'
<1> SUFFICES ASSUME PInv, [Next]_vars PROVE PInv'
  OBVIOUS
<1>1. KInv'
  BY KInvNext DEF PInv
<1>2. CASE UNCHANGED <<schedules, grouped>>
  BY <1>1, <1>2 DEF PInv, Placed, NoRepeats, PodsOf
<1>3. CASE GroupDone
  <2>1. /\ schedules' = StripHostname(schedules)
        /\ UNCHANGED grouped
    BY <1>3 DEF GroupDone
  <2>2. /\ DOMAIN schedules' = DOMAIN schedules
        /\ \A k \in DOMAIN schedules : schedules'[k].pods = schedules[k].pods
    BY <2>1 DEF StripHostname, PInv, KInv, TypeOK, ScheduleType
  <2>. QED
    BY <1>1, <2>1, <2>2 DEF PInv, Placed, NoRepeats, PodsOf
<1>4. CASE GroupPlaced
  <2>0. PICK key, nc :
             /\ schedules' = AppendPod(schedules, key, nc)
             /\ grouped' = [p \in DOMAIN grouped \cup {i} |->
                              IF p = i THEN key ELSE grouped[p]]
             /\ i \in 1..NumPods /\ i \notin DOMAIN grouped
    BY <1>4, PlacedStep DEF PInv
  <2>A. \A sq \in Seq(1..NumPods) : Elems(Append(sq, i)) = Elems(sq) \cup {i}
    <3>1. i \in 1..NumPods
      BY <2>0
    <3>. QED
      BY <3>1, ElemsAppend
  <2>1. /\ DOMAIN schedules' = DOMAIN schedules \cup {key}
        /\ \A k \in DOMAIN schedules \ {key} : schedules'[k] = schedules[k]
    BY <2>0 DEF AppendPod
  <2>2. ASSUME key \in DOMAIN schedules
        PROVE  /\ schedules'[key].pods = Append(schedules[key].pods, i)
               /\ schedules[key].pods \in Seq(1..NumPods)
               /\ Elems(schedules'[key].pods) = PodsOf(key) \cup {i}
    <3>1. schedules[key] \in ScheduleType
      BY <2>2 DEF PInv, KInv, TypeOK
    <3>2. schedules'[key].pods = Append(schedules[key].pods, i)
      BY <2>0, <2>2, <3>1 DEF AppendPod, ScheduleType
    <3>3. schedules[key].pods \in Seq(1..NumPods)
      BY <3>1 DEF ScheduleType
    <3>4. Elems(Append(schedules[key].pods, i)) = PodsOf(key) \cup {i}
      <4>1. Elems(Append(schedules[key].pods, i)) = Elems(schedules[key].pods) \cup {i}
        BY <3>3, <2>A
      <4>. QED
        BY <4>1 DEF PodsOf
    <3>. QED
      BY <3>2, <3>3, <3>4
  <2>3. ASSUME key \notin DOMAIN schedules
        PROVE  schedules'[key].pods = <<i>> /\ Elems(schedules'[key].pods) = {i}
    BY <2>0, <2>3 DEF AppendPod, Elems
  <2>4. \A k \in DOMAIN schedules : i \notin PodsOf(k)
    BY <2>0 DEF PInv, KInv, KeyedBy
  <2>5. Placed'
    <3> SUFFICES ASSUME NEW p \in DOMAIN grouped'
                 PROVE  grouped'[p] \in DOMAIN schedules' /\ p \in Elems(schedules'[grouped'[p]].pods)
      BY DEF Placed, PodsOf
    <3>1. CASE p = i
      BY <3>1, <2>0, <2>1, <2>2, <2>3
    <3>2. CASE p # i
      <4>1. p \in DOMAIN grouped /\ grouped'[p] = grouped[p]
        BY <3>2, <2>0
      <4>2. grouped[p] \in DOMAIN schedules /\ p \in PodsOf(grouped[p])
        BY <4>1 DEF PInv, Placed
      <4>. QED
        BY <4>1, <4>2, <2>1, <2>2 DEF PodsOf
    <3>. QED
      BY <3>1, <3>2
  <2>6. NoRepeats'
    <3> SUFFICES ASSUME NEW k \in DOMAIN schedules'
                 PROVE  \A a, b \in 1..Len(schedules'[k].pods) :
                           schedules'[k].pods[a] = schedules'[k].pods[b] => a = b
      BY DEF NoRepeats
    <3>1. CASE k # key
      BY <3>1, <2>1 DEF PInv, NoRepeats
    <3>2. CASE k = key /\ key \in DOMAIN schedules
      <4>1. i \notin Elems(schedules[key].pods)
        BY <3>2, <2>4 DEF PodsOf
      <4>2. \A a, b \in 1..Len(schedules[key].pods) :
               schedules[key].pods[a] = schedules[key].pods[b] => a = b
        BY <3>2 DEF PInv, NoRepeats
      <4>3. /\ schedules'[key].pods = Append(schedules[key].pods, i)
            /\ schedules[key].pods \in Seq(1..NumPods)
        BY <3>2, <2>2
      <4>4. \A a, b \in 1..Len(Append(schedules[key].pods, i)) :
               Append(schedules[key].pods, i)[a] = Append(schedules[key].pods, i)[b] => a = b
        BY <4>1, <4>2, <4>3, <2>0, AppendDistinct
      <4>. QED
        BY <3>2, <4>3, <4>4
    <3>3. CASE k = key /\ key \notin DOMAIN schedules
      BY <3>3, <2>3
    <3>. QED
      BY <3>1, <3>2, <3>3
  <2>. QED
    BY <1>1, <2>5, <2>6 DEF PInv
<1>5. QED
  BY <1>2, <1>3, <1>4
     DEF Next, vars, ConstrainOk, ConstrainFails, Relax, InjectOk, InjectFails,
         GroupInvalid, GroupListFails, GroupValid, Record, RecordFails

(***************************************************************************)
(* The daemons getSchedules computes once, from the first pod of a         *)
(* schedule (lines 323-333), are those that fit every pod that later joins *)
(* it (DaemonsFitEveryPod), for every value of the constants.              *)
(***************************************************************************)
THEOREM DaemonsFit == Spec => []DaemonsFitEveryPod
<1>1. KInv => DaemonsFitEveryPod
  BY DEF KInv, KeyedBy, DaemonsFitEveryPod
<1>. QED
  BY <1>1, KInvInit, KInvNext, PTL DEF Spec

(* A member of a sequence without repeats occurs in it exactly once. *)
LEMMA OccursOnce ==
    ASSUME NEW S, NEW sq \in Seq(S), NEW p \in Elems(sq),
           \A a, b \in 1..Len(sq) : sq[a] = sq[b] => a = b
    PROVE  Cardinality({j \in 1..Len(sq) : sq[j] = p}) = 1
<1>1. DOMAIN sq = 1..Len(sq)
  BY LenProperties
<1>2. PICK j0 \in 1..Len(sq) : sq[j0] = p
  BY <1>1 DEF Elems
<1>3. {j \in 1..Len(sq) : sq[j] = p} = {j0}
  BY <1>2
<1>. QED
  BY <1>3, FS_Singleton

(***************************************************************************)
(* getSchedules partitions the valid pods by their effective constraints   *)
(* compared as sets (GroupingIsPartition), for every value of the          *)
(* constants and whatever order the Go map iterations produce.             *)
(***************************************************************************)
THEOREM GroupingPartition == Spec => []GroupingIsPartition
<1>1. PInv => GroupingIsPartition
  <2> SUFFICES ASSUME PInv PROVE GroupingIsPartition
    OBVIOUS
  <2>1. \A k \in DOMAIN schedules : PodsOf(k) \subseteq DOMAIN grouped
    BY DEF PInv, KInv, KeyedBy
  <2>2. ASSUME NEW p \in DOMAIN grouped
        PROVE  \E k \in DOMAIN schedules :
                  /\ Occurrences(k, p) = 1
                  /\ \A k2 \in DOMAIN schedules \ {k} : p \notin PodsOf(k2)
    <3>1. grouped[p] \in DOMAIN schedules /\ p \in PodsOf(grouped[p])
      BY DEF PInv, Placed
    <3>2. schedules[grouped[p]].pods \in Seq(1..NumPods)
      BY <3>1 DEF PInv, KInv, TypeOK, ScheduleType
    <3>3. Occurrences(grouped[p], p) = 1
      BY <3>1, <3>2, OccursOnce DEF PInv, NoRepeats, PodsOf, Occurrences
    <3>4. \A k2 \in DOMAIN schedules \ {grouped[p]} : p \notin PodsOf(k2)
      BY DEF PInv, KInv, KeyedBy
    <3>. QED
      BY <3>1, <3>3, <3>4
  <2>3. \A k1, k2 \in DOMAIN schedules : \A p \in PodsOf(k1), q \in PodsOf(k2) :
          k1 = k2 <=> grouped[p] = grouped[q]
    BY DEF PInv, KInv, KeyedBy
  <2>. QED
    BY <2>1, <2>2, <2>3 DEF GroupingIsPartition
<1>. QED
  BY <1>1, PInvInit, PInvNext, PTL DEF Spec

-----------------------------------------------------------------------------
(***************************************************************************)
(* The strengthening for HostnameInjectionTransient.  The copy of the      *)
(* provisioner's constraints never carries a hostname (the hook narrows    *)
(* zones only); pods are relaxed and injected before the loop places any;  *)
(* so a placed pod's constraints carry exactly its injected hostname, and  *)
(* a call that reaches the metric without an error has been through the   *)
(* strip.                                                                  *)
(***************************************************************************)
ConstraintsHost == constraints.labels[HostnameKey] = NoValue
Early == pc \in {"constrain", "relax", "inject"} => i = 1
HostLabel ==
    \A p \in DOMAIN grouped :
        grouped[p].labels[HostnameKey] = pods[p].nodeSelector[HostnameKey]
Stripped ==
    pc \in {"record", "done"} /\ err = "none" =>
        \A k \in DOMAIN schedules : schedules[k].constraints.labels[HostnameKey] = NoValue

HInv == TypeOK /\ ConstraintsHost /\ Early /\ HostLabel /\ Stripped

(* Sorting the preferred terms leaves the node selector alone. *)
LEMMA WithPreferredSelector ==
    ASSUME NEW pod \in PodType, NEW sp
    PROVE  WithPreferred(pod, sp).nodeSelector = pod.nodeSelector
BY DEF WithPreferred, PodType

(* Without a provisioner hostname, the effective hostname is the pod's own. *)
LEMMA EffectiveHostname ==
    ASSUME NEW c \in ConstraintsType, c.labels[HostnameKey] = NoValue, NEW pod \in PodType
    PROVE  EffectiveLabels(c, pod)[HostnameKey] = pod.nodeSelector[HostnameKey]
BY DEF EffectiveLabels

LEMMA HInvInit == Init => HInv
BY InitTypeOK DEF Init, HInv, ConstraintsHost, Early, HostLabel, Stripped

LEMMA HInvNext == HInv /\ [Next]_vars => HInv'
<1> SUFFICES ASSUME HInv, [Next]_vars PROVE HInv'
  OBVIOUS
<1>0. /\ pods \in Seq(PodType)
      /\ Len(pods) = NumPods
      /\ TypeOK'
  BY PodsLen, NextTypeOK DEF HInv, TypeOK
(* Before the loop no pod is placed, whatever happens to the pods. *)
<1>1. ASSUME pc \in {"constrain", "relax", "inject"},
             pc' \in {"constrain", "relax", "inject", "group", "record"},
             pc' = "record" => err' # "none",
             pc' # "record" => i' = 1,
             UNCHANGED <<i, grouped>>,
             constraints'.labels = constraints.labels
      PROVE  HInv'
  <2>0. i = 1 /\ DOMAIN grouped \subseteq 1..(i - 1)
    BY <1>1 DEF HInv, Early, TypeOK
  <2>1. ASSUME NEW p \in DOMAIN grouped PROVE FALSE
    <3>1. p \in 1..0
      BY <2>0
    <3>. QED
      BY <3>1
  <2>. QED
    BY <1>0, <1>1, <2>1 DEF HInv, ConstraintsHost, Early, HostLabel, Stripped
(* In the loop, a step that leaves the placed pods and the schedules alone. *)
<1>2. ASSUME pc = "group", pc' \in {"group", "record"}, pc' = "record" => err' # "none",
             UNCHANGED <<constraints, grouped, schedules>>, i' \in {i, i + 1},
             \A p \in DOMAIN grouped : pods'[p].nodeSelector = pods[p].nodeSelector
      PROVE  HInv'
  BY <1>0, <1>2 DEF HInv, ConstraintsHost, Early, HostLabel, Stripped
<1>3. CASE ConstrainOk
  <2>1. i = 1 /\ constraints'.labels = constraints.labels
    BY <1>3 DEF ConstrainOk, HInv, Early, TypeOK, ConstraintsType
  <2>. QED
    BY <1>3, <1>1, <2>1 DEF ConstrainOk
<1>4. CASE ConstrainFails \/ Relax \/ InjectOk \/ InjectFails
  <2>1. pc \in {"constrain", "relax", "inject"} => i = 1
    BY DEF HInv, Early
  <2>. QED
    BY <1>4, <1>1, <2>1 DEF ConstrainFails, Relax, InjectOk, InjectFails
<1>5. CASE GroupInvalid
  <2>1. PICK sp \in SortedPrefs(pods[i]) : pods' = [pods EXCEPT ![i] = WithPreferred(pods[i], sp)]
    BY <1>5 DEF GroupInvalid
  <2>2. \A p \in DOMAIN grouped : p # i
    BY DEF HInv, TypeOK
  <2>. QED
    BY <1>5, <1>2, <2>1, <2>2 DEF GroupInvalid
<1>6. CASE GroupListFails
  <2>1. PICK sp \in SortedPrefs(pods[i]) : pods' = [pods EXCEPT ![i] = WithPreferred(pods[i], sp)]
    BY <1>6 DEF GroupListFails, GroupValid
  <2>2. \A p \in DOMAIN grouped : p # i
    BY DEF HInv, TypeOK
  <2>3. /\ pc = "group" /\ pc' = "record" /\ err' = "daemons"
        /\ UNCHANGED <<constraints, grouped, schedules, i>>
    BY <1>6 DEF GroupListFails, GroupValid
  <2>. QED
    BY <1>2, <2>1, <2>2, <2>3
<1>7. CASE GroupPlaced
  <2>1. PICK sp \in SortedPrefs(pods[i]) :
          /\ pods' = [pods EXCEPT ![i] = WithPreferred(pods[i], sp)]
          /\ grouped' = [p \in DOMAIN grouped \cup {i} |->
                           IF p = i THEN EffectiveConstraints(constraints, pods[i], sp)
                           ELSE grouped[p]]
    BY <1>7 DEF GroupPlaced, GroupValid
  <2>2. /\ pc = "group" /\ pc' = "group" /\ UNCHANGED <<constraints, err>>
        /\ i \in 1..NumPods /\ i \notin DOMAIN grouped
    BY <1>7, <1>0 DEF GroupPlaced, GroupValid, HInv, TypeOK
  <2>3. pods[i] \in PodType /\ constraints \in ConstraintsType
    BY <2>2 DEF HInv, TypeOK
  <2>4. pods'[i].nodeSelector = pods[i].nodeSelector
    BY <2>1, <2>2, <2>3, <1>0, WithPreferredSelector
  <2>5. grouped'[i].labels[HostnameKey] = pods'[i].nodeSelector[HostnameKey]
    BY <2>1, <2>3, <2>4, EffectiveHostname DEF HInv, ConstraintsHost, EffectiveConstraints
  <2>6. HostLabel'
    BY <2>1, <2>2, <2>5 DEF HInv, HostLabel
  <2>. QED
    BY <1>0, <2>2, <2>6 DEF HInv, ConstraintsHost, Early, Stripped
<1>8. CASE GroupDone
  <2>1. /\ schedules' = StripHostname(schedules)
        /\ pc' = "record" /\ UNCHANGED <<constraints, pods, i, err, grouped>>
    BY <1>8 DEF GroupDone
  <2>2. \A k \in DOMAIN schedules' : schedules'[k].constraints.labels[HostnameKey] = NoValue
    BY <2>1 DEF StripHostname, HInv, TypeOK, ScheduleType, Selector
  <2>. QED
    BY <1>0, <2>1, <2>2 DEF HInv, ConstraintsHost, Early, HostLabel, Stripped
<1>9. CASE Record \/ RecordFails \/ UNCHANGED vars
  BY <1>0, <1>9 DEF Record, RecordFails, vars, HInv, ConstraintsHost, Early, HostLabel, Stripped
<1>. QED
  BY <1>3, <1>4, <1>5, <1>6, <1>7, <1>8, <1>9 DEF Next

(***************************************************************************)
(* Topology spread is a just-in-time node selector (HostnameInjection-     *)
(* Transient), for every value of the constants: pods injected with        *)
(* different hostnames never share a schedule, and a call that returns its *)
(* schedules has removed the hostname label from every one of them.        *)
(***************************************************************************)
THEOREM HostnameTransient == Spec => []HostnameInjectionTransient
<1>1. PInv /\ HInv => HostnameInjectionTransient
  <2> SUFFICES ASSUME PInv, HInv PROVE HostnameInjectionTransient
    OBVIOUS
  <2>1. ASSUME NEW k1 \in DOMAIN schedules, NEW k2 \in DOMAIN schedules,
               NEW p \in PodsOf(k1), NEW q \in PodsOf(k2),
               pods[p].nodeSelector[HostnameKey] # pods[q].nodeSelector[HostnameKey]
        PROVE  k1 # k2
    <3>1. p \in DOMAIN grouped /\ grouped[p] = k1 /\ q \in DOMAIN grouped /\ grouped[q] = k2
      BY <2>1 DEF PInv, KInv, KeyedBy
    <3>2. k1.labels[HostnameKey] # k2.labels[HostnameKey]
      BY <2>1, <3>1 DEF HInv, HostLabel
    <3>. QED
      BY <3>2
  <2>2. pc \in {"record", "done"} /\ err = "none" =>
          \A k \in DOMAIN schedules : schedules[k].constraints.labels[HostnameKey] = NoValue
    BY DEF HInv, Stripped
  <2>. QED
    BY <2>1, <2>2 DEF HostnameInjectionTransient
<1>. QED
  BY <1>1, PInvInit, PInvNext, HInvInit, HInvNext, PTL DEF Spec

=============================================================================
