--------------------------- MODULE SchedulerProofs ---------------------------
(***************************************************************************)
(* Proofs about one call of Scheduler.Solve, for every value of the        *)
(* constants that satisfies ConstantsAssumption.                           *)
(***************************************************************************)
EXTENDS Scheduler, FiniteSetTheorems, SequenceTheorems, TLAPS

USE ConstantsAssumption


-----------------------------------------------------------------------------
(* Sorting a pod's preferred terms by weight yields a sequence of its terms. *)
LEMMA SortedPrefsType ==
    ASSUME NEW pod \in PodType, NEW sp \in SortedPrefs(pod)
    PROVE  /\ pod.affinity # NoValue => sp \in Seq(Preference)
           /\ pod.affinity = NoValue => sp = << >>
<1>1. CASE pod.affinity = NoValue
  BY <1>1 DEF SortedPrefs
<1>2. CASE pod.affinity # NoValue
  <2>1. pod.affinity \in Affinity
    BY <1>2 DEF PodType, Affinity, Preference
  <2>2. sp \in [1..Len(pod.affinity.preferred) -> Elems(pod.affinity.preferred)]
    BY <1>2 DEF SortedPrefs, SortedByWeight
  <2>3. Elems(pod.affinity.preferred) \subseteq Preference
    BY <2>1 DEF Elems, Affinity
  <2>4. Len(pod.affinity.preferred) \in Nat
    BY <2>1 DEF Affinity
  <2>. QED
    BY <1>2, <2>2, <2>3, <2>4
<1>. QED
  BY <1>1, <1>2

(* Putting the sorted terms back into the pod keeps it a pod. *)
LEMMA WithPreferredType ==
    ASSUME NEW pod \in PodType, NEW sp \in SortedPrefs(pod)
    PROVE  WithPreferred(pod, sp) \in PodType
<1>1. CASE pod.affinity = NoValue
  BY <1>1 DEF WithPreferred
<1>2. CASE pod.affinity # NoValue
  <2>1. sp \in Seq(Preference)
    BY <1>2, SortedPrefsType
  <2>2. pod.affinity \in Affinity
    BY <1>2 DEF PodType, Affinity, Preference
  <2>. QED
    BY <1>2, <2>1, <2>2 DEF WithPreferred, PodType, Affinity, Preference
<1>. QED
  BY <1>1, <1>2

(* Relaxing a pod keeps it a pod. *)
LEMMA RelaxedType ==
    ASSUME NEW pod \in PodType
    PROVE  Relaxed(pod) \subseteq PodType
<1>1. CASE pod.failed /\ pod.affinity # NoValue /\ Len(pod.affinity.preferred) > 0
  <2> SUFFICES ASSUME NEW s \in SortedPrefs(pod)
               PROVE  [pod EXCEPT !.affinity.preferred = Tail(s)] \in PodType
    BY <1>1 DEF Relaxed
  <2>1. s \in Seq(Preference)
    BY <1>1, SortedPrefsType
  <2>2. s # << >>
    <3>1. DOMAIN s = 1..Len(pod.affinity.preferred)
      BY <1>1 DEF SortedPrefs, SortedByWeight
    <3>. QED
      BY <1>1, <3>1
  <2>3. Tail(s) \in Seq(Preference)
    BY <2>1, <2>2, HeadTailProperties
  <2>4. pod.affinity \in Affinity
    BY <1>1 DEF PodType, Affinity, Preference
  <2>. QED
    BY <2>3, <2>4 DEF PodType, Affinity, Preference
<1>2. CASE ~(pod.failed /\ pod.affinity # NoValue /\ Len(pod.affinity.preferred) > 0)
            /\ pod.failed /\ pod.affinity # NoValue /\ Len(pod.affinity.required) > 1
  <2>1. pod.affinity \in Affinity
    BY <1>2 DEF PodType, Affinity, Preference
  <2>2. Tail(pod.affinity.required) \in Seq(Seq(Req))
    BY <1>2, <2>1, HeadTailProperties DEF Affinity
  <2>3. Relaxed(pod) = { [pod EXCEPT !.affinity.required = Tail(pod.affinity.required)] }
    BY <1>2 DEF Relaxed
  <2>4. [pod EXCEPT !.affinity.required = Tail(pod.affinity.required)] \in PodType
    BY <2>1, <2>2 DEF PodType, Affinity
  <2>. QED
    BY <2>3, <2>4
<1>3. CASE ~(pod.failed /\ pod.affinity # NoValue /\ Len(pod.affinity.preferred) > 0)
           /\ ~(pod.failed /\ pod.affinity # NoValue /\ Len(pod.affinity.required) > 1)
  BY <1>3 DEF Relaxed
<1>. QED
  BY <1>1, <1>2, <1>3

(* A pod's effective zones are among the zones of the constraints. *)
LEMMA EffectiveZonesSubset ==
    ASSUME NEW c \in ConstraintsType, NEW pod, NEW sp
    PROVE  EffectiveZones(c, pod, sp) \subseteq c.zones
<1>1. IntersectDomains(<< c.zones >>) = c.zones
  BY DEF IntersectDomains
<1>. QED
  BY <1>1 DEF EffectiveZones, GetLabelValues, WithoutNotInValues, InValues

(* Overriding the constraints' labels by a pod's selector gives a selector. *)
LEMMA EffectiveLabelsType ==
    ASSUME NEW c \in ConstraintsType, NEW pod \in PodType
    PROVE  EffectiveLabels(c, pod) \in Selector
BY DEF EffectiveLabels, ConstraintsType, PodType, Selector

(* Every order of a set of values is a sequence of values. *)
LEMMA OrderingsType ==
    ASSUME NEW S \in SUBSET Values
    PROVE  Orderings(S) \subseteq Seq(Values)
<1>1. Cardinality(S) \in Nat
  BY FS_Subset, FS_CardinalityType
<1>. QED
  BY <1>1 DEF Orderings

(* The constraints NewConstraints returns have the type of a schedule's. *)
LEMMA NewConstraintsType ==
    ASSUME NEW c \in ConstraintsType, NEW pod \in PodType, NEW sp,
           NEW zs \in Orderings(EffectiveZones(c, pod, sp))
    PROVE  NewConstraints(c, pod, zs)
             \in [labels : Selector, taints : SUBSET Taints, zones : Seq(Values)]
<1>1. zs \in Seq(Values)
  BY EffectiveZonesSubset, OrderingsType DEF ConstraintsType
<1>. QED
  BY <1>1, EffectiveLabelsType DEF NewConstraints, ConstraintsType

(* Adding pod i to a schedule, new or existing, keeps every schedule typed. *)
LEMMA AppendPodType ==
    ASSUME NEW s, \A k \in DOMAIN s : s[k] \in ScheduleType,
           NEW key, NEW c \in [labels : Selector, taints : SUBSET Taints, zones : Seq(Values)],
           i \in 1..NumPods
    PROVE  \A k \in DOMAIN AppendPod(s, key, c) : AppendPod(s, key, c)[k] \in ScheduleType
<1>1. CASE key \in DOMAIN s
  <2>1. Append(s[key].pods, i) \in Seq(1..NumPods)
    BY <1>1, AppendProperties DEF ScheduleType
  <2>. QED
    BY <1>1, <2>1 DEF AppendPod, ScheduleType
<1>2. CASE key \notin DOMAIN s
  <2>1. GetDaemons(c) \subseteq DaemonSets
    BY DEF GetDaemons
  <2>. QED
    BY <1>2, <2>1 DEF AppendPod, ScheduleType
<1>. QED
  BY <1>1, <1>2

(* Stripping the hostname label keeps every schedule typed. *)
LEMMA StripHostnameType ==
    ASSUME NEW s, \A k \in DOMAIN s : s[k] \in ScheduleType
    PROVE  \A k \in DOMAIN StripHostname(s) : StripHostname(s)[k] \in ScheduleType
BY DEF StripHostname, ScheduleType, Selector

(* The pod slice of a typed state is a sequence of NumPods pods. *)
LEMMA PodsLen ==
    ASSUME NEW ps \in [1..NumPods -> PodType]
    PROVE  /\ ps \in Seq(PodType)
           /\ Len(ps) = NumPods
<1>1. ps \in Seq(PodType)
  BY SeqDef
<1>2. DOMAIN ps = 1..Len(ps) /\ Len(ps) \in Nat
  BY <1>1, LenProperties
<1>. QED
  BY <1>1, <1>2

-----------------------------------------------------------------------------
(* Initial states are typed. *)
LEMMA InitTypeOK == Init => TypeOK
<1> SUFFICES ASSUME Init PROVE TypeOK
  OBVIOUS
<1>1. pods \in [1..NumPods -> PodType]
  BY DEF Init
<1>. QED
  BY <1>1 DEF Init, TypeOK, ConstraintsType

(***************************************************************************)
(* Every step of Solve keeps the state typed: constraints are only         *)
(* narrowed, every pod the pipeline rewrites stays a pod, every schedule   *)
(* getSchedules builds or strips stays a schedule of pod indices.          *)
(***************************************************************************)
LEMMA NextTypeOK == TypeOK /\ [Next]_vars => TypeOK'
<1> SUFFICES ASSUME TypeOK, [Next]_vars PROVE TypeOK'
  OBVIOUS
<1>0. /\ pods \in Seq(PodType)
      /\ Len(pods) = NumPods
  BY PodsLen DEF TypeOK
<1>1. CASE ConstrainOk
  BY <1>1 DEF ConstrainOk, TypeOK, ConstraintsType
<1>2. CASE ConstrainFails
  BY <1>2 DEF ConstrainFails, TypeOK
<1>3. CASE Relax
  <2>1. PICK np \in [1..Len(pods) -> UNION {Relaxed(pods[p]) : p \in 1..Len(pods)}] :
            /\ \A p \in 1..Len(pods) : np[p] \in Relaxed(pods[p])
            /\ pods' = np
    BY <1>3 DEF Relax
  <2>2. \A p \in 1..NumPods : np[p] \in PodType
    BY <1>0, <2>1, RelaxedType DEF TypeOK
  <2>3. pods' \in [1..NumPods -> PodType]
    BY <1>0, <2>1, <2>2
  <2>. QED
    BY <1>3, <2>3 DEF Relax, TypeOK
<1>4. CASE InjectOk
  <2>1. PICK h \in [SpreadPods -> Hostnames] :
            pods' = [p \in 1..Len(pods) |->
                        IF p \in SpreadPods
                        THEN [pods[p] EXCEPT !.nodeSelector[HostnameKey] = h[p]]
                        ELSE pods[p]]
    BY <1>4 DEF InjectOk
  <2>2. SpreadPods \subseteq 1..NumPods
    BY <1>0 DEF SpreadPods
  <2>3. ASSUME NEW p \in SpreadPods
        PROVE  [pods[p] EXCEPT !.nodeSelector[HostnameKey] = h[p]] \in PodType
    <3>1. pods[p] \in PodType /\ h[p] \in Values
      BY <2>2 DEF TypeOK
    <3>. QED
      BY <3>1 DEF PodType, Selector
  <2>4. pods' \in [1..NumPods -> PodType]
    BY <1>0, <2>1, <2>2, <2>3 DEF TypeOK
  <2>. QED
    BY <1>4, <2>4 DEF InjectOk, TypeOK
<1>5. CASE InjectFails
  BY <1>5 DEF InjectFails, TypeOK
<1>6. CASE GroupInvalid
  <2>1. PICK sp \in SortedPrefs(pods[i]) :
            pods' = [pods EXCEPT ![i] = WithPreferred(pods[i], sp)]
    BY <1>6 DEF GroupInvalid
  <2>2. i \in 1..NumPods
    BY <1>0, <1>6 DEF GroupInvalid, TypeOK
  <2>3. WithPreferred(pods[i], sp) \in PodType
    BY <2>2, WithPreferredType DEF TypeOK
  <2>. QED
    BY <1>6, <2>1, <2>2, <2>3 DEF GroupInvalid, TypeOK
<1>7. ASSUME NEW listFails \in BOOLEAN, GroupValid(listFails)
      PROVE  TypeOK'
  <2>1. i \in 1..NumPods
    BY <1>0, <1>7 DEF GroupValid, TypeOK
  <2>2. pods[i] \in PodType
    BY <2>1 DEF TypeOK
  <2>3. PICK sp \in SortedPrefs(pods[i]) :
            /\ ValidConstraints(constraints, pods[i], sp)
            /\ pods' = [pods EXCEPT ![i] = WithPreferred(pods[i], sp)]
            /\ \E zs \in Orderings(EffectiveZones(constraints, pods[i], sp)) :
                 LET c == NewConstraints(constraints, pods[i], zs)
                 IN  IF listFails
                     THEN /\ Key(c) \notin DOMAIN schedules
                          /\ err' = "daemons"
                          /\ pc' = "record"
                          /\ UNCHANGED <<i, schedules, grouped>>
                     ELSE /\ schedules' = AppendPod(schedules, Key(c), c)
                          /\ grouped' = [p \in DOMAIN grouped \cup {i} |->
                                           IF p = i
                                           THEN EffectiveConstraints(constraints, pods[i], sp)
                                           ELSE grouped[p]]
                          /\ i' = i + 1
                          /\ UNCHANGED <<pc, err>>
    BY <1>7 DEF GroupValid
  <2>4. PICK zs \in Orderings(EffectiveZones(constraints, pods[i], sp)) :
            LET c == NewConstraints(constraints, pods[i], zs)
            IN  IF listFails
                THEN /\ Key(c) \notin DOMAIN schedules
                     /\ err' = "daemons"
                     /\ pc' = "record"
                     /\ UNCHANGED <<i, schedules, grouped>>
                ELSE /\ schedules' = AppendPod(schedules, Key(c), c)
                     /\ grouped' = [p \in DOMAIN grouped \cup {i} |->
                                      IF p = i
                                      THEN EffectiveConstraints(constraints, pods[i], sp)
                                      ELSE grouped[p]]
                     /\ i' = i + 1
                     /\ UNCHANGED <<pc, err>>
    BY <2>3
  <2>5. pods' \in [1..NumPods -> PodType]
    BY <2>1, <2>2, <2>3, WithPreferredType DEF TypeOK
  <2>6. UNCHANGED <<constraints, observed>>
    BY <1>7 DEF GroupValid
  <2>7. CASE listFails
    BY <2>4, <2>5, <2>6, <2>7 DEF TypeOK
  <2>8. CASE ~listFails
    <3> DEFINE c == NewConstraints(constraints, pods[i], zs)
    <3>1. c \in [labels : Selector, taints : SUBSET Taints, zones : Seq(Values)]
      BY <2>2, NewConstraintsType DEF TypeOK
    <3>2. \A k \in DOMAIN schedules' : schedules'[k] \in ScheduleType
      BY <2>1, <2>4, <2>8, <3>1, AppendPodType DEF TypeOK
    <3>3. EffectiveConstraints(constraints, pods[i], sp) \in ConstraintsType
      BY <2>2, EffectiveLabelsType, EffectiveZonesSubset
         DEF EffectiveConstraints, TypeOK, ConstraintsType
    <3>4. /\ DOMAIN grouped' \subseteq 1..(i' - 1)
          /\ \A p \in DOMAIN grouped' : grouped'[p] \in ConstraintsType
      BY <2>1, <2>4, <2>8, <3>3 DEF TypeOK
    <3>. QED
      BY <2>1, <2>4, <2>5, <2>6, <2>8, <3>2, <3>4 DEF TypeOK
  <2>. QED
    BY <2>7, <2>8
<1>8. CASE GroupDone
  BY <1>8, StripHostnameType DEF GroupDone, TypeOK
<1>9. CASE Record
  BY <1>9 DEF Record, TypeOK
<1>10. CASE UNCHANGED vars
  BY <1>10 DEF vars, TypeOK
<1>11. CASE RecordFails
  BY <1>11 DEF RecordFails, TypeOK
<1>. QED
  BY <1>1, <1>2, <1>3, <1>4, <1>5, <1>6, <1>7, <1>8, <1>9, <1>10, <1>11
     DEF Next, GroupPlaced, GroupListFails

(* Solve's state stays typed, for every value of the constants (TypeOK). *)
THEOREM TypeCorrect == Spec => []TypeOK
BY InitTypeOK, NextTypeOK, PTL DEF Spec

-----------------------------------------------------------------------------
(* A pod's step old -> new that loosens it in order (the body of          *)
(* PodsRelaxedInOrder).                                                     *)
LoosenedInOrder(old, new) ==
    /\ HardPart(new) = HardPart(old)
    /\ Len(PreferredOf(new)) <= Len(PreferredOf(old))
    /\ Elems(PreferredOf(new)) \subseteq Elems(PreferredOf(old))
    /\ \/ RequiredOf(new) = RequiredOf(old)
       \/ /\ PreferredOf(old) = << >>
          /\ Len(RequiredOf(old)) > 1
          /\ RequiredOf(new) = Tail(RequiredOf(old))

(* A sorted order of a pod's preferred terms has as many terms, all its own. *)
LEMMA SortedPrefsShape ==
    ASSUME NEW pod \in PodType, pod.affinity # NoValue, NEW sp \in SortedPrefs(pod)
    PROVE  /\ sp \in Seq(Preference)
           /\ Len(sp) = Len(pod.affinity.preferred)
           /\ Elems(sp) \subseteq Elems(pod.affinity.preferred)
<1>1. sp \in [1..Len(pod.affinity.preferred) -> Elems(pod.affinity.preferred)]
  BY DEF SortedPrefs, SortedByWeight
<1>2. sp \in Seq(Preference)
  BY SortedPrefsType
<1>3. Len(pod.affinity.preferred) \in Nat
  BY DEF PodType
<1>4. DOMAIN sp = 1..Len(sp) /\ Len(sp) \in Nat
  BY <1>2, LenProperties
<1>. QED
  BY <1>1, <1>3, <1>4, <1>2 DEF Elems

(* A pod with an affinity is not NoValue in its affinity after an update. *)
LEMMA AffinityUpdated ==
    ASSUME NEW pod \in PodType, pod.affinity # NoValue,
           NEW t \in Seq(Preference), NEW r \in Seq(Seq(Req))
    PROVE  [preferred |-> t, required |-> r] # NoValue
<1>1. [preferred |-> t, required |-> r] \in Affinity
  BY DEF Affinity
<1>. QED
  BY <1>1, ConstantsAssumption

(* Replacing the preferred terms of a pod with an affinity keeps the rest. *)
LEMMA PreferredReplaced ==
    ASSUME NEW pod \in PodType, pod.affinity # NoValue, NEW t \in Seq(Preference)
    PROVE  /\ HardPart([pod EXCEPT !.affinity.preferred = t]) = HardPart(pod)
           /\ PreferredOf([pod EXCEPT !.affinity.preferred = t]) = t
           /\ RequiredOf([pod EXCEPT !.affinity.preferred = t]) = RequiredOf(pod)
           /\ PreferredOf(pod) = pod.affinity.preferred
           /\ WithPreferred(pod, t) = [pod EXCEPT !.affinity.preferred = t]
<1>1. pod.affinity \in Affinity
  BY DEF PodType, Affinity, Preference
<1> DEFINE q == [pod EXCEPT !.affinity.preferred = t]
<1>2. /\ q.affinity = [preferred |-> t, required |-> pod.affinity.required]
      /\ q.nodeSelector = pod.nodeSelector
      /\ q.tolerations = pod.tolerations
  BY <1>1 DEF Affinity, PodType
<1>3. q.affinity # NoValue
  BY <1>1, <1>2, AffinityUpdated DEF Affinity
<1>. QED
  BY <1>2, <1>3 DEF HardPart, PreferredOf, RequiredOf, WithPreferred

(* Dropping the first required OR-term of a pod keeps the rest. *)
LEMMA RequiredReplaced ==
    ASSUME NEW pod \in PodType, pod.affinity # NoValue, NEW r \in Seq(Seq(Req))
    PROVE  /\ HardPart([pod EXCEPT !.affinity.required = r]) = HardPart(pod)
           /\ PreferredOf([pod EXCEPT !.affinity.required = r]) = PreferredOf(pod)
           /\ RequiredOf([pod EXCEPT !.affinity.required = r]) = r
           /\ RequiredOf(pod) = pod.affinity.required
<1>1. pod.affinity \in Affinity
  BY DEF PodType, Affinity, Preference
<1> DEFINE q == [pod EXCEPT !.affinity.required = r]
<1>2. /\ q.affinity = [preferred |-> pod.affinity.preferred, required |-> r]
      /\ q.nodeSelector = pod.nodeSelector
      /\ q.tolerations = pod.tolerations
  BY <1>1 DEF Affinity, PodType
<1>3. q.affinity # NoValue
  BY <1>1, <1>2, AffinityUpdated DEF Affinity
<1>. QED
  BY <1>2, <1>3 DEF HardPart, PreferredOf, RequiredOf

(* Sorting a pod's preferred terms in place loosens nothing out of order. *)
LEMMA WithPreferredInOrder ==
    ASSUME NEW pod \in PodType, NEW sp \in SortedPrefs(pod)
    PROVE  LoosenedInOrder(pod, WithPreferred(pod, sp))
<1>1. CASE pod.affinity = NoValue
  BY <1>1 DEF WithPreferred, LoosenedInOrder
<1>2. CASE pod.affinity # NoValue
  <2>1. /\ sp \in Seq(Preference)
        /\ Len(sp) = Len(pod.affinity.preferred)
        /\ Elems(sp) \subseteq Elems(pod.affinity.preferred)
    BY <1>2, SortedPrefsShape
  <2>2. /\ HardPart(WithPreferred(pod, sp)) = HardPart(pod)
        /\ PreferredOf(WithPreferred(pod, sp)) = sp
        /\ RequiredOf(WithPreferred(pod, sp)) = RequiredOf(pod)
        /\ PreferredOf(pod) = pod.affinity.preferred
    BY <1>2, <2>1, PreferredReplaced
  <2>. QED
    BY <2>1, <2>2 DEF LoosenedInOrder
<1>. QED
  BY <1>1, <1>2

(* Relaxing a pod drops one preferred term, or else one required OR-term. *)
LEMMA RelaxedInOrder ==
    ASSUME NEW pod \in PodType, NEW q \in Relaxed(pod)
    PROVE  LoosenedInOrder(pod, q)
<1>1. CASE pod.failed /\ pod.affinity # NoValue /\ Len(pod.affinity.preferred) > 0
  <2>1. PICK s \in SortedPrefs(pod) : q = [pod EXCEPT !.affinity.preferred = Tail(s)]
    BY <1>1 DEF Relaxed
  <2>2. /\ s \in Seq(Preference)
        /\ Len(s) = Len(pod.affinity.preferred)
        /\ Elems(s) \subseteq Elems(pod.affinity.preferred)
    BY <1>1, SortedPrefsShape
  <2>3. s # << >>
    BY <1>1, <2>2
  <2>4. /\ Tail(s) \in Seq(Preference)
        /\ Len(Tail(s)) = Len(s) - 1
        /\ \A j \in 1..Len(Tail(s)) : Tail(s)[j] = s[j + 1]
    BY <2>2, <2>3, HeadTailProperties
  <2>5. Elems(Tail(s)) \subseteq Elems(s)
    BY <2>2, <2>4, LenProperties DEF Elems
  <2>6. /\ HardPart(q) = HardPart(pod)
        /\ PreferredOf(q) = Tail(s)
        /\ RequiredOf(q) = RequiredOf(pod)
        /\ PreferredOf(pod) = pod.affinity.preferred
    BY <1>1, <2>1, <2>4, PreferredReplaced
  <2>. QED
    BY <2>2, <2>4, <2>5, <2>6 DEF LoosenedInOrder
<1>2. CASE ~(pod.failed /\ pod.affinity # NoValue /\ Len(pod.affinity.preferred) > 0)
            /\ pod.failed /\ pod.affinity # NoValue /\ Len(pod.affinity.required) > 1
  <2>1. pod.affinity \in Affinity
    BY <1>2 DEF PodType, Affinity, Preference
  <2>2. Tail(pod.affinity.required) \in Seq(Seq(Req))
    BY <1>2, <2>1, HeadTailProperties DEF Affinity
  <2>3. q = [pod EXCEPT !.affinity.required = Tail(pod.affinity.required)]
    BY <1>2 DEF Relaxed
  <2>4. /\ HardPart(q) = HardPart(pod)
        /\ PreferredOf(q) = PreferredOf(pod)
        /\ RequiredOf(q) = Tail(pod.affinity.required)
        /\ RequiredOf(pod) = pod.affinity.required
    BY <1>2, <2>2, <2>3, RequiredReplaced
  <2>5. PreferredOf(pod) = << >>
    <3>1. pod.affinity.preferred \in Seq(Preference)
      BY <2>1 DEF Affinity
    <3>2. Len(pod.affinity.preferred) = 0
      BY <1>2, <3>1, LenProperties
    <3>. QED
      BY <1>2, <3>1, <3>2, EmptySeq DEF PreferredOf
  <2>. QED
    BY <1>2, <2>4, <2>5 DEF LoosenedInOrder
<1>3. CASE ~(pod.failed /\ pod.affinity # NoValue /\ Len(pod.affinity.preferred) > 0)
           /\ ~(pod.failed /\ pod.affinity # NoValue /\ Len(pod.affinity.required) > 1)
  BY <1>3 DEF Relaxed, LoosenedInOrder
<1>. QED
  BY <1>1, <1>2, <1>3

(* Injecting a hostname selector touches only the hostname key. *)
LEMMA InjectInOrder ==
    ASSUME NEW pod \in PodType, NEW v
    PROVE  LoosenedInOrder(pod, [pod EXCEPT !.nodeSelector[HostnameKey] = v])
BY DEF LoosenedInOrder, HardPart, PreferredOf, RequiredOf, PodType

(* Every step loosens each pod in order, or leaves it alone. *)
LEMMA NextInOrder ==
    TypeOK /\ [Next]_vars => \A p \in 1..Len(pods) : LoosenedInOrder(pods[p], pods'[p])
<1> SUFFICES ASSUME TypeOK, [Next]_vars, NEW p \in 1..Len(pods)
             PROVE  LoosenedInOrder(pods[p], pods'[p])
  OBVIOUS
<1>0. Len(pods) = NumPods /\ pods[p] \in PodType
  BY PodsLen DEF TypeOK
<1>1. CASE UNCHANGED pods
  BY <1>1 DEF LoosenedInOrder
<1>2. CASE Relax
  <2>1. pods'[p] \in Relaxed(pods[p])
    BY <1>2 DEF Relax
  <2>. QED
    BY <1>0, <2>1, RelaxedInOrder
<1>3. CASE InjectOk
  <2>1. PICK h \in [SpreadPods -> Hostnames] :
            pods' = [q \in 1..Len(pods) |->
                        IF q \in SpreadPods
                        THEN [pods[q] EXCEPT !.nodeSelector[HostnameKey] = h[q]]
                        ELSE pods[q]]
    BY <1>3 DEF InjectOk
  <2>2. CASE p \in SpreadPods
    BY <1>0, <2>1, <2>2, InjectInOrder
  <2>3. CASE p \notin SpreadPods
    BY <2>1, <2>3 DEF LoosenedInOrder
  <2>. QED
    BY <2>2, <2>3
<1>4. CASE GroupInvalid
  <2>1. PICK sp \in SortedPrefs(pods[i]) :
            pods' = [pods EXCEPT ![i] = WithPreferred(pods[i], sp)]
    BY <1>4 DEF GroupInvalid
  <2>2. pods[i] \in PodType /\ i \in 1..Len(pods)
    BY <1>0, <1>4 DEF GroupInvalid, TypeOK
  <2>. QED
    BY <1>0, <2>1, <2>2, WithPreferredInOrder DEF LoosenedInOrder
<1>5. ASSUME NEW listFails, GroupValid(listFails)
      PROVE  LoosenedInOrder(pods[p], pods'[p])
  <2>1. PICK sp \in SortedPrefs(pods[i]) :
            pods' = [pods EXCEPT ![i] = WithPreferred(pods[i], sp)]
    BY <1>5 DEF GroupValid
  <2>2. pods[i] \in PodType /\ i \in 1..Len(pods)
    BY <1>0, <1>5 DEF GroupValid, TypeOK
  <2>. QED
    BY <1>0, <2>1, <2>2, WithPreferredInOrder DEF LoosenedInOrder
<1>. QED
  BY <1>1, <1>2, <1>3, <1>4, <1>5
     DEF Next, vars, ConstrainOk, ConstrainFails, InjectFails, GroupDone, Record, RecordFails,
         GroupPlaced, GroupListFails

(***************************************************************************)
(* Every step of Solve loosens each pod in the documented order            *)
(* (PodsRelaxedInOrder), for every value of the constants: node selector   *)
(* and tolerations kept, preferred terms only dropped, and a required      *)
(* OR-term dropped only once no preference is left, never the last one.    *)
(***************************************************************************)
THEOREM RelaxesInOrder == Spec => PodsRelaxedInOrder
<1>1. TypeOK /\ [Next]_vars =>
        [\A p \in 1..Len(pods) :
            /\ HardPart(pods'[p]) = HardPart(pods[p])
            /\ Len(PreferredOf(pods'[p])) <= Len(PreferredOf(pods[p]))
            /\ Elems(PreferredOf(pods'[p])) \subseteq Elems(PreferredOf(pods[p]))
            /\ \/ RequiredOf(pods'[p]) = RequiredOf(pods[p])
               \/ /\ PreferredOf(pods[p]) = << >>
                  /\ Len(RequiredOf(pods[p])) > 1
                  /\ RequiredOf(pods'[p]) = Tail(RequiredOf(pods[p]))]_vars
  BY NextInOrder DEF LoosenedInOrder
<1>. QED
  BY <1>1, TypeCorrect, PTL DEF Spec, PodsRelaxedInOrder

=============================================================================
