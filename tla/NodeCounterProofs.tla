------------------------- MODULE NodeCounterProofs -------------------------
(***************************************************************************)
(* Proofs about NodeCounter for every set of nodes, labels and known      *)
(* values satisfying NodeCounterAssumption.                                *)
(***************************************************************************)
EXTENDS NodeCounter, FiniteSetTheorems, SequenceTheorems, TLAPS

USE NodeCounterAssumption

(* A function on 1..n is a sequence of length n. *)
LEMMA FunctionIsSeq ==
    ASSUME NEW n \in Nat, NEW S, NEW f \in [1..n -> S]
    PROVE  f \in Seq(S) /\ Len(f) = n
OBVIOUS

(* The list calls of a round form a sequence of 1 + zones * PerZone calls. *)
LEMMA QueriesLen ==
    /\ PerZone \in Nat
    /\ Len(Queries) = 1 + Len(ZoneValues) * PerZone
    /\ Len(Queries) \in Nat
<1> DEFINE V == STRING \cup {Empty}
<1>0. /\ ZoneValues \in Seq(V) /\ ArchValues \in Seq(V)
      /\ InstanceTypeValues \in Seq(V) /\ OSValues \in Seq(V)
  BY Zenon
<1>1. PerZone \in Nat
  BY <1>0, LenProperties DEF PerZone
<1> DEFINE N == Len(ZoneValues) * PerZone
           f == [q \in 1..N |->
                   ZoneQueries(ZoneValues[((q - 1) \div PerZone) + 1])[((q - 1) % PerZone) + 1]]
           S == {[gauge |-> "node_count", sel |-> NoneSelected]} \cup {f[q] : q \in 1..N}
<1>2. N \in Nat
  BY <1>0, <1>1, LenProperties
<1>3. f \in [1..N -> S]
  <2>1. f = [q \in 1..N |-> f[q]]
    OBVIOUS
  <2> HIDE DEF f
  <2>. QED
    BY <2>1
<1>4. << [gauge |-> "node_count", sel |-> NoneSelected] >> \in Seq(S)
  OBVIOUS
<1>5. Queries = << [gauge |-> "node_count", sel |-> NoneSelected] >> \o f
  BY DEF Queries
<1> HIDE DEF f, S
<1>6. f \in Seq(S) /\ Len(f) = N
  BY <1>2, <1>3, FunctionIsSeq
<1>. QED
  BY <1>1, <1>2, <1>4, <1>5, <1>6, ConcatProperties

-----------------------------------------------------------------------------
(* A list call returns at most every node of the cluster. *)
LEMMA CountBound ==
    ASSUME NEW q, present \subseteq Nodes
    PROVE  Count(q) \in 0..Cardinality(Nodes)
<1>1. Matching(q.sel) \subseteq Nodes
  BY DEF Matching
<1>2. {n \in Matching(q.sel) : Ready(n)} \subseteq Nodes
  BY <1>1
<1>3. IsFiniteSet(Nodes) /\ Cardinality(Nodes) \in Nat
  BY FS_CardinalityType
<1>4. \A T \in SUBSET Nodes : Cardinality(T) \in 0..Cardinality(Nodes)
  BY <1>3, FS_Subset, FS_CardinalityType
<1>. QED
  BY <1>1, <1>2, <1>4 DEF Count

-----------------------------------------------------------------------------
(* The counter stays within its types (TypeOK): rounds, error counts and  *)
(* gauge values in range, whatever the cluster does between list calls.  *)
LEMMA TypeInit == Init => TypeOK
BY QueriesLen DEF Init, TypeOK

LEMMA TypeNext == TypeOK /\ [Next]_vars => TypeOK'
<1> SUFFICES ASSUME TypeOK, [Next]_vars PROVE TypeOK'
  OBVIOUS
<1>0. Len(Queries) \in Nat
  BY QueriesLen
<1>1. CASE ListFails
  BY <1>1, <1>0 DEF ListFails, TypeOK
<1>2. CASE ListAndPublish
  <2>1. k' = k + 1 /\ k \in 1..Len(Queries)
    BY <1>2, <1>0 DEF ListAndPublish, TypeOK
  <2>2. errors' \in {errors, errors + 1}
    BY <1>2 DEF ListAndPublish
  <2>3. \A s \in DOMAIN gauges' : gauges'[s] \in 0..Cardinality(Nodes)
    <3>1. CASE PublishOk(Queries[k])
      <4>1. gauges' = SetGauge(gauges, Queries[k])
        BY <1>2, <3>1 DEF ListAndPublish
      <4>2. Count(Queries[k]) \in 0..Cardinality(Nodes)
        BY CountBound DEF TypeOK
      <4>. QED
        BY <4>1, <4>2 DEF SetGauge, TypeOK
    <3>2. CASE ~PublishOk(Queries[k])
      BY <1>2, <3>2 DEF ListAndPublish, TypeOK
    <3>. QED
      BY <3>1, <3>2
  <2>4. written' \subseteq DOMAIN gauges'
    <3>1. CASE PublishOk(Queries[k])
      <4>1. /\ gauges' = SetGauge(gauges, Queries[k])
            /\ written' = written \cup {Series(Queries[k])}
        BY <1>2, <3>1 DEF ListAndPublish
      <4>. QED
        BY <4>1 DEF SetGauge, TypeOK
    <3>2. CASE ~PublishOk(Queries[k])
      BY <1>2, <3>2 DEF ListAndPublish, TypeOK
    <3>. QED
      BY <3>1, <3>2
  <2>. QED
    BY <1>2, <2>1, <2>2, <2>3, <2>4, <1>0 DEF ListAndPublish, TypeOK
<1>3. CASE NextRound
  BY <1>3, <1>0 DEF NextRound, TypeOK
<1>4. ASSUME NEW n \in Nodes, NodeCreated(n) \/ NodeDeleted(n) \/ ReadinessChanged(n)
      PROVE  TypeOK'
  BY <1>4 DEF NodeCreated, NodeDeleted, ReadinessChanged, TypeOK
<1>5. CASE UNCHANGED vars
  BY <1>5 DEF vars, TypeOK
<1>. QED
  BY <1>1, <1>2, <1>3, <1>4, <1>5 DEF Next

(* The counter stays within its types (TypeOK): rounds, error counts and  *)
(* gauge values in range, whatever the cluster does between list calls.  *)
THEOREM TypeCorrect == Spec => []TypeOK
BY TypeInit, TypeNext, PTL DEF Spec


-----------------------------------------------------------------------------
(* The strengthening StaleSeriesReported needs: while the round has       *)
(* collected no error, every list call it has made so far set its series. *)
WrittenSoFar ==
    errors = 0 => \A j \in 1..(k - 1) : Series(Queries[j]) \in written

SInv == TypeOK /\ WrittenSoFar

LEMMA SInvNext == SInv /\ [Next]_vars => SInv'
<1> SUFFICES ASSUME SInv, [Next]_vars PROVE SInv'
  OBVIOUS
<1>1. TypeOK'
  BY TypeNext DEF SInv
<1>2. errors \in Nat /\ k \in Nat
  BY QueriesLen DEF SInv, TypeOK
<1>3. CASE ListFails
  BY <1>1, <1>2, <1>3 DEF ListFails, SInv, WrittenSoFar
<1>4. CASE ListAndPublish /\ ~PublishOk(Queries[k])
  BY <1>1, <1>2, <1>4 DEF ListAndPublish, SInv, WrittenSoFar
<1>5. CASE ListAndPublish /\ PublishOk(Queries[k])
  <2>1. /\ written' = written \cup {Series(Queries[k])}
        /\ k' = k + 1 /\ errors' = errors
    BY <1>5 DEF ListAndPublish
  <2>2. ASSUME errors' = 0, NEW j \in 1..(k' - 1)
        PROVE  Series(Queries[j]) \in written'
    <3>1. CASE j = k
      BY <2>1, <3>1
    <3>2. CASE j # k
      BY <1>2, <2>1, <2>2, <3>2 DEF SInv, WrittenSoFar
    <3>. QED
      BY <3>1, <3>2
  <2>. QED
    BY <1>1, <2>2 DEF SInv, WrittenSoFar
<1>6. CASE NextRound
  BY <1>1, <1>6 DEF NextRound, SInv, WrittenSoFar
<1>7. ASSUME NEW n \in Nodes, NodeCreated(n) \/ NodeDeleted(n) \/ ReadinessChanged(n)
      PROVE  SInv'
  BY <1>1, <1>7 DEF NodeCreated, NodeDeleted, ReadinessChanged, SInv, WrittenSoFar
<1>8. CASE UNCHANGED vars
  BY <1>1, <1>8 DEF vars, SInv, WrittenSoFar
<1>. QED
  BY <1>3, <1>4, <1>5, <1>6, <1>7, <1>8 DEF Next

(***************************************************************************)
(* A round of publishNodeCountsForProvisioner that returns no error has   *)
(* set every gauge series it names during the round (StaleSeriesReported), *)
(* for every cluster and every list of known values: a failed list call   *)
(* or a refused publish can leave a series at an earlier round's value    *)
(* only if the combined error reports it.                                 *)
(***************************************************************************)
THEOREM StaleReported == Spec => []StaleSeriesReported
<1>1. Init => SInv
  BY TypeInit DEF Init, SInv, WrittenSoFar
<1>2. SInv => StaleSeriesReported
  BY QueriesLen DEF SInv, WrittenSoFar, TypeOK, StaleSeriesReported
<1>. QED
  BY <1>1, <1>2, SInvNext, PTL DEF Spec

-----------------------------------------------------------------------------
(* The strengthening DroppedLabelReported needs: a call of the round so  *)
(* far that could not publish has left an error.                          *)
UnpublishedCounted ==
    (\E j \in 1..(k - 1) : ~PublishOk(Queries[j])) => errors > 0

DInv == TypeOK /\ UnpublishedCounted

LEMMA DInvNext == DInv /\ [Next]_vars => DInv'
<1> SUFFICES ASSUME DInv, [Next]_vars PROVE DInv'
  OBVIOUS
<1>1. TypeOK'
  BY TypeNext DEF DInv
<1>2. errors \in Nat /\ k \in Nat
  BY QueriesLen DEF DInv, TypeOK
<1>3. CASE ListFails
  BY <1>1, <1>2, <1>3 DEF ListFails, DInv, UnpublishedCounted
<1>4. CASE ListAndPublish
  <2>1. k' = k + 1 /\ errors' \in {errors, errors + 1}
    BY <1>4 DEF ListAndPublish
  <2>2. ~PublishOk(Queries[k]) => errors' = errors + 1
    BY <1>4 DEF ListAndPublish
  <2>3. ASSUME NEW j \in 1..(k' - 1), ~PublishOk(Queries[j])
        PROVE  errors' > 0
    <3>1. CASE j = k
      BY <1>2, <2>2, <2>3, <3>1
    <3>2. CASE j # k
      BY <1>2, <2>1, <2>3, <3>2 DEF DInv, UnpublishedCounted
    <3>. QED
      BY <3>1, <3>2
  <2>. QED
    BY <1>1, <2>3 DEF DInv, UnpublishedCounted
<1>5. CASE NextRound
  BY <1>1, <1>5 DEF NextRound, DInv, UnpublishedCounted
<1>6. ASSUME NEW n \in Nodes, NodeCreated(n) \/ NodeDeleted(n) \/ ReadinessChanged(n)
      PROVE  DInv'
  BY <1>1, <1>6 DEF NodeCreated, NodeDeleted, ReadinessChanged, DInv, UnpublishedCounted
<1>7. CASE UNCHANGED vars
  BY <1>1, <1>7 DEF vars, DInv, UnpublishedCounted
<1>. QED
  BY <1>3, <1>4, <1>5, <1>6, <1>7 DEF Next

(***************************************************************************)
(* A round of publishNodeCountsForProvisioner that could not publish a    *)
(* series, because metricLabelsFrom dropped an empty label value, returns *)
(* an error (DroppedLabelReported), for every cluster and every list of   *)
(* known values the cloud provider registers.                              *)
(***************************************************************************)
THEOREM DroppedReported == Spec => []DroppedLabelReported
<1>1. Init => DInv
  BY TypeInit DEF Init, DInv, UnpublishedCounted
<1>2. DInv => DroppedLabelReported
  BY QueriesLen DEF DInv, UnpublishedCounted, TypeOK, DroppedLabelReported
<1>. QED
  BY <1>1, <1>2, DInvNext, PTL DEF Spec

=============================================================================
