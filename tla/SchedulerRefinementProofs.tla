---------------------- MODULE SchedulerRefinementProofs ----------------------
(***************************************************************************)
(* Scheduler implements the safety part of Grouping, for every value of    *)
(* the constants: the refinement mapping of SchedulerRefinement takes the  *)
(* initial state to Grouping's, and every step of Solve to a step of       *)
(* Grouping or to a stutter.  Weak fairness, and with it the termination   *)
(* of the pass, is left to TLC.                                            *)
(***************************************************************************)
EXTENDS SchedulerRefinement, SchedulerGroupingProofs

(* Before a stage has failed, the call has no error. *)
StageInv == pc \in {"constrain", "relax", "inject", "group"} => err = "none"

Inv == TypeOK /\ StageInv

(* A schedule map seen as Grouping's groups: its pods and daemons by key. *)
Bar(s) == [key \in DOMAIN s |-> [pods |-> s[key].pods, daemons |-> s[key].daemons]]

LEMMA InvInit == Init => Inv
BY InitTypeOK DEF Init, Inv, StageInv

LEMMA InvNext == Inv /\ [Next]_vars => Inv'
<1> SUFFICES ASSUME Inv, [Next]_vars PROVE Inv'
  OBVIOUS
<1>1. TypeOK'
  BY NextTypeOK DEF Inv
<1>2. StageInv'
  BY DEF Inv, StageInv, Next, vars, ConstrainOk, ConstrainFails, Relax, InjectOk,
         InjectFails, GroupInvalid, GroupPlaced, GroupListFails, GroupValid,
         GroupDone, Record, RecordFails
<1>. QED
  BY <1>1, <1>2 DEF Inv

-----------------------------------------------------------------------------
(* Appending pod i under a key is Grouping's Place on the seen groups. *)
LEMMA BarAppendPod ==
    ASSUME TypeOK, NEW key, NEW nc
    PROVE  Bar(AppendPod(schedules, key, nc)) =
             [g \in DOMAIN Bar(schedules) \cup {key} |->
                IF g # key THEN Bar(schedules)[g]
                ELSE IF key \in DOMAIN Bar(schedules)
                     THEN [Bar(schedules)[key] EXCEPT !.pods = Append(@, i)]
                     ELSE [pods |-> <<i>>, daemons |-> GetDaemons(nc)]]
<1>1. CASE key \in DOMAIN schedules
  <2>1. AppendPod(schedules, key, nc) = [schedules EXCEPT ![key].pods = Append(@, i)]
    BY <1>1 DEF AppendPod
  <2>2. schedules[key] \in ScheduleType
    BY <1>1 DEF TypeOK
  <2>3. [schedules EXCEPT ![key].pods = Append(@, i)][key]
          = [pods |-> Append(schedules[key].pods, i), daemons |-> schedules[key].daemons,
             constraints |-> schedules[key].constraints]
    BY <1>1, <2>2 DEF ScheduleType
  <2>4. DOMAIN Bar(schedules) \cup {key} = DOMAIN schedules
    BY <1>1 DEF Bar
  <2>5. Bar(AppendPod(schedules, key, nc))[key]
          = [pods |-> Append(schedules[key].pods, i), daemons |-> schedules[key].daemons]
    BY <1>1, <2>1, <2>3 DEF Bar
  <2>6. [Bar(schedules)[key] EXCEPT !.pods = Append(@, i)]
          = [pods |-> Append(schedules[key].pods, i), daemons |-> schedules[key].daemons]
    <3>1. Bar(schedules)[key] = [pods |-> schedules[key].pods, daemons |-> schedules[key].daemons]
      BY <1>1 DEF Bar
    <3>. QED
      BY <3>1
  <2>7. \A g \in DOMAIN schedules \ {key} : Bar(AppendPod(schedules, key, nc))[g] = Bar(schedules)[g]
    BY <2>1 DEF Bar
  <2>8. DOMAIN Bar(AppendPod(schedules, key, nc)) = DOMAIN schedules
    BY <2>1 DEF Bar
  <2>. QED
    BY <1>1, <2>4, <2>5, <2>6, <2>7, <2>8 DEF Bar
<1>2. CASE key \notin DOMAIN schedules
  BY <1>2 DEF Bar, AppendPod
<1>. QED
  BY <1>1, <1>2

(* Stripping the hostname label leaves every schedule's pods and daemons. *)
LEMMA BarStripHostname ==
    ASSUME NEW s
    PROVE  Bar(StripHostname(s)) = Bar(s)
BY DEF Bar, StripHostname

-----------------------------------------------------------------------------
(* Abbreviations for the images of the refinement mapping. *)
OutcomeBar == IF err # "none" THEN "failed"
              ELSE IF pc \in {"record", "done"} THEN "returned"
              ELSE "running"

(* The initial state of Solve maps to the initial state of Grouping. *)
LEMMA InitMaps == Init => G!Init
BY DEF Init, G!Init

(* Every step of Solve maps to a step of Grouping or to a stutter. *)
LEMMA StepMaps == Inv /\ [Next]_vars => [G!Next]_G!vars
<1> SUFFICES ASSUME Inv, [Next]_vars PROVE [G!Next]_G!vars
  OBVIOUS
<1>0. /\ pods \in Seq(PodType)
      /\ Len(pods) = NumPods
  BY PodsLen DEF Inv, TypeOK
<1>a. pc \in {"constrain", "relax", "inject", "group"} => OutcomeBar = "running"
  BY DEF Inv, StageInv, OutcomeBar
(* A step that touches none of the mapped state is a stutter. *)
<1>s. ASSUME UNCHANGED <<i, schedules, grouped, err>>,
             pc \in {"record", "done"} <=> pc' \in {"record", "done"}
      PROVE  UNCHANGED G!vars
  <2>1. Bar(schedules') = Bar(schedules) /\ OutcomeBar' = OutcomeBar
    BY <1>s DEF Bar, OutcomeBar
  <2>. QED
    BY <1>s, <2>1 DEF G!vars, Bar, OutcomeBar
(* A stage that fails maps to Fail. *)
<1>f. ASSUME pc \in {"constrain", "inject", "group"}, err' # "none",
             UNCHANGED <<i, schedules, grouped>>
      PROVE  G!Fail
  BY <1>f, <1>a DEF G!Fail, OutcomeBar
<1>1. CASE ConstrainOk
  BY <1>1, <1>s DEF ConstrainOk
<1>2. CASE ConstrainFails
  BY <1>2, <1>f DEF ConstrainFails, G!Next
<1>3. CASE Relax
  BY <1>3, <1>s DEF Relax
<1>4. CASE InjectOk
  BY <1>4, <1>s DEF InjectOk
<1>5. CASE InjectFails
  BY <1>5, <1>f DEF InjectFails, G!Next
<1>6. CASE GroupInvalid
  <2>1. G!Drop
    BY <1>6, <1>0, <1>a DEF GroupInvalid, G!Drop, OutcomeBar
  <2>. QED
    BY <2>1 DEF G!Next
<1>7. CASE GroupPlaced
  <2>0. PICK sp \in SortedPrefs(pods[i]) :
          \E zs \in Orderings(EffectiveZones(constraints, pods[i], sp)) :
          /\ schedules' = AppendPod(schedules, Key(NewConstraints(constraints, pods[i], zs)),
                                    NewConstraints(constraints, pods[i], zs))
          /\ grouped' = [p \in DOMAIN grouped \cup {i} |->
                           IF p = i THEN EffectiveConstraints(constraints, pods[i], sp)
                           ELSE grouped[p]]
          /\ i' = i + 1
          /\ UNCHANGED <<pc, err>>
    BY <1>7 DEF GroupPlaced, GroupValid
  <2>1. PICK zs \in Orderings(EffectiveZones(constraints, pods[i], sp)) :
          /\ schedules' = AppendPod(schedules, Key(NewConstraints(constraints, pods[i], zs)),
                                    NewConstraints(constraints, pods[i], zs))
          /\ grouped' = [p \in DOMAIN grouped \cup {i} |->
                           IF p = i THEN EffectiveConstraints(constraints, pods[i], sp)
                           ELSE grouped[p]]
          /\ i' = i + 1
          /\ UNCHANGED <<pc, err>>
    BY <2>0
  <2> DEFINE nc == NewConstraints(constraints, pods[i], zs)
  <2>2. pc = "group" /\ i <= NumPods
    BY <1>7, <1>0 DEF GroupPlaced, GroupValid
  <2>3. pods[i] \in PodType /\ constraints \in ConstraintsType
    BY <2>2 DEF Inv, TypeOK
  <2>4. /\ Key(nc) = EffectiveConstraints(constraints, pods[i], sp)
        /\ Key(nc) \in GroupKeys
    BY <2>3, KeyOfNewConstraints DEF GroupKeys
  <2>5. Bar(schedules') =
          [g \in DOMAIN Bar(schedules) \cup {Key(nc)} |->
             IF g # Key(nc) THEN Bar(schedules)[g]
             ELSE IF Key(nc) \in DOMAIN Bar(schedules)
                  THEN [Bar(schedules)[Key(nc)] EXCEPT !.pods = Append(@, i)]
                  ELSE [pods |-> <<i>>, daemons |->
                          {d \in DaemonSets : DaemonWillSchedule(Key(nc), d)}]]
    <3>1. Bar(AppendPod(schedules, Key(nc), nc)) =
            [g \in DOMAIN Bar(schedules) \cup {Key(nc)} |->
               IF g # Key(nc) THEN Bar(schedules)[g]
               ELSE IF Key(nc) \in DOMAIN Bar(schedules)
                    THEN [Bar(schedules)[Key(nc)] EXCEPT !.pods = Append(@, i)]
                    ELSE [pods |-> <<i>>, daemons |-> GetDaemons(nc)]]
      BY BarAppendPod DEF Inv
    <3>2. GetDaemons(nc) = {d \in DaemonSets : DaemonWillSchedule(Key(nc), d)}
      BY DaemonsOfKey
    <3>. QED
      BY <2>1, <3>1, <3>2
  <2>6. OutcomeBar = "running" /\ OutcomeBar' = "running"
    BY <2>1, <2>2, <1>a DEF OutcomeBar
  <2>7. ASSUME NEW k \in GroupKeys, k = Key(nc) PROVE G!Place(k)
    BY <2>1, <2>2, <2>4, <2>5, <2>6, <2>7 DEF G!Place, Bar, OutcomeBar
  <2>8. \E k \in GroupKeys : G!Place(k)
    BY <2>7, <2>4
  <2>. QED
    BY <2>8 DEF G!Next
<1>8. CASE GroupListFails
  <2>1. pc = "group" /\ err' = "daemons" /\ UNCHANGED <<i, schedules, grouped>>
    BY <1>8 DEF GroupListFails, GroupValid
  <2>. QED
    BY <2>1, <1>f DEF G!Next
<1>9. CASE GroupDone
  <2>1. pc = "group" /\ i > NumPods /\ schedules' = StripHostname(schedules)
        /\ UNCHANGED <<i, err, grouped>> /\ pc' = "record"
    BY <1>9, <1>0 DEF GroupDone
  <2>2. Bar(schedules') = Bar(schedules)
    BY <2>1, BarStripHostname
  <2>3. G!Return
    BY <2>1, <2>2, <1>a DEF G!Return, Bar, OutcomeBar
  <2>. QED
    BY <2>3 DEF G!Next
<1>10. CASE Record \/ RecordFails
  BY <1>10, <1>s DEF Record, RecordFails
<1>11. CASE UNCHANGED vars
  BY <1>11, <1>s DEF vars
<1>. QED
  BY <1>1, <1>2, <1>3, <1>4, <1>5, <1>6, <1>7, <1>8, <1>9, <1>10, <1>11 DEF Next

(***************************************************************************)
(* Solve implements the safety part of Grouping for every value of the     *)
(* constants: each run of the call is, under the refinement mapping, a run *)
(* that takes the pods in order and drops, places or fails them as the     *)
(* abstract pass does (the safety part of GroupingRefined).                *)
(***************************************************************************)
THEOREM RefinesGrouping == Spec => G!SafeSpec
<1>1. Spec => []Inv
  BY InvInit, InvNext, PTL DEF Spec
<1>. QED
  BY <1>1, InitMaps, StepMaps, PTL DEF Spec, G!SafeSpec

=============================================================================
