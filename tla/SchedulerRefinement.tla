------------------------- MODULE SchedulerRefinement -------------------------
(***************************************************************************)
(* Scheduler implements Grouping.  A call of Solve runs in one goroutine   *)
(* without waiting on another (lines 250-376): every stage either returns *)
(* or moves on, and each external call (the constrain hook, Inject, the   *)
(* daemon-set List) returns a result or an error.  So the call is weakly  *)
(* fair: a step that stays possible is taken.                              *)
(*                                                                         *)
(* The refinement mapping: the next pod is the loop index; a group is a   *)
(* schedule with its pods and daemons, under its hash key; a pod's class  *)
(* is the history of its effective constraints; the outcome is "failed"   *)
(* once a stage has failed, "returned" once solve has returned its        *)
(* schedules.  The stages before the loop, the in-place sort, the        *)
(* hostname strip and the metric are stutters of Grouping.                *)
(***************************************************************************)
EXTENDS Scheduler

FairSpec == Spec /\ WF_vars(Next)

(* The keys a schedule may have: constraints with their slices as sets. *)
GroupKeys == ConstraintsType

G == INSTANCE Grouping WITH
        Keys <- GroupKeys,
        Fits <- DaemonWillSchedule,
        next <- i,
        groups <- [key \in DOMAIN schedules |->
                     [pods |-> schedules[key].pods, daemons |-> schedules[key].daemons]],
        class <- grouped,
        outcome <- IF err # "none" THEN "failed"
                   ELSE IF pc \in {"record", "done"} THEN "returned"
                   ELSE "running"

(***************************************************************************)
(* Every behaviour of a fair Solve call is a behaviour of Grouping: pods   *)
(* are taken in order, a pod joins exactly the schedule of its own         *)
(* effective constraints (compared as sets), a schedule's daemons are      *)
(* fixed by its key when it opens, and the call ends by returning or       *)
(* failing.                                                                *)
(***************************************************************************)
GroupingRefined == G!Spec

=============================================================================
