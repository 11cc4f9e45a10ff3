------------------------- MODULE ProviderValidation -------------------------
(***************************************************************************)
(* Constraints.Validate of the AWS provider (src/unnamed/part_001, lines   *)
(* 26-96).  validate passes the results of six field validators to one     *)
(* errs.Also, so every validator runs and every violation is reported; the *)
(* module takes the validators one step at a time, each adding its field   *)
(* errors to errs.  A field error is a record of its path below "provider" *)
(* and its kind (a missing field or an invalid value).                     *)
(*                                                                         *)
(* Strings are abstracted to what the checks tell apart: Empty is "", a    *)
(* selector is Nil or a set of key/value pairs, and an endpoint is the     *)
(* record of whether it is empty and of what url.Parse finds in it:       *)
(* whether it fails to parse, its scheme and its host.                     *)
(***************************************************************************)
EXTENDS Naturals, Sequences

CONSTANTS
    Empty,                    \* the empty string
    Nil,                      \* a nil map
    Inputs,                   \* the Constraints values Validate may be given
    WellKnownCapacityTypes    \* v1alpha4.WellKnownLabels[CapacityTypeLabel]

VARIABLES
    c,       \* the Constraints value being validated
    step,    \* the validator validate evaluates next
    errs     \* the field errors accumulated so far

vars == <<c, step, errs>>

Steps == <<"instanceProfile", "capacityTypes", "launchTemplate",
           "subnetSelector", "securityGroupSelector", "cluster", "done">>

Missing(path) == [path |-> path, kind |-> "missing"]
Invalid(path) == [path |-> path, kind |-> "invalid"]

(* len(c.Endpoint) == 0 *)
EndpointEmpty(e) == e.empty

(***************************************************************************)
(* The field validators.                                                   *)
(***************************************************************************)
(* validateInstanceProfile, lines 45-50 *)
InstanceProfileErrors(x) ==
    IF x.instanceProfile = Empty THEN {Missing(<<"instanceProfile">>)} ELSE {}

(* validateCapacityTypes, lines 41-43: ValidateWellKnown reports each value *)
(* that is not a well-known capacity type.                                  *)
CapacityTypeErrors(x) ==
    { Invalid(<<"capacityTypes", v>>) : v \in x.capacityTypes \ WellKnownCapacityTypes }

(* validateSubnets and validateSecurityGroups, lines 57-79: a nil selector  *)
(* is missing; each pair with an empty key or value is invalid.             *)
\* Mutant: the invalid pair's path names its value as well as its key.
SelectorErrorsPairPath(selector, field) ==
    (IF selector = Nil THEN {Missing(<<field>>)} ELSE {})
    \cup
    (IF selector = Nil THEN {}
     ELSE { Invalid(<<field, p[1], p[2]>>) : p \in { q \in selector : q[1] = Empty \/ q[2] = Empty } })

SelectorErrors(selector, field) ==
    (IF selector = Nil THEN {Missing(<<field>>)} ELSE {})
    \cup
    (IF selector = Nil THEN {}
     ELSE { Invalid(<<field, p[1]>>) : p \in { q \in selector : q[1] = Empty \/ q[2] = Empty } })

(* Cluster.Validate, lines 81-96, via the field "cluster". *)
ClusterErrors(x) ==
    (IF x.cluster.name = Empty THEN {Missing(<<"cluster", "name">>)} ELSE {})
    \cup
    (IF EndpointEmpty(x.cluster.endpoint)
     THEN {Missing(<<"cluster", "endpoint">>)}
     ELSE IF x.cluster.endpoint.unparsable
             \/ x.cluster.endpoint.scheme = Empty
             \/ x.cluster.endpoint.host = Empty
          THEN {Invalid(<<"cluster", "endpoint">>)}
          ELSE {})

-----------------------------------------------------------------------------
Init ==
    /\ c \in Inputs
    /\ step = 1
    /\ errs = {}

\* Mutant: validate stops at the first validator that reports an error.
ValidatorShortCircuit(name, found) ==
    /\ Steps[step] = name
    /\ errs' = IF errs = {} THEN found ELSE errs
    /\ step' = step + 1
    /\ UNCHANGED c

Validator(name, found) ==
    /\ Steps[step] = name
    /\ errs' = errs \cup found
    /\ step' = step + 1
    /\ UNCHANGED c

ValidateInstanceProfile == Validator("instanceProfile", InstanceProfileErrors(c))
ValidateCapacityTypes == Validator("capacityTypes", CapacityTypeErrors(c))
(* validateLaunchTemplate, lines 52-55: nothing to validate. *)
ValidateLaunchTemplate == Validator("launchTemplate", {})
ValidateSubnets == Validator("subnetSelector", SelectorErrors(c.subnetSelector, "subnetSelector"))
ValidateSecurityGroups ==
    Validator("securityGroupSelector",
              SelectorErrors(c.securityGroupSelector, "securityGroupSelector"))
ValidateCluster == Validator("cluster", ClusterErrors(c))

Next ==
    \/ ValidateInstanceProfile
    \/ ValidateCapacityTypes
    \/ ValidateLaunchTemplate
    \/ ValidateSubnets
    \/ ValidateSecurityGroups
    \/ ValidateCluster

Spec == Init /\ [][Next]_vars

-----------------------------------------------------------------------------
(* A field error: its path below "provider" is a field a validator      *)
(* checks, and maybe a key, a value or a cluster field inside it.         *)
FieldNames == {"instanceProfile", "capacityTypes", "subnetSelector", "securityGroupSelector", "cluster"}

IsFieldError(e) ==
    /\ e.kind \in {"missing", "invalid"}
    /\ DOMAIN e.path \in {1..1, 1..2}
    /\ e.path[1] \in FieldNames
    /\ DOMAIN e.path = 1..2 => e.path[2] \in STRING \cup {Empty, "name", "endpoint"}

TypeOK ==
    /\ c \in Inputs
    /\ step \in 1..Len(Steps)
    /\ \A e \in errs : IsFieldError(e)

(***************************************************************************)
(* The validity rule of spec 4.7: the fields a Constraints value violates. *)
(***************************************************************************)
ValidURL(e) == ~e.unparsable /\ e.scheme # Empty /\ e.host # Empty
ClusterSet(x) == ~(x.cluster.name = Empty /\ EndpointEmpty(x.cluster.endpoint))
BadSelector(sel) == sel = Nil \/ \E p \in sel : p[1] = Empty \/ p[2] = Empty

SpecViolatedFields(x) ==
    { f \in {"instanceProfile", "capacityTypes", "subnetSelector",
             "securityGroupSelector", "cluster"} :
        \/ f = "instanceProfile" /\ x.instanceProfile = Empty
        \/ f = "capacityTypes" /\ ~(x.capacityTypes \subseteq WellKnownCapacityTypes)
        \/ f = "subnetSelector" /\ BadSelector(x.subnetSelector)
        \/ f = "securityGroupSelector" /\ BadSelector(x.securityGroupSelector)
        \/ f = "cluster" /\ ClusterSet(x)
                       /\ (x.cluster.name = Empty \/ ~ValidURL(x.cluster.endpoint)) }

(***************************************************************************)
(* Validation accumulates every violation and nothing else (spec 4.7, 7a): *)
(* once validate has run all its validators, the fields its errors name    *)
(* are exactly the fields the value violates, so it is valid exactly when  *)
(* no error is reported.                                                   *)
(***************************************************************************)
AllViolationsReported ==
    Steps[step] = "done" => { e.path[1] : e \in errs } = SpecViolatedFields(c)

=============================================================================
