----------------------- MODULE ProviderValidationProofs -----------------------
(***************************************************************************)
(* validate reports every violation and nothing else, for every set of     *)
(* inputs whose cluster identity is set.  The invariant is step-indexed:   *)
(* the errors accumulated so far are exactly those of the validators       *)
(* already run.                                                            *)
(***************************************************************************)
EXTENDS ProviderValidation, TLAPS

(* The field errors of each validator, in the order validate runs them. *)
Found(x) ==
    << InstanceProfileErrors(x), CapacityTypeErrors(x), {},
       SelectorErrors(x.subnetSelector, "subnetSelector"),
       SelectorErrors(x.securityGroupSelector, "securityGroupSelector"),
       ClusterErrors(x) >>

(* The fields a set of field errors names. *)
PathsOf(S) == { e.path[1] : e \in S }

IInv ==
    /\ c \in Inputs
    /\ step \in 1..7
    /\ \A j \in 1..6 : j < step => Found(c)[j] \subseteq errs
    /\ \A e \in errs : \E j \in 1..6 : j < step /\ e \in Found(c)[j]

LEMMA IInvInit == Init => IInv
BY DEF Init, IInv

LEMMA IInvNext == IInv /\ [Next]_vars => IInv'
<1> SUFFICES ASSUME IInv, [Next]_vars PROVE IInv'
  OBVIOUS
(* Every validator is the one of its step: it adds that step's errors. *)
<1>1. ASSUME NEW j \in 1..6, step = j, errs' = errs \cup Found(c)[j],
             step' = j + 1, UNCHANGED c
      PROVE  IInv'
  BY <1>1 DEF IInv
<1>2. CASE ValidateInstanceProfile
  BY <1>2, <1>1 DEF ValidateInstanceProfile, Validator, Steps, Found, IInv
<1>3. CASE ValidateCapacityTypes
  BY <1>3, <1>1 DEF ValidateCapacityTypes, Validator, Steps, Found, IInv
<1>4. CASE ValidateLaunchTemplate
  BY <1>4, <1>1 DEF ValidateLaunchTemplate, Validator, Steps, Found, IInv
<1>5. CASE ValidateSubnets
  BY <1>5, <1>1 DEF ValidateSubnets, Validator, Steps, Found, IInv
<1>6. CASE ValidateSecurityGroups
  BY <1>6, <1>1 DEF ValidateSecurityGroups, Validator, Steps, Found, IInv
<1>7. CASE ValidateCluster
  BY <1>7, <1>1 DEF ValidateCluster, Validator, Steps, Found, IInv
<1>8. CASE UNCHANGED vars
  BY <1>8 DEF vars, IInv
<1>. QED
  BY <1>2, <1>3, <1>4, <1>5, <1>6, <1>7, <1>8 DEF Next

-----------------------------------------------------------------------------
(* The fields each validator names: its own, exactly when it finds a fault. *)
LEMMA InstanceProfilePaths ==
    ASSUME NEW x
    PROVE  PathsOf(InstanceProfileErrors(x)) =
             IF x.instanceProfile = Empty THEN {"instanceProfile"} ELSE {}
<1>1. CASE x.instanceProfile = Empty
  <2>1. InstanceProfileErrors(x) = {Missing(<<"instanceProfile">>)}
    BY <1>1 DEF InstanceProfileErrors
  <2>. QED
    BY <1>1, <2>1 DEF PathsOf, Missing
<1>2. CASE x.instanceProfile # Empty
  BY <1>2 DEF PathsOf, InstanceProfileErrors
<1>. QED
  BY <1>1, <1>2

LEMMA CapacityTypePaths ==
    ASSUME NEW x
    PROVE  PathsOf(CapacityTypeErrors(x)) =
             IF x.capacityTypes \subseteq WellKnownCapacityTypes THEN {} ELSE {"capacityTypes"}
<1>1. CASE x.capacityTypes \subseteq WellKnownCapacityTypes
  <2>1. x.capacityTypes \ WellKnownCapacityTypes = {}
    BY <1>1
  <2>. QED
    BY <1>1, <2>1 DEF PathsOf, CapacityTypeErrors
<1>2. CASE ~(x.capacityTypes \subseteq WellKnownCapacityTypes)
  <2>1. PICK v \in x.capacityTypes : v \notin WellKnownCapacityTypes
    BY <1>2
  <2>2. \A w \in x.capacityTypes \ WellKnownCapacityTypes :
          Invalid(<<"capacityTypes", w>>).path[1] = "capacityTypes"
    BY DEF Invalid
  <2>3. Invalid(<<"capacityTypes", v>>) \in CapacityTypeErrors(x)
    BY <2>1 DEF CapacityTypeErrors
  <2>4. \A e \in CapacityTypeErrors(x) : e.path[1] = "capacityTypes"
    BY <2>2 DEF CapacityTypeErrors
  <2>5. Invalid(<<"capacityTypes", v>>).path[1] = "capacityTypes"
    BY DEF Invalid
  <2>. QED
    BY <1>2, <2>3, <2>4, <2>5 DEF PathsOf
<1>. QED
  BY <1>1, <1>2

LEMMA SelectorPaths ==
    ASSUME NEW sel, NEW f
    PROVE  PathsOf(SelectorErrors(sel, f)) = IF BadSelector(sel) THEN {f} ELSE {}
<1>1. CASE sel = Nil
  <2>1. SelectorErrors(sel, f) = {Missing(<<f>>)}
    BY <1>1 DEF SelectorErrors
  <2>. QED
    BY <1>1, <2>1 DEF PathsOf, Missing, BadSelector
<1>2. CASE sel # Nil
  <2> DEFINE Bad == { q \in sel : q[1] = Empty \/ q[2] = Empty }
  <2>1. SelectorErrors(sel, f) = { Invalid(<<f, p[1]>>) : p \in Bad }
    BY <1>2 DEF SelectorErrors
  <2>2. \A p \in Bad : Invalid(<<f, p[1]>>).path[1] = f
    BY DEF Invalid
  <2>3. BadSelector(sel) <=> Bad # {}
    BY <1>2 DEF BadSelector
  <2>. QED
    BY <2>1, <2>2, <2>3 DEF PathsOf
<1>. QED
  BY <1>1, <1>2

LEMMA ClusterPaths ==
    ASSUME NEW x
    PROVE  PathsOf(ClusterErrors(x)) =
             IF x.cluster.name = Empty \/ EndpointEmpty(x.cluster.endpoint)
                \/ ~ValidURL(x.cluster.endpoint)
             THEN {"cluster"} ELSE {}
<1> DEFINE e == x.cluster.endpoint
           N == IF x.cluster.name = Empty THEN {Missing(<<"cluster", "name">>)} ELSE {}
           P == IF EndpointEmpty(e) THEN {Missing(<<"cluster", "endpoint">>)}
                ELSE IF e.unparsable \/ e.scheme = Empty \/ e.host = Empty
                     THEN {Invalid(<<"cluster", "endpoint">>)} ELSE {}
<1>1. ClusterErrors(x) = N \cup P
  BY DEF ClusterErrors
<1>2. \A r \in N \cup P : r.path[1] = "cluster"
  BY DEF Missing, Invalid
<1>3. (N \cup P # {}) <=> (x.cluster.name = Empty \/ EndpointEmpty(e) \/ ~ValidURL(e))
  BY DEF ValidURL
<1>. QED
  BY <1>1, <1>2, <1>3 DEF PathsOf

(* The fields named by the union of some error sets. *)
LEMMA PathsOfUnion ==
    ASSUME NEW S, NEW T
    PROVE  PathsOf(S \cup T) = PathsOf(S) \cup PathsOf(T)
BY DEF PathsOf

(***************************************************************************)
(* Validation accumulates every violation and nothing else                 *)
(* (AllViolationsReported), for every set of inputs whose cluster identity *)
(* is set and in which an empty endpoint is no valid URL, as url.Parse     *)
(* makes it: once validate has run its six validators, the fields its      *)
(* errors name are exactly the fields spec 4.7 says the value violates.    *)
(***************************************************************************)
THEOREM ViolationsReported ==
    ASSUME \A x \in Inputs : ClusterSet(x),
           \A x \in Inputs : EndpointEmpty(x.cluster.endpoint) => ~ValidURL(x.cluster.endpoint)
    PROVE  Spec => []AllViolationsReported
<1>1. IInv => AllViolationsReported
  <2> SUFFICES ASSUME IInv, Steps[step] = "done"
               PROVE  PathsOf(errs) = SpecViolatedFields(c)
    BY DEF AllViolationsReported, PathsOf
  <2>1. step = 7
    BY DEF IInv, Steps
  <2>2. errs = Found(c)[1] \cup Found(c)[2] \cup Found(c)[3] \cup Found(c)[4]
                 \cup Found(c)[5] \cup Found(c)[6]
    <3>1. \A j \in 1..6 : Found(c)[j] \subseteq errs
      BY <2>1 DEF IInv
    <3>2. \A e \in errs : \E j \in 1..6 : e \in Found(c)[j]
      BY DEF IInv
    <3>. QED
      BY <3>1, <3>2
  <2>3. PathsOf(errs) =
          PathsOf(InstanceProfileErrors(c)) \cup PathsOf(CapacityTypeErrors(c))
          \cup PathsOf(SelectorErrors(c.subnetSelector, "subnetSelector"))
          \cup PathsOf(SelectorErrors(c.securityGroupSelector, "securityGroupSelector"))
          \cup PathsOf(ClusterErrors(c))
    BY <2>2, PathsOfUnion DEF Found, PathsOf
  <2>4. c \in Inputs
    BY DEF IInv
  <2>5. /\ ClusterSet(c)
        /\ EndpointEmpty(c.cluster.endpoint) => ~ValidURL(c.cluster.endpoint)
    BY <2>4
  <2>. QED
    BY <2>3, <2>5, InstanceProfilePaths, CapacityTypePaths, SelectorPaths, ClusterPaths
       DEF SpecViolatedFields
<1>. QED
  BY <1>1, IInvInit, IInvNext, PTL DEF Spec

-----------------------------------------------------------------------------
(***************************************************************************)
(* The inputs carry strings where the Go types are strings: CapacityTypes *)
(* is a []string and the selectors are map[string]string.                 *)
(***************************************************************************)
StringsTyped(x) ==
    /\ x.capacityTypes \subseteq STRING \cup {Empty}
    /\ \A sel \in {x.subnetSelector, x.securityGroupSelector} :
          sel # Nil => \A p \in sel : p[1] \in STRING \cup {Empty}

(* A path of one or two names is the path of a field error. *)
LEMMA PathIsField ==
    ASSUME NEW a \in FieldNames, NEW b \in STRING \cup {Empty, "name", "endpoint"}
    PROVE  /\ IsFieldError(Missing(<<a>>)) /\ IsFieldError(Invalid(<<a>>))
           /\ IsFieldError(Missing(<<a, b>>)) /\ IsFieldError(Invalid(<<a, b>>))
<1>1. DOMAIN <<a>> = 1..1 /\ <<a>>[1] = a
  OBVIOUS
<1>2. DOMAIN <<a, b>> = 1..2 /\ <<a, b>>[1] = a /\ <<a, b>>[2] = b
  OBVIOUS
<1>. QED
  BY <1>1, <1>2 DEF IsFieldError, Missing, Invalid

(* Every validator returns field errors only. *)
LEMMA FoundAreFieldErrors ==
    ASSUME NEW x, StringsTyped(x), NEW j \in 1..6, NEW e \in Found(x)[j]
    PROVE  IsFieldError(e)
<1>1. CASE j = 1
  <2>1. e = Missing(<<"instanceProfile">>)
    BY <1>1 DEF Found, InstanceProfileErrors
  <2>. QED
    BY <2>1, PathIsField DEF FieldNames
<1>2. CASE j = 2
  <2>1. PICK v \in x.capacityTypes : e = Invalid(<<"capacityTypes", v>>)
    BY <1>2 DEF Found, CapacityTypeErrors
  <2>2. v \in STRING \cup {Empty}
    BY DEF StringsTyped
  <2>. QED
    BY <2>1, <2>2, PathIsField DEF FieldNames
<1>3. CASE j = 3
  BY <1>3 DEF Found
<1>4. ASSUME NEW sel, NEW f \in {"subnetSelector", "securityGroupSelector"},
             sel # Nil => \A p \in sel : p[1] \in STRING \cup {Empty},
             e \in SelectorErrors(sel, f)
      PROVE  IsFieldError(e)
  <2>0. f \in FieldNames
    BY DEF FieldNames
  <2>1. CASE sel = Nil
    <3>1. e = Missing(<<f>>)
      BY <1>4, <2>1 DEF SelectorErrors
    <3>. QED
      BY <2>0, <3>1, PathIsField
  <2>2. CASE sel # Nil
    <3>1. PICK p \in sel : e = Invalid(<<f, p[1]>>)
      BY <1>4, <2>2 DEF SelectorErrors
    <3>2. p[1] \in STRING \cup {Empty}
      BY <1>4, <2>2
    <3>. QED
      BY <2>0, <3>1, <3>2, PathIsField
  <2>. QED
    BY <2>1, <2>2
<1>5. CASE j = 4
  <2>1. e \in SelectorErrors(x.subnetSelector, "subnetSelector")
    BY <1>5 DEF Found
  <2>. QED
    BY <2>1, <1>4 DEF StringsTyped
<1>6. CASE j = 5
  <2>1. e \in SelectorErrors(x.securityGroupSelector, "securityGroupSelector")
    BY <1>6 DEF Found
  <2>. QED
    BY <2>1, <1>4 DEF StringsTyped
<1>7. CASE j = 6
  <2>1. e \in {Missing(<<"cluster", "name">>), Missing(<<"cluster", "endpoint">>),
               Invalid(<<"cluster", "endpoint">>)}
    BY <1>7 DEF Found, ClusterErrors
  <2>. QED
    BY <2>1, PathIsField DEF FieldNames
<1>. QED
  BY <1>1, <1>2, <1>3, <1>5, <1>6, <1>7

(***************************************************************************)
(* validate stays within its types (TypeOK) for every set of inputs whose *)
(* strings are strings: it runs its seven steps in order, and every error *)
(* errs.Also collects is a field error whose path names a field, and a    *)
(* key or value inside it.                                                 *)
(***************************************************************************)
THEOREM TypeCorrect ==
    ASSUME \A x \in Inputs : StringsTyped(x)
    PROVE  Spec => []TypeOK
<1>1. IInv => TypeOK
  <2> SUFFICES ASSUME IInv PROVE TypeOK
    OBVIOUS
  <2>1. Len(Steps) = 7
    BY DEF Steps
  <2>2. \A e \in errs : IsFieldError(e)
    BY FoundAreFieldErrors DEF IInv
  <2>. QED
    BY <2>1, <2>2 DEF IInv, TypeOK
<1>. QED
  BY <1>1, IInvInit, IInvNext, PTL DEF Spec

=============================================================================
