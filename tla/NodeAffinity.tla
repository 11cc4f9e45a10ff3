--------------------------- MODULE NodeAffinity ---------------------------
(***************************************************************************)
(* The node-affinity requirement algebra of pkg/controllers/allocation/    *)
(* scheduling (src/unnamed/part_001, lines 97-176): a pod's node selector  *)
(* and affinity clauses become a sequence of label requirements, and the   *)
(* candidate values of one label key are narrowed by them.                 *)
(*                                                                         *)
(* A requirement is a record [key, op, values]; label values are compared  *)
(* only for equality, so they are model values.  A Go slice of values is a *)
(* set here: every consumer of the values (intersection, exclusion) is     *)
(* insensitive to their order.  Node selectors are total functions from    *)
(* label keys to values, NoValue marking an absent key.                    *)
(***************************************************************************)
EXTENDS Naturals, Sequences, FiniteSets

In == "In"
NotIn == "NotIn"

\* The elements of a sequence.
Elems(f) == { f[x] : x \in DOMAIN f }

Requirement(Keys, Vals) == [key : Keys, op : {In, NotIn}, values : SUBSET Vals]

(***************************************************************************)
(* The node-selector entries as requirements (line 126-128): one In        *)
(* requirement with a single value per selected key.  The Go loop ranges   *)
(* over a map, so its order is arbitrary; keyOrder fixes one, and nothing  *)
(* downstream depends on it.                                               *)
(***************************************************************************)
SelectorRequirements(nodeSelector, keyOrder, NoValue) ==
    LET selected == SelectSeq(keyOrder, LAMBDA k : nodeSelector[k] # NoValue)
    IN  [j \in 1..Len(selected) |->
            [key |-> selected[j], op |-> In, values |-> {nodeSelector[selected[j]]}]]

(***************************************************************************)
(* sort.Slice(preferred, weight descending), line 134.  The sort is not    *)
(* stable, so terms of equal weight come out in an unspecified order: the  *)
(* result is any permutation of the terms whose weights do not increase.   *)
(***************************************************************************)
SortedByWeight(preferred) ==
    { s \in [1..Len(preferred) -> Elems(preferred)] :
        /\ \A t \in 1..Len(preferred) :
              Cardinality({j \in 1..Len(s) : s[j] = preferred[t]})
                = Cardinality({j \in 1..Len(preferred) : preferred[j] = preferred[t]})
        /\ \A j \in 1..Len(s) - 1 : s[j].weight >= s[j + 1].weight }

(***************************************************************************)
(* NodeAffinityFor(pod), lines 122-144, for a pod whose preferred terms    *)
(* the sort has put in the order sortedPref.  Without an affinity the      *)
(* selector requirements alone are returned (the `continue`); otherwise    *)
(* the heaviest preferred term and the first required OR-term are          *)
(* appended, each only when present.                                       *)
(***************************************************************************)
NodeAffinityFor(pod, sortedPref, keyOrder, NoValue) ==
    LET selectorReqs == SelectorRequirements(pod.nodeSelector, keyOrder, NoValue)
        aff == pod.affinity
        preferredReqs == IF Len(sortedPref) > 0 THEN sortedPref[1].terms ELSE << >>
        requiredReqs == IF Len(aff.required) > 0 THEN aff.required[1] ELSE << >>
    IN  IF aff = NoValue THEN selectorReqs
        ELSE selectorReqs \o preferredReqs \o requiredReqs

(***************************************************************************)
(* GetLabels, lines 146-157: the distinct keys of the requirements.        *)
(***************************************************************************)
GetLabels(n) == { n[j].key : j \in 1..Len(n) }

(***************************************************************************)
(* GetLabelValues(label, constraints...), lines 159-176: intersect the     *)
(* external domains (IntersectStringSlice of no domain at all is empty),   *)
(* then intersect with the values of every In requirement on label (the    *)
(* first loop) and remove the values of every NotIn requirement on label   *)
(* (the second loop).  Each loop folds an intersection or a difference     *)
(* over the requirements it selects, so its result is that of the whole    *)
(* selection at once.                                                      *)
(***************************************************************************)
IntersectDomains(domains) ==
    IF Len(domains) = 0 THEN {}
    ELSE { v \in domains[1] : \A j \in 1..Len(domains) : v \in domains[j] }

InValues(n, label, from) ==
    { v \in from : \A j \in 1..Len(n) :
                      n[j].key = label /\ n[j].op = In => v \in n[j].values }

WithoutNotInValues(n, label, from) ==
    { v \in from : \A j \in 1..Len(n) :
                      n[j].key = label /\ n[j].op = NotIn => v \notin n[j].values }

GetLabelValues(n, label, domains) ==
    WithoutNotInValues(n, label, InValues(n, label, IntersectDomains(domains)))

=============================================================================
