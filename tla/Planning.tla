------------------------------ MODULE Planning ------------------------------
(***************************************************************************)
(* What a consolidation plan is, for the modules that write one            *)
(* (Consolidation) and the one that computes it (Grouping): the journal's  *)
(* deliverable rows dealt into groups, each with an anchor or none         *)
(* (core/consolidation/grouping.py, groups.py).                            *)
(***************************************************************************)
EXTENDS Records

CONSTANT GroupMax    \* group_max

ASSUME GroupAssumption == GroupMax \in Nat \ {0}

Journal(m) == {u \in DOMAIN m : Deliverable(m, u)}

LongTerm(m) == {u \in DOMAIN m : Targetable(m, u)}

\* The groups f deals the journal into, each with the anchor a gives it.
Dealt(m, a, f) ==
    [i \in DOMAIN a |-> [anchor |-> a[i], members |-> {u \in Journal(m) : f[u] = i}]]

\* Groups with the same anchor are shards of one set, all full but the last.
WellSharded(plan) ==
    \A i \in DOMAIN plan :
        LET size == Cardinality(plan[i].members)
        IN  /\ size \in 1 .. GroupMax
            /\ (\E j \in DOMAIN plan : j > i /\ plan[j].anchor = plan[i].anchor
                                             /\ plan[j].anchor # NULL)
                   => size = GroupMax

\* What grouping.plan may return: the journal cut into groups in some order,
\* each with a targetable anchor or none.
Plans(m) ==
    {plan \in UNION {{Dealt(m, a, f) : a \in [1 .. k -> LongTerm(m) \cup {NULL}],
                                       f \in [Journal(m) -> 1 .. k]} :
                        k \in 0 .. Cardinality(Journal(m))} :
        WellSharded(plan)}
=============================================================================
