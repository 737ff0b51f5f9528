------------------------------ MODULE Grouping ------------------------------
(***************************************************************************)
(* How a plan is computed (core/consolidation/grouping.py): rows that are  *)
(* close to a long-term record are anchored to it, the others are          *)
(* clustered by complete linkage over a graph of mutual neighbours, and    *)
(* every set is cut into shards and put in order.                          *)
(*                                                                         *)
(* Retrieval's part is an input: the long-term rows in the order each      *)
(* row's query ranks them, which of them clear anchor_cutoff, and which of *)
(* its mutual_k nearest journal rows clear orphan_edge_cutoff.             *)
(***************************************************************************)
EXTENDS Planning, Integers, SequencesExt

\* What a plan is computed from, over the rows m: created_at and the uuids'
\* order, the ranking and the two floors.
Readings(m, K) ==
    [created : [Journal(m) -> 1 .. 2],
     name : Bijection(Journal(m), 1 .. Cardinality(Journal(m))),
     pool : [Journal(m) -> SetToAllKPermutations(LongTerm(m))],
     clears : [Journal(m) -> SUBSET LongTerm(m)],
     near : {f \in [Journal(m) -> {S \in SUBSET Journal(m) : Cardinality(S) <= K}] :
                \A u \in Journal(m) : u \notin f[u]}]

\* journal_entries' order: (created_at, uuid).
Sooner(in, u, v) ==
    \/ in.created[u] < in.created[v]
    \/ in.created[u] = in.created[v] /\ in.name[u] < in.name[v]

InOrder(in, S) ==
    CHOOSE s \in SetToSeqs(S) : \A i, j \in DOMAIN s : i < j => Sooner(in, s[i], s[j])

-----------------------------------------------------------------------------
(* Anchors. *)

\* The best-ranked record that clears the floor, not the best-ranked one.
AnchorFor(in, u) ==
    LET close == {i \in DOMAIN in.pool[u] : in.pool[u][i] \in in.clears[u]}
    IN  IF close = {} THEN NULL ELSE in.pool[u][Min(close)]

Orphans(m, in) == {u \in Journal(m) : AnchorFor(in, u) = NULL}

AnchoredSets(m, in) ==
    {{u \in Journal(m) : AnchorFor(in, u) = a} : a \in LongTerm(m)} \ {{}}

-----------------------------------------------------------------------------
(* Clusters. *)

\* Each is among the other's nearest, at a cosine above the floor both ways.
Edge(m, in, u, v) ==
    {u, v} \subseteq Orphans(m, in) /\ v \in in.near[u] /\ u \in in.near[v]

\* The orphans a walk from u reaches: those no set of orphans can leave out that
\* has u and with each of its rows the other ends of its edges.
Component(m, in, u) ==
    LET closed(S) == \A w \in S, v \in Orphans(m, in) : Edge(m, in, w, v) => v \in S
    IN  {v \in Orphans(m, in) :
            \A S \in SUBSET Orphans(m, in) : u \in S /\ closed(S) => v \in S}

\* Mutant: a candidate needs an edge to some member.
Grown_SingleLinkage(m, in, candidates) ==
    CHOOSE S \in SUBSET ToSet(candidates) :
        \A i \in DOMAIN candidates : candidates[i] \in S <=>
            i = 1 \/ \E j \in 1 .. i - 1 :
                        candidates[j] \in S /\ Edge(m, in, candidates[j], candidates[i])

\* The subgroup its first candidate seeds: each candidate in turn joins if it
\* has an edge to every member so far.
Grown(m, in, candidates) ==
    CHOOSE S \in SUBSET ToSet(candidates) :
        \A i \in DOMAIN candidates : candidates[i] \in S <=>
            \A j \in 1 .. i - 1 :
                candidates[j] \in S => Edge(m, in, candidates[j], candidates[i])

\* What each pass cuts from the rows the passes before it have left.
CohesiveSubgroups(m, in, component) ==
    LET passes == 0 .. Cardinality(component)
        left[k \in passes] ==
            IF k = 0 THEN component
            ELSE left[k - 1] \ Grown(m, in, InOrder(in, left[k - 1]))
    IN  {Grown(m, in, InOrder(in, left[k])) : k \in passes} \ {{}}

-----------------------------------------------------------------------------
(* The plan. *)

\* The sets that are sharded, each with its anchor or none.
PreShard(m, in) ==
    {[anchor |-> AnchorFor(in, CHOOSE u \in S : TRUE), members |-> S] :
        S \in AnchoredSets(m, in) \cup
              UNION {CohesiveSubgroups(m, in, Component(m, in, u)) : u \in Orphans(m, in)}}

\* The earliest created_at of the set, and its least uuid, whoever's they are.
OrderKey(in, S) ==
    <<Min({in.created[u] : u \in S}), Min({in.name[u] : u \in S})>>

Shards(in, group) ==
    LET members == InOrder(in, group.members)
        total == (Len(members) + GroupMax - 1) \div GroupMax
    IN  {[anchor |-> group.anchor, order_key |-> OrderKey(in, group.members),
          index |-> i, of |-> total,
          members |-> ToSet(SubSeq(members, (i - 1) * GroupMax + 1, Min({i * GroupMax, Len(members)})))] :
            i \in 1 .. total}

GroupPrecedes(g, h) ==
    LET key(x) == <<x.order_key[1], x.order_key[2], x.index>>
        differs == {i \in 1 .. 3 : key(g)[i] # key(h)[i]}
    IN  differs # {} /\ key(g)[Min(differs)] < key(h)[Min(differs)]

PlanOf(m, in) ==
    LET shards == UNION {Shards(in, group) : group \in PreShard(m, in)}
    IN  CHOOSE s \in SetToSeqs(shards) : \A i, j \in DOMAIN s : i < j => GroupPrecedes(s[i], s[j])
=============================================================================
