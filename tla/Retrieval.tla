----------------------------- MODULE Retrieval -----------------------------
(***************************************************************************)
(* Hybrid retrieval over the `memory` rows (core/retrieval): which rows a  *)
(* read may see, how the dense arm probes a chunk index for whole rows,    *)
(* how the two arms are fused and penalised, and how the fused order is    *)
(* repaired so that a replacement comes before what it replaced.           *)
(*                                                                         *)
(* What the indexes answer is an input: the order of the chunks by         *)
(* distance, the rows a text match ranks.  Scores are exact fractions over *)
(* a common denominator.                                                   *)
(***************************************************************************)
EXTENDS Records, Integers, SequencesExt

CONSTANTS
    FusionDepth,    \* fusion_depth
    Overfetch,      \* chunk_overfetch
    MaxDoublings,   \* arms.MAX_DOUBLINGS
    RrfK,           \* rrf_k
    Penalty         \* supersession_penalty and retired_penalty, in tenths

ASSUME RetrievalAssumption ==
    /\ {FusionDepth, Overfetch, RrfK} \subseteq Nat \ {0}
    /\ MaxDoublings \in Nat
    /\ Penalty \in [{"superseded", "retired"} -> 1 .. 10]

-----------------------------------------------------------------------------
(* Eligibility. *)

Consumers == {"surface", "search", "dedup", "consolidation", "orphan"}

\* Who asks, whether it widens to retired rows (search alone may) and the row
\* it leaves out (dedup and orphan leave out their own).
Scopes(m) ==
    {s \in [consumer : Consumers, include_retired : BOOLEAN, exclude : DOMAIN m \cup {NULL}] :
        /\ s.include_retired => s.consumer = "search"
        /\ (s.exclude # NULL) <=> s.consumer \in {"dedup", "orphan"}}

Eligible(m, s) ==
    {u \in DOMAIN m :
        /\ s.include_retired \/ ~RetiredOutright(m, u)
        /\ s.consumer = "dedup" => m[u].active
        /\ s.consumer = "consolidation" => Targetable(m, u)
        /\ s.consumer = "orphan" => Deliverable(m, u)
        /\ u # s.exclude}

-----------------------------------------------------------------------------
(* The dense arm. *)

\* The first chunk of each row of E, in order: the filter, and the roll-up of
\* chunks to the least distance of each row.
RolledUp(chunks, E) ==
    LET first == {i \in DOMAIN chunks :
                    chunks[i] \in E /\ \A j \in 1 .. i - 1 : chunks[j] # chunks[i]}
    IN  [k \in 1 .. Cardinality(first) |->
            chunks[CHOOSE i \in first : Cardinality({j \in first : j <= i}) = k]]

Cut(s, n) == SubSeq(s, 1, Min({n, Len(s)}))

ProbeTarget == FusionDepth + 1

\* The k nearest chunks, filtered and rolled up to at most ProbeTarget rows.
\* `nearest` is the owner of every chunk of the index, nearest first.
Probe(m, s, nearest, k) ==
    Cut(RolledUp(Cut(nearest, k), Eligible(m, s)), ProbeTarget)

Asked(doublings) == FusionDepth * Overfetch * 2 ^ doublings

\* Mutant: running out of doublings is taken for having read every chunk.
Classified_CapIsCoverage(surplus, covered) ==
    IF surplus THEN "depth_reached" ELSE "index_exhausted"

Classified(surplus, covered) ==
    IF surplus THEN "depth_reached" ELSE IF covered THEN "index_exhausted" ELSE "probe_cap_hit"

\* The depth asked for doubles until a row is left over, every chunk has been
\* read, or MaxDoublings are spent.
DenseArm(m, s, nearest) ==
    LET rows(d) == Probe(m, s, nearest, Asked(d))
        surplus(d) == Len(rows(d)) >= ProbeTarget
        covered(d) == Asked(d) >= Len(nearest)
        last == Min({d \in 0 .. MaxDoublings : surplus(d) \/ covered(d) \/ d = MaxDoublings})
    IN  [rows |-> Cut(rows(last), FusionDepth),
         depth_reached |-> Len(rows(last)),
         stop_reason |-> Classified(surplus(last), covered(last))]

-----------------------------------------------------------------------------
(* Fusion. *)

PenaltyOf(row) ==
    IF row.active THEN 10
    ELSE Penalty[IF row.superseded_by # NULL THEN "superseded" ELSE "retired"]

\* The places of u in an arm's list: one or none.
Ranks(arm, u) == {i \in DOMAIN arm : arm[i] = u}

\* 1 / (RrfK + rank), over the product of those denominators.
Share(rank) == ProductSet({RrfK + i : i \in 1 .. FusionDepth}) \div (RrfK + rank)

Score(m, arms, u) ==
    PenaltyOf(m[u]) * MapThenSumSet(LAMBDA a : MapThenSumSet(Share, Ranks(arms[a], u)),
                                    DOMAIN arms)

BestRank(arms, u) == Min(UNION {Ranks(arms[a], u) : a \in DOMAIN arms})

\* The order key: score, best rank, long-term before journal, and then the
\* newest journal row or the least uuid, which `tie` stands for.
Ahead(m, arms, tie, u, v) ==
    LET key(x) == <<-Score(m, arms, x), BestRank(arms, x),
                    IF m[x].tier = "long_term" THEN 0 ELSE 1, tie[x]>>
        differs == Min({i \in 1 .. 4 : key(u)[i] # key(v)[i]})
    IN  u # v /\ key(u)[differs] < key(v)[differs]

\* The pool, sorted by that key.
Scored(m, arms, tie) ==
    {s \in SetToSeqs(UNION {ToSet(arms[a]) : a \in DOMAIN arms}) :
        \A i, j \in DOMAIN s : i < j => Ahead(m, arms, tie, s[i], s[j])}

\* Mutant: every row is emitted where its score put it.
MayBeEmitted_Always(m, waiting, u) == TRUE

\* u's replacement is not in the pool, or has been emitted.
MayBeEmitted(m, waiting, u) == m[u].superseded_by \notin ToSet(waiting)

\* The first row that may be emitted is, until none is left; with rows left and
\* none emittable the read raises: then what this returns is short of them.
Repaired(m, scored) ==
    LET emit[w \in Seq(DOMAIN m)] ==
            LET ready == {i \in DOMAIN w : MayBeEmitted(m, w, w[i])}
            IN  IF ready = {} THEN <<>>
                ELSE <<w[Min(ready)]>> \o emit[RemoveAt(w, Min(ready))]
    IN  emit[scored]
=============================================================================
