------------------------------- MODULE Reads -------------------------------
(***************************************************************************)
(* The operations that only read the store, over every store the verbs     *)
(* of Records build: search and surface (core/retrieval/reads.py,          *)
(* retrieve.py), the dense arm's probe and the planning snapshot           *)
(* (core/consolidation/planning.py).  Each is one transaction on one       *)
(* snapshot, so nothing interleaves with it: `answer` holds what it is     *)
(* about to reply, and no verb runs until the reply is delivered.          *)
(***************************************************************************)
EXTENDS Retrieval, Grouping

CONSTANTS
    MutualK,    \* mutual_k
    MaxChunks   \* bound: chunks in the index

\* There are finitely many identifiers: uuid4() draws 122 bits.
ASSUME ReadsAssumption ==
    /\ {MutualK, MaxChunks} \subseteq Nat \ {0}
    /\ IsFiniteSet(Uuids)

VARIABLE answer    \* NULL, or the reply of the read being answered

readVars == <<memory, receipts, answer>>

\* An index of at least one chunk of each row, by distance.
Indexes(m) ==
    {s \in UNION {[1 .. n -> DOMAIN m] : n \in Cardinality(DOMAIN m) .. MaxChunks} :
        ToSet(s) = DOMAIN m}

\* What an arm may rank of the rows U: the dense arm as many as it can, for
\* every row has a chunk; the lexical arm those that match.
DenseRows(U) == {s \in SetToAllKPermutations(U) : Len(s) = Min({FusionDepth, Cardinality(U)})}

LexicalRows(U) == {s \in SetToAllKPermutations(U) : Len(s) <= FusionDepth}

Probes ==
    /\ answer = NULL /\ DOMAIN memory # {}
    /\ \E s \in Scopes(memory), nearest \in Indexes(memory) :
          answer' = [read |-> "probe", scope |-> s, nearest |-> nearest,
                     outcome |-> DenseArm(memory, s, nearest)]
    /\ UNCHANGED recordVars

\* search and surface: the pool, of which the caller gets the first rows.
Searches ==
    /\ answer = NULL
    /\ \E s \in Scopes(memory) :
          /\ s.consumer \in {"search", "surface"}
          /\ \E dense \in DenseRows(Eligible(memory, s)),
                lexical \in LexicalRows(Eligible(memory, s)),
                tie \in Bijection(DOMAIN memory, 1 .. Cardinality(DOMAIN memory)) :
                \E scored \in Scored(memory, <<dense, lexical>>, tie) :
                    answer' = [read |-> s.consumer, scored |-> scored,
                               pool |-> Repaired(memory, scored)]
    /\ UNCHANGED recordVars

\* The plan of a snapshot, and what it was computed from.
Plan ==
    /\ answer = NULL
    /\ \E in \in Readings(memory, MutualK) :
          answer' = [read |-> "plan", in |-> in, plan |-> PlanOf(memory, in)]
    /\ UNCHANGED recordVars

Delivered ==
    /\ answer # NULL
    /\ answer' = NULL
    /\ UNCHANGED recordVars

VerbRuns ==
    /\ answer = NULL
    /\ RecordsNext
    /\ UNCHANGED answer

ReadsInit == RecordsInit /\ answer = NULL

ReadsNext == VerbRuns \/ Probes \/ Searches \/ Plan \/ Delivered

ReadsSpec == ReadsInit /\ [][ReadsNext]_readVars

-----------------------------------------------------------------------------
(* Properties. *)

Place(s, u) == CHOOSE i \in DOMAIN s : s[i] = u

\* In the pool a read returns, a replacement that was found comes before every
\* row it replaced, and the repair moves no more than that takes: a row falls
\* behind one it outscored only while its own replacement has yet to come.
HeirsLead ==
    answer # NULL /\ answer.read \in {"search", "surface"} =>
        \A u, v \in ToSet(answer.pool) :
            LET leads(s) == Place(s, u) < Place(s, v)
                heir == memory[v].superseded_by
            IN  /\ heir = u => leads(answer.pool)
                /\ leads(answer.pool) /\ ~leads(answer.scored) /\ u # v =>
                      heir \in ToSet(answer.pool) /\ Place(answer.pool, heir) >= Place(answer.pool, u)

\* No store the verbs can build makes a read raise: whatever the arms find of
\* it, the repair emits every row, once (invariant 6, as _repair_supersession
\* relies on it).
RankingNeverStalls ==
    answer # NULL /\ answer.read \in {"search", "surface"} =>
        /\ ToSet(answer.pool) = ToSet(answer.scored)
        /\ Len(answer.pool) = Len(answer.scored)

\* What the dense arm says of its own end is true of the index: its rows are
\* the nearest eligible ones in order, depth_reached means one was cut, and
\* index_exhausted that there are no more (invariant 20).
ProbesTellTruth ==
    answer # NULL /\ answer.read = "probe" =>
        LET exact == RolledUp(answer.nearest, Eligible(memory, answer.scope))
            o == answer.outcome
        IN  /\ IsPrefix(o.rows, exact)
            /\ Len(o.rows) = Min({o.depth_reached, FusionDepth})
            /\ o.stop_reason = "depth_reached" <=> o.depth_reached = FusionDepth + 1
            /\ o.stop_reason = "depth_reached" => Len(exact) > Len(o.rows)
            /\ o.stop_reason = "index_exhausted" => o.rows = exact

\* Every plan computed is one Planning promises its readers, and a set of rows
\* says of them only what was measured: without an anchor they are each among
\* the others' nearest, pair by pair and however they are chained; with one
\* each cleared the floor with it; and only the shards of one set, one after
\* the other, share an order key (invariant 19).
PlansCohere ==
    answer # NULL /\ answer.read = "plan" =>
        LET in == answer.in
            plan == answer.plan
        IN  /\ [i \in DOMAIN plan |-> [anchor |-> plan[i].anchor, members |-> plan[i].members]]
                  \in Plans(memory)
            /\ \A i, j \in DOMAIN plan : plan[i].order_key = plan[j].order_key =>
                  /\ plan[j].anchor = plan[i].anchor /\ plan[j].index - plan[i].index = j - i
                  /\ \A u \in plan[i].members, v \in plan[j].members :
                        IF plan[i].anchor = NULL
                        THEN u = v \/ (v \in in.near[u] /\ u \in in.near[v])
                        ELSE plan[i].anchor \in in.clears[u]
=============================================================================
