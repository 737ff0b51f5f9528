------------------------------ MODULE Records ------------------------------
(***************************************************************************)
(* The `memory` rows, their read receipts and the primary agent's verbs:   *)
(* core/records/{memory,receipts,supersession}.py as composed by           *)
(* core/indexing/writes.py and core/write/tools.py.                        *)
(*                                                                         *)
(* Every verb runs in one BEGIN IMMEDIATE transaction, so a verb is one    *)
(* step and the steps of the sessions interleave.  A call that rolls back, *)
(* or commits audit events only (no_read_receipt), changes none of this    *)
(* state and is no step.  The version a caller presents is arbitrary: a    *)
(* wrong one is a conflict, the right one is no licence without a receipt. *)
(***************************************************************************)
EXTENDS Naturals, FiniteSets

CONSTANTS
    Uuids,        \* the row identifiers uuid4() may return
    Clients,      \* receipt scopes: (session_id, client_kind) pairs
    Primaries,    \* the scopes of the primary agents (client_kind mcp)
    NULL,         \* superseded_by when it is absent
    MaxDepth,     \* supersession_max_depth
    MaxVersion    \* bound: no row is written past this version

ASSUME UuidsAssumption == NULL \notin Uuids
ASSUME ClientsAssumption == Primaries \subseteq Clients
ASSUME DepthAssumption == MaxDepth \in Nat \ {0}
ASSUME VersionAssumption == MaxVersion \in Nat \ {0}

VARIABLES
    memory,       \* the rows of `memory`, by uuid
    receipts      \* the rows of `read_receipt`

recordVars == <<memory, receipts>>

Tiers == {"journal", "long_term"}

Row == [tier : Tiers, active : BOOLEAN, superseded_by : Uuids \cup {NULL},
        version : 1 .. MaxVersion]

Receipt == [client : Clients, uuid : Uuids, version : 1 .. MaxVersion]

Rows == DOMAIN memory

-----------------------------------------------------------------------------
(* Column writes. *)

Created(tier) ==
    [tier |-> tier, active |-> TRUE, superseded_by |-> NULL, version |-> 1]

Rewritten(row) == [row EXCEPT !.version = @ + 1]

Retirement(row, to) ==
    [row EXCEPT !.active = FALSE, !.superseded_by = to, !.version = @ + 1]

Moved(row, tier) == [row EXCEPT !.tier = tier, !.version = @ + 1]

\* The rows of m with the rows of new inserted or written over them.
Put(new, m) ==
    [u \in DOMAIN m \cup DOMAIN new |-> IF u \in DOMAIN new THEN new[u] ELSE m[u]]

Deliverable(m, u) == u \in DOMAIN m /\ m[u].tier = "journal" /\ m[u].active

Targetable(m, u) == u \in DOMAIN m /\ m[u].tier = "long_term" /\ m[u].active

RetiredOutright(m, u) == ~m[u].active /\ m[u].superseded_by = NULL

-----------------------------------------------------------------------------
(* Receipts. *)

\* The receipts c holds for the rows U of m as they stand.
Licences(c, U, m) ==
    {[client |-> c, uuid |-> u, version |-> m[u].version] : u \in U}

Holds(c, u) == [client |-> c, uuid |-> u, version |-> memory[u].version] \in receipts

\* A payload shows c the rows U: fetch, a conflict record, a served group.
Mint(c, U) ==
    /\ receipts' = receipts \cup Licences(c, U, memory)
    /\ memory' = memory

\* Mutant: the version bump revokes nothing.
Commit_NoRevoke(c, new) ==
    /\ \A u \in DOMAIN new : new[u].version <= MaxVersion
    /\ memory' = Put(new, memory)
    /\ receipts' = receipts \cup Licences(c, DOMAIN new, new)

\* c writes the rows new: each write mints the writer's own receipt at the new
\* version and revokes every other receipt for the row.
Commit(c, new) ==
    /\ \A u \in DOMAIN new : new[u].version <= MaxVersion
    /\ memory' = Put(new, memory)
    /\ receipts' = {r \in receipts : r.uuid \notin DOMAIN new}
                     \cup Licences(c, DOMAIN new, new)

-----------------------------------------------------------------------------
(* The supersession graph. *)

\* p is the walk of n hops along superseded_by that starts at u and ends at a
\* row with no successor.
IsWalkToRoot(m, u, n, p) ==
    /\ p[0] = u
    /\ \A k \in 1 .. n : p[k] = m[p[k - 1]].superseded_by
    /\ m[p[n]].superseded_by = NULL

\* The capped walk from `to` meets a row with no successor before it meets
\* `from`; a cycle and a walk that hits the cap are both refused.
WalkClears(m, from, to) ==
    \E n \in 0 .. MaxDepth - 1 : \E p \in [0 .. n -> DOMAIN m] :
        /\ IsWalkToRoot(m, to, n, p)
        /\ \A k \in 0 .. n : p[k] # from

\* Mutant: only the target is looked at, not its chain.
ValidNewEdge_NoWalk(m, from, to) == from # to /\ ~RetiredOutright(m, to)

\* Mutant: the target's state is not looked at.
ValidNewEdge_NoState(m, from, to) == from # to /\ WalkClears(m, from, to)

ValidNewEdge(m, from, to) ==
    /\ from # to
    /\ ~RetiredOutright(m, to)
    /\ WalkClears(m, from, to)

\* resolve_latest returns: the row has no successor, or its chain ends within
\* the cap.  Otherwise the call that builds u's payload raises.
Resolves(m, u) ==
    \/ m[u].superseded_by = NULL
    \/ \E n \in 0 .. MaxDepth - 1 : \E p \in [0 .. n -> DOMAIN m] :
           IsWalkToRoot(m, m[u].superseded_by, n, p)

-----------------------------------------------------------------------------
(* The primary agent's verbs. *)

Remember(c) ==
    \E u \in Uuids \ Rows : Commit(c, [x \in {u} |-> Created("journal")])

\* fetch is all or nothing: one row whose chain is too long fails the batch.
Fetch(c, U) ==
    /\ U \cap Rows # {}
    /\ \A u \in U \cap Rows : Resolves(memory, u)
    /\ Mint(c, U \cap Rows)

\* amend or retire naming a version that is not u's: the reply carries the
\* current record and leaves a receipt for it, whatever the row's state.
VersionConflict(c, u) ==
    /\ u \in Rows
    /\ Resolves(memory, u)
    /\ Mint(c, {u})

\* Mutant: a retired row may be written again.
Authorized_NoState(c, u) == u \in Rows /\ Holds(c, u)

\* Mutant: the right version is licence enough.
Authorized_NoReceipt(c, u) == u \in Rows /\ memory[u].active

\* The rungs amend and retire share, past a matching version.
Authorized(c, u) ==
    /\ u \in Rows
    /\ Holds(c, u)
    /\ memory[u].active

Amend(c, u) ==
    /\ Authorized(c, u)
    /\ Commit(c, [x \in {u} |-> Rewritten(memory[u])])

Retire(c, u, by) ==
    /\ by # NULL => by \in Rows
    /\ Authorized(c, u)
    /\ by # NULL => ValidNewEdge(memory, u, by)
    /\ Commit(c, [x \in {u} |-> Retirement(memory[u], by)])

PrimaryStep(c) ==
    \/ Remember(c)
    \/ \E U \in SUBSET Uuids : Fetch(c, U)
    \/ \E u \in Uuids : VersionConflict(c, u)
    \/ \E u \in Uuids : Amend(c, u)
    \/ \E u \in Uuids, by \in Uuids \cup {NULL} : Retire(c, u, by)

\* A store some sessions have used: journal rows, and long-term rows a promotion
\* inserted (the rows it absorbed are retired, so never written again, and are
\* left out).
InitialRow == {Created(tier) : tier \in Tiers}

RecordsInit ==
    /\ memory \in UNION {[U -> InitialRow] : U \in SUBSET Uuids}
    /\ receipts = {}

RecordsNext == \E c \in Primaries : PrimaryStep(c)

RecordsSpec == RecordsInit /\ [][RecordsNext]_recordVars

-----------------------------------------------------------------------------
(* Properties. *)

\* The shape of the two tables.
RecordsTypeOK ==
    /\ DOMAIN memory \subseteq Uuids
    /\ memory \in [DOMAIN memory -> Row]
    /\ receipts \subseteq Receipt

\* Every receipt licenses its row exactly as the row stands: no write, by
\* whichever client, leaves behind a receipt that a later coincidence of
\* versions could spend (invariant 9).
ReceiptsCurrent ==
    \A r \in receipts : r.uuid \in Rows /\ r.version = memory[r.uuid].version

\* A successor is an existing row, and only a retired row has one.
EdgesLegal ==
    \A u \in Rows : memory[u].superseded_by # NULL =>
        memory[u].superseded_by \in Rows \ {u} /\ ~memory[u].active

\* The supersession graph never closes a cycle, whoever retires what in favour
\* of what and in which order: no set of rows is closed under superseded_by
\* (invariant 6, the check in validate_new_edge).
Acyclic ==
    \A S \in (SUBSET Rows) \ {{}} : \E u \in S : memory[u].superseded_by \notin S

\* A retired row is history: no verb of any client writes it again, so an edge
\* once set is never re-pointed (invariant 6).
RetiredFrozen ==
    [][\A u \in Rows : ~memory[u].active =>
           u \in DOMAIN memory' /\ memory'[u] = memory[u]]_recordVars

\* When an edge appears its target is not a row already known to be untrue:
\* `A is replaced by B` is never false at the instant it is written.
EdgeTargetsHold ==
    [][\A u \in Rows : memory'[u].superseded_by # memory[u].superseded_by =>
           LET b == memory'[u].superseded_by
           IN  b \in DOMAIN memory' /\ (b \in Rows => ~RetiredOutright(memory, b))]_recordVars

\* The receipt table read as a licence: c has been shown u as it stands when it
\* holds a receipt at u's version.
Licensed == INSTANCE LicensedWrites WITH
    version <- [u \in Rows |-> memory[u].version],
    shown <- {p \in Clients \X Rows : Holds(p[1], p[2])}

\* No write of a row, whoever makes it, overwrites a version its writer has not
\* been shown, so no update is lost: the table implements LicensedWrites.
WritesAreLicensed == Licensed!LWSpec

\* What the documentation says of fetch: every superseded row's latest
\* replacement is found, a walk that hits the cap being a corrupt store.
LatestResolves == \A u \in Rows : Resolves(memory, u)
=============================================================================
