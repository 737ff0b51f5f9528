---------------------------- MODULE Consolidation ----------------------------
(***************************************************************************)
(* Consolidation runs, their groups and the consolidator's verbs           *)
(* (core/consolidation), over the record layer of Records and interleaved  *)
(* with its primary agents.                                                *)
(*                                                                         *)
(* A step is one BEGIN IMMEDIATE transaction.  next_group and plan_groups  *)
(* span several, so what they carry from one to the next is state: calls.  *)
(* Calls that are refused (group_expired, not_in_group, busy...) write no  *)
(* state kept here and are no step.                                        *)
(***************************************************************************)
EXTENDS Planning, Integers

CONSTANTS
    Owners,         \* workers: (session_id, pid) pairs
    ClientOf,       \* the receipt scope of each worker's (session, kind)
    Lease,          \* run_lease_seconds, in ticks
    MaxServes,      \* max_group_serves
    MaxCandidates,  \* candidates.MAX_CANDIDATES
    MaxRuns         \* bound: runs ever planned

ASSUME OwnersAssumption == ClientOf \in [Owners -> Clients \ Primaries]
ASSUME LeaseAssumption == Lease \in Nat
ASSUME ServesAssumption == MaxServes \in Nat \ {0}
ASSUME CandidatesAssumption == MaxCandidates \in Nat
ASSUME RunsAssumption == MaxRuns \in Nat

VARIABLES
    runs,    \* consolidation_run, by 1, 2, ... in creation order
    groups,  \* consolidation_group with its member and candidate rows, by
             \* <<run, position in the run's (order_key, shard_index) order>>
    calls    \* what each worker's planning call carries between transactions

groupVars == <<runs, groups, calls>>
vars == <<memory, receipts, runs, groups, calls>>

OpenStatuses == {"pending", "served"}
GroupStatuses == OpenStatuses \cup {"complete", "deferred"}
RunStatuses == {"active", "complete", "expired", "abandoned", "taken_over"}
Dispositions == {"merged", "promoted", "discarded", "vacated"}

\* An undecided member's disposition is SQL's NULL, which is none of them.
ASSUME NullAssumption == NULL \notin Dispositions

-----------------------------------------------------------------------------
(* Runs.  `remaining` is expires_at - now: negative once the lease passed. *)

Lapsed(rs, r) == rs[r].remaining < 0

EffectivelyActive(rs, r) == rs[r].status = "active" /\ ~Lapsed(rs, r)

\* close and refresh_lease update an active row and leave any other alone.
Closed(rs, r, status) ==
    [rs EXCEPT ![r].status = IF @ = "active" THEN status ELSE @]

\* Mutant: one tick too long.
Refreshed_Longer(rs, r) ==
    [rs EXCEPT ![r].remaining = IF rs[r].status = "active" THEN Lease + 1 ELSE @]

Refreshed(rs, r) ==
    [rs EXCEPT ![r].remaining = IF rs[r].status = "active" THEN Lease ELSE @]

ClosingStatus(rs, r, o) ==
    IF Lapsed(rs, r) THEN "expired"
    ELSE IF rs[r].owner = o THEN "abandoned" ELSE "taken_over"

-----------------------------------------------------------------------------
(* Groups. *)

OpenGroups(gs, r) == {g \in DOMAIN gs : g[1] = r /\ gs[g].status \in OpenStatuses}

OpenMembers(gs, g) == {u \in DOMAIN gs[g].members : gs[g].members[u] = NULL}

\* What a serve of g would deliver.
Served(gs, g) == {u \in OpenMembers(gs, g) : Deliverable(memory, u)}

\* next_candidate's order: what is served comes before what is pending.
Precedes(gs, g, h) ==
    \/ gs[g].status = "served" /\ gs[h].status = "pending"
    \/ gs[g].status = gs[h].status /\ g[2] < h[2]

Disposed(gs, g, U, disposition) ==
    [u \in DOMAIN gs[g].members |->
        IF u \in U /\ gs[g].members[u] = NULL THEN disposition ELSE gs[g].members[u]]

Revalidated(gs, g) ==
    [gs[g] EXCEPT !.members =
        Disposed(gs, g, OpenMembers(gs, g) \ Served(gs, g), "vacated")]

\* Mutant: a group out of serves is put back in the queue.
PassedOver_Reopens(gs, g) ==
    [Revalidated(gs, g) EXCEPT !.status =
        IF Served(gs, g) = {} THEN "complete" ELSE "pending"]

\* A candidate the serve loop does not deliver: completion beats deferral.
PassedOver(gs, g) ==
    [Revalidated(gs, g) EXCEPT !.status =
        IF Served(gs, g) = {} THEN "complete" ELSE "deferred"]

\* Mutant: one delivery too many.
Servable_OffByOne(gs, g) == Served(gs, g) # {} /\ gs[g].serve_count <= MaxServes

Servable(gs, g) == Served(gs, g) # {} /\ gs[g].serve_count < MaxServes

-----------------------------------------------------------------------------
(* Planning. *)

\* Mutant: a journal-only fingerprint.
Fingerprint_Journal(m) == [u \in Journal(m) |-> m[u].version]

Fingerprint(m) == [u \in {u \in DOMAIN m : m[u].active} |-> m[u].version]

Snapshots(m) == {[fingerprint |-> Fingerprint(m), plan |-> p] : p \in Plans(m)}

\* The plan the write transaction inserts: the snapshot's if no active row has
\* moved since, a fresh one otherwise.
PlansToWrite(snapshot) ==
    IF snapshot.fingerprint = Fingerprint(memory) THEN {snapshot.plan} ELSE Plans(memory)

NewRun == Cardinality(DOMAIN runs) + 1

\* Mutant: the previous run is left as it is.
RunsPlanned_LeavesActive(o, plan) ==
    Put([r \in {NewRun} |->
            [owner |-> o, remaining |-> Lease,
             status |-> IF plan = <<>> THEN "complete" ELSE "active"]], runs)

\* The store's active run is closed first; a run with no groups is complete as
\* it is planned.
RunsPlanned(o, plan) ==
    Put([r \in {NewRun} |->
            [owner |-> o, remaining |-> Lease,
             status |-> IF plan = <<>> THEN "complete" ELSE "active"]],
        [r \in DOMAIN runs |->
            IF runs[r].status = "active"
            THEN [runs[r] EXCEPT !.status = ClosingStatus(runs, r, o)] ELSE runs[r]])

GroupsPlanned(plan) ==
    Put([g \in {NewRun} \X (DOMAIN plan) |->
            [anchor |-> plan[g[2]].anchor, status |-> "pending", serve_count |-> 0,
             members |-> [u \in plan[g[2]].members |-> NULL], authorized |-> {}]],
        groups)

-----------------------------------------------------------------------------
(* Serving. *)

\* The loop of _serve_from over run r of rs and gs: it passes over every group
\* before the first servable one, and delivers that one with its anchor, if it
\* is still targetable, and some candidates; with none left the run completes.
ServeFrom(o, r, rs, gs) ==
    \/ \E g \in OpenGroups(gs, r) :
          /\ Servable(gs, g)
          /\ \A h \in OpenGroups(gs, r) \ {g} : Servable(gs, h) => Precedes(gs, g, h)
          /\ LET anchor == {gs[g].anchor} \cap LongTerm(memory)
             IN  \E candidates \in SUBSET (LongTerm(memory) \ (DOMAIN gs[g].members \cup anchor)) :
                 /\ Cardinality(candidates) <= MaxCandidates
                 /\ groups' =
                       [h \in DOMAIN gs |->
                          IF h = g
                          THEN [Revalidated(gs, g) EXCEPT !.status = "served",
                                   !.serve_count = @ + 1, !.authorized = anchor \cup candidates]
                          ELSE IF h \in OpenGroups(gs, r) /\ Precedes(gs, h, g)
                          THEN PassedOver(gs, h) ELSE gs[h]]
                 /\ runs' = Refreshed(rs, r)
                 /\ Mint(ClientOf[o], Served(gs, g) \cup anchor \cup candidates)
    \/ /\ \A g \in OpenGroups(gs, r) : ~Servable(gs, g)
       /\ groups' = [h \in DOMAIN gs |->
                       IF h \in OpenGroups(gs, r) THEN PassedOver(gs, h) ELSE gs[h]]
       /\ runs' = Closed(rs, r, "complete")
       /\ UNCHANGED recordVars

EffectiveRuns == {r \in DOMAIN runs : EffectivelyActive(runs, r)}

\* next_group's first transaction, when the worker's own run is effectively
\* active; a stranger's is Busy.
ServeExisting(o) ==
    /\ \E r \in EffectiveRuns : runs[r].owner = o /\ ServeFrom(o, r, runs, groups)
    /\ UNCHANGED calls

\* ... and when there is none: the writer is released and a plan is due.
FindNoRun(o) ==
    /\ calls[o] = NULL
    /\ EffectiveRuns = {}
    /\ NewRun <= MaxRuns
    /\ calls' = [calls EXCEPT ![o] = [verb |-> "next_group", snapshot |-> NULL]]
    /\ UNCHANGED <<recordVars, runs, groups>>

\* The plan is computed from a read snapshot, holding no lock: for the
\* next_group above, or for the plan_groups RPC, which asks nothing first.
TakeSnapshot(o) ==
    /\ calls[o] # NULL => calls[o].snapshot = NULL
    /\ NewRun <= MaxRuns
    /\ \E s \in Snapshots(memory) :
          calls' = [calls EXCEPT ![o] =
              [verb |-> IF calls[o] = NULL THEN "plan_groups" ELSE "next_group",
               snapshot |-> s]]
    /\ UNCHANGED <<recordVars, runs, groups>>

\* plan_groups' write transaction: whoever calls it wins.
WritePlan(o) ==
    /\ calls[o] # NULL /\ calls[o].snapshot # NULL
    /\ calls[o].verb = "plan_groups"
    /\ NewRun <= MaxRuns
    /\ \E plan \in PlansToWrite(calls[o].snapshot) :
          /\ runs' = RunsPlanned(o, plan)
          /\ groups' = GroupsPlanned(plan)
    /\ calls' = [calls EXCEPT ![o] = NULL]
    /\ UNCHANGED recordVars

\* Mutant: the run test of the first transaction is not repeated.
PlanThenServe_NoRecheck(o) ==
    /\ calls[o] # NULL /\ calls[o].snapshot # NULL
    /\ calls[o].verb = "next_group"
    /\ NewRun <= MaxRuns
    /\ \E plan \in PlansToWrite(calls[o].snapshot) :
          ServeFrom(o, NewRun, RunsPlanned(o, plan), GroupsPlanned(plan))
    /\ calls' = [calls EXCEPT ![o] = NULL]

\* next_group's last transaction asks for a run again: it plans only if there
\* is still none, serves its own and leaves a stranger's alone (Busy).
PlanThenServe(o) ==
    /\ calls[o] # NULL /\ calls[o].snapshot # NULL
    /\ calls[o].verb = "next_group"
    /\ \/ /\ EffectiveRuns = {}
          /\ NewRun <= MaxRuns
          /\ \E plan \in PlansToWrite(calls[o].snapshot) :
                ServeFrom(o, NewRun, RunsPlanned(o, plan), GroupsPlanned(plan))
       \/ \E r \in EffectiveRuns :
             /\ runs[r].owner = o
             /\ ServeFrom(o, r, runs, groups)
       \/ /\ \E r \in EffectiveRuns : runs[r].owner # o
          /\ UNCHANGED <<recordVars, runs, groups>>
    /\ calls' = [calls EXCEPT ![o] = NULL]

\* The call dies between its transactions: no pool connection or writer lock
\* in time, a driver failure, the service stopped.
CallFails(o) ==
    /\ calls[o] # NULL
    /\ calls' = [calls EXCEPT ![o] = NULL]
    /\ UNCHANGED <<recordVars, runs, groups>>

-----------------------------------------------------------------------------
(* The consolidator's verbs. *)

\* Mutant: the run is the caller's, whatever became of it.
GroupAuthorized_OwnerOnly(o, g, absorb) ==
    /\ runs[g[1]].owner = o
    /\ groups[g].status = "served"
    /\ absorb # {} /\ absorb \subseteq OpenMembers(groups, g)

\* Mutant: the group's status is not looked at.
GroupAuthorized_AnyStatus(o, g, absorb) ==
    /\ EffectivelyActive(runs, g[1]) /\ runs[g[1]].owner = o
    /\ absorb # {} /\ absorb \subseteq OpenMembers(groups, g)

\* The group half of the authorization ladder: the run is effectively active
\* and the caller's, the group has been served, and every absorbed row is an
\* undispositioned member.
GroupAuthorized(o, g, absorb) ==
    /\ EffectivelyActive(runs, g[1]) /\ runs[g[1]].owner = o
    /\ groups[g].status = "served"
    /\ absorb # {} /\ absorb \subseteq OpenMembers(groups, g)

\* The rungs after it, at matching versions: a receipt for every named row,
\* and every absorbed row still a deliverable member.
MayAbsorb(o, g, absorb) ==
    /\ GroupAuthorized(o, g, absorb)
    /\ \A u \in absorb : Holds(ClientOf[o], u) /\ Deliverable(memory, u)

\* Mutant: the last group does not close the run.
Settle_RunStaysOpen(g, absorb, disposition) ==
    /\ groups' = [groups EXCEPT ![g].members = Disposed(groups, g, absorb, disposition),
                                ![g].status = IF OpenMembers(groups, g) \subseteq absorb
                                              THEN "complete" ELSE @]
    /\ runs' = Refreshed(runs, g[1])
    /\ UNCHANGED calls

\* Mutant: every open member is dispositioned with the absorbed ones.
Settle_All(g, absorb, disposition) ==
    LET gs == [groups EXCEPT ![g].status = "complete",
                  ![g].members = Disposed(groups, g, OpenMembers(groups, g), disposition)]
    IN  /\ groups' = gs
        /\ runs' = IF OpenGroups(gs, g[1]) = {}
                   THEN Closed(runs, g[1], "complete") ELSE Refreshed(runs, g[1])
        /\ UNCHANGED calls

\* Disposition the absorbed members, close what that closes, refresh the lease.
Settle(g, absorb, disposition) ==
    LET gs == [groups EXCEPT ![g].members = Disposed(groups, g, absorb, disposition),
                             ![g].status = IF OpenMembers(groups, g) \subseteq absorb
                                           THEN "complete" ELSE @]
    IN  /\ groups' = gs
        /\ runs' = IF OpenGroups(gs, g[1]) = {}
                   THEN Closed(runs, g[1], "complete") ELSE Refreshed(runs, g[1])
        /\ UNCHANGED calls

\* The rows of absorb, retired in favour of `by`.
Absorbed(absorb, by) == [u \in absorb |-> Retirement(memory[u], by)]

Merge(o, g, target, absorb) ==
    /\ target \in groups[g].authorized
    /\ MayAbsorb(o, g, absorb)
    /\ Holds(ClientOf[o], target) /\ Targetable(memory, target)
    /\ Commit(ClientOf[o], Put([u \in {target} |-> Rewritten(memory[u])],
                               Absorbed(absorb, target)))
    /\ Settle(g, absorb, "merged")

\* One absorbed row whose prose is the stored prose is lifted where it stands.
PromoteInPlace(o, g, u) ==
    /\ MayAbsorb(o, g, {u})
    /\ Commit(ClientOf[o], [x \in {u} |-> Moved(memory[u], "long_term")])
    /\ Settle(g, {u}, "promoted")

PromoteNewRow(o, g, absorb) ==
    /\ MayAbsorb(o, g, absorb)
    /\ \E new \in Uuids \ Rows :
          Commit(ClientOf[o], Put([u \in {new} |-> Created("long_term")],
                                  Absorbed(absorb, new)))
    /\ Settle(g, absorb, "promoted")

Discard(o, g, absorb) ==
    /\ MayAbsorb(o, g, absorb)
    /\ Commit(ClientOf[o], Absorbed(absorb, NULL))
    /\ Settle(g, absorb, "discarded")

\* Mutant: a conflict extends the lease.
GroupConflict_Refreshes(o, g, stale) ==
    /\ GroupAuthorized(o, g, OpenMembers(groups, g))
    /\ stale # {} /\ stale \subseteq OpenMembers(groups, g)
    /\ Mint(ClientOf[o], stale)
    /\ runs' = Refreshed(runs, g[1])
    /\ UNCHANGED <<groups, calls>>

\* Any of the verbs naming `stale`, absorbed rows and at most one target, at
\* versions that are not theirs: the reply shows each of them as it stands.
GroupConflict(o, g, stale) ==
    /\ \E absorb \in SUBSET OpenMembers(groups, g), targets \in SUBSET groups[g].authorized :
          /\ GroupAuthorized(o, g, absorb)
          /\ Cardinality(targets) <= 1
          /\ absorb \cup targets \subseteq Rows
          /\ stale # {} /\ stale \subseteq absorb \cup targets
    /\ \A u \in stale : Resolves(memory, u)
    /\ Mint(ClientOf[o], stale)
    /\ UNCHANGED groupVars

-----------------------------------------------------------------------------
(* Time: every lease of an active run is one tick shorter. *)
Tick ==
    /\ \E r \in EffectiveRuns : runs' = [runs EXCEPT ![r].remaining = @ - 1]
    /\ UNCHANGED <<recordVars, groups, calls>>

PlanningStep(o) ==
    \/ ServeExisting(o)
    \/ FindNoRun(o)
    \/ TakeSnapshot(o)
    \/ WritePlan(o)
    \/ PlanThenServe(o)
    \/ CallFails(o)

VerbStep(o) ==
    \E g \in DOMAIN groups :
        \/ \E absorb \in SUBSET OpenMembers(groups, g), target \in groups[g].authorized :
               Merge(o, g, target, absorb)
        \/ \E u \in OpenMembers(groups, g) : PromoteInPlace(o, g, u)
        \/ \E absorb \in SUBSET OpenMembers(groups, g) : PromoteNewRow(o, g, absorb)
        \/ \E absorb \in SUBSET OpenMembers(groups, g) : Discard(o, g, absorb)
        \/ \E stale \in SUBSET (OpenMembers(groups, g) \cup groups[g].authorized) :
               GroupConflict(o, g, stale)

PrimaryAgentStep == RecordsNext /\ UNCHANGED groupVars

Init ==
    /\ RecordsInit
    /\ runs = <<>>
    /\ groups = <<>>
    /\ calls = [o \in Owners |-> NULL]

Next ==
    \/ PrimaryAgentStep
    \/ \E o \in Owners : PlanningStep(o) \/ VerbStep(o)
    \/ Tick

Spec == Init /\ [][Next]_vars

\* Time passes, whatever the workers do.
FairSpec == Spec /\ WF_vars(Tick)

-----------------------------------------------------------------------------
(* Properties. *)

RunIds == 1 .. MaxRuns

GroupRow == [anchor : Uuids \cup {NULL}, status : GroupStatuses,
             serve_count : 0 .. MaxServes, authorized : SUBSET Uuids,
             members : UNION {[U -> Dispositions \cup {NULL}] : U \in SUBSET Uuids}]

\* The shape of the consolidation tables.
TypeOK ==
    /\ RecordsTypeOK
    /\ DOMAIN runs \in {1 .. n : n \in 0 .. MaxRuns}
    /\ runs \in [DOMAIN runs -> [owner : Owners, status : RunStatuses, remaining : -1 .. Lease]]
    /\ DOMAIN groups \subseteq (DOMAIN runs) \X (Nat \ {0})
    /\ groups \in [DOMAIN groups -> GroupRow]
    /\ DOMAIN calls = Owners

\* However plans, takeovers, lapses and restarts interleave, the store never
\* holds two active runs, the case stored_active refuses to resolve
\* (invariant 15).
OneActiveRun ==
    \A r, q \in DOMAIN runs : runs[r].status = "active" /\ runs[q].status = "active" => r = q

\* A group is open exactly while it has a member left to decide, deferral
\* aside: none is left uncloseable by the primary agent retiring its rows, and
\* none closes over an undecided row (invariant 16).  A run in turn is active
\* only while it has an open group: it closes in the transaction that closes or
\* defers its last one (invariant 17).
OpenIffUndecided ==
    /\ \A g \in DOMAIN groups :
          /\ groups[g].status \in OpenStatuses => OpenMembers(groups, g) # {}
          /\ groups[g].status = "complete" => OpenMembers(groups, g) = {}
    /\ \A r \in DOMAIN runs :
          /\ runs[r].status = "active" => OpenGroups(groups, r) # {}
          /\ runs[r].status = "complete" => OpenGroups(groups, r) = {}

\* What next_candidate's comment calls provable: among a run's open groups the
\* served ones come first in the run's order, so serving by status first can
\* never skip a group.
ServedArePrefix ==
    \A g, h \in DOMAIN groups :
        g[1] = h[1] /\ groups[g].status = "pending" /\ groups[h].status = "served"
            => h[2] < g[2]

\* No prose is delivered more than max_group_serves times in a run, and only a
\* group that was, every time, is deferred.
ServesBounded ==
    \A g \in DOMAIN groups :
        /\ groups[g].serve_count <= MaxServes
        /\ groups[g].status = "pending" => groups[g].serve_count = 0
        /\ groups[g].status = "deferred" => groups[g].serve_count = MaxServes

\* The member table tells the truth about where each row went, whatever the
\* primary agents do afterwards: nothing dispositioned is still in the journal,
\* and a merged or discarded row is superseded or retired outright for ever.
DispositionsTrue ==
    \A g \in DOMAIN groups : \A u \in DOMAIN groups[g].members :
        LET disposition == groups[g].members[u]
        IN  /\ disposition # NULL => ~Deliverable(memory, u)
            /\ disposition = "merged" => memory[u].superseded_by # NULL
            /\ disposition = "discarded" => RetiredOutright(memory, u)

\* A row leaves the journal through consolidation only as an undecided member
\* of a group served to the worker of the effectively active run, and the same
\* transaction records what became of it: nothing is lost on the way.
NothingLost ==
    [][\A u \in Journal(memory) : u \notin Journal(memory') =>
          \/ UNCHANGED groupVars
          \/ \E g \in DOMAIN groups :
                /\ EffectivelyActive(runs, g[1])
                /\ groups[g].status = "served"
                /\ u \in OpenMembers(groups, g)
                /\ groups'[g].members[u] \in Dispositions \ {"vacated"}]_vars

\* A displaced or lapsed worker changes nothing: while a run is not effectively
\* active its groups stand still, through retries and late calls.
StaleRunsFrozen ==
    [][\A g \in DOMAIN groups :
          ~EffectivelyActive(runs, g[1]) => groups'[g] = groups[g]]_vars

\* A plan is written against the journal as it stands in that transaction, even
\* when it was computed earlier on a snapshot: it holds every journal row, no
\* other, each once, and anchors that may be merged into.
PlansAreFresh ==
    [][\A r \in DOMAIN runs' \ DOMAIN runs :
          LET new == {g \in DOMAIN groups' : g[1] = r}
              m(g) == DOMAIN groups'[g].members
          IN  /\ (UNION {m(g) : g \in new}) = Journal(memory)
              /\ \A g, h \in new : g # h => m(g) \cap m(h) = {}
              /\ \A g \in new : groups'[g].anchor \in LongTerm(memory) \cup {NULL}]_vars

\* Only the plan_groups RPC displaces a live worker; next_group, the verb a
\* model drives, never does.
OnlyPlanGroupsTakesOver ==
    [][\A r \in EffectiveRuns :
          runs'[r].status \in {"abandoned", "taken_over"} =>
              \E o \in Owners : calls[o] # NULL /\ calls'[o] = NULL /\
                                calls[o].verb = "plan_groups"]_vars

\* No worker, dead or merely stuck, locks the others out: each refresh of the
\* lease spends one of boundedly many serves or dispositions, so every run
\* stops being effectively active.
EveryRunLetsGo ==
    \A r \in RunIds : [](r \in EffectiveRuns => <>(r \notin EffectiveRuns))
=============================================================================
