------------------------- MODULE ConsolidationProofs -------------------------
(***************************************************************************)
(* Proofs about consolidation running beside the primary agents, for any   *)
(* number of rows, sessions, workers and runs.  A worker's step does one   *)
(* of the three things RecordsProofs reasons about: it shows its client    *)
(* rows, writes rows it may write, or leaves the record layer alone; so    *)
(* what that module proves of the primary agents holds of the whole store. *)
(* What a serve, a plan and a verb do to the two tables is stated for any  *)
(* contents rs, gs of them: next_group plans and serves in one             *)
(* transaction, so a serve may start from tables that no state holds.      *)
(***************************************************************************)
EXTENDS Consolidation, RecordsProofs, FiniteSetTheorems

\* A worker's client is a client.
LEMMA WorkersAreClients == \A o \in Owners : ClientOf[o] \in Clients
  BY OwnersAssumption

LEMMA ServeShowsOrRests ==
    ASSUME NEW o \in Owners, NEW r, NEW rs, NEW gs, ServeFrom(o, r, rs, gs)
    PROVE  Shows(ClientOf[o]) \/ UNCHANGED recordVars
<1>1. ASSUME NEW g, NEW candidates \in SUBSET LongTerm(memory),
             Mint(ClientOf[o], Served(gs, g) \cup ({gs[g].anchor} \cap LongTerm(memory))
                                  \cup candidates)
      PROVE  Shows(ClientOf[o])
  <2>1. Served(gs, g) \subseteq Rows
    BY DEF Served, Deliverable, Rows
  <2>2. LongTerm(memory) \subseteq Rows
    BY DEF LongTerm, Rows
  <2> QED BY <1>1, <2>1, <2>2 DEF Shows
<1> QED BY <1>1 DEF ServeFrom

LEMMA PlanningShowsOrRests ==
    ASSUME NEW o \in Owners, PlanningStep(o)
    PROVE  Shows(ClientOf[o]) \/ UNCHANGED recordVars
<1>1. CASE ServeExisting(o)
  BY <1>1, ServeShowsOrRests DEF ServeExisting
<1>2. CASE PlanThenServe(o)
  BY <1>2, ServeShowsOrRests DEF PlanThenServe, recordVars
<1>3. CASE FindNoRun(o) \/ TakeSnapshot(o) \/ WritePlan(o) \/ CallFails(o)
  BY <1>3 DEF FindNoRun, TakeSnapshot, WritePlan, CallFails, recordVars
<1> QED BY <1>1, <1>2, <1>3 DEF PlanningStep

\* The rows a verb absorbs are rows it may retire.
LEMMA AbsorbedIsLegal ==
    ASSUME RecordsInv, NEW o \in Owners, NEW g, NEW absorb, NEW by \in Uuids \cup {NULL},
           MayAbsorb(o, g, absorb), by \notin absorb,
           NEW new, absorb \subseteq DOMAIN new,
           \A u \in absorb : new[u] = Retirement(memory[u], by),
           by # NULL => by \in DOMAIN new /\ (by \in Rows => memory[by].active)
    PROVE  \A u \in absorb : LegalRow(ClientOf[o], u, new) /\ LegalEdge(u, new)
<1> SUFFICES ASSUME NEW u \in absorb
             PROVE  LegalRow(ClientOf[o], u, new) /\ LegalEdge(u, new)
  OBVIOUS
<1>1. u \in Rows /\ memory[u] \in Row /\ memory[u].active /\ Holds(ClientOf[o], u)
  BY DEF MayAbsorb, Deliverable, RecordsInv, RecordsTypeOK, Rows
<1>2. u \in Uuids
  BY <1>1 DEF RecordsInv, RecordsTypeOK, Rows
<1>3. new[u] = [tier |-> memory[u].tier, active |-> FALSE, superseded_by |-> by,
                version |-> memory[u].version + 1]
  BY <1>1 DEF Retirement, Row
<1>4. LegalRow(ClientOf[o], u, new)
  BY <1>1, <1>2, <1>3 DEF LegalRow, Row
<1>5. LegalEdge(u, new)
  BY <1>3 DEF LegalEdge, RetiredOutright
<1> QED BY <1>4, <1>5

LEMMA VerbShowsOrWrites ==
    ASSUME RecordsInv, NEW o \in Owners, VerbStep(o)
    PROVE  Shows(ClientOf[o]) \/ Writes(ClientOf[o])
<1> DEFINE c == ClientOf[o]
<1>1. ASSUME NEW g, NEW absorb, NEW target, Merge(o, g, target, absorb)
      PROVE  Writes(c)
  <2> DEFINE new == Put([u \in {target} |-> Rewritten(memory[u])], Absorbed(absorb, target))
  <2>1. /\ target \in Rows /\ memory[target] \in Row /\ memory[target].active
        /\ memory[target].tier = "long_term" /\ Holds(c, target)
    BY <1>1 DEF Merge, Targetable, RecordsInv, RecordsTypeOK, Rows
  <2>2. target \in Uuids /\ target \notin absorb /\ memory[target].superseded_by = NULL
    BY <1>1, <2>1 DEF Merge, MayAbsorb, Deliverable, RecordsInv, RecordsTypeOK, EdgesLegal, Rows
  <2>3. /\ DOMAIN new = absorb \cup {target}
        /\ \A u \in absorb : new[u] = Retirement(memory[u], target)
        /\ new[target] = Rewritten(memory[target])
        /\ new = [u \in DOMAIN new |-> new[u]]
    BY <2>2 DEF Put, Absorbed
  <2>4. Commit(c, new)
    BY <1>1 DEF Merge
  <2> HIDE DEF new
  <2>5. LegalRow(c, target, new) /\ LegalEdge(target, new)
    BY <2>1, <2>2, <2>3 DEF LegalRow, LegalEdge, Rewritten, Row
  <2>6. \A u \in absorb : LegalRow(c, u, new) /\ LegalEdge(u, new)
    BY <1>1, <2>1, <2>2, <2>3, AbsorbedIsLegal DEF Merge
  <2> QED BY <2>3, <2>4, <2>5, <2>6 DEF Writes
<1>2. ASSUME NEW g, NEW u, PromoteInPlace(o, g, u)
      PROVE  Writes(c)
  <2> DEFINE new == [x \in {u} |-> Moved(memory[u], "long_term")]
  <2>1. u \in Rows /\ memory[u] \in Row /\ memory[u].active /\ Holds(c, u)
    BY <1>2 DEF PromoteInPlace, MayAbsorb, Deliverable, RecordsInv, RecordsTypeOK, Rows
  <2>2. u \in Uuids /\ memory[u].superseded_by = NULL
    BY <2>1 DEF RecordsInv, RecordsTypeOK, EdgesLegal, Rows
  <2>3. LegalRow(c, u, new) /\ LegalEdge(u, new)
    BY <2>1, <2>2 DEF LegalRow, LegalEdge, Moved, Row, Tiers
  <2> QED BY <1>2, <2>3 DEF PromoteInPlace, Writes
<1>3. ASSUME NEW g, NEW absorb, PromoteNewRow(o, g, absorb)
      PROVE  Writes(c)
  <2>1. PICK fresh \in Uuids \ Rows :
            Commit(c, Put([u \in {fresh} |-> Created("long_term")], Absorbed(absorb, fresh)))
    BY <1>3 DEF PromoteNewRow
  <2> DEFINE new == Put([u \in {fresh} |-> Created("long_term")], Absorbed(absorb, fresh))
  <2>2. fresh \notin absorb
    BY <1>3, <2>1 DEF PromoteNewRow, MayAbsorb, Deliverable, Rows
  <2>3. /\ DOMAIN new = absorb \cup {fresh}
        /\ \A u \in absorb : new[u] = Retirement(memory[u], fresh)
        /\ new[fresh] = Created("long_term")
        /\ new = [u \in DOMAIN new |-> new[u]]
    BY <2>2 DEF Put, Absorbed
  <2> HIDE DEF new
  <2>4. LegalRow(c, fresh, new) /\ LegalEdge(fresh, new)
    BY <2>1, <2>3 DEF LegalRow, LegalEdge, Created, Tiers
  <2>5. \A u \in absorb : LegalRow(c, u, new) /\ LegalEdge(u, new)
    BY <1>3, <2>1, <2>2, <2>3, AbsorbedIsLegal DEF PromoteNewRow
  <2>6. Commit(c, new)
    BY <2>1 DEF new
  <2> QED BY <2>3, <2>4, <2>5, <2>6 DEF Writes
<1>4. ASSUME NEW g, NEW absorb, Discard(o, g, absorb)
      PROVE  Writes(c)
  <2> DEFINE new == Absorbed(absorb, NULL)
  <2>1. /\ DOMAIN new = absorb
        /\ \A u \in absorb : new[u] = Retirement(memory[u], NULL)
        /\ new = [u \in DOMAIN new |-> new[u]]
    BY DEF Absorbed
  <2>2. NULL \notin absorb
    BY <1>4, UuidsAssumption
       DEF Discard, MayAbsorb, Deliverable, RecordsInv, RecordsTypeOK
  <2>3. Commit(c, new)
    BY <1>4 DEF Discard
  <2> HIDE DEF new
  <2>4. \A u \in absorb : LegalRow(c, u, new) /\ LegalEdge(u, new)
    BY <1>4, <2>1, <2>2, AbsorbedIsLegal DEF Discard
  <2> QED BY <2>1, <2>3, <2>4 DEF Writes
<1>5. ASSUME NEW g, NEW stale, GroupConflict(o, g, stale)
      PROVE  Shows(c)
  BY <1>5 DEF GroupConflict, Shows
<1> QED BY <1>1, <1>2, <1>3, <1>4, <1>5 DEF VerbStep

\* What a step of the whole store does to its records.
LEMMA StepShowsWritesOrRests ==
    ASSUME RecordsInv, [Next]_vars
    PROVE  \/ UNCHANGED recordVars
           \/ \E c \in Clients : Shows(c) \/ Writes(c)
<1>1. CASE PrimaryAgentStep
  BY <1>1, PrimaryShowsOrWrites, ClientsAssumption DEF PrimaryAgentStep, RecordsNext
<1>2. ASSUME NEW o \in Owners, PlanningStep(o)
      PROVE  Shows(ClientOf[o]) \/ UNCHANGED recordVars
  BY <1>2, PlanningShowsOrRests
<1>3. ASSUME NEW o \in Owners, VerbStep(o)
      PROVE  Shows(ClientOf[o]) \/ Writes(ClientOf[o])
  BY <1>3, VerbShowsOrWrites
<1>4. CASE Tick \/ UNCHANGED vars
  BY <1>4 DEF Tick, vars, recordVars
<1> QED BY <1>1, <1>2, <1>3, <1>4, WorkersAreClients DEF Next

-----------------------------------------------------------------------------

\* The records' inductive invariant is one of the whole store's.
THEOREM StoreInv == Spec => []RecordsInv
<1>1. RecordsInv /\ [Next]_vars => RecordsInv'
  <2>1. RecordsInv /\ UNCHANGED recordVars => RecordsInv'
    BY DEF RecordsInv, RecordsTypeOK, ReceiptsCurrent, EdgesLegal, Rows, recordVars
  <2> QED BY <2>1, StepShowsWritesOrRests, ShowsKeepsInv, WritesKeepsInv
<1> QED BY InitialInv, <1>1, PTL DEF Spec, Init

\* No verb of any agent, the consolidators' included, writes a retired row
\* again (the `active` rungs of _authorize_mutation and is_deliverable_member).
THEOREM StoreKeepsHistory == Spec => RetiredFrozen
<1> DEFINE Frozen == \A u \in Rows : ~memory[u].active =>
                        u \in DOMAIN memory' /\ memory'[u] = memory[u]
<1>1. RecordsInv /\ [Next]_vars => [Frozen]_recordVars
  BY StepShowsWritesOrRests, WritesSparesTheRetired
<1> QED BY StoreInv, <1>1, PTL DEF Spec, RetiredFrozen

\* Merges, promotions and discards are licensed writes too: the whole store
\* implements LicensedWrites, so neither agent loses the other's update.
THEOREM StoreImplementsLicensedWrites == Spec => WritesAreLicensed
<1>1. RecordsInv /\ [Next]_vars => [Licensed!LWNext]_(Licensed!lwVars)
  <2>1. UNCHANGED recordVars => UNCHANGED Licensed!lwVars
    BY DEF recordVars, Licensed!lwVars, Rows, Holds
  <2> QED BY <2>1, StepShowsWritesOrRests, ShowOrWriteIsLicensed
<1> QED BY InitialIsLicensed, StoreInv, <1>1, PTL
        DEF Spec, Init, WritesAreLicensed, Licensed!LWSpec

-----------------------------------------------------------------------------
(* The rows of the two tables. *)

RunRow == [owner : Owners, status : RunStatuses, remaining : -1 .. Lease]

\* A group that is open has a member to decide, a complete one has none, and
\* the serves are counted.
GroupOK(row) ==
    /\ row \in GroupRow
    /\ row.status \in OpenStatuses => \E u \in DOMAIN row.members : row.members[u] = NULL
    /\ row.status = "complete" => \A u \in DOMAIN row.members : row.members[u] # NULL
    /\ row.status = "pending" => row.serve_count = 0
    /\ row.status = "deferred" => row.serve_count = MaxServes

\* What may become of a group: members are decided, once each, and nobody is
\* added or taken out.
Revised(old, new) ==
    /\ new.anchor = old.anchor
    /\ DOMAIN new.members = DOMAIN old.members
    /\ \A u \in DOMAIN old.members :
          old.members[u] # NULL => new.members[u] = old.members[u]

LEMMA MembersAre ==
    ASSUME NEW f
    PROVE  f \in UNION {[U -> Dispositions \cup {NULL}] : U \in SUBSET Uuids}
              <=> /\ f = [u \in DOMAIN f |-> f[u]]
                  /\ DOMAIN f \subseteq Uuids
                  /\ \A u \in DOMAIN f : f[u] \in Dispositions \cup {NULL}
<1>1. ASSUME f = [u \in DOMAIN f |-> f[u]], DOMAIN f \subseteq Uuids,
             \A u \in DOMAIN f : f[u] \in Dispositions \cup {NULL}
      PROVE  f \in UNION {[U -> Dispositions \cup {NULL}] : U \in SUBSET Uuids}
  <2>1. f \in [DOMAIN f -> Dispositions \cup {NULL}]
    BY <1>1
  <2> QED BY <1>1, <2>1
<1> QED BY <1>1

\* A group's columns.
LEMMA GroupColumns ==
    ASSUME NEW row \in GroupRow
    PROVE  /\ row = [anchor |-> row.anchor, status |-> row.status,
                     serve_count |-> row.serve_count, authorized |-> row.authorized,
                     members |-> row.members]
           /\ row.anchor \in Uuids \cup {NULL}
           /\ row.status \in GroupStatuses
           /\ row.serve_count \in 0 .. MaxServes
           /\ row.authorized \subseteq Uuids
           /\ row.members = [u \in DOMAIN row.members |-> row.members[u]]
           /\ DOMAIN row.members \subseteq Uuids
           /\ \A u \in DOMAIN row.members : row.members[u] \in Dispositions \cup {NULL}
<1>1. row.members \in UNION {[U -> Dispositions \cup {NULL}] : U \in SUBSET Uuids}
  BY DEF GroupRow
<1> QED BY <1>1, MembersAre DEF GroupRow

\* ... and a group written column by column.
LEMMA GroupWritten ==
    ASSUME NEW row \in GroupRow, NEW status \in GroupStatuses,
           NEW count \in 0 .. MaxServes, NEW authorized \in SUBSET Uuids,
           NEW f, f = [u \in DOMAIN row.members |-> f[u]],
           \A u \in DOMAIN row.members : f[u] \in Dispositions \cup {NULL}
    PROVE  [anchor |-> row.anchor, status |-> status, serve_count |-> count,
            authorized |-> authorized, members |-> f] \in GroupRow
<1>1. DOMAIN f = DOMAIN row.members
  OBVIOUS
<1>2. f \in UNION {[U -> Dispositions \cup {NULL}] : U \in SUBSET Uuids}
  BY <1>1, GroupColumns, MembersAre
<1> QED BY <1>2, GroupColumns DEF GroupRow

\* The dispositions a step writes.
LEMMA DisposedIs ==
    ASSUME NEW gs, NEW g, gs[g] \in GroupRow, NEW U, NEW d \in Dispositions
    PROVE  LET f == Disposed(gs, g, U, d)
           IN  /\ f = [u \in DOMAIN gs[g].members |-> f[u]]
               /\ DOMAIN f = DOMAIN gs[g].members
               /\ \A u \in DOMAIN gs[g].members :
                     /\ f[u] \in Dispositions \cup {NULL}
                     /\ gs[g].members[u] # NULL => f[u] = gs[g].members[u]
                     /\ gs[g].members[u] = NULL /\ u \in U => f[u] = d
                     /\ gs[g].members[u] = NULL /\ u \notin U => f[u] = NULL
  BY GroupColumns DEF Disposed

\* A group the serve loop does not deliver is left closed: complete, or out of
\* serves.
LEMMA PassedOverIs ==
    ASSUME NEW gs, NEW g, GroupOK(gs[g]), gs[g].status \in OpenStatuses, ~Servable(gs, g)
    PROVE  /\ GroupOK(PassedOver(gs, g))
           /\ PassedOver(gs, g).status \in {"complete", "deferred"}
           /\ Revised(gs[g], PassedOver(gs, g))
           /\ \A u \in DOMAIN gs[g].members :
                 PassedOver(gs, g).members[u] # gs[g].members[u] =>
                    /\ PassedOver(gs, g).members[u] = "vacated"
                    /\ ~Deliverable(memory, u)
<1> DEFINE f == Disposed(gs, g, OpenMembers(gs, g) \ Served(gs, g), "vacated")
<1>1. gs[g] \in GroupRow
  BY DEF GroupOK
<1>c. /\ gs[g] = [anchor |-> gs[g].anchor, status |-> gs[g].status,
                  serve_count |-> gs[g].serve_count, authorized |-> gs[g].authorized,
                  members |-> gs[g].members]
      /\ gs[g].serve_count \in 0 .. MaxServes
      /\ gs[g].authorized \in SUBSET Uuids
  BY <1>1, GroupColumns
<1>2. /\ f = [u \in DOMAIN gs[g].members |-> f[u]]
      /\ DOMAIN f = DOMAIN gs[g].members
      /\ \A u \in DOMAIN gs[g].members :
            /\ f[u] \in Dispositions \cup {NULL}
            /\ gs[g].members[u] # NULL => f[u] = gs[g].members[u]
            /\ gs[g].members[u] = NULL /\ u \in OpenMembers(gs, g) \ Served(gs, g)
                  => f[u] = "vacated"
            /\ gs[g].members[u] = NULL /\ u \notin OpenMembers(gs, g) \ Served(gs, g)
                  => f[u] = NULL
  BY <1>1, DisposedIs DEF Dispositions
<1>3. Revalidated(gs, g) =
          [anchor |-> gs[g].anchor, status |-> gs[g].status,
           serve_count |-> gs[g].serve_count, authorized |-> gs[g].authorized,
           members |-> f]
  BY <1>c DEF Revalidated
<1> HIDE DEF f
<1>4. PICK status \in {"complete", "deferred"} :
          /\ status = "complete" <=> Served(gs, g) = {}
          /\ PassedOver(gs, g) =
                [anchor |-> gs[g].anchor, status |-> status,
                 serve_count |-> gs[g].serve_count, authorized |-> gs[g].authorized,
                 members |-> f]
  BY <1>3 DEF PassedOver
<1>5. PassedOver(gs, g) \in GroupRow
  <2>1. status \in GroupStatuses
    BY DEF GroupStatuses
  <2>2. [anchor |-> gs[g].anchor, status |-> status, serve_count |-> gs[g].serve_count,
         authorized |-> gs[g].authorized, members |-> f] \in GroupRow
    BY <1>1, <1>2, <1>c, <2>1, GroupWritten
  <2> QED BY <1>4, <2>2
<1>6. status = "complete" => \A u \in DOMAIN f : f[u] # NULL
  BY <1>2, <1>4, NullAssumption DEF OpenMembers, Dispositions
<1>7. status = "deferred" => gs[g].serve_count = MaxServes
  <2>1. status = "deferred" => ~(gs[g].serve_count < MaxServes)
    BY <1>4 DEF Servable
  <2> QED BY <1>c, <2>1, ServesAssumption
<1>8. GroupOK(PassedOver(gs, g))
  BY <1>4, <1>5, <1>6, <1>7 DEF GroupOK, OpenStatuses
<1>9. \A u \in DOMAIN gs[g].members : f[u] # gs[g].members[u] =>
          f[u] = "vacated" /\ ~Deliverable(memory, u)
  BY <1>1, <1>2, GroupColumns DEF OpenMembers, Served
<1> QED BY <1>2, <1>4, <1>8, <1>9 DEF Revised

Delivered(gs, g, authorized) ==
    [Revalidated(gs, g) EXCEPT !.status = "served",
        !.serve_count = @ + 1, !.authorized = authorized]

\* A group that is delivered is open with one more serve.
LEMMA DeliveredIs ==
    ASSUME NEW gs, NEW g, GroupOK(gs[g]), Servable(gs, g), NEW authorized \in SUBSET Uuids
    PROVE  /\ GroupOK(Delivered(gs, g, authorized))
           /\ Delivered(gs, g, authorized).status = "served"
           /\ Revised(gs[g], Delivered(gs, g, authorized))
           /\ \A u \in DOMAIN gs[g].members :
                 Delivered(gs, g, authorized).members[u] # gs[g].members[u] =>
                    /\ Delivered(gs, g, authorized).members[u] = "vacated"
                    /\ ~Deliverable(memory, u)
<1> DEFINE f == Disposed(gs, g, OpenMembers(gs, g) \ Served(gs, g), "vacated")
<1>1. gs[g] \in GroupRow
  BY DEF GroupOK
<1>c. /\ gs[g] = [anchor |-> gs[g].anchor, status |-> gs[g].status,
                  serve_count |-> gs[g].serve_count, authorized |-> gs[g].authorized,
                  members |-> gs[g].members]
      /\ gs[g].serve_count \in 0 .. MaxServes
      /\ gs[g].authorized \in SUBSET Uuids
  BY <1>1, GroupColumns
<1>2. /\ f = [u \in DOMAIN gs[g].members |-> f[u]]
      /\ DOMAIN f = DOMAIN gs[g].members
      /\ \A u \in DOMAIN gs[g].members :
            /\ f[u] \in Dispositions \cup {NULL}
            /\ gs[g].members[u] # NULL => f[u] = gs[g].members[u]
            /\ gs[g].members[u] = NULL /\ u \in OpenMembers(gs, g) \ Served(gs, g)
                  => f[u] = "vacated"
            /\ gs[g].members[u] = NULL /\ u \notin OpenMembers(gs, g) \ Served(gs, g)
                  => f[u] = NULL
  BY <1>1, DisposedIs DEF Dispositions
<1>3. Delivered(gs, g, authorized) =
          [anchor |-> gs[g].anchor, status |-> "served",
           serve_count |-> gs[g].serve_count + 1, authorized |-> authorized,
           members |-> f]
  <2>1. Revalidated(gs, g) =
            [anchor |-> gs[g].anchor, status |-> gs[g].status,
             serve_count |-> gs[g].serve_count, authorized |-> gs[g].authorized,
             members |-> f]
    BY <1>c DEF Revalidated
  <2> HIDE DEF f
  <2> DEFINE row == Revalidated(gs, g)
  <2>2. row = [anchor |-> row.anchor, status |-> row.status,
               serve_count |-> row.serve_count, authorized |-> row.authorized,
               members |-> row.members]
    BY <2>1
  <2>3. /\ row.anchor = gs[g].anchor
        /\ row.serve_count = gs[g].serve_count
        /\ row.members = f
    BY <2>1
  <2>4. Delivered(gs, g, authorized) =
            [row EXCEPT !.status = "served", !.serve_count = row.serve_count + 1,
                        !.authorized = authorized]
    BY DEF Delivered
  <2> HIDE DEF row
  <2>5. Delivered(gs, g, authorized) =
            [anchor |-> row.anchor, status |-> "served",
             serve_count |-> row.serve_count + 1, authorized |-> authorized,
             members |-> row.members]
    BY <2>2, <2>4
  <2> QED BY <2>3, <2>5
<1> HIDE DEF f
<1>4. gs[g].serve_count + 1 \in 0 .. MaxServes
  <2>1. gs[g].serve_count < MaxServes
    BY DEF Servable
  <2> QED BY <1>c, <2>1, ServesAssumption
<1>5. Delivered(gs, g, authorized) \in GroupRow
  <2>1. "served" \in GroupStatuses
    BY DEF GroupStatuses, OpenStatuses
  <2>2. \A count \in 0 .. MaxServes :
            [anchor |-> gs[g].anchor, status |-> "served", serve_count |-> count,
             authorized |-> authorized, members |-> f] \in GroupRow
    BY <1>1, <1>2, <2>1, GroupWritten
  <2> QED BY <1>3, <1>4, <2>2
<1>6. \E u \in DOMAIN f : f[u] = NULL
  BY <1>2 DEF Servable, Served, OpenMembers
<1>7. GroupOK(Delivered(gs, g, authorized))
  BY <1>3, <1>5, <1>6 DEF GroupOK
<1>8. \A u \in DOMAIN gs[g].members : f[u] # gs[g].members[u] =>
          f[u] = "vacated" /\ ~Deliverable(memory, u)
  BY <1>1, <1>2, GroupColumns DEF OpenMembers, Served
<1> QED BY <1>2, <1>3, <1>7, <1>8 DEF Revised

\* A group after a disposition.
SettledGroup(gs, g, absorb, d) ==
    [gs[g] EXCEPT !.members = Disposed(gs, g, absorb, d),
                  !.status = IF OpenMembers(gs, g) \subseteq absorb THEN "complete" ELSE @]

LEMMA SettledIs ==
    ASSUME NEW gs, NEW g, GroupOK(gs[g]), gs[g].status = "served",
           NEW absorb, NEW d \in Dispositions
    PROVE  /\ GroupOK(SettledGroup(gs, g, absorb, d))
           /\ SettledGroup(gs, g, absorb, d).status \in {"served", "complete"}
           /\ Revised(gs[g], SettledGroup(gs, g, absorb, d))
           /\ \A u \in DOMAIN gs[g].members :
                 /\ gs[g].members[u] = NULL /\ u \in absorb
                       => SettledGroup(gs, g, absorb, d).members[u] = d
                 /\ u \notin absorb
                       => SettledGroup(gs, g, absorb, d).members[u] = gs[g].members[u]
<1> DEFINE f == Disposed(gs, g, absorb, d)
<1>1. gs[g] \in GroupRow
  BY DEF GroupOK
<1>c. /\ gs[g] = [anchor |-> gs[g].anchor, status |-> gs[g].status,
                  serve_count |-> gs[g].serve_count, authorized |-> gs[g].authorized,
                  members |-> gs[g].members]
      /\ gs[g].serve_count \in 0 .. MaxServes
      /\ gs[g].authorized \in SUBSET Uuids
  BY <1>1, GroupColumns
<1>2. /\ f = [u \in DOMAIN gs[g].members |-> f[u]]
      /\ DOMAIN f = DOMAIN gs[g].members
      /\ \A u \in DOMAIN gs[g].members :
            /\ f[u] \in Dispositions \cup {NULL}
            /\ gs[g].members[u] # NULL => f[u] = gs[g].members[u]
            /\ gs[g].members[u] = NULL /\ u \in absorb => f[u] = d
            /\ gs[g].members[u] = NULL /\ u \notin absorb => f[u] = NULL
  BY <1>1, DisposedIs
<1> HIDE DEF f
<1>3. PICK status \in {"served", "complete"} :
          /\ status = "complete" <=> OpenMembers(gs, g) \subseteq absorb
          /\ SettledGroup(gs, g, absorb, d) =
                [anchor |-> gs[g].anchor, status |-> status,
                 serve_count |-> gs[g].serve_count, authorized |-> gs[g].authorized,
                 members |-> f]
  <2>1. SettledGroup(gs, g, absorb, d) =
            [gs[g] EXCEPT !.members = f,
                !.status = IF OpenMembers(gs, g) \subseteq absorb THEN "complete" ELSE @]
    BY DEF SettledGroup, f
  <2>2. CASE OpenMembers(gs, g) \subseteq absorb
    BY <1>c, <2>1, <2>2
  <2>3. CASE ~(OpenMembers(gs, g) \subseteq absorb)
    BY <1>c, <2>1, <2>3
  <2> QED BY <2>2, <2>3
<1>4. SettledGroup(gs, g, absorb, d) \in GroupRow
  <2>1. status \in GroupStatuses
    BY DEF GroupStatuses, OpenStatuses
  <2>2. [anchor |-> gs[g].anchor, status |-> status, serve_count |-> gs[g].serve_count,
         authorized |-> gs[g].authorized, members |-> f] \in GroupRow
    BY <1>1, <1>2, <1>c, <2>1, GroupWritten
  <2> QED BY <1>3, <2>2
<1>5. status = "complete" => \A u \in DOMAIN f : f[u] # NULL
  BY <1>2, <1>3, NullAssumption DEF OpenMembers
<1>6. status = "served" => \E u \in DOMAIN f : f[u] = NULL
  BY <1>2, <1>3 DEF OpenMembers
<1>7. GroupOK(SettledGroup(gs, g, absorb, d))
  BY <1>3, <1>4, <1>5, <1>6 DEF GroupOK, OpenStatuses
<1> QED BY <1>2, <1>3, <1>7 DEF Revised

-----------------------------------------------------------------------------
(* The tables. *)

\* Runs are numbered as they are planned and at most one of them is active.
RunsOK(rs) ==
    /\ \E n \in 0 .. MaxRuns : DOMAIN rs = 1 .. n
    /\ rs \in [DOMAIN rs -> RunRow]
    /\ \A r, q \in DOMAIN rs : rs[r].status = "active" /\ rs[q].status = "active" => r = q

\* Every group is one of a run; of a run's open groups the served come first.
GroupsOK(rs, gs) ==
    /\ DOMAIN gs \subseteq (DOMAIN rs) \X (Nat \ {0})
    /\ gs = [g \in DOMAIN gs |-> gs[g]]
    /\ \A g \in DOMAIN gs : GroupOK(gs[g])
    /\ \A g, h \in DOMAIN gs :
          g[1] = h[1] /\ gs[g].status = "pending" /\ gs[h].status = "served" => h[2] < g[2]

\* A run is active only while it has an open group, and complete only without.
Matching(rs, gs) ==
    \A r \in DOMAIN rs :
        /\ rs[r].status = "active" => OpenGroups(gs, r) # {}
        /\ rs[r].status = "complete" => OpenGroups(gs, r) = {}

Tables(rs, gs) == RunsOK(rs) /\ GroupsOK(rs, gs) /\ Matching(rs, gs)

LEMMA RunColumns ==
    ASSUME NEW row \in RunRow, NEW status \in RunStatuses, NEW remaining \in -1 .. Lease
    PROVE  /\ [row EXCEPT !.status = status] \in RunRow
           /\ [row EXCEPT !.status = status].status = status
           /\ [row EXCEPT !.remaining = remaining] \in RunRow
           /\ [row EXCEPT !.remaining = remaining].status = row.status
  BY DEF RunRow

\* A lease refreshed or run down leaves every status as it is.
LEMMA LeaseMoves ==
    ASSUME NEW rs, RunsOK(rs), NEW r \in DOMAIN rs, NEW remaining \in -1 .. Lease
    PROVE  LET new == [rs EXCEPT ![r].remaining = remaining]
           IN  /\ RunsOK(new)
               /\ DOMAIN new = DOMAIN rs
               /\ \A q \in DOMAIN rs : new[q].status = rs[q].status
<1> DEFINE new == [rs EXCEPT ![r].remaining = remaining]
<1>1. rs \in [DOMAIN rs -> RunRow] /\ rs[r] \in RunRow
  BY DEF RunsOK
<1>2. new = [rs EXCEPT ![r] = [rs[r] EXCEPT !.remaining = remaining]]
  BY <1>1
<1>3. [rs[r] EXCEPT !.remaining = remaining] \in RunRow
      /\ [rs[r] EXCEPT !.remaining = remaining].status = rs[r].status
  BY <1>1, RunColumns DEF RunStatuses
<1> HIDE DEF new
<1>4. /\ DOMAIN new = DOMAIN rs
      /\ new \in [DOMAIN rs -> RunRow]
      /\ \A q \in DOMAIN rs : new[q].status = rs[q].status
  BY <1>1, <1>2, <1>3
<1>5. RunsOK(new)
  BY <1>4 DEF RunsOK
<1> QED BY <1>4, <1>5 DEF new

LEMMA RefreshedIs ==
    ASSUME NEW rs, RunsOK(rs), NEW r \in DOMAIN rs
    PROVE  /\ RunsOK(Refreshed(rs, r))
           /\ DOMAIN Refreshed(rs, r) = DOMAIN rs
           /\ \A q \in DOMAIN rs : Refreshed(rs, r)[q].status = rs[q].status
<1>1. rs[r].remaining \in -1 .. Lease /\ Lease \in -1 .. Lease
  BY LeaseAssumption DEF RunsOK, RunRow
<1>2. PICK remaining \in -1 .. Lease :
          Refreshed(rs, r) = [rs EXCEPT ![r].remaining = remaining]
  BY <1>1 DEF Refreshed
<1> DEFINE new == [rs EXCEPT ![r].remaining = remaining]
<1>3. /\ RunsOK(new)
      /\ DOMAIN new = DOMAIN rs
      /\ \A q \in DOMAIN rs : new[q].status = rs[q].status
  BY LeaseMoves
<1>4. Refreshed(rs, r) = new
  BY <1>2
<1> HIDE DEF new
<1> QED BY <1>3, <1>4

\* Closing changes the one run, and only if it was active.
LEMMA ClosedIs ==
    ASSUME NEW rs, RunsOK(rs), NEW r \in DOMAIN rs
    PROVE  /\ RunsOK(Closed(rs, r, "complete"))
           /\ DOMAIN Closed(rs, r, "complete") = DOMAIN rs
           /\ \A q \in DOMAIN rs \ {r} : Closed(rs, r, "complete")[q] = rs[q]
           /\ Closed(rs, r, "complete")[r].status =
                 IF rs[r].status = "active" THEN "complete" ELSE rs[r].status
<1>1. rs \in [DOMAIN rs -> RunRow] /\ rs[r] \in RunRow
  BY DEF RunsOK
<1>2. rs[r].status \in RunStatuses /\ "complete" \in RunStatuses
  BY <1>1 DEF RunRow, RunStatuses
<1>3. PICK status \in RunStatuses :
          /\ status = IF rs[r].status = "active" THEN "complete" ELSE rs[r].status
          /\ Closed(rs, r, "complete") = [rs EXCEPT ![r].status = status]
  BY <1>2 DEF Closed
<1> DEFINE new == Closed(rs, r, "complete")
<1>4. new = [rs EXCEPT ![r] = [rs[r] EXCEPT !.status = status]]
  BY <1>1, <1>3
<1>5. [rs[r] EXCEPT !.status = status] \in RunRow
      /\ [rs[r] EXCEPT !.status = status].status = status
  BY <1>1, LeaseAssumption DEF RunRow
<1> HIDE DEF new
<1>6. /\ DOMAIN new = DOMAIN rs
      /\ new \in [DOMAIN rs -> RunRow]
      /\ \A q \in DOMAIN rs \ {r} : new[q] = rs[q]
      /\ new[r].status = status
  BY <1>1, <1>4, <1>5
<1>7. RunsOK(new)
  BY <1>3, <1>6 DEF RunsOK
<1> QED BY <1>3, <1>6, <1>7 DEF new

LEMMA SamePlace ==
    ASSUME NEW A, NEW B, NEW g \in A \X B, NEW h \in A \X B, g[1] = h[1], g[2] = h[2]
    PROVE  g = h
<1>1. PICK a \in A, b \in B : g = <<a, b>>
  OBVIOUS
<1>2. PICK c \in A, d \in B : h = <<c, d>>
  OBVIOUS
<1>3. g[1] = a /\ g[2] = b /\ h[1] = c /\ h[2] = d
  BY <1>1, <1>2
<1> QED BY <1>1, <1>2, <1>3

-----------------------------------------------------------------------------
(* A serve. *)

\* The serve loop closes the groups it passes over and delivers the first it
\* can; when it can deliver none the run is complete.
LEMMA ServeIs ==
    ASSUME RecordsInv, NEW o \in Owners, NEW r, NEW rs, NEW gs, ServeFrom(o, r, rs, gs)
    PROVE  \/ \E g \in OpenGroups(gs, r), authorized \in SUBSET Uuids :
                 /\ Servable(gs, g)
                 /\ \A h \in OpenGroups(gs, r) \ {g} : Servable(gs, h) => Precedes(gs, g, h)
                 /\ groups' =
                       [h \in DOMAIN gs |->
                          IF h = g THEN Delivered(gs, g, authorized)
                          ELSE IF h \in OpenGroups(gs, r) /\ Precedes(gs, h, g)
                          THEN PassedOver(gs, h) ELSE gs[h]]
                 /\ runs' = Refreshed(rs, r)
                 /\ memory' = memory
           \/ /\ \A g \in OpenGroups(gs, r) : ~Servable(gs, g)
              /\ groups' = [h \in DOMAIN gs |->
                              IF h \in OpenGroups(gs, r) THEN PassedOver(gs, h) ELSE gs[h]]
              /\ runs' = Closed(rs, r, "complete")
              /\ memory' = memory
<1>1. LongTerm(memory) \subseteq Uuids
  BY DEF LongTerm, Targetable, RecordsInv, RecordsTypeOK
<1>2. CASE /\ \A g \in OpenGroups(gs, r) : ~Servable(gs, g)
           /\ groups' = [h \in DOMAIN gs |->
                           IF h \in OpenGroups(gs, r) THEN PassedOver(gs, h) ELSE gs[h]]
           /\ runs' = Closed(rs, r, "complete")
           /\ UNCHANGED recordVars
  BY <1>2 DEF recordVars
<1>3. ASSUME NEW g \in OpenGroups(gs, r),
             /\ Servable(gs, g)
             /\ \A h \in OpenGroups(gs, r) \ {g} : Servable(gs, h) => Precedes(gs, g, h)
             /\ LET anchor == {gs[g].anchor} \cap LongTerm(memory)
                IN  \E candidates \in SUBSET (LongTerm(memory) \ (DOMAIN gs[g].members \cup anchor)) :
                    /\ Cardinality(candidates) <= MaxCandidates
                    /\ groups' =
                          [h \in DOMAIN gs |->
                             IF h = g
                             THEN [Revalidated(gs, g) EXCEPT !.status = "served",
                                      !.serve_count = @ + 1, !.authorized = anchor \cup candidates]
                             ELSE IF h \in OpenGroups(gs, r) /\ Precedes(gs, h, g)
                             THEN PassedOver(gs, h) ELSE gs[h]]
                    /\ runs' = Refreshed(rs, r)
                    /\ Mint(ClientOf[o], Served(gs, g) \cup anchor \cup candidates)
      PROVE  \E authorized \in SUBSET Uuids :
                 /\ groups' =
                       [h \in DOMAIN gs |->
                          IF h = g THEN Delivered(gs, g, authorized)
                          ELSE IF h \in OpenGroups(gs, r) /\ Precedes(gs, h, g)
                          THEN PassedOver(gs, h) ELSE gs[h]]
                 /\ runs' = Refreshed(rs, r)
                 /\ memory' = memory
  <2> DEFINE anchor == {gs[g].anchor} \cap LongTerm(memory)
  <2>1. anchor \in SUBSET LongTerm(memory)
    OBVIOUS
  <2>2. PICK candidates \in SUBSET LongTerm(memory) :
            /\ groups' =
                  [h \in DOMAIN gs |->
                     IF h = g
                     THEN [Revalidated(gs, g) EXCEPT !.status = "served",
                              !.serve_count = @ + 1, !.authorized = anchor \cup candidates]
                     ELSE IF h \in OpenGroups(gs, r) /\ Precedes(gs, h, g)
                     THEN PassedOver(gs, h) ELSE gs[h]]
            /\ runs' = Refreshed(rs, r)
            /\ Mint(ClientOf[o], Served(gs, g) \cup anchor \cup candidates)
    BY <1>3
  <2>3. anchor \cup candidates \in SUBSET Uuids
    BY <1>1, <2>1
  <2> HIDE DEF anchor
  <2> QED BY <2>2, <2>3 DEF Delivered, Mint
<1> QED BY <1>2, <1>3 DEF ServeFrom

\* What a serve does to each group: members of other runs' groups stay as they
\* are, and those of its own are vacated or left.
ServedFrom(r, gs) ==
    /\ DOMAIN groups' = DOMAIN gs
    /\ \A g \in DOMAIN gs : g[1] # r => groups'[g] = gs[g]
    /\ \A g \in DOMAIN gs :
          /\ Revised(gs[g], groups'[g])
          /\ \A u \in DOMAIN gs[g].members :
                groups'[g].members[u] # gs[g].members[u] =>
                   groups'[g].members[u] = "vacated" /\ ~Deliverable(memory, u)

LEMMA RevisedSame == \A row : Revised(row, row)
  BY DEF Revised

\* A serve that delivers g.
LEMMA DeliveryKeepsTables ==
    ASSUME NEW rs, NEW gs, Tables(rs, gs), NEW r \in DOMAIN rs,
           NEW g \in OpenGroups(gs, r), NEW authorized \in SUBSET Uuids,
           Servable(gs, g),
           \A h \in OpenGroups(gs, r) \ {g} : Servable(gs, h) => Precedes(gs, g, h),
           groups' = [h \in DOMAIN gs |->
                        IF h = g THEN Delivered(gs, g, authorized)
                        ELSE IF h \in OpenGroups(gs, r) /\ Precedes(gs, h, g)
                        THEN PassedOver(gs, h) ELSE gs[h]],
           runs' = Refreshed(rs, r)
    PROVE  Tables(runs', groups') /\ ServedFrom(r, gs)
<1> DEFINE Passed == {h \in OpenGroups(gs, r) \ {g} : Precedes(gs, h, g)}
<1>1. /\ g \in DOMAIN gs /\ g[1] = r /\ gs[g].status \in {"pending", "served"}
      /\ Passed \subseteq DOMAIN gs /\ g \notin Passed
      /\ \A h \in Passed : h[1] = r /\ gs[h].status \in OpenStatuses
      /\ \A h \in DOMAIN gs : GroupOK(gs[h])
  BY DEF Tables, GroupsOK, OpenGroups, OpenStatuses
<1>2. \A h \in DOMAIN gs : h[2] \in Nat /\ h \in (DOMAIN rs) \X (Nat \ {0})
  BY DEF Tables, GroupsOK
<1>3. \A h \in Passed : ~Servable(gs, h)
  <2> SUFFICES ASSUME NEW h \in Passed, Servable(gs, h) PROVE FALSE
    OBVIOUS
  <2>1. Precedes(gs, g, h) /\ Precedes(gs, h, g)
    OBVIOUS
  <2>2. ~(g[2] < h[2] /\ h[2] < g[2])
    BY <1>1, <1>2
  <2> QED BY <2>1, <2>2 DEF Precedes
<1>4. /\ DOMAIN groups' = DOMAIN gs
      /\ groups' = [h \in DOMAIN groups' |-> groups'[h]]
      /\ groups'[g] = Delivered(gs, g, authorized)
      /\ \A h \in Passed : groups'[h] = PassedOver(gs, h)
      /\ \A h \in DOMAIN gs : h # g /\ h \notin Passed => groups'[h] = gs[h]
  BY <1>1
<1>5. \A h \in DOMAIN gs : h[1] = r /\ h # g /\ h \notin Passed =>
          (gs[h].status \in OpenStatuses => ~Precedes(gs, h, g))
  BY DEF OpenGroups
<1> HIDE DEF Passed
<1>6. /\ GroupOK(groups'[g]) /\ groups'[g].status = "served"
      /\ Revised(gs[g], groups'[g])
      /\ \A u \in DOMAIN gs[g].members :
            groups'[g].members[u] # gs[g].members[u] =>
               groups'[g].members[u] = "vacated" /\ ~Deliverable(memory, u)
  BY <1>1, <1>4, DeliveredIs
<1>7. \A h \in Passed :
          /\ GroupOK(groups'[h]) /\ groups'[h].status \in {"complete", "deferred"}
          /\ Revised(gs[h], groups'[h])
          /\ \A u \in DOMAIN gs[h].members :
                groups'[h].members[u] # gs[h].members[u] =>
                   groups'[h].members[u] = "vacated" /\ ~Deliverable(memory, u)
  <2> SUFFICES ASSUME NEW h \in Passed
               PROVE  /\ GroupOK(groups'[h]) /\ groups'[h].status \in {"complete", "deferred"}
                      /\ Revised(gs[h], groups'[h])
                      /\ \A u \in DOMAIN gs[h].members :
                            groups'[h].members[u] # gs[h].members[u] =>
                               groups'[h].members[u] = "vacated" /\ ~Deliverable(memory, u)
    OBVIOUS
  <2>1. GroupOK(gs[h]) /\ gs[h].status \in OpenStatuses /\ ~Servable(gs, h)
    BY <1>1, <1>3
  <2>2. groups'[h] = PassedOver(gs, h)
    BY <1>4
  <2> QED BY <2>1, <2>2, PassedOverIs
<1>8. ServedFrom(r, gs)
  BY <1>1, <1>4, <1>6, <1>7, RevisedSame DEF ServedFrom
<1>9. /\ RunsOK(runs') /\ DOMAIN runs' = DOMAIN rs
      /\ \A q \in DOMAIN rs : runs'[q].status = rs[q].status
  BY RefreshedIs DEF Tables
<1>10. ASSUME NEW h \in DOMAIN gs, NEW i \in DOMAIN gs, h[1] = i[1],
              groups'[h].status = "pending", groups'[i].status = "served"
       PROVE  i[2] < h[2]
  <2>1. h # g /\ h \notin Passed /\ groups'[h] = gs[h] /\ gs[h].status = "pending"
    BY <1>4, <1>6, <1>7, <1>10
  <2>2. \A x, y \in DOMAIN gs :
            x[1] = y[1] /\ gs[x].status = "pending" /\ gs[y].status = "served" => y[2] < x[2]
    BY DEF Tables, GroupsOK
  <2>3. CASE i = g
    <3>1. h[1] = r /\ ~Precedes(gs, h, g)
      BY <1>1, <1>5, <1>10, <2>1, <2>3 DEF OpenStatuses
    <3>2. CASE gs[g].status = "served"
      BY <1>1, <1>10, <2>1, <2>2, <2>3, <3>2
    <3>3. CASE gs[g].status = "pending"
      <4>1. ~(h[2] < g[2])
        BY <2>1, <3>1, <3>3 DEF Precedes
      <4>2. h[2] # g[2]
        BY <1>1, <1>2, <2>1, <3>1, SamePlace
      <4> QED BY <1>1, <1>2, <2>3, <4>1, <4>2
    <3> QED BY <1>1, <3>2, <3>3
  <2>4. CASE i # g
    <3>1. i \notin Passed /\ groups'[i] = gs[i] /\ gs[i].status = "served"
      BY <1>4, <1>7, <1>10, <2>4
    <3> QED BY <1>10, <2>1, <2>2, <3>1
  <2> QED BY <2>3, <2>4
<1>11. GroupsOK(runs', groups')
  <2>1. \A h \in DOMAIN gs : GroupOK(groups'[h])
    BY <1>1, <1>4, <1>6, <1>7
  <2>2. DOMAIN groups' \subseteq (DOMAIN runs') \X (Nat \ {0})
    BY <1>2, <1>4, <1>9
  <2> QED BY <1>4, <1>10, <2>1, <2>2 DEF GroupsOK
<1>12. Matching(runs', groups')
  <2> SUFFICES ASSUME NEW q \in DOMAIN rs
               PROVE  /\ rs[q].status = "active" => OpenGroups(groups', q) # {}
                      /\ rs[q].status = "complete" => OpenGroups(groups', q) = {}
    BY <1>9 DEF Matching
  <2>1. /\ rs[q].status = "active" => OpenGroups(gs, q) # {}
        /\ rs[q].status = "complete" => OpenGroups(gs, q) = {}
    BY DEF Tables, Matching
  <2>2. CASE q = r
    BY <1>1, <1>4, <1>6, <2>1, <2>2 DEF OpenGroups, OpenStatuses
  <2>3. CASE q # r
    BY <1>1, <1>4, <2>1, <2>3, <1>8 DEF OpenGroups, ServedFrom
  <2> QED BY <2>2, <2>3
<1> QED BY <1>8, <1>9, <1>11, <1>12 DEF Tables

\* A serve that has nothing left to deliver.
LEMMA EmptyServeKeepsTables ==
    ASSUME NEW rs, NEW gs, Tables(rs, gs), NEW r \in DOMAIN rs,
           \A g \in OpenGroups(gs, r) : ~Servable(gs, g),
           groups' = [h \in DOMAIN gs |->
                        IF h \in OpenGroups(gs, r) THEN PassedOver(gs, h) ELSE gs[h]],
           runs' = Closed(rs, r, "complete")
    PROVE  Tables(runs', groups') /\ ServedFrom(r, gs)
<1>1. /\ \A h \in OpenGroups(gs, r) : h \in DOMAIN gs /\ h[1] = r /\ gs[h].status \in OpenStatuses
      /\ \A h \in DOMAIN gs : GroupOK(gs[h])
  BY DEF Tables, GroupsOK, OpenGroups
<1>2. /\ DOMAIN groups' = DOMAIN gs
      /\ groups' = [h \in DOMAIN groups' |-> groups'[h]]
      /\ \A h \in OpenGroups(gs, r) : groups'[h] = PassedOver(gs, h)
      /\ \A h \in DOMAIN gs : h \notin OpenGroups(gs, r) => groups'[h] = gs[h]
  BY <1>1
<1>3. \A h \in OpenGroups(gs, r) :
          /\ GroupOK(groups'[h]) /\ groups'[h].status \in {"complete", "deferred"}
          /\ Revised(gs[h], groups'[h])
          /\ \A u \in DOMAIN gs[h].members :
                groups'[h].members[u] # gs[h].members[u] =>
                   groups'[h].members[u] = "vacated" /\ ~Deliverable(memory, u)
  BY <1>1, <1>2, PassedOverIs
<1>4. ServedFrom(r, gs)
  BY <1>1, <1>2, <1>3, RevisedSame DEF ServedFrom
<1>5. /\ RunsOK(runs') /\ DOMAIN runs' = DOMAIN rs
      /\ \A q \in DOMAIN rs \ {r} : runs'[q] = rs[q]
      /\ runs'[r].status # "active"
  BY ClosedIs DEF Tables
<1>6. GroupsOK(runs', groups')
  <2>1. \A h \in DOMAIN gs : GroupOK(groups'[h])
    BY <1>1, <1>2, <1>3
  <2>2. \A h \in DOMAIN gs : groups'[h].status \in OpenStatuses => groups'[h] = gs[h]
    BY <1>2, <1>3 DEF OpenStatuses
  <2> QED BY <1>2, <1>5, <2>1, <2>2 DEF Tables, GroupsOK, OpenStatuses
<1>7. Matching(runs', groups')
  <2> SUFFICES ASSUME NEW q \in DOMAIN rs
               PROVE  /\ runs'[q].status = "active" => OpenGroups(groups', q) # {}
                      /\ runs'[q].status = "complete" => OpenGroups(groups', q) = {}
    BY <1>5 DEF Matching
  <2>1. CASE q = r
    BY <1>2, <1>3, <1>5, <2>1 DEF OpenGroups, OpenStatuses
  <2>2. CASE q # r
    <3>1. OpenGroups(groups', q) = OpenGroups(gs, q)
      BY <1>1, <1>2, <2>2 DEF OpenGroups
    <3> QED BY <1>5, <2>2, <3>1 DEF Tables, Matching
  <2> QED BY <2>1, <2>2
<1> QED BY <1>4, <1>5, <1>6, <1>7 DEF Tables

\* A serve keeps the tables right, whatever they held before it.
LEMMA ServeKeepsTables ==
    ASSUME RecordsInv, NEW o \in Owners, NEW rs, NEW gs, Tables(rs, gs), NEW r \in DOMAIN rs,
           ServeFrom(o, r, rs, gs)
    PROVE  /\ Tables(runs', groups')
           /\ ServedFrom(r, gs)
           /\ memory' = memory
           /\ DOMAIN runs' = DOMAIN rs
           /\ \A q \in DOMAIN rs : runs'[q].status \in {rs[q].status, "complete"}
<1>1. ASSUME NEW g \in OpenGroups(gs, r), NEW authorized \in SUBSET Uuids,
             Servable(gs, g),
             \A h \in OpenGroups(gs, r) \ {g} : Servable(gs, h) => Precedes(gs, g, h),
             groups' = [h \in DOMAIN gs |->
                          IF h = g THEN Delivered(gs, g, authorized)
                          ELSE IF h \in OpenGroups(gs, r) /\ Precedes(gs, h, g)
                          THEN PassedOver(gs, h) ELSE gs[h]],
             runs' = Refreshed(rs, r)
      PROVE  Tables(runs', groups') /\ ServedFrom(r, gs)
  BY <1>1, DeliveryKeepsTables
<1>2. Tables(runs', groups') /\ ServedFrom(r, gs) /\ memory' = memory
  BY <1>1, ServeIs, EmptyServeKeepsTables
<1>3. runs' = Refreshed(rs, r) \/ runs' = Closed(rs, r, "complete")
  BY ServeIs
<1>4. /\ DOMAIN runs' = DOMAIN rs
      /\ \A q \in DOMAIN rs : runs'[q].status \in {rs[q].status, "complete"}
  <2>1. RunsOK(rs)
    BY DEF Tables
  <2>2. CASE runs' = Refreshed(rs, r)
    BY <2>1, <2>2, RefreshedIs
  <2>3. CASE runs' = Closed(rs, r, "complete")
    BY <2>1, <2>3, ClosedIs
  <2> QED BY <1>3, <2>2, <2>3
<1> QED BY <1>2, <1>4


-----------------------------------------------------------------------------
(* Plans. *)

\* What every plan of the rows m holds.
LEMMA PlansAre ==
    ASSUME NEW m, NEW plan \in Plans(m)
    PROVE  /\ \E k \in Nat : DOMAIN plan = 1 .. k
           /\ plan = [i \in DOMAIN plan |-> plan[i]]
           /\ \A i \in DOMAIN plan : /\ plan[i].anchor \in LongTerm(m) \cup {NULL}
                                     /\ plan[i].members \subseteq Journal(m)
                                     /\ plan[i].members # {}
           /\ \A i, j \in DOMAIN plan : i # j => plan[i].members \cap plan[j].members = {}
           /\ \A u \in Journal(m) : \E i \in DOMAIN plan : u \in plan[i].members
<1>1. PICK k \in 0 .. Cardinality(Journal(m)) :
          \E a \in [1 .. k -> LongTerm(m) \cup {NULL}], f \in [Journal(m) -> 1 .. k] :
              plan = Dealt(m, a, f) /\ WellSharded(plan)
  BY DEF Plans
<1>2. PICK a \in [1 .. k -> LongTerm(m) \cup {NULL}], f \in [Journal(m) -> 1 .. k] :
          plan = Dealt(m, a, f) /\ WellSharded(plan)
  BY <1>1
<1>3. k \in Nat
  OBVIOUS
<1>4. /\ DOMAIN plan = 1 .. k
      /\ plan = [i \in DOMAIN plan |-> plan[i]]
      /\ \A i \in 1 .. k : /\ plan[i].anchor = a[i]
                           /\ plan[i].members = {u \in Journal(m) : f[u] = i}
  BY <1>2 DEF Dealt
<1>5. ASSUME NEW i \in DOMAIN plan PROVE plan[i].members # {}
  <2>1. Cardinality(plan[i].members) \in 1 .. GroupMax
    BY <1>2 DEF WellSharded
  <2>2. Cardinality({}) = 0
    BY FS_EmptySet
  <2>3. Cardinality({}) \notin 1 .. GroupMax
    BY <2>2
  <2> QED BY <2>1, <2>3
<1> QED BY <1>2, <1>3, <1>4, <1>5

\* NewRun is the next number.
LEMMA NewRunIs ==
    ASSUME RunsOK(runs)
    PROVE  /\ NewRun \in Nat \ {0}
           /\ NewRun \notin DOMAIN runs
           /\ NewRun <= MaxRuns =>
                 \E n \in 0 .. MaxRuns : DOMAIN runs \cup {NewRun} = 1 .. n
<1>1. PICK n \in 0 .. MaxRuns : DOMAIN runs = 1 .. n
  BY DEF RunsOK
<1>2. n \in Nat /\ NewRun = n + 1
  <2>1. Cardinality(1 .. n) = n
    BY FS_Interval, RunsAssumption
  <2> QED BY <1>1, <2>1, RunsAssumption DEF NewRun
<1>3. 1 .. n \cup {n + 1} = 1 .. (n + 1)
  BY <1>2
<1> QED BY <1>1, <1>2, <1>3, RunsAssumption

ClosedRun(o, r) ==
    IF runs[r].status = "active"
    THEN [runs[r] EXCEPT !.status = ClosingStatus(runs, r, o)] ELSE runs[r]

LEMMA RunsPlannedIs ==
    ASSUME RunsOK(runs), NEW o \in Owners, NEW plan, NewRun <= MaxRuns
    PROVE  LET rs == RunsPlanned(o, plan)
           IN  /\ RunsOK(rs)
               /\ DOMAIN rs = DOMAIN runs \cup {NewRun}
               /\ rs[NewRun].status = IF plan = <<>> THEN "complete" ELSE "active"
               /\ \A r \in DOMAIN runs :
                     /\ rs[r].status # "active"
                     /\ rs[r].status = "complete" => runs[r].status = "complete"
<1> DEFINE rs == RunsPlanned(o, plan)
           row == [owner |-> o, remaining |-> Lease,
                   status |-> IF plan = <<>> THEN "complete" ELSE "active"]
<1>1. NewRun \notin DOMAIN runs
  BY NewRunIs
<1>2. /\ rs = [r \in DOMAIN rs |-> rs[r]]
      /\ DOMAIN rs = DOMAIN runs \cup {NewRun}
      /\ rs[NewRun] = row
      /\ \A r \in DOMAIN runs : rs[r] = ClosedRun(o, r)
  BY <1>1 DEF RunsPlanned, Put, ClosedRun
<1>3. row \in RunRow /\ row.status = IF plan = <<>> THEN "complete" ELSE "active"
  BY LeaseAssumption DEF RunRow, RunStatuses
<1> HIDE DEF rs, row
<1>4. ASSUME NEW r \in DOMAIN runs
      PROVE  /\ ClosedRun(o, r) \in RunRow
             /\ ClosedRun(o, r).status # "active"
             /\ ClosedRun(o, r).status = "complete" => runs[r].status = "complete"
  <2>1. runs[r] \in RunRow
    BY DEF RunsOK
  <2>2. ClosingStatus(runs, r, o) \in {"expired", "abandoned", "taken_over"}
    BY DEF ClosingStatus
  <2>3. /\ [runs[r] EXCEPT !.status = ClosingStatus(runs, r, o)] \in RunRow
        /\ [runs[r] EXCEPT !.status = ClosingStatus(runs, r, o)].status = ClosingStatus(runs, r, o)
    BY <2>1, <2>2 DEF RunRow, RunStatuses
  <2> QED BY <2>1, <2>2, <2>3 DEF ClosedRun
<1>5. rs \in [DOMAIN rs -> RunRow]
  BY <1>2, <1>3, <1>4
<1>6. \E n \in 0 .. MaxRuns : DOMAIN rs = 1 .. n
  BY <1>2, NewRunIs
<1>7. RunsOK(rs)
  BY <1>2, <1>4, <1>5, <1>6 DEF RunsOK
<1> QED BY <1>2, <1>3, <1>4, <1>7 DEF rs

NewGroup(plan, i) ==
    [anchor |-> plan[i].anchor, status |-> "pending", serve_count |-> 0,
     members |-> [u \in plan[i].members |-> NULL], authorized |-> {}]

LEMMA GroupsPlannedIs ==
    ASSUME RunsOK(runs), GroupsOK(runs, groups), NEW plan, NEW k \in Nat, DOMAIN plan = 1 .. k
    PROVE  LET gs == GroupsPlanned(plan)
           IN  /\ gs = [g \in DOMAIN gs |-> gs[g]]
               /\ DOMAIN gs = DOMAIN groups \cup ({NewRun} \X (1 .. k))
               /\ \A g \in DOMAIN groups : g[1] # NewRun /\ gs[g] = groups[g]
               /\ \A g \in {NewRun} \X (1 .. k) : gs[g] = NewGroup(plan, g[2])
<1>1. NewRun \notin DOMAIN runs
  BY NewRunIs
<1>2. \A g \in DOMAIN groups : g[1] \in DOMAIN runs
  BY DEF GroupsOK
<1>3. \A g \in {NewRun} \X (1 .. k) : g[1] = NewRun
  OBVIOUS
<1> QED BY <1>1, <1>2, <1>3 DEF GroupsPlanned, Put, NewGroup

LEMMA NewGroupOK ==
    ASSUME RecordsInv, NEW m, DOMAIN m \subseteq Uuids, NEW plan \in Plans(m), NEW i \in DOMAIN plan
    PROVE  GroupOK(NewGroup(plan, i))
<1>1. /\ plan[i].anchor \in Uuids \cup {NULL}
      /\ plan[i].members \subseteq Uuids
      /\ plan[i].members # {}
  BY PlansAre DEF LongTerm, Journal
<1> DEFINE f == [u \in plan[i].members |-> NULL]
<1>2. f = [u \in DOMAIN f |-> f[u]] /\ DOMAIN f = plan[i].members
      /\ \A u \in DOMAIN f : f[u] = NULL
  OBVIOUS
<1> HIDE DEF f
<1>3. f \in UNION {[U -> Dispositions \cup {NULL}] : U \in SUBSET Uuids}
  BY <1>1, <1>2, MembersAre
<1>4. NewGroup(plan, i) =
          [anchor |-> plan[i].anchor, status |-> "pending", serve_count |-> 0,
           members |-> f, authorized |-> {}]
  BY DEF NewGroup, f
<1>5. NewGroup(plan, i) \in GroupRow
  BY <1>1, <1>3, <1>4, ServesAssumption DEF GroupRow, GroupStatuses, OpenStatuses
<1> QED BY <1>1, <1>2, <1>4, <1>5 DEF GroupOK

\* A plan of rows the store has held is inserted beside what is there.
LEMMA PlanKeepsTables ==
    ASSUME RecordsInv, Tables(runs, groups), NEW o \in Owners, NewRun <= MaxRuns,
           NEW m, DOMAIN m \subseteq Uuids, NEW plan \in Plans(m)
    PROVE  Tables(RunsPlanned(o, plan), GroupsPlanned(plan))
<1> DEFINE rs == RunsPlanned(o, plan)
           gs == GroupsPlanned(plan)
<1>1. PICK k \in Nat : DOMAIN plan = 1 .. k
  BY PlansAre
<1>2. /\ RunsOK(rs)
      /\ DOMAIN rs = DOMAIN runs \cup {NewRun}
      /\ rs[NewRun].status = IF plan = <<>> THEN "complete" ELSE "active"
      /\ \A r \in DOMAIN runs :
            /\ rs[r].status # "active"
            /\ rs[r].status = "complete" => runs[r].status = "complete"
  BY RunsPlannedIs DEF Tables
<1>3. /\ gs = [g \in DOMAIN gs |-> gs[g]]
      /\ DOMAIN gs = DOMAIN groups \cup ({NewRun} \X (1 .. k))
      /\ \A g \in DOMAIN groups : g[1] # NewRun /\ gs[g] = groups[g]
      /\ \A g \in {NewRun} \X (1 .. k) : gs[g] = NewGroup(plan, g[2])
  BY <1>1, GroupsPlannedIs DEF Tables
<1>4. NewRun \in Nat \ {0} /\ NewRun \notin DOMAIN runs
  BY NewRunIs DEF Tables
<1>5. plan = <<>> <=> k = 0
  <2>1. plan = <<>> => k = 0
    BY <1>1
  <2>2. k = 0 => plan = <<>>
    BY <1>1, PlansAre
  <2> QED BY <2>1, <2>2
<1> HIDE DEF rs, gs
<1>6. \A g \in {NewRun} \X (1 .. k) :
          /\ GroupOK(gs[g]) /\ gs[g].status = "pending" /\ g[1] = NewRun
  <2> SUFFICES ASSUME NEW g \in {NewRun} \X (1 .. k)
               PROVE  GroupOK(gs[g]) /\ gs[g].status = "pending" /\ g[1] = NewRun
    OBVIOUS
  <2>1. g[2] \in DOMAIN plan /\ g[1] = NewRun
    BY <1>1
  <2>2. gs[g] = NewGroup(plan, g[2]) /\ NewGroup(plan, g[2]).status = "pending"
    BY <1>3 DEF NewGroup
  <2>3. GroupOK(NewGroup(plan, g[2]))
    BY <2>1, NewGroupOK
  <2> QED BY <2>1, <2>2, <2>3
<1>7. GroupsOK(rs, gs)
  <2>1. DOMAIN gs \subseteq (DOMAIN rs) \X (Nat \ {0})
    BY <1>2, <1>3 DEF Tables, GroupsOK
  <2>2. \A g \in DOMAIN gs : GroupOK(gs[g])
    BY <1>3, <1>6 DEF Tables, GroupsOK
  <2>3. \A g, h \in DOMAIN gs :
            g[1] = h[1] /\ gs[g].status = "pending" /\ gs[h].status = "served" => h[2] < g[2]
    BY <1>3, <1>6 DEF Tables, GroupsOK
  <2> QED BY <1>3, <2>1, <2>2, <2>3 DEF GroupsOK
<1>8. Matching(rs, gs)
  <2> SUFFICES ASSUME NEW r \in DOMAIN rs
               PROVE  /\ rs[r].status = "active" => OpenGroups(gs, r) # {}
                      /\ rs[r].status = "complete" => OpenGroups(gs, r) = {}
    BY DEF Matching
  <2>1. CASE r \in DOMAIN runs
    <3>1. \A g \in OpenGroups(gs, r) : g \in OpenGroups(groups, r)
      BY <1>3, <1>4, <1>6, <2>1 DEF OpenGroups
    <3> QED BY <1>2, <2>1, <3>1 DEF Tables, Matching
  <2>2. CASE r = NewRun
    <3>1. plan = <<>> => OpenGroups(gs, r) = {}
      BY <1>3, <1>5, <2>2 DEF OpenGroups
    <3>2. plan # <<>> => OpenGroups(gs, r) # {}
      <4> SUFFICES ASSUME plan # <<>> PROVE <<NewRun, 1>> \in OpenGroups(gs, r)
        OBVIOUS
      <4>1. <<NewRun, 1>> \in {NewRun} \X (1 .. k)
        BY <1>5
      <4> QED BY <1>3, <1>6, <2>2, <4>1 DEF OpenGroups, OpenStatuses
    <3> QED BY <1>2, <2>2, <3>1, <3>2
  <2> QED BY <1>2, <2>1, <2>2
<1> QED BY <1>2, <1>7, <1>8 DEF Tables, rs, gs


-----------------------------------------------------------------------------
(* What a snapshot is worth later. *)

\* m is rows as they were: the rows are still there, and those whose version
\* has not moved are as they were.
Past(m) ==
    /\ DOMAIN m \subseteq Rows
    /\ \A u \in DOMAIN m : /\ m[u].version \in Nat
                           /\ m[u].version <= memory[u].version
                           /\ m[u].version = memory[u].version => m[u] = memory[u]

PlannedFrom(snapshot, m) ==
    snapshot.fingerprint = Fingerprint(m) /\ snapshot.plan \in Plans(m)

\* What a call carries is a plan of rows the store has held.
CallsOK ==
    /\ calls = [o \in Owners |-> calls[o]]
    /\ \A o \in Owners : calls[o] # NULL /\ calls[o].snapshot # NULL =>
          \E m : Past(m) /\ PlannedFrom(calls[o].snapshot, m)

\* What any step does to the rows: none goes, none returns to the journal, and
\* a row that is not as it was has another version.
LEMMA RowsMoveOn ==
    ASSUME RecordsInv, [Next]_vars
    PROVE  /\ Rows \subseteq Rows'
           /\ \A u \in Rows :
                 /\ memory[u].version \in Nat
                 /\ memory'[u] = memory[u] \/ memory'[u].version = memory[u].version + 1
                 /\ ~memory[u].active => memory'[u] = memory[u]
                 /\ ~Deliverable(memory, u) => ~Deliverable(memory', u)
<1>1. \A u \in Rows : memory[u].version \in Nat
                      /\ memory[u].tier \in Tiers
  BY VersionAssumption DEF RecordsInv, RecordsTypeOK, Row, Rows
<1>2. ASSUME memory' = memory
      PROVE  /\ Rows' = Rows
             /\ \A u \in Rows : memory'[u] = memory[u]
             /\ \A u \in Rows : ~Deliverable(memory, u) => ~Deliverable(memory', u)
  BY <1>2 DEF Rows
<1>3. ASSUME NEW c \in Clients, Writes(c)
      PROVE  /\ Rows \subseteq Rows'
             /\ \A u \in Rows :
                   /\ memory'[u] = memory[u] \/ memory'[u].version = memory[u].version + 1
                   /\ ~memory[u].active => memory'[u] = memory[u]
                   /\ ~Deliverable(memory, u) => ~Deliverable(memory', u)
  <2>1. PICK new : /\ \A u \in DOMAIN new : LegalRow(c, u, new)
                   /\ Commit(c, new)
    BY <1>3 DEF Writes
  <2>2. /\ DOMAIN memory' = Rows \cup DOMAIN new
        /\ \A u \in DOMAIN new : memory'[u] = new[u]
        /\ \A u \in Rows : u \notin DOMAIN new => memory'[u] = memory[u]
    BY <2>1, CommitIs
  <2>3. ASSUME NEW u \in Rows, u \in DOMAIN new
        PROVE  /\ memory'[u].version = memory[u].version + 1
               /\ memory[u].active
               /\ ~Deliverable(memory, u) => ~Deliverable(memory', u)
    <3>1. /\ memory[u].active
          /\ new[u].tier \in {memory[u].tier, "long_term"}
          /\ new[u].version = memory[u].version + 1
      BY <2>1, <2>3 DEF LegalRow
    <3> QED BY <1>1, <2>2, <2>3, <3>1 DEF Deliverable, Rows
  <2>4. ASSUME NEW u \in Rows, u \notin DOMAIN new
        PROVE  /\ memory'[u] = memory[u]
               /\ ~Deliverable(memory, u) => ~Deliverable(memory', u)
    BY <2>2, <2>4 DEF Deliverable, Rows
  <2> QED BY <2>2, <2>3, <2>4 DEF Rows
<1>4. memory' = memory \/ \E c \in Clients : Writes(c)
  BY StepShowsWritesOrRests DEF recordVars, Shows, Mint
<1> QED BY <1>1, <1>2, <1>3, <1>4

LEMMA PastStaysPast ==
    ASSUME RecordsInv, [Next]_vars, NEW CONSTANT m, Past(m)
    PROVE  Past(m)'
<1>1. ASSUME NEW u \in DOMAIN m
      PROVE  /\ u \in Rows'
             /\ m[u].version <= memory'[u].version
             /\ m[u].version = memory'[u].version => m[u] = memory'[u]
  <2>1. /\ u \in Rows /\ m[u].version \in Nat
        /\ m[u].version <= memory[u].version
        /\ m[u].version = memory[u].version => m[u] = memory[u]
    BY DEF Past
  <2>2. /\ Rows \subseteq Rows'
        /\ memory[u].version \in Nat
        /\ memory'[u] = memory[u] \/ memory'[u].version = memory[u].version + 1
    BY <2>1, RowsMoveOn
  <2> QED BY <2>1, <2>2
<1> QED BY <1>1 DEF Past

LEMMA NowIsPast ==
    ASSUME RecordsInv
    PROVE  Past(memory)
<1>1. \A u \in Rows : memory[u].version \in Nat
  BY VersionAssumption DEF RecordsInv, RecordsTypeOK, Row, Rows
<1> QED BY <1>1 DEF Past, Rows

\* The argument of the fingerprint: when it has not changed, neither has
\* anything the plan was computed from.
LEMMA SameFingerprintSamePlans ==
    ASSUME RecordsInv, NEW m, Past(m), Fingerprint(m) = Fingerprint(memory)
    PROVE  Plans(m) = Plans(memory)
<1> DEFINE A == {u \in DOMAIN m : m[u].active}
           B == {u \in DOMAIN memory : memory[u].active}
<1>1. A = B
  <2>1. DOMAIN Fingerprint(m) = A /\ DOMAIN Fingerprint(memory) = B
    BY DEF Fingerprint
  <2> QED BY <2>1
<1>2. \A u \in A : m[u].version = memory[u].version
  <2>1. /\ \A u \in A : Fingerprint(m)[u] = m[u].version
        /\ \A u \in B : Fingerprint(memory)[u] = memory[u].version
    BY DEF Fingerprint
  <2> QED BY <1>1, <2>1
<1>3. \A u \in A : m[u] = memory[u]
  BY <1>2 DEF Past
<1>4. Journal(m) = Journal(memory)
  BY <1>1, <1>3 DEF Journal, Deliverable
<1>5. LongTerm(m) = LongTerm(memory)
  BY <1>1, <1>3 DEF LongTerm, Targetable
<1>6. \A a, f : Dealt(m, a, f) = Dealt(memory, a, f)
  BY <1>4 DEF Dealt
<1>7. \A plan : plan \in Plans(m) => plan \in Plans(memory)
  BY <1>4, <1>5, <1>6 DEF Plans
<1>8. \A plan : plan \in Plans(memory) => plan \in Plans(m)
  BY <1>4, <1>5, <1>6 DEF Plans
<1> QED BY <1>7, <1>8

\* What the write transaction inserts is a plan of the rows as they stand.
LEMMA WrittenPlansAreFresh ==
    ASSUME RecordsInv, CallsOK, NEW o \in Owners, calls[o] # NULL, calls[o].snapshot # NULL
    PROVE  PlansToWrite(calls[o].snapshot) \subseteq Plans(memory)
<1>1. PICK m : Past(m) /\ PlannedFrom(calls[o].snapshot, m)
  BY DEF CallsOK
<1>2. CASE calls[o].snapshot.fingerprint = Fingerprint(memory)
  BY <1>1, <1>2, SameFingerprintSamePlans DEF PlannedFrom, PlansToWrite
<1>3. CASE calls[o].snapshot.fingerprint # Fingerprint(memory)
  BY <1>3 DEF PlansToWrite
<1> QED BY <1>2, <1>3


-----------------------------------------------------------------------------
(* The member table against the rows. *)

\* A decided member has left the journal of m, the way its disposition says.
ToldOf(d, m, u) ==
    /\ u \in DOMAIN m
    /\ d # NULL => ~Deliverable(m, u)
    /\ d = "merged" => m[u].superseded_by # NULL
    /\ d = "discarded" => RetiredOutright(m, u)

Told(gs, m) ==
    \A g \in DOMAIN gs : \A u \in DOMAIN gs[g].members : ToldOf(gs[g].members[u], m, u)

\* What is true of a decided member stays true.
LEMMA ToldStaysTold ==
    ASSUME RecordsInv, [Next]_vars, NEW gs, Told(gs, memory)
    PROVE  Told(gs, memory')
<1> SUFFICES ASSUME NEW g \in DOMAIN gs, NEW u \in DOMAIN gs[g].members
             PROVE  ToldOf(gs[g].members[u], memory', u)
  BY DEF Told
<1>1. ToldOf(gs[g].members[u], memory, u)
  BY DEF Told
<1>2. /\ u \in Rows /\ u \in DOMAIN memory'
      /\ ~memory[u].active => memory'[u] = memory[u]
      /\ ~Deliverable(memory, u) => ~Deliverable(memory', u)
  BY <1>1, RowsMoveOn DEF ToldOf, Rows
<1>3. gs[g].members[u] = "merged" => memory'[u].superseded_by # NULL
  BY <1>1, <1>2 DEF ToldOf, RecordsInv, EdgesLegal
<1>4. gs[g].members[u] = "discarded" => RetiredOutright(memory', u)
  BY <1>1, <1>2 DEF ToldOf, RetiredOutright
<1> QED BY <1>1, <1>2, <1>3, <1>4 DEF ToldOf

\* A serve vacates the members that have left the journal, and no others.
LEMMA ServeTells ==
    ASSUME NEW gs, Told(gs, memory), NEW r, ServedFrom(r, gs)
    PROVE  Told(groups', memory)
<1> SUFFICES ASSUME NEW g \in DOMAIN groups', NEW u \in DOMAIN groups'[g].members
             PROVE  ToldOf(groups'[g].members[u], memory, u)
  BY DEF Told
<1>1. /\ g \in DOMAIN gs /\ u \in DOMAIN gs[g].members
      /\ groups'[g].members[u] # gs[g].members[u] =>
            groups'[g].members[u] = "vacated" /\ ~Deliverable(memory, u)
  BY DEF ServedFrom, Revised
<1>2. ToldOf(gs[g].members[u], memory, u)
  BY <1>1 DEF Told
<1> QED BY <1>1, <1>2 DEF ToldOf

\* A plan's members are undecided rows of the journal.
LEMMA PlanTells ==
    ASSUME RecordsInv, Tables(runs, groups), Told(groups, memory), NEW plan \in Plans(memory)
    PROVE  Told(GroupsPlanned(plan), memory)
<1> DEFINE gs == GroupsPlanned(plan)
<1>1. PICK k \in Nat : DOMAIN plan = 1 .. k
  BY PlansAre
<1>2. /\ DOMAIN gs = DOMAIN groups \cup ({NewRun} \X (1 .. k))
      /\ \A g \in DOMAIN groups : gs[g] = groups[g]
      /\ \A g \in {NewRun} \X (1 .. k) : gs[g] = NewGroup(plan, g[2])
  BY <1>1, GroupsPlannedIs DEF Tables
<1> HIDE DEF gs
<1>3. ASSUME NEW g \in DOMAIN groups, NEW u \in DOMAIN gs[g].members
      PROVE  ToldOf(gs[g].members[u], memory, u)
  BY <1>2, <1>3 DEF Told
<1>4. ASSUME NEW g \in {NewRun} \X (1 .. k), NEW u \in DOMAIN gs[g].members
      PROVE  ToldOf(gs[g].members[u], memory, u)
  <2>1. g[2] \in DOMAIN plan
    BY <1>1
  <2>2. u \in plan[g[2]].members /\ gs[g].members[u] = NULL
    <3>1. gs[g] = NewGroup(plan, g[2])
      BY <1>2
    <3>2. NewGroup(plan, g[2]).members = [x \in plan[g[2]].members |-> NULL]
      BY DEF NewGroup
    <3> QED BY <1>4, <3>1, <3>2
  <2>3. u \in DOMAIN memory
    BY <2>1, <2>2, PlansAre DEF Journal
  <2> QED BY <2>2, <2>3, NullAssumption DEF ToldOf, Dispositions
<1>5. Told(gs, memory)
  BY <1>2, <1>3, <1>4 DEF Told
<1> QED BY <1>5 DEF gs

-----------------------------------------------------------------------------
(* A verb of the consolidator. *)

\* Its row half: the absorbed rows leave the journal the way the disposition
\* says, and no other row leaves it.
Absorbs(absorb, d) ==
    /\ \A u \in absorb : ToldOf(d, memory', u)
    /\ \A u \in Journal(memory) \ absorb : u \in Journal(memory')

LEMMA RetiredIsAbsorbed ==
    ASSUME RecordsInv, NEW o \in Owners, NEW g, NEW absorb, MayAbsorb(o, g, absorb),
           NEW by \in Uuids \cup {NULL}, NEW new, NEW d \in {"merged", "promoted", "discarded"},
           Commit(ClientOf[o], new),
           absorb \subseteq DOMAIN new,
           \A u \in absorb : new[u] = Retirement(memory[u], by),
           \A u \in DOMAIN new \ absorb : u \notin Journal(memory),
           d = "merged" => by # NULL,
           d = "discarded" => by = NULL
    PROVE  Absorbs(absorb, d)
<1>1. /\ DOMAIN memory' = Rows \cup DOMAIN new
      /\ \A u \in DOMAIN new : memory'[u] = new[u]
      /\ \A u \in Rows : u \notin DOMAIN new => memory'[u] = memory[u]
  BY CommitIs
<1>2. ASSUME NEW u \in absorb PROVE ToldOf(d, memory', u)
  <2>1. u \in Rows /\ memory[u] \in Row
    BY DEF MayAbsorb, Deliverable, RecordsInv, RecordsTypeOK, Rows
  <2>2. u \in DOMAIN memory' /\ memory'[u].active = FALSE /\ memory'[u].superseded_by = by
    <3>1. u \in DOMAIN memory' /\ memory'[u] = Retirement(memory[u], by)
      BY <1>1
    <3>2. /\ Retirement(memory[u], by).active = FALSE
          /\ Retirement(memory[u], by).superseded_by = by
      BY <2>1 DEF Retirement, Row
    <3> QED BY <3>1, <3>2
  <2> QED BY <2>2 DEF ToldOf, Deliverable, RetiredOutright
<1>3. ASSUME NEW u \in Journal(memory) \ absorb PROVE u \in Journal(memory')
  <2>1. u \in Rows /\ u \notin DOMAIN new
    BY DEF Journal, Rows
  <2>2. u \in DOMAIN memory' /\ memory'[u] = memory[u]
    BY <1>1, <2>1
  <2> QED BY <2>2 DEF Journal, Deliverable
<1> QED BY <1>2, <1>3 DEF Absorbs

\* Every verb but a conflict is a disposition of served members, with the
\* rows written in the same step.
Disposes(o, g, absorb, d) ==
    /\ g \in DOMAIN groups
    /\ GroupAuthorized(o, g, absorb)
    /\ d \in {"merged", "promoted", "discarded"}
    /\ Absorbs(absorb, d)
    /\ Settle(g, absorb, d)

LEMMA MergeDisposes ==
    ASSUME RecordsInv, NEW o \in Owners, NEW g \in DOMAIN groups, NEW absorb, NEW target,
           Merge(o, g, target, absorb)
    PROVE  Disposes(o, g, absorb, "merged")
<1> DEFINE new == Put([u \in {target} |-> Rewritten(memory[u])], Absorbed(absorb, target))
<1>1. MayAbsorb(o, g, absorb) /\ Targetable(memory, target) /\ Commit(ClientOf[o], new)
      /\ Settle(g, absorb, "merged")
  BY DEF Merge
<1>2. target \in Uuids /\ target # NULL /\ target \notin absorb /\ target \notin Journal(memory)
  BY <1>1, UuidsAssumption
     DEF Targetable, MayAbsorb, Deliverable, Journal, RecordsInv, RecordsTypeOK
<1>3. /\ DOMAIN new = absorb \cup {target}
      /\ \A u \in absorb : new[u] = Retirement(memory[u], target)
  BY <1>2 DEF Put, Absorbed
<1> HIDE DEF new
<1>4. Absorbs(absorb, "merged")
  BY <1>1, <1>2, <1>3, RetiredIsAbsorbed
<1> QED BY <1>1, <1>4 DEF Disposes, MayAbsorb

LEMMA PromotionDisposes ==
    ASSUME RecordsInv, NEW o \in Owners, NEW g \in DOMAIN groups, NEW absorb,
           PromoteNewRow(o, g, absorb)
    PROVE  Disposes(o, g, absorb, "promoted")
<1>1. PICK fresh \in Uuids \ Rows :
          Commit(ClientOf[o], Put([u \in {fresh} |-> Created("long_term")], Absorbed(absorb, fresh)))
  BY DEF PromoteNewRow
<1> DEFINE new == Put([u \in {fresh} |-> Created("long_term")], Absorbed(absorb, fresh))
<1>2. MayAbsorb(o, g, absorb) /\ Commit(ClientOf[o], new) /\ Settle(g, absorb, "promoted")
  BY <1>1 DEF PromoteNewRow
<1>3. fresh \notin absorb /\ fresh \notin Journal(memory)
  BY <1>2 DEF MayAbsorb, Deliverable, Journal, Rows
<1>4. /\ DOMAIN new = absorb \cup {fresh}
      /\ \A u \in absorb : new[u] = Retirement(memory[u], fresh)
  BY <1>3 DEF Put, Absorbed
<1> HIDE DEF new
<1>5. Absorbs(absorb, "promoted")
  BY <1>2, <1>3, <1>4, RetiredIsAbsorbed
<1> QED BY <1>2, <1>5 DEF Disposes, MayAbsorb

LEMMA DiscardDisposes ==
    ASSUME RecordsInv, NEW o \in Owners, NEW g \in DOMAIN groups, NEW absorb,
           Discard(o, g, absorb)
    PROVE  Disposes(o, g, absorb, "discarded")
<1> DEFINE new == Absorbed(absorb, NULL)
<1>1. MayAbsorb(o, g, absorb) /\ Commit(ClientOf[o], new) /\ Settle(g, absorb, "discarded")
  BY DEF Discard
<1>2. DOMAIN new = absorb /\ \A u \in absorb : new[u] = Retirement(memory[u], NULL)
  BY DEF Absorbed
<1> HIDE DEF new
<1>3. Absorbs(absorb, "discarded")
  BY <1>1, <1>2, RetiredIsAbsorbed
<1> QED BY <1>1, <1>3 DEF Disposes, MayAbsorb

LEMMA LiftDisposes ==
    ASSUME RecordsInv, NEW o \in Owners, NEW g \in DOMAIN groups, NEW u, PromoteInPlace(o, g, u)
    PROVE  Disposes(o, g, {u}, "promoted")
<1> DEFINE new == [x \in {u} |-> Moved(memory[u], "long_term")]
<1>1. MayAbsorb(o, g, {u}) /\ Commit(ClientOf[o], new) /\ Settle(g, {u}, "promoted")
  BY DEF PromoteInPlace
<1>2. u \in Rows /\ memory[u] \in Row
  BY <1>1 DEF MayAbsorb, Deliverable, RecordsInv, RecordsTypeOK, Rows
<1>3. DOMAIN new = {u} /\ new[u].tier = "long_term"
  BY <1>2 DEF Moved, Row
<1> HIDE DEF new
<1>4. /\ DOMAIN memory' = Rows \cup DOMAIN new
      /\ \A x \in DOMAIN new : memory'[x] = new[x]
      /\ \A x \in Rows : x \notin DOMAIN new => memory'[x] = memory[x]
  BY <1>1, CommitIs
<1>5. ToldOf("promoted", memory', u)
  BY <1>3, <1>4 DEF ToldOf, Deliverable
<1>6. \A x \in Journal(memory) \ {u} : x \in Journal(memory')
  BY <1>3, <1>4 DEF Journal, Deliverable, Rows
<1>7. Absorbs({u}, "promoted")
  BY <1>5, <1>6 DEF Absorbs
<1> QED BY <1>1, <1>7 DEF Disposes, MayAbsorb

\* A verb shows and changes nothing, or disposes.
LEMMA VerbIs ==
    ASSUME RecordsInv, NEW o \in Owners, VerbStep(o)
    PROVE  /\ UNCHANGED calls
           /\ \/ UNCHANGED <<memory, runs, groups>>
              \/ \E g, absorb, d : Disposes(o, g, absorb, d)
<1>1. ASSUME NEW g, NEW stale, GroupConflict(o, g, stale)
      PROVE  UNCHANGED <<memory, runs, groups, calls>>
  BY <1>1 DEF GroupConflict, Mint, groupVars
<1>2. (\E g, absorb, d : Disposes(o, g, absorb, d)) \/ UNCHANGED <<memory, runs, groups, calls>>
  BY <1>1, MergeDisposes, PromotionDisposes, DiscardDisposes, LiftDisposes DEF VerbStep
<1>3. \A g, absorb, d : Disposes(o, g, absorb, d) => UNCHANGED calls
  BY DEF Disposes, Settle
<1> QED BY <1>2, <1>3


\* Its table half.
LEMMA SettleIs ==
    ASSUME GroupsOK(runs, groups), NEW g \in DOMAIN groups, NEW absorb, NEW d, Settle(g, absorb, d)
    PROVE  /\ groups' = [groups EXCEPT ![g] = SettledGroup(groups, g, absorb, d)]
           /\ OpenGroups(groups', g[1]) = {} => runs' = Closed(runs, g[1], "complete")
           /\ OpenGroups(groups', g[1]) # {} => runs' = Refreshed(runs, g[1])
<1> DEFINE gs == [groups EXCEPT ![g].members = Disposed(groups, g, absorb, d),
                                ![g].status = IF OpenMembers(groups, g) \subseteq absorb
                                              THEN "complete" ELSE @]
<1>1. gs = [groups EXCEPT ![g] = SettledGroup(groups, g, absorb, d)]
  BY DEF SettledGroup, GroupsOK
<1>2. /\ groups' = gs
      /\ runs' = IF OpenGroups(gs, g[1]) = {}
                 THEN Closed(runs, g[1], "complete") ELSE Refreshed(runs, g[1])
  BY DEF Settle
<1> HIDE DEF gs
<1> QED BY <1>1, <1>2

LEMMA DisposalKeepsTables ==
    ASSUME Tables(runs, groups), NEW o \in Owners, NEW g, NEW absorb, NEW d,
           Disposes(o, g, absorb, d)
    PROVE  /\ Tables(runs', groups')
           /\ DOMAIN groups' = DOMAIN groups
           /\ \A h \in DOMAIN groups \ {g} : groups'[h] = groups[h]
           /\ Revised(groups[g], groups'[g])
           /\ \A u \in DOMAIN groups[g].members :
                 /\ groups[g].members[u] = NULL /\ u \in absorb => groups'[g].members[u] = d
                 /\ u \notin absorb => groups'[g].members[u] = groups[g].members[u]
           /\ DOMAIN runs' = DOMAIN runs
           /\ \A r \in DOMAIN runs : runs'[r].status \in {runs[r].status, "complete"}
<1> DEFINE new == SettledGroup(groups, g, absorb, d)
<1>1. /\ g \in DOMAIN groups /\ g[1] \in DOMAIN runs
      /\ groups[g].status = "served" /\ runs[g[1]].status = "active"
      /\ GroupOK(groups[g]) /\ d \in Dispositions /\ Settle(g, absorb, d)
  BY DEF Disposes, GroupAuthorized, EffectivelyActive, Tables, GroupsOK, Dispositions
<1>2. /\ groups' = [groups EXCEPT ![g] = new]
      /\ OpenGroups(groups', g[1]) = {} => runs' = Closed(runs, g[1], "complete")
      /\ OpenGroups(groups', g[1]) # {} => runs' = Refreshed(runs, g[1])
  BY <1>1, SettleIs DEF Tables
<1>3. /\ GroupOK(new) /\ new.status \in {"served", "complete"}
      /\ Revised(groups[g], new)
      /\ \A u \in DOMAIN groups[g].members :
            /\ groups[g].members[u] = NULL /\ u \in absorb => new.members[u] = d
            /\ u \notin absorb => new.members[u] = groups[g].members[u]
  BY <1>1, SettledIs
<1> HIDE DEF new
<1>4. /\ DOMAIN groups' = DOMAIN groups
      /\ groups' = [h \in DOMAIN groups' |-> groups'[h]]
      /\ groups'[g] = new
      /\ \A h \in DOMAIN groups \ {g} : groups'[h] = groups[h]
  BY <1>1, <1>2 DEF Tables, GroupsOK
<1>5. /\ RunsOK(runs') /\ DOMAIN runs' = DOMAIN runs
      /\ \A q \in DOMAIN runs \ {g[1]} : runs'[q].status = runs[q].status
      /\ OpenGroups(groups', g[1]) = {} => runs'[g[1]].status = "complete"
      /\ OpenGroups(groups', g[1]) # {} => runs'[g[1]].status = "active"
  <2>1. PICK r \in DOMAIN runs : r = g[1]
    BY <1>1
  <2>2. RunsOK(runs) /\ runs[r].status = "active"
    BY <1>1, <2>1 DEF Tables
  <2>3. CASE OpenGroups(groups', r) = {}
    <3>1. runs' = Closed(runs, r, "complete")
      BY <1>2, <2>1, <2>3
    <3> QED BY <2>1, <2>2, <2>3, <3>1, ClosedIs
  <2>4. CASE OpenGroups(groups', r) # {}
    <3>1. runs' = Refreshed(runs, r)
      BY <1>2, <2>1, <2>4
    <3> QED BY <2>1, <2>2, <2>4, <3>1, RefreshedIs
  <2> QED BY <2>3, <2>4
<1>6. GroupsOK(runs', groups')
  <2>1. \A h \in DOMAIN groups : GroupOK(groups'[h])
    BY <1>3, <1>4 DEF Tables, GroupsOK
  <2>2. \A h, i \in DOMAIN groups :
            h[1] = i[1] /\ groups'[h].status = "pending" /\ groups'[i].status = "served"
               => i[2] < h[2]
    <3> SUFFICES ASSUME NEW h \in DOMAIN groups, NEW i \in DOMAIN groups, h[1] = i[1],
                        groups'[h].status = "pending", groups'[i].status = "served"
                 PROVE  i[2] < h[2]
      OBVIOUS
    <3>1. groups[h].status = "pending" /\ groups[i].status = "served"
      BY <1>1, <1>3, <1>4
    <3> QED BY <3>1 DEF Tables, GroupsOK
  <2> QED BY <1>4, <1>5, <2>1, <2>2 DEF Tables, GroupsOK
<1>7. Matching(runs', groups')
  <2> SUFFICES ASSUME NEW q \in DOMAIN runs
               PROVE  /\ runs'[q].status = "active" => OpenGroups(groups', q) # {}
                      /\ runs'[q].status = "complete" => OpenGroups(groups', q) = {}
    BY <1>5 DEF Matching
  <2>1. CASE q = g[1]
    BY <1>5, <2>1
  <2>2. CASE q # g[1]
    <3>1. OpenGroups(groups', q) = OpenGroups(groups, q)
      BY <1>4, <2>2 DEF OpenGroups
    <3> QED BY <1>5, <2>2, <3>1 DEF Tables, Matching
  <2> QED BY <2>1, <2>2
<1>8. \A r \in DOMAIN runs : runs'[r].status \in {runs[r].status, "complete"}
  BY <1>1, <1>5
<1> QED BY <1>3, <1>4, <1>5, <1>6, <1>7, <1>8 DEF Tables

LEMMA DisposalTells ==
    ASSUME RecordsInv, [Next]_vars, Tables(runs, groups), Told(groups, memory),
           NEW o \in Owners, NEW g, NEW absorb, NEW d, Disposes(o, g, absorb, d)
    PROVE  Told(groups', memory')
<1> SUFFICES ASSUME NEW h \in DOMAIN groups', NEW u \in DOMAIN groups'[h].members
             PROVE  ToldOf(groups'[h].members[u], memory', u)
  BY DEF Told
<1>1. /\ h \in DOMAIN groups /\ u \in DOMAIN groups[h].members
      /\ groups'[h].members[u] # groups[h].members[u] =>
            h = g /\ u \in absorb /\ groups'[h].members[u] = d
  BY DisposalKeepsTables DEF Revised
<1>2. ToldOf(groups[h].members[u], memory', u)
  BY <1>1, ToldStaysTold DEF Told
<1>3. \A x \in absorb : ToldOf(d, memory', x)
  BY DEF Disposes, Absorbs
<1> QED BY <1>1, <1>2, <1>3

-----------------------------------------------------------------------------
(* A planning call and the clock. *)

\* The plan that o's transaction inserts.
Inserts(o, plan) ==
    /\ calls[o] # NULL /\ calls[o].snapshot # NULL
    /\ NewRun <= MaxRuns
    /\ plan \in Plans(memory)
    /\ calls'[o] = NULL

PlanWritten(o, plan) ==
    /\ Inserts(o, plan)
    /\ calls[o].verb = "plan_groups"
    /\ runs' = RunsPlanned(o, plan)
    /\ groups' = GroupsPlanned(plan)
    /\ memory' = memory

PlanServed(o, plan) ==
    /\ Inserts(o, plan)
    /\ EffectiveRuns = {}
    /\ ServeFrom(o, NewRun, RunsPlanned(o, plan), GroupsPlanned(plan))

\* A call looks, serves the worker's own run, or writes a plan, which the verb
\* that is for it serves in the same step.
LEMMA PlanningIs ==
    ASSUME RecordsInv, CallsOK, NEW o \in Owners, PlanningStep(o)
    PROVE  \/ UNCHANGED <<memory, runs, groups>>
           \/ \E r \in EffectiveRuns : ServeFrom(o, r, runs, groups)
           \/ \E plan : PlanWritten(o, plan) \/ PlanServed(o, plan)
<1>1. CASE ServeExisting(o)
  BY <1>1 DEF ServeExisting
<1>2. CASE FindNoRun(o) \/ TakeSnapshot(o) \/ CallFails(o)
  BY <1>2 DEF FindNoRun, TakeSnapshot, CallFails, recordVars
<1>3. CASE WritePlan(o)
  <2>1. PICK plan \in PlansToWrite(calls[o].snapshot) :
            runs' = RunsPlanned(o, plan) /\ groups' = GroupsPlanned(plan)
    BY <1>3 DEF WritePlan
  <2>2. /\ calls[o] # NULL /\ calls[o].snapshot # NULL /\ calls[o].verb = "plan_groups"
        /\ NewRun <= MaxRuns /\ memory' = memory /\ calls'[o] = NULL
    BY <1>3 DEF WritePlan, recordVars, CallsOK
  <2>3. plan \in Plans(memory)
    BY <2>1, <2>2, WrittenPlansAreFresh
  <2> QED BY <2>1, <2>2, <2>3 DEF PlanWritten, Inserts
<1>4. CASE PlanThenServe(o)
  <2>1. calls[o] # NULL /\ calls[o].snapshot # NULL /\ calls'[o] = NULL
    BY <1>4 DEF PlanThenServe, CallsOK
  <2>2. ASSUME EffectiveRuns = {}, NewRun <= MaxRuns,
               NEW plan \in PlansToWrite(calls[o].snapshot),
               ServeFrom(o, NewRun, RunsPlanned(o, plan), GroupsPlanned(plan))
        PROVE  PlanServed(o, plan)
    <3>1. plan \in Plans(memory)
      BY <2>1, <2>2, WrittenPlansAreFresh
    <3> QED BY <2>1, <2>2, <3>1 DEF PlanServed, Inserts
  <2> QED BY <1>4, <2>2 DEF PlanThenServe, recordVars
<1> QED BY <1>1, <1>2, <1>3, <1>4 DEF PlanningStep

\* A plan written and then served from.
LEMMA PlanServedKeepsTables ==
    ASSUME RecordsInv, Tables(runs, groups), Told(groups, memory),
           NEW o \in Owners, NEW plan, PlanServed(o, plan)
    PROVE  /\ Tables(runs', groups')
           /\ Told(groups', memory)
           /\ ServedFrom(NewRun, GroupsPlanned(plan))
           /\ memory' = memory
           /\ DOMAIN runs' = DOMAIN RunsPlanned(o, plan)
<1> DEFINE rs == RunsPlanned(o, plan)
           gs == GroupsPlanned(plan)
<1>1. /\ plan \in Plans(memory) /\ NewRun <= MaxRuns
      /\ ServeFrom(o, NewRun, rs, gs)
  BY DEF PlanServed, Inserts
<1>2. Tables(rs, gs)
  BY <1>1, PlanKeepsTables DEF RecordsInv, RecordsTypeOK
<1>3. NewRun \in DOMAIN rs
  BY <1>1, RunsPlannedIs DEF Tables
<1>4. Told(gs, memory)
  BY <1>1, PlanTells
<1> HIDE DEF rs, gs
<1>5. /\ Tables(runs', groups') /\ ServedFrom(NewRun, gs)
      /\ memory' = memory /\ DOMAIN runs' = DOMAIN rs
  BY <1>1, <1>2, <1>3, ServeKeepsTables
<1>6. Told(groups', memory)
  BY <1>4, <1>5, ServeTells
<1> QED BY <1>5, <1>6 DEF rs, gs

LEMMA TickKeepsTables ==
    ASSUME Tables(runs, groups), Tick
    PROVE  /\ Tables(runs', groups')
           /\ DOMAIN runs' = DOMAIN runs
           /\ \A r \in DOMAIN runs : runs'[r].status = runs[r].status
<1>1. PICK r \in EffectiveRuns : runs' = [runs EXCEPT ![r].remaining = @ - 1]
  BY DEF Tick
<1>2. /\ r \in DOMAIN runs /\ runs[r].remaining \in -1 .. Lease
      /\ ~(runs[r].remaining < 0)
  BY <1>1 DEF EffectiveRuns, EffectivelyActive, Lapsed, Tables, RunsOK, RunRow
<1>3. runs[r].remaining - 1 \in -1 .. Lease
  BY <1>2, LeaseAssumption
<1>4. PICK remaining \in -1 .. Lease : runs' = [runs EXCEPT ![r].remaining = remaining]
  BY <1>1, <1>3
<1> DEFINE new == [runs EXCEPT ![r].remaining = remaining]
<1>5. /\ RunsOK(new)
      /\ DOMAIN new = DOMAIN runs
      /\ \A q \in DOMAIN runs : new[q].status = runs[q].status
  BY <1>2, LeaseMoves DEF Tables
<1>6. runs' = new /\ groups' = groups
  BY <1>4 DEF Tick
<1> HIDE DEF new
<1>7. GroupsOK(runs', groups')
  BY <1>5, <1>6 DEF Tables, GroupsOK
<1>8. Matching(runs', groups')
  BY <1>5, <1>6 DEF Tables, Matching
<1> QED BY <1>5, <1>6, <1>7, <1>8 DEF Tables


-----------------------------------------------------------------------------
(* The inductive invariant.  What a call carries is in it because a plan is   *)
(* inserted long after it was computed, and what the member table says        *)
(* because a serve vacates members by looking at the rows once.               *)

ConsolidationInv ==
    /\ RecordsInv
    /\ Tables(runs, groups)
    /\ Told(groups, memory)
    /\ CallsOK

LEMMA CallsStayOK ==
    ASSUME RecordsInv, CallsOK, [Next]_vars
    PROVE  CallsOK'
<1>1. ASSUME NEW o \in Owners,
             calls'[o] # NULL, calls'[o].snapshot # NULL, calls'[o] = calls[o]
      PROVE  \E m : Past(m)' /\ PlannedFrom(calls'[o].snapshot, m)
  <2>1. PICK m : Past(m) /\ PlannedFrom(calls[o].snapshot, m)
    BY <1>1 DEF CallsOK
  <2>2. Past(m)'
    BY <2>1, PastStaysPast
  <2> QED BY <1>1, <2>1, <2>2
<1>2. ASSUME NEW o \in Owners, memory' = memory, calls'[o].snapshot \in Snapshots(memory)
      PROVE  \E m : Past(m)' /\ PlannedFrom(calls'[o].snapshot, m)
  <2>1. PICK plan \in Plans(memory) :
            calls'[o].snapshot = [fingerprint |-> Fingerprint(memory), plan |-> plan]
    BY <1>2 DEF Snapshots
  <2>2. PlannedFrom(calls'[o].snapshot, memory)
    BY <2>1 DEF PlannedFrom
  <2>3. PICK m : m = memory
    OBVIOUS
  <2>4. Past(m)
    BY <2>3, NowIsPast
  <2>5. Past(m)'
    BY <2>4, PastStaysPast
  <2> QED BY <2>2, <2>3, <2>5
<1>3. /\ calls' = [o \in Owners |-> calls'[o]]
      /\ \A o \in Owners :
            \/ calls'[o] = calls[o]
            \/ calls'[o] = NULL
            \/ calls'[o].snapshot = NULL
            \/ memory' = memory /\ calls'[o].snapshot \in Snapshots(memory)
  <2>0. calls = [o \in Owners |-> calls[o]]
    BY DEF CallsOK
  <2>1. CASE UNCHANGED calls
    BY <2>0, <2>1
  <2>2. ASSUME NEW o \in Owners, NEW call, calls' = [calls EXCEPT ![o] = call],
               \/ call = NULL
               \/ call.snapshot = NULL
               \/ memory' = memory /\ call.snapshot \in Snapshots(memory)
        PROVE  /\ calls' = [q \in Owners |-> calls'[q]]
               /\ \A q \in Owners :
                     \/ calls'[q] = calls[q]
                     \/ calls'[q] = NULL
                     \/ calls'[q].snapshot = NULL
                     \/ memory' = memory /\ calls'[q].snapshot \in Snapshots(memory)
    BY <2>0, <2>2
  <2>3. ASSUME NEW o \in Owners, PlanningStep(o)
        PROVE  \/ UNCHANGED calls
               \/ \E call :
                     /\ calls' = [calls EXCEPT ![o] = call]
                     /\ \/ call = NULL
                        \/ call.snapshot = NULL
                        \/ memory' = memory /\ call.snapshot \in Snapshots(memory)
    <3>1. CASE ServeExisting(o)
      BY <3>1 DEF ServeExisting
    <3>2. CASE FindNoRun(o)
      <4> DEFINE call == [verb |-> "next_group", snapshot |-> NULL]
      <4>1. calls' = [calls EXCEPT ![o] = call] /\ call.snapshot = NULL
        BY <3>2 DEF FindNoRun
      <4> QED BY <4>1
    <3>3. CASE TakeSnapshot(o)
      <4>1. PICK s \in Snapshots(memory) :
                calls' = [calls EXCEPT ![o] =
                    [verb |-> IF calls[o] = NULL THEN "plan_groups" ELSE "next_group",
                     snapshot |-> s]]
        BY <3>3 DEF TakeSnapshot
      <4> DEFINE call == [verb |-> IF calls[o] = NULL THEN "plan_groups" ELSE "next_group",
                          snapshot |-> s]
      <4>2. calls' = [calls EXCEPT ![o] = call] /\ call.snapshot = s
        BY <4>1
      <4>3. memory' = memory
        BY <3>3 DEF TakeSnapshot, recordVars
      <4> HIDE DEF call
      <4> QED BY <4>2, <4>3
    <3>4. CASE WritePlan(o) \/ PlanThenServe(o) \/ CallFails(o)
      BY <3>4 DEF WritePlan, PlanThenServe, CallFails
    <3> QED BY <2>3, <3>1, <3>2, <3>3, <3>4 DEF PlanningStep
  <2>4. \/ UNCHANGED calls
        \/ \E o \in Owners : PlanningStep(o)
    BY VerbIs DEF Next, PrimaryAgentStep, groupVars, Tick, vars
  <2> QED BY <2>1, <2>2, <2>3, <2>4
<1> QED BY <1>1, <1>2, <1>3 DEF CallsOK


\* What a step is to the tables.
LEMMA StepIs ==
    ASSUME ConsolidationInv, [Next]_vars
    PROVE  \/ UNCHANGED groupVars
           \/ UNCHANGED <<memory, runs, groups>>
           \/ Tick
           \/ \E o \in Owners, r \in EffectiveRuns : ServeFrom(o, r, runs, groups)
           \/ \E o \in Owners : \E plan : PlanWritten(o, plan) \/ PlanServed(o, plan)
           \/ \E o \in Owners : \E g, absorb, d : Disposes(o, g, absorb, d)
<1>1. CASE PrimaryAgentStep \/ UNCHANGED vars
  BY <1>1 DEF PrimaryAgentStep, vars, groupVars
<1>2. ASSUME NEW o \in Owners, PlanningStep(o)
      PROVE  \/ UNCHANGED <<memory, runs, groups>>
             \/ \E r \in EffectiveRuns : ServeFrom(o, r, runs, groups)
             \/ \E plan : PlanWritten(o, plan) \/ PlanServed(o, plan)
  BY <1>2, PlanningIs DEF ConsolidationInv
<1>3. ASSUME NEW o \in Owners, VerbStep(o)
      PROVE  \/ UNCHANGED <<memory, runs, groups>>
             \/ \E g, absorb, d : Disposes(o, g, absorb, d)
  BY <1>3, VerbIs DEF ConsolidationInv
<1> QED BY <1>1, <1>2, <1>3 DEF Next

LEMMA StepKeepsInv ==
    ASSUME ConsolidationInv, [Next]_vars
    PROVE  ConsolidationInv'
<1> USE DEF ConsolidationInv
<1>1. RecordsInv'
  <2>1. RecordsInv /\ UNCHANGED recordVars => RecordsInv'
    BY DEF RecordsInv, RecordsTypeOK, ReceiptsCurrent, EdgesLegal, Rows, recordVars
  <2> QED BY <2>1, StepShowsWritesOrRests, ShowsKeepsInv, WritesKeepsInv
<1>2. CallsOK'
  BY CallsStayOK
<1>3. CASE UNCHANGED <<runs, groups>>
  <2>1. Told(groups, memory')
    BY ToldStaysTold
  <2> QED BY <1>1, <1>2, <1>3, <2>1
<1>4. CASE Tick
  <2>1. Told(groups, memory') /\ groups' = groups
    BY <1>4, ToldStaysTold DEF Tick
  <2>2. Tables(runs', groups')
    BY <1>4, TickKeepsTables
  <2> QED BY <1>1, <1>2, <2>1, <2>2
<1>5. ASSUME NEW o \in Owners, NEW r \in EffectiveRuns, ServeFrom(o, r, runs, groups)
      PROVE  ConsolidationInv'
  <2>1. r \in DOMAIN runs
    BY DEF EffectiveRuns
  <2>2. Tables(runs', groups') /\ ServedFrom(r, groups) /\ memory' = memory
    BY <1>5, <2>1, ServeKeepsTables
  <2>3. Told(groups', memory)
    BY <2>2, ServeTells
  <2> QED BY <1>1, <1>2, <2>2, <2>3
<1>6. ASSUME NEW o \in Owners, NEW plan, PlanWritten(o, plan)
      PROVE  ConsolidationInv'
  <2>1. /\ plan \in Plans(memory) /\ NewRun <= MaxRuns
        /\ runs' = RunsPlanned(o, plan) /\ groups' = GroupsPlanned(plan) /\ memory' = memory
    BY <1>6 DEF PlanWritten, Inserts
  <2>2. Tables(RunsPlanned(o, plan), GroupsPlanned(plan))
    BY <2>1, PlanKeepsTables DEF RecordsInv, RecordsTypeOK
  <2>3. Told(GroupsPlanned(plan), memory)
    BY <2>1, PlanTells
  <2> QED BY <1>1, <1>2, <2>1, <2>2, <2>3
<1>7. ASSUME NEW o \in Owners, NEW plan, PlanServed(o, plan)
      PROVE  ConsolidationInv'
  <2>1. Tables(runs', groups') /\ Told(groups', memory) /\ memory' = memory
    BY <1>7, PlanServedKeepsTables
  <2> QED BY <1>1, <1>2, <2>1
<1>8. ASSUME NEW o \in Owners, NEW g, NEW absorb, NEW d, Disposes(o, g, absorb, d)
      PROVE  ConsolidationInv'
  <2>1. Tables(runs', groups')
    BY <1>8, DisposalKeepsTables
  <2>2. Told(groups', memory')
    BY <1>8, DisposalTells
  <2> QED BY <1>1, <1>2, <2>1, <2>2
<1> QED BY <1>3, <1>4, <1>5, <1>6, <1>7, <1>8, StepIs DEF groupVars

\* The tables are in shape, the member table is true and what calls carry is
\* worth writing, however workers, primary agents and the clock interleave.
THEOREM ConsolidationInvHolds == Spec => []ConsolidationInv
<1>1. Init => ConsolidationInv
  <2> SUFFICES ASSUME Init PROVE ConsolidationInv
    OBVIOUS
  <2>1. runs = <<>> /\ groups = <<>> /\ calls = [o \in Owners |-> NULL]
    BY DEF Init
  <2>2. DOMAIN runs = {} /\ DOMAIN groups = {} /\ groups = [g \in {} |-> groups[g]]
        /\ runs \in [{} -> RunRow]
    BY <2>1
  <2>3. DOMAIN runs = 1 .. 0 /\ 0 \in 0 .. MaxRuns
    BY <2>2, RunsAssumption
  <2>4. Tables(runs, groups)
    BY <2>2, <2>3 DEF Tables, RunsOK, GroupsOK, Matching
  <2>5. Told(groups, memory)
    BY <2>2 DEF Told
  <2>6. CallsOK
    BY <2>1 DEF CallsOK
  <2> QED BY <2>4, <2>5, <2>6, InitialInv DEF Init, ConsolidationInv
<1>2. ConsolidationInv /\ [Next]_vars => ConsolidationInv'
  BY StepKeepsInv
<1> QED BY <1>1, <1>2, PTL DEF Spec

-----------------------------------------------------------------------------
(* What follows of every state. *)

\* The consolidation tables keep their shape (runs.py, groups.py).
THEOREM TablesTypeCorrect == Spec => []TypeOK
<1>1. ConsolidationInv => TypeOK
  <2> SUFFICES ASSUME ConsolidationInv PROVE TypeOK
    OBVIOUS
  <2>1. \A g \in DOMAIN groups : groups[g] \in GroupRow
    BY DEF ConsolidationInv, Tables, GroupsOK, GroupOK
  <2>2. groups \in [DOMAIN groups -> GroupRow] /\ DOMAIN groups \subseteq (DOMAIN runs) \X (Nat \ {0})
    BY <2>1 DEF ConsolidationInv, Tables, GroupsOK
  <2>3. DOMAIN calls = Owners
    BY DEF ConsolidationInv, CallsOK
  <2>4. /\ runs \in [DOMAIN runs -> RunRow]
        /\ DOMAIN runs \in {1 .. n : n \in 0 .. MaxRuns}
    BY DEF ConsolidationInv, Tables, RunsOK
  <2> QED BY <2>2, <2>3, <2>4 DEF TypeOK, ConsolidationInv, RecordsInv, RunRow
<1> QED BY <1>1, ConsolidationInvHolds, PTL

\* The store never holds two active runs, the case stored_active refuses to
\* resolve (invariant 15).
THEOREM OneRunIsActive == Spec => []OneActiveRun
<1>1. ConsolidationInv => OneActiveRun
  BY DEF ConsolidationInv, Tables, RunsOK, OneActiveRun
<1> QED BY <1>1, ConsolidationInvHolds, PTL

\* No group is left uncloseable and none closes over an undecided row, nor a
\* run over an open group (invariants 16 and 17).
THEOREM OpenMeansUndecided == Spec => []OpenIffUndecided
<1>1. ConsolidationInv => OpenIffUndecided
  <2> SUFFICES ASSUME ConsolidationInv PROVE OpenIffUndecided
    OBVIOUS
  <2>1. \A g \in DOMAIN groups : GroupOK(groups[g])
    BY DEF ConsolidationInv, Tables, GroupsOK
  <2>2. \A g \in DOMAIN groups :
            /\ groups[g].status \in OpenStatuses => OpenMembers(groups, g) # {}
            /\ groups[g].status = "complete" => OpenMembers(groups, g) = {}
    BY <2>1 DEF GroupOK, OpenMembers
  <2> QED BY <2>2 DEF OpenIffUndecided, ConsolidationInv, Tables, Matching
<1> QED BY <1>1, ConsolidationInvHolds, PTL

\* Serving by status first never skips a group (next_candidate's comment).
THEOREM ServedComeFirst == Spec => []ServedArePrefix
<1>1. ConsolidationInv => ServedArePrefix
  BY DEF ConsolidationInv, Tables, GroupsOK, ServedArePrefix
<1> QED BY <1>1, ConsolidationInvHolds, PTL

\* No group is delivered more often than max_group_serves, and only one that
\* was is deferred.
THEOREM ServesStayBounded == Spec => []ServesBounded
<1>1. ConsolidationInv => ServesBounded
  <2> SUFFICES ASSUME ConsolidationInv, NEW g \in DOMAIN groups
               PROVE  /\ groups[g].serve_count <= MaxServes
                      /\ groups[g].status = "pending" => groups[g].serve_count = 0
                      /\ groups[g].status = "deferred" => groups[g].serve_count = MaxServes
    BY DEF ServesBounded
  <2>1. GroupOK(groups[g])
    BY DEF ConsolidationInv, Tables, GroupsOK
  <2>2. groups[g].serve_count \in 0 .. MaxServes
    BY <2>1, GroupColumns DEF GroupOK
  <2> QED BY <2>1, <2>2, ServesAssumption DEF GroupOK
<1> QED BY <1>1, ConsolidationInvHolds, PTL

\* Where the member table says a row went is where it is, whatever the primary
\* agents did since.
THEOREM DispositionsStayTrue == Spec => []DispositionsTrue
<1>1. ConsolidationInv => DispositionsTrue
  BY DEF ConsolidationInv, Told, ToldOf, DispositionsTrue
<1> QED BY <1>1, ConsolidationInvHolds, PTL

-----------------------------------------------------------------------------
(* ... and of every step. *)

\* A row leaves the journal through consolidation only as an undecided member
\* of a served group of the active run, and is recorded as it does.
THEOREM NothingIsLost == Spec => NothingLost
<1> DEFINE Kept ==
        \A u \in Journal(memory) : u \notin Journal(memory') =>
           \/ UNCHANGED groupVars
           \/ \E g \in DOMAIN groups :
                 /\ EffectivelyActive(runs, g[1])
                 /\ groups[g].status = "served"
                 /\ u \in OpenMembers(groups, g)
                 /\ groups'[g].members[u] \in Dispositions \ {"vacated"}
<1>1. ConsolidationInv /\ [Next]_vars => [Kept]_vars
  <2> SUFFICES ASSUME ConsolidationInv, [Next]_vars,
                      NEW u \in Journal(memory), u \notin Journal(memory'),
                      ~UNCHANGED groupVars
               PROVE  \E g \in DOMAIN groups :
                         /\ EffectivelyActive(runs, g[1])
                         /\ groups[g].status = "served"
                         /\ u \in OpenMembers(groups, g)
                         /\ groups'[g].members[u] \in Dispositions \ {"vacated"}
    OBVIOUS
  <2>1. memory' # memory
    OBVIOUS
  <2>2. \A o \in Owners : \A plan : ~PlanWritten(o, plan) /\ ~PlanServed(o, plan)
    BY <2>1, PlanServedKeepsTables DEF PlanWritten, ConsolidationInv
  <2>3. \A o \in Owners, r \in EffectiveRuns : ~ServeFrom(o, r, runs, groups)
    BY <2>1, ServeKeepsTables DEF EffectiveRuns, ConsolidationInv
  <2>4a. PICK o \in Owners : \E g, absorb, d : Disposes(o, g, absorb, d)
    BY <2>1, <2>2, <2>3, StepIs DEF Tick, recordVars
  <2>4. PICK g, absorb, d : Disposes(o, g, absorb, d)
    BY <2>4a
  <2>5. /\ g \in DOMAIN groups /\ u \in absorb /\ absorb \subseteq OpenMembers(groups, g)
        /\ EffectivelyActive(runs, g[1]) /\ groups[g].status = "served"
        /\ d \in {"merged", "promoted", "discarded"}
    BY <2>4 DEF Disposes, Absorbs, GroupAuthorized
  <2>6. groups'[g].members[u] = d
    BY <2>4, <2>5, DisposalKeepsTables DEF ConsolidationInv, OpenMembers
  <2> QED BY <2>5, <2>6 DEF Dispositions
<1> QED BY <1>1, ConsolidationInvHolds, PTL DEF Spec, NothingLost

\* The groups of a run that is not effectively active stand still: a displaced
\* or lapsed worker's late calls change nothing.
THEOREM StaleRunsStandStill == Spec => StaleRunsFrozen
<1> DEFINE Still == \A g \in DOMAIN groups :
                       ~EffectivelyActive(runs, g[1]) => groups'[g] = groups[g]
<1>1. ConsolidationInv /\ [Next]_vars => [Still]_vars
  <2> SUFFICES ASSUME ConsolidationInv, [Next]_vars,
                      NEW g \in DOMAIN groups, ~EffectivelyActive(runs, g[1])
               PROVE  groups'[g] = groups[g]
    OBVIOUS
  <2>1. g[1] \in DOMAIN runs /\ g[1] \notin EffectiveRuns /\ g[1] # NewRun
    BY NewRunIs DEF ConsolidationInv, Tables, GroupsOK, EffectiveRuns
  <2>2. ASSUME NEW o \in Owners, NEW r \in EffectiveRuns, ServeFrom(o, r, runs, groups)
        PROVE  groups'[g] = groups[g]
    <3>1. ServedFrom(r, groups)
      BY <2>2, ServeKeepsTables DEF EffectiveRuns, ConsolidationInv
    <3> QED BY <2>1, <3>1 DEF ServedFrom
  <2>3. ASSUME NEW plan \in Plans(memory)
        PROVE  g \in DOMAIN GroupsPlanned(plan) /\ GroupsPlanned(plan)[g] = groups[g]
    <3>1. PICK k \in Nat : DOMAIN plan = 1 .. k
      BY PlansAre
    <3> QED BY <3>1, GroupsPlannedIs DEF ConsolidationInv, Tables
  <2>4. ASSUME NEW o \in Owners, NEW plan, PlanWritten(o, plan) \/ PlanServed(o, plan)
        PROVE  groups'[g] = groups[g]
    <3>1. CASE PlanWritten(o, plan)
      BY <2>3, <3>1 DEF PlanWritten, Inserts
    <3>2. CASE PlanServed(o, plan)
      <4>1. ServedFrom(NewRun, GroupsPlanned(plan))
        BY <3>2, PlanServedKeepsTables DEF ConsolidationInv
      <4>2. plan \in Plans(memory)
        BY <3>2 DEF PlanServed, Inserts
      <4> QED BY <2>1, <2>3, <4>1, <4>2 DEF ServedFrom
    <3> QED BY <2>4, <3>1, <3>2
  <2>5. ASSUME NEW o \in Owners, NEW h, NEW absorb, NEW d, Disposes(o, h, absorb, d)
        PROVE  groups'[g] = groups[g]
    <3>1. h # g
      BY <2>5 DEF Disposes, GroupAuthorized
    <3> QED BY <2>5, <3>1, DisposalKeepsTables DEF ConsolidationInv
  <2> QED BY <2>2, <2>4, <2>5, StepIs DEF Tick, groupVars
<1> QED BY <1>1, ConsolidationInvHolds, PTL DEF Spec, StaleRunsFrozen

\* Only plan_groups displaces a worker whose run is effectively active.
THEOREM OnlyPlanGroupsDisplaces == Spec => OnlyPlanGroupsTakesOver
<1> DEFINE Asked == \A r \in EffectiveRuns :
                       runs'[r].status \in {"abandoned", "taken_over"} =>
                          \E o \in Owners : calls[o] # NULL /\ calls'[o] = NULL /\
                                            calls[o].verb = "plan_groups"
<1>1. ConsolidationInv /\ [Next]_vars => [Asked]_vars
  <2> SUFFICES ASSUME ConsolidationInv, [Next]_vars,
                      NEW r \in EffectiveRuns,
                      runs'[r].status \in {"abandoned", "taken_over"}
               PROVE  \E o \in Owners : calls[o] # NULL /\ calls'[o] = NULL /\
                                        calls[o].verb = "plan_groups"
    OBVIOUS
  <2>1. r \in DOMAIN runs /\ runs[r].status = "active"
    BY DEF EffectiveRuns, EffectivelyActive
  <2>2. runs'[r].status \notin {runs[r].status, "complete"}
    BY <2>1
  <2>3. ~Tick /\ runs' # runs
    BY <2>1, <2>2, TickKeepsTables DEF ConsolidationInv
  <2>4. \A o \in Owners, q \in EffectiveRuns : ~ServeFrom(o, q, runs, groups)
    <3> SUFFICES ASSUME NEW o \in Owners, NEW q \in EffectiveRuns, ServeFrom(o, q, runs, groups)
                 PROVE  FALSE
      OBVIOUS
    <3>1. q \in DOMAIN runs
      BY DEF EffectiveRuns
    <3> QED BY <2>1, <2>2, <3>1, ServeKeepsTables DEF ConsolidationInv
  <2>5. \A o \in Owners : \A g, absorb, d : ~Disposes(o, g, absorb, d)
    BY <2>1, <2>2, DisposalKeepsTables DEF ConsolidationInv
  <2>6. \A o \in Owners : \A plan : ~PlanServed(o, plan)
    BY DEF PlanServed
  <2>7a. PICK o \in Owners : \E plan : PlanWritten(o, plan)
    BY <2>3, <2>4, <2>5, <2>6, StepIs DEF groupVars
  <2>7. PICK plan : PlanWritten(o, plan)
    BY <2>7a
  <2> QED BY <2>7 DEF PlanWritten, Inserts
<1> QED BY <1>1, ConsolidationInvHolds, PTL DEF Spec, OnlyPlanGroupsTakesOver

\* A run is planned from the journal as it stands in the transaction that
\* writes it, even from a snapshot taken before (the fingerprint of planning).
THEOREM PlansAreWrittenFresh == Spec => PlansAreFresh
<1> DEFINE new(r) == {g \in DOMAIN groups' : g[1] = r}
           m(g) == DOMAIN groups'[g].members
           Fresh == \A r \in DOMAIN runs' \ DOMAIN runs :
                       /\ (UNION {m(g) : g \in new(r)}) = Journal(memory)
                       /\ \A g, h \in new(r) : g # h => m(g) \cap m(h) = {}
                       /\ \A g \in new(r) : groups'[g].anchor \in LongTerm(memory) \cup {NULL}
<1>1. ConsolidationInv /\ [Next]_vars => [Fresh]_vars
  <2> SUFFICES ASSUME ConsolidationInv, [Next]_vars, NEW r \in DOMAIN runs' \ DOMAIN runs
               PROVE  /\ (UNION {m(g) : g \in new(r)}) = Journal(memory)
                      /\ \A g, h \in new(r) : g # h => m(g) \cap m(h) = {}
                      /\ \A g \in new(r) : groups'[g].anchor \in LongTerm(memory) \cup {NULL}
    OBVIOUS
  <2>1. ~Tick /\ runs' # runs
    BY TickKeepsTables DEF ConsolidationInv
  <2>2. \A o \in Owners, q \in EffectiveRuns : ~ServeFrom(o, q, runs, groups)
    BY ServeKeepsTables DEF EffectiveRuns, ConsolidationInv
  <2>3. \A o \in Owners : \A g, absorb, d : ~Disposes(o, g, absorb, d)
    BY DisposalKeepsTables DEF ConsolidationInv
  <2>4a. PICK o \in Owners : \E plan : PlanWritten(o, plan) \/ PlanServed(o, plan)
    BY <2>1, <2>2, <2>3, StepIs DEF groupVars
  <2>4. PICK plan : PlanWritten(o, plan) \/ PlanServed(o, plan)
    BY <2>4a
  <2>5. plan \in Plans(memory) /\ NewRun <= MaxRuns
    BY <2>4 DEF PlanWritten, PlanServed, Inserts
  <2>6. PICK k \in Nat : DOMAIN plan = 1 .. k
    BY <2>5, PlansAre
  <2> DEFINE gs == GroupsPlanned(plan)
  <2>7. /\ DOMAIN gs = DOMAIN groups \cup ({NewRun} \X (1 .. k))
        /\ \A g \in {NewRun} \X (1 .. k) : gs[g] = NewGroup(plan, g[2])
    BY <2>6, GroupsPlannedIs DEF ConsolidationInv, Tables
  <2>8. \A g \in DOMAIN groups : g[1] \in DOMAIN runs
    BY DEF ConsolidationInv, Tables, GroupsOK
  <2>9. DOMAIN runs' = DOMAIN runs \cup {NewRun}
    <3>1. DOMAIN runs' = DOMAIN RunsPlanned(o, plan)
      BY <2>4, PlanServedKeepsTables DEF PlanWritten, ConsolidationInv
    <3> QED BY <2>5, <3>1, RunsPlannedIs DEF ConsolidationInv, Tables
  <2>10. r = NewRun
    BY <2>9
  <2>11. /\ DOMAIN groups' = DOMAIN gs
         /\ \A g \in DOMAIN gs : Revised(gs[g], groups'[g])
    <3>1. CASE PlanWritten(o, plan)
      BY <3>1, RevisedSame DEF PlanWritten
    <3>2. CASE PlanServed(o, plan)
      BY <3>2, PlanServedKeepsTables DEF ServedFrom, ConsolidationInv
    <3> QED BY <2>4, <3>1, <3>2
  <2> HIDE DEF gs
  <2>12. new(r) = {NewRun} \X (1 .. k)
    BY <2>7, <2>8, <2>10, <2>11
  <2>13. ASSUME NEW g \in {NewRun} \X (1 .. k)
         PROVE  /\ g[2] \in 1 .. k
                /\ m(g) = plan[g[2]].members
                /\ groups'[g].anchor = plan[g[2]].anchor
    <3>1. gs[g] = NewGroup(plan, g[2]) /\ Revised(gs[g], groups'[g])
      BY <2>7, <2>11
    <3> QED BY <3>1 DEF Revised, NewGroup
  <2>14. /\ \A i \in 1 .. k : /\ plan[i].anchor \in LongTerm(memory) \cup {NULL}
                              /\ plan[i].members \subseteq Journal(memory)
         /\ \A i, j \in 1 .. k : i # j => plan[i].members \cap plan[j].members = {}
         /\ \A u \in Journal(memory) : \E i \in 1 .. k : u \in plan[i].members
    BY <2>5, <2>6, PlansAre
  <2>15. (UNION {m(g) : g \in new(r)}) = Journal(memory)
    <3>1. ASSUME NEW u \in Journal(memory) PROVE \E g \in new(r) : u \in m(g)
      <4>1. PICK i \in 1 .. k : u \in plan[i].members
        BY <2>14
      <4>2. <<NewRun, i>> \in {NewRun} \X (1 .. k) /\ <<NewRun, i>>[2] = i
        OBVIOUS
      <4> QED BY <2>12, <2>13, <4>1, <4>2
    <3>2. \A g \in new(r) : m(g) \subseteq Journal(memory)
      BY <2>12, <2>13, <2>14
    <3> QED BY <3>1, <3>2
  <2>16. ASSUME NEW g \in new(r), NEW h \in new(r), g # h PROVE m(g) \cap m(h) = {}
    <3>1. g \in {NewRun} \X (1 .. k) /\ h \in {NewRun} \X (1 .. k)
      BY <2>12
    <3>2. g[2] # h[2]
      BY <2>16, <3>1, SamePlace
    <3> QED BY <2>13, <2>14, <3>1, <3>2
  <2>17. \A g \in new(r) : groups'[g].anchor \in LongTerm(memory) \cup {NULL}
    BY <2>12, <2>13, <2>14
  <2> QED BY <2>15, <2>16, <2>17
<1> QED BY <1>1, ConsolidationInvHolds, PTL DEF Spec, PlansAreFresh


-----------------------------------------------------------------------------
(* Acyclicity, with the consolidator's edges. *)

\* Rows retired in favour of one row that has no successor itself, or of none.
LEMMA AbsorptionKeepsAcyclic ==
    ASSUME RecordsInv, Acyclic, NEW o \in Owners, NEW g, NEW absorb, MayAbsorb(o, g, absorb),
           NEW by \in Uuids \cup {NULL}, NEW new, DOMAIN new \subseteq Uuids,
           Commit(ClientOf[o], new),
           \A u \in absorb : new[u] = Retirement(memory[u], by),
           \A u \in DOMAIN new \ absorb : new[u].superseded_by = NULL,
           by # NULL => by \in DOMAIN new \ absorb
    PROVE  Acyclic'
<1>1. \A u \in DOMAIN new : memory'[u] = new[u]
  BY CommitIs
<1>2. ASSUME NEW u \in absorb PROVE new[u].superseded_by = by
  <2>1. memory[u] \in Row
    BY DEF MayAbsorb, Deliverable, RecordsInv, RecordsTypeOK
  <2> QED BY <2>1 DEF Retirement, Row
<1>3. \A u \in DOMAIN new : new[u].superseded_by # NULL =>
          memory'[new[u].superseded_by].superseded_by = NULL
  BY <1>1, <1>2
<1> QED BY <1>3, EdgesToRootsKeepAcyclic, WorkersAreClients

LEMMA VerbKeepsAcyclic ==
    ASSUME RecordsInv, Acyclic, NEW o \in Owners, VerbStep(o)
    PROVE  Acyclic'
<1>0. \A g, absorb : MayAbsorb(o, g, absorb) =>
          \A u \in absorb : u \in Rows /\ u \in Uuids /\ memory[u] \in Row /\ memory[u].active
  BY DEF MayAbsorb, Deliverable, RecordsInv, RecordsTypeOK, Rows
<1>1. ASSUME NEW g, NEW absorb, NEW target, Merge(o, g, target, absorb)
      PROVE  Acyclic'
  <2> DEFINE new == Put([u \in {target} |-> Rewritten(memory[u])], Absorbed(absorb, target))
  <2>1. MayAbsorb(o, g, absorb) /\ Targetable(memory, target) /\ Commit(ClientOf[o], new)
    BY <1>1 DEF Merge
  <2>2. /\ target \in Uuids /\ target # NULL /\ target \notin absorb
        /\ memory[target] \in Row /\ memory[target].superseded_by = NULL
    BY <2>1, UuidsAssumption
       DEF Targetable, MayAbsorb, Deliverable, RecordsInv, RecordsTypeOK, EdgesLegal, Rows
  <2>3. /\ DOMAIN new = absorb \cup {target}
        /\ \A u \in absorb : new[u] = Retirement(memory[u], target)
        /\ new[target] = Rewritten(memory[target])
    BY <2>2 DEF Put, Absorbed
  <2> HIDE DEF new
  <2>4. new[target].superseded_by = NULL
    BY <2>2, <2>3 DEF Rewritten, Row
  <2>5. DOMAIN new \subseteq Uuids
    BY <1>0, <2>1, <2>2, <2>3
  <2> QED BY <2>1, <2>2, <2>3, <2>4, <2>5, AbsorptionKeepsAcyclic
<1>2. ASSUME NEW g, NEW u, PromoteInPlace(o, g, u)
      PROVE  Acyclic'
  <2> DEFINE new == [x \in {u} |-> Moved(memory[u], "long_term")]
  <2>1. MayAbsorb(o, g, {u}) /\ Commit(ClientOf[o], new)
    BY <1>2 DEF PromoteInPlace
  <2>2. u \in Uuids /\ memory[u] \in Row /\ memory[u].superseded_by = NULL
    BY <1>0, <2>1 DEF RecordsInv, EdgesLegal
  <2>3. DOMAIN new = {u} /\ new[u].superseded_by = NULL
    BY <2>2 DEF Moved, Row
  <2> HIDE DEF new
  <2> QED BY <2>1, <2>2, <2>3, EdgesToRootsKeepAcyclic, WorkersAreClients
<1>3. ASSUME NEW g, NEW absorb, PromoteNewRow(o, g, absorb)
      PROVE  Acyclic'
  <2>1. PICK fresh \in Uuids \ Rows :
            Commit(ClientOf[o], Put([u \in {fresh} |-> Created("long_term")],
                                    Absorbed(absorb, fresh)))
    BY <1>3 DEF PromoteNewRow
  <2> DEFINE new == Put([u \in {fresh} |-> Created("long_term")], Absorbed(absorb, fresh))
  <2>2. MayAbsorb(o, g, absorb) /\ Commit(ClientOf[o], new)
    BY <1>3, <2>1 DEF PromoteNewRow
  <2>3. fresh \notin absorb /\ fresh # NULL
    BY <1>0, <2>2, UuidsAssumption
  <2>4. /\ DOMAIN new = absorb \cup {fresh}
        /\ \A u \in absorb : new[u] = Retirement(memory[u], fresh)
        /\ new[fresh].superseded_by = NULL
    BY <2>3 DEF Put, Absorbed, Created
  <2> HIDE DEF new
  <2>5. DOMAIN new \subseteq Uuids
    BY <1>0, <2>2, <2>4
  <2> QED BY <2>2, <2>3, <2>4, <2>5, AbsorptionKeepsAcyclic
<1>4. ASSUME NEW g, NEW absorb, Discard(o, g, absorb)
      PROVE  Acyclic'
  <2> DEFINE new == Absorbed(absorb, NULL)
  <2>1. MayAbsorb(o, g, absorb) /\ Commit(ClientOf[o], new)
    BY <1>4 DEF Discard
  <2>2. DOMAIN new = absorb /\ \A u \in absorb : new[u] = Retirement(memory[u], NULL)
    BY DEF Absorbed
  <2> HIDE DEF new
  <2>3. DOMAIN new \subseteq Uuids
    BY <1>0, <2>1, <2>2
  <2> QED BY <2>1, <2>2, <2>3, AbsorptionKeepsAcyclic
<1>5. ASSUME NEW g, NEW stale, GroupConflict(o, g, stale)
      PROVE  Acyclic'
  BY <1>5 DEF GroupConflict, Mint, Acyclic, Rows
<1> QED BY <1>1, <1>2, <1>3, <1>4, <1>5 DEF VerbStep

\* Merges and promotions close no cycle either: the whole store's supersession
\* graph is acyclic, whoever retires what and in which order (invariant 6).
THEOREM StoreIsAcyclic == Spec => []Acyclic
<1>1. RecordsInit => Acyclic
  BY InitialIsAcyclic
<1>2. RecordsInv /\ Acyclic /\ [Next]_vars => Acyclic'
  <2> SUFFICES ASSUME RecordsInv, Acyclic, [Next]_vars PROVE Acyclic'
    OBVIOUS
  <2>1. memory' = memory => Acyclic'
    BY DEF Acyclic, Rows
  <2>2. ASSUME NEW o \in Owners, PlanningStep(o) PROVE Acyclic'
    BY <2>1, <2>2, PlanningShowsOrRests DEF Shows, Mint, recordVars
  <2>3. ASSUME NEW o \in Owners, VerbStep(o) PROVE Acyclic'
    BY <2>3, VerbKeepsAcyclic
  <2>4. CASE PrimaryAgentStep
    BY <2>4, PrimaryStepKeepsAcyclic DEF PrimaryAgentStep, RecordsNext
  <2> QED BY <2>1, <2>2, <2>3, <2>4 DEF Next, Tick, vars, recordVars
<1> QED BY <1>1, <1>2, StoreInv, PTL DEF Spec, Init
===============================================================================
