---------------------------- MODULE RecordsProofs ----------------------------
(***************************************************************************)
(* Proofs about the record layer, for any number of rows, clients and      *)
(* versions.  Every verb is shown to do one of two things: show its client *)
(* rows that exist (Shows), or write rows it may write (Writes).  What     *)
(* the two preserve is proved once, for whichever verb it is.              *)
(***************************************************************************)
EXTENDS Records, WellFoundedInduction, TLAPS

\* The inductive invariant: an edge is only ever given to an active row, so
\* that a row without a successor stays a root until its one retirement.
RecordsInv == RecordsTypeOK /\ ReceiptsCurrent /\ EdgesLegal

\* A row a client may insert, or write over the row it holds a receipt for.
LegalRow(c, u, new) ==
    /\ u \in Uuids
    /\ new[u].tier \in Tiers
    /\ new[u].active \in BOOLEAN
    /\ new[u].superseded_by \in Uuids \cup {NULL}
    /\ new[u] = [tier |-> new[u].tier, active |-> new[u].active,
                 superseded_by |-> new[u].superseded_by, version |-> new[u].version]
    /\ u \notin Rows => new[u].version = 1
    /\ u \in Rows =>
          /\ memory[u].active
          /\ Holds(c, u)
          /\ new[u].tier \in {memory[u].tier, "long_term"}
          /\ new[u].version = memory[u].version + 1

\* The edge the write gives u, if it does.
LegalEdge(u, new) ==
    new[u].superseded_by # NULL =>
        /\ new[u].superseded_by \in (Rows \cup DOMAIN new) \ {u}
        /\ ~new[u].active
        /\ new[u].superseded_by \in Rows => ~RetiredOutright(memory, new[u].superseded_by)

Shows(c) == \E U \in SUBSET Rows : Mint(c, U)

Writes(c) ==
    \E new : /\ new = [u \in DOMAIN new |-> new[u]]
             /\ \A u \in DOMAIN new : LegalRow(c, u, new) /\ LegalEdge(u, new)
             /\ Commit(c, new)

-----------------------------------------------------------------------------

\* What a commit leaves of each row.
LEMMA CommitIs ==
    ASSUME NEW c, NEW new, Commit(c, new)
    PROVE  /\ DOMAIN memory' = Rows \cup DOMAIN new
           /\ \A u \in DOMAIN new : memory'[u] = new[u]
           /\ \A u \in Rows : u \notin DOMAIN new => memory'[u] = memory[u]
           /\ memory' = [u \in DOMAIN memory' |-> memory'[u]]
<1>1. memory' = [u \in DOMAIN memory \cup DOMAIN new |->
                   IF u \in DOMAIN new THEN new[u] ELSE memory[u]]
  BY DEF Commit, Put
<1> QED BY <1>1 DEF Rows

\* A verb of a primary agent shows or writes.
LEMMA PrimaryShowsOrWrites ==
    ASSUME RecordsInv, NEW c \in Primaries, PrimaryStep(c)
    PROVE  Shows(c) \/ Writes(c)
<1> USE DEF RecordsInv, RecordsTypeOK, Rows
<1>1. CASE Remember(c)
  <2>1. PICK u \in Uuids \ Rows : Commit(c, [x \in {u} |-> Created("journal")])
    BY <1>1 DEF Remember
  <2> DEFINE new == [x \in {u} |-> Created("journal")]
  <2>2. LegalRow(c, u, new) /\ LegalEdge(u, new)
    BY DEF LegalRow, LegalEdge, Created, Tiers
  <2> QED BY <2>1, <2>2 DEF Writes
<1>2. ASSUME NEW U \in SUBSET Uuids, Fetch(c, U) PROVE Shows(c)
  BY <1>2 DEF Fetch, Shows
<1>3. ASSUME NEW u \in Uuids, VersionConflict(c, u) PROVE Shows(c)
  BY <1>3 DEF VersionConflict, Shows
<1>4. ASSUME NEW u \in Uuids, Amend(c, u) PROVE Writes(c)
  <2> DEFINE new == [x \in {u} |-> Rewritten(memory[u])]
  <2>1. u \in Rows /\ Holds(c, u) /\ memory[u].active /\ memory[u] \in Row
    BY <1>4 DEF Amend, Authorized
  <2>2. memory[u].superseded_by = NULL
    BY <2>1 DEF EdgesLegal
  <2>3. LegalRow(c, u, new) /\ LegalEdge(u, new)
    BY <2>1, <2>2 DEF LegalRow, LegalEdge, Rewritten, Row
  <2> QED BY <1>4, <2>3 DEF Writes, Amend
<1>5. ASSUME NEW u \in Uuids, NEW by \in Uuids \cup {NULL}, Retire(c, u, by)
      PROVE  Writes(c)
  <2> DEFINE new == [x \in {u} |-> Retirement(memory[u], by)]
  <2>1. u \in Rows /\ Holds(c, u) /\ memory[u].active /\ memory[u] \in Row
    BY <1>5 DEF Retire, Authorized
  <2>2. LegalRow(c, u, new)
    BY <2>1 DEF LegalRow, Retirement, Row
  <2>3. LegalEdge(u, new)
    BY <2>1, <1>5 DEF LegalEdge, Retirement, Retire, ValidNewEdge, Row
  <2> QED BY <1>5, <2>2, <2>3 DEF Writes, Retire
<1> QED BY <1>1, <1>2, <1>3, <1>4, <1>5 DEF PrimaryStep

-----------------------------------------------------------------------------

LEMMA ShowsKeepsInv ==
    ASSUME RecordsInv, NEW c \in Clients, Shows(c)
    PROVE  RecordsInv'
<1> USE DEF RecordsInv, RecordsTypeOK, Rows
<1>1. PICK U \in SUBSET Rows : Mint(c, U)
  BY DEF Shows
<1>2. memory' = memory /\ receipts' = receipts \cup Licences(c, U, memory)
  BY <1>1 DEF Mint
<1>3. \A r \in Licences(c, U, memory) :
          r \in Receipt /\ r.uuid \in Rows /\ r.version = memory[r.uuid].version
  BY DEF Licences, Receipt, Row
<1>4. EdgesLegal'
  BY <1>2 DEF EdgesLegal
<1> QED BY <1>2, <1>3, <1>4 DEF ReceiptsCurrent

LEMMA WritesKeepsInv ==
    ASSUME RecordsInv, NEW c \in Clients, Writes(c)
    PROVE  RecordsInv'
<1> USE DEF RecordsInv, RecordsTypeOK, Rows
<1>1. PICK new : /\ new = [u \in DOMAIN new |-> new[u]]
                 /\ \A u \in DOMAIN new : LegalRow(c, u, new) /\ LegalEdge(u, new)
                 /\ Commit(c, new)
  BY DEF Writes
<1>2. /\ \A u \in DOMAIN new : new[u].version <= MaxVersion
      /\ receipts' = {r \in receipts : r.uuid \notin DOMAIN new}
                       \cup Licences(c, DOMAIN new, new)
  BY <1>1 DEF Commit
<1>3. /\ DOMAIN memory' = Rows \cup DOMAIN new
      /\ \A u \in DOMAIN new : memory'[u] = new[u]
      /\ \A u \in Rows : u \notin DOMAIN new => memory'[u] = memory[u]
      /\ memory' = [u \in DOMAIN memory' |-> memory'[u]]
  BY <1>1, CommitIs
<1>4. ASSUME NEW u \in DOMAIN new
      PROVE  u \in Uuids /\ new[u] \in Row
  <2>1. LegalRow(c, u, new) /\ new[u].version <= MaxVersion
    BY <1>1, <1>2
  <2>2. new[u].version \in 1 .. MaxVersion
    <3>1. CASE u \in Rows
      <4>1. memory[u].version \in Nat \ {0}
        BY <3>1, VersionAssumption DEF Row
      <4> QED BY <2>1, <3>1, <4>1, VersionAssumption DEF LegalRow
    <3>2. CASE u \notin Rows
      BY <2>1, <3>2, VersionAssumption DEF LegalRow
    <3> QED BY <3>1, <3>2
  <2> QED BY <2>1, <2>2 DEF LegalRow, Row
<1>5. DOMAIN memory' \subseteq Uuids /\ memory' \in [DOMAIN memory' -> Row]
  BY <1>3, <1>4
<1>6. \A r \in Licences(c, DOMAIN new, new) :
          r \in Receipt /\ r.uuid \in DOMAIN new /\ r.version = new[r.uuid].version
  BY <1>4 DEF Licences, Receipt, Row
<1>7. RecordsTypeOK'
  BY <1>2, <1>5, <1>6
<1>8. ReceiptsCurrent'
  BY <1>2, <1>3, <1>6 DEF ReceiptsCurrent
<1>9. EdgesLegal'
  <2> SUFFICES ASSUME NEW u \in DOMAIN memory', memory'[u].superseded_by # NULL
               PROVE  /\ memory'[u].superseded_by \in DOMAIN memory' \ {u}
                      /\ ~memory'[u].active
    BY DEF EdgesLegal
  <2>1. CASE u \in DOMAIN new
    BY <1>1, <1>3, <2>1 DEF LegalEdge
  <2>2. CASE u \notin DOMAIN new
    BY <1>3, <2>2 DEF EdgesLegal
  <2> QED BY <2>1, <2>2
<1> QED BY <1>7, <1>8, <1>9

LEMMA InitialInv ==
    ASSUME RecordsInit PROVE RecordsInv
<1>1. DOMAIN memory \subseteq Uuids /\ memory \in [DOMAIN memory -> InitialRow]
  BY DEF RecordsInit
<1>2. \A row \in InitialRow : row \in Row /\ row.active /\ row.superseded_by = NULL
  <2>1. ASSUME NEW tier \in Tiers
        PROVE  Created(tier) \in Row /\ Created(tier).active /\ Created(tier).superseded_by = NULL
    <3>1. 1 \in 1 .. MaxVersion
      BY VersionAssumption
    <3> QED BY <3>1 DEF Row, Created
  <2> QED BY <2>1 DEF InitialRow
<1>3. receipts = {}
  BY DEF RecordsInit
<1>4. RecordsTypeOK
  BY <1>1, <1>2, <1>3 DEF RecordsTypeOK
<1>5. EdgesLegal
  BY <1>1, <1>2 DEF EdgesLegal, Rows
<1> QED BY <1>3, <1>4, <1>5 DEF RecordsInv, ReceiptsCurrent

\* The strengthened invariant is inductive for any number of primary agents.
THEOREM RecordsInvHolds == RecordsSpec => []RecordsInv
<1>1. RecordsInv /\ [RecordsNext]_recordVars => RecordsInv'
  <2>1. RecordsInv /\ UNCHANGED recordVars => RecordsInv'
    BY DEF RecordsInv, RecordsTypeOK, ReceiptsCurrent, EdgesLegal, Rows, recordVars
  <2>2. ASSUME RecordsInv, NEW c \in Primaries, PrimaryStep(c) PROVE RecordsInv'
    BY <2>2, PrimaryShowsOrWrites, ShowsKeepsInv, WritesKeepsInv, ClientsAssumption
  <2> QED BY <2>1, <2>2 DEF RecordsNext
<1> QED BY InitialInv, <1>1, PTL DEF RecordsSpec

\* Every session's verbs, in any order, keep the two tables in shape.
THEOREM RecordsTypeCorrect == RecordsSpec => []RecordsTypeOK
  BY RecordsInvHolds, PTL DEF RecordsInv

\* No receipt is ever for another version of its row than the one stored
\* (invariant 9, revoke_on_version_bump).
THEOREM ReceiptsAreCurrent == RecordsSpec => []ReceiptsCurrent
  BY RecordsInvHolds, PTL DEF RecordsInv

-----------------------------------------------------------------------------

LEMMA WritesSparesTheRetired ==
    ASSUME RecordsInv, NEW c \in Clients, Shows(c) \/ Writes(c),
           NEW u \in Rows, ~memory[u].active
    PROVE  u \in DOMAIN memory' /\ memory'[u] = memory[u]
<1>1. CASE Shows(c)
  BY <1>1 DEF Shows, Mint, Rows
<1>2. CASE Writes(c)
  <2>1. PICK new : /\ \A x \in DOMAIN new : LegalRow(c, x, new)
                   /\ Commit(c, new)
    BY <1>2 DEF Writes
  <2>2. u \notin DOMAIN new
    BY <2>1 DEF LegalRow
  <2> QED BY <2>1, <2>2, CommitIs
<1> QED BY <1>1, <1>2

\* No verb writes a retired row again, so an edge once set is never re-pointed
\* (the `active` rung of _authorize_mutation).
THEOREM RetiredRowsFrozen == RecordsSpec => RetiredFrozen
<1> DEFINE Frozen == \A u \in Rows : ~memory[u].active =>
                        u \in DOMAIN memory' /\ memory'[u] = memory[u]
<1>1. RecordsInv /\ [RecordsNext]_recordVars => [Frozen]_recordVars
  <2> SUFFICES ASSUME RecordsInv, NEW c \in Primaries, PrimaryStep(c) PROVE Frozen
    BY DEF RecordsNext
  <2> QED BY PrimaryShowsOrWrites, WritesSparesTheRetired, ClientsAssumption
<1> QED BY RecordsInvHolds, <1>1, PTL DEF RecordsSpec, RetiredFrozen

\* An edge never appears that points at a row then known to be untrue (the
\* target test of validate_new_edge).
THEOREM EdgeTargetsAreTrue == RecordsSpec => EdgeTargetsHold
<1> DEFINE Holding ==
        \A u \in Rows : memory'[u].superseded_by # memory[u].superseded_by =>
            LET b == memory'[u].superseded_by
            IN  b \in DOMAIN memory' /\ (b \in Rows => ~RetiredOutright(memory, b))
<1>1. RecordsInv /\ [RecordsNext]_recordVars => [Holding]_recordVars
  <2> SUFFICES ASSUME RecordsInv, NEW c \in Primaries, PrimaryStep(c),
                      NEW u \in Rows,
                      memory'[u].superseded_by # memory[u].superseded_by
               PROVE  /\ memory'[u].superseded_by \in DOMAIN memory'
                      /\ memory'[u].superseded_by \in Rows =>
                            ~RetiredOutright(memory, memory'[u].superseded_by)
    BY DEF RecordsNext
  <2>1. Writes(c)
    BY PrimaryShowsOrWrites DEF Shows, Mint
  <2>2. PICK new : /\ \A x \in DOMAIN new : LegalRow(c, x, new) /\ LegalEdge(x, new)
                   /\ Commit(c, new)
    BY <2>1 DEF Writes
  <2>3. /\ DOMAIN memory' = Rows \cup DOMAIN new
        /\ u \in DOMAIN new
        /\ memory'[u] = new[u]
    BY <2>2, CommitIs
  <2>4. memory[u].superseded_by = NULL
    BY <2>2, <2>3 DEF LegalRow, RecordsInv, EdgesLegal
  <2> QED BY <2>2, <2>3, <2>4 DEF LegalEdge
<1> QED BY RecordsInvHolds, <1>1, PTL DEF RecordsSpec, EdgeTargetsHold

-----------------------------------------------------------------------------
(* Acyclicity.  A verb that gives rows an edge to a root, or none, closes no *)
(* cycle whatever the graph; a retirement in favour of a row that has a      *)
(* chain of its own is safe because the walk up that chain missed the row.   *)

\* A set of naturals with an element has a least one.
LEMMA LeastNat ==
    ASSUME NEW T \in SUBSET Nat, T # {}
    PROVE  \E n \in T : \A k \in T : n <= k
<1>1. IsWellFoundedOn(OpToRel(<, Nat), Nat)
  BY NatLessThanWellFounded
<1>2. PICK n \in T : \A k \in T : <<k, n>> \notin OpToRel(<, Nat)
  BY <1>1, WFMin
<1>3. \A k \in T : ~(k < n)
  BY <1>2 DEF OpToRel
<1> QED BY <1>3

\* A walk to a root leaves a set S that has none: it meets the one row of S that
\* may step out of it.
LEMMA WalkLeaves ==
    ASSUME NEW S, NULL \notin S, NEW b \in S, NEW u,
           \A v \in S : v = u \/ memory[v].superseded_by \in S,
           NEW n \in Nat, NEW p, IsWalkToRoot(memory, b, n, p)
    PROVE  \E k \in 0 .. n : p[k] = u
<1> SUFFICES ASSUME \A k \in 0 .. n : p[k] # u PROVE FALSE
  OBVIOUS
<1> USE DEF IsWalkToRoot
<1>1. CASE p[n] \in S
  BY <1>1
<1>2. CASE p[n] \notin S
  <2> DEFINE T == {k \in 0 .. n : p[k] \notin S}
  <2>0. T \in SUBSET Nat /\ T # {}
    BY <1>2
  <2> HIDE DEF T
  <2>1. PICK k \in T : \A j \in T : k <= j
    BY <2>0, LeastNat
  <2> USE DEF T
  <2>2. k \in 1 .. n
    BY <2>1
  <2>3. k - 1 \in 0 .. n /\ k - 1 \notin T
    BY <2>1, <2>2
  <2>4. p[k - 1] \in S
    BY <2>3
  <2> QED BY <2>1, <2>2, <2>3, <2>4
<1> QED BY <1>1, <1>2

\* Writes whose edges all end at a root.
LEMMA EdgesToRootsKeepAcyclic ==
    ASSUME RecordsInv, Acyclic, NEW c \in Clients, NEW new,
           DOMAIN new \subseteq Uuids,
           Commit(c, new),
           \A u \in DOMAIN new : new[u].superseded_by # NULL =>
               memory'[new[u].superseded_by].superseded_by = NULL
    PROVE  Acyclic'
<1> SUFFICES ASSUME NEW S \in SUBSET Rows', S # {},
                    \A u \in S : memory'[u].superseded_by \in S
             PROVE  FALSE
  BY DEF Acyclic
<1>1. /\ Rows' = Rows \cup DOMAIN new
      /\ \A u \in DOMAIN new : memory'[u] = new[u]
      /\ \A u \in Rows : u \notin DOMAIN new => memory'[u] = memory[u]
  BY CommitIs DEF Rows
<1>2. Rows' \subseteq Uuids
  BY <1>1 DEF RecordsInv, RecordsTypeOK, Rows
<1>3. NULL \notin S
  BY <1>2, UuidsAssumption
<1>4. \A u \in S : u \notin DOMAIN new
  <2> SUFFICES ASSUME NEW u \in S, u \in DOMAIN new PROVE FALSE
    OBVIOUS
  <2>1. memory'[u] = new[u]
    BY <1>1
  <2>2. new[u].superseded_by \in S /\ new[u].superseded_by # NULL
    BY <2>1, <1>3
  <2>3. memory'[new[u].superseded_by].superseded_by = NULL
    BY <2>2
  <2> QED BY <2>2, <2>3, <1>3
<1>5. S \subseteq Rows /\ \A u \in S : memory'[u] = memory[u]
  BY <1>1, <1>4
<1> QED BY <1>5 DEF Acyclic

LEMMA RetireKeepsAcyclic ==
    ASSUME RecordsInv, Acyclic, NEW c \in Clients, NEW u \in Uuids,
           NEW by \in Uuids, Retire(c, u, by)
    PROVE  Acyclic'
<1> SUFFICES ASSUME NEW S \in SUBSET Rows', S # {},
                    \A v \in S : memory'[v].superseded_by \in S
             PROVE  FALSE
  BY DEF Acyclic
<1> DEFINE new == [x \in {u} |-> Retirement(memory[u], by)]
<1>1. u \in Rows /\ by # NULL /\ WalkClears(memory, u, by) /\ Commit(c, new)
  BY UuidsAssumption DEF Retire, Authorized, ValidNewEdge
<1>2. /\ Rows' = Rows
      /\ memory'[u] = Retirement(memory[u], by)
      /\ \A v \in Rows : v # u => memory'[v] = memory[v]
  <2>1. DOMAIN new = {u} /\ new[u] = Retirement(memory[u], by)
    OBVIOUS
  <2> HIDE DEF new
  <2>2. /\ DOMAIN memory' = Rows \cup DOMAIN new
        /\ \A v \in DOMAIN new : memory'[v] = new[v]
        /\ \A v \in Rows : v \notin DOMAIN new => memory'[v] = memory[v]
    BY <1>1, CommitIs
  <2> QED BY <1>1, <2>1, <2>2 DEF Rows
<1>3. memory'[u].superseded_by = by
  <2>1. memory[u] \in Row
    BY <1>1 DEF RecordsInv, RecordsTypeOK, Rows
  <2> QED BY <1>2, <2>1 DEF Retirement, Row
<1>4. NULL \notin S
  BY <1>2, UuidsAssumption DEF RecordsInv, RecordsTypeOK, Rows
<1>5. u \in S
  BY <1>2 DEF Acyclic
<1>6. by \in S
  BY <1>3, <1>5
<1>7. PICK n \in 0 .. MaxDepth - 1 : \E p \in [0 .. n -> DOMAIN memory] :
          IsWalkToRoot(memory, by, n, p) /\ \A k \in 0 .. n : p[k] # u
  BY <1>1 DEF WalkClears
<1>8. PICK p : IsWalkToRoot(memory, by, n, p) /\ \A k \in 0 .. n : p[k] # u
  BY <1>7
<1>9. \A v \in S : v = u \/ memory[v].superseded_by \in S
  BY <1>2
<1>10. n \in Nat
  BY DepthAssumption
<1>11. \E k \in 0 .. n : p[k] = u
  BY <1>4, <1>6, <1>8, <1>9, <1>10, WalkLeaves
<1> QED BY <1>8, <1>11

LEMMA PrimaryStepKeepsAcyclic ==
    ASSUME RecordsInv, Acyclic, NEW c \in Primaries, PrimaryStep(c)
    PROVE  Acyclic'
<1> USE ClientsAssumption
<1>0. ASSUME memory' = memory PROVE Acyclic'
  BY <1>0 DEF Acyclic, Rows
<1>1. ASSUME NEW u \in Uuids, NEW row, row.superseded_by = NULL,
             Commit(c, [x \in {u} |-> row])
      PROVE  Acyclic'
  BY <1>1, EdgesToRootsKeepAcyclic
<1>2. CASE Remember(c)
  <2>1. PICK u \in Uuids \ Rows : Commit(c, [x \in {u} |-> Created("journal")])
    BY <1>2 DEF Remember
  <2>2. Created("journal").superseded_by = NULL
    BY DEF Created
  <2> QED BY <1>1, <2>1, <2>2
<1>3. ASSUME NEW U \in SUBSET Uuids, Fetch(c, U) PROVE Acyclic'
  BY <1>0, <1>3 DEF Fetch, Mint
<1>4. ASSUME NEW u \in Uuids, VersionConflict(c, u) PROVE Acyclic'
  BY <1>0, <1>4 DEF VersionConflict, Mint
<1>5. ASSUME NEW u \in Uuids, Authorized(c, u)
      PROVE  memory[u] \in Row /\ memory[u].superseded_by = NULL
  BY <1>5 DEF Authorized, RecordsInv, RecordsTypeOK, EdgesLegal, Rows
<1>6. ASSUME NEW u \in Uuids, Amend(c, u) PROVE Acyclic'
  <2>1. Rewritten(memory[u]).superseded_by = NULL
    BY <1>5, <1>6 DEF Amend, Rewritten, Row
  <2> QED BY <1>1, <1>6, <2>1 DEF Amend
<1>7. ASSUME NEW u \in Uuids, Retire(c, u, NULL) PROVE Acyclic'
  <2>1. Retirement(memory[u], NULL).superseded_by = NULL
    BY <1>5, <1>7 DEF Retire, Retirement, Row
  <2> QED BY <1>1, <1>7, <2>1 DEF Retire
<1>8. ASSUME NEW u \in Uuids, NEW by \in Uuids, Retire(c, u, by) PROVE Acyclic'
  BY <1>8, RetireKeepsAcyclic
<1> QED BY <1>2, <1>3, <1>4, <1>6, <1>7, <1>8 DEF PrimaryStep

LEMMA InitialIsAcyclic ==
    ASSUME RecordsInit PROVE Acyclic
<1> SUFFICES ASSUME NEW S \in (SUBSET Rows) \ {{}}
             PROVE  \E u \in S : memory[u].superseded_by \notin S
  BY Zenon DEF Acyclic
<1>1. memory \in [DOMAIN memory -> InitialRow] /\ DOMAIN memory \subseteq Uuids
  BY DEF RecordsInit
<1>2. \A row \in InitialRow : row.superseded_by = NULL
  BY DEF InitialRow, Created
<1>3. PICK u \in S : u \in Rows
  OBVIOUS
<1>4. memory[u].superseded_by = NULL /\ NULL \notin S
  BY <1>1, <1>2, <1>3, UuidsAssumption DEF Rows
<1> QED BY <1>3, <1>4

\* Whichever rows the primary agents retire in favour of which, in whichever
\* order, superseded_by never closes a cycle (_walk_would_cycle).
THEOREM SupersessionIsAcyclic == RecordsSpec => []Acyclic
<1>1. RecordsInit => Acyclic
  BY InitialIsAcyclic
<1>2. RecordsInv /\ Acyclic /\ [RecordsNext]_recordVars => Acyclic'
  <2>1. Acyclic /\ UNCHANGED recordVars => Acyclic'
    BY DEF Acyclic, Rows, recordVars
  <2> QED BY <2>1, PrimaryStepKeepsAcyclic DEF RecordsNext
<1> QED BY RecordsInvHolds, <1>1, <1>2, PTL DEF RecordsSpec

-----------------------------------------------------------------------------
(* The abstract specification.  Its steps are found in the proof under the   *)
(* refinement mapping of Records: shown is the set of the <<c, u>> with a    *)
(* receipt at u's version.                                                   *)

ShownNow == {p \in Clients \X Rows : Holds(p[1], p[2])}

VersionNow == [u \in Rows |-> memory[u].version]

LEMMA ShowsIsShow ==
    ASSUME RecordsInv, NEW c \in Clients, Shows(c)
    PROVE  \E U \in SUBSET Rows : /\ ShownNow' = ShownNow \cup {c} \X U
                                  /\ VersionNow' = VersionNow
<1>1. PICK U \in SUBSET Rows : Mint(c, U)
  BY DEF Shows
<1>2. memory' = memory /\ receipts' = receipts \cup Licences(c, U, memory)
  BY <1>1 DEF Mint
<1>3. ASSUME NEW d \in Clients, NEW u \in Rows
      PROVE  Holds(d, u)' <=> Holds(d, u) \/ (d = c /\ u \in U)
  <2>1. [client |-> d, uuid |-> u, version |-> memory[u].version]
            \in Licences(c, U, memory) <=> d = c /\ u \in U
    BY DEF Licences
  <2> QED BY <1>2, <2>1 DEF Holds
<1>4. Rows' = Rows
  BY <1>2 DEF Rows
<1>5. ShownNow' = ShownNow \cup {c} \X U
  BY <1>3, <1>4 DEF ShownNow
<1> QED BY <1>2, <1>4, <1>5 DEF VersionNow

LEMMA WritesIsWriteRows ==
    ASSUME RecordsInv, NEW c \in Clients, Writes(c)
    PROVE  \E W \in SUBSET Rows, I \in SUBSET (Uuids \ Rows) :
              /\ {c} \X W \subseteq ShownNow
              /\ VersionNow' = [u \in Rows \cup I |->
                                  IF u \in I THEN 1
                                  ELSE IF u \in W THEN VersionNow[u] + 1 ELSE VersionNow[u]]
              /\ ShownNow' = {p \in ShownNow : p[2] \notin W} \cup {c} \X (W \cup I)
<1>1. PICK new : /\ \A u \in DOMAIN new : LegalRow(c, u, new)
                 /\ Commit(c, new)
  BY DEF Writes
<1> DEFINE W == DOMAIN new \cap Rows
           I == DOMAIN new \ Rows
<1>2. W \in SUBSET Rows /\ I \in SUBSET (Uuids \ Rows) /\ W \cup I = DOMAIN new
  BY <1>1 DEF LegalRow
<1>3. /\ Rows' = Rows \cup I
      /\ \A u \in W : memory'[u].version = memory[u].version + 1
      /\ \A u \in I : memory'[u].version = 1
      /\ \A u \in Rows : u \notin W => memory'[u] = memory[u]
  <2>1. /\ Rows' = Rows \cup DOMAIN new
        /\ \A u \in DOMAIN new : memory'[u] = new[u]
        /\ \A u \in Rows : u \notin DOMAIN new => memory'[u] = memory[u]
    BY <1>1, CommitIs DEF Rows
  <2>2. /\ \A u \in W : new[u].version = memory[u].version + 1
        /\ \A u \in I : new[u].version = 1
    BY <1>1 DEF LegalRow
  <2> QED BY <1>2, <2>1, <2>2
<1>4. {c} \X W \subseteq ShownNow
  BY <1>1 DEF LegalRow, ShownNow
<1>5. VersionNow' = [u \in Rows \cup I |->
                       IF u \in I THEN 1
                       ELSE IF u \in W THEN VersionNow[u] + 1 ELSE VersionNow[u]]
  BY <1>3 DEF VersionNow
<1>6. ASSUME NEW d \in Clients, NEW u \in Rows'
      PROVE  Holds(d, u)' <=> \/ u \in Rows /\ u \notin W /\ Holds(d, u)
                              \/ d = c /\ u \in DOMAIN new
  <2>1. receipts' = {r \in receipts : r.uuid \notin DOMAIN new}
                      \cup Licences(c, DOMAIN new, new)
    BY <1>1 DEF Commit
  <2>2. u \in DOMAIN new => memory'[u] = new[u]
    BY <1>1, CommitIs
  <2>3. CASE u \in DOMAIN new
    BY <2>1, <2>2, <2>3 DEF Holds, Licences
  <2>4. CASE u \notin DOMAIN new
    <3>1. u \in Rows /\ memory'[u] = memory[u]
      BY <1>3, <2>4
    <3> QED BY <2>1, <2>4, <3>1 DEF Holds, Licences
  <2> QED BY <2>3, <2>4
<1>7. ShownNow' = {p \in ShownNow : p[2] \notin W} \cup {c} \X (W \cup I)
  BY <1>2, <1>3, <1>6 DEF ShownNow
<1> QED BY <1>2, <1>4, <1>5, <1>7

LEMMA ShowOrWriteIsLicensed ==
    ASSUME RecordsInv, NEW c \in Clients, Shows(c) \/ Writes(c)
    PROVE  Licensed!LWNext
<1>1. DOMAIN VersionNow = Rows
  BY DEF VersionNow
<1>2. CASE Shows(c)
  BY <1>1, <1>2, ShowsIsShow DEF Licensed!LWNext, Licensed!Show, ShownNow, VersionNow
<1>3. CASE Writes(c)
  <2>1. PICK W \in SUBSET Rows, I \in SUBSET (Uuids \ Rows) :
            /\ {c} \X W \subseteq ShownNow
            /\ VersionNow' = [u \in Rows \cup I |->
                                IF u \in I THEN 1
                                ELSE IF u \in W THEN VersionNow[u] + 1 ELSE VersionNow[u]]
            /\ ShownNow' = {p \in ShownNow : p[2] \notin W} \cup {c} \X (W \cup I)
    BY <1>3, WritesIsWriteRows
  <2>2. Licensed!WriteRows(c, W, I)
    BY <1>1, <2>1 DEF Licensed!WriteRows, ShownNow, VersionNow
  <2> QED BY <1>1, <2>2 DEF Licensed!LWNext, VersionNow
<1> QED BY <1>2, <1>3

LEMMA InitialIsLicensed ==
    ASSUME RecordsInit PROVE Licensed!LWInit
<1>1. RecordsInv /\ receipts = {}
  BY InitialInv DEF RecordsInit
<1>2. \A u \in Rows : memory[u].version \in Nat \ {0}
  BY <1>1, VersionAssumption DEF RecordsInv, RecordsTypeOK, Row, Rows
<1>3. DOMAIN memory \subseteq Uuids
  BY <1>1 DEF RecordsInv, RecordsTypeOK
<1> QED BY <1>1, <1>2, <1>3 DEF Licensed!LWInit, Rows, Holds

\* The receipt table implements LicensedWrites: no update is ever lost, for any
\* number of rows and clients (_authorize_mutation over record_receipts).
THEOREM RecordsImplementLicensedWrites == RecordsSpec => WritesAreLicensed
<1>1. RecordsInv /\ [RecordsNext]_recordVars => [Licensed!LWNext]_(Licensed!lwVars)
  <2>1. UNCHANGED recordVars => UNCHANGED Licensed!lwVars
    BY DEF recordVars, Licensed!lwVars, Rows, Holds
  <2>2. ASSUME RecordsInv, NEW c \in Primaries, PrimaryStep(c)
        PROVE  Licensed!LWNext
    BY <2>2, PrimaryShowsOrWrites, ShowOrWriteIsLicensed, ClientsAssumption
  <2> QED BY <2>1, <2>2 DEF RecordsNext
<1> QED BY InitialIsLicensed, RecordsInvHolds, <1>1, PTL
        DEF RecordsSpec, WritesAreLicensed, Licensed!LWSpec

=============================================================================
