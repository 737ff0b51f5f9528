------------------------------ MODULE ScanProofs ------------------------------
(***************************************************************************)
(* What the builds of one knowledge base leave in it, for any number of    *)
(* files, encoders, builds and edits.                                      *)
(***************************************************************************)
EXTENDS Scan, FiniteSetTheorems, TLAPS

LEMMA CountsOfPaths ==
  ASSUME NEW S \in SUBSET Paths
  PROVE  IsFiniteSet(S) /\ Cardinality(S) \in Nat
BY PathsAssumption, FS_Subset, FS_CardinalityType

LEMMA InitTypes == Init => TypeOK
<1> SUFFICES ASSUME Init PROVE TypeOK
  OBVIOUS
<1> USE DEF Init
<1>1. [kind |-> "text", text |-> 1] \in File
  BY BoundsAssumption DEF File, Kinds, Texts
<1>2. disk \in [Paths -> File \cup {NULL}] /\ index \in [Paths -> File \cup {NULL}]
  BY <1>1
<1>3. meta \in [model : Encoders, width : Encoders, schema : {1, 4}, mode : GitModes,
                effective : GitModes, completed : BOOLEAN, counters : Counts]
  BY ModesAssumption DEF NoCounts, Counts
<1>4. bounds \in [edits : 0 .. MaxEdits, builds : 0 .. MaxBuilds, configs : 0 .. MaxConfigs]
  BY BoundsAssumption
<1> QED BY <1>2, <1>3, <1>4 DEF TypeOK

\* What a corpus' own table of settings and counters may hold.
Metas == [model : Encoders, width : Encoders, schema : {1, 4}, mode : GitModes,
          effective : GitModes, completed : BOOLEAN, counters : Counts]

LEMMA BeginTypes ==
  ASSUME TypeOK, NEW full \in BOOLEAN, Begin(full)
  PROVE  TypeOK'
<1> USE DEF TypeOK, Begin
<1>2. PICK effective \in {meta.mode, "off"} :
          /\ build' = [pc |-> IF RebuildOwed(config) THEN "rebuild" ELSE "walk",
                       enc |-> config, full |-> full, effective |-> effective,
                       links |-> meta.schema = 4, found |-> {}, listed |-> [p \in Paths |-> NULL],
                       reported |-> {}, changed |-> {}, previously |-> {}, deletions |-> {},
                       refreshed |-> {}, todo |-> {}, reading |-> NULL, counters |-> NoCounts]
          /\ meta' = [meta EXCEPT !.counters = NoCounts, !.effective = effective]
  OBVIOUS
<1>0. effective \in GitModes
  BY DEF GitModes
<1>1. meta' \in Metas
  BY <1>0, <1>2 DEF NoCounts, Counts, Metas
<1>3. build' \in Build
  <2>1. effective \in GitModes
    BY <1>0
  <2>2. NoCounts \in Counts
    BY DEF NoCounts, Counts
  <2>3. (meta.schema = 4) \in BOOLEAN /\ full \in BOOLEAN
    OBVIOUS
  <2> QED BY <1>2, <2>1, <2>2, <2>3 DEF Build, Phases
<1>4. bounds' \in [edits : 0 .. MaxEdits, builds : 0 .. MaxBuilds, configs : 0 .. MaxConfigs]
  BY BoundsAssumption
<1> QED BY <1>1, <1>3, <1>4 DEF Metas

LEMMA WalkTypes ==
  ASSUME TypeOK, DropDerived \/ WalkTree \/ GitUnavailable \/ ListFiles \/ ChangedPaths
  PROVE  TypeOK'
<1> USE DEF TypeOK
<1>1. build # NULL /\ build \in Build
  BY DEF DropDerived, WalkTree, GitUnavailable, ListFiles, ChangedPaths
<1>2. CASE DropDerived
  <2>1. meta' \in Metas
    BY <1>1, <1>2 DEF DropDerived, Metas, Build
  <2>2. build' \in Build
    BY <1>1, <1>2 DEF DropDerived, Build, Phases
  <2> QED BY <1>2, <2>1, <2>2 DEF DropDerived, Metas
<1>3. CASE WalkTree
  <2> DEFINE seen == {p \in Paths : disk[p] # NULL}
             found == {p \in seen : disk[p].kind # "big"}
             counters == [seen |-> Cardinality(seen), indexed |-> 0,
                          skipped |-> Cardinality(seen \ found)]
  <2>1. counters \in Counts /\ [counters EXCEPT !.skipped = 0] \in Counts
    <3>1. Cardinality(seen) \in Nat /\ Cardinality(seen \ found) \in Nat
      BY CountsOfPaths
    <3> QED BY <3>1 DEF Counts
  <2>2. /\ build' = [build EXCEPT !.pc = IF build.effective = "off" THEN "compare" ELSE "list",
                                  !.found = found, !.counters = counters]
        /\ meta' = [meta EXCEPT !.counters = [counters EXCEPT !.skipped = 0]]
    BY <1>3 DEF WalkTree
  <2>3. found \in SUBSET Paths
    OBVIOUS
  <2> HIDE DEF counters, found
  <2>4. build' \in Build
    BY <1>1, <2>1, <2>2, <2>3 DEF Build, Phases
  <2>5. meta' \in Metas
    BY <2>1, <2>2 DEF Metas
  <2> QED BY <1>3, <2>4, <2>5 DEF WalkTree, Metas
<1>4. CASE GitUnavailable
  <2>1. build' \in Build
    BY <1>1, <1>4 DEF GitUnavailable, Build, Phases, GitModes
  <2> QED BY <1>4, <2>1 DEF GitUnavailable
<1>5. CASE ListFiles
  <2>1. build' \in Build
    BY <1>1, <1>5 DEF ListFiles, Build, Phases
  <2> QED BY <1>5, <2>1 DEF ListFiles
<1>6. CASE ChangedPaths
  <2>1. build' \in Build
    BY <1>1, <1>6 DEF ChangedPaths, Build, Phases
  <2> QED BY <1>6, <2>1 DEF ChangedPaths
<1> QED BY <1>2, <1>3, <1>4, <1>5, <1>6

LEMMA CompareSets ==
  ASSUME TypeOK, build # NULL, NEW read \in Reads
  PROVE  /\ Changed(read) \subseteq Paths /\ Refused(read) \subseteq Paths
         /\ Kept(read) \subseteq Paths /\ Kept(read) \subseteq Indexed
         /\ Indexed \subseteq Paths /\ Admitted \subseteq Paths
<1>1. build \in Build
  BY DEF TypeOK
<1>2. Admitted \subseteq Paths
  BY <1>1 DEF Admitted, Build
<1> QED BY <1>2 DEF Changed, Refused, Kept, Opened, ClearedByGit, Decreed, Indexed

LEMMA CompareTypes ==
  ASSUME TypeOK, Compare
  PROVE  TypeOK'
<1>1. build # NULL /\ build \in Build
  BY DEF Compare, TypeOK
<1>2. PICK read \in Reads :
         build' = [build EXCEPT
             !.pc = "delete", !.reported = {}, !.changed = Changed(read),
             !.previously = Changed(read) \cap Indexed,
             !.refreshed = {p \in Kept(read) : build.effective # "off"
                                                 /\ build.listed[p] # rows[p].blob},
             !.deletions = Indexed \ (Admitted \ Refused(read)),
             !.counters = Skipped(Cardinality(Refused(read))),
             !.todo = Kept(read)]
  BY DEF Compare
<1>3. Skipped(Cardinality(Refused(read))) \in Counts
  <2>1. Cardinality(Refused(read)) \in Nat
    BY <1>1, CompareSets, CountsOfPaths
  <2> QED BY <1>1, <2>1 DEF Skipped, Build, Counts
<1>4. build' \in Build
  BY <1>1, <1>2, <1>3, CompareSets DEF Build, Phases
<1> QED BY <1>4 DEF Compare, TypeOK

LEMMA DeleteTypes ==
  ASSUME TypeOK, NEW p \in Paths, Delete(p)
  PROVE  TypeOK'
<1>1. build # NULL /\ build \in Build
  BY DEF Delete, TypeOK
<1>2. build' \in Build
  BY <1>1 DEF Delete, Build
<1>3. meta' \in Metas
  BY <1>1 DEF Delete, Build, TypeOK, Metas
<1>4. rows' \in [Paths -> Row \cup {NULL}]
  BY DEF Delete, TypeOK
<1> QED BY <1>2, <1>3, <1>4 DEF Delete, TypeOK, Metas

\* A row keeps its shape when one of its columns is written.
LEMMA LinkWrite ==
  ASSUME NEW row \in Row
  PROVE  LET new == [row EXCEPT !.link = row.text]
         IN  new \in Row /\ new.enc = row.enc /\ new.text = row.text
BY DEF Row

LEMMA BlobWrite ==
  ASSUME NEW row \in Row, NEW blob \in File \cup {NULL}
  PROVE  LET new == [row EXCEPT !.blob = blob]
         IN  new \in Row /\ new.enc = row.enc /\ new.text = row.text /\ new.link = row.link
BY DEF Row

\* The files the comparison planned to keep, to delete and to index.
PlanLegal ==
    build # NULL /\ build.pc = "delete" =>
        /\ build.todo \subseteq Indexed
        /\ build.refreshed \subseteq build.todo
        /\ build.todo \cap build.deletions = {}

LEMMA CloseTypes ==
  ASSUME TypeOK, PlanLegal, CloseWalkPhase
  PROVE  TypeOK'
<1>1. build # NULL /\ build \in Build /\ build.pc = "delete"
  BY DEF CloseWalkPhase, TypeOK
<1> DEFINE counters == Counted(Cardinality(build.todo))
<1>2. counters \in Counts
  <2>1. Cardinality(build.todo) \in Nat
    BY <1>1, CountsOfPaths DEF Build
  <2> QED BY <1>1, <2>1 DEF Counted, Build, Counts
<1>3. /\ meta' = [meta EXCEPT !.counters = counters, !.effective = build.effective]
      /\ build' = [build EXCEPT !.pc = IF build.links THEN "links" ELSE "dispose",
                                !.counters = counters, !.todo = Noticed,
                                !.changed = {}, !.refreshed = {}]
  BY DEF CloseWalkPhase
<1> HIDE DEF counters
<1>4. build' \in Build
  BY <1>1, <1>2, <1>3 DEF Build, Phases, Noticed
<1>5. meta' \in Metas
  BY <1>1, <1>2, <1>3 DEF Build, TypeOK, Metas
<1>6. rows' \in [Paths -> Row \cup {NULL}]
  <2>1. \A p \in Paths : p \in build.refreshed =>
           rows[p] \in Row /\ build.listed[p] \in File \cup {NULL}
    BY <1>1 DEF PlanLegal, Indexed, TypeOK, Build
  <2>2. \A p \in Paths : (IF p \in build.refreshed
                          THEN [rows[p] EXCEPT !.blob = build.listed[p]] ELSE rows[p])
                            \in Row \cup {NULL}
    BY <2>1, BlobWrite DEF TypeOK
  <2> QED BY <2>2 DEF CloseWalkPhase
<1>7. pending' \subseteq Paths /\ edits' \in {"edited", "walking"} \cup GitModes
  BY <1>1 DEF CloseWalkPhase, Noticed, Build, TypeOK
<1> QED BY <1>4, <1>5, <1>6, <1>7 DEF CloseWalkPhase, TypeOK, Metas

LEMMA LinkTypes ==
  ASSUME TypeOK, LinksMade \/ Complete \/ \E p \in Paths : MakeExact(p)
  PROVE  TypeOK'
<1>1. build # NULL /\ build \in Build
  BY DEF LinksMade, Complete, MakeExact, TypeOK
<1>2. CASE LinksMade
  <2>1. build' \in Build
    BY <1>1, <1>2 DEF LinksMade, Build, Phases
  <2> QED BY <1>2, <2>1 DEF LinksMade, TypeOK
<1>3. CASE Complete
  <2>1. build' \in Build
    BY <1>1, <1>3 DEF Complete, Build, Phases
  <2>2. meta' \in Metas
    BY <1>3 DEF Complete, TypeOK, Metas
  <2> QED BY <1>3, <2>1, <2>2 DEF Complete, TypeOK, Metas
<1>4. ASSUME NEW p \in Paths, MakeExact(p)
      PROVE  TypeOK'
  <2>1. rows[p] \in Row
    BY <1>4 DEF MakeExact, Inexact, Indexed, TypeOK
  <2>2. rows' = [rows EXCEPT ![p] = [rows[p] EXCEPT !.link = rows[p].text]]
    BY <1>4 DEF MakeExact, TypeOK
  <2>3. rows' \in [Paths -> Row \cup {NULL}]
    BY <2>1, <2>2, LinkWrite DEF TypeOK
  <2> QED BY <1>4, <2>3 DEF MakeExact, TypeOK
<1> QED BY <1>2, <1>3, <1>4

\* What a build read of a file is a file, and so is the row made of it a row.
LEMMA ReadIsAFile ==
  ASSUME TypeOK, NEW p \in Paths, HasRead(p)
  PROVE  /\ build # NULL /\ build \in Build /\ build.reading \in Reading
         /\ Got # NULL => Got \in File
<1>1. build \in Build /\ build.reading \in Reading
  BY DEF TypeOK, HasRead, Build
<1> QED BY <1>1 DEF HasRead, Got, Reading

LEMMA RewrittenIsARow ==
  ASSUME TypeOK, NEW p \in Paths, HasRead(p), Got # NULL
  PROVE  /\ Rewritten(p) \in Row
         /\ Rewritten(p).enc = build.enc /\ Rewritten(p).text = Got.text
         /\ Rewritten(p).blob = build.listed[p]
         /\ build.links => Rewritten(p).link = Got.text
<1>1. build \in Build /\ Got \in File
  BY ReadIsAFile
<1> DEFINE link == IF build.links THEN Got.text ELSE IF rows[p] = NULL THEN NULL ELSE rows[p].link
<1>2. link \in Texts \cup {NULL}
  BY <1>1 DEF TypeOK, Row, File
<1>3. Rewritten(p) = [text |-> Got.text, blob |-> build.listed[p], enc |-> build.enc,
                      link |-> link]
  BY DEF Rewritten
<1>4. build.links => link = Got.text
  OBVIOUS
<1> HIDE DEF link
<1>5. build.listed[p] \in File \cup {NULL} /\ build.enc \in Encoders /\ Got.text \in Texts
  BY <1>1 DEF Build, File
<1> QED BY <1>2, <1>3, <1>4, <1>5 DEF Row

LEMMA ReadTypes ==
  ASSUME TypeOK, NEW p \in Paths, ReadFile(p)
  PROVE  /\ TypeOK'
         /\ build # NULL /\ build \in Build
         /\ build.pc = "dispose" /\ p \in build.todo
         /\ \E got \in {NULL, disk[p]} :
               build' = [build EXCEPT !.reading = [path |-> p, got |-> got]]
         /\ UNCHANGED <<disk, index, rows, pending, meta, config, bounds, edits>>
<1>1. build # NULL /\ build \in Build
  BY DEF ReadFile, TypeOK
<1>2. PICK got \in {NULL, disk[p]} : build' = [build EXCEPT !.reading = [path |-> p, got |-> got]]
  BY DEF ReadFile
<1>3. [path |-> p, got |-> got] \in Reading
  BY DEF TypeOK, Reading
<1>4. build' \in Build
  BY <1>1, <1>2, <1>3 DEF Build
<1> QED BY <1>1, <1>2, <1>4 DEF ReadFile, TypeOK

LEMMA DisposeTypes ==
  ASSUME TypeOK, NEW p \in Paths, Dispose(p)
  PROVE  TypeOK'
<1>1. build # NULL /\ build \in Build
  BY ReadIsAFile DEF Dispose
<1>2. Counted(1) \in Counts /\ Skipped(1) \in Counts
  BY <1>1 DEF Counted, Skipped, Build, Counts
<1>3. PICK counters \in Counts : Progress(p, counters)
  BY <1>2 DEF Dispose, RecordIndexed, RecordSkip, LeaveUnreadable
<1>4. build' \in Build
  BY <1>1, <1>3 DEF Progress, Build
<1>5. meta' \in Metas
  BY <1>3 DEF Progress, TypeOK, Metas
<1>6. rows' \in [Paths -> Row \cup {NULL}] /\ pending' \subseteq Paths
  <2>1. CASE RecordIndexed(p)
    BY <2>1, RewrittenIsARow DEF Dispose, RecordIndexed, TypeOK
  <2>2. CASE RecordSkip(p)
    BY <2>2 DEF RecordSkip, TypeOK
  <2>3. CASE LeaveUnreadable(p)
    BY <2>3 DEF LeaveUnreadable, TypeOK
  <2> QED BY <2>1, <2>2, <2>3 DEF Dispose
<1> QED BY <1>4, <1>5, <1>6 DEF Dispose, TypeOK, Metas

LEMMA OthersTypes ==
  ASSUME TypeOK,
         EndBuild \/ Reconfigure \/ Migrate
           \/ \E p \in Paths : Edit(p) \/ Commit(p) \/ Restore(p)
  PROVE  TypeOK'
<1>1. CASE EndBuild
  BY <1>1 DEF EndBuild, TypeOK
<1>2. CASE Reconfigure
  <2>1. bounds' \in [edits : 0 .. MaxEdits, builds : 0 .. MaxBuilds, configs : 0 .. MaxConfigs]
    BY <1>2, BoundsAssumption DEF Reconfigure, TypeOK
  <2> QED BY <1>2, <2>1 DEF Reconfigure, TypeOK
<1>3. CASE Migrate
  <2>1. meta' \in Metas
    BY <1>3 DEF Migrate, TypeOK, Metas
  <2>2. \A p \in Paths : (IF rows[p] = NULL THEN NULL ELSE [rows[p] EXCEPT !.link = rows[p].text])
                           \in Row \cup {NULL}
    BY LinkWrite DEF TypeOK
  <2>3. rows' \in [Paths -> Row \cup {NULL}]
    BY <1>3, <2>2 DEF Migrate
  <2> QED BY <1>3, <2>1, <2>3 DEF Migrate, TypeOK, Metas
<1>4. ASSUME NEW p \in Paths, Edit(p)
      PROVE  TypeOK'
  <2>1. bounds' \in [edits : 0 .. MaxEdits, builds : 0 .. MaxBuilds, configs : 0 .. MaxConfigs]
    BY <1>4, BoundsAssumption DEF Edit, TypeOK
  <2>2. \A kind \in Kinds : [kind |-> kind, text |-> bounds.edits + 2] \in File
    BY <1>4, BoundsAssumption DEF Edit, TypeOK, File, Texts
  <2>3. disk' \in [Paths -> File \cup {NULL}]
    BY <1>4, <2>2 DEF Edit, TypeOK
  <2> QED BY <1>4, <2>1, <2>3 DEF Edit, TypeOK
<1>5. ASSUME NEW p \in Paths, Commit(p)
      PROVE  TypeOK'
  BY <1>5 DEF Commit, TypeOK
<1>6. ASSUME NEW p \in Paths, Restore(p)
      PROVE  TypeOK'
  BY <1>6 DEF Restore, TypeOK
<1> QED BY <1>1, <1>2, <1>3, <1>4, <1>5, <1>6

-----------------------------------------------------------------------------

\* A file in the queue that had no row when it was compared has none yet.
QueueLegal ==
    build # NULL =>
        /\ build.pc = "delete" =>
              /\ build.changed \cap build.refreshed = {}
              /\ \A p \in build.changed \ build.previously : rows[p] = NULL
        /\ build.pc \in {"links", "dispose"} =>
              \A p \in build.todo \ build.previously : rows[p] = NULL

\* All vectors are of the model meta names, and what a build past its rebuild
\* adds to them will be.
OneIdentity ==
    /\ \A p \in Indexed : rows[p].enc = meta.model /\ meta.width = meta.model
    /\ build # NULL /\ build.pc # "rebuild" =>
          build.enc = meta.model /\ meta.width = meta.model

\* A build holds what it read of a file of its queue only, and holds the file as it
\* is if none changed since the last walk began.
ReadStands ==
    build # NULL /\ build.reading # NULL =>
        /\ build.pc = "dispose" /\ build.reading.path \in build.todo
        /\ build.reading.got = NULL \/ edits = "edited"
             \/ build.reading.got = disk[build.reading.path]

ScanInv == TypeOK /\ PlanLegal /\ QueueLegal /\ OneIdentity /\ ReadStands

LEMMA InitInv == Init => ScanInv
BY InitTypes DEF Init, ScanInv, PlanLegal, QueueLegal, OneIdentity, ReadStands, Indexed

\* Outside the index phase a build holds nothing; a change of a file ends the claim.
LEMMA NextKeepsReading ==
  ASSUME TypeOK, ReadStands, [Next]_vars
  PROVE  ReadStands'
<1>1. CASE UNCHANGED vars
  BY <1>1 DEF vars, ReadStands
<1>2. CASE \E full \in BOOLEAN : Begin(full)
  <2>1. build'.reading = NULL
    BY <1>2 DEF Begin
  <2> QED BY <2>1 DEF ReadStands
<1>3. CASE EndBuild
  BY <1>3 DEF EndBuild, ReadStands
<1>4. CASE \/ DropDerived \/ WalkTree \/ GitUnavailable \/ ListFiles \/ ChangedPaths \/ Compare
           \/ CloseWalkPhase \/ LinksMade \/ \E p \in Paths : Delete(p)
  <2>1. build # NULL /\ build \in Build /\ build.pc # "dispose"
    BY <1>4 DEF DropDerived, WalkTree, GitUnavailable, ListFiles, ChangedPaths, Compare,
                CloseWalkPhase, LinksMade, Delete, TypeOK
  <2>2. build'.reading = build.reading
    <3>1. CASE DropDerived \/ GitUnavailable \/ ListFiles \/ ChangedPaths \/ LinksMade
      BY <2>1, <3>1 DEF DropDerived, GitUnavailable, ListFiles, ChangedPaths, LinksMade, Build
    <3>2. CASE WalkTree
      BY <2>1, <3>2 DEF WalkTree, Build
    <3>3. CASE Compare
      BY <2>1, <3>3 DEF Compare, Build
    <3>4. CASE CloseWalkPhase
      BY <2>1, <3>4 DEF CloseWalkPhase, Build
    <3>5. CASE \E p \in Paths : Delete(p)
      BY <2>1, <3>5 DEF Delete, Build
    <3> QED BY <1>4, <3>1, <3>2, <3>3, <3>4, <3>5
  <2> QED BY <2>1, <2>2 DEF ReadStands
<1>5. CASE Complete
  <2>1. build # NULL /\ build \in Build /\ build.todo = {} /\ build'.reading = build.reading
    BY <1>5 DEF Complete, TypeOK, Build
  <2> QED BY <2>1 DEF ReadStands
<1>6. CASE Reconfigure \/ Migrate \/ \E p \in Paths : MakeExact(p)
  BY <1>6 DEF Reconfigure, Migrate, MakeExact, ReadStands
<1>7. ASSUME NEW p \in Paths, ReadFile(p)
      PROVE  ReadStands'
  <2>1. build # NULL /\ build \in Build /\ build.pc = "dispose" /\ p \in build.todo /\ disk' = disk
    BY <1>7, ReadTypes
  <2>2. PICK got \in {NULL, disk[p]} : build' = [build EXCEPT !.reading = [path |-> p, got |-> got]]
    BY <1>7, ReadTypes
  <2>3. /\ build'.pc = build.pc /\ build'.todo = build.todo
        /\ build'.reading.path = p /\ build'.reading.got = got
    BY <2>1, <2>2 DEF Build
  <2> QED BY <2>1, <2>2, <2>3 DEF ReadStands
<1>8. ASSUME NEW p \in Paths, Dispose(p)
      PROVE  ReadStands'
  <2>1. build \in Build /\ \E counters : Progress(p, counters)
    BY <1>8, ReadIsAFile DEF Dispose, RecordIndexed, RecordSkip, LeaveUnreadable
  <2>2. build'.reading = NULL
    BY <2>1 DEF Progress, Build
  <2> QED BY <2>2 DEF ReadStands
<1>9. CASE \E p \in Paths : Edit(p) \/ Commit(p) \/ Restore(p)
  BY <1>9 DEF Edit, Commit, Restore, ReadStands
<1> QED BY <1>1, <1>2, <1>3, <1>4, <1>5, <1>6, <1>7, <1>8, <1>9 DEF Next, BuildStep

\* Steps that touch neither the rows, nor the identity, nor the build.
LEMMA RestKeepsInv ==
  ASSUME ScanInv, TypeOK', ReadStands', UNCHANGED <<rows, build>>,
         meta'.model = meta.model, meta'.width = meta.width
  PROVE  ScanInv'
BY DEF ScanInv, PlanLegal, QueueLegal, OneIdentity, Indexed

LEMMA MigrateKeepsInv ==
  ASSUME ScanInv, TypeOK', ReadStands', Migrate
  PROVE  ScanInv'
<1>1. ASSUME NEW p \in Paths, rows[p] # NULL
      PROVE  rows'[p] # NULL /\ rows'[p].enc = rows[p].enc
  <2>1. rows[p] \in Row
    BY <1>1 DEF ScanInv, TypeOK
  <2>2. rows'[p] = [rows[p] EXCEPT !.link = rows[p].text]
    BY <1>1 DEF Migrate
  <2> QED BY <2>1, <2>2, LinkWrite, RowsAssumption
<1>2. \A p \in Paths : rows[p] = NULL => rows'[p] = NULL
  BY DEF Migrate
<1>3. meta'.model = meta.model /\ meta'.width = meta.width /\ build' = build
  BY DEF Migrate, ScanInv, TypeOK
<1>4. Indexed' = Indexed
  BY <1>1, <1>2 DEF Indexed
<1>5. PlanLegal'
  BY <1>3, <1>4 DEF ScanInv, PlanLegal
<1>6. QueueLegal'
  <2>1. build # NULL => build \in Build
    BY DEF ScanInv, TypeOK
  <2> QED BY <1>2, <1>3, <2>1 DEF ScanInv, QueueLegal, Build
<1>7. OneIdentity'
  BY <1>1, <1>3, <1>4 DEF ScanInv, OneIdentity, Indexed
<1> QED BY <1>5, <1>6, <1>7 DEF ScanInv

LEMMA WalkKeepsInv ==
  ASSUME ScanInv, TypeOK', ReadStands', ReadStands',
         \/ \E full \in BOOLEAN : Begin(full)
         \/ DropDerived \/ WalkTree \/ GitUnavailable \/ ListFiles \/ ChangedPaths
  PROVE  ScanInv'
<1> USE DEF ScanInv, PlanLegal, QueueLegal, OneIdentity, Indexed
<1>1. ASSUME NEW full \in BOOLEAN, Begin(full)
      PROVE  ScanInv'
  <2>1. /\ build'.pc \in {"rebuild", "walk"} /\ build'.enc = config
        /\ build'.pc # "rebuild" => ~RebuildOwed(config)
    BY <1>1 DEF Begin
  <2>2. meta'.model = meta.model /\ meta'.width = meta.width /\ rows' = rows
    BY <1>1 DEF Begin, TypeOK
  <2> QED BY <2>1, <2>2 DEF RebuildOwed
<1>2. CASE DropDerived
  <2>1. build \in Build /\ build'.pc = "walk" /\ build'.enc = build.enc
    BY <1>2 DEF DropDerived, TypeOK, Build
  <2>2. meta'.model = build.enc /\ meta'.width = build.enc /\ rows' = [p \in Paths |-> NULL]
    BY <1>2 DEF DropDerived, TypeOK
  <2> QED BY <2>1, <2>2
<1>3. CASE WalkTree \/ GitUnavailable \/ ListFiles \/ ChangedPaths
  <2>1. /\ build # NULL /\ build \in Build /\ build.pc # "rebuild"
        /\ build'.pc \in {"compare", "list", "status"} /\ build'.enc = build.enc
    <3>1. build # NULL /\ build \in Build
      BY <1>3 DEF WalkTree, GitUnavailable, ListFiles, ChangedPaths, TypeOK
    <3>2. CASE WalkTree
      BY <3>1, <3>2 DEF WalkTree, Build
    <3>3. CASE GitUnavailable \/ ListFiles \/ ChangedPaths
      BY <3>1, <3>3 DEF GitUnavailable, ListFiles, ChangedPaths, Build
    <3> QED BY <1>3, <3>1, <3>2, <3>3
  <2>2. meta'.model = meta.model /\ meta'.width = meta.width /\ rows' = rows
    BY <1>3 DEF WalkTree, GitUnavailable, ListFiles, ChangedPaths, TypeOK
  <2> QED BY <2>1, <2>2
<1> QED BY <1>1, <1>2, <1>3

LEMMA CompareKeepsInv ==
  ASSUME ScanInv, TypeOK', ReadStands', Compare
  PROVE  ScanInv'
<1>1. build # NULL /\ build \in Build /\ build.pc = "compare" /\ TypeOK
  BY DEF Compare, TypeOK, ScanInv
<1>2. PICK read \in Reads :
         build' = [build EXCEPT
             !.pc = "delete", !.reported = {}, !.changed = Changed(read),
             !.previously = Changed(read) \cap Indexed,
             !.refreshed = {p \in Kept(read) : build.effective # "off"
                                                 /\ build.listed[p] # rows[p].blob},
             !.deletions = Indexed \ (Admitted \ Refused(read)),
             !.counters = Skipped(Cardinality(Refused(read))),
             !.todo = Kept(read)]
  BY DEF Compare
<1>3. /\ build'.pc = "delete" /\ build'.enc = build.enc
      /\ build'.changed = Changed(read) /\ build'.previously = Changed(read) \cap Indexed
      /\ build'.refreshed \subseteq Kept(read)
      /\ build'.deletions = Indexed \ (Admitted \ Refused(read))
      /\ build'.todo = Kept(read)
  BY <1>1, <1>2 DEF Build
<1>4. Kept(read) \subseteq Admitted \ Refused(read)
  BY DEF Kept, Refused, ClearedByGit, Opened, Decreed
<1>5. Kept(read) \subseteq Indexed /\ Changed(read) \subseteq Paths
  BY <1>1, CompareSets
<1>6. UNCHANGED <<rows, meta>>
  BY DEF Compare
<1>7. PlanLegal'
  BY <1>3, <1>4, <1>5, <1>6 DEF PlanLegal, Indexed
<1>8. QueueLegal'
  BY <1>3, <1>5, <1>6 DEF QueueLegal, Indexed, Changed
<1>9. OneIdentity'
  BY <1>1, <1>3, <1>6 DEF ScanInv, OneIdentity, Indexed
<1> QED BY <1>7, <1>8, <1>9 DEF ScanInv

LEMMA DeleteKeepsInv ==
  ASSUME ScanInv, TypeOK', ReadStands', NEW p \in Paths, Delete(p)
  PROVE  ScanInv'
<1>1. build # NULL /\ build \in Build /\ build.pc = "delete" /\ TypeOK
  BY DEF Delete, TypeOK, ScanInv
<1>2. /\ build'.pc = "delete" /\ build'.enc = build.enc /\ build'.todo = build.todo
      /\ build'.changed = build.changed /\ build'.previously = build.previously
      /\ build'.refreshed = build.refreshed /\ build'.deletions \subseteq build.deletions
  BY <1>1 DEF Delete, Build
<1>3. /\ rows' = [rows EXCEPT ![p] = NULL] /\ p \in build.deletions
      /\ meta'.model = meta.model /\ meta'.width = meta.width
  BY <1>1 DEF Delete, TypeOK
<1>4. PlanLegal'
  BY <1>1, <1>2, <1>3 DEF ScanInv, PlanLegal, Indexed, TypeOK
<1>5. QueueLegal'
  BY <1>1, <1>2, <1>3 DEF ScanInv, QueueLegal, TypeOK, Build
<1>6. OneIdentity'
  BY <1>1, <1>2, <1>3 DEF ScanInv, OneIdentity, Indexed, TypeOK
<1> QED BY <1>4, <1>5, <1>6 DEF ScanInv

LEMMA CloseKeepsInv ==
  ASSUME ScanInv, TypeOK', ReadStands', CloseWalkPhase
  PROVE  ScanInv'
<1>1. build # NULL /\ build \in Build /\ build.pc = "delete" /\ TypeOK
  BY DEF CloseWalkPhase, TypeOK, ScanInv
<1>2. /\ build'.pc \in {"links", "dispose"} /\ build'.enc = build.enc
      /\ build'.todo = build.changed /\ build'.previously = build.previously
  BY <1>1 DEF CloseWalkPhase, Build, Noticed
<1>3. meta'.model = meta.model /\ meta'.width = meta.width
  BY <1>1 DEF CloseWalkPhase, TypeOK
<1>4. ASSUME NEW p \in Paths, rows[p] # NULL
      PROVE  rows'[p] # NULL /\ rows'[p].enc = rows[p].enc
  <2>1. rows[p] \in Row /\ build.listed[p] \in File \cup {NULL}
    BY <1>1, <1>4 DEF TypeOK, Build
  <2>2. rows'[p] = rows[p] \/ rows'[p] = [rows[p] EXCEPT !.blob = build.listed[p]]
    BY DEF CloseWalkPhase
  <2> QED BY <1>4, <2>1, <2>2, BlobWrite, RowsAssumption
<1>5. ASSUME NEW p \in Paths, rows[p] = NULL
      PROVE  rows'[p] = NULL
  <2>1. p \notin build.refreshed
    BY <1>1, <1>5 DEF ScanInv, PlanLegal, Indexed
  <2> QED BY <1>5, <2>1 DEF CloseWalkPhase
<1>6. PlanLegal'
  BY <1>2 DEF PlanLegal
<1>7. QueueLegal'
  BY <1>1, <1>2, <1>5 DEF ScanInv, QueueLegal, Build
<1>8. OneIdentity'
  BY <1>1, <1>2, <1>3, <1>4, <1>5 DEF ScanInv, OneIdentity, Indexed
<1> QED BY <1>6, <1>7, <1>8 DEF ScanInv

LEMMA LinksKeepInv ==
  ASSUME ScanInv, TypeOK', ReadStands', LinksMade \/ Complete \/ \E p \in Paths : MakeExact(p)
  PROVE  ScanInv'
<1>1. CASE LinksMade \/ Complete
  <2>1. /\ build # NULL /\ build \in Build /\ build.pc \in {"links", "dispose"}
        /\ build'.pc \in {"dispose", "release"} /\ build'.enc = build.enc
        /\ build'.todo = build.todo /\ build'.previously = build.previously
    BY <1>1 DEF LinksMade, Complete, TypeOK, ScanInv, Build
  <2>2. rows' = rows /\ meta'.model = meta.model /\ meta'.width = meta.width
    BY <1>1 DEF LinksMade, Complete, TypeOK, ScanInv
  <2> QED BY <2>1, <2>2 DEF ScanInv, PlanLegal, QueueLegal, OneIdentity, Indexed
<1>2. ASSUME NEW p \in Paths, MakeExact(p)
      PROVE  ScanInv'
  <2>1. rows[p] \in Row
    BY <1>2 DEF MakeExact, Inexact, Indexed, TypeOK, ScanInv
  <2>2. rows' = [rows EXCEPT ![p] = [rows[p] EXCEPT !.link = rows[p].text]]
    BY <1>2 DEF MakeExact, TypeOK, ScanInv
  <2>3. \A q \in Paths : rows'[q] = rows[q] \/ q = p
    BY <2>2 DEF ScanInv, TypeOK
  <2>4. rows'[p].enc = rows[p].enc /\ rows'[p] # NULL /\ rows[p] # NULL
    BY <2>1, <2>2, LinkWrite, RowsAssumption DEF ScanInv, TypeOK
  <2>5. Indexed' = Indexed
    BY <2>3, <2>4 DEF Indexed
  <2>6. UNCHANGED <<meta, build>> /\ build.pc = "links"
    BY <1>2 DEF MakeExact
  <2>7. QueueLegal'
    BY <2>3, <2>4, <2>6 DEF ScanInv, QueueLegal, TypeOK, Build
  <2> QED BY <2>3, <2>4, <2>5, <2>6, <2>7 DEF ScanInv, PlanLegal, OneIdentity, Indexed
<1> QED BY <1>1, <1>2

LEMMA ReadKeepsInv ==
  ASSUME ScanInv, TypeOK', ReadStands', NEW p \in Paths, ReadFile(p)
  PROVE  ScanInv'
<1>1. TypeOK
  BY DEF ScanInv
<1>2. PICK got : build' = [build EXCEPT !.reading = [path |-> p, got |-> got]]
  BY <1>1, ReadTypes
<1>3. /\ build # NULL /\ build'.pc = build.pc /\ build.pc = "dispose" /\ build'.enc = build.enc
      /\ build'.todo = build.todo /\ build'.previously = build.previously
      /\ UNCHANGED <<rows, meta>>
  BY <1>1, <1>2, ReadTypes DEF Build
<1> QED BY <1>3 DEF ScanInv, PlanLegal, QueueLegal, OneIdentity, Indexed

LEMMA DisposeKeepsInv ==
  ASSUME ScanInv, TypeOK', ReadStands', NEW p \in Paths, Dispose(p)
  PROVE  ScanInv'
<1>1. build # NULL /\ build \in Build /\ build.pc = "dispose" /\ TypeOK
  BY ReadIsAFile DEF Dispose, ScanInv
<1>2. PICK counters : Progress(p, counters)
  BY DEF Dispose, RecordIndexed, RecordSkip, LeaveUnreadable
<1>3. /\ build'.pc = "dispose" /\ build'.enc = build.enc
      /\ build'.todo = build.todo \ {p} /\ build'.previously = build.previously
  BY <1>1, <1>2 DEF Progress, Build
<1>4. meta'.model = meta.model /\ meta'.width = meta.width
  BY <1>1, <1>2 DEF Progress, TypeOK
<1>5. \A q \in Paths \ {p} : rows'[q] = rows[q]
  BY <1>1 DEF Dispose, RecordIndexed, RecordSkip, LeaveUnreadable, TypeOK
<1>6. rows'[p] \in {NULL, rows[p]} \/ rows'[p].enc = build.enc
  BY <1>1, RewrittenIsARow DEF Dispose, RecordIndexed, RecordSkip, LeaveUnreadable, TypeOK
<1>7. QueueLegal'
  BY <1>1, <1>3, <1>5 DEF ScanInv, QueueLegal, Build
<1>8. OneIdentity'
  BY <1>1, <1>3, <1>4, <1>5, <1>6 DEF ScanInv, OneIdentity, Indexed
<1>9. PlanLegal'
  BY <1>3 DEF PlanLegal
<1> QED BY <1>7, <1>8, <1>9 DEF ScanInv

LEMMA NextTypes == ScanInv /\ [Next]_vars => TypeOK'
<1> SUFFICES ASSUME ScanInv, [Next]_vars PROVE TypeOK'
  OBVIOUS
<1>1. CASE UNCHANGED vars
  BY <1>1 DEF ScanInv, TypeOK, vars
<1>2. CASE Next
  BY <1>2, BeginTypes, WalkTypes, CompareTypes, DeleteTypes, CloseTypes, LinkTypes, ReadTypes,
     DisposeTypes, OthersTypes DEF Next, BuildStep, ScanInv
<1> QED BY <1>1, <1>2

LEMMA NextKeepsInv == ScanInv /\ [Next]_vars => ScanInv'
<1> SUFFICES ASSUME ScanInv, [Next]_vars PROVE ScanInv'
  OBVIOUS
<1>1. TypeOK' /\ ReadStands'
  BY NextTypes, NextKeepsReading DEF ScanInv
<1>2. CASE UNCHANGED vars
  BY <1>1, <1>2, RestKeepsInv DEF vars
<1>3. CASE EndBuild
  BY <1>1, <1>3 DEF EndBuild, ScanInv, PlanLegal, QueueLegal, OneIdentity, Indexed
<1>4. CASE Reconfigure \/ \E p \in Paths : Edit(p) \/ Commit(p) \/ Restore(p)
  <2>1. UNCHANGED <<rows, build, meta>>
    BY <1>4 DEF Reconfigure, Edit, Commit, Restore
  <2> QED BY <1>1, <2>1, RestKeepsInv
<1>5. CASE Next
  BY <1>1, <1>3, <1>4, <1>5, MigrateKeepsInv, WalkKeepsInv, CompareKeepsInv, DeleteKeepsInv,
     CloseKeepsInv, LinksKeepInv, ReadKeepsInv, DisposeKeepsInv DEF Next, BuildStep
<1> QED BY <1>2, <1>5

\* The inductive invariant: what a build plans, and the one model of all vectors.
THEOREM ScanInvHolds == Spec => []ScanInv
BY InitInv, NextKeepsInv, PTL DEF Spec

\* The files, the tables and the build's own memory keep their shape.
THEOREM ScanTypeCorrect == Spec => []TypeOK
<1>1. ScanInv => TypeOK
  BY DEF ScanInv
<1> QED BY <1>1, ScanInvHolds, PTL

\* Whatever model a build was started for and wherever it was killed, vectors of
\* two models never meet, and none meets a query of another (drop_derived).
THEOREM VectorsAreOfOneModel == Spec => []OneModel
<1>1. ScanInv => OneModel
  BY DEF ScanInv, OneIdentity, OneModel, Serves, State
<1> QED BY <1>1, ScanInvHolds, PTL

\* No path leaves the pending list but with the whole list, as deleted, or as the
\* build read it; and what it read is the file still if none changed since the last
\* walk began (replace_all, dispose).
THEOREM PendingIsKept == Spec => PendingKeepsWatch
<1> DEFINE Watch == \A p \in pending \ pending' :
                       \/ CloseWalkPhase
                       \/ p \in build.deletions /\ rows'[p] = NULL
                       \/ /\ HasRead(p) /\ Got # NULL
                          /\ edits = "edited" \/ Got = disk[p]
                          /\ IF Got.kind = "text" THEN rows'[p] # NULL /\ rows'[p].text = Got.text
                                                  ELSE rows'[p] = NULL
<1>1. ScanInv /\ [Next]_vars => [Watch]_vars
  <2> SUFFICES ASSUME ScanInv, Next, ~CloseWalkPhase, NEW p \in pending \ pending'
               PROVE  \/ p \in build.deletions /\ rows'[p] = NULL
                      \/ /\ HasRead(p) /\ Got # NULL
                         /\ edits = "edited" \/ Got = disk[p]
                         /\ IF Got.kind = "text" THEN rows'[p] # NULL /\ rows'[p].text = Got.text
                                                 ELSE rows'[p] = NULL
    OBVIOUS
  <2>1. p \in Paths /\ TypeOK
    BY DEF ScanInv, TypeOK
  <2>2. PICK q \in Paths : Delete(q) \/ Dispose(q)
    BY DEF Next, BuildStep, Begin, DropDerived, WalkTree, GitUnavailable, ListFiles, ChangedPaths,
           Compare, LinksMade, Complete, EndBuild, MakeExact, ReadFile, Edit, Commit, Restore,
           Reconfigure, Migrate
  <2>3. CASE Delete(q)
    BY <2>1, <2>3 DEF Delete, TypeOK
  <2>4. CASE Dispose(q)
    <3>1. p = q /\ Got # NULL
      BY <2>4 DEF Dispose, RecordIndexed, RecordSkip, LeaveUnreadable
    <3>2. /\ HasRead(p) /\ build.pc = "dispose" /\ build # NULL /\ p \in build.todo
          /\ edits = "edited" \/ Got = disk[p]
      BY <2>4, <3>1 DEF Dispose, HasRead, Got, ScanInv, ReadStands
    <3>3. CASE RecordIndexed(p)
      <4>1. rows'[p] = Rewritten(p) /\ Got.kind = "text"
        BY <2>1, <3>3 DEF RecordIndexed, TypeOK
      <4> QED BY <2>1, <3>1, <3>2, <4>1, RewrittenIsARow, RowsAssumption
    <3>4. CASE RecordSkip(p)
      <4>1. rows'[p] = NULL /\ Got.kind # "text"
        BY <2>1, <3>2, <3>4 DEF RecordSkip, ScanInv, QueueLegal, TypeOK
      <4> QED BY <3>1, <3>2, <4>1
    <3>5. CASE LeaveUnreadable(p)
      BY <3>1, <3>5 DEF LeaveUnreadable
    <3> QED BY <2>4, <3>1, <3>3, <3>4, <3>5 DEF Dispose
  <2> QED BY <2>2, <2>3, <2>4
<1> QED BY ScanInvHolds, <1>1, PTL DEF Spec, PendingKeepsWatch

-----------------------------------------------------------------------------
(* The counts of a scan. *)

LEMMA DisjointCount ==
  ASSUME NEW S \in SUBSET Paths, NEW T \in SUBSET Paths, S \cap T = {}
  PROVE  Cardinality(S \cup T) = Cardinality(S) + Cardinality(T)
<1>1. Cardinality(S \cap T) = 0
  BY FS_EmptySet
<1>2. Cardinality(S \cup T) = Cardinality(S) + Cardinality(T) - Cardinality(S \cap T)
  BY CountsOfPaths, FS_Union
<1> QED BY <1>1, <1>2, CountsOfPaths

LEMMA CountWithout ==
  ASSUME NEW S \in SUBSET Paths, NEW p \in S
  PROVE  Cardinality(S) = Cardinality(S \ {p}) + 1
<1>1. S \ {p} \in SUBSET Paths /\ {p} \in SUBSET Paths /\ (S \ {p}) \cap {p} = {}
  OBVIOUS
<1>2. Cardinality({p}) = 1
  BY FS_Singleton
<1>3. (S \ {p}) \cup {p} = S
  OBVIOUS
<1> QED BY <1>1, <1>2, <1>3, DisjointCount

\* Every file the walk saw is found or counted as skipped.
WalkCounted ==
    build # NULL /\ build.pc \in {"list", "status", "compare"} =>
        /\ build.counters.seen = Cardinality(build.found) + build.counters.skipped
        /\ build.counters.indexed = 0

\* Of those found, each is kept, changed, skipped or out of git's scope, and no
\* row is left beside them but those still to delete.
PlanCounted ==
    build # NULL /\ build.pc = "delete" =>
        /\ build.counters.seen = build.counters.skipped + Cardinality(build.todo)
                                   + Cardinality(build.changed) + Cardinality(build.found \ Admitted)
        /\ build.counters.indexed = 0
        /\ build.todo \cap build.changed = {}
        /\ Indexed \subseteq build.todo \cup build.changed \cup build.deletions

\* From then on only the queue is uncounted, and it is all listed as pending.
QueueCounted ==
    build # NULL /\ build.pc \in {"links", "dispose", "release"} =>
        /\ meta.counters = build.counters
        /\ build.counters.seen = build.counters.indexed + build.counters.skipped
                                   + Cardinality(build.todo) + Cardinality(build.found \ Admitted)
        /\ build.todo \subseteq pending
        /\ Cardinality(Indexed \ pending) = build.counters.indexed
        /\ build.pc = "release" => build.todo = {}

LinksRead ==
    build # NULL /\ build.pc \in {"dispose", "release"} /\ build.links => Inexact = {}

Tally == WalkCounted /\ PlanCounted /\ QueueCounted /\ LinksRead

LEMMA RestKeepsTally ==
  ASSUME TypeOK, Tally, UNCHANGED <<rows, pending, build>>, meta'.counters = meta.counters
  PROVE  Tally'
BY DEF Tally, WalkCounted, PlanCounted, QueueCounted, LinksRead, Indexed, Inexact, Admitted

LEMMA WalkKeepsTally ==
  ASSUME TypeOK, Tally,
         \/ \E full \in BOOLEAN : Begin(full)
         \/ DropDerived \/ WalkTree \/ GitUnavailable \/ ListFiles \/ ChangedPaths
  PROVE  Tally'
<1> USE DEF Tally, WalkCounted, PlanCounted, QueueCounted, LinksRead
<1>1. CASE \E full \in BOOLEAN : Begin(full)
  <2>1. build'.pc \in {"rebuild", "walk"}
    BY <1>1 DEF Begin
  <2> QED BY <2>1
<1>2. CASE DropDerived
  <2>1. build'.pc = "walk"
    BY <1>2 DEF DropDerived, TypeOK, Build
  <2> QED BY <2>1
<1>3. CASE WalkTree
  <2> DEFINE seen == {p \in Paths : disk[p] # NULL}
             found == {p \in seen : disk[p].kind # "big"}
             counters == [seen |-> Cardinality(seen), indexed |-> 0,
                          skipped |-> Cardinality(seen \ found)]
  <2>1. build # NULL /\ build \in Build
    BY <1>3 DEF WalkTree, TypeOK
  <2>2. build' = [build EXCEPT !.pc = IF build.effective = "off" THEN "compare" ELSE "list",
                               !.found = found, !.counters = counters]
    BY <1>3 DEF WalkTree
  <2>3. Cardinality(seen) = Cardinality(found) + Cardinality(seen \ found)
    <3>1. /\ found \in SUBSET Paths /\ seen \ found \in SUBSET Paths
          /\ found \cap (seen \ found) = {} /\ found \cup (seen \ found) = seen
      OBVIOUS
    <3> HIDE DEF seen, found
    <3> QED BY <3>1, DisjointCount
  <2>4. counters.seen = Cardinality(found) + counters.skipped /\ counters.indexed = 0
    BY <2>3
  <2> HIDE DEF seen, found, counters
  <2>5. /\ build'.pc \in {"compare", "list"} /\ build'.found = found
        /\ build'.counters = counters
    BY <2>1, <2>2 DEF Build
  <2> QED BY <2>4, <2>5
<1>4. CASE GitUnavailable \/ ListFiles \/ ChangedPaths
  <2>1. /\ build # NULL /\ build \in Build /\ build.pc \in {"list", "status"}
        /\ build'.pc \in {"compare", "status"} /\ build'.found = build.found
        /\ build'.counters = build.counters
    <3>1. build # NULL /\ build \in Build
      BY <1>4 DEF GitUnavailable, ListFiles, ChangedPaths, TypeOK
    <3>2. CASE GitUnavailable
      BY <3>1, <3>2 DEF GitUnavailable, Build
    <3>3. CASE ListFiles
      BY <3>1, <3>3 DEF ListFiles, Build
    <3>4. CASE ChangedPaths
      BY <3>1, <3>4 DEF ChangedPaths, Build
    <3> QED BY <1>4, <3>2, <3>3, <3>4
  <2> QED BY <2>1
<1> QED BY <1>1, <1>2, <1>3, <1>4

LEMMA CompareKeepsTally ==
  ASSUME TypeOK, Tally, Compare
  PROVE  Tally'
<1>1. build # NULL /\ build \in Build /\ build.pc = "compare"
  BY DEF Compare, TypeOK
<1>2. PICK read \in Reads :
         build' = [build EXCEPT
             !.pc = "delete", !.reported = {}, !.changed = Changed(read),
             !.previously = Changed(read) \cap Indexed,
             !.refreshed = {p \in Kept(read) : build.effective # "off"
                                                 /\ build.listed[p] # rows[p].blob},
             !.deletions = Indexed \ (Admitted \ Refused(read)),
             !.counters = Skipped(Cardinality(Refused(read))),
             !.todo = Kept(read)]
  BY DEF Compare
<1>3. /\ build'.pc = "delete" /\ build'.changed = Changed(read) /\ build'.todo = Kept(read)
      /\ build'.deletions = Indexed \ (Admitted \ Refused(read))
      /\ build'.counters = Skipped(Cardinality(Refused(read)))
      /\ build'.found = build.found /\ build'.effective = build.effective
      /\ build'.listed = build.listed
  BY <1>1, <1>2 DEF Build
<1>4. Indexed' = Indexed /\ Admitted' = Admitted
  BY <1>3 DEF Compare, Indexed, Admitted
<1>5. /\ Admitted \subseteq build.found /\ build.found \subseteq Paths
      /\ Kept(read) \subseteq Admitted /\ Refused(read) \subseteq Admitted
      /\ Kept(read) \cap Refused(read) = {}
      /\ Changed(read) = Admitted \ (Kept(read) \cup Refused(read))
  BY <1>1 DEF Admitted, Build, Changed, Kept, Refused, ClearedByGit, Opened, Decreed
<1> DEFINE Out == build.found \ Admitted
           Sorted == Kept(read) \cup Refused(read)
<1>6. Cardinality(build.found) = Cardinality(Kept(read)) + Cardinality(Refused(read))
                                   + Cardinality(Changed(read)) + Cardinality(Out)
  <2>1. /\ Out \in SUBSET Paths /\ Sorted \in SUBSET Paths
        /\ Kept(read) \in SUBSET Paths /\ Refused(read) \in SUBSET Paths
        /\ Changed(read) \in SUBSET Paths /\ Admitted \in SUBSET Paths
    BY <1>5
  <2>2. Cardinality(Sorted) = Cardinality(Kept(read)) + Cardinality(Refused(read))
    BY <1>5, <2>1, DisjointCount
  <2>3. Sorted \cap Changed(read) = {} /\ Sorted \cup Changed(read) = Admitted
    BY <1>5
  <2>4. Admitted \cap Out = {} /\ Admitted \cup Out = build.found
    BY <1>5
  <2> HIDE DEF Sorted, Out
  <2>5. Cardinality(Admitted) = Cardinality(Sorted) + Cardinality(Changed(read))
    BY <2>1, <2>3, DisjointCount
  <2>6. Cardinality(build.found) = Cardinality(Admitted) + Cardinality(Out)
    BY <2>1, <2>4, DisjointCount
  <2> QED BY <2>1, <2>2, <2>5, <2>6, CountsOfPaths
<1>7. /\ build'.counters.seen = build.counters.seen
      /\ build'.counters.skipped = build.counters.skipped + Cardinality(Refused(read))
      /\ build'.counters.indexed = build.counters.indexed
  BY <1>1, <1>3 DEF Skipped, Build, Counts
<1>8. PlanCounted'
  <2>1. /\ build.counters.seen = Cardinality(build.found) + build.counters.skipped
        /\ build.counters.indexed = 0
    BY <1>1 DEF Tally, WalkCounted
  <2>2. /\ Cardinality(Kept(read)) \in Nat /\ Cardinality(Refused(read)) \in Nat
        /\ Cardinality(Changed(read)) \in Nat /\ Cardinality(Out) \in Nat
        /\ Cardinality(build.found) \in Nat
        /\ build.counters.skipped \in Nat
    <3>1. /\ Kept(read) \in SUBSET Paths /\ Refused(read) \in SUBSET Paths
          /\ Changed(read) \in SUBSET Paths /\ Out \in SUBSET Paths /\ build.found \in SUBSET Paths
      BY <1>5
    <3> QED BY <1>1, <3>1, CountsOfPaths DEF Build, Counts
  <2>3. build'.counters.seen = build'.counters.skipped + Cardinality(Kept(read))
                                 + Cardinality(Changed(read)) + Cardinality(Out)
    BY <1>6, <1>7, <2>1, <2>2
  <2>4. Kept(read) \cap Changed(read) = {}
    BY <1>5
  <2>5. Indexed \subseteq Kept(read) \cup Changed(read) \cup (Indexed \ (Admitted \ Refused(read)))
    BY <1>5
  <2> QED BY <1>3, <1>4, <1>7, <2>1, <2>3, <2>4, <2>5 DEF PlanCounted
<1> QED BY <1>3, <1>8 DEF Tally, WalkCounted, QueueCounted, LinksRead

LEMMA DeleteKeepsTally ==
  ASSUME TypeOK, Tally, NEW p \in Paths, Delete(p)
  PROVE  Tally'
<1>1. build # NULL /\ build \in Build /\ build.pc = "delete"
  BY DEF Delete, TypeOK
<1>2. /\ build'.pc = "delete" /\ build'.todo = build.todo /\ build'.changed = build.changed
      /\ build'.deletions = build.deletions \ {p} /\ build'.counters = build.counters
      /\ build'.found = build.found /\ build'.effective = build.effective
      /\ build'.listed = build.listed
  BY <1>1 DEF Delete, Build
<1>3. Admitted' = Admitted
  BY <1>2 DEF Admitted
<1>4. Indexed' = Indexed \ {p}
  BY DEF Delete, Indexed, TypeOK
<1>5. PlanCounted'
  BY <1>1, <1>2, <1>3, <1>4 DEF Tally, PlanCounted
<1> QED BY <1>2, <1>5 DEF Tally, WalkCounted, QueueCounted, LinksRead

LEMMA CloseKeepsTally ==
  ASSUME ScanInv, Tally, CloseWalkPhase
  PROVE  Tally'
<1>1. build # NULL /\ build \in Build /\ build.pc = "delete" /\ TypeOK
  BY DEF CloseWalkPhase, TypeOK, ScanInv
<1>2. /\ build'.pc \in {"links", "dispose"} /\ build'.links = build.links
      /\ build'.pc = "dispose" => ~build.links
      /\ build'.todo = build.changed /\ build'.found = build.found
      /\ build'.counters = Counted(Cardinality(build.todo))
      /\ build'.effective = build.effective /\ build'.listed = build.listed
      /\ meta'.counters = build'.counters /\ pending' = build.changed
      /\ build.deletions = {}
  BY <1>1 DEF CloseWalkPhase, Build, Noticed, TypeOK
<1>3. Admitted' = Admitted
  BY <1>2 DEF Admitted
<1>4. Indexed' = Indexed
  <2>1. ASSUME NEW p \in Paths, p \in build.refreshed
        PROVE  rows'[p] # NULL /\ rows[p] # NULL
    <3>1. rows[p] \in Row /\ build.listed[p] \in File \cup {NULL} /\ rows[p] # NULL
      BY <1>1, <2>1 DEF TypeOK, Build, ScanInv, PlanLegal, Indexed
    <3>2. rows'[p] = [rows[p] EXCEPT !.blob = build.listed[p]]
      BY <2>1 DEF CloseWalkPhase
    <3> QED BY <3>1, <3>2, BlobWrite, RowsAssumption
  <2>2. \A p \in Paths \ build.refreshed : rows'[p] = rows[p]
    BY DEF CloseWalkPhase
  <2> QED BY <2>1, <2>2 DEF Indexed
<1>5. Indexed \ build.changed = build.todo
  BY <1>1, <1>2 DEF ScanInv, PlanLegal, Tally, PlanCounted
<1>6. /\ build'.counters.seen = build.counters.seen
      /\ build'.counters.skipped = build.counters.skipped
      /\ build'.counters.indexed = Cardinality(build.todo)
  <2>1. Cardinality(build.todo) \in Nat
    BY <1>1, CountsOfPaths DEF Build
  <2> QED BY <1>1, <1>2, <2>1 DEF Counted, Build, Counts, Tally, PlanCounted
<1>7. /\ Cardinality(build.todo) \in Nat /\ Cardinality(build.changed) \in Nat
      /\ Cardinality(build.found \ Admitted) \in Nat /\ build.counters.skipped \in Nat
  <2>1. build.found \ Admitted \in SUBSET Paths
    BY <1>1 DEF Build
  <2> QED BY <1>1, <2>1, CountsOfPaths DEF Build, Counts
<1>8. QueueCounted'
  BY <1>1, <1>2, <1>3, <1>4, <1>5, <1>6, <1>7 DEF QueueCounted, Tally, PlanCounted
<1> QED BY <1>2, <1>8 DEF Tally, WalkCounted, PlanCounted, LinksRead

LEMMA LinksKeepTally ==
  ASSUME ScanInv, Tally, LinksMade \/ Complete \/ \E p \in Paths : MakeExact(p)
  PROVE  Tally'
<1> USE DEF Tally, WalkCounted, PlanCounted, QueueCounted, LinksRead
<1>1. CASE LinksMade
  <2>1. /\ build # NULL /\ build \in Build /\ build.pc = "links" /\ build'.pc = "dispose"
        /\ build'.todo = build.todo /\ build'.found = build.found
        /\ build'.counters = build.counters /\ build'.links = build.links
        /\ build'.effective = build.effective /\ build'.listed = build.listed
        /\ UNCHANGED <<rows, pending, meta>> /\ Inexact = {}
    BY <1>1 DEF LinksMade, LinksAreExact, TypeOK, ScanInv, Build
  <2> QED BY <2>1 DEF Indexed, Inexact, Admitted
<1>2. CASE Complete
  <2>1. /\ build # NULL /\ build \in Build /\ build.pc = "dispose" /\ build'.pc = "release"
        /\ build'.todo = build.todo /\ build'.found = build.found /\ build.todo = {}
        /\ build'.counters = build.counters /\ build'.links = build.links
        /\ build'.effective = build.effective /\ build'.listed = build.listed
        /\ UNCHANGED <<rows, pending>> /\ meta'.counters = meta.counters
    BY <1>2 DEF Complete, TypeOK, ScanInv, Build
  <2> QED BY <2>1 DEF Indexed, Inexact, Admitted
<1>3. ASSUME NEW p \in Paths, MakeExact(p)
      PROVE  Tally'
  <2>1. rows[p] \in Row
    BY <1>3 DEF MakeExact, Inexact, Indexed, TypeOK, ScanInv
  <2>2. rows' = [rows EXCEPT ![p] = [rows[p] EXCEPT !.link = rows[p].text]]
    BY <1>3 DEF MakeExact, TypeOK, ScanInv
  <2>3. \A q \in Paths : rows'[q] = rows[q] \/ q = p
    BY <2>2 DEF ScanInv, TypeOK
  <2>4. rows'[p] # NULL /\ rows[p] # NULL
    BY <2>1, <2>2, LinkWrite, RowsAssumption DEF ScanInv, TypeOK
  <2>5. Indexed' = Indexed
    BY <2>3, <2>4 DEF Indexed
  <2>6. UNCHANGED <<meta, build, pending>> /\ build.pc = "links"
    BY <1>3 DEF MakeExact
  <2> QED BY <2>5, <2>6 DEF Admitted
<1> QED BY <1>1, <1>2, <1>3

LEMMA MigrateKeepsTally ==
  ASSUME ScanInv, Tally, Migrate
  PROVE  Tally'
<1>1. ASSUME NEW p \in Paths, rows[p] # NULL
      PROVE  rows'[p] # NULL /\ rows'[p].link = rows'[p].text
  <2>1. rows[p] \in Row
    BY <1>1 DEF ScanInv, TypeOK
  <2>2. rows'[p] = [rows[p] EXCEPT !.link = rows[p].text]
    BY <1>1 DEF Migrate
  <2> QED BY <2>1, <2>2, RowsAssumption DEF Row
<1>2. \A p \in Paths : rows[p] = NULL => rows'[p] = NULL
  BY DEF Migrate
<1>3. Indexed' = Indexed /\ Inexact' = {}
  BY <1>1, <1>2 DEF Indexed, Inexact
<1>4. meta'.counters = meta.counters /\ UNCHANGED <<build, pending>>
  BY DEF Migrate, ScanInv, TypeOK
<1> QED BY <1>3, <1>4 DEF Tally, WalkCounted, PlanCounted, QueueCounted, LinksRead, Admitted

LEMMA ReadKeepsTally ==
  ASSUME ScanInv, Tally, NEW p \in Paths, ReadFile(p)
  PROVE  Tally'
<1>1. TypeOK
  BY DEF ScanInv
<1>2. PICK got : build' = [build EXCEPT !.reading = [path |-> p, got |-> got]]
  BY <1>1, ReadTypes
<1>3. /\ build # NULL /\ build.pc = "dispose" /\ build'.pc = "dispose"
      /\ build'.todo = build.todo /\ build'.found = build.found
      /\ build'.counters = build.counters /\ build'.links = build.links
      /\ build'.effective = build.effective /\ build'.listed = build.listed
      /\ UNCHANGED <<rows, pending, meta>>
  BY <1>1, <1>2, ReadTypes DEF Build
<1> QED BY <1>3 DEF Tally, WalkCounted, PlanCounted, QueueCounted, LinksRead, Indexed, Inexact,
                    Admitted

LEMMA DisposeKeepsTally ==
  ASSUME ScanInv, Tally, NEW p \in Paths, Dispose(p)
  PROVE  Tally'
<1>1. /\ build # NULL /\ build \in Build /\ build.pc = "dispose" /\ p \in build.todo /\ TypeOK
      /\ build.counters \in Counts
  <2>1. build # NULL /\ build \in Build /\ build.pc = "dispose" /\ TypeOK
    BY ReadIsAFile DEF Dispose, ScanInv
  <2>2. p \in build.todo
    BY DEF Dispose, HasRead, ScanInv, ReadStands
  <2> QED BY <2>1, <2>2 DEF Build
<1>2. PICK counters : Progress(p, counters)
  BY DEF Dispose, RecordIndexed, RecordSkip, LeaveUnreadable
<1>3. /\ build'.pc = "dispose" /\ build'.todo = build.todo \ {p} /\ build'.links = build.links
      /\ build'.found = build.found /\ build'.effective = build.effective
      /\ build'.listed = build.listed
      /\ build'.counters = counters /\ meta'.counters = counters
  BY <1>1, <1>2 DEF Progress, Build, TypeOK
<1>4. Admitted' = Admitted
  BY <1>3 DEF Admitted
<1>5. /\ Cardinality(build.todo) = Cardinality(build.todo \ {p}) + 1
      /\ Cardinality(build.todo \ {p}) \in Nat
      /\ Cardinality(build.found \ Admitted) \in Nat
  <2>1. build.found \ Admitted \in SUBSET Paths /\ build.todo \in SUBSET Paths
    BY <1>1 DEF Build
  <2> QED BY <1>1, <2>1, CountWithout, CountsOfPaths
<1>6. \A q \in Paths \ {p} : rows'[q] = rows[q]
  BY <1>1 DEF Dispose, RecordIndexed, RecordSkip, LeaveUnreadable, TypeOK
<1>7. build.todo \subseteq pending /\ p \in pending
  BY <1>1 DEF Tally, QueueCounted
<1>8. CASE RecordIndexed(p)
  <2>1. rows'[p] = Rewritten(p) /\ pending' = pending \ {p} /\ counters = Counted(1)
    BY <1>1, <1>2, <1>3, <1>8 DEF RecordIndexed, Progress, TypeOK, Build
  <2>2. Rewritten(p) \in Row /\ rows'[p] # NULL /\ (build.links => rows'[p].link = rows'[p].text)
    BY <1>1, <1>8, <2>1, RewrittenIsARow, RowsAssumption DEF Dispose, RecordIndexed
  <2>3. Indexed' \ pending' = (Indexed \ pending) \cup {p} /\ p \notin Indexed \ pending
    BY <1>6, <1>7, <2>1, <2>2 DEF Indexed
  <2>4. Cardinality(Indexed' \ pending') = Cardinality(Indexed \ pending) + 1
    <3>1. Indexed \ pending \in SUBSET Paths
      BY DEF Indexed
    <3> QED BY <2>3, <3>1, CountsOfPaths, FS_AddElement
  <2>5. counters.seen = build.counters.seen /\ counters.skipped = build.counters.skipped
        /\ counters.indexed = build.counters.indexed + 1
    BY <1>1, <2>1 DEF Counted, Counts
  <2>6. QueueCounted'
    BY <1>1, <1>3, <1>4, <1>5, <1>7, <2>1, <2>4, <2>5 DEF Tally, QueueCounted, Counts
  <2>7. LinksRead'
    BY <1>1, <1>3, <1>6, <2>2 DEF Tally, LinksRead, Inexact, Indexed
  <2> QED BY <1>3, <2>6, <2>7 DEF Tally, WalkCounted, PlanCounted
<1>9. CASE RecordSkip(p) \/ LeaveUnreadable(p)
  <2>1. counters = Skipped(1)
    BY <1>1, <1>2, <1>3, <1>9 DEF RecordSkip, LeaveUnreadable, Progress, Build
  <2>2. /\ rows'[p] \in {NULL, rows[p]}
        /\ Indexed' \ pending' = Indexed \ pending
        /\ build'.todo \subseteq pending'
    <3>1. CASE RecordSkip(p)
      <4>1. rows'[p] = NULL /\ pending' = pending \ {p}
        BY <1>1, <3>1 DEF RecordSkip, ScanInv, QueueLegal, TypeOK
      <4> QED BY <1>3, <1>6, <1>7, <4>1 DEF Indexed
    <3>2. CASE LeaveUnreadable(p)
      BY <1>3, <1>7, <3>2 DEF LeaveUnreadable, Indexed
    <3> QED BY <1>9, <3>1, <3>2
  <2>3. counters.seen = build.counters.seen /\ counters.skipped = build.counters.skipped + 1
        /\ counters.indexed = build.counters.indexed
    BY <1>1, <2>1 DEF Skipped, Counts
  <2>4. QueueCounted'
    <3>1. /\ build.counters.seen = build.counters.indexed + build.counters.skipped
                                     + Cardinality(build.todo) + Cardinality(build.found \ Admitted)
          /\ Cardinality(Indexed \ pending) = build.counters.indexed
      BY <1>1 DEF Tally, QueueCounted
    <3>2. counters.seen = counters.indexed + counters.skipped
                            + Cardinality(build.todo \ {p}) + Cardinality(build.found \ Admitted)
      BY <1>1, <1>5, <2>3, <3>1 DEF Counts
    <3> QED BY <1>3, <1>4, <2>2, <2>3, <3>1, <3>2 DEF QueueCounted
  <2>5. LinksRead'
    BY <1>1, <1>3, <1>6, <2>2 DEF Tally, LinksRead, Inexact, Indexed
  <2> QED BY <1>3, <2>4, <2>5 DEF Tally, WalkCounted, PlanCounted
<1> QED BY <1>8, <1>9 DEF Dispose

LEMMA NextKeepsTally == ScanInv /\ Tally /\ [Next]_vars => Tally'
<1> SUFFICES ASSUME ScanInv, Tally, [Next]_vars PROVE Tally'
  OBVIOUS
<1>1. TypeOK
  BY DEF ScanInv
<1>2. CASE UNCHANGED vars
  BY <1>1, <1>2, RestKeepsTally DEF vars
<1>3. CASE EndBuild
  BY <1>3 DEF EndBuild, Tally, WalkCounted, PlanCounted, QueueCounted, LinksRead
<1>4. CASE Reconfigure \/ \E p \in Paths : Edit(p) \/ Commit(p) \/ Restore(p)
  <2>1. UNCHANGED <<rows, pending, build, meta>>
    BY <1>4 DEF Reconfigure, Edit, Commit, Restore
  <2> QED BY <1>1, <2>1, RestKeepsTally
<1>5. CASE Next
  BY <1>1, <1>3, <1>4, <1>5, MigrateKeepsTally, WalkKeepsTally, CompareKeepsTally, DeleteKeepsTally,
     CloseKeepsTally, LinksKeepTally, ReadKeepsTally, DisposeKeepsTally DEF Next, BuildStep
<1> QED BY <1>2, <1>5

LEMMA TallyHolds == Spec => []Tally
<1>1. Init => Tally
  BY DEF Init, Tally, WalkCounted, PlanCounted, QueueCounted, LinksRead
<1> QED BY <1>1, ScanInvHolds, NextKeepsTally, PTL DEF Spec

\* When a scan has completed, each file it saw was counted once and as what it
\* became, whatever was edited, committed or unreadable while it ran (counters).
THEOREM CountsAreWhole == Spec => []CompletionIsWhole
<1>1. ScanInv /\ Tally => CompletionIsWhole
  <2> SUFFICES ASSUME ScanInv, Tally, build # NULL, build.pc = "release"
               PROVE  CompletionIsWhole
    BY DEF CompletionIsWhole
  <2>1. /\ build.counters.seen = build.counters.indexed + build.counters.skipped
                                   + Cardinality(build.todo) + Cardinality(build.found \ Admitted)
        /\ meta.counters = build.counters /\ Cardinality(build.todo) = 0
        /\ Cardinality(Indexed \ pending) = build.counters.indexed
        /\ build.links => Inexact = {}
    BY FS_EmptySet DEF Tally, QueueCounted, LinksRead
  <2>2. /\ build.counters.indexed \in Nat /\ build.counters.skipped \in Nat
        /\ Cardinality(build.found \ Admitted) \in Nat
    <3>1. build \in Build
      BY DEF ScanInv, TypeOK
    <3>2. build.found \ Admitted \in SUBSET Paths
      BY <3>1 DEF Build
    <3> QED BY <3>1, <3>2, CountsOfPaths DEF Build, Counts
  <2> QED BY <2>1, <2>2 DEF CompletionIsWhole
<1> QED BY <1>1, TallyHolds, ScanInvHolds, PTL

-----------------------------------------------------------------------------
(* What a search may trust. *)

\* The files of a path that anybody still holds: the tree, git, the rows, a build.
Versions(p) ==
    ({disk[p], index[p]} \cup (IF rows[p] = NULL THEN {} ELSE {rows[p].blob})
       \cup (IF build = NULL THEN {} ELSE {build.listed[p]})
       \cup (IF HasRead(p) THEN {Got} ELSE {})) \ {NULL}

\* A text is given to a file once, and rows are read from text files.
History ==
    \A p \in Paths :
        /\ \A v \in Versions(p) : v.text <= bounds.edits + 1
        /\ \A v, w \in Versions(p) : v.text = w.text => v = w
        /\ rows[p] # NULL =>
              /\ rows[p].text <= bounds.edits + 1
              /\ \A v \in Versions(p) : v.text = rows[p].text => v.kind = "text"

LEMMA VersionsAreFiles ==
  ASSUME TypeOK, NEW p \in Paths
  PROVE  Versions(p) \subseteq File
<1>1. rows[p] # NULL => rows[p].blob \in File \cup {NULL}
  BY DEF TypeOK, Row
<1>2. build # NULL => build.listed[p] \in File \cup {NULL}
  BY DEF TypeOK, Build
<1>3. disk[p] \in File \cup {NULL} /\ index[p] \in File \cup {NULL}
  BY DEF TypeOK
<1>4. HasRead(p) => Got \in File \cup {NULL}
  BY ReadIsAFile
<1> QED BY <1>1, <1>2, <1>3, <1>4 DEF Versions

\* A row stays, goes, or is read from a text file that somebody holds.
Follows(p) ==
    \/ rows'[p] = NULL
    \/ rows[p] # NULL /\ rows'[p].text = rows[p].text
    \/ \E v \in Versions(p) : v.kind = "text" /\ rows'[p].text = v.text

LEMMA CopiesKeepHistory ==
  ASSUME TypeOK, TypeOK', History, bounds'.edits = bounds.edits,
         \A p \in Paths : Versions(p)' \subseteq Versions(p) /\ Follows(p)
  PROVE  History'
<1> SUFFICES ASSUME NEW p \in Paths
             PROVE  (/\ \A v \in Versions(p) : v.text <= bounds.edits + 1
                     /\ \A v, w \in Versions(p) : v.text = w.text => v = w
                     /\ rows[p] # NULL =>
                          /\ rows[p].text <= bounds.edits + 1
                          /\ \A v \in Versions(p) : v.text = rows[p].text => v.kind = "text")'
  BY DEF History
<1>1. Versions(p)' \subseteq Versions(p) /\ Follows(p)
  OBVIOUS
<1>2. ASSUME rows'[p] # NULL
      PROVE  /\ rows'[p].text <= bounds.edits + 1
             /\ \A v \in Versions(p) : v.text = rows'[p].text => v.kind = "text"
  <2>1. CASE rows[p] # NULL /\ rows'[p].text = rows[p].text
    BY <2>1 DEF History
  <2>2. CASE \E v \in Versions(p) : v.kind = "text" /\ rows'[p].text = v.text
    BY <2>2 DEF History
  <2> QED BY <1>1, <1>2, <2>1, <2>2 DEF Follows
<1> QED BY <1>1, <1>2 DEF History

\* What a build holds as read of a file is a version of it, at whatever step.
LEMMA HeldReads ==
  ASSUME TypeOK, NEW p \in Paths,
         \/ build' = NULL
         \/ build'.reading = NULL
         \/ build # NULL /\ build'.reading = build.reading
         \/ \E q \in Paths : ReadFile(q)
  PROVE  HasRead(p)' => Got' \in {NULL, disk[p]} \/ (HasRead(p) /\ Got' = Got)
<1>1. ASSUME NEW q \in Paths, ReadFile(q), HasRead(p)'
      PROVE  Got' \in {NULL, disk[p]}
  <2>1. PICK got \in {NULL, disk[q]} : build' = [build EXCEPT !.reading = [path |-> q, got |-> got]]
    BY <1>1 DEF ReadFile
  <2>2. build \in Build
    BY <1>1, ReadTypes
  <2>3. build'.reading.path = q /\ build'.reading.got = got
    BY <2>1, <2>2 DEF Build
  <2> QED BY <1>1, <2>3 DEF HasRead, Got
<1> QED BY <1>1 DEF HasRead, Got

\* Steps that leave the rows and take no more than the index, or a file as it is,
\* into the build.
LEMMA LooksKeepHistory ==
  ASSUME TypeOK, TypeOK', History, UNCHANGED <<disk, index, rows>>,
         bounds'.edits = bounds.edits,
         \/ build' = NULL
         \/ /\ build'.reading = NULL
            /\ \A p \in Paths : build'.listed[p] \in {NULL, index[p]}
         \/ /\ build # NULL /\ build'.reading = build.reading
            /\ \/ build'.listed = build.listed
               \/ \A p \in Paths : build'.listed[p] \in {NULL, index[p]}
         \/ build # NULL /\ build'.listed = build.listed /\ \E q \in Paths : ReadFile(q)
  PROVE  History'
<1>1. ASSUME NEW p \in Paths
      PROVE  Versions(p)' \subseteq Versions(p)
  <2>1. HasRead(p)' => Got' \in {NULL, disk[p]} \/ (HasRead(p) /\ Got' = Got)
    BY HeldReads
  <2>2. \/ build' = NULL
        \/ \A q \in Paths : build'.listed[q] \in {NULL, index[q]}
        \/ build # NULL /\ build'.listed = build.listed
    OBVIOUS
  <2>3. \/ build' = NULL
        \/ build'.listed[p] \in {NULL, index[p]}
        \/ build # NULL /\ build'.listed[p] = build.listed[p]
    BY <2>2
  <2> QED BY <2>1, <2>3 DEF Versions
<1>2. \A p \in Paths : Follows(p)
  BY DEF Follows
<1> QED BY <1>1, <1>2, CopiesKeepHistory

LEMMA WalkKeepsHistory ==
  ASSUME ScanInv, TypeOK', History,
         \/ \E full \in BOOLEAN : Begin(full)
         \/ WalkTree \/ GitUnavailable \/ ListFiles \/ ChangedPaths \/ Compare
         \/ LinksMade \/ Complete \/ EndBuild \/ Reconfigure \/ \E p \in Paths : ReadFile(p)
  PROVE  History'
<1> USE DEF ScanInv
<1>1. UNCHANGED <<disk, index, rows>> /\ bounds'.edits = bounds.edits
  BY DEF TypeOK, Begin, WalkTree, GitUnavailable, ListFiles, ChangedPaths, Compare, LinksMade,
         Complete, EndBuild, Reconfigure, ReadFile
<1>2. CASE \E full \in BOOLEAN : Begin(full)
  <2>1. build'.listed = [p \in Paths |-> NULL] /\ build'.reading = NULL
    BY <1>2 DEF Begin
  <2>2. \A p \in Paths : build'.listed[p] \in {NULL, index[p]}
    BY <2>1
  <2> QED BY <1>1, <2>1, <2>2, LooksKeepHistory
<1>3. CASE EndBuild
  BY <1>1, <1>3, LooksKeepHistory DEF EndBuild
<1>4. CASE Reconfigure
  BY <1>1, <1>4, LooksKeepHistory DEF Reconfigure
<1>5. CASE GitUnavailable \/ ListFiles
  <2>1. build # NULL /\ build \in Build
    BY <1>5 DEF GitUnavailable, ListFiles, TypeOK
  <2>2. /\ build'.reading = build.reading
        /\ build'.listed = [p \in Paths |-> NULL] \/ build'.listed = index
    BY <1>5, <2>1 DEF GitUnavailable, ListFiles, Build
  <2>3. \A p \in Paths : build'.listed[p] \in {NULL, index[p]}
    BY <2>2
  <2> QED BY <1>1, <2>1, <2>2, <2>3, LooksKeepHistory
<1>6. CASE WalkTree \/ ChangedPaths \/ Compare \/ LinksMade \/ Complete
  <2>1. build # NULL /\ build \in Build
    BY <1>6 DEF WalkTree, ChangedPaths, Compare, LinksMade, Complete, TypeOK
  <2>2. build'.reading = build.reading /\ build'.listed = build.listed
    <3>1. CASE WalkTree
      BY <2>1, <3>1 DEF WalkTree, Build
    <3>2. CASE Compare
      <4>1. build'.reading = build.reading
        BY <2>1, <3>2 DEF Compare, Build
      <4>2. build'.listed = build.listed
        BY <2>1, <3>2 DEF Compare, Build
      <4> QED BY <4>1, <4>2
    <3>3. CASE ChangedPaths \/ LinksMade \/ Complete
      BY <2>1, <3>3 DEF ChangedPaths, LinksMade, Complete, Build
    <3> QED BY <1>6, <3>1, <3>2, <3>3
  <2> QED BY <1>1, <2>1, <2>2, LooksKeepHistory
<1>7. ASSUME NEW p \in Paths, ReadFile(p)
      PROVE  History'
  <2>1. PICK got : build' = [build EXCEPT !.reading = [path |-> p, got |-> got]]
    BY <1>7, ReadTypes
  <2>2. build # NULL /\ build'.listed = build.listed
    BY <1>7, <2>1, ReadTypes DEF Build
  <2> QED BY <1>1, <1>7, <2>2, LooksKeepHistory
<1> QED BY <1>2, <1>3, <1>4, <1>5, <1>6, <1>7

\* What the steps that write rows leave of one.
LEMMA RowsFollow ==
  ASSUME ScanInv, TypeOK', NEW p \in Paths,
         \/ DropDerived \/ CloseWalkPhase \/ Migrate
         \/ \E q \in Paths : Delete(q) \/ MakeExact(q) \/ Dispose(q)
  PROVE  /\ Follows(p)
         /\ rows'[p] # NULL =>
              \/ rows[p] # NULL /\ rows'[p].blob = rows[p].blob
              \/ build # NULL /\ rows'[p].blob = build.listed[p]
<1> USE DEF ScanInv
<1>1. CASE DropDerived
  BY <1>1 DEF DropDerived, Follows
<1>2. CASE CloseWalkPhase
  <2>1. build # NULL /\ build.listed[p] \in File \cup {NULL}
    BY <1>2 DEF CloseWalkPhase, TypeOK, Build
  <2>2. CASE p \in build.refreshed
    <3>1. rows[p] \in Row /\ rows[p] # NULL
      BY <1>2, <2>2 DEF CloseWalkPhase, PlanLegal, Indexed, TypeOK
    <3>2. rows'[p] = [rows[p] EXCEPT !.blob = build.listed[p]]
      BY <1>2, <2>2 DEF CloseWalkPhase
    <3> QED BY <2>1, <3>1, <3>2 DEF Follows, Row
  <2>3. CASE p \notin build.refreshed
    <3>1. rows'[p] = rows[p]
      BY <1>2, <2>3 DEF CloseWalkPhase
    <3> QED BY <3>1 DEF Follows
  <2> QED BY <2>2, <2>3
<1>3. CASE Migrate
  <2>1. CASE rows[p] = NULL
    BY <1>3, <2>1 DEF Migrate, Follows
  <2>2. CASE rows[p] # NULL
    <3>1. rows[p] \in Row
      BY <2>2 DEF TypeOK
    <3>2. rows'[p] = [rows[p] EXCEPT !.link = rows[p].text]
      BY <1>3, <2>2 DEF Migrate
    <3> QED BY <2>2, <3>1, <3>2 DEF Follows, Row
  <2> QED BY <2>1, <2>2
<1>4. ASSUME NEW q \in Paths, Delete(q)
      PROVE  rows'[p] \in {NULL, rows[p]}
  BY <1>4 DEF Delete, TypeOK
<1>5. ASSUME NEW q \in Paths, MakeExact(q)
      PROVE  rows[p] # NULL => rows'[p].text = rows[p].text /\ rows'[p].blob = rows[p].blob
  <2>1. rows[q] \in Row
    BY <1>5 DEF MakeExact, Inexact, Indexed, TypeOK
  <2>2. rows'[p] = IF p = q THEN [rows[p] EXCEPT !.link = rows[p].text] ELSE rows[p]
    BY <1>5 DEF MakeExact, TypeOK
  <2> QED BY <2>1, <2>2 DEF Row
<1>6. ASSUME NEW q \in Paths, MakeExact(q), rows[p] = NULL
      PROVE  rows'[p] = NULL
  <2>1. p # q
    BY <1>6 DEF MakeExact, Inexact, Indexed
  <2> QED BY <1>6, <2>1 DEF MakeExact, TypeOK
<1>7. ASSUME NEW q \in Paths, Dispose(q)
      PROVE  \/ rows'[p] \in {NULL, rows[p]}
             \/ /\ build # NULL /\ ReadText(p)
                /\ rows'[p].text = Got.text /\ rows'[p].blob = build.listed[p]
  <2>1. build # NULL /\ HasRead(q)
    BY <1>7 DEF Dispose, HasRead
  <2>2. CASE RecordIndexed(q)
    <3>1. rows'[q] = Rewritten(q) /\ ReadText(q)
      BY <2>1, <2>2 DEF RecordIndexed, ReadText, TypeOK
    <3>2. p # q => rows'[p] = rows[p]
      BY <2>2 DEF RecordIndexed, TypeOK
    <3> QED BY <2>1, <3>1, <3>2 DEF Rewritten
  <2>3. CASE RecordSkip(q) \/ LeaveUnreadable(q)
    BY <2>3 DEF RecordSkip, LeaveUnreadable, TypeOK
  <2> QED BY <1>7, <2>2, <2>3 DEF Dispose
<1> QED BY <1>1, <1>2, <1>3, <1>4, <1>5, <1>6, <1>7 DEF Follows, Versions, ReadText

LEMMA WritesKeepHistory ==
  ASSUME ScanInv, TypeOK', History,
         \/ DropDerived \/ CloseWalkPhase \/ Migrate
         \/ \E q \in Paths : Delete(q) \/ MakeExact(q) \/ Dispose(q)
  PROVE  History'
<1>1. UNCHANGED <<disk, index, bounds>>
  BY DEF DropDerived, CloseWalkPhase, Migrate, Delete, MakeExact, Dispose
<1>2. \/ build' = build
      \/ /\ build # NULL /\ build'.listed = build.listed
         /\ build'.reading \in {NULL, build.reading}
  <2>1. CASE Migrate \/ \E q \in Paths : MakeExact(q)
    BY <2>1 DEF Migrate, MakeExact
  <2>2. CASE DropDerived \/ CloseWalkPhase \/ \E q \in Paths : Delete(q)
    <3>1. build # NULL /\ build \in Build
      BY <2>2 DEF DropDerived, CloseWalkPhase, Delete, ScanInv, TypeOK
    <3>2. CASE DropDerived
      BY <3>1, <3>2 DEF DropDerived, Build
    <3>3. CASE CloseWalkPhase
      BY <3>1, <3>3 DEF CloseWalkPhase, Build
    <3>4. CASE \E q \in Paths : Delete(q)
      BY <3>1, <3>4 DEF Delete, Build
    <3> QED BY <2>2, <3>2, <3>3, <3>4
  <2>3. ASSUME NEW q \in Paths, Dispose(q)
        PROVE  build # NULL /\ build'.listed = build.listed /\ build'.reading = NULL
    <3>1. build # NULL /\ build \in Build
      BY <2>3, ReadIsAFile DEF Dispose, ScanInv
    <3> QED BY <2>3, <3>1 DEF Dispose, RecordIndexed, RecordSkip, LeaveUnreadable, Progress, Build
  <2> QED BY <2>1, <2>2, <2>3
<1>3. ASSUME NEW p \in Paths
      PROVE  Versions(p)' \subseteq Versions(p) /\ Follows(p)
  <2>1. HasRead(p)' => HasRead(p) /\ Got' = Got
    BY <1>2 DEF HasRead, Got
  <2> QED BY <1>1, <1>2, <2>1, RowsFollow DEF Versions
<1> QED BY <1>1, <1>3, CopiesKeepHistory DEF ScanInv

LEMMA UsersKeepHistory ==
  ASSUME ScanInv, TypeOK', History, NEW p \in Paths, Edit(p) \/ Commit(p) \/ Restore(p)
  PROVE  History'
<1> USE DEF ScanInv
<1>1. CASE Commit(p)
  <2>1. \A q \in Paths : Versions(q)' \subseteq Versions(q)
    BY <1>1 DEF Commit, Versions, HasRead, Got, TypeOK
  <2>2. bounds'.edits = bounds.edits /\ \A q \in Paths : Follows(q)
    BY <1>1 DEF Commit, Follows
  <2> QED BY <2>1, <2>2, CopiesKeepHistory
<1>2. CASE Restore(p)
  <2>1. \A q \in Paths : Versions(q)' \subseteq Versions(q)
    BY <1>2 DEF Restore, Versions, HasRead, Got, TypeOK
  <2>2. bounds'.edits = bounds.edits /\ \A q \in Paths : Follows(q)
    BY <1>2 DEF Restore, Follows
  <2> QED BY <2>1, <2>2, CopiesKeepHistory
<1>3. CASE Edit(p)
  <2>1. /\ bounds.edits \in Nat /\ bounds'.edits = bounds.edits + 1
        /\ UNCHANGED <<index, rows, build>>
    BY <1>3, BoundsAssumption DEF Edit, TypeOK
  <2>2. \/ disk' = [disk EXCEPT ![p] = NULL]
        \/ \E kind \in Kinds : disk' = [disk EXCEPT ![p] = [kind |-> kind, text |-> bounds.edits + 2]]
    BY <1>3 DEF Edit
  <2>3. disk'[p] = NULL \/ disk'[p].text = bounds.edits + 2
    BY <2>2 DEF TypeOK
  <2>4. \A q \in Paths \ {p} : disk'[q] = disk[q]
    BY <2>2 DEF TypeOK
  <2> SUFFICES ASSUME NEW q \in Paths
               PROVE  (/\ \A v \in Versions(q) : v.text <= bounds.edits + 1
                       /\ \A v, w \in Versions(q) : v.text = w.text => v = w
                       /\ rows[q] # NULL =>
                            /\ rows[q].text <= bounds.edits + 1
                            /\ \A v \in Versions(q) : v.text = rows[q].text => v.kind = "text")'
    BY DEF History
  <2>5. /\ \A v \in Versions(q) : v \in File /\ v.text \in Nat /\ v.text <= bounds.edits + 1
        /\ rows[q] # NULL => rows[q].text \in Nat
    BY VersionsAreFiles DEF File, Texts, History, TypeOK, Row
  <2>6. ASSUME NEW v \in Versions(q)'
        PROVE  v \in Versions(q) \/ (v = disk'[p] /\ v.text = bounds.edits + 2)
    BY <2>1, <2>3, <2>4 DEF Versions, HasRead, Got
  <2> QED BY <2>1, <2>5, <2>6 DEF History
<1> QED BY <1>1, <1>2, <1>3

LEMMA NextKeepsHistory == ScanInv /\ TypeOK' /\ History /\ [Next]_vars => History'
<1> SUFFICES ASSUME ScanInv, TypeOK', History, [Next]_vars PROVE History'
  OBVIOUS
<1>1. CASE UNCHANGED vars
  BY <1>1 DEF vars, History, Versions, HasRead, Got
<1>2. CASE Next
  BY <1>2, WalkKeepsHistory, WritesKeepHistory, UsersKeepHistory DEF Next, BuildStep
<1> QED BY <1>1, <1>2

\* No file is as git's blob, stored or about to be, says of a text of another content,
\* stored or read and about to be: what a later scan would clear unread has not changed.
HonestBlobs ==
    /\ build # NULL /\ build.pc # "delete" => build.refreshed = {}
    /\ \A p \in Paths : ~IndexedAhead(p, disk[p])

\* Steps that leave files and rows, with nothing refreshed and nothing read.
LEMMA LooksKeepHonest ==
  ASSUME HonestBlobs, UNCHANGED <<disk, rows>>,
         build' = NULL \/ (build'.refreshed = {} /\ build'.reading = NULL)
  PROVE  HonestBlobs'
BY DEF HonestBlobs, IndexedAhead, ReadText, HasRead

LEMMA WalkKeepsHonest ==
  ASSUME ScanInv, HonestBlobs,
         \/ \E full \in BOOLEAN : Begin(full)
         \/ WalkTree \/ GitUnavailable \/ ListFiles \/ ChangedPaths
         \/ LinksMade \/ Complete \/ EndBuild
  PROVE  HonestBlobs'
<1>1. UNCHANGED <<disk, rows>>
  BY DEF Begin, WalkTree, GitUnavailable, ListFiles, ChangedPaths, LinksMade, Complete, EndBuild
<1>2. build' = NULL \/ (build'.refreshed = {} /\ build'.reading = NULL)
  <2>1. ASSUME NEW full \in BOOLEAN, Begin(full)
        PROVE  build'.refreshed = {} /\ build'.reading = NULL
    BY <2>1 DEF Begin
  <2>2. CASE WalkTree \/ GitUnavailable \/ ListFiles \/ ChangedPaths \/ LinksMade \/ Complete
    <3>1. build # NULL /\ build \in Build /\ build.pc # "delete"
      BY <2>2 DEF WalkTree, GitUnavailable, ListFiles, ChangedPaths, LinksMade, Complete,
                  ScanInv, TypeOK
    <3>2. build.refreshed = {} /\ build.reading = NULL
      <4>1. Complete => build.todo = {}
        BY DEF Complete
      <4>2. ~Complete => build.pc # "dispose"
        BY <2>2 DEF WalkTree, GitUnavailable, ListFiles, ChangedPaths, LinksMade
      <4> QED BY <3>1, <4>1, <4>2 DEF HonestBlobs, ScanInv, ReadStands
    <3>3. CASE WalkTree
      BY <3>1, <3>2, <3>3 DEF WalkTree, Build
    <3>4. CASE GitUnavailable \/ ListFiles \/ ChangedPaths \/ LinksMade \/ Complete
      BY <3>1, <3>2, <3>4 DEF GitUnavailable, ListFiles, ChangedPaths, LinksMade, Complete, Build
    <3> QED BY <2>2, <3>3, <3>4
  <2>3. CASE EndBuild
    BY <2>3 DEF EndBuild
  <2> QED BY <2>1, <2>2, <2>3
<1> QED BY <1>1, <1>2, LooksKeepHonest

\* What has just been read is what the file is.
LEMMA ReadKeepsHonest ==
  ASSUME ScanInv, HonestBlobs, NEW p \in Paths, ReadFile(p)
  PROVE  HonestBlobs'
<1>1. TypeOK
  BY DEF ScanInv
<1>2. PICK got \in {NULL, disk[p]} : build' = [build EXCEPT !.reading = [path |-> p, got |-> got]]
  BY <1>1, ReadTypes
<1>3. /\ build # NULL /\ build \in Build /\ build.pc = "dispose" /\ UNCHANGED <<disk, rows>>
      /\ build.refreshed = {}
  BY <1>1, ReadTypes DEF HonestBlobs
<1>4. /\ build'.refreshed = {} /\ build'.listed = build.listed
      /\ build'.reading.path = p /\ build'.reading.got = got
  BY <1>2, <1>3 DEF Build
<1>5. ASSUME NEW q \in Paths, IndexedAhead(q, disk[q])'
      PROVE  FALSE
  <2>1. CASE ReadText(q)' /\ Got'.text # disk'[q].text
    <3>1. q = p /\ Got' = got /\ got # NULL
      BY <1>4, <2>1 DEF ReadText, HasRead, Got
    <3> QED BY <1>2, <1>3, <2>1, <3>1
  <2>2. CASE rows'[q] # NULL /\ disk'[q] # NULL /\ rows'[q].text # disk'[q].text
               /\ disk'[q] = rows'[q].blob
    BY <1>3, <2>2 DEF HonestBlobs, IndexedAhead
  <2> QED BY <1>4, <1>5, <2>1, <2>2 DEF IndexedAhead
<1> QED BY <1>4, <1>5 DEF HonestBlobs

\* The blob of a file kept is refreshed only if the file was read and is as indexed.
LEMMA CompareKeepsHonest ==
  ASSUME ScanInv, HonestBlobs, Compare
  PROVE  HonestBlobs'
<1>1. build # NULL /\ build \in Build /\ build.pc = "compare" /\ TypeOK
  BY DEF Compare, TypeOK, ScanInv
<1>2. PICK read \in Reads :
         build' = [build EXCEPT
             !.pc = "delete", !.reported = {}, !.changed = Changed(read),
             !.previously = Changed(read) \cap Indexed,
             !.refreshed = {p \in Kept(read) : build.effective # "off"
                                                 /\ build.listed[p] # rows[p].blob},
             !.deletions = Indexed \ (Admitted \ Refused(read)),
             !.counters = Skipped(Cardinality(Refused(read))),
             !.todo = Kept(read)]
  BY DEF Compare
<1>3. /\ build'.pc = "delete" /\ build'.listed = build.listed
      /\ build'.refreshed = {p \in Kept(read) : build.effective # "off"
                                                  /\ build.listed[p] # rows[p].blob}
      /\ build'.reading = NULL
  <2>1. build'.reading = build.reading
    BY <1>1, <1>2 DEF Build
  <2>2. build'.pc = "delete" /\ build'.listed = build.listed
    BY <1>1, <1>2 DEF Build
  <2>3. build'.refreshed = {p \in Kept(read) : build.effective # "off"
                                                  /\ build.listed[p] # rows[p].blob}
    BY <1>1, <1>2 DEF Build
  <2> QED BY <1>1, <2>1, <2>2, <2>3 DEF ScanInv, ReadStands
<1>4. ASSUME NEW p \in build'.refreshed
      PROVE  disk[p].text = rows[p].text
  <2>1. p \in Kept(read) /\ build.listed[p] # rows[p].blob
    BY <1>3
  <2>2. p \notin ClearedByGit
    BY <2>1 DEF ClearedByGit, UnchangedByGit
  <2> QED BY <2>1, <2>2 DEF Kept
<1>5. UNCHANGED <<disk, rows>>
  BY DEF Compare
<1>6. ASSUME NEW p \in Paths, IndexedAhead(p, disk[p])'
      PROVE  FALSE
  <2>1. /\ disk[p] # NULL /\ rows[p] # NULL /\ rows[p].text # disk[p].text
        /\ disk[p] = rows[p].blob \/ p \in build'.refreshed
    BY <1>3, <1>5, <1>6 DEF IndexedAhead, ReadText, HasRead
  <2>2. CASE disk[p] = rows[p].blob
    BY <2>1, <2>2 DEF HonestBlobs, IndexedAhead
  <2>3. CASE p \in build'.refreshed
    BY <1>4, <2>1, <2>3
  <2> QED BY <2>1, <2>2, <2>3
<1> QED BY <1>3, <1>6 DEF HonestBlobs

LEMMA CloseKeepsHonest ==
  ASSUME ScanInv, HonestBlobs, CloseWalkPhase
  PROVE  HonestBlobs'
<1>1. build # NULL /\ build \in Build /\ build.pc = "delete" /\ TypeOK
  BY DEF CloseWalkPhase, TypeOK, ScanInv
<1>2. build'.refreshed = {} /\ build'.reading = NULL /\ disk' = disk
  BY <1>1 DEF CloseWalkPhase, Build, ScanInv, ReadStands
<1>3. ASSUME NEW p \in Paths, IndexedAhead(p, disk[p])'
      PROVE  FALSE
  <2>1. rows'[p] # NULL /\ disk[p] # NULL /\ rows'[p].text # disk[p].text /\ disk[p] = rows'[p].blob
    BY <1>2, <1>3 DEF IndexedAhead, ReadText, HasRead
  <2>2. CASE p \in build.refreshed
    <3>1. rows[p] \in Row /\ rows[p] # NULL /\ build.listed[p] \in File \cup {NULL}
      BY <1>1, <2>2 DEF ScanInv, PlanLegal, Indexed, TypeOK, Build
    <3>2. rows'[p] = [rows[p] EXCEPT !.blob = build.listed[p]]
      BY <2>2 DEF CloseWalkPhase
    <3>3. rows'[p].text = rows[p].text /\ rows'[p].blob = build.listed[p]
      BY <3>1, <3>2 DEF Row
    <3> QED BY <1>1, <2>1, <2>2, <3>1, <3>3 DEF HonestBlobs, IndexedAhead
  <2>3. CASE p \notin build.refreshed
    <3>1. rows'[p] = rows[p]
      BY <2>3 DEF CloseWalkPhase
    <3> QED BY <2>1, <3>1 DEF HonestBlobs, IndexedAhead
  <2> QED BY <2>2, <2>3
<1> QED BY <1>2, <1>3 DEF HonestBlobs

LEMMA WritesKeepHonest ==
  ASSUME ScanInv, TypeOK', HonestBlobs,
         \/ DropDerived \/ Migrate
         \/ \E q \in Paths : Delete(q) \/ MakeExact(q) \/ Dispose(q)
  PROVE  HonestBlobs'
<1> USE DEF ScanInv
<1>1. CASE DropDerived
  <2>1. build # NULL /\ build \in Build /\ build.pc = "rebuild"
    BY <1>1 DEF DropDerived, TypeOK
  <2>2. build'.refreshed = build.refreshed /\ build'.reading = NULL
    BY <1>1, <2>1 DEF DropDerived, Build, ReadStands
  <2>3. \A p \in Paths : rows'[p] = NULL
    BY <1>1 DEF DropDerived
  <2> QED BY <2>1, <2>2, <2>3 DEF HonestBlobs, IndexedAhead, ReadText, HasRead
<1>2. ASSUME NEW q \in Paths, Delete(q)
      PROVE  HonestBlobs'
  <2>1. /\ build # NULL /\ build \in Build /\ build.pc = "delete"
        /\ build'.refreshed = build.refreshed /\ build'.listed = build.listed
        /\ build'.pc = "delete" /\ disk' = disk /\ build'.reading = NULL
    BY <1>2 DEF Delete, TypeOK, Build, ReadStands
  <2>2. \A p \in Paths : rows'[p] = NULL \/ rows'[p] = rows[p]
    BY <1>2 DEF Delete, TypeOK
  <2> QED BY <2>1, <2>2 DEF HonestBlobs, IndexedAhead, ReadText, HasRead
<1>3. CASE Migrate \/ \E q \in Paths : MakeExact(q)
  <2>1. UNCHANGED <<disk, build>>
    BY <1>3 DEF Migrate, MakeExact
  <2>2. ASSUME NEW p \in Paths, rows'[p] # NULL
        PROVE  rows[p] # NULL /\ rows'[p].text = rows[p].text /\ rows'[p].blob = rows[p].blob
    <3>1. CASE Migrate
      <4>1. rows[p] \in Row /\ rows[p] # NULL
        BY <2>2, <3>1 DEF Migrate, TypeOK
      <4>2. rows'[p] = [rows[p] EXCEPT !.link = rows[p].text]
        BY <3>1, <4>1 DEF Migrate
      <4> QED BY <4>1, <4>2 DEF Row
    <3>2. ASSUME NEW q \in Paths, MakeExact(q)
          PROVE  rows[p] # NULL /\ rows'[p].text = rows[p].text /\ rows'[p].blob = rows[p].blob
      <4>1. rows[q] \in Row /\ rows[q] # NULL
        BY <3>2 DEF MakeExact, Inexact, Indexed, TypeOK
      <4>2. rows'[p] = IF p = q THEN [rows[p] EXCEPT !.link = rows[p].text] ELSE rows[p]
        BY <3>2 DEF MakeExact, TypeOK
      <4> QED BY <2>2, <4>1, <4>2 DEF Row
    <3> QED BY <1>3, <3>1, <3>2
  <2> QED BY <2>1, <2>2 DEF HonestBlobs, IndexedAhead, ReadText, HasRead, Got
<1>4. ASSUME NEW q \in Paths, Dispose(q)
      PROVE  HonestBlobs'
  <2>1. /\ build # NULL /\ build \in Build /\ build.pc = "dispose" /\ build.refreshed = {}
        /\ disk' = disk /\ HasRead(q)
    BY <1>4, ReadIsAFile DEF Dispose, HonestBlobs
  <2>2. build'.refreshed = {} /\ build'.reading = NULL
    BY <1>4, <2>1 DEF Dispose, RecordIndexed, RecordSkip, LeaveUnreadable, Progress, Build
  <2>3. ASSUME NEW p \in Paths
        PROVE  \/ rows'[p] \in {NULL, rows[p]}
               \/ ReadText(p) /\ rows'[p].text = Got.text /\ rows'[p].blob = build.listed[p]
    <3>1. p # q => rows'[p] = rows[p]
      BY <1>4 DEF Dispose, RecordIndexed, RecordSkip, LeaveUnreadable, TypeOK
    <3>2. \/ rows'[q] \in {NULL, rows[q]}
          \/ ReadText(q) /\ rows'[q].text = Got.text /\ rows'[q].blob = build.listed[q]
      BY <1>4, <2>1 DEF Dispose, RecordIndexed, RecordSkip, LeaveUnreadable, Rewritten, ReadText,
                        TypeOK
    <3> QED BY <3>1, <3>2
  <2>4. ASSUME NEW p \in Paths, IndexedAhead(p, disk[p])'
        PROVE  FALSE
    <3>1. /\ disk[p] # NULL /\ rows'[p] # NULL /\ rows'[p].text # disk[p].text
          /\ disk[p] = rows'[p].blob
      BY <2>1, <2>2, <2>4 DEF IndexedAhead, ReadText, HasRead
    <3>2. ~IndexedAhead(p, disk[p])
      BY DEF HonestBlobs
    <3> QED BY <2>3, <3>1, <3>2 DEF IndexedAhead
  <2> QED BY <2>2, <2>4 DEF HonestBlobs
<1> QED BY <1>1, <1>2, <1>3, <1>4

\* Here alone the restores have to stay away from such a file.
LEMMA UsersKeepHonest ==
  ASSUME ~Reverts, ScanInv, TypeOK', HonestBlobs, History, NEW p \in Paths,
         Edit(p) \/ Commit(p) \/ Restore(p)
  PROVE  HonestBlobs'
<1>1. UNCHANGED <<rows, build>>
  BY DEF Edit, Commit, Restore
<1>2. CASE Commit(p)
  BY <1>1, <1>2 DEF Commit, HonestBlobs, IndexedAhead, ReadText, HasRead, Got
<1>3. CASE Restore(p)
  BY <1>1, <1>3 DEF Restore, HonestBlobs, IndexedAhead, ReadText, HasRead, Got, ScanInv, TypeOK
<1>4. CASE Edit(p)
  <2>1. bounds.edits \in Nat
    BY BoundsAssumption DEF ScanInv, TypeOK
  <2>2. disk'[p] = NULL \/ disk'[p].text = bounds.edits + 2
    BY <1>4 DEF Edit, ScanInv, TypeOK
  <2>3. \A q \in Paths \ {p} : disk'[q] = disk[q]
    BY <1>4 DEF Edit, ScanInv, TypeOK
  <2>4. \A v \in Versions(p) : v.text # bounds.edits + 2
    BY <2>1, VersionsAreFiles DEF History, File, Texts, ScanInv
  <2>5. ~IndexedAhead(p, disk[p])'
    BY <1>1, <2>2, <2>4 DEF IndexedAhead, ReadText, HasRead, Versions
  <2> QED BY <1>1, <2>3, <2>5 DEF HonestBlobs, IndexedAhead, ReadText, HasRead, Got
<1> QED BY <1>2, <1>3, <1>4

LEMMA NextKeepsHonest ==
  ASSUME ~Reverts, ScanInv, TypeOK', History, HonestBlobs, [Next]_vars
  PROVE  HonestBlobs'
<1>1. CASE UNCHANGED vars
  BY <1>1 DEF vars, HonestBlobs, IndexedAhead, ReadText, HasRead, Got
<1>2. CASE Reconfigure
  BY <1>2 DEF Reconfigure, HonestBlobs, IndexedAhead, ReadText, HasRead, Got
<1>3. CASE Next
  BY <1>2, <1>3, WalkKeepsHonest, ReadKeepsHonest, CompareKeepsHonest, CloseKeepsHonest, WritesKeepHonest,
     UsersKeepHonest DEF Next, BuildStep
<1> QED BY <1>1, <1>3

\* While nobody changes a file, what a build holds of the tree and of git is so.
WalkView ==
    build # NULL =>
        /\ build.pc \in {"list", "status", "compare", "delete"} => edits \notin GitModes
        /\ build.pc \in {"list", "status"} => build.effective # "off"
        /\ build.effective = "off" => build.listed = [p \in Paths |-> NULL]
        /\ edits = "walking" =>
              /\ build.pc \in {"list", "status", "compare", "delete"} =>
                    build.found = {p \in Paths : disk[p] # NULL /\ disk[p].kind # "big"}
              /\ build.pc \in {"status", "compare", "delete"} /\ build.effective # "off" =>
                    build.listed = index
              /\ build.pc = "compare" /\ build.effective # "off" =>
                    build.reported = {p \in Paths : disk[p] # index[p]}

Candidate(p, effective) ==
    disk[p] # NULL /\ disk[p].kind = "text" /\ (effective = "tracked" => index[p] # NULL)

\* And what it plans is right: kept as it is, a candidate, or out of scope.
PlanIsRight ==
    build # NULL /\ edits = "walking" /\ build.pc = "delete" =>
        /\ \A p \in build.todo : Candidate(p, build.effective) /\ disk[p].text = rows[p].text
        /\ \A p \in build.changed : build.effective = "tracked" => index[p] # NULL
        /\ \A p \in Paths \ (build.todo \cup build.changed) : ~Candidate(p, build.effective)

AllAccounted ==
    \A p \in Paths \ pending :
        IF InScope(p) THEN rows[p] # NULL /\ rows[p].text = disk[p].text ELSE rows[p] = NULL

\* From the end of the walk phase on, also in the builds after it, in the git mode of
\* that walk.
Settled ==
    edits \in GitModes =>
        /\ meta.completed \/ (build # NULL /\ build.pc \in {"links", "dispose", "release"}) =>
              AllAccounted
        /\ build # NULL /\ build.pc \in {"links", "dispose"} =>
              \A p \in build.todo : edits = "tracked" => index[p] # NULL

Served == WalkView /\ PlanIsRight /\ Settled

\* A change of any file ends what is said until the next walk.
LEMMA UsersKeepServed ==
  ASSUME Served, NEW p \in Paths, Edit(p) \/ Commit(p) \/ Restore(p)
  PROVE  Served'
<1>1. edits' = "edited" /\ build' = build
  BY DEF Edit, Commit, Restore
<1> QED BY <1>1 DEF Served, WalkView, PlanIsRight, Settled, GitModes

\* Steps that leave files, git, rows and the list, and end no walk phase.
LEMMA LooksKeepSettled ==
  ASSUME Settled, UNCHANGED <<disk, index, rows, pending, edits>>,
         meta'.completed = meta.completed,
         \/ build' = build
         \/ build' = NULL
         \/ build'.pc \notin {"links", "dispose", "release"}
         \/ /\ build # NULL /\ build.pc = "links" /\ build'.pc = "dispose"
            /\ build'.todo = build.todo
  PROVE  Settled'
<1>1. AllAccounted' <=> AllAccounted
  BY DEF AllAccounted, InScope
<1> QED BY <1>1 DEF Settled

LEMMA StartKeepsServed ==
  ASSUME ScanInv, Served, (\E full \in BOOLEAN : Begin(full)) \/ DropDerived \/ EndBuild \/ Reconfigure
  PROVE  Served'
<1> USE DEF ScanInv
<1>1. ASSUME NEW full \in BOOLEAN, Begin(full)
      PROVE  Served'
  <2>1. build'.pc \in {"rebuild", "walk"} /\ build'.listed = [p \in Paths |-> NULL]
    BY <1>1 DEF Begin
  <2>2. UNCHANGED <<disk, index, rows, pending, edits>> /\ meta'.completed = meta.completed
    BY <1>1 DEF Begin, TypeOK
  <2>3. Settled'
    BY <2>1, <2>2, LooksKeepSettled DEF Served
  <2> QED BY <2>1, <2>3 DEF Served, WalkView, PlanIsRight
<1>2. CASE DropDerived
  <2>1. build # NULL /\ build \in Build
    BY <1>2 DEF DropDerived, TypeOK
  <2>2. /\ build'.pc = "walk" /\ build'.listed = build.listed /\ build'.effective = build.effective
        /\ meta'.completed = FALSE
    BY <1>2, <2>1 DEF DropDerived, TypeOK, Build
  <2> QED BY <2>1, <2>2 DEF Served, WalkView, PlanIsRight, Settled
<1>3. CASE EndBuild \/ Reconfigure
  <2>1. UNCHANGED <<disk, index, rows, pending, meta, edits>> /\ build' \in {NULL, build}
    BY <1>3 DEF EndBuild, Reconfigure
  <2>2. Settled'
    BY <2>1, LooksKeepSettled DEF Served
  <2>3. WalkView'
    BY <2>1 DEF Served, WalkView
  <2>4. PlanIsRight'
    BY <2>1 DEF Served, PlanIsRight, Candidate
  <2> QED BY <2>2, <2>3, <2>4 DEF Served
<1> QED BY <1>1, <1>2, <1>3

LEMMA WalkKeepsServed ==
  ASSUME ScanInv, Served, WalkTree
  PROVE  Served'
<1>1. build # NULL /\ build \in Build /\ build.pc = "walk"
  BY DEF WalkTree, ScanInv, TypeOK
<1> DEFINE seen == {p \in Paths : disk[p] # NULL}
           found == {p \in seen : disk[p].kind # "big"}
<1>2. /\ build'.pc = (IF build.effective = "off" THEN "compare" ELSE "list")
      /\ build'.found = found /\ build'.listed = build.listed /\ build'.effective = build.effective
  BY <1>1 DEF WalkTree, Build
<1>3. found = {p \in Paths : disk[p] # NULL /\ disk[p].kind # "big"}
  OBVIOUS
<1>4. edits' = "walking" /\ UNCHANGED <<disk, index>>
  BY DEF WalkTree
<1> HIDE DEF found, seen
<1>5. WalkView'
  BY <1>1, <1>2, <1>3, <1>4 DEF Served, WalkView, GitModes
<1> QED BY <1>2, <1>4, <1>5 DEF Served, PlanIsRight, Settled, GitModes

LEMMA GitKeepsServed ==
  ASSUME ScanInv, Served, GitUnavailable \/ ListFiles \/ ChangedPaths
  PROVE  Served'
<1>1. build # NULL /\ build \in Build /\ build.pc \in {"list", "status"}
  BY DEF GitUnavailable, ListFiles, ChangedPaths, ScanInv, TypeOK
<1>2. UNCHANGED <<disk, index, rows, pending, meta, edits>>
  BY DEF GitUnavailable, ListFiles, ChangedPaths
<1>3. CASE GitUnavailable
  <2>1. /\ build'.pc = "compare" /\ build'.effective = "off" /\ build'.found = build.found
        /\ build'.listed = [p \in Paths |-> NULL]
    BY <1>1, <1>3 DEF GitUnavailable, Build
  <2> QED BY <1>1, <1>2, <2>1, LooksKeepSettled DEF Served, WalkView, PlanIsRight
<1>4. CASE ListFiles
  <2>1. /\ build.pc = "list" /\ build'.pc = "status" /\ build'.effective = build.effective
        /\ build'.found = build.found /\ build'.listed = index
    BY <1>1, <1>4 DEF ListFiles, Build
  <2>2. build.effective # "off"
    BY <1>1, <2>1 DEF Served, WalkView
  <2> QED BY <1>1, <1>2, <2>1, LooksKeepSettled DEF Served, WalkView, PlanIsRight
<1>5. CASE ChangedPaths
  <2>1. /\ build.pc = "status" /\ build'.pc = "compare" /\ build'.effective = build.effective
        /\ build'.found = build.found /\ build'.listed = build.listed
        /\ build'.reported = {p \in Paths : disk[p] # index[p]}
    BY <1>1, <1>5 DEF ChangedPaths, Build
  <2> QED BY <1>1, <1>2, <2>1, LooksKeepSettled DEF Served, WalkView, PlanIsRight
<1> QED BY <1>3, <1>4, <1>5

LEMMA CompareKeepsServed ==
  ASSUME ScanInv, History, HonestBlobs, Served, Compare
  PROVE  Served'
<1>1. build # NULL /\ build \in Build /\ build.pc = "compare" /\ TypeOK
  BY DEF Compare, ScanInv, TypeOK
<1>2. PICK read \in Reads :
         build' = [build EXCEPT
             !.pc = "delete", !.reported = {}, !.changed = Changed(read),
             !.previously = Changed(read) \cap Indexed,
             !.refreshed = {p \in Kept(read) : build.effective # "off"
                                                 /\ build.listed[p] # rows[p].blob},
             !.deletions = Indexed \ (Admitted \ Refused(read)),
             !.counters = Skipped(Cardinality(Refused(read))),
             !.todo = Kept(read)]
  BY DEF Compare
<1>3. /\ build'.pc = "delete" /\ build'.found = build.found /\ build'.listed = build.listed
      /\ build'.effective = build.effective /\ build'.todo = Kept(read)
      /\ build'.changed = Changed(read)
  BY <1>1, <1>2 DEF Build
<1>4. UNCHANGED <<disk, index, rows, pending, meta, edits>>
  BY DEF Compare
<1>5. WalkView'
  BY <1>1, <1>3, <1>4 DEF Served, WalkView
<1>6. Settled'
  BY <1>3, <1>4, LooksKeepSettled DEF Served
<1>7. ASSUME edits = "walking"
      PROVE  PlanIsRight'
  <2>1. /\ build.found = {p \in Paths : disk[p] # NULL /\ disk[p].kind # "big"}
        /\ build.effective = "off" => build.listed = [p \in Paths |-> NULL]
        /\ build.effective # "off" =>
              build.listed = index /\ build.reported = {p \in Paths : disk[p] # index[p]}
    BY <1>1, <1>7 DEF Served, WalkView
  <2>2. build.effective = "tracked" => build.listed = index
    BY <2>1
  <2>3. \A p \in Admitted : p \in Paths /\ (build.effective = "tracked" => index[p] # NULL)
    BY <2>1, <2>2 DEF Admitted
  <2>4. \A p \in Opened : read[p] \in Readings(p)
    <3>1. Opened \subseteq Paths
      BY <2>3 DEF Opened
    <3> QED BY <3>1 DEF Reads
  <2>5. ASSUME NEW p \in Kept(read)
        PROVE  Candidate(p, build.effective) /\ disk[p].text = rows[p].text
    <3>1. p \in Admitted /\ p \in Paths
      BY <2>3 DEF Kept, ClearedByGit, Opened
    <3>2. CASE p \in ClearedByGit
      <4>1. rows[p] # NULL /\ rows[p].blob # NULL /\ p \notin build.reported
            /\ build.listed[p] = rows[p].blob
        BY <3>2 DEF ClearedByGit, UnchangedByGit
      <4>2. build.effective # "off"
        BY <2>1, <3>1, <4>1
      <4>3. disk[p] = rows[p].blob /\ disk[p] # NULL
        BY <2>1, <3>1, <4>1, <4>2
      <4>4. disk[p].text = rows[p].text
        BY <3>1, <4>1, <4>3 DEF HonestBlobs, IndexedAhead
      <4>5. disk[p].kind = "text"
        BY <3>1, <4>1, <4>3, <4>4 DEF History, Versions
      <4> QED BY <2>3, <3>1, <4>3, <4>4, <4>5 DEF Candidate
    <3>3. CASE p \notin ClearedByGit
      <4>1. p \in Opened /\ read[p] = "text" /\ disk[p].text = rows[p].text
        BY <3>3 DEF Kept
      <4>2. disk[p] # NULL /\ disk[p].kind = "text"
        BY <2>4, <4>1 DEF Readings
      <4> QED BY <2>3, <3>1, <4>1, <4>2 DEF Candidate
    <3> QED BY <3>2, <3>3
  <2>6. ASSUME NEW p \in Paths \ (Kept(read) \cup Changed(read))
        PROVE  ~Candidate(p, build.effective)
    <3>1. CASE p \in Refused(read)
      BY <2>4, <3>1 DEF Refused, Readings, Candidate
    <3>2. CASE p \notin Refused(read)
      <4>1. p \notin Admitted
        BY <2>6, <3>2 DEF Changed
      <4> QED BY <2>1, <2>2, <4>1 DEF Admitted, Candidate
    <3> QED BY <3>1, <3>2
  <2>7. Changed(read) \subseteq Admitted
    BY DEF Changed
  <2> QED BY <1>3, <1>4, <2>3, <2>5, <2>6, <2>7 DEF PlanIsRight, Candidate
<1> QED BY <1>4, <1>5, <1>6, <1>7 DEF Served, PlanIsRight

LEMMA DeleteKeepsServed ==
  ASSUME ScanInv, Served, NEW q \in Paths, Delete(q)
  PROVE  Served'
<1>1. build # NULL /\ build \in Build /\ build.pc = "delete" /\ TypeOK /\ edits \notin GitModes
  BY DEF Delete, ScanInv, TypeOK, Served, WalkView
<1>2. /\ build'.pc = "delete" /\ build'.found = build.found /\ build'.listed = build.listed
      /\ build'.effective = build.effective /\ build'.todo = build.todo
      /\ build'.changed = build.changed /\ UNCHANGED <<disk, index, edits>>
      /\ q \in build.deletions
  BY <1>1 DEF Delete, Build
<1>3. \A p \in build.todo : rows'[p] = rows[p]
  BY <1>1, <1>2 DEF Delete, ScanInv, PlanLegal, TypeOK
<1>4. WalkView'
  BY <1>1, <1>2 DEF Served, WalkView
<1>5. PlanIsRight'
  BY <1>1, <1>2, <1>3 DEF Served, PlanIsRight, Candidate
<1> QED BY <1>1, <1>2, <1>4, <1>5 DEF Served, Settled

\* The walk phase ends: what it kept is as it is, and the rest is listed.
LEMMA CloseKeepsServed ==
  ASSUME ScanInv, Tally, Served, CloseWalkPhase
  PROVE  Served'
<1>1. build # NULL /\ build \in Build /\ build.pc = "delete" /\ TypeOK /\ edits \notin GitModes
      /\ build.deletions = {}
  BY DEF CloseWalkPhase, ScanInv, TypeOK, Served, WalkView
<1>2. /\ build'.pc \in {"links", "dispose"} /\ build'.todo = build.changed
      /\ build'.listed = build.listed /\ build'.effective = build.effective
      /\ pending' = build.changed
      /\ UNCHANGED <<disk, index>>
      /\ edits' = (IF edits = "walking" THEN build.effective ELSE edits)
  BY <1>1 DEF CloseWalkPhase, Noticed, Build, TypeOK
<1>3. WalkView'
  BY <1>1, <1>2 DEF Served, WalkView
<1>4. PlanIsRight'
  BY <1>2 DEF PlanIsRight
<1>5. ASSUME edits = "walking"
      PROVE  AllAccounted' /\ \A p \in build.changed : build.effective = "tracked" => index[p] # NULL
  <2>1. /\ \A p \in build.todo : Candidate(p, build.effective) /\ disk[p].text = rows[p].text
        /\ \A p \in build.changed : build.effective = "tracked" => index[p] # NULL
        /\ \A p \in Paths \ (build.todo \cup build.changed) : ~Candidate(p, build.effective)
    BY <1>1, <1>5 DEF Served, PlanIsRight
  <2>2. \A p \in Paths : InScope(p)' <=> Candidate(p, build.effective)
    BY <1>2, <1>5 DEF InScope, Candidate
  <2>3. /\ build.todo \subseteq Indexed /\ build.refreshed \subseteq build.todo
        /\ Indexed \subseteq build.todo \cup build.changed
    BY <1>1 DEF ScanInv, PlanLegal, Tally, PlanCounted
  <2>4. ASSUME NEW p \in build.todo
        PROVE  rows'[p] # NULL /\ rows'[p].text = rows[p].text
    <3>1. p \in Paths /\ rows[p] \in Row /\ rows[p] # NULL /\ build.listed[p] \in File \cup {NULL}
      BY <1>1, <2>3 DEF Indexed, TypeOK, Build
    <3>2. rows'[p] = rows[p] \/ rows'[p] = [rows[p] EXCEPT !.blob = build.listed[p]]
      BY <3>1 DEF CloseWalkPhase
    <3> QED BY <3>1, <3>2, BlobWrite, RowsAssumption
  <2>5. \A p \in Paths \ (build.todo \cup build.changed) : rows'[p] = NULL
    BY <2>3 DEF CloseWalkPhase, Indexed
  <2> QED BY <1>2, <2>1, <2>2, <2>4, <2>5 DEF AllAccounted
<1>6. Settled'
  BY <1>1, <1>2, <1>5 DEF Settled
<1> QED BY <1>3, <1>4, <1>6 DEF Served

\* Writes of links alone.
LEMMA LinksKeepServed ==
  ASSUME ScanInv, Served, Migrate \/ \E q \in Paths : MakeExact(q)
  PROVE  Served'
<1>1. UNCHANGED <<disk, index, pending, build, edits>> /\ meta'.completed = meta.completed
  BY DEF Migrate, MakeExact, ScanInv, TypeOK
<1>2. ASSUME NEW p \in Paths
      PROVE  /\ rows[p] = NULL => rows'[p] = NULL
             /\ rows[p] # NULL => rows'[p] # NULL /\ rows'[p].text = rows[p].text
  <2>1. rows[p] # NULL => rows[p] \in Row
    BY DEF ScanInv, TypeOK
  <2>2. CASE Migrate
    <3>1. rows'[p] = IF rows[p] = NULL THEN NULL ELSE [rows[p] EXCEPT !.link = rows[p].text]
      BY <2>2 DEF Migrate
    <3> QED BY <2>1, <3>1, LinkWrite, RowsAssumption
  <2>3. ASSUME NEW q \in Paths, MakeExact(q)
        PROVE  /\ rows[p] = NULL => rows'[p] = NULL
               /\ rows[p] # NULL => rows'[p] # NULL /\ rows'[p].text = rows[p].text
    <3>1. rows[q] # NULL
      BY <2>3 DEF MakeExact, Inexact, Indexed
    <3>2. rows'[p] = IF p = q THEN [rows[p] EXCEPT !.link = rows[p].text] ELSE rows[p]
      BY <2>3 DEF MakeExact, ScanInv, TypeOK
    <3> QED BY <2>1, <3>1, <3>2, LinkWrite, RowsAssumption
  <2> QED BY <2>2, <2>3
<1>3. WalkView'
  BY <1>1 DEF Served, WalkView
<1>4. PlanIsRight'
  <2>1. build # NULL /\ build.pc = "delete" => build.todo \subseteq Indexed
    BY DEF ScanInv, PlanLegal
  <2> QED BY <1>1, <1>2, <2>1 DEF Served, PlanIsRight, Candidate, Indexed
<1>5. AllAccounted' <=> AllAccounted
  <2>1. \A p \in Paths : InScope(p)' <=> InScope(p)
    BY <1>1 DEF InScope
  <2> QED BY <1>1, <1>2, <2>1 DEF AllAccounted
<1>6. Settled'
  BY <1>1, <1>5 DEF Served, Settled
<1> QED BY <1>3, <1>4, <1>6 DEF Served

LEMMA EndKeepsServed ==
  ASSUME ScanInv, Served, LinksMade \/ Complete
  PROVE  Served'
<1>1. build # NULL /\ build \in Build /\ build.pc \in {"links", "dispose"}
  BY DEF LinksMade, Complete, ScanInv, TypeOK
<1>2. UNCHANGED <<disk, index, rows, pending, edits>>
  BY DEF LinksMade, Complete
<1>3. /\ build'.pc \in {"dispose", "release"} /\ build'.todo = build.todo
      /\ build'.listed = build.listed /\ build'.effective = build.effective
  BY <1>1 DEF LinksMade, Complete, Build
<1>4. AllAccounted' <=> AllAccounted
  BY <1>2 DEF AllAccounted, InScope
<1>5. Settled'
  BY <1>1, <1>2, <1>3, <1>4 DEF Served, Settled
<1> QED BY <1>1, <1>2, <1>3, <1>5 DEF Served, WalkView, PlanIsRight

LEMMA ReadKeepsServed ==
  ASSUME ScanInv, Served, NEW q \in Paths, ReadFile(q)
  PROVE  Served'
<1>1. TypeOK
  BY DEF ScanInv
<1>2. PICK got : build' = [build EXCEPT !.reading = [path |-> q, got |-> got]]
  BY <1>1, ReadTypes
<1>3. /\ build # NULL /\ build \in Build /\ build.pc = "dispose"
      /\ UNCHANGED <<disk, index, rows, pending, meta, edits>>
  BY <1>1, ReadTypes
<1>4. /\ build'.pc = "dispose" /\ build'.todo = build.todo
      /\ build'.listed = build.listed /\ build'.effective = build.effective
  BY <1>2, <1>3 DEF Build
<1>5. AllAccounted' <=> AllAccounted
  BY <1>3 DEF AllAccounted, InScope
<1>6. Settled'
  BY <1>3, <1>4, <1>5 DEF Served, Settled
<1> QED BY <1>3, <1>4, <1>6 DEF Served, WalkView, PlanIsRight

\* A file leaves the list only as it was read, which is as it is; and the queue was in
\* git's scope.
LEMMA DisposeKeepsServed ==
  ASSUME ScanInv, Served, NEW q \in Paths, Dispose(q)
  PROVE  Served'
<1>1. /\ build # NULL /\ build \in Build /\ build.pc = "dispose" /\ q \in build.todo /\ TypeOK
      /\ HasRead(q)
  BY ReadIsAFile DEF Dispose, HasRead, ScanInv, ReadStands
<1>2. PICK counters : Progress(q, counters)
  BY DEF Dispose, RecordIndexed, RecordSkip, LeaveUnreadable
<1>3. /\ build'.pc = "dispose" /\ build'.todo = build.todo \ {q}
      /\ build'.listed = build.listed /\ build'.effective = build.effective
      /\ UNCHANGED <<disk, index, edits>>
  BY <1>1, <1>2 DEF Progress, Build, TypeOK, Dispose
<1>4. WalkView' /\ PlanIsRight'
  BY <1>1, <1>3 DEF Served, WalkView, PlanIsRight
<1>5. ASSUME edits \in GitModes
      PROVE  AllAccounted'
  <2>0. Got # NULL => Got = disk[q]
    BY <1>1, <1>5 DEF ScanInv, ReadStands, HasRead, Got, GitModes
  <2>1. AllAccounted /\ (edits = "tracked" => index[q] # NULL)
    BY <1>1, <1>5 DEF Served, Settled
  <2>2. \A p \in Paths : InScope(p)' <=> InScope(p)
    BY <1>3 DEF InScope
  <2>3. \A p \in Paths \ {q} : rows'[p] = rows[p] /\ (p \in pending' <=> p \in pending)
    BY <1>1 DEF Dispose, RecordIndexed, RecordSkip, LeaveUnreadable, TypeOK
  <2>4. \/ InScope(q) /\ rows'[q] # NULL /\ rows'[q].text = disk[q].text
        \/ ~InScope(q) /\ rows'[q] = NULL
        \/ rows'[q] = rows[q] /\ (q \in pending' <=> q \in pending)
    <3>1. CASE RecordIndexed(q)
      <4>1. disk[q] # NULL /\ disk[q].kind = "text" /\ rows'[q] = Rewritten(q)
        BY <1>1, <2>0, <3>1 DEF RecordIndexed, TypeOK
      <4>2. Rewritten(q) \in Row /\ Rewritten(q).text = disk[q].text
        BY <1>1, <2>0, <3>1, RewrittenIsARow DEF RecordIndexed
      <4> QED BY <2>1, <4>1, <4>2, RowsAssumption DEF InScope
    <3>2. CASE RecordSkip(q)
      <4>1. rows'[q] = NULL
        BY <1>1, <3>2 DEF RecordSkip, ScanInv, QueueLegal, TypeOK
      <4>2. disk[q].kind # "text"
        BY <2>0, <3>2 DEF RecordSkip
      <4> QED BY <4>1, <4>2 DEF InScope
    <3>3. CASE LeaveUnreadable(q)
      BY <3>3 DEF LeaveUnreadable
    <3> QED BY <3>1, <3>2, <3>3 DEF Dispose
  <2>5. UNCHANGED disk
    BY <1>3
  <2> QED BY <2>1, <2>2, <2>3, <2>4, <2>5 DEF AllAccounted
<1>6. Settled'
  BY <1>1, <1>3, <1>5 DEF Served, Settled
<1> QED BY <1>4, <1>6 DEF Served

LEMMA NextKeepsServed ==
  ASSUME ScanInv, Tally, History, HonestBlobs, Served, [Next]_vars
  PROVE  Served'
<1>1. CASE UNCHANGED vars
  <2>1. AllAccounted' <=> AllAccounted
    BY <1>1 DEF vars, AllAccounted, InScope
  <2> QED BY <1>1, <2>1 DEF vars, Served, WalkView, PlanIsRight, Settled, Candidate
<1>2. CASE Next
  BY <1>2, StartKeepsServed, WalkKeepsServed, GitKeepsServed, CompareKeepsServed, DeleteKeepsServed,
     CloseKeepsServed, LinksKeepServed, EndKeepsServed, ReadKeepsServed, DisposeKeepsServed, UsersKeepServed
     DEF Next, BuildStep
<1> QED BY <1>1, <1>2

\* The inductive invariant behind what a search may trust, where users leave alone
\* the files that were indexed ahead of the blob stored for them.
THEOREM TrustHolds ==
  ASSUME ~Reverts
  PROVE  Spec => [](History /\ HonestBlobs /\ Served)
<1>1. Init => History /\ HonestBlobs /\ Served
  <2> SUFFICES ASSUME Init PROVE History /\ HonestBlobs /\ Served
    OBVIOUS
  <2>1. \A p \in Paths : Versions(p) \subseteq {[kind |-> "text", text |-> 1]}
    BY DEF Init, Versions, HasRead
  <2>2. History
    BY <2>1 DEF Init, History
  <2> QED BY <2>2 DEF Init, HonestBlobs, IndexedAhead, ReadText, HasRead, Served, WalkView,
                      PlanIsRight, Settled, GitModes
<1>2. /\ ScanInv /\ ScanInv' /\ Tally /\ History /\ HonestBlobs /\ Served /\ [Next]_vars
      => (History /\ HonestBlobs /\ Served)'
  BY NextKeepsHistory, NextKeepsHonest, NextKeepsServed DEF ScanInv
<1> QED BY <1>1, <1>2, ScanInvHolds, TallyHolds, PTL DEF Spec

\* Whatever was killed, unreadable, rebuilt or refused by git, a corpus that serves
\* has every file in the scope of its last walk as it is or still listed, until some
\* file changes (scan.py).
THEOREM ServedFilesAreAccounted ==
  ASSUME ~Reverts
  PROVE  Spec => []Accounted
<1>1. Served => Accounted
  BY DEF Served, Settled, AllAccounted, Accounted, Serves, State
<1> QED BY <1>1, TrustHolds, PTL

\* And no scan keeps what changed: git clears a file only as it was indexed (keep).
THEOREM KeptFilesAreUnchanged ==
  ASSUME ~Reverts
  PROVE  Spec => []KeptIsUnchanged
<1>1. Served => KeptIsUnchanged
  BY DEF Served, PlanIsRight, Candidate, KeptIsUnchanged
<1> QED BY <1>1, TrustHolds, PTL
===============================================================================
