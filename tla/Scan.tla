-------------------------------- MODULE Scan --------------------------------
(***************************************************************************)
(* What the builds of one knowledge base write, and what a search may then *)
(* trust (core/knowledge/{scan,changes,candidates,disposal,pending,repair, *)
(* writes,files,counters,link_store,migration,state}.py).                  *)
(*                                                                         *)
(* A build walks the tree, asks git, compares, deletes, replaces the       *)
(* pending list and then disposes of it: each file is read, embedded       *)
(* outside any transaction, and written in one.  Users edit and commit all *)
(* the while, a build may be killed between any two steps, and its model   *)
(* may change from one build to the next.                                  *)
(* That one build runs at a time is the lock's work (module Builds).       *)
(***************************************************************************)
EXTENDS Naturals, FiniteSets

CONSTANTS
    Paths,
    Encoders,
    NULL,
    Modes,       \* the git modes a corpus may have
    Reverts,     \* users restore a file whatever a scan stored of it meanwhile
    MaxEdits,    \* bound: changes of files
    MaxBuilds,   \* bound: builds started
    MaxConfigs   \* bound: changes of the configured encoder

ASSUME PathsAssumption == IsFiniteSet(Paths)
ASSUME EncodersAssumption == Encoders # {} /\ NULL \notin Encoders
ASSUME BoundsAssumption ==
    MaxEdits \in Nat /\ MaxBuilds \in Nat /\ MaxConfigs \in Nat /\ Reverts \in BOOLEAN

VARIABLES
    disk,     \* each path's file, or NULL
    index,    \* what git has of it, or NULL for an untracked one
    rows,     \* the files table with its chunks and vectors
    pending,
    meta,     \* model, the encoder whose width the vector table has, schema,
              \* completion, counters
    config,   \* the configured encoder
    build,    \* the running build's own memory, or NULL
    bounds,   \* edits, builds and changes of configuration so far
    edits     \* history: "edited", or if no file changed since the last walk began,
              \* "walking", and the git mode it ended in from then on

vars == <<disk, index, rows, pending, meta, config, build, bounds, edits>>

\* `text` tells contents apart; only a text file is indexable, and the walk
\* itself refuses a big one, which here stands for every refusal by name or size.
Texts == 1 .. MaxEdits + 1
Kinds == {"text", "binary", "big"}
File == [kind : Kinds, text : Texts]

\* The content hash, git's blob as listed when it was indexed, the encoder of
\* its vectors, the content its link record was read from.
Row == [text : Texts, blob : File \cup {NULL}, enc : Encoders, link : Texts \cup {NULL}]

ASSUME RowsAssumption == NULL \notin Row

GitModes == {"off", "tracked", "all"}

ASSUME ModesAssumption == Modes \subseteq GitModes

Counts == [seen : Nat, indexed : Nat, skipped : Nat]
NoCounts == [seen |-> 0, indexed |-> 0, skipped |-> 0]

Phases == {"rebuild", "walk", "list", "status", "compare", "delete", "links", "dispose",
           "complete", "release"}

\* The file an index phase has read and not yet written, NULL if it could not be read.
Reading == [path : Paths, got : File \cup {NULL}]

Build == [pc : Phases, enc : Encoders, full : BOOLEAN, effective : GitModes, links : BOOLEAN,
          found : SUBSET Paths, listed : [Paths -> File \cup {NULL}], reported : SUBSET Paths,
          changed : SUBSET Paths, previously : SUBSET Paths, deletions : SUBSET Paths,
          refreshed : SUBSET Paths, todo : SUBSET Paths, reading : Reading \cup {NULL},
          counters : Counts]

Indexed == {p \in Paths : rows[p] # NULL}

Counted(n) == [build.counters EXCEPT !.indexed = @ + n]
Skipped(n) == [build.counters EXCEPT !.skipped = @ + n]

-----------------------------------------------------------------------------
(* One build: the walk phase. *)

\* Mutant: a rebuild is owed only while the table's width is wrong.
RebuildOwed_ByWidth(enc) == meta.width # meta.model

\* rebuilt_identity, asked of the state read under the lock.
RebuildOwed(enc) == enc # meta.model \/ meta.width # meta.model

\* A build is started by a process that has read the configuration; whether git
\* answers is found just before, and recorded with the counters as the lock is taken.
Begin(full) ==
    /\ build = NULL
    /\ bounds.builds < MaxBuilds
    /\ bounds' = [bounds EXCEPT !.builds = @ + 1]
    /\ \E effective \in {meta.mode, "off"} :
          /\ build' = [pc |-> IF RebuildOwed(config) THEN "rebuild" ELSE "walk",
                       enc |-> config, full |-> full, effective |-> effective,
                       links |-> meta.schema = 4, found |-> {}, listed |-> [p \in Paths |-> NULL],
                       reported |-> {}, changed |-> {}, previously |-> {}, deletions |-> {},
                       refreshed |-> {}, todo |-> {}, reading |-> NULL, counters |-> NoCounts]
          /\ meta' = [meta EXCEPT !.counters = NoCounts, !.effective = effective]
    /\ UNCHANGED <<disk, index, rows, pending, config, edits>>

\* Mutant: the old completion instant is left standing.
DropDerived_KeepsCompletion ==
    /\ build # NULL /\ build.pc = "rebuild"
    /\ rows' = [p \in Paths |-> NULL]
    /\ meta' = [meta EXCEPT !.model = build.enc, !.width = build.enc]
    /\ build' = [build EXCEPT !.pc = "walk"]
    /\ UNCHANGED <<disk, index, pending, config, bounds, edits>>

\* drop_derived: the tables, the rows, the identity and the completion together.
DropDerived ==
    /\ build # NULL /\ build.pc = "rebuild"
    /\ rows' = [p \in Paths |-> NULL]
    /\ meta' = [meta EXCEPT !.model = build.enc, !.width = build.enc, !.completed = FALSE]
    /\ build' = [build EXCEPT !.pc = "walk"]
    /\ UNCHANGED <<disk, index, pending, config, bounds, edits>>

\* The walk's batches, with the refusals that need no reading.
WalkTree ==
    /\ build # NULL /\ build.pc = "walk"
    /\ LET seen == {p \in Paths : disk[p] # NULL}
           found == {p \in seen : disk[p].kind # "big"}
           counters == [seen |-> Cardinality(seen), indexed |-> 0,
                        skipped |-> Cardinality(seen \ found)]
       IN /\ build' = [build EXCEPT !.pc = IF build.effective = "off" THEN "compare" ELSE "list",
                                    !.found = found, !.counters = counters]
          /\ meta' = [meta EXCEPT !.counters = [counters EXCEPT !.skipped = 0]]
    /\ edits' = "walking"
    /\ UNCHANGED <<disk, index, rows, pending, config, bounds>>

\* Any call of git that does not answer turns the scan off git altogether.
GitUnavailable ==
    /\ build # NULL /\ build.pc \in {"list", "status"}
    /\ build' = [build EXCEPT !.pc = "compare", !.effective = "off",
                              !.listed = [p \in Paths |-> NULL]]
    /\ UNCHANGED <<disk, index, rows, pending, meta, config, bounds, edits>>

ListFiles ==
    /\ build # NULL /\ build.pc = "list"
    /\ build' = [build EXCEPT !.pc = "status", !.listed = index]
    /\ UNCHANGED <<disk, index, rows, pending, meta, config, bounds, edits>>

\* What differs between the tree and what git has, untracked files included.
ChangedPaths ==
    /\ build # NULL /\ build.pc = "status"
    /\ build' = [build EXCEPT !.pc = "compare", !.reported = {p \in Paths : disk[p] # index[p]}]
    /\ UNCHANGED <<disk, index, rows, pending, meta, config, bounds, edits>>

Admitted == {p \in build.found : build.effective = "tracked" => build.listed[p] # NULL}

UnchangedByGit(p) ==
    /\ rows[p] # NULL /\ rows[p].blob # NULL
    /\ p \notin build.reported
    /\ build.listed[p] = rows[p].blob

\* What reading a file gives; any read may fail.
Readings(p) ==
    {"unreadable"} \cup (IF disk[p] = NULL THEN {} ELSE {disk[p].kind})

\* New, or in a full scan, a file is not read here; git clears others unread.
Decreed == {p \in Admitted : rows[p] = NULL \/ build.full}
ClearedByGit == {p \in Admitted \ Decreed : UnchangedByGit(p)}
Opened == Admitted \ (Decreed \cup ClearedByGit)

\* What each file's read came to, for the files that are read.
Reads == {read \in [Paths -> Kinds \cup {"unreadable"}] :
            \A p \in Paths : read[p] \in IF p \in Opened THEN Readings(p) ELSE {"unreadable"}}

Refused(read) == {p \in Opened : read[p] \in {"binary", "big"}}

Kept(read) == ClearedByGit \cup {p \in Opened : read[p] = "text" /\ disk[p].text = rows[p].text}

Changed(read) == Admitted \ (Kept(read) \cup Refused(read))

\* compare and the deletions it implies; `todo` keeps the unchanged files until
\* the walk phase ends.
Compare ==
    /\ build # NULL /\ build.pc = "compare"
    /\ \E read \in Reads :
          build' = [build EXCEPT
             !.pc = "delete", !.reported = {}, !.changed = Changed(read),
             !.previously = Changed(read) \cap Indexed,
             !.refreshed = {p \in Kept(read) : build.effective # "off"
                                                 /\ build.listed[p] # rows[p].blob},
             !.deletions = Indexed \ (Admitted \ Refused(read)),
             !.counters = Skipped(Cardinality(Refused(read))),
             !.todo = Kept(read)]
    /\ UNCHANGED <<disk, index, rows, pending, meta, config, bounds, edits>>

\* One transaction per file the walk no longer admits.
Delete(p) ==
    /\ build # NULL /\ build.pc = "delete"
    /\ p \in build.deletions
    /\ rows' = [rows EXCEPT ![p] = NULL]
    /\ pending' = pending \ {p}
    /\ meta' = [meta EXCEPT !.counters = build.counters]
    /\ build' = [build EXCEPT !.deletions = @ \ {p}]
    /\ UNCHANGED <<disk, index, config, bounds, edits>>

Noticed == build.changed

\* The walk phase's last transaction.
CloseWalkPhase ==
    /\ build # NULL /\ build.pc = "delete"
    /\ build.deletions = {}
    /\ LET counters == Counted(Cardinality(build.todo)) IN
       /\ meta' = [meta EXCEPT !.counters = counters, !.effective = build.effective]
       /\ build' = [build EXCEPT !.pc = IF build.links THEN "links" ELSE "dispose",
                                 !.counters = counters, !.todo = Noticed,
                                 !.changed = {}, !.refreshed = {}]
    /\ pending' = Noticed
    /\ rows' = [p \in Paths |-> IF p \in build.refreshed
                                THEN [rows[p] EXCEPT !.blob = build.listed[p]] ELSE rows[p]]
    /\ edits' = IF edits = "walking" THEN build.effective ELSE edits
    /\ UNCHANGED <<disk, index, config, bounds>>

-----------------------------------------------------------------------------
(* One build: links and the index phase. *)

Inexact == {p \in Indexed : rows[p].link # rows[p].text}

\* Each inexact record is read again from the stored chunks.
MakeExact(p) ==
    /\ build # NULL /\ build.pc = "links"
    /\ p \in Inexact
    /\ rows' = [rows EXCEPT ![p].link = rows[p].text]
    /\ UNCHANGED <<disk, index, pending, meta, config, build, bounds, edits>>

\* Mutant: records are left as they are found.
LinksAreExact_Assumed == TRUE

LinksAreExact == Inexact = {}

LinksMade ==
    /\ build # NULL /\ build.pc = "links"
    /\ LinksAreExact
    /\ build' = [build EXCEPT !.pc = "dispose"]
    /\ UNCHANGED <<disk, index, rows, pending, meta, config, bounds, edits>>

\* The bounded read of one pending file, before any transaction; any read may fail.
ReadFile(p) ==
    /\ build # NULL /\ build.pc = "dispose" /\ build.reading = NULL
    /\ p \in build.todo
    /\ \E got \in {NULL, disk[p]} : build' = [build EXCEPT !.reading = [path |-> p, got |-> got]]
    /\ UNCHANGED <<disk, index, rows, pending, meta, config, bounds, edits>>

HasRead(p) == build # NULL /\ build.reading # NULL /\ build.reading.path = p
Got == build.reading.got
ReadText(p) == HasRead(p) /\ Got # NULL /\ Got.kind = "text"

\* The counters go to the corpus with the transaction that disposes of the file.
Progress(p, counters) ==
    /\ build' = [build EXCEPT !.todo = @ \ {p}, !.reading = NULL, !.counters = counters]
    /\ meta' = [meta EXCEPT !.counters = counters]

\* What was read, whatever the file is by now, beside the blob git listed before. A
\* build that stores no links leaves those columns as they are.
Rewritten(p) ==
    [text |-> Got.text, blob |-> build.listed[p], enc |-> build.enc,
     link |-> IF build.links THEN Got.text ELSE IF rows[p] = NULL THEN NULL ELSE rows[p].link]

\* The transaction after the chunking and the embedding, which end the build if they fail.
RecordIndexed(p) ==
    /\ Got # NULL /\ Got.kind = "text"
    /\ rows' = [rows EXCEPT ![p] = Rewritten(p)]
    /\ pending' = pending \ {p}
    /\ Progress(p, Counted(1))

RecordSkip(p) ==
    /\ Got # NULL /\ Got.kind # "text"
    /\ rows' = [rows EXCEPT ![p] = IF p \in build.previously THEN NULL ELSE @]
    /\ pending' = pending \ {p}
    /\ Progress(p, Skipped(1))

\* Mutant: an unreadable file is taken off the list as well.
LeaveUnreadable_Forgets(p) ==
    /\ Got = NULL
    /\ Progress(p, Skipped(1))
    /\ pending' = pending \ {p}
    /\ UNCHANGED rows

\* Its row stays, and so does the path in the list.
LeaveUnreadable(p) ==
    /\ Got = NULL
    /\ Progress(p, Skipped(1))
    /\ UNCHANGED <<rows, pending>>

\* The one transaction of a file that was read.
Dispose(p) ==
    /\ HasRead(p) /\ build.pc = "dispose"
    /\ RecordIndexed(p) \/ RecordSkip(p) \/ LeaveUnreadable(p)
    /\ UNCHANGED <<disk, index, config, bounds, edits>>

Complete ==
    /\ build # NULL /\ build.pc = "dispose"
    /\ build.todo = {}
    /\ meta' = [meta EXCEPT !.completed = TRUE]
    /\ build' = [build EXCEPT !.pc = "release"]
    /\ UNCHANGED <<disk, index, rows, pending, config, bounds, edits>>

\* The lock is released on the way out of any exception, or never if the build
\* is killed: the next one then reclaims it.
EndBuild ==
    /\ build # NULL
    /\ build' = NULL
    /\ UNCHANGED <<disk, index, rows, pending, meta, config, bounds, edits>>

-----------------------------------------------------------------------------
(* Everybody else. *)

\* A file is written with a new content, or removed.
Edit(p) ==
    /\ bounds.edits < MaxEdits
    /\ bounds' = [bounds EXCEPT !.edits = @ + 1]
    /\ \/ disk' = [disk EXCEPT ![p] = NULL] /\ disk[p] # NULL
       \/ \E kind \in Kinds : disk' = [disk EXCEPT ![p] = [kind |-> kind, text |-> bounds.edits + 2]]
    /\ edits' = "edited"
    /\ UNCHANGED <<index, rows, pending, meta, config, build>>

\* git add and git commit; between the two git reports the file.
Commit(p) ==
    /\ index[p] # disk[p]
    /\ index' = [index EXCEPT ![p] = disk[p]]
    /\ edits' = "edited"
    /\ UNCHANGED <<disk, rows, pending, meta, config, build, bounds>>

\* What git has of a file is the blob hash stored for it, or about to be, while the
\* text stored beside it, or read and about to be, is another.
IndexedAhead(p, file) ==
    /\ file # NULL
    /\ \/ /\ rows[p] # NULL /\ rows[p].text # file.text
          /\ \/ file = rows[p].blob
             \/ build # NULL /\ p \in build.refreshed /\ file = build.listed[p]
       \/ ReadText(p) /\ Got.text # file.text /\ file = build.listed[p]

\* git restore, git stash, a checkout.
Restore(p) ==
    /\ IndexedAhead(p, index[p]) => Reverts
    /\ index[p] \notin {NULL, disk[p]}
    /\ disk' = [disk EXCEPT ![p] = index[p]]
    /\ edits' = "edited"
    /\ UNCHANGED <<index, rows, pending, meta, config, build, bounds>>

Reconfigure ==
    /\ bounds.configs < MaxConfigs
    /\ bounds' = [bounds EXCEPT !.configs = @ + 1]
    /\ config' \in Encoders \ {config}
    /\ UNCHANGED <<disk, index, rows, pending, meta, build, edits>>

\* An opener of a newer store brings the corpus forward, a running build or not.
Migrate ==
    /\ meta.schema = 1
    /\ meta' = [meta EXCEPT !.schema = 4]
    /\ rows' = [p \in Paths |-> IF rows[p] = NULL THEN NULL ELSE [rows[p] EXCEPT !.link = rows[p].text]]
    /\ UNCHANGED <<disk, index, pending, config, build, bounds, edits>>

\* A corpus just added; or one never built whose table was restored from another.
Init ==
    /\ disk = [p \in Paths |-> [kind |-> "text", text |-> 1]]
    /\ \E tracked \in SUBSET Paths :
          index = [p \in Paths |-> IF p \in tracked THEN disk[p] ELSE NULL]
    /\ rows = [p \in Paths |-> NULL]
    /\ pending = {}
    /\ config \in Encoders
    /\ \E width \in {e : e \in Encoders}, schema \in {1, 4}, mode \in Modes :
          meta = [model |-> config, width |-> width, schema |-> schema, mode |-> mode,
                  effective |-> mode, completed |-> FALSE, counters |-> NoCounts]
    /\ build = NULL
    /\ bounds = [edits |-> 0, builds |-> 0, configs |-> 0]
    /\ edits = "edited"

BuildStep ==
    \/ DropDerived \/ WalkTree \/ GitUnavailable \/ ListFiles \/ ChangedPaths \/ Compare
    \/ CloseWalkPhase \/ LinksMade \/ Complete \/ EndBuild
    \/ \E p \in Paths : Delete(p) \/ MakeExact(p) \/ ReadFile(p) \/ Dispose(p)

Next ==
    \/ \E full \in BOOLEAN : Begin(full)
    \/ BuildStep
    \/ \E p \in Paths : Edit(p) \/ Commit(p) \/ Restore(p)
    \/ Reconfigure \/ Migrate

Spec == Init /\ [][Next]_vars

-----------------------------------------------------------------------------
(* What a search is told. *)

\* resolve, for a service whose configuration names `enc`; a corpus that can be
\* opened, under a root that is there.
State(enc) ==
    IF ~meta.completed \/ enc # meta.model \/ meta.width # meta.model THEN "reindex_required"
    ELSE IF build # NULL THEN "indexing" ELSE "ok"

Serves(enc) == State(enc) \in {"ok", "indexing"}

-----------------------------------------------------------------------------
(* Properties. *)

TypeOK ==
    /\ disk \in [Paths -> File \cup {NULL}]
    /\ index \in [Paths -> File \cup {NULL}]
    /\ rows \in [Paths -> Row \cup {NULL}]
    /\ pending \subseteq Paths
    /\ meta \in [model : Encoders, width : Encoders, schema : {1, 4}, mode : GitModes,
                 effective : GitModes, completed : BOOLEAN, counters : Counts]
    /\ config \in Encoders
    /\ build \in Build \cup {NULL}
    /\ bounds \in [edits : 0 .. MaxEdits, builds : 0 .. MaxBuilds, configs : 0 .. MaxConfigs]
    /\ edits \in {"edited", "walking"} \cup GitModes

\* At every instant all vectors stored are of the model and the width that meta
\* names, whatever the configuration, a crash or a rebuild did; so a search is
\* served only where its query and the vectors are of one model (repair.py,
\* drop_derived; state.py).
OneModel ==
    \A p \in Indexed :
        /\ rows[p].enc = meta.model /\ meta.width = meta.model
        /\ \A enc \in Encoders : Serves(enc) => rows[p].enc = enc

\* While the corpus serves anybody, and no file changed since the last walk to end
\* began, every file in the scope that walk had is indexed as it is or still listed
\* as pending, and what is no candidate has no row: also after a kill, an unreadable
\* file, a rebuild, a git that did not answer, and the next build's beginning, which
\* has recorded its own git mode (scan.py, pending.py, state.py).
InScope(p) ==
    disk[p] # NULL /\ disk[p].kind = "text" /\ (edits = "tracked" => index[p] # NULL)

Accounted ==
    (\E enc \in Encoders : Serves(enc)) /\ edits \in GitModes =>
        \A p \in Paths \ pending :
            IF InScope(p) THEN rows[p] # NULL /\ rows[p].text = disk[p].text
                          ELSE rows[p] = NULL

\* When a scan has completed, every file it saw was counted once, as indexed, as
\* skipped or as out of git's scope; its rows are those it indexed and those it
\* could not read; and every link record was read from the text it stands beside.
CompletionIsWhole ==
    build # NULL /\ build.pc = "release" =>
        /\ meta.counters.seen = meta.counters.indexed + meta.counters.skipped
                                  + Cardinality(build.found \ Admitted)
        /\ Cardinality(Indexed \ pending) = meta.counters.indexed
        /\ build.links => Inexact = {}

\* A path leaves the pending list with the whole list when a walk ends, or as a
\* deleted file, or as what the build read of it: a text is stored as read, anything
\* else has no row left. And unless some file changed since the last walk began, what
\* was read is what the file is when the search's stale flag goes, however long the
\* embedding took (pending.py, disposal.py).
PendingKeepsWatch ==
    [][\A p \in pending \ pending' :
          \/ CloseWalkPhase
          \/ p \in build.deletions /\ rows'[p] = NULL
          \/ /\ HasRead(p) /\ Got # NULL
             /\ edits = "edited" \/ Got = disk[p]
             /\ IF Got.kind = "text" THEN rows'[p] # NULL /\ rows'[p].text = Got.text
                                     ELSE rows'[p] = NULL]_vars

\* What a scan keeps without indexing it is unchanged, if nobody changed it
\* meanwhile: a stored blob hash never clears a file that changed (changes.py, keep).
KeptIsUnchanged ==
    build # NULL /\ build.pc = "delete" /\ edits = "walking" =>
        \A p \in build.todo : disk[p] # NULL /\ disk[p].text = rows[p].text
=============================================================================
