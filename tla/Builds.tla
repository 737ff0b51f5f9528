-------------------------------- MODULE Builds --------------------------------
(***************************************************************************)
(* The builds of one knowledge base: its lock rows and scan mark           *)
(* (core/knowledge/{lock,scan,lifecycle}.py), the processes that build it, *)
(* and the service's refresh, unlock and remove calls with the table of    *)
(* builds it spawned (service/{spawned_builds,dispatch_knowledge}.py).     *)
(*                                                                         *)
(* refresh and unlock run on the read pool and overlap anything; remove    *)
(* holds the writer, so one removal runs at a time.  A call that is        *)
(* refused, or answers already_indexing, just ends.                        *)
(***************************************************************************)
EXTENDS Naturals

CONSTANTS
    Procs,      \* (host, pid) pairs a lock row may name; a pid is used again
    Hosts,
    HostOf,     \* the host of each
    Here,       \* the service's host
    Callers,    \* calls the service runs at once
    NULL,
    MaxScans    \* bound: locks ever taken

ASSUME ProcsAssumption == NULL \notin Procs /\ HostOf \in [Procs -> Hosts]
ASSUME ScansAssumption == MaxScans \in Nat

VARIABLES
    lock,     \* the process the lock_* rows name, or NULL
    mark,     \* last_scan_started_at: 0, then one more at each acquisition
    procs,    \* what runs under each pid
    corpus,   \* "registered", then "deregistered" and "unlinked" by a removal
    spawned,  \* the service's table entry: the handle and mark of its last build
    calls,    \* the service's calls between two of their awaits
    stale     \* history: this service asked the table with a mark out of date

vars == <<lock, mark, procs, corpus, spawned, calls, stale>>

Phases == {"free",      \* no process has this pid
           "stranger",  \* a process that is no build
           "loading",   \* a build that loads its model
           "opened",    \* ... has found the corpus free and opened its database
           "scanning",  \* ... took the lock
           "released"}  \* ... gave it back, and has not exited yet

\* `mark` is the corpus's when the build was spawned, then its own; `own` says
\* that this service spawned it.
Proc == [phase : Phases, mark : 0 .. MaxScans, own : BOOLEAN]

Entry == [proc : Procs, mark : 0 .. MaxScans, running : BOOLEAN]

ASSUME EntryAssumption == NULL \notin Entry

Alive(p) == procs[p].phase # "free"

-----------------------------------------------------------------------------
(* The lock's three readings. *)

Reclaimable(p, host) == HostOf[p] = host /\ ~Alive(p)

ProvablyLive(p, host) == HostOf[p] = host /\ Alive(p)

\* A build that `host` cannot show has stopped holds the lock.
Running(host) == lock # NULL /\ ~Reclaimable(lock, host)

-----------------------------------------------------------------------------
(* A build. *)

StartByHand(p) ==
    /\ procs[p].phase = "free"
    /\ procs' = [procs EXCEPT ![p] = [phase |-> "loading", mark |-> mark, own |-> FALSE]]
    /\ UNCHANGED <<lock, mark, corpus, spawned, calls, stale>>

\* prepare, for the second time, and the open.
Open(p) ==
    /\ procs[p].phase = "loading"
    /\ corpus = "registered"
    /\ ~Running(HostOf[p])
    /\ procs' = [procs EXCEPT ![p].phase = "opened"]
    /\ UNCHANGED <<lock, mark, corpus, spawned, calls, stale>>

\* Mutant: what the build saw when it opened the corpus is not read again.
Acquire_NoReread(p) ==
    /\ procs[p].phase = "opened"
    /\ mark < MaxScans
    /\ lock' = p
    /\ mark' = mark + 1
    /\ procs' = [procs EXCEPT ![p].phase = "scanning", ![p].mark = mark']
    /\ UNCHANGED <<corpus, spawned, calls, stale>>

\* The holder is read and the rows and the mark written under the write lock.
\* A database unlinked meanwhile is still the one this build opened.
Acquire(p) ==
    /\ procs[p].phase = "opened"
    /\ ~Running(HostOf[p])
    /\ mark < MaxScans
    /\ lock' = p
    /\ mark' = mark + 1
    /\ procs' = [procs EXCEPT ![p].phase = "scanning", ![p].mark = mark']
    /\ UNCHANGED <<corpus, spawned, calls, stale>>

\* However the scan ended, and whoever the rows name.
Release(p) ==
    /\ procs[p].phase = "scanning"
    /\ lock' = NULL
    /\ procs' = [procs EXCEPT ![p].phase = "released"]
    /\ UNCHANGED <<mark, corpus, spawned, calls, stale>>

\* The build ends: refused before the lock, done, or killed where it stands,
\* leaving any rows behind.  The handle of its spawner knows.
Exit(p) ==
    /\ procs[p].phase \in {"loading", "opened", "scanning", "released"}
    /\ procs' = [procs EXCEPT ![p] = [phase |-> "free", mark |-> 0, own |-> FALSE]]
    /\ spawned' = IF spawned # NULL /\ spawned.proc = p
                  THEN [spawned EXCEPT !.running = FALSE] ELSE spawned
    /\ UNCHANGED <<lock, mark, corpus, calls, stale>>

\* The pid is given to some other process, or that one ends.
Stranger(p) ==
    /\ procs[p].phase \in {"free", "stranger"}
    /\ procs' = [procs EXCEPT ![p].phase = IF @ = "free" THEN "stranger" ELSE "free"]
    /\ UNCHANGED <<lock, mark, corpus, spawned, calls, stale>>

-----------------------------------------------------------------------------
(* The service's calls. *)

Registered(c, verb) ==
    /\ calls[c] = NULL
    /\ corpus = "registered"
    /\ calls' = [calls EXCEPT ![c] = [verb |-> verb, mark |-> mark]]
    /\ UNCHANGED <<lock, mark, procs, corpus, spawned>>

\* Mutant: the lock alone says that a build is under way.
StillLoading_Never(c) == FALSE

\* Mutant: liveness is a probe of the pid.
StillLoading_ByPid(c) ==
    spawned # NULL /\ Alive(spawned.proc) /\ spawned.mark = calls[c].mark

\* SpawnedBuilds.loading, at the mark the call has read: an entry it does not
\* answer for is dropped.
StillLoading(c) ==
    spawned # NULL /\ spawned.running /\ spawned.mark = calls[c].mark

AskedStale(c) == stale' = (stale \/ calls[c].mark # mark)

\* builds.plan: the lock and the mark, from one read.
Refresh(c) == ~Running(Here) /\ Registered(c, "refresh") /\ UNCHANGED stale

\* _spawn: asks the table, spawns and records without an await.
Spawn(c) ==
    /\ calls[c] # NULL /\ calls[c].verb = "refresh"
    /\ ~StillLoading(c)
    /\ \E p \in Procs :
          /\ HostOf[p] = Here /\ procs[p].phase = "free"
          /\ procs' = [procs EXCEPT ![p] = [phase |-> "loading", mark |-> mark, own |-> TRUE]]
          /\ spawned' = [proc |-> p, mark |-> calls[c].mark, running |-> TRUE]
    /\ AskedStale(c)
    /\ calls' = [calls EXCEPT ![c] = NULL]
    /\ UNCHANGED <<lock, mark, corpus>>

\* The entry is dropped and the child cannot be started.
SpawnFails(c) ==
    /\ calls[c] # NULL /\ calls[c].verb = "refresh"
    /\ ~StillLoading(c)
    /\ spawned' = NULL
    /\ AskedStale(c)
    /\ calls' = [calls EXCEPT ![c] = NULL]
    /\ UNCHANGED <<lock, mark, procs, corpus>>

\* The first observation of a removal, for the table; the writer is held.
Remove(c) ==
    /\ \A d \in Callers : calls[d] # NULL => calls[d].verb = "refresh"
    /\ Registered(c, "ask")
    /\ UNCHANGED stale

RemoveAsks(c) ==
    /\ calls[c] # NULL /\ calls[c].verb = "ask"
    /\ ~StillLoading(c)
    /\ spawned' = NULL
    /\ AskedStale(c)
    /\ calls' = [calls EXCEPT ![c].verb = "check"]
    /\ UNCHANGED <<lock, mark, procs, corpus>>

\* Mutant: the lock is not looked at.
RemoveChecks_NoLock(c) ==
    /\ calls[c] # NULL /\ calls[c].verb = "check"
    /\ calls' = [calls EXCEPT ![c] = [verb |-> "delete", mark |-> mark]]
    /\ UNCHANGED <<lock, mark, procs, corpus, spawned, stale>>

\* The second observation, for the lock.
RemoveChecks(c) ==
    /\ calls[c] # NULL /\ calls[c].verb = "check"
    /\ ~Running(Here)
    /\ calls' = [calls EXCEPT ![c] = [verb |-> "delete", mark |-> mark]]
    /\ UNCHANGED <<lock, mark, procs, corpus, spawned, stale>>

\* The registry row goes first, then the files.
RemoveDeletes(c) ==
    /\ calls[c] # NULL /\ calls[c].verb = "delete"
    /\ corpus' = "deregistered"
    /\ calls' = [calls EXCEPT ![c].verb = "unlink"]
    /\ UNCHANGED <<lock, mark, procs, spawned, stale>>

RemoveUnlinks(c) ==
    /\ calls[c] # NULL /\ calls[c].verb = "unlink"
    /\ corpus' = "unlinked"
    /\ calls' = [calls EXCEPT ![c] = NULL]
    /\ UNCHANGED <<lock, mark, procs, spawned, stale>>

\* force_release, one transaction.  The operator is relied on only for what the
\* probe cannot see: that a foreign holder does not scan.
Unlock ==
    /\ lock # NULL /\ corpus = "registered"
    /\ ~ProvablyLive(lock, Here)
    /\ HostOf[lock] # Here => procs[lock].phase # "scanning"
    /\ lock' = NULL
    /\ UNCHANGED <<mark, procs, corpus, spawned, calls, stale>>

\* A call ends where it stands: answered, refused or failed.
CallEnds(c) ==
    /\ calls[c] # NULL
    /\ calls' = [calls EXCEPT ![c] = NULL]
    /\ UNCHANGED <<lock, mark, procs, corpus, spawned, stale>>

\* The service stops and another starts: the builds live on, the table is new.
Restart ==
    /\ spawned' = NULL
    /\ stale' = FALSE
    /\ calls' = [c \in Callers |-> NULL]
    /\ procs' = [p \in Procs |-> [procs[p] EXCEPT !.own = FALSE]]
    /\ UNCHANGED <<lock, mark, corpus>>

-----------------------------------------------------------------------------
Init ==
    /\ lock = NULL
    /\ mark = 0
    /\ procs = [p \in Procs |-> [phase |-> "free", mark |-> 0, own |-> FALSE]]
    /\ corpus = "registered"
    /\ spawned = NULL
    /\ calls = [c \in Callers |-> NULL]
    /\ stale = FALSE

BuildStep(p) ==
    StartByHand(p) \/ Open(p) \/ Acquire(p) \/ Release(p) \/ Exit(p) \/ Stranger(p)

CallStep(c) ==
    \/ Refresh(c) \/ Spawn(c) \/ SpawnFails(c)
    \/ Remove(c) \/ RemoveAsks(c) \/ RemoveChecks(c) \/ RemoveDeletes(c) \/ RemoveUnlinks(c)
    \/ CallEnds(c)

Next ==
    \/ \E p \in Procs : BuildStep(p)
    \/ \E c \in Callers : CallStep(c)
    \/ Unlock
    \/ Restart

Spec == Init /\ [][Next]_vars

-----------------------------------------------------------------------------
(* Properties. *)

Verbs == {"refresh", "ask", "check", "delete", "unlink"}

\* The shape of the state.
TypeOK ==
    /\ lock \in Procs \cup {NULL}
    /\ mark \in 0 .. MaxScans
    /\ procs \in [Procs -> Proc]
    /\ corpus \in {"registered", "deregistered", "unlinked"}
    /\ spawned \in Entry \cup {NULL}
    /\ calls \in [Callers -> [verb : Verbs, mark : 0 .. MaxScans] \cup {NULL}]
    /\ stale \in BOOLEAN

Scanning == {p \in Procs : procs[p].phase = "scanning"}

\* At most one process builds the corpus, through crashes, reclaimed locks,
\* recycled pids, other hosts and operators, although a build releases without
\* asking whose lock it is.
OneScanner == \A p, q \in Scanning : p = q

\* A removal that found no build running unlinks the database under none but
\* those that took the lock after it looked, the window remove's comment
\* accepts: builds already under way are safe from it.
RemovalsSpareBuilds ==
    \A c \in Callers : calls[c] # NULL /\ calls[c].verb \in {"delete", "unlink"} =>
        \A p \in Scanning : procs[p].mark > calls[c].mark

\* The builds of this service that have not yet shown themselves by the lock.
OnTheirWay ==
    {p \in Procs : procs[p].own /\ procs[p].phase \in {"loading", "opened"}
                                /\ procs[p].mark = mark}

\* A caller told that a build is already on its way is told the truth: a build
\* of this service, not a process that was given its pid, and at a current mark
\* not one that is past its lock and will never see what the caller changed.
AlreadyIndexingIsTrue ==
    \A c \in Callers : calls[c] # NULL /\ calls[c].verb \in {"refresh", "ask"} /\ StillLoading(c) =>
        /\ procs[spawned.proc].own
        /\ calls[c].mark = mark => procs[spawned.proc].phase \in {"loading", "opened"}

\* Invariant 19 for a service whose calls ask the table at a mark still current:
\* two refreshes in the model-load window spawn one build, whatever else runs.
SpawnsDoNotOverlap == ~stale => \A p, q \in OnTheirWay : p = q

\* Invariant 19 as it is written: the service never spawns a second build while
\* one it spawned is alive and has not yet taken the lock.
OneOnItsWay == \A p, q \in OnTheirWay : p = q
=============================================================================
