# Zikaron in TLA+

Zikaron gives coding agents a memory. One SQLite file per project, `.zikaron/memory.db`,
holds the memories; one more per knowledge base holds an index of a directory of files. A
service process per store owns the memory file and answers JSON-RPC on a Unix socket;
agents reach it through MCP servers, harness hooks and a command line, and knowledge bases
are built by indexer processes of their own.

This directory holds the specifications of the parts of that program where interleavings,
crashes and retries decide whether it is right, what TLC checks of them on small instances
and what TLAPS proves for every instance. Paths below are relative to `src/zikaron/` unless
they start with `design/`.

- [1. The system](#1-the-system)
- [2. The modules](#2-the-modules)
- [3. The runs](#3-the-runs)
- [4. The proofs](#4-the-proofs)
- [5. Where the code and its documents disagree](#5-where-the-code-and-its-documents-disagree)
- [6. What is not modelled](#6-what-is-not-modelled)
- [7. Plan](#7-plan)

To run: `tlc -config Builds.cfg MCBuilds.tla`, `tlapm BuildsProofs.tla`, and likewise for
the others; `PROJECT.json` says which configuration goes with which module.

## 1. The system

### Processes and how they meet

| process | lives | talks to |
|---|---|---|
| service (`service/`) | from the first client that needs it until idle, replaced or told to stop | owns `memory.db` (one writer connection, a pool of four readers); listens on a socket in the runtime directory; spawns indexers |
| primary MCP server (`mcp/primary.py`) | one per agent session | the service, one request at a time, over a connection it reopens |
| consolidator MCP server (`mcp/consolidator.py`) | one per consolidation worker | the service, through `next_group`, `merge`, `promote`, `discard`, and `plan_groups` once before the first of them |
| hooks (`hook/`) | one per harness event | the service: push, warm-up, session relay |
| indexer (`knowledge/indexer/`) | one build of one knowledge base, a minute to hours | the knowledge base's own database, never the service |
| command line (`cli/`, `project/`, `doctor/`, `install/`) | one command | files, or the service as any client |

They share four things: the SQLite files (every mutation is one `BEGIN IMMEDIATE`
transaction), the runtime directory (the socket file, the clients' start lock, the lock a
service holds on its store), the process table (a pid is how a lock row says who holds
it) and wall-clock time (leases, deadlines).

### Components

| component | state | operations | what is hard | what makes it right |
|---|---|---|---|---|
| **records** `core/records`, `core/write`, `core/indexing/writes.py` | `memory` rows (tier, active, superseded_by, version), `read_receipt` | remember, fetch, amend, retire, conflict replies | several sessions write the rows each other read; edges are added one at a time, and a cycle is a property of many | no lost update; a receipt is always current; the graph is acyclic; retired rows are history |
| **consolidation** `core/consolidation` | `consolidation_run`, `consolidation_group`, its members and candidates; what a planning call carries between its transactions | `next_group`, `plan_groups`, merge, promote, discard | a plan is computed outside the lock; workers die, retry, take over, come back late; primary agents move the rows meanwhile | one active run; nothing lost; no group stuck open or closed too early; every run lets go |
| **grouping, candidates** `core/consolidation/{grouping,candidates}.py` | none | cut the journal into groups, pick rows to show beside one | what is pairwise is chained, cut greedily and sharded | every journal row in one group, unanchored ones alike pair by pair; shards full but the last |
| **store** `core/store/{transactions,pool,holders,deadline}.py` | the shared writer, its lock, the read pool | transaction, read, close | a commit that fails, then a rollback; cancellation while a worker thread runs the statement; a waiter that misses a wakeup | no transaction holds another's rows; answers are true; the pool's count is right; nothing is left open |
| store: schema, meta, permissions, migration, embedder gate | the database's own description | checks at open | ran once | - |
| indexing `core/indexing` | chunks, lexical and vector rows | written with the row they index | numeric | index rows follow the row |
| **retrieval** `core/retrieval` | none | search, surface, probe, rank; render | it relies on a graph other code keeps acyclic; a probe that stops early must say so | a replacement leads what it replaced; no store makes a read raise; the stop reason is true |
| signals, events | the event log | queries over it | - | appended in the transaction it describes |
| configuration, clock, errors | none | - | - | - |
| **builds** `core/knowledge/{lock,lifecycle,builds,scan}.py`, `service/{spawned_builds,dispatch_knowledge}.py`, `knowledge/indexer` | the lock rows and `last_scan_started_at` of a knowledge base; the service's table of the builds it spawned | refresh, unlock, remove; the life of a build | a killed build leaves its lock; pids are reused; a build loads its model long before it takes the lock; calls await between what they read and what they do | one build scans at a time; a removal deletes nothing under a build; *already indexing* is true |
| **scan** `core/knowledge/{scan,changes,candidates,disposal,pending,repair,migration,state}.py` | the file table with its chunks, vectors and link records, the pending list, counters, the model's identity | walk, ask git, compare, delete, dispose, complete; each file read, embedded, then written in one transaction | killed anywhere; users edit and commit meanwhile; git that fails midway; a model that changes, a store that migrates | no file lost; vectors of one model; counters that add up; what is kept unread is unchanged |
| registry, links, search of knowledge bases | the corpus list | add, rename, link, search | a search reads its parts one by one | - |
| **service life cycle** `service/{lifecycle,ownership,main,server}.py`, `hook/connect.py` | the start lock, the store's lock, the socket file | start-if-absent, bind, serve, the self-stops, shutdown | clients race to start; a stop unlinks by inode number; a start outlives the client that asked for it | one service has the store; a dead one leaves no socket; a stop spares its successor |
| **dispatch, envelopes**, serialisation, logs `service/` | what each socket's handler is at; the labels minted | read a line, resolve its label, run one handler, respond | the caller is gone, the service dies, in between | a line is run once at most |
| **MCP connection, takeover bridge**, spill `mcp/` | one connection, its lock, its session label, a request in flight; whether this process has planned | send, retry once; plan before the first `next_group` | calls side by side over one socket with one id; cancelled at any await; a broken connection says nothing of whether the request ran | replies reach the call that asked; a request at most once; a takeover at most once per process; one label |
| hooks `hook/` | the session label left for the MCP client of the same parent | push, warm, relay | one process per event, at once | - |
| guard, install, project, doctor, harness, CLI, code planner | files | - | sequential | - |

`PROJECT.json` lists all of them with their state of modelling, and under `hazards` each
line where something hard to test can go wrong, with the property that watches it.

## 2. The modules

```
LicensedWrites <-- refined by -- Records <-- EXTENDS -- Planning <-- EXTENDS -- Consolidation
                                    ^                      ^
                                Retrieval               Grouping
                                    ^                      ^
                                    +------- Reads --------+      (MCReads)

RecordsProofs <-- EXTENDS -- ConsolidationProofs, ReadsProofs

AtMostOnce <-- refined by -- Connections  (ConnectionsProofs, MCConnections)
           <-- refined by -- Requests     (RequestsProofs, MCRequests)

Builds (BuildsProofs, MCBuilds)    Service (ServiceProofs, MCService)    Scan (ScanProofs, MCScan)
```

`Consolidation` composes the consolidator with the record layer: a step of it is a primary
agent's verb on the same rows, a worker's, or a tick of the clock. `Reads` puts the operations
that only read beside the record layer's verbs. The others share no state; they meet in what
one guarantees and another takes as given:

- `Connections` shows what a transaction is on connections that fail and are cancelled. That
  is why a verb of `Records` and `Consolidation`, and `Requests!RunHandler`, are one step.
- `Planning` says what a plan may be. `Consolidation` takes any such plan; `Grouping` computes
  one, and `PlansCohere`, checked and proved, says that it is of that kind.
- `Builds` shows that one build scans at a time, whoever started it; `Scan` starts there.
- `Requests` shows that a process takes over once at most. `Consolidation` does not rely on it:
  there any worker may call `plan_groups` at any time.
- `Service` ends where requests begin, and `Requests` takes of it only that a service may end
  at any time and another be there at the next connect. A service that stops takes its table of spawned builds along and not
  the builds (`Builds!Restart`).

Definitions ending in `_Something` that start with *Mutant:* are what the code would be with
a plausible bug in it (a guard dropped, a boundary moved). No specification uses them; they
are there to show that the property they go with can fail.

### Records

The rows and the receipts, and one action per verb of the primary agent.

| model | code |
|---|---|
| `memory`, `Row` | `core/records/memory.py`: the columns the rules read; prose, timestamps and events are left out |
| `receipts`, `Mint`, `Holds` | `core/records/receipts.py`: a receipt is (client, row, version), earned by being shown the row |
| `Commit` | a row write with what always goes with it: version + 1, every other client's receipt for the row revoked, the writer's minted |
| `ValidNewEdge`, `WalkClears` | `supersession.validate_new_edge`: the target's state, then the capped walk along the target's chain |
| `Resolves` | `supersession.resolve_latest`: the same walk when a row is shown, which raises past the cap |
| `Remember`, `Fetch`, `Amend`, `Retire`, `VersionConflict` | `core/write/tools.py` over `core/indexing/writes.py` |

A verb is one `BEGIN IMMEDIATE` transaction, hence one step. A *client* is a receipt scope,
a (session, client kind) pair. A call that is refused rolls back, or commits only audit
events, and is no step; a version conflict is one, because its reply shows the row and so
earns a receipt. The initial store is one that sessions have already used.

`LicensedWrites` is what the receipt table promises, with no table in it: rows have
versions, and a client may write a row only if it has been shown the row since the last
write by anybody. `WritesAreLicensed` says that `Records` implements it, reading "has been
shown" as "holds a receipt at the current version".

### Consolidation

| model | code |
|---|---|
| `runs`, `remaining`, `Tick` | `consolidation_run`; a lease is `expires_at - now`, so time passing is a decrement, and `expires_at < now` is `remaining < 0` |
| `groups` | `consolidation_group` with its member and candidate rows, in the run's serve order |
| `calls` | what `next_group` and `plan_groups` hold between their transactions: nothing, or a snapshot with its fingerprint |
| `FindNoRun`, `TakeSnapshot`, `PlanThenServe`, `ServeExisting` | `serving.next_group`: serve one's own run; else let the writer go, plan on a read snapshot, and ask again under the write lock |
| `WritePlan` | the `plan_groups` RPC, which closes whatever run is active and takes over |
| `ServeFrom` | `serving._serve_from` with the revalidation it does: members no longer deliverable are vacated, an empty group completes, one out of serves is deferred, the first that is left is delivered |
| `PlansToWrite`, `Fingerprint` | a stale snapshot (any active row moved) is thrown away and planned again inside the transaction |
| `GroupAuthorized`, `MayAbsorb` | the ladder of `authorization.py`, up to the rungs that read versions |
| `Merge`, `PromoteInPlace`, `PromoteNewRow`, `Discard`, `Settle` | `verbs.py`: the row writes, the dispositions, the group's close, the run's close or the lease's refresh, all in one transaction |
| `GroupConflict` | the same verbs at versions that are not the rows': they show, and change neither run nor group |
| `CallFails` | a planning call that dies between its transactions |

What the grouping computes is over-approximated: `Planning!Plans` is every ordered partition of
the journal that respects `group_max` and the rule that shards of one anchor are full but the
last, and candidates are any few targetable rows. Every property therefore holds whatever
the similarities say.

A killed or restarted worker is one that takes no further step; a worker that asks again
after a lost reply is `ServeExisting`. The service may stop between two transactions
(`CallFails`), never within one. Any worker may call `plan_groups` at any time, any number of
times: the bridge of `mcp/consolidator.py`, which does it once per process, is not relied on.

### Planning and Grouping

| model | code |
|---|---|
| `Journal`, `LongTerm`, `Plans` | `core/consolidation/groups.py`: the deliverable rows, the targetable ones, and what `grouping.plan` may return |
| `Readings` | what retrieval tells the planner: for each journal row its ranking of the long-term rows, which of them clear `anchor_cutoff`, and which of its `mutual_k` nearest clear `orphan_edge_cutoff`. All of them are inputs, in every combination |
| `AnchorFor`, `Orphans`, `AnchoredSets` | `grouping.py`: the best-ranked record *that clears the floor*, and the rows that have none |
| `Edge`, `Component`, `CohesiveSubgroups`, `Grown` | mutual neighbours, connected components, and the greedy complete linkage that cuts them |
| `Shards`, `OrderKey`, `GroupPrecedes`, `PlanOf` | the cut at `group_max`, the key that every shard of a set shares, and the order of the plan |

### Retrieval and Reads

| model | code |
|---|---|
| `Scopes`, `Eligible` | `core/retrieval/eligibility.py`: who asks, and the rows that one may see |
| `RolledUp`, `Probe`, `DenseArm`, `Classified` | `arms.py`: chunks rolled up to rows, the depth that doubles, and why it stopped |
| `PenaltyOf`, `Score`, `Ahead`, `Scored`, `Repaired` | `ranking.py`: reciprocal-rank fusion with penalties, the order key, and the repair that puts a replacement first. Scores are exact fractions over a common denominator |
| `Searches`, `Probes`, `Plan` | `reads.py` and `retrieve.py`; the probe; the snapshot of `core/consolidation/planning.py` |

A read is one transaction on one snapshot, so `answer` holds its reply until it is delivered
and no verb runs meanwhile. What an index answers - the order of the chunks, which rows a text
matches - is any order, any subset. `MCReads!Quiet` explores reads only in stores where no row
was amended and one session retired; reads look at no receipt and no version, so the others
add no shape of rows and edges.

### Connections

| model | code |
|---|---|
| a task | one request: a writer uses the store's one writer connection, any other leases a reader |
| `conns` | every connection opened: its transaction, the rows in it, who holds its lock (`owner`), the mark set before a close (`closed`), and the close itself (`shut`) |
| `Writer`, `Reopen`, `OpenChecked`, `OpenFails` | `core/store/store.py`: the marked writer is reopened under a lock, and the mark read again there |
| `Take`, `GiveBack`, `ForgetOne`, `Abandon` | `pool.py`: the list, the count, the condition's wakeups, and the leases whose return was cancelled |
| `LockWaitExpired`, `Settled` | `deadline.py`, and the one retry of a read that met contention, this time with `BEGIN IMMEDIATE` |
| `Acquire`, `Begin`, `BeginFails`, `Work` | `holders.py` and `transactions.py`: the lock, the mark read under it, `BEGIN`, the body |
| `Finalize`, `FinalizeFails`, `RollBack`, `RollBackFails`, `Close` | `finalize`: commit or roll back; on failure roll back; on failure mark the connection, then close it |
| `Stop`, `CancelWait`, `CancelBegin`, `CancelWork`, `CancelFinalize`, `CloseStore` | the shutdown of `service/server.py` cancels every handler once; the store is closed when the last has ended |

A step runs from one await to the next. What a connection's worker thread was told to do it
does, even for a task cancelled meanwhile: that is why `CancelBegin` may leave a transaction open
on a connection it releases, and `CancelFinalize` commits or not without anybody knowing.
`stale` is SQLite's refusal to upgrade a snapshot another connection has written past.

### AtMostOnce

What a caller of the store may rely on, whatever lies between: a call changes the store once
at most, *done* is true, *refused* is true and stays so, and no answer means nothing. Both
`Connections` (with its tasks) and `Requests` (with its requests) implement it, each through the
`Told` that reads the code's replies as one of the four answers.

### Requests

The calls of one MCP process, its connection, and the service's end of every socket.

| model | code |
|---|---|
| `Ask`, `Enter`, `SentLabel` | `mcp/connection.py`: the envelope is built before the lock is taken, the label it bears is put in under the lock |
| `ConnectedSocket`, `SendRequest`, `ZeroProgress`, `SendBreaks`, `ReadResponse`, `ReadBreaks` | the socket kept or a new one; one retry, only if nothing of the line was sent; anything else is ambiguous and drops the socket |
| `CancelBefore`, `CancelInFlight` | cancellation at each await; a thread may still be in `send` or `recv`, so the line may go whole, in part or not at all |
| `EnsurePlanned`, `Planned`, `Return` | `mcp/consolidator.py`: the bridge, its lock and what each outcome makes of it |
| `Receive`, `Resolve`, `RunHandler`, `Respond` | `service/server.py`, `rpc.py`, `envelope.py`: one line at a time, its label kept or replaced by a minted one, one handler, one response line |
| `ServiceEnds` | a stop or a kill: what was not committed is undone, what was written arrives |

All requests bear the same id, so nothing on the wire tells whose a reply is. Labels are
model values - one not asked for yet, one from the harness that conforms, one that does not -
and a number is a label the service minted.

### Scan

One knowledge base: the files, what git has of them, the tables, and one build at a time.

| model | code |
|---|---|
| `disk`, `index`, `Edit`, `Commit`, `Restore` | the user's files and git's: contents are told apart by a number, and a file is text, binary or too big |
| `rows`, `pending`, `meta` | the file table (content hash, git's blob as listed, the encoder of its vectors, what its links were read from), the pending list, the corpus's own description and counters |
| `Begin`, `RebuildOwed`, `DropDerived` | `scan.py`, `repair.py`: the lock's transaction zeroes the counters and records the git mode just probed; what is owed is asked under the lock; the tables, the identity and the completion go together |
| `WalkTree`, `ListFiles`, `ChangedPaths`, `GitUnavailable` | `files.py`, `candidates.py`: the walk, then git's listing, then its status, each of a tree that may have moved; a git that does not answer turns the scan off it |
| `Compare`, `UnchangedByGit`, `Delete`, `CloseWalkPhase` | `changes.py`, `pending.py`: who is cleared unread, who is read, who is deleted; the new pending list is the last write of the phase |
| `MakeExact`, `LinksMade` | `link_store.py`: link records made exact again from the stored chunks |
| `ReadFile`, then `Dispose`: `RecordIndexed`, `RecordSkip`, `LeaveUnreadable` | `disposal.py`: the bounded read, and the one transaction that writes what was read. Chunking and embedding are between the two, outside any transaction, so `build.reading` holds the text while users edit, remove or restore the file; if they fail, the build ends |
| `Complete`, `EndBuild` | the completion instant; the release, an exception or a kill |
| `Migrate`, `Reconfigure` | `migration.py`: an opener brings an older corpus forward, a running build or not; the configured model changes |
| `State`, `Serves` | `state.py`: what a search is told |

`edits` is a history variable: whether any file changed since the last walk began and, once that
walk phase has closed, the git mode it ran under. `Accounted` judges scope by the latter and not by the
mode in `meta`: the next build overwrites that one when it takes the lock, with what its probe
found, and until its own walk phase closes (for good, if it is killed before) the recorded mode is
not the one that shaped the corpus.

`Reverts` says whether a user may restore a file to the very blob that is recorded for it, or about to
be, beside another content (`IndexedAhead`): a row's, a row's whose blob is to be refreshed, or that
of a text read and not yet written. FALSE in `scan`, TRUE in `cleared`, which is what that does
(section 5). Every other restore is free.

### Builds

One knowledge base, whatever processes build it and one service's calls about it.

| model | code |
|---|---|
| `lock`, `mark` | the `lock_*` rows and `last_scan_started_at` (`core/knowledge/lock.py`); the timestamp is a counter, one more at each acquisition |
| `procs` | what runs under each (host, pid): `StartByHand`/`Spawn` -> `loading` -> `Open` -> `opened` -> `Acquire` -> `scanning` -> `Release` -> `released` -> `Exit`; `Exit` is a kill too, from anywhere. A pid may go to a stranger, or to another build |
| `Reclaimable`, `ProvablyLive`, `Running` | the three readings of a lock row: a holder of this host is probed, a holder of another host cannot be |
| `spawned`, `StillLoading` | `service/spawned_builds.py`: the handle and the mark of the last build the service spawned, and `loading`, asked with the mark the call has read |
| `Refresh`, `Spawn`, `SpawnFails` | `dispatch_knowledge.py`: observe the corpus; awaits later, ask the table, spawn and record |
| `Remove` ... `RemoveUnlinks` | observe for the table, observe for the lock, delete the registry row, unlink the files. `remove` holds the writer, so only refreshes overlap it |
| `Unlock` | `force_release`: refused for a holder this host shows alive |
| `Restart` | the service stops and another starts |

`stale` is a history variable: some call of this service has asked the table with a mark
that had moved since the call read it. The operator who unlocks is relied on for one thing,
which the code asks for in so many words: a *foreign* holder, which no probe reaches, is
unlocked only when it does not scan. A child that has exited counts as reaped; a database
that cannot be opened and `rename` are left out.

### Service

One store's service processes and the clients that start them.

| model | code |
|---|---|
| `client`, `Locks` ... `LetsGo` | start-if-absent (`hook/connect.py`, `service/lifecycle.py`): take the start lock, recheck, unlink, spawn, poll, let go |
| `TakesStore`, `StandsBack` | `service/ownership.py`: the lock on the store; a start that waited too long exits |
| `Binds`, `Listens`, `Serves` | `service/server.py` and `main.py`: the socket is bound over whatever file is there, its inode number read back, the signal handlers in place from before the bind |
| `Lost`, `UnlinkIfStillBound` | the service's path is still its own: compared by inode number only |
| `Stops`, `PollFindsSocketLost`, `Fails`, `Finishes`, `FinishesLate`, `Dies` | the self-stops and signals (unlink, then close), failures (close, then unlink), the forced exit at the shutdown deadline, a kill |

A number in `Inodes` may be given to a new socket as soon as no listener holds it, whether or
not a path still names it: that is what makes comparing by number alone worth a property.
Every deadline is a choice: a client may give up, and a waiting start stand back, whenever
its code may.

## 3. The runs

Twelve runs, eight that hold and four that show a disagreement (section 5). Deadlock is checked
in all but `connections`, `requests`, `scan` and `cleared`, where the system does stop: every
request answered, every bound spent, no file left to change.

| run | instance | distinct states | what it shows |
|---|---|---|---|
| `records` (`MCReads`) | 3 rows, 2 primary agents, chains of 2, versions to 3; 5 chunks, depth 2, one doubling | 151 000 | receipts are current, the graph is acyclic, retired rows are frozen, no edge is written to a row retired outright, the layer implements `LicensedWrites`; and over every store so built, rankings, probes and plans |
| `groups` | 3 rows, 1 primary agent, 1 worker, groups of 2, 1 run, 2 serves | 403 000 | a group is open exactly while a member is undecided; the served groups are a prefix; a group is delivered `max_group_serves` times at most; dispositions are true; nothing leaves the journal unrecorded; a plan is written against the journal as it then is |
| `takeover` | 1 row, 2 workers of one session, lease 1, 3 runs, `FairSpec` | 502 000 | one active run; a displaced or lapsed worker changes nothing; only `plan_groups` displaces; every run lets go |
| `builds` | 2 pids of the service's host, 1 of another, 2 calls, 2 scans | 899 047 | one build scans; removals spare builds; *already indexing* is true; spawns do not overlap while marks are fresh |
| `service` | 3 services, 2 clients, 2 inode numbers | 40 558 | one service has the store; handled ends leave no socket; stops spare successors; a service whose socket is lost lets go |
| `connections` | 2 writers, 2 readers of a pool of 1, 4 connections, 2 faults | 624 170 | the pool's account stays right; transactions are their task's own; nothing is left open; the store keeps `AtMostOnce` |
| `requests` | 2 calls of `next_group`, 1 other verb, 2 sockets, 1 death | 286 000 | a reply reaches the call that asked; one takeover; one label; requests keep `AtMostOnce` |
| `scan` | 2 files, 2 encoders, 1 edit, 2 builds, 1 change of model, git mode *tracked* | 1 114 991 | vectors of one model; every file accounted for; counts that add up; a pending list that forgets nothing |
| `chain` (violation) | 4 rows, 1 agent, chains of 2 | 1 037 | finding 1 |
| `overlap` (violation) | as `builds` | 4 299 | finding 2, in 9 states |
| `lostsocket` (violation) | as `service` | 113 | finding 3, in 13 states |
| `cleared` (violation) | 1 file, git mode *tracked* or *all*, otherwise as `scan`, with restores | 200 000 | finding 4, in 17 states |

### The properties, by what they would catch

- *Lost updates* - `WritesAreLicensed`: two clients read a row, both write it. `ReceiptsCurrent`
  is why it holds: no write leaves behind a receipt a later coincidence of versions could spend.
- *History* - `Acyclic`, `RetiredFrozen`, `EdgeTargetsHold`: the graph is only ever extended
  from a live row to a row not known to be untrue, and never closes, although each call
  looks at one chain.
- *What readers are told* - `RankingNeverStalls`: the repair of a ranking raises on a cycle it
  cannot see whole, and no store the verbs build has one in any pool. `HeirsLead`: a replacement
  precedes what it replaced and the repair moves no more than that takes. `ProbesTellTruth`:
  whatever the depth, the doublings and the chunks per row, *depth reached* and *index
  exhausted* mean what they say. `PlansCohere`: a chain of likenesses is never passed off as a
  group, and shards of one set stand together.
- *The consolidator and everyone else* - `NothingLost`, `DispositionsTrue` and `OpenIffUndecided`
  relate the member table to the rows other agents are changing; `PlansAreFresh` is about what
  was read outside the lock.
- *Workers against workers* - `OneActiveRun`, `StaleRunsFrozen`, `OnlyPlanGroupsTakesOver`,
  `ServedArePrefix`, `ServesBounded`, and `EveryRunLetsGo` for the ones that never come back.
- *Connections that fail* - `PoolHonest`: the count is that of the connections that may be open,
  and no reader sleeps beside one it could have. `TransactionsAreOwn`: whatever `COMMIT`,
  `ROLLBACK` and a cancellation left behind, the next holder does not work on top of it.
  `NothingLeftOpen`, for the store in service and for the store closed. `AnswersAreTrue` is the
  refinement: an answer, also one given after a retry or a rollback, tells what is stored.
- *Requests that break* - `RepliesAreOwn`: with one id for all, only the discipline of the socket
  pairs replies with calls, and a cancelled call leaves a thread in the middle of one.
  `OneTakeover`: a plan that may have succeeded is not asked for again. `LabelIsKept`: the label of the first
  response stays, although calls waiting behind it built their envelope without it.
  `AnswersAreTrue`, as above, end to end.
- *Builds* - `OneScanner` is argued through four observations made at four times (at spawn, at
  open, at acquire, at release), a release that asks nothing, and pids that are reused.
  `RemovalsSpareBuilds` states what `remove` does guarantee: a build that takes the lock
  *after* its second look is the window its comment accepts. `AlreadyIndexingIsTrue` is the
  answer a caller relies on to stop asking.
- *Scans* - `OneModel`: no crash, rebuild or change of configuration lets a query meet vectors of
  another model. `Accounted`: if nobody touched a file since the last walk to end began, each in the
  scope of that walk is indexed as it is, or listed, the next build's beginning included.
  `CompletionIsWhole`: the counts, the rows and the links of a completed scan. `PendingKeepsWatch`: a
  path leaves the list with the whole list, as a deleted file, or as what was read of it before the
  embedding, and unless some file changed since the walk began that is what the file is.
- *Services* - `OneService`, `NoSocketLeftBehind`, `StopsSpareSuccessors`, `LostServicesLetGo`.

`TypeOK` is checked for the consolidation tables (`groups`) and proved everywhere.

### Bounds, and why they are enough

- *Rows.* A cycle needs two rows and a chain past a cap of 2 needs four; a group that is left
  half decided beside another, or a cluster that is chained and not complete, needs three; a
  takeover is about the run, so one row does.
- *Versions.* `MaxVersion` bounds the writes of one row: insert, amend, retire is 3 (`records`).
  The consolidator's runs have one write after the insert; versions that part and meet again
  are the subject of `records`, and of the proofs.
- *Chunks and depths.* 5 chunks of 3 rows leave one row with three: with a depth of 2 and one
  doubling, a probe may fall short, be cut, be exhausted or run out of doublings.
- *Leases.* With `Lease = 0` a run lapses at the first tick and with 1 at the second, so a verb
  or a serve happens before, between and after.
- *Serves.* 2 tells "first", "again" and "no more" apart.
- *Workers.* Two of one session share receipts, the harder case: a displaced worker's receipts
  are good, so only the run and the group can stop it.
- *Connections.* Two writers queue for one connection while its holder marks it closed, two
  readers contend for a pool of one; 2 faults are a commit and the rollback after it, and 4
  connections a reader's and a writer's, each replaced once.
- *Requests.* Two calls that plan are a takeover and the call behind it, the third call waits for
  the socket; a second socket is the retry's, one death is the answer that never comes.
- *Builds.* Two scans tell a mark that has moved from one that has not, and let a third build
  find both spent; two local pids let one be reused while another is alive, and the foreign
  one is unprobeable. Two calls are one racing another, or a removal racing a refresh.
- *Scans.* A second build resumes what the first left; the one edit falls at any moment of
  either, between a file's read and its transaction too; a commit and a restore are free as long as git and
  the tree differ. Two files part the one being disposed of from the one that waits. A corpus of mode
  *tracked* scans as *tracked*, or as *off* when git is silent; mode *all*, which differs from
  *tracked* in admitting untracked files, is in `cleared` and in the proofs.
- *Services.* One that loses its socket, one that replaces it and one that stands back; two
  inode numbers let a number be reused while another listens.
- *Symmetry* permutes rows, sessions, pids of one host, calls, tasks of one kind, files and
  encoders. `service` and `takeover` check liveness and use none.

### Fairness

- `Consolidation!FairSpec` is `WF_vars(Tick)`: the clock goes on. Nothing is assumed of the
  workers, which may stop for ever: that every run lets go is what the lease is for. The lease
  of a run is extended by a serve or a disposition, and there are boundedly many of either.
- `Service!Fairness` is weak fairness of the idle poll that finds the socket gone (it runs
  every 30 s in the service's event loop, `service/lifecycle.py`) and of the end of a shutdown
  (bounded by its deadline, after which the exit is forced). A service whose event loop is
  itself stuck is outside it. Nothing is assumed of clients or of starts.

## 4. The proofs

Eight proof modules, 12 264 obligations, all proved with no step left open. The theorems hold for
every number of rows, clients, workers, processes, services, tasks, calls and files, and for
every cap; their assumptions are the `ASSUME`s of the modules: `NULL` is none of the things it
stands beside, the bounds are naturals, a worker's receipt scope is not a primary agent's, each
process has a host, the files of a knowledge base and the row identifiers are finitely many; and, for two
theorems about scans (and the invariant they rest on), `~Reverts`.

**RecordsProofs.** `RecordsInv == RecordsTypeOK /\ ReceiptsCurrent /\ EdgesLegal` is inductive
(`RecordsInvHolds`). The parts need each other: that an amended row still has no successor is
`EdgesLegal` of the row before, and that the next receipt is for an existing row and version is
the types of the one written. The argument is the same for every verb: it either *shows* rows (`Shows`) or *writes* legal
ones (`Writes`), a lemma that has one step per verb, and what these two do is then proved
once. From the invariant:
- `RetiredRowsFrozen`, `EdgeTargetsAreTrue`, `RecordsTypeCorrect`, `ReceiptsAreCurrent`;
- `SupersessionIsAcyclic`, for any cap. `Acyclic` says that no set of rows is closed under
  `superseded_by`. The walk of `validate_new_edge` is a finite path from the target to a root
  that misses the source; a set closed after the write contains the source, so the target, so
  by the least-number argument (`LeastNat`, `WalkLeaves`) every row of the walk and the root,
  which has no successor. The cap only refuses more edges;
- `RecordsImplementLicensedWrites`: initial states map to initial states, a verb that shows maps
  to `Show` and one that writes to `WriteRows`.

**ConsolidationProofs.** Every step of a worker shows, writes legally, or leaves the record
layer alone (`StepShowsWritesOrRests`), so the record layer's results hold of the whole store:
`StoreInv`, `StoreKeepsHistory`, `StoreImplementsLicensedWrites`. The consolidator retires many
rows at once and inserts the row they point to in the same write, which is why `LegalEdge`
allows a successor that the write itself creates.

`ConsolidationInv == RecordsInv /\ Tables(runs, groups) /\ Told(groups, memory) /\
CallsOK`. `Tables` is what the run and group tables say of each other; it takes them as
parameters because `next_group` plans and serves in one transaction, so each half is proved on
its own and the tables between them are a value, not a state. `Told` ties the dispositions to
the rows. `CallsOK` says that what a call carries across its transactions is a plan of rows the
store has held; a fingerprint covers the versions of those rows, so one that still matches means
that the plan is one of the rows as they are. From it come all the properties of the
consolidation tables, their types, and `Acyclic` with the consolidator's verbs.

**BuildsProofs.** `BuildsInv` adds to the types and `RemovalsSpareBuilds`:
`MarksBehind` (nobody's mark is ahead of the corpus's), `LockNamesScanner` (a process that scans
is the one the lock names, so two that scan are one), `EntryIsOurs` (while the handle of the
table runs, its pid is a build of this service, and at an unmoved mark one that is not past its
lock) and `EntryCovers` (the table covers every build on its way, unless it was asked late).
`OneScanner` is `LockNamesScanner` read twice; `AlreadyIndexingIsTrue` is `EntryIsOurs`, and
`SpawnsDoNotOverlap` is `EntryCovers`.

**ServiceProofs.** `ServiceInv == TypeOK /\ OwnersHold /\ PathIsOwners`: whoever may have the
store open holds its lock, and the path is free, the lock holder's or that of a service killed
since, and has the inode number that service wrote down. The last part is why comparing
numbers is enough: while a service that could unlink is alive, no other socket is at the path.
`OneServiceHolds`, `HandledEndsLeaveNothing` and `SuccessorsAreSpared` follow.

**ConnectionsProofs.** `ConnInv` has six parts: the types; `Places`, where each connection is
(listed, leased, abandoned, the writer's); `Owners`, who holds whose lock; `Health`, what a mark,
a transaction and its rows say of each other; `Fates`, what is stored and answered for a task,
given where it stands; `Counted`, the pool's count as a sum of cardinalities. There are
twenty-three actions, and most of them have a branch each for readers, writers, retries and
failures, so the argument goes by what a step does: it waits, joins, opens, advances, settles or returns.
Each of these classes preserves the invariant, each action is shown to be of one of them, and
only `Stop` and `CloseStore` stand alone. The refinement of `AtMostOnce` is read off `Fates`
before and after.

**RequestsProofs.** `ReqInv` rests on one fact about the wire: a socket is used for one request at
a time and given up as soon as anything about it is in doubt, so in all its life no more than one
line is under way on it. That is its one *item*, on its way up, with the handler, or on its way
down. `Discipline` says who holds the lock, the bridge and the socket that is kept; `Wire`, that the
kept socket's item is of the request that is waited for, and any other's of one whose caller was
told nothing; `Unanswered` and `Truth`, what an answer, or none, says of what was applied;
`Takeovers`, that at most one plan was applied or may yet be; and a label once heard is one the
service keeps. The four properties follow, the refinement of `AtMostOnce` from `Truth`.

**ScanProofs.** `ScanInv == TypeOK /\ PlanLegal /\ QueueLegal /\ OneIdentity /\ ReadStands`: vectors,
width and model agree, a build past its rebuild has that model, what a build keeps has rows it will
not delete, what it is to index has a row only if it had one when compared, and what it has read
is a file of its queue and, if none changed since the walk began, the file as it is. `OneModel`
follows; `PendingKeepsWatch` is shown action by action under it, with `ReadStands` for the
transaction that ends a disposal, and needs nothing of restores. `CompletionIsWhole` needs the
invariant `Tally` besides: at each phase, the counters with what is left to do add up to what was
found (cardinalities of disjoint sets), and links are exact once made.

That what a corpus serves is accounted for has an invariant of its own, `TrustHolds`, and one
hypothesis, `~Reverts`. `History`: a number names one content of a file for ever, and a row was read from
a text file. `HonestBlobs`: no file is as a blob that is stored, or about to be, beside another
content, be that a row's or one read and not yet written. `WalkView`, `PlanIsRight` and `Settled`
follow a build from its walk to its end while no file changes: what it found, listed and was
reported is so; hence what it keeps has the text of its row, what it is to index is a candidate
and the rest is not; hence, from the end of the walk phase, through every later kill and into the
next build, each file outside the pending list is indexed as it is or out of the scope that walk
had. `ServedFilesAreAccounted` and `KeptFilesAreUnchanged` are read off it. `HonestBlobs` is what
finding 4 breaks, and the hypothesis is as weak as the run could make it: only restores to such a blob
are excluded.

**ReadsProofs.** The reads write nothing (`ReadsChangeNothing`), so a reader meets only stores of
`RecordsSpec`, and what a reply says of the rows it says of the rows as they stand
(`AnswerIsOfTheStore`). The rest is about lists.
- *The repair.* It is a recursion over lists of rows, defined as a function, so that it first
  has to be shown to have a solution: approximations on the lists shorter than `n` exist and agree
  (`ApproximationsExist`, `ApproximationsAgree`, each by a least counterexample), and glued together
  they solve it (`EmissionIs`). By a least counterexample again, `EmissionRepairs`: of any list of
  different rows of a graph without a cycle it emits all, an heir before what it replaced, and
  demotes a row only behind one that could go first while its own heir was waiting. The cycle is
  excluded by `SupersessionIsAcyclic`. `EveryRankedRowIsReturned` and `ReplacementsComeFirst` follow.
- *The probe.* Ranks number the first chunks of the rows without a gap (`NthIs`, by counting), so
  that what is rolled up of a first part of the index is the first part of what is rolled up of all
  (`PartRollsUpToPart`); `ProbesAreTruthful` is then a matter of three lengths.
- *The plan.* `PlansAreCoherent`, for any number of rows and any reading of them. Each definition of
  `Grouping` chooses something, so each is first shown to have it: a finite set with a strict
  total order has a sorted list (`SortedListExists`, by ranks), a list of candidates grows a subgroup
  (`GrownExists`) and the passes over a component have what they leave (`LeftExists`), both step by step
  (`StepByStep`). Walks over a symmetric relation cut the orphans into components
  (`ComponentsPartition`); every pass takes something until nothing is left, and what it takes is
  pairwise near (`SubgroupsPartition`). So `PreShard` deals every journal row into one set, no two
  with an anchor in common (`PreShardIsLaid`); cutting a set at every `GroupMax`-th row fills all its
  shards but the last (`SegmentIs`, `SegmentsPartition`); two sets have different order keys, for the second
  part is a row's name (`OrderKeysDiffer`); and in a list sorted by key and index nothing comes
  between a shard and the next of its set (`NextShardIsNext`). `DealtOut` is what all this says of the
  shards, and `PlanIsPlanned` that a list of them is one of `Planning!Plans`: with it the consolidator's
  theorems, which take any such plan, are about the plans that are computed.

Every safety invariant and every action property of the passing runs is proved. Left to TLC are the
liveness properties (`EveryRunLetsGo`, `LostServicesLetGo`), which are out of the prover's reach, as is
`ENABLED`.

## 5. Where the code and its documents disagree

1. **A chain longer than the cap** (run `chain`). The cap is tested on the target's chain when an
   edge is written, never on the chains that end at the source, so retiring each head in favour
   of a newer row builds a chain of any length. `resolve_latest` then refuses its oldest row,
   and with it the whole `fetch` that names it, as what `design/schema.md` calls a corrupt store.
2. **A second build in the model-load window** (run `overlap`). A refresh asks the table of
   spawned builds, and records its own, under the mark it read some awaits earlier. If the mark
   moved meanwhile the next refresh takes the difference to mean that the build has its lock,
   and spawns another. Invariant 19 of `design/knowledge-index.md` says it never does. The second
   build is refused at the lock: `OneScanner` holds. `SpawnsDoNotOverlap` is the invariant with
   the condition that makes it true, and is proved.
3. **An unlinked live socket** (run `lostsocket`). A client's recheck under the start lock keeps
   other clients out, not a service that an earlier client started and gave up on, which may
   bind between the recheck and the unlink. It recovers: it finds its socket lost at the next
   poll, and lets go of the store (`LostServicesLetGo`).

4. **A restored file cleared as unchanged** (run `cleared`). A file that differs from what git has
   is indexed with the content hash of its bytes and, beside it, the blob git listed before: two
   hashes of different contents. When the user restores the file, git reports it unchanged with
   that very blob, and the next scan keeps the row unread; the discarded text is served, with no
   pending row to flag it, until the blob moves or a full scan is made.
   `core/knowledge/changes.py` says that a stale hash can never clear a file that changed, and
   `design/knowledge-index.md` that an edit reverted between scans is handled. A row that is cleared by its
   content hash while git reports the file gets its blob refreshed to the same effect. Storing
   no blob while git reports the file would close both. The restore may also come first: a file read
   while it differs, restored while its text is embedded, is stored as that text beside git's blob all
   the same. Only `Accounted` and `KeptIsUnchanged` need the restriction that the `scan` run puts on
   `Restore`; with it they are proved, and the other theorems about `Scan` hold with all restores.

## 6. What is not modelled

- *The similarity arithmetic*: embeddings, cosines, chunking, tokenisation. What they may return is
  every order and every subset where it matters (rankings, floors, probes, plans).
- *A served group's candidates*: the list beside a group is any few targetable rows; how
  `candidates.py` fuses and cuts it is not computed, because no verb asks more of it.
- *Search of a knowledge base*: `core/knowledge/search.py` reads the state, the arms, the chunks,
  the pending list and the sizes one after the other while a build may write between. `Scan` says
  what each finds at one instant; the answer put together from several is a hazard without a property.
- *The inside of a walk*: `scan.py` walks in batches and `changes.py` compares file by file; each is
  one step of `Scan`. Each file's read of a comparison is independent of what happens to the others,
  and a change during the walk sets `edits`, so nothing is claimed of a tree that moved under it; the
  counters a report may show in mid-walk are not modelled.
- *What the walk refuses*: `.gitignore`, globs, `.gitattributes` and the size cap are one kind of file that
  is never a candidate; which rule refused it, or that a rule changed, is left out.
- *Other contents of git*: a user restores what git has now; checking out an older commit, or
  typing an older content again, is a fresh content in the model.
- *Malformed responses*: what a client raises for a line that is not JSON, not an object, or neither a
  result nor an error (`mcp/connection.py`, `mcp/errors.py`); the service frames every response itself.
- *Links and the registry*: link records count as exact or not; resolution and the corpus list's
  one `UNIQUE` table are not modelled.
- *Opening a store*: schema, permissions, the embedder gate and the memory store's migration run
  once before any request.
- *The event log*: events are appended in the transaction they describe, so they add no step.
- *Requests*: parameter checks, serialisation and logs handle one request at a time;
  `release_finished`, the health check and `mcp/spill.py` do not change what a request does.
- *Equal timestamps*: `last_scan_started_at` is a counter here. Two acquisitions within the
  clock's resolution would give the same mark.
- *Clock steps*: leases count down; a wall clock set back would lengthen them.
- *Activity and idleness*: when a service is idle, and the identity handshake a client makes
  before it trusts a service, are outside `Service`; that it may stop at any time is inside.
- *Hooks*: short-lived client processes; `hook/session_relay.py` is in the plan.
- *Pure and one-shot components*: the guard, the installer, the reports, the planner over sources,
  the experiments, and code that parses or renders. They are a large part of the source by lines,
  and nothing in them runs beside anything else.

## 7. Plan

Built, in order of what most depended on being right: `Records`, `Consolidation`, `Builds`,
`Service`, `Connections`, `Requests`, `Scan`, `Planning` with `Grouping`, `Retrieval` with `Reads`;
each checked, and proved but for liveness.

| next | models | properties |
|---|---|---|
| `Search` | `core/knowledge/search.py` over `Scan`: the separate reads of one search while a build runs | what is served and not flagged stale was true of one instant |
| `Relay` | `hook/session_relay.py` and its reader in `harness/detect.py`: the file in which a hook leaves its session's label for the MCP client that shares its parent | the label read is that of the session whose turn runs, or none |

Composition that is still by argument rather than by refinement: `Scan` as the `scanning` phase of
`Builds`, and `Connections` under the one-step verbs of `Records`.
