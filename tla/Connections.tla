----------------------------- MODULE Connections -----------------------------
(***************************************************************************)
(* The service's connections to its store: the one writer, reopened after  *)
(* a rollback that failed, the pool of readers, the lock each connection   *)
(* carries, and the transaction a request runs on it                       *)
(* (core/store/{transactions,holders,pool,deadline,store,connection}.py).  *)
(*                                                                         *)
(* A task is one request.  A step runs from one await to the next; what a  *)
(* connection's worker thread was told to do it does, even for a task that *)
(* was cancelled meanwhile.  Tasks are cancelled once, all together, when  *)
(* the service shuts down (service/server.py).                             *)
(***************************************************************************)
EXTENDS Naturals, FiniteSets, SequencesExt

CONSTANTS
    Tasks,
    Writers,    \* those that use the writer; the others lease a reader
    NULL,
    PoolSize,
    MaxConns,   \* bound: connections ever opened
    MaxFaults   \* bound: statements and opens that fail

ASSUME TasksAssumption == Writers \subseteq Tasks /\ NULL \notin Tasks
ASSUME SizesAssumption == PoolSize \in Nat \ {0} /\ MaxConns \in Nat \ {0} /\ MaxFaults \in Nat

VARIABLES
    conns,      \* every connection opened, and its holder
    writer,     \* the store's writer
    reopener,   \* who holds the reopening lock
    idle,       \* the pool's list
    abandoned,  \* connections whose return was cancelled
    opened,     \* the pool's count
    fileLock,   \* the connection that holds SQLite's write lock
    stored,     \* what of each task is committed
    tasks,
    answer,
    stage,      \* "serving", "stopping", "down"
    faults

vars == <<conns, writer, reopener, idle, abandoned, opened, fileLock, stored, tasks, answer,
          stage, faults>>

ConnIds == 1 .. MaxConns
Effects == {"nothing", "note", "change"}

\* Why a transaction ends: it is done, a refusal that keeps its rows (a version
\* conflict, a missing receipt), contention, or anything else.
Causes == {"none", "done", "conflict", "busy", "error", "cancel"}

Replies == {"none", "ok", "conflict", "refused", "failed", "cancelled"}

Conn == [tx : {"none", "deferred", "immediate"}, stale : BOOLEAN, dirty : SUBSET Tasks,
         owner : Tasks \cup {NULL}, closed : BOOLEAN, shut : BOOLEAN]

Task == [pc : {"new", "reopen", "asleep", "woken", "opening", "acquire", "begin", "work",
               "finalize", "rollback", "closing", "returning", "done"},
         conn : ConnIds \cup {NULL}, tries : 1 .. 2, wrote : Effects, cause : Causes,
         result : Replies, cancelled : BOOLEAN]

Fresh == [tx |-> "none", stale |-> FALSE, dirty |-> {}, owner |-> NULL, closed |-> FALSE,
          shut |-> FALSE]

Reader(t) == t \notin Writers
Immediate(t) == t \in Writers \/ tasks[t].tries = 2

\* `t` waits at `pc` and no cancellation is on its way to it.
At(t, pc) == tasks[t].pc = pc /\ ~tasks[t].cancelled

Mine(t) == conns[tasks[t].conn]

Fault == faults < MaxFaults /\ faults' = faults + 1

\* A task that ended; what it wrote is told by what is stored.
Ended(task) == [task EXCEPT !.pc = "done", !.conn = NULL, !.tries = 1, !.cause = "none",
                            !.result = "none", !.cancelled = FALSE]

End(t, a) ==
    /\ tasks' = [tasks EXCEPT ![t] = Ended(@)]
    /\ answer' = [answer EXCEPT ![t] = a]

\* notify_all, on top of the step's own change of tasks.
WakingAll(changed) ==
    [t \in Tasks |-> IF changed[t].pc = "asleep" THEN [changed[t] EXCEPT !.pc = "woken"]
                     ELSE changed[t]]

-----------------------------------------------------------------------------
(* The writer. *)

\* writer(): nothing is awaited while the holder is not marked.
Writer(t) ==
    /\ t \in Writers
    /\ stage = "serving"
    /\ At(t, "new")
    /\ tasks' = [tasks EXCEPT
         ![t] = IF conns[writer].closed THEN [@ EXCEPT !.pc = "reopen"]
                ELSE [@ EXCEPT !.pc = "acquire", !.conn = writer]]
    /\ UNCHANGED <<conns, writer, reopener, idle, abandoned, opened, fileLock, stored, answer,
                   stage, faults>>

\* The mark is read again under the reopening lock.
Reopen(t) ==
    /\ At(t, "reopen")
    /\ reopener = NULL
    /\ IF conns[writer].closed
       THEN /\ Len(conns) < MaxConns
            /\ reopener' = t
            /\ tasks' = [tasks EXCEPT ![t].pc = "opening"]
       ELSE /\ tasks' = [tasks EXCEPT ![t].pc = "acquire", ![t].conn = writer]
            /\ UNCHANGED reopener
    /\ UNCHANGED <<conns, writer, idle, abandoned, opened, fileLock, stored, answer, stage,
                   faults>>

-----------------------------------------------------------------------------
(* The pool. *)

\* Mutant: a slot given up wakes nobody.
ForgetOne_Silently(changed) ==
    /\ opened' = opened - 1
    /\ tasks' = changed

ForgetOne(changed) ==
    /\ opened' = opened - 1
    /\ tasks' = WakingAll(changed)

Full == opened >= PoolSize

\* _take, from the start or after a wait.
Take(t) ==
    /\ Reader(t)
    /\ \/ At(t, "new") /\ stage = "serving"
       \/ At(t, "woken")
    /\ \/ /\ idle # <<>>
          /\ tasks' = [tasks EXCEPT ![t].pc = "acquire", ![t].conn = Last(idle)]
          /\ idle' = Front(idle)
          /\ UNCHANGED opened
       \/ /\ idle = <<>>
          /\ ~Full
          /\ Len(conns) < MaxConns
          /\ opened' = opened + 1
          /\ tasks' = [tasks EXCEPT ![t].pc = "opening"]
          /\ UNCHANGED idle
       \/ /\ idle = <<>>
          /\ Full
          /\ tasks' = [tasks EXCEPT ![t].pc = "asleep"]
          /\ UNCHANGED <<idle, opened>>
    /\ UNCHANGED <<conns, writer, reopener, abandoned, fileLock, stored, answer, stage, faults>>

\* _open_checked, outside every lock but the reopening one.  The writer's new
\* connection replaces the marked one; a reader's is leased to its opener.
OpenChecked(t) ==
    /\ At(t, "opening")
    /\ Len(conns) < MaxConns
    /\ conns' = Append(conns, Fresh)
    /\ tasks' = [tasks EXCEPT ![t].pc = "acquire", ![t].conn = Len(conns) + 1]
    /\ IF Reader(t) THEN UNCHANGED <<writer, reopener>>
                    ELSE writer' = Len(conns) + 1 /\ reopener' = NULL
    /\ UNCHANGED <<idle, abandoned, opened, fileLock, stored, answer, stage, faults>>

\* The file is gone or replaced, or the open fails.
OpenFails(t) ==
    /\ At(t, "opening")
    /\ Fault
    /\ answer' = [answer EXCEPT ![t] = "failed"]
    /\ LET ended == [tasks EXCEPT ![t] = Ended(@)] IN
       IF Reader(t) THEN ForgetOne(ended) /\ UNCHANGED reopener
                    ELSE tasks' = ended /\ reopener' = NULL /\ UNCHANGED opened
    /\ UNCHANGED <<conns, writer, idle, abandoned, fileLock, stored, stage>>

\* A marked connection is closed, once more, and its slot given up.
GiveBack(t) ==
    /\ tasks[t].pc = "returning"
    /\ answer' = [answer EXCEPT ![t] = tasks[t].result]
    /\ LET ended == [tasks EXCEPT ![t] = Ended(@)] IN
       IF Mine(t).closed
       THEN /\ conns' = [conns EXCEPT ![tasks[t].conn].shut = TRUE]
            /\ ForgetOne(ended)
            /\ UNCHANGED idle
       ELSE /\ idle' = Append(idle, tasks[t].conn)
            /\ tasks' = WakingAll(ended)
            /\ UNCHANGED <<conns, opened>>
    /\ UNCHANGED <<writer, reopener, abandoned, fileLock, stored, stage, faults>>

-----------------------------------------------------------------------------
(* One transaction. *)

\* The request is settled: a writer's task is done, a reader's returns its lease
\* first, after one more try when it met contention and is not late.
Settled(t, a) ==
    LET reply == IF a = "busy" THEN "refused" ELSE a IN
    \/ /\ Reader(t) /\ a = "busy" /\ tasks[t].tries = 1
       /\ tasks' = [tasks EXCEPT ![t].pc = "acquire", ![t].tries = 2, ![t].wrote = "nothing",
                                 ![t].cause = "none"]
       /\ UNCHANGED answer
    \/ /\ Reader(t)
       /\ tasks' = [tasks EXCEPT ![t].pc = "returning", ![t].result = reply,
                                 ![t].cancelled = FALSE]
       /\ UNCHANGED answer
    \/ ~Reader(t) /\ End(t, reply)

\* The deadline passes while the task waits for the pool or for a connection.
LockWaitExpired(t) ==
    /\ \/ (At(t, "asleep") \/ At(t, "woken")) /\ End(t, "refused")
       \/ At(t, "acquire") /\ Settled(t, "refused")
    /\ UNCHANGED <<conns, writer, reopener, idle, abandoned, opened, fileLock, stored, stage,
                   faults>>

Released(c, t) == [c EXCEPT !.owner = IF @ = t THEN NULL ELSE @]

\* Mutant: the mark is not read once the lock is held.
Acquire_Unchecked(t) ==
    /\ At(t, "acquire")
    /\ Mine(t).owner = NULL
    /\ conns' = [conns EXCEPT ![tasks[t].conn].owner = t]
    /\ tasks' = [tasks EXCEPT ![t].pc = "begin"]
    /\ UNCHANGED <<writer, reopener, idle, abandoned, opened, fileLock, stored, answer, stage,
                   faults>>

\* The holder's lock; whoever marked the connection closed may have held it
\* when this task started to wait.
Acquire(t) ==
    /\ At(t, "acquire")
    /\ Mine(t).owner = NULL
    /\ IF Mine(t).closed
       THEN /\ Settled(t, "refused")
            /\ UNCHANGED conns
       ELSE /\ conns' = [conns EXCEPT ![tasks[t].conn].owner = t]
            /\ tasks' = [tasks EXCEPT ![t].pc = "begin"]
            /\ UNCHANGED answer
    /\ UNCHANGED <<writer, reopener, idle, abandoned, opened, fileLock, stored, stage, faults>>

\* BEGIN, or BEGIN IMMEDIATE once the file's write lock is free.
Begin(t) ==
    /\ At(t, "begin")
    /\ Mine(t).tx = "none"
    /\ Immediate(t) => fileLock = NULL
    /\ conns' = [conns EXCEPT ![tasks[t].conn].tx = IF Immediate(t) THEN "immediate" ELSE "deferred",
                              ![tasks[t].conn].stale = FALSE]
    /\ fileLock' = IF Immediate(t) THEN tasks[t].conn ELSE fileLock
    /\ tasks' = [tasks EXCEPT ![t].pc = "work"]
    /\ UNCHANGED <<writer, reopener, idle, abandoned, opened, stored, answer, stage, faults>>

\* Contention outlasts the deadline, or SQLite refuses the statement, as it
\* does when the connection has a transaction open.  Nothing is finalised.
BeginFails(t) ==
    /\ At(t, "begin")
    /\ \/ Immediate(t) /\ fileLock # NULL /\ Settled(t, "busy") /\ UNCHANGED faults
       \/ Mine(t).tx # "none" /\ Settled(t, "failed") /\ UNCHANGED faults
       \/ Fault /\ Settled(t, "failed")
    /\ conns' = [conns EXCEPT ![tasks[t].conn] = Released(@, t)]
    /\ UNCHANGED <<writer, reopener, idle, abandoned, opened, fileLock, stored, stage>>

\* The work ends.  Its rows are in the transaction, whole, in part or, for a
\* reader that cannot have the file's write lock, not at all.
Work(t) ==
    /\ At(t, "work")
    /\ LET c == tasks[t].conn
           locks == fileLock \in {NULL, c} /\ ~(conns[c].tx = "deferred" /\ conns[c].stale)
       IN \/ /\ locks
             /\ \E cause \in {"done", "conflict", "error"} :
                   tasks' = [tasks EXCEPT ![t].pc = "finalize", ![t].cause = cause,
                               ![t].wrote = IF cause = "conflict" THEN "note" ELSE "change"]
             /\ conns' = [conns EXCEPT ![c].dirty = @ \cup {t}]
             /\ fileLock' = c
          \/ /\ ~locks
             /\ tasks' = [tasks EXCEPT ![t].pc = "finalize", ![t].cause = "busy"]
             /\ UNCHANGED <<conns, fileLock>>
    /\ UNCHANGED <<writer, reopener, idle, abandoned, opened, stored, answer, stage, faults>>

\* Mutant: every transaction is committed, whatever its work raised.
Commits_Always(t) == tasks[t].cause # "none"

\* commit_or_roll_back.
Commits(t) == tasks[t].cause \in {"done", "conflict"}

AnswerOf(t) ==
    CASE tasks[t].cause = "done" -> "ok"
      [] tasks[t].cause = "conflict" -> "conflict"
      [] tasks[t].cause = "busy" -> "busy"
      [] tasks[t].cause = "error" -> "failed"
      [] tasks[t].cause = "cancel" -> "cancelled"
      [] OTHER -> "none"

\* What COMMIT and ROLLBACK do, and the release that follows.
Committed(t) ==
    LET c == tasks[t].conn IN
    /\ stored' = [u \in Tasks |-> IF u \in conns[c].dirty THEN tasks[u].wrote ELSE stored[u]]
    /\ fileLock' = IF fileLock = c THEN NULL ELSE fileLock
    /\ conns' = [d \in DOMAIN conns |->
          IF d = c THEN Released([conns[d] EXCEPT !.tx = "none", !.dirty = {}], t)
          ELSE [conns[d] EXCEPT !.stale = @ \/ (conns[c].dirty # {} /\ conns[d].tx = "deferred")]]

RolledBack(t) ==
    LET c == tasks[t].conn IN
    /\ fileLock' = IF fileLock = c THEN NULL ELSE fileLock
    /\ conns' = [conns EXCEPT ![c] = Released([@ EXCEPT !.tx = "none", !.dirty = {}], t)]
    /\ UNCHANGED stored

Finalize(t) ==
    /\ At(t, "finalize")
    /\ IF Commits(t) THEN Committed(t) ELSE RolledBack(t)
    /\ Settled(t, AnswerOf(t))
    /\ UNCHANGED <<writer, reopener, idle, abandoned, opened, stage, faults>>

\* COMMIT, or the first ROLLBACK, fails.  What is raised now is that failure.
FinalizeFails(t) ==
    /\ At(t, "finalize")
    /\ Fault
    /\ \E cause \in {"busy", "error"} :
          tasks' = [tasks EXCEPT ![t].pc = "rollback", ![t].cause = cause]
    /\ UNCHANGED <<conns, writer, reopener, idle, abandoned, opened, fileLock, stored, answer,
                   stage>>

RollBack(t) ==
    /\ At(t, "rollback")
    /\ RolledBack(t)
    /\ Settled(t, AnswerOf(t))
    /\ UNCHANGED <<writer, reopener, idle, abandoned, opened, stage, faults>>

\* The rollback fails too: the mark is set before the close is awaited.
RollBackFails(t) ==
    /\ At(t, "rollback")
    /\ Fault
    /\ conns' = [conns EXCEPT ![tasks[t].conn].closed = TRUE]
    /\ tasks' = [tasks EXCEPT ![t].pc = "closing"]
    /\ UNCHANGED <<writer, reopener, idle, abandoned, opened, fileLock, stored, answer, stage>>

\* Closing drops the transaction with its connection.
Shut(c) == [c EXCEPT !.shut = TRUE, !.tx = "none", !.dirty = {}]

Close(t) ==
    LET c == tasks[t].conn IN
    /\ At(t, "closing")
    /\ conns' = [conns EXCEPT ![c] = Released(Shut(@), t)]
    /\ fileLock' = IF fileLock = c THEN NULL ELSE fileLock
    /\ Settled(t, AnswerOf(t))
    /\ UNCHANGED <<writer, reopener, idle, abandoned, opened, stored, stage, faults>>

-----------------------------------------------------------------------------
(* Shutdown. *)

\* close_all_connections cancels every handler there is.
Stop ==
    /\ stage = "serving"
    /\ stage' = "stopping"
    /\ tasks' = [t \in Tasks |-> IF tasks[t].pc \in {"new", "done"} THEN tasks[t]
                                ELSE [tasks[t] EXCEPT !.cancelled = TRUE]]
    /\ UNCHANGED <<conns, writer, reopener, idle, abandoned, opened, fileLock, stored, answer,
                   faults>>

Interrupted(t, pc) == tasks[t].cancelled /\ tasks[t].pc = pc

\* Cancelled before a transaction: nothing is held, or the slot, the lock or the
\* lease is given back.
CancelWait(t) ==
    /\ \/ /\ \E pc \in {"reopen", "asleep", "woken", "opening"} : Interrupted(t, pc)
          /\ answer' = [answer EXCEPT ![t] = "cancelled"]
          /\ LET ended == [tasks EXCEPT ![t] = Ended(@)] IN
             IF Reader(t) /\ tasks[t].pc = "opening" THEN ForgetOne(ended)
                                                    ELSE tasks' = ended /\ UNCHANGED opened
       \/ /\ Interrupted(t, "acquire")
          /\ Settled(t, "cancelled")
          /\ UNCHANGED opened
    /\ reopener' = IF reopener = t THEN NULL ELSE reopener
    /\ UNCHANGED <<conns, writer, idle, abandoned, fileLock, stored, stage, faults>>

\* Cancelled in BEGIN: between two polls, or while the worker runs it, which
\* leaves the transaction open on a connection that is released.
CancelBegin(t) ==
    /\ Interrupted(t, "begin")
    /\ LET c == tasks[t].conn IN
       \/ /\ conns' = [conns EXCEPT ![c] = Released(@, t)]
          /\ UNCHANGED fileLock
       \/ /\ Mine(t).tx = "none"
          /\ Immediate(t) => fileLock = NULL
          /\ conns' = [conns EXCEPT ![c] = Released(
                [@ EXCEPT !.tx = IF Immediate(t) THEN "immediate" ELSE "deferred"], t)]
          /\ fileLock' = IF Immediate(t) THEN c ELSE fileLock
    /\ Settled(t, "cancelled")
    /\ UNCHANGED <<writer, reopener, idle, abandoned, opened, stored, stage, faults>>

\* Cancelled in the work: any part of its rows may be written; finalize runs.
CancelWork(t) ==
    /\ Interrupted(t, "work")
    /\ LET c == tasks[t].conn IN
       \/ /\ fileLock \in {NULL, c} /\ ~(conns[c].tx = "deferred" /\ conns[c].stale)
          /\ conns' = [conns EXCEPT ![c].dirty = @ \cup {t}]
          /\ fileLock' = c
       \/ UNCHANGED <<conns, fileLock>>
    /\ tasks' = [tasks EXCEPT ![t].pc = "finalize", ![t].cause = "cancel", ![t].wrote = "change",
                              ![t].cancelled = FALSE]
    /\ UNCHANGED <<writer, reopener, idle, abandoned, opened, stored, answer, stage, faults>>

\* Cancelled in COMMIT, ROLLBACK or the close: the worker does it all the same,
\* or fails with nobody to roll back.
CancelFinalize(t) ==
    /\ \E pc \in {"finalize", "rollback", "closing"} : Interrupted(t, pc)
    /\ LET c == tasks[t].conn IN
       \/ /\ tasks[t].pc = "finalize" /\ Commits(t)
          /\ Committed(t)
          /\ UNCHANGED faults
       \/ /\ ~(tasks[t].pc = "finalize" /\ Commits(t))
          /\ tasks[t].pc # "closing"
          /\ RolledBack(t)
          /\ UNCHANGED faults
       \/ /\ tasks[t].pc = "closing"
          /\ conns' = [conns EXCEPT ![c] = Released(Shut(@), t)]
          /\ fileLock' = IF fileLock = c THEN NULL ELSE fileLock
          /\ UNCHANGED <<stored, faults>>
       \/ /\ tasks[t].pc # "closing"
          /\ Fault
          /\ conns' = [conns EXCEPT ![c] = Released(@, t)]
          /\ UNCHANGED <<fileLock, stored>>
    /\ Settled(t, "cancelled")
    /\ UNCHANGED <<writer, reopener, idle, abandoned, opened, stage>>

\* Mutant: a lease whose return is cancelled is forgotten.
Abandon_Dropped(t) ==
    /\ Interrupted(t, "returning")
    /\ tasks' = [tasks EXCEPT ![t] = Ended(@)]
    /\ answer' = [answer EXCEPT ![t] = "cancelled"]
    /\ UNCHANGED <<conns, writer, reopener, idle, abandoned, opened, fileLock, stored, stage,
                   faults>>

\* Cancelled while it queues for the condition's lock: kept for close().
Abandon(t) ==
    /\ Interrupted(t, "returning")
    /\ tasks' = [tasks EXCEPT ![t] = Ended(@)]
    /\ answer' = [answer EXCEPT ![t] = "cancelled"]
    /\ abandoned' = abandoned \cup {tasks[t].conn}
    /\ UNCHANGED <<conns, writer, reopener, idle, opened, fileLock, stored, stage, faults>>

\* Every handler has ended: the pool is closed, then the writer.
CloseStore ==
    /\ stage = "stopping"
    /\ \A t \in Tasks : tasks[t].pc \in {"new", "done"}
    /\ stage' = "down"
    /\ conns' = [c \in DOMAIN conns |-> IF c \in ToSet(idle) \cup abandoned \cup {writer}
                                        THEN Shut(conns[c]) ELSE conns[c]]
    /\ opened' = opened - Len(idle)
    /\ idle' = <<>>
    /\ abandoned' = {}
    /\ fileLock' = NULL
    /\ UNCHANGED <<writer, reopener, stored, tasks, answer, faults>>

Init ==
    /\ conns = <<Fresh>>
    /\ writer = 1
    /\ reopener = NULL
    /\ idle = <<>>
    /\ abandoned = {}
    /\ opened = 0
    /\ fileLock = NULL
    /\ stored = [t \in Tasks |-> "nothing"]
    /\ tasks = [t \in Tasks |-> [pc |-> "new", conn |-> NULL, tries |-> 1, wrote |-> "nothing",
                                 cause |-> "none", result |-> "none", cancelled |-> FALSE]]
    /\ answer = [t \in Tasks |-> "none"]
    /\ stage = "serving"
    /\ faults = 0

Step(t) ==
    \/ Writer(t) \/ Reopen(t) \/ Take(t) \/ OpenChecked(t) \/ OpenFails(t) \/ GiveBack(t)
    \/ LockWaitExpired(t) \/ Acquire(t) \/ Begin(t) \/ BeginFails(t) \/ Work(t)
    \/ Finalize(t) \/ FinalizeFails(t) \/ RollBack(t) \/ RollBackFails(t) \/ Close(t)
    \/ CancelWait(t) \/ CancelBegin(t) \/ CancelWork(t) \/ CancelFinalize(t) \/ Abandon(t)

Next == Stop \/ CloseStore \/ \E t \in Tasks : Step(t)

Spec == Init /\ [][Next]_vars

-----------------------------------------------------------------------------
(* Properties. *)

TypeOK ==
    /\ conns \in Seq(Conn) /\ Len(conns) \in ConnIds
    /\ writer \in DOMAIN conns
    /\ reopener \in Writers \cup {NULL}
    /\ idle \in Seq(DOMAIN conns)
    /\ abandoned \subseteq DOMAIN conns
    /\ opened \in 0 .. PoolSize
    /\ fileLock \in DOMAIN conns \cup {NULL}
    /\ stored \in [Tasks -> Effects]
    /\ tasks \in [Tasks -> Task]
    /\ answer \in [Tasks -> Replies]
    /\ stage \in {"serving", "stopping", "down"}
    /\ faults \in 0 .. MaxFaults

Leases(t) == Reader(t) /\ tasks[t].pc \in {"acquire", "begin", "work", "finalize", "rollback",
                                          "closing", "returning"}

\* The pool accounts for every connection it may have open: each is in the list,
\* with one reader, or abandoned; none in the list is marked closed; and no
\* reader sleeps beside a connection or a slot it could have (core/store/pool.py).
PoolHonest ==
    LET leased == {t \in Tasks : Leases(t)}
        opening == {t \in Tasks : Reader(t) /\ tasks[t].pc = "opening"}
    IN stage # "down" =>
        /\ opened = Len(idle) + Cardinality(leased) + Cardinality(opening)
                     + Cardinality(abandoned)
        /\ IsInjective(idle)
        /\ \A t \in leased : /\ tasks[t].conn \notin ToSet(idle) \cup abandoned \cup {writer}
                             /\ \A u \in leased \ {t} : tasks[u].conn # tasks[t].conn
        /\ \A c \in ToSet(idle) : ~conns[c].closed /\ conns[c].owner = NULL
        /\ (\E t \in Tasks : tasks[t].pc = "asleep") => idle = <<>> /\ opened = PoolSize

\* Whoever works owns its connection, which nothing has marked or closed, and
\* finds there a transaction that holds no other task's rows: none is left by a
\* commit or a rollback that failed (core/store/transactions.py, finalize).
TransactionsAreOwn ==
    \A t \in Tasks : tasks[t].pc \in {"work", "finalize"} =>
        /\ Mine(t).owner = t
        /\ ~Mine(t).closed /\ ~Mine(t).shut
        /\ Mine(t).tx # "none"
        /\ Mine(t).dirty \subseteq {t}

\* Outside a shutdown a connection nobody owns has no transaction open, and at
\* the end of one no connection ever opened is left open (Store.close).
NothingLeftOpen ==
    /\ stage = "serving" => \A c \in DOMAIN conns : conns[c].owner = NULL => conns[c].tx = "none"
    /\ stage = "down" => \A c \in DOMAIN conns : conns[c].shut

\* A request changes the store if its answer says so, does not if its answer
\* says not, and never twice: the store keeps AtMostOnce for its tasks.
Told == [t \in Tasks |->
    CASE answer[t] = "none" -> "none"
      [] answer[t] = "ok" -> "done"
      [] answer[t] = "cancelled" -> "unknown"
      [] OTHER -> "refused"]

Abstract == INSTANCE AtMostOnce WITH
    Calls <- Tasks,
    applied <- [t \in Tasks |-> IF stored[t] = "change" THEN 1 ELSE 0],
    answer <- Told

AnswersAreTrue == Abstract!Spec
=============================================================================
