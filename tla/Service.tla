-------------------------------- MODULE Service --------------------------------
(***************************************************************************)
(* One store's service processes and the clients that start them           *)
(* (service/{lifecycle,ownership,main,server}.py, hook/connect.py): the    *)
(* clients' start lock, the lock a service holds on its store, and the     *)
(* socket file, told apart by inode number alone.                          *)
(*                                                                         *)
(* Deadlines are choices: a client gives up, and a start that waits for    *)
(* the store exits, when its code may.  What requests do is elsewhere.     *)
(***************************************************************************)
EXTENDS Naturals

CONSTANTS
    Services,   \* the service processes ever spawned
    Clients,    \* processes that connect, one attempt at a time
    Inodes,     \* inode numbers the runtime directory's file system gives out
    NULL

ASSUME NoService == NULL \notin Services
ASSUME NoFile == NULL \notin [of : Services, ino : Inodes]

VARIABLES
    phase,    \* where each service process stands
    bound,    \* the inode number of the socket each bound
    hold,     \* the service that has the store's lock, or NULL
    path,     \* the socket file at the path: whose socket it is and its inode number
    client    \* where each client stands in start-if-absent

vars == <<phase, bound, hold, path, client>>

\* Listeners hold their socket's inode whether or not the path still names it.
Listeners == {s \in Services : phase[s] \in {"bound", "listening", "serving"}}

Reachable == path # NULL /\ phase[path.of] \in {"listening", "serving"}

-----------------------------------------------------------------------------
(* Start-if-absent.  The first connect only decides whether to go on, any    *)
(* time before the lock.                                                     *)

Move(c, from, to) == client[c] = from /\ client' = [client EXCEPT ![c] = to]

Locks(c) ==
    /\ \A d \in Clients : client[d] = "idle"
    /\ Move(c, "idle", "rechecking")
    /\ UNCHANGED <<phase, bound, hold, path>>

Rechecks(c) ==
    /\ Move(c, "rechecking", IF Reachable THEN "idle" ELSE "clearing")
    /\ UNCHANGED <<phase, bound, hold, path>>

ClearsStaleSocket(c) ==
    /\ Move(c, "clearing", "spawning")
    /\ path' = NULL
    /\ UNCHANGED <<phase, bound, hold>>

Spawns(c) ==
    /\ Move(c, "spawning", "polling")
    /\ \E s \in Services :
          /\ phase[s] = "unborn"
          /\ phase' = [phase EXCEPT ![s] = "waiting"]
    /\ UNCHANGED <<bound, hold, path>>

\* The poll ends on an answer, on its deadline or on a failed start, and a client
\* may be killed anywhere: the lock is given back and the start goes on alone.
LetsGo(c) ==
    /\ client[c] # "idle"
    /\ client' = [client EXCEPT ![c] = "idle"]
    /\ UNCHANGED <<phase, bound, hold, path>>

-----------------------------------------------------------------------------
(* A service. *)

Becomes(s, to) == phase' = [phase EXCEPT ![s] = to]

\* Mutant: the store is opened without its lock.
TakesStore_NoLock(s) ==
    /\ phase[s] = "waiting"
    /\ hold' = s
    /\ Becomes(s, "opening")
    /\ UNCHANGED <<bound, path, client>>

TakesStore(s) ==
    /\ phase[s] = "waiting"
    /\ hold = NULL
    /\ hold' = s
    /\ Becomes(s, "opening")
    /\ UNCHANGED <<bound, path, client>>

\* AnotherServiceError.
StandsBack(s) ==
    /\ phase[s] = "waiting"
    /\ hold # NULL
    /\ Becomes(s, "gone")
    /\ UNCHANGED <<bound, hold, path, client>>

\* Mutant: the signal handlers go on after the bind.
StartEnds_LateHandlers(s) ==
    /\ phase[s] \in {"waiting", "opening", "bound", "listening"}
    /\ Becomes(s, "gone")
    /\ hold' = IF hold = s THEN NULL ELSE hold
    /\ UNCHANGED <<bound, path, client>>

\* A start that fails, or is signalled before the handlers are installed.
StartEnds(s) ==
    /\ phase[s] \in {"waiting", "opening"}
    /\ Becomes(s, "gone")
    /\ hold' = IF hold = s THEN NULL ELSE hold
    /\ UNCHANGED <<bound, path, client>>

\* start_unix_server removes a socket file it finds and makes its own.
Binds(s) ==
    /\ phase[s] = "opening"
    /\ \E i \in Inodes \ {bound[t] : t \in Listeners} :
          /\ path' = [of |-> s, ino |-> i]
          /\ bound' = [bound EXCEPT ![s] = i]
    /\ Becomes(s, "bound")
    /\ UNCHANGED <<hold, client>>

Listens(s) ==
    /\ phase[s] = "bound"
    /\ Becomes(s, "listening")
    /\ UNCHANGED <<bound, hold, path, client>>

\* serve reads back its socket's inode number, and fails if the file has gone.
Serves(s) ==
    /\ phase[s] = "listening"
    /\ IF path # NULL
       THEN Becomes(s, "serving") /\ UNCHANGED hold
       ELSE Becomes(s, "gone") /\ hold' = NULL
    /\ UNCHANGED <<bound, path, client>>

\* Mutant: a path that is gone counts as not replaced.
Lost_Replaced(s) == path # NULL /\ path.ino # bound[s]

\* _path_now_differs, of the socket.
Lost(s) == ~(path # NULL /\ path.ino = bound[s])

UnlinkIfStillBound(s) == path' = IF Lost(s) THEN path ELSE NULL

\* Mutant: the store's lock is given back as the shutdown begins.
Stops_LetsGoFirst(s) ==
    /\ phase[s] = "serving"
    /\ UnlinkIfStillBound(s)
    /\ Becomes(s, "draining")
    /\ hold' = NULL
    /\ UNCHANGED <<bound, client>>

\* Idle, a replaced store, a lost socket, a failed encoder or a signal: the path
\* is unlinked, then the listener closed.
Stops(s) ==
    /\ phase[s] = "serving"
    /\ UnlinkIfStillBound(s)
    /\ Becomes(s, "draining")
    /\ UNCHANGED <<bound, hold, client>>

\* The idle poll that finds its socket lost.
PollFindsSocketLost(s) == Lost(s) /\ Stops(s)

\* A failed chmod, or a lifecycle task that raises: the listener closes first.
Fails(s) ==
    /\ phase[s] = "serving"
    /\ Becomes(s, "failing")
    /\ UNCHANGED <<bound, hold, path, client>>

LetsStoreGo(s) == hold' = IF hold = s THEN NULL ELSE hold

\* The store is closed, then its lock released.
Finishes(s) ==
    /\ phase[s] = "draining"
    /\ Becomes(s, "gone")
    /\ LetsStoreGo(s)
    /\ UNCHANGED <<bound, path, client>>

\* The forced exit of a shutdown past its deadline, and a failure's cleanup,
\* unlink after the close.
FinishesLate(s) ==
    /\ phase[s] \in {"draining", "failing"}
    /\ UnlinkIfStillBound(s)
    /\ Becomes(s, "gone")
    /\ LetsStoreGo(s)
    /\ UNCHANGED <<bound, client>>

\* SIGKILL, a crash in native code, or a signal left at its default.
Dies(s) ==
    /\ phase[s] \notin {"unborn", "gone", "killed"}
    /\ Becomes(s, "killed")
    /\ LetsStoreGo(s)
    /\ UNCHANGED <<bound, path, client>>

-----------------------------------------------------------------------------
Init ==
    /\ phase = [s \in Services |-> "unborn"]
    /\ bound = [s \in Services |-> NULL]
    /\ hold = NULL
    /\ path = NULL
    /\ client = [c \in Clients |-> "idle"]

ClientStep(c) == Locks(c) \/ Rechecks(c) \/ ClearsStaleSocket(c) \/ Spawns(c) \/ LetsGo(c)

StartStep(s) ==
    TakesStore(s) \/ StandsBack(s) \/ StartEnds(s) \/ Binds(s) \/ Listens(s) \/ Serves(s)

StopStep(s) == Stops(s) \/ Fails(s) \/ Finishes(s) \/ FinishesLate(s) \/ Dies(s)

Next ==
    \/ \E c \in Clients : ClientStep(c)
    \/ \E s \in Services : StartStep(s) \/ StopStep(s)

\* The poll comes round, and a shutdown is bounded by its deadline.
Fairness ==
    \A s \in Services :
        /\ WF_vars(PollFindsSocketLost(s))
        /\ WF_vars(Finishes(s) \/ FinishesLate(s))

Spec == Init /\ [][Next]_vars /\ Fairness

-----------------------------------------------------------------------------
(* Properties. *)

Phases == {"unborn", "waiting", "opening", "bound", "listening", "serving",
           "draining", "failing", "gone", "killed"}

\* The shape of the state.
TypeOK ==
    /\ phase \in [Services -> Phases]
    /\ bound \in [Services -> Inodes \cup {NULL}]
    /\ hold \in Services \cup {NULL}
    /\ path \in [of : Services, ino : Inodes] \cup {NULL}
    /\ client \in [Clients -> {"idle", "rechecking", "clearing", "spawning", "polling"}]

\* The services that may have the store open.
Owning == {"opening", "bound", "listening", "serving", "draining", "failing"}

\* No two services have the store open, whatever clients give up, retry or
\* start again, and however the last one ended.
OneService == \A s, t \in Services : phase[s] \in Owning /\ phase[t] \in Owning => s = t

\* A service that ended in a way it handles left no socket file: a client that
\* finds one with nobody behind it is looking at a process that was killed.
NoSocketLeftBehind == path # NULL => phase[path.of] # "gone"

\* A stop removes no socket but the stopping service's own, on every path, those
\* that unlink after the listener closed and its inode number may be reused too.
StopsSpareSuccessors ==
    [][\A s \in Services :
          (Stops(s) \/ FinishesLate(s)) /\ path # NULL /\ path' = NULL => path.of = s]_vars

\* A service nobody can connect to lets go of the store: the next start is not
\* locked out by one whose socket is lost.
LostServicesLetGo ==
    \A s \in Services :
        (phase[s] = "serving" /\ ~(path # NULL /\ path.of = s)) ~> (hold # s)

\* hook/connect.py: the recheck under the lock is there so that "a live socket
\* another client bound while this one waited is never mistaken for a stale one".
LiveSocketsStay ==
    \A s \in Services : phase[s] = "serving" => path # NULL /\ path.of = s
================================================================================
