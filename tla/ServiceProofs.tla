---------------------------- MODULE ServiceProofs ----------------------------
(***************************************************************************)
(* The services of one store, for any number of them, of clients and of    *)
(* inode numbers, down to a file system that reuses a single one.          *)
(***************************************************************************)
EXTENDS Service, TLAPS

\* From before it opens the store until after it has closed it.
OwnersHold == \A s \in Services : phase[s] \in Owning => hold = s

\* A socket file is that of the one service past its bind, or of one killed
\* since; its inode number is the one that service wrote down.
PathIsOwners ==
    path # NULL =>
        /\ phase[path.of] \in {"bound", "listening", "serving", "failing", "killed"}
        /\ path.ino = bound[path.of]
        /\ \A s \in Services :
              phase[s] \in {"bound", "listening", "serving", "draining", "failing"} => path.of = s

ServiceInv == TypeOK /\ OwnersHold /\ PathIsOwners

LEMMA InitEstablishes == Init => ServiceInv
BY DEF Init, ServiceInv, TypeOK, OwnersHold, PathIsOwners, Phases, Owning

LEMMA ClientPreserves ==
  ASSUME ServiceInv, NEW c \in Clients, ClientStep(c)
  PROVE  ServiceInv'
<1> USE NoService, NoFile DEF ServiceInv, TypeOK, OwnersHold, PathIsOwners, Phases, Owning, Move
<1>1. CASE Locks(c)
  BY <1>1 DEF Locks
<1>2. CASE Rechecks(c)
  BY <1>2 DEF Rechecks
<1>3. CASE ClearsStaleSocket(c)
  BY <1>3 DEF ClearsStaleSocket
<1>4. CASE Spawns(c)
  BY <1>4 DEF Spawns
<1>5. CASE LetsGo(c)
  BY <1>5 DEF LetsGo
<1> QED
  BY <1>1, <1>2, <1>3, <1>4, <1>5 DEF ClientStep

LEMMA StartPreserves ==
  ASSUME ServiceInv, NEW s \in Services, StartStep(s)
  PROVE  ServiceInv'
<1> USE NoService, NoFile
        DEF ServiceInv, TypeOK, OwnersHold, PathIsOwners, Phases, Owning, Becomes
<1>1. CASE TakesStore(s)
  BY <1>1 DEF TakesStore
<1>2. CASE StandsBack(s)
  BY <1>2 DEF StandsBack
<1>3. CASE StartEnds(s)
  BY <1>3 DEF StartEnds
<1>4. CASE Binds(s)
  <2> PICK i \in Inodes : /\ path' = [of |-> s, ino |-> i]
                          /\ bound' = [bound EXCEPT ![s] = i]
    BY <1>4 DEF Binds
  <2>1. \A t \in Services : phase'[t] \in Owning => t = s
    BY <1>4 DEF Binds
  <2>2. path' # NULL /\ path'.of = s /\ path'.ino = bound'[s] /\ phase'[s] = "bound"
    BY <1>4 DEF Binds
  <2>3. TypeOK'
    BY <1>4 DEF Binds
  <2>4. OwnersHold'
    BY <1>4 DEF Binds
  <2> QED BY <2>1, <2>2, <2>3, <2>4
<1>5. CASE Listens(s)
  BY <1>5 DEF Listens
<1>6. CASE Serves(s)
  BY <1>6 DEF Serves
<1> QED
  BY <1>1, <1>2, <1>3, <1>4, <1>5, <1>6 DEF StartStep

LEMMA StopPreserves ==
  ASSUME ServiceInv, NEW s \in Services, StopStep(s)
  PROVE  ServiceInv'
<1> USE NoService, NoFile
        DEF ServiceInv, TypeOK, OwnersHold, PathIsOwners, Phases, Owning, Becomes, LetsStoreGo
<1>1. CASE Stops(s)
  BY <1>1 DEF Stops, UnlinkIfStillBound, Lost
<1>2. CASE Fails(s)
  BY <1>2 DEF Fails
<1>3. CASE Finishes(s)
  BY <1>3 DEF Finishes
<1>4. CASE FinishesLate(s)
  BY <1>4 DEF FinishesLate, UnlinkIfStillBound, Lost
<1>5. CASE Dies(s)
  BY <1>5 DEF Dies
<1> QED
  BY <1>1, <1>2, <1>3, <1>4, <1>5 DEF StopStep

LEMMA StepPreserves == ServiceInv /\ [Next]_vars => ServiceInv'
<1>1. ASSUME ServiceInv, Next PROVE ServiceInv'
  BY <1>1, ClientPreserves, StartPreserves, StopPreserves DEF Next
<1>2. ASSUME ServiceInv, UNCHANGED vars PROVE ServiceInv'
  BY <1>2 DEF vars, ServiceInv, TypeOK, OwnersHold, PathIsOwners
<1> QED BY <1>1, <1>2

\* The inductive invariant: a service with the store open has its lock, and the
\* path is free, that service's, or a killed one's.
THEOREM ServiceInvHolds == Spec => []ServiceInv
BY InitEstablishes, StepPreserves, PTL DEF Spec

\* The processes, the lock and the path keep their shape.
THEOREM ServiceTypeCorrect == Spec => []TypeOK
<1>1. ServiceInv => TypeOK
  BY DEF ServiceInv
<1> QED BY <1>1, ServiceInvHolds, PTL

\* However many starts race, one service at most has the store open.
THEOREM OneServiceHolds == Spec => []OneService
<1>1. ServiceInv => OneService
  BY DEF ServiceInv, OwnersHold, OneService
<1> QED BY <1>1, ServiceInvHolds, PTL

\* Every end a service handles removes its socket file.
THEOREM HandledEndsLeaveNothing == Spec => []NoSocketLeftBehind
<1>1. ServiceInv => NoSocketLeftBehind
  BY DEF ServiceInv, PathIsOwners, NoSocketLeftBehind
<1> QED BY <1>1, ServiceInvHolds, PTL

\* No stop takes away another service's socket, although it compares inode
\* numbers only and may do so after its own is free to be given out again.
THEOREM SuccessorsAreSpared == Spec => StopsSpareSuccessors
<1> DEFINE Spared == \A s \in Services :
              (Stops(s) \/ FinishesLate(s)) /\ path # NULL /\ path' = NULL => path.of = s
<1>1. ServiceInv => Spared
  <2> SUFFICES ASSUME ServiceInv, NEW s \in Services, Stops(s) \/ FinishesLate(s), path # NULL
               PROVE  path.of = s
    OBVIOUS
  <2>1. phase[s] \in {"serving", "draining", "failing"}
    BY DEF Stops, FinishesLate
  <2> QED BY <2>1 DEF ServiceInv, PathIsOwners
<1>2. ServiceInv => [Spared]_vars
  BY <1>1
<1> QED BY ServiceInvHolds, <1>2, PTL DEF StopsSpareSuccessors
==============================================================================
