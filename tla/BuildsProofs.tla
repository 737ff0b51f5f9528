----------------------------- MODULE BuildsProofs -----------------------------
(***************************************************************************)
(* The build lock and the spawned-build table, for any number of           *)
(* processes, hosts and concurrent calls.                                  *)
(***************************************************************************)
EXTENDS Builds, TLAPS

\* No mark in hand is ahead of the corpus's.
MarksBehind ==
    /\ \A p \in Procs : procs[p].mark <= mark
    /\ \A c \in Callers : calls[c] # NULL => calls[c].mark <= mark
    /\ spawned # NULL => spawned.mark <= mark

\* The rows name whoever scans: no release, reclaim or unlock takes them away.
LockNamesScanner == \A p \in Scanning : lock = p

\* The entry's process is this service's while its handle says it runs, and is
\* before its lock while the entry's mark is current.
EntryIsOurs ==
    spawned # NULL /\ spawned.running =>
        /\ procs[spawned.proc].own
        /\ procs[spawned.proc].phase \in {"loading", "opened", "scanning", "released"}
        /\ spawned.mark = mark => procs[spawned.proc].phase \in {"loading", "opened"}

\* The entry covers every build on its way, unless the table was asked late.
EntryCovers ==
    ~stale => \A p \in OnTheirWay :
        spawned # NULL /\ spawned.proc = p /\ spawned.running /\ spawned.mark = mark

BuildsInv ==
    /\ TypeOK
    /\ MarksBehind
    /\ LockNamesScanner
    /\ RemovalsSpareBuilds
    /\ EntryIsOurs
    /\ EntryCovers

LEMMA ProcRecord ==
    ASSUME NEW phase \in Phases, NEW m \in 0 .. MaxScans, NEW own \in BOOLEAN
    PROVE  [phase |-> phase, mark |-> m, own |-> own] \in Proc
  BY DEF Proc

LEMMA InitEstablishes == Init => BuildsInv
<1> SUFFICES ASSUME Init PROVE BuildsInv
  OBVIOUS
<1>1. TypeOK
  <2>1. [phase |-> "free", mark |-> 0, own |-> FALSE] \in Proc
    BY ScansAssumption DEF Proc, Phases
  <2>2. procs \in [Procs -> Proc]
    BY <2>1 DEF Init
  <2>3. mark \in 0 .. MaxScans
    BY ScansAssumption DEF Init
  <2> QED BY <2>2, <2>3, Zenon DEF Init, TypeOK
<1>2. Scanning = {} /\ OnTheirWay = {}
  BY DEF Init, Scanning, OnTheirWay
<1>3. MarksBehind
  BY DEF Init, MarksBehind
<1> QED
  BY <1>1, <1>2, <1>3
     DEF Init, BuildsInv, LockNamesScanner, RemovalsSpareBuilds, EntryIsOurs, EntryCovers

\* A build's own steps.
LEMMA BuildPreserves ==
  ASSUME BuildsInv, NEW p \in Procs, BuildStep(p)
  PROVE  BuildsInv'
<1> USE ProcsAssumption, ScansAssumption
        DEF BuildsInv, TypeOK, Proc, Entry, Phases, MarksBehind, LockNamesScanner,
            RemovalsSpareBuilds, EntryIsOurs, EntryCovers, Scanning, OnTheirWay
<1>1. CASE StartByHand(p)
  BY <1>1 DEF StartByHand
<1>2. CASE Open(p)
  BY <1>2 DEF Open
<1>3. CASE Acquire(p)
  BY <1>3 DEF Acquire, Running, Reclaimable, Alive
<1>4. CASE Release(p)
  BY <1>4 DEF Release
<1>5. CASE Exit(p)
  <2>1. [phase |-> "free", mark |-> 0, own |-> FALSE] \in Proc
    BY ProcRecord
  <2>2. procs' \in [Procs -> Proc]
    BY <1>5, <2>1 DEF Exit
  <2>3. spawned' \in Entry \cup {NULL}
    BY <1>5 DEF Exit
  <2>4. TypeOK'
    BY <1>5, <2>2, <2>3 DEF Exit
  <2>5. MarksBehind' /\ LockNamesScanner' /\ RemovalsSpareBuilds'
    BY <1>5 DEF Exit
  <2>6. EntryIsOurs'
    BY <1>5 DEF Exit
  <2>7. EntryCovers'
    BY <1>5 DEF Exit
  <2> QED BY <2>4, <2>5, <2>6, <2>7
<1>6. CASE Stranger(p)
  BY <1>6 DEF Stranger
<1> QED
  BY <1>1, <1>2, <1>3, <1>4, <1>5, <1>6 DEF BuildStep

\* A call's steps.
LEMMA CallPreserves ==
  ASSUME BuildsInv, NEW c \in Callers, CallStep(c)
  PROVE  BuildsInv'
<1> USE ProcsAssumption, ScansAssumption
        DEF BuildsInv, TypeOK, Proc, Entry, Phases, Verbs, MarksBehind, LockNamesScanner,
            RemovalsSpareBuilds, EntryIsOurs, EntryCovers, Scanning, OnTheirWay
<1>1. CASE Refresh(c)
  BY <1>1 DEF Refresh, Registered
<1>2. CASE Spawn(c)
  <2>1. PICK p \in Procs :
          /\ HostOf[p] = Here /\ procs[p].phase = "free"
          /\ procs' = [procs EXCEPT ![p] = [phase |-> "loading", mark |-> mark, own |-> TRUE]]
          /\ spawned' = [proc |-> p, mark |-> calls[c].mark, running |-> TRUE]
    BY <1>2 DEF Spawn
  <2>2. [phase |-> "loading", mark |-> mark, own |-> TRUE] \in Proc
    BY ProcRecord
  <2>3. TypeOK'
    BY <1>2, <2>1, <2>2 DEF Spawn, AskedStale
  <2>4. MarksBehind' /\ LockNamesScanner' /\ RemovalsSpareBuilds'
    BY <1>2, <2>1 DEF Spawn
  <2>5. EntryIsOurs'
    BY <2>1
  <2>6. ASSUME ~stale' PROVE OnTheirWay = {}
    BY <1>2, <2>6 DEF Spawn, StillLoading, AskedStale
  <2>7. spawned' \in Entry
    BY <1>2, <2>1 DEF Spawn
  <2>8. EntryCovers'
    BY <1>2, <2>1, <2>6, <2>7, EntryAssumption DEF Spawn, AskedStale
  <2> QED BY <2>3, <2>4, <2>5, <2>8
<1>3. CASE SpawnFails(c)
  BY <1>3 DEF SpawnFails, StillLoading, AskedStale
<1>4. CASE Remove(c)
  BY <1>4 DEF Remove, Registered
<1>5. CASE RemoveAsks(c)
  BY <1>5 DEF RemoveAsks, StillLoading, AskedStale
<1>6. CASE RemoveChecks(c)
  BY <1>6 DEF RemoveChecks, Running, Reclaimable, Alive
<1>7. CASE RemoveDeletes(c)
  BY <1>7 DEF RemoveDeletes
<1>8. CASE RemoveUnlinks(c)
  BY <1>8 DEF RemoveUnlinks
<1>9. CASE CallEnds(c)
  BY <1>9 DEF CallEnds
<1> QED
  BY <1>1, <1>2, <1>3, <1>4, <1>5, <1>6, <1>7, <1>8, <1>9 DEF CallStep

\* The operator and the service's restart.
LEMMA OthersPreserve == BuildsInv /\ (Unlock \/ Restart) => BuildsInv'
<1> USE ProcsAssumption, ScansAssumption
        DEF BuildsInv, TypeOK, Proc, Entry, Phases, MarksBehind, LockNamesScanner,
            RemovalsSpareBuilds, EntryIsOurs, EntryCovers, Scanning, OnTheirWay
<1> SUFFICES ASSUME BuildsInv, Unlock \/ Restart PROVE BuildsInv'
  OBVIOUS
<1>1. CASE Unlock
  BY <1>1 DEF Unlock, ProvablyLive, Alive
<1>2. CASE Restart
  <2>1. ASSUME NEW p \in Procs
        PROVE  procs'[p] = [phase |-> procs[p].phase, mark |-> procs[p].mark, own |-> FALSE]
    <3>1. procs[p] \in Proc
      OBVIOUS
    <3>2. procs'[p] = [procs[p] EXCEPT !.own = FALSE]
      BY <1>2 DEF Restart
    <3> QED BY <3>1, <3>2
  <2>3. procs' \in [Procs -> Proc]
    <3>1. ASSUME NEW p \in Procs PROVE procs'[p] \in Proc
      <4>1. procs[p].phase \in Phases /\ procs[p].mark \in 0 .. MaxScans
        OBVIOUS
      <4>2. [phase |-> procs[p].phase, mark |-> procs[p].mark, own |-> FALSE] \in Proc
        BY <4>1, ProcRecord
      <4> QED BY <2>1, <4>2
    <3> QED BY <1>2, <3>1 DEF Restart
  <2>2. TypeOK'
    BY <1>2, <2>3 DEF Restart
  <2> QED
    BY <1>2, <2>1, <2>2 DEF Restart
<1> QED
  BY <1>1, <1>2

-----------------------------------------------------------------------------
LEMMA StepPreserves == BuildsInv /\ [Next]_vars => BuildsInv'
<1>1. ASSUME BuildsInv, Next PROVE BuildsInv'
  BY <1>1, BuildPreserves, CallPreserves, OthersPreserve DEF Next
<1>2. ASSUME BuildsInv, UNCHANGED vars PROVE BuildsInv'
  BY <1>2 DEF vars, BuildsInv, TypeOK, MarksBehind, LockNamesScanner, RemovalsSpareBuilds,
              EntryIsOurs, EntryCovers, Scanning, OnTheirWay
<1> QED BY <1>1, <1>2

\* The inductive invariant: the rows name the scanning build, the table's entry
\* is a build of this service, and it covers the one on its way.
THEOREM BuildsInvHolds == Spec => []BuildsInv
BY InitEstablishes, StepPreserves, PTL DEF Spec

\* The state of the builds, the table and the calls keeps its shape.
THEOREM BuildsTypeCorrect == Spec => []TypeOK
<1>1. BuildsInv => TypeOK
  BY DEF BuildsInv
<1> QED BY <1>1, BuildsInvHolds, PTL

\* However many processes and hosts there are, at most one builds the corpus.
THEOREM AtMostOneScanner == Spec => []OneScanner
<1>1. BuildsInv => OneScanner
  BY DEF BuildsInv, LockNamesScanner, OneScanner
<1> QED BY <1>1, BuildsInvHolds, PTL

\* No removal unlinks a database under a build that was running when it looked.
THEOREM RemovalsAreSafe == Spec => []RemovalsSpareBuilds
<1>1. BuildsInv => RemovalsSpareBuilds
  BY DEF BuildsInv
<1> QED BY <1>1, BuildsInvHolds, PTL

\* What the table answers of a build on its way is true of it.
THEOREM AnswersAreTrue == Spec => []AlreadyIndexingIsTrue
<1>1. BuildsInv => AlreadyIndexingIsTrue
  BY DEF BuildsInv, EntryIsOurs, StillLoading, AlreadyIndexingIsTrue
<1> QED BY <1>1, BuildsInvHolds, PTL

\* Asked at current marks, the table keeps a second spawn away from a build on
\* its way, for any number of concurrent calls.
THEOREM FreshSpawnsDoNotOverlap == Spec => []SpawnsDoNotOverlap
<1>1. BuildsInv => SpawnsDoNotOverlap
  BY DEF BuildsInv, EntryCovers, SpawnsDoNotOverlap
<1> QED BY <1>1, BuildsInvHolds, PTL
=============================================================================
