-------------------------- MODULE ConnectionsProofs --------------------------
(***************************************************************************)
(* The service's connections, for any number of requests, of readers and   *)
(* of failures: a transaction finds nothing of another's, none is left     *)
(* open, the pool loses no slot, and a request's answer is true.           *)
(***************************************************************************)
EXTENDS Connections, FiniteSetTheorems, TLAPS

-----------------------------------------------------------------------------
(* The invariant. *)

Holding == {"begin", "work", "finalize", "rollback", "closing"}
Placing == Holding \cup {"acquire", "returning"}

Placed(t) == tasks[t].pc \in Placing
Holds(t) == tasks[t].pc \in Holding

\* A reader's connection is its own; the pool's and the writer are nobody's.
Places ==
    /\ \A t \in Tasks : Placed(t) => tasks[t].conn \in DOMAIN conns
    /\ \A t \in Tasks : tasks[t].pc \in {"asleep", "woken", "returning"} => Reader(t)
    /\ \A t \in Tasks : tasks[t].pc = "reopen" => ~Reader(t)
    /\ \A t \in Tasks : Placed(t) => tasks[t].conn \notin ToSet(idle) \cup abandoned
    /\ \A t \in Tasks : Placed(t) /\ Reader(t) => tasks[t].conn # writer
    /\ \A t, u \in Tasks : Placed(t) /\ Placed(u) /\ Reader(t) /\ tasks[t].conn = tasks[u].conn
                              => t = u
    /\ writer \notin ToSet(idle) \cup abandoned
    /\ ToSet(idle) \cap abandoned = {}
    /\ IsInjective(idle)

Owners ==
    /\ \A c \in DOMAIN conns : conns[c].owner # NULL =>
          Holds(conns[c].owner) /\ tasks[conns[c].owner].conn = c
    /\ \A t \in Tasks : Holds(t) => Mine(t).owner = t

\* What a task finds on its connection.
FoundBy(t, c) ==
    /\ tasks[t].pc \in {"begin", "work", "finalize", "rollback"} => ~c.closed
    /\ tasks[t].pc \in {"work", "finalize"} => c.tx # "none" /\ c.dirty \subseteq {t}
    /\ tasks[t].pc = "closing" => c.closed
    /\ stage = "serving" /\ tasks[t].pc = "begin" => c.tx = "none"

\* Every connection is the writer, the pool's, a reader's, or shut.
Kept(c) ==
    \/ c = writer \/ c \in ToSet(idle) \/ c \in abandoned
    \/ conns[c].shut
    \/ \E t \in Tasks : Placed(t) /\ tasks[t].conn = c /\ (Reader(t) \/ tasks[t].pc = "closing")

Health ==
    /\ \A t \in Tasks : Holds(t) => FoundBy(t, Mine(t))
    /\ \A c \in DOMAIN conns :
          /\ conns[c].tx = "none" => conns[c].dirty = {}
          /\ conns[c].shut /\ stage # "down" => conns[c].closed
          /\ conns[c].closed =>
                \/ conns[c].shut
                \/ \E t \in Tasks : tasks[t].pc = "closing" /\ tasks[t].conn = c
          /\ stage = "serving" /\ conns[c].owner = NULL => conns[c].tx = "none"
          /\ stage = "down" => conns[c].shut
          /\ Kept(c)
    /\ \A c \in ToSet(idle) : ~conns[c].closed
    /\ \A t \in Tasks : tasks[t].cancelled => stage # "serving"
    /\ stage = "down" => \A t \in Tasks : tasks[t].pc \in {"new", "done"}
    /\ \A t \in Tasks : tasks[t].pc = "opening" /\ ~Reader(t) =>
          reopener = t /\ conns[writer].closed

\* What is stored of a task, what it is about to answer, and what it answered.
Fate(t) ==
    /\ tasks[t].pc # "done" => answer[t] = "none"
    /\ tasks[t].pc \notin {"done", "returning"} => stored[t] = "nothing"
    /\ tasks[t].pc = "returning" =>
          /\ tasks[t].result # "none"
          /\ tasks[t].result = "ok" => stored[t] = "change"
          /\ tasks[t].result \in {"conflict", "refused", "failed"} => stored[t] # "change"
    /\ tasks[t].pc = "done" =>
          /\ answer[t] # "none"
          /\ answer[t] = "ok" => stored[t] = "change"
          /\ answer[t] \in {"conflict", "refused", "failed"} => stored[t] # "change"
    /\ tasks[t].pc = "finalize" =>
          /\ tasks[t].cause # "none"
          /\ tasks[t].cause = "done" => t \in Mine(t).dirty /\ tasks[t].wrote = "change"
          /\ tasks[t].cause = "conflict" => tasks[t].wrote = "note"
    /\ tasks[t].pc \in {"rollback", "closing"} => tasks[t].cause \in {"busy", "error"}

Fates == \A t \in Tasks : Fate(t)

Leasing == {t \in Tasks : Leases(t)}
Opening == {t \in Tasks : Reader(t) /\ tasks[t].pc = "opening"}

Counted ==
    /\ IsFiniteSet(Leasing) /\ IsFiniteSet(Opening) /\ IsFiniteSet(abandoned)
    /\ stage # "down" =>
          opened = Len(idle) + Cardinality(Leasing) + Cardinality(Opening)
                     + Cardinality(abandoned)
    /\ \A t \in Tasks : tasks[t].pc = "asleep" => idle = <<>> /\ opened = PoolSize

ConnInv == TypeOK /\ Places /\ Owners /\ Health /\ Fates /\ Counted

-----------------------------------------------------------------------------
(* Shapes. *)

LEMMA TaskShape ==
  ASSUME TypeOK, NEW t \in Tasks
  PROVE  /\ tasks[t] \in Task
         /\ tasks[t].pc \in {"new", "reopen", "asleep", "woken", "opening", "acquire", "begin",
                             "work", "finalize", "rollback", "closing", "returning", "done"}
         /\ tasks[t].conn \in ConnIds \cup {NULL}
         /\ tasks[t].cause \in Causes
         /\ tasks[t].result \in Replies
         /\ stored[t] \in Effects
         /\ answer[t] \in Replies
BY DEF TypeOK, Task

LEMMA ConnShape ==
  ASSUME TypeOK
  PROVE  /\ Len(conns) \in Nat
         /\ DOMAIN conns = 1 .. Len(conns)
         /\ \A c \in DOMAIN conns :
               /\ conns[c] \in Conn
               /\ conns[c].tx \in {"none", "deferred", "immediate"}
               /\ conns[c].dirty \subseteq Tasks
               /\ conns[c].owner \in Tasks \cup {NULL}
<1>1. Len(conns) \in Nat /\ DOMAIN conns = 1 .. Len(conns)
  BY DEF TypeOK
<1>2. ASSUME NEW c \in DOMAIN conns PROVE conns[c] \in Conn
  BY <1>1 DEF TypeOK
<1> QED
  BY <1>1, <1>2 DEF Conn

\* A rewrite of the connections, one by one.
LEMMA ConnsRewritten ==
  ASSUME TypeOK, NEW new,
         new = [c \in DOMAIN conns |-> new[c]],
         \A c \in DOMAIN conns : new[c] \in Conn
  PROVE  new \in Seq(Conn) /\ Len(new) = Len(conns) /\ DOMAIN new = DOMAIN conns
<1>1. Len(conns) \in Nat /\ DOMAIN conns = 1 .. Len(conns)
  BY ConnShape
<1>2. new \in [1 .. Len(conns) -> Conn]
  BY <1>1
<1> QED
  BY <1>1, <1>2

LEMMA IdleShape ==
  ASSUME TypeOK
  PROVE  /\ Len(idle) \in Nat
         /\ DOMAIN idle = 1 .. Len(idle)
         /\ ToSet(idle) = {idle[i] : i \in 1 .. Len(idle)}
         /\ ToSet(idle) \subseteq DOMAIN conns
BY DEF TypeOK, ToSet

\* What _take pops from the pool's list, and what a return appends to it.
LEMMA IdleMoves ==
  ASSUME NEW S, NEW s \in Seq(S), IsInjective(s)
  PROVE  /\ s # <<>> => /\ Len(s) \in Nat \ {0}
                        /\ Last(s) \in ToSet(s) /\ Last(s) \in S
                        /\ Front(s) \in Seq(S) /\ Len(Front(s)) = Len(s) - 1
                        /\ ToSet(Front(s)) = ToSet(s) \ {Last(s)}
                        /\ IsInjective(Front(s))
         /\ \A x \in S : /\ Append(s, x) \in Seq(S) /\ Len(Append(s, x)) = Len(s) + 1
                         /\ ToSet(Append(s, x)) = ToSet(s) \cup {x}
                         /\ x \notin ToSet(s) => IsInjective(Append(s, x))
<1>1. Len(s) \in Nat /\ DOMAIN s = 1 .. Len(s) /\ \A i \in 1 .. Len(s) : s[i] \in S
  OBVIOUS
<1>2. \A i, j \in 1 .. Len(s) : s[i] = s[j] => i = j
  BY <1>1 DEF IsInjective
<1>3. ASSUME s # <<>>
      PROVE  /\ Len(s) \in Nat \ {0}
             /\ Last(s) \in ToSet(s) /\ Last(s) \in S
             /\ Front(s) \in Seq(S) /\ Len(Front(s)) = Len(s) - 1
             /\ ToSet(Front(s)) = ToSet(s) \ {Last(s)}
             /\ IsInjective(Front(s))
  <2>1. Len(s) \in Nat \ {0}
    BY <1>1, <1>3
  <2>2. Last(s) = s[Len(s)] /\ Last(s) \in S /\ Last(s) \in ToSet(s)
    BY <1>1, <2>1 DEF Last, ToSet
  <2>3. /\ Front(s) \in Seq(S) /\ Len(Front(s)) = Len(s) - 1
        /\ DOMAIN Front(s) = 1 .. (Len(s) - 1)
        /\ \A i \in 1 .. (Len(s) - 1) : Front(s)[i] = s[i]
    BY <1>1, <2>1 DEF Front
  <2>4. ToSet(Front(s)) = ToSet(s) \ {Last(s)}
    BY <1>1, <1>2, <2>1, <2>2, <2>3 DEF ToSet
  <2>5. IsInjective(Front(s))
    BY <1>2, <2>1, <2>3 DEF IsInjective
  <2> QED
    BY <2>1, <2>2, <2>3, <2>4, <2>5
<1>4. ASSUME NEW x \in S
      PROVE  /\ Append(s, x) \in Seq(S) /\ Len(Append(s, x)) = Len(s) + 1
             /\ ToSet(Append(s, x)) = ToSet(s) \cup {x}
             /\ x \notin ToSet(s) => IsInjective(Append(s, x))
  <2>1. /\ Append(s, x) \in Seq(S) /\ Len(Append(s, x)) = Len(s) + 1
        /\ DOMAIN Append(s, x) = 1 .. (Len(s) + 1)
        /\ Append(s, x)[Len(s) + 1] = x
        /\ \A i \in 1 .. Len(s) : Append(s, x)[i] = s[i]
    BY <1>1
  <2>2. ToSet(Append(s, x)) = ToSet(s) \cup {x}
    BY <1>1, <2>1 DEF ToSet
  <2>3. ASSUME x \notin ToSet(s)
        PROVE  IsInjective(Append(s, x))
    BY <1>1, <1>2, <2>1, <2>3 DEF ToSet, IsInjective
  <2> QED
    BY <2>1, <2>2, <2>3
<1> QED
  BY <1>3, <1>4

-----------------------------------------------------------------------------
(* What a step of t leaves to the others. *)

\* Another task's record stays, or it is woken.
OthersRest(t) ==
    \A u \in Tasks \ {t} :
        /\ tasks'[u].conn = tasks[u].conn
        /\ tasks'[u].cancelled = tasks[u].cancelled
        /\ tasks'[u].wrote = tasks[u].wrote
        /\ tasks'[u].cause = tasks[u].cause
        /\ tasks'[u].result = tasks[u].result
        /\ \/ tasks'[u].pc = tasks[u].pc
           \/ tasks[u].pc = "asleep" /\ tasks'[u].pc = "woken"
        /\ stored'[u] = stored[u]
        /\ answer'[u] = answer[u]

\* A connection that is not its own is touched by the mark of a commit alone.
Like(c, d) ==
    /\ d.tx = c.tx /\ d.dirty = c.dirty /\ d.owner = c.owner
    /\ d.closed = c.closed /\ d.shut = c.shut

OtherConnsRest(t) ==
    /\ DOMAIN conns' = DOMAIN conns
    /\ \A c \in DOMAIN conns : c # tasks[t].conn => Like(conns[c], conns'[c])

PoolRests == UNCHANGED <<idle, abandoned, opened>>

\* Counting who has a slot of the pool.
LEMMA Tally ==
  ASSUME NEW t \in Tasks, OthersRest(t), Counted
  PROVE  /\ IsFiniteSet(Leasing') /\ IsFiniteSet(Opening')
         /\ Cardinality(Leasing) \in Nat /\ Cardinality(Opening) \in Nat
         /\ Cardinality(Leasing') =
               IF t \in Leasing' THEN (IF t \in Leasing THEN Cardinality(Leasing)
                                                        ELSE Cardinality(Leasing) + 1)
               ELSE (IF t \in Leasing THEN Cardinality(Leasing) - 1 ELSE Cardinality(Leasing))
         /\ Cardinality(Opening') =
               IF t \in Opening' THEN (IF t \in Opening THEN Cardinality(Opening)
                                                        ELSE Cardinality(Opening) + 1)
               ELSE (IF t \in Opening THEN Cardinality(Opening) - 1 ELSE Cardinality(Opening))
         /\ t \in Leasing => Cardinality(Leasing) > 0
         /\ t \in Opening => Cardinality(Opening) > 0
<1>1. /\ t \in Leasing' => Leasing' = Leasing \cup {t}
      /\ t \notin Leasing' => Leasing' = Leasing \ {t}
      /\ t \in Opening' => Opening' = Opening \cup {t}
      /\ t \notin Opening' => Opening' = Opening \ {t}
  BY DEF OthersRest, Leasing, Opening, Leases, Reader
<1>2. IsFiniteSet(Leasing) /\ IsFiniteSet(Opening)
  BY DEF Counted
<1>3. ASSUME NEW S, NEW T, IsFiniteSet(S), t \in T => T = S \cup {t}, t \notin T => T = S \ {t}
      PROVE  /\ IsFiniteSet(T) /\ Cardinality(S) \in Nat
             /\ Cardinality(T) =
                  IF t \in T THEN (IF t \in S THEN Cardinality(S) ELSE Cardinality(S) + 1)
                  ELSE (IF t \in S THEN Cardinality(S) - 1 ELSE Cardinality(S))
             /\ t \in S => Cardinality(S) > 0
  <2>1. Cardinality(S) \in Nat
    BY <1>3, FS_CardinalityType
  <2>2. t \in S => Cardinality(S) > 0
    BY <1>3, <2>1, FS_EmptySet
  <2>3. CASE t \in T
    BY <1>3, <2>1, <2>2, <2>3, FS_AddElement
  <2>4. CASE t \notin T
    BY <1>3, <2>1, <2>2, <2>4, FS_RemoveElement
  <2> QED
    BY <2>1, <2>2, <2>3, <2>4
<1> QED
  BY <1>1, <1>2, <1>3

-----------------------------------------------------------------------------
(* A task that goes on with its connection, or begins to hold it. *)

Advances(t) ==
    /\ Placed(t) /\ tasks[t].pc \notin {"returning", "closing"}
    /\ tasks'[t].pc \in Holding
    /\ tasks'[t].conn = tasks[t].conn
    /\ tasks'[t].cancelled => tasks[t].cancelled
    /\ OthersRest(t) /\ OtherConnsRest(t) /\ PoolRests
    /\ UNCHANGED <<writer, reopener, stage>>
    /\ tasks[t].pc = "acquire" => Mine(t).owner = NULL /\ ~Mine(t).closed
    /\ LET c == tasks[t].conn IN
       /\ conns'[c].owner = t
       /\ conns'[c].shut = conns[c].shut
       /\ conns'[c].closed => conns[c].closed \/ tasks'[t].pc = "closing"
       /\ conns'[c].tx = "none" => conns'[c].dirty = {}
    /\ (FoundBy(t, Mine(t)))'
    /\ Fate(t)'

LEMMA AdvanceKeepsInv ==
  ASSUME ConnInv, TypeOK', NEW t \in Tasks, Advances(t)
  PROVE  ConnInv'
<1> DEFINE c == tasks[t].conn
<1>0. /\ TypeOK /\ Places /\ Owners /\ Health /\ Fates /\ Counted
      /\ c \in DOMAIN conns /\ DOMAIN conns' = DOMAIN conns
      /\ OthersRest(t)
  BY DEF ConnInv, Advances, Places, OtherConnsRest
<1>1. \A u \in Tasks : Placed(u)' <=> Placed(u)
  BY <1>0 DEF Advances, OthersRest, Placed, Placing, Holding
<1>2. \A u \in Tasks : tasks'[u].conn = tasks[u].conn
  BY <1>0 DEF Advances, OthersRest
<1>3. \A u \in Tasks \ {t} : Holds(u)' <=> Holds(u)
  BY <1>0 DEF OthersRest, Holds, Holding
<1>4. \A u \in Tasks \ {t} : Holds(u) => tasks[u].conn # c
  BY <1>0, TasksAssumption DEF Owners, Advances, Holds, Placed, Placing, Holding, Mine
<1>5. Places'
  <2>1. UNCHANGED <<idle, abandoned, writer>>
    BY DEF Advances, PoolRests
  <2>2. \A u \in Tasks :
           /\ tasks'[u].pc \in {"asleep", "woken", "returning"} => Reader(u)
           /\ tasks'[u].pc = "reopen" => ~Reader(u)
    BY <1>0 DEF Places, OthersRest, Advances, Holding
  <2> QED
    BY <1>0, <1>1, <1>2, <2>1, <2>2 DEF Places, Reader
<1>6. Owners'
  <2>2. ASSUME NEW d \in DOMAIN conns, conns'[d].owner # NULL
        PROVE  tasks'[conns'[d].owner].pc \in Holding /\ tasks'[conns'[d].owner].conn = d
    <3>1. CASE d = c
      BY <1>2, <3>1 DEF Advances
    <3>2. CASE d # c
      <4>1. conns'[d].owner = conns[d].owner
        BY <3>2 DEF Advances, OtherConnsRest, Like
      <4>2. conns[d].owner \in Tasks /\ Holds(conns[d].owner) /\ tasks[conns[d].owner].conn = d
        BY <1>0, <2>2, <4>1, ConnShape DEF Owners
      <4>3. PICK o \in Tasks : o = conns[d].owner
        BY <4>2
      <4>4. o # t
        BY <3>2, <4>2, <4>3
      <4>5. Holds(o)' /\ tasks'[o].conn = d
        BY <1>2, <1>3, <4>2, <4>3, <4>4
      <4> QED
        BY <4>1, <4>3, <4>5 DEF Holds
    <3> QED
      BY <3>1, <3>2
  <2>3. ASSUME NEW u \in Tasks, Holds(u)'
        PROVE  conns'[tasks'[u].conn].owner = u
    <3>1. CASE u = t
      BY <1>2, <3>1 DEF Advances
    <3>2. CASE u # t
      <4>1. Holds(u) /\ tasks[u].conn # c /\ tasks[u].conn \in DOMAIN conns
        BY <1>0, <1>3, <1>4, <2>3, <3>2 DEF Places, Placed, Placing, Holds
      <4> QED
        BY <1>0, <1>2, <4>1 DEF Owners, Mine, Advances, OtherConnsRest, Like
    <3> QED
      BY <3>1, <3>2
  <2> QED
    BY <1>0, <2>2, <2>3 DEF Owners, Mine, Holds
<1>7. Health'
  <2>1. ASSUME NEW u \in Tasks, Holds(u)'
        PROVE  FoundBy(u, Mine(u))'
    <3>1. CASE u = t
      BY <3>1 DEF Advances
    <3>2. CASE u # t
      <4>1. Holds(u) /\ tasks[u].conn # c /\ tasks[u].conn \in DOMAIN conns
        BY <1>0, <1>3, <1>4, <2>1, <3>2 DEF Places, Placed, Placing, Holds
      <4>2. FoundBy(u, Mine(u)) /\ Like(Mine(u), conns'[tasks'[u].conn])
        BY <1>0, <1>2, <4>1 DEF Health, Advances, OtherConnsRest, Mine
      <4>3. tasks'[u].pc = tasks[u].pc
        BY <1>0, <3>2, <4>1 DEF OthersRest, Holds, Holding
      <4> QED
        BY <4>2, <4>3 DEF FoundBy, Like, Mine, Advances
    <3> QED
      BY <3>1, <3>2
  <2>2. ~conns[c].closed
    BY <1>0 DEF Health, FoundBy, Advances, Holds, Holding, Placed, Placing, Mine
  <2>3. stage' = stage /\ writer' = writer /\ idle' = idle /\ abandoned' = abandoned
    BY DEF Advances, PoolRests
  <2>4. stage # "down"
    BY <1>0 DEF Health, Advances, Placed, Placing, Holding
  <2>5. ASSUME NEW d \in DOMAIN conns
        PROVE  /\ conns'[d].tx = "none" => conns'[d].dirty = {}
               /\ conns'[d].shut => conns'[d].closed
               /\ conns'[d].closed =>
                     \/ conns'[d].shut
                     \/ \E u \in Tasks : tasks'[u].pc = "closing" /\ tasks'[u].conn = d
               /\ stage = "serving" /\ conns'[d].owner = NULL => conns'[d].tx = "none"
               /\ Kept(d)'
    <3>1. CASE d = c
      <4>1. t # NULL
        BY TasksAssumption
      <4>2. ~conns[c].shut
        BY <1>0, <2>2, <2>4 DEF Health
      <4>3. Kept(c)'
        <5>1. Kept(c)
          BY <1>0 DEF Health
        <5>2. \A u \in Tasks : tasks[u].pc = "closing" => tasks[u].conn # c
          BY <1>0, <2>2 DEF Health, FoundBy, Holds, Holding, Mine
        <5> QED
          BY <1>0, <1>1, <1>2, <2>3, <4>2, <5>1, <5>2 DEF Kept, Reader
      <4> QED
        BY <1>0, <1>2, <2>2, <3>1, <4>1, <4>2, <4>3 DEF Advances
    <3>2. CASE d # c
      <4>1. Like(conns[d], conns'[d])
        BY <3>2 DEF Advances, OtherConnsRest
      <4>2. \A u \in Tasks : tasks[u].pc = "closing" => tasks'[u].pc = "closing"
        BY <1>0 DEF OthersRest, Advances
      <4>3. Kept(d)'
        <5>1. Kept(d)
          BY <1>0 DEF Health
        <5> QED
          BY <1>0, <1>1, <1>2, <2>3, <4>1, <4>2, <5>1 DEF Kept, Like, Reader
      <4>4. /\ conns[d].tx = "none" => conns[d].dirty = {}
            /\ conns[d].shut => conns[d].closed
            /\ conns[d].closed =>
                     \/ conns[d].shut
                     \/ \E u \in Tasks : tasks[u].pc = "closing" /\ tasks[u].conn = d
            /\ stage = "serving" /\ conns[d].owner = NULL => conns[d].tx = "none"
        BY <1>0, <2>4 DEF Health
      <4> QED
        BY <1>2, <4>1, <4>2, <4>3, <4>4 DEF Like
    <3> QED
      BY <3>1, <3>2
  <2>6. ASSUME NEW d \in ToSet(idle')
        PROVE  ~conns'[d].closed
    <3>1. d \in ToSet(idle) /\ d # c /\ d \in DOMAIN conns /\ ~conns[d].closed
      BY <1>0, <2>3, <2>6, IdleShape DEF Health, Places, Advances
    <3> QED
      BY <3>1 DEF Advances, OtherConnsRest, Like
  <2>7. \A u \in Tasks : tasks'[u].cancelled => stage # "serving"
    BY <1>0 DEF Health, Advances, OthersRest
  <2>8. ASSUME NEW u \in Tasks, tasks'[u].pc = "opening", ~Reader(u)
        PROVE  reopener' = u /\ conns'[writer].closed
    <3>1. u # t /\ tasks[u].pc = "opening"
      BY <1>0, <2>8 DEF Advances, OthersRest, Holding
    <3>2. reopener = u /\ conns[writer].closed /\ writer \in DOMAIN conns
      BY <1>0, <2>8, <3>1 DEF Health, TypeOK
    <3>3. writer # c
      BY <2>2, <3>2
    <3> QED
      BY <3>2, <3>3 DEF Advances, OtherConnsRest, Like
  <2> QED
    BY <1>0, <2>1, <2>3, <2>4, <2>5, <2>6, <2>7, <2>8 DEF Health, Reader
<1>8. Fates'
  <2>1. ASSUME NEW u \in Tasks, u # t
        PROVE  Fate(u)'
    <3>1. /\ Fate(u) /\ tasks'[u].result = tasks[u].result /\ tasks'[u].cause = tasks[u].cause
          /\ tasks'[u].wrote = tasks[u].wrote /\ stored'[u] = stored[u] /\ answer'[u] = answer[u]
          /\ \/ tasks'[u].pc = tasks[u].pc
             \/ tasks[u].pc = "asleep" /\ tasks'[u].pc = "woken"
      BY <1>0, <2>1 DEF Fates, OthersRest
    <3>2. tasks[u].pc = "finalize" => Mine(u).dirty = conns'[tasks'[u].conn].dirty
      <4>1. SUFFICES ASSUME tasks[u].pc = "finalize"
                     PROVE  Mine(u).dirty = conns'[tasks'[u].conn].dirty
        OBVIOUS
      <4>2. Holds(u) /\ tasks[u].conn # c /\ tasks[u].conn \in DOMAIN conns
        BY <1>0, <1>4, <2>1, <4>1 DEF Places, Placed, Placing, Holds, Holding
      <4> QED
        BY <1>2, <4>2 DEF Advances, OtherConnsRest, Like, Mine
    <3> QED
      BY <3>1, <3>2 DEF Fate, Mine
  <2> QED
    BY <2>1 DEF Fates, Advances
<1>9. Counted'
  <2>1. t \in Leasing <=> t \in Leasing'
    BY <1>1 DEF Leasing, Leases, Placed, Placing, Holding, Reader
  <2>2. t \notin Opening /\ t \notin Opening'
    BY DEF Opening, Advances, Placed, Placing, Holding
  <2>3. \A u \in Tasks : tasks'[u].pc = "asleep" => tasks[u].pc = "asleep"
    BY <1>0 DEF Advances, OthersRest, Holding
  <2>4. UNCHANGED <<idle, abandoned, opened, stage>>
    BY DEF Advances, PoolRests
  <2> QED
    BY <1>0, <2>1, <2>2, <2>3, <2>4, Tally DEF Counted
<1> QED
  BY <1>5, <1>6, <1>7, <1>8, <1>9 DEF ConnInv

-----------------------------------------------------------------------------
(* A task that is done with its connection: a reader keeps its lease. *)

Settles(t) ==
    /\ Placed(t) /\ tasks[t].pc # "returning"
    /\ IF Reader(t) THEN /\ tasks'[t].pc \in {"acquire", "returning"}
                         /\ tasks'[t].conn = tasks[t].conn
                    ELSE tasks'[t].pc = "done"
    /\ tasks'[t].cancelled => tasks[t].cancelled
    /\ OthersRest(t) /\ OtherConnsRest(t) /\ PoolRests
    /\ UNCHANGED <<writer, stage>>
    /\ \A u \in Tasks \ {t} : reopener = u => reopener' = u
    /\ LET c == tasks[t].conn IN
       /\ tasks[t].pc = "acquire" => Like(conns[c], conns'[c])
       /\ tasks[t].pc # "acquire" =>
             /\ conns'[c].owner = NULL
             /\ conns'[c].closed = conns[c].closed
             /\ conns'[c].shut <=> conns[c].shut \/ tasks[t].pc = "closing"
             /\ conns'[c].tx = "none" => conns'[c].dirty = {}
             /\ stage = "serving" => conns'[c].tx = "none"
    /\ Fate(t)'

LEMMA SettleKeepsInv ==
  ASSUME ConnInv, TypeOK', NEW t \in Tasks, Settles(t)
  PROVE  ConnInv'
<1> DEFINE c == tasks[t].conn
<1>0. /\ TypeOK /\ Places /\ Owners /\ Health /\ Fates /\ Counted
      /\ c \in DOMAIN conns /\ DOMAIN conns' = DOMAIN conns
      /\ OthersRest(t)
      /\ UNCHANGED <<writer, stage, idle, abandoned, opened>>
  BY DEF ConnInv, Settles, Places, OtherConnsRest, PoolRests
<1>1. \A u \in Tasks : Placed(u)' => Placed(u) /\ tasks'[u].conn = tasks[u].conn
  BY <1>0 DEF Settles, OthersRest, Placed, Placing, Holding
<1>2. \A u \in Tasks \ {t} :
         /\ Holds(u)' <=> Holds(u)
         /\ Placed(u)' <=> Placed(u)
         /\ tasks'[u].conn = tasks[u].conn
  BY <1>0 DEF OthersRest, Holds, Holding, Placed, Placing
<1>3. ~Holds(t)'
  BY DEF Settles, Holds, Holding
<1>4. tasks[t].pc # "acquire" => Holds(t) /\ \A u \in Tasks \ {t} : Holds(u) => tasks[u].conn # c
  BY <1>0 DEF Owners, Settles, Holds, Placed, Placing, Mine
<1>5. \A u \in Tasks \ {t} : Holds(u) => Like(conns[tasks[u].conn], conns'[tasks[u].conn])
  <2>1. SUFFICES ASSUME NEW u \in Tasks \ {t}, Holds(u)
                 PROVE  Like(conns[tasks[u].conn], conns'[tasks[u].conn])
    OBVIOUS
  <2>2. tasks[u].conn \in DOMAIN conns
    BY <1>0, <2>1 DEF Places, Placed, Placing, Holds
  <2> QED
    BY <1>4, <2>1, <2>2 DEF Settles, OtherConnsRest
<1>6. Places'
  <2>1. \A u \in Tasks :
           /\ tasks'[u].pc \in {"asleep", "woken", "returning"} => Reader(u)
           /\ tasks'[u].pc = "reopen" => ~Reader(u)
    BY <1>0 DEF Places, OthersRest, Settles
  <2> QED
    BY <1>0, <1>1, <2>1 DEF Places, Reader
<1>7. Owners'
  <2>1. ASSUME NEW d \in DOMAIN conns, conns'[d].owner # NULL
        PROVE  tasks'[conns'[d].owner].pc \in Holding /\ tasks'[conns'[d].owner].conn = d
    <3>1. conns'[d].owner = conns[d].owner /\ (d = c => tasks[t].pc = "acquire")
      BY <2>1 DEF Settles, OtherConnsRest, Like
    <3>2. PICK o \in Tasks : o = conns[d].owner /\ Holds(o) /\ tasks[o].conn = d
      BY <1>0, <2>1, <3>1, ConnShape DEF Owners
    <3>3. o # t
      BY <3>1, <3>2 DEF Holds, Holding
    <3> QED
      BY <1>2, <3>1, <3>2, <3>3 DEF Holds
  <2>2. ASSUME NEW u \in Tasks, Holds(u)'
        PROVE  conns'[tasks'[u].conn].owner = u
    BY <1>0, <1>2, <1>3, <1>5, <2>2 DEF Owners, Mine, Like
  <2> QED
    BY <1>0, <2>1, <2>2 DEF Owners, Mine, Holds
<1>8. Health'
  <2>1. ASSUME NEW u \in Tasks, Holds(u)'
        PROVE  FoundBy(u, Mine(u))'
    <3>1. u # t /\ Holds(u)
      BY <1>2, <1>3, <2>1
    <3>2. FoundBy(u, Mine(u)) /\ Like(Mine(u), conns'[tasks'[u].conn])
      BY <1>0, <1>2, <1>5, <3>1 DEF Health, Mine
    <3>3. tasks'[u].pc = tasks[u].pc
      BY <1>0, <3>1 DEF OthersRest, Holds, Holding
    <3> QED
      BY <1>0, <3>2, <3>3 DEF FoundBy, Like, Mine
  <2>2. stage # "down"
    BY <1>0 DEF Health, Settles, Placed, Placing, Holding
  <2>3. ASSUME NEW d \in DOMAIN conns
        PROVE  /\ conns'[d].tx = "none" => conns'[d].dirty = {}
               /\ conns'[d].shut => conns'[d].closed
               /\ conns'[d].closed =>
                     \/ conns'[d].shut
                     \/ \E u \in Tasks : tasks'[u].pc = "closing" /\ tasks'[u].conn = d
               /\ stage = "serving" /\ conns'[d].owner = NULL => conns'[d].tx = "none"
               /\ Kept(d)'
    <3>1. /\ conns[d].tx = "none" => conns[d].dirty = {}
          /\ conns[d].shut => conns[d].closed
          /\ conns[d].closed =>
                   \/ conns[d].shut
                   \/ \E u \in Tasks : tasks[u].pc = "closing" /\ tasks[u].conn = d
          /\ stage = "serving" /\ conns[d].owner = NULL => conns[d].tx = "none"
          /\ Kept(d)
      BY <1>0, <2>2 DEF Health
    <3>2. \A u \in Tasks \ {t} : tasks[u].pc = "closing" =>
             tasks'[u].pc = "closing" /\ tasks'[u].conn = tasks[u].conn
      BY <1>0 DEF OthersRest
    <3>3. CASE d = c /\ tasks[t].pc # "acquire"
      <4>1. /\ conns'[d].closed => conns'[d].shut
            /\ conns'[d].shut => conns'[d].closed
        <5>1. CASE tasks[t].pc = "closing"
          BY <1>0, <1>4, <3>3, <5>1 DEF Settles, Health, FoundBy, Mine
        <5>2. CASE tasks[t].pc # "closing"
          <6>1. ~conns[c].closed
            BY <1>0, <1>4, <3>3, <5>2
               DEF Settles, Health, FoundBy, Mine, Holds, Holding, Placed, Placing
          <6> QED
            BY <3>1, <3>3, <5>2, <6>1 DEF Settles
        <5> QED
          BY <5>1, <5>2
      <4>2. Kept(d)'
        <5>1. CASE Reader(t)
          <6>1. Placed(t)' /\ tasks'[t].conn = d
            BY <3>3, <5>1 DEF Settles, Placed, Placing
          <6> QED
            BY <5>1, <6>1 DEF Kept, Reader
        <5>2. CASE ~Reader(t)
          <6>1. \/ d = writer \/ d \in ToSet(idle) \/ d \in abandoned
                \/ conns[d].shut
                \/ tasks[t].pc = "closing"
                \/ \E u \in Tasks \ {t} : Placed(u) /\ tasks[u].conn = d
                                         /\ (Reader(u) \/ tasks[u].pc = "closing")
            BY <3>1, <5>2 DEF Kept
          <6>2. conns[d].shut \/ tasks[t].pc = "closing" => conns'[d].shut
            BY <3>3 DEF Settles
          <6> QED
            BY <1>0, <1>2, <3>2, <6>1, <6>2 DEF Kept, Reader
        <5> QED
          BY <5>1, <5>2
      <4> QED
        BY <3>3, <4>1, <4>2 DEF Settles
    <3>4. CASE ~(d = c /\ tasks[t].pc # "acquire")
      <4>1. Like(conns[d], conns'[d])
        BY <3>4 DEF Settles, OtherConnsRest
      <4>2. tasks[t].pc = "closing" => tasks[t].conn # d
        BY <3>4
      <4>3. Kept(d)'
        <5>1. Placed(t) /\ Reader(t) /\ tasks[t].conn = d =>
                 Placed(t)' /\ tasks'[t].conn = d
          BY DEF Settles, Placed, Placing
        <5>2. \A u \in Tasks : Placed(u) /\ tasks[u].conn = d
                               /\ (Reader(u) \/ tasks[u].pc = "closing") =>
                 Placed(u)' /\ tasks'[u].conn = d /\ (Reader(u) \/ tasks'[u].pc = "closing")
          BY <1>2, <3>2, <4>2, <5>1
        <5> QED
          BY <1>0, <3>1, <4>1, <5>2 DEF Kept, Like, Reader
      <4>4. conns[d].closed => \/ conns[d].shut
                               \/ \E u \in Tasks : tasks'[u].pc = "closing" /\ tasks'[u].conn = d
        BY <3>1, <3>2, <4>2
      <4> QED
        BY <3>1, <4>1, <4>3, <4>4 DEF Like
    <3> QED
      BY <3>3, <3>4
  <2>4. ASSUME NEW d \in ToSet(idle')
        PROVE  ~conns'[d].closed
    <3>1. d \in ToSet(idle) /\ d # c /\ d \in DOMAIN conns /\ ~conns[d].closed
      BY <1>0, <2>4, IdleShape DEF Health, Places, Settles
    <3> QED
      BY <3>1 DEF Settles, OtherConnsRest, Like
  <2>5. \A u \in Tasks : tasks'[u].cancelled => stage # "serving"
    BY <1>0 DEF Health, Settles, OthersRest
  <2>6. ASSUME NEW u \in Tasks, tasks'[u].pc = "opening", ~Reader(u)
        PROVE  reopener' = u /\ conns'[writer].closed
    <3>1. u # t /\ tasks[u].pc = "opening"
      BY <1>0, <2>6 DEF Settles, OthersRest
    <3>2. reopener = u /\ conns[writer].closed /\ writer \in DOMAIN conns
      BY <1>0, <2>6, <3>1 DEF Health, TypeOK
    <3> QED
      BY <3>1, <3>2 DEF Settles, OtherConnsRest, Like
  <2> QED
    BY <1>0, <2>1, <2>2, <2>3, <2>4, <2>5, <2>6 DEF Health, Reader
<1>9. Fates'
  <2>1. ASSUME NEW u \in Tasks, u # t
        PROVE  Fate(u)'
    <3>1. /\ Fate(u) /\ tasks'[u].result = tasks[u].result /\ tasks'[u].cause = tasks[u].cause
          /\ tasks'[u].wrote = tasks[u].wrote /\ stored'[u] = stored[u] /\ answer'[u] = answer[u]
          /\ \/ tasks'[u].pc = tasks[u].pc
             \/ tasks[u].pc = "asleep" /\ tasks'[u].pc = "woken"
      BY <1>0, <2>1 DEF Fates, OthersRest
    <3>2. tasks[u].pc = "finalize" => Mine(u).dirty = conns'[tasks'[u].conn].dirty
      BY <1>2, <1>5, <2>1 DEF Like, Mine, Holds, Holding
    <3> QED
      BY <3>1, <3>2 DEF Fate, Mine
  <2> QED
    BY <2>1 DEF Fates, Settles
<1>10. Counted'
  <2>1. t \in Leasing <=> t \in Leasing'
    BY DEF Leasing, Leases, Settles, Placed, Placing, Holding, Reader
  <2>2. t \notin Opening /\ t \notin Opening'
    BY DEF Opening, Settles, Placed, Placing, Holding
  <2>3. \A u \in Tasks : tasks'[u].pc = "asleep" => tasks[u].pc = "asleep"
    BY <1>0 DEF Settles, OthersRest
  <2> QED
    BY <1>0, <2>1, <2>2, <2>3, Tally DEF Counted
<1> QED
  BY <1>6, <1>7, <1>8, <1>9, <1>10 DEF ConnInv

-----------------------------------------------------------------------------
(* A task without a connection. *)

Waits(t) ==
    /\ ~Placed(t) /\ ~Placed(t)'
    /\ tasks'[t].pc \in {"asleep", "woken"} => Reader(t)
    /\ tasks'[t].pc = "reopen" => ~Reader(t)
    /\ tasks'[t].cancelled => tasks[t].cancelled
    /\ OthersRest(t)
    /\ stage # "down" /\ UNCHANGED <<conns, writer, idle, abandoned, stage>>
    /\ tasks'[t].pc = "opening" /\ ~Reader(t) => reopener' = t /\ conns[writer].closed
    /\ \A u \in Tasks \ {t} : reopener = u => reopener' = u
    /\ opened' = IF t \in Opening' THEN (IF t \in Opening THEN opened ELSE opened + 1)
                                   ELSE (IF t \in Opening THEN opened - 1 ELSE opened)
    /\ \A u \in Tasks : tasks'[u].pc = "asleep" => idle = <<>> /\ opened' = PoolSize
    /\ Fate(t)'

\* What becomes of the others where no connection is rewritten.
LEMMA OthersKeepFate ==
  ASSUME ConnInv, NEW t \in Tasks, OthersRest(t), DOMAIN conns \subseteq DOMAIN conns',
         \A c \in DOMAIN conns : Like(conns[c], conns'[c]) \/ conns[c].owner = NULL
  PROVE  \A u \in Tasks \ {t} : Fate(u)'
<1> SUFFICES ASSUME NEW u \in Tasks \ {t}
             PROVE  Fate(u)'
  OBVIOUS
<1>1. /\ Fate(u) /\ tasks'[u].result = tasks[u].result /\ tasks'[u].cause = tasks[u].cause
      /\ tasks'[u].wrote = tasks[u].wrote /\ stored'[u] = stored[u] /\ answer'[u] = answer[u]
      /\ tasks'[u].conn = tasks[u].conn
      /\ \/ tasks'[u].pc = tasks[u].pc
         \/ tasks[u].pc = "asleep" /\ tasks'[u].pc = "woken"
  BY DEF ConnInv, Fates, OthersRest
<1>2. tasks[u].pc = "finalize" => Mine(u).dirty = conns'[tasks'[u].conn].dirty
  <2>1. SUFFICES ASSUME tasks[u].pc = "finalize"
                 PROVE  Mine(u).dirty = conns'[tasks'[u].conn].dirty
    OBVIOUS
  <2>2. Mine(u).owner = u /\ tasks[u].conn \in DOMAIN conns
    BY <2>1 DEF ConnInv, Owners, Places, Holds, Placed, Placing, Holding
  <2> QED
    BY <1>1, <2>2, TasksAssumption DEF Like, Mine
<1> QED
  BY <1>1, <1>2 DEF Fate, Mine

LEMMA WaitKeepsInv ==
  ASSUME ConnInv, TypeOK', NEW t \in Tasks, Waits(t)
  PROVE  ConnInv'
<1>0. /\ TypeOK /\ Places /\ Owners /\ Health /\ Fates /\ Counted
      /\ OthersRest(t)
      /\ stage # "down" /\ UNCHANGED <<conns, writer, stage, idle, abandoned>>
  BY DEF ConnInv, Waits
<1>1. \A u \in Tasks : /\ Placed(u)' <=> Placed(u)
                       /\ Holds(u)' <=> Holds(u)
                       /\ Placed(u) => tasks'[u].conn = tasks[u].conn /\ tasks'[u].pc = tasks[u].pc
                       /\ tasks'[u].pc = "closing" <=> tasks[u].pc = "closing"
  BY <1>0 DEF Waits, OthersRest, Placed, Placing, Holds, Holding
<1>2. Places'
  <2>1. \A u \in Tasks :
           /\ tasks'[u].pc \in {"asleep", "woken", "returning"} => Reader(u)
           /\ tasks'[u].pc = "reopen" => ~Reader(u)
    BY <1>0 DEF Places, OthersRest, Waits, Placed, Placing
  <2> QED
    BY <1>0, <1>1, <2>1 DEF Places, Reader
<1>3. Owners'
  <2>1. ASSUME NEW d \in DOMAIN conns, conns[d].owner # NULL
        PROVE  tasks'[conns[d].owner].pc \in Holding /\ tasks'[conns[d].owner].conn = d
    <3>1. PICK o \in Tasks : o = conns[d].owner /\ Holds(o) /\ tasks[o].conn = d
      BY <1>0, <2>1, ConnShape DEF Owners
    <3> QED
      BY <1>1, <3>1 DEF Holds, Placed, Placing
  <2>2. ASSUME NEW u \in Tasks, Holds(u)'
        PROVE  conns[tasks'[u].conn].owner = u
    BY <1>0, <1>1, <2>2 DEF Owners, Mine, Holds, Placed, Placing
  <2> QED
    BY <1>0, <2>1, <2>2 DEF Owners, Mine, Holds
<1>4. Health'
  <2>1. ASSUME NEW u \in Tasks, Holds(u)'
        PROVE  FoundBy(u, Mine(u))'
    <3>1. Holds(u) /\ tasks'[u].pc = tasks[u].pc /\ tasks'[u].conn = tasks[u].conn
      BY <1>1, <2>1 DEF Holds, Placed, Placing
    <3> QED
      BY <1>0, <3>1 DEF Health, FoundBy, Mine
  <2>2. ASSUME NEW d \in DOMAIN conns
        PROVE  /\ conns[d].tx = "none" => conns[d].dirty = {}
               /\ conns[d].shut => conns[d].closed
               /\ conns[d].closed =>
                     \/ conns[d].shut
                     \/ \E u \in Tasks : tasks'[u].pc = "closing" /\ tasks'[u].conn = d
               /\ stage = "serving" /\ conns[d].owner = NULL => conns[d].tx = "none"
               /\ Kept(d)'
    <3>1. /\ conns[d].tx = "none" => conns[d].dirty = {}
          /\ conns[d].shut => conns[d].closed
          /\ conns[d].closed =>
                   \/ conns[d].shut
                   \/ \E u \in Tasks : tasks[u].pc = "closing" /\ tasks[u].conn = d
          /\ stage = "serving" /\ conns[d].owner = NULL => conns[d].tx = "none"
          /\ Kept(d)
      BY <1>0 DEF Health
    <3>2. Kept(d)'
      BY <1>0, <1>1, <3>1 DEF Kept, Reader
    <3> QED
      BY <1>1, <3>1, <3>2 DEF Placed, Placing, Holding
  <2>3. ASSUME NEW u \in Tasks, tasks'[u].pc = "opening", ~Reader(u)
        PROVE  reopener' = u /\ conns[writer].closed
    BY <1>0, <2>3 DEF Health, Waits, OthersRest
  <2>4. \A u \in Tasks : tasks'[u].cancelled => stage # "serving"
    BY <1>0 DEF Health, Waits, OthersRest
  <2> QED
    BY <1>0, <2>1, <2>2, <2>3, <2>4 DEF Health, Reader
<1>5. Fates'
  BY <1>0, OthersKeepFate DEF Fates, Waits, Like
<1>6. Counted'
  <2>1. t \notin Leasing /\ t \notin Leasing'
    BY DEF Leasing, Leases, Waits, Placed, Placing, Holding
  <2>2. opened \in Nat /\ Len(idle) \in Nat /\ Cardinality(abandoned) \in Nat
    BY <1>0, IdleShape, SizesAssumption, FS_CardinalityType DEF TypeOK, Counted
  <2> QED
    BY <1>0, <2>1, <2>2, Tally DEF Counted, Waits
<1> QED
  BY <1>2, <1>3, <1>4, <1>5, <1>6 DEF ConnInv

-----------------------------------------------------------------------------
(* A task that is given a connection. *)

\* A writer takes the writer, a reader the pool's last.
Joins(t) ==
    /\ ~Placed(t) /\ t \notin Opening
    /\ tasks'[t].pc = "acquire"
    /\ tasks'[t].cancelled => tasks[t].cancelled
    /\ OthersRest(t)
    /\ stage # "down" /\ UNCHANGED <<conns, writer, reopener, abandoned, opened, stage>>
    /\ IF Reader(t) THEN /\ idle # <<>>
                         /\ tasks'[t].conn = Last(idle)
                         /\ idle' = Front(idle)
                    ELSE /\ tasks'[t].conn = writer
                         /\ idle' = idle
    /\ Fate(t)'

LEMMA JoinKeepsInv ==
  ASSUME ConnInv, TypeOK', NEW t \in Tasks, Joins(t)
  PROVE  ConnInv'
<1> DEFINE c == tasks'[t].conn
<1>0. /\ TypeOK /\ Places /\ Owners /\ Health /\ Fates /\ Counted
      /\ OthersRest(t)
      /\ stage # "down" /\ UNCHANGED <<conns, writer, reopener, stage, abandoned, opened>>
  BY DEF ConnInv, Joins
<1>1. \A u \in Tasks \ {t} :
         /\ Placed(u)' <=> Placed(u)
         /\ Holds(u)' <=> Holds(u)
         /\ tasks'[u].conn = tasks[u].conn
         /\ Placed(u) => tasks'[u].pc = tasks[u].pc
         /\ tasks'[u].pc = "closing" <=> tasks[u].pc = "closing"
  BY <1>0 DEF OthersRest, Placed, Placing, Holds, Holding
<1>2. ~Holds(t) /\ ~Holds(t)' /\ Placed(t)'
  BY DEF Joins, Placed, Placing, Holds, Holding
<1>3. /\ c \in DOMAIN conns
      /\ ToSet(idle') \subseteq ToSet(idle)
      /\ ToSet(idle) \subseteq ToSet(idle') \cup {c}
      /\ IsInjective(idle')
      /\ c \notin ToSet(idle') \cup abandoned
      /\ Reader(t) => c \in ToSet(idle) /\ Len(idle') = Len(idle) - 1
      /\ ~Reader(t) => c = writer /\ idle' = idle
  <2>1. CASE Reader(t)
    <3>1. idle \in Seq(DOMAIN conns) /\ IsInjective(idle) /\ idle # <<>>
      BY <1>0, <2>1 DEF TypeOK, Places, Joins
    <3>2. /\ Last(idle) \in ToSet(idle) /\ Last(idle) \in DOMAIN conns
          /\ Len(Front(idle)) = Len(idle) - 1
          /\ ToSet(Front(idle)) = ToSet(idle) \ {Last(idle)}
          /\ IsInjective(Front(idle))
      BY <3>1, IdleMoves
    <3> QED
      BY <1>0, <2>1, <3>2 DEF Joins, Places
  <2>2. CASE ~Reader(t)
    BY <1>0, <2>2 DEF Joins, Places, TypeOK
  <2> QED
    BY <2>1, <2>2
<1>4. Places'
  <2>1. \A u \in Tasks :
           /\ tasks'[u].pc \in {"asleep", "woken", "returning"} => Reader(u)
           /\ tasks'[u].pc = "reopen" => ~Reader(u)
    BY <1>0 DEF Places, OthersRest, Joins
  <2>2. ASSUME NEW u \in Tasks \ {t}, Placed(u), Reader(t) \/ Reader(u)
        PROVE  tasks[u].conn # c
    BY <1>0, <1>3, <2>2 DEF Places
  <2>3. \A u \in Tasks : Placed(u)' => /\ tasks'[u].conn \in DOMAIN conns
                                       /\ tasks'[u].conn \notin ToSet(idle') \cup abandoned
                                       /\ Reader(u) => tasks'[u].conn # writer
    BY <1>0, <1>1, <1>3 DEF Places
  <2>4. \A u, v \in Tasks : Placed(u)' /\ Placed(v)' /\ Reader(u)
                            /\ tasks'[u].conn = tasks'[v].conn => u = v
    BY <1>0, <1>1, <2>2 DEF Places
  <2>5. writer \notin ToSet(idle') \cup abandoned /\ ToSet(idle') \cap abandoned = {}
    BY <1>0, <1>3 DEF Places
  <2> QED
    BY <1>0, <1>3, <2>1, <2>3, <2>4, <2>5 DEF Places, Reader
<1>5. Owners'
  <2>1. ASSUME NEW d \in DOMAIN conns, conns[d].owner # NULL
        PROVE  tasks'[conns[d].owner].pc \in Holding /\ tasks'[conns[d].owner].conn = d
    <3>1. PICK o \in Tasks : o = conns[d].owner /\ Holds(o) /\ tasks[o].conn = d
      BY <1>0, <2>1, ConnShape DEF Owners
    <3> QED
      BY <1>1, <1>2, <3>1 DEF Holds
  <2>2. ASSUME NEW u \in Tasks, Holds(u)'
        PROVE  conns[tasks'[u].conn].owner = u
    BY <1>0, <1>1, <1>2, <2>2 DEF Owners, Mine
  <2> QED
    BY <1>0, <2>1, <2>2 DEF Owners, Mine, Holds
<1>6. Health'
  <2>1. ASSUME NEW u \in Tasks, Holds(u)'
        PROVE  FoundBy(u, Mine(u))'
    <3>1. Holds(u) /\ tasks'[u].pc = tasks[u].pc /\ tasks'[u].conn = tasks[u].conn
      BY <1>1, <1>2, <2>1 DEF Holds, Placed, Placing
    <3> QED
      BY <1>0, <3>1 DEF Health, FoundBy, Mine
  <2>2. ASSUME NEW d \in DOMAIN conns
        PROVE  /\ conns[d].tx = "none" => conns[d].dirty = {}
               /\ conns[d].shut => conns[d].closed
               /\ conns[d].closed =>
                     \/ conns[d].shut
                     \/ \E u \in Tasks : tasks'[u].pc = "closing" /\ tasks'[u].conn = d
               /\ stage = "serving" /\ conns[d].owner = NULL => conns[d].tx = "none"
               /\ Kept(d)'
    <3>1. /\ conns[d].tx = "none" => conns[d].dirty = {}
          /\ conns[d].shut => conns[d].closed
          /\ conns[d].closed =>
                   \/ conns[d].shut
                   \/ \E u \in Tasks : tasks[u].pc = "closing" /\ tasks[u].conn = d
          /\ stage = "serving" /\ conns[d].owner = NULL => conns[d].tx = "none"
          /\ Kept(d)
      BY <1>0 DEF Health
    <3>2. tasks[t].pc # "closing"
      BY <1>2 DEF Holds, Holding
    <3>3. Kept(d)'
      <4>1. \A u \in Tasks : Placed(u) /\ tasks[u].conn = d
                             /\ (Reader(u) \/ tasks[u].pc = "closing") =>
               Placed(u)' /\ tasks'[u].conn = d /\ (Reader(u) \/ tasks'[u].pc = "closing")
        BY <1>1 DEF Joins
      <4>2. d \in ToSet(idle) => d \in ToSet(idle') \/ (Placed(t)' /\ tasks'[t].conn = d /\ Reader(t))
        BY <1>2, <1>3
      <4> QED
        BY <1>0, <3>1, <4>1, <4>2 DEF Kept, Reader
    <3> QED
      BY <1>1, <3>1, <3>2, <3>3
  <2>3. ASSUME NEW u \in Tasks, tasks'[u].pc = "opening", ~Reader(u)
        PROVE  reopener' = u /\ conns[writer].closed
    BY <1>0, <2>3 DEF Health, Joins, OthersRest
  <2>4. \A u \in Tasks : tasks'[u].cancelled => stage # "serving"
    BY <1>0 DEF Health, Joins, OthersRest
  <2>5. \A d \in ToSet(idle') : ~conns[d].closed
    BY <1>0, <1>3 DEF Health
  <2> QED
    BY <1>0, <2>1, <2>2, <2>3, <2>4, <2>5 DEF Health, Reader
<1>7. Fates'
  BY <1>0, OthersKeepFate DEF Fates, Joins, Like
<1>8. Counted'
  <2>1. t \notin Leasing /\ (t \in Leasing' <=> Reader(t))
    BY DEF Leasing, Leases, Joins, Placed, Placing, Holding, Reader
  <2>2. t \notin Opening /\ t \notin Opening'
    BY DEF Opening, Joins
  <2>3. opened \in Nat /\ Len(idle) \in Nat /\ Cardinality(abandoned) \in Nat
    BY <1>0, IdleShape, SizesAssumption, FS_CardinalityType DEF TypeOK, Counted
  <2>4. \A u \in Tasks : tasks'[u].pc = "asleep" => idle' = <<>> /\ opened = PoolSize
    BY <1>0 DEF Counted, Joins, OthersRest
  <2>5. /\ IsFiniteSet(Leasing') /\ IsFiniteSet(Opening')
        /\ Cardinality(Leasing) \in Nat /\ Cardinality(Opening) \in Nat
        /\ Cardinality(Leasing') = IF Reader(t) THEN Cardinality(Leasing) + 1
                                                ELSE Cardinality(Leasing)
        /\ Cardinality(Opening') = Cardinality(Opening)
    BY <1>0, <2>1, <2>2, Tally
  <2>6. Len(idle') + Cardinality(Leasing') = Len(idle) + Cardinality(Leasing)
    BY <1>3, <2>3, <2>5
  <2>7. opened = Len(idle) + Cardinality(Leasing) + Cardinality(Opening) + Cardinality(abandoned)
    BY <1>0 DEF Counted
  <2>8. opened = Len(idle') + Cardinality(Leasing') + Cardinality(Opening')
                   + Cardinality(abandoned)
    BY <2>5, <2>6, <2>7
  <2> QED
    BY <1>0, <2>4, <2>5, <2>8 DEF Counted
<1> QED
  BY <1>4, <1>5, <1>6, <1>7, <1>8 DEF ConnInv

LEMMA OpenedIs ==
  ASSUME TypeOK, NEW t \in Tasks, OpenChecked(t)
  PROVE  /\ Len(conns) + 1 \in DOMAIN conns' /\ Len(conns) + 1 \notin DOMAIN conns
         /\ Len(conns) + 1 \in ConnIds
         /\ conns' \in Seq(Conn) /\ Len(conns') = Len(conns) + 1
         /\ DOMAIN conns' = DOMAIN conns \cup {Len(conns) + 1}
         /\ conns'[Len(conns) + 1] = Fresh
         /\ \A d \in DOMAIN conns : conns'[d] = conns[d]
<1>1. Len(conns) \in Nat /\ DOMAIN conns = 1 .. Len(conns) /\ conns \in Seq(Conn)
  BY ConnShape DEF TypeOK
<1>2. conns' = Append(conns, Fresh) /\ Len(conns) < MaxConns
  BY DEF OpenChecked
<1>3. Fresh \in Conn
  BY DEF Fresh, Conn
<1> QED
  BY <1>1, <1>2, <1>3, SizesAssumption DEF ConnIds

LEMMA OpenKeepsInv ==
  ASSUME ConnInv, TypeOK', NEW t \in Tasks, OpenChecked(t)
  PROVE  ConnInv'
<1> DEFINE n == Len(conns) + 1
<1>0. /\ TypeOK /\ Places /\ Owners /\ Health /\ Fates /\ Counted
      /\ tasks[t].pc = "opening" /\ ~tasks[t].cancelled
      /\ UNCHANGED <<stage, idle, abandoned, opened, stored, answer>>
  BY DEF ConnInv, OpenChecked, At
<1>1. /\ tasks'[t].pc = "acquire" /\ tasks'[t].conn = n /\ ~tasks'[t].cancelled
      /\ \A u \in Tasks \ {t} : tasks'[u] = tasks[u]
      /\ OthersRest(t)
  BY <1>0, TaskShape DEF OpenChecked, TypeOK, Task, OthersRest
<1>2. /\ n \in DOMAIN conns' /\ n \notin DOMAIN conns
      /\ DOMAIN conns' = DOMAIN conns \cup {n}
      /\ conns'[n] = Fresh
      /\ \A d \in DOMAIN conns : conns'[d] = conns[d]
  BY <1>0, OpenedIs
<1>3. /\ \A u \in Tasks \ {t} : Placed(u)' <=> Placed(u)
      /\ \A u \in Tasks : Holds(u)' <=> Holds(u)
      /\ ~Placed(t) /\ Placed(t)' /\ ~Holds(t)
  BY <1>0, <1>1 DEF Placed, Placing, Holds, Holding
<1>4. /\ Reader(t) => writer' = writer /\ reopener' = reopener
      /\ ~Reader(t) => writer' = n /\ conns[writer].closed /\ reopener = t
  BY <1>0 DEF OpenChecked, Health
<1>5. ToSet(idle) \subseteq DOMAIN conns /\ abandoned \subseteq DOMAIN conns /\ writer \in DOMAIN conns
  BY <1>0, IdleShape DEF TypeOK
<1>6. stage # "down"
  BY <1>0 DEF Health
<1>7. Places'
  <2>1. \A u \in Tasks :
           /\ tasks'[u].pc \in {"asleep", "woken", "returning"} => Reader(u)
           /\ tasks'[u].pc = "reopen" => ~Reader(u)
    BY <1>0, <1>1 DEF Places
  <2>2. \A u \in Tasks \ {t} : Placed(u) => tasks[u].conn # n
    BY <1>0, <1>2 DEF Places
  <2>3. \A u \in Tasks : Placed(u)' => /\ tasks'[u].conn \in DOMAIN conns'
                                       /\ tasks'[u].conn \notin ToSet(idle) \cup abandoned
                                       /\ Reader(u) => tasks'[u].conn # writer'
    BY <1>0, <1>1, <1>2, <1>3, <1>4, <1>5, <2>2 DEF Places
  <2>4. \A u, v \in Tasks : Placed(u)' /\ Placed(v)' /\ Reader(u)
                            /\ tasks'[u].conn = tasks'[v].conn => u = v
    BY <1>0, <1>1, <1>3, <2>2 DEF Places
  <2>5. writer' \notin ToSet(idle) \cup abandoned
    BY <1>0, <1>2, <1>4, <1>5 DEF Places
  <2> QED
    BY <1>0, <2>1, <2>3, <2>4, <2>5 DEF Places, Reader
<1>8. Owners'
  <2>1. ASSUME NEW d \in DOMAIN conns', conns'[d].owner # NULL
        PROVE  tasks'[conns'[d].owner].pc \in Holding /\ tasks'[conns'[d].owner].conn = d
    <3>1. d \in DOMAIN conns /\ conns'[d] = conns[d]
      BY <1>2, <2>1 DEF Fresh
    <3>2. PICK o \in Tasks : o = conns[d].owner /\ Holds(o) /\ tasks[o].conn = d
      BY <1>0, <2>1, <3>1, ConnShape DEF Owners
    <3> QED
      BY <1>1, <1>3, <3>1, <3>2 DEF Holds
  <2>2. ASSUME NEW u \in Tasks, Holds(u)'
        PROVE  conns'[tasks'[u].conn].owner = u
    <3>1. Holds(u) /\ u # t /\ Placed(u)
      BY <1>3, <2>2 DEF Holds, Placed, Placing
    <3> QED
      BY <1>0, <1>1, <1>2, <3>1 DEF Owners, Mine, Places
  <2> QED
    BY <2>1, <2>2 DEF Owners, Mine, Holds
<1>9. Health'
  <2>1. ASSUME NEW u \in Tasks, Holds(u)'
        PROVE  FoundBy(u, Mine(u))'
    <3>1. Holds(u) /\ u # t /\ Placed(u)
      BY <1>3, <2>1 DEF Holds, Placed, Placing
    <3>2. tasks[u].conn \in DOMAIN conns /\ FoundBy(u, Mine(u))
      BY <1>0, <3>1 DEF Places, Health
    <3> QED
      BY <1>0, <1>1, <1>2, <3>1, <3>2 DEF FoundBy, Mine
  <2>2. ASSUME NEW d \in DOMAIN conns'
        PROVE  /\ conns'[d].tx = "none" => conns'[d].dirty = {}
               /\ conns'[d].shut => conns'[d].closed
               /\ conns'[d].closed =>
                     \/ conns'[d].shut
                     \/ \E u \in Tasks : tasks'[u].pc = "closing" /\ tasks'[u].conn = d
               /\ stage = "serving" /\ conns'[d].owner = NULL => conns'[d].tx = "none"
               /\ Kept(d)'
    <3>1. CASE d = n
      BY <1>1, <1>2, <1>3, <1>4, <3>1 DEF Fresh, Kept, Reader
    <3>2. CASE d # n
      <4>1. /\ d \in DOMAIN conns /\ conns'[d] = conns[d]
            /\ conns[d].tx = "none" => conns[d].dirty = {}
            /\ conns[d].shut => conns[d].closed
            /\ conns[d].closed =>
                     \/ conns[d].shut
                     \/ \E u \in Tasks : tasks[u].pc = "closing" /\ tasks[u].conn = d
            /\ stage = "serving" /\ conns[d].owner = NULL => conns[d].tx = "none"
            /\ Kept(d)
        BY <1>0, <1>2, <1>6, <3>2 DEF Health
      <4>2. \A u \in Tasks : tasks[u].pc = "closing" => u # t /\ Placed(u)
        BY <1>0 DEF Placed, Placing, Holding
      <4>3. conns'[d].closed =>
                     \/ conns'[d].shut
                     \/ \E u \in Tasks : tasks'[u].pc = "closing" /\ tasks'[u].conn = d
        BY <1>1, <4>1, <4>2
      <4>4. d = writer => d = writer' \/ conns[d].closed
        BY <1>4
      <4>5. Kept(d)'
        BY <1>0, <1>1, <1>3, <4>1, <4>2, <4>3, <4>4 DEF Kept, Reader, Placed, Placing, Holding
      <4> QED
        BY <4>1, <4>3, <4>5
    <3> QED
      BY <3>1, <3>2
  <2>3. ASSUME NEW u \in Tasks, tasks'[u].pc = "opening", ~Reader(u)
        PROVE  reopener' = u /\ conns'[writer'].closed
    <3>1. u # t /\ reopener = u /\ conns[writer].closed
      BY <1>0, <1>1, <2>3 DEF Health
    <3> QED
      BY <1>2, <1>4, <1>5, <3>1
  <2>4. \A u \in Tasks : tasks'[u].cancelled => stage # "serving"
    BY <1>0, <1>1 DEF Health
  <2>5. \A d \in ToSet(idle) : ~conns'[d].closed
    BY <1>0, <1>2, <1>5 DEF Health
  <2> QED
    BY <1>0, <1>6, <2>1, <2>2, <2>3, <2>4, <2>5 DEF Health, Reader
<1>10. Fates'
  <2>1. Fate(t)'
    BY <1>0, <1>1 DEF Fates, Fate
  <2> QED
    BY <1>0, <1>1, <1>2, <2>1, OthersKeepFate DEF Fates, Like, ConnInv
<1>11. Counted'
  <2>1. t \notin Leasing /\ (t \in Leasing' <=> Reader(t))
    BY <1>0, <1>1 DEF Leasing, Leases, Reader
  <2>2. (t \in Opening <=> Reader(t)) /\ t \notin Opening'
    BY <1>0, <1>1 DEF Opening, Reader
  <2>3. opened \in Nat /\ Len(idle) \in Nat /\ Cardinality(abandoned) \in Nat
    BY <1>0, IdleShape, SizesAssumption, FS_CardinalityType DEF TypeOK, Counted
  <2>4. \A u \in Tasks : tasks'[u].pc = "asleep" => idle = <<>> /\ opened = PoolSize
    BY <1>0, <1>1 DEF Counted
  <2>5. /\ IsFiniteSet(Leasing') /\ IsFiniteSet(Opening')
        /\ Cardinality(Leasing) \in Nat /\ Cardinality(Opening) \in Nat
        /\ Cardinality(Leasing') = IF Reader(t) THEN Cardinality(Leasing) + 1
                                                ELSE Cardinality(Leasing)
        /\ Cardinality(Opening') = IF Reader(t) THEN Cardinality(Opening) - 1
                                                ELSE Cardinality(Opening)
    BY <1>0, <1>1, <2>1, <2>2, Tally
  <2>6. opened = Len(idle) + Cardinality(Leasing) + Cardinality(Opening) + Cardinality(abandoned)
    BY <1>0, <1>6 DEF Counted
  <2>7. opened = Len(idle) + Cardinality(Leasing') + Cardinality(Opening')
                   + Cardinality(abandoned)
    BY <2>3, <2>5, <2>6
  <2> QED
    BY <1>0, <2>4, <2>5, <2>7 DEF Counted
<1> QED
  BY <1>7, <1>8, <1>9, <1>10, <1>11 DEF ConnInv

-----------------------------------------------------------------------------
(* A reader that gives its connection back. *)

\* To the list, to nobody for good, or to close().
Returns(t) ==
    /\ tasks[t].pc = "returning" /\ tasks'[t].pc = "done" /\ ~tasks'[t].cancelled
    /\ OthersRest(t) /\ OtherConnsRest(t)
    /\ UNCHANGED <<writer, reopener, stage>>
    /\ \A u \in Tasks : tasks'[u].pc = "asleep" =>
          tasks[u].pc = "asleep" /\ UNCHANGED <<idle, opened>>
    /\ LET c == tasks[t].conn IN
       /\ conns'[c].tx = conns[c].tx /\ conns'[c].dirty = conns[c].dirty
       /\ conns'[c].owner = conns[c].owner /\ conns'[c].closed = conns[c].closed
       /\ \/ /\ ~conns[c].closed
             /\ conns'[c].shut = conns[c].shut
             /\ idle' = Append(idle, c)
             /\ UNCHANGED <<abandoned, opened>>
          \/ /\ conns[c].closed
             /\ conns'[c].shut
             /\ opened' = opened - 1
             /\ UNCHANGED <<idle, abandoned>>
          \/ /\ conns'[c].shut = conns[c].shut
             /\ abandoned' = abandoned \cup {c}
             /\ UNCHANGED <<idle, opened>>
    /\ Fate(t)'

LEMMA ReturnKeepsInv ==
  ASSUME ConnInv, TypeOK', NEW t \in Tasks, Returns(t)
  PROVE  ConnInv'
<1> DEFINE c == tasks[t].conn
<1>0. /\ TypeOK /\ Places /\ Owners /\ Health /\ Fates /\ Counted
      /\ tasks[t].pc = "returning" /\ Reader(t) /\ c \in DOMAIN conns
      /\ DOMAIN conns' = DOMAIN conns
      /\ UNCHANGED <<writer, reopener, stage>>
      /\ OthersRest(t)
  BY DEF ConnInv, Returns, Places, Placed, Placing, OtherConnsRest
<1>1. \A u \in Tasks \ {t} :
         /\ Placed(u)' <=> Placed(u)
         /\ Holds(u)' <=> Holds(u)
         /\ tasks'[u].conn = tasks[u].conn
         /\ Placed(u) => tasks'[u].pc = tasks[u].pc /\ tasks[u].conn # c
         /\ tasks'[u].pc = "closing" <=> tasks[u].pc = "closing"
  BY <1>0 DEF OthersRest, Placed, Placing, Holds, Holding, Places
<1>2. /\ ~Holds(t) /\ ~Holds(t)' /\ Placed(t) /\ ~Placed(t)'
      /\ c # writer /\ c \notin ToSet(idle) \cup abandoned
  BY <1>0 DEF Returns, Placed, Placing, Holds, Holding, Places
<1>3. stage # "down"
  BY <1>0 DEF Health
<1>4. conns[c].owner = NULL
  <2>1. SUFFICES ASSUME conns[c].owner # NULL PROVE FALSE
    OBVIOUS
  <2>2. PICK o \in Tasks : o = conns[c].owner /\ Holds(o) /\ tasks[o].conn = c
    BY <1>0, <2>1, ConnShape DEF Owners
  <2> QED
    BY <1>1, <1>2, <2>2 DEF Holds, Placed, Placing
<1>5. /\ idle' \in Seq(DOMAIN conns)
      /\ ToSet(idle) \subseteq ToSet(idle')
      /\ ToSet(idle') \subseteq ToSet(idle) \cup {c}
      /\ IsInjective(idle')
      /\ abandoned \subseteq abandoned' /\ abandoned' \subseteq abandoned \cup {c}
      /\ ToSet(idle') \cap abandoned' = {}
      /\ c \in ToSet(idle') => ~conns[c].closed
      /\ c \in ToSet(idle') \/ c \in abandoned' \/ conns'[c].shut
      /\ conns'[c].shut => conns[c].shut \/ conns[c].closed
      /\ idle' = Append(idle, c) => Len(idle') = Len(idle) + 1
  <2>1. idle \in Seq(DOMAIN conns) /\ IsInjective(idle) /\ ToSet(idle) \cap abandoned = {}
    BY <1>0 DEF TypeOK, Places
  <2>2. /\ Append(idle, c) \in Seq(DOMAIN conns)
        /\ ToSet(Append(idle, c)) = ToSet(idle) \cup {c}
        /\ IsInjective(Append(idle, c))
        /\ Len(Append(idle, c)) = Len(idle) + 1
    BY <1>0, <1>2, <2>1, IdleMoves
  <2>3. \/ idle' = Append(idle, c) /\ abandoned' = abandoned /\ ~conns[c].closed
           /\ conns'[c].shut = conns[c].shut
        \/ idle' = idle /\ abandoned' = abandoned /\ conns'[c].shut /\ conns[c].closed
        \/ idle' = idle /\ abandoned' = abandoned \cup {c} /\ conns'[c].shut = conns[c].shut
    BY DEF Returns
  <2> QED
    BY <1>2, <2>1, <2>2, <2>3, IdleShape, <1>0
<1>6. \A d \in DOMAIN conns : d # c => Like(conns[d], conns'[d])
  BY DEF Returns, OtherConnsRest
<1>7. Places'
  <2>1. \A u \in Tasks :
           /\ tasks'[u].pc \in {"asleep", "woken", "returning"} => Reader(u)
           /\ tasks'[u].pc = "reopen" => ~Reader(u)
    BY <1>0 DEF Places, OthersRest, Returns
  <2>2. \A u \in Tasks : Placed(u)' => /\ tasks'[u].conn \in DOMAIN conns
                                       /\ tasks'[u].conn \notin ToSet(idle') \cup abandoned'
                                       /\ Reader(u) => tasks'[u].conn # writer
    BY <1>0, <1>1, <1>2, <1>5 DEF Places
  <2>3. \A u, v \in Tasks : Placed(u)' /\ Placed(v)' /\ Reader(u)
                            /\ tasks'[u].conn = tasks'[v].conn => u = v
    BY <1>0, <1>1, <1>2 DEF Places
  <2>4. writer \notin ToSet(idle') \cup abandoned'
    BY <1>0, <1>2, <1>5 DEF Places
  <2> QED
    BY <1>0, <1>5, <2>1, <2>2, <2>3, <2>4 DEF Places, Reader
<1>8. Owners'
  <2>1. ASSUME NEW d \in DOMAIN conns, conns'[d].owner # NULL
        PROVE  tasks'[conns'[d].owner].pc \in Holding /\ tasks'[conns'[d].owner].conn = d
    <3>1. conns'[d].owner = conns[d].owner
      BY <1>6, <2>1 DEF Like, Returns
    <3>2. PICK o \in Tasks : o = conns[d].owner /\ Holds(o) /\ tasks[o].conn = d
      BY <1>0, <2>1, <3>1, ConnShape DEF Owners
    <3> QED
      BY <1>1, <1>2, <3>1, <3>2 DEF Holds
  <2>2. ASSUME NEW u \in Tasks, Holds(u)'
        PROVE  conns'[tasks'[u].conn].owner = u
    <3>1. u # t /\ Holds(u) /\ Placed(u) /\ tasks[u].conn # c
      BY <1>1, <1>2, <2>2 DEF Holds, Placed, Placing
    <3> QED
      BY <1>0, <1>1, <1>6, <3>1 DEF Owners, Mine, Places, Like
  <2> QED
    BY <1>0, <2>1, <2>2 DEF Owners, Mine, Holds
<1>9. Health'
  <2>1. ASSUME NEW u \in Tasks, Holds(u)'
        PROVE  FoundBy(u, Mine(u))'
    <3>1. u # t /\ Holds(u) /\ Placed(u) /\ tasks[u].conn # c
      BY <1>1, <1>2, <2>1 DEF Holds, Placed, Placing
    <3>2. tasks[u].conn \in DOMAIN conns /\ FoundBy(u, Mine(u))
      BY <1>0, <3>1 DEF Places, Health
    <3> QED
      BY <1>0, <1>1, <1>6, <3>1, <3>2 DEF FoundBy, Mine, Like
  <2>2. ASSUME NEW d \in DOMAIN conns
        PROVE  /\ conns'[d].tx = "none" => conns'[d].dirty = {}
               /\ conns'[d].shut => conns'[d].closed
               /\ conns'[d].closed =>
                     \/ conns'[d].shut
                     \/ \E u \in Tasks : tasks'[u].pc = "closing" /\ tasks'[u].conn = d
               /\ stage = "serving" /\ conns'[d].owner = NULL => conns'[d].tx = "none"
               /\ Kept(d)'
    <3>1. /\ conns[d].tx = "none" => conns[d].dirty = {}
          /\ conns[d].shut => conns[d].closed
          /\ conns[d].closed =>
                   \/ conns[d].shut
                   \/ \E u \in Tasks : tasks[u].pc = "closing" /\ tasks[u].conn = d
          /\ stage = "serving" /\ conns[d].owner = NULL => conns[d].tx = "none"
          /\ Kept(d)
      BY <1>0, <1>3 DEF Health
    <3>2. \A u \in Tasks : tasks[u].pc = "closing" =>
              u # t /\ Placed(u) /\ tasks'[u].pc = "closing" /\ tasks'[u].conn = tasks[u].conn
      BY <1>0, <1>1 DEF Placed, Placing, Holding
    <3>3. CASE d = c
      <4>1. conns[c].closed => conns[c].shut
        BY <1>1, <3>1, <3>2, <3>3
      <4>2. /\ conns'[c].tx = conns[c].tx /\ conns'[c].dirty = conns[c].dirty
            /\ conns'[c].owner = conns[c].owner /\ conns'[c].closed = conns[c].closed
            /\ conns[c].shut => conns'[c].shut
        BY DEF Returns
      <4>3. Kept(d)'
        BY <1>5, <3>3 DEF Kept
      <4> QED
        BY <1>5, <3>1, <3>3, <4>1, <4>2, <4>3
    <3>4. CASE d # c
      <4>1. Like(conns[d], conns'[d])
        BY <1>6, <3>4
      <4>2. Kept(d)'
        BY <1>0, <1>1, <1>5, <3>1, <3>2, <3>4, <4>1 DEF Kept, Reader, Like
      <4> QED
        BY <3>1, <3>2, <4>1, <4>2 DEF Like
    <3> QED
      BY <3>3, <3>4
  <2>3. ASSUME NEW u \in Tasks, tasks'[u].pc = "opening", ~Reader(u)
        PROVE  reopener' = u /\ conns'[writer].closed
    <3>1. u # t /\ tasks[u].pc = "opening" /\ reopener = u /\ conns[writer].closed
      BY <1>0, <2>3 DEF Health, Returns, OthersRest
    <3> QED
      BY <1>0, <1>2, <1>6, <3>1 DEF Like, TypeOK
  <2>4. \A u \in Tasks : tasks'[u].cancelled => stage # "serving"
    BY <1>0 DEF Health, Returns, OthersRest
  <2>5. \A d \in ToSet(idle') : ~conns'[d].closed
    <3>1. \A d \in ToSet(idle) : d \in DOMAIN conns /\ d # c /\ ~conns[d].closed
      BY <1>0, <1>2, IdleShape DEF Health
    <3>2. conns'[c].closed = conns[c].closed
      BY DEF Returns
    <3> QED
      BY <1>5, <1>6, <3>1, <3>2 DEF Like
  <2> QED
    BY <1>0, <1>3, <2>1, <2>2, <2>3, <2>4, <2>5 DEF Health, Reader
<1>10. Fates'
  <2>1. \A d \in DOMAIN conns : Like(conns[d], conns'[d]) \/ conns[d].owner = NULL
    BY <1>4, <1>6
  <2> QED
    BY <1>0, <2>1, OthersKeepFate DEF Fates, Returns
<1>11. Counted'
  <2>1. t \in Leasing /\ t \notin Leasing'
    BY <1>0 DEF Leasing, Leases, Returns, Reader
  <2>2. t \notin Opening /\ t \notin Opening'
    BY <1>0 DEF Opening, Returns
  <2>3. opened \in Nat /\ Len(idle) \in Nat /\ Cardinality(abandoned) \in Nat
    BY <1>0, IdleShape, SizesAssumption, FS_CardinalityType DEF TypeOK, Counted
  <2>4. \A u \in Tasks : tasks'[u].pc = "asleep" => idle' = <<>> /\ opened' = PoolSize
    BY <1>0 DEF Counted, Returns
  <2>5. /\ IsFiniteSet(Leasing') /\ IsFiniteSet(Opening')
        /\ Cardinality(Leasing) \in Nat \ {0} /\ Cardinality(Opening) \in Nat
        /\ Cardinality(Leasing') = Cardinality(Leasing) - 1
        /\ Cardinality(Opening') = Cardinality(Opening)
    BY <1>0, <2>1, <2>2, Tally
  <2>6. opened = Len(idle) + Cardinality(Leasing) + Cardinality(Opening) + Cardinality(abandoned)
    BY <1>0, <1>3 DEF Counted
  <2>7. IsFiniteSet(abandoned')
        /\ opened' = Len(idle') + Cardinality(Leasing') + Cardinality(Opening')
                       + Cardinality(abandoned')
    <3>1. CASE idle' = Append(idle, c) /\ UNCHANGED <<abandoned, opened>>
      <4>1. Len(idle') = Len(idle) + 1
        BY <1>5, <3>1
      <4>2. IsFiniteSet(abandoned') /\ abandoned' = abandoned /\ opened' = opened
        BY <1>0, <3>1 DEF Counted
      <4> QED
        BY <2>3, <2>5, <2>6, <4>1, <4>2
    <3>2. CASE opened' = opened - 1 /\ UNCHANGED <<idle, abandoned>>
      BY <1>0, <2>3, <2>5, <2>6, <3>2 DEF Counted
    <3>3. CASE abandoned' = abandoned \cup {c} /\ UNCHANGED <<idle, opened>>
      <4>1. IsFiniteSet(abandoned') /\ Cardinality(abandoned') = Cardinality(abandoned) + 1
        BY <1>0, <1>2, <3>3, FS_AddElement DEF Counted
      <4> QED
        BY <2>3, <2>5, <2>6, <3>3, <4>1
    <3> QED
      BY <3>1, <3>2, <3>3 DEF Returns
  <2> QED
    BY <1>0, <2>4, <2>5, <2>7 DEF Counted
<1> QED
  BY <1>7, <1>8, <1>9, <1>10, <1>11 DEF ConnInv

-----------------------------------------------------------------------------
(* Shutdown. *)

LEMMA StopKeepsInv ==
  ASSUME ConnInv, Stop
  PROVE  ConnInv'
<1>0. /\ TypeOK /\ Places /\ Owners /\ Health /\ Fates /\ Counted
      /\ stage = "serving" /\ stage' = "stopping"
      /\ UNCHANGED <<conns, writer, reopener, idle, abandoned, opened, fileLock, stored, answer,
                     faults>>
  BY DEF ConnInv, Stop
<1>1. \A u \in Tasks : /\ tasks'[u] \in Task
                       /\ tasks'[u].pc = tasks[u].pc /\ tasks'[u].conn = tasks[u].conn
                       /\ tasks'[u].wrote = tasks[u].wrote /\ tasks'[u].cause = tasks[u].cause
                       /\ tasks'[u].result = tasks[u].result
  BY <1>0 DEF Stop, TypeOK, Task
<1>2. TypeOK'
  <2>1. tasks' \in [Tasks -> Task]
    BY <1>0, <1>1 DEF Stop
  <2> QED
    BY <1>0, <2>1 DEF TypeOK
<1>3. Places'
  BY <1>0, <1>1 DEF Places, Placed, Reader
<1>4. Owners'
  <2>1. ASSUME NEW d \in DOMAIN conns, conns[d].owner # NULL
        PROVE  tasks'[conns[d].owner].pc \in Holding /\ tasks'[conns[d].owner].conn = d
    <3>1. PICK o \in Tasks : o = conns[d].owner /\ Holds(o) /\ tasks[o].conn = d
      BY <1>0, <2>1, ConnShape DEF Owners
    <3> QED
      BY <1>1, <3>1 DEF Holds
  <2> QED
    BY <1>0, <1>1, <2>1 DEF Owners, Holds, Mine
<1>5. Health'
  <2>1. ASSUME NEW u \in Tasks, Holds(u)'
        PROVE  FoundBy(u, Mine(u))'
    BY <1>0, <1>1, <2>1 DEF Health, FoundBy, Mine, Holds
  <2>2. ASSUME NEW d \in DOMAIN conns
        PROVE  /\ conns[d].closed =>
                     \/ conns[d].shut
                     \/ \E u \in Tasks : tasks'[u].pc = "closing" /\ tasks'[u].conn = d
               /\ Kept(d)'
    BY <1>0, <1>1 DEF Health, Kept, Placed, Reader
  <2> QED
    BY <1>0, <1>1, <2>1, <2>2 DEF Health, Reader
<1>6. Fates'
  BY <1>0, <1>1 DEF Fates, Fate, Mine
<1>7. Counted'
  <2>1. Leasing' = Leasing /\ Opening' = Opening
    BY <1>1 DEF Leasing, Leases, Opening, Reader
  <2> QED
    BY <1>0, <1>1, <2>1 DEF Counted
<1> QED
  BY <1>2, <1>3, <1>4, <1>5, <1>6, <1>7 DEF ConnInv

\* Whatever the pool has not in its list and no task leases is shut already.
LEMMA CloseStoreKeepsInv ==
  ASSUME ConnInv, CloseStore
  PROVE  ConnInv'
<1>0. /\ TypeOK /\ Places /\ Owners /\ Health /\ Fates /\ Counted
      /\ stage = "stopping" /\ stage' = "down"
      /\ idle' = <<>> /\ abandoned' = {} /\ fileLock' = NULL /\ opened' = opened - Len(idle)
      /\ UNCHANGED <<writer, reopener, stored, tasks, answer, faults>>
  BY DEF ConnInv, CloseStore
<1>1. \A u \in Tasks : tasks[u].pc \in {"new", "done"}
  BY DEF CloseStore
<1>2. /\ DOMAIN conns' = DOMAIN conns
      /\ \A d \in DOMAIN conns :
            conns'[d] = IF d \in ToSet(idle) \cup abandoned \cup {writer} THEN Shut(conns[d])
                                                                          ELSE conns[d]
  BY DEF CloseStore
<1>3. \A d \in DOMAIN conns :
         /\ conns[d] \in Conn /\ Shut(conns[d]) \in Conn
         /\ Shut(conns[d]).shut /\ Shut(conns[d]).tx = "none" /\ Shut(conns[d]).dirty = {}
         /\ Shut(conns[d]).owner = conns[d].owner
  BY <1>0, ConnShape DEF Shut, Conn
<1>4. opened = Len(idle) + Cardinality(Leasing) + Cardinality(Opening) + Cardinality(abandoned)
      /\ Len(idle) \in Nat /\ Cardinality(Leasing) \in Nat /\ Cardinality(Opening) \in Nat
      /\ Cardinality(abandoned) \in Nat
  BY <1>0, IdleShape, FS_CardinalityType DEF Counted
<1>5. ToSet(idle') = {} /\ IsInjective(idle') /\ idle' \in Seq(DOMAIN conns)
  BY <1>0 DEF ToSet, IsInjective
<1>6. TypeOK'
  <2>1. conns' \in Seq(Conn) /\ Len(conns') = Len(conns)
    <3>1. conns' = [d \in DOMAIN conns |-> conns'[d]] /\ \A d \in DOMAIN conns : conns'[d] \in Conn
      BY <1>2, <1>3 DEF CloseStore
    <3> QED
      BY <1>0, <3>1, ConnsRewritten
  <2>2. opened' \in 0 .. PoolSize
    <3>1. opened \in 0 .. PoolSize
      BY <1>0 DEF TypeOK
    <3> QED
      BY <1>0, <1>4, <3>1, SizesAssumption
  <2> QED
    BY <1>0, <1>2, <1>5, <2>1, <2>2 DEF TypeOK
<1>7. \A u \in Tasks : ~Placed(u) /\ ~Holds(u) /\ ~Placed(u)' /\ ~Holds(u)'
  BY <1>0, <1>1 DEF Placed, Placing, Holds, Holding
<1>8. Places'
  BY <1>0, <1>1, <1>5, <1>7 DEF Places
<1>9. \A d \in DOMAIN conns : conns[d].owner = NULL
  BY <1>0, <1>7, ConnShape DEF Owners
<1>10. Owners'
  BY <1>2, <1>3, <1>7, <1>9 DEF Owners
<1>11. Health'
  <2>1. ASSUME NEW d \in DOMAIN conns
        PROVE  /\ conns'[d].tx = "none" => conns'[d].dirty = {}
               /\ conns'[d].shut
    <3>1. conns[d].tx = "none" => conns[d].dirty = {}
      BY <1>0 DEF Health
    <3>2. d \in ToSet(idle) \cup abandoned \cup {writer} \/ conns[d].shut
      BY <1>0, <1>7 DEF Health, Kept
    <3> QED
      BY <1>2, <1>3, <3>1, <3>2
  <2> QED
    BY <1>0, <1>1, <1>2, <1>5, <1>7, <2>1 DEF Health, Kept
<1>12. Fates'
  BY <1>0, <1>1 DEF Fates, Fate
<1>13. Counted'
  <2>1. Leasing' = Leasing /\ Opening' = Opening
    BY <1>0 DEF Leasing, Leases, Opening, Reader
  <2> QED
    BY <1>0, <1>1, <2>1, FS_EmptySet DEF Counted
<1> QED
  BY <1>6, <1>8, <1>10, <1>11, <1>12, <1>13 DEF ConnInv

LEMMA InitIsConnInv == Init => ConnInv
<1> SUFFICES ASSUME Init PROVE ConnInv
  OBVIOUS
<1>1. /\ Len(conns) = 1 /\ DOMAIN conns = {1} /\ conns[1] = Fresh /\ conns \in Seq(Conn)
      /\ Fresh \in Conn
  BY DEF Init, Fresh, Conn
<1>2. ToSet(idle) = {} /\ IsInjective(idle) /\ idle \in Seq(DOMAIN conns) /\ Len(idle) = 0
  BY DEF Init, ToSet, IsInjective
<1>3. \A u \in Tasks : tasks[u].pc = "new" /\ ~tasks[u].cancelled /\ ~Placed(u) /\ ~Holds(u)
  BY DEF Init, Placed, Placing, Holds, Holding
<1>4. TypeOK
  <2>1. tasks \in [Tasks -> Task]
    BY DEF Init, Task, Effects, Causes, Replies
  <2>2. Len(conns) \in ConnIds
    BY <1>1, SizesAssumption DEF ConnIds
  <2>3. 0 \in 0 .. PoolSize /\ 0 \in 0 .. MaxFaults
    BY SizesAssumption
  <2>4. writer \in DOMAIN conns /\ opened = 0 /\ faults = 0
    BY <1>1 DEF Init
  <2>5. stored \in [Tasks -> Effects] /\ answer \in [Tasks -> Replies]
    BY DEF Init, Effects, Replies
  <2>6. /\ reopener = NULL /\ abandoned = {} /\ fileLock = NULL /\ stage = "serving"
    BY DEF Init
  <2> QED
    BY <1>1, <1>2, <2>1, <2>2, <2>3, <2>4, <2>5, <2>6 DEF TypeOK
<1>5. Places
  BY <1>1, <1>2, <1>3 DEF Init, Places
<1>6. Owners
  BY <1>1, <1>3 DEF Fresh, Owners
<1>7. Health
  BY <1>1, <1>2, <1>3 DEF Init, Health, Fresh, Kept
<1>8. Fates
  BY <1>3 DEF Init, Fates, Fate
<1>9. Counted
  <2>1. Leasing = {} /\ Opening = {}
    BY <1>3 DEF Leasing, Leases, Opening
  <2> QED
    BY <1>2, <1>3, <2>1, FS_EmptySet DEF Init, Counted
<1> QED
  BY <1>4, <1>5, <1>6, <1>7, <1>8, <1>9 DEF ConnInv

-----------------------------------------------------------------------------
(* Each step is one of these. *)

LEMMA EndedIs ==
  ASSUME NEW task \in Task
  PROVE  /\ Ended(task) \in Task
         /\ Ended(task).pc = "done" /\ Ended(task).result = "none"
         /\ Ended(task).cause = "none" /\ ~Ended(task).cancelled
<1>1. 1 \in 1 .. 2 /\ "none" \in Causes /\ "none" \in Replies
  BY DEF Causes, Replies
<1>2. Ended(task).pc = "done" /\ Ended(task).result = "none" /\ Ended(task).cause = "none"
  BY DEF Ended, Task
<1>3. Ended(task).cancelled = FALSE
  BY DEF Ended, Task
<1>4. Ended(task) \in Task
  BY <1>1 DEF Ended, Task
<1> QED
  BY <1>2, <1>3, <1>4

\* The others, where one task's record and answer change.
LEMMA OneTask ==
  ASSUME TypeOK, NEW t \in Tasks, NEW r \in Task,
         tasks' = [tasks EXCEPT ![t] = r],
         \A u \in Tasks \ {t} : stored'[u] = stored[u] /\ answer'[u] = answer[u]
  PROVE  /\ tasks' \in [Tasks -> Task] /\ tasks'[t] = r
         /\ \A u \in Tasks \ {t} : tasks'[u] = tasks[u]
         /\ OthersRest(t)
<1>1. /\ tasks' \in [Tasks -> Task] /\ tasks'[t] = r
      /\ \A u \in Tasks \ {t} : tasks'[u] = tasks[u]
  BY DEF TypeOK
<1> QED
  BY <1>1 DEF OthersRest

LEMMA EndIs ==
  ASSUME TypeOK, NEW t \in Tasks, NEW a \in Replies, End(t, a), stored' = stored
  PROVE  /\ tasks' \in [Tasks -> Task] /\ answer' \in [Tasks -> Replies]
         /\ tasks'[t] = Ended(tasks[t]) /\ Ended(tasks[t]) \in Task
         /\ answer'[t] = a
         /\ OthersRest(t)
<1>1. /\ answer' \in [Tasks -> Replies] /\ answer'[t] = a
      /\ \A u \in Tasks \ {t} : answer'[u] = answer[u]
  BY DEF End, TypeOK
<1>2. Ended(tasks[t]) \in Task
  BY TaskShape, EndedIs
<1>3. tasks' = [tasks EXCEPT ![t] = Ended(tasks[t])]
  BY DEF End
<1> QED
  BY <1>1, <1>2, <1>3, OneTask

\* The same, when the step wakes whoever sleeps.
LEMMA WokenIs ==
  ASSUME TypeOK, NEW t \in Tasks, NEW r \in Task, r.pc # "asleep",
         tasks' = WakingAll([tasks EXCEPT ![t] = r]),
         \A u \in Tasks \ {t} : stored'[u] = stored[u] /\ answer'[u] = answer[u]
  PROVE  /\ tasks' \in [Tasks -> Task] /\ tasks'[t] = r
         /\ \A u \in Tasks : tasks'[u].pc # "asleep"
         /\ OthersRest(t)
<1> DEFINE changed == [tasks EXCEPT ![t] = r]
<1>1. /\ changed \in [Tasks -> Task] /\ changed[t] = r
      /\ \A u \in Tasks \ {t} : changed[u] = tasks[u]
  BY DEF TypeOK
<1>2. \A u \in Tasks :
         tasks'[u] = IF changed[u].pc = "asleep" THEN [changed[u] EXCEPT !.pc = "woken"]
                                                 ELSE changed[u]
  BY DEF WakingAll
<1>3. \A x \in Task : /\ [x EXCEPT !.pc = "woken"] \in Task
                      /\ [x EXCEPT !.pc = "woken"].pc = "woken"
                      /\ [x EXCEPT !.pc = "woken"].conn = x.conn
                      /\ [x EXCEPT !.pc = "woken"].cancelled = x.cancelled
                      /\ [x EXCEPT !.pc = "woken"].wrote = x.wrote
                      /\ [x EXCEPT !.pc = "woken"].cause = x.cause
                      /\ [x EXCEPT !.pc = "woken"].result = x.result
  BY DEF Task
<1> HIDE DEF changed
<1>4. \A u \in Tasks : tasks'[u] \in Task /\ tasks'[u].pc # "asleep"
  <2>1. SUFFICES ASSUME NEW u \in Tasks
                 PROVE  tasks'[u] \in Task /\ tasks'[u].pc # "asleep"
    OBVIOUS
  <2>2. changed[u] \in Task
    BY <1>1
  <2>3. CASE changed[u].pc = "asleep"
    <3>1. tasks'[u] = [changed[u] EXCEPT !.pc = "woken"]
      BY <1>2, <2>3
    <3> QED
      BY <1>3, <2>2, <3>1
  <2>4. CASE changed[u].pc # "asleep"
    <3>1. tasks'[u] = changed[u]
      BY <1>2, <2>4
    <3> QED
      BY <2>2, <2>4, <3>1
  <2> QED
    BY <2>3, <2>4
<1>5. tasks'[t] = r
  BY <1>1, <1>2
<1>6. ASSUME NEW u \in Tasks \ {t}
      PROVE  /\ tasks'[u].conn = tasks[u].conn
             /\ tasks'[u].cancelled = tasks[u].cancelled
             /\ tasks'[u].wrote = tasks[u].wrote
             /\ tasks'[u].cause = tasks[u].cause
             /\ tasks'[u].result = tasks[u].result
             /\ tasks'[u].pc = tasks[u].pc \/ (tasks[u].pc = "asleep" /\ tasks'[u].pc = "woken")
  <2>1. tasks[u] \in Task /\ changed[u] = tasks[u]
    BY <1>1 DEF TypeOK
  <2>2. CASE tasks[u].pc = "asleep"
    <3>1. tasks'[u] = [tasks[u] EXCEPT !.pc = "woken"]
      BY <1>2, <2>1, <2>2
    <3> QED
      BY <1>3, <2>1, <2>2, <3>1
  <2>3. CASE tasks[u].pc # "asleep"
    <3>1. tasks'[u] = tasks[u]
      BY <1>2, <2>1, <2>3
    <3> QED
      BY <3>1
  <2> QED
    BY <2>2, <2>3
<1>7. tasks' \in [Tasks -> Task]
  BY <1>4 DEF WakingAll
<1> QED
  BY <1>4, <1>5, <1>6, <1>7 DEF OthersRest

LEMMA WriterStep ==
  ASSUME ConnInv, NEW t \in Tasks, Writer(t)
  PROVE  TypeOK' /\ (Waits(t) \/ Joins(t))
<1>0. /\ TypeOK /\ Fates /\ Counted /\ stage = "serving" /\ ~Reader(t)
      /\ tasks[t].pc = "new" /\ ~tasks[t].cancelled /\ tasks[t] \in Task
      /\ writer \in DOMAIN conns /\ DOMAIN conns = 1 .. Len(conns) /\ Len(conns) \in ConnIds
      /\ UNCHANGED <<conns, writer, reopener, idle, abandoned, opened, fileLock, stored, answer,
                     stage, faults>>
  BY ConnShape DEF ConnInv, Writer, At, Reader, TypeOK
<1>1. writer \in ConnIds
  BY <1>0, SizesAssumption DEF ConnIds
<1>2. CASE conns[writer].closed
  <2> DEFINE r == [tasks[t] EXCEPT !.pc = "reopen"]
  <2>1. r \in Task /\ r.pc = "reopen" /\ ~r.cancelled
    BY <1>0 DEF Task
  <2>2. tasks' = [tasks EXCEPT ![t] = r]
    BY <1>2 DEF Writer
  <2> HIDE DEF r
  <2>3. tasks' \in [Tasks -> Task] /\ tasks'[t] = r /\ OthersRest(t)
        /\ \A u \in Tasks \ {t} : tasks'[u] = tasks[u]
    BY <1>0, <2>1, <2>2, OneTask
  <2>4. TypeOK'
    BY <1>0, <2>3 DEF TypeOK
  <2>5. Waits(t)
    BY <1>0, <2>1, <2>3 DEF Waits, Placed, Placing, Holding, Opening, Reader, Fates, Fate, Counted
  <2> QED
    BY <2>4, <2>5
<1>3. CASE ~conns[writer].closed
  <2> DEFINE r == [tasks[t] EXCEPT !.pc = "acquire", !.conn = writer]
  <2>1. r \in Task /\ r.pc = "acquire" /\ r.conn = writer /\ ~r.cancelled
    BY <1>0, <1>1 DEF Task
  <2>2. tasks' = [tasks EXCEPT ![t] = r]
    BY <1>3 DEF Writer
  <2> HIDE DEF r
  <2>3. tasks' \in [Tasks -> Task] /\ tasks'[t] = r /\ OthersRest(t)
    BY <1>0, <2>1, <2>2, OneTask
  <2>4. TypeOK'
    BY <1>0, <2>3 DEF TypeOK
  <2>5. Joins(t)
    BY <1>0, <2>1, <2>3 DEF Joins, Placed, Placing, Holding, Opening, Fates, Fate
  <2> QED
    BY <2>4, <2>5
<1> QED
  BY <1>2, <1>3

LEMMA ReopenStep ==
  ASSUME ConnInv, NEW t \in Tasks, Reopen(t)
  PROVE  TypeOK' /\ (Waits(t) \/ Joins(t))
<1>0. /\ TypeOK /\ Fates /\ Counted /\ stage # "down" /\ ~Reader(t) /\ t \in Writers
      /\ tasks[t].pc = "reopen" /\ ~tasks[t].cancelled /\ tasks[t] \in Task
      /\ reopener = NULL
      /\ writer \in DOMAIN conns /\ DOMAIN conns = 1 .. Len(conns) /\ Len(conns) \in ConnIds
      /\ UNCHANGED <<conns, writer, idle, abandoned, opened, fileLock, stored, answer, stage,
                     faults>>
  BY ConnShape DEF ConnInv, Reopen, At, Reader, TypeOK, Health, Places
<1>1. writer \in ConnIds
  BY <1>0, SizesAssumption DEF ConnIds
<1>2. CASE conns[writer].closed
  <2> DEFINE r == [tasks[t] EXCEPT !.pc = "opening"]
  <2>1. r \in Task /\ r.pc = "opening" /\ ~r.cancelled
    BY <1>0 DEF Task
  <2>2. tasks' = [tasks EXCEPT ![t] = r] /\ reopener' = t
    BY <1>2 DEF Reopen
  <2> HIDE DEF r
  <2>3. tasks' \in [Tasks -> Task] /\ tasks'[t] = r /\ OthersRest(t)
        /\ \A u \in Tasks \ {t} : tasks'[u] = tasks[u]
    BY <1>0, <2>1, <2>2, OneTask
  <2>4. TypeOK'
    BY <1>0, <2>2, <2>3 DEF TypeOK
  <2>5. \A u \in Tasks \ {t} : reopener # u
    BY <1>0, TasksAssumption
  <2>6. Waits(t)
    BY <1>0, <1>2, <2>1, <2>2, <2>3, <2>5
       DEF Waits, Placed, Placing, Holding, Opening, Reader, Fates, Fate, Counted
  <2> QED
    BY <2>4, <2>6
<1>3. CASE ~conns[writer].closed
  <2> DEFINE r == [tasks[t] EXCEPT !.pc = "acquire", !.conn = writer]
  <2>1. r \in Task /\ r.pc = "acquire" /\ r.conn = writer /\ ~r.cancelled
    BY <1>0, <1>1 DEF Task
  <2>2. tasks' = [tasks EXCEPT ![t] = r] /\ reopener' = reopener
    BY <1>3 DEF Reopen
  <2> HIDE DEF r
  <2>3. tasks' \in [Tasks -> Task] /\ tasks'[t] = r /\ OthersRest(t)
    BY <1>0, <2>1, <2>2, OneTask
  <2>4. TypeOK'
    BY <1>0, <2>2, <2>3 DEF TypeOK
  <2>5. Joins(t)
    BY <1>0, <2>1, <2>2, <2>3 DEF Joins, Placed, Placing, Holding, Opening, Fates, Fate
  <2> QED
    BY <2>4, <2>5
<1> QED
  BY <1>2, <1>3

LEMMA TakeStep ==
  ASSUME ConnInv, NEW t \in Tasks, Take(t)
  PROVE  TypeOK' /\ (Waits(t) \/ Joins(t))
<1>0. /\ TypeOK /\ Fates /\ Counted /\ stage # "down" /\ Reader(t)
      /\ tasks[t].pc \in {"new", "woken"} /\ ~tasks[t].cancelled /\ tasks[t] \in Task
      /\ DOMAIN conns = 1 .. Len(conns) /\ Len(conns) \in ConnIds
      /\ idle \in Seq(DOMAIN conns) /\ IsInjective(idle)
      /\ opened \in Nat /\ opened <= PoolSize
      /\ UNCHANGED <<conns, writer, reopener, abandoned, fileLock, stored, answer, stage, faults>>
  BY ConnShape, SizesAssumption DEF ConnInv, Take, At, TypeOK, Health, Places
<1>1. CASE /\ idle # <<>>
           /\ tasks' = [tasks EXCEPT ![t].pc = "acquire", ![t].conn = Last(idle)]
           /\ idle' = Front(idle)
           /\ UNCHANGED opened
  <2>1. Last(idle) \in DOMAIN conns /\ Front(idle) \in Seq(DOMAIN conns)
    BY <1>0, <1>1, IdleMoves
  <2>2. Last(idle) \in ConnIds
    BY <1>0, <2>1, SizesAssumption DEF ConnIds
  <2> DEFINE r == [tasks[t] EXCEPT !.pc = "acquire", !.conn = Last(idle)]
  <2>3. r \in Task /\ r.pc = "acquire" /\ r.conn = Last(idle) /\ ~r.cancelled
    BY <1>0, <2>2 DEF Task
  <2>4. tasks' = [tasks EXCEPT ![t] = r]
    BY <1>1
  <2> HIDE DEF r
  <2>5. tasks' \in [Tasks -> Task] /\ tasks'[t] = r /\ OthersRest(t)
    BY <1>0, <2>3, <2>4, OneTask
  <2>6. TypeOK'
    BY <1>0, <1>1, <2>1, <2>5 DEF TypeOK
  <2>7. Joins(t)
    BY <1>0, <1>1, <2>3, <2>5 DEF Joins, Placed, Placing, Holding, Opening, Fates, Fate
  <2> QED
    BY <2>6, <2>7
<1>2. CASE /\ idle = <<>>
           /\ ~Full
           /\ opened' = opened + 1
           /\ tasks' = [tasks EXCEPT ![t].pc = "opening"]
           /\ UNCHANGED idle
  <2> DEFINE r == [tasks[t] EXCEPT !.pc = "opening"]
  <2>1. r \in Task /\ r.pc = "opening" /\ ~r.cancelled
    BY <1>0 DEF Task
  <2>2. tasks' = [tasks EXCEPT ![t] = r]
    BY <1>2
  <2> HIDE DEF r
  <2>3. tasks' \in [Tasks -> Task] /\ tasks'[t] = r /\ OthersRest(t)
        /\ \A u \in Tasks \ {t} : tasks'[u] = tasks[u]
    BY <1>0, <2>1, <2>2, OneTask
  <2>4. opened' \in 0 .. PoolSize /\ opened # PoolSize
    BY <1>0, <1>2, SizesAssumption DEF Full
  <2>5. TypeOK'
    BY <1>0, <1>2, <2>3, <2>4 DEF TypeOK
  <2>6. \A u \in Tasks : tasks'[u].pc # "asleep"
    BY <1>0, <2>1, <2>3, <2>4 DEF Counted
  <2>7. Waits(t)
    BY <1>0, <1>2, <2>1, <2>3, <2>6
       DEF Waits, Placed, Placing, Holding, Opening, Reader, Fates, Fate
  <2> QED
    BY <2>5, <2>7
<1>3. CASE /\ idle = <<>>
           /\ Full
           /\ tasks' = [tasks EXCEPT ![t].pc = "asleep"]
           /\ UNCHANGED <<idle, opened>>
  <2> DEFINE r == [tasks[t] EXCEPT !.pc = "asleep"]
  <2>1. r \in Task /\ r.pc = "asleep" /\ ~r.cancelled
    BY <1>0 DEF Task
  <2>2. tasks' = [tasks EXCEPT ![t] = r]
    BY <1>3
  <2> HIDE DEF r
  <2>3. tasks' \in [Tasks -> Task] /\ tasks'[t] = r /\ OthersRest(t)
        /\ \A u \in Tasks \ {t} : tasks'[u] = tasks[u]
    BY <1>0, <2>1, <2>2, OneTask
  <2>4. opened = PoolSize
    BY <1>0, <1>3, SizesAssumption DEF Full
  <2>5. TypeOK'
    BY <1>0, <1>3, <2>3 DEF TypeOK
  <2>6. Waits(t)
    BY <1>0, <1>3, <2>1, <2>3, <2>4
       DEF Waits, Placed, Placing, Holding, Opening, Reader, Fates, Fate
  <2> QED
    BY <2>5, <2>6
<1> QED
  BY <1>1, <1>2, <1>3 DEF Take

LEMMA OpenStep ==
  ASSUME ConnInv, NEW t \in Tasks, OpenChecked(t)
  PROVE  TypeOK'
<1>0. /\ TypeOK /\ tasks[t] \in Task
      /\ UNCHANGED <<idle, abandoned, opened, fileLock, stored, answer, stage, faults>>
  BY DEF ConnInv, TypeOK, OpenChecked
<1> DEFINE n == Len(conns) + 1
<1>1. /\ n \in DOMAIN conns' /\ n \in ConnIds
      /\ conns' \in Seq(Conn) /\ Len(conns') = n
      /\ DOMAIN conns \subseteq DOMAIN conns'
  BY <1>0, OpenedIs
<1> HIDE DEF n
<1>2. tasks' \in [Tasks -> Task]
  <2> DEFINE r == [tasks[t] EXCEPT !.pc = "acquire", !.conn = n]
  <2>1. r \in Task
    BY <1>0, <1>1 DEF Task
  <2>2. tasks' = [tasks EXCEPT ![t] = r]
    BY DEF OpenChecked, n
  <2> HIDE DEF r
  <2> QED
    BY <1>0, <2>1, <2>2 DEF TypeOK
<1>3. writer' \in DOMAIN conns' /\ reopener' \in Writers \cup {NULL}
  BY <1>0, <1>1 DEF OpenChecked, TypeOK, n
<1>4. idle \in Seq(DOMAIN conns')
  BY <1>0, <1>1 DEF TypeOK
<1> QED
  BY <1>0, <1>1, <1>2, <1>3, <1>4 DEF TypeOK

\* What a settled request's record and answer are.
LEMMA SettledIs ==
  ASSUME TypeOK, NEW t \in Tasks, NEW a \in (Replies \ {"none"}) \cup {"busy"}, Settled(t, a),
         answer[t] = "none", stored' \in [Tasks -> Effects],
         \A u \in Tasks \ {t} : stored'[u] = stored[u],
         a = "ok" => stored'[t] = "change",
         a \in {"conflict", "refused", "failed"} => stored'[t] # "change",
         a = "busy" => stored'[t] = "nothing"
  PROVE  /\ tasks' \in [Tasks -> Task] /\ answer' \in [Tasks -> Replies]
         /\ OthersRest(t)
         /\ IF Reader(t) THEN /\ tasks'[t].pc \in {"acquire", "returning"}
                              /\ tasks'[t].conn = tasks[t].conn
                         ELSE tasks'[t].pc = "done"
         /\ tasks'[t].cancelled => tasks[t].cancelled
         /\ Fate(t)'
<1> DEFINE reply == IF a = "busy" THEN "refused" ELSE a
<1>0. tasks[t] \in Task
  BY DEF TypeOK
<1>1. /\ reply \in Replies \ {"none"}
      /\ reply = "ok" => stored'[t] = "change"
      /\ reply \in {"conflict", "refused", "failed"} => stored'[t] # "change"
  BY DEF Replies
<1> HIDE DEF reply
<1>2. CASE /\ Reader(t) /\ a = "busy" /\ tasks[t].tries = 1
           /\ tasks' = [tasks EXCEPT ![t].pc = "acquire", ![t].tries = 2, ![t].wrote = "nothing",
                                     ![t].cause = "none"]
           /\ UNCHANGED answer
  <2> DEFINE r == [tasks[t] EXCEPT !.pc = "acquire", !.tries = 2, !.wrote = "nothing",
                                   !.cause = "none"]
  <2>0. 2 \in 1 .. 2 /\ "nothing" \in Effects /\ "none" \in Causes
    BY DEF Effects, Causes
  <2>1. r \in Task /\ r.pc = "acquire" /\ r.conn = tasks[t].conn
        /\ r.cancelled = tasks[t].cancelled
    BY <1>0, <2>0 DEF Task
  <2>2. tasks' = [tasks EXCEPT ![t] = r]
    <3>1. tasks \in [Tasks -> Task]
      BY DEF TypeOK
    <3>2. tasks' = [[tasks EXCEPT ![t].pc = "acquire", ![t].tries = 2] EXCEPT
                      ![t].wrote = "nothing", ![t].cause = "none"]
      BY <1>2
    <3>3. [tasks EXCEPT ![t].pc = "acquire", ![t].tries = 2] =
             [tasks EXCEPT ![t] = [tasks[t] EXCEPT !.pc = "acquire", !.tries = 2]]
      BY <3>1
    <3> DEFINE p == [tasks[t] EXCEPT !.pc = "acquire", !.tries = 2]
               q == [tasks EXCEPT ![t] = p]
    <3>4. [q EXCEPT ![t].wrote = "nothing", ![t].cause = "none"] =
             [q EXCEPT ![t] = [q[t] EXCEPT !.wrote = "nothing", !.cause = "none"]]
      OBVIOUS
    <3>5. q[t] = p /\ r = [p EXCEPT !.wrote = "nothing", !.cause = "none"]
      BY <3>1
    <3>6. \A x : [q EXCEPT ![t] = x] = [tasks EXCEPT ![t] = x]
      BY <3>1
    <3> QED
      BY <3>2, <3>3, <3>4, <3>5, <3>6
  <2>3. answer' = answer /\ Reader(t) /\ a = "busy"
    BY <1>2
  <2> HIDE DEF r
  <2>4. tasks' \in [Tasks -> Task] /\ tasks'[t] = r /\ OthersRest(t)
    BY <2>1, <2>2, <2>3, OneTask
  <2>5. Fate(t)'
    BY <2>1, <2>3, <2>4 DEF Fate
  <2> QED
    BY <2>1, <2>3, <2>4, <2>5 DEF TypeOK
<1>3. CASE /\ Reader(t)
           /\ tasks' = [tasks EXCEPT ![t].pc = "returning", ![t].result = reply,
                                     ![t].cancelled = FALSE]
           /\ UNCHANGED answer
  <2> DEFINE r == [tasks[t] EXCEPT !.pc = "returning", !.result = reply, !.cancelled = FALSE]
  <2>1. r \in Task /\ r.pc = "returning" /\ r.conn = tasks[t].conn
    BY <1>0, <1>1 DEF Task
  <2>2. r.cancelled = FALSE /\ r.result = reply
    BY <1>0 DEF Task
  <2>3. tasks' = [tasks EXCEPT ![t] = r]
    BY <1>3
  <2> HIDE DEF r
  <2>4. tasks' \in [Tasks -> Task] /\ tasks'[t] = r /\ OthersRest(t)
    BY <1>3, <2>1, <2>3, OneTask
  <2>5. Fate(t)'
    BY <1>1, <1>3, <2>1, <2>2, <2>4 DEF Fate
  <2> QED
    BY <1>3, <2>1, <2>2, <2>4, <2>5 DEF TypeOK
<1>4. CASE ~Reader(t) /\ End(t, reply)
  <2>1. /\ answer' \in [Tasks -> Replies] /\ answer'[t] = reply
        /\ \A u \in Tasks \ {t} : answer'[u] = answer[u]
    BY <1>1, <1>4 DEF End, TypeOK
  <2>2. Ended(tasks[t]) \in Task /\ Ended(tasks[t]).pc = "done" /\ ~Ended(tasks[t]).cancelled
    BY <1>0, EndedIs
  <2>3. tasks' = [tasks EXCEPT ![t] = Ended(tasks[t])]
    BY <1>4 DEF End
  <2>4. tasks' \in [Tasks -> Task] /\ tasks'[t] = Ended(tasks[t]) /\ OthersRest(t)
    BY <2>1, <2>2, <2>3, OneTask
  <2>5. Fate(t)'
    BY <1>1, <2>1, <2>2, <2>4 DEF Fate
  <2> QED
    BY <1>4, <2>1, <2>2, <2>4, <2>5
<1> QED
  BY <1>2, <1>3, <1>4 DEF Settled, reply

LEMMA FaultIs ==
  ASSUME TypeOK, Fault
  PROVE  faults' \in 0 .. MaxFaults
BY SizesAssumption DEF TypeOK, Fault

LEMMA OpenFailsStep ==
  ASSUME ConnInv, NEW t \in Tasks, OpenFails(t)
  PROVE  TypeOK' /\ Waits(t)
<1>0. /\ TypeOK /\ Fates /\ Counted /\ stage # "down"
      /\ tasks[t].pc = "opening" /\ ~tasks[t].cancelled /\ tasks[t] \in Task
      /\ opened \in 0 .. PoolSize /\ faults' \in 0 .. MaxFaults
      /\ UNCHANGED <<conns, writer, idle, abandoned, fileLock, stored, stage>>
  BY FaultIs DEF ConnInv, OpenFails, At, TypeOK, Health
<1>1. /\ answer' \in [Tasks -> Replies] /\ answer'[t] = "failed" /\ stored[t] = "nothing"
      /\ \A u \in Tasks \ {t} : answer'[u] = answer[u]
  BY <1>0 DEF OpenFails, TypeOK, Replies, Fates, Fate
<1>2. Ended(tasks[t]) \in Task /\ Ended(tasks[t]).pc = "done" /\ ~Ended(tasks[t]).cancelled
  BY <1>0, EndedIs
<1>3. CASE Reader(t)
  <2>1. tasks' = WakingAll([tasks EXCEPT ![t] = Ended(tasks[t])]) /\ opened' = opened - 1
        /\ reopener' = reopener
    BY <1>3 DEF OpenFails, ForgetOne
  <2>2. tasks' \in [Tasks -> Task] /\ tasks'[t] = Ended(tasks[t]) /\ OthersRest(t)
        /\ \A u \in Tasks : tasks'[u].pc # "asleep"
    BY <1>0, <1>1, <1>2, <2>1, WokenIs
  <2>3. t \in Opening /\ t \notin Opening'
    BY <1>0, <1>2, <1>3, <2>2 DEF Opening
  <2>4. opened > 0
    <3>1. /\ Cardinality(Opening) \in Nat \ {0} /\ Cardinality(Leasing) \in Nat
      BY <1>0, <2>2, <2>3, Tally
    <3>2. Len(idle) \in Nat /\ Cardinality(abandoned) \in Nat
      BY <1>0, IdleShape, FS_CardinalityType DEF Counted
    <3>3. opened = Len(idle) + Cardinality(Leasing) + Cardinality(Opening)
                     + Cardinality(abandoned)
      BY <1>0 DEF Counted
    <3> QED
      BY <3>1, <3>2, <3>3
  <2>5. opened' \in 0 .. PoolSize
    BY <1>0, <2>1, <2>4, SizesAssumption
  <2>6. TypeOK'
    BY <1>0, <1>1, <2>1, <2>2, <2>5 DEF TypeOK
  <2>7. Fate(t)'
    BY <1>0, <1>1, <1>2, <2>2 DEF Fate
  <2>8. Waits(t)
    BY <1>0, <1>2, <2>1, <2>2, <2>3, <2>7 DEF Waits, Placed, Placing, Holding
  <2> QED
    BY <2>6, <2>8
<1>4. CASE ~Reader(t)
  <2>1. tasks' = [tasks EXCEPT ![t] = Ended(tasks[t])] /\ opened' = opened /\ reopener' = NULL
    BY <1>4 DEF OpenFails
  <2>2. tasks' \in [Tasks -> Task] /\ tasks'[t] = Ended(tasks[t]) /\ OthersRest(t)
        /\ \A u \in Tasks \ {t} : tasks'[u] = tasks[u]
    BY <1>0, <1>1, <1>2, <2>1, OneTask
  <2>3. TypeOK'
    BY <1>0, <1>1, <2>1, <2>2 DEF TypeOK
  <2>4. reopener = t
    BY <1>0, <1>4 DEF ConnInv, Health
  <2>5. Fate(t)'
    BY <1>0, <1>1, <1>2, <2>2 DEF Fate
  <2>6. \A u \in Tasks : tasks'[u].pc = "asleep" => idle = <<>> /\ opened = PoolSize
    BY <1>0, <1>2, <2>2 DEF Counted
  <2>7. t \notin Opening /\ t \notin Opening'
    BY <1>4 DEF Opening, Reader
  <2>8. Waits(t)
    BY <1>0, <1>2, <2>1, <2>2, <2>4, <2>5, <2>6, <2>7 DEF Waits, Placed, Placing, Holding
  <2> QED
    BY <2>3, <2>8
<1> QED
  BY <1>3, <1>4

LEMMA GiveBackStep ==
  ASSUME ConnInv, NEW t \in Tasks, GiveBack(t)
  PROVE  TypeOK' /\ Returns(t)
<1> DEFINE c == tasks[t].conn
<1>0. /\ TypeOK /\ Places /\ Fates /\ Counted /\ stage # "down" /\ Reader(t)
      /\ tasks[t].pc = "returning" /\ tasks[t] \in Task /\ c \in DOMAIN conns
      /\ c \notin ToSet(idle)
      /\ opened \in 0 .. PoolSize /\ idle \in Seq(DOMAIN conns) /\ IsInjective(idle)
      /\ UNCHANGED <<writer, reopener, abandoned, fileLock, stored, stage, faults>>
  BY DEF ConnInv, GiveBack, TypeOK, Health, Places, Placed, Placing
<1>1. /\ answer' \in [Tasks -> Replies] /\ answer'[t] = tasks[t].result /\ Fate(t)
      /\ \A u \in Tasks \ {t} : answer'[u] = answer[u]
  BY <1>0, TaskShape DEF GiveBack, TypeOK, Fates
<1>2. Ended(tasks[t]) \in Task /\ Ended(tasks[t]).pc = "done" /\ ~Ended(tasks[t]).cancelled
  BY <1>0, EndedIs
<1>3. tasks' = WakingAll([tasks EXCEPT ![t] = Ended(tasks[t])])
  BY DEF GiveBack, ForgetOne
<1>4. tasks' \in [Tasks -> Task] /\ tasks'[t] = Ended(tasks[t]) /\ OthersRest(t)
      /\ \A u \in Tasks : tasks'[u].pc # "asleep"
  BY <1>0, <1>1, <1>2, <1>3, WokenIs
<1>5. Fate(t)'
  BY <1>0, <1>1, <1>2, <1>4 DEF Fate
<1>6. CASE conns[c].closed
  <2> DEFINE k == [conns[c] EXCEPT !.shut = TRUE]
  <2>1. k \in Conn /\ k.shut = TRUE /\ k.tx = conns[c].tx /\ k.dirty = conns[c].dirty
        /\ k.owner = conns[c].owner /\ k.closed = conns[c].closed
    BY <1>0, ConnShape DEF Conn
  <2>2. conns' = [conns EXCEPT ![c] = k] /\ opened' = opened - 1 /\ idle' = idle
    BY <1>6 DEF GiveBack, ForgetOne, Mine
  <2> HIDE DEF k
  <2>3. /\ conns' \in Seq(Conn) /\ Len(conns') = Len(conns) /\ DOMAIN conns' = DOMAIN conns
        /\ conns'[c] = k /\ \A d \in DOMAIN conns : d # c => conns'[d] = conns[d]
    BY <1>0, <2>1, <2>2 DEF TypeOK
  <2>4. opened > 0
    <3>1. t \in Leasing /\ t \notin Leasing'
      BY <1>0, <1>2, <1>4 DEF Leasing, Leases
    <3>2. /\ Cardinality(Leasing) \in Nat \ {0} /\ Cardinality(Opening) \in Nat
      BY <1>0, <1>4, <3>1, Tally
    <3>3. Len(idle) \in Nat /\ Cardinality(abandoned) \in Nat
      BY <1>0, IdleShape, FS_CardinalityType DEF Counted
    <3>4. opened = Len(idle) + Cardinality(Leasing) + Cardinality(Opening)
                     + Cardinality(abandoned)
      BY <1>0 DEF Counted
    <3> QED
      BY <3>2, <3>3, <3>4
  <2>5. opened' \in 0 .. PoolSize
    BY <1>0, <2>2, <2>4, SizesAssumption
  <2>6. TypeOK'
    BY <1>0, <1>1, <1>4, <2>2, <2>3, <2>5 DEF TypeOK
  <2>7. OtherConnsRest(t)
    BY <2>3 DEF OtherConnsRest, Like
  <2>8. Returns(t)
    BY <1>0, <1>2, <1>4, <1>5, <1>6, <2>1, <2>2, <2>3, <2>7 DEF Returns
  <2> QED
    BY <2>6, <2>8
<1>7. CASE ~conns[c].closed
  <2>1. conns' = conns /\ opened' = opened /\ idle' = Append(idle, c)
    BY <1>7 DEF GiveBack, Mine
  <2>2. Append(idle, c) \in Seq(DOMAIN conns)
    BY <1>0, IdleMoves
  <2>3. TypeOK'
    BY <1>0, <1>1, <1>4, <2>1, <2>2 DEF TypeOK
  <2>4. OtherConnsRest(t)
    BY <2>1 DEF OtherConnsRest, Like
  <2>5. Returns(t)
    BY <1>0, <1>2, <1>4, <1>5, <1>7, <2>1, <2>4 DEF Returns
  <2> QED
    BY <2>3, <2>5
<1> QED
  BY <1>6, <1>7

LEMMA AbandonStep ==
  ASSUME ConnInv, NEW t \in Tasks, Abandon(t)
  PROVE  TypeOK' /\ Returns(t)
<1> DEFINE c == tasks[t].conn
<1>0. /\ TypeOK /\ Counted
      /\ tasks[t].pc = "returning" /\ tasks[t] \in Task /\ c \in DOMAIN conns
      /\ abandoned' = abandoned \cup {c}
      /\ UNCHANGED <<conns, writer, reopener, idle, opened, fileLock, stored, stage, faults>>
  BY DEF ConnInv, Abandon, Interrupted, TypeOK, Places, Placed, Placing
<1>1. /\ answer' \in [Tasks -> Replies] /\ answer'[t] = "cancelled"
      /\ \A u \in Tasks \ {t} : answer'[u] = answer[u]
  BY <1>0 DEF Abandon, TypeOK, Replies
<1>2. Ended(tasks[t]) \in Task /\ Ended(tasks[t]).pc = "done" /\ ~Ended(tasks[t]).cancelled
  BY <1>0, EndedIs
<1>3. tasks' = [tasks EXCEPT ![t] = Ended(tasks[t])]
  BY DEF Abandon
<1>4. tasks' \in [Tasks -> Task] /\ tasks'[t] = Ended(tasks[t]) /\ OthersRest(t)
      /\ \A u \in Tasks \ {t} : tasks'[u] = tasks[u]
  BY <1>0, <1>1, <1>2, <1>3, OneTask
<1>5. Fate(t)'
  BY <1>1, <1>2, <1>4 DEF Fate
<1>6. TypeOK'
  BY <1>0, <1>1, <1>4 DEF TypeOK
<1>7. OtherConnsRest(t)
  BY <1>0 DEF OtherConnsRest, Like
<1>8. \A u \in Tasks : tasks'[u].pc = "asleep" => tasks[u].pc = "asleep"
  BY <1>2, <1>4
<1>9. Returns(t)
  BY <1>0, <1>2, <1>4, <1>5, <1>7, <1>8 DEF Returns
<1> QED
  BY <1>6, <1>9

\* A wait for the pool or for the reopening that ends without a connection.
LEMMA GivingUpWaits ==
  ASSUME ConnInv, NEW t \in Tasks, NEW a \in {"refused", "cancelled"}, End(t, a),
         tasks[t].pc \in {"reopen", "asleep", "woken"} \/ (tasks[t].pc = "opening" /\ ~Reader(t)),
         UNCHANGED <<conns, writer, idle, abandoned, opened, fileLock, stored, stage, faults>>,
         reopener' = reopener \/ (reopener' = NULL /\ reopener = t)
  PROVE  TypeOK' /\ Waits(t)
<1>0. TypeOK /\ Counted /\ Health
  BY DEF ConnInv
<1>7. /\ a \in Replies \ {"none"} /\ stored[t] = "nothing"
      /\ answer'[t] = a
  BY <1>0 DEF End, TypeOK, Replies, ConnInv, Fates, Fate
<1>1. /\ tasks' \in [Tasks -> Task] /\ answer' \in [Tasks -> Replies]
      /\ tasks'[t].pc = "done" /\ ~tasks'[t].cancelled
      /\ OthersRest(t)
  BY <1>0, <1>7, EndIs, EndedIs, TaskShape
<1>2. TypeOK'
  BY <1>0, <1>1 DEF TypeOK
<1>3. Fate(t)'
  BY <1>1, <1>7 DEF Fate
<1>4. t \notin Opening /\ t \notin Opening'
  BY <1>1 DEF Opening
<1>5. \A u \in Tasks : tasks'[u].pc = "asleep" => idle = <<>> /\ opened = PoolSize
  BY <1>0, <1>1 DEF Counted, OthersRest
<1>6. stage # "down"
  BY <1>0 DEF Health
<1> QED
  BY <1>1, <1>2, <1>3, <1>4, <1>5, <1>6 DEF Waits, Placed, Placing, Holding

\* A wait for a connection's lock that ends without it.
LEMMA GivingUpTheLock ==
  ASSUME ConnInv, NEW t \in Tasks, NEW a \in {"refused", "cancelled"}, Settled(t, a),
         tasks[t].pc = "acquire",
         UNCHANGED <<conns, writer, idle, abandoned, opened, fileLock, stored, stage, faults>>,
         reopener' = reopener \/ (reopener' = NULL /\ reopener = t)
  PROVE  TypeOK' /\ Settles(t)
<1>0. TypeOK /\ Fates /\ Health /\ Fate(t)
  BY DEF ConnInv, Fates
<1>1. /\ answer[t] = "none" /\ stored' \in [Tasks -> Effects] /\ stored' = stored
      /\ stored[t] = "nothing" /\ a \in Replies \ {"none"} /\ a # "ok" /\ a # "busy"
  BY <1>0 DEF Fate, TypeOK, Replies
<1>2. /\ tasks' \in [Tasks -> Task] /\ answer' \in [Tasks -> Replies]
      /\ OthersRest(t)
      /\ IF Reader(t) THEN /\ tasks'[t].pc \in {"acquire", "returning"}
                           /\ tasks'[t].conn = tasks[t].conn
                      ELSE tasks'[t].pc = "done"
      /\ tasks'[t].cancelled => tasks[t].cancelled
      /\ Fate(t)'
  BY <1>0, <1>1, SettledIs
<1>3. TypeOK'
  BY <1>0, <1>2 DEF TypeOK
<1>4. Settles(t)
  BY <1>2 DEF Settles, Placed, Placing, OtherConnsRest, Like, PoolRests
<1> QED
  BY <1>3, <1>4

LEMMA LockWaitExpiredStep ==
  ASSUME ConnInv, NEW t \in Tasks, LockWaitExpired(t)
  PROVE  TypeOK' /\ (Waits(t) \/ Settles(t))
<1>0. UNCHANGED <<conns, writer, reopener, idle, abandoned, opened, fileLock, stored, stage,
                  faults>>
  BY DEF LockWaitExpired
<1>1. CASE (At(t, "asleep") \/ At(t, "woken")) /\ End(t, "refused")
  <2>1. tasks[t].pc \in {"reopen", "asleep", "woken"}
    BY <1>1 DEF At
  <2> QED
    BY <1>0, <1>1, <2>1, GivingUpWaits
<1>2. CASE At(t, "acquire") /\ Settled(t, "refused")
  <2>1. tasks[t].pc = "acquire"
    BY <1>2 DEF At
  <2> QED
    BY <1>0, <1>2, <2>1, GivingUpTheLock
<1> QED
  BY <1>1, <1>2 DEF LockWaitExpired

LEMMA CancelWaitStep ==
  ASSUME ConnInv, NEW t \in Tasks, CancelWait(t)
  PROVE  TypeOK' /\ (Waits(t) \/ Settles(t))
<1>0. /\ UNCHANGED <<conns, writer, idle, abandoned, fileLock, stored, stage, faults>>
      /\ reopener' = reopener \/ (reopener' = NULL /\ reopener = t)
  BY DEF CancelWait
<1>1. CASE Interrupted(t, "acquire")
  <2>1. tasks[t].pc = "acquire" /\ Settled(t, "cancelled") /\ opened' = opened
    BY <1>1 DEF Interrupted, CancelWait
  <2> QED
    BY <1>0, <2>1, GivingUpTheLock
<1>2. CASE /\ tasks[t].pc \in {"reopen", "asleep", "woken", "opening"}
           /\ ~(Reader(t) /\ tasks[t].pc = "opening")
  <2>1. End(t, "cancelled") /\ opened' = opened
    BY <1>2 DEF Interrupted, CancelWait, End
  <2> QED
    BY <1>0, <1>2, <2>1, GivingUpWaits
<1>3. CASE Reader(t) /\ tasks[t].pc = "opening"
  <2>0. TypeOK /\ Counted /\ Health /\ tasks[t] \in Task /\ opened \in 0 .. PoolSize
    BY DEF ConnInv, TypeOK
  <2>1. /\ answer' = [answer EXCEPT ![t] = "cancelled"]
        /\ tasks' = WakingAll([tasks EXCEPT ![t] = Ended(tasks[t])])
        /\ opened' = opened - 1
    BY <1>3 DEF Interrupted, CancelWait, ForgetOne
  <2>2. /\ answer' \in [Tasks -> Replies] /\ answer'[t] = "cancelled"
        /\ \A u \in Tasks \ {t} : answer'[u] = answer[u]
    BY <2>0, <2>1 DEF TypeOK, Replies
  <2>3. Ended(tasks[t]) \in Task /\ Ended(tasks[t]).pc = "done" /\ ~Ended(tasks[t]).cancelled
    BY <2>0, EndedIs
  <2>4. tasks' \in [Tasks -> Task] /\ tasks'[t] = Ended(tasks[t]) /\ OthersRest(t)
        /\ \A u \in Tasks : tasks'[u].pc # "asleep"
    BY <1>0, <2>0, <2>1, <2>2, <2>3, WokenIs
  <2>5. t \in Opening /\ t \notin Opening'
    BY <1>3, <2>3, <2>4 DEF Opening
  <2>6. stage # "down"
    BY <1>3, <2>0 DEF Health
  <2>7. opened > 0
    <3>1. /\ Cardinality(Opening) \in Nat \ {0} /\ Cardinality(Leasing) \in Nat
      BY <2>0, <2>4, <2>5, Tally
    <3>2. Len(idle) \in Nat /\ Cardinality(abandoned) \in Nat
      BY <2>0, IdleShape, FS_CardinalityType DEF Counted
    <3>3. opened = Len(idle) + Cardinality(Leasing) + Cardinality(Opening)
                     + Cardinality(abandoned)
      BY <2>0, <2>6 DEF Counted
    <3> QED
      BY <3>1, <3>2, <3>3
  <2>8. opened' \in 0 .. PoolSize
    BY <2>0, <2>1, <2>7, SizesAssumption
  <2>9. TypeOK'
    BY <1>0, <2>0, <2>2, <2>4, <2>8 DEF TypeOK
  <2>10. Fate(t)'
    BY <2>2, <2>3, <2>4 DEF Fate
  <2>11. Waits(t)
    BY <1>0, <1>3, <2>1, <2>3, <2>4, <2>5, <2>6, <2>10 DEF Waits, Placed, Placing, Holding
  <2> QED
    BY <2>9, <2>11
<1> QED
  BY <1>1, <1>2, <1>3 DEF CancelWait, Interrupted

LEMMA OneConn ==
  ASSUME TypeOK, NEW t \in Tasks, tasks[t].conn \in DOMAIN conns, NEW k \in Conn,
         conns' = [conns EXCEPT ![tasks[t].conn] = k]
  PROVE  /\ conns' \in Seq(Conn) /\ Len(conns') = Len(conns) /\ DOMAIN conns' = DOMAIN conns
         /\ OtherConnsRest(t)
         /\ conns'[tasks[t].conn] = k
BY DEF TypeOK, OtherConnsRest, Like

LEMMA ReleasedIs ==
  ASSUME NEW k \in Conn, NEW t \in Tasks, k.owner = t
  PROVE  /\ Released(k, t) \in Conn
         /\ Released(k, t).owner = NULL
         /\ Released(k, t).tx = k.tx /\ Released(k, t).dirty = k.dirty
         /\ Released(k, t).closed = k.closed /\ Released(k, t).shut = k.shut
BY DEF Released, Conn

\* What a holder knows of itself and of its connection.
LEMMA HolderKnows ==
  ASSUME ConnInv, NEW t \in Tasks, Holds(t)
  PROVE  /\ TypeOK /\ Fate(t) /\ stage # "down"
         /\ tasks[t] \in Task
         /\ tasks[t].conn \in DOMAIN conns /\ tasks[t].conn \in ConnIds
         /\ Mine(t) \in Conn /\ Mine(t) = conns[tasks[t].conn]
         /\ Mine(t).owner = t
         /\ FoundBy(t, Mine(t))
         /\ Mine(t).tx = "none" => Mine(t).dirty = {}
         /\ answer[t] = "none" /\ stored[t] = "nothing"
         /\ tasks[t].cancelled => stage # "serving"
         /\ tasks[t].pc \notin {"acquire", "returning", "done"}
<1>1. TypeOK /\ Fate(t) /\ tasks[t] \in Task
  BY DEF ConnInv, Fates, TypeOK
<1>2. tasks[t].conn \in DOMAIN conns /\ tasks[t].conn \in ConnIds
  <2>1. tasks[t].conn \in DOMAIN conns
    BY DEF ConnInv, Places, Placed, Placing, Holds
  <2> QED
    BY <1>1, <2>1, ConnShape, SizesAssumption DEF ConnIds, TypeOK
<1>3. Mine(t) \in Conn /\ Mine(t) = conns[tasks[t].conn]
  BY <1>1, <1>2, ConnShape DEF Mine
<1>4. Mine(t).owner = t /\ FoundBy(t, Mine(t))
  BY DEF ConnInv, Owners, Health
<1>5. Mine(t).tx = "none" => Mine(t).dirty = {}
  BY <1>2, <1>3 DEF ConnInv, Health
<1>6. /\ stage # "down" /\ (tasks[t].cancelled => stage # "serving")
      /\ tasks[t].pc \notin {"acquire", "returning", "done"}
  BY DEF ConnInv, Health, Holds, Holding
<1>7. answer[t] = "none" /\ stored[t] = "nothing"
  BY <1>1, <1>6 DEF Fate
<1> QED
  BY <1>1, <1>2, <1>3, <1>4, <1>5, <1>6, <1>7

LEMMA SettlingStep ==
  ASSUME ConnInv, NEW t \in Tasks, NEW a \in (Replies \ {"none"}) \cup {"busy"}, Settled(t, a),
         Holds(t),
         UNCHANGED <<writer, reopener, idle, abandoned, opened, stage>>,
         conns' \in Seq(Conn), Len(conns') = Len(conns), OtherConnsRest(t),
         fileLock' \in DOMAIN conns \cup {NULL}, faults' \in 0 .. MaxFaults,
         stored' \in [Tasks -> Effects],
         \A u \in Tasks \ {t} : stored'[u] = stored[u],
         a = "ok" => stored'[t] = "change",
         a \in {"conflict", "refused", "failed"} => stored'[t] # "change",
         a = "busy" => stored'[t] = "nothing",
         conns'[tasks[t].conn].owner = NULL,
         conns'[tasks[t].conn].closed = Mine(t).closed,
         conns'[tasks[t].conn].shut <=> Mine(t).shut \/ tasks[t].pc = "closing",
         conns'[tasks[t].conn].tx = "none" => conns'[tasks[t].conn].dirty = {},
         stage = "serving" => conns'[tasks[t].conn].tx = "none"
  PROVE  TypeOK' /\ Settles(t)
<1>0. /\ TypeOK /\ answer[t] = "none" /\ Placed(t)
      /\ tasks[t].pc \notin {"acquire", "returning"}
  BY HolderKnows DEF Holds, Placed, Placing
<1>1. /\ tasks' \in [Tasks -> Task] /\ answer' \in [Tasks -> Replies]
      /\ OthersRest(t)
      /\ IF Reader(t) THEN /\ tasks'[t].pc \in {"acquire", "returning"}
                           /\ tasks'[t].conn = tasks[t].conn
                      ELSE tasks'[t].pc = "done"
      /\ tasks'[t].cancelled => tasks[t].cancelled
      /\ Fate(t)'
  BY <1>0, SettledIs
<1>2. DOMAIN conns' = DOMAIN conns
  BY DEF OtherConnsRest
<1>3. TypeOK'
  BY <1>0, <1>1, <1>2 DEF TypeOK
<1>4. Settles(t)
  BY <1>0, <1>1 DEF Settles, PoolRests, Mine
<1> QED
  BY <1>3, <1>4

\* A task that holds its connection, or comes to hold it, and goes on.
LEMMA AdvancingStep ==
  ASSUME ConnInv, NEW t \in Tasks, NEW r \in Task, NEW k \in Conn,
         Holds(t) \/ (tasks[t].pc = "acquire" /\ tasks[t].conn \in DOMAIN conns
                       /\ Mine(t).owner = NULL),
         tasks[t].pc # "closing", ~Mine(t).closed,
         tasks' = [tasks EXCEPT ![t] = r],
         conns' = [conns EXCEPT ![tasks[t].conn] = k],
         UNCHANGED <<writer, reopener, idle, abandoned, opened, stage, stored, answer>>,
         fileLock' \in DOMAIN conns \cup {NULL}, faults' \in 0 .. MaxFaults,
         r.pc \in Holding, r.conn = tasks[t].conn, r.cancelled => tasks[t].cancelled,
         k.owner = t, k.shut = Mine(t).shut, k.closed => r.pc = "closing",
         k.tx = "none" => k.dirty = {},
         r.pc \in {"work", "finalize"} => k.tx # "none" /\ k.dirty \subseteq {t},
         r.pc = "closing" => k.closed,
         stage = "serving" /\ r.pc = "begin" => k.tx = "none",
         r.pc = "finalize" => /\ r.cause # "none"
                              /\ r.cause = "done" => t \in k.dirty /\ r.wrote = "change"
                              /\ r.cause = "conflict" => r.wrote = "note",
         r.pc \in {"rollback", "closing"} => r.cause \in {"busy", "error"}
  PROVE  TypeOK' /\ Advances(t)
<1>0. /\ TypeOK /\ Fate(t) /\ tasks[t].conn \in DOMAIN conns /\ Placed(t)
      /\ tasks[t].pc \notin {"returning", "done"}
      /\ tasks[t].pc = "acquire" => Mine(t).owner = NULL
  BY HolderKnows DEF ConnInv, Fates, Holds, Placed, Placing, Holding
<1>1. tasks' \in [Tasks -> Task] /\ tasks'[t] = r /\ OthersRest(t)
  BY <1>0, OneTask
<1>2. /\ conns' \in Seq(Conn) /\ Len(conns') = Len(conns) /\ DOMAIN conns' = DOMAIN conns
      /\ OtherConnsRest(t)
      /\ conns'[tasks[t].conn] = k
  BY <1>0, OneConn
<1>3. TypeOK'
  BY <1>0, <1>1, <1>2 DEF TypeOK
<1>4. (Mine(t))' = k
  BY <1>1, <1>2 DEF Mine
<1>5. (FoundBy(t, Mine(t)))'
  BY <1>1, <1>4 DEF FoundBy
<1>6. Fate(t)'
  BY <1>0, <1>1, <1>4 DEF Fate, Holding
<1>7. Advances(t)
  BY <1>0, <1>1, <1>2, <1>5, <1>6 DEF Advances, PoolRests, Mine
<1> QED
  BY <1>3, <1>7

LEMMA AcquireStep ==
  ASSUME ConnInv, NEW t \in Tasks, Acquire(t)
  PROVE  TypeOK' /\ (Advances(t) \/ Settles(t))
<1>0. /\ TypeOK /\ tasks[t].pc = "acquire" /\ ~tasks[t].cancelled /\ Mine(t).owner = NULL
      /\ tasks[t] \in Task /\ tasks[t].conn \in DOMAIN conns
      /\ Mine(t) \in Conn
      /\ UNCHANGED <<writer, reopener, idle, abandoned, opened, fileLock, stored, stage, faults>>
  BY ConnShape DEF Acquire, At, ConnInv, TypeOK, Places, Placed, Placing, Mine
<1>1. CASE Mine(t).closed
  BY <1>0, <1>1, GivingUpTheLock DEF Acquire
<1>2. CASE ~Mine(t).closed
  <2> DEFINE k == [Mine(t) EXCEPT !.owner = t]
             r == [tasks[t] EXCEPT !.pc = "begin"]
  <2>1. k \in Conn /\ k.owner = t /\ k.shut = Mine(t).shut /\ k.closed = Mine(t).closed
        /\ k.tx = Mine(t).tx /\ k.dirty = Mine(t).dirty
    BY <1>0 DEF Conn
  <2>2. r \in Task /\ r.pc = "begin" /\ r.conn = tasks[t].conn /\ r.cancelled = tasks[t].cancelled
    BY <1>0 DEF Task
  <2>3. tasks' = [tasks EXCEPT ![t] = r] /\ conns' = [conns EXCEPT ![tasks[t].conn] = k]
        /\ answer' = answer
    BY <1>2 DEF Acquire, Mine
  <2>4. /\ Mine(t).tx = "none" => Mine(t).dirty = {}
        /\ stage = "serving" => Mine(t).tx = "none"
    BY <1>0 DEF ConnInv, Health, Mine
  <2>5. fileLock' \in DOMAIN conns \cup {NULL} /\ faults' \in 0 .. MaxFaults
    BY <1>0 DEF TypeOK
  <2> HIDE DEF k, r
  <2> QED
    BY <1>0, <1>2, <2>1, <2>2, <2>3, <2>4, <2>5, AdvancingStep DEF Holding
<1> QED
  BY <1>1, <1>2

LEMMA BeginStep ==
  ASSUME ConnInv, NEW t \in Tasks, Begin(t)
  PROVE  TypeOK' /\ Advances(t)
<1>0. /\ tasks[t].pc = "begin" /\ ~tasks[t].cancelled /\ Holds(t)
      /\ UNCHANGED <<writer, reopener, idle, abandoned, opened, stored, answer, stage, faults>>
  BY DEF Begin, At, Holds, Holding
<1>1. /\ TypeOK /\ tasks[t] \in Task /\ tasks[t].conn \in DOMAIN conns /\ Mine(t) \in Conn
      /\ Mine(t) = conns[tasks[t].conn]
      /\ Mine(t).owner = t /\ ~Mine(t).closed /\ Mine(t).dirty = {}
  BY <1>0, HolderKnows DEF Begin, FoundBy
<1> DEFINE tx == IF Immediate(t) THEN "immediate" ELSE "deferred"
           k == [Mine(t) EXCEPT !.tx = tx, !.stale = FALSE]
           r == [tasks[t] EXCEPT !.pc = "work"]
<1>2. k \in Conn /\ k.owner = t /\ k.shut = Mine(t).shut /\ k.closed = Mine(t).closed
      /\ k.tx # "none" /\ k.dirty = {}
  BY <1>1 DEF Conn
<1>3. r \in Task /\ r.pc = "work" /\ r.conn = tasks[t].conn /\ r.cancelled = tasks[t].cancelled
  BY <1>1 DEF Task
<1>4. tasks' = [tasks EXCEPT ![t] = r] /\ conns' = [conns EXCEPT ![tasks[t].conn] = k]
  BY <1>1 DEF Begin
<1>5. fileLock' \in DOMAIN conns \cup {NULL} /\ faults' \in 0 .. MaxFaults
  BY <1>0, <1>1 DEF Begin, TypeOK
<1> HIDE DEF k, r
<1> QED
  BY <1>0, <1>1, <1>2, <1>3, <1>4, <1>5, AdvancingStep DEF Holding

LEMMA WorkStep ==
  ASSUME ConnInv, NEW t \in Tasks, Work(t)
  PROVE  TypeOK' /\ Advances(t)
<1>0. /\ tasks[t].pc = "work" /\ ~tasks[t].cancelled /\ Holds(t)
      /\ UNCHANGED <<writer, reopener, idle, abandoned, opened, stored, answer, stage, faults>>
  BY DEF Work, At, Holds, Holding
<1>1. /\ TypeOK /\ tasks[t] \in Task /\ tasks[t].conn \in DOMAIN conns /\ Mine(t) \in Conn
      /\ Mine(t) = conns[tasks[t].conn]
      /\ Mine(t).owner = t /\ ~Mine(t).closed
      /\ Mine(t).tx # "none" /\ Mine(t).dirty \subseteq {t}
  BY <1>0, HolderKnows DEF FoundBy
<1>2. faults' \in 0 .. MaxFaults /\ fileLock \in DOMAIN conns \cup {NULL}
  BY <1>0, <1>1 DEF TypeOK
<1>3. ASSUME NEW cause \in {"done", "conflict", "error"},
             tasks' = [tasks EXCEPT ![t].pc = "finalize", ![t].cause = cause,
                                    ![t].wrote = IF cause = "conflict" THEN "note" ELSE "change"],
             conns' = [conns EXCEPT ![tasks[t].conn].dirty = @ \cup {t}],
             fileLock' = tasks[t].conn
      PROVE  TypeOK' /\ Advances(t)
  <2> DEFINE wrote == IF cause = "conflict" THEN "note" ELSE "change"
             k == [Mine(t) EXCEPT !.dirty = @ \cup {t}]
             r == [tasks[t] EXCEPT !.pc = "finalize", !.cause = cause, !.wrote = wrote]
  <2>1. k \in Conn /\ k.owner = t /\ k.shut = Mine(t).shut /\ k.closed = Mine(t).closed
        /\ k.tx # "none" /\ k.dirty = {t}
    BY <1>1 DEF Conn
  <2>2. wrote \in Effects /\ cause \in Causes /\ cause # "none"
        /\ (cause = "done" => wrote = "change") /\ (cause = "conflict" => wrote = "note")
    BY DEF Effects, Causes
  <2>3. tasks' = [tasks EXCEPT ![t] = r] /\ conns' = [conns EXCEPT ![tasks[t].conn] = k]
    <3> DEFINE p == [tasks[t] EXCEPT !.pc = "finalize", !.cause = cause]
               q == [tasks EXCEPT ![t] = p]
    <3>1. tasks \in [Tasks -> Task]
      BY <1>1 DEF TypeOK
    <3>2. tasks' = [[tasks EXCEPT ![t].pc = "finalize", ![t].cause = cause] EXCEPT
                      ![t].wrote = wrote]
      BY <1>3
    <3>3. [tasks EXCEPT ![t].pc = "finalize", ![t].cause = cause] = q
      BY <3>1
    <3>4. [q EXCEPT ![t].wrote = wrote] = [q EXCEPT ![t] = [q[t] EXCEPT !.wrote = wrote]]
      OBVIOUS
    <3>5. q[t] = p /\ r = [p EXCEPT !.wrote = wrote]
      BY <3>1
    <3>6. \A x : [q EXCEPT ![t] = x] = [tasks EXCEPT ![t] = x]
      BY <3>1
    <3>7. conns' = [conns EXCEPT ![tasks[t].conn] = k]
      BY <1>1, <1>3
    <3> QED
      BY <3>2, <3>3, <3>4, <3>5, <3>6, <3>7
  <2> HIDE DEF wrote
  <2>4. r \in Task /\ r.pc = "finalize" /\ r.conn = tasks[t].conn
        /\ r.cancelled = tasks[t].cancelled /\ r.cause = cause /\ r.wrote = wrote
    BY <1>1, <2>2 DEF Task
  <2>5. fileLock' \in DOMAIN conns \cup {NULL}
    BY <1>1, <1>3
  <2> HIDE DEF k, r
  <2> QED
    BY <1>0, <1>1, <1>2, <2>1, <2>2, <2>3, <2>4, <2>5, AdvancingStep DEF Holding
<1>4. ASSUME tasks' = [tasks EXCEPT ![t].pc = "finalize", ![t].cause = "busy"],
             UNCHANGED <<conns, fileLock>>
      PROVE  TypeOK' /\ Advances(t)
  <2> DEFINE r == [tasks[t] EXCEPT !.pc = "finalize", !.cause = "busy"]
  <2>1. r \in Task /\ r.pc = "finalize" /\ r.conn = tasks[t].conn
        /\ r.cancelled = tasks[t].cancelled /\ r.cause = "busy"
    BY <1>1 DEF Task, Causes
  <2>2. tasks' = [tasks EXCEPT ![t] = r]
    BY <1>4
  <2>4. conns' = [conns EXCEPT ![tasks[t].conn] = Mine(t)]
    BY <1>1, <1>4 DEF TypeOK
  <2>3. fileLock' \in DOMAIN conns \cup {NULL}
    BY <1>2, <1>4
  <2> HIDE DEF r
  <2> QED
    BY <1>0, <1>1, <1>2, <2>1, <2>2, <2>3, <2>4, AdvancingStep DEF Holding
<1> QED
  BY <1>3, <1>4 DEF Work

LEMMA CancelWorkStep ==
  ASSUME ConnInv, NEW t \in Tasks, CancelWork(t)
  PROVE  TypeOK' /\ Advances(t)
<1>0. /\ tasks[t].pc = "work" /\ Holds(t)
      /\ UNCHANGED <<writer, reopener, idle, abandoned, opened, stored, answer, stage, faults>>
  BY DEF CancelWork, Interrupted, Holds, Holding
<1>1. /\ TypeOK /\ tasks[t] \in Task /\ tasks[t].conn \in DOMAIN conns /\ Mine(t) \in Conn
      /\ Mine(t) = conns[tasks[t].conn]
      /\ Mine(t).owner = t /\ ~Mine(t).closed
      /\ Mine(t).tx # "none" /\ Mine(t).dirty \subseteq {t}
  BY <1>0, HolderKnows DEF FoundBy
<1>2. faults' \in 0 .. MaxFaults /\ fileLock' \in DOMAIN conns \cup {NULL}
  BY <1>0, <1>1 DEF TypeOK, CancelWork
<1> DEFINE r == [tasks[t] EXCEPT !.pc = "finalize", !.cause = "cancel", !.wrote = "change",
                                 !.cancelled = FALSE]
<1>3. "cancel" \in Causes /\ "change" \in Effects
  BY DEF Causes, Effects
<1>4. r \in Task /\ r.pc = "finalize" /\ r.conn = tasks[t].conn /\ r.cause = "cancel"
  BY <1>1, <1>3 DEF Task
<1>5. r.cancelled = FALSE
  BY <1>1 DEF Task
<1>6. tasks' = [tasks EXCEPT ![t] = r]
  <2> DEFINE p == [tasks[t] EXCEPT !.pc = "finalize", !.cause = "cancel"]
             q == [tasks EXCEPT ![t] = p]
  <2>1. tasks \in [Tasks -> Task]
    BY <1>1 DEF TypeOK
  <2>2. tasks' = [[tasks EXCEPT ![t].pc = "finalize", ![t].cause = "cancel"] EXCEPT
                    ![t].wrote = "change", ![t].cancelled = FALSE]
    BY DEF CancelWork
  <2>3. [tasks EXCEPT ![t].pc = "finalize", ![t].cause = "cancel"] = q
    BY <2>1
  <2>4. [q EXCEPT ![t].wrote = "change", ![t].cancelled = FALSE] =
           [q EXCEPT ![t] = [q[t] EXCEPT !.wrote = "change", !.cancelled = FALSE]]
    OBVIOUS
  <2>5. q[t] = p /\ r = [p EXCEPT !.wrote = "change", !.cancelled = FALSE]
    BY <2>1
  <2>6. \A x : [q EXCEPT ![t] = x] = [tasks EXCEPT ![t] = x]
    BY <2>1
  <2> QED
    BY <2>2, <2>3, <2>4, <2>5, <2>6
<1> HIDE DEF r
<1>7. PICK k \in Conn : /\ conns' = [conns EXCEPT ![tasks[t].conn] = k]
                        /\ k.owner = t /\ k.shut = Mine(t).shut /\ ~k.closed
                        /\ k.tx # "none" /\ k.dirty \subseteq {t}
  <2>1. CASE conns' = [conns EXCEPT ![tasks[t].conn].dirty = @ \cup {t}]
    <3> DEFINE k == [Mine(t) EXCEPT !.dirty = @ \cup {t}]
    <3>1. k \in Conn /\ k.owner = t /\ k.shut = Mine(t).shut /\ k.closed = Mine(t).closed
          /\ k.tx # "none" /\ k.dirty = {t}
      BY <1>1 DEF Conn
    <3>2. conns' = [conns EXCEPT ![tasks[t].conn] = k]
      BY <1>1, <2>1
    <3> HIDE DEF k
    <3> QED
      BY <1>1, <3>1, <3>2
  <2>2. CASE conns' = conns
    <3>1. conns' = [conns EXCEPT ![tasks[t].conn] = Mine(t)]
      BY <1>1, <2>2 DEF TypeOK
    <3> QED
      BY <1>1, <3>1
  <2> QED
    BY <2>1, <2>2 DEF CancelWork
<1> QED
  BY <1>0, <1>1, <1>2, <1>4, <1>5, <1>6, <1>7, AdvancingStep DEF Holding

LEMMA FinalizeFailsStep ==
  ASSUME ConnInv, NEW t \in Tasks, FinalizeFails(t)
  PROVE  TypeOK' /\ Advances(t)
<1>0. /\ tasks[t].pc = "finalize" /\ ~tasks[t].cancelled /\ Holds(t) /\ Fault
      /\ UNCHANGED <<conns, writer, reopener, idle, abandoned, opened, fileLock, stored, answer,
                     stage>>
  BY DEF FinalizeFails, At, Holds, Holding
<1>1. /\ TypeOK /\ tasks[t] \in Task /\ tasks[t].conn \in DOMAIN conns /\ Mine(t) \in Conn
      /\ Mine(t) = conns[tasks[t].conn]
      /\ Mine(t).owner = t /\ ~Mine(t).closed
      /\ Mine(t).tx = "none" => Mine(t).dirty = {}
  BY <1>0, HolderKnows DEF FoundBy
<1>2. faults' \in 0 .. MaxFaults /\ fileLock' \in DOMAIN conns \cup {NULL}
  BY <1>0, <1>1, FaultIs DEF TypeOK
<1>3. PICK cause \in {"busy", "error"} :
         tasks' = [tasks EXCEPT ![t].pc = "rollback", ![t].cause = cause]
  BY DEF FinalizeFails
<1> DEFINE r == [tasks[t] EXCEPT !.pc = "rollback", !.cause = cause]
<1>4. cause \in Causes /\ r.pc = "rollback"
  BY <1>1 DEF Causes, Task
<1>5. r \in Task /\ r.pc = "rollback" /\ r.conn = tasks[t].conn /\ r.cause \in {"busy", "error"}
      /\ r.cancelled = tasks[t].cancelled
  BY <1>1, <1>4 DEF Task
<1>6. tasks' = [tasks EXCEPT ![t] = r]
  BY <1>3
<1>7. conns' = [conns EXCEPT ![tasks[t].conn] = Mine(t)]
  BY <1>0, <1>1 DEF TypeOK
<1> HIDE DEF r
<1> QED
  BY <1>0, <1>1, <1>2, <1>5, <1>6, <1>7, AdvancingStep DEF Holding

LEMMA RollBackFailsStep ==
  ASSUME ConnInv, NEW t \in Tasks, RollBackFails(t)
  PROVE  TypeOK' /\ Advances(t)
<1>0. /\ tasks[t].pc = "rollback" /\ ~tasks[t].cancelled /\ Holds(t) /\ Fault
      /\ UNCHANGED <<writer, reopener, idle, abandoned, opened, fileLock, stored, answer, stage>>
  BY DEF RollBackFails, At, Holds, Holding
<1>1. /\ TypeOK /\ tasks[t] \in Task /\ tasks[t].conn \in DOMAIN conns /\ Mine(t) \in Conn
      /\ Mine(t) = conns[tasks[t].conn] /\ Fate(t)
      /\ Mine(t).owner = t /\ ~Mine(t).closed
      /\ Mine(t).tx = "none" => Mine(t).dirty = {}
  BY <1>0, HolderKnows DEF FoundBy
<1>2. faults' \in 0 .. MaxFaults /\ fileLock' \in DOMAIN conns \cup {NULL}
  BY <1>0, <1>1, FaultIs DEF TypeOK
<1> DEFINE r == [tasks[t] EXCEPT !.pc = "closing"]
           k == [Mine(t) EXCEPT !.closed = TRUE]
<1>3. r \in Task /\ r.pc = "closing" /\ r.conn = tasks[t].conn /\ r.cause = tasks[t].cause
      /\ r.cancelled = tasks[t].cancelled
  BY <1>1 DEF Task
<1>4. tasks[t].cause \in {"busy", "error"}
  BY <1>0, <1>1 DEF Fate
<1>5. k \in Conn /\ k.owner = t /\ k.shut = Mine(t).shut /\ k.closed = TRUE
      /\ k.tx = Mine(t).tx /\ k.dirty = Mine(t).dirty
  BY <1>1 DEF Conn
<1>6. tasks' = [tasks EXCEPT ![t] = r] /\ conns' = [conns EXCEPT ![tasks[t].conn] = k]
  BY <1>1 DEF RollBackFails
<1> HIDE DEF r, k
<1> QED
  BY <1>0, <1>1, <1>2, <1>3, <1>4, <1>5, <1>6, AdvancingStep DEF Holding

\* COMMIT and ROLLBACK, and the closing, as one rewrite of the connections.
LEMMA CommittedIs ==
  ASSUME ConnInv, NEW t \in Tasks, Holds(t), tasks[t].pc = "finalize", Committed(t)
  PROVE  /\ conns' \in Seq(Conn) /\ Len(conns') = Len(conns) /\ OtherConnsRest(t)
         /\ fileLock' \in DOMAIN conns \cup {NULL}
         /\ stored' \in [Tasks -> Effects]
         /\ \A u \in Tasks \ {t} : stored'[u] = stored[u]
         /\ stored'[t] = IF t \in Mine(t).dirty THEN tasks[t].wrote ELSE "nothing"
         /\ conns'[tasks[t].conn].owner = NULL
         /\ conns'[tasks[t].conn].closed = Mine(t).closed
         /\ conns'[tasks[t].conn].shut = Mine(t).shut
         /\ conns'[tasks[t].conn].tx = "none"
         /\ conns'[tasks[t].conn].dirty = {}
<1> DEFINE c == tasks[t].conn
           k == [conns[c] EXCEPT !.tx = "none", !.dirty = {}]
           stale(d) == conns[d].stale \/ (conns[c].dirty # {} /\ conns[d].tx = "deferred")
<1>1. /\ TypeOK /\ c \in DOMAIN conns /\ conns[c] \in Conn /\ Mine(t) = conns[c]
      /\ conns[c].owner = t /\ conns[c].dirty \subseteq {t}
      /\ stored[t] = "nothing"
  BY HolderKnows DEF FoundBy
<1>2. \A d \in DOMAIN conns : conns[d] \in Conn
  BY <1>1, ConnShape
<1>3. conns' = [d \in DOMAIN conns |->
                  IF d = c THEN Released(k, t) ELSE [conns[d] EXCEPT !.stale = stale(d)]]
  BY DEF Committed
<1>4. k \in Conn /\ k.owner = t /\ k.closed = conns[c].closed /\ k.shut = conns[c].shut
      /\ k.tx = "none" /\ k.dirty = {}
  <2>1. "none" \in {"none", "deferred", "immediate"} /\ {} \in SUBSET Tasks
    OBVIOUS
  <2> QED
    BY <1>1, <2>1 DEF Conn
<1> HIDE DEF k
<1>5. /\ Released(k, t) \in Conn /\ Released(k, t).owner = NULL
      /\ Released(k, t).tx = "none" /\ Released(k, t).dirty = {}
      /\ Released(k, t).closed = conns[c].closed /\ Released(k, t).shut = conns[c].shut
  BY <1>4, ReleasedIs
<1>6. ASSUME NEW d \in DOMAIN conns
      PROVE  /\ [conns[d] EXCEPT !.stale = stale(d)] \in Conn
             /\ Like(conns[d], [conns[d] EXCEPT !.stale = stale(d)])
  <2>1. stale(d) \in BOOLEAN
    BY <1>2 DEF Conn
  <2> HIDE DEF stale
  <2> QED
    BY <1>2, <2>1 DEF Conn, Like
<1> HIDE DEF stale
<1>7. /\ \A d \in DOMAIN conns : conns'[d] \in Conn
      /\ conns'[c] = Released(k, t)
      /\ DOMAIN conns' = DOMAIN conns
      /\ \A d \in DOMAIN conns : d # c => Like(conns[d], conns'[d])
      /\ conns' = [d \in DOMAIN conns |-> conns'[d]]
  BY <1>1, <1>3, <1>5, <1>6
<1>8. conns' \in Seq(Conn) /\ Len(conns') = Len(conns) /\ OtherConnsRest(t)
  BY <1>1, <1>7, ConnsRewritten DEF OtherConnsRest
<1>9. fileLock' \in DOMAIN conns \cup {NULL}
  BY <1>1 DEF Committed, TypeOK
<1>10. stored' = [u \in Tasks |-> IF u \in conns[c].dirty THEN tasks[u].wrote ELSE stored[u]]
  BY DEF Committed
<1>11. /\ stored' \in [Tasks -> Effects]
       /\ \A u \in Tasks \ {t} : stored'[u] = stored[u]
       /\ stored'[t] = IF t \in Mine(t).dirty THEN tasks[t].wrote ELSE "nothing"
  BY <1>1, <1>10 DEF TypeOK, Task
<1> QED
  BY <1>1, <1>5, <1>7, <1>8, <1>9, <1>11

\* A holder that lets its connection go, with the transaction it leaves there.
LEMMA LetGo ==
  ASSUME ConnInv, NEW t \in Tasks, Holds(t), NEW k \in Conn, k.owner = t,
         conns' = [conns EXCEPT ![tasks[t].conn] = Released(k, t)]
  PROVE  /\ conns' \in Seq(Conn) /\ Len(conns') = Len(conns) /\ OtherConnsRest(t)
         /\ conns'[tasks[t].conn].owner = NULL
         /\ conns'[tasks[t].conn].closed = k.closed
         /\ conns'[tasks[t].conn].shut = k.shut
         /\ conns'[tasks[t].conn].tx = k.tx
         /\ conns'[tasks[t].conn].dirty = k.dirty
<1>1. TypeOK /\ tasks[t].conn \in DOMAIN conns
  BY HolderKnows
<1>2. /\ Released(k, t) \in Conn /\ Released(k, t).owner = NULL
      /\ Released(k, t).tx = k.tx /\ Released(k, t).dirty = k.dirty
      /\ Released(k, t).closed = k.closed /\ Released(k, t).shut = k.shut
  BY ReleasedIs
<1> QED
  BY <1>1, <1>2, OneConn

LEMMA RolledBackIs ==
  ASSUME ConnInv, NEW t \in Tasks, Holds(t), RolledBack(t)
  PROVE  /\ conns' \in Seq(Conn) /\ Len(conns') = Len(conns) /\ OtherConnsRest(t)
         /\ fileLock' \in DOMAIN conns \cup {NULL}
         /\ stored' = stored
         /\ conns'[tasks[t].conn].owner = NULL
         /\ conns'[tasks[t].conn].closed = Mine(t).closed
         /\ conns'[tasks[t].conn].shut = Mine(t).shut
         /\ conns'[tasks[t].conn].tx = "none"
         /\ conns'[tasks[t].conn].dirty = {}
<1> DEFINE c == tasks[t].conn
           k == [conns[c] EXCEPT !.tx = "none", !.dirty = {}]
<1>1. /\ TypeOK /\ c \in DOMAIN conns /\ conns[c] \in Conn /\ Mine(t) = conns[c]
      /\ conns[c].owner = t
  BY HolderKnows
<1>2. k \in Conn /\ k.owner = t /\ k.closed = conns[c].closed /\ k.shut = conns[c].shut
      /\ k.tx = "none" /\ k.dirty = {}
  <2>1. "none" \in {"none", "deferred", "immediate"} /\ {} \in SUBSET Tasks
    OBVIOUS
  <2> QED
    BY <1>1, <2>1 DEF Conn
<1>3. conns' = [conns EXCEPT ![c] = Released(k, t)]
  BY DEF RolledBack
<1>4. fileLock' \in DOMAIN conns \cup {NULL} /\ stored' = stored
  BY <1>1 DEF RolledBack, TypeOK
<1> HIDE DEF k
<1>5. /\ conns' \in Seq(Conn) /\ Len(conns') = Len(conns) /\ OtherConnsRest(t)
      /\ conns'[tasks[t].conn].owner = NULL
      /\ conns'[tasks[t].conn].closed = k.closed
      /\ conns'[tasks[t].conn].shut = k.shut
      /\ conns'[tasks[t].conn].tx = k.tx
      /\ conns'[tasks[t].conn].dirty = k.dirty
  BY <1>2, <1>3, LetGo
<1> QED
  BY <1>1, <1>2, <1>4, <1>5

LEMMA ShutIs ==
  ASSUME ConnInv, NEW t \in Tasks, Holds(t),
         conns' = [conns EXCEPT ![tasks[t].conn] = Released(Shut(@), t)]
  PROVE  /\ conns' \in Seq(Conn) /\ Len(conns') = Len(conns) /\ OtherConnsRest(t)
         /\ conns'[tasks[t].conn].owner = NULL
         /\ conns'[tasks[t].conn].closed = Mine(t).closed
         /\ conns'[tasks[t].conn].shut = TRUE
         /\ conns'[tasks[t].conn].tx = "none"
         /\ conns'[tasks[t].conn].dirty = {}
<1> DEFINE c == tasks[t].conn
           p == [conns[c] EXCEPT !.shut = TRUE]
           k == [p EXCEPT !.tx = "none", !.dirty = {}]
<1>1. /\ TypeOK /\ c \in DOMAIN conns /\ conns[c] \in Conn /\ Mine(t) = conns[c]
      /\ conns[c].owner = t
  BY HolderKnows
<1>2. p \in Conn /\ p.owner = t /\ p.closed = conns[c].closed /\ p.shut = TRUE
  BY <1>1 DEF Conn
<1>3. Shut(conns[c]) = k
  BY DEF Shut
<1> HIDE DEF p
<1>4. k \in Conn /\ k.owner = t /\ k.closed = conns[c].closed /\ k.shut = TRUE
      /\ k.tx = "none" /\ k.dirty = {}
  <2>1. "none" \in {"none", "deferred", "immediate"} /\ {} \in SUBSET Tasks
    OBVIOUS
  <2> QED
    BY <1>2, <2>1 DEF Conn
<1> HIDE DEF k
<1>5. conns' = [conns EXCEPT ![c] = Released(k, t)]
  BY <1>1, <1>3
<1>6. /\ conns' \in Seq(Conn) /\ Len(conns') = Len(conns) /\ OtherConnsRest(t)
      /\ conns'[tasks[t].conn].owner = NULL
      /\ conns'[tasks[t].conn].closed = k.closed
      /\ conns'[tasks[t].conn].shut = k.shut
      /\ conns'[tasks[t].conn].tx = k.tx
      /\ conns'[tasks[t].conn].dirty = k.dirty
  BY <1>4, <1>5, LetGo
<1> QED
  BY <1>1, <1>4, <1>6

LEMMA BeginFailsStep ==
  ASSUME ConnInv, NEW t \in Tasks, BeginFails(t)
  PROVE  TypeOK' /\ Settles(t)
<1>0. /\ tasks[t].pc = "begin" /\ Holds(t)
      /\ UNCHANGED <<writer, reopener, idle, abandoned, opened, fileLock, stored, stage>>
      /\ conns' = [conns EXCEPT ![tasks[t].conn] = Released(@, t)]
  BY DEF BeginFails, At, Holds, Holding
<1>1. /\ TypeOK /\ Mine(t) \in Conn /\ Mine(t) = conns[tasks[t].conn] /\ Mine(t).owner = t
      /\ Mine(t).tx = "none" => Mine(t).dirty = {}
      /\ stage = "serving" => Mine(t).tx = "none"
      /\ stored[t] = "nothing"
  BY <1>0, HolderKnows DEF FoundBy
<1>2. conns' = [conns EXCEPT ![tasks[t].conn] = Released(Mine(t), t)]
  BY <1>0, <1>1
<1>3. /\ conns' \in Seq(Conn) /\ Len(conns') = Len(conns) /\ OtherConnsRest(t)
      /\ conns'[tasks[t].conn].owner = NULL
      /\ conns'[tasks[t].conn].closed = Mine(t).closed
      /\ conns'[tasks[t].conn].shut = Mine(t).shut
      /\ conns'[tasks[t].conn].tx = Mine(t).tx
      /\ conns'[tasks[t].conn].dirty = Mine(t).dirty
  BY <1>0, <1>1, <1>2, LetGo
<1>4. PICK a \in {"busy", "failed"} : Settled(t, a)
  BY DEF BeginFails
<1>5. a \in (Replies \ {"none"}) \cup {"busy"} /\ a # "ok"
  BY DEF Replies
<1>6. faults' \in 0 .. MaxFaults /\ fileLock' \in DOMAIN conns \cup {NULL}
      /\ stored' \in [Tasks -> Effects] /\ stored' = stored
  BY <1>0, <1>1, FaultIs DEF BeginFails, TypeOK
<1> QED
  BY <1>0, <1>1, <1>3, <1>4, <1>5, <1>6, SettlingStep

\* What a task is about to answer is what its transaction will have stored.
LEMMA AnswerIs ==
  ASSUME ConnInv, NEW t \in Tasks, tasks[t].pc \in {"finalize", "rollback", "closing"}
  PROVE  /\ AnswerOf(t) \in (Replies \ {"none"}) \cup {"busy"}
         /\ Commits(t) /\ tasks[t].pc = "finalize" =>
               \/ AnswerOf(t) = "ok" /\ t \in Mine(t).dirty /\ tasks[t].wrote = "change"
               \/ AnswerOf(t) = "conflict" /\ tasks[t].wrote = "note"
         /\ ~(Commits(t) /\ tasks[t].pc = "finalize") =>
               AnswerOf(t) \in {"busy", "failed", "cancelled"}
<1>1. Fate(t) /\ tasks[t].cause \in Causes
  BY TaskShape DEF ConnInv, Fates
<1>2. CASE tasks[t].pc = "finalize" /\ tasks[t].cause = "done"
  BY <1>1, <1>2 DEF Fate, AnswerOf, Commits, Replies
<1>3. CASE tasks[t].pc = "finalize" /\ tasks[t].cause = "conflict"
  BY <1>1, <1>3 DEF Fate, AnswerOf, Commits, Replies
<1>4. CASE tasks[t].cause = "busy"
  BY <1>4 DEF AnswerOf, Commits, Replies
<1>5. CASE tasks[t].cause = "error"
  BY <1>5 DEF AnswerOf, Commits, Replies
<1>6. CASE tasks[t].cause = "cancel"
  BY <1>6 DEF AnswerOf, Commits, Replies
<1> QED
  BY <1>1, <1>2, <1>3, <1>4, <1>5, <1>6 DEF Fate, Causes

LEMMA FinalizeStep ==
  ASSUME ConnInv, NEW t \in Tasks, Finalize(t)
  PROVE  TypeOK' /\ Settles(t)
<1>0. /\ tasks[t].pc = "finalize" /\ Holds(t) /\ Settled(t, AnswerOf(t))
      /\ UNCHANGED <<writer, reopener, idle, abandoned, opened, stage, faults>>
  BY DEF Finalize, At, Holds, Holding
<1>1. /\ TypeOK /\ stored[t] = "nothing" /\ faults' \in 0 .. MaxFaults
  BY <1>0, HolderKnows DEF TypeOK
<1>2. PICK a : a = AnswerOf(t)
  OBVIOUS
<1>3. Settled(t, a) /\ a \in (Replies \ {"none"}) \cup {"busy"}
  BY <1>0, <1>2, AnswerIs
<1>4. CASE Commits(t)
  <2>1. Committed(t)
    BY <1>4 DEF Finalize
  <2>2. /\ conns' \in Seq(Conn) /\ Len(conns') = Len(conns) /\ OtherConnsRest(t)
        /\ fileLock' \in DOMAIN conns \cup {NULL}
        /\ stored' \in [Tasks -> Effects]
        /\ \A u \in Tasks \ {t} : stored'[u] = stored[u]
        /\ stored'[t] = IF t \in Mine(t).dirty THEN tasks[t].wrote ELSE "nothing"
        /\ conns'[tasks[t].conn].owner = NULL
        /\ conns'[tasks[t].conn].closed = Mine(t).closed
        /\ conns'[tasks[t].conn].shut = Mine(t).shut
        /\ conns'[tasks[t].conn].tx = "none"
        /\ conns'[tasks[t].conn].dirty = {}
    BY <1>0, <2>1, CommittedIs
  <2>3. \/ a = "ok" /\ t \in Mine(t).dirty /\ tasks[t].wrote = "change"
        \/ a = "conflict" /\ tasks[t].wrote = "note"
    BY <1>0, <1>2, <1>4, AnswerIs
  <2>4. /\ a = "ok" => stored'[t] = "change"
        /\ a \in {"conflict", "refused", "failed"} => stored'[t] # "change"
        /\ a # "busy"
    BY <2>2, <2>3
  <2> QED
    BY <1>0, <1>1, <1>3, <2>2, <2>4, SettlingStep
<1>5. CASE ~Commits(t)
  <2>1. RolledBack(t)
    BY <1>5 DEF Finalize
  <2>2. /\ conns' \in Seq(Conn) /\ Len(conns') = Len(conns) /\ OtherConnsRest(t)
        /\ fileLock' \in DOMAIN conns \cup {NULL}
        /\ stored' = stored
        /\ conns'[tasks[t].conn].owner = NULL
        /\ conns'[tasks[t].conn].closed = Mine(t).closed
        /\ conns'[tasks[t].conn].shut = Mine(t).shut
        /\ conns'[tasks[t].conn].tx = "none"
        /\ conns'[tasks[t].conn].dirty = {}
    BY <1>0, <2>1, RolledBackIs
  <2>3. a # "ok"
    BY <1>0, <1>2, <1>5, AnswerIs
  <2>4. stored' \in [Tasks -> Effects]
    BY <1>1, <2>2 DEF TypeOK
  <2> QED
    BY <1>0, <1>1, <1>3, <2>2, <2>3, <2>4, SettlingStep
<1> QED
  BY <1>4, <1>5

LEMMA RollBackStep ==
  ASSUME ConnInv, NEW t \in Tasks, RollBack(t)
  PROVE  TypeOK' /\ Settles(t)
<1>0. /\ tasks[t].pc = "rollback" /\ Holds(t) /\ Settled(t, AnswerOf(t)) /\ RolledBack(t)
      /\ UNCHANGED <<writer, reopener, idle, abandoned, opened, stage, faults>>
  BY DEF RollBack, At, Holds, Holding
<1>1. /\ TypeOK /\ stored[t] = "nothing" /\ faults' \in 0 .. MaxFaults
  BY <1>0, HolderKnows DEF TypeOK
<1>2. PICK a : a = AnswerOf(t)
  OBVIOUS
<1>3. Settled(t, a) /\ a \in (Replies \ {"none"}) \cup {"busy"} /\ a # "ok"
  BY <1>0, <1>2, AnswerIs
<1>4. /\ conns' \in Seq(Conn) /\ Len(conns') = Len(conns) /\ OtherConnsRest(t)
      /\ fileLock' \in DOMAIN conns \cup {NULL}
      /\ stored' = stored
      /\ conns'[tasks[t].conn].owner = NULL
      /\ conns'[tasks[t].conn].closed = Mine(t).closed
      /\ conns'[tasks[t].conn].shut = Mine(t).shut
      /\ conns'[tasks[t].conn].tx = "none"
      /\ conns'[tasks[t].conn].dirty = {}
  BY <1>0, RolledBackIs
<1>5. stored' \in [Tasks -> Effects]
  BY <1>1, <1>4 DEF TypeOK
<1> QED
  BY <1>0, <1>1, <1>3, <1>4, <1>5, SettlingStep

LEMMA CloseStep ==
  ASSUME ConnInv, NEW t \in Tasks, Close(t)
  PROVE  TypeOK' /\ Settles(t)
<1>0. /\ tasks[t].pc = "closing" /\ Holds(t) /\ Settled(t, AnswerOf(t))
      /\ conns' = [conns EXCEPT ![tasks[t].conn] = Released(Shut(@), t)]
      /\ UNCHANGED <<writer, reopener, idle, abandoned, opened, stored, stage, faults>>
  BY DEF Close, At, Holds, Holding
<1>1. /\ TypeOK /\ stored[t] = "nothing" /\ faults' \in 0 .. MaxFaults
      /\ fileLock' \in DOMAIN conns \cup {NULL} /\ stored' \in [Tasks -> Effects]
  BY <1>0, HolderKnows DEF TypeOK, Close
<1>2. PICK a : a = AnswerOf(t)
  OBVIOUS
<1>3. Settled(t, a) /\ a \in (Replies \ {"none"}) \cup {"busy"} /\ a # "ok"
  BY <1>0, <1>2, AnswerIs
<1>4. /\ conns' \in Seq(Conn) /\ Len(conns') = Len(conns) /\ OtherConnsRest(t)
      /\ conns'[tasks[t].conn].owner = NULL
      /\ conns'[tasks[t].conn].closed = Mine(t).closed
      /\ conns'[tasks[t].conn].shut = TRUE
      /\ conns'[tasks[t].conn].tx = "none"
      /\ conns'[tasks[t].conn].dirty = {}
  BY <1>0, ShutIs
<1>5. stored' = stored
      /\ UNCHANGED <<writer, reopener, idle, abandoned, opened, stage>>
  BY <1>0
<1>6. tasks[t].pc = "closing" /\ Holds(t)
  BY <1>0
<1> QED
  BY <1>1, <1>3, <1>4, <1>5, <1>6, SettlingStep

LEMMA CancelBeginStep ==
  ASSUME ConnInv, NEW t \in Tasks, CancelBegin(t)
  PROVE  TypeOK' /\ Settles(t)
<1>0. /\ tasks[t].pc = "begin" /\ tasks[t].cancelled /\ Holds(t) /\ Settled(t, "cancelled")
      /\ UNCHANGED <<writer, reopener, idle, abandoned, opened, stored, stage, faults>>
  BY DEF CancelBegin, Interrupted, Holds, Holding
<1>1. /\ TypeOK /\ Mine(t) \in Conn /\ Mine(t) = conns[tasks[t].conn] /\ Mine(t).owner = t
      /\ tasks[t].conn \in DOMAIN conns
      /\ Mine(t).tx = "none" => Mine(t).dirty = {}
      /\ stage # "serving"
  BY <1>0, HolderKnows DEF FoundBy
<1>2. PICK k \in Conn : /\ conns' = [conns EXCEPT ![tasks[t].conn] = Released(k, t)]
                        /\ k.owner = t /\ k.closed = Mine(t).closed /\ k.shut = Mine(t).shut
                        /\ k.tx = "none" => k.dirty = {}
  <2>1. CASE conns' = [conns EXCEPT ![tasks[t].conn] = Released(@, t)]
    <3>1. conns' = [conns EXCEPT ![tasks[t].conn] = Released(Mine(t), t)]
      BY <1>1, <2>1
    <3> QED
      BY <1>1, <3>1
  <2>2. CASE /\ Mine(t).tx = "none"
             /\ conns' = [conns EXCEPT ![tasks[t].conn] = Released(
                   [@ EXCEPT !.tx = IF Immediate(t) THEN "immediate" ELSE "deferred"], t)]
    <3> DEFINE x == IF Immediate(t) THEN "immediate" ELSE "deferred"
               k == [Mine(t) EXCEPT !.tx = x]
    <3>1. x \in {"none", "deferred", "immediate"} /\ x # "none"
      OBVIOUS
    <3>2. conns' = [conns EXCEPT ![tasks[t].conn] = Released(k, t)]
      BY <1>1, <2>2
    <3> HIDE DEF x
    <3>3. k \in Conn /\ k.owner = t /\ k.closed = Mine(t).closed /\ k.shut = Mine(t).shut
          /\ k.tx # "none"
      BY <1>1, <3>1 DEF Conn
    <3> HIDE DEF k
    <3> QED
      BY <3>2, <3>3
  <2> QED
    BY <2>1, <2>2 DEF CancelBegin
<1>3. /\ conns' \in Seq(Conn) /\ Len(conns') = Len(conns) /\ OtherConnsRest(t)
      /\ conns'[tasks[t].conn].owner = NULL
      /\ conns'[tasks[t].conn].closed = k.closed
      /\ conns'[tasks[t].conn].shut = k.shut
      /\ conns'[tasks[t].conn].tx = k.tx
      /\ conns'[tasks[t].conn].dirty = k.dirty
  BY <1>0, <1>2, LetGo
<1>4. "cancelled" \in (Replies \ {"none"}) \cup {"busy"}
  BY DEF Replies
<1>5. faults' \in 0 .. MaxFaults /\ fileLock' \in DOMAIN conns \cup {NULL}
      /\ stored' \in [Tasks -> Effects] /\ stored' = stored
  BY <1>0, <1>1 DEF CancelBegin, TypeOK
<1>6. /\ conns'[tasks[t].conn].closed = Mine(t).closed
      /\ conns'[tasks[t].conn].shut <=> Mine(t).shut \/ tasks[t].pc = "closing"
      /\ conns'[tasks[t].conn].tx = "none" => conns'[tasks[t].conn].dirty = {}
      /\ stage = "serving" => conns'[tasks[t].conn].tx = "none"
  BY <1>0, <1>1, <1>2, <1>3
<1> QED
  BY <1>0, <1>3, <1>4, <1>5, <1>6, SettlingStep

LEMMA CancelFinalizeStep ==
  ASSUME ConnInv, NEW t \in Tasks, CancelFinalize(t)
  PROVE  TypeOK' /\ Settles(t)
<1>0. /\ tasks[t].pc \in {"finalize", "rollback", "closing"} /\ tasks[t].cancelled
      /\ Holds(t) /\ Settled(t, "cancelled")
      /\ UNCHANGED <<writer, reopener, idle, abandoned, opened, stage>>
  BY DEF CancelFinalize, Interrupted, Holds, Holding
<1>1. /\ TypeOK /\ Mine(t) \in Conn /\ Mine(t) = conns[tasks[t].conn] /\ Mine(t).owner = t
      /\ tasks[t].conn \in DOMAIN conns
      /\ Mine(t).tx = "none" => Mine(t).dirty = {}
      /\ stage # "serving"
  BY <1>0, HolderKnows
<1>2. "cancelled" \in (Replies \ {"none"}) \cup {"busy"}
  BY DEF Replies
<1>3. ASSUME conns' \in Seq(Conn), Len(conns') = Len(conns), OtherConnsRest(t),
             fileLock' \in DOMAIN conns \cup {NULL}, faults' \in 0 .. MaxFaults,
             stored' \in [Tasks -> Effects],
             \A u \in Tasks \ {t} : stored'[u] = stored[u],
             conns'[tasks[t].conn].owner = NULL,
             conns'[tasks[t].conn].closed = Mine(t).closed,
             conns'[tasks[t].conn].shut <=> Mine(t).shut \/ tasks[t].pc = "closing",
             conns'[tasks[t].conn].tx = "none" => conns'[tasks[t].conn].dirty = {}
      PROVE  TypeOK' /\ Settles(t)
  BY <1>0, <1>1, <1>2, <1>3, SettlingStep
<1>4. CASE tasks[t].pc = "finalize" /\ Committed(t) /\ faults' = faults
  <2>1. /\ conns' \in Seq(Conn) /\ Len(conns') = Len(conns) /\ OtherConnsRest(t)
        /\ fileLock' \in DOMAIN conns \cup {NULL}
        /\ stored' \in [Tasks -> Effects]
        /\ \A u \in Tasks \ {t} : stored'[u] = stored[u]
        /\ conns'[tasks[t].conn].owner = NULL
        /\ conns'[tasks[t].conn].closed = Mine(t).closed
        /\ conns'[tasks[t].conn].shut = Mine(t).shut
        /\ conns'[tasks[t].conn].dirty = {}
    BY <1>0, <1>4, CommittedIs
  <2>2. faults' \in 0 .. MaxFaults
    BY <1>1, <1>4 DEF TypeOK
  <2> QED
    BY <1>3, <1>4, <2>1, <2>2
<1>5. CASE tasks[t].pc # "closing" /\ RolledBack(t) /\ faults' = faults
  <2>1. /\ conns' \in Seq(Conn) /\ Len(conns') = Len(conns) /\ OtherConnsRest(t)
        /\ fileLock' \in DOMAIN conns \cup {NULL}
        /\ stored' = stored
        /\ conns'[tasks[t].conn].owner = NULL
        /\ conns'[tasks[t].conn].closed = Mine(t).closed
        /\ conns'[tasks[t].conn].shut = Mine(t).shut
        /\ conns'[tasks[t].conn].dirty = {}
    BY <1>0, <1>5, RolledBackIs
  <2>2. faults' \in 0 .. MaxFaults /\ stored' \in [Tasks -> Effects]
    BY <1>1, <1>5, <2>1 DEF TypeOK
  <2> QED
    BY <1>3, <1>5, <2>1, <2>2
<1>6. CASE /\ tasks[t].pc = "closing"
           /\ conns' = [conns EXCEPT ![tasks[t].conn] = Released(Shut(@), t)]
           /\ fileLock' = (IF fileLock = tasks[t].conn THEN NULL ELSE fileLock)
           /\ UNCHANGED <<stored, faults>>
  <2>1. /\ conns' \in Seq(Conn) /\ Len(conns') = Len(conns) /\ OtherConnsRest(t)
        /\ conns'[tasks[t].conn].owner = NULL
        /\ conns'[tasks[t].conn].closed = Mine(t).closed
        /\ conns'[tasks[t].conn].shut = TRUE
        /\ conns'[tasks[t].conn].dirty = {}
    BY <1>0, <1>6, ShutIs
  <2>2. faults' \in 0 .. MaxFaults /\ stored' \in [Tasks -> Effects] /\ stored' = stored
        /\ fileLock' \in DOMAIN conns \cup {NULL} /\ tasks[t].pc = "closing"
    BY <1>1, <1>6 DEF TypeOK
  <2> QED
    BY <1>3, <2>1, <2>2
<1>7. CASE /\ tasks[t].pc # "closing"
           /\ Fault
           /\ conns' = [conns EXCEPT ![tasks[t].conn] = Released(@, t)]
           /\ UNCHANGED <<fileLock, stored>>
  <2>1. conns' = [conns EXCEPT ![tasks[t].conn] = Released(Mine(t), t)]
    BY <1>1, <1>7
  <2>2. /\ conns' \in Seq(Conn) /\ Len(conns') = Len(conns) /\ OtherConnsRest(t)
        /\ conns'[tasks[t].conn].owner = NULL
        /\ conns'[tasks[t].conn].closed = Mine(t).closed
        /\ conns'[tasks[t].conn].shut = Mine(t).shut
        /\ conns'[tasks[t].conn].tx = Mine(t).tx
        /\ conns'[tasks[t].conn].dirty = Mine(t).dirty
    BY <1>0, <1>1, <2>1, LetGo
  <2>3. faults' \in 0 .. MaxFaults /\ stored' \in [Tasks -> Effects] /\ stored' = stored
        /\ fileLock' \in DOMAIN conns \cup {NULL} /\ tasks[t].pc # "closing"
    BY <1>1, <1>7, FaultIs DEF TypeOK
  <2> QED
    BY <1>1, <1>3, <2>2, <2>3
<1> QED
  BY <1>4, <1>5, <1>6, <1>7 DEF CancelFinalize

-----------------------------------------------------------------------------
(* Every step. *)

LEMMA TaskStepIs ==
  ASSUME ConnInv, NEW t \in Tasks, Step(t)
  PROVE  ConnInv'
<1>1. CASE Writer(t) \/ Reopen(t) \/ Take(t) \/ OpenChecked(t) \/ OpenFails(t)
  BY <1>1, WriterStep, ReopenStep, TakeStep, OpenStep, OpenFailsStep,
     WaitKeepsInv, JoinKeepsInv, OpenKeepsInv
<1>2. CASE GiveBack(t) \/ Abandon(t)
  BY <1>2, GiveBackStep, AbandonStep, ReturnKeepsInv
<1>3. CASE LockWaitExpired(t) \/ CancelWait(t)
  BY <1>3, LockWaitExpiredStep, CancelWaitStep, WaitKeepsInv, SettleKeepsInv
<1>4. CASE Acquire(t) \/ Begin(t) \/ Work(t) \/ CancelWork(t) \/ FinalizeFails(t)
           \/ RollBackFails(t)
  BY <1>4, AcquireStep, BeginStep, WorkStep, CancelWorkStep, FinalizeFailsStep,
     RollBackFailsStep, AdvanceKeepsInv, SettleKeepsInv
<1>5. CASE BeginFails(t) \/ Finalize(t) \/ RollBack(t) \/ Close(t) \/ CancelBegin(t)
           \/ CancelFinalize(t)
  BY <1>5, BeginFailsStep, FinalizeStep, RollBackStep, CloseStep, CancelBeginStep,
     CancelFinalizeStep, SettleKeepsInv
<1> QED
  BY <1>1, <1>2, <1>3, <1>4, <1>5 DEF Step

LEMMA UnchangedKeepsInv ==
  ASSUME ConnInv, UNCHANGED vars
  PROVE  ConnInv'
<1>1. UNCHANGED <<conns, writer, reopener, idle, abandoned, opened, fileLock, stored, tasks,
                  answer, stage, faults>>
  BY DEF vars
<1>2. \A t \in Tasks : (Mine(t))' = Mine(t)
  BY <1>1 DEF Mine
<1> QED
  BY <1>1, <1>2 DEF ConnInv, TypeOK, Places, Owners, Health, Fates, Fate, Counted, Placed, Holds,
                    FoundBy, Kept, Leasing, Leases, Opening, Reader, Mine

\* Every connection has its place and at most one owner, who finds it open, with
\* no rows of another's; every request is where what is stored of it says.
THEOREM ConnectionsInvHolds == Spec => []ConnInv
<1>1. Init => ConnInv
  BY InitIsConnInv
<1>2. ASSUME ConnInv, [Next]_vars
      PROVE  ConnInv'
  <2>1. CASE Stop
    BY <1>2, <2>1, StopKeepsInv
  <2>2. CASE CloseStore
    BY <1>2, <2>2, CloseStoreKeepsInv
  <2>3. ASSUME NEW t \in Tasks, Step(t)
        PROVE  ConnInv'
    BY <1>2, <2>3, TaskStepIs
  <2>4. CASE UNCHANGED vars
    BY <1>2, <2>4, UnchangedKeepsInv
  <2> QED
    BY <1>2, <2>1, <2>2, <2>3, <2>4 DEF Next
<1> QED
  BY <1>1, <1>2, PTL DEF Spec

-----------------------------------------------------------------------------
(* What it entails. *)

\* Connections, requests and the pool keep their shape, and the pool its size.
THEOREM ConnectionsTypeCorrect == Spec => []TypeOK
<1>1. ConnInv => TypeOK
  BY DEF ConnInv
<1> QED
  BY <1>1, ConnectionsInvHolds, PTL

\* The pool's count is that of the connections it may have open, each in one
\* place, none marked, and no reader sleeps beside one it could have (pool.py).
THEOREM PoolStaysHonest == Spec => []PoolHonest
<1>1. ConnInv => PoolHonest
  <2> SUFFICES ASSUME ConnInv, stage # "down"
               PROVE  /\ opened = Len(idle) + Cardinality(Leasing) + Cardinality(Opening)
                                  + Cardinality(abandoned)
                      /\ IsInjective(idle)
                      /\ \A t \in Leasing :
                            /\ tasks[t].conn \notin ToSet(idle) \cup abandoned \cup {writer}
                            /\ \A u \in Leasing \ {t} : tasks[u].conn # tasks[t].conn
                      /\ \A c \in ToSet(idle) : ~conns[c].closed /\ conns[c].owner = NULL
                      /\ (\E t \in Tasks : tasks[t].pc = "asleep") =>
                            idle = <<>> /\ opened = PoolSize
    BY DEF PoolHonest, Leasing, Opening
  <2>1. TypeOK /\ Places /\ Owners /\ Health /\ Counted
    BY DEF ConnInv
  <2>2. \A t \in Leasing : t \in Tasks /\ Placed(t) /\ Reader(t)
    BY DEF Leasing, Leases, Placed, Placing, Holding
  <2>3. ASSUME NEW c \in ToSet(idle)
        PROVE  ~conns[c].closed /\ conns[c].owner = NULL
    <3>1. c \in DOMAIN conns /\ ~conns[c].closed
      BY <2>1, IdleShape DEF Health
    <3>2. SUFFICES ASSUME conns[c].owner # NULL PROVE FALSE
      BY <3>1
    <3>3. PICK o \in Tasks : o = conns[c].owner /\ Holds(o) /\ tasks[o].conn = c
      BY <2>1, <3>1, <3>2, ConnShape DEF Owners
    <3> QED
      BY <2>1, <3>3 DEF Places, Placed, Placing, Holds
  <2> QED
    BY <2>1, <2>2, <2>3 DEF Counted, Places
<1> QED
  BY <1>1, ConnectionsInvHolds, PTL

\* Whoever works has its connection to itself, with a transaction open that
\* holds nobody else's rows, however an earlier one ended (transactions.py).
THEOREM TransactionsStayOwn == Spec => []TransactionsAreOwn
<1>1. ConnInv => TransactionsAreOwn
  <2> SUFFICES ASSUME ConnInv, NEW t \in Tasks, tasks[t].pc \in {"work", "finalize"}
               PROVE  /\ Mine(t).owner = t
                      /\ ~Mine(t).closed /\ ~Mine(t).shut
                      /\ Mine(t).tx # "none"
                      /\ Mine(t).dirty \subseteq {t}
    BY DEF TransactionsAreOwn
  <2>1. Holds(t)
    BY DEF Holds, Holding
  <2>2. /\ Mine(t).owner = t /\ ~Mine(t).closed /\ Mine(t).tx # "none"
        /\ Mine(t).dirty \subseteq {t} /\ stage # "down"
        /\ tasks[t].conn \in DOMAIN conns /\ Mine(t) = conns[tasks[t].conn]
    BY <2>1, HolderKnows DEF FoundBy
  <2>3. ~Mine(t).shut
    BY <2>2 DEF ConnInv, Health
  <2> QED
    BY <2>2, <2>3
<1> QED
  BY <1>1, ConnectionsInvHolds, PTL

\* No transaction outlives its owner while the service runs, and no connection
\* outlives the service (Store.close).
THEOREM NothingIsLeftOpen == Spec => []NothingLeftOpen
<1>1. ConnInv => NothingLeftOpen
  BY DEF ConnInv, Health, NothingLeftOpen
<1> QED
  BY <1>1, ConnectionsInvHolds, PTL

\* A step of a task changes what is stored of it alone, and answers it alone.
LEMMA StepIsOwn ==
  ASSUME ConnInv, NEW t \in Tasks, Step(t)
  PROVE  /\ tasks[t].pc # "done"
         /\ tasks[t].pc = "returning" => stored' = stored
         /\ \A u \in Tasks \ {t} : stored'[u] = stored[u] /\ answer'[u] = answer[u]
<1>1. tasks[t].pc # "done" /\ (tasks[t].pc = "returning" => stored' = stored)
  BY DEF Step, Writer, Reopen, Take, OpenChecked, OpenFails, GiveBack, LockWaitExpired, Acquire,
         Begin, BeginFails, Work, Finalize, FinalizeFails, RollBack, RollBackFails, Close,
         CancelWait, CancelBegin, CancelWork, CancelFinalize, Abandon, At, Interrupted
<1>2. CASE OpenChecked(t)
  BY <1>1, <1>2 DEF OpenChecked
<1>3. CASE ~OpenChecked(t)
  <2>1. OthersRest(t)
    <3>1. Waits(t) \/ Joins(t) \/ Returns(t) \/ Advances(t) \/ Settles(t)
      BY <1>3, WriterStep, ReopenStep, TakeStep, OpenFailsStep, GiveBackStep, AbandonStep,
         LockWaitExpiredStep, CancelWaitStep, AcquireStep, BeginStep, WorkStep, CancelWorkStep,
         FinalizeFailsStep, RollBackFailsStep, BeginFailsStep, FinalizeStep, RollBackStep,
         CloseStep, CancelBeginStep, CancelFinalizeStep DEF Step
    <3> QED
      BY <3>1 DEF Waits, Joins, Returns, Advances, Settles
  <2> QED
    BY <1>1, <2>1 DEF OthersRest
<1> QED
  BY <1>1, <1>2, <1>3

\* A request changes the store at most once, and what its answer says of that is
\* true: the connections keep what AtMostOnce promises.
THEOREM ConnectionsImplementAtMostOnce == Spec => AnswersAreTrue
<1> DEFINE applied == [t \in Tasks |-> IF stored[t] = "change" THEN 1 ELSE 0]
<1>1. Init => Abstract!Init
  BY DEF Init, Abstract!Init, Told
<1>2. ConnInv /\ ConnInv' /\ [Next]_vars => [Abstract!Next]_<<applied, Told>>
  <2> SUFFICES ASSUME ConnInv, ConnInv', [Next]_vars
               PROVE  [Abstract!Next]_<<applied, Told>>
    OBVIOUS
  <2>1. CASE UNCHANGED <<stored, answer>>
    BY <2>1 DEF Told
  <2>2. ASSUME NEW t \in Tasks, Step(t)
        PROVE  [Abstract!Next]_<<applied, Told>>
    <3>1. /\ tasks[t].pc # "done"
          /\ tasks[t].pc = "returning" => stored' = stored
          /\ \A u \in Tasks \ {t} : stored'[u] = stored[u] /\ answer'[u] = answer[u]
      BY <2>2, StepIsOwn
    <3>2. /\ answer[t] = "none" /\ answer'[t] \in Replies
          /\ stored[t] = "change" => stored'[t] = "change"
      BY <3>1 DEF ConnInv, TypeOK, Fates, Fate
    <3>3. /\ applied' = [applied EXCEPT ![t] = IF stored'[t] = "change" THEN 1 ELSE 0]
      <4>1. \A u \in Tasks : applied'[u] =
                [applied EXCEPT ![t] = IF stored'[t] = "change" THEN 1 ELSE 0][u]
        BY <3>1
      <4> QED
        BY <4>1
    <3> DEFINE told == CASE answer'[t] = "none" -> "none"
                         [] answer'[t] = "ok" -> "done"
                         [] answer'[t] = "cancelled" -> "unknown"
                         [] OTHER -> "refused"
    <3>4. Told' = [Told EXCEPT ![t] = told]
      <4>1. \A u \in Tasks : Told'[u] = [Told EXCEPT ![t] = told][u]
        BY <3>1 DEF Told
      <4> QED
        BY <4>1 DEF Told
    <3>5. /\ Told[t] = "none"
          /\ told \in Abstract!Answers
      BY <3>2 DEF Told, Abstract!Answers
    <3>6. /\ told = "done" => stored'[t] = "change"
          /\ told = "refused" => stored'[t] # "change"
      <4>1. Fate(t)' /\ tasks'[t] \in Task
        BY DEF ConnInv, Fates, TypeOK
      <4>2. told = "done" => answer'[t] = "ok"
        OBVIOUS
      <4>3. told = "refused" => answer'[t] \in {"conflict", "refused", "failed"}
        BY <3>2 DEF Replies
      <4> QED
        BY <4>1, <4>2, <4>3 DEF Fate
    <3>7. applied'[t] = IF stored'[t] = "change" THEN 1 ELSE 0
      OBVIOUS
    <3>8. told = "none" => Told' = Told
      <4>1. told = "none" => \A u \in Tasks : Told'[u] = Told[u]
        BY <3>4, <3>5
      <4> QED
        BY <4>1 DEF Told
    <3> HIDE DEF told
    <3>9. told # "none" => Abstract!Answer(t)
      BY <3>4, <3>5, <3>6, <3>7 DEF Abstract!Answer
    <3>10. CASE stored[t] # "change" /\ stored'[t] = "change"
      <4>1. applied[t] = 0 /\ applied' = [applied EXCEPT ![t] = 1]
        BY <3>3, <3>10
      <4>2. told # "refused"
        BY <3>6, <3>10
      <4>3. Abstract!Apply(t)
        BY <3>5, <4>1 DEF Abstract!Apply
      <4> QED
        BY <3>8, <3>9, <4>3 DEF Abstract!Next
    <3>11. CASE ~(stored[t] # "change" /\ stored'[t] = "change")
      <4>1. applied' = applied
        <5>1. \A u \in Tasks : stored'[u] = "change" <=> stored[u] = "change"
          BY <3>1, <3>2, <3>11
        <5> QED
          BY <5>1
      <4> QED
        BY <3>8, <3>9, <4>1 DEF Abstract!Next
    <3> QED
      BY <3>10, <3>11
  <2>3. CASE Stop \/ CloseStore \/ UNCHANGED vars
    BY <2>1, <2>3 DEF Stop, CloseStore, vars
  <2> QED
    BY <2>2, <2>3 DEF Next
<1>3. ConnInv /\ ConnInv' /\ [Next]_vars =>
         [Abstract!Next]_<<[t \in Tasks |-> IF stored[t] = "change" THEN 1 ELSE 0], Told>>
  BY <1>2
<1> QED
  BY <1>1, <1>3, ConnectionsInvHolds, PTL DEF Spec, AnswersAreTrue, Abstract!Spec
=============================================================================
