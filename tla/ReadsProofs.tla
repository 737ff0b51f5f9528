----------------------------- MODULE ReadsProofs -----------------------------
(***************************************************************************)
(* What the reads answer, for any number of rows, any index and any depth, *)
(* and what a plan is, whatever is measured of the rows.                   *)
(***************************************************************************)
EXTENDS Reads, RecordsProofs, SequenceTheorems, FiniteSetTheorems

-----------------------------------------------------------------------------
(* Lists. *)

LEMMA MinIs ==
  ASSUME NEW T \in SUBSET Nat, T # {}
  PROVE  Min(T) \in T /\ \A k \in T : Min(T) <= k
BY LeastNat DEF Min

LEMMA RemoveIs ==
  ASSUME NEW S, NEW w \in Seq(S), NEW i \in 1 .. Len(w)
  PROVE  /\ RemoveAt(w, i) \in Seq(S)
         /\ Len(RemoveAt(w, i)) = Len(w) - 1
         /\ \A j \in 1 .. Len(w) - 1 : RemoveAt(w, i)[j] = IF j < i THEN w[j] ELSE w[j + 1]
<1>1. Len(w) \in Nat
  OBVIOUS
<1> DEFINE before == SubSeq(w, 1, i - 1)
           after == SubSeq(w, i + 1, Len(w))
<1>2. /\ before \in Seq(S) /\ Len(before) = i - 1
      /\ \A j \in 1 .. i - 1 : before[j] = w[j]
  BY <1>1, SubSeqProperties
<1>3. /\ after \in Seq(S) /\ Len(after) = Len(w) - i
      /\ \A j \in 1 .. Len(w) - i : after[j] = w[i + j]
  BY <1>1, SubSeqProperties
<1> HIDE DEF before, after
<1>4. /\ before \o after \in Seq(S) /\ Len(before \o after) = Len(w) - 1
      /\ \A j \in 1 .. Len(w) - 1 :
            (before \o after)[j] = IF j <= Len(before) THEN before[j] ELSE after[j - Len(before)]
  <2>1. /\ before \o after \in Seq(S) /\ Len(before \o after) = Len(before) + Len(after)
        /\ \A j \in 1 .. Len(before) + Len(after) :
              (before \o after)[j] = IF j <= Len(before) THEN before[j] ELSE after[j - Len(before)]
    BY <1>2, <1>3, ConcatProperties
  <2>2. Len(before) + Len(after) = Len(w) - 1
    BY <1>1, <1>2, <1>3
  <2> QED BY <2>1, <2>2
<1>5. ASSUME NEW j \in 1 .. Len(w) - 1
      PROVE  (before \o after)[j] = IF j < i THEN w[j] ELSE w[j + 1]
  <2>1. CASE j < i
    <3>1. j \in 1 .. i - 1 /\ j <= Len(before)
      BY <1>1, <1>2, <2>1
    <3> QED BY <1>2, <1>4, <2>1, <3>1
  <2>2. CASE ~(j < i)
    <3>1. j - Len(before) \in 1 .. Len(w) - i /\ ~(j <= Len(before))
          /\ i + (j - Len(before)) = j + 1
      BY <1>1, <1>2, <2>2
    <3>2. after[j - Len(before)] = w[j + 1]
      BY <1>3, <3>1
    <3>3. (before \o after)[j] = after[j - Len(before)]
      BY <1>4, <3>1
    <3> QED BY <2>2, <3>2, <3>3
  <2> QED BY <2>1, <2>2
<1> QED BY <1>4, <1>5 DEF RemoveAt, before, after

LEMMA PutFirstIs ==
  ASSUME NEW S, NEW x \in S, NEW s \in Seq(S)
  PROVE  /\ <<x>> \o s \in Seq(S) /\ Len(<<x>> \o s) = Len(s) + 1
         /\ (<<x>> \o s)[1] = x
         /\ \A j \in 1 .. Len(s) : (<<x>> \o s)[j + 1] = s[j]
<1>1. <<x>> \in Seq(S) /\ Len(<<x>>) = 1 /\ <<x>>[1] = x
  OBVIOUS
<1>2. Len(s) \in Nat
  OBVIOUS
<1> QED BY <1>1, <1>2, ConcatProperties

\* A list of different things.
Once(s) == \A i, j \in DOMAIN s : i # j => s[i] # s[j]

LEMMA PlaceIs ==
  ASSUME NEW S, NEW s \in Seq(S), NEW u \in ToSet(s)
  PROVE  /\ Place(s, u) \in 1 .. Len(s) /\ s[Place(s, u)] = u
         /\ Once(s) => \A i \in 1 .. Len(s) : s[i] = u => i = Place(s, u)
<1>1. DOMAIN s = 1 .. Len(s)
  OBVIOUS
<1>2. \E i \in DOMAIN s : s[i] = u
  BY DEF ToSet
<1>3. Place(s, u) \in DOMAIN s /\ s[Place(s, u)] = u
  BY <1>2 DEF Place
<1> QED BY <1>1, <1>3 DEF Once

\* What is left when an element is taken out, and where.
LEMMA TakenOut ==
  ASSUME NEW S, NEW w \in Seq(S), Once(w), NEW i \in 1 .. Len(w), NEW r, r = RemoveAt(w, i)
  PROVE  /\ r \in Seq(S) /\ Len(r) = Len(w) - 1 /\ Once(r)
         /\ ToSet(r) = ToSet(w) \ {w[i]}
         /\ \A u, v \in ToSet(r) : Place(r, u) < Place(r, v) <=> Place(w, u) < Place(w, v)
<1>1. /\ r \in Seq(S) /\ Len(r) = Len(w) - 1 /\ Len(w) \in Nat
      /\ \A j \in 1 .. Len(w) - 1 : r[j] = IF j < i THEN w[j] ELSE w[j + 1]
      /\ DOMAIN r = 1 .. Len(w) - 1 /\ DOMAIN w = 1 .. Len(w)
  BY RemoveIs
<1>2. Once(r)
  BY <1>1 DEF Once
<1>3. ToSet(r) = ToSet(w) \ {w[i]}
  <2>1. ASSUME NEW u \in ToSet(r)
        PROVE  u \in ToSet(w) \ {w[i]}
    <3>1. PICK j \in 1 .. Len(w) - 1 : r[j] = u
      BY <1>1, <2>1 DEF ToSet
    <3> DEFINE k == IF j < i THEN j ELSE j + 1
    <3>2. k \in 1 .. Len(w) /\ k # i /\ w[k] = u
      BY <1>1, <3>1
    <3> QED BY <1>1, <3>2 DEF ToSet, Once
  <2>2. ASSUME NEW u \in ToSet(w) \ {w[i]}
        PROVE  u \in ToSet(r)
    <3>1. PICK k \in 1 .. Len(w) : w[k] = u /\ k # i
      BY <1>1, <2>2 DEF ToSet
    <3>2. CASE k < i
      <4>1. k \in 1 .. Len(w) - 1 /\ r[k] = u
        BY <1>1, <3>1, <3>2
      <4> QED BY <1>1, <4>1 DEF ToSet
    <3>3. CASE k > i
      <4>1. k - 1 \in 1 .. Len(w) - 1 /\ r[k - 1] = u
        BY <1>1, <3>1, <3>3
      <4> QED BY <1>1, <4>1 DEF ToSet
    <3> QED BY <3>1, <3>2, <3>3
  <2> QED BY <2>1, <2>2
<1>4. ASSUME NEW u \in ToSet(r)
      PROVE  /\ Place(r, u) \in 1 .. Len(w) - 1
             /\ Place(w, u) = IF Place(r, u) < i THEN Place(r, u) ELSE Place(r, u) + 1
  <2>1. Place(r, u) \in 1 .. Len(w) - 1 /\ r[Place(r, u)] = u
    BY <1>1, PlaceIs
  <2>2. u \in ToSet(w)
    BY <1>3
  <2> DEFINE k == IF Place(r, u) < i THEN Place(r, u) ELSE Place(r, u) + 1
  <2>3. k \in 1 .. Len(w) /\ w[k] = u
    BY <1>1, <2>1
  <2> QED BY <2>1, <2>2, <2>3, PlaceIs
<1> QED BY <1>1, <1>2, <1>3, <1>4

\* And when one is put in front of a list it is not in.
InFront(x, s) == <<x>> \o s

LEMMA PutFirst ==
  ASSUME NEW S, NEW x \in S, NEW s \in Seq(S), Once(s), x \notin ToSet(s),
         NEW t, t = InFront(x, s)
  PROVE  /\ t \in Seq(S) /\ Len(t) = Len(s) + 1 /\ Once(t) /\ ToSet(t) = ToSet(s) \cup {x}
         /\ Place(t, x) = 1
         /\ \A u \in ToSet(s) : Place(t, u) = Place(s, u) + 1
<1>1. /\ t \in Seq(S) /\ Len(t) = Len(s) + 1 /\ t[1] = x /\ Len(s) \in Nat
      /\ \A j \in 1 .. Len(s) : t[j + 1] = s[j]
      /\ DOMAIN t = 1 .. Len(s) + 1 /\ DOMAIN s = 1 .. Len(s)
  BY PutFirstIs DEF InFront
<1>2. \A j \in 2 .. Len(s) + 1 : j - 1 \in 1 .. Len(s) /\ t[j] = s[j - 1] /\ t[j] \in ToSet(s)
  <2> SUFFICES ASSUME NEW j \in 2 .. Len(s) + 1
               PROVE  j - 1 \in 1 .. Len(s) /\ t[j] = s[j - 1] /\ t[j] \in ToSet(s)
    OBVIOUS
  <2>1. j - 1 \in 1 .. Len(s) /\ (j - 1) + 1 = j
    BY <1>1
  <2>2. t[j] = s[j - 1]
    BY <1>1, <2>1
  <2> QED BY <1>1, <2>1, <2>2 DEF ToSet
<1>3. ToSet(t) = ToSet(s) \cup {x}
  <2>1. ToSet(t) \subseteq ToSet(s) \cup {x}
    <3>1. \A j \in 1 .. Len(s) + 1 : j = 1 \/ j \in 2 .. Len(s) + 1
      BY <1>1
    <3> QED BY <1>1, <1>2, <3>1 DEF ToSet
  <2>2. x \in ToSet(t)
    BY <1>1 DEF ToSet
  <2>3. ToSet(s) \subseteq ToSet(t)
    <3> SUFFICES ASSUME NEW j \in 1 .. Len(s)
                 PROVE  s[j] \in ToSet(t)
      BY <1>1 DEF ToSet
    <3>1. j + 1 \in DOMAIN t /\ t[j + 1] = s[j]
      BY <1>1
    <3> QED BY <3>1 DEF ToSet
  <2> QED BY <2>1, <2>2, <2>3
<1>4. Once(t)
  <2> SUFFICES ASSUME NEW j \in 1 .. Len(s) + 1, NEW k \in 1 .. Len(s) + 1, j < k
               PROVE  t[j] # t[k]
    BY <1>1 DEF Once
  <2>1. k \in 2 .. Len(s) + 1
    BY <1>1
  <2>2. CASE j = 1
    BY <1>1, <1>2, <2>1, <2>2
  <2>3. CASE j # 1
    <3>1. j \in 2 .. Len(s) + 1
      BY <1>1, <2>3
    <3>2. /\ t[j] = s[j - 1] /\ t[k] = s[k - 1]
          /\ j - 1 \in DOMAIN s /\ k - 1 \in DOMAIN s /\ j - 1 # k - 1
      BY <1>1, <1>2, <2>1, <3>1
    <3> QED BY <3>2 DEF Once
  <2> QED BY <2>2, <2>3
<1>5. Place(t, x) = 1
  <2>1. x \in ToSet(t) /\ 1 \in 1 .. Len(t)
    BY <1>1, <1>3
  <2>2. t \in Seq(S) /\ t[1] = x
    BY <1>1
  <2> QED BY <1>4, <2>1, <2>2, PlaceIs
<1>6. ASSUME NEW u \in ToSet(s)
      PROVE  Place(t, u) = Place(s, u) + 1
  <2>1. Place(s, u) \in 1 .. Len(s) /\ s[Place(s, u)] = u
    BY <1>1, PlaceIs
  <2>2. Place(s, u) + 1 \in 1 .. Len(t) /\ t[Place(s, u) + 1] = u /\ u \in ToSet(t)
    BY <1>1, <1>3, <2>1
  <2> QED BY <1>1, <1>4, <2>2, PlaceIs
<1> QED BY <1>1, <1>3, <1>4, <1>5, <1>6

-----------------------------------------------------------------------------
(* The repair of the fused order is a function of the list: the recursion    *)
(* has a solution, for what it recurs to is shorter.                         *)

EmitStep(m, e, w) ==
    LET ready == {i \in DOMAIN w : MayBeEmitted(m, w, w[i])}
    IN  IF ready = {} THEN <<>>
        ELSE <<w[Min(ready)]>> \o e[RemoveAt(w, Min(ready))]

Emission(m) == CHOOSE e : e = [w \in Seq(DOMAIN m) |-> EmitStep(m, e, w)]

\* The lists of m shorter than n, and what the recursion makes of them.
Shorter(m, n) == {w \in Seq(DOMAIN m) : Len(w) < n}

Approximates(m, n, f) == f = [w \in Shorter(m, n) |-> EmitStep(m, f, w)]

LEMMA RepairIsEmission ==
  ASSUME NEW m, NEW w
  PROVE  Repaired(m, w) = Emission(m)[w]
BY DEF Repaired, Emission, EmitStep

\* Where the recursion of w goes, if it goes anywhere.
LEMMA ReadyIs ==
  ASSUME NEW m, NEW w \in Seq(DOMAIN m),
         NEW ready, ready = {i \in DOMAIN w : MayBeEmitted(m, w, w[i])}, ready # {}
  PROVE  /\ Min(ready) \in 1 .. Len(w) /\ MayBeEmitted(m, w, w[Min(ready)])
         /\ \A i \in ready : Min(ready) <= i
         /\ RemoveAt(w, Min(ready)) \in Seq(DOMAIN m)
         /\ Len(RemoveAt(w, Min(ready))) = Len(w) - 1
<1>1. ready \subseteq 1 .. Len(w) /\ ready \in SUBSET Nat
  OBVIOUS
<1>2. Min(ready) \in ready /\ \A i \in ready : Min(ready) <= i
  BY <1>1, MinIs
<1> QED BY <1>1, <1>2, RemoveIs

LEMMA StepLooksBelow ==
  ASSUME NEW m, NEW w \in Seq(DOMAIN m), NEW e, NEW f,
         \A r \in Shorter(m, Len(w)) : e[r] = f[r]
  PROVE  EmitStep(m, e, w) = EmitStep(m, f, w)
<1> DEFINE ready == {i \in DOMAIN w : MayBeEmitted(m, w, w[i])}
<1>1. CASE ready = {}
  BY <1>1 DEF EmitStep
<1>2. CASE ready # {}
  <2>1. RemoveAt(w, Min(ready)) \in Shorter(m, Len(w))
    <3>1. /\ RemoveAt(w, Min(ready)) \in Seq(DOMAIN m)
          /\ Len(RemoveAt(w, Min(ready))) = Len(w) - 1
      BY <1>2, ReadyIs
    <3>2. Len(w) \in Nat
      OBVIOUS
    <3> QED BY <3>1, <3>2 DEF Shorter
  <2> QED BY <1>2, <2>1 DEF EmitStep
<1> QED BY <1>1, <1>2

\* Two approximations agree on the lists both are defined on.
LEMMA ApproximationsAgree ==
  ASSUME NEW m, NEW n \in Nat, NEW k \in Nat, n <= k,
         NEW f, Approximates(m, n, f), NEW g, Approximates(m, k, g)
  PROVE  \A w \in Shorter(m, n) : f[w] = g[w]
<1> SUFFICES ASSUME NEW w0 \in Shorter(m, n), f[w0] # g[w0]
             PROVE  FALSE
  OBVIOUS
<1> DEFINE Bad == {l \in Nat : \E w \in Shorter(m, n) : Len(w) = l /\ f[w] # g[w]}
<1>1. Len(w0) \in Bad
  BY DEF Shorter
<1> HIDE DEF Bad
<1>2. PICK l \in Bad : \A j \in Bad : l <= j
  BY <1>1, LeastNat DEF Bad
<1>3. PICK w \in Shorter(m, n) : Len(w) = l /\ f[w] # g[w]
  BY <1>2 DEF Bad
<1>4. w \in Seq(DOMAIN m) /\ Len(w) \in Nat /\ w \in Shorter(m, k)
  BY DEF Shorter
<1>5. ASSUME NEW r \in Shorter(m, Len(w)), f[r] # g[r]
      PROVE  FALSE
  <2>1. r \in Shorter(m, n) /\ Len(r) \in Nat /\ Len(r) < l
    BY <1>3, <1>4 DEF Shorter
  <2> QED BY <1>2, <1>5, <2>1 DEF Bad
<1>6. EmitStep(m, f, w) = EmitStep(m, g, w)
  BY <1>4, <1>5, StepLooksBelow
<1>7. f[w] = EmitStep(m, f, w) /\ g[w] = EmitStep(m, g, w)
  BY <1>4 DEF Approximates
<1> QED BY <1>3, <1>6, <1>7

LEMMA ApproximationsExist ==
  ASSUME NEW m, NEW n \in Nat
  PROVE  \E f : Approximates(m, n, f)
<1> SUFFICES ASSUME ~ \E f : Approximates(m, n, f)
             PROVE  FALSE
  OBVIOUS
<1> DEFINE Bad == {l \in Nat : ~ \E f : Approximates(m, l, f)}
<1>1. n \in Bad
  OBVIOUS
<1> HIDE DEF Bad
<1>2. PICK l \in Bad : \A j \in Bad : l <= j
  BY <1>1, LeastNat DEF Bad
<1>3. l \in Nat /\ ~ \E f : Approximates(m, l, f)
  BY DEF Bad
<1>4. CASE l = 0
  <2> DEFINE f == [w \in {} |-> <<>>]
  <2>1. Shorter(m, 0) = {}
    BY DEF Shorter
  <2>2. f = [w \in Shorter(m, 0) |-> EmitStep(m, f, w)]
    BY <2>1
  <2> QED BY <1>3, <1>4, <2>2 DEF Approximates
<1>5. CASE l # 0
  <2>1. l - 1 \in Nat /\ l - 1 \notin Bad
    BY <1>2, <1>3, <1>5
  <2>2. PICK f : Approximates(m, l - 1, f)
    BY <2>1 DEF Bad
  <2> DEFINE g == [w \in Shorter(m, l) |-> EmitStep(m, f, w)]
  <2>3. ASSUME NEW w \in Shorter(m, l)
        PROVE  EmitStep(m, g, w) = EmitStep(m, f, w)
    <3>1. w \in Seq(DOMAIN m) /\ Len(w) \in Nat /\ Len(w) < l
      BY DEF Shorter
    <3>2. ASSUME NEW r \in Shorter(m, Len(w))
          PROVE  g[r] = f[r]
      <4>1. r \in Shorter(m, l) /\ r \in Shorter(m, l - 1)
        BY <1>3, <3>1 DEF Shorter
      <4>2. f[r] = EmitStep(m, f, r)
        BY <2>2, <4>1 DEF Approximates
      <4> QED BY <4>1, <4>2
    <3> HIDE DEF g
    <3> QED BY <3>1, <3>2, StepLooksBelow
  <2>4. g = [w \in Shorter(m, l) |-> EmitStep(m, g, w)]
    BY <2>3
  <2> HIDE DEF g
  <2> QED BY <1>3, <2>4 DEF Approximates
<1> QED BY <1>4, <1>5

\* What is emitted of a list is what its recursion says.
LEMMA EmissionIs ==
  ASSUME NEW m
  PROVE  \A w \in Seq(DOMAIN m) : Emission(m)[w] = EmitStep(m, Emission(m), w)
<1> DEFINE below(w) == CHOOSE f : Approximates(m, Len(w), f)
           E == [w \in Seq(DOMAIN m) |-> EmitStep(m, below(w), w)]
<1>1. ASSUME NEW w \in Seq(DOMAIN m)
      PROVE  Approximates(m, Len(w), below(w)) /\ Len(w) \in Nat
  <2>1. Len(w) \in Nat
    OBVIOUS
  <2>2. \E f : Approximates(m, Len(w), f)
    BY <2>1, ApproximationsExist
  <2>3. Approximates(m, Len(w), CHOOSE f : Approximates(m, Len(w), f))
    BY <2>2
  <2> QED BY <2>1, <2>3
<1>2. ASSUME NEW w \in Seq(DOMAIN m), NEW r \in Shorter(m, Len(w))
      PROVE  below(w)[r] = E[r]
  <2>1. r \in Seq(DOMAIN m) /\ Len(r) < Len(w)
    BY DEF Shorter
  <2>2. Len(r) \in Nat /\ Len(w) \in Nat /\ Len(r) <= Len(w)
    BY <2>1
  <2>3. Approximates(m, Len(w), below(w)) /\ Approximates(m, Len(r), below(r))
    BY <1>1, <2>1
  <2> HIDE DEF below
  <2>4. \A q \in Shorter(m, Len(r)) : below(r)[q] = below(w)[q]
    BY <2>2, <2>3, ApproximationsAgree
  <2>5. EmitStep(m, below(r), r) = EmitStep(m, below(w), r)
    BY <2>1, <2>4, StepLooksBelow
  <2>6. below(w)[r] = EmitStep(m, below(w), r)
    BY <2>3 DEF Approximates
  <2> QED BY <2>1, <2>5, <2>6
<1>3. ASSUME NEW w \in Seq(DOMAIN m)
      PROVE  EmitStep(m, below(w), w) = EmitStep(m, E, w)
  <2>1. \A r \in Shorter(m, Len(w)) : below(w)[r] = E[r]
    BY <1>2
  <2> HIDE DEF below, E
  <2> QED BY <2>1, StepLooksBelow
<1>4. E = [w \in Seq(DOMAIN m) |-> EmitStep(m, E, w)]
  BY <1>3
<1> HIDE DEF E
<1>5. Emission(m) = [w \in Seq(DOMAIN m) |-> EmitStep(m, Emission(m), w)]
  BY <1>4 DEF Emission
<1> QED BY <1>5

-----------------------------------------------------------------------------
(* What the repair promises of any list of different rows of m.              *)

NoCycle(m) ==
    \A S \in (SUBSET DOMAIN m) \ {{}} : \E u \in S : m[u].superseded_by \notin S

Heir(m, v) == m[v].superseded_by

Leads(s, u, v) == Place(s, u) < Place(s, v)

\* s is w with every heir before what it replaced, and no row behind one it led
\* in w unless its own heir was yet to come.
Repairs(m, w, s) ==
    /\ s \in Seq(DOMAIN m) /\ Len(s) = Len(w) /\ Once(s) /\ ToSet(s) = ToSet(w)
    /\ \A u, v \in ToSet(w) : Heir(m, v) = u => Leads(s, u, v)
    /\ \A u, v \in ToSet(w) : Leads(s, u, v) /\ ~Leads(w, u, v) /\ u # v =>
          Heir(m, v) \in ToSet(w) /\ ~Leads(s, Heir(m, v), u)

\* A row whose heir is not waiting can always be found.
LEMMA SomeRowIsReady ==
  ASSUME NEW m, NoCycle(m), NEW w \in Seq(DOMAIN m), w # <<>>
  PROVE  {i \in DOMAIN w : MayBeEmitted(m, w, w[i])} # {}
<1>1. DOMAIN w = 1 .. Len(w) /\ Len(w) \in Nat /\ Len(w) # 0
  BY EmptySeq
<1>2. ToSet(w) \in (SUBSET DOMAIN m) \ {{}}
  <2>1. 1 \in DOMAIN w /\ \A i \in DOMAIN w : w[i] \in DOMAIN m
    BY <1>1
  <2>2. w[1] \in ToSet(w) /\ ToSet(w) \subseteq DOMAIN m
    BY <2>1 DEF ToSet
  <2> QED BY <2>2
<1>3. PICK u \in ToSet(w) : m[u].superseded_by \notin ToSet(w)
  BY <1>2 DEF NoCycle
<1>4. PICK i \in DOMAIN w : w[i] = u
  BY DEF ToSet
<1> QED BY <1>3, <1>4 DEF MayBeEmitted

\* One step of it: the first ready row is taken out and put in front.
LEMMA StepRepairs ==
  ASSUME NEW m, NEW w \in Seq(DOMAIN m), Once(w),
         NEW i \in 1 .. Len(w), MayBeEmitted(m, w, w[i]),
         \A j \in 1 .. Len(w) : MayBeEmitted(m, w, w[j]) => i <= j,
         NEW s, Repairs(m, RemoveAt(w, i), s)
  PROVE  Repairs(m, w, <<w[i]>> \o s)
<1> DEFINE x == w[i]
           r == RemoveAt(w, i)
           t == InFront(x, s)
<1>1. /\ r \in Seq(DOMAIN m) /\ Len(r) = Len(w) - 1 /\ Once(r)
      /\ ToSet(r) = ToSet(w) \ {x}
      /\ \A u, v \in ToSet(r) : Place(r, u) < Place(r, v) <=> Place(w, u) < Place(w, v)
  BY TakenOut
<1>2. /\ x \in ToSet(w) /\ x \in DOMAIN m /\ Heir(m, x) \notin ToSet(w)
      /\ DOMAIN w = 1 .. Len(w) /\ Len(w) \in Nat
  BY DEF ToSet, MayBeEmitted, Heir
<1>3. /\ s \in Seq(DOMAIN m) /\ Len(s) = Len(w) - 1 /\ Once(s) /\ ToSet(s) = ToSet(w) \ {x}
      /\ \A u, v \in ToSet(r) : Heir(m, v) = u => Leads(s, u, v)
      /\ \A u, v \in ToSet(r) : Leads(s, u, v) /\ ~Leads(r, u, v) /\ u # v =>
            Heir(m, v) \in ToSet(r) /\ ~Leads(s, Heir(m, v), u)
  BY <1>1 DEF Repairs
<1> HIDE DEF x, r
<1>4. /\ t \in Seq(DOMAIN m) /\ Len(t) = Len(s) + 1 /\ Once(t) /\ ToSet(t) = ToSet(s) \cup {x}
      /\ Place(t, x) = 1
      /\ \A u \in ToSet(s) : Place(t, u) = Place(s, u) + 1
  <2>1. x \in DOMAIN m /\ s \in Seq(DOMAIN m) /\ Once(s) /\ x \notin ToSet(s)
    BY <1>2, <1>3
  <2> QED BY <2>1, PutFirst
<1> HIDE DEF t
<1>5. \A u \in ToSet(s) : Place(s, u) \in Nat \ {0}
  BY <1>3, PlaceIs
<1>6. ASSUME NEW u \in ToSet(w), NEW v \in ToSet(w), Heir(m, v) = u
      PROVE  Leads(t, u, v)
  <2>1. v \in ToSet(s) /\ v \in ToSet(r)
    BY <1>1, <1>2, <1>3, <1>6
  <2>2. CASE u = x
    BY <1>4, <1>5, <2>1, <2>2 DEF Leads
  <2>3. CASE u # x
    <3>1. u \in ToSet(s) /\ u \in ToSet(r)
      BY <1>1, <1>3, <2>3
    <3>2. Leads(s, u, v)
      BY <1>3, <1>6, <2>1, <3>1
    <3> QED BY <1>4, <1>5, <2>1, <3>1, <3>2 DEF Leads
  <2> QED BY <2>2, <2>3
<1>7. ASSUME NEW u \in ToSet(w), NEW v \in ToSet(w),
             Leads(t, u, v), ~Leads(w, u, v), u # v
      PROVE  Heir(m, v) \in ToSet(w) /\ ~Leads(t, Heir(m, v), u)
  <2>1. v # x
    <3>1. u = x \/ u \in ToSet(s)
      BY <1>3
    <3> QED BY <1>4, <1>5, <1>7, <3>1 DEF Leads
  <2>2. v \in ToSet(s) /\ v \in ToSet(r)
    BY <1>1, <1>3, <2>1
  <2>3. CASE u = x
    <3>1. /\ Place(w, x) = i
          /\ Place(w, v) \in 1 .. Len(w) /\ w[Place(w, v)] = v
      BY <1>2, PlaceIs DEF x
    <3>2. Place(w, v) < i
      BY <1>7, <2>3, <3>1, <2>1 DEF Leads, x
    <3>3. Heir(m, v) \in ToSet(w)
      BY <1>2, <3>1, <3>2 DEF MayBeEmitted, Heir
    <3>4. Heir(m, v) = x \/ Heir(m, v) \in ToSet(s)
      BY <1>3, <3>3
    <3> QED BY <1>4, <1>5, <2>3, <3>3, <3>4 DEF Leads
  <2>4. CASE u # x
    <3>1. u \in ToSet(s) /\ u \in ToSet(r)
      BY <1>1, <1>3, <2>4
    <3>2. Leads(s, u, v)
      BY <1>4, <1>5, <1>7, <2>2, <3>1 DEF Leads
    <3>3. ~Leads(r, u, v)
      BY <1>1, <1>7, <2>2, <3>1 DEF Leads
    <3>4. Heir(m, v) \in ToSet(r) /\ ~Leads(s, Heir(m, v), u)
      BY <1>3, <1>7, <2>2, <3>1, <3>2, <3>3
    <3>5. Heir(m, v) \in ToSet(s) /\ Heir(m, v) \in ToSet(w)
      BY <1>1, <1>3, <3>4
    <3> QED BY <1>4, <1>5, <3>1, <3>4, <3>5 DEF Leads
  <2> QED BY <2>3, <2>4
<1>8. Len(t) = Len(w) /\ ToSet(t) = ToSet(w)
  BY <1>2, <1>3, <1>4
<1>9. Repairs(m, w, t)
  BY <1>4, <1>6, <1>7, <1>8 DEF Repairs
<1> QED BY <1>9 DEF t, x, InFront

LEMMA EmissionRepairs ==
  ASSUME NEW m, NoCycle(m), NEW w \in Seq(DOMAIN m), Once(w)
  PROVE  Repairs(m, w, Emission(m)[w])
<1> SUFFICES ASSUME ~Repairs(m, w, Emission(m)[w])
             PROVE  FALSE
  OBVIOUS
<1> DEFINE Bad == {l \in Nat : \E q \in Seq(DOMAIN m) :
                        Len(q) = l /\ Once(q) /\ ~Repairs(m, q, Emission(m)[q])}
<1>1. Len(w) \in Bad
  <2>1. Len(w) \in Nat
    OBVIOUS
  <2> QED BY <2>1
<1> HIDE DEF Bad
<1>2. PICK l \in Bad : \A j \in Bad : l <= j
  BY <1>1, LeastNat DEF Bad
<1>3. PICK q \in Seq(DOMAIN m) : Len(q) = l /\ Once(q) /\ ~Repairs(m, q, Emission(m)[q])
  BY <1>2 DEF Bad
<1> DEFINE ready == {i \in DOMAIN q : MayBeEmitted(m, q, q[i])}
<1>4. Emission(m)[q] = EmitStep(m, Emission(m), q)
  BY EmissionIs
<1>5. CASE q = <<>>
  <2>1. Emission(m)[q] = <<>>
    BY <1>4, <1>5 DEF EmitStep
  <2>2. ToSet(q) = {} /\ Once(q)
    BY <1>5 DEF ToSet, Once
  <2> QED BY <1>3, <1>5, <2>1, <2>2 DEF Repairs
<1>6. CASE q # <<>>
  <2>1. ready # {}
    BY <1>6, SomeRowIsReady
  <2>2. /\ Min(ready) \in 1 .. Len(q) /\ MayBeEmitted(m, q, q[Min(ready)])
        /\ \A i \in ready : Min(ready) <= i
        /\ RemoveAt(q, Min(ready)) \in Seq(DOMAIN m)
        /\ Len(RemoveAt(q, Min(ready))) = Len(q) - 1
    BY <2>1, ReadyIs
  <2> DEFINE i == Min(ready)
             r == RemoveAt(q, i)
  <2>3. \A j \in 1 .. Len(q) : MayBeEmitted(m, q, q[j]) => i <= j
    BY <2>2
  <2>4. Emission(m)[q] = <<q[i]>> \o Emission(m)[r]
    BY <1>4, <2>1 DEF EmitStep
  <2> HIDE DEF i
  <2>5. Once(r)
    BY <1>3, <2>2, TakenOut DEF i
  <2>6. Repairs(m, r, Emission(m)[r])
    <3>1. r \in Seq(DOMAIN m) /\ Len(r) = l - 1 /\ l - 1 < l /\ l - 1 \in Nat
      BY <1>3, <2>2 DEF i
    <3>2. l - 1 \notin Bad
      BY <1>2, <3>1 DEF Bad
    <3> QED BY <2>5, <3>1, <3>2 DEF Bad
  <2>7. i \in 1 .. Len(q) /\ MayBeEmitted(m, q, q[i])
    BY <2>2 DEF i
  <2> QED BY <1>3, <2>3, <2>4, <2>6, <2>7, StepRepairs
<1> QED BY <1>5, <1>6

-----------------------------------------------------------------------------
(* The dense arm: what is rolled up of the first chunks are the first of the *)
(* rows rolled up of all.                                                    *)

\* The place of each row's first chunk, its rank among them and the k-th.
Firsts(chunks, E) ==
    {i \in DOMAIN chunks : chunks[i] \in E /\ \A j \in 1 .. i - 1 : chunks[j] # chunks[i]}

RankIn(F, i) == Cardinality({j \in F : j <= i})

Nth(F, k) == CHOOSE i \in F : RankIn(F, i) = k

Part(s, t) == Len(s) <= Len(t) /\ \A j \in 1 .. Len(s) : s[j] = t[j]

LEMMA NthIs ==
  ASSUME NEW n \in Nat, NEW F \in SUBSET (1 .. n)
  PROVE  /\ Cardinality(F) \in Nat
         /\ \A k \in 1 .. Cardinality(F) :
               /\ Nth(F, k) \in F /\ RankIn(F, Nth(F, k)) = k
               /\ \A i \in F : RankIn(F, i) = k => i = Nth(F, k)
<1> DEFINE upTo(i) == {j \in F : j <= i}
           c == Cardinality(F)
           rank == [i \in F |-> RankIn(F, i)]
<1>1. IsFiniteSet(F)
  <2>1. IsFiniteSet(1 .. n)
    BY FS_Interval
  <2> QED BY <2>1, FS_Subset
<1>2. c \in Nat
  BY <1>1, FS_CardinalityType
<1>3. ASSUME NEW i \in F
      PROVE  /\ upTo(i) \in SUBSET F /\ IsFiniteSet(upTo(i)) /\ i \in upTo(i)
             /\ RankIn(F, i) = Cardinality(upTo(i)) /\ RankIn(F, i) \in 1 .. c
  <2>1. upTo(i) \in SUBSET F /\ i \in upTo(i)
    OBVIOUS
  <2>2. IsFiniteSet(upTo(i)) /\ Cardinality(upTo(i)) <= c
    BY <1>1, <2>1, FS_Subset
  <2>3. Cardinality(upTo(i)) \in Nat /\ Cardinality(upTo(i)) # 0
    BY <2>1, <2>2, FS_CardinalityType, FS_EmptySet
  <2>4. RankIn(F, i) = Cardinality(upTo(i))
    BY DEF RankIn
  <2> QED BY <1>2, <2>1, <2>2, <2>3, <2>4
<1>4. ASSUME NEW i \in F, NEW k \in F, RankIn(F, i) = RankIn(F, k)
      PROVE  i = k
  <2>1. ASSUME NEW a \in F, NEW b \in F, a < b, RankIn(F, a) = RankIn(F, b)
        PROVE  FALSE
    <3>0. a \in Nat /\ b \in Nat /\ \A j \in F : j \in Nat
      OBVIOUS
    <3>1. upTo(a) \in SUBSET upTo(b) /\ b \notin upTo(a)
      <4>1. \A j \in F : j <= a => j <= b
        BY <2>1, <3>0
      <4>2. ~(b <= a)
        BY <2>1, <3>0
      <4> QED BY <4>1, <4>2
    <3>2. /\ IsFiniteSet(upTo(b)) /\ b \in upTo(b)
          /\ Cardinality(upTo(a)) = Cardinality(upTo(b))
      BY <1>3, <2>1
    <3> HIDE DEF upTo
    <3>3. upTo(a) = upTo(b)
      BY <3>1, <3>2, FS_Subset
    <3> QED BY <3>1, <3>2, <3>3
  <2>2. i \in Nat /\ k \in Nat
    OBVIOUS
  <2>3. ~(i < k) /\ ~(k < i)
    BY <1>4, <2>1
  <2> QED BY <2>2, <2>3
<1>5. rank \in Injection(F, 1 .. c)
  BY <1>3, <1>4 DEF Injection, IsInjective
<1>6. IsFiniteSet(1 .. c) /\ Cardinality(1 .. c) = c
  BY <1>2, FS_Interval
<1>7. rank \in Surjection(F, 1 .. c)
  <2> HIDE DEF rank
  <2> QED BY <1>5, <1>6, FS_Injection
<1>8. ASSUME NEW k \in 1 .. c
      PROVE  \E i \in F : RankIn(F, i) = k
  BY <1>7 DEF Surjection
<1>9. ASSUME NEW k \in 1 .. c
      PROVE  Nth(F, k) \in F /\ RankIn(F, Nth(F, k)) = k
  BY <1>8 DEF Nth
<1> QED BY <1>2, <1>4, <1>9

\* Cutting a set of places at b leaves the lower ranks as they are.
LEMMA NthOfPart ==
  ASSUME NEW n \in Nat, NEW F \in SUBSET (1 .. n), NEW b \in Nat,
         NEW G \in SUBSET F, \A i \in F : i \in G <=> i <= b
  PROVE  /\ Cardinality(G) <= Cardinality(F)
         /\ \A k \in 1 .. Cardinality(G) : Nth(G, k) = Nth(F, k)
<1>1. G \in SUBSET F /\ G \in SUBSET (1 .. n)
  OBVIOUS
<1>2. IsFiniteSet(F)
  <2>1. IsFiniteSet(1 .. n)
    BY FS_Interval
  <2> QED BY <2>1, FS_Subset
<1>3. Cardinality(G) <= Cardinality(F)
  BY <1>1, <1>2, FS_Subset
<1>4. Cardinality(G) \in Nat /\ Cardinality(F) \in Nat
  BY <1>1, NthIs
<1>5. ASSUME NEW k \in 1 .. Cardinality(G)
      PROVE  Nth(G, k) = Nth(F, k)
  <2>0. \A i \in 1 .. Cardinality(G) : Nth(G, i) \in G /\ RankIn(G, Nth(G, i)) = i
    <3>1. G \in SUBSET (1 .. n)
      BY <1>1
    <3> QED BY ONLY <3>1, n \in Nat, NthIs
  <2>1. Nth(G, k) \in G /\ RankIn(G, Nth(G, k)) = k
    BY <2>0
  <2>2. {j \in G : j <= Nth(G, k)} = {j \in F : j <= Nth(G, k)}
    <3>0. \A j \in F : j \in Nat
      OBVIOUS
    <3>1. Nth(G, k) \in Nat /\ Nth(G, k) <= b
      BY <1>1, <2>1, <3>0
    <3>2. \A j \in F : j <= Nth(G, k) => j \in G
      BY <3>0, <3>1
    <3> QED BY <1>1, <3>2
  <2>3. Nth(G, k) \in F /\ RankIn(F, Nth(G, k)) = k
    BY <1>1, <2>1, <2>2 DEF RankIn
  <2>4. k \in 1 .. Cardinality(F)
    BY <1>3, <1>4
  <2> QED BY <2>3, <2>4, NthIs
<1> QED BY <1>3, <1>5

LEMMA RolledUpIs ==
  ASSUME NEW S, NEW chunks \in Seq(S), NEW E, NEW F, F = Firsts(chunks, E)
  PROVE  /\ F \in SUBSET (1 .. Len(chunks)) /\ Cardinality(F) \in Nat
         /\ RolledUp(chunks, E) \in Seq(S) /\ Len(RolledUp(chunks, E)) = Cardinality(F)
         /\ \A k \in 1 .. Cardinality(F) :
               Nth(F, k) \in F /\ RolledUp(chunks, E)[k] = chunks[Nth(F, k)]
<1>1. Len(chunks) \in Nat /\ DOMAIN chunks = 1 .. Len(chunks)
  OBVIOUS
<1>2. F \in SUBSET (1 .. Len(chunks))
  BY <1>1 DEF Firsts
<1>3. Cardinality(F) \in Nat /\ \A k \in 1 .. Cardinality(F) : Nth(F, k) \in F
  BY <1>1, <1>2, NthIs
<1>4. RolledUp(chunks, E) = [k \in 1 .. Cardinality(F) |-> chunks[Nth(F, k)]]
  BY DEF RolledUp, Firsts, Nth, RankIn
<1>5. RolledUp(chunks, E) \in [1 .. Cardinality(F) -> S]
  BY <1>1, <1>2, <1>3, <1>4
<1> QED BY <1>2, <1>3, <1>4, <1>5

LEMMA MinOfTwo ==
  ASSUME NEW a \in Nat, NEW b \in Nat
  PROVE  Min({a, b}) = IF a <= b THEN a ELSE b
<1>1. Min({a, b}) \in {a, b} /\ \A k \in {a, b} : Min({a, b}) <= k
  BY MinIs
<1> QED BY <1>1

LEMMA CutIs ==
  ASSUME NEW S, NEW s \in Seq(S), NEW n \in Nat
  PROVE  /\ Cut(s, n) \in Seq(S) /\ Len(Cut(s, n)) = IF n <= Len(s) THEN n ELSE Len(s)
         /\ Part(Cut(s, n), s)
<1>1. Len(s) \in Nat
  OBVIOUS
<1> DEFINE k == Min({n, Len(s)})
<1>2. k = (IF n <= Len(s) THEN n ELSE Len(s)) /\ k \in Nat
  BY <1>1, MinOfTwo
<1> HIDE DEF k
<1>3. Cut(s, n) = SubSeq(s, 1, k)
  BY DEF Cut, k
<1>4. /\ SubSeq(s, 1, k) \in Seq(S) /\ Len(SubSeq(s, 1, k)) = k
      /\ \A j \in 1 .. k : SubSeq(s, 1, k)[j] = s[j]
  BY <1>1, <1>2, SubSeqProperties
<1> QED BY <1>1, <1>2, <1>3, <1>4 DEF Part

LEMMA PartRollsUpToPart ==
  ASSUME NEW S, NEW chunks \in Seq(S), NEW E, NEW n \in Nat
  PROVE  Part(RolledUp(Cut(chunks, n), E), RolledUp(chunks, E))
<1> DEFINE some == Cut(chunks, n)
           b == Len(some)
           F == Firsts(chunks, E)
           G == Firsts(some, E)
<1>1. /\ some \in Seq(S) /\ b \in Nat /\ b <= Len(chunks)
      /\ \A j \in 1 .. b : some[j] = chunks[j]
  BY CutIs DEF Part
<1>2. Len(chunks) \in Nat /\ DOMAIN chunks = 1 .. Len(chunks) /\ DOMAIN some = 1 .. b
  BY <1>1
<1> HIDE DEF some
<1>3. F \in SUBSET (1 .. Len(chunks)) /\ G \in SUBSET (1 .. b)
  BY <1>2 DEF Firsts
<1>4. G \in SUBSET F /\ \A i \in F : i \in G <=> i <= b
  <2>1. ASSUME NEW i \in 1 .. b
        PROVE  i \in G <=> i \in F
    <3>1. some[i] = chunks[i] /\ \A j \in 1 .. i - 1 : some[j] = chunks[j]
      BY <1>1
    <3> QED BY <1>1, <1>2, <3>1 DEF Firsts
  <2> HIDE DEF F, G, b
  <2>2. \A i \in F : i <= b => i \in 1 .. b
    BY <1>1, <1>2, <1>3
  <2>3. \A i \in G : i \in 1 .. b /\ i <= b
    BY <1>1, <1>3
  <2> QED BY <2>1, <2>2, <2>3
<1> HIDE DEF F, G, b
<1>5. /\ Cardinality(G) <= Cardinality(F)
      /\ \A k \in 1 .. Cardinality(G) : Nth(G, k) = Nth(F, k)
  BY <1>1, <1>2, <1>3, <1>4, NthOfPart
<1>6. /\ Len(RolledUp(chunks, E)) = Cardinality(F) /\ Cardinality(F) \in Nat
      /\ \A k \in 1 .. Cardinality(F) : RolledUp(chunks, E)[k] = chunks[Nth(F, k)]
  BY RolledUpIs DEF F
<1>7. /\ Len(RolledUp(some, E)) = Cardinality(G) /\ Cardinality(G) \in Nat
      /\ \A k \in 1 .. Cardinality(G) :
            Nth(G, k) \in G /\ RolledUp(some, E)[k] = some[Nth(G, k)]
  BY <1>1, RolledUpIs DEF G
<1>8. ASSUME NEW k \in 1 .. Cardinality(G)
      PROVE  RolledUp(some, E)[k] = RolledUp(chunks, E)[k]
  <2>1. k \in 1 .. Cardinality(F)
    BY <1>5, <1>6, <1>7
  <2>2. Nth(G, k) \in 1 .. b
    BY <1>3, <1>7
  <2>3. some[Nth(G, k)] = chunks[Nth(F, k)]
    BY <1>1, <1>5, <2>2
  <2> QED BY <1>6, <1>7, <2>1, <2>3
<1> QED BY <1>5, <1>6, <1>7, <1>8 DEF Part, some

LEMMA PartOfAll ==
  ASSUME NEW S, NEW s \in Seq(S), NEW t \in Seq(S), Part(s, t)
  PROVE  IsPrefix(s, t) /\ (Len(s) >= Len(t) => s = t)
<1>1. Len(s) \in Nat /\ Len(t) \in Nat
  OBVIOUS
<1>2. /\ SubSeq(s, 1, Len(s)) \in Seq(S) /\ Len(SubSeq(s, 1, Len(s))) = Len(s)
      /\ \A i \in 1 .. Len(s) : SubSeq(s, 1, Len(s))[i] = s[i]
  BY <1>1, SubSeqProperties
<1>3. Len(s) <= Len(t) /\ \A i \in 1 .. Len(s) : s[i] = t[i]
  BY DEF Part
<1>4. /\ SubSeq(t, 1, Len(s)) \in Seq(S) /\ Len(SubSeq(t, 1, Len(s))) = Len(s)
      /\ \A i \in 1 .. Len(s) : SubSeq(t, 1, Len(s))[i] = t[i]
  BY <1>1, <1>3, SubSeqProperties
<1>5. SubSeq(s, 1, Len(s)) = SubSeq(t, 1, Len(s))
  BY <1>2, <1>3, <1>4, SeqEqual
<1>6. Len(s) >= Len(t) => s = t
  BY <1>1, <1>3, SeqEqual
<1> QED BY <1>3, <1>5, <1>6 DEF IsPrefix

LEMMA AskedIsNat ==
  ASSUME NEW d \in Nat
  PROVE  Asked(d) \in Nat
<1>1. IsFiniteSet(1 .. d) /\ Cardinality(1 .. d) = d
  BY FS_Interval
<1>2. 2 ^ d = Cardinality(SUBSET (1 .. d)) /\ IsFiniteSet(SUBSET (1 .. d))
  BY <1>1, FS_SUBSET
<1>3. 2 ^ d \in Nat
  BY <1>2, FS_CardinalityType
<1>4. FusionDepth * Overfetch \in Nat
  BY RetrievalAssumption
<1> QED BY <1>3, <1>4 DEF Asked

\* What the dense arm says of where it stopped.
LEMMA DenseArmTellsTruth ==
  ASSUME NEW m, NEW s, NEW nearest \in Seq(DOMAIN m),
         NEW o, o = DenseArm(m, s, nearest),
         NEW exact, exact = RolledUp(nearest, Eligible(m, s))
  PROVE  /\ IsPrefix(o.rows, exact)
         /\ Len(o.rows) = Min({o.depth_reached, FusionDepth})
         /\ o.stop_reason = "depth_reached" <=> o.depth_reached = FusionDepth + 1
         /\ o.stop_reason = "depth_reached" => Len(exact) > Len(o.rows)
         /\ o.stop_reason = "index_exhausted" => o.rows = exact
<1> DEFINE rows(d) == Probe(m, s, nearest, Asked(d))
           surplus(d) == Len(rows(d)) >= ProbeTarget
           covered(d) == Asked(d) >= Len(nearest)
           stops == {d \in 0 .. MaxDoublings : surplus(d) \/ covered(d) \/ d = MaxDoublings}
           last == Min(stops)
<1>1. last \in Nat
  <2>1. stops \in SUBSET Nat /\ MaxDoublings \in stops
    BY RetrievalAssumption
  <2> HIDE DEF stops
  <2> QED BY <2>1, MinIs
<1>2. o = [rows |-> Cut(rows(last), FusionDepth), depth_reached |-> Len(rows(last)),
           stop_reason |-> Classified(surplus(last), covered(last))]
  BY DEF DenseArm
<1> DEFINE k == Asked(last)
           found == RolledUp(Cut(nearest, k), Eligible(m, s))
           kept == rows(last)
           D == DOMAIN m
<1> HIDE DEF last, D
<1>3. k \in Nat /\ FusionDepth \in Nat /\ ProbeTarget \in Nat /\ ProbeTarget = FusionDepth + 1
  <2>1. k \in Nat
    BY <1>1, AskedIsNat
  <2>2. FusionDepth \in Nat
    BY RetrievalAssumption
  <2>3. ProbeTarget = FusionDepth + 1
    BY DEF ProbeTarget
  <2> QED BY <2>1, <2>2, <2>3
<1> HIDE DEF k
<1>4. nearest \in Seq(D) /\ exact \in Seq(D) /\ Len(exact) \in Nat
  BY RolledUpIs DEF D
<1>5. /\ Cut(nearest, k) \in Seq(D) /\ Part(Cut(nearest, k), nearest)
      /\ k >= Len(nearest) => Len(Cut(nearest, k)) >= Len(nearest)
  BY <1>3, <1>4, CutIs
<1>6. found \in Seq(D) /\ Len(found) \in Nat
  BY <1>5, RolledUpIs
<1>7. Part(found, exact)
  BY <1>3, <1>4, PartRollsUpToPart
<1>8. covered(last) => found = exact
  <2>1. covered(last) => Cut(nearest, k) = nearest
    BY <1>4, <1>5, PartOfAll DEF k
  <2> QED BY <2>1
<1>9. kept = Cut(found, ProbeTarget)
  BY DEF Probe, k
<1> HIDE DEF found
<1>10. /\ kept \in Seq(D) /\ Part(kept, found)
       /\ Len(kept) = IF ProbeTarget <= Len(found) THEN ProbeTarget ELSE Len(found)
  BY <1>3, <1>6, <1>9, CutIs
<1> DEFINE out == Cut(kept, FusionDepth)
<1> HIDE DEF kept
<1>11. /\ out \in Seq(D) /\ Part(out, kept) /\ Len(kept) \in Nat
       /\ Len(out) = IF FusionDepth <= Len(kept) THEN FusionDepth ELSE Len(kept)
  BY <1>3, <1>10, CutIs
<1>12. /\ o.rows = out /\ o.depth_reached = Len(kept)
       /\ o.stop_reason = Classified(Len(kept) >= ProbeTarget, covered(last))
  BY <1>2 DEF kept
<1> HIDE DEF out
<1>13. Part(out, exact)
  BY <1>4, <1>6, <1>7, <1>10, <1>11 DEF Part
<1>14. IsPrefix(o.rows, exact)
  BY <1>4, <1>11, <1>12, <1>13, PartOfAll
<1>15. Len(o.rows) = Min({o.depth_reached, FusionDepth})
  <2>1. Min({Len(kept), FusionDepth}) = IF Len(kept) <= FusionDepth THEN Len(kept) ELSE FusionDepth
    BY <1>3, <1>11, MinOfTwo
  <2> QED BY <1>3, <1>11, <1>12, <2>1
<1>16. o.stop_reason = "depth_reached" <=> Len(kept) >= ProbeTarget
  BY <1>12 DEF Classified
<1>17. Len(kept) <= ProbeTarget /\ Len(kept) <= Len(found) /\ Len(found) <= Len(exact)
  BY <1>3, <1>6, <1>7, <1>10 DEF Part
<1>18. o.stop_reason = "depth_reached" <=> o.depth_reached = FusionDepth + 1
  BY <1>3, <1>11, <1>12, <1>16, <1>17
<1>19. o.stop_reason = "depth_reached" => Len(exact) > Len(o.rows)
  BY <1>3, <1>4, <1>6, <1>11, <1>12, <1>16, <1>17
<1>20. ASSUME o.stop_reason = "index_exhausted"
       PROVE  o.rows = exact
  <2>1. ~(Len(kept) >= ProbeTarget) /\ covered(last)
    BY <1>12, <1>20 DEF Classified
  <2>2. Len(out) >= Len(exact)
    BY <1>3, <1>4, <1>6, <1>8, <1>10, <1>11, <2>1
  <2> QED BY <1>4, <1>11, <1>12, <1>13, <2>2, PartOfAll
<1> QED BY <1>14, <1>15, <1>18, <1>19, <1>20

-----------------------------------------------------------------------------
(* The reads over every store the verbs build.  No verb runs while a reply   *)
(* is on its way, so what it says of the rows is said of the rows as they    *)
(* stand: the rows it ranked are rows of the store, each once, and the rest  *)
(* is computed from them.                                                    *)

Ranked(scored, pool) ==
    /\ scored \in Seq(DOMAIN memory) /\ Once(scored)
    /\ pool = Repaired(memory, scored)

Probed(scope, nearest, outcome) ==
    /\ nearest \in Seq(DOMAIN memory)
    /\ outcome = DenseArm(memory, scope, nearest)

AnswerIsOfTheStore ==
    answer # NULL =>
        /\ answer.read \in {"search", "surface"} => Ranked(answer.scored, answer.pool)
        /\ answer.read = "probe" => Probed(answer.scope, answer.nearest, answer.outcome)

\* A list of every element of D, each once.
LEMMA EnumerationIs ==
  ASSUME NEW D, IsFiniteSet(D), NEW s \in SetToSeqs(D)
  PROVE  s \in Seq(D) /\ Once(s)
<1>1. Cardinality(D) \in Nat
  BY FS_CardinalityType
<1>2. s \in [1 .. Cardinality(D) -> D]
  BY DEF SetToSeqs
<1> QED BY <1>1, <1>2 DEF SetToSeqs, Once

\* What an arm ranks of U is in U.
LEMMA ArmIsIn ==
  ASSUME NEW U, NEW s \in SetToAllKPermutations(U)
  PROVE  ToSet(s) \subseteq U
<1>1. PICK V \in SUBSET U : s \in SetToSeqs(V)
  BY DEF SetToAllKPermutations
<1>2. s \in [1 .. Cardinality(V) -> V]
  BY <1>1 DEF SetToSeqs
<1> QED BY <1>2 DEF ToSet

LEMMA ScoredIs ==
  ASSUME NEW m, IsFiniteSet(DOMAIN m), NEW dense, ToSet(dense) \subseteq DOMAIN m,
         NEW lexical, ToSet(lexical) \subseteq DOMAIN m,
         NEW tie, NEW s \in Scored(m, <<dense, lexical>>, tie)
  PROVE  s \in Seq(DOMAIN m) /\ Once(s)
<1> DEFINE arms == <<dense, lexical>>
           U == UNION {ToSet(arms[a]) : a \in DOMAIN arms}
<1>1. DOMAIN arms = {1, 2} /\ arms[1] = dense /\ arms[2] = lexical
  OBVIOUS
<1>2. U \in SUBSET (DOMAIN m)
  BY <1>1
<1>3. s \in SetToSeqs(U)
  BY DEF Scored
<1> HIDE DEF U
<1>4. IsFiniteSet(U)
  BY <1>2, FS_Subset
<1>5. s \in Seq(U) /\ Once(s)
  BY <1>3, <1>4, EnumerationIs
<1> QED BY <1>2, <1>5

LEMMA IndexIs ==
  ASSUME NEW m, NEW s \in Indexes(m)
  PROVE  s \in Seq(DOMAIN m)
<1>1. PICK n \in Cardinality(DOMAIN m) .. MaxChunks : s \in [1 .. n -> DOMAIN m]
  BY DEF Indexes
<1>2. n \in Int
  OBVIOUS
<1>3. CASE n \in Nat
  BY <1>1, <1>3
<1>4. CASE n \notin Nat
  <2>1. 1 .. n = 1 .. 0
    BY <1>2, <1>4
  <2> QED BY <1>1, <2>1
<1> QED BY <1>3, <1>4

LEMMA AnswerStaysOfTheStore ==
  ASSUME RecordsTypeOK, AnswerIsOfTheStore, [ReadsNext]_readVars
  PROVE  AnswerIsOfTheStore'
<1>1. IsFiniteSet(DOMAIN memory)
  BY FS_Subset, ReadsAssumption DEF RecordsTypeOK
<1>2. CASE VerbRuns
  BY <1>2 DEF VerbRuns, AnswerIsOfTheStore
<1>3. CASE Delivered
  BY <1>3 DEF Delivered, AnswerIsOfTheStore
<1>4. CASE Plan
  BY <1>4 DEF Plan, AnswerIsOfTheStore
<1>5. CASE Probes
  <2>1. PICK s \in Scopes(memory), nearest \in Indexes(memory) :
            answer' = [read |-> "probe", scope |-> s, nearest |-> nearest,
                       outcome |-> DenseArm(memory, s, nearest)]
    BY <1>5 DEF Probes
  <2>2. memory' = memory
    BY <1>5 DEF Probes, recordVars
  <2>3. nearest \in Seq(DOMAIN memory)
    BY IndexIs
  <2> QED BY <2>1, <2>2, <2>3 DEF AnswerIsOfTheStore, Probed
<1>6. CASE Searches
  <2>1. PICK s \in Scopes(memory) :
            /\ s.consumer \in {"search", "surface"}
            /\ \E dense \in DenseRows(Eligible(memory, s)),
                  lexical \in LexicalRows(Eligible(memory, s)),
                  tie \in Bijection(DOMAIN memory, 1 .. Cardinality(DOMAIN memory)) :
                  \E scored \in Scored(memory, <<dense, lexical>>, tie) :
                      answer' = [read |-> s.consumer, scored |-> scored,
                                 pool |-> Repaired(memory, scored)]
    BY <1>6 DEF Searches
  <2>2. PICK dense \in DenseRows(Eligible(memory, s)),
             lexical \in LexicalRows(Eligible(memory, s)),
             tie \in Bijection(DOMAIN memory, 1 .. Cardinality(DOMAIN memory)) :
             \E scored \in Scored(memory, <<dense, lexical>>, tie) :
                 answer' = [read |-> s.consumer, scored |-> scored,
                            pool |-> Repaired(memory, scored)]
    BY <2>1
  <2>3. PICK scored \in Scored(memory, <<dense, lexical>>, tie) :
             answer' = [read |-> s.consumer, scored |-> scored,
                        pool |-> Repaired(memory, scored)]
    BY <2>2
  <2>4. ToSet(dense) \subseteq DOMAIN memory /\ ToSet(lexical) \subseteq DOMAIN memory
    <3>1. Eligible(memory, s) \subseteq DOMAIN memory
      BY DEF Eligible
    <3>2. /\ dense \in SetToAllKPermutations(Eligible(memory, s))
          /\ lexical \in SetToAllKPermutations(Eligible(memory, s))
      BY DEF DenseRows, LexicalRows
    <3> QED BY <3>1, <3>2, ArmIsIn
  <2>5. scored \in Seq(DOMAIN memory) /\ Once(scored)
    BY <1>1, <2>4, ScoredIs
  <2>6. memory' = memory
    BY <1>6 DEF Searches, recordVars
  <2> QED BY <2>1, <2>3, <2>5, <2>6 DEF AnswerIsOfTheStore, Ranked
<1>7. CASE UNCHANGED readVars
  BY <1>7 DEF readVars, AnswerIsOfTheStore, Ranked, Probed
<1> QED BY <1>2, <1>3, <1>4, <1>5, <1>6, <1>7 DEF ReadsNext

\* The reads write nothing: what the store goes through with them is what it
\* goes through without (each read is one snapshot of the store).
THEOREM ReadsChangeNothing == ReadsSpec => RecordsSpec
<1>1. ReadsInit => RecordsInit
  BY DEF ReadsInit
<1>2. [ReadsNext]_readVars => [RecordsNext]_recordVars
  BY DEF ReadsNext, VerbRuns, Probes, Searches, Plan, Delivered, readVars, recordVars
<1> QED BY <1>1, <1>2, PTL DEF ReadsSpec, RecordsSpec

LEMMA AnswersAreOfTheStore == ReadsSpec => [](AnswerIsOfTheStore /\ Acyclic)
<1>1. ReadsInit => AnswerIsOfTheStore
  BY DEF ReadsInit, AnswerIsOfTheStore
<1>2. RecordsTypeOK /\ AnswerIsOfTheStore /\ [ReadsNext]_readVars => AnswerIsOfTheStore'
  BY AnswerStaysOfTheStore
<1> QED BY <1>1, <1>2, ReadsChangeNothing, RecordsTypeCorrect, SupersessionIsAcyclic, PTL
        DEF ReadsSpec

LEMMA PoolRepairs ==
  ASSUME AnswerIsOfTheStore, Acyclic, answer # NULL, answer.read \in {"search", "surface"}
  PROVE  Repairs(memory, answer.scored, answer.pool)
<1>1. Ranked(answer.scored, answer.pool)
  BY DEF AnswerIsOfTheStore
<1>2. NoCycle(memory)
  BY DEF Acyclic, NoCycle, Rows
<1>3. Repaired(memory, answer.scored) = Emission(memory)[answer.scored]
  BY RepairIsEmission
<1> QED BY <1>1, <1>2, <1>3, EmissionRepairs DEF Ranked

\* Whatever the verbs have made of the store and whatever the arms find of it,
\* search and surface put a replacement before what it replaced, and move a row
\* behind one it outscored only while its own replacement has yet to come
\* (_repair_supersession).
THEOREM ReplacementsComeFirst == ReadsSpec => []HeirsLead
<1>1. AnswerIsOfTheStore /\ Acyclic => HeirsLead
  <2> SUFFICES ASSUME AnswerIsOfTheStore, Acyclic, answer # NULL,
                      answer.read \in {"search", "surface"},
                      NEW u \in ToSet(answer.pool), NEW v \in ToSet(answer.pool)
               PROVE  /\ memory[v].superseded_by = u =>
                            Place(answer.pool, u) < Place(answer.pool, v)
                      /\ /\ Place(answer.pool, u) < Place(answer.pool, v)
                         /\ ~(Place(answer.scored, u) < Place(answer.scored, v))
                         /\ u # v
                         => /\ memory[v].superseded_by \in ToSet(answer.pool)
                            /\ Place(answer.pool, memory[v].superseded_by)
                                  >= Place(answer.pool, u)
    BY DEF HeirsLead
  <2>1. Repairs(memory, answer.scored, answer.pool)
    BY PoolRepairs
  <2>2. ToSet(answer.pool) = ToSet(answer.scored) /\ answer.pool \in Seq(DOMAIN memory)
    BY <2>1 DEF Repairs
  <2>3. \A x \in ToSet(answer.pool) : Place(answer.pool, x) \in Int
    BY <2>2, PlaceIs
  <2> QED BY <2>1, <2>2, <2>3 DEF Repairs, Leads, Heir
<1> QED BY <1>1, AnswersAreOfTheStore, PTL

\* No store the verbs can build makes search or surface raise for want of a row
\* that may be emitted: every row found is returned, once.
THEOREM EveryRankedRowIsReturned == ReadsSpec => []RankingNeverStalls
<1>1. AnswerIsOfTheStore /\ Acyclic => RankingNeverStalls
  BY PoolRepairs DEF RankingNeverStalls, Repairs
<1> QED BY <1>1, AnswersAreOfTheStore, PTL

\* What the dense arm returns and says of where it stopped is true of the index,
\* whatever its order, its size and the depths (probe_vec).
THEOREM ProbesAreTruthful == ReadsSpec => []ProbesTellTruth
<1>1. AnswerIsOfTheStore => ProbesTellTruth
  <2> SUFFICES ASSUME AnswerIsOfTheStore, answer # NULL, answer.read = "probe"
               PROVE  ProbesTellTruth
    BY DEF ProbesTellTruth
  <2>1. Probed(answer.scope, answer.nearest, answer.outcome)
    BY DEF AnswerIsOfTheStore
  <2> QED BY <2>1, DenseArmTellsTruth DEF Probed, ProbesTellTruth
<1> QED BY <1>1, AnswersAreOfTheStore, PTL

-----------------------------------------------------------------------------
(* Sorting: a finite set with a strict total order R has a sorted list, in   *)
(* which each element is at the place its rank says.                         *)

StrictOrder(S, R) ==
    /\ \A x, y, z \in S : <<x, y>> \in R /\ <<y, z>> \in R => <<x, z>> \in R
    /\ \A x \in S : <<x, x>> \notin R
    /\ \A x, y \in S : x = y \/ <<x, y>> \in R \/ <<y, x>> \in R

LEMMA SortedListExists ==
  ASSUME NEW S, IsFiniteSet(S), NEW R, StrictOrder(S, R)
  PROVE  \E s \in SetToSeqs(S) : \A i, j \in DOMAIN s : i < j => <<s[i], s[j]>> \in R
<1> DEFINE upTo(x) == {y \in S : y = x \/ <<y, x>> \in R}
           n == Cardinality(S)
           place == [x \in S |-> Cardinality(upTo(x))]
<1>1. n \in Nat /\ IsFiniteSet(1 .. n) /\ Cardinality(1 .. n) = n
  <2>1. n \in Nat
    BY FS_CardinalityType
  <2> QED BY <2>1, FS_Interval
<1>2. ASSUME NEW x \in S
      PROVE  IsFiniteSet(upTo(x)) /\ place[x] = Cardinality(upTo(x))
             /\ place[x] \in 1 .. n /\ place[x] \in Nat
  <2>1. upTo(x) \in SUBSET S /\ x \in upTo(x)
    OBVIOUS
  <2> HIDE DEF upTo
  <2>2. IsFiniteSet(upTo(x)) /\ Cardinality(upTo(x)) <= n
    BY <2>1, FS_Subset
  <2>3. Cardinality(upTo(x)) \in Nat /\ Cardinality(upTo(x)) # 0
    BY <2>1, <2>2, FS_CardinalityType, FS_EmptySet
  <2>4. place[x] = Cardinality(upTo(x))
    OBVIOUS
  <2> HIDE DEF place
  <2> QED BY <1>1, <2>2, <2>3, <2>4
<1>3. ASSUME NEW x \in S, NEW y \in S, <<x, y>> \in R
      PROVE  place[x] < place[y]
  <2>1. upTo(x) \in SUBSET upTo(y) /\ y \notin upTo(x) /\ y \in upTo(y)
    <3>1. \A z \in S : <<z, x>> \in R => <<z, y>> \in R
      BY <1>3 DEF StrictOrder
    <3>2. y # x /\ <<y, x>> \notin R
      BY <1>3 DEF StrictOrder
    <3>3. upTo(x) \subseteq upTo(y)
      BY <1>3, <3>1
    <3>4. y \notin upTo(x) /\ y \in upTo(y)
      BY <3>2
    <3> QED BY <3>3, <3>4
  <2>2. IsFiniteSet(upTo(y)) /\ place[x] = Cardinality(upTo(x)) /\ place[y] = Cardinality(upTo(y))
    BY <1>2
  <2>3. place[x] \in Nat /\ place[y] \in Nat
    BY <1>2
  <2>4. upTo(x) # upTo(y)
    BY <2>1
  <2> HIDE DEF upTo, place
  <2>5. /\ Cardinality(upTo(x)) <= Cardinality(upTo(y))
        /\ Cardinality(upTo(x)) # Cardinality(upTo(y))
    BY <2>1, <2>2, <2>4, FS_Subset
  <2> QED BY <2>2, <2>3, <2>5
<1>4. ASSUME NEW x \in S, NEW y \in S, place[x] = place[y]
      PROVE  x = y
  <2>1. place[x] \in Nat /\ place[y] \in Nat
    BY <1>2
  <2> HIDE DEF place
  <2>2. <<x, y>> \notin R /\ <<y, x>> \notin R
    BY <1>3, <1>4, <2>1
  <2> QED BY <2>2 DEF StrictOrder
<1>5. place \in Injection(S, 1 .. n)
  <2>1. place \in [S -> 1 .. n]
    BY <1>2
  <2> QED BY <1>4, <2>1 DEF Injection, IsInjective
<1> HIDE DEF place
<1>6. place \in Surjection(S, 1 .. n)
  BY <1>1, <1>5, FS_Injection
<1> DEFINE s == [k \in 1 .. n |-> CHOOSE x \in S : place[x] = k]
<1>7. ASSUME NEW k \in 1 .. n
      PROVE  s[k] \in S /\ place[s[k]] = k
  <2>1. \E x \in S : place[x] = k
    BY <1>6 DEF Surjection
  <2> QED BY <2>1
<1>8. s \in [1 .. n -> S] /\ DOMAIN s = 1 .. n
  BY <1>7
<1> HIDE DEF s
<1>9. s \in SetToSeqs(S)
  <2>1. \A i, j \in 1 .. n : i # j => s[i] # s[j]
    BY <1>7
  <2> QED BY <1>8, <2>1 DEF SetToSeqs
<1>10. ASSUME NEW i \in DOMAIN s, NEW j \in DOMAIN s, i < j
       PROVE  <<s[i], s[j]>> \in R
  <2>1. /\ s[i] \in S /\ s[j] \in S /\ place[s[i]] = i /\ place[s[j]] = j
        /\ i \in Nat /\ j \in Nat
    BY <1>1, <1>7, <1>8
  <2>2. s[i] # s[j] /\ <<s[j], s[i]>> \notin R
    BY <1>3, <1>10, <2>1
  <2> QED BY <2>1, <2>2 DEF StrictOrder
<1> QED BY <1>9, <1>10

\* A list of every element of D, each once, has them all.
LEMMA EnumerationHasAll ==
  ASSUME NEW D, IsFiniteSet(D), NEW s \in SetToSeqs(D)
  PROVE  ToSet(s) = D /\ Len(s) = Cardinality(D) /\ Len(s) \in Nat /\ DOMAIN s = 1 .. Len(s)
<1>1. Cardinality(D) \in Nat
  BY FS_CardinalityType
<1>2. s \in [1 .. Cardinality(D) -> D] /\ \A i, j \in 1 .. Cardinality(D) : i # j => s[i] # s[j]
  BY DEF SetToSeqs
<1>3. s \in Injection(1 .. Cardinality(D), D)
  BY <1>2 DEF Injection, IsInjective
<1>4. Cardinality(1 .. Cardinality(D)) = Cardinality(D)
  BY <1>1, FS_Interval
<1>5. s \in Surjection(1 .. Cardinality(D), D)
  BY <1>3, <1>4, FS_Injection
<1>6. \A u \in D : \E i \in DOMAIN s : s[i] = u
  BY <1>2, <1>5 DEF Surjection
<1>7. ToSet(s) = D
  BY <1>2, <1>6 DEF ToSet
<1>8. s \in Seq(D) /\ Len(s) = Cardinality(D)
  BY <1>1, <1>2
<1> QED BY <1>1, <1>2, <1>7, <1>8

\* As many places as different things.
LEMMA OnceCounts ==
  ASSUME NEW S, NEW s \in Seq(S), Once(s)
  PROVE  IsFiniteSet(ToSet(s)) /\ Cardinality(ToSet(s)) = Len(s)
<1>1. Len(s) \in Nat /\ DOMAIN s = 1 .. Len(s) /\ s \in [1 .. Len(s) -> ToSet(s)]
  BY DEF ToSet
<1>2. s \in Bijection(1 .. Len(s), ToSet(s))
  BY <1>1 DEF Bijection, Injection, Surjection, IsInjective, Once, ToSet
<1>3. IsFiniteSet(1 .. Len(s)) /\ Cardinality(1 .. Len(s)) = Len(s)
  BY <1>1, FS_Interval
<1> QED BY <1>2, <1>3, FS_Bijection DEF ExistsBijection

-----------------------------------------------------------------------------
(* What a plan is computed from.                                             *)

Measured(m, in) ==
    /\ DOMAIN m \subseteq Uuids
    /\ IsFiniteSet(Journal(m))
    /\ in.created \in [Journal(m) -> 1 .. 2]
    /\ in.name \in [Journal(m) -> Nat]
    /\ \A u, v \in Journal(m) : in.name[u] = in.name[v] => u = v
    /\ \A u \in Journal(m) : ToSet(in.pool[u]) \subseteq LongTerm(m)
                             /\ DOMAIN in.pool[u] \subseteq Nat

LEMMA ReadingsAreMeasured ==
  ASSUME NEW m, DOMAIN m \subseteq Uuids, NEW K, NEW in \in Readings(m, K)
  PROVE  Measured(m, in)
<1>1. Journal(m) \in SUBSET Uuids
  BY DEF Journal
<1>2. IsFiniteSet(Journal(m))
  BY <1>1, FS_Subset, ReadsAssumption
<1>3. /\ in.created \in [Journal(m) -> 1 .. 2]
      /\ in.name \in Bijection(Journal(m), 1 .. Cardinality(Journal(m)))
      /\ in.pool \in [Journal(m) -> SetToAllKPermutations(LongTerm(m))]
  BY DEF Readings
<1>4. /\ in.name \in [Journal(m) -> Nat]
      /\ \A u, v \in Journal(m) : in.name[u] = in.name[v] => u = v
  <2>1. Cardinality(Journal(m)) \in Nat
    BY <1>2, FS_CardinalityType
  <2> QED BY <1>3, <2>1 DEF Bijection, Injection, IsInjective
<1>5. ASSUME NEW u \in Journal(m)
      PROVE  ToSet(in.pool[u]) \subseteq LongTerm(m) /\ DOMAIN in.pool[u] \subseteq Nat
  <2>1. in.pool[u] \in SetToAllKPermutations(LongTerm(m))
    BY <1>3
  <2>2. PICK V \in SUBSET LongTerm(m) : in.pool[u] \in SetToSeqs(V)
    BY <2>1 DEF SetToAllKPermutations
  <2>3. DOMAIN in.pool[u] = 1 .. Cardinality(V)
    BY <2>2 DEF SetToSeqs
  <2>4. \A i \in 1 .. Cardinality(V) : i \in Nat
    OBVIOUS
  <2> QED BY <2>1, <2>3, <2>4, ArmIsIn
<1> QED BY <1>2, <1>3, <1>4, <1>5 DEF Measured

LEMMA InOrderIs ==
  ASSUME NEW m, NEW in, Measured(m, in), NEW S \in SUBSET Journal(m)
  PROVE  LET s == InOrder(in, S)
         IN  /\ s \in Seq(S) /\ Once(s) /\ ToSet(s) = S
             /\ Len(s) = Cardinality(S) /\ Len(s) \in Nat /\ DOMAIN s = 1 .. Len(s)
<1> DEFINE R == {p \in S \X S : Sooner(in, p[1], p[2])}
<1>1. IsFiniteSet(S)
  BY FS_Subset DEF Measured
<1>2. /\ \A u \in S : in.created[u] \in Nat /\ in.name[u] \in Nat
      /\ \A u, v \in S : in.name[u] = in.name[v] => u = v
  BY DEF Measured
<1>3. \A u, v \in S : <<u, v>> \in R <=> Sooner(in, u, v)
  OBVIOUS
<1> HIDE DEF R
<1>4. StrictOrder(S, R)
  BY <1>2, <1>3 DEF StrictOrder, Sooner
<1>5. PICK s \in SetToSeqs(S) : \A i, j \in DOMAIN s : i < j => <<s[i], s[j]>> \in R
  BY <1>1, <1>4, SortedListExists
<1>6. s \in Seq(S) /\ DOMAIN s = 1 .. Len(s)
  BY <1>1, EnumerationIs
<1>7. ASSUME NEW i \in DOMAIN s, NEW j \in DOMAIN s, i < j
      PROVE  Sooner(in, s[i], s[j])
  <2>1. s[i] \in S /\ s[j] \in S
    BY <1>6
  <2> QED BY <1>3, <1>5, <1>7, <2>1
<1>8. InOrder(in, S) \in SetToSeqs(S)
  BY <1>7 DEF InOrder
<1> QED BY <1>1, <1>8, EnumerationIs, EnumerationHasAll

-----------------------------------------------------------------------------
(* Clusters. *)

Mutual(in, u, v) == u = v \/ (v \in in.near[u] /\ u \in in.near[v])

LEMMA EdgeIsSymmetric ==
  ASSUME NEW m, NEW in, NEW u, NEW v, Edge(m, in, u, v)
  PROVE  Edge(m, in, v, u) /\ u \in Orphans(m, in) /\ v \in Orphans(m, in) /\ Mutual(in, u, v)
BY DEF Edge, Mutual

\* The orphans a walk from u reaches are the same from each of them.
LEMMA ComponentsPartition ==
  ASSUME NEW m, NEW in, NEW u \in Orphans(m, in)
  PROVE  /\ u \in Component(m, in, u) /\ Component(m, in, u) \subseteq Orphans(m, in)
         /\ \A v \in Component(m, in, u) : Component(m, in, v) = Component(m, in, u)
<1> DEFINE O == Orphans(m, in)
           closed(S) == \A w \in S, v \in O : Edge(m, in, w, v) => v \in S
           C(x) == Component(m, in, x)
<1>1. \A x : C(x) = {v \in O : \A S \in SUBSET O : x \in S /\ closed(S) => v \in S}
  BY DEF Component
<1> HIDE DEF O
<1>2. ASSUME NEW x \in O
      PROVE  x \in C(x) /\ C(x) \in SUBSET O
  BY <1>1
<1>3. ASSUME NEW x
      PROVE  closed(C(x))
  <2> SUFFICES ASSUME NEW w \in C(x), NEW v \in O, Edge(m, in, w, v)
               PROVE  v \in C(x)
    OBVIOUS
  <2>1. \A S \in SUBSET O : x \in S /\ closed(S) => w \in S
    BY <1>1
  <2>2. \A S \in SUBSET O : x \in S /\ closed(S) => v \in S
    BY <2>1
  <2> QED BY <1>1, <2>2
<1>4. ASSUME NEW x \in O, NEW y \in C(x)
      PROVE  C(y) \subseteq C(x)
  <2> SUFFICES ASSUME NEW z \in C(y)
               PROVE  z \in C(x)
    OBVIOUS
  <2>1. \A S \in SUBSET O : y \in S /\ closed(S) => z \in S
    BY <1>1
  <2>2. C(x) \in SUBSET O /\ closed(C(x))
    BY <1>2, <1>3
  <2> QED BY <2>1, <2>2
<1>5. ASSUME NEW x \in O, NEW y \in C(x)
      PROVE  x \in C(y)
  <2> SUFFICES ASSUME x \notin C(y)
               PROVE  FALSE
    OBVIOUS
  <2> DEFINE S == O \ C(y)
  <2>1. y \in O /\ y \in C(y)
    BY <1>1, <1>2
  <2>2. closed(S)
    <3> SUFFICES ASSUME NEW w \in S, NEW v \in O, Edge(m, in, w, v), v \in C(y)
                 PROVE  FALSE
      OBVIOUS
    <3>1. Edge(m, in, v, w) /\ w \in O
      BY EdgeIsSymmetric
    <3> QED BY <1>3, <3>1
  <2>3. S \in SUBSET O /\ x \in S
    OBVIOUS
  <2>4. \A R \in SUBSET O : x \in R /\ closed(R) => y \in R
    BY <1>1
  <2>5. y \in S
    BY <2>2, <2>3, <2>4
  <2> QED BY <2>1, <2>5
<1>6. ASSUME NEW x \in C(u)
      PROVE  C(x) = C(u)
  <2>1. u \in O /\ x \in O
    BY <1>1 DEF O
  <2>2. u \in C(x)
    BY <1>5, <2>1
  <2> QED BY <1>4, <2>1, <2>2
<1> QED BY <1>2, <1>6 DEF O

\* A set has what each step leads to from what it has.
LEMMA StepByStep ==
  ASSUME NEW n \in Nat, NEW T, 0 \in T, \A k \in 1 .. n : k - 1 \in T => k \in T
  PROVE  0 .. n \subseteq T
<1> DEFINE Bad == {k \in 0 .. n : k \notin T}
<1>1. Bad \in SUBSET Nat
  OBVIOUS
<1> SUFFICES ASSUME Bad # {}
             PROVE  FALSE
  OBVIOUS
<1>2. PICK k \in Bad : \A j \in Bad : k <= j
  <2> HIDE DEF Bad
  <2> QED BY <1>1, LeastNat
<1>3. k \in 1 .. n /\ k - 1 \notin Bad /\ k - 1 \in 0 .. n
  BY <1>2
<1> QED BY <1>3

\* Whoever joins has an edge to all who joined before.
Joins(m, in, c, S, i) ==
    c[i] \in S <=> \A j \in 1 .. i - 1 : c[j] \in S => Edge(m, in, c[j], c[i])

LEMMA GrownExists ==
  ASSUME NEW m, NEW in, NEW C, NEW c \in Seq(C), Once(c)
  PROVE  \E S \in SUBSET ToSet(c) : \A i \in DOMAIN c : Joins(m, in, c, S, i)
<1> DEFINE n == Len(c)
           T == {k \in 0 .. n : \E S \in SUBSET ToSet(c) : \A i \in 1 .. k : Joins(m, in, c, S, i)}
<1>1. n \in Nat /\ DOMAIN c = 1 .. n /\ \A i \in 1 .. n : c[i] \in ToSet(c)
  BY DEF ToSet
<1>2. \A i, j \in 1 .. n : i # j => c[i] # c[j]
  BY <1>1 DEF Once
<1> HIDE DEF n
<1>3. 0 \in T
  BY <1>1
<1>4. ASSUME NEW k \in 1 .. n, k - 1 \in T
      PROVE  k \in T
  <2>1. PICK S \in SUBSET ToSet(c) : \A i \in 1 .. k - 1 : Joins(m, in, c, S, i)
    BY <1>4
  <2> DEFINE fits == \A j \in 1 .. k - 1 : c[j] \in S => Edge(m, in, c[j], c[k])
             S2 == IF fits THEN S \cup {c[k]} ELSE S \ {c[k]}
  <2>2. S2 \in SUBSET ToSet(c) /\ (c[k] \in S2 <=> fits)
    BY <1>1
  <2>3. \A x : x # c[k] => (x \in S2 <=> x \in S)
    OBVIOUS
  <2>4. ASSUME NEW j \in 1 .. k - 1
        PROVE  c[j] \in S2 <=> c[j] \in S
    <3>1. j \in 1 .. n /\ j # k
      BY <1>1
    <3> QED BY <1>2, <2>3, <3>1
  <2> HIDE DEF S2
  <2>5. ASSUME NEW i \in 1 .. k - 1
        PROVE  Joins(m, in, c, S2, i)
    <3>1. \A j \in 1 .. i - 1 : j \in 1 .. k - 1
      BY <1>1
    <3> QED BY <2>1, <2>4, <3>1 DEF Joins
  <2>6. Joins(m, in, c, S2, k)
    BY <2>2, <2>4 DEF Joins
  <2>7. \A i \in 1 .. k : i \in 1 .. k - 1 \/ i = k
    BY <1>1
  <2>8. \A i \in 1 .. k : Joins(m, in, c, S2, i)
    BY <2>5, <2>6, <2>7
  <2>9. k \in 0 .. n
    BY <1>1
  <2> QED BY <2>2, <2>8, <2>9
<1> HIDE DEF T
<1>5. n \in T
  BY <1>1, <1>3, <1>4, StepByStep
<1> QED BY <1>1, <1>5 DEF T

LEMMA GrownIs ==
  ASSUME NEW m, NEW in, NEW C, NEW c \in Seq(C), Once(c)
  PROVE  LET S == Grown(m, in, c)
         IN  /\ S \subseteq ToSet(c)
             /\ ToSet(c) # {} => S # {}
             /\ \A u, v \in S : Mutual(in, u, v)
<1> DEFINE S == Grown(m, in, c)
<1>1. S \in SUBSET ToSet(c) /\ \A i \in DOMAIN c : Joins(m, in, c, S, i)
  BY GrownExists DEF Grown, Joins
<1> HIDE DEF S
<1>2. Len(c) \in Nat /\ DOMAIN c = 1 .. Len(c)
  OBVIOUS
<1>3. ToSet(c) # {} => S # {}
  <2> SUFFICES ASSUME ToSet(c) # {}
               PROVE  S # {}
    OBVIOUS
  <2>1. 1 \in DOMAIN c /\ 1 .. 1 - 1 = {}
    BY <1>2 DEF ToSet
  <2> QED BY <1>1, <2>1 DEF Joins
<1>4. ASSUME NEW i \in DOMAIN c, NEW j \in DOMAIN c, c[i] \in S, c[j] \in S, j < i
      PROVE  Mutual(in, c[j], c[i]) /\ Mutual(in, c[i], c[j])
  <2>1. j \in 1 .. i - 1
    BY <1>2, <1>4
  <2>2. Edge(m, in, c[j], c[i])
    BY <1>1, <1>4, <2>1 DEF Joins
  <2> QED BY <2>2, EdgeIsSymmetric
<1>5. ASSUME NEW u \in S, NEW v \in S
      PROVE  Mutual(in, u, v)
  <2>1. PICK i \in DOMAIN c : c[i] = u
    BY <1>1 DEF ToSet
  <2>2. PICK j \in DOMAIN c : c[j] = v
    BY <1>1 DEF ToSet
  <2>3. i < j \/ j < i \/ i = j
    BY <1>2
  <2> QED BY <1>4, <2>1, <2>2, <2>3 DEF Mutual
<1> QED BY <1>1, <1>3, <1>5 DEF S

\* What is left of a component after each pass.
PassLeaves(m, in, C, f, k) ==
    IF k = 0 THEN C ELSE f[k - 1] \ Grown(m, in, InOrder(in, f[k - 1]))

Left(m, in, C, n, f) == f = [k \in 0 .. n |-> PassLeaves(m, in, C, f, k)]

LEMMA LeftExists ==
  ASSUME NEW m, NEW in, NEW C, NEW n \in Nat
  PROVE  \E f : Left(m, in, C, n, f)
<1> DEFINE T == {l \in 0 .. n : \E f : Left(m, in, C, l, f)}
<1>1. 0 \in T
  <2> DEFINE f == [k \in 0 .. 0 |-> PassLeaves(m, in, C, <<>>, k)]
  <2>1. \A k \in 0 .. 0 : PassLeaves(m, in, C, f, k) = PassLeaves(m, in, C, <<>>, k)
    BY DEF PassLeaves
  <2>2. f = [k \in 0 .. 0 |-> PassLeaves(m, in, C, f, k)]
    BY <2>1
  <2> HIDE DEF f
  <2>3. Left(m, in, C, 0, f)
    BY <2>2 DEF Left
  <2> QED BY <2>3
<1>2. ASSUME NEW l \in 1 .. n, l - 1 \in T
      PROVE  l \in T
  <2>1. PICK f : Left(m, in, C, l - 1, f)
    BY <1>2
  <2>2. /\ \A k \in 0 .. l - 1 : k \in 0 .. l
        /\ \A k \in 0 .. l : k = 0 \/ k - 1 \in 0 .. l - 1
        /\ l \in 0 .. n
    OBVIOUS
  <2> DEFINE g == [k \in 0 .. l |-> PassLeaves(m, in, C, f, k)]
  <2>3. \A k \in 0 .. l - 1 : f[k] = PassLeaves(m, in, C, f, k)
    BY <2>1 DEF Left
  <2>4. \A k \in 0 .. l - 1 : g[k] = f[k]
    BY <2>2, <2>3
  <2>5. ASSUME NEW k \in 0 .. l
        PROVE  PassLeaves(m, in, C, g, k) = PassLeaves(m, in, C, f, k)
    <3> HIDE DEF g
    <3> QED BY <2>2, <2>4 DEF PassLeaves
  <2>6. g = [k \in 0 .. l |-> PassLeaves(m, in, C, g, k)]
    BY <2>5
  <2> HIDE DEF g
  <2>7. Left(m, in, C, l, g)
    BY <2>6 DEF Left
  <2> QED BY <2>2, <2>7
<1> HIDE DEF T
<1>3. n \in T
  BY <1>1, <1>2, StepByStep
<1> QED BY <1>3 DEF T

\* The subgroups are what the passes take away.
LEMMA SubgroupsAre ==
  ASSUME NEW m, NEW in, NEW C, IsFiniteSet(C)
  PROVE  \E f : /\ Left(m, in, C, Cardinality(C), f)
                /\ CohesiveSubgroups(m, in, C)
                      = {Grown(m, in, InOrder(in, f[k])) : k \in 0 .. Cardinality(C)} \ {{}}
<1> DEFINE n == Cardinality(C)
           f == CHOOSE g : Left(m, in, C, n, g)
<1>1. n \in Nat
  BY FS_CardinalityType
<1>2. CohesiveSubgroups(m, in, C) = {Grown(m, in, InOrder(in, f[k])) : k \in 0 .. n} \ {{}}
  BY DEF CohesiveSubgroups, Left, PassLeaves
<1> HIDE DEF n
<1>3. Left(m, in, C, n, f)
  BY <1>1, LeftExists
<1> HIDE DEF f
<1> QED BY <1>2, <1>3 DEF n

\* What the passes take from C is its rows, each once, and rows taken together
\* are each other's neighbours.
Parts(in, C, G) ==
    /\ \A S \in G : S \in SUBSET C /\ S # {}
    /\ \A S, T \in G : S # T => S \cap T = {}
    /\ \A u \in C : \E S \in G : u \in S
    /\ \A S \in G : \A u, v \in S : Mutual(in, u, v)

LEMMA SubgroupsPartition ==
  ASSUME NEW m, NEW in, Measured(m, in), NEW C \in SUBSET Journal(m)
  PROVE  Parts(in, C, CohesiveSubgroups(m, in, C))
<1> DEFINE n == Cardinality(C)
           G == CohesiveSubgroups(m, in, C)
<1>1. IsFiniteSet(C) /\ n \in Nat
  BY FS_Subset, FS_CardinalityType DEF Measured
<1>2. PICK f : /\ Left(m, in, C, n, f)
               /\ G = {Grown(m, in, InOrder(in, f[k])) : k \in 0 .. n} \ {{}}
  BY <1>1, SubgroupsAre
<1> DEFINE cut(k) == Grown(m, in, InOrder(in, f[k]))
<1>3. f[0] = C /\ \A k \in 1 .. n : f[k] = f[k - 1] \ cut(k - 1)
  <2>1. \A k \in 0 .. n : f[k] = IF k = 0 THEN C ELSE f[k - 1] \ cut(k - 1)
    BY <1>2 DEF Left, PassLeaves
  <2>2. 0 \in 0 .. n /\ \A k \in 1 .. n : k \in 0 .. n /\ k # 0
    BY <1>1
  <2> QED BY <2>1, <2>2
<1>4. \A S : S \in G <=> S # {} /\ \E k \in 0 .. n : S = cut(k)
  BY <1>2
<1>5. ASSUME NEW L \in SUBSET C
      PROVE  LET S == Grown(m, in, InOrder(in, L))
             IN  S \subseteq L /\ (L # {} => S # {}) /\ \A u, v \in S : Mutual(in, u, v)
  <2>1. L \in SUBSET Journal(m)
    OBVIOUS
  <2>2. InOrder(in, L) \in Seq(L) /\ Once(InOrder(in, L)) /\ ToSet(InOrder(in, L)) = L
    BY <2>1, InOrderIs
  <2> QED BY <2>2, GrownIs
<1>6. \A k \in 0 .. n : f[k] \in SUBSET C
  <2> DEFINE T == {k \in 0 .. n : f[k] \in SUBSET C}
  <2>1. 0 \in T
    BY <1>1, <1>3
  <2>2. ASSUME NEW k \in 1 .. n, k - 1 \in T
        PROVE  k \in T
    BY <1>3, <2>2
  <2> HIDE DEF T
  <2>3. 0 .. n \subseteq T
    BY <1>1, <2>1, <2>2, StepByStep
  <2> QED BY <2>3 DEF T
<1>7. \A k \in 0 .. n : /\ cut(k) \subseteq f[k] /\ (f[k] # {} => cut(k) # {})
                        /\ \A u, v \in cut(k) : Mutual(in, u, v)
  BY <1>5, <1>6
<1> HIDE DEF cut, n, G
<1>8. \A k, l \in 0 .. n : k <= l => f[l] \subseteq f[k]
  <2> SUFFICES ASSUME NEW k \in 0 .. n
               PROVE  \A l \in 0 .. n : k <= l => f[l] \subseteq f[k]
    OBVIOUS
  <2> DEFINE T == {l \in 0 .. n : k <= l => f[l] \subseteq f[k]}
  <2>1. 0 \in T
    BY <1>1
  <2>2. ASSUME NEW l \in 1 .. n, l - 1 \in T
        PROVE  l \in T
    <3>1. l \in 0 .. n /\ (k <= l => k = l \/ k <= l - 1)
      BY <1>1
    <3> QED BY <1>3, <2>2, <3>1
  <2> HIDE DEF T
  <2>3. 0 .. n \subseteq T
    BY <1>1, <2>1, <2>2, StepByStep
  <2> QED BY <2>3 DEF T
<1>9. ASSUME NEW k \in 0 .. n, NEW l \in 0 .. n, k < l
      PROVE  cut(k) \cap cut(l) = {}
  <2>1. k + 1 \in 1 .. n /\ k + 1 <= l /\ k + 1 - 1 = k /\ k + 1 \in 0 .. n
    BY <1>1, <1>9
  <2>2. f[k + 1] = f[k] \ cut(k)
    BY <1>3, <2>1
  <2>3. f[l] \subseteq f[k + 1]
    BY <1>8, <2>1
  <2> QED BY <1>7, <2>2, <2>3
<1>10. f[n] = {}
  <2> DEFINE T == {k \in 0 .. n : f[k] = {} \/ Cardinality(f[k]) + k <= n}
  <2>1. \A k \in 0 .. n : IsFiniteSet(f[k]) /\ Cardinality(f[k]) \in Nat
    BY <1>1, <1>6, FS_Subset, FS_CardinalityType
  <2>2. 0 \in T
    BY <1>1, <1>3 DEF n
  <2>3. ASSUME NEW k \in 1 .. n, k - 1 \in T
        PROVE  k \in T
    <3>1. k - 1 \in 0 .. n /\ k \in 0 .. n /\ k \in Nat
      BY <1>1
    <3>2. f[k] = f[k - 1] \ cut(k - 1)
      BY <1>3
    <3>3. CASE f[k - 1] = {}
      BY <3>1, <3>2, <3>3
    <3>4. CASE f[k - 1] # {}
      <4>1. f[k] \in SUBSET f[k - 1] /\ f[k] # f[k - 1]
        BY <1>7, <3>1, <3>2, <3>4
      <4>2. Cardinality(f[k]) <= Cardinality(f[k - 1]) /\ Cardinality(f[k]) # Cardinality(f[k - 1])
        BY <2>1, <3>1, <4>1, FS_Subset
      <4>3. Cardinality(f[k - 1]) + (k - 1) <= n
        BY <2>3, <3>4
      <4>4. Cardinality(f[k]) + k <= n
        BY <1>1, <2>1, <3>1, <4>2, <4>3
      <4> QED BY <3>1, <4>4
    <3> QED BY <3>3, <3>4
  <2> HIDE DEF T
  <2>4. n \in T /\ n \in 0 .. n
    BY <1>1, <2>2, <2>3, StepByStep
  <2>5. f[n] = {} \/ Cardinality(f[n]) + n <= n
    BY <2>4 DEF T
  <2>6. f[n] = {} \/ Cardinality(f[n]) = 0
    BY <1>1, <2>1, <2>4, <2>5
  <2> QED BY <2>1, <2>4, <2>6, FS_EmptySet
<1>11. ASSUME NEW u \in C
       PROVE  \E k \in 0 .. n : u \in cut(k)
  <2> SUFFICES ASSUME \A k \in 0 .. n : u \notin cut(k)
               PROVE  FALSE
    OBVIOUS
  <2> DEFINE T == {k \in 0 .. n : u \in f[k]}
  <2>1. 0 \in T
    BY <1>1, <1>3
  <2>2. ASSUME NEW k \in 1 .. n, k - 1 \in T
        PROVE  k \in T
    <3>1. k - 1 \in 0 .. n /\ k \in 0 .. n
      BY <1>1
    <3> QED BY <1>3, <2>2, <3>1
  <2> HIDE DEF T
  <2>3. n \in T
    BY <1>1, <2>1, <2>2, StepByStep
  <2> QED BY <1>10, <2>3 DEF T
<1>12. \A S \in G : S \in SUBSET C /\ S # {} /\ \A u, v \in S : Mutual(in, u, v)
  BY <1>4, <1>6, <1>7
<1>13. ASSUME NEW S \in G, NEW T \in G, S # T
       PROVE  S \cap T = {}
  <2>1. PICK k \in 0 .. n : S = cut(k)
    BY <1>4
  <2>2. PICK l \in 0 .. n : T = cut(l)
    BY <1>4
  <2>3. k < l \/ l < k
    BY <1>1, <1>13, <2>1, <2>2
  <2> QED BY <1>9, <2>1, <2>2, <2>3
<1>14. \A u \in C : \E S \in G : u \in S
  <2> SUFFICES ASSUME NEW u \in C
               PROVE  \E S \in G : u \in S
    OBVIOUS
  <2>1. PICK k \in 0 .. n : u \in cut(k)
    BY <1>11
  <2> QED BY <1>4, <2>1
<1> QED BY <1>12, <1>13, <1>14 DEF Parts, G

-----------------------------------------------------------------------------
(* The sets that are sharded.                                                *)

LEMMA AnchorIs ==
  ASSUME NEW m, NEW in, Measured(m, in), NEW u \in Journal(m), AnchorFor(in, u) # NULL
  PROVE  AnchorFor(in, u) \in LongTerm(m) /\ AnchorFor(in, u) \in in.clears[u]
<1> DEFINE close == {i \in DOMAIN in.pool[u] : in.pool[u][i] \in in.clears[u]}
<1>1. ToSet(in.pool[u]) \subseteq LongTerm(m) /\ DOMAIN in.pool[u] \subseteq Nat
  BY DEF Measured
<1>2. close # {} /\ AnchorFor(in, u) = in.pool[u][Min(close)]
  BY DEF AnchorFor
<1>3. close \in SUBSET Nat
  BY <1>1
<1>4. Min(close) \in close
  <2> HIDE DEF close
  <2> QED BY <1>2, <1>3, MinIs
<1> QED BY <1>1, <1>2, <1>4 DEF ToSet

\* The journal's rows, each in one set; a set's anchor is no other's, and each
\* of its rows cleared the floor with it; without one they are neighbours.
Laid(m, in, P) ==
    /\ \A g \in P : g.members \in SUBSET Journal(m) /\ g.members # {}
                    /\ g.anchor \in LongTerm(m) \cup {NULL}
    /\ \A g, h \in P : g # h => g.members \cap h.members = {}
    /\ \A u \in Journal(m) : \E g \in P : u \in g.members
    /\ \A g, h \in P : g.anchor = h.anchor /\ g.anchor # NULL => g = h
    /\ \A g \in P : \A u, v \in g.members :
          IF g.anchor = NULL THEN Mutual(in, u, v) ELSE g.anchor \in in.clears[u]

LEMMA PreShardIsLaid ==
  ASSUME NEW m, NEW in, Measured(m, in)
  PROVE  Laid(m, in, PreShard(m, in))
<1> DEFINE O == Orphans(m, in)
           C(u) == Component(m, in, u)
           G(u) == CohesiveSubgroups(m, in, C(u))
           A == AnchoredSets(m, in)
           Clusters == UNION {G(u) : u \in O}
           P == PreShard(m, in)
           seed(S) == CHOOSE u \in S : TRUE
<1>1. \A u \in Journal(m) : u \in O <=> AnchorFor(in, u) = NULL
  BY DEF Orphans
<1>2. O \in SUBSET Journal(m)
  BY DEF Orphans
<1>3. P = {[anchor |-> AnchorFor(in, seed(S)), members |-> S] : S \in A \cup Clusters}
  BY DEF PreShard
<1>4. \A S : S \in A <=> /\ S # {}
                         /\ \E a \in LongTerm(m) : S = {u \in Journal(m) : AnchorFor(in, u) = a}
  BY DEF AnchoredSets
<1>5. \A S : S \in Clusters <=> \E u \in O : S \in G(u)
  OBVIOUS
<1>6. \A g : g \in P <=> \E S \in A \cup Clusters :
                            g = [anchor |-> AnchorFor(in, seed(S)), members |-> S]
  BY <1>3
<1> HIDE DEF O, A, Clusters, P
<1>7. ASSUME NEW u \in O
      PROVE  /\ u \in C(u) /\ C(u) \in SUBSET O /\ \A v \in C(u) : C(v) = C(u)
             /\ Parts(in, C(u), G(u))
  <2>1. u \in C(u) /\ C(u) \in SUBSET O /\ \A v \in C(u) : C(v) = C(u)
    BY ComponentsPartition DEF O
  <2>2. C(u) \in SUBSET Journal(m)
    BY <1>2, <2>1
  <2> QED BY <2>1, <2>2, SubgroupsPartition
<1> HIDE DEF C, G
<1>8. NULL \notin LongTerm(m)
  BY UuidsAssumption DEF Measured, LongTerm
<1>9. ASSUME NEW S \in A
      PROVE  /\ S \in SUBSET Journal(m) /\ S # {} /\ seed(S) \in S
             /\ AnchorFor(in, seed(S)) \in LongTerm(m) /\ AnchorFor(in, seed(S)) # NULL
             /\ \A u \in Journal(m) : u \in S <=> AnchorFor(in, u) = AnchorFor(in, seed(S))
  BY <1>4, <1>8
<1>10. ASSUME NEW S \in Clusters
       PROVE  /\ S \in SUBSET O /\ S # {} /\ seed(S) \in S
              /\ AnchorFor(in, seed(S)) = NULL
              /\ \A u, v \in S : Mutual(in, u, v)
  <2>1. PICK u \in O : S \in G(u)
    BY <1>5
  <2>2. S \in SUBSET O /\ S # {} /\ \A v, w \in S : Mutual(in, v, w)
    BY <1>7, <2>1 DEF Parts
  <2>3. seed(S) \in S
    BY <2>2
  <2> QED BY <1>1, <1>2, <2>2, <2>3
<1>11. ASSUME NEW S \in Clusters, NEW T \in Clusters, S # T
       PROVE  S \cap T = {}
  <2> SUFFICES ASSUME NEW x \in S, x \in T
               PROVE  FALSE
    OBVIOUS
  <2>1. PICK u \in O : S \in G(u)
    BY <1>5
  <2>2. PICK v \in O : T \in G(v)
    BY <1>5
  <2>3. x \in C(u) /\ x \in C(v)
    BY <1>7, <2>1, <2>2 DEF Parts
  <2>4. C(u) = C(v)
    BY <1>7, <2>3
  <2>5. T \in G(u)
    BY <2>2, <2>4 DEF G
  <2> QED BY <1>7, <1>11, <2>1, <2>5 DEF Parts
<1> HIDE DEF seed
<1>12. ASSUME NEW g \in P
       PROVE  /\ g.members \in A \cup Clusters
              /\ g = [anchor |-> AnchorFor(in, seed(g.members)), members |-> g.members]
  BY <1>6
<1>13. ASSUME NEW g \in P, NEW h \in P, g # h
       PROVE  g.members \cap h.members = {} /\ g.members # h.members
  <2>1. g.members # h.members
    BY <1>12, <1>13
  <2> SUFFICES ASSUME NEW x \in g.members, x \in h.members
               PROVE  FALSE
    BY <2>1
  <2>2. CASE g.members \in A /\ h.members \in A
    <3>1. \A y \in Journal(m) : y \in g.members <=> y \in h.members
      BY <1>9, <2>2
    <3>2. g.members \in SUBSET Journal(m) /\ h.members \in SUBSET Journal(m)
      BY <1>9, <2>2
    <3> QED BY <2>1, <3>1, <3>2
  <2>3. CASE g.members \in Clusters /\ h.members \in Clusters
    BY <1>11, <2>1, <2>3
  <2>4. ASSUME NEW S \in A, NEW T \in Clusters, x \in S, x \in T
        PROVE  FALSE
    <3>1. x \in O /\ x \in Journal(m)
      BY <1>2, <1>10, <2>4
    <3> QED BY <1>1, <1>9, <2>4, <3>1
  <2> QED BY <1>12, <2>2, <2>3, <2>4
<1>14. ASSUME NEW u \in Journal(m)
       PROVE  \E g \in P : u \in g.members
  <2>1. \E S \in A \cup Clusters : u \in S
    <3>1. CASE u \in O
      <4>1. PICK S \in G(u) : u \in S
        BY <1>7, <3>1 DEF Parts
      <4> QED BY <1>5, <3>1, <4>1
    <3>2. CASE u \notin O
      <4>1. AnchorFor(in, u) \in LongTerm(m)
        BY <1>1, <3>2, AnchorIs
      <4> DEFINE S == {v \in Journal(m) : AnchorFor(in, v) = AnchorFor(in, u)}
      <4>2. u \in S
        OBVIOUS
      <4>3. S \in A
        BY <1>4, <4>1, <4>2
      <4> QED BY <4>2, <4>3
    <3> QED BY <3>1, <3>2
  <2>2. PICK S \in A \cup Clusters : u \in S
    BY <2>1
  <2> DEFINE g == [anchor |-> AnchorFor(in, seed(S)), members |-> S]
  <2>3. g \in P /\ u \in g.members
    BY <1>6, <2>2
  <2> QED BY <2>3
<1>15. ASSUME NEW g \in P
       PROVE  /\ g.members \in SUBSET Journal(m) /\ g.members # {}
              /\ g.anchor \in LongTerm(m) \cup {NULL}
              /\ \A u, v \in g.members :
                    IF g.anchor = NULL THEN Mutual(in, u, v) ELSE g.anchor \in in.clears[u]
  <2>1. g.anchor = AnchorFor(in, seed(g.members))
    BY <1>12
  <2>2. CASE g.members \in A
    <3>1. \A u \in g.members : u \in Journal(m) /\ AnchorFor(in, u) = g.anchor
      BY <1>9, <2>1, <2>2
    <3>2. g.anchor # NULL /\ g.anchor \in LongTerm(m)
      BY <1>9, <2>1, <2>2
    <3>3. \A u \in g.members : g.anchor \in in.clears[u]
      BY <3>1, <3>2, AnchorIs
    <3> QED BY <1>9, <2>2, <3>2, <3>3
  <2>3. CASE g.members \in Clusters
    BY <1>2, <1>10, <2>1, <2>3
  <2> QED BY <1>12, <2>2, <2>3
<1>16. ASSUME NEW g \in P, NEW h \in P, g.anchor = h.anchor, g.anchor # NULL
       PROVE  g = h
  <2>1. /\ g.anchor = AnchorFor(in, seed(g.members))
        /\ h.anchor = AnchorFor(in, seed(h.members))
    BY <1>12
  <2>2. g.members \in A /\ h.members \in A
    BY <1>10, <1>12, <1>16, <2>1
  <2>3. PICK x \in g.members : TRUE
    BY <1>15
  <2>4. x \in Journal(m) /\ x \in h.members
    BY <1>9, <1>16, <2>1, <2>2
  <2> QED BY <1>13, <2>4
<1> QED BY <1>13, <1>14, <1>15, <1>16 DEF Laid, P

-----------------------------------------------------------------------------
(* Shards.                                                                   *)

Total(n) == (n + GroupMax - 1) \div GroupMax

LEMMA TimesGroupMax ==
  ASSUME NEW a \in Nat, NEW b \in Nat
  PROVE  /\ a * GroupMax \in Nat /\ a <= a * GroupMax
         /\ a <= b <=> a * GroupMax <= b * GroupMax
         /\ (a + 1) * GroupMax = a * GroupMax + GroupMax
BY GroupAssumption, SMTT(30)

LEMMA TotalIs ==
  ASSUME NEW n \in Nat \ {0}
  PROVE  /\ Total(n) \in Nat \ {0}
         /\ (Total(n) - 1) * GroupMax < n /\ n <= Total(n) * GroupMax
         /\ Total(n) <= n
<1> DEFINE q == (n + GroupMax - 1) \div GroupMax
<1>1. q \in Nat /\ q * GroupMax <= n + GroupMax - 1 /\ n + GroupMax - 1 < q * GroupMax + GroupMax
  BY GroupAssumption, SMTT(30)
<1> HIDE DEF q
<1>2. q * GroupMax \in Nat /\ n <= q * GroupMax
  BY <1>1, TimesGroupMax, GroupAssumption
<1>3. q # 0
  BY <1>2, GroupAssumption
<1>4. q - 1 \in Nat /\ q = (q - 1) + 1
  BY <1>1, <1>3
<1>5. (q - 1) * GroupMax \in Nat /\ q * GroupMax = (q - 1) * GroupMax + GroupMax
  BY <1>4, TimesGroupMax
<1>6. (q - 1) * GroupMax < n
  BY <1>1, <1>2, <1>5, GroupAssumption
<1>7. q - 1 <= (q - 1) * GroupMax
  BY <1>4, TimesGroupMax
<1>8. q <= n
  BY <1>1, <1>5, <1>6, <1>7
<1> QED BY <1>1, <1>2, <1>3, <1>6, <1>8 DEF Total, q

Segment(s, i) == ToSet(SubSeq(s, (i - 1) * GroupMax + 1, Min({i * GroupMax, Len(s)})))

LEMMA SegmentIs ==
  ASSUME NEW S, NEW s \in Seq(S), Once(s), ToSet(s) = S, Len(s) # 0,
         NEW i \in 1 .. Total(Len(s))
  PROVE  /\ Segment(s, i) \in SUBSET S /\ Segment(s, i) # {}
         /\ IsFiniteSet(Segment(s, i)) /\ Cardinality(Segment(s, i)) \in 1 .. GroupMax
         /\ i < Total(Len(s)) => Cardinality(Segment(s, i)) = GroupMax
         /\ \A k \in 1 .. Len(s) :
                s[k] \in Segment(s, i) <=> (i - 1) * GroupMax < k /\ k <= i * GroupMax
<1> DEFINE n == Len(s)
           t == Total(n)
           from == (i - 1) * GroupMax + 1
           to == Min({i * GroupMax, n})
           w == SubSeq(s, from, to)
<1>1. /\ n \in Nat \ {0} /\ DOMAIN s = 1 .. n /\ \A k \in 1 .. n : s[k] \in S
      /\ \A j, k \in 1 .. n : j # k => s[j] # s[k]
  BY DEF Once
<1> HIDE DEF n
<1>2. /\ t \in Nat \ {0} /\ (t - 1) * GroupMax < n /\ n <= t * GroupMax
  BY <1>1, TotalIs
<1> HIDE DEF t
<1>3. /\ i \in Nat /\ i - 1 \in Nat /\ t \in Nat /\ t - 1 \in Nat
      /\ i <= t /\ i - 1 <= t - 1 /\ i = (i - 1) + 1
  BY <1>2 DEF t, n
<1>4. /\ i * GroupMax = (i - 1) * GroupMax + GroupMax
      /\ (i - 1) * GroupMax \in Nat /\ (t - 1) * GroupMax \in Nat /\ i * GroupMax \in Nat
  BY <1>3, TimesGroupMax
<1>5. (i - 1) * GroupMax < n /\ (i < t => i * GroupMax < n)
  <2>1. (i - 1) * GroupMax <= (t - 1) * GroupMax
    BY <1>3, TimesGroupMax
  <2>2. ASSUME i < t
        PROVE  i * GroupMax <= (t - 1) * GroupMax
    <3>1. i <= t - 1
      BY <1>3, <2>2
    <3> QED BY <1>3, <3>1, TimesGroupMax
  <2> QED BY <1>1, <1>2, <1>4, <2>1, <2>2
<1>6. /\ to \in Nat /\ to <= n /\ to <= i * GroupMax /\ (to = n \/ to = i * GroupMax)
      /\ i < t => to = i * GroupMax
  <2>1. {i * GroupMax, n} \in SUBSET Nat
    BY <1>1, <1>4
  <2>2. to \in {i * GroupMax, n} /\ \A k \in {i * GroupMax, n} : to <= k
    BY <2>1, MinIs
  <2> HIDE DEF to
  <2> QED BY <1>1, <1>4, <1>5, <2>1, <2>2
<1>7. from \in Nat \ {0} /\ from <= to /\ to <= n /\ from \in 1 .. n /\ to \in 1 .. n
  BY <1>1, <1>4, <1>5, <1>6, GroupAssumption
<1> HIDE DEF from, to
<1>8. /\ w \in Seq(S) /\ Len(w) = to - from + 1
      /\ \A k \in 1 .. to - from + 1 : w[k] = s[from + k - 1]
  <2>1. from \in Int /\ to \in Int /\ \A k \in from .. to : s[k] \in S
    BY <1>1, <1>6, <1>7
  <2>2. /\ w \in Seq(S) /\ Len(w) = IF from <= to THEN to - from + 1 ELSE 0
        /\ \A k \in 1 .. to - from + 1 : w[k] = s[from + k - 1]
    BY <2>1, SubSeqProperties
  <2> HIDE DEF w
  <2> QED BY <1>7, <2>2
<1> HIDE DEF w
<1>9. Len(w) \in Nat /\ DOMAIN w = 1 .. to - from + 1
  BY <1>6, <1>7, <1>8
<1>10. \A k \in 1 .. to - from + 1 : from + k - 1 \in 1 .. n
  BY <1>1, <1>6, <1>7
<1>11. Once(w)
  <2> SUFFICES ASSUME NEW j \in 1 .. to - from + 1, NEW k \in 1 .. to - from + 1, j # k
               PROVE  w[j] # w[k]
    BY <1>9 DEF Once
  <2>1. from + j - 1 # from + k - 1
    BY <1>6, <1>7
  <2> QED BY <1>1, <1>8, <1>10, <2>1
<1>12. Segment(s, i) = ToSet(w)
  BY DEF Segment, w, from, to, n
<1>13. IsFiniteSet(Segment(s, i)) /\ Cardinality(Segment(s, i)) = to - from + 1
  BY <1>8, <1>11, <1>12, OnceCounts
<1>14. to - from + 1 \in 1 .. GroupMax /\ (i < t => to - from + 1 = GroupMax)
  BY <1>4, <1>6, <1>7, GroupAssumption DEF from
<1>15. \A u : u \in Segment(s, i) <=> \E k \in 1 .. to - from + 1 : u = w[k]
  BY <1>9, <1>12 DEF ToSet
<1>16. Segment(s, i) \in SUBSET S /\ Segment(s, i) # {}
  <2>1. 1 \in 1 .. to - from + 1
    BY <1>6, <1>7
  <2>2. \A k \in 1 .. to - from + 1 : w[k] \in S
    BY <1>1, <1>8, <1>10
  <2> QED BY <1>15, <2>1, <2>2
<1>17. ASSUME NEW k \in 1 .. n
       PROVE  s[k] \in Segment(s, i) <=> (i - 1) * GroupMax < k /\ k <= i * GroupMax
  <2>1. ASSUME s[k] \in Segment(s, i)
        PROVE  (i - 1) * GroupMax < k /\ k <= i * GroupMax
    <3>1. PICK l \in 1 .. to - from + 1 : s[k] = w[l]
      BY <1>15, <2>1
    <3>2. k = from + l - 1
      BY <1>1, <1>8, <1>10, <3>1
    <3> QED BY <1>4, <1>6, <1>7, <3>2 DEF from
  <2>2. ASSUME (i - 1) * GroupMax < k, k <= i * GroupMax
        PROVE  s[k] \in Segment(s, i)
    <3> DEFINE l == k - from + 1
    <3>1. l \in 1 .. to - from + 1 /\ from + l - 1 = k
      BY <1>1, <1>4, <1>6, <1>7, <2>2 DEF from
    <3> HIDE DEF l
    <3> QED BY <1>8, <1>15, <3>1
  <2> QED BY <2>1, <2>2
<1> QED BY <1>13, <1>14, <1>16, <1>17 DEF t, n

\* Each row is in one shard.
LEMMA SegmentsPartition ==
  ASSUME NEW S, NEW s \in Seq(S), Once(s), ToSet(s) = S, Len(s) # 0
  PROVE  /\ \A i, j \in 1 .. Total(Len(s)) : i # j => Segment(s, i) \cap Segment(s, j) = {}
         /\ \A u \in S : \E i \in 1 .. Total(Len(s)) : u \in Segment(s, i)
<1> DEFINE n == Len(s)
           t == Total(n)
<1>1. /\ n \in Nat \ {0} /\ DOMAIN s = 1 .. n
      /\ \A u \in S : \E k \in 1 .. n : u = s[k]
  BY DEF ToSet
<1>2. /\ t \in Nat \ {0} /\ n <= t * GroupMax
  BY <1>1, TotalIs
<1>3. \A i \in 1 .. t : Segment(s, i) \in SUBSET S /\
          \A k \in 1 .. n : s[k] \in Segment(s, i) <=> (i - 1) * GroupMax < k /\ k <= i * GroupMax
  BY SegmentIs
<1> HIDE DEF n, t
<1>4. ASSUME NEW i \in 1 .. t, NEW j \in 1 .. t, i < j
      PROVE  Segment(s, i) \cap Segment(s, j) = {}
  <2> SUFFICES ASSUME NEW u \in Segment(s, i), u \in Segment(s, j)
               PROVE  FALSE
    OBVIOUS
  <2>1. PICK k \in 1 .. n : u = s[k]
    BY <1>1, <1>3
  <2>2. k <= i * GroupMax /\ (j - 1) * GroupMax < k
    BY <1>3, <2>1
  <2>3. i \in Nat /\ j - 1 \in Nat /\ i <= j - 1
    BY <1>2, <1>4
  <2>4. i * GroupMax <= (j - 1) * GroupMax /\ i * GroupMax \in Nat /\ (j - 1) * GroupMax \in Nat
    BY <2>3, TimesGroupMax
  <2>5. k \in Nat
    BY <1>1
  <2> QED BY <2>2, <2>4, <2>5
<1>5. ASSUME NEW u \in S
      PROVE  \E i \in 1 .. t : u \in Segment(s, i)
  <2>1. PICK k \in 1 .. n : u = s[k]
    BY <1>1
  <2>2. k \in Nat \ {0} /\ k <= n
    BY <1>1
  <2> DEFINE i == Total(k)
  <2>3. i \in Nat \ {0} /\ (i - 1) * GroupMax < k /\ k <= i * GroupMax
    BY <2>2, TotalIs
  <2> HIDE DEF i
  <2>4. i <= t
    <3>1. i - 1 \in Nat
      BY <2>3
    <3>2. (i - 1) * GroupMax \in Nat /\ t * GroupMax \in Nat
      BY <1>2, <3>1, TimesGroupMax
    <3>3. (i - 1) * GroupMax < t * GroupMax
      BY <1>1, <1>2, <2>2, <2>3, <3>2
    <3>4. ~(t <= i - 1)
      BY <1>2, <3>1, <3>2, <3>3, TimesGroupMax
    <3> QED BY <1>2, <2>3, <3>4
  <2>5. i \in 1 .. t
    BY <1>2, <2>3, <2>4
  <2> QED BY <1>3, <2>1, <2>3, <2>5
<1>6. ASSUME NEW i \in 1 .. t, NEW j \in 1 .. t, i # j
      PROVE  Segment(s, i) \cap Segment(s, j) = {}
  <2>1. i < j \/ j < i
    BY <1>2, <1>6
  <2> QED BY <1>4, <2>1
<1> QED BY <1>5, <1>6 DEF t, n

\* The shards of one set are its rows in full groups and a rest, numbered from 1.
Sharded(g, key, t, X) ==
    /\ t \in Nat \ {0}
    /\ \A x \in X :
          /\ x.anchor = g.anchor /\ x.order_key = key /\ x.index \in 1 .. t
          /\ x.members \in SUBSET g.members /\ x.members # {}
          /\ IsFiniteSet(x.members) /\ Cardinality(x.members) \in 1 .. GroupMax
          /\ x.index < t => Cardinality(x.members) = GroupMax
    /\ \A i \in 1 .. t : \E x \in X : x.index = i
    /\ \A x, y \in X : x.index = y.index => x = y
    /\ \A x, y \in X : x # y => x.members \cap y.members = {}
    /\ \A u \in g.members : \E x \in X : u \in x.members

LEMMA SetIsSharded ==
  ASSUME NEW m, NEW in, Measured(m, in), NEW g,
         g.members \in SUBSET Journal(m), g.members # {}
  PROVE  Sharded(g, OrderKey(in, g.members), Total(Cardinality(g.members)), Shards(in, g))
<1> DEFINE s == InOrder(in, g.members)
           key == OrderKey(in, g.members)
           t == Total(Len(s))
           shard(i) == [anchor |-> g.anchor, order_key |-> key, index |-> i, of |-> t,
                        members |-> Segment(s, i)]
           X == Shards(in, g)
<1>1. X = {shard(i) : i \in 1 .. t}
  BY DEF Shards, Total, Segment
<1>2. /\ s \in Seq(g.members) /\ Once(s) /\ ToSet(s) = g.members
      /\ Len(s) = Cardinality(g.members) /\ Len(s) \in Nat /\ DOMAIN s = 1 .. Len(s)
  BY InOrderIs
<1> HIDE DEF s, X, key
<1>3. Len(s) # 0 /\ Len(s) \in Nat \ {0}
  <2>1. Len(s) # 0
    BY <1>2 DEF ToSet
  <2> QED BY <1>2, <2>1
<1>4. t \in Nat \ {0}
  BY <1>3, TotalIs
<1>5. \A i \in 1 .. t :
          /\ Segment(s, i) \in SUBSET g.members /\ Segment(s, i) # {}
          /\ IsFiniteSet(Segment(s, i)) /\ Cardinality(Segment(s, i)) \in 1 .. GroupMax
          /\ i < t => Cardinality(Segment(s, i)) = GroupMax
  BY <1>2, <1>3, SegmentIs
<1>6. /\ \A i, j \in 1 .. t : i # j => Segment(s, i) \cap Segment(s, j) = {}
      /\ \A u \in g.members : \E i \in 1 .. t : u \in Segment(s, i)
  BY <1>2, <1>3, SegmentsPartition
<1> HIDE DEF t
<1>7. \A i \in 1 .. t : /\ shard(i) \in X /\ shard(i).anchor = g.anchor
                        /\ shard(i).order_key = key /\ shard(i).index = i
                        /\ shard(i).members = Segment(s, i)
  BY <1>1
<1>8. \A x \in X : \E i \in 1 .. t : x = shard(i)
  BY <1>1
<1> HIDE DEF shard
<1>9. ASSUME NEW x \in X
      PROVE  /\ x.anchor = g.anchor /\ x.order_key = key /\ x.index \in 1 .. t
             /\ x.members = Segment(s, x.index) /\ x = shard(x.index)
  BY <1>7, <1>8
<1>10. ASSUME NEW x \in X, NEW y \in X, x # y
       PROVE  x.members \cap y.members = {}
  <2>1. x.index # y.index
    BY <1>9, <1>10
  <2> QED BY <1>6, <1>9, <2>1
<1>11. \A i \in 1 .. t : \E x \in X : x.index = i
  BY <1>7
<1>12. \A u \in g.members : \E x \in X : u \in x.members
  BY <1>6, <1>7
<1>13. \A x, y \in X : x.index = y.index => x = y
  BY <1>9
<1>14. \A x \in X : /\ x.members \in SUBSET g.members /\ x.members # {}
                    /\ IsFiniteSet(x.members) /\ Cardinality(x.members) \in 1 .. GroupMax
                    /\ x.index < t => Cardinality(x.members) = GroupMax
  BY <1>5, <1>9
<1>15. Sharded(g, key, t, X)
  BY <1>4, <1>9, <1>10, <1>11, <1>12, <1>13, <1>14 DEF Sharded
<1> QED BY <1>2, <1>15 DEF t, X, key

\* No two sets have the same order key: the second part is a row's name.
LEMMA OrderKeyIs ==
  ASSUME NEW m, NEW in, Measured(m, in), NEW S \in SUBSET Journal(m), S # {}
  PROVE  LET key == OrderKey(in, S)
         IN  /\ key = <<key[1], key[2]>> /\ key[1] \in Nat /\ key[2] \in Nat
             /\ \E u \in S : key[2] = in.name[u]
<1> DEFINE T == {in.created[u] : u \in S}
           N == {in.name[u] : u \in S}
<1>1. OrderKey(in, S) = <<Min(T), Min(N)>>
  BY DEF OrderKey
<1>2. T \in SUBSET Nat /\ T # {} /\ N \in SUBSET Nat /\ N # {}
  BY DEF Measured
<1>3. \A n \in N : \E u \in S : n = in.name[u]
  OBVIOUS
<1> HIDE DEF T, N
<1>4. Min(T) \in T /\ Min(N) \in N
  BY <1>2, MinIs
<1> QED BY <1>1, <1>2, <1>3, <1>4

LEMMA OrderKeysDiffer ==
  ASSUME NEW m, NEW in, Measured(m, in),
         NEW S \in SUBSET Journal(m), S # {}, NEW T \in SUBSET Journal(m), T # {},
         S \cap T = {}
  PROVE  OrderKey(in, S) # OrderKey(in, T)
<1>1. PICK u \in S : OrderKey(in, S)[2] = in.name[u]
  BY OrderKeyIs
<1>2. PICK v \in T : OrderKey(in, T)[2] = in.name[v]
  BY OrderKeyIs
<1>3. u # v /\ u \in Journal(m) /\ v \in Journal(m)
  OBVIOUS
<1>4. in.name[u] # in.name[v]
  BY <1>3 DEF Measured
<1> QED BY <1>1, <1>2, <1>4

-----------------------------------------------------------------------------
(* Plans.                                                                    *)

\* The shards of all the sets: the journal's rows, each in one; and those with
\* the same order key are one set's, numbered without a gap, full but the last.
DealtOut(m, in, X) ==
    /\ \A x \in X :
          /\ x.order_key = <<x.order_key[1], x.order_key[2]>>
          /\ x.order_key[1] \in Nat /\ x.order_key[2] \in Nat /\ x.index \in Nat
          /\ x.anchor \in LongTerm(m) \cup {NULL}
          /\ x.members \in SUBSET Journal(m) /\ x.members # {}
          /\ Cardinality(x.members) \in 1 .. GroupMax
    /\ \A x, y \in X : x # y => x.members \cap y.members = {}
    /\ \A u \in Journal(m) : \E x \in X : u \in x.members
    /\ \A x, y \in X : x.anchor = y.anchor /\ x.anchor # NULL => x.order_key = y.order_key
    /\ \A x, y \in X : x.order_key = y.order_key =>
          /\ x.anchor = y.anchor
          /\ x.index = y.index => x = y
          /\ x.index < y.index => /\ Cardinality(x.members) = GroupMax
                                  /\ \E z \in X : /\ z.order_key = x.order_key
                                                  /\ z.index = x.index + 1
          /\ \A u \in x.members, v \in y.members :
                IF x.anchor = NULL THEN Mutual(in, u, v) ELSE x.anchor \in in.clears[u]

LEMMA ShardsAreDealtOut ==
  ASSUME NEW m, NEW in, Measured(m, in)
  PROVE  DealtOut(m, in, UNION {Shards(in, g) : g \in PreShard(m, in)})
<1> DEFINE P == PreShard(m, in)
           X == UNION {Shards(in, g) : g \in P}
           key(g) == OrderKey(in, g.members)
           t(g) == Total(Cardinality(g.members))
           D(g) == Shards(in, g)
<1>1. \A x : x \in X <=> \E g \in P : x \in D(g)
  OBVIOUS
<1>2. Laid(m, in, P)
  BY PreShardIsLaid
<1> HIDE DEF P, X
<1>3. \A g \in P : g.members \in SUBSET Journal(m) /\ g.members # {}
                   /\ g.anchor \in LongTerm(m) \cup {NULL}
  BY <1>2 DEF Laid
<1>4. \A g \in P : Sharded(g, key(g), t(g), D(g))
  BY <1>3, SetIsSharded
<1>5. ASSUME NEW g \in P, NEW h \in P, key(g) = key(h)
      PROVE  g = h
  <2> SUFFICES ASSUME g # h
               PROVE  FALSE
    OBVIOUS
  <2>1. g.members \cap h.members = {}
    BY <1>2 DEF Laid
  <2> QED BY <1>3, <1>5, <2>1, OrderKeysDiffer
<1>6. \A g \in P : /\ key(g) = <<key(g)[1], key(g)[2]>>
                   /\ key(g)[1] \in Nat /\ key(g)[2] \in Nat
  BY <1>3, OrderKeyIs
<1> HIDE DEF key, t, D
<1>7. ASSUME NEW g \in P, NEW x \in D(g)
      PROVE  /\ x.anchor = g.anchor /\ x.order_key = key(g)
             /\ x.index \in 1 .. t(g) /\ x.index \in Nat /\ t(g) \in Nat
             /\ x.members \in SUBSET g.members /\ x.members # {}
             /\ Cardinality(x.members) \in 1 .. GroupMax
             /\ x.index < t(g) => Cardinality(x.members) = GroupMax
  <2>1. t(g) \in Nat
    BY <1>4 DEF Sharded
  <2>2. x.index \in 1 .. t(g)
    BY <1>4 DEF Sharded
  <2>3. x.index \in Nat
    BY <2>1, <2>2
  <2>4. /\ x.anchor = g.anchor /\ x.order_key = key(g)
        /\ x.members \in SUBSET g.members /\ x.members # {}
        /\ Cardinality(x.members) \in 1 .. GroupMax
        /\ x.index < t(g) => Cardinality(x.members) = GroupMax
    BY <1>4 DEF Sharded
  <2> QED BY <2>1, <2>2, <2>3, <2>4
<1>8. ASSUME NEW x \in X
      PROVE  /\ x.order_key = <<x.order_key[1], x.order_key[2]>>
             /\ x.order_key[1] \in Nat /\ x.order_key[2] \in Nat /\ x.index \in Nat
             /\ x.anchor \in LongTerm(m) \cup {NULL}
             /\ x.members \in SUBSET Journal(m) /\ x.members # {}
             /\ Cardinality(x.members) \in 1 .. GroupMax
  <2>1. PICK g \in P : x \in D(g)
    BY <1>1
  <2>2. x.order_key = key(g)
    BY <1>7, <2>1
  <2>3. /\ x.order_key = <<x.order_key[1], x.order_key[2]>>
        /\ x.order_key[1] \in Nat /\ x.order_key[2] \in Nat
    BY <1>6, <2>2
  <2> QED BY <1>3, <1>7, <2>1, <2>3
<1>9. ASSUME NEW x \in X, NEW y \in X, x # y
      PROVE  x.members \cap y.members = {}
  <2>1. PICK g \in P : x \in D(g)
    BY <1>1
  <2>2. PICK h \in P : y \in D(h)
    BY <1>1
  <2>3. CASE g = h
    BY <1>4, <1>9, <2>1, <2>2, <2>3 DEF Sharded
  <2>4. CASE g # h
    <3>1. g.members \cap h.members = {}
      BY <1>2, <2>4 DEF Laid
    <3> QED BY <1>7, <2>1, <2>2, <3>1
  <2> QED BY <2>3, <2>4
<1>10. ASSUME NEW u \in Journal(m)
       PROVE  \E x \in X : u \in x.members
  <2>1. PICK g \in P : u \in g.members
    BY <1>2 DEF Laid
  <2>2. PICK x \in D(g) : u \in x.members
    BY <1>4, <2>1 DEF Sharded
  <2> QED BY <1>1, <2>1, <2>2
<1>11. ASSUME NEW x \in X, NEW y \in X, x.anchor = y.anchor, x.anchor # NULL
       PROVE  x.order_key = y.order_key
  <2>1. PICK g \in P : x \in D(g)
    BY <1>1
  <2>2. PICK h \in P : y \in D(h)
    BY <1>1
  <2>3. x.anchor = g.anchor /\ y.anchor = h.anchor /\ x.order_key = key(g) /\ y.order_key = key(h)
    BY <1>7, <2>1, <2>2
  <2>4. g.anchor = h.anchor /\ g.anchor # NULL
    BY <1>11, <2>3
  <2>5. g = h
    BY <1>2, <2>4 DEF Laid
  <2> QED BY <2>3, <2>5
<1>12. ASSUME NEW x \in X, NEW y \in X, x.order_key = y.order_key
       PROVE  /\ x.anchor = y.anchor
              /\ x.index = y.index => x = y
              /\ x.index < y.index => /\ Cardinality(x.members) = GroupMax
                                      /\ \E z \in X : /\ z.order_key = x.order_key
                                                      /\ z.index = x.index + 1
              /\ \A u \in x.members, v \in y.members :
                    IF x.anchor = NULL THEN Mutual(in, u, v) ELSE x.anchor \in in.clears[u]
  <2>1. PICK g \in P : x \in D(g)
    BY <1>1
  <2>2. PICK h \in P : y \in D(h)
    BY <1>1
  <2>3. x.order_key = key(g) /\ y.order_key = key(h)
    BY <1>7, <2>1, <2>2
  <2>4. g = h
    BY <1>5, <1>12, <2>3
  <2>5. y \in D(g)
    BY <2>2, <2>4
  <2>6. /\ x.anchor = g.anchor /\ y.anchor = g.anchor
        /\ x.members \in SUBSET g.members /\ y.members \in SUBSET g.members
        /\ x.index \in 1 .. t(g) /\ y.index \in 1 .. t(g) /\ t(g) \in Nat
        /\ x.index < t(g) => Cardinality(x.members) = GroupMax
    BY <1>7, <2>1, <2>5
  <2>7. x.index = y.index => x = y
    BY <1>4, <2>1, <2>5 DEF Sharded
  <2>8. ASSUME x.index < y.index
        PROVE  /\ Cardinality(x.members) = GroupMax
               /\ \E z \in X : z.order_key = x.order_key /\ z.index = x.index + 1
    <3>1. x.index < t(g) /\ x.index + 1 \in 1 .. t(g)
      BY <2>6, <2>8
    <3>2. \A i \in 1 .. t(g) : \E z \in D(g) : z.index = i
      BY <1>4 DEF Sharded
    <3>3. PICK z \in D(g) : z.index = x.index + 1
      BY <3>1, <3>2
    <3>4. z \in X /\ z.order_key = x.order_key
      BY <1>1, <1>7, <2>3
    <3> QED BY <2>6, <3>1, <3>3, <3>4
  <2>9. \A u, v \in g.members :
            IF g.anchor = NULL THEN Mutual(in, u, v) ELSE g.anchor \in in.clears[u]
    BY <1>2 DEF Laid
  <2> QED BY <2>6, <2>7, <2>8, <2>9
<1> QED BY <1>8, <1>9, <1>10, <1>11, <1>12 DEF DealtOut, X, P, D

\* GroupPrecedes is lexicographic.
LEMMA PrecedesIs ==
  ASSUME NEW g, NEW h,
         g.order_key[1] \in Nat, g.order_key[2] \in Nat, g.index \in Nat,
         h.order_key[1] \in Nat, h.order_key[2] \in Nat, h.index \in Nat
  PROVE  GroupPrecedes(g, h) <=>
            \/ g.order_key[1] < h.order_key[1]
            \/ /\ g.order_key[1] = h.order_key[1]
               /\ \/ g.order_key[2] < h.order_key[2]
                  \/ g.order_key[2] = h.order_key[2] /\ g.index < h.index
<1> DEFINE key(x) == <<x.order_key[1], x.order_key[2], x.index>>
           differs == {i \in 1 .. 3 : key(g)[i] # key(h)[i]}
           first == Min(differs)
<1>1. GroupPrecedes(g, h) <=> differs # {} /\ key(g)[first] < key(h)[first]
  BY DEF GroupPrecedes
<1>2. /\ key(g)[1] = g.order_key[1] /\ key(g)[2] = g.order_key[2] /\ key(g)[3] = g.index
      /\ key(h)[1] = h.order_key[1] /\ key(h)[2] = h.order_key[2] /\ key(h)[3] = h.index
  OBVIOUS
<1>3. \A i : i \in differs <=> i \in {1, 2, 3} /\ key(g)[i] # key(h)[i]
  OBVIOUS
<1>4. differs \in SUBSET Nat
  OBVIOUS
<1> HIDE DEF key, differs
<1>5. differs # {} => first \in differs /\ \A i \in differs : first <= i
  BY <1>4, MinIs
<1> HIDE DEF first
<1>6. CASE key(g)[1] # key(h)[1]
  <2>1. first = 1
    BY <1>3, <1>4, <1>5, <1>6
  <2> QED BY <1>1, <1>2, <1>3, <1>6, <2>1
<1>7. CASE key(g)[1] = key(h)[1] /\ key(g)[2] # key(h)[2]
  <2>1. first = 2
    BY <1>3, <1>4, <1>5, <1>7
  <2> QED BY <1>1, <1>2, <1>3, <1>7, <2>1
<1>8. CASE key(g)[1] = key(h)[1] /\ key(g)[2] = key(h)[2] /\ key(g)[3] # key(h)[3]
  <2>1. first = 3
    BY <1>3, <1>4, <1>5, <1>8
  <2> QED BY <1>1, <1>2, <1>3, <1>8, <2>1
<1>9. CASE key(g)[1] = key(h)[1] /\ key(g)[2] = key(h)[2] /\ key(g)[3] = key(h)[3]
  <2>1. differs = {}
    BY <1>3, <1>9
  <2> QED BY <1>1, <1>2, <1>9, <2>1
<1> QED BY <1>6, <1>7, <1>8, <1>9

LEMMA DealtOutIsFinite ==
  ASSUME NEW m, NEW in, Measured(m, in), NEW X, DealtOut(m, in, X)
  PROVE  IsFiniteSet(X) /\ Cardinality(X) <= Cardinality(Journal(m))
<1> DEFINE f == [x \in X |-> CHOOSE u \in x.members : TRUE]
<1>1. \A x \in X : f[x] \in x.members /\ f[x] \in Journal(m)
  BY DEF DealtOut
<1>2. f \in [X -> Journal(m)]
  BY <1>1
<1>3. ASSUME NEW x \in X, NEW y \in X, f[x] = f[y]
      PROVE  x = y
  <2> HIDE DEF f
  <2> SUFFICES ASSUME x # y
               PROVE  FALSE
    OBVIOUS
  <2>1. x.members \cap y.members = {}
    BY DEF DealtOut
  <2> QED BY <1>1, <1>3, <2>1
<1> HIDE DEF f
<1>4. f \in Injection(X, Journal(m))
  BY <1>2, <1>3 DEF Injection, IsInjective
<1> QED BY <1>4, FS_Injection DEF Measured

\* A plan lists all the shards, in order.
InTheirOrder(X, plan) ==
    /\ plan \in SetToSeqs(X) /\ plan \in Seq(X) /\ Once(plan) /\ ToSet(plan) = X
    /\ Len(plan) \in Nat /\ Len(plan) = Cardinality(X) /\ DOMAIN plan = 1 .. Len(plan)
    /\ \A i, j \in DOMAIN plan : i < j => GroupPrecedes(plan[i], plan[j])

LEMMA PlanIsInOrder ==
  ASSUME NEW m, NEW in, Measured(m, in)
  PROVE  \E X : DealtOut(m, in, X) /\ InTheirOrder(X, PlanOf(m, in))
<1> DEFINE X == UNION {Shards(in, g) : g \in PreShard(m, in)}
           R == {p \in X \X X : GroupPrecedes(p[1], p[2])}
           plan == PlanOf(m, in)
<1>1. DealtOut(m, in, X)
  BY ShardsAreDealtOut
<1>2. plan = CHOOSE s \in SetToSeqs(X) : \A i, j \in DOMAIN s : i < j => GroupPrecedes(s[i], s[j])
  BY DEF PlanOf
<1> HIDE DEF X
<1>3. IsFiniteSet(X)
  BY <1>1, DealtOutIsFinite
<1>4. \A x, y \in X : <<x, y>> \in R <=> GroupPrecedes(x, y)
  OBVIOUS
<1> HIDE DEF R, plan
<1>5. \A x \in X : /\ x.order_key = <<x.order_key[1], x.order_key[2]>>
                   /\ x.order_key[1] \in Nat /\ x.order_key[2] \in Nat /\ x.index \in Nat
  BY <1>1 DEF DealtOut
<1>6. \A x, y \in X : GroupPrecedes(x, y) <=>
            \/ x.order_key[1] < y.order_key[1]
            \/ /\ x.order_key[1] = y.order_key[1]
               /\ \/ x.order_key[2] < y.order_key[2]
                  \/ x.order_key[2] = y.order_key[2] /\ x.index < y.index
  BY <1>5, PrecedesIs
<1>7. StrictOrder(X, R)
  <2>1. ASSUME NEW x \in X, NEW y \in X, NEW z \in X, GroupPrecedes(x, y), GroupPrecedes(y, z)
        PROVE  GroupPrecedes(x, z)
    <3>1. /\ x.order_key[1] \in Nat /\ x.order_key[2] \in Nat /\ x.index \in Nat
          /\ y.order_key[1] \in Nat /\ y.order_key[2] \in Nat /\ y.index \in Nat
          /\ z.order_key[1] \in Nat /\ z.order_key[2] \in Nat /\ z.index \in Nat
      BY <1>5
    <3> QED BY <1>6, <2>1, <3>1
  <2>2. \A x \in X : ~GroupPrecedes(x, x)
    BY <1>5, <1>6
  <2>3. ASSUME NEW x \in X, NEW y \in X, ~GroupPrecedes(x, y), ~GroupPrecedes(y, x)
        PROVE  x = y
    <3>1. /\ x.order_key[1] \in Nat /\ x.order_key[2] \in Nat /\ x.index \in Nat
          /\ y.order_key[1] \in Nat /\ y.order_key[2] \in Nat /\ y.index \in Nat
      BY <1>5
    <3>2. /\ x.order_key[1] = y.order_key[1] /\ x.order_key[2] = y.order_key[2]
          /\ x.index = y.index
      BY <1>6, <2>3, <3>1
    <3>3. x.order_key = y.order_key
      BY <1>5, <3>2
    <3> QED BY <1>1, <3>2, <3>3 DEF DealtOut
  <2> QED BY <1>4, <2>1, <2>2, <2>3 DEF StrictOrder
<1>8. PICK s \in SetToSeqs(X) : \A i, j \in DOMAIN s : i < j => <<s[i], s[j]>> \in R
  BY <1>3, <1>7, SortedListExists
<1>9. s \in Seq(X)
  BY <1>3, EnumerationIs
<1>10. ASSUME NEW i \in DOMAIN s, NEW j \in DOMAIN s, i < j
       PROVE  GroupPrecedes(s[i], s[j])
  <2>1. s[i] \in X /\ s[j] \in X
    BY <1>9
  <2> QED BY <1>4, <1>8, <1>10, <2>1
<1>11. /\ plan \in SetToSeqs(X)
       /\ \A i, j \in DOMAIN plan : i < j => GroupPrecedes(plan[i], plan[j])
  BY <1>2, <1>10
<1>12. /\ plan \in Seq(X) /\ Once(plan) /\ ToSet(plan) = X
       /\ Len(plan) = Cardinality(X) /\ Len(plan) \in Nat /\ DOMAIN plan = 1 .. Len(plan)
  BY <1>3, <1>11, EnumerationIs, EnumerationHasAll
<1>13. InTheirOrder(X, plan)
  BY <1>11, <1>12 DEF InTheirOrder
<1> QED BY <1>1, <1>13 DEF plan

\* Shards with the same order key are next to each other, by index.
LEMMA NextShardIsNext ==
  ASSUME NEW m, NEW in, NEW X, DealtOut(m, in, X), NEW plan, InTheirOrder(X, plan),
         NEW i \in DOMAIN plan, NEW j \in DOMAIN plan, i < j,
         plan[i].order_key = plan[j].order_key
  PROVE  /\ i + 1 \in DOMAIN plan
         /\ plan[i + 1].order_key = plan[i].order_key
         /\ plan[i + 1].index = plan[i].index + 1
         /\ plan[i].index < plan[j].index
<1> DEFINE n == Len(plan)
<1>1. /\ n \in Nat /\ DOMAIN plan = 1 .. n /\ \A k \in 1 .. n : plan[k] \in X
      /\ \A x \in X : \E k \in 1 .. n : plan[k] = x
      /\ \A k, l \in 1 .. n : k < l => GroupPrecedes(plan[k], plan[l])
  BY DEF InTheirOrder, ToSet
<1> HIDE DEF n
<1>2. \A x \in X : /\ x.order_key = <<x.order_key[1], x.order_key[2]>>
                   /\ x.order_key[1] \in Nat /\ x.order_key[2] \in Nat /\ x.index \in Nat
  BY DEF DealtOut
<1>3. \A x, y \in X : GroupPrecedes(x, y) <=>
            \/ x.order_key[1] < y.order_key[1]
            \/ /\ x.order_key[1] = y.order_key[1]
               /\ \/ x.order_key[2] < y.order_key[2]
                  \/ x.order_key[2] = y.order_key[2] /\ x.index < y.index
  BY <1>2, PrecedesIs
<1>4. /\ i \in 1 .. n /\ j \in 1 .. n /\ i + 1 \in 1 .. n
      /\ plan[i] \in X /\ plan[j] \in X /\ plan[i + 1] \in X
  BY <1>1
<1> DEFINE x == plan[i]
           y == plan[i + 1]
<1>5. x.index < plan[j].index
  <2>1. GroupPrecedes(plan[i], plan[j])
    BY <1>1, <1>4
  <2> QED BY <1>2, <1>3, <1>4, <2>1
<1>6. PICK z \in X : z.order_key = x.order_key /\ z.index = x.index + 1
  BY <1>4, <1>5 DEF DealtOut
<1>7. PICK k \in 1 .. n : plan[k] = z
  BY <1>1
<1>8. GroupPrecedes(x, y)
  <2>1. i < i + 1
    BY <1>1
  <2> QED BY <1>1, <1>4, <2>1
<1> HIDE DEF x, y
<1>9. /\ x \in X /\ y \in X /\ z \in X
      /\ x.order_key[1] \in Nat /\ x.order_key[2] \in Nat /\ x.index \in Nat
      /\ y.order_key[1] \in Nat /\ y.order_key[2] \in Nat /\ y.index \in Nat
  BY <1>2, <1>4 DEF x, y
<1>10. ~GroupPrecedes(z, x)
  BY <1>3, <1>6, <1>9
<1>11. ~(k < i) /\ k # i
  <2>1. k < i => GroupPrecedes(z, x)
    BY <1>1, <1>4, <1>7 DEF x
  <2>2. k = i => z = x
    BY <1>7 DEF x
  <2>3. z # x
    BY <1>6, <1>9
  <2> QED BY <1>10, <2>1, <2>2, <2>3
<1>12. ~(i + 1 < k)
  <2> SUFFICES ASSUME i + 1 < k
               PROVE  FALSE
    OBVIOUS
  <2>1. GroupPrecedes(y, z)
    BY <1>1, <1>4, <1>7 DEF y
  <2> QED BY <1>3, <1>6, <1>8, <1>9, <2>1
<1>13. k = i + 1
  BY <1>1, <1>4, <1>11, <1>12
<1>14. z = y
  BY <1>7, <1>13 DEF y
<1> QED BY <1>1, <1>4, <1>5, <1>6, <1>14 DEF x, y

LEMMA ShardsAreConsecutive ==
  ASSUME NEW m, NEW in, NEW X, DealtOut(m, in, X), NEW plan, InTheirOrder(X, plan),
         NEW i \in DOMAIN plan, NEW j \in DOMAIN plan, i < j,
         plan[i].order_key = plan[j].order_key
  PROVE  plan[j].index - plan[i].index = j - i
<1> DEFINE n == Len(plan)
           T == {d \in 0 .. j - i : /\ i + d \in DOMAIN plan
                                    /\ plan[i + d].order_key = plan[i].order_key
                                    /\ plan[i + d].index = plan[i].index + d}
<1>1. n \in Nat /\ DOMAIN plan = 1 .. n /\ \A k \in 1 .. n : plan[k] \in X
  BY DEF InTheirOrder
<1> HIDE DEF n
<1>2. i \in Nat /\ j \in Nat /\ j - i \in Nat /\ i + 0 = i /\ i + (j - i) = j
  BY <1>1
<1>3. plan[i].index \in Nat /\ plan[j].index \in Nat
  BY <1>1 DEF DealtOut
<1>4. 0 \in T
  BY <1>2, <1>3
<1>5. ASSUME NEW d \in 1 .. j - i, d - 1 \in T
      PROVE  d \in T
  <2> DEFINE k == i + (d - 1)
  <2>1. k + 1 = i + d /\ k < j /\ d \in 0 .. j - i /\ d \in Nat
    BY <1>2
  <2>2. /\ k \in DOMAIN plan /\ plan[k].order_key = plan[i].order_key
        /\ plan[k].index = plan[i].index + (d - 1)
    BY <1>5
  <2> HIDE DEF k
  <2>3. /\ k + 1 \in DOMAIN plan /\ plan[k + 1].order_key = plan[k].order_key
        /\ plan[k + 1].index = plan[k].index + 1
    BY <2>1, <2>2, NextShardIsNext
  <2>4. plan[k].index + 1 = plan[i].index + d
    BY <1>3, <2>1, <2>2
  <2>5. /\ i + d \in DOMAIN plan /\ plan[i + d].order_key = plan[i].order_key
        /\ plan[i + d].index = plan[i].index + d
    BY <2>1, <2>2, <2>3, <2>4
  <2> QED BY <2>1, <2>5
<1> HIDE DEF T
<1>6. j - i \in T
  <2>1. 0 .. j - i \subseteq T
    BY <1>2, <1>4, <1>5, StepByStep
  <2> QED BY <1>2, <2>1
<1>7. plan[i + (j - i)].index = plan[i].index + (j - i)
  BY <1>6 DEF T
<1> QED BY <1>2, <1>3, <1>7

\* A plan is one Planning promises: at most as many groups as rows, each row in
\* one, and a set's shards full but the last.
LEMMA PlanIsPlanned ==
  ASSUME NEW m, NEW in, Measured(m, in), NEW X, DealtOut(m, in, X),
         NEW plan, InTheirOrder(X, plan)
  PROVE  [i \in DOMAIN plan |-> [anchor |-> plan[i].anchor, members |-> plan[i].members]]
            \in Plans(m)
<1> DEFINE k == Len(plan)
           J == Journal(m)
           bare == [i \in DOMAIN plan |-> [anchor |-> plan[i].anchor, members |-> plan[i].members]]
           a == [i \in 1 .. k |-> plan[i].anchor]
           f == [u \in J |-> CHOOSE i \in 1 .. k : u \in plan[i].members]
<1>1. /\ k \in Nat /\ k = Cardinality(X) /\ DOMAIN plan = 1 .. k
      /\ \A i \in 1 .. k : plan[i] \in X
      /\ \A x \in X : \E i \in 1 .. k : plan[i] = x
      /\ \A i, j \in 1 .. k : i # j => plan[i] # plan[j]
      /\ \A i, j \in 1 .. k : i < j => GroupPrecedes(plan[i], plan[j])
  BY DEF InTheirOrder, ToSet, Once
<1> HIDE DEF k
<1>2. k \in 0 .. Cardinality(J)
  <2>1. k <= Cardinality(J) /\ Cardinality(J) \in Nat
    BY <1>1, DealtOutIsFinite, FS_CardinalityType DEF Measured
  <2> QED BY <1>1, <2>1
<1>3. \A i \in 1 .. k : /\ plan[i].anchor \in LongTerm(m) \cup {NULL}
                        /\ plan[i].members \in SUBSET J
                        /\ Cardinality(plan[i].members) \in 1 .. GroupMax
  BY <1>1 DEF DealtOut
<1>4. \A i, j \in 1 .. k : i # j => plan[i].members \cap plan[j].members = {}
  BY <1>1 DEF DealtOut
<1>5. \A u \in J : \E i \in 1 .. k : u \in plan[i].members
  <2> SUFFICES ASSUME NEW u \in J
               PROVE  \E i \in 1 .. k : u \in plan[i].members
    OBVIOUS
  <2>1. PICK x \in X : u \in x.members
    BY DEF DealtOut
  <2>2. PICK i \in 1 .. k : plan[i] = x
    BY <1>1
  <2> QED BY <2>1, <2>2
<1>6. \A u \in J : f[u] \in 1 .. k /\ u \in plan[f[u]].members
  BY <1>5
<1>7. a \in [1 .. k -> LongTerm(m) \cup {NULL}] /\ f \in [J -> 1 .. k]
  BY <1>3, <1>6
<1> HIDE DEF J
<1>8. bare = Dealt(m, a, f)
  <2>1. ASSUME NEW i \in 1 .. k
        PROVE  plan[i].members = {u \in J : f[u] = i}
    <3> HIDE DEF f
    <3>1. \A u \in J : u \in plan[i].members => f[u] = i
      BY <1>4, <1>6
    <3> QED BY <1>3, <1>6, <3>1
  <2>2. DOMAIN a = 1 .. k /\ \A i \in 1 .. k : a[i] = plan[i].anchor
    OBVIOUS
  <2>3. Dealt(m, a, f) = [i \in 1 .. k |-> [anchor |-> a[i], members |-> {u \in J : f[u] = i}]]
    BY <2>2 DEF Dealt, J
  <2> HIDE DEF a, f
  <2>4. bare = [i \in 1 .. k |-> [anchor |-> plan[i].anchor, members |-> plan[i].members]]
    BY <1>1
  <2> QED BY <2>1, <2>2, <2>3, <2>4
<1>9. WellSharded(bare)
  <2>1. DOMAIN bare = 1 .. k /\ \A i \in 1 .. k : /\ bare[i].anchor = plan[i].anchor
                                                  /\ bare[i].members = plan[i].members
    BY <1>1
  <2> HIDE DEF bare
  <2> SUFFICES ASSUME NEW i \in 1 .. k
               PROVE  /\ Cardinality(plan[i].members) \in 1 .. GroupMax
                      /\ (\E j \in 1 .. k : j > i /\ plan[j].anchor = plan[i].anchor
                                                  /\ plan[j].anchor # NULL)
                             => Cardinality(plan[i].members) = GroupMax
    BY <2>1 DEF WellSharded
  <2>2. ASSUME NEW j \in 1 .. k, j > i, plan[j].anchor = plan[i].anchor, plan[j].anchor # NULL
        PROVE  Cardinality(plan[i].members) = GroupMax
    <3>1. plan[i] \in X /\ plan[j] \in X
      BY <1>1
    <3>2. plan[i].order_key = plan[j].order_key
      BY <2>2, <3>1 DEF DealtOut
    <3>3. plan[i].index < plan[j].index
      <4>1. i < j
        BY <1>1, <2>2
      <4> QED BY <1>1, <3>2, <4>1, NextShardIsNext
    <3> QED BY <3>1, <3>2, <3>3 DEF DealtOut
  <2> QED BY <1>3, <2>2
<1>10. bare \in UNION {{Dealt(m, b, g) : b \in [1 .. l -> LongTerm(m) \cup {NULL}],
                                          g \in [J -> 1 .. l]} : l \in 0 .. Cardinality(J)}
  <2> HIDE DEF a, f, bare
  <2>1. bare \in {Dealt(m, b, g) : b \in [1 .. k -> LongTerm(m) \cup {NULL}], g \in [J -> 1 .. k]}
    BY <1>7, <1>8
  <2> QED BY <1>2, <2>1
<1> HIDE DEF bare
<1>11. bare \in Plans(m)
  BY <1>9, <1>10 DEF Plans, J
<1> QED BY <1>11 DEF bare

LEMMA PlanCoheres ==
  ASSUME NEW m, DOMAIN m \subseteq Uuids, NEW K, NEW in \in Readings(m, K)
  PROVE  LET plan == PlanOf(m, in)
         IN  /\ [i \in DOMAIN plan |-> [anchor |-> plan[i].anchor, members |-> plan[i].members]]
                   \in Plans(m)
             /\ \A i, j \in DOMAIN plan : plan[i].order_key = plan[j].order_key =>
                   /\ plan[j].anchor = plan[i].anchor /\ plan[j].index - plan[i].index = j - i
                   /\ \A u \in plan[i].members, v \in plan[j].members :
                         IF plan[i].anchor = NULL
                         THEN u = v \/ (v \in in.near[u] /\ u \in in.near[v])
                         ELSE plan[i].anchor \in in.clears[u]
<1> DEFINE plan == PlanOf(m, in)
<1>1. Measured(m, in)
  BY ReadingsAreMeasured
<1>2. PICK X : DealtOut(m, in, X) /\ InTheirOrder(X, plan)
  BY <1>1, PlanIsInOrder
<1> HIDE DEF plan
<1>3. /\ Len(plan) \in Nat /\ DOMAIN plan = 1 .. Len(plan)
      /\ \A i \in DOMAIN plan : plan[i] \in X /\ plan[i].index \in Nat
  <2>1. Len(plan) \in Nat /\ DOMAIN plan = 1 .. Len(plan) /\ \A i \in DOMAIN plan : plan[i] \in X
    BY <1>2 DEF InTheirOrder
  <2> QED BY <1>2, <2>1 DEF DealtOut
<1>4. ASSUME NEW i \in DOMAIN plan, NEW j \in DOMAIN plan,
             plan[i].order_key = plan[j].order_key
      PROVE  /\ plan[j].anchor = plan[i].anchor /\ plan[j].index - plan[i].index = j - i
             /\ \A u \in plan[i].members, v \in plan[j].members :
                   IF plan[i].anchor = NULL
                   THEN u = v \/ (v \in in.near[u] /\ u \in in.near[v])
                   ELSE plan[i].anchor \in in.clears[u]
  <2>1. plan[j].anchor = plan[i].anchor
    BY <1>2, <1>3, <1>4 DEF DealtOut
  <2>2. \A u \in plan[i].members, v \in plan[j].members :
            IF plan[i].anchor = NULL THEN Mutual(in, u, v) ELSE plan[i].anchor \in in.clears[u]
    BY <1>2, <1>3, <1>4 DEF DealtOut
  <2>3. plan[j].index - plan[i].index = j - i
    <3>0. i \in Nat /\ j \in Nat /\ plan[i].index \in Nat /\ plan[j].index \in Nat
      BY <1>3
    <3>1. CASE i < j
      BY <1>2, <1>4, <3>1, ShardsAreConsecutive
    <3>2. CASE j < i
      <4>1. plan[i].index - plan[j].index = i - j
        BY <1>2, <1>4, <3>2, ShardsAreConsecutive
      <4> QED BY <3>0, <4>1
    <3>3. CASE i = j
      BY <3>0, <3>3
    <3> QED BY <3>0, <3>1, <3>2, <3>3
  <2> QED BY <2>1, <2>2, <2>3 DEF Mutual
<1> QED BY <1>1, <1>2, <1>4, PlanIsPlanned DEF plan

\* A plan being delivered is the plan of the store it was asked of.
PlanIsOfTheStore ==
    answer # NULL /\ answer.read = "plan" =>
        /\ answer.in \in Readings(memory, MutualK)
        /\ answer.plan = PlanOf(memory, answer.in)

LEMMA PlanStaysOfTheStore ==
  ASSUME PlanIsOfTheStore, [ReadsNext]_readVars
  PROVE  PlanIsOfTheStore'
<1>1. CASE VerbRuns
  BY <1>1 DEF VerbRuns, PlanIsOfTheStore
<1>2. CASE Delivered
  BY <1>2 DEF Delivered, PlanIsOfTheStore
<1>3. CASE Plan
  <2>1. PICK in \in Readings(memory, MutualK) :
            answer' = [read |-> "plan", in |-> in, plan |-> PlanOf(memory, in)]
    BY <1>3 DEF Plan
  <2>2. memory' = memory
    BY <1>3 DEF Plan, recordVars
  <2> QED BY <2>1, <2>2 DEF PlanIsOfTheStore
<1>4. CASE Probes
  BY <1>4 DEF Probes, PlanIsOfTheStore
<1>5. CASE Searches
  BY <1>5 DEF Searches, PlanIsOfTheStore
<1>6. CASE UNCHANGED readVars
  BY <1>6 DEF readVars, PlanIsOfTheStore
<1> QED BY <1>1, <1>2, <1>3, <1>4, <1>5, <1>6 DEF ReadsNext

\* Whatever the store and whatever is measured of it, a plan deals each
\* deliverable row into one group, no group mixes rows that are not pairwise
\* near or that did not clear the floor with its anchor, and only the shards of
\* one set share an order key, one after the other (grouping.plan).
THEOREM PlansAreCoherent == ReadsSpec => []PlansCohere
<1>1. ReadsInit => PlanIsOfTheStore
  BY DEF ReadsInit, PlanIsOfTheStore
<1>2. PlanIsOfTheStore /\ [ReadsNext]_readVars => PlanIsOfTheStore'
  BY PlanStaysOfTheStore
<1>3. RecordsTypeOK /\ PlanIsOfTheStore => PlansCohere
  <2> SUFFICES ASSUME RecordsTypeOK, PlanIsOfTheStore, answer # NULL, answer.read = "plan"
               PROVE  PlansCohere
    BY DEF PlansCohere
  <2>1. answer.in \in Readings(memory, MutualK) /\ answer.plan = PlanOf(memory, answer.in)
    BY DEF PlanIsOfTheStore
  <2>2. DOMAIN memory \subseteq Uuids
    BY DEF RecordsTypeOK
  <2> QED BY <2>1, <2>2, PlanCoheres DEF PlansCohere
<1> QED BY <1>1, <1>2, <1>3, ReadsChangeNothing, RecordsTypeCorrect, PTL DEF ReadsSpec
=============================================================================
