-------------------------- MODULE CsvAppendsProofs --------------------------
(***************************************************************************)
(* What characters read as, for every text, schema and table file: records *)
(* that are written read back, records that are cut or glued read as       *)
(* TableStorage says, and a rewritten table reads as its rows.             *)
(***************************************************************************)
EXTENDS CsvAppends, FormatProofs, WellFoundedInduction

-----------------------------------------------------------------------------
(* Loops: a function next on a set of states is applied until it has no      *)
(* effect.                                                                   *)

(* Every set of numbers that is not empty has a least one.                   *)
LEMMA Least == ASSUME NEW S \in SUBSET Nat, S # {}
               PROVE  \E n \in S : \A m \in S : n <= m
<1> DEFINE Below(n) == 0 .. n - 1
           T == {Below(n) : n \in S}
<1>1. \A n \in Nat : Below(n) \in FiniteSubsetsOf(Nat)
  BY FS_Interval DEF FiniteSubsetsOf
<1>2. \E x \in T : \A y \in T : <<y, x>> \notin StrictSubsetOrdering(Nat)
  <2>1. T # {} /\ T \subseteq FiniteSubsetsOf(Nat)
    BY <1>1
  <2> HIDE DEF T
  <2> QED BY <2>1, FS_StrictSubsetOrderingWellFounded, WFMin
<1>3. PICK n \in S : \A m \in S : <<Below(m), Below(n)>> \notin StrictSubsetOrdering(Nat)
  BY <1>2
<1>4. ASSUME NEW m \in S, m < n PROVE FALSE
  <2>1. Below(m) \subseteq Below(n) /\ m \in Below(n) /\ m \notin Below(m)
    BY <1>4
  <2>2. Below(m) \in SUBSET Nat /\ Below(n) \in SUBSET Nat
    OBVIOUS
  <2> HIDE DEF Below
  <2>3. <<Below(m), Below(n)>> \in StrictSubsetOrdering(Nat)
    BY <2>1, <2>2 DEF StrictSubsetOrdering
  <2> QED BY <1>3, <2>3
<1> QED BY <1>4

(* Numbers that hold 0, and with every number the next one, are all.         *)
LEMMA Induction == ASSUME NEW S \in SUBSET Nat, 0 \in S, \A n \in S : n + 1 \in S
                   PROVE  S = Nat
<1> SUFFICES ASSUME Nat \ S # {} PROVE FALSE
  OBVIOUS
<1>1. PICK n \in Nat \ S : \A m \in Nat \ S : n <= m
  BY Least
<1>2. n - 1 \in Nat /\ n - 1 \in S
  BY <1>1
<1> QED BY <1>1, <1>2

Path(next, f, n) ==
  /\ n \in Nat /\ f \in [0 .. n -> DOMAIN next]
  /\ \A i \in 1 .. n : next[f[i - 1]] # f[i - 1] /\ f[i] = next[f[i - 1]]
Reach(next, v, z) == \E n, f : Path(next, f, n) /\ f[0] = v /\ f[n] = z

(* No round, and one more round.                                             *)
LEMMA ReachSelf == ASSUME NEW next, NEW v \in DOMAIN next PROVE Reach(next, v, v)
<1> DEFINE f == [i \in 0 .. 0 |-> v]
<1>1. Path(next, f, 0) /\ f[0] = v
  BY DEF Path
<1> HIDE DEF f
<1> QED BY <1>1 DEF Reach

LEMMA ReachNext ==
  ASSUME NEW V, NEW next \in [V -> V], NEW v, NEW w, Reach(next, v, w), next[w] # w
  PROVE  Reach(next, v, next[w])
<1>1. PICK n, f : Path(next, f, n) /\ f[0] = v /\ f[n] = w
  BY DEF Reach
<1>2. n \in Nat /\ f \in [0 .. n -> V]
      /\ \A i \in 1 .. n : next[f[i - 1]] # f[i - 1] /\ f[i] = next[f[i - 1]]
  BY <1>1 DEF Path
<1> DEFINE g == [i \in 0 .. n + 1 |-> IF i <= n THEN f[i] ELSE next[w]]
<1>3. g \in [0 .. n + 1 -> V] /\ g[0] = v /\ g[n + 1] = next[w]
  BY <1>1, <1>2
<1>4. ASSUME NEW i \in 1 .. n + 1 PROVE next[g[i - 1]] # g[i - 1] /\ g[i] = next[g[i - 1]]
  <2>1. CASE i <= n
    BY <1>2, <2>1
  <2>2. CASE i = n + 1
    BY <1>1, <1>2, <2>2
  <2> QED BY <1>2, <2>1, <2>2
<1> HIDE DEF g
<1>5. Path(next, g, n + 1)
  BY <1>2, <1>3, <1>4 DEF Path
<1> QED BY <1>3, <1>5 DEF Reach

(* What holds of the first state and is kept by every round holds at last.   *)
LEMMA ReachInduct ==
  ASSUME NEW next, NEW v, NEW z, Reach(next, v, z), NEW S, v \in S,
         \A s \in S \cap DOMAIN next : next[s] # s => next[s] \in S
  PROVE  z \in S
<1>1. PICK n, f : Path(next, f, n) /\ f[0] = v /\ f[n] = z
  BY DEF Reach
<1>2. n \in Nat /\ f \in [0 .. n -> DOMAIN next]
      /\ \A i \in 1 .. n : next[f[i - 1]] # f[i - 1] /\ f[i] = next[f[i - 1]]
  BY <1>1 DEF Path
<1> DEFINE T == {i \in Nat : i <= n => f[i] \in S}
<1>3. 0 \in T
  BY <1>1
<1>4. ASSUME NEW i \in T PROVE i + 1 \in T
  <2>0. i \in Nat /\ (i <= n => f[i] \in S)
    OBVIOUS
  <2> SUFFICES ASSUME i + 1 <= n PROVE f[i + 1] \in S
    BY <2>0
  <2>1. i \in 0 .. n /\ i + 1 \in 1 .. n /\ (i + 1) - 1 = i
    BY <1>2, <2>0
  <2>2. f[i] \in S \cap DOMAIN next
    BY <1>2, <2>0, <2>1
  <2>3. next[f[i]] # f[i] /\ f[i + 1] = next[f[i]]
    BY <1>2, <2>1
  <2> QED BY <2>2, <2>3
<1>5. T = Nat
  <2>1. T \in SUBSET Nat
    OBVIOUS
  <2> HIDE DEF T
  <2> QED BY <1>3, <1>4, <2>1, Induction
<1> QED BY <1>1, <1>2, <1>5

LEMMA ReachTrans ==
  ASSUME NEW V, NEW next \in [V -> V], NEW v, NEW w, NEW z,
         Reach(next, v, w), Reach(next, w, z)
  PROVE  Reach(next, v, z)
<1> DEFINE S == {s \in V : Reach(next, v, s)}
<1>1. w \in S
  <2>1. PICK n, f : Path(next, f, n) /\ f[0] = w /\ f[n] = z
    BY DEF Reach
  <2>2. w \in V
    BY <2>1 DEF Path
  <2> QED BY <2>2
<1>2. \A s \in S \cap DOMAIN next : next[s] # s => next[s] \in S
  BY ReachNext
<1> HIDE DEF S
<1>3. z \in S
  BY <1>1, <1>2, ReachInduct
<1> QED BY <1>3 DEF S

(* A loop that makes progress, measured by a number up to N, but perhaps in  *)
(* its last round, ends; and after N rounds it has ended.                    *)
Progress(next, size, N) ==
  /\ N \in Nat
  /\ \A v \in DOMAIN next :
       next[v] # v => /\ size[v] \in 1 .. N
                      /\ next[next[v]] # next[v] => size[next[v]] > size[v]

LEMMA ReachEnds ==
  ASSUME NEW V, NEW next \in [V -> V], NEW size, NEW N, Progress(next, size, N), NEW v \in V
  PROVE  \E z \in V : Reach(next, v, z) /\ next[z] = z
<1> SUFFICES ASSUME \A z \in V : Reach(next, v, z) => next[z] # z PROVE FALSE
  OBVIOUS
<1>1. N \in Nat /\ \A s \in V : next[s] # s => /\ size[s] \in 1 .. N
                                               /\ next[next[s]] # next[s] => size[next[s]] > size[s]
  BY DEF Progress
<1> DEFINE S == {i \in Nat : \E s \in V : Reach(next, v, s) /\ size[s] > i}
<1>2. 0 \in S
  <2>1. Reach(next, v, v)
    BY ReachSelf
  <2> QED BY <1>1, <2>1
<1>3. ASSUME NEW i \in S PROVE i + 1 \in S
  <2>1. PICK s \in V : Reach(next, v, s) /\ size[s] > i
    OBVIOUS
  <2>2. next[s] # s
    BY <2>1
  <2>3. Reach(next, v, next[s]) /\ next[s] \in V
    BY <2>1, <2>2, ReachNext
  <2>4. next[next[s]] # next[s]
    BY <2>3
  <2>5. size[next[s]] > size[s] /\ size[s] \in Nat /\ size[next[s]] \in Nat
    BY <1>1, <2>2, <2>3, <2>4
  <2>6. size[next[s]] > i + 1
    BY <2>1, <2>5
  <2> QED BY <2>3, <2>6
<1>4. S = Nat
  <2>1. S \in SUBSET Nat
    OBVIOUS
  <2> HIDE DEF S
  <2> QED BY <1>2, <1>3, <2>1, Induction
<1>5. PICK s \in V : Reach(next, v, s) /\ size[s] > N
  BY <1>1, <1>4
<1> QED BY <1>1, <1>5

(* A recursive function that follows the loop for N rounds gets to its end.  *)
LEMMA ReachLimit ==
  ASSUME NEW V, NEW next \in [V -> V], NEW size, NEW N, Progress(next, size, N),
         NEW v, NEW z, Reach(next, v, z), next[z] = z
  PROVE  /\ \E g : g \in [0 .. N -> V] /\ g[0] = v
                   /\ \A i \in 1 .. N : g[i] = next[g[i - 1]]
         /\ \A h : h[0] = v /\ (\A i \in 1 .. N : h[i - 1] \in V => h[i] = next[h[i - 1]])
                   => h[N] = z
<1>1. N \in Nat /\ \A s \in V : next[s] # s => /\ size[s] \in 1 .. N
                                               /\ next[next[s]] # next[s] => size[next[s]] > size[s]
  BY DEF Progress
<1>2. PICK n, f : Path(next, f, n) /\ f[0] = v /\ f[n] = z
  BY DEF Reach
<1>3. n \in Nat /\ f \in [0 .. n -> V]
      /\ \A i \in 1 .. n : next[f[i - 1]] # f[i - 1] /\ f[i] = next[f[i - 1]]
  BY <1>2 DEF Path
<1>4. n <= N
  <2> DEFINE S == {i \in Nat : i < n => size[f[i]] > i}
  <2>1. 0 \in S
    <3> SUFFICES ASSUME 0 < n PROVE size[f[0]] > 0
      OBVIOUS
    <3>1. 1 \in 1 .. n /\ f[0] \in V
      BY <1>3
    <3>2. next[f[1 - 1]] # f[1 - 1]
      BY <1>3, <3>1
    <3>3. size[f[0]] \in 1 .. N
      BY <1>1, <3>1, <3>2
    <3> QED BY <1>1, <3>3
  <2>2. ASSUME NEW i \in S PROVE i + 1 \in S
    <3>0. i \in Nat /\ (i < n => size[f[i]] > i)
      OBVIOUS
    <3> SUFFICES ASSUME i + 1 < n PROVE size[f[i + 1]] > i + 1
      BY <3>0
    <3>1. /\ i \in Nat /\ i + 1 \in 1 .. n /\ i + 2 \in 1 .. n /\ (i + 1) - 1 = i
          /\ (i + 2) - 1 = i + 1 /\ i \in 0 .. n /\ i + 1 \in 0 .. n /\ i < n
      BY <1>3, <3>0
    <3>2. f[i] \in V /\ f[i + 1] \in V /\ next[f[i]] # f[i] /\ f[i + 1] = next[f[i]]
          /\ next[f[i + 1]] # f[i + 1]
      BY <1>3, <3>1
    <3>3. size[f[i + 1]] > size[f[i]] /\ size[f[i]] \in Nat /\ size[f[i + 1]] \in Nat
      BY <1>1, <3>2
    <3>4. size[f[i]] > i
      BY <3>0, <3>1
    <3> QED BY <3>1, <3>3, <3>4
  <2>3. S = Nat
    <3>1. S \in SUBSET Nat
      OBVIOUS
    <3> HIDE DEF S
    <3> QED BY <2>1, <2>2, <3>1, Induction
  <2>4. SUFFICES ASSUME n > N PROVE FALSE
    BY <1>1, <1>3
  <2>5. n - 1 \in Nat /\ n - 1 < n /\ n \in 1 .. n /\ n - 1 \in 0 .. n
    BY <1>1, <1>3, <2>4
  <2>6. size[f[n - 1]] > n - 1
    BY <2>3, <2>5
  <2>7. size[f[n - 1]] \in 1 .. N
    BY <1>1, <1>3, <2>5
  <2> QED BY <1>1, <1>3, <2>4, <2>6, <2>7
<1>5. z \in V
  BY <1>2, <1>3
<1> DEFINE g == [i \in 0 .. N |-> IF i <= n THEN f[i] ELSE z]
<1>6. g \in [0 .. N -> V] /\ g[0] = v /\ g[N] = z
  BY <1>1, <1>2, <1>3, <1>4, <1>5
<1>7. ASSUME NEW i \in 1 .. N PROVE g[i] = next[g[i - 1]]
  <2>1. i \in 0 .. N /\ i - 1 \in 0 .. N
    BY <1>1
  <2>2. CASE i <= n
    <3>1. i \in 1 .. n /\ i - 1 <= n
      BY <1>1, <1>3, <2>2
    <3>2. g[i] = f[i] /\ g[i - 1] = f[i - 1]
      BY <2>1, <2>2, <3>1
    <3> QED BY <1>3, <3>1, <3>2
  <2>3. CASE i > n
    <3>1. g[i] = z
      BY <1>1, <1>3, <2>1, <2>3
    <3>2. g[i - 1] = z
      <4>1. CASE i - 1 = n
        BY <1>2, <2>1, <4>1
      <4>2. CASE i - 1 # n
        <5>1. ~(i - 1 <= n)
          BY <1>1, <1>3, <2>3, <4>2
        <5> QED BY <2>1, <5>1
      <4> QED BY <4>1, <4>2
    <3> QED BY <3>1, <3>2
  <2> QED BY <1>1, <1>3, <2>2, <2>3
<1> HIDE DEF g
<1>8. ASSUME NEW h, h[0] = v, \A i \in 1 .. N : h[i - 1] \in V => h[i] = next[h[i - 1]]
      PROVE  h[N] = z
  <2> DEFINE S == {i \in Nat : i <= N => h[i] = g[i]}
  <2>1. 0 \in S
    BY <1>6, <1>8
  <2>2. ASSUME NEW i \in S PROVE i + 1 \in S
    <3> SUFFICES ASSUME i + 1 <= N PROVE h[i + 1] = g[i + 1]
      OBVIOUS
    <3>1. i \in 0 .. N /\ i + 1 \in 1 .. N /\ (i + 1) - 1 = i
      BY <1>1
    <3>2. h[i] = g[i] /\ g[i] \in V
      BY <1>6, <3>1
    <3>3. g[i + 1] = next[g[i]]
      BY <1>7, <3>1
    <3>4. h[i + 1] = next[h[i]]
      BY <1>8, <3>1, <3>2
    <3> QED BY <3>2, <3>3, <3>4
  <2>3. S = Nat
    <3>1. S \in SUBSET Nat
      OBVIOUS
    <3> HIDE DEF S
    <3> QED BY <2>1, <2>2, <3>1, Induction
  <2> QED BY <1>1, <1>6, <2>3
<1> QED BY <1>6, <1>7, <1>8

(* The end of a loop is one state, and every state on the way gets there.    *)
LEMMA ReachUnique ==
  ASSUME NEW V, NEW next \in [V -> V], NEW size, NEW N, Progress(next, size, N),
         NEW v, NEW y, NEW z, Reach(next, v, y), next[y] = y, Reach(next, v, z), next[z] = z
  PROVE  y = z
<1>1. PICK g : g[0] = v /\ \A i \in 1 .. N : g[i] = next[g[i - 1]]
  BY ReachLimit
<1>2. g[N] = y
  BY <1>1, ReachLimit
<1>3. g[N] = z
  BY <1>1, ReachLimit
<1> QED BY <1>2, <1>3

LEMMA ReachToEnd ==
  ASSUME NEW V, NEW next \in [V -> V], NEW size, NEW N, Progress(next, size, N),
         NEW v, NEW s \in V, NEW z, Reach(next, v, s), Reach(next, v, z), next[z] = z
  PROVE  Reach(next, s, z)
<1>1. PICK y \in V : Reach(next, s, y) /\ next[y] = y
  BY ReachEnds
<1>2. Reach(next, v, y)
  BY <1>1, ReachTrans
<1>3. y = z
  BY <1>1, <1>2, ReachUnique
<1> QED BY <1>1, <1>3

-----------------------------------------------------------------------------
(* Concatenations of many texts. *)

Flattened(s, g) == /\ g[0] = <<>>
                   /\ \A i \in 1 .. Len(s) : g[i] = g[i - 1] \o s[i]

(* FlattenSeq joins one text after the other. *)
LEMMA FlatParts ==
  ASSUME NEW S, NEW s \in Seq(Seq(S))
  PROVE  \E g \in [0 .. Len(s) -> Seq(S)] : Flattened(s, g) /\ g[Len(s)] = FlattenSeq(s)
<1> DEFINE n == Len(s)
           Part(k, g) == g[0] = <<>> /\ \A i \in 1 .. k : g[i] = g[i - 1] \o s[i]
           Some(k) == \E g \in [0 .. k -> Seq(S)] : Part(k, g)
           T == {k \in Nat : k <= n => Some(k)}
<1>0. n \in Nat /\ \A i \in 1 .. n : s[i] \in Seq(S)
  OBVIOUS
<1> HIDE DEF n
<1>1. Some(0)
  <2> DEFINE g == [i \in 0 .. 0 |-> <<>>]
  <2>1. g \in [0 .. 0 -> Seq(S)] /\ g[0] = <<>>
    OBVIOUS
  <2> HIDE DEF g
  <2>2. Part(0, g)
    BY <2>1
  <2> QED BY <2>1, <2>2
<1>2. ASSUME NEW k \in Nat, k + 1 <= n, Some(k) PROVE Some(k + 1)
  <2>1. k <= n /\ k + 1 \in 1 .. n /\ s[k + 1] \in Seq(S)
    BY <1>0, <1>2
  <2>2. PICK g \in [0 .. k -> Seq(S)] : Part(k, g)
    BY <1>2
  <2> DEFINE h == [i \in 0 .. k + 1 |-> IF i <= k THEN g[i] ELSE g[k] \o s[k + 1]]
  <2>3. g[k] \in Seq(S) /\ g[k] \o s[k + 1] \in Seq(S)
    BY <2>1
  <2>4. h \in [0 .. k + 1 -> Seq(S)]
    BY <2>3
  <2>5. ASSUME NEW i \in 1 .. k + 1 PROVE h[i] = h[i - 1] \o s[i]
    <3>0. i \in 0 .. k + 1 /\ i - 1 \in 0 .. k + 1 /\ i - 1 <= k /\ k \in Nat
      OBVIOUS
    <3>1. h[i - 1] = g[i - 1]
      BY <3>0
    <3>2. CASE i <= k
      <4>1. i \in 1 .. k /\ h[i] = g[i]
        BY <3>0, <3>2
      <4> QED BY <2>2, <3>1, <4>1
    <3>3. CASE ~(i <= k)
      <4>1. i = k + 1 /\ i - 1 = k
        BY <3>0, <3>3
      <4>2. h[i] = g[k] \o s[k + 1]
        BY <3>0, <3>3
      <4> HIDE DEF h
      <4> QED BY <3>1, <4>1, <4>2
    <3> QED BY <3>2, <3>3
  <2>6. h[0] = <<>>
    BY <2>2
  <2> HIDE DEF h
  <2>7. Part(k + 1, h)
    BY <2>5, <2>6
  <2> QED BY <2>4, <2>7
<1>3. PICK g \in [0 .. n -> Seq(S)] : Part(n, g)
  <2> HIDE DEF Some
  <2>1. T \in SUBSET Nat /\ 0 \in T
    BY <1>1
  <2>2. ASSUME NEW k \in T PROVE k + 1 \in T
    <3>1. k \in Nat /\ (k <= n => Some(k)) /\ (k + 1 <= n => k <= n)
      BY <1>0
    <3> QED BY <1>2, <3>1
  <2> HIDE DEF T
  <2>3. n \in T
    BY <1>0, <2>1, <2>2, Induction
  <2>4. Some(n)
    BY <1>0, <2>3 DEF T
  <2> QED BY <2>4 DEF Some
<1>4. CASE n = 0
  <2>1. FlattenSeq(s) = s /\ s = <<>>
    BY <1>4 DEF FlattenSeq, n
  <2>2. g[n] = <<>>
    BY <1>3, <1>4
  <2>3. Flattened(s, g)
    BY <1>3 DEF Flattened, n
  <2> QED BY <1>3, <2>1, <2>2, <2>3 DEF n
<1>5. CASE n # 0
  <2> DEFINE flatten == CHOOSE f : f = [i \in 1 .. n |-> IF i = 1 THEN s[i] ELSE f[i - 1] \o s[i]]
             f0 == [i \in 1 .. n |-> g[i]]
  <2>1. n \in Nat /\ n >= 1 /\ 1 \in 1 .. n
    BY <1>0, <1>5
  <2>2. g[1] = s[1]
    <3>1. PICK i \in 1 .. n : i = 1 /\ i - 1 = 0
      BY <2>1
    <3>2. g[i] = g[i - 1] \o s[i]
      BY <1>3
    <3>3. g[i - 1] = <<>>
      BY <1>3, <3>1
    <3>4. s[i] \in Seq(S)
      BY <1>0
    <3>5. g[i] = s[i]
      BY <3>2, <3>3, <3>4
    <3> QED BY <3>1, <3>5
  <2>3. ASSUME NEW i \in 1 .. n
        PROVE  f0[i] = IF i = 1 THEN s[i] ELSE f0[i - 1] \o s[i]
    <3>1. CASE i = 1
      BY <2>2, <3>1
    <3>2. CASE i # 1
      <4>1. i - 1 \in 1 .. n
        BY <2>1, <3>2
      <4>2. g[i] = g[i - 1] \o s[i]
        BY <1>3
      <4>3. f0[i] = g[i] /\ f0[i - 1] = g[i - 1]
        BY <4>1
      <4> QED BY <3>2, <4>2, <4>3
    <3> QED BY <3>1, <3>2
  <2>4. f0 = [i \in 1 .. n |-> IF i = 1 THEN s[i] ELSE f0[i - 1] \o s[i]]
    <3>1. f0 = [i \in 1 .. n |-> f0[i]]
      OBVIOUS
    <3> HIDE DEF f0
    <3> QED BY <2>3, <3>1
  <2>5. flatten = [i \in 1 .. n |-> IF i = 1 THEN s[i] ELSE flatten[i - 1] \o s[i]]
    <3> HIDE DEF f0
    <3> QED BY <2>4
  <2>6. FlattenSeq(s) = flatten[n]
    BY <1>5 DEF FlattenSeq, n
  <2> HIDE DEF flatten
  <2> DEFINE U == {k \in Nat : k + 1 \in 1 .. n => flatten[k + 1] = g[k + 1]}
  <2>7. U \in SUBSET Nat /\ 0 \in U
    <3>1. flatten[1] = s[1]
      BY <2>1, <2>5
    <3> HIDE DEF n
    <3> QED BY <2>2, <3>1
  <2>8. ASSUME NEW k \in U PROVE k + 1 \in U
    <3>0. k \in Nat /\ (k + 1 \in 1 .. n => flatten[k + 1] = g[k + 1])
      OBVIOUS
    <3>1. SUFFICES ASSUME k + 2 \in 1 .. n PROVE flatten[k + 2] = g[k + 2]
      BY <3>0
    <3>2. k + 1 \in 1 .. n /\ k + 2 # 1 /\ (k + 2) - 1 = k + 1
      BY <2>1, <3>0, <3>1
    <3>3. flatten[k + 2] = flatten[k + 1] \o s[k + 2]
      BY <2>5, <3>1, <3>2
    <3>4. g[k + 2] = g[k + 1] \o s[k + 2]
      BY <1>3, <3>1, <3>2
    <3> QED BY <3>0, <3>2, <3>3, <3>4
  <2> HIDE DEF U
  <2>9. U = Nat
    BY <2>7, <2>8, Induction
  <2>10. flatten[n] = g[n]
    <3>1. n - 1 \in Nat /\ (n - 1) + 1 = n /\ n \in 1 .. n
      BY <2>1
    <3>2. n - 1 \in U
      BY <2>9, <3>1
    <3> QED BY <3>1, <3>2 DEF U
  <2>11. Flattened(s, g)
    BY <1>3 DEF Flattened, n
  <2> QED BY <1>3, <2>6, <2>10, <2>11 DEF n
<1> QED BY <1>4, <1>5

(* Where a text occurs in another. *)
Has(input, p, t) ==
  \A i \in 1 .. Len(t) : p + i - 1 \in 1 .. Len(input) /\ input[p + i - 1] = t[i]

LEMMA HasJoin ==
  ASSUME NEW S, NEW input, NEW p \in Nat, NEW a \in Seq(S), NEW b \in Seq(S)
  PROVE  Has(input, p, a \o b) <=> Has(input, p, a) /\ Has(input, p + Len(a), b)
<1> DEFINE whole == a \o b
<1>1. /\ whole \in Seq(S) /\ Len(whole) = Len(a) + Len(b)
      /\ \A i \in 1 .. Len(a) : whole[i] = a[i]
  BY Joined, Zenon
<1>2. \A i \in 1 .. Len(b) : whole[Len(a) + i] = b[i]
  BY JoinedSecond, Zenon
<1> HIDE DEF whole
<1>3. Len(a) \in Nat /\ Len(b) \in Nat
  OBVIOUS
<1>4. ASSUME Has(input, p, whole) PROVE Has(input, p, a) /\ Has(input, p + Len(a), b)
  <2>1. ASSUME NEW i \in 1 .. Len(a)
        PROVE  p + i - 1 \in 1 .. Len(input) /\ input[p + i - 1] = a[i]
    BY <1>1, <1>3, <1>4 DEF Has
  <2>2. ASSUME NEW i \in 1 .. Len(b)
        PROVE  /\ p + Len(a) + i - 1 \in 1 .. Len(input)
               /\ input[p + Len(a) + i - 1] = b[i]
    <3>1. Len(a) + i \in 1 .. Len(whole) /\ p + (Len(a) + i) - 1 = p + Len(a) + i - 1
      BY <1>1, <1>3
    <3> QED BY <1>2, <1>4, <3>1 DEF Has
  <2> QED BY <2>1, <2>2 DEF Has
<1>5. ASSUME Has(input, p, a), Has(input, p + Len(a), b) PROVE Has(input, p, whole)
  <2> SUFFICES ASSUME NEW i \in 1 .. Len(whole)
               PROVE  p + i - 1 \in 1 .. Len(input) /\ input[p + i - 1] = whole[i]
    BY DEF Has
  <2>1. CASE i <= Len(a)
    <3>1. i \in 1 .. Len(a)
      BY <1>3, <2>1
    <3> QED BY <1>1, <1>5, <3>1 DEF Has
  <2>2. CASE ~(i <= Len(a))
    <3>1. PICK k \in 1 .. Len(b) : i = Len(a) + k
      <4>1. i - Len(a) \in 1 .. Len(b) /\ i = Len(a) + (i - Len(a))
        BY <1>1, <1>3, <2>2
      <4> QED BY <4>1
    <3>2. p + Len(a) + k - 1 = p + i - 1
      BY <1>3, <3>1
    <3>3. p + Len(a) + k - 1 \in 1 .. Len(input) /\ input[p + Len(a) + k - 1] = b[k]
      BY <1>5 DEF Has
    <3> QED BY <1>2, <3>1, <3>2, <3>3
  <2> QED BY <2>1, <2>2
<1> QED BY <1>4, <1>5 DEF whole

(* Where many joined texts occur, each of them does, one after the other.    *)
LEMMA HasFlat ==
  ASSUME NEW S, NEW input, NEW p \in Nat, NEW s \in Seq(Seq(S)),
         NEW g \in [0 .. Len(s) -> Seq(S)], Flattened(s, g), Has(input, p, g[Len(s)])
  PROVE  /\ g[0] = <<>> /\ Len(g[0]) = 0
         /\ \A k \in 1 .. Len(s) : /\ Len(g[k]) = Len(g[k - 1]) + Len(s[k])
                                   /\ Len(g[k - 1]) \in Nat /\ Len(g[k]) \in Nat
                                   /\ Has(input, p + Len(g[k - 1]), s[k])
<1> DEFINE n == Len(s)
           T == {j \in Nat : j <= n => Has(input, p, g[n - j])}
<1>1. /\ n \in Nat /\ g[0] = <<>>
      /\ \A k \in 1 .. n : g[k] = g[k - 1] \o s[k] /\ s[k] \in Seq(S)
      /\ \A k \in 0 .. n : g[k] \in Seq(S) /\ Len(g[k]) \in Nat
  <2>1. n \in Nat /\ \A k \in 1 .. n : s[k] \in Seq(S)
    OBVIOUS
  <2>2. g[0] = <<>> /\ \A k \in 1 .. n : g[k] = g[k - 1] \o s[k]
    BY DEF Flattened
  <2>3. \A k \in 0 .. n : g[k] \in Seq(S)
    OBVIOUS
  <2> HIDE DEF n
  <2>4. \A k \in 0 .. n : Len(g[k]) \in Nat
    BY <2>3
  <2> QED BY <2>1, <2>2, <2>3, <2>4
<1> HIDE DEF n
<1>2. ASSUME NEW k \in 1 .. n, Has(input, p, g[k])
      PROVE  Has(input, p, g[k - 1]) /\ Has(input, p + Len(g[k - 1]), s[k])
  <2>0. k - 1 \in 0 .. n
    BY <1>1
  <2>1. g[k - 1] \in Seq(S) /\ s[k] \in Seq(S) /\ g[k] = g[k - 1] \o s[k]
    BY <1>1, <2>0
  <2>2. Has(input, p, g[k - 1] \o s[k])
    BY <1>2, <2>1
  <2> QED BY <2>1, <2>2, HasJoin, Zenon
<1>3. T \in SUBSET Nat /\ 0 \in T
  <2>1. n - 0 = n
    BY <1>1
  <2> QED BY <2>1 DEF n
<1>4. ASSUME NEW j \in T PROVE j + 1 \in T
  <2>0. j \in Nat /\ (j <= n => Has(input, p, g[n - j]))
    OBVIOUS
  <2> SUFFICES ASSUME j + 1 <= n PROVE Has(input, p, g[n - (j + 1)])
    BY <2>0
  <2>1. n - j \in 1 .. n /\ n - (j + 1) = (n - j) - 1 /\ j <= n
    BY <1>1, <2>0
  <2>2. Has(input, p, g[(n - j) - 1])
    BY <1>2, <2>0, <2>1
  <2> QED BY <2>1, <2>2
<1> HIDE DEF T
<1>5. T = Nat
  BY <1>3, <1>4, Induction
<1>6. ASSUME NEW k \in 1 .. n PROVE Has(input, p, g[k])
  <2>1. n - k \in Nat /\ n - k <= n /\ n - (n - k) = k
    BY <1>1
  <2>2. n - k \in T
    BY <1>5, <2>1
  <2> QED BY <2>1, <2>2 DEF T
<1>7. ASSUME NEW k \in 1 .. n
      PROVE  Len(g[k]) = Len(g[k - 1]) + Len(s[k]) /\ Len(g[k - 1]) \in Nat /\ Len(g[k]) \in Nat
  <2>0. k - 1 \in 0 .. n /\ k \in 0 .. n
    BY <1>1
  <2>1. g[k - 1] \in Seq(S) /\ s[k] \in Seq(S) /\ g[k] = g[k - 1] \o s[k]
    BY <1>1, <2>0
  <2>2. Len(g[k - 1] \o s[k]) = Len(g[k - 1]) + Len(s[k])
    <3>1. PICK a \in Seq(S), b \in Seq(S) : a = g[k - 1] /\ b = s[k]
      BY <2>1
    <3>2. Len(a \o b) = Len(a) + Len(b)
      BY Joined, Zenon
    <3> QED BY <3>1, <3>2
  <2>3. Len(g[k]) \in Nat /\ Len(g[k - 1]) \in Nat
    BY <1>1, <2>0
  <2> QED BY <2>1, <2>2, <2>3, Zenon
<1> QED BY <1>1, <1>2, <1>6, <1>7 DEF n

-----------------------------------------------------------------------------
(* Reading characters. *)

Texts == Seq(Characters)
States(input) == [pos : 1 .. Len(input) + 1, insideQuotes : BOOLEAN, field : Texts,
                  fields : Seq(Texts), bad : BOOLEAN]
At(p, inside, f, F) ==
  [pos |-> p, insideQuotes |-> inside, field |-> f, fields |-> F, bad |-> FALSE]
NextChar(input) == [r \in States(input) |-> IF More(input, r) THEN ReadChar(input, r) ELSE r]
Positions(input) == [r \in States(input) |-> r.pos]

LEMMA AtIs ==
  /\ \A input : \A p \in 1 .. Len(input) + 1, inside \in BOOLEAN, f \in Texts, F \in Seq(Texts) :
       At(p, inside, f, F) \in States(input)
  /\ \A input : \A r \in States(input) :
       ~r.bad => r = At(r.pos, r.insideQuotes, r.field, r.fields)
  /\ \A p, inside, f, F : LET r == At(p, inside, f, F)
                          IN  /\ r.pos = p /\ r.insideQuotes = inside /\ r.field = f
                              /\ r.fields = F /\ r.bad = FALSE
<1>1. ASSUME NEW input, NEW r \in States(input), ~r.bad
      PROVE  r = At(r.pos, r.insideQuotes, r.field, r.fields)
  BY <1>1 DEF States, At
<1> QED BY <1>1 DEF States, At

(* What a round does, by the character that is read and those after it.      *)
Reads(input, p, inside, f, F, new) ==
  LET r == At(p, inside, f, F)
      c == input[p]
      next == Peek(input, p + 1)
  IN  /\ ~inside /\ c = Quote => new = At(p + 1, TRUE, f, F)
      /\ ~inside /\ c \in {NL, CR} => new = r
      /\ ~inside /\ c \notin {Quote, NL, CR} => new = [r EXCEPT !.bad = TRUE]
      /\ inside /\ c # Quote => new = At(p + 1, TRUE, Append(f, c), F)
      /\ inside /\ c = Quote /\ next = Quote => new = At(p + 2, TRUE, Append(f, Quote), F)
      /\ inside /\ c = Quote /\ next = Comma /\ Peek(input, p + 2) = Quote
         => new = At(p + 2, FALSE, <<>>, Append(F, f))
      /\ inside /\ c = Quote /\ next \in {NL, CR, Eof} => new = At(p + 1, FALSE, <<>>, Append(F, f))
      /\ /\ inside /\ c = Quote /\ next \notin {Quote, NL, CR, Eof}
         /\ ~(next = Comma /\ Peek(input, p + 2) = Quote)
         => new = [r EXCEPT !.bad = TRUE]

LEMMA ReadCharIs ==
  ASSUME NEW input \in Texts, Eof \notin Characters,
         NEW p \in 1 .. Len(input), NEW inside \in BOOLEAN, NEW f \in Texts,
         NEW F \in Seq(Texts)
  PROVE  Reads(input, p, inside, f, F, NextChar(input)[At(p, inside, f, F)])
<1> DEFINE r == At(p, inside, f, F)
           new == NextChar(input)[r]
           c == input[p]
           next == Peek(input, p + 1)
<1>1. r \in States(input) /\ r.pos = p /\ r.insideQuotes = inside /\ r.field = f
      /\ r.fields = F /\ r.bad = FALSE
      /\ r = [pos |-> p, insideQuotes |-> inside, field |-> f, fields |-> F, bad |-> FALSE]
  BY AtIs DEF At
<1>2. c \in Characters /\ c # Eof /\ Peek(input, p) = c
  BY DEF Peek, Texts
<1>3. More(input, r) <=> inside \/ c \notin {NL, CR}
  BY <1>1, <1>2 DEF More
<1>4. new = IF More(input, r) THEN ReadChar(input, r) ELSE r
  BY <1>1 DEF NextChar
<1>5. Quote # Comma /\ Quote # NL /\ Quote # CR /\ Comma # NL /\ Comma # CR /\ NL # CR
      /\ Quote # Eof /\ Comma # Eof
  BY DEF Quote, Comma, NL, CR, Eof
<1> HIDE DEF Reads, r, c, next
<1>6. CASE ~inside
  <2>1. CASE c = Quote
    <3>1. new = [r EXCEPT !.insideQuotes = TRUE, !.pos = @ + 1]
      BY <1>1, <1>2, <1>3, <1>4, <1>5, <1>6, <2>1 DEF ReadChar
    <3>2. new = At(p + 1, TRUE, f, F)
      BY <1>1, <3>1 DEF At
    <3> QED BY <1>5, <1>6, <2>1, <3>2 DEF Reads, r, c, next
  <2>2. CASE c \in {NL, CR}
    BY <1>3, <1>4, <1>5, <1>6, <2>2 DEF Reads, r, c, next
  <2>3. CASE c \notin {Quote, NL, CR}
    <3>1. new = [r EXCEPT !.bad = TRUE]
      BY <1>1, <1>2, <1>3, <1>4, <1>5, <1>6, <2>3 DEF ReadChar
    <3> QED BY <1>6, <2>3, <3>1 DEF Reads, r, c, next
  <2> QED BY <2>1, <2>2, <2>3
<1>7. CASE inside
  <2>1. CASE c # Quote
    <3>1. new = [r EXCEPT !.field = Append(@, c), !.pos = @ + 1]
      BY <1>1, <1>2, <1>3, <1>4, <1>5, <1>7, <2>1 DEF ReadChar
    <3>2. new = At(p + 1, TRUE, Append(f, c), F)
      BY <1>1, <1>7, <3>1 DEF At
    <3> QED BY <1>7, <2>1, <3>2 DEF Reads, r, c, next
  <2>2. CASE c = Quote
    <3>1. CASE next = Quote
      <4>1. new = [r EXCEPT !.field = Append(@, Quote), !.pos = @ + 2]
        BY <1>1, <1>2, <1>3, <1>4, <1>5, <1>7, <2>2, <3>1 DEF ReadChar, next
      <4>2. new = At(p + 2, TRUE, Append(f, Quote), F)
        BY <1>1, <1>7, <4>1 DEF At
      <4> QED BY <1>5, <1>7, <2>2, <3>1, <4>2 DEF Reads, r, c, next
    <3>2. CASE next = Comma /\ Peek(input, p + 2) = Quote
      <4>1. new = [r EXCEPT !.fields = Append(@, r.field), !.field = <<>>,
                            !.insideQuotes = FALSE, !.pos = @ + 2]
        BY <1>1, <1>2, <1>3, <1>4, <1>5, <1>7, <2>2, <3>2 DEF ReadChar, next
      <4>2. new = At(p + 2, FALSE, <<>>, Append(F, f))
        BY <1>1, <4>1 DEF At
      <4> QED BY <1>5, <1>7, <2>2, <3>2, <4>2 DEF Reads, r, c, next
    <3>3. CASE next \in {NL, CR, Eof}
      <4>1. new = [r EXCEPT !.fields = Append(@, r.field), !.field = <<>>,
                            !.insideQuotes = FALSE, !.pos = @ + 1]
        BY <1>1, <1>2, <1>3, <1>4, <1>5, <1>7, <2>2, <3>3 DEF ReadChar, next
      <4>2. new = At(p + 1, FALSE, <<>>, Append(F, f))
        BY <1>1, <4>1 DEF At
      <4> QED BY <1>5, <1>7, <2>2, <3>3, <4>2 DEF Reads, r, c, next
    <3>4. CASE /\ next \notin {Quote, NL, CR, Eof}
               /\ ~(next = Comma /\ Peek(input, p + 2) = Quote)
      <4>1. new = [r EXCEPT !.bad = TRUE]
        BY <1>1, <1>2, <1>3, <1>4, <1>5, <1>7, <2>2, <3>4 DEF ReadChar, next
      <4> QED BY <1>7, <2>2, <3>4, <4>1 DEF Reads, r, c, next
    <3> QED BY <3>1, <3>2, <3>3, <3>4
  <2> QED BY <2>1, <2>2
<1> QED BY <1>6, <1>7 DEF r

(* The rounds that have an effect.                                           *)
Steps(input, r, new) ==
  LET p == r.pos
      f == r.field
      F == r.fields
  IN  \/ new.bad
      \/ ~r.insideQuotes /\ input[p] = Quote /\ new = At(p + 1, TRUE, f, F)
      \/ r.insideQuotes /\ input[p] # Quote /\ new = At(p + 1, TRUE, Append(f, input[p]), F)
      \/ /\ r.insideQuotes /\ input[p] = Quote /\ Peek(input, p + 1) = Quote
         /\ p + 1 \in 1 .. Len(input) /\ new = At(p + 2, TRUE, Append(f, Quote), F)
      \/ /\ r.insideQuotes /\ input[p] = Quote /\ Peek(input, p + 1) = Comma
         /\ Peek(input, p + 2) = Quote /\ p + 2 \in 1 .. Len(input)
         /\ new = At(p + 2, FALSE, <<>>, Append(F, f))
      \/ /\ r.insideQuotes /\ input[p] = Quote /\ Peek(input, p + 1) \in {NL, CR, Eof}
         /\ new = At(p + 1, FALSE, <<>>, Append(F, f))

LEMMA CharSteps ==
  ASSUME NEW input \in Texts, Eof \notin Characters, NEW r \in States(input),
         NextChar(input)[r] # r
  PROVE  /\ ~r.bad /\ r.pos \in 1 .. Len(input) /\ NextChar(input)[r] \in States(input)
         /\ r = At(r.pos, r.insideQuotes, r.field, r.fields)
         /\ Steps(input, r, NextChar(input)[r])
<1> DEFINE new == NextChar(input)[r]
           p == r.pos
           f == r.field
           F == r.fields
           c == input[p]
<1>1. /\ p \in 1 .. Len(input) + 1 /\ f \in Texts /\ F \in Seq(Texts)
      /\ r.insideQuotes \in BOOLEAN /\ r.bad \in BOOLEAN /\ Len(input) \in Nat
  BY DEF States, Texts
<1>2. More(input, r)
  BY DEF NextChar
<1>3. ~r.bad /\ p \in 1 .. Len(input)
  BY <1>1, <1>2 DEF More, Peek
<1>4. r = At(p, r.insideQuotes, f, F)
  BY <1>3, AtIs
<1>5. c \in Characters
  BY <1>3 DEF Texts
<1>6. \A q \in Nat : Peek(input, q) # Eof => q <= Len(input)
  BY DEF Peek
<1>7. Quote # Eof
  BY DEF Quote, Eof
<1>8. Append(f, c) \in Texts /\ (c = Quote => Append(f, Quote) \in Texts)
      /\ Append(F, f) \in Seq(Texts) /\ <<>> \in Texts
  BY <1>1, <1>5 DEF Texts
<1>9. \A inside \in BOOLEAN, g \in Texts, G \in Seq(Texts), q \in 1 .. Len(input) + 1 :
        At(q, inside, g, G) \in States(input)
  BY AtIs
<1>10. [r EXCEPT !.bad = TRUE] \in States(input) /\ [r EXCEPT !.bad = TRUE].bad
  BY DEF States
<1>11. p + 1 \in 1 .. Len(input) + 1 /\ p + 1 \in Nat /\ p + 2 \in Nat
  BY <1>1, <1>3
<1> DEFINE inside == r.insideQuotes
           next == Peek(input, p + 1)
<1>12. inside \in BOOLEAN /\ new = NextChar(input)[At(p, inside, f, F)]
  BY <1>1, <1>4
<1> HIDE DEF new, c, f, F, p, inside, next
<1>13. /\ ~inside /\ c = Quote => new = At(p + 1, TRUE, f, F)
       /\ ~inside /\ c \notin {Quote, NL, CR} => new = [r EXCEPT !.bad = TRUE]
       /\ inside /\ c # Quote => new = At(p + 1, TRUE, Append(f, c), F)
       /\ inside /\ c = Quote /\ next = Quote => new = At(p + 2, TRUE, Append(f, Quote), F)
       /\ inside /\ c = Quote /\ next = Comma /\ Peek(input, p + 2) = Quote
          => new = At(p + 2, FALSE, <<>>, Append(F, f))
       /\ inside /\ c = Quote /\ next \in {NL, CR, Eof}
          => new = At(p + 1, FALSE, <<>>, Append(F, f))
       /\ inside /\ c = Quote /\ next \notin {Quote, NL, CR, Eof}
            /\ ~(next = Comma /\ Peek(input, p + 2) = Quote)
          => new = [r EXCEPT !.bad = TRUE]
  <2>1. r = At(p, inside, f, F)
    BY <1>4 DEF inside
  <2>2. p \in 1 .. Len(input) /\ f \in Texts /\ F \in Seq(Texts)
    BY <1>1, <1>3
  <2>3. Reads(input, p, inside, f, F, new)
    BY <1>12, <2>2, ReadCharIs
  <2> QED BY <2>1, <2>3 DEF Reads, c, next
<1>14. inside \/ c \notin {NL, CR}
  BY <1>2, <1>3 DEF More, Peek, c, p, inside
<1>15. /\ next = Quote => p + 1 \in 1 .. Len(input) /\ p + 2 \in 1 .. Len(input) + 1
       /\ Peek(input, p + 2) = Quote => p + 2 \in 1 .. Len(input)
  BY <1>1, <1>6, <1>7, <1>11 DEF next
<1>16. /\ new \in States(input)
       /\ \/ new.bad
          \/ ~inside /\ c = Quote /\ new = At(p + 1, TRUE, f, F)
          \/ inside /\ c # Quote /\ new = At(p + 1, TRUE, Append(f, c), F)
          \/ /\ inside /\ c = Quote /\ next = Quote
             /\ p + 1 \in 1 .. Len(input) /\ new = At(p + 2, TRUE, Append(f, Quote), F)
          \/ /\ inside /\ c = Quote /\ next = Comma
             /\ Peek(input, p + 2) = Quote /\ p + 2 \in 1 .. Len(input)
             /\ new = At(p + 2, FALSE, <<>>, Append(F, f))
          \/ /\ inside /\ c = Quote /\ next \in {NL, CR, Eof}
             /\ new = At(p + 1, FALSE, <<>>, Append(F, f))
  <2>1. p + 2 \in 1 .. Len(input) => p + 2 \in 1 .. Len(input) + 1
    BY <1>1
  <2> USE <1>8, <1>9, <1>10, <1>11, <1>13
  <2>2. CASE ~inside /\ c = Quote
    BY <1>1, <2>2
  <2>3. CASE ~inside /\ c # Quote
    BY <1>14, <2>3
  <2>4. CASE inside /\ c # Quote
    BY <1>1, <2>4
  <2>5. CASE inside /\ c = Quote /\ next = Quote
    <3>1. new = At(p + 2, TRUE, Append(f, Quote), F) /\ p + 1 \in 1 .. Len(input)
          /\ p + 2 \in 1 .. Len(input) + 1 /\ Append(f, Quote) \in Texts /\ F \in Seq(Texts)
      BY <1>1, <1>15, <2>5
    <3>2. new \in States(input)
      BY <3>1
    <3> QED BY <2>5, <3>1, <3>2
  <2>6. CASE inside /\ c = Quote /\ next = Comma /\ Peek(input, p + 2) = Quote
    <3>1. new = At(p + 2, FALSE, <<>>, Append(F, f)) /\ p + 2 \in 1 .. Len(input)
          /\ p + 2 \in 1 .. Len(input) + 1
      BY <1>15, <2>1, <2>6
    <3>2. new \in States(input)
      BY <3>1
    <3> QED BY <2>6, <3>1, <3>2
  <2>7. CASE inside /\ c = Quote /\ next \in {NL, CR, Eof}
    BY <2>7
  <2>8. CASE inside /\ c = Quote /\ next \notin {Quote, NL, CR, Eof}
             /\ ~(next = Comma /\ Peek(input, p + 2) = Quote)
    BY <2>8
  <2> QED BY <1>12, <2>2, <2>3, <2>4, <2>5, <2>6, <2>7, <2>8
<1>17. Steps(input, r, new)
  BY <1>16 DEF Steps, c, f, F, p, inside, next
<1> QED BY <1>3, <1>4, <1>16, <1>17 DEF new, f, F, p

(* The loop over the characters ends.                                        *)
LEMMA CharsEnd ==
  ASSUME NEW input \in Texts, Eof \notin Characters
  PROVE  /\ NextChar(input) \in [States(input) -> States(input)]
         /\ Progress(NextChar(input), Positions(input), Len(input))
<1> DEFINE next == NextChar(input)
           size == Positions(input)
<1>1. DOMAIN next = States(input) /\ next = [r \in States(input) |-> next[r]]
      /\ \A r \in States(input) : size[r] = r.pos
  BY DEF NextChar, Positions
<1>2. ASSUME NEW r \in States(input) PROVE next[r] \in States(input)
  BY CharSteps
<1>3. ASSUME NEW r \in States(input), next[r] # r
      PROVE  r.pos \in 1 .. Len(input) /\ (next[next[r]] # next[r] => next[r].pos > r.pos)
  <2>1. r.pos \in 1 .. Len(input)
    BY <1>3, CharSteps
  <2>2. ASSUME next[next[r]] # next[r] PROVE ~next[r].bad
    BY <1>2, <2>2, CharSteps
  <2>3. next[r].bad \/ next[r].pos = r.pos + 1 \/ next[r].pos = r.pos + 2
    <3>2. Steps(input, r, next[r])
      BY <1>3, CharSteps
    <3> HIDE DEF next
    <3> QED BY <3>2 DEF Steps, At
  <2> QED BY <2>1, <2>2, <2>3
<1>4. Len(input) \in Nat
  BY DEF Texts
<1> HIDE DEF next, size
<1>5. next \in [States(input) -> States(input)]
  BY <1>1, <1>2
<1>6. Progress(next, size, Len(input))
  BY <1>1, <1>2, <1>3, <1>4 DEF Progress
<1> QED BY <1>5, <1>6 DEF next, size

(* The record that is read, from the state at which the loop ends.           *)
Finished(input, r) ==
  LET afterCR == IF Peek(input, r.pos) = CR THEN r.pos + 1 ELSE r.pos
      afterNL == IF Peek(input, afterCR) = NL THEN afterCR + 1 ELSE afterCR
  IN  [r EXCEPT !.pos = afterNL, !.bad = r.bad \/ r.insideQuotes]
Start(p) == At(p, FALSE, <<>>, <<>>)

LEMMA ReadIs ==
  ASSUME NEW input \in Texts, Eof \notin Characters, NEW p \in 1 .. Len(input) + 1,
         NEW z, Reach(NextChar(input), Start(p), z), NextChar(input)[z] = z
  PROVE  readCsvRecord(input, p) = Finished(input, z)
<1> DEFINE N == Len(input)
           next == NextChar(input)
           v == Start(p)
           Follows(g) == g = [n \in 0 .. N |->
                              IF n = 0 THEN v
                              ELSE LET r == g[n - 1] IN IF More(input, r) THEN ReadChar(input, r) ELSE r]
           after == CHOOSE g : Follows(g)
<1>1. readCsvRecord(input, p) = Finished(input, after[N])
  BY DEF readCsvRecord, Finished, Start, At
<1>2. N \in Nat /\ next \in [States(input) -> States(input)] /\ Progress(next, Positions(input), N)
  BY CharsEnd DEF Texts
<1>3. \A r \in States(input) : next[r] = IF More(input, r) THEN ReadChar(input, r) ELSE r
  BY DEF NextChar
<1>4. PICK g : g \in [0 .. N -> States(input)] /\ g[0] = v
               /\ \A i \in 1 .. N : g[i] = next[g[i - 1]]
  BY <1>2, ReachLimit
<1> HIDE DEF next, v, N
<1>5. Follows(g)
  <2>1. ASSUME NEW n \in 0 .. N
        PROVE  g[n] = IF n = 0 THEN v
                      ELSE LET r == g[n - 1] IN IF More(input, r) THEN ReadChar(input, r) ELSE r
    <3>1. CASE n = 0
      BY <1>4, <3>1
    <3>2. CASE n # 0
      <4>1. n \in 1 .. N /\ n - 1 \in 0 .. N
        BY <1>2, <3>2
      <4> QED BY <1>3, <1>4, <3>2, <4>1
    <3> QED BY <3>1, <3>2
  <2>2. g = [n \in 0 .. N |-> g[n]]
    BY <1>4
  <2> QED BY <2>1, <2>2
<1>6. Follows(after)
  <2> HIDE DEF Follows
  <2> QED BY <1>5
<1> HIDE DEF after
<1>7. after[0] = v
  BY <1>2, <1>6
<1>8. ASSUME NEW i \in 1 .. N, after[i - 1] \in States(input) PROVE after[i] = next[after[i - 1]]
  <2>1. i \in 0 .. N /\ i # 0
    BY <1>2
  <2> QED BY <1>3, <1>6, <1>8, <2>1
<1>9. after[N] = z
  <2>1. \A h : h[0] = v /\ (\A i \in 1 .. N : h[i - 1] \in States(input) => h[i] = next[h[i - 1]]) => h[N] = z
    BY <1>2, ReachLimit DEF next, v
  <2> QED BY <1>7, <1>8, <2>1
<1> QED BY <1>1, <1>9

(* One round, and rounds after others.                                       *)
LEMMA Steps1 ==
  ASSUME NEW input \in Texts, Eof \notin Characters, NEW v, NEW r \in States(input),
         Reach(NextChar(input), v, r), NextChar(input)[r] # r
  PROVE  Reach(NextChar(input), v, NextChar(input)[r])
BY CharsEnd, ReachNext

(* Characters are read in their order, each once.                            *)
LEMMA PosGrows ==
  ASSUME NEW input \in Texts, Eof \notin Characters, NEW r \in States(input), NEW z,
         Reach(NextChar(input), r, z)
  PROVE  z \in States(input) /\ z.pos >= r.pos /\ (z = r \/ z.bad \/ z.pos > r.pos)
<1> DEFINE next == NextChar(input)
           S == {s \in States(input) : s.pos >= r.pos /\ (s = r \/ s.bad \/ s.pos > r.pos)}
<1>1. next \in [States(input) -> States(input)]
  BY CharsEnd
<1>2. \A s \in States(input) : s.pos \in Nat
  BY DEF States, Texts
<1>3. ASSUME NEW s \in S, next[s] # s PROVE next[s] \in S
  <2>1. s \in States(input) /\ s.pos >= r.pos /\ next[s] \in States(input)
    BY <1>1
  <2>2. /\ s.pos \in 1 .. Len(input) /\ ~s.bad /\ Steps(input, s, next[s])
        /\ s = At(s.pos, s.insideQuotes, s.field, s.fields)
    BY <1>3, <2>1, CharSteps
  <2>3. CASE next[s].bad
    <3>1. next[s].pos >= r.pos
      <4>1. next[s].bad => next[s].pos = s.pos
        <5>1. s.insideQuotes \in BOOLEAN /\ s.field \in Texts /\ s.fields \in Seq(Texts)
          BY <2>1 DEF States
        <5>2. Reads(input, s.pos, s.insideQuotes, s.field, s.fields, next[s])
          BY <2>2, <5>1, ReadCharIs
        <5> HIDE DEF next
        <5> QED BY <1>3, <5>1, <5>2 DEF Reads, At
      <4> QED BY <2>1, <2>3, <4>1
    <3> QED BY <2>1, <2>3, <3>1
  <2>4. CASE ~next[s].bad
    <3>1. next[s].pos = s.pos + 1 \/ next[s].pos = s.pos + 2
      <4> HIDE DEF next
      <4> QED BY <2>2, <2>4 DEF Steps, At
    <3> QED BY <1>2, <2>1, <3>1
  <2> QED BY <2>3, <2>4
<1>4. r \in S
  BY <1>2
<1>5. z \in S
  <2> HIDE DEF S, next
  <2> QED BY <1>1, <1>3, <1>4, ReachInduct DEF next
<1> QED BY <1>5

(* Fields that are complete stay, and the one that is read is only extended. *)
Extends(a, b) == Len(a) <= Len(b) /\ \A i \in 1 .. Len(a) : b[i] = a[i]
Grown(f, F, r) ==
  \/ r.bad
  \/ r.insideQuotes /\ r.fields = F /\ Extends(f, r.field)
  \/ /\ Len(r.fields) > Len(F) /\ \A i \in 1 .. Len(F) : r.fields[i] = F[i]
     /\ Extends(f, r.fields[Len(F) + 1])

LEMMA ExtendsAppend ==
  ASSUME NEW S, NEW a \in Seq(S), NEW b \in Seq(S), NEW c, Extends(a, b)
  PROVE  Extends(a, Append(b, c))
BY DEF Extends

LEMMA Grows ==
  ASSUME NEW input \in Texts, Eof \notin Characters, NEW r \in States(input), r.insideQuotes,
         NEW z, Reach(NextChar(input), r, z)
  PROVE  Grown(r.field, r.fields, z)
<1> DEFINE next == NextChar(input)
           f == r.field
           F == r.fields
           S == {s \in States(input) : Grown(f, F, s)}
<1>1. next \in [States(input) -> States(input)] /\ f \in Texts /\ F \in Seq(Texts)
  BY CharsEnd DEF States
<1>2. r \in S
  BY <1>1 DEF Grown, Extends, Texts
<1> HIDE DEF f, F
<1>3. ASSUME NEW s \in S, next[s] # s PROVE next[s] \in S
  <2> DEFINE new == next[s]
  <2>1. s \in States(input) /\ new \in States(input) /\ Grown(f, F, s)
    BY <1>1
  <2>2. s.pos \in 1 .. Len(input) /\ ~s.bad /\ Steps(input, s, new)
    BY <1>3, <2>1, CharSteps
  <2>3. /\ s.field \in Texts /\ s.fields \in Seq(Texts) /\ s.insideQuotes \in BOOLEAN
        /\ Len(s.fields) \in Nat /\ Len(F) \in Nat
    BY <1>1, <2>1 DEF States
  <2> SUFFICES Grown(f, F, new)
    BY <2>1
  <2> HIDE DEF new
  <2>4. \/ new.bad
        \/ ~s.insideQuotes /\ new.fields = s.fields
        \/ /\ s.insideQuotes /\ new.insideQuotes /\ new.fields = s.fields
           /\ new.field \in {Append(s.field, input[s.pos]), Append(s.field, Quote)}
        \/ s.insideQuotes /\ new.fields = Append(s.fields, s.field)
    BY <2>2 DEF Steps, At
  <2>5. CASE s.insideQuotes /\ s.fields = F /\ Extends(f, s.field)
    <3>1. CASE /\ new.insideQuotes /\ new.fields = s.fields
               /\ new.field \in {Append(s.field, input[s.pos]), Append(s.field, Quote)}
      <4>1. Extends(f, new.field)
        <5>1. f \in Seq(Characters) /\ s.field \in Seq(Characters)
          BY <1>1, <2>3 DEF Texts
        <5>2. \A c : Extends(f, Append(s.field, c))
          BY <2>5, <5>1, ExtendsAppend
        <5> QED BY <3>1, <5>2
      <4> QED BY <2>1, <2>5, <3>1, <4>1 DEF Grown
    <3>2. CASE new.fields = Append(s.fields, s.field)
      <4>1. /\ Len(new.fields) = Len(F) + 1 /\ new.fields[Len(F) + 1] = s.field
            /\ \A i \in 1 .. Len(F) : new.fields[i] = F[i]
        BY <2>3, <2>5, <3>2
      <4> QED BY <2>1, <2>3, <2>5, <4>1 DEF Grown
    <3> QED BY <2>1, <2>4, <2>5, <3>1, <3>2 DEF Grown
  <2>6. CASE /\ Len(s.fields) > Len(F) /\ \A i \in 1 .. Len(F) : s.fields[i] = F[i]
             /\ Extends(f, s.fields[Len(F) + 1])
    <3>1. CASE new.fields = s.fields
      BY <2>1, <2>6, <3>1 DEF Grown
    <3>2. CASE new.fields = Append(s.fields, s.field)
      <4>1. /\ Len(new.fields) = Len(s.fields) + 1
            /\ \A i \in 1 .. Len(s.fields) : new.fields[i] = s.fields[i]
        BY <2>3, <3>2
      <4>2. Len(F) + 1 \in 1 .. Len(s.fields) /\ \A i \in 1 .. Len(F) : i \in 1 .. Len(s.fields)
        BY <2>3, <2>6
      <4>3. Len(new.fields) > Len(F)
        BY <2>3, <2>6, <4>1
      <4> QED BY <2>1, <2>6, <4>1, <4>2, <4>3 DEF Grown
    <3> QED BY <2>1, <2>4, <3>1, <3>2 DEF Grown
  <2> QED BY <2>1, <2>2, <2>5, <2>6 DEF Grown
<1>4. z \in S
  <2> HIDE DEF S, next
  <2> QED BY <1>1, <1>2, <1>3, ReachInduct DEF next
<1> QED BY <1>4 DEF f, F

-----------------------------------------------------------------------------
(* Reading what was written. *)

(* A text that occurs has its characters where it occurs.                    *)
LEMMA HasAt ==
  ASSUME NEW input, NEW p \in Nat, NEW t, Has(input, p, t), NEW i \in 1 .. Len(t)
  PROVE  p + i - 1 \in 1 .. Len(input) /\ input[p + i - 1] = t[i]
BY DEF Has

(* The rounds that read a field.                                             *)
LEMMA Takes ==
  ASSUME NEW input \in Texts, Eof \notin Characters, NEW v,
         NEW q \in 1 .. Len(input), NEW f \in Texts, NEW F \in Seq(Texts),
         Reach(NextChar(input), v, At(q, TRUE, f, F)), input[q] # Quote
  PROVE  Reach(NextChar(input), v, At(q + 1, TRUE, Append(f, input[q]), F))
<1> DEFINE r == At(q, TRUE, f, F)
           new == NextChar(input)[r]
<1>1. Reads(input, q, TRUE, f, F, new)
  BY ReadCharIs
<1>2. new = At(q + 1, TRUE, Append(f, input[q]), F)
  <2> HIDE DEF new
  <2> QED BY <1>1 DEF Reads
<1>3. r \in States(input) /\ new # r
  <2>1. q \in 1 .. Len(input) + 1 /\ q + 1 # q
    BY DEF Texts
  <2>2. r \in States(input)
    BY <2>1, AtIs
  <2>3. new.pos = q + 1 /\ r.pos = q
    <3> HIDE DEF new
    <3> QED BY <1>2 DEF At
  <2> QED BY <2>1, <2>2, <2>3
<1> QED BY <1>2, <1>3, Steps1

LEMMA Doubles ==
  ASSUME NEW input \in Texts, Eof \notin Characters, NEW v,
         NEW q \in 1 .. Len(input), NEW f \in Texts, NEW F \in Seq(Texts),
         Reach(NextChar(input), v, At(q, TRUE, f, F)),
         q + 1 \in 1 .. Len(input), input[q] = Quote, input[q + 1] = Quote
  PROVE  Reach(NextChar(input), v, At(q + 2, TRUE, Append(f, Quote), F))
<1> DEFINE r == At(q, TRUE, f, F)
           new == NextChar(input)[r]
<1>1. Reads(input, q, TRUE, f, F, new) /\ Peek(input, q + 1) = Quote
  <2>1. Reads(input, q, TRUE, f, F, new)
    BY ReadCharIs
  <2>2. Peek(input, q + 1) = Quote
    BY DEF Peek
  <2> QED BY <2>1, <2>2
<1>2. new = At(q + 2, TRUE, Append(f, Quote), F)
  <2> HIDE DEF new
  <2> QED BY <1>1 DEF Reads
<1>3. r \in States(input) /\ new # r
  <2>1. q \in 1 .. Len(input) + 1 /\ q + 2 # q
    BY DEF Texts
  <2>2. r \in States(input)
    BY <2>1, AtIs
  <2>3. new.pos = q + 2 /\ r.pos = q
    <3> HIDE DEF new
    <3> QED BY <1>2 DEF At
  <2> QED BY <2>1, <2>2, <2>3
<1> QED BY <1>2, <1>3, Steps1

LEMMA Opens ==
  ASSUME NEW input \in Texts, Eof \notin Characters, NEW v,
         NEW q \in 1 .. Len(input), NEW f \in Texts, NEW F \in Seq(Texts),
         Reach(NextChar(input), v, At(q, FALSE, f, F)), input[q] = Quote
  PROVE  Reach(NextChar(input), v, At(q + 1, TRUE, f, F))
<1> DEFINE r == At(q, FALSE, f, F)
           new == NextChar(input)[r]
<1>1. Reads(input, q, FALSE, f, F, new)
  BY ReadCharIs
<1>2. new = At(q + 1, TRUE, f, F)
  <2> HIDE DEF new
  <2> QED BY <1>1 DEF Reads
<1>3. r \in States(input) /\ new # r
  <2>1. q \in 1 .. Len(input) + 1 /\ q + 1 # q
    BY DEF Texts
  <2>2. r \in States(input)
    BY <2>1, AtIs
  <2>3. new.pos = q + 1 /\ r.pos = q
    <3> HIDE DEF new
    <3> QED BY <1>2 DEF At
  <2> QED BY <2>1, <2>2, <2>3
<1> QED BY <1>2, <1>3, Steps1

LEMMA Closes ==
  ASSUME NEW input \in Texts, Eof \notin Characters, NEW v,
         NEW q \in 1 .. Len(input), NEW f \in Texts, NEW F \in Seq(Texts),
         Reach(NextChar(input), v, At(q, TRUE, f, F)),
         q + 1 \in 1 .. Len(input), q + 2 \in 1 .. Len(input),
         input[q] = Quote, input[q + 1] = Comma, input[q + 2] = Quote
  PROVE  Reach(NextChar(input), v, At(q + 2, FALSE, <<>>, Append(F, f)))
<1> DEFINE r == At(q, TRUE, f, F)
           new == NextChar(input)[r]
<1>1. Reads(input, q, TRUE, f, F, new) /\ Peek(input, q + 1) = Comma /\ Peek(input, q + 2) = Quote
  <2>1. Reads(input, q, TRUE, f, F, new)
    BY ReadCharIs
  <2>2. Peek(input, q + 1) = Comma /\ Peek(input, q + 2) = Quote
    BY DEF Peek
  <2> QED BY <2>1, <2>2
<1>2. new = At(q + 2, FALSE, <<>>, Append(F, f))
  <2> HIDE DEF new
  <2> QED BY <1>1 DEF Reads
<1>3. r \in States(input) /\ new # r
  <2>1. q \in 1 .. Len(input) + 1 /\ q + 2 # q
    BY DEF Texts
  <2>2. r \in States(input)
    BY <2>1, AtIs
  <2>3. new.pos = q + 2 /\ r.pos = q
    <3> HIDE DEF new
    <3> QED BY <1>2 DEF At
  <2> QED BY <2>1, <2>2, <2>3
<1> QED BY <1>2, <1>3, Steps1

(* A record has ended where a line or the file does.                         *)
LEMMA Stops ==
  ASSUME NEW input, NEW z \in States(input), ~z.insideQuotes, Peek(input, z.pos) \in {NL, CR, Eof}
  PROVE  NextChar(input)[z] = z
BY DEF NextChar, More

LEMMA Ends ==
  ASSUME NEW input \in Texts, Eof \notin Characters, NEW v,
         NEW q \in 1 .. Len(input), NEW f \in Texts, NEW F \in Seq(Texts),
         Reach(NextChar(input), v, At(q, TRUE, f, F)),
         input[q] = Quote, Peek(input, q + 1) \in {NL, CR, Eof}
  PROVE  /\ Reach(NextChar(input), v, At(q + 1, FALSE, <<>>, Append(F, f)))
         /\ NextChar(input)[At(q + 1, FALSE, <<>>, Append(F, f))] = At(q + 1, FALSE, <<>>, Append(F, f))
<1> DEFINE r == At(q, TRUE, f, F)
           new == NextChar(input)[r]
           z == At(q + 1, FALSE, <<>>, Append(F, f))
<1>1. Reads(input, q, TRUE, f, F, new)
  BY ReadCharIs
<1>2. new = z
  <2> HIDE DEF new
  <2> QED BY <1>1 DEF Reads
<1>3. r \in States(input) /\ new # r /\ z \in States(input)
  <2>1. q \in 1 .. Len(input) + 1 /\ q + 1 # q /\ q + 1 \in 1 .. Len(input) + 1
    BY DEF Texts
  <2>2. r \in States(input)
    BY <2>1, AtIs
  <2>3. new.pos = q + 1 /\ r.pos = q
    <3> HIDE DEF new
    <3> QED BY <1>2 DEF At
  <2>4. z \in States(input)
    <3>1. Append(F, f) \in Seq(Texts) /\ <<>> \in Texts
      BY DEF Texts
    <3> QED BY <2>1, <3>1, AtIs
  <2> QED BY <2>1, <2>2, <2>3, <2>4
<1>4. NextChar(input)[z] = z
  <2>1. z \in States(input) /\ ~z.insideQuotes /\ z.pos = q + 1
    BY <1>3 DEF At
  <2> HIDE DEF z
  <2>2. Peek(input, z.pos) \in {NL, CR, Eof}
    BY <2>1
  <2> QED BY <2>1, <2>2, Stops
<1> QED BY <1>2, <1>3, <1>4, Steps1

(* The characters of a text are appended one after the other.                *)
Part(f, g, k) == f \o SubSeq(g, 1, k)

LEMMA AppendedInPart ==
  ASSUME NEW S, NEW f \in Seq(S), NEW g \in Seq(S)
  PROVE  /\ Part(f, g, 0) = f /\ Part(f, g, Len(g)) = f \o g
         /\ \A k \in 0 .. Len(g) : Part(f, g, k) \in Seq(S)
         /\ \A k \in 0 .. Len(g) :
              k + 1 \in 1 .. Len(g) => Part(f, g, k + 1) = Append(Part(f, g, k), g[k + 1])
<1>1. SubSeq(g, 1, 0) = <<>> /\ f \o <<>> = f
  OBVIOUS
<1>2. SubSeq(g, 1, Len(g)) = g
  OBVIOUS
<1>3. ASSUME NEW k \in 0 .. Len(g) PROVE f \o SubSeq(g, 1, k) \in Seq(S)
  OBVIOUS
<1>4. ASSUME NEW k \in 0 .. Len(g), k + 1 \in 1 .. Len(g)
      PROVE  f \o SubSeq(g, 1, k + 1) = Append(f \o SubSeq(g, 1, k), g[k + 1])
  BY <1>4
<1> QED BY <1>1, <1>2, <1>3, <1>4 DEF Part

(* What a character is written as.                                           *)
Written(c) == IF c = Quote THEN <<Quote, Quote>> ELSE <<c>>

(* Its round.                                                                *)
LEMMA CharReads ==
  ASSUME NEW input \in Texts, Eof \notin Characters, Quote \in Characters, NEW v,
         NEW q \in 1 .. Len(input) + 1, NEW c \in Characters, NEW f \in Texts, NEW F \in Seq(Texts),
         Reach(NextChar(input), v, At(q, TRUE, f, F)), Has(input, q, Written(c))
  PROVE  /\ q + Len(Written(c)) \in 1 .. Len(input) + 1
         /\ Reach(NextChar(input), v, At(q + Len(Written(c)), TRUE, Append(f, c), F))
<1>0. Len(input) \in Nat /\ q \in Nat
  BY DEF Texts
<1>1. CASE c = Quote
  <2>1. Len(Written(c)) = 2 /\ Written(c)[1] = Quote /\ Written(c)[2] = Quote
    BY <1>1 DEF Written
  <2>2. q + 1 - 1 = q /\ q + 2 - 1 = q + 1 /\ 1 \in 1 .. 2 /\ 2 \in 1 .. 2
    BY <1>0
  <2>3. \A i \in 1 .. 2 : q + i - 1 \in 1 .. Len(input) /\ input[q + i - 1] = Written(c)[i]
    BY <2>1 DEF Has
  <2>4. q \in 1 .. Len(input) /\ q + 1 \in 1 .. Len(input) /\ input[q] = Quote /\ input[q + 1] = Quote
    BY <2>1, <2>2, <2>3
  <2>5. q + 2 \in 1 .. Len(input) + 1
    BY <1>0, <2>4
  <2> QED BY <1>1, <2>1, <2>4, <2>5, Doubles
<1>2. CASE c # Quote
  <2>1. Len(Written(c)) = 1 /\ Written(c)[1] = c
    BY <1>2 DEF Written
  <2>2. q + 1 - 1 = q /\ 1 \in 1 .. 1
    BY <1>0
  <2>3. \A i \in 1 .. 1 : q + i - 1 \in 1 .. Len(input) /\ input[q + i - 1] = Written(c)[i]
    BY <2>1 DEF Has
  <2>4. q \in 1 .. Len(input) /\ input[q] = c
    BY <2>1, <2>2, <2>3
  <2>5. q + 1 \in 1 .. Len(input) + 1
    BY <1>0, <2>4
  <2> QED BY <1>2, <2>1, <2>4, <2>5, Takes
<1> QED BY <1>1, <1>2

(* Between its quotes, what a field is written as reads as the field.        *)
LEMMA ContentReads ==
  ASSUME NEW input \in Texts, Eof \notin Characters, Quote \in Characters,
         NEW p \in 1 .. Len(input) + 1, NEW f \in Texts, NEW g \in Texts, NEW F \in Seq(Texts),
         NEW v, Reach(NextChar(input), v, At(p, TRUE, f, F)),
         Has(input, p, Escaped(g))
  PROVE  /\ p + Len(Escaped(g)) \in 1 .. Len(input) + 1 /\ f \o g \in Texts
         /\ Reach(NextChar(input), v, At(p + Len(Escaped(g)), TRUE, f \o g, F))
<1> DEFINE n == Len(g)
           s == [i \in DOMAIN g |-> IF g[i] = Quote THEN <<Quote, Quote>> ELSE <<g[i]>>]
           Before(k) == Part(f, g, k)
<1>1. n \in Nat /\ g \in Seq(Characters) /\ f \in Seq(Characters) /\ DOMAIN g = 1 .. n
      /\ Len(input) \in Nat /\ p \in Nat /\ \A i \in 1 .. n : g[i] \in Characters
  BY DEF Texts
<1>2. s \in Seq(Seq(Characters)) /\ Len(s) = n /\ \A i \in 1 .. n : s[i] = Written(g[i])
  <2>1. s = [i \in 1 .. n |-> Written(g[i])]
    BY <1>1 DEF Written
  <2>2. \A i \in 1 .. n : Written(g[i]) \in Seq(Characters)
    BY <1>1 DEF Written
  <2> HIDE DEF s, n
  <2>3. s \in [1 .. n -> Seq(Characters)]
    BY <2>1, <2>2
  <2>4. s \in Seq(Seq(Characters)) /\ Len(s) = n
    BY <1>1, <2>3, FunctionIsSeq
  <2> QED BY <2>1, <2>4
<1>3. FlattenSeq(s) = Escaped(g)
  BY DEF Escaped
<1> HIDE DEF s, n
<1>4. PICK e \in [0 .. n -> Seq(Characters)] : Flattened(s, e) /\ e[n] = Escaped(g)
  BY <1>2, <1>3, FlatParts
<1>5. /\ e[0] = <<>> /\ Len(e[0]) = 0
      /\ \A k \in 1 .. n : /\ Len(e[k]) = Len(e[k - 1]) + Len(s[k])
                           /\ Len(e[k - 1]) \in Nat /\ Len(e[k]) \in Nat
                           /\ Has(input, p + Len(e[k - 1]), s[k])
  <2>1. Has(input, p, e[Len(s)]) /\ e \in [0 .. Len(s) -> Seq(Characters)]
    BY <1>2, <1>4
  <2>2. /\ e[0] = <<>> /\ Len(e[0]) = 0
        /\ \A k \in 1 .. Len(s) : /\ Len(e[k]) = Len(e[k - 1]) + Len(s[k])
                                  /\ Len(e[k - 1]) \in Nat /\ Len(e[k]) \in Nat
                                  /\ Has(input, p + Len(e[k - 1]), s[k])
    BY <1>1, <1>2, <1>4, <2>1, HasFlat
  <2> QED BY <1>2, <2>2
<1>6. /\ Before(0) = f /\ Before(n) = f \o g
      /\ \A k \in 0 .. n : /\ Before(k) \in Seq(Characters)
                           /\ k + 1 \in 1 .. n => Before(k + 1) = Append(Before(k), g[k + 1])
  <2>1. f \in Seq(Characters) /\ g \in Seq(Characters)
    BY <1>1
  <2> QED BY <2>1, AppendedInPart DEF n
<1> HIDE DEF Before
<1> DEFINE w(k) == At(p + Len(e[k]), TRUE, Before(k), F)
           Reached(k) == p + Len(e[k]) \in 1 .. Len(input) + 1 /\ Reach(NextChar(input), v, w(k))
           T == {k \in Nat : k <= n => Reached(k)}
<1>7. Reached(0)
  <2>1. p + 0 = p
    BY <1>1
  <2> QED BY <1>5, <1>6, <2>1
<1>8. ASSUME NEW k \in Nat, k + 1 \in 1 .. n, Reached(k) PROVE Reached(k + 1)
  <2> DEFINE q == p + Len(e[k])
             c == g[k + 1]
             W == Written(c)
  <2>1. k \in 0 .. n /\ (k + 1) - 1 = k
    BY <1>1, <1>8
  <2>2. Len(e[k]) \in Nat /\ Len(e[k + 1]) = Len(e[k]) + Len(s[k + 1]) /\ Has(input, q, s[k + 1])
    BY <1>5, <1>8, <2>1
  <2>3. c \in Characters /\ s[k + 1] = W
    BY <1>1, <1>2, <1>8
  <2>4. Before(k) \in Texts /\ Before(k + 1) = Append(Before(k), c)
    BY <1>6, <1>8, <2>1 DEF Texts
  <2>5. q \in 1 .. Len(input) + 1 /\ Reach(NextChar(input), v, At(q, TRUE, Before(k), F))
    BY <1>8
  <2>6. Has(input, q, W)
    BY <2>2, <2>3
  <2> HIDE DEF q, c
  <2>7. /\ q + Len(W) \in 1 .. Len(input) + 1
        /\ Reach(NextChar(input), v, At(q + Len(W), TRUE, Append(Before(k), c), F))
    BY <2>3, <2>4, <2>5, <2>6, CharReads
  <2>8. p + Len(e[k + 1]) = q + Len(W)
    <3>1. Len(W) \in Nat
      BY DEF Written
    <3> QED BY <1>1, <2>2, <2>3, <3>1 DEF q
  <2> HIDE DEF W
  <2> QED BY <2>4, <2>7, <2>8
<1> HIDE DEF Reached
<1>9. Reached(n)
  <2>1. T \in SUBSET Nat /\ 0 \in T
    BY <1>7
  <2>2. ASSUME NEW k \in T PROVE k + 1 \in T
    <3>1. k \in Nat /\ (k <= n => Reached(k)) /\ (k + 1 <= n => k <= n /\ k + 1 \in 1 .. n)
      BY <1>1
    <3> QED BY <1>8, <3>1
  <2> HIDE DEF T
  <2>3. n \in T
    BY <1>1, <2>1, <2>2, Induction
  <2> QED BY <1>1, <2>3 DEF T
<1>10. f \o g \in Texts
  BY <1>1 DEF Texts
<1> QED BY <1>4, <1>6, <1>9, <1>10 DEF Reached

(* A field is written as a text.                                             *)
LEMMA EscapedText == ASSUME Quote \in Characters, NEW g \in Texts PROVE Escaped(g) \in Texts
<1> DEFINE s == [i \in DOMAIN g |-> IF g[i] = Quote THEN <<Quote, Quote>> ELSE <<g[i]>>]
           n == Len(g)
<1>1. n \in Nat /\ DOMAIN g = 1 .. n /\ \A i \in 1 .. n : g[i] \in Characters
  BY DEF Texts
<1>2. s \in [1 .. n -> Seq(Characters)]
  BY <1>1
<1>3. FlattenSeq(s) = Escaped(g)
  BY DEF Escaped
<1> HIDE DEF s, n
<1>4. s \in Seq(Seq(Characters)) /\ Len(s) = n
  BY <1>1, <1>2, FunctionIsSeq
<1>5. PICK e \in [0 .. Len(s) -> Seq(Characters)] : e[Len(s)] = FlattenSeq(s)
  BY <1>4, FlatParts
<1> QED BY <1>1, <1>3, <1>4, <1>5 DEF Texts

FieldText(i, g) ==
  (IF i = 1 THEN <<>> ELSE <<Comma>>) \o <<Quote>> \o Escaped(g) \o <<Quote>>

(* A field with the quotes around it, and the comma before it.               *)
FieldAt(input, q, i, g, o) ==
  LET n == Len(Escaped(g))
  IN  /\ Len(FieldText(i, g)) = o + n + 2 /\ n \in Nat
      /\ i # 1 => q \in 1 .. Len(input) /\ input[q] = Comma
      /\ q + o \in 1 .. Len(input) /\ input[q + o] = Quote
      /\ Has(input, q + o + 1, Escaped(g))
      /\ q + o + n + 1 \in 1 .. Len(input) /\ input[q + o + n + 1] = Quote

LEMMA HasField ==
  ASSUME Quote \in Characters, Comma \in Characters,
         NEW input, NEW q \in Nat, NEW i, NEW g \in Texts, Has(input, q, FieldText(i, g))
  PROVE  FieldAt(input, q, i, g, IF i = 1 THEN 0 ELSE 1)
<1> DEFINE o == IF i = 1 THEN 0 ELSE 1
           E == Escaped(g)
           n == Len(E)
           a == IF i = 1 THEN <<>> ELSE <<Comma>>
           b == a \o <<Quote>>
           c == b \o E
           t == c \o <<Quote>>
<1>1. E \in Seq(Characters) /\ n \in Nat
  BY EscapedText DEF Texts
<1>2. a \in Seq(Characters) /\ Len(a) = o /\ o \in Nat /\ <<Quote>> \in Seq(Characters)
      /\ Len(<<Quote>>) = 1 /\ <<Quote>>[1] = Quote /\ (i # 1 => a[1] = Comma /\ Len(a) = 1)
  BY EmptySeq
<1> HIDE DEF a, E, n, o
<1>3. b \in Seq(Characters) /\ Len(b) = o + 1
  BY <1>2
<1> HIDE DEF b
<1>4. c \in Seq(Characters) /\ Len(c) = o + 1 + n
  BY <1>1, <1>2, <1>3 DEF n
<1> HIDE DEF c
<1>5. t \in Seq(Characters) /\ Len(t) = o + n + 2
  BY <1>1, <1>2, <1>4
<1>6. FieldText(i, g) = t
  BY DEF FieldText, a, b, c, E
<1>7. Has(input, q, c) /\ Has(input, q + Len(c), <<Quote>>)
  BY <1>2, <1>4, <1>6, HasJoin
<1>8. Has(input, q, b) /\ Has(input, q + Len(b), E)
  BY <1>1, <1>3, <1>7, HasJoin DEF c
<1>9. Has(input, q, a) /\ Has(input, q + Len(a), <<Quote>>)
  BY <1>2, <1>8, HasJoin DEF b
<1>10. \A x \in Nat : Has(input, x, <<Quote>>) => x \in 1 .. Len(input) /\ input[x] = Quote
  <2> SUFFICES ASSUME NEW x \in Nat, Has(input, x, <<Quote>>)
               PROVE  x \in 1 .. Len(input) /\ input[x] = Quote
    OBVIOUS
  <2>1. x + 1 - 1 = x /\ 1 \in 1 .. Len(<<Quote>>)
    BY <1>2
  <2>2. x + 1 - 1 \in 1 .. Len(input) /\ input[x + 1 - 1] = <<Quote>>[1]
    BY <2>1, HasAt
  <2> QED BY <1>2, <2>1, <2>2
<1>11. i # 1 => q \in 1 .. Len(input) /\ input[q] = Comma
  <2> SUFFICES ASSUME i # 1 PROVE q \in 1 .. Len(input) /\ input[q] = Comma
    OBVIOUS
  <2>1. q + 1 - 1 = q /\ 1 \in 1 .. Len(a)
    BY <1>2
  <2>2. q + 1 - 1 \in 1 .. Len(input) /\ input[q + 1 - 1] = a[1]
    BY <1>9, <2>1, HasAt
  <2> QED BY <1>2, <2>1, <2>2
<1>12. q + o \in 1 .. Len(input) /\ input[q + o] = Quote
  BY <1>2, <1>9, <1>10
<1>13. q + o + n + 1 \in 1 .. Len(input) /\ input[q + o + n + 1] = Quote
  <2>1. q + Len(c) = q + o + n + 1 /\ q + o + n + 1 \in Nat
    BY <1>1, <1>2, <1>4
  <2> QED BY <1>7, <1>10, <2>1
<1>14. Has(input, q + o + 1, E)
  <2>1. q + Len(b) = q + o + 1
    BY <1>2, <1>3
  <2> QED BY <1>8, <2>1
<1> QED BY <1>1, <1>5, <1>6, <1>11, <1>12, <1>13, <1>14 DEF FieldAt, E, n, o

(* A record is the texts of its fields, and a newline.                       *)
LEMMA RecordParts ==
  ASSUME Quote \in Characters, Comma \in Characters, NL \in Characters,
         NEW fields \in Seq(Texts)
  PROVE  LET s == [i \in DOMAIN fields |-> FieldText(i, fields[i])]
             n == Len(fields)
         IN  \E e \in [0 .. n -> Texts] :
               /\ s \in Seq(Seq(Characters)) /\ Len(s) = n /\ Flattened(s, e)
               /\ writeCsvRecord(fields) = e[n] \o <<NL>>
               /\ writeCsvRecord(fields) \in Texts /\ Len(writeCsvRecord(fields)) = Len(e[n]) + 1
<1> DEFINE s == [i \in DOMAIN fields |-> FieldText(i, fields[i])]
           n == Len(fields)
<1>1. n \in Nat /\ DOMAIN fields = 1 .. n /\ \A i \in 1 .. n : fields[i] \in Texts
  OBVIOUS
<1>2. \A i \in 1 .. n : FieldText(i, fields[i]) \in Seq(Characters)
  <2> SUFFICES ASSUME NEW i \in 1 .. n PROVE FieldText(i, fields[i]) \in Seq(Characters)
    OBVIOUS
  <2>1. Escaped(fields[i]) \in Seq(Characters)
    BY <1>1, EscapedText DEF Texts
  <2> DEFINE a == IF i = 1 THEN <<>> ELSE <<Comma>>
  <2>2. a \in Seq(Characters) /\ <<Quote>> \in Seq(Characters)
    OBVIOUS
  <2> HIDE DEF a
  <2>3. a \o <<Quote>> \o Escaped(fields[i]) \o <<Quote>> \in Seq(Characters)
    BY <2>1, <2>2
  <2> QED BY <2>3 DEF FieldText, a
<1>3. s \in [1 .. n -> Seq(Characters)]
  BY <1>1, <1>2
<1>4. writeCsvRecord(fields) = FlattenSeq(s) \o <<NL>>
  BY DEF writeCsvRecord, FieldText
<1> HIDE DEF s, n
<1>5. s \in Seq(Seq(Characters)) /\ Len(s) = n
  BY <1>1, <1>3, FunctionIsSeq
<1>6. PICK e \in [0 .. Len(s) -> Seq(Characters)] : Flattened(s, e) /\ e[Len(s)] = FlattenSeq(s)
  BY <1>5, FlatParts
<1>7. e \in [0 .. n -> Texts] /\ writeCsvRecord(fields) = e[n] \o <<NL>> /\ e[n] \in Seq(Characters)
  BY <1>1, <1>4, <1>5, <1>6 DEF Texts
<1>8. e[n] \o <<NL>> \in Texts /\ Len(e[n] \o <<NL>>) = Len(e[n]) + 1
  BY <1>7 DEF Texts
<1> QED BY <1>5, <1>6, <1>7, <1>8 DEF s, n

(* A record is read to its end from inside its first field: at its newline   *)
(* as many fields were read as it has.  Where nothing was read before, they  *)
(* are the fields it was written from.                                       *)
AllRead(input, v, q, f, F, fields) ==
  \E G \in Seq(Texts) :
    /\ Len(G) = Len(F) + Len(fields)
    /\ f = <<>> /\ F = <<>> => G = fields
    /\ q \in 1 .. Len(input) /\ input[q] = NL
    /\ Reach(NextChar(input), v, At(q, FALSE, <<>>, G))
    /\ NextChar(input)[At(q, FALSE, <<>>, G)] = At(q, FALSE, <<>>, G)

LEMMA FieldsRead ==
  ASSUME Quote \in Characters, Comma \in Characters, NL \in Characters,
         NEW input \in Texts, Eof \notin Characters, NEW p \in Nat,
         NEW fields \in Seq(Texts), fields # <<>>, Has(input, p, writeCsvRecord(fields)),
         NEW f \in Texts, NEW F \in Seq(Texts), NEW v,
         p + 1 \in 1 .. Len(input) + 1,
         Reach(NextChar(input), v, At(p + 1, TRUE, f, F))
  PROVE  AllRead(input, v, p + Len(writeCsvRecord(fields)) - 1, f, F, fields)
<1> DEFINE n == Len(fields)
           s == [i \in DOMAIN fields |-> FieldText(i, fields[i])]
           next == NextChar(input)
           Fresh == f = <<>> /\ F = <<>>
<1>1. /\ n \in Nat /\ n >= 1 /\ DOMAIN fields = 1 .. n /\ Len(F) \in Nat /\ Len(input) \in Nat
      /\ \A i \in 1 .. n : fields[i] \in Texts /\ s[i] = FieldText(i, fields[i])
  BY EmptySeq DEF Texts
<1>2. PICK e \in [0 .. n -> Texts] :
        /\ s \in Seq(Seq(Characters)) /\ Len(s) = n /\ Flattened(s, e)
        /\ writeCsvRecord(fields) = e[n] \o <<NL>>
        /\ writeCsvRecord(fields) \in Texts /\ Len(writeCsvRecord(fields)) = Len(e[n]) + 1
  BY RecordParts, Zenon
<1> HIDE DEF s, n
<1>3. Has(input, p, e[n]) /\ Has(input, p + Len(e[n]), <<NL>>) /\ Len(e[n]) \in Nat
  <2>1. e[n] \in Seq(Characters) /\ <<NL>> \in Seq(Characters) /\ Len(e[n]) \in Nat
    BY <1>1, <1>2 DEF Texts
  <2>2. Has(input, p, e[n] \o <<NL>>)
    BY <1>2
  <2> QED BY <2>1, <2>2, HasJoin, Zenon
<1>4. /\ e[0] = <<>> /\ Len(e[0]) = 0
      /\ \A k \in 1 .. n : /\ Len(e[k]) = Len(e[k - 1]) + Len(s[k])
                           /\ Len(e[k - 1]) \in Nat /\ Len(e[k]) \in Nat
                           /\ Has(input, p + Len(e[k - 1]), s[k])
  <2>1. Has(input, p, e[Len(s)]) /\ e \in [0 .. Len(s) -> Seq(Characters)]
    BY <1>2, <1>3 DEF Texts
  <2>2. /\ e[0] = <<>> /\ Len(e[0]) = 0
        /\ \A k \in 1 .. Len(s) : /\ Len(e[k]) = Len(e[k - 1]) + Len(s[k])
                                  /\ Len(e[k - 1]) \in Nat /\ Len(e[k]) \in Nat
                                  /\ Has(input, p + Len(e[k - 1]), s[k])
    BY <1>2, <2>1, HasFlat
  <2> QED BY <1>2, <2>2
<1> DEFINE c(k) == p + Len(e[k]) - 1
           Closing(k, h, H) ==
             /\ Len(H) = Len(F) + k - 1 /\ Reach(next, v, At(c(k), TRUE, h, H))
             /\ Fresh => h = fields[k] /\ \A i \in 1 .. k - 1 : H[i] = fields[i]
           Reached(k) == /\ c(k) \in 1 .. Len(input) /\ input[c(k)] = Quote
                         /\ \E h \in Texts, H \in Seq(Texts) : Closing(k, h, H)
           T == {k \in Nat : k + 1 <= n => Reached(k + 1)}
<1> HIDE DEF next
<1>5. ASSUME NEW k \in 1 .. n
      PROVE  LET o == IF k = 1 THEN 0 ELSE 1
                 q == p + Len(e[k - 1])
                 m == Len(Escaped(fields[k]))
             IN  /\ q \in Nat /\ m \in Nat /\ c(k) = q + o + m + 1
                 /\ k # 1 => q \in 1 .. Len(input) /\ input[q] = Comma
                 /\ q + o \in 1 .. Len(input) /\ input[q + o] = Quote
                 /\ Has(input, q + o + 1, Escaped(fields[k]))
                 /\ c(k) \in 1 .. Len(input) /\ input[c(k)] = Quote
  <2> DEFINE o == IF k = 1 THEN 0 ELSE 1
             q == p + Len(e[k - 1])
             g == fields[k]
             m == Len(Escaped(g))
  <2>1. g \in Texts /\ s[k] = FieldText(k, g)
    BY <1>1
  <2>2. /\ Len(e[k]) = Len(e[k - 1]) + Len(FieldText(k, g)) /\ Len(e[k - 1]) \in Nat
        /\ q \in Nat /\ Has(input, q, FieldText(k, g))
    <3>1. /\ Len(e[k]) = Len(e[k - 1]) + Len(s[k]) /\ Len(e[k - 1]) \in Nat
          /\ Has(input, p + Len(e[k - 1]), s[k])
      BY <1>4
    <3>2. q \in Nat
      BY <3>1
    <3> HIDE DEF g
    <3>3. Has(input, q, s[k])
      BY <3>1
    <3> HIDE DEF q
    <3> QED BY <2>1, <3>1, <3>2, <3>3
  <2> HIDE DEF g
  <2>3. FieldAt(input, q, k, g, o)
    BY <2>1, <2>2, HasField
  <2>4. o \in Nat
    OBVIOUS
  <2> HIDE DEF q, o
  <2>5. /\ Len(FieldText(k, g)) = o + m + 2 /\ m \in Nat
        /\ k # 1 => q \in 1 .. Len(input) /\ input[q] = Comma
        /\ q + o \in 1 .. Len(input) /\ input[q + o] = Quote
        /\ Has(input, q + o + 1, Escaped(g))
        /\ q + o + m + 1 \in 1 .. Len(input) /\ input[q + o + m + 1] = Quote
    BY <2>3 DEF FieldAt
  <2> HIDE DEF m
  <2>6. c(k) = q + o + m + 1
    <3>1. Len(e[k]) = Len(e[k - 1]) + (o + m + 2)
      BY <2>2, <2>5
    <3>2. Len(e[k]) \in Nat /\ Len(e[k - 1]) \in Nat /\ o \in Nat /\ m \in Nat
      BY <1>4, <2>4, <2>5
    <3>3. c(k) = p + Len(e[k]) - 1 /\ q = p + Len(e[k - 1])
      BY DEF q
    <3> DEFINE x == Len(e[k])
               y == Len(e[k - 1])
    <3>4. x \in Nat /\ y \in Nat /\ x = y + (o + m + 2) /\ c(k) = p + x - 1 /\ q = p + y
      BY <3>1, <3>2, <3>3
    <3> HIDE DEF c, x, y
    <3> QED BY <3>2, <3>4
  <2> HIDE DEF c
  <2> QED BY <2>2, <2>5, <2>6 DEF q, g, m, o
<1>6. Reached(1)
  <2> DEFINE g == fields[1]
             m == Len(Escaped(g))
  <2>1. 1 \in 1 .. n /\ 1 - 1 = 0 /\ g \in Texts /\ p + Len(e[0]) = p
    BY <1>1, <1>4
  <2>2. /\ m \in Nat /\ c(1) = p + 0 + m + 1 /\ Has(input, p + 0 + 1, Escaped(g))
        /\ c(1) \in 1 .. Len(input) /\ input[c(1)] = Quote
    BY <1>5, <2>1
  <2> HIDE DEF c, g
  <2>3. Has(input, p + 1, Escaped(g)) /\ (p + 1) + m = c(1)
    BY <2>2
  <2>4. f \o g \in Texts /\ Reach(next, v, At(c(1), TRUE, f \o g, F))
    BY <2>1, <2>3, ContentReads DEF next
  <2>5. Fresh => f \o g = g
    BY <2>1 DEF Texts
  <2>6. Closing(1, f \o g, F)
    <3>1. Len(F) = Len(F) + 1 - 1
      BY <1>1
    <3>2. Fresh => \A i \in 1 .. 1 - 1 : F[i] = fields[i]
      OBVIOUS
    <3>3. Fresh => f \o g = fields[1]
      BY <2>5 DEF g
    <3> HIDE DEF Fresh
    <3> QED BY <2>4, <3>1, <3>2, <3>3
  <2> HIDE DEF Closing
  <2> QED BY <2>2, <2>4, <2>6
<1>7. ASSUME NEW k \in Nat, k \in 1 .. n, k + 1 \in 1 .. n, Reached(k) PROVE Reached(k + 1)
  <2> DEFINE g == fields[k + 1]
             m == Len(Escaped(g))
             q == p + Len(e[k])
  <2>1. PICK h \in Texts, H \in Seq(Texts) : Closing(k, h, H)
    BY <1>7
  <2>2. k + 1 # 1 /\ (k + 1) - 1 = k /\ g \in Texts /\ Len(H) \in Nat
    BY <1>1, <1>7
  <2>3. /\ q \in Nat /\ m \in Nat /\ c(k + 1) = q + 1 + m + 1 /\ q \in 1 .. Len(input) /\ input[q] = Comma
        /\ q + 1 \in 1 .. Len(input) /\ input[q + 1] = Quote
        /\ Has(input, q + 1 + 1, Escaped(g)) /\ c(k + 1) \in 1 .. Len(input) /\ input[c(k + 1)] = Quote
    <3> DEFINE j == k + 1
    <3>1. j \in 1 .. n /\ j # 1 /\ j - 1 = k
      BY <1>7, <2>2
    <3> HIDE DEF c, j
    <3>2. LET o == 1
              x == p + Len(e[j - 1])
              y == Len(Escaped(fields[j]))
          IN  /\ x \in Nat /\ y \in Nat /\ c(j) = x + o + y + 1
              /\ x \in 1 .. Len(input) /\ input[x] = Comma
              /\ x + o \in 1 .. Len(input) /\ input[x + o] = Quote
              /\ Has(input, x + o + 1, Escaped(fields[j]))
              /\ c(j) \in 1 .. Len(input) /\ input[c(j)] = Quote
      BY <1>5, <3>1
    <3> QED BY <3>1, <3>2 DEF j
  <2>4. /\ c(k) \in 1 .. Len(input) /\ input[c(k)] = Quote /\ q = c(k) + 1 /\ q + 1 = c(k) + 2
        /\ Reach(next, v, At(c(k), TRUE, h, H)) /\ Len(H) = Len(F) + k - 1
        /\ Fresh => h = fields[k] /\ \A i \in 1 .. k - 1 : H[i] = fields[i]
    <3>1. Len(e[k]) \in Nat
      BY <1>4, <1>7
    <3>2. q = c(k) + 1 /\ q + 1 = c(k) + 2
      BY <3>1
    <3>3. c(k) \in 1 .. Len(input) /\ input[c(k)] = Quote
      BY <1>7
    <3> HIDE DEF c, q, Fresh
    <3> QED BY <2>1, <3>2, <3>3
  <2> HIDE DEF c, g, q, m
  <2>5. Reach(next, v, At(q + 1, FALSE, <<>>, Append(H, h)))
    <3>1. c(k) + 1 \in 1 .. Len(input) /\ c(k) + 2 \in 1 .. Len(input)
          /\ input[c(k) + 1] = Comma /\ input[c(k) + 2] = Quote
      BY <2>3, <2>4
    <3>2. Reach(next, v, At(c(k) + 2, FALSE, <<>>, Append(H, h)))
      BY <2>4, <3>1, Closes DEF next
    <3> QED BY <2>4, <3>2
  <2>6. /\ Append(H, h) \in Seq(Texts) /\ <<>> \in Texts /\ Len(Append(H, h)) = Len(F) + k
        /\ \A i \in 1 .. Len(H) : Append(H, h)[i] = H[i]
        /\ Append(H, h)[Len(H) + 1] = h
    <3>1. /\ Append(H, h) \in Seq(Texts) /\ Len(Append(H, h)) = Len(H) + 1
          /\ \A i \in 1 .. Len(H) : Append(H, h)[i] = H[i]
          /\ Append(H, h)[Len(H) + 1] = h
      OBVIOUS
    <3>2. <<>> \in Texts
      BY DEF Texts
    <3> HIDE DEF Fresh
    <3> QED BY <1>1, <1>7, <2>4, <3>1, <3>2
  <2>7. Reach(next, v, At(q + 1 + 1, TRUE, <<>>, Append(H, h)))
    BY <2>3, <2>5, <2>6, Opens DEF next
  <2>8. q + 1 + 1 \in 1 .. Len(input) + 1 /\ q + 1 + 1 + m = c(k + 1)
    BY <1>1, <2>3
  <2>9. Reach(next, v, At(c(k + 1), TRUE, <<>> \o g, Append(H, h)))
    BY <2>2, <2>3, <2>6, <2>7, <2>8, ContentReads DEF next, m
  <2>10. <<>> \o g = g
    BY <2>2 DEF Texts
  <2>11. Fresh => \A i \in 1 .. (k + 1) - 1 : Append(H, h)[i] = fields[i]
    <3> SUFFICES ASSUME Fresh, NEW i \in 1 .. (k + 1) - 1 PROVE Append(H, h)[i] = fields[i]
      OBVIOUS
    <3>1. Len(F) = 0 /\ Len(H) = k - 1
      BY <1>1, <1>7, <2>4
    <3>2. h = fields[k] /\ \A j \in 1 .. k - 1 : H[j] = fields[j]
      BY <2>4
    <3> HIDE DEF Fresh, Reached, Closing
    <3>3. CASE i = k
      <4>1. i = Len(H) + 1
        BY <3>1, <3>3
      <4> QED BY <2>6, <3>2, <3>3, <4>1
    <3>4. CASE i # k
      <4>1. i \in 1 .. k - 1 /\ i \in 1 .. Len(H)
        BY <1>7, <3>1, <3>4
      <4> QED BY <2>6, <3>2, <4>1, Zenon
    <3> QED BY <3>3, <3>4
  <2>12. Len(Append(H, h)) = Len(F) + (k + 1) - 1
    BY <1>1, <1>7, <2>6
  <2>13. Closing(k + 1, g, Append(H, h))
    BY <2>9, <2>10, <2>11, <2>12 DEF g
  <2> HIDE DEF Closing
  <2> QED BY <2>2, <2>3, <2>6, <2>13
<1> HIDE DEF Reached
<1>8. Reached(n)
  <2>1. T \in SUBSET Nat /\ 0 \in T
    BY <1>6
  <2>2. ASSUME NEW k \in T PROVE k + 1 \in T
    <3>1. k \in Nat /\ (k + 1 <= n => Reached(k + 1)) /\ k + 1 \in Nat
          /\ (k + 1 + 1 <= n => k + 1 <= n /\ k + 1 \in 1 .. n /\ k + 1 + 1 \in 1 .. n)
      BY <1>1
    <3> QED BY <1>7, <3>1
  <2> HIDE DEF T
  <2>3. T = Nat
    BY <2>1, <2>2, Induction
  <2>4. n - 1 \in T /\ (n - 1) + 1 = n /\ n <= n
    BY <1>1, <2>3
  <2> QED BY <2>4 DEF T
<1>9. PICK h \in Texts, H \in Seq(Texts) : Closing(n, h, H)
  BY <1>8 DEF Reached
<1> DEFINE q == p + Len(writeCsvRecord(fields)) - 1
           G == Append(H, h)
<1>10. q \in 1 .. Len(input) /\ input[q] = NL /\ q = c(n) + 1 /\ c(n) \in 1 .. Len(input)
       /\ input[c(n)] = Quote
  <2>1. Len(<<NL>>) = 1 /\ <<NL>>[1] = NL /\ 1 \in 1 .. 1 /\ p + Len(e[n]) + 1 - 1 = p + Len(e[n])
        /\ p + Len(e[n]) \in Nat
    BY <1>3
  <2>2. p + Len(e[n]) \in 1 .. Len(input) /\ input[p + Len(e[n])] = NL
    BY <1>3, <2>1 DEF Has
  <2>3. q = p + Len(e[n]) /\ q = c(n) + 1
    BY <1>2, <1>3
  <2> HIDE DEF q, c
  <2> QED BY <1>8, <2>2, <2>3 DEF Reached
<1>11. G \in Seq(Texts) /\ Len(G) = Len(F) + n /\ (Fresh => G = fields)
  <2>1. Len(H) \in Nat /\ Len(H) = Len(F) + n - 1
        /\ (Fresh => h = fields[n] /\ \A i \in 1 .. n - 1 : H[i] = fields[i])
    BY <1>9
  <2>2. /\ G \in Seq(Texts) /\ Len(G) = Len(H) + 1 /\ G[Len(H) + 1] = h
        /\ \A i \in 1 .. Len(H) : G[i] = H[i]
    OBVIOUS
  <2> HIDE DEF G
  <2>3. Len(G) = Len(F) + n
    BY <1>1, <2>1, <2>2
  <2>4. ASSUME Fresh PROVE G = fields
    <3>1. Len(F) = 0 /\ Len(H) = n - 1 /\ Len(G) = n
      BY <1>1, <2>1, <2>3, <2>4
    <3>2. ASSUME NEW i \in 1 .. n PROVE G[i] = fields[i]
      <4>1. CASE i = n
        BY <1>1, <2>1, <2>2, <2>4, <3>1, <4>1
      <4>2. CASE i # n
        <5>1. i \in 1 .. n - 1
          BY <1>1, <4>2
        <5> QED BY <2>1, <2>2, <2>4, <3>1, <5>1
      <4> QED BY <4>1, <4>2
    <3> QED BY <1>1, <2>2, <3>1, <3>2 DEF n
  <2> QED BY <2>2, <2>3, <2>4
<1>12. Reach(next, v, At(q, FALSE, <<>>, G)) /\ next[At(q, FALSE, <<>>, G)] = At(q, FALSE, <<>>, G)
  <2>1. Peek(input, c(n) + 1) \in {NL, CR, Eof}
    BY <1>10 DEF Peek
  <2>2. Reach(next, v, At(c(n), TRUE, h, H))
    BY <1>9
  <2> HIDE DEF c, q, Closing
  <2> DEFINE r == c(n)
             z == At(r + 1, FALSE, <<>>, Append(H, h))
  <2>3. /\ r \in 1 .. Len(input) /\ input[r] = Quote /\ Peek(input, r + 1) \in {NL, CR, Eof}
        /\ Reach(next, v, At(r, TRUE, h, H))
    BY <1>10, <2>1, <2>2
  <2> HIDE DEF r
  <2>4. Reach(next, v, z) /\ next[z] = z
    <3>1. Reach(NextChar(input), v, At(r, TRUE, h, H)) /\ r \in 1 .. Len(input)
          /\ input[r] = Quote /\ Peek(input, r + 1) \in {NL, CR, Eof}
      BY <2>3 DEF next
    <3>2. Reach(NextChar(input), v, At(r + 1, FALSE, <<>>, Append(H, h)))
      BY <3>1, Ends
    <3>3. NextChar(input)[At(r + 1, FALSE, <<>>, Append(H, h))] = At(r + 1, FALSE, <<>>, Append(H, h))
      <4>1. Append(H, h) \in Seq(Texts) /\ <<>> \in Texts /\ r + 1 \in 1 .. Len(input) + 1
        <5>1. <<>> \in Texts
          BY DEF Texts
        <5>2. r + 1 \in 1 .. Len(input) + 1
          BY <1>1, <3>1
        <5> HIDE DEF Fresh, z
        <5>3. Append(H, h) \in Seq(Texts)
          OBVIOUS
        <5> QED BY <5>1, <5>2, <5>3
      <4>2. z \in States(input) /\ ~z.insideQuotes /\ z.pos = r + 1
        BY <4>1, AtIs DEF At
      <4>3. z = At(r + 1, FALSE, <<>>, Append(H, h))
        OBVIOUS
      <4> HIDE DEF z
      <4>4. Peek(input, z.pos) \in {NL, CR, Eof}
        BY <3>1, <4>2
      <4>5. NextChar(input)[z] = z
        BY <4>2, <4>4, Stops
      <4> QED BY <4>3, <4>5
    <3> QED BY <3>2, <3>3 DEF next
  <2> QED BY <1>10, <2>4 DEF r
<1> HIDE DEF q, G
<1> QED BY <1>10, <1>11, <1>12 DEF AllRead, q, n, next

(* A record that occurs is read whole, with the fields it was written from.  *)
RecordRead(input, p, fields) ==
  LET n == Len(writeCsvRecord(fields))
      r == readCsvRecord(input, p)
      z == At(p + n - 1, FALSE, <<>>, fields)
  IN  /\ n \in Nat /\ p + n - 1 \in 1 .. Len(input)
      /\ Reach(NextChar(input), Start(p), z) /\ NextChar(input)[z] = z
      /\ r.pos = p + n /\ r.fields = fields /\ ~r.bad

LEMMA RecordReads ==
  ASSUME Quote \in Characters, Comma \in Characters, NL \in Characters,
         NEW input \in Texts, Eof \notin Characters, NEW p \in 1 .. Len(input),
         input[p] = Quote,
         NEW fields \in Seq(Texts), fields # <<>>, Has(input, p, writeCsvRecord(fields))
  PROVE  RecordRead(input, p, fields)
<1> DEFINE n == Len(writeCsvRecord(fields))
           q == p + n - 1
           z == At(q, FALSE, <<>>, fields)
           r == readCsvRecord(input, p)
<1>1. Len(input) \in Nat /\ p \in Nat /\ p + 1 \in 1 .. Len(input) + 1 /\ p \in 1 .. Len(input) + 1
  BY DEF Texts
<1>2. Reach(NextChar(input), Start(p), At(p + 1, TRUE, <<>>, <<>>))
  <2>1. <<>> \in Texts /\ <<>> \in Seq(Texts)
    BY DEF Texts
  <2>2. Start(p) \in DOMAIN NextChar(input)
    BY <1>1, <2>1, AtIs DEF Start, NextChar
  <2>3. Reach(NextChar(input), Start(p), At(p, FALSE, <<>>, <<>>))
    BY <2>2, ReachSelf DEF Start
  <2> QED BY <2>1, <2>3, Opens
<1>3. PICK G \in Seq(Texts) :
        /\ G = fields /\ q \in 1 .. Len(input) /\ input[q] = NL
        /\ Reach(NextChar(input), Start(p), At(q, FALSE, <<>>, G))
        /\ NextChar(input)[At(q, FALSE, <<>>, G)] = At(q, FALSE, <<>>, G)
  <2>1. <<>> \in Texts /\ <<>> \in Seq(Texts)
    BY DEF Texts
  <2>2. AllRead(input, Start(p), q, <<>>, <<>>, fields)
    BY <1>1, <1>2, <2>1, FieldsRead
  <2> QED BY <2>2 DEF AllRead
<1>4. Reach(NextChar(input), Start(p), z) /\ NextChar(input)[z] = z
  BY <1>3
<1>5. n \in Nat
  <2>1. writeCsvRecord(fields) \in Texts
    BY RecordParts
  <2> QED BY <2>1 DEF Texts
<1>6. r = Finished(input, z)
  BY <1>1, <1>4, ReadIs
<1>7. /\ z.pos = q /\ z.fields = fields /\ z.bad = FALSE /\ z.insideQuotes = FALSE
      /\ z = [pos |-> q, insideQuotes |-> FALSE, field |-> <<>>, fields |-> fields, bad |-> FALSE]
      /\ Peek(input, q) = NL /\ NL # CR
  <2>1. Peek(input, q) = NL /\ NL # CR
    BY <1>3 DEF Peek, NL, CR
  <2> QED BY <2>1 DEF At
<1> HIDE DEF z, n
<1>8. r.pos = q + 1 /\ r.fields = fields /\ ~r.bad
  <2>1. r = [z EXCEPT !.pos = q + 1, !.bad = z.bad \/ z.insideQuotes]
    BY <1>6, <1>7 DEF Finished
  <2> QED BY <1>7, <2>1 DEF z, At
<1>9. q + 1 = p + n
  BY <1>1, <1>5
<1> QED BY <1>3, <1>4, <1>5, <1>8, <1>9 DEF RecordRead, z, n

-----------------------------------------------------------------------------
(* Reading what was cut.  A text is read as the longer text that it begins,  *)
(* up to a field that ends where the shorter text does.                      *)

Cut(a, b) == Len(a) < Len(b) /\ \A i \in 1 .. Len(a) : b[i] = a[i]
EndsAtCut(a, b, v, z) ==
  \E f \in Texts, F \in Seq(Texts) :
    /\ Len(a) >= 1 /\ a[Len(a)] = Quote
    /\ Reach(NextChar(a), v, At(Len(a), TRUE, f, F))
    /\ Reach(NextChar(b), v, At(Len(a), TRUE, f, F))
    /\ z = At(Len(a) + 1, FALSE, <<>>, Append(F, f))
CutState(a, b, v, s) ==
  \/ s.bad
  \/ Reach(NextChar(b), v, s) /\ (s.insideQuotes \/ s.pos <= Len(a))
  \/ EndsAtCut(a, b, v, s)

LEMMA CutReads ==
  ASSUME NEW a \in Texts, NEW b \in Texts, Eof \notin Characters, Cut(a, b),
         NEW p \in 1 .. Len(a), NEW z, Reach(NextChar(a), Start(p), z)
  PROVE  CutState(a, b, Start(p), z)
<1> DEFINE v == Start(p)
           next == NextChar(a)
           S == {s \in States(a) : Reach(next, v, s) /\ CutState(a, b, v, s)}
<1>1. /\ Len(a) \in Nat /\ Len(b) \in Nat /\ next \in [States(a) -> States(a)]
      /\ \A i \in 1 .. Len(a) : i \in 1 .. Len(b) /\ b[i] = a[i]
  BY CharsEnd DEF Texts, Cut
<1>2. v \in States(a) /\ v \in States(b) /\ v.pos <= Len(a) /\ v \in DOMAIN NextChar(b)
  <2>1. p \in 1 .. Len(a) + 1 /\ p \in 1 .. Len(b) + 1 /\ <<>> \in Texts /\ <<>> \in Seq(Texts)
    BY <1>1 DEF Texts
  <2>2. v \in States(a) /\ v \in States(b)
    BY <2>1, AtIs DEF Start
  <2>3. v.pos = p
    BY DEF Start, At
  <2> HIDE DEF v
  <2> QED BY <1>1, <2>2, <2>3 DEF NextChar
<1>3. v \in S
  <2>1. Reach(next, v, v) /\ Reach(NextChar(b), v, v)
    BY <1>1, <1>2, ReachSelf
  <2> QED BY <1>2, <2>1 DEF CutState
<1>4. ASSUME NEW s \in S, next[s] # s PROVE next[s] \in S
  <2> DEFINE new == next[s]
             q == s.pos
             f == s.field
             F == s.fields
  <2>1. s \in States(a) /\ new \in States(a) /\ Reach(next, v, s) /\ CutState(a, b, v, s)
    BY <1>1
  <2>2. Reach(next, v, new)
    BY <1>4, <2>1, <1>1, ReachNext
  <2>3. ~s.bad /\ q \in 1 .. Len(a) /\ s = At(q, s.insideQuotes, f, F) /\ Steps(a, s, new)
    BY <1>4, <2>1, CharSteps
  <2>4. f \in Texts /\ F \in Seq(Texts) /\ s.insideQuotes \in BOOLEAN /\ new.bad \in BOOLEAN
    BY <2>1 DEF States
  <2> HIDE DEF new, next
  <2>5. Reach(NextChar(b), v, s)
    <3>1. ~EndsAtCut(a, b, v, s)
      <4>1. \A x, y : At(Len(a) + 1, x, <<>>, y).pos = Len(a) + 1
        BY DEF At
      <4>2. q # Len(a) + 1
        BY <1>1, <2>3
      <4> QED BY <4>1, <4>2 DEF EndsAtCut
    <3> QED BY <2>1, <2>3, <3>1 DEF CutState
  <2>6. q \in 1 .. Len(b) /\ b[q] = a[q]
    BY <1>1, <2>3
  <2> SUFFICES ASSUME ~new.bad PROVE CutState(a, b, v, new)
    BY <2>1, <2>2 DEF CutState, new
  <2>7. CASE ~s.insideQuotes /\ a[q] = Quote /\ new = At(q + 1, TRUE, f, F)
    <3>1. s = At(q, FALSE, f, F)
      BY <2>3, <2>4, <2>7
    <3> HIDE DEF q, f, F
    <3>2. Reach(NextChar(b), v, new)
      BY <2>4, <2>5, <2>6, <2>7, <3>1, Opens
    <3>3. new.insideQuotes
      BY <2>7 DEF At
    <3> QED BY <3>2, <3>3 DEF CutState
  <2>8. CASE s.insideQuotes /\ a[q] # Quote /\ new = At(q + 1, TRUE, Append(f, a[q]), F)
    <3>1. s = At(q, TRUE, f, F)
      BY <2>3, <2>4, <2>8
    <3> HIDE DEF q, f, F
    <3>2. Reach(NextChar(b), v, At(q + 1, TRUE, Append(f, b[q]), F))
      BY <2>4, <2>5, <2>6, <2>8, <3>1, Takes
    <3>3. new.insideQuotes
      BY <2>8 DEF At
    <3> QED BY <2>6, <2>8, <3>2, <3>3 DEF CutState
  <2>9. CASE /\ s.insideQuotes /\ a[q] = Quote /\ Peek(a, q + 1) = Quote
             /\ q + 1 \in 1 .. Len(a) /\ new = At(q + 2, TRUE, Append(f, Quote), F)
    <3>1. s = At(q, TRUE, f, F)
      BY <2>3, <2>4, <2>9
    <3>2. q + 1 \in 1 .. Len(b) /\ b[q + 1] = Quote
      BY <1>1, <2>9 DEF Peek
    <3> HIDE DEF q, f, F
    <3>3. Reach(NextChar(b), v, new)
      BY <2>4, <2>5, <2>6, <2>9, <3>1, <3>2, Doubles
    <3>4. new.insideQuotes
      BY <2>9 DEF At
    <3> QED BY <3>3, <3>4 DEF CutState
  <2>10. CASE /\ s.insideQuotes /\ a[q] = Quote /\ Peek(a, q + 1) = Comma
              /\ Peek(a, q + 2) = Quote /\ q + 2 \in 1 .. Len(a)
              /\ new = At(q + 2, FALSE, <<>>, Append(F, f))
    <3>1. s = At(q, TRUE, f, F)
      BY <2>3, <2>4, <2>10
    <3>2. /\ q + 1 \in 1 .. Len(b) /\ b[q + 1] = Comma
          /\ q + 2 \in 1 .. Len(b) /\ b[q + 2] = Quote
      BY <1>1, <2>3, <2>10 DEF Peek
    <3> HIDE DEF q, f, F
    <3>3. Reach(NextChar(b), v, new)
      BY <2>4, <2>5, <2>6, <2>10, <3>1, <3>2, Closes
    <3>4. new.pos <= Len(a)
      BY <1>1, <2>10 DEF At
    <3> QED BY <3>3, <3>4 DEF CutState
  <2>11. CASE /\ s.insideQuotes /\ a[q] = Quote /\ Peek(a, q + 1) \in {NL, CR, Eof}
              /\ new = At(q + 1, FALSE, <<>>, Append(F, f))
    <3>1. s = At(q, TRUE, f, F)
      BY <2>3, <2>4, <2>11
    <3>2. CASE q = Len(a)
      <4>1. Reach(next, v, At(Len(a), TRUE, f, F)) /\ Reach(NextChar(b), v, At(Len(a), TRUE, f, F))
        BY <2>1, <2>5, <3>1, <3>2
      <4>2. Len(a) >= 1 /\ a[Len(a)] = Quote /\ new = At(Len(a) + 1, FALSE, <<>>, Append(F, f))
        BY <2>3, <2>11, <3>2
      <4> HIDE DEF f, F
      <4>3. EndsAtCut(a, b, v, new)
        BY <2>4, <4>1, <4>2 DEF EndsAtCut, next
      <4> QED BY <4>3 DEF CutState
    <3>3. CASE q # Len(a)
      <4>1. q + 1 \in 1 .. Len(a) /\ q + 1 \in 1 .. Len(b) /\ b[q + 1] = a[q + 1]
        BY <1>1, <2>3, <3>3
      <4>2. Peek(b, q + 1) \in {NL, CR, Eof}
        BY <1>1, <2>11, <4>1 DEF Peek
      <4> HIDE DEF q, f, F
      <4>3. Reach(NextChar(b), v, new)
        BY <2>4, <2>5, <2>6, <2>11, <3>1, <4>2, Ends
      <4>4. new.pos <= Len(a)
        BY <1>1, <2>11, <4>1 DEF At
      <4> QED BY <4>3, <4>4 DEF CutState
    <3> QED BY <3>2, <3>3
  <2> QED BY <2>3, <2>7, <2>8, <2>9, <2>10, <2>11 DEF Steps
<1>5. z \in S
  <2> HIDE DEF S, next, v
  <2> QED BY <1>1, <1>3, <1>4, ReachInduct DEF next, v
<1> QED BY <1>5

-----------------------------------------------------------------------------
(* The record at a position, and the state in which the loop ends there.     *)

RecordEnds(input, p, z) ==
  LET r == readCsvRecord(input, p)
  IN  /\ z \in States(input) /\ z.pos >= p
      /\ Reach(NextChar(input), Start(p), z) /\ NextChar(input)[z] = z
      /\ r = Finished(input, z) /\ r.fields = z.fields /\ r.fields \in Seq(Texts)
      /\ r.bad \in BOOLEAN /\ (r.bad <=> z.bad \/ z.insideQuotes)
      /\ r.pos \in z.pos .. Len(input) + 1
      /\ ~r.bad => Peek(input, z.pos) \in {NL, CR, Eof}
      /\ ~r.bad /\ r.fields # <<>> => r.pos > p

LEMMA StuckAt ==
  ASSUME NEW input \in Texts, Eof \notin Characters, NEW z \in States(input),
         NextChar(input)[z] = z, ~z.bad, ~z.insideQuotes
  PROVE  Peek(input, z.pos) \in {NL, CR, Eof}
<1> SUFFICES ASSUME z.pos <= Len(input), input[z.pos] \notin {NL, CR} PROVE FALSE
  BY DEF Peek
<1> DEFINE q == z.pos
           f == z.field
           F == z.fields
<1>1. q \in 1 .. Len(input) /\ f \in Texts /\ F \in Seq(Texts) /\ z = At(q, FALSE, f, F)
      /\ q + 1 # q
  <2>1. z.insideQuotes = FALSE
    BY DEF States
  <2>2. z = At(q, z.insideQuotes, f, F)
    BY AtIs
  <2>3. q \in 1 .. Len(input) /\ f \in Texts /\ F \in Seq(Texts) /\ q + 1 # q
    BY DEF States, Texts
  <2> QED BY <2>1, <2>2, <2>3
<1>2. Reads(input, q, FALSE, f, F, z)
  BY <1>1, ReadCharIs
<1> HIDE DEF q, f, F
<1>3. CASE input[q] = Quote
  <2>1. z = At(q + 1, TRUE, f, F)
    BY <1>2, <1>3 DEF Reads
  <2> QED BY <2>1 DEF At
<1>4. CASE input[q] # Quote
  <2>1. z = [At(q, FALSE, f, F) EXCEPT !.bad = TRUE]
    BY <1>2, <1>4 DEF Reads, q
  <2> QED BY <2>1 DEF At
<1> QED BY <1>3, <1>4

LEMMA RecordAt ==
  ASSUME NEW input \in Texts, Eof \notin Characters, NEW p \in 1 .. Len(input) + 1
  PROVE  \E z : RecordEnds(input, p, z)
<1> DEFINE v == Start(p)
           r == readCsvRecord(input, p)
<1>1. v \in States(input) /\ Len(input) \in Nat /\ v.pos = p /\ v.fields = <<>>
  <2>1. <<>> \in Texts /\ <<>> \in Seq(Texts) /\ Len(input) \in Nat
    BY DEF Texts
  <2>2. v \in States(input)
    BY <2>1, AtIs DEF Start
  <2> QED BY <2>1, <2>2 DEF Start, At
<1> HIDE DEF v
<1>2. PICK z \in States(input) : Reach(NextChar(input), v, z) /\ NextChar(input)[z] = z
  BY <1>1, CharsEnd, ReachEnds
<1>3. r = Finished(input, z)
  BY <1>2, ReadIs DEF v
<1>4. z.pos >= p /\ (z = v \/ z.bad \/ z.pos > p)
  BY <1>1, <1>2, PosGrows
<1>5. /\ z.pos \in 1 .. Len(input) + 1 /\ z.insideQuotes \in BOOLEAN /\ z.bad \in BOOLEAN
      /\ z.fields \in Seq(Texts)
      /\ z = [pos |-> z.pos, insideQuotes |-> z.insideQuotes, field |-> z.field,
              fields |-> z.fields, bad |-> z.bad]
  BY DEF States
<1>6. /\ r.fields = z.fields /\ r.bad = (z.bad \/ z.insideQuotes)
      /\ r.pos \in z.pos .. Len(input) + 1
  <2> DEFINE afterCR == IF Peek(input, z.pos) = CR THEN z.pos + 1 ELSE z.pos
             afterNL == IF Peek(input, afterCR) = NL THEN afterCR + 1 ELSE afterCR
  <2>1. r = [z EXCEPT !.pos = afterNL, !.bad = z.bad \/ z.insideQuotes]
    BY <1>3 DEF Finished
  <2>2. \A x \in 1 .. Len(input) + 1 : Peek(input, x) # Eof => x + 1 \in 1 .. Len(input) + 1
    BY <1>1 DEF Peek
  <2>3. NL # Eof /\ CR # Eof
    BY DEF NL, CR, Eof
  <2>4. afterCR \in 1 .. Len(input) + 1 /\ afterCR >= z.pos
    BY <1>1, <1>5, <2>2, <2>3
  <2>5. afterNL \in 1 .. Len(input) + 1 /\ afterNL >= z.pos
    <3> HIDE DEF afterCR
    <3> QED BY <1>1, <1>5, <2>2, <2>3, <2>4
  <2> HIDE DEF afterNL
  <2>6. r.fields = z.fields /\ r.bad = (z.bad \/ z.insideQuotes) /\ r.pos = afterNL
    <3> HIDE DEF r
    <3> QED BY <1>5, <2>1
  <2> QED BY <1>1, <1>5, <2>5, <2>6
<1> HIDE DEF r
<1>7. ~r.bad => Peek(input, z.pos) \in {NL, CR, Eof}
  BY <1>2, <1>5, <1>6, StuckAt
<1>8. ~r.bad /\ r.fields # <<>> => r.pos > p
  BY <1>1, <1>4, <1>5, <1>6
<1>9. r.fields \in Seq(Texts) /\ r.bad \in BOOLEAN /\ (r.bad <=> z.bad \/ z.insideQuotes)
  BY <1>5, <1>6
<1> QED BY <1>2, <1>3, <1>4, <1>6, <1>7, <1>8, <1>9 DEF RecordEnds, r, v

(* A record of a text is one of the longer text, where that goes on with a   *)
(* quote; or else it has no newline and ends where the shorter text does.    *)
KeptOrCut(a, b, p) ==
  LET r == readCsvRecord(a, p)
  IN  \/ readCsvRecord(b, p) = r /\ r.pos - 1 \in 1 .. Len(a) /\ a[r.pos - 1] \in {NL, CR}
      \/ /\ r.pos = Len(a) + 1
         /\ \E z : EndsAtCut(a, b, Start(p), z) /\ r.fields = z.fields

LEMMA RecordKept ==
  ASSUME NEW a \in Texts, NEW b \in Texts, Eof \notin Characters, Cut(a, b),
         b[Len(a) + 1] = Quote,
         NEW p \in 1 .. Len(a), ~readCsvRecord(a, p).bad
  PROVE  KeptOrCut(a, b, p)
<1> DEFINE r == readCsvRecord(a, p)
<1>1. /\ Len(a) \in Nat /\ Len(b) \in Nat /\ p \in 1 .. Len(a) + 1 /\ p \in 1 .. Len(b) + 1
      /\ \A i \in 1 .. Len(a) : i \in 1 .. Len(b) /\ b[i] = a[i]
  BY DEF Texts, Cut
<1>2. PICK z : RecordEnds(a, p, z)
  BY <1>1, RecordAt
<1>3. /\ z \in States(a) /\ Reach(NextChar(a), Start(p), z) /\ r = Finished(a, z)
      /\ ~z.bad /\ ~z.insideQuotes /\ r.pos \in z.pos .. Len(a) + 1
      /\ r.fields = z.fields /\ Peek(a, z.pos) \in {NL, CR, Eof}
  BY <1>2 DEF RecordEnds
<1>4. CutState(a, b, Start(p), z)
  BY <1>3, CutReads
<1>5. z.pos \in 1 .. Len(a) + 1
  BY <1>3 DEF States
<1> HIDE DEF r
<1>6. CASE Reach(NextChar(b), Start(p), z) /\ z.pos <= Len(a)
  <2>1. z.pos \in 1 .. Len(a) /\ Peek(a, z.pos) = a[z.pos] /\ Peek(b, z.pos) = a[z.pos]
    BY <1>1, <1>5, <1>6 DEF Peek
  <2>2. a[z.pos] \in {NL, CR}
    <3>1. a[z.pos] \in Characters
      BY <2>1 DEF Texts
    <3> QED BY <1>3, <2>1, <3>1
  <2>3. z \in States(b)
    <3>1. z.pos \in 1 .. Len(b) + 1
      BY <1>1, <1>5
    <3> QED BY <1>3, <3>1 DEF States
  <2>4. NextChar(b)[z] = z
    BY <1>3, <2>1, <2>2, <2>3, Stops
  <2>5. readCsvRecord(b, p) = Finished(b, z)
    BY <1>1, <1>6, <2>4, ReadIs
  <2>6. /\ Peek(a, z.pos + 1) = NL <=> Peek(b, z.pos + 1) = NL
        /\ Peek(a, z.pos + 1) = NL => z.pos + 1 \in 1 .. Len(a) /\ a[z.pos + 1] = NL
    <3>0. NL # Eof /\ NL # Quote
      BY DEF NL, Eof, Quote
    <3>1. CASE z.pos + 1 <= Len(a)
      <4>1. z.pos + 1 \in 1 .. Len(a)
        BY <1>1, <1>5, <3>1
      <4> QED BY <1>1, <4>1 DEF Peek
    <3>2. CASE z.pos + 1 > Len(a)
      <4>1. z.pos + 1 = Len(a) + 1 /\ Len(a) + 1 <= Len(b) /\ ~(z.pos + 1 <= Len(a))
        BY <1>1, <1>5, <2>1, <3>2 DEF Cut
      <4>2. Peek(a, z.pos + 1) = Eof /\ Peek(b, z.pos + 1) = Quote
        BY <4>1 DEF Peek
      <4> QED BY <3>0, <4>2
    <3> QED BY <1>1, <1>5, <3>1, <3>2
  <2>7. Finished(b, z) = Finished(a, z)
    BY <2>1, <2>6 DEF Finished
  <2>8. r.pos - 1 \in 1 .. Len(a) /\ a[r.pos - 1] \in {NL, CR}
    <3> DEFINE afterCR == IF Peek(a, z.pos) = CR THEN z.pos + 1 ELSE z.pos
               afterNL == IF Peek(a, afterCR) = NL THEN afterCR + 1 ELSE afterCR
    <3>1. r.pos = afterNL
      <4> HIDE DEF afterNL
      <4>1. r = [z EXCEPT !.pos = afterNL, !.bad = z.bad \/ z.insideQuotes]
        BY <1>3 DEF Finished, afterNL
      <4> QED BY <1>3, <4>1 DEF States
    <3>2. NL # CR
      BY DEF NL, CR
    <3>3. CASE a[z.pos] = NL
      <4>1. afterCR = z.pos /\ afterNL = z.pos + 1 /\ z.pos + 1 - 1 = z.pos
        BY <2>1, <3>2, <3>3
      <4> QED BY <2>1, <2>2, <3>1, <4>1
    <3>4. CASE a[z.pos] = CR
      <4>1. afterCR = z.pos + 1
        BY <2>1, <3>4
      <4>2. CASE Peek(a, z.pos + 1) = NL
        <5>1. afterNL = z.pos + 1 + 1 /\ z.pos + 1 + 1 - 1 = z.pos + 1
          BY <1>5, <4>1, <4>2
        <5> QED BY <2>6, <3>1, <4>2, <5>1
      <4>3. CASE Peek(a, z.pos + 1) # NL
        <5>1. afterNL = z.pos + 1 /\ z.pos + 1 - 1 = z.pos
          BY <1>5, <4>1, <4>3
        <5> QED BY <2>1, <2>2, <3>1, <5>1
      <4> QED BY <4>2, <4>3
    <3> QED BY <2>2, <3>3, <3>4
  <2> QED BY <1>3, <2>5, <2>7, <2>8 DEF KeptOrCut, r
<1>7. CASE EndsAtCut(a, b, Start(p), z)
  <2>1. z.pos = Len(a) + 1
    <3>1. \A x, y : At(Len(a) + 1, x, <<>>, y).pos = Len(a) + 1
      BY DEF At
    <3> QED BY <1>7, <3>1 DEF EndsAtCut
  <2>2. r.pos = Len(a) + 1
    BY <1>1, <1>3, <2>1
  <2> QED BY <1>3, <1>7, <2>2 DEF KeptOrCut, r
<1> QED BY <1>3, <1>4, <1>6, <1>7 DEF CutState

-----------------------------------------------------------------------------
(* Reading the rows of a table file t with the schema s. *)

LEMMA CharactersAre ==
  Quote \in Characters /\ Comma \in Characters /\ NL \in Characters /\ CR \in Characters
  /\ Eof \notin Characters
BY CsvAssumption

IsFile(t, s) == t.body \in Texts /\ s \in SchemaValues /\ s # <<>>
LayoutOf(t, s) == Layout(t.header, s)

TableStates(t, s) ==
  [pos : 1 .. Len(t.body) + 1, ok : BOOLEAN,
   rows : Seq({RowOf(LayoutOf(t, s), s, fields, n) : fields \in Seq(Texts), n \in Nat})]
NextRow(t, s) == [d \in TableStates(t, s) |-> ReadRow(t, s, d)]
RowPositions(t, s) == [d \in TableStates(t, s) |-> d.pos]
Beginning(t, s) == [pos |-> 1, ok |-> HeaderFits(t.header, s), rows |-> <<>>]
Data(p, rows) == [pos |-> p, ok |-> TRUE, rows |-> rows]

LEMMA DataIs ==
  /\ \A t, s : \A d \in TableStates(t, s) : d.ok => d = Data(d.pos, d.rows)
  /\ \A p, rows : Data(p, rows).pos = p /\ Data(p, rows).ok /\ Data(p, rows).rows = rows
<1>1. ASSUME NEW t, NEW s, NEW d \in TableStates(t, s), d.ok PROVE d = Data(d.pos, d.rows)
  BY <1>1 DEF TableStates, Data
<1> QED BY <1>1 DEF Data

(* The row that the next record is, with those before it.                    *)
TakesRow(t, s, d, new) ==
  LET r == readCsvRecord(t.body, d.pos)
  IN  /\ ~r.bad /\ r.pos \in 1 .. Len(t.body) + 1 /\ r.pos > d.pos /\ r.fields \in Seq(Texts)
      /\ IsRow(LayoutOf(t, s), s, r.fields, d.rows)
      /\ new = Data(r.pos, Append(d.rows, RowOf(LayoutOf(t, s), s, r.fields, Len(d.rows) + 1)))

LEMMA RowHasFields ==
  ASSUME NEW s \in SchemaValues, s # <<>>, NEW layout, NEW fields, NEW rows,
         IsRow(layout, s, fields, rows)
  PROVE  Len(fields) = Len(s) + Offset(layout) /\ Len(fields) >= 1 /\ fields # <<>>
         /\ Offset(layout) \in 0 .. 2 /\ Len(s) \in Nat
<1>1. Len(fields) = Len(s) + Offset(layout)
  BY DEF IsRow, RightWidth
<1>2. Offset(layout) \in 0 .. 2
  BY DEF Offset
<1>3. Len(s) \in Nat /\ Len(s) >= 1
  BY EmptySeq DEF SchemaValues
<1>4. Len(<<>>) = 0
  OBVIOUS
<1> QED BY <1>1, <1>2, <1>3, <1>4

LEMMA RowSteps ==
  ASSUME NEW t, NEW s, IsFile(t, s), NEW d \in TableStates(t, s)
  PROVE  /\ NextRow(t, s)[d] \in TableStates(t, s)
         /\ NextRow(t, s)[d] # d
            => /\ d.ok /\ d.pos \in 1 .. Len(t.body)
               /\ NextRow(t, s)[d].ok => TakesRow(t, s, d, NextRow(t, s)[d])
         /\ ~d.ok => NextRow(t, s)[d] = d
         /\ d.ok /\ d.pos \in 1 .. Len(t.body)
            => /\ NextRow(t, s)[d] # d
               /\ ~readCsvRecord(t.body, d.pos).bad
                  /\ IsRow(LayoutOf(t, s), s, readCsvRecord(t.body, d.pos).fields, d.rows)
                  => TakesRow(t, s, d, NextRow(t, s)[d])
<1> DEFINE layout == LayoutOf(t, s)
           Row(fields, n) == RowOf(layout, s, fields, n)
           RowValues == {Row(fields, n) : fields \in Seq(Texts), n \in Nat}
           r == readCsvRecord(t.body, d.pos)
           new == NextRow(t, s)[d]
           longer == Append(d.rows, Row(r.fields, Len(d.rows) + 1))
           N == Len(t.body)
<1>1. /\ t.body \in Texts /\ s \in SchemaValues /\ s # <<>> /\ N \in Nat
      /\ d.pos \in 1 .. N + 1 /\ d.ok \in BOOLEAN /\ d.rows \in Seq(RowValues)
  BY DEF IsFile, TableStates, Texts
<1>2. PICK z : RecordEnds(t.body, d.pos, z)
  BY <1>1, RecordAt, CharactersAre
<1>3. /\ r.fields \in Seq(Texts) /\ r.bad \in BOOLEAN /\ r.pos \in z.pos .. N + 1 /\ z.pos >= d.pos
      /\ z.pos \in 1 .. N + 1
      /\ ~r.bad /\ r.fields # <<>> => r.pos > d.pos
  BY <1>2 DEF RecordEnds, States
<1>4. new = IF ~d.ok \/ Peek(t.body, d.pos) = Eof THEN d
            ELSE IF r.bad \/ ~IsRow(layout, s, r.fields, d.rows)
            THEN [d EXCEPT !.ok = FALSE, !.rows = <<>>]
            ELSE [pos |-> r.pos, ok |-> TRUE, rows |-> longer]
  BY DEF NextRow, ReadRow, LayoutOf
<1>5. d.pos \in 1 .. N <=> Peek(t.body, d.pos) # Eof
  <2>1. \A i \in 1 .. N : t.body[i] # Eof
    BY <1>1, CharactersAre DEF Texts
  <2> QED BY <1>1, <2>1 DEF Peek
<1>6. r.pos \in 1 .. N + 1
  BY <1>1, <1>3
<1>7. longer \in Seq(RowValues)
  <2> HIDE DEF r, Row
  <2>1. Row(r.fields, Len(d.rows) + 1) \in RowValues
    <3>1. Len(d.rows) + 1 \in Nat
      BY <1>1
    <3> QED BY <1>3, <3>1
  <2> HIDE DEF RowValues
  <2> QED BY <1>1, <2>1
<1>8. TableStates(t, s) = [pos : 1 .. N + 1, ok : BOOLEAN, rows : Seq(RowValues)]
  BY DEF TableStates
<1> HIDE DEF r, longer, new, Row, RowValues, layout, N
<1>9. CASE ~d.ok \/ d.pos \notin 1 .. N
  <2>1. new = d
    BY <1>4, <1>5, <1>9
  <2> QED BY <1>9, <2>1 DEF new, N
<1>10. CASE d.ok /\ d.pos \in 1 .. N /\ (r.bad \/ ~IsRow(layout, s, r.fields, d.rows))
  <2>1. new = [d EXCEPT !.ok = FALSE, !.rows = <<>>]
    BY <1>4, <1>5, <1>10
  <2>2. d = [pos |-> d.pos, ok |-> d.ok, rows |-> d.rows]
    BY DEF TableStates
  <2>3. new = [pos |-> d.pos, ok |-> FALSE, rows |-> <<>>]
    BY <2>1, <2>2
  <2>4. <<>> \in Seq(RowValues)
    OBVIOUS
  <2>5. new \in TableStates(t, s) /\ ~new.ok /\ new # d
    BY <1>1, <1>8, <1>10, <2>3, <2>4
  <2> QED BY <1>10, <2>5 DEF new, N, r, layout
<1>11. CASE d.ok /\ d.pos \in 1 .. N /\ ~r.bad /\ IsRow(layout, s, r.fields, d.rows)
  <2>1. new = [pos |-> r.pos, ok |-> TRUE, rows |-> longer]
    BY <1>4, <1>5, <1>11
  <2>2. new \in TableStates(t, s)
    BY <1>6, <1>7, <1>8, <2>1
  <2>3. r.fields # <<>>
    BY <1>1, <1>11, RowHasFields
  <2>4. r.pos > d.pos
    BY <1>3, <1>11, <2>3
  <2>5. new # d
    <3>1. r.pos # d.pos
      BY <1>1, <1>6, <2>4
    <3> QED BY <2>1, <3>1
  <2>6. TakesRow(t, s, d, new)
    BY <1>3, <1>6, <1>11, <2>1, <2>4 DEF TakesRow, Data, r, layout, longer, Row, N
  <2> QED BY <1>11, <2>2, <2>5, <2>6 DEF new, N
<1> QED BY <1>1, <1>9, <1>10, <1>11

(* The loop over the records ends.                                           *)
LEMMA RowsEnd ==
  ASSUME NEW t, NEW s, IsFile(t, s)
  PROVE  /\ NextRow(t, s) \in [TableStates(t, s) -> TableStates(t, s)]
         /\ Progress(NextRow(t, s), RowPositions(t, s), Len(t.body))
<1> DEFINE next == NextRow(t, s)
           size == RowPositions(t, s)
           V == TableStates(t, s)
<1>1. next = [d \in V |-> next[d]] /\ \A d \in V : size[d] = d.pos /\ next[d] \in V
  BY RowSteps DEF NextRow, RowPositions
<1>2. ASSUME NEW d \in V, next[d] # d
      PROVE  d.pos \in 1 .. Len(t.body) /\ (next[next[d]] # next[d] => next[d].pos > d.pos)
  <2>1. d.pos \in 1 .. Len(t.body)
    BY <1>2, RowSteps
  <2>2. ASSUME next[next[d]] # next[d] PROVE next[d].pos > d.pos
    <3>1. next[d] \in V
      BY <1>1
    <3>2. next[d].ok
      BY <2>2, <3>1, RowSteps
    <3>3. TakesRow(t, s, d, next[d])
      BY <1>2, <3>2, RowSteps
    <3> HIDE DEF next
    <3> QED BY <3>3, DataIs DEF TakesRow
  <2> QED BY <2>1, <2>2
<1>3. Len(t.body) \in Nat
  BY DEF IsFile, Texts
<1> HIDE DEF next, size, V
<1>4. next \in [V -> V]
  BY <1>1
<1>5. Progress(next, size, Len(t.body))
  BY <1>1, <1>2, <1>3, <1>4 DEF Progress
<1> QED BY <1>4, <1>5 DEF next, size, V

(* The table that is read, from the state at which the loop ends.            *)
TableEnds(t, s, z) ==
  /\ z \in TableStates(t, s)
  /\ Reach(NextRow(t, s), Beginning(t, s), z) /\ NextRow(t, s)[z] = z
  /\ readTable(t, s) = [ok |-> z.ok, rows |-> z.rows]
  /\ z.ok => z.pos = Len(t.body) + 1 /\ z = Data(Len(t.body) + 1, z.rows)

LEMMA BeginningIs ==
  ASSUME NEW t, NEW s, IsFile(t, s)
  PROVE  /\ Beginning(t, s) \in TableStates(t, s)
         /\ Reach(NextRow(t, s), Beginning(t, s), Beginning(t, s))
<1>1. Len(t.body) \in Nat /\ 1 \in 1 .. Len(t.body) + 1
  BY DEF IsFile, Texts
<1>2. HeaderFits(t.header, s) \in BOOLEAN
  BY DEF HeaderFits
<1>3. Beginning(t, s) \in TableStates(t, s)
  BY <1>1, <1>2 DEF Beginning, TableStates
<1> QED BY <1>3, ReachSelf DEF NextRow

LEMMA TableOf ==
  ASSUME NEW t, NEW s, IsFile(t, s), NEW z,
         Reach(NextRow(t, s), Beginning(t, s), z), NextRow(t, s)[z] = z
  PROVE  TableEnds(t, s, z)
<1> DEFINE N == Len(t.body)
           next == NextRow(t, s)
           v == Beginning(t, s)
           V == TableStates(t, s)
           Follows(g) == g = [n \in 0 .. N |->
                              IF n = 0 THEN v ELSE ReadRow(t, s, g[n - 1])]
           after == CHOOSE g : Follows(g)
<1>1. readTable(t, s) = [ok |-> after[N].ok, rows |-> after[N].rows]
  BY DEF readTable, Beginning
<1>2. N \in Nat /\ next \in [V -> V] /\ Progress(next, RowPositions(t, s), N)
  BY RowsEnd DEF IsFile, Texts
<1>3. \A d \in V : next[d] = ReadRow(t, s, d)
  BY DEF NextRow
<1>4. PICK g : g \in [0 .. N -> V] /\ g[0] = v
               /\ \A i \in 1 .. N : g[i] = next[g[i - 1]]
  BY <1>2, ReachLimit
<1> HIDE DEF next, v, N, V
<1>5. Follows(g)
  <2>1. ASSUME NEW n \in 0 .. N PROVE g[n] = IF n = 0 THEN v ELSE ReadRow(t, s, g[n - 1])
    <3>1. CASE n = 0
      BY <1>4, <3>1
    <3>2. CASE n # 0
      <4>1. n \in 1 .. N /\ n - 1 \in 0 .. N
        BY <1>2, <3>2
      <4> QED BY <1>3, <1>4, <3>2, <4>1
    <3> QED BY <3>1, <3>2
  <2>2. g = [n \in 0 .. N |-> g[n]]
    BY <1>4
  <2> QED BY <2>1, <2>2
<1>6. Follows(after)
  <2> HIDE DEF Follows
  <2> QED BY <1>5
<1> HIDE DEF after
<1>7. after[0] = v
  BY <1>2, <1>6
<1>8. ASSUME NEW i \in 1 .. N, after[i - 1] \in V PROVE after[i] = next[after[i - 1]]
  <2>1. i \in 0 .. N /\ i # 0
    BY <1>2
  <2> QED BY <1>3, <1>6, <1>8, <2>1
<1>9. after[N] = z
  <2>1. \A h : h[0] = v /\ (\A i \in 1 .. N : h[i - 1] \in V => h[i] = next[h[i - 1]]) => h[N] = z
    BY <1>2, ReachLimit DEF next, v
  <2> QED BY <1>7, <1>8, <2>1
<1>10. z \in V
  <2>1. PICK n, h : Path(next, h, n) /\ h[n] = z
    BY DEF Reach, next
  <2> QED BY <1>2, <2>1 DEF Path
<1>11. ASSUME z.ok PROVE z.pos = N + 1 /\ z = Data(N + 1, z.rows)
  <2>1. z.pos \notin 1 .. N
    BY <1>10, <1>11, RowSteps DEF N, V
  <2>2. z.pos \in 1 .. N + 1
    BY <1>10 DEF TableStates, N, V
  <2>3. z.pos = N + 1
    BY <1>2, <2>1, <2>2
  <2> QED BY <1>10, <1>11, <2>3, DataIs DEF V
<1> QED BY <1>1, <1>9, <1>10, <1>11 DEF TableEnds, N, V

LEMMA TableAt ==
  ASSUME NEW t, NEW s, IsFile(t, s)
  PROVE  \E z : TableEnds(t, s, z)
<1>1. PICK z \in TableStates(t, s) : Reach(NextRow(t, s), Beginning(t, s), z) /\ NextRow(t, s)[z] = z
  BY BeginningIs, RowsEnd, ReachEnds
<1> QED BY <1>1, TableOf

(* A row more, and a table whose loop gets to the end of the file.           *)
MoreRow(t, s, d) ==
  LET r == readCsvRecord(t.body, d.pos)
      new == Data(r.pos, Append(d.rows, RowOf(LayoutOf(t, s), s, r.fields, Len(d.rows) + 1)))
  IN  new \in TableStates(t, s) /\ Reach(NextRow(t, s), Beginning(t, s), new)

LEMMA OneMoreRow ==
  ASSUME NEW t, NEW s, IsFile(t, s), NEW d \in TableStates(t, s), d.ok, d.pos \in 1 .. Len(t.body),
         Reach(NextRow(t, s), Beginning(t, s), d),
         ~readCsvRecord(t.body, d.pos).bad,
         IsRow(LayoutOf(t, s), s, readCsvRecord(t.body, d.pos).fields, d.rows)
  PROVE  MoreRow(t, s, d)
<1> DEFINE next == NextRow(t, s)
<1>1. next[d] # d /\ next[d] \in TableStates(t, s) /\ TakesRow(t, s, d, next[d])
  BY RowSteps
<1>2. Reach(next, Beginning(t, s), next[d])
  BY <1>1, RowsEnd, ReachNext
<1> HIDE DEF next
<1> QED BY <1>1, <1>2 DEF MoreRow, TakesRow, next

LEMMA ReadToTheEnd ==
  ASSUME NEW t, NEW s, IsFile(t, s), NEW d \in TableStates(t, s), d.ok, d.pos = Len(t.body) + 1,
         Reach(NextRow(t, s), Beginning(t, s), d)
  PROVE  readTable(t, s) = [ok |-> TRUE, rows |-> d.rows]
<1>1. Len(t.body) \in Nat
  BY DEF IsFile, Texts
<1>2. d.pos \notin 1 .. Len(t.body)
  BY <1>1
<1>3. NextRow(t, s)[d] = d
  BY <1>2, RowSteps
<1>4. TableEnds(t, s, d)
  BY <1>3, TableOf
<1>5. d.ok = TRUE
  BY DEF TableStates
<1> QED BY <1>4, <1>5 DEF TableEnds

(* The rows of a file are those that the longer file begins with; only the   *)
(* last of them may go on there, when its record has no newline.             *)
IsLonger(t, u, s) ==
  /\ IsFile(t, s) /\ IsFile(u, s) /\ u.header = t.header
  /\ Cut(t.body, u.body) /\ u.body[Len(t.body) + 1] = Quote

EndsLine(t, p) == \/ p = 1
                  \/ p - 1 \in 1 .. Len(t.body) /\ t.body[p - 1] \in {NL, CR}
SameRows(t, u, s, d) ==
  /\ d \in TableStates(u, s) /\ Reach(NextRow(u, s), Beginning(u, s), d)
  /\ EndsLine(t, d.pos)
CutRow(t, u, s, d) ==
  \E c \in TableStates(t, s) :
    /\ c.ok /\ c.pos \in 1 .. Len(t.body) /\ c \in TableStates(u, s)
    /\ Reach(NextRow(t, s), Beginning(t, s), c) /\ Reach(NextRow(u, s), Beginning(u, s), c)
    /\ TakesRow(t, s, c, d) /\ d.pos = Len(t.body) + 1
    /\ \E z : /\ EndsAtCut(t.body, u.body, Start(c.pos), z)
              /\ readCsvRecord(t.body, c.pos).fields = z.fields

LEMMA TableCut ==
  ASSUME NEW t, NEW u, NEW s, IsLonger(t, u, s), NEW z, TableEnds(t, s, z), z.ok
  PROVE  SameRows(t, u, s, z) \/ CutRow(t, u, s, z)
<1> DEFINE next == NextRow(t, s)
           v == Beginning(t, s)
           V == TableStates(t, s)
           N == Len(t.body)
           S == {d \in V : Reach(next, v, d) /\ (~d.ok \/ SameRows(t, u, s, d) \/ CutRow(t, u, s, d))}
<1>1. /\ IsFile(t, s) /\ IsFile(u, s) /\ u.header = t.header /\ t.body \in Texts /\ u.body \in Texts
      /\ Cut(t.body, u.body) /\ u.body[N + 1] = Quote /\ N \in Nat /\ Len(u.body) \in Nat
      /\ N < Len(u.body) /\ LayoutOf(u, s) = LayoutOf(t, s) /\ Beginning(u, s) = v
  BY DEF IsLonger, IsFile, Cut, LayoutOf, Beginning, Texts
<1>2. V \subseteq TableStates(u, s)
  <2>1. 1 .. N + 1 \subseteq 1 .. Len(u.body) + 1
    BY <1>1
  <2> QED BY <1>1, <2>1 DEF TableStates
<1>3. v \in S
  <2>1. v \in V /\ Reach(next, v, v) /\ v \in TableStates(u, s) /\ Reach(NextRow(u, s), Beginning(u, s), v)
    BY <1>1, BeginningIs
  <2>2. v.pos = 1
    BY DEF Beginning
  <2> HIDE DEF v, V, next
  <2>3. SameRows(t, u, s, v)
    BY <1>1, <2>1, <2>2 DEF SameRows, EndsLine
  <2> QED BY <2>1, <2>3
<1>4. ASSUME NEW d \in S, next[d] # d PROVE next[d] \in S
  <2> DEFINE new == next[d]
             r == readCsvRecord(t.body, d.pos)
  <2>1. /\ d \in V /\ new \in V /\ Reach(next, v, d) /\ Reach(next, v, new)
        /\ ~d.ok \/ SameRows(t, u, s, d) \/ CutRow(t, u, s, d)
    BY <1>1, <1>4, RowsEnd, ReachNext
  <2>2. d.ok /\ d.pos \in 1 .. N
    BY <1>1, <1>4, RowSteps
  <2>3. SameRows(t, u, s, d)
    <3>1. d.pos # N + 1
      BY <1>1, <2>2
    <3> QED BY <2>1, <2>2, <3>1 DEF CutRow
  <2> SUFFICES ASSUME new.ok PROVE SameRows(t, u, s, new) \/ CutRow(t, u, s, new)
    BY <2>1
  <2>4. TakesRow(t, s, d, new)
    BY <1>1, <1>4, RowSteps
  <2> HIDE DEF new, next, v
  <2>5. /\ ~r.bad /\ r.pos \in 1 .. N + 1 /\ IsRow(LayoutOf(t, s), s, r.fields, d.rows)
        /\ new = Data(r.pos, Append(d.rows, RowOf(LayoutOf(t, s), s, r.fields, Len(d.rows) + 1)))
        /\ new.pos = r.pos
    BY <2>4, DataIs DEF TakesRow
  <2>6. KeptOrCut(t.body, u.body, d.pos)
    BY <1>1, <2>2, <2>5, RecordKept, CharactersAre
  <2>7. CASE /\ readCsvRecord(u.body, d.pos) = r /\ r.pos - 1 \in 1 .. N
             /\ t.body[r.pos - 1] \in {NL, CR}
    <3>1. /\ d \in TableStates(u, s) /\ Reach(NextRow(u, s), Beginning(u, s), d)
          /\ d.pos \in 1 .. Len(u.body)
      BY <1>1, <2>2, <2>3 DEF SameRows
    <3>2. ~readCsvRecord(u.body, d.pos).bad
          /\ IsRow(LayoutOf(u, s), s, readCsvRecord(u.body, d.pos).fields, d.rows)
      BY <1>1, <2>5, <2>7
    <3> DEFINE q == readCsvRecord(u.body, d.pos)
               more == Data(q.pos, Append(d.rows, RowOf(LayoutOf(u, s), s, q.fields, Len(d.rows) + 1)))
    <3>3. more \in TableStates(u, s) /\ Reach(NextRow(u, s), Beginning(u, s), more)
      BY <1>1, <2>2, <3>1, <3>2, OneMoreRow DEF MoreRow
    <3>4. more = new
      BY <1>1, <2>5, <2>7
    <3> QED BY <2>5, <2>7, <3>3, <3>4 DEF SameRows, EndsLine
  <2>8. CASE /\ r.pos = N + 1
             /\ \E y : EndsAtCut(t.body, u.body, Start(d.pos), y) /\ r.fields = y.fields
    <3>1. d \in TableStates(u, s) /\ Reach(NextRow(u, s), Beginning(u, s), d)
      BY <2>3 DEF SameRows
    <3>2. CutRow(t, u, s, new)
      BY <2>1, <2>2, <2>4, <2>5, <2>8, <3>1 DEF CutRow, next, v
    <3> QED BY <3>2
  <2> QED BY <2>6, <2>7, <2>8 DEF KeptOrCut
<1>5. z \in S
  <2>1. Reach(next, v, z) /\ DOMAIN next = V
    BY DEF TableEnds, NextRow
  <2>2. \A d \in S \cap DOMAIN next : next[d] # d => next[d] \in S
    BY <1>4
  <2> HIDE DEF S, next, v
  <2> QED BY <1>3, <2>1, <2>2, ReachInduct
<1> QED BY <1>5

-----------------------------------------------------------------------------
(* Records that are appended. *)

(* A record begins with a quote and ends with a newline.                     *)
LEMMA RecordText ==
  ASSUME NEW fields \in Seq(Texts), fields # <<>>
  PROVE  LET w == writeCsvRecord(fields)
         IN  w \in Texts /\ Len(w) \in Nat /\ Len(w) >= 2 /\ w[1] = Quote /\ w[Len(w)] = NL
<1> DEFINE w == writeCsvRecord(fields)
           n == Len(fields)
           s == [i \in DOMAIN fields |-> FieldText(i, fields[i])]
<1>1. n \in Nat /\ n >= 1 /\ 1 \in DOMAIN fields /\ fields[1] \in Texts /\ s[1] = FieldText(1, fields[1])
  BY EmptySeq
<1>2. PICK e \in [0 .. n -> Texts] :
        /\ s \in Seq(Seq(Characters)) /\ Len(s) = n /\ Flattened(s, e)
        /\ w = e[n] \o <<NL>> /\ w \in Texts /\ Len(w) = Len(e[n]) + 1
  BY RecordParts, CharactersAre, Zenon
<1> HIDE DEF s, n, w
<1>3. e[n] \in Seq(Characters) /\ Len(e[n]) \in Nat /\ <<NL>> \in Seq(Characters) /\ Len(w) \in Nat
  BY <1>1, <1>2, CharactersAre DEF Texts
<1>4. Has(w, 1, w)
  BY <1>3 DEF Has
<1>5. Has(w, 1, e[n]) /\ Has(w, 1 + Len(e[n]), <<NL>>)
  BY <1>2, <1>3, <1>4, HasJoin
<1>6. Has(w, 1, s[1])
  <2>1. Has(w, 1, e[Len(s)]) /\ e \in [0 .. Len(s) -> Seq(Characters)]
    BY <1>2, <1>5 DEF Texts
  <2>2. /\ e[0] = <<>> /\ Len(e[0]) = 0
        /\ \A k \in 1 .. Len(s) : /\ Len(e[k]) = Len(e[k - 1]) + Len(s[k])
                                  /\ Len(e[k - 1]) \in Nat /\ Len(e[k]) \in Nat
                                  /\ Has(w, 1 + Len(e[k - 1]), s[k])
    <3> DEFINE p == 1
    <3>1. /\ p \in Nat /\ Has(w, p, e[Len(s)]) /\ s \in Seq(Seq(Characters))
          /\ e \in [0 .. Len(s) -> Seq(Characters)] /\ Flattened(s, e)
      BY <1>2, <2>1
    <3> HIDE DEF p
    <3>2. /\ e[0] = <<>> /\ Len(e[0]) = 0
          /\ \A k \in 1 .. Len(s) : /\ Len(e[k]) = Len(e[k - 1]) + Len(s[k])
                                    /\ Len(e[k - 1]) \in Nat /\ Len(e[k]) \in Nat
                                    /\ Has(w, p + Len(e[k - 1]), s[k])
      BY <3>1, HasFlat
    <3> QED BY <3>2 DEF p
  <2>3. 1 \in 1 .. Len(s) /\ 1 - 1 = 0 /\ 1 + 0 = 1
    BY <1>1, <1>2
  <2> QED BY <2>2, <2>3
<1>7. FieldAt(w, 1, 1, fields[1], 0)
  <2>1. FieldAt(w, 1, 1, fields[1], IF 1 = 1 THEN 0 ELSE 1)
    BY <1>1, <1>6, HasField, CharactersAre
  <2> QED BY <2>1
<1>8. w[1] = Quote /\ Len(w) >= 2
  BY <1>3, <1>7 DEF FieldAt
<1>9. w[Len(w)] = NL
  <2>1. Len(<<NL>>) = 1 /\ <<NL>>[1] = NL /\ 1 \in 1 .. 1
    OBVIOUS
  <2>2. 1 + Len(e[n]) + 1 - 1 = Len(w)
    BY <1>2, <1>3
  <2> QED BY <1>5, <2>1, <2>2 DEF Has
<1> QED BY <1>2, <1>3, <1>8, <1>9 DEF w

(* Rows that are written are the table's: they have its columns, and NULLs   *)
(* have no characters.                                                       *)
IsWritten(row, s) ==
  /\ row \in StoredRows /\ DOMAIN row.cells = DOMAIN s
  /\ \A i \in DOMAIN s : row.cells[i].null => row.cells[i].payload = <<>>

LEMMA RowRecord ==
  ASSUME NEW s \in SchemaValues, NEW row, IsWritten(row, s)
  PROVE  /\ Fields(row) \in Seq(Texts) /\ Fields(row) # <<>> /\ Len(Fields(row)) = Len(s) + 2
         /\ writeRow(row) = writeCsvRecord(Fields(row))
         /\ writeRow(row) \in Texts /\ Len(writeRow(row)) \in Nat /\ Len(writeRow(row)) >= 2
         /\ writeRow(row)[1] = Quote /\ writeRow(row)[Len(writeRow(row))] = NL
<1>1. Fields(row) \in Seq(Texts) /\ Len(Fields(row)) = Len(s) + 2 /\ Len(s) \in Nat
  BY FieldsOfRow DEF IsWritten, Texts, SchemaValues
<1>2. Fields(row) # <<>>
  BY <1>1
<1> QED BY <1>1, <1>2, RecordText DEF writeRow

(* A file with characters after it.                                          *)
Lengthened(t, u, s, x) ==
  /\ IsLonger(t, u, s) /\ Len(u.body) = Len(t.body) + Len(x)
  /\ Has(u.body, Len(t.body) + 1, x)
  /\ \A i \in 1 .. Len(t.body) : u.body[i] = t.body[i]
  /\ \A i \in 1 .. Len(x) : u.body[Len(t.body) + i] = x[i]

LEMMA LongerFile ==
  ASSUME NEW t, NEW u, NEW s, IsFile(t, s), NEW x \in Texts, x # <<>>, x[1] = Quote,
         u.header = t.header, u.body = t.body \o x
  PROVE  Lengthened(t, u, s, x)
<1> DEFINE b == t.body
           w == u.body
<1>1. b \in Seq(Characters) /\ x \in Seq(Characters) /\ Len(b) \in Nat /\ Len(x) \in Nat
  BY DEF IsFile, Texts
<1>2. Len(x) >= 1
  BY <1>1, EmptySeq
<1>3. /\ w \in Seq(Characters) /\ Len(w) = Len(b) + Len(x)
      /\ \A i \in 1 .. Len(b) : w[i] = b[i]
  BY <1>1, Joined
<1>4. \A i \in 1 .. Len(x) : w[Len(b) + i] = x[i]
  BY <1>1, JoinedSecond
<1> HIDE DEF b, w
<1>5. Has(w, Len(b) + 1, x)
  <2> SUFFICES ASSUME NEW i \in 1 .. Len(x)
               PROVE  Len(b) + 1 + i - 1 \in 1 .. Len(w) /\ w[Len(b) + 1 + i - 1] = x[i]
    BY DEF Has
  <2>1. Len(b) + 1 + i - 1 = Len(b) + i /\ Len(b) + i \in 1 .. Len(w)
    BY <1>1, <1>3
  <2> QED BY <1>4, <2>1
<1>6. w[Len(b) + 1] = Quote
  <2>1. 1 \in 1 .. Len(x)
    BY <1>1, <1>2
  <2> QED BY <1>4, <2>1
<1>7. Cut(b, w)
  BY <1>1, <1>2, <1>3 DEF Cut
<1> QED BY <1>3, <1>4, <1>5, <1>6, <1>7 DEF Lengthened, IsLonger, IsFile, Texts, b, w

(* In a table that is read every record is a row.                            *)
LEMMA MustBeRow ==
  ASSUME NEW t, NEW s, IsFile(t, s), readTable(t, s).ok, NEW d \in TableStates(t, s),
         d.ok, d.pos \in 1 .. Len(t.body), Reach(NextRow(t, s), Beginning(t, s), d)
  PROVE  ~readCsvRecord(t.body, d.pos).bad
         /\ IsRow(LayoutOf(t, s), s, readCsvRecord(t.body, d.pos).fields, d.rows)
<1> DEFINE new == NextRow(t, s)[d]
<1>1. new # d /\ new \in TableStates(t, s)
  BY RowSteps
<1>2. new.ok
  <2> SUFFICES ASSUME ~new.ok PROVE FALSE
    OBVIOUS
  <2>1. NextRow(t, s)[new] = new
    BY <1>1, RowSteps
  <2>2. Reach(NextRow(t, s), Beginning(t, s), new)
    BY <1>1, RowsEnd, ReachNext
  <2> HIDE DEF new
  <2>3. TableEnds(t, s, new)
    BY <2>1, <2>2, TableOf
  <2> QED BY <2>3 DEF TableEnds
<1>3. TakesRow(t, s, d, new)
  BY <1>1, <1>2, RowSteps
<1> QED BY <1>3 DEF TakesRow

(* Where a file that is read ends.                                           *)
LEMMA FileEnds ==
  ASSUME NEW t, NEW u, NEW s, IsLonger(t, u, s), NEW z, TableEnds(t, s, z), z.ok
  PROVE  /\ EndsClean(t) => SameRows(t, u, s, z)
         /\ ~EndsClean(t) /\ (t.body # <<>> => Last(t.body) \in {NL, Quote}) => CutRow(t, u, s, z)
<1>1. SameRows(t, u, s, z) \/ CutRow(t, u, s, z)
  BY TableCut
<1>2. t.body \in Texts /\ Len(t.body) \in Nat
  BY DEF IsLonger, IsFile, Texts
<1>3. z.pos = Len(t.body) + 1
  BY DEF TableEnds
<1>4. NL # Quote /\ NL # CR /\ CR # Quote
  BY DEF NL, Quote, CR
<1>5. CutRow(t, u, s, z) => Len(t.body) >= 1 /\ t.body[Len(t.body)] = Quote
  BY DEF CutRow, EndsAtCut
<1>6. SameRows(t, u, s, z) => t.body = <<>> \/ t.body[Len(t.body)] \in {NL, CR}
  <2> SUFFICES ASSUME SameRows(t, u, s, z), t.body # <<>> PROVE t.body[Len(t.body)] \in {NL, CR}
    OBVIOUS
  <2>1. EndsLine(t, Len(t.body) + 1) /\ Len(t.body) + 1 - 1 = Len(t.body)
    BY <1>2, <1>3 DEF SameRows
  <2>2. Len(t.body) + 1 # 1
    BY <1>2, EmptySeq DEF Texts
  <2> QED BY <2>1, <2>2 DEF EndsLine
<1>7. t.body = <<>> => Len(t.body) = 0
  OBVIOUS
<1> QED BY <1>1, <1>2, <1>4, <1>5, <1>6, <1>7 DEF EndsClean, Last

(* A row that is appended whole to a file that ends with a record.           *)
LEMMA WholeAppended ==
  ASSUME NEW t, NEW u, NEW s, IsFile(t, s), LayoutOf(t, s) = "bitmap", EndsClean(t),
         readTable(t, s).ok, NEW row, IsWritten(row, s),
         u.header = t.header, u.body = t.body \o writeRow(row),
         readTable(u, s).ok \/ IsRow("bitmap", s, Fields(row), readTable(t, s).rows)
  PROVE  readTable(u, s) = [ok |-> TRUE, rows |-> Append(readTable(t, s).rows, row)]
<1> DEFINE x == writeRow(row)
           N == Len(t.body)
           r == readCsvRecord(u.body, N + 1)
<1>1. /\ s \in SchemaValues /\ s # <<>> /\ t.body \in Texts /\ N \in Nat
  BY DEF IsFile, Texts
<1>2. /\ Fields(row) \in Seq(Texts) /\ Fields(row) # <<>> /\ x = writeCsvRecord(Fields(row))
      /\ x \in Texts /\ Len(x) \in Nat /\ Len(x) >= 2 /\ x[1] = Quote /\ x # <<>>
  <2>1. Len(<<>>) = 0
    OBVIOUS
  <2> QED BY <1>1, <2>1, RowRecord
<1>3. /\ IsLonger(t, u, s) /\ Len(u.body) = N + Len(x) /\ Has(u.body, N + 1, x)
      /\ IsFile(u, s) /\ u.body \in Texts /\ u.body[N + 1] = Quote /\ LayoutOf(u, s) = "bitmap"
  <2>1. IsLonger(t, u, s) /\ Len(u.body) = N + Len(x) /\ Has(u.body, N + 1, x)
    <3>1. u.body = t.body \o x
      OBVIOUS
    <3> HIDE DEF x
    <3>2. Lengthened(t, u, s, x)
      BY <1>2, <3>1, LongerFile
    <3> QED BY <3>2 DEF Lengthened
  <2> QED BY <2>1 DEF IsLonger, IsFile, LayoutOf
<1>4. PICK z : TableEnds(t, s, z)
  BY TableAt
<1>5. z.ok /\ readTable(t, s).rows = z.rows /\ z.pos = N + 1
  BY <1>4 DEF TableEnds
<1>6. z \in TableStates(u, s) /\ Reach(NextRow(u, s), Beginning(u, s), z)
  BY <1>3, <1>4, <1>5, FileEnds DEF SameRows
<1>7. z.pos \in 1 .. Len(u.body)
  BY <1>1, <1>2, <1>3, <1>5
<1>8. RecordRead(u.body, N + 1, Fields(row))
  BY <1>2, <1>3, <1>5, <1>7, CharactersAre, RecordReads
<1> HIDE DEF x, N
<1>9. ~r.bad /\ r.fields = Fields(row) /\ r.pos = Len(u.body) + 1
  <2>1. r.pos = N + 1 + Len(x)
    BY <1>2, <1>8 DEF RecordRead
  <2> QED BY <1>1, <1>2, <1>3, <1>8, <2>1 DEF RecordRead
<1>10. IsRow("bitmap", s, Fields(row), z.rows)
  <2>1. CASE readTable(u, s).ok
    BY <1>3, <1>5, <1>6, <1>7, <1>9, <2>1, MustBeRow
  <2> QED BY <1>5, <2>1
<1> DEFINE new == Data(r.pos, Append(z.rows, RowOf("bitmap", s, r.fields, Len(z.rows) + 1)))
<1>11. new \in TableStates(u, s) /\ Reach(NextRow(u, s), Beginning(u, s), new)
  <2>1. MoreRow(u, s, z)
    BY <1>3, <1>5, <1>6, <1>7, <1>9, <1>10, OneMoreRow
  <2> QED BY <1>3, <1>5, <2>1 DEF MoreRow
<1>12. RowOf("bitmap", s, Fields(row), Len(z.rows) + 1) = row
  BY <1>1, RowOfFields DEF IsWritten
<1>13. new.ok /\ new.pos = Len(u.body) + 1 /\ new.rows = Append(z.rows, row)
  <2>1. new.ok /\ new.pos = r.pos
        /\ new.rows = Append(z.rows, RowOf("bitmap", s, r.fields, Len(z.rows) + 1))
    BY DEF Data
  <2> QED BY <1>9, <1>12, <2>1
<1> HIDE DEF new, r
<1> QED BY <1>3, <1>5, <1>11, <1>13, ReadToTheEnd

(* Records whose last fields differ say rows whose last cells differ.        *)
AlmostSame(F, G) ==
  /\ Len(F) = Len(G) /\ \A i \in 1 .. Len(F) - 1 : F[i] = G[i]
  /\ Extends(F[Len(F)], G[Len(F)])

LEMMA FrontIs ==
  ASSUME NEW S, NEW a \in Seq(S), NEW b \in Seq(S), Len(a) = Len(b),
         \A i \in 1 .. Len(a) - 1 : a[i] = b[i]
  PROVE  Front(a) = Front(b)
BY DEF Front

LEMMA PrefixIs ==
  ASSUME NEW S, NEW a \in Seq(S), NEW b \in Seq(S), Extends(a, b)
  PROVE  IsPrefix(a, b)
BY DEF Extends, IsPrefix

LEMMA RowsAlmostSame ==
  ASSUME NEW s \in SchemaValues, s # <<>>, NEW F \in Seq(Texts), NEW G \in Seq(Texts),
         Len(F) = Len(s) + 2, AlmostSame(F, G), NEW m, NEW n,
         NEW row, row = RowOf("bitmap", s, F, m), NEW other, other = RowOf("bitmap", s, G, n)
  PROVE  /\ SameButLast(row, other) /\ SameButLast(other, row)
         /\ IsPrefix(Last(row.cells).payload, Last(other.cells).payload)
<1> DEFINE k == Len(s)
           Id(x) == CHOOSE d \in DOMAIN Digits : <<Digits[d]>> = x
           Cell(flag, x) == IF flag = "1" THEN NullCell ELSE Value(x)
           CellsOf(H) == [j \in 1 .. k |-> Cell(H[2][j], H[j + 2])]
           CellValues == {Cell(H[2][j], H[j + 2]) : H \in {F, G}, j \in 1 .. k}
<1>1. k \in Nat /\ k >= 1 /\ DOMAIN s = 1 .. k
  BY EmptySeq DEF SchemaValues
<1>2. /\ Len(F) = k + 2 /\ Len(G) = k + 2 /\ \A i \in 1 .. k + 1 : F[i] = G[i]
      /\ Extends(F[k + 2], G[k + 2]) /\ F[k + 2] \in Texts /\ G[k + 2] \in Texts
  <2>1. Len(F) = k + 2 /\ Len(G) = k + 2 /\ (k + 2) - 1 = k + 1 /\ k + 2 \in 1 .. k + 2
    BY <1>1 DEF AlmostSame
  <2>2. F[k + 2] \in Texts /\ G[k + 2] \in Texts
    BY <2>1
  <2> HIDE DEF k
  <2> QED BY <2>1, <2>2 DEF AlmostSame
<1>3. /\ Offset("bitmap") = 2
      /\ \A H : Bitmap("bitmap", H, s) = H[2] /\ \A i : IdField("bitmap", H, i) = H[1]
  BY DEF Offset, Bitmap, IdField
<1>4. /\ row = [id |-> Id(F[1]), cells |-> CellsOf(F)]
      /\ other = [id |-> Id(G[1]), cells |-> CellsOf(G)]
  <2>1. ASSUME NEW H, NEW i
        PROVE  RowOf("bitmap", s, H, i) = [id |-> Id(H[1]), cells |-> CellsOf(H)]
    BY <1>1, <1>3 DEF RowOf
  <2> HIDE DEF Id, CellsOf
  <2> QED BY <2>1, Zenon
<1> HIDE DEF Id, CellsOf
<1>5. /\ row.id = Id(F[1]) /\ other.id = Id(G[1])
      /\ row.cells = CellsOf(F) /\ other.cells = CellsOf(G)
  BY <1>4
<1>6. F[1] = G[1] /\ F[2] = G[2] /\ \A i \in 1 .. k - 1 : F[i + 2] = G[i + 2]
  BY <1>1, <1>2
<1>7. row.id = other.id
  BY <1>5, <1>6
<1>8. /\ row.cells \in Seq(CellValues) /\ Len(row.cells) = k
      /\ other.cells \in Seq(CellValues) /\ Len(other.cells) = k
  <2>1. row.cells \in [1 .. k -> CellValues] /\ other.cells \in [1 .. k -> CellValues]
    <3> HIDE DEF Cell
    <3>1. CellsOf(F) \in [1 .. k -> CellValues] /\ CellsOf(G) \in [1 .. k -> CellValues]
      BY DEF CellsOf
    <3> HIDE DEF CellValues, k
    <3> QED BY <1>5, <3>1
  <2> HIDE DEF CellValues, k
  <2> QED BY <1>1, <2>1, FunctionIsSeq
<1>9. \A i \in 1 .. k - 1 : row.cells[i] = other.cells[i]
  <2> SUFFICES ASSUME NEW i \in 1 .. k - 1 PROVE row.cells[i] = other.cells[i]
    OBVIOUS
  <2>1. i \in 1 .. k
    BY <1>1
  <2>2. F[2][i] = G[2][i] /\ F[i + 2] = G[i + 2]
    BY <1>6
  <2> HIDE DEF Cell, k
  <2>3. CellsOf(F)[i] = Cell(F[2][i], F[i + 2]) /\ CellsOf(G)[i] = Cell(G[2][i], G[i + 2])
    BY <2>1 DEF CellsOf
  <2>4. CellsOf(F)[i] = CellsOf(G)[i]
    BY <2>2, <2>3
  <2> QED BY <1>5, <2>4
<1>10. Front(row.cells) = Front(other.cells)
  <2> HIDE DEF CellValues, k
  <2> QED BY <1>1, <1>8, <1>9, FrontIs
<1>11. IsPrefix(Last(row.cells).payload, Last(other.cells).payload)
  <2>1. Last(row.cells) = Cell(F[2][k], F[k + 2]) /\ Last(other.cells) = Cell(G[2][k], G[k + 2])
    <3>1. k \in 1 .. k
      BY <1>1
    <3> HIDE DEF Cell, k, CellValues
    <3> QED BY <1>5, <1>8, <3>1 DEF Last, CellsOf
  <2>2. CASE F[2][k] = "1"
    <3>1. Last(row.cells).payload = <<>> /\ Last(other.cells).payload = <<>>
      BY <1>6, <2>1, <2>2 DEF NullCell
    <3>2. <<>> \in Texts /\ Extends(<<>>, <<>>)
      BY DEF Texts, Extends
    <3> QED BY <3>1, <3>2, PrefixIs DEF Texts
  <2>3. CASE F[2][k] # "1"
    <3>1. Last(row.cells).payload = F[k + 2] /\ Last(other.cells).payload = G[k + 2]
      BY <1>6, <2>1, <2>3 DEF Value
    <3> HIDE DEF k
    <3> QED BY <1>2, <3>1, PrefixIs DEF Texts
  <2> QED BY <2>2, <2>3
<1> QED BY <1>7, <1>10, <1>11 DEF SameButLast

(* A record whose newline is cut off ends with the text.                     *)
CutFields(a, b, p, f, F) ==
  /\ readCsvRecord(a, p).fields = Append(F, f) /\ readCsvRecord(a, p).pos = Len(a) + 1
  /\ Len(a) >= 1 /\ a[Len(a)] = Quote
  /\ Reach(NextChar(a), Start(p), At(Len(a), TRUE, f, F))
  /\ Reach(NextChar(b), Start(p), At(Len(a), TRUE, f, F))

LEMMA MustEndAtCut ==
  ASSUME NEW a \in Texts, NEW b \in Texts, Cut(a, b),
         NEW p \in 1 .. Len(a), ~readCsvRecord(a, p).bad,
         NEW e, Reach(NextChar(b), Start(p), e), NextChar(b)[e] = e, e.pos > Len(a)
  PROVE  \E f \in Texts, F \in Seq(Texts) : CutFields(a, b, p, f, F)
<1> DEFINE r == readCsvRecord(a, p)
<1>1. /\ Len(a) \in Nat /\ Len(b) \in Nat /\ p \in 1 .. Len(a) + 1
      /\ \A i \in 1 .. Len(a) : i \in 1 .. Len(b) /\ b[i] = a[i]
  BY DEF Texts, Cut
<1>2. PICK z : RecordEnds(a, p, z)
  BY <1>1, RecordAt, CharactersAre
<1>3. /\ z \in States(a) /\ Reach(NextChar(a), Start(p), z) /\ r.fields = z.fields
      /\ ~z.bad /\ ~z.insideQuotes /\ r.pos \in z.pos .. Len(a) + 1
      /\ Peek(a, z.pos) \in {NL, CR, Eof} /\ z.pos \in 1 .. Len(a) + 1
  BY <1>2 DEF RecordEnds, States
<1>4. CutState(a, b, Start(p), z)
  BY <1>3, CutReads, CharactersAre
<1> HIDE DEF r
<1>5. ASSUME Reach(NextChar(b), Start(p), z), z.pos <= Len(a) PROVE FALSE
  <2>1. z.pos \in 1 .. Len(a) /\ Peek(b, z.pos) = Peek(a, z.pos)
    BY <1>1, <1>3, <1>5 DEF Peek
  <2>2. z \in States(b)
    <3>1. z.pos \in 1 .. Len(b) + 1
      BY <1>1, <2>1
    <3> QED BY <1>3, <3>1 DEF States
  <2>3. NextChar(b)[z] = z
    BY <1>3, <2>1, <2>2, Stops
  <2>4. z = e
    BY <1>5, <2>3, CharsEnd, CharactersAre, ReachUnique
  <2> QED BY <1>1, <1>3, <1>5, <2>4
<1>6. EndsAtCut(a, b, Start(p), z)
  BY <1>3, <1>4, <1>5 DEF CutState
<1>7. PICK f \in Texts, F \in Seq(Texts) :
        /\ Len(a) >= 1 /\ a[Len(a)] = Quote
        /\ Reach(NextChar(a), Start(p), At(Len(a), TRUE, f, F))
        /\ Reach(NextChar(b), Start(p), At(Len(a), TRUE, f, F))
        /\ z = At(Len(a) + 1, FALSE, <<>>, Append(F, f))
  BY <1>6 DEF EndsAtCut
<1>8. z.pos = Len(a) + 1 /\ z.fields = Append(F, f)
  BY <1>7 DEF At
<1>9. r.pos = Len(a) + 1
  BY <1>1, <1>3, <1>8
<1> QED BY <1>3, <1>7, <1>8, <1>9 DEF CutFields, r

(* A part of a record, and a file that ends with one.                        *)
IsPart(x, row) == \E n \in 1 .. Len(writeRow(row)) - 1 : x = SubSeq(writeRow(row), 1, n)
WithRecord(t, row) == [header |-> t.header, body |-> t.body \o writeRow(row)]

LEMMA PartText ==
  ASSUME NEW t, NEW u, NEW s, IsFile(t, s), NEW row, IsWritten(row, s), NEW x, IsPart(x, row),
         u.header = t.header, u.body = t.body \o x
  PROVE  /\ Lengthened(t, u, s, x) /\ Len(x) \in Nat /\ Len(x) >= 1
         /\ Lengthened(t, WithRecord(t, row), s, writeRow(row))
         /\ Cut(u.body, WithRecord(t, row).body)
<1> DEFINE w == writeRow(row)
           b == t.body
           l == WithRecord(t, row)
<1>1. s \in SchemaValues /\ b \in Texts /\ Len(b) \in Nat
  BY DEF IsFile, Texts
<1>2. /\ w \in Texts /\ Len(w) \in Nat /\ Len(w) >= 2 /\ w[1] = Quote /\ w # <<>>
  <2>1. Len(<<>>) = 0
    OBVIOUS
  <2> QED BY <1>1, <2>1, RowRecord
<1>3. PICK n \in 1 .. Len(w) - 1 : x = SubSeq(w, 1, n)
  BY DEF IsPart
<1>4. l.header = t.header /\ l.body = b \o w
  BY DEF WithRecord
<1> HIDE DEF w, l
<1>5. /\ x \in Texts /\ Len(x) = n /\ n \in Nat /\ n >= 1 /\ n < Len(w)
      /\ \A i \in 1 .. n : x[i] = w[i]
  <2>1. n \in Nat /\ n >= 1 /\ n < Len(w) /\ n <= Len(w)
    BY <1>2
  <2>2. w \in Seq(Characters) /\ 1 \in 1 .. Len(w) /\ n \in 1 .. Len(w)
    BY <1>2, <2>1 DEF Texts
  <2>3. /\ SubSeq(w, 1, n) \in Seq(Characters) /\ Len(SubSeq(w, 1, n)) = n
        /\ \A i \in 1 .. n : SubSeq(w, 1, n)[i] = w[i]
    BY <2>1, <2>2
  <2> QED BY <1>3, <2>1, <2>3 DEF Texts
<1>6. x # <<>> /\ x[1] = Quote
  <2>1. 1 \in 1 .. n
    BY <1>5
  <2>2. Len(<<>>) = 0
    OBVIOUS
  <2> QED BY <1>2, <1>5, <2>1, <2>2
<1>7. Lengthened(t, u, s, x)
  BY <1>5, <1>6, LongerFile
<1>8. Lengthened(t, l, s, w)
  BY <1>2, <1>4, LongerFile
<1>9. Cut(u.body, l.body)
  <2>1. /\ Len(u.body) = Len(b) + n /\ Len(l.body) = Len(b) + Len(w)
        /\ \A i \in 1 .. Len(b) : u.body[i] = b[i] /\ l.body[i] = b[i]
        /\ \A i \in 1 .. n : u.body[Len(b) + i] = x[i]
        /\ \A i \in 1 .. Len(w) : l.body[Len(b) + i] = w[i]
    BY <1>5, <1>7, <1>8 DEF Lengthened
  <2>2. Len(u.body) < Len(l.body)
    BY <1>1, <1>2, <1>5, <2>1
  <2> HIDE DEF b
  <2>3. ASSUME NEW i \in 1 .. Len(u.body) PROVE l.body[i] = u.body[i]
    <3>1. CASE i <= Len(b)
      <4>1. i \in 1 .. Len(b)
        BY <1>1, <3>1
      <4> QED BY <2>1, <4>1
    <3>2. CASE i > Len(b)
      <4> DEFINE j == i - Len(b)
      <4>1. j \in 1 .. n /\ j \in 1 .. Len(w) /\ i = Len(b) + j
        BY <1>1, <1>2, <1>5, <2>1, <3>2
      <4> HIDE DEF j
      <4>2. u.body[Len(b) + j] = x[j] /\ l.body[Len(b) + j] = w[j] /\ x[j] = w[j]
        BY <1>5, <2>1, <4>1
      <4> QED BY <4>1, <4>2
    <3> QED BY <1>1, <3>1, <3>2
  <2> QED BY <2>2, <2>3 DEF Cut
<1> QED BY <1>5, <1>7, <1>8, <1>9 DEF w, l

(* A row that is appended in part to a file that ends with a record.         *)
RowSet(s) == {RowOf("bitmap", s, fields, n) : fields \in Seq(Texts), n \in Nat}
ReadsAsPart(t, u, s, row) ==
  /\ u.body # <<>> /\ Last(u.body) = Quote
  /\ readTable(t, s).rows \in Seq(RowSet(s))
  /\ \E torn \in RowSet(s) :
       /\ readTable(u, s).rows = Append(readTable(t, s).rows, torn)
       /\ SameButLast(torn, row)
       /\ IsPrefix(Last(torn.cells).payload, Last(row.cells).payload)

LEMMA PartAppended ==
  ASSUME NEW t, NEW u, NEW s, IsFile(t, s), LayoutOf(t, s) = "bitmap", EndsClean(t),
         readTable(t, s).ok, NEW row, IsWritten(row, s), NEW x, IsPart(x, row),
         u.header = t.header, u.body = t.body \o x, readTable(u, s).ok
  PROVE  ReadsAsPart(t, u, s, row)
<1> DEFINE l == WithRecord(t, row)
           w == writeRow(row)
           N == Len(t.body)
           r == readCsvRecord(u.body, N + 1)
           e == At(N + Len(w), FALSE, <<>>, Fields(row))
<1>1. /\ s \in SchemaValues /\ s # <<>> /\ t.body \in Texts /\ N \in Nat
  BY DEF IsFile, Texts
<1>2. /\ Lengthened(t, u, s, x) /\ Len(x) \in Nat /\ Len(x) >= 1
      /\ Lengthened(t, l, s, w) /\ Cut(u.body, l.body)
  BY PartText
<1>3. /\ IsLonger(t, u, s) /\ Len(u.body) = N + Len(x) /\ IsFile(u, s) /\ u.body \in Texts
      /\ LayoutOf(u, s) = "bitmap" /\ Len(u.body) \in Nat
  BY <1>1, <1>2 DEF Lengthened, IsLonger, IsFile, LayoutOf
<1>4. /\ Len(l.body) = N + Len(w) /\ Has(l.body, N + 1, w) /\ l.body \in Texts
      /\ l.body[N + 1] = Quote
  BY <1>2 DEF Lengthened, IsLonger, IsFile
<1>5. /\ Fields(row) \in Seq(Texts) /\ Fields(row) # <<>> /\ w = writeCsvRecord(Fields(row))
      /\ Len(w) \in Nat /\ Len(w) >= 2 /\ Len(Fields(row)) = Len(s) + 2
  BY <1>1, RowRecord
<1> HIDE DEF l, w
<1>6. PICK z : TableEnds(t, s, z)
  BY TableAt
<1>7. z.ok /\ readTable(t, s).rows = z.rows /\ z.pos = N + 1
  BY <1>6 DEF TableEnds
<1>8. z \in TableStates(u, s) /\ Reach(NextRow(u, s), Beginning(u, s), z)
  BY <1>3, <1>6, <1>7, FileEnds DEF SameRows
<1>9. N + 1 \in 1 .. Len(u.body) /\ N + 1 \in 1 .. Len(l.body)
  BY <1>1, <1>2, <1>3, <1>4, <1>5
<1>10. ~r.bad /\ IsRow("bitmap", s, r.fields, z.rows)
  BY <1>3, <1>7, <1>8, <1>9, MustBeRow
<1>11. /\ Reach(NextChar(l.body), Start(N + 1), e) /\ NextChar(l.body)[e] = e
  <2>1. RecordRead(l.body, N + 1, Fields(row))
    BY <1>4, <1>5, <1>9, CharactersAre, RecordReads
  <2>2. N + 1 + Len(w) - 1 = N + Len(w)
    BY <1>1, <1>5
  <2> QED BY <1>5, <2>1, <2>2 DEF RecordRead
<1>12. e.pos > Len(u.body) /\ e.fields = Fields(row) /\ ~e.bad /\ ~e.insideQuotes
  <2>1. e.pos = N + Len(w) /\ e.fields = Fields(row) /\ ~e.bad /\ ~e.insideQuotes
    BY DEF At
  <2>2. Len(u.body) < Len(l.body)
    BY <1>2 DEF Cut
  <2>3. e.pos > Len(u.body)
    BY <1>1, <1>3, <1>4, <1>5, <2>1, <2>2
  <2> QED BY <2>1, <2>3
<1> HIDE DEF e
<1>13. PICK f \in Texts, F \in Seq(Texts) : CutFields(u.body, l.body, N + 1, f, F)
  BY <1>2, <1>3, <1>4, <1>9, <1>10, <1>11, <1>12, MustEndAtCut
<1>14. /\ r.fields = Append(F, f) /\ r.pos = Len(u.body) + 1 /\ u.body[Len(u.body)] = Quote
       /\ Reach(NextChar(l.body), Start(N + 1), At(Len(u.body), TRUE, f, F))
  BY <1>13 DEF CutFields
<1>15. Grown(f, F, e)
  <2> DEFINE m == At(Len(u.body), TRUE, f, F)
  <2>1. m.insideQuotes /\ m.field = f /\ m.fields = F
    BY DEF At
  <2>2. Len(u.body) \in 1 .. Len(l.body) + 1
    BY <1>3, <1>2, <1>9, <1>4, <1>5, <1>1 DEF Cut
  <2>3. m \in States(l.body) /\ Reach(NextChar(l.body), Start(N + 1), m)
    BY <1>14, <2>2, AtIs
  <2> HIDE DEF m
  <2>4. Reach(NextChar(l.body), m, e)
    BY <1>4, <1>11, <2>3, CharsEnd, CharactersAre, ReachToEnd
  <2>5. Grown(m.field, m.fields, e)
    BY <1>4, <2>1, <2>3, <2>4, CharactersAre, Grows
  <2> QED BY <2>1, <2>5
<1>16. AlmostSame(r.fields, Fields(row)) /\ r.fields \in Seq(Texts) /\ Len(r.fields) = Len(s) + 2
  <2>1. Len(r.fields) = Len(s) + 2 /\ Len(s) \in Nat
    <3>1. Len(r.fields) = Len(s) + Offset("bitmap") /\ Len(s) \in Nat
      BY <1>1, <1>10, RowHasFields
    <3> QED BY <3>1 DEF Offset
  <2>2. /\ Append(F, f) \in Seq(Texts) /\ Len(Append(F, f)) = Len(F) + 1 /\ Len(F) \in Nat
        /\ Append(F, f)[Len(F) + 1] = f /\ \A i \in 1 .. Len(F) : Append(F, f)[i] = F[i]
    OBVIOUS
  <2>3. Len(F) + 1 = Len(s) + 2
    BY <1>14, <2>1, <2>2
  <2>4. /\ \A i \in 1 .. Len(F) : Fields(row)[i] = F[i]
        /\ Extends(f, Fields(row)[Len(F) + 1])
    BY <1>12, <1>15 DEF Grown
  <2> HIDE DEF r
  <2> QED BY <1>5, <1>14, <2>1, <2>2, <2>3, <2>4 DEF AlmostSame
<1> DEFINE torn == RowOf("bitmap", s, r.fields, Len(z.rows) + 1)
           new == Data(r.pos, Append(z.rows, torn))
<1>17. new \in TableStates(u, s) /\ Reach(NextRow(u, s), Beginning(u, s), new)
  <2>1. MoreRow(u, s, z)
    BY <1>3, <1>7, <1>8, <1>9, <1>10, OneMoreRow
  <2> QED BY <1>3, <1>7, <2>1 DEF MoreRow
<1>18. new.ok /\ new.pos = Len(u.body) + 1 /\ new.rows = Append(z.rows, torn)
  <2>1. new.ok /\ new.pos = r.pos /\ new.rows = Append(z.rows, torn)
    BY DEF Data
  <2> QED BY <1>14, <2>1
<1>19. RowOf("bitmap", s, Fields(row), 1) = row
  BY <1>1, RowOfFields DEF IsWritten
<1> HIDE DEF r
<1>20. SameButLast(torn, row) /\ IsPrefix(Last(torn.cells).payload, Last(row.cells).payload)
  <2>1. torn = RowOf("bitmap", s, r.fields, Len(z.rows) + 1)
    OBVIOUS
  <2> HIDE DEF torn
  <2> QED BY <1>1, <1>5, <1>16, <1>19, <2>1, RowsAlmostSame
<1> HIDE DEF new, torn
<1>21. readTable(u, s).rows = Append(z.rows, torn)
  <2>1. readTable(u, s) = [ok |-> TRUE, rows |-> new.rows]
    BY <1>3, <1>17, <1>18, ReadToTheEnd
  <2> QED BY <1>18, <2>1
<1>22. u.body # <<>> /\ Last(u.body) = Quote
  <2>1. Len(<<>>) = 0
    OBVIOUS
  <2> QED BY <1>1, <1>2, <1>3, <1>14, <2>1 DEF Last
<1>23. z.rows \in Seq(RowSet(s)) /\ torn \in RowSet(s)
  <2>1. z.rows \in Seq(RowSet(s))
    BY <1>3, <1>8 DEF TableStates, RowSet
  <2>2. Len(z.rows) + 1 \in Nat
    BY <2>1
  <2> DEFINE n == Len(z.rows) + 1
  <2>3. torn = RowOf("bitmap", s, r.fields, n)
    BY DEF torn
  <2> HIDE DEF n
  <2>4. n \in Nat
    BY <2>2 DEF n
  <2>5. torn \in RowSet(s)
    BY <1>16, <2>3, <2>4 DEF RowSet
  <2> QED BY <2>1, <2>5
<1> QED BY <1>7, <1>20, <1>21, <1>22, <1>23 DEF ReadsAsPart

(* A record that follows one without its newline: the quote it begins with   *)
(* makes the quote before it one of a field.                                 *)
GluedAt(t, u, s, c, f, F) ==
  LET N == Len(t.body)
  IN  /\ c \in TableStates(u, s) /\ c.ok /\ c.pos \in 1 .. N
      /\ Reach(NextRow(u, s), Beginning(u, s), c)
      /\ Len(F) + 1 = Len(s) + 2 /\ Len(F) \in Nat /\ c.rows \in Seq(RowSet(s))
      /\ readTable(t, s).rows = Append(c.rows, RowOf("bitmap", s, Append(F, f), Len(c.rows) + 1))
      /\ N + 1 \in 1 .. Len(u.body)
      /\ Reach(NextChar(u.body), Start(c.pos), At(N + 2, TRUE, Append(f, Quote), F))

LEMMA Glued ==
  ASSUME NEW t, NEW u, NEW s, IsLonger(t, u, s), LayoutOf(t, s) = "bitmap", ~EndsClean(t),
         t.body # <<>> => Last(t.body) \in {NL, Quote}, readTable(t, s).ok
  PROVE  \E c : \E f \in Texts, F \in Seq(Texts) : GluedAt(t, u, s, c, f, F)
<1> DEFINE N == Len(t.body)
<1>1. /\ IsFile(t, s) /\ IsFile(u, s) /\ s \in SchemaValues /\ s # <<>> /\ t.body \in Texts
      /\ u.body \in Texts /\ N \in Nat /\ Len(u.body) \in Nat /\ N + 1 <= Len(u.body)
      /\ u.body[N + 1] = Quote /\ \A i \in 1 .. N : u.body[i] = t.body[i]
  BY DEF IsLonger, IsFile, Texts, Cut
<1>2. PICK z : TableEnds(t, s, z)
  BY <1>1, TableAt
<1>3. z.ok /\ readTable(t, s).rows = z.rows
  BY <1>2 DEF TableEnds
<1>4. CutRow(t, u, s, z)
  BY <1>2, <1>3, FileEnds
<1>5. PICK c \in TableStates(t, s) :
        /\ c.ok /\ c.pos \in 1 .. N /\ c \in TableStates(u, s)
        /\ Reach(NextRow(u, s), Beginning(u, s), c)
        /\ TakesRow(t, s, c, z)
        /\ \E y : /\ EndsAtCut(t.body, u.body, Start(c.pos), y)
                  /\ readCsvRecord(t.body, c.pos).fields = y.fields
  BY <1>4 DEF CutRow
<1> DEFINE r == readCsvRecord(t.body, c.pos)
<1>6. PICK f \in Texts, F \in Seq(Texts) :
        /\ N >= 1 /\ t.body[N] = Quote /\ r.fields = Append(F, f)
        /\ Reach(NextChar(u.body), Start(c.pos), At(N, TRUE, f, F))
  <2>1. PICK y : EndsAtCut(t.body, u.body, Start(c.pos), y) /\ r.fields = y.fields
    BY <1>5
  <2>2. PICK f \in Texts, F \in Seq(Texts) :
          /\ N >= 1 /\ t.body[N] = Quote
          /\ Reach(NextChar(u.body), Start(c.pos), At(N, TRUE, f, F))
          /\ y = At(N + 1, FALSE, <<>>, Append(F, f))
    BY <2>1 DEF EndsAtCut
  <2>3. y.fields = Append(F, f)
    BY <2>2 DEF At
  <2> QED BY <2>1, <2>2, <2>3
<1>7. /\ IsRow("bitmap", s, r.fields, c.rows)
      /\ z.rows = Append(c.rows, RowOf("bitmap", s, r.fields, Len(c.rows) + 1))
  <2>1. /\ IsRow(LayoutOf(t, s), s, r.fields, c.rows)
        /\ z = Data(r.pos, Append(c.rows, RowOf(LayoutOf(t, s), s, r.fields, Len(c.rows) + 1)))
    BY <1>5 DEF TakesRow
  <2>2. /\ IsRow("bitmap", s, r.fields, c.rows)
        /\ z = Data(r.pos, Append(c.rows, RowOf("bitmap", s, r.fields, Len(c.rows) + 1)))
    BY <2>1
  <2> HIDE DEF r
  <2>3. z.rows = Append(c.rows, RowOf("bitmap", s, r.fields, Len(c.rows) + 1))
    BY <2>2 DEF Data
  <2> QED BY <2>2, <2>3
<1>8. Len(F) + 1 = Len(s) + 2 /\ Len(F) \in Nat
  <2> HIDE DEF r
  <2>1. Len(r.fields) = Len(s) + Offset("bitmap")
    BY <1>1, <1>7, RowHasFields
  <2>2. Len(Append(F, f)) = Len(F) + 1 /\ Len(F) \in Nat
    OBVIOUS
  <2> QED BY <1>6, <2>1, <2>2 DEF Offset
<1>9. Reach(NextChar(u.body), Start(c.pos), At(N + 2, TRUE, Append(f, Quote), F))
  <2>1. N \in 1 .. Len(u.body) /\ N + 1 \in 1 .. Len(u.body) /\ u.body[N] = Quote
    BY <1>1, <1>6
  <2> HIDE DEF N
  <2>2. f \in Texts /\ F \in Seq(Texts) /\ u.body \in Texts
        /\ Reach(NextChar(u.body), Start(c.pos), At(N, TRUE, f, F)) /\ u.body[N + 1] = Quote
    BY <1>1, <1>6
  <2> HIDE DEF r
  <2> QED BY <2>1, <2>2, Doubles, CharactersAre
<1>10. c.rows \in Seq(RowSet(s)) /\ N + 1 \in 1 .. Len(u.body)
  BY <1>1, <1>5 DEF TableStates, RowSet
<1> HIDE DEF r
<1> QED BY <1>3, <1>5, <1>6, <1>7, <1>8, <1>9, <1>10 DEF GluedAt

(* From there its fields are read to its newline, if that is reached.        *)
LEMMA GluedReads ==
  ASSUME NEW t, NEW u, NEW s, IsLonger(t, u, s), NEW row, IsWritten(row, s),
         Has(u.body, Len(t.body) + 1, writeRow(row)),
         Len(u.body) = Len(t.body) + Len(writeRow(row)),
         NEW v, NEW f \in Texts, NEW F \in Seq(Texts),
         Reach(NextChar(u.body), v, At(Len(t.body) + 2, TRUE, f, F))
  PROVE  AllRead(u.body, v, Len(u.body), f, F, Fields(row))
<1> DEFINE N == Len(t.body)
<1>1. s \in SchemaValues /\ u.body \in Texts /\ N \in Nat
  BY DEF IsLonger, IsFile, Texts
<1>2. /\ Fields(row) \in Seq(Texts) /\ Fields(row) # <<>>
      /\ writeRow(row) = writeCsvRecord(Fields(row))
      /\ Len(writeRow(row)) \in Nat /\ Len(writeRow(row)) >= 2
  BY <1>1, RowRecord
<1> DEFINE p == N + 1
           w == writeCsvRecord(Fields(row))
<1>3. p \in Nat /\ p + 1 = N + 2 /\ p + 1 \in 1 .. Len(u.body) + 1 /\ p + Len(w) - 1 = Len(u.body)
  BY <1>1, <1>2
<1>4. Has(u.body, p, w) /\ Reach(NextChar(u.body), v, At(p + 1, TRUE, f, F))
  BY <1>2, <1>3
<1> HIDE DEF p
<1>5. AllRead(u.body, v, p + Len(w) - 1, f, F, Fields(row))
  BY <1>1, <1>2, <1>3, <1>4, CharactersAre, FieldsRead
<1> QED BY <1>3, <1>5

(* A record that follows one without its newline whole: too many fields.     *)
LEMMA GluedWhole ==
  ASSUME NEW t, NEW u, NEW s, IsFile(t, s), LayoutOf(t, s) = "bitmap", ~EndsClean(t),
         t.body # <<>> => Last(t.body) \in {NL, Quote}, readTable(t, s).ok,
         NEW row, IsWritten(row, s), u.header = t.header, u.body = t.body \o writeRow(row)
  PROVE  ~readTable(u, s).ok
<1> SUFFICES ASSUME readTable(u, s).ok PROVE FALSE
  OBVIOUS
<1> DEFINE w == writeRow(row)
           N == Len(t.body)
<1>1. /\ s \in SchemaValues /\ s # <<>> /\ t.body \in Texts /\ N \in Nat
  BY DEF IsFile, Texts
<1>2. /\ w \in Texts /\ w # <<>> /\ w[1] = Quote /\ Fields(row) \in Seq(Texts)
      /\ Len(Fields(row)) = Len(s) + 2
  <2>1. Len(<<>>) = 0
    OBVIOUS
  <2> QED BY <1>1, <2>1, RowRecord
<1>3. Lengthened(t, u, s, w)
  <2>1. u.body = t.body \o w
    OBVIOUS
  <2> HIDE DEF w
  <2> QED BY <1>2, <2>1, LongerFile
<1>4. /\ IsLonger(t, u, s) /\ IsFile(u, s) /\ u.body \in Texts /\ LayoutOf(u, s) = "bitmap"
      /\ Has(u.body, N + 1, w) /\ Len(u.body) = N + Len(w) /\ Len(u.body) \in Nat /\ N < Len(u.body)
  BY <1>3 DEF Lengthened, IsLonger, IsFile, LayoutOf, Texts, Cut
<1>5a. PICK c : \E f \in Texts, F \in Seq(Texts) : GluedAt(t, u, s, c, f, F)
  BY <1>4, Glued
<1>5. PICK f \in Texts, F \in Seq(Texts) : GluedAt(t, u, s, c, f, F)
  BY <1>5a
<1> DEFINE r == readCsvRecord(u.body, c.pos)
<1>6. /\ c \in TableStates(u, s) /\ c.ok /\ c.pos \in 1 .. N
      /\ Reach(NextRow(u, s), Beginning(u, s), c)
      /\ Len(F) + 1 = Len(s) + 2 /\ Len(F) \in Nat
      /\ Reach(NextChar(u.body), Start(c.pos), At(N + 2, TRUE, Append(f, Quote), F))
  BY <1>5 DEF GluedAt
<1>7. c.pos \in 1 .. Len(u.body) /\ c.pos \in 1 .. Len(u.body) + 1
  BY <1>1, <1>4, <1>6
<1>8. ~r.bad /\ IsRow("bitmap", s, r.fields, c.rows)
  BY <1>4, <1>6, <1>7, MustBeRow
<1>9. Append(f, Quote) \in Texts
  BY CharactersAre DEF Texts
<1>10. AllRead(u.body, Start(c.pos), Len(u.body), Append(f, Quote), F, Fields(row))
  BY <1>4, <1>6, <1>9, GluedReads
<1>11. PICK G \in Seq(Texts) :
         /\ Len(G) = Len(F) + Len(Fields(row))
         /\ Reach(NextChar(u.body), Start(c.pos), At(Len(u.body), FALSE, <<>>, G))
         /\ NextChar(u.body)[At(Len(u.body), FALSE, <<>>, G)] = At(Len(u.body), FALSE, <<>>, G)
  BY <1>10 DEF AllRead
<1>12. r.fields = G
  <2> DEFINE z == At(Len(u.body), FALSE, <<>>, G)
  <2>1. PICK y : RecordEnds(u.body, c.pos, y)
    BY <1>4, <1>7, CharactersAre, RecordAt
  <2>2. y = z
    <3>1. /\ Reach(NextChar(u.body), Start(c.pos), z) /\ NextChar(u.body)[z] = z
      BY <1>11
    <3> HIDE DEF z
    <3> QED BY <1>4, <2>1, <3>1, CharactersAre, CharsEnd, ReachUnique DEF RecordEnds
  <2>3. r.fields = y.fields /\ z.fields = G
    BY <2>1 DEF RecordEnds, At
  <2> HIDE DEF z, r
  <2> QED BY <2>2, <2>3
<1> HIDE DEF r
<1>13. Len(r.fields) = Len(s) + 2 /\ Len(s) \in Nat
  <2>1. Len(r.fields) = Len(s) + Offset("bitmap") /\ Len(s) \in Nat
    BY <1>1, <1>8, RowHasFields
  <2> QED BY <2>1 DEF Offset
<1> QED BY <1>2, <1>6, <1>11, <1>12, <1>13

(* A record that follows one without its newline in part: if the file is     *)
(* read, the last cell before it is longer, and that is all.                 *)
ReadsGlued(t, u, s) ==
  /\ u.body # <<>> /\ Last(u.body) = Quote
  /\ \E rows \in Seq(RowSet(s)), old, new \in RowSet(s) :
       /\ readTable(t, s).rows = Append(rows, old)
       /\ readTable(u, s).rows = Append(rows, new)
       /\ SameButLast(new, old)
       /\ IsPrefix(Last(old.cells).payload, Last(new.cells).payload)

LEMMA GluedPart ==
  ASSUME NEW t, NEW u, NEW s, IsFile(t, s), LayoutOf(t, s) = "bitmap", ~EndsClean(t),
         t.body # <<>> => Last(t.body) \in {NL, Quote}, readTable(t, s).ok,
         NEW row, IsWritten(row, s), NEW x, IsPart(x, row),
         u.header = t.header, u.body = t.body \o x, readTable(u, s).ok
  PROVE  ReadsGlued(t, u, s)
<1> DEFINE l == WithRecord(t, row)
           w == writeRow(row)
           N == Len(t.body)
<1>1. /\ s \in SchemaValues /\ s # <<>> /\ t.body \in Texts /\ N \in Nat
  BY DEF IsFile, Texts
<1>2. /\ Lengthened(t, u, s, x) /\ Len(x) \in Nat /\ Len(x) >= 1
      /\ Lengthened(t, l, s, w) /\ Cut(u.body, l.body)
  BY PartText
<1>3. /\ IsLonger(t, u, s) /\ Len(u.body) = N + Len(x) /\ IsFile(u, s) /\ u.body \in Texts
      /\ LayoutOf(u, s) = "bitmap" /\ Len(u.body) \in Nat
  BY <1>1, <1>2 DEF Lengthened, IsLonger, IsFile, LayoutOf
<1>4. /\ IsLonger(t, l, s) /\ Len(l.body) = N + Len(w) /\ Has(l.body, N + 1, w)
      /\ l.body \in Texts /\ Len(u.body) < Len(l.body)
  BY <1>2 DEF Lengthened, IsLonger, IsFile, Cut
<1>5. Fields(row) \in Seq(Texts) /\ Len(w) \in Nat /\ Len(w) >= 2
  BY <1>1, RowRecord
<1> HIDE DEF l, w
<1>6. PICK c : \E f \in Texts, F \in Seq(Texts) : GluedAt(t, u, s, c, f, F)
  BY <1>3, Glued
<1>7. PICK f \in Texts, F \in Seq(Texts) : GluedAt(t, u, s, c, f, F)
  BY <1>6
<1> DEFINE r == readCsvRecord(u.body, c.pos)
           h == Append(f, Quote)
           m == At(N + 2, TRUE, h, F)
           n == Len(c.rows) + 1
           old == RowOf("bitmap", s, Append(F, f), n)
           new == RowOf("bitmap", s, r.fields, n)
<1>8. /\ c \in TableStates(u, s) /\ c.ok /\ c.pos \in 1 .. N
      /\ Reach(NextRow(u, s), Beginning(u, s), c)
      /\ Len(F) + 1 = Len(s) + 2 /\ Len(F) \in Nat /\ c.rows \in Seq(RowSet(s))
      /\ readTable(t, s).rows = Append(c.rows, old)
      /\ N + 1 \in 1 .. Len(u.body)
      /\ Reach(NextChar(u.body), Start(c.pos), m)
  BY <1>7 DEF GluedAt
<1>9. c.pos \in 1 .. Len(u.body) /\ c.pos \in 1 .. Len(u.body) + 1
      /\ N + 2 \in 1 .. Len(u.body) + 1
  BY <1>1, <1>3, <1>8
<1>10. ~r.bad /\ IsRow("bitmap", s, r.fields, c.rows)
  BY <1>3, <1>8, <1>9, MustBeRow
<1>11. h \in Texts /\ Extends(f, h)
  <2>1. f \in Seq(Characters) /\ Quote \in Characters
    BY CharactersAre DEF Texts
  <2> QED BY <2>1 DEF Texts, Extends
<1>12. /\ m \in States(u.body) /\ m.insideQuotes = TRUE /\ m.field = h /\ m.fields = F
       /\ m.bad = FALSE
  <2>1. m \in States(u.body)
    BY <1>9, <1>11, AtIs
  <2> QED BY <2>1 DEF At
<1> HIDE DEF h
<1>13. Reach(NextChar(l.body), Start(c.pos), m)
  <2> HIDE DEF m
  <2>1. CutState(u.body, l.body, Start(c.pos), m)
    BY <1>2, <1>3, <1>4, <1>8, <1>9, CharactersAre, CutReads
  <2>2. ~EndsAtCut(u.body, l.body, Start(c.pos), m)
    <3> SUFFICES ASSUME EndsAtCut(u.body, l.body, Start(c.pos), m) PROVE FALSE
      OBVIOUS
    <3>1. PICK g, G : m = At(Len(u.body) + 1, FALSE, <<>>, Append(G, g))
      BY DEF EndsAtCut
    <3>2. m.insideQuotes = FALSE
      BY <3>1 DEF At
    <3> QED BY <1>12, <3>2
  <2> QED BY <1>12, <2>1, <2>2 DEF CutState
<1>14. AllRead(l.body, Start(c.pos), Len(l.body), h, F, Fields(row))
  <2>1. /\ Has(l.body, Len(t.body) + 1, writeRow(row))
        /\ Len(l.body) = Len(t.body) + Len(writeRow(row))
    BY <1>4 DEF w
  <2>2. Reach(NextChar(l.body), Start(c.pos), At(Len(t.body) + 2, TRUE, h, F))
    BY <1>13
  <2> HIDE DEF N, m
  <2> QED BY <1>4, <1>11, <2>1, <2>2, GluedReads
<1>15. PICK G \in Seq(Texts) :
         /\ Reach(NextChar(l.body), Start(c.pos), At(Len(l.body), FALSE, <<>>, G))
         /\ NextChar(l.body)[At(Len(l.body), FALSE, <<>>, G)] = At(Len(l.body), FALSE, <<>>, G)
  BY <1>14 DEF AllRead
<1> DEFINE e == At(Len(l.body), FALSE, <<>>, G)
<1>16. /\ Reach(NextChar(l.body), Start(c.pos), e) /\ NextChar(l.body)[e] = e
       /\ e.pos > Len(u.body)
  <2>1. e.pos = Len(l.body)
    BY DEF At
  <2>2. e.pos > Len(u.body)
    BY <1>1, <1>3, <1>4, <1>5, <2>1
  <2> QED BY <1>15, <2>2
<1> HIDE DEF e, m
<1>17. PICK f2 \in Texts, F2 \in Seq(Texts) : CutFields(u.body, l.body, c.pos, f2, F2)
  BY <1>2, <1>3, <1>4, <1>9, <1>10, <1>16, MustEndAtCut
<1>18. r.pos = Len(u.body) + 1 /\ u.body[Len(u.body)] = Quote
  BY <1>17 DEF CutFields
<1>19. PICK y : RecordEnds(u.body, c.pos, y)
  BY <1>3, <1>9, CharactersAre, RecordAt
<1>20. /\ Reach(NextChar(u.body), Start(c.pos), y) /\ NextChar(u.body)[y] = y
       /\ ~y.bad /\ ~y.insideQuotes /\ r.fields = y.fields /\ r.fields \in Seq(Texts)
  BY <1>10, <1>19 DEF RecordEnds
<1>21. Grown(h, F, y)
  <2>1. Reach(NextChar(u.body), m, y)
    BY <1>3, <1>8, <1>12, <1>20, CharsEnd, CharactersAre, ReachToEnd
  <2>2. Grown(m.field, m.fields, y)
    BY <1>3, <1>12, <2>1, CharactersAre, Grows
  <2> QED BY <1>12, <2>2
<1> HIDE DEF r
<1>22. AlmostSame(Append(F, f), r.fields) /\ Len(Append(F, f)) = Len(s) + 2
       /\ Append(F, f) \in Seq(Texts)
  <2> DEFINE A == Append(F, f)
             k == Len(F) + 1
  <2>1. /\ A \in Seq(Texts) /\ Len(A) = k /\ A[k] = f /\ k - 1 = Len(F)
        /\ \A i \in 1 .. Len(F) : A[i] = F[i]
    BY <1>8
  <2>2. Len(r.fields) = k
    <3>1. Len(r.fields) = Len(s) + Offset("bitmap")
      BY <1>1, <1>10, RowHasFields
    <3> QED BY <1>8, <3>1 DEF Offset
  <2>3. /\ \A i \in 1 .. Len(F) : r.fields[i] = F[i]
        /\ Extends(h, r.fields[k])
    BY <1>20, <1>21 DEF Grown
  <2>4. r.fields[k] \in Texts
    <3>1. k \in 1 .. Len(r.fields)
      BY <1>8, <2>2
    <3> QED BY <1>20, <3>1
  <2> HIDE DEF A, k
  <2>5. Extends(f, r.fields[k])
    <3> DEFINE g == r.fields[k]
    <3>1. /\ Len(f) \in Nat /\ Len(h) \in Nat /\ Len(g) \in Nat
          /\ Len(f) <= Len(h) /\ \A i \in 1 .. Len(f) : h[i] = f[i]
          /\ Len(h) <= Len(g) /\ \A i \in 1 .. Len(h) : g[i] = h[i]
      BY <1>11, <2>3, <2>4 DEF Extends, Texts
    <3> HIDE DEF g
    <3>2. Len(f) <= Len(g)
      BY <3>1
    <3>3. ASSUME NEW i \in 1 .. Len(f) PROVE g[i] = f[i]
      <4>1. i \in 1 .. Len(h)
        BY <3>1
      <4> QED BY <3>1, <4>1
    <3> QED BY <3>2, <3>3 DEF Extends, g
  <2>6. AlmostSame(A, r.fields)
    BY <2>1, <2>2, <2>3, <2>5 DEF AlmostSame
  <2>7. Len(A) = Len(s) + 2
    BY <1>8, <2>1 DEF k
  <2> QED BY <2>1, <2>6, <2>7 DEF A
<1>23. SameButLast(new, old) /\ IsPrefix(Last(old.cells).payload, Last(new.cells).payload)
  <2>1. new = RowOf("bitmap", s, r.fields, n) /\ old = RowOf("bitmap", s, Append(F, f), n)
    OBVIOUS
  <2> HIDE DEF new, old, n
  <2> QED BY <1>1, <1>20, <1>22, <2>1, RowsAlmostSame
<1>24. MoreRow(u, s, c)
  BY <1>3, <1>8, <1>9, <1>10, OneMoreRow DEF r
<1> DEFINE d == Data(r.pos, Append(c.rows, new))
<1>25. d \in TableStates(u, s) /\ Reach(NextRow(u, s), Beginning(u, s), d)
  BY <1>3, <1>24 DEF MoreRow, r
<1>26. d.ok /\ d.pos = Len(u.body) + 1 /\ d.rows = Append(c.rows, new)
  <2>1. d.ok /\ d.pos = r.pos /\ d.rows = Append(c.rows, new)
    BY DEF Data
  <2> QED BY <1>18, <2>1
<1>27. old \in RowSet(s) /\ new \in RowSet(s)
  <2>1. n \in Nat
    BY <1>8
  <2>2. old = RowOf("bitmap", s, Append(F, f), n) /\ new = RowOf("bitmap", s, r.fields, n)
    OBVIOUS
  <2> DEFINE A == Append(F, f)
  <2>3. A \in Seq(Texts) /\ old = RowOf("bitmap", s, A, n)
    BY <1>22, <2>2
  <2> HIDE DEF n, old, new, A
  <2> QED BY <1>20, <2>1, <2>2, <2>3 DEF RowSet
<1> HIDE DEF d, new, old
<1>28. readTable(u, s).rows = Append(c.rows, new)
  <2>1. readTable(u, s) = [ok |-> TRUE, rows |-> d.rows]
    BY <1>3, <1>25, <1>26, ReadToTheEnd
  <2> QED BY <1>26, <2>1
<1>29. u.body # <<>> /\ Last(u.body) = Quote
  <2>1. Len(<<>>) = 0
    OBVIOUS
  <2> QED BY <1>1, <1>2, <1>3, <1>18, <2>1 DEF Last
<1> QED BY <1>8, <1>23, <1>27, <1>28, <1>29 DEF ReadsGlued

(* The rows that are read fit the schema; IDs by place end with the digits.  *)
PlacesFit(t, s, rows) == LayoutOf(t, s) = "noid" => Len(rows) <= 9

LEMMA LayoutIs ==
  ASSUME NEW t, NEW s
  PROVE  LayoutOf(t, s) \in {"noid", "nobitmap", "bitmap"}
BY DEF LayoutOf, Layout

LEMMA TableFits ==
  ASSUME NEW t, NEW s, IsFile(t, s), readTable(t, s).ok, PlacesFit(t, s, readTable(t, s).rows)
  PROVE  RowsFit(readTable(t, s).rows, s)
<1> DEFINE layout == LayoutOf(t, s)
           next == NextRow(t, s)
           V == TableStates(t, s)
           InPlace(rows) == layout = "noid" => \A i \in DOMAIN rows : rows[i].id = i
           Fits(d) == d.ok /\ PlacesFit(t, s, d.rows) => RowsFit(d.rows, s) /\ InPlace(d.rows)
           S == {d \in V : Fits(d)}
<1>1. s \in SchemaValues /\ next \in [V -> V] /\ DOMAIN Digits = 1 .. 9
      /\ layout \in {"noid", "nobitmap", "bitmap"}
  BY RowsEnd, DigitsDiffer, LayoutIs DEF IsFile
<1>2. PICK z : TableEnds(t, s, z)
  BY TableAt
<1>3. z.ok /\ readTable(t, s).rows = z.rows /\ Reach(next, Beginning(t, s), z)
  BY <1>2 DEF TableEnds
<1>4. Beginning(t, s) \in S
  <2>1. Beginning(t, s).rows = <<>> /\ Beginning(t, s) \in V
    BY BeginningIs DEF Beginning
  <2>2. RowsFit(<<>>, s) /\ InPlace(<<>>)
    BY DEF RowsFit
  <2> QED BY <2>1, <2>2
<1>5. ASSUME NEW d \in S, next[d] # d PROVE next[d] \in S
  <2> DEFINE new == next[d]
             r == readCsvRecord(t.body, d.pos)
             n == Len(d.rows) + 1
             row == RowOf(layout, s, r.fields, n)
  <2>1. new \in V /\ d.ok /\ (new.ok => TakesRow(t, s, d, new))
    BY <1>5, RowSteps
  <2> SUFFICES ASSUME new.ok, PlacesFit(t, s, new.rows)
               PROVE  RowsFit(new.rows, s) /\ InPlace(new.rows)
    BY <2>1
  <2>2. /\ r.fields \in Seq(Texts) /\ IsRow(layout, s, r.fields, d.rows)
        /\ new = Data(r.pos, Append(d.rows, row))
    BY <2>1 DEF TakesRow
  <2>3. new.rows = Append(d.rows, row)
    BY <2>2 DEF Data
  <2> HIDE DEF new, r
  <2>4. PICK R : d.rows \in Seq(R)
    BY DEF TableStates
  <2>5. /\ Len(d.rows) \in Nat /\ DOMAIN d.rows = 1 .. Len(d.rows)
        /\ Len(new.rows) = n /\ DOMAIN new.rows = 1 .. n /\ new.rows[n] = row
        /\ \A i \in 1 .. Len(d.rows) : new.rows[i] = d.rows[i]
    <3> HIDE DEF row
    <3>1. d.rows \in Seq(R \cup {row}) /\ row \in R \cup {row}
      BY <2>4
    <3> DEFINE T == R \cup {row}
               q == d.rows
    <3> HIDE DEF T, q
    <3>2. q \in Seq(T) /\ row \in T /\ new.rows = Append(q, row)
      BY <2>3, <3>1 DEF T, q
    <3>3. /\ Len(q) \in Nat /\ DOMAIN q = 1 .. Len(q) /\ Len(new.rows) = Len(q) + 1
          /\ DOMAIN new.rows = 1 .. Len(q) + 1 /\ new.rows[Len(q) + 1] = row
          /\ \A i \in 1 .. Len(q) : new.rows[i] = q[i]
      BY <3>2
    <3> QED BY <3>3 DEF q
  <2>n. n \in Nat /\ n >= 1
    BY <2>5
  <2>6. layout = "noid" => n \in 1 .. 9
    <3> HIDE DEF n, S, next, V, row
    <3>1. layout = "noid" => Len(new.rows) <= 9
      BY DEF PlacesFit
    <3> HIDE DEF layout
    <3> QED BY <2>5, <2>n, <3>1
  <2>7. PlacesFit(t, s, d.rows)
    BY <2>5, <2>6 DEF PlacesFit
  <2>8. RowsFit(d.rows, s) /\ InPlace(d.rows)
    BY <2>1, <2>7
  <2> HIDE DEF n, row, layout
  <2>9. /\ row \in StoredRows /\ RowFits(row, s)
        /\ layout = "noid" => row.id = n
        /\ layout # "noid" => \A j \in DOMAIN d.rows : d.rows[j].id # row.id
    <3>1. /\ r.fields \in Seq(Seq(Characters)) /\ IsRow(layout, s, r.fields, d.rows)
          /\ layout = "noid" => n \in DOMAIN Digits
      BY <1>1, <2>2, <2>6 DEF Texts
    <3> DEFINE before == d.rows
               fields == r.fields
    <3> HIDE DEF S, next, V, before, fields
    <3>2. /\ s \in SchemaValues /\ layout \in {"noid", "nobitmap", "bitmap"}
          /\ fields \in Seq(Seq(Characters)) /\ IsRow(layout, s, fields, before)
          /\ layout = "noid" => n \in DOMAIN Digits
      BY <1>1, <3>1 DEF before, fields
    <3>3. row = RowOf(layout, s, fields, n)
      BY DEF row, fields
    <3>4. TakenForRow(layout, s, fields, before, n)
      BY <3>2 DEF TakenForRow
    <3>5. FitsAsRead(RowOf(layout, s, fields, n), s, layout, before, n)
      BY <3>4, RecordFits, Zenon
    <3> QED BY <3>3, <3>5 DEF before, FitsAsRead
  <2>10. \A j \in DOMAIN d.rows : d.rows[j].id # row.id
    BY <2>5, <2>8, <2>9 DEF n
  <2>11. RowsFit(new.rows, s)
    BY <2>3, <2>8, <2>9, <2>10, RowsFitAppended
  <2>12. InPlace(new.rows)
    BY <2>5, <2>8, <2>9 DEF n
  <2> QED BY <2>11, <2>12
<1> HIDE DEF S
<1>6. z \in S
  <2>1. \A d \in S \cap DOMAIN next : next[d] # d => next[d] \in S
    BY <1>5
  <2> HIDE DEF next
  <2> QED BY <1>3, <1>4, <2>1, ReachInduct
<1> QED BY <1>3, <1>6 DEF S

-----------------------------------------------------------------------------
(* A rewritten file. *)

LEMMA HeaderIs ==
  ASSUME NEW s \in SchemaValues
  PROVE  Layout(Header(s), s) = "bitmap" /\ HeaderFits(Header(s), s)
<1> DEFINE n == Len(s)
           front == <<"__vrdb_row_id", "__vrdb_null_bitmap">>
           names == Columns(s)
           S == {s[i].name : i \in 1 .. n} \cup {"__vrdb_row_id", "__vrdb_null_bitmap"}
           h == Header(s)
<1>1. n \in Nat /\ DOMAIN s = 1 .. n
  BY DEF SchemaValues
<1>2. front \in Seq(S) /\ Len(front) = 2 /\ front[1] = "__vrdb_row_id"
      /\ front[2] = "__vrdb_null_bitmap"
  OBVIOUS
<1>3. names \in [1 .. n -> S] /\ \A i \in 1 .. n : names[i] = s[i].name
  BY <1>1 DEF Columns
<1>4. h = front \o names
  BY DEF Header
<1> HIDE DEF h, front, names, S, n
<1>5. names \in Seq(S) /\ Len(names) = n
  BY <1>1, <1>3, FunctionIsSeq
<1>6. /\ h \in Seq(S) /\ Len(h) = 2 + n /\ \A i \in 1 .. 2 : h[i] = front[i]
  <2>1. /\ front \o names \in Seq(S) /\ Len(front \o names) = Len(front) + Len(names)
        /\ \A i \in 1 .. Len(front) : (front \o names)[i] = front[i]
    BY <1>2, <1>5, Joined
  <2> QED BY <1>2, <1>4, <1>5, <2>1
<1>7. ASSUME NEW i \in 1 .. n PROVE h[2 + i] = names[i]
  <2>1. i \in 1 .. Len(names)
    BY <1>5
  <2>2. (front \o names)[Len(front) + i] = names[i]
    <3>1. front \in Seq(S) /\ names \in Seq(S)
      BY <1>2, <1>5
    <3> QED BY <2>1, <3>1, JoinedSecond, Zenon
  <2> QED BY <1>2, <1>4, <2>2
<1>8. Len(h) = n + 2 /\ h[1] = "__vrdb_row_id" /\ h[2] = "__vrdb_null_bitmap"
      /\ \A i \in 1 .. n : h[i + 2] = s[i].name
  BY <1>1, <1>2, <1>3, <1>6, <1>7
<1>9. Layout(h, s) = "bitmap"
  BY <1>1, <1>8 DEF Layout, n
<1> QED BY <1>1, <1>8, <1>9 DEF HeaderFits, Offset, IdNames, h, n

(* A rewritten file is read as the rows that were written.                   *)
ReadsRewritten(t, s, rows) ==
  /\ IsFile(t, s) /\ LayoutOf(t, s) = "bitmap" /\ t = [header |-> t.header, body |-> t.body]
  /\ t.body = <<>> \/ Last(t.body) = NL
  /\ readTable(t, s) = [ok |-> TRUE, rows |-> rows]

LEMMA RewrittenReads ==
  ASSUME NEW s \in SchemaValues, s # <<>>, NEW rows, RowsFit(rows, s)
  PROVE  ReadsRewritten(writeTable(s, rows), s, rows)
<1> DEFINE t == writeTable(s, rows)
           n == Len(rows)
           w == [i \in DOMAIN rows |-> writeRow(rows[i])]
<1>1. /\ n \in Nat /\ DOMAIN rows = 1 .. n /\ rows \in Seq(StoredRows)
      /\ \A i \in 1 .. n : rows[i] \in StoredRows /\ rows[i].id \in DOMAIN Digits
                           /\ RowFits(rows[i], s)
      /\ \A i, j \in 1 .. n : rows[i].id = rows[j].id => i = j
  BY RowsParts DEF RowsFit
<1>2. ASSUME NEW i \in 1 .. n
      PROVE  /\ w[i] = writeRow(rows[i]) /\ IsWritten(rows[i], s)
             /\ Fields(rows[i]) \in Seq(Texts) /\ Fields(rows[i]) # <<>>
             /\ w[i] = writeCsvRecord(Fields(rows[i]))
             /\ w[i] \in Texts /\ Len(w[i]) \in Nat /\ Len(w[i]) >= 2
             /\ w[i][1] = Quote /\ w[i][Len(w[i])] = NL
  <2>1. w[i] = writeRow(rows[i])
    BY <1>1
  <2>2. IsWritten(rows[i], s)
    BY <1>1 DEF IsWritten, RowFits, CellFits
  <2> HIDE DEF w
  <2> QED BY <2>1, <2>2, RowRecord
<1>3. t.header = Header(s) /\ t.body = FlattenSeq(w) /\ t = [header |-> t.header, body |-> t.body]
  BY DEF writeTable
<1>4. w \in Seq(Texts) /\ Len(w) = n
  <2>1. w \in [1 .. n -> Texts]
    <3>1. w = [i \in 1 .. n |-> w[i]]
      BY <1>1
    <3> HIDE DEF w
    <3> QED BY <1>2, <3>1
  <2> HIDE DEF w
  <2> QED BY <1>1, <2>1, FunctionIsSeq
<1> HIDE DEF t, w, n
<1>5. PICK g \in [0 .. n -> Texts] : Flattened(w, g) /\ g[n] = t.body
  <2>1. w \in Seq(Seq(Characters))
    BY <1>4 DEF Texts
  <2>2. PICK g \in [0 .. Len(w) -> Seq(Characters)] : Flattened(w, g) /\ g[Len(w)] = FlattenSeq(w)
    BY <2>1, FlatParts
  <2> QED BY <1>3, <1>4, <2>2 DEF Texts
<1>6. /\ t.body \in Texts /\ Len(t.body) \in Nat /\ IsFile(t, s) /\ LayoutOf(t, s) = "bitmap"
      /\ HeaderFits(t.header, s)
  <2>1. t.body \in Texts
    BY <1>1, <1>5
  <2> QED BY <1>3, <2>1, HeaderIs DEF Texts, IsFile, LayoutOf
<1>7. /\ g[0] = <<>> /\ Len(g[0]) = 0
      /\ \A k \in 1 .. n : /\ Len(g[k]) = Len(g[k - 1]) + Len(w[k])
                           /\ Len(g[k - 1]) \in Nat /\ Len(g[k]) \in Nat
                           /\ Has(t.body, 1 + Len(g[k - 1]), w[k])
  <2>1. w \in Seq(Seq(Characters)) /\ g \in [0 .. Len(w) -> Seq(Characters)]
    BY <1>4 DEF Texts
  <2>2. Has(t.body, 1, g[Len(w)])
    <3> SUFFICES ASSUME NEW i \in 1 .. Len(t.body)
                 PROVE  1 + i - 1 \in 1 .. Len(t.body) /\ t.body[1 + i - 1] = t.body[i]
      BY <1>4, <1>5 DEF Has
    <3>1. 1 + i - 1 = i
      BY <1>6
    <3> QED BY <3>1
  <2>3. /\ g[0] = <<>> /\ Len(g[0]) = 0
        /\ \A k \in 1 .. Len(w) : /\ Len(g[k]) = Len(g[k - 1]) + Len(w[k])
                                  /\ Len(g[k - 1]) \in Nat /\ Len(g[k]) \in Nat
                                  /\ Has(t.body, 1 + Len(g[k - 1]), w[k])
    BY <1>5, <2>1, <2>2, HasFlat
  <2> QED BY <1>4, <2>3
<1> DEFINE Reached(k, d) ==
             /\ d \in TableStates(t, s) /\ Reach(NextRow(t, s), Beginning(t, s), d) /\ d.ok
             /\ d.pos = 1 + Len(g[k]) /\ d.rows \in Seq(StoredRows) /\ Len(d.rows) = k
             /\ \A i \in 1 .. k : d.rows[i] = rows[i]
           T == {k \in Nat : k <= n => \E d : Reached(k, d)}
<1>8. 0 \in T
  <2> DEFINE d == Beginning(t, s)
  <2>1. d.pos = 1 /\ d.ok /\ d.rows = <<>>
    BY <1>6 DEF Beginning
  <2>2. d \in TableStates(t, s) /\ Reach(NextRow(t, s), Beginning(t, s), d)
    BY <1>6, BeginningIs
  <2>3. <<>> \in Seq(StoredRows) /\ Len(<<>>) = 0 /\ 1 = 1 + 0
    OBVIOUS
  <2> HIDE DEF d
  <2>4. Reached(0, d)
    BY <1>7, <2>1, <2>2, <2>3
  <2> HIDE DEF Reached
  <2> QED BY <2>4
<1>9. ASSUME NEW k \in T PROVE k + 1 \in T
  <2> SUFFICES ASSUME k + 1 <= n PROVE \E d : Reached(k + 1, d)
    OBVIOUS
  <2>1. k \in Nat /\ k <= n /\ k + 1 \in 1 .. n /\ k + 1 - 1 = k
    BY <1>1
  <2>2. PICK d : Reached(k, d)
    BY <2>1
  <2> DEFINE j == k + 1
             p == 1 + Len(g[k])
             row == rows[j]
             r == readCsvRecord(t.body, p)
  <2>3. /\ d \in TableStates(t, s) /\ Reach(NextRow(t, s), Beginning(t, s), d) /\ d.ok
        /\ d.pos = p /\ d.rows \in Seq(StoredRows) /\ Len(d.rows) = k
        /\ \A i \in 1 .. k : d.rows[i] = rows[i]
    BY <2>2
  <2> HIDE DEF Reached
  <2>4. j \in 1 .. n /\ Len(g[j]) = Len(g[k]) + Len(w[j]) /\ Len(g[k]) \in Nat /\ Len(g[j]) \in Nat
        /\ Has(t.body, p, w[j])
    <3>1. /\ Len(g[j]) = Len(g[j - 1]) + Len(w[j]) /\ Len(g[j - 1]) \in Nat /\ Len(g[j]) \in Nat
          /\ Has(t.body, 1 + Len(g[j - 1]), w[j])
      BY <1>7, <2>1
    <3>2. j - 1 = k
      BY <2>1
    <3> HIDE DEF j
    <3> QED BY <2>1, <3>1, <3>2 DEF j
  <2>5. /\ Fields(row) \in Seq(Texts) /\ Fields(row) # <<>> /\ w[j] = writeCsvRecord(Fields(row))
        /\ Len(w[j]) \in Nat /\ Len(w[j]) >= 2 /\ w[j][1] = Quote
        /\ row \in StoredRows /\ RowFits(row, s)
    BY <1>1, <1>2, <2>4
  <2>6. p \in 1 .. Len(t.body) /\ t.body[p] = Quote
    <3>1. 1 \in 1 .. Len(w[j]) /\ p + 1 - 1 = p
      BY <2>4, <2>5
    <3> HIDE DEF p
    <3>2. p + 1 - 1 \in 1 .. Len(t.body) /\ t.body[p + 1 - 1] = w[j][1]
      BY <2>4, <3>1 DEF Has
    <3> QED BY <2>5, <3>1, <3>2
  <2>7. ~r.bad /\ r.fields = Fields(row) /\ r.pos = p + Len(w[j])
    <3> DEFINE fields == Fields(row)
    <3>1. Has(t.body, p, writeCsvRecord(fields)) /\ fields \in Seq(Texts) /\ fields # <<>>
      BY <2>4, <2>5
    <3> HIDE DEF fields, p
    <3>2. RecordRead(t.body, p, fields)
      BY <1>6, <2>6, <3>1, CharactersAre, RecordReads
    <3> QED BY <2>5, <3>2 DEF RecordRead, fields
  <2>8. IsRow("bitmap", s, Fields(row), d.rows) /\ RowOf("bitmap", s, Fields(row), Len(d.rows) + 1) = row
    <3>1. ASSUME NEW i \in DOMAIN d.rows PROVE d.rows[i].id \in DOMAIN Digits /\ d.rows[i].id # row.id
      <4>1. DOMAIN d.rows = 1 .. k
        <5> DEFINE q == d.rows
        <5> HIDE DEF q
        <5>1. q \in Seq(StoredRows) /\ Len(q) = k
          BY <2>3 DEF q
        <5>2. DOMAIN q = 1 .. k
          BY <5>1
        <5> QED BY <5>2 DEF q
      <4>2. i \in 1 .. k
        BY <4>1
      <4> HIDE DEF T
      <4>3. i \in 1 .. n /\ i # j
        BY <1>1, <2>1, <4>2
      <4> HIDE DEF j
      <4> QED BY <1>1, <2>3, <2>4, <4>2, <4>3 DEF row
    <3> DEFINE before == d.rows
               m == Len(before) + 1
    <3> HIDE DEF row, before, m
    <3>2. \A i \in DOMAIN before : before[i].id \in DOMAIN Digits /\ before[i].id # row.id
      BY <3>1 DEF before
    <3>3. IsRow("bitmap", s, Fields(row), before) /\ RowOf("bitmap", s, Fields(row), m) = row
      <4>1. row \in StoredRows /\ RowFits(row, s)
        BY <2>5
      <4> QED BY <3>2, <4>1, RowReads, SMTT(30)
    <3> QED BY <3>3 DEF before, m
  <2> HIDE DEF p
  <2>9. MoreRow(t, s, d)
    BY <1>6, <2>3, <2>6, <2>7, <2>8, OneMoreRow
  <2> DEFINE new == Data(r.pos, Append(d.rows, row))
  <2>10. new \in TableStates(t, s) /\ Reach(NextRow(t, s), Beginning(t, s), new)
    BY <1>6, <2>3, <2>7, <2>8, <2>9 DEF MoreRow
  <2>11. new.ok /\ new.pos = r.pos /\ new.rows = Append(d.rows, row)
    BY DEF Data
  <2>12. new.pos = 1 + Len(g[j])
    <3> DEFINE a == Len(g[k])
               b == Len(w[j])
               e == Len(g[j])
    <3>1. new.pos = 1 + a + b
      BY <2>7, <2>11 DEF p
    <3>2. e = a + b /\ a \in Nat /\ b \in Nat
      BY <2>4, <2>5
    <3> HIDE DEF new, a, b, e
    <3>3. new.pos = 1 + e
      BY <3>1, <3>2
    <3> QED BY <3>3 DEF e
  <2> HIDE DEF new, r, row
  <2>13. /\ new.rows \in Seq(StoredRows) /\ Len(new.rows) = k + 1
         /\ \A i \in 1 .. k : new.rows[i] = d.rows[i]
         /\ new.rows[k + 1] = row
    <3> DEFINE q == d.rows
    <3> HIDE DEF q
    <3>1. q \in Seq(StoredRows) /\ Len(q) = k /\ new.rows = Append(q, row) /\ row \in StoredRows
      BY <2>3, <2>5, <2>11 DEF q
    <3>2. /\ new.rows \in Seq(StoredRows) /\ Len(new.rows) = k + 1
          /\ \A i \in 1 .. k : new.rows[i] = q[i]
          /\ new.rows[k + 1] = row
      BY <3>1
    <3> QED BY <3>2 DEF q
  <2>14. ASSUME NEW i \in 1 .. k + 1 PROVE new.rows[i] = rows[i]
    <3>1. CASE i \in 1 .. k
      BY <2>3, <2>13, <3>1
    <3>2. CASE i = k + 1
      BY <2>13, <3>2 DEF row
    <3> QED BY <2>1, <3>1, <3>2
  <2>15. Reached(k + 1, new)
    BY <2>10, <2>11, <2>12, <2>13, <2>14 DEF Reached
  <2> QED BY <2>15
<1>10. n \in T
  <2> HIDE DEF T
  <2>1. T \in SUBSET Nat
    BY DEF T
  <2> QED BY <1>1, <1>8, <1>9, <2>1, Induction
<1>11. PICK d : Reached(n, d)
  BY <1>1, <1>10
<1>12. d.rows = rows
  <2>1. d.rows \in Seq(StoredRows) /\ Len(d.rows) = n /\ \A i \in 1 .. n : d.rows[i] = rows[i]
    BY <1>11
  <2> DEFINE q == d.rows
  <2> HIDE DEF q
  <2>2. q \in Seq(StoredRows) /\ Len(q) = Len(rows) /\ \A i \in 1 .. Len(q) : q[i] = rows[i]
    BY <2>1 DEF q, n
  <2>3. q = rows
    BY <1>1, <2>2
  <2> QED BY <2>3 DEF q
<1>13. readTable(t, s) = [ok |-> TRUE, rows |-> rows]
  <2>1. /\ d \in TableStates(t, s) /\ Reach(NextRow(t, s), Beginning(t, s), d) /\ d.ok
        /\ d.pos = 1 + Len(g[n])
    BY <1>11
  <2>2. d.pos = Len(t.body) + 1
    BY <1>5, <1>6, <2>1
  <2> QED BY <1>6, <1>12, <2>1, <2>2, ReadToTheEnd
<1>14. t.body = <<>> \/ Last(t.body) = NL
  <2>1. CASE n = 0
    BY <1>5, <1>7, <2>1
  <2>2. CASE n # 0
    <3>1. n \in 1 .. n
      BY <1>1, <2>2
    <3> DEFINE q == 1 + Len(g[n - 1])
               m == Len(w[n])
    <3>2. Len(t.body) = Len(g[n - 1]) + m /\ Len(g[n - 1]) \in Nat /\ Has(t.body, q, w[n])
      BY <1>5, <1>7, <3>1
    <3>3. m \in Nat /\ m >= 2 /\ w[n][m] = NL
      BY <1>2, <3>1
    <3>4. m \in 1 .. m /\ q + m - 1 = Len(t.body)
      <4> DEFINE o == Len(g[n - 1])
      <4>1. o \in Nat /\ Len(t.body) = o + m /\ q = 1 + o
        BY <3>2
      <4> HIDE DEF m, o, q
      <4> QED BY <3>3, <4>1
    <3> HIDE DEF q
    <3>5. t.body[Len(t.body)] = NL
      BY <3>2, <3>3, <3>4 DEF Has
    <3> QED BY <3>5 DEF Last
  <2> QED BY <2>1, <2>2
<1> QED BY <1>3, <1>6, <1>13, <1>14 DEF ReadsRewritten, t

-----------------------------------------------------------------------------
(* Tables as they are: what holds of a table file and of the counter.        *)

LEMMA Appended ==
  ASSUME NEW S, NEW q \in Seq(S), NEW e
  PROVE  /\ Front(Append(q, e)) = q /\ Last(Append(q, e)) = e
         /\ Len(Append(q, e)) = Len(q) + 1 /\ Len(q) \in Nat
         /\ Append(q, e) = q \o <<e>>
         /\ \A i \in DOMAIN Append(q, e) :
              Append(q, e)[i] = e \/ (i \in DOMAIN q /\ Append(q, e)[i] = q[i])
<1> DEFINE T == S \cup {e}
<1>1. q \in Seq(T) /\ e \in T
  OBVIOUS
<1> HIDE DEF T
<1> DEFINE a == Append(q, e)
           n == Len(q)
<1>2. /\ n \in Nat /\ DOMAIN q = 1 .. n /\ a \in Seq(T) /\ Len(a) = n + 1 /\ DOMAIN a = 1 .. n + 1
      /\ a[n + 1] = e /\ \A i \in 1 .. n : a[i] = q[i]
  BY <1>1
<1>3. a = q \o <<e>>
  BY <1>1
<1> HIDE DEF a, n
<1>4. Last(a) = e
  BY <1>2 DEF Last
<1>5. Front(a) = q
  <2> DEFINE f == Front(a)
  <2>1. f = SubSeq(a, 1, n)
    BY <1>2 DEF Front
  <2>2. f \in Seq(T) /\ Len(f) = n /\ \A i \in 1 .. n : f[i] = a[i]
    BY <1>2, <2>1
  <2> HIDE DEF f
  <2>3. Len(f) = Len(q) /\ \A i \in 1 .. Len(q) : f[i] = q[i]
    BY <1>2, <2>2 DEF n
  <2>4. f = q
    BY <1>1, <2>2, <2>3
  <2> QED BY <2>4 DEF f
<1>6. ASSUME NEW i \in DOMAIN a PROVE a[i] = e \/ (i \in DOMAIN q /\ a[i] = q[i])
  <2>1. i \in 1 .. n \/ i = n + 1
    BY <1>2
  <2> QED BY <1>2, <2>1
<1> QED BY <1>2, <1>3, <1>4, <1>5, <1>6 DEF a, n

LEMMA TableRows ==
  ASSUME NEW t, NEW s, IsFile(t, s), LayoutOf(t, s) = "bitmap"
  PROVE  readTable(t, s).rows \in Seq(RowSet(s))
<1>1. PICK z : TableEnds(t, s, z)
  BY TableAt
<1>2. z \in TableStates(t, s) /\ readTable(t, s).rows = z.rows
  BY <1>1 DEF TableEnds
<1>3. z.rows \in Seq(RowSet(s))
  BY <1>2 DEF TableStates, RowSet
<1> QED BY <1>2, <1>3

(* IDs of a table that can be read are below the counter.                    *)
Below(rows, k) == \A i \in DOMAIN rows : rows[i].id < k
Good(t, s, k) ==
  /\ IsFile(t, s) /\ t = [header |-> t.header, body |-> t.body]
  /\ readTable(t, s).ok => /\ t.body # <<>> => Last(t.body) \in {NL, Quote}
                           /\ PlacesFit(t, s, readTable(t, s).rows)
                           /\ Below(readTable(t, s).rows, k)

LEMMA GoodRows ==
  ASSUME NEW t, NEW s, NEW k \in Nat, Good(t, s, k), readTable(t, s).ok
  PROVE  /\ RowsFit(readTable(t, s).rows, s) /\ Below(readTable(t, s).rows, k)
         /\ Below(readTable(t, s).rows, k + 1)
         /\ \A i \in DOMAIN readTable(t, s).rows : readTable(t, s).rows[i].id \in DOMAIN Digits
<1> DEFINE rows == readTable(t, s).rows
<1>1. RowsFit(rows, s) /\ Below(rows, k)
  BY TableFits DEF Good
<1> HIDE DEF rows
<1>2. \A i \in DOMAIN rows : rows[i].id \in DOMAIN Digits
  BY <1>1, RowsParts DEF RowsFit
<1>3. \A i \in DOMAIN rows : rows[i].id \in Nat
  BY <1>2, DigitsDiffer
<1>4. Below(rows, k + 1)
  BY <1>1, <1>3 DEF Below
<1> QED BY <1>1, <1>2, <1>4 DEF rows

(* A row after rows whose IDs are below its own.                             *)
LEMMA BelowAppended ==
  ASSUME NEW S, NEW q \in Seq(S), NEW e, NEW k, Below(q, k), e.id < k
  PROVE  Below(Append(q, e), k)
<1> DEFINE a == Append(q, e)
<1>1. \A i \in DOMAIN a : a[i] = e \/ (i \in DOMAIN q /\ a[i] = q[i])
  BY Appended
<1> HIDE DEF a
<1>2. Below(a, k)
  BY <1>1 DEF Below
<1> QED BY <1>2 DEF a

(* A file with characters after it, as the record that it is.                *)
IsWith(u, t, x) ==
  u.header = t.header /\ u.body = t.body \o x /\ u = [header |-> u.header, body |-> u.body]

LEMMA WholeKeeps ==
  ASSUME NEW t, NEW u, NEW s, NEW k \in Nat, Good(t, s, k), LayoutOf(t, s) = "bitmap",
         readTable(t, s).ok, NEW row, IsWritten(row, s), row.id = k,
         IsWith(u, t, writeRow(row))
  PROVE  Good(u, s, k + 1)
<1> DEFINE w == writeRow(row)
           N == Len(t.body)
<1>1. /\ IsFile(t, s) /\ s \in SchemaValues /\ t.body \in Texts /\ N \in Nat
      /\ t.body # <<>> => Last(t.body) \in {NL, Quote}
  BY DEF Good, IsFile, Texts
<1>2. /\ w \in Texts /\ Len(w) \in Nat /\ Len(w) >= 2 /\ w[1] = Quote /\ w[Len(w)] = NL /\ w # <<>>
  <2>1. Len(<<>>) = 0
    OBVIOUS
  <2> QED BY <1>1, <2>1, RowRecord
<1>3. u.header = t.header /\ u.body = t.body \o w
  BY DEF IsWith
<1>4. Lengthened(t, u, s, w)
  <2> HIDE DEF w
  <2> QED BY <1>1, <1>2, <1>3, LongerFile
<1>5. IsFile(u, s) /\ LayoutOf(u, s) = "bitmap"
  BY <1>3, <1>4 DEF Lengthened, IsLonger, LayoutOf
<1>6. Last(u.body) = NL
  <2>1. /\ Len(u.body) = N + Len(w) /\ \A i \in 1 .. Len(w) : u.body[N + i] = w[i]
    BY <1>4 DEF Lengthened
  <2>2. Len(w) \in 1 .. Len(w)
    BY <1>2
  <2> HIDE DEF w, N
  <2> QED BY <1>2, <2>1, <2>2 DEF Last
<1> HIDE DEF w
<1>7. ASSUME readTable(u, s).ok PROVE Below(readTable(u, s).rows, k + 1)
  <2>1. EndsClean(t)
    BY <1>1, <1>3, <1>7, GluedWhole DEF w
  <2>2. readTable(u, s) = [ok |-> TRUE, rows |-> Append(readTable(t, s).rows, row)]
    BY <1>1, <1>3, <1>7, <2>1, WholeAppended DEF w
  <2>3. readTable(t, s).rows \in Seq(RowSet(s)) /\ Below(readTable(t, s).rows, k + 1)
    BY <1>1, TableRows, GoodRows
  <2>4. row.id < k + 1
    OBVIOUS
  <2>5. Below(Append(readTable(t, s).rows, row), k + 1)
    BY <2>3, <2>4, BelowAppended
  <2> QED BY <2>2, <2>5
<1>8. u = [header |-> u.header, body |-> u.body]
  BY DEF IsWith
<1> QED BY <1>5, <1>6, <1>7, <1>8 DEF Good, PlacesFit

LEMMA PartKeeps ==
  ASSUME NEW t, NEW u, NEW s, NEW k \in Nat, Good(t, s, k), LayoutOf(t, s) = "bitmap",
         readTable(t, s).ok, NEW row, IsWritten(row, s), row.id = k, NEW x, IsPart(x, row),
         IsWith(u, t, x)
  PROVE  Good(u, s, k + 1)
<1>1. /\ IsFile(t, s)
      /\ t.body # <<>> => Last(t.body) \in {NL, Quote}
      /\ readTable(t, s).rows \in Seq(RowSet(s)) /\ Below(readTable(t, s).rows, k + 1)
  BY TableRows, GoodRows DEF Good
<1>2. u.header = t.header /\ u.body = t.body \o x
  BY DEF IsWith
<1>3. Lengthened(t, u, s, x)
  BY <1>1, <1>2, PartText
<1>4. IsFile(u, s) /\ LayoutOf(u, s) = "bitmap"
  BY <1>2, <1>3 DEF Lengthened, IsLonger, LayoutOf
<1>5. ASSUME readTable(u, s).ok
      PROVE  Last(u.body) = Quote /\ Below(readTable(u, s).rows, k + 1)
  <2>1. CASE EndsClean(t)
    <3>1. ReadsAsPart(t, u, s, row)
      BY <1>1, <1>2, <1>5, <2>1, PartAppended
    <3>2. PICK torn : /\ readTable(u, s).rows = Append(readTable(t, s).rows, torn)
                      /\ SameButLast(torn, row)
      BY <3>1 DEF ReadsAsPart
    <3>3. torn.id < k + 1
      <4>1. torn.id = k
        BY <3>2 DEF SameButLast
      <4> QED BY <4>1
    <3>4. Below(Append(readTable(t, s).rows, torn), k + 1)
      BY <1>1, <3>3, BelowAppended
    <3> QED BY <3>1, <3>2, <3>4 DEF ReadsAsPart
  <2>2. CASE ~EndsClean(t)
    <3>1. ReadsGlued(t, u, s)
      BY <1>1, <1>2, <1>5, <2>2, GluedPart
    <3>2. PICK rows \in Seq(RowSet(s)), old, new \in RowSet(s) :
            /\ readTable(t, s).rows = Append(rows, old)
            /\ readTable(u, s).rows = Append(rows, new)
            /\ SameButLast(new, old)
      BY <3>1 DEF ReadsGlued
    <3> DEFINE n == Len(rows) + 1
               a == Append(rows, old)
    <3>3. /\ DOMAIN rows = 1 .. Len(rows) /\ DOMAIN a = 1 .. n /\ Len(rows) \in Nat
          /\ \A i \in 1 .. Len(rows) : a[i] = rows[i]
          /\ a[n] = old
      BY <3>2
    <3>4. Below(a, k + 1)
      BY <1>1, <3>2
    <3> HIDE DEF a
    <3>5. Below(rows, k + 1) /\ old.id < k + 1
      <4>1. n \in 1 .. n /\ \A i \in 1 .. Len(rows) : i \in 1 .. n
        BY <3>3
      <4> HIDE DEF n
      <4> QED BY <3>3, <3>4, <4>1 DEF Below
    <3>6. new.id < k + 1
      BY <3>2, <3>5 DEF SameButLast
    <3>7. Below(Append(rows, new), k + 1)
      BY <3>2, <3>5, <3>6, BelowAppended
    <3> QED BY <3>1, <3>2, <3>7 DEF ReadsGlued
  <2> QED BY <2>1, <2>2
<1>6. u = [header |-> u.header, body |-> u.body]
  BY DEF IsWith
<1> QED BY <1>4, <1>5, <1>6 DEF Good, PlacesFit

(* The rows that a rewrite writes.                                           *)
Kept(rows, gone) == IF gone = 0 THEN rows ELSE RemoveAt(rows, gone)

LEMMA RewriteKeeps ==
  ASSUME NEW t, NEW s, NEW k \in Nat, Good(t, s, k), readTable(t, s).ok,
         NEW gone \in 0 .. Len(readTable(t, s).rows), NEW kept, kept = Kept(readTable(t, s).rows, gone)
  PROVE  /\ Good(writeTable(s, kept), s, k)
         /\ ReadsRewritten(writeTable(s, kept), s, kept)
<1> DEFINE rows == readTable(t, s).rows
           u == writeTable(s, kept)
<1>1. s \in SchemaValues /\ s # <<>> /\ RowsFit(rows, s) /\ Below(rows, k)
  BY GoodRows DEF Good, IsFile
<1>2. DOMAIN rows = 1 .. Len(rows) /\ Len(rows) \in Nat
  BY <1>1, RowsParts DEF RowsFit
<1>3. RowsFit(kept, s) /\ \A i \in DOMAIN kept : \E j \in DOMAIN rows : kept[i] = rows[j]
  <2>1. CASE gone = 0
    <3>1. kept = rows
      BY <2>1 DEF Kept
    <3> QED BY <1>1, <3>1
  <2>2. CASE gone # 0
    <3>1. kept = RemoveAt(rows, gone)
      BY <2>2 DEF Kept
    <3> HIDE DEF rows
    <3>2. gone \in DOMAIN rows
      BY <1>2, <2>2 DEF rows
    <3> QED BY <1>1, <3>1, <3>2, RowRemoved
  <2> QED BY <2>1, <2>2
<1> HIDE DEF rows
<1>4. Below(kept, k)
  BY <1>1, <1>3 DEF Below
<1>5. ReadsRewritten(u, s, kept)
  BY <1>1, <1>3, RewrittenReads
<1> HIDE DEF u
<1>6. Good(u, s, k)
  BY <1>4, <1>5 DEF ReadsRewritten, Good, PlacesFit
<1> QED BY <1>5, <1>6 DEF u

-----------------------------------------------------------------------------
(* The specification.                                                        *)

Inv == /\ schema \in DOMAIN Rows
       /\ nextId \in 1 .. MaxId + 1
       /\ Good(file, schema, nextId)

(* What each action does to a file, whose row it may be.                     *)
Given(row) ==
  /\ nextId \in 1 .. MaxId /\ IsWritten(row, schema) /\ row.id = nextId
  /\ row.cells \in Rows[schema]
  /\ LayoutOf(file, schema) = "bitmap" /\ readTable(file, schema).ok
WritesWhole(row) == /\ Given(row) /\ IsWith(file', file, writeRow(row))
                    /\ written' = [kind |-> "whole", rows |-> <<row>>]
WritesPart(row, x) == /\ Given(row) /\ IsPart(x, row) /\ IsWith(file', file, x)
                      /\ written' = [kind |-> "part", rows |-> <<row>>]
Rewrites(kept) ==
  /\ readTable(file, schema).ok
  /\ \E gone \in 0 .. Len(readTable(file, schema).rows) :
       kept = Kept(readTable(file, schema).rows, gone)
  /\ file' = writeTable(schema, kept)
  /\ written' = [kind |-> "rewrite", rows |-> kept]

LEMMA SchemaIs ==
  ASSUME Inv
  PROVE  /\ schema \in SchemaValues /\ schema # <<>> /\ nextId \in Nat /\ nextId >= 1
         /\ MaxId \in 1 .. 9 /\ DOMAIN Digits = 1 .. 9
         /\ file = [header |-> file.header, body |-> file.body]
<1>1. DOMAIN Rows \subseteq Seq(ColumnValues) \ {<<>>} /\ MaxId \in DOMAIN Digits
  BY CsvAssumption
<1> QED BY <1>1, DigitsDiffer DEF Inv, SchemaValues, Good

LEMMA GivenIs ==
  ASSUME Inv, nextId <= MaxId, InCurrentLayout, Read(file).ok, NEW cells \in Rows[schema],
         NEW row, row = [id |-> nextId, cells |-> cells]
  PROVE  Given(row)
<1>1. /\ cells \in Seq([null : BOOLEAN, payload : Seq(Characters)]) /\ DOMAIN cells = DOMAIN schema
      /\ \A i \in DOMAIN schema : cells[i].null => cells[i].payload = <<>>
  <2>1. schema \in DOMAIN Rows
    BY DEF Inv
  <2> QED BY <2>1, CsvAssumption
<1>2. nextId \in 1 .. MaxId /\ nextId \in DOMAIN Digits
  BY SchemaIs
<1>3. row \in StoredRows /\ row.cells = cells /\ row.id = nextId
  BY <1>1, <1>2 DEF StoredRows, Cells
<1>4. IsWritten(row, schema)
  BY <1>1, <1>3 DEF IsWritten
<1> QED BY <1>2, <1>3, <1>4 DEF Given, InCurrentLayout, LayoutOf, Read

LEMMA Lengthening ==
  ASSUME Inv, NEW x, file' = [file EXCEPT !.body = @ \o x]
  PROVE  IsWith(file', file, x)
<1>1. file = [header |-> file.header, body |-> file.body]
  BY SchemaIs
<1>2. file' = [header |-> file.header, body |-> file.body \o x]
  BY <1>1
<1>3. file'.header = file.header /\ file'.body = file.body \o x
  BY <1>2
<1> QED BY <1>2, <1>3 DEF IsWith

LEMMA WholeIs ==
  ASSUME Inv, AppendWhole
  PROVE  \E row : WritesWhole(row)
<1>1. /\ nextId <= MaxId /\ InCurrentLayout /\ Read(file).ok
      /\ \E cells \in Rows[schema] :
           LET row == [id |-> nextId, cells |-> cells]
           IN  /\ file' = [file EXCEPT !.body = @ \o writeRow(row)]
               /\ written' = [kind |-> "whole", rows |-> <<row>>]
  BY DEF AppendWhole
<1>2. PICK cells \in Rows[schema] :
        LET row == [id |-> nextId, cells |-> cells]
        IN  /\ file' = [file EXCEPT !.body = @ \o writeRow(row)]
            /\ written' = [kind |-> "whole", rows |-> <<row>>]
  BY <1>1
<1> DEFINE row == [id |-> nextId, cells |-> cells]
<1>3. /\ file' = [file EXCEPT !.body = @ \o writeRow(row)]
      /\ written' = [kind |-> "whole", rows |-> <<row>>]
  BY <1>2
<1>4. row = [id |-> nextId, cells |-> cells]
  OBVIOUS
<1> HIDE DEF row
<1>5. Given(row)
  BY <1>1, <1>4, GivenIs
<1>6. IsWith(file', file, writeRow(row))
  BY <1>3, Lengthening
<1> QED BY <1>3, <1>5, <1>6 DEF WritesWhole

LEMMA PartIs ==
  ASSUME Inv, AppendPart
  PROVE  \E row, x : WritesPart(row, x)
<1>1. /\ nextId <= MaxId /\ InCurrentLayout /\ Read(file).ok
      /\ \E cells \in Rows[schema] :
           LET row == [id |-> nextId, cells |-> cells]
           IN  \E n \in 1 .. Len(writeRow(row)) - 1 :
                 /\ file' = [file EXCEPT !.body = @ \o SubSeq(writeRow(row), 1, n)]
                 /\ written' = [kind |-> "part", rows |-> <<row>>]
  BY DEF AppendPart
<1>2. PICK cells \in Rows[schema] :
        LET row == [id |-> nextId, cells |-> cells]
        IN  \E n \in 1 .. Len(writeRow(row)) - 1 :
              /\ file' = [file EXCEPT !.body = @ \o SubSeq(writeRow(row), 1, n)]
              /\ written' = [kind |-> "part", rows |-> <<row>>]
  BY <1>1
<1> DEFINE row == [id |-> nextId, cells |-> cells]
<1>3. PICK n \in 1 .. Len(writeRow(row)) - 1 :
        /\ file' = [file EXCEPT !.body = @ \o SubSeq(writeRow(row), 1, n)]
        /\ written' = [kind |-> "part", rows |-> <<row>>]
  BY <1>2
<1>4. row = [id |-> nextId, cells |-> cells]
  OBVIOUS
<1> HIDE DEF row
<1>5. Given(row)
  BY <1>1, <1>4, GivenIs
<1> DEFINE x == SubSeq(writeRow(row), 1, n)
<1>6. file' = [file EXCEPT !.body = @ \o x] /\ IsPart(x, row)
  BY <1>3 DEF IsPart
<1> HIDE DEF x
<1>7. IsWith(file', file, x)
  BY <1>6, Lengthening
<1> QED BY <1>3, <1>5, <1>6, <1>7 DEF WritesPart

LEMMA RewriteIs ==
  ASSUME Rewrite
  PROVE  \E kept : Rewrites(kept)
<1>1. /\ Read(file).ok
      /\ \E gone \in 0 .. Len(Read(file).rows) :
           LET kept == IF gone = 0 THEN Read(file).rows ELSE RemoveAt(Read(file).rows, gone)
           IN  /\ file' = writeTable(schema, kept)
               /\ written' = [kind |-> "rewrite", rows |-> kept]
  BY DEF Rewrite
<1>2. PICK gone \in 0 .. Len(Read(file).rows) :
        /\ file' = writeTable(schema, Kept(Read(file).rows, gone))
        /\ written' = [kind |-> "rewrite", rows |-> Kept(Read(file).rows, gone)]
  BY <1>1 DEF Kept
<1>3. Rewrites(Kept(readTable(file, schema).rows, gone))
  BY <1>1, <1>2 DEF Rewrites, Read
<1> QED BY <1>3

LEMMA InitInv == Init => Inv
<1> SUFFICES ASSUME Init PROVE Inv
  OBVIOUS
<1> DEFINE rows == readTable(file, schema).rows
<1>1. schema \in DOMAIN Rows /\ file \in OldFiles[schema] /\ nextId = Len(rows) + 1
  BY DEF Init, Read
<1>2. /\ file = [header |-> file.header, body |-> file.body] /\ file.body \in Seq(Characters)
      /\ EndsClean(file) /\ Len(rows) <= MaxId
      /\ \A i \in DOMAIN rows : rows[i].id <= Len(rows)
  BY <1>1, CsvAssumption
<1>3. IsFile(file, schema)
  BY <1>1, <1>2, CsvAssumption DEF IsFile, SchemaValues, Texts
<1>4. Len(rows) \in Nat
  <2>1. PICK z : TableEnds(file, schema, z)
    BY <1>3, TableAt
  <2>2. z \in TableStates(file, schema) /\ rows = z.rows
    BY <2>1 DEF TableEnds
  <2> HIDE DEF rows
  <2>3. Len(z.rows) \in Nat
    BY <2>2 DEF TableStates
  <2> QED BY <2>2, <2>3
<1>5. MaxId \in 1 .. 9
  BY CsvAssumption, DigitsDiffer
<1> HIDE DEF rows
<1>6. nextId \in 1 .. MaxId + 1 /\ Len(rows) <= 9
  BY <1>1, <1>2, <1>4, <1>5
<1>7. ASSUME readTable(file, schema).ok, NEW i \in DOMAIN rows PROVE rows[i].id < nextId
  <2> DEFINE id == rows[i].id
  <2>1. id <= Len(rows)
    BY <1>2
  <2>2. Len(rows) + 1 = nextId
    BY <1>1
  <2>3. id \in Nat
    <3>1. PlacesFit(file, schema, readTable(file, schema).rows)
      BY <1>6 DEF PlacesFit, rows
    <3>2. RowsFit(rows, schema)
      BY <1>3, <1>7, <3>1, TableFits DEF rows
    <3>3. rows[i].id \in DOMAIN Digits
      BY <1>7, <3>2, RowsParts DEF RowsFit
    <3> QED BY <3>3, DigitsDiffer
  <2> HIDE DEF id
  <2> QED BY <1>4, <2>1, <2>2, <2>3 DEF id
<1>8. file.body # <<>> => Last(file.body) \in {NL, Quote}
  BY <1>2 DEF EndsClean
<1>9. Good(file, schema, nextId)
  BY <1>2, <1>3, <1>6, <1>7, <1>8 DEF Good, Below, PlacesFit, rows
<1> QED BY <1>1, <1>6, <1>9 DEF Inv

LEMMA NextInv == Inv /\ [Next]_vars => Inv'
<1> SUFFICES ASSUME Inv, [Next]_vars PROVE Inv'
  OBVIOUS
<1>1. /\ schema \in DOMAIN Rows /\ nextId \in 1 .. MaxId + 1 /\ Good(file, schema, nextId)
      /\ nextId \in Nat /\ MaxId \in 1 .. 9
  BY SchemaIs DEF Inv
<1>2. CASE AppendWhole
  <2>1. PICK row : WritesWhole(row)
    BY <1>2, WholeIs
  <2>2. Given(row) /\ IsWith(file', file, writeRow(row)) /\ schema' = schema /\ nextId' = nextId + 1
    BY <1>2, <2>1 DEF WritesWhole, AppendWhole
  <2>3. Good(file', schema, nextId + 1)
    BY <1>1, <2>2, WholeKeeps DEF Given
  <2>4. nextId + 1 \in 1 .. MaxId + 1
    BY <1>1, <2>2 DEF Given
  <2> QED BY <1>1, <2>2, <2>3, <2>4 DEF Inv
<1>3. CASE AppendPart
  <2>1. PICK row, x : WritesPart(row, x)
    BY <1>3, PartIs
  <2>2. /\ Given(row) /\ IsPart(x, row) /\ IsWith(file', file, x)
        /\ schema' = schema /\ nextId' = nextId + 1
    BY <1>3, <2>1 DEF WritesPart, AppendPart
  <2>3. Good(file', schema, nextId + 1)
    BY <1>1, <2>2, PartKeeps DEF Given
  <2>4. nextId + 1 \in 1 .. MaxId + 1
    BY <1>1, <2>2 DEF Given
  <2> QED BY <1>1, <2>2, <2>3, <2>4 DEF Inv
<1>4. CASE Rewrite
  <2>1. PICK kept : Rewrites(kept)
    BY <1>4, RewriteIs
  <2>2. schema' = schema /\ nextId' = nextId
    BY <1>4 DEF Rewrite
  <2>3. Good(writeTable(schema, kept), schema, nextId)
    BY <1>1, <2>1, RewriteKeeps DEF Rewrites
  <2> QED BY <1>1, <2>1, <2>2, <2>3 DEF Inv, Rewrites
<1>5. CASE UNCHANGED vars
  BY <1>1, <1>5 DEF vars, Inv
<1> QED BY <1>2, <1>3, <1>4, <1>5 DEF Next

LEMMA TableInv == Spec => []Inv
<1> QED BY InitInv, NextInv, PTL DEF Spec

(* The writes of a step, by their kind.                                      *)
LEMMA KindIs ==
  ASSUME Inv, Next
  PROVE  /\ written'.kind = "whole" => \E row : WritesWhole(row)
         /\ written'.kind = "part" => \E row, x : WritesPart(row, x)
         /\ written'.kind = "rewrite" => \E kept : Rewrites(kept)
<1>1. CASE AppendWhole
  <2>1. PICK row : WritesWhole(row)
    BY <1>1, WholeIs
  <2>2. written'.kind = "whole"
    BY <2>1 DEF WritesWhole
  <2> QED BY <2>1, <2>2
<1>2. CASE AppendPart
  <2>1. PICK row, x : WritesPart(row, x)
    BY <1>2, PartIs
  <2>2. written'.kind = "part"
    BY <2>1 DEF WritesPart
  <2> QED BY <2>1, <2>2
<1>3. CASE Rewrite
  <2>1. PICK kept : Rewrites(kept)
    BY <1>3, RewriteIs
  <2>2. written'.kind = "rewrite"
    BY <2>1 DEF Rewrites
  <2> QED BY <2>1, <2>2
<1> QED BY <1>1, <1>2, <1>3 DEF Next

(* Rows that are given can be read: what is stored for a cell can be read as *)
(* its type.  For a subnormal coordinate it cannot.                          *)
ReadableRows ==
  \A s \in DOMAIN Rows : \A cells \in Rows[s] : \A i \in DOMAIN s :
    cells[i].null \/ deserializes(cells[i].payload, s[i])

LEMMA GivenReads ==
  ASSUME ReadableRows, Inv, NEW row, Given(row)
  PROVE  IsRow("bitmap", schema, Fields(row), readTable(file, schema).rows)
<1> DEFINE rows == readTable(file, schema).rows
<1>1. /\ schema \in SchemaValues /\ row \in StoredRows /\ DOMAIN row.cells = DOMAIN schema
      /\ schema \in DOMAIN Rows /\ row.cells \in Rows[schema] /\ row.id = nextId
  BY SchemaIs DEF Given, IsWritten, Inv
<1>2. \A i \in DOMAIN schema : /\ row.cells[i].null => schema[i].nullable /\ row.cells[i].payload = <<>>
                               /\ row.cells[i].null \/ deserializes(row.cells[i].payload, schema[i])
  BY <1>1, CsvAssumption DEF ReadableRows
<1>3. RowFits(row, schema)
  BY <1>1, <1>2 DEF RowFits, CellFits
<1>4. \A i \in DOMAIN rows : rows[i].id \in DOMAIN Digits /\ rows[i].id # row.id
  <2>1. /\ Below(rows, nextId) /\ nextId \in Nat
        /\ \A i \in DOMAIN rows : rows[i].id \in DOMAIN Digits
    BY SchemaIs, GoodRows DEF Inv, Given
  <2> HIDE DEF rows
  <2> SUFFICES ASSUME NEW i \in DOMAIN rows PROVE rows[i].id # row.id
    BY <2>1
  <2> DEFINE id == rows[i].id
  <2>2. id < nextId /\ id \in Nat
    BY <2>1, DigitsDiffer DEF Below
  <2> HIDE DEF id
  <2>3. id # nextId
    BY <2>1, <2>2
  <2> QED BY <1>1, <2>3 DEF id
<1> HIDE DEF rows
<1>5. IsRow("bitmap", schema, Fields(row), rows)
  BY <1>1, <1>3, <1>4, RowReads
<1> QED BY <1>5 DEF rows

(* A row appended whole to a file that ends with a whole record is read back *)
(* as it was given, after the rows that were there, whatever characters its  *)
(* texts have, if its cells can be read at all.                              *)
THEOREM AppendsReadBack == ASSUME ReadableRows PROVE Spec => AppendReadsBack
<1> DEFINE A == written'.kind = "whole" /\ EndsClean(file) =>
                  Read(file') = [ok |-> TRUE, rows |-> Read(file).rows \o written'.rows]
<1>1. ASSUME Inv, Next, written'.kind = "whole", EndsClean(file)
      PROVE  Read(file') = [ok |-> TRUE, rows |-> Read(file).rows \o written'.rows]
  <2>1. PICK row : WritesWhole(row)
    BY <1>1, KindIs
  <2>2. /\ Given(row) /\ IsWith(file', file, writeRow(row)) /\ written'.rows = <<row>>
    BY <2>1 DEF WritesWhole
  <2>3. /\ IsFile(file, schema) /\ LayoutOf(file, schema) = "bitmap" /\ readTable(file, schema).ok
        /\ IsWritten(row, schema)
        /\ file'.header = file.header /\ file'.body = file.body \o writeRow(row)
    BY <1>1, <2>2 DEF Given, IsWith, Inv, Good
  <2>4. IsRow("bitmap", schema, Fields(row), readTable(file, schema).rows)
    BY <1>1, <2>2, GivenReads
  <2> DEFINE u == file'
             rows == readTable(file, schema).rows
  <2>5. readTable(u, schema) = [ok |-> TRUE, rows |-> Append(rows, row)]
    <3>1. u.header = file.header /\ u.body = file.body \o writeRow(row)
      BY <2>3
    <3> HIDE DEF u
    <3> QED BY <1>1, <2>3, <2>4, <3>1, WholeAppended
  <2>6. Append(rows, row) = rows \o <<row>>
    BY <2>3, TableRows, Appended
  <2> QED BY <2>2, <2>5, <2>6 DEF Read
<1>2. Inv /\ [Next]_vars => [A]_vars
  BY <1>1
<1> HIDE DEF A
<1>3. Spec => [][A]_vars
  BY <1>2, TableInv, PTL DEF Spec
<1> QED BY <1>3 DEF A, AppendReadsBack

(* A record that reached such a file in part makes it unreadable, or is read *)
(* as the row with its ID whose last cell is cut short, or whole.            *)
THEOREM PartsReadAs == Spec => PartReadsAs
<1> DEFINE A == written'.kind = "part" /\ EndsClean(file) /\ Read(file').ok =>
                  LET rows == Read(file').rows
                  IN  /\ Front(rows) = Read(file).rows
                      /\ SameButLast(Last(rows), Last(written'.rows))
                      /\ IsPrefix(Last(Last(rows).cells).payload,
                                  Last(Last(written'.rows).cells).payload)
<1>1. ASSUME Inv, Next, written'.kind = "part", EndsClean(file), Read(file').ok
      PROVE  /\ Front(Read(file').rows) = Read(file).rows
             /\ SameButLast(Last(Read(file').rows), Last(written'.rows))
             /\ IsPrefix(Last(Last(Read(file').rows).cells).payload,
                         Last(Last(written'.rows).cells).payload)
  <2>1. PICK row, x : WritesPart(row, x)
    BY <1>1, KindIs
  <2>2. /\ Given(row) /\ IsPart(x, row) /\ IsWith(file', file, x) /\ written'.rows = <<row>>
    BY <2>1 DEF WritesPart
  <2>3. /\ IsFile(file, schema) /\ LayoutOf(file, schema) = "bitmap" /\ readTable(file, schema).ok
        /\ IsWritten(row, schema)
        /\ file'.header = file.header /\ file'.body = file.body \o x
    BY <1>1, <2>2 DEF Given, IsWith, Inv, Good
  <2> DEFINE u == file'
             rows == readTable(file, schema).rows
  <2>4. ReadsAsPart(file, u, schema, row)
    <3>1. u.header = file.header /\ u.body = file.body \o x /\ readTable(u, schema).ok
      BY <1>1, <2>3 DEF Read
    <3> HIDE DEF u
    <3> QED BY <1>1, <2>2, <2>3, <3>1, PartAppended
  <2>5. PICK torn : /\ readTable(u, schema).rows = Append(rows, torn)
                    /\ SameButLast(torn, row)
                    /\ IsPrefix(Last(torn.cells).payload, Last(row.cells).payload)
    BY <2>4 DEF ReadsAsPart
  <2>6. Front(Append(rows, torn)) = rows /\ Last(Append(rows, torn)) = torn
    <3>1. rows \in Seq(RowSet(schema))
      BY <2>3, TableRows
    <3> HIDE DEF rows
    <3> QED BY <3>1, Appended
  <2>7. Last(written'.rows) = row
    BY <2>2 DEF Last
  <2> QED BY <2>5, <2>6, <2>7 DEF Read
<1>2. Inv /\ [Next]_vars => [A]_vars
  BY <1>1
<1> HIDE DEF A
<1>3. Spec => [][A]_vars
  BY <1>2, TableInv, PTL DEF Spec
<1> QED BY <1>3 DEF A, PartReadsAs

(* A record that follows one without its newline is never taken for a row:   *)
(* whole, it makes the file unreadable; in part, it can only lengthen the    *)
(* last cell of the row before it.                                           *)
THEOREM GluedRecordsAreNoRows == Spec => GluedIsNoRow
<1> DEFINE A == /\ written'.kind \in {"whole", "part"}
                /\ ~EndsClean(file)
                /\ Read(file').ok
                => LET before == Read(file).rows
                       rows == Read(file').rows
                   IN  /\ written'.kind = "part"
                       /\ SameButLastRow(rows, before)
                       /\ IsPrefix(Last(Last(before).cells).payload,
                                   Last(Last(rows).cells).payload)
<1>1. ASSUME Inv, Next, written'.kind \in {"whole", "part"}, ~EndsClean(file), Read(file').ok
      PROVE  /\ written'.kind = "part"
             /\ SameButLastRow(Read(file').rows, Read(file).rows)
             /\ IsPrefix(Last(Last(Read(file).rows).cells).payload,
                         Last(Last(Read(file').rows).cells).payload)
  <2> DEFINE u == file'
  <2>1. written'.kind # "whole"
    <3> SUFFICES ASSUME written'.kind = "whole" PROVE FALSE
      OBVIOUS
    <3>1. PICK row : WritesWhole(row)
      BY <1>1, KindIs
    <3>2. /\ IsFile(file, schema) /\ LayoutOf(file, schema) = "bitmap" /\ readTable(file, schema).ok
          /\ file.body # <<>> => Last(file.body) \in {NL, Quote}
      BY <1>1, <3>1 DEF WritesWhole, Given, Inv, Good
    <3>3. /\ u.header = file.header /\ u.body = file.body \o writeRow(row) /\ readTable(u, schema).ok
          /\ IsWritten(row, schema)
      BY <1>1, <3>1 DEF WritesWhole, Given, IsWith, Read
    <3> HIDE DEF u
    <3> QED BY <1>1, <3>2, <3>3, GluedWhole
  <2>2. PICK row, x : WritesPart(row, x)
    BY <1>1, <2>1, KindIs
  <2>3. /\ IsFile(file, schema) /\ LayoutOf(file, schema) = "bitmap" /\ readTable(file, schema).ok
        /\ file.body # <<>> => Last(file.body) \in {NL, Quote}
    BY <1>1, <2>2 DEF WritesPart, Given, Inv, Good
  <2>4. /\ u.header = file.header /\ u.body = file.body \o x /\ readTable(u, schema).ok
        /\ IsWritten(row, schema) /\ IsPart(x, row)
    BY <1>1, <2>2 DEF WritesPart, Given, IsWith, Read
  <2>5. ReadsGlued(file, u, schema)
    <3> HIDE DEF u
    <3> QED BY <1>1, <2>3, <2>4, GluedPart
  <2>6. PICK rows \in Seq(RowSet(schema)), old, new \in RowSet(schema) :
          /\ readTable(file, schema).rows = Append(rows, old)
          /\ readTable(u, schema).rows = Append(rows, new)
          /\ SameButLast(new, old)
          /\ IsPrefix(Last(old.cells).payload, Last(new.cells).payload)
    BY <2>5 DEF ReadsGlued
  <2>7. \A e : /\ Front(Append(rows, e)) = rows /\ Last(Append(rows, e)) = e
               /\ Len(Append(rows, e)) = Len(rows) + 1
    BY Appended
  <2> QED BY <1>1, <2>1, <2>6, <2>7 DEF Read, SameButLastRow
<1>2. Inv /\ [Next]_vars => [A]_vars
  BY <1>1
<1> HIDE DEF A
<1>3. Spec => [][A]_vars
  BY <1>2, TableInv, PTL DEF Spec
<1> QED BY <1>3 DEF A, GluedIsNoRow

(* A rewrite keeps every row that was read, its ID and its cells.            *)
THEOREM RewritesKeepRows == Spec => RewriteKeepsRows
<1> DEFINE A == written'.kind = "rewrite" => Read(file') = [ok |-> TRUE, rows |-> written'.rows]
<1>1. ASSUME Inv, Next, written'.kind = "rewrite"
      PROVE  Read(file') = [ok |-> TRUE, rows |-> written'.rows]
  <2>1. PICK kept : Rewrites(kept)
    BY <1>1, KindIs
  <2>2. Good(file, schema, nextId) /\ nextId \in Nat /\ file' = writeTable(schema, kept)
        /\ written'.rows = kept
    BY <1>1, <2>1, SchemaIs DEF Inv, Rewrites
  <2>3. ReadsRewritten(writeTable(schema, kept), schema, kept)
    <3>1. readTable(file, schema).ok
      BY <2>1 DEF Rewrites
    <3>2. PICK gone \in 0 .. Len(readTable(file, schema).rows) :
            kept = Kept(readTable(file, schema).rows, gone)
      BY <2>1 DEF Rewrites
    <3>3. Good(file, schema, nextId) /\ nextId \in Nat
      BY <2>2
    <3> QED BY <3>1, <3>2, <3>3, RewriteKeeps
  <2> QED BY <2>2, <2>3 DEF Read, ReadsRewritten
<1>2. Inv /\ [Next]_vars => [A]_vars
  BY <1>1
<1> HIDE DEF A
<1>3. Spec => [][A]_vars
  BY <1>2, TableInv, PTL DEF Spec
<1> QED BY <1>3 DEF A, RewriteKeepsRows
=============================================================================
