-------------------------- MODULE SelectQueryProofs --------------------------
(***************************************************************************)
(* What the proofs about selects need to know of SelectQuery: matches of   *)
(* adjacent ranges of rows are the matches of the whole range, collecting  *)
(* page after page makes the state that all their matches make at once,    *)
(* and when the limit is reached, where the last row is that is needed.    *)
(* Matching is recursive over the rows; that its recursion has a solution, *)
(* and what it computes, is shown by induction (Least, Induction) on sets  *)
(* of numbers, which follows from a subset order being well-founded.       *)
(***************************************************************************)
EXTENDS SelectQuery, FiniteSetTheorems, SequenceTheorems, WellFoundedInduction, TLAPS

-----------------------------------------------------------------------------
(* Induction, as a fact about sets of numbers. *)

(* Every set of numbers that is not empty has a least one.                   *)
LEMMA Least == ASSUME NEW S \in SUBSET Nat, S # {}
               PROVE  \E n \in S : \A m \in S : n <= m
<1> DEFINE Below(n) == 0 .. n - 1
           T == {Below(n) : n \in S}
<1>1. \A n \in Nat : Below(n) \in FiniteSubsetsOf(Nat)
  BY FS_Interval DEF FiniteSubsetsOf
<1>2. \E x \in T : \A y \in T : <<y, x>> \notin StrictSubsetOrdering(Nat)
  <2>1. T # {} /\ T \subseteq FiniteSubsetsOf(Nat)
    BY <1>1
  <2> HIDE DEF T
  <2> QED BY <2>1, FS_StrictSubsetOrderingWellFounded, WFMin
<1>3. PICK n \in S : \A m \in S : <<Below(m), Below(n)>> \notin StrictSubsetOrdering(Nat)
  BY <1>2
<1>4. ASSUME NEW m \in S, m < n PROVE FALSE
  <2>1. Below(m) \subseteq Below(n) /\ m \in Below(n) /\ m \notin Below(m)
    BY <1>4
  <2>2. Below(m) \in SUBSET Nat /\ Below(n) \in SUBSET Nat
    OBVIOUS
  <2> HIDE DEF Below
  <2>3. <<Below(m), Below(n)>> \in StrictSubsetOrdering(Nat)
    BY <2>1, <2>2 DEF StrictSubsetOrdering
  <2> QED BY <1>3, <2>3
<1> QED BY <1>4

(* Numbers that hold 0, and with every number the next one, are all.         *)
LEMMA Induction == ASSUME NEW S \in SUBSET Nat, 0 \in S, \A n \in S : n + 1 \in S
                   PROVE  S = Nat
<1> SUFFICES ASSUME Nat \ S # {} PROVE FALSE
  OBVIOUS
<1>1. PICK n \in Nat \ S : \A m \in Nat \ S : n <= m
  BY Least
<1>2. n - 1 \in Nat /\ n - 1 \in S
  BY <1>1
<1> QED BY <1>1, <1>2

Follows(f, V, start, from, step) ==
  /\ f \in [Nat -> V]
  /\ \A i \in Nat : f[i] = IF i < from THEN start ELSE step[i][f[i - 1]]

(* A recursion over numbers whose step stays in a set of values defines a    *)
(* function.  There is one that follows it up to every number; these agree   *)
(* with each other, and their values make the function.                      *)
LEMMA Recursion ==
  ASSUME NEW V, NEW start \in V, NEW from \in Nat \ {0}, NEW step \in [Nat -> [V -> V]]
  PROVE  \E f : Follows(f, V, start, from, step)
<1> DEFINE Next(last, i) == IF i < from THEN start ELSE step[i][last]
           Upto(f, n) == \A i \in 0 .. n : f[i] = Next(f[i - 1], i)
<1>0. \A x : Next(x, 0) = start
  OBVIOUS
<1>1. \A n \in Nat : \E f : Upto(f, n)
  <2> DEFINE S == {n \in Nat : \E f : Upto(f, n)}
  <2>1. 0 \in S
    <3> DEFINE f == [i \in 0 .. 0 |-> start]
    <3>1. Upto(f, 0)
      <4> HIDE DEF Next
      <4> QED BY <1>0
    <3> QED BY <3>1
  <2>2. ASSUME NEW n \in S PROVE n + 1 \in S
    <3>1. PICK f : Upto(f, n)
      OBVIOUS
    <3> DEFINE g == [i \in 0 .. n + 1 |-> IF i <= n THEN f[i] ELSE Next(f[n], n + 1)]
    <3>2. ASSUME NEW i \in 0 .. n + 1 PROVE g[i] = Next(g[i - 1], i)
      <4>1. CASE i = 0
        <5>1. g[i] = f[0] /\ f[0] = Next(f[0 - 1], 0)
          <6> HIDE DEF Next
          <6> QED BY <3>1, <4>1
        <5> HIDE DEF g, Next
        <5> QED BY <1>0, <4>1, <5>1
      <4>2. CASE i \in 1 .. n
        <5>1. g[i] = f[i] /\ g[i - 1] = f[i - 1] /\ i \in 0 .. n
          BY <4>2
        <5> HIDE DEF g, Next
        <5> QED BY <3>1, <5>1
      <4>3. CASE i = n + 1
        <5>1. g[i] = Next(f[n], n + 1) /\ g[i - 1] = f[n]
          BY <4>3
        <5> HIDE DEF g, Next
        <5> QED BY <4>3, <5>1
      <4> QED BY <4>1, <4>2, <4>3
    <3>3. Upto(g, n + 1)
      BY <3>2
    <3> HIDE DEF g, Upto
    <3> QED BY <3>3
  <2> HIDE DEF S
  <2>3. S \in SUBSET Nat
    BY DEF S
  <2>4. S = Nat
    BY <2>1, <2>2, <2>3, Induction
  <2> QED BY <2>4 DEF S
<1>2. ASSUME NEW f, NEW g, NEW m \in Nat, NEW n \in Nat, Upto(f, m), Upto(g, n)
      PROVE  \A i \in Nat : i <= m /\ i <= n => f[i] = g[i]
  <2> DEFINE S == {i \in Nat : i <= m /\ i <= n => f[i] = g[i]}
  <2>1. 0 \in S
    <3>1. 0 \in 0 .. m /\ 0 \in 0 .. n
      OBVIOUS
    <3>2. f[0] = Next(f[0 - 1], 0) /\ g[0] = Next(g[0 - 1], 0)
      <4> HIDE DEF Next
      <4> QED BY <1>2, <3>1
    <3>3. f[0] = g[0]
      <4> HIDE DEF Next
      <4> QED BY <1>0, <3>2
    <3> QED BY <3>3
  <2>2. ASSUME NEW i \in S PROVE i + 1 \in S
    <3> SUFFICES ASSUME i + 1 <= m, i + 1 <= n PROVE f[i + 1] = g[i + 1]
      OBVIOUS
    <3>1. f[i] = g[i] /\ i + 1 - 1 = i /\ i + 1 \in 0 .. m /\ i + 1 \in 0 .. n
      OBVIOUS
    <3>2. f[i + 1] = Next(f[i], i + 1) /\ g[i + 1] = Next(g[i], i + 1)
      <4> HIDE DEF Next
      <4> QED BY <1>2, <3>1
    <3> QED BY <3>1, <3>2
  <2> HIDE DEF S
  <2>3. S \in SUBSET Nat
    BY DEF S
  <2>4. S = Nat
    BY <2>1, <2>2, <2>3, Induction
  <2> QED BY <2>4 DEF S
<1> DEFINE Chosen(n) == CHOOSE f : Upto(f, n)
           found == [n \in Nat |-> Chosen(n)[n]]
<1>3. ASSUME NEW n \in Nat PROVE Upto(Chosen(n), n)
  <2> HIDE DEF Upto
  <2> QED BY <1>1
<1>4. ASSUME NEW i \in Nat PROVE found[i] = Next(found[i - 1], i)
  <2>1. Chosen(i)[i] = Next(Chosen(i)[i - 1], i)
    <3> HIDE DEF Chosen, Next
    <3> QED BY <1>3
  <2>2. CASE i = 0
    BY <2>1, <2>2
  <2>3. CASE i # 0
    <3>1. i - 1 \in Nat /\ i - 1 <= i
      BY <2>3
    <3>2. Chosen(i)[i - 1] = Chosen(i - 1)[i - 1]
      <4> HIDE DEF Chosen, Upto
      <4> QED BY <1>2, <1>3, <3>1
    <3> HIDE DEF Chosen, Next
    <3> QED BY <2>1, <3>1, <3>2
  <2> QED BY <2>2, <2>3
<1> HIDE DEF Chosen
<1>5. \A i \in Nat : found[i] \in V
  <2> DEFINE S == {i \in Nat : found[i] \in V}
  <2>1. 0 \in S
    <3>1. found[0] = Next(found[0 - 1], 0)
      <4> HIDE DEF found, Next
      <4> QED BY <1>4
    <3> HIDE DEF found, Next
    <3> QED BY <1>0, <3>1
  <2>2. ASSUME NEW i \in S PROVE i + 1 \in S
    <3>1. i + 1 \in Nat /\ i + 1 - 1 = i
      OBVIOUS
    <3>2. found[i + 1] = Next(found[i], i + 1)
      <4> HIDE DEF found, Next
      <4> QED BY <1>4, <3>1
    <3>3. Next(found[i], i + 1) \in V
      <4> HIDE DEF found
      <4> QED BY <3>1
    <3> QED BY <3>1, <3>2, <3>3
  <2> HIDE DEF S
  <2>3. S \in SUBSET Nat
    BY DEF S
  <2>4. S = Nat
    BY <2>1, <2>2, <2>3, Induction
  <2> QED BY <2>4 DEF S
<1>6. found \in [Nat -> V]
  <2>1. found = [i \in Nat |-> found[i]]
    OBVIOUS
  <2> HIDE DEF found
  <2> QED BY <1>5, <2>1
<1> HIDE DEF found
<1> QED BY <1>4, <1>6 DEF Follows

-----------------------------------------------------------------------------
(* Matching. *)

IsFound(f, q, from) ==
  f = [i \in Nat |-> IF i < from THEN <<>>
                     ELSE IF q.rows[i] = "match" THEN Append(f[i - 1], i) ELSE f[i - 1]]

(* The recursion in Matching defines a function. *)
LEMMA MatchingDefined ==
  ASSUME NEW q, NEW from \in Nat \ {0}
  PROVE  \E found : IsFound(found, q, from)
<1> DEFINE V == Seq(Nat)
           Next(last, i) == IF q.rows[i] = "match" THEN Append(last, i) ELSE last
           step == [i \in Nat |-> [v \in V |-> Next(v, i)]]
<1>1. <<>> \in V /\ \A i \in Nat : \A v \in V : Append(v, i) \in V
  BY EmptySeq, AppendProperties
<1> HIDE DEF V
<1>2. step \in [Nat -> [V -> V]]
  BY <1>1
<1>3. PICK f : Follows(f, V, <<>>, from, step)
  <2> HIDE DEF step
  <2> QED BY <1>1, <1>2, Recursion
<1>4. /\ f \in [Nat -> V]
      /\ \A i \in Nat : f[i] = IF i < from THEN <<>> ELSE step[i][f[i - 1]]
  <2> HIDE DEF step
  <2> QED BY <1>3 DEF Follows
<1>5. ASSUME NEW i \in Nat
      PROVE  f[i] = IF i < from THEN <<>> ELSE Next(f[i - 1], i)
  <2>1. CASE i < from
    <3> HIDE DEF step, Next
    <3> QED BY <1>4, <2>1
  <2>2. CASE ~(i < from)
    <3>1. i - 1 \in Nat /\ f[i - 1] \in V
      <4>1. i - 1 \in Nat
        BY <2>2
      <4> HIDE DEF step, Next
      <4> QED BY <1>4, <4>1
    <3>2. f[i] = step[i][f[i - 1]]
      <4> HIDE DEF step, Next
      <4> QED BY <1>4, <2>2
    <3>3. step[i][f[i - 1]] = Next(f[i - 1], i)
      <4> HIDE DEF Next
      <4> QED BY <3>1
    <3> HIDE DEF step, Next
    <3> QED BY <2>2, <3>2, <3>3
  <2> QED BY <2>1, <2>2
<1>6. f = [i \in Nat |-> f[i]]
  <2> HIDE DEF step
  <2> QED BY <1>4
<1>7. f = [i \in Nat |-> IF i < from THEN <<>> ELSE Next(f[i - 1], i)]
  <2> HIDE DEF step, Next
  <2> QED BY <1>5, <1>6
<1> QED BY <1>7 DEF IsFound

(* Matches up to a row are those up to the row before it, and that row if it *)
(* matches.                                                                  *)
LEMMA MatchingRow ==
  ASSUME NEW q, NEW from \in Nat \ {0}, NEW to \in Nat
  PROVE  Matching(q, from, to) =
           IF to < from THEN <<>>
           ELSE IF q.rows[to] = "match" THEN Append(Matching(q, from, to - 1), to)
           ELSE Matching(q, from, to - 1)
<1> DEFINE found == CHOOSE f : IsFound(f, q, from)
<1>1. \A n : Matching(q, from, n) = found[n]
  BY DEF Matching, IsFound
<1>2. IsFound(found, q, from)
  BY MatchingDefined
<1> HIDE DEF found
<1> QED BY <1>1, <1>2 DEF IsFound

(* The same, from a row to the next.                                         *)
LEMMA MatchingStep ==
  ASSUME NEW q, NEW from \in Nat \ {0}, NEW n \in Nat
  PROVE  /\ n < from => Matching(q, from, n) = <<>>
         /\ n + 1 >= from =>
              Matching(q, from, n + 1) = IF q.rows[n + 1] = "match"
                                         THEN Append(Matching(q, from, n), n + 1)
                                         ELSE Matching(q, from, n)
<1>1. n < from => Matching(q, from, n) = <<>>
  BY MatchingRow
<1> DEFINE next == n + 1
<1>2. next \in Nat /\ next - 1 = n /\ (next >= from => ~(next < from))
  OBVIOUS
<1> HIDE DEF next
<1>3. Matching(q, from, next) =
           IF next < from THEN <<>>
           ELSE IF q.rows[next] = "match" THEN Append(Matching(q, from, next - 1), next)
           ELSE Matching(q, from, next - 1)
  BY <1>2, MatchingRow
<1>4. next >= from => Matching(q, from, next) =
           IF q.rows[next] = "match" THEN Append(Matching(q, from, n), next)
           ELSE Matching(q, from, n)
  BY <1>2, <1>3
<1> QED BY <1>1, <1>4 DEF next

(* Matches are rows of the range. *)
LEMMA MatchingType ==
  ASSUME NEW q, NEW from \in Nat \ {0}, NEW to \in Nat
  PROVE  Matching(q, from, to) \in Seq(from .. to)
<1> DEFINE P(n) == Matching(q, from, n) \in Seq(from .. n)
           S == {n \in Nat : P(n)}
<1>1. ASSUME NEW n \in Nat, n < from PROVE P(n)
  <2>1. Matching(q, from, n) = <<>>
    BY <1>1, MatchingStep
  <2> QED BY <2>1, EmptySeq
<1>2. ASSUME NEW n \in Nat, P(n) PROVE P(n + 1)
  <2>1. CASE n + 1 < from
    BY <1>1, <2>1
  <2>2. CASE n + 1 >= from
    <3> DEFINE T == from .. n + 1
               m == Matching(q, from, n)
    <3>1. from .. n \subseteq T /\ n + 1 \in T
      BY <2>2
    <3>2. m \in Seq(T)
      <4> HIDE DEF T
      <4> QED BY <1>2, <3>1, SeqMonotonic
    <3>3. Matching(q, from, n + 1) = IF q.rows[n + 1] = "match" THEN Append(m, n + 1) ELSE m
      BY <2>2, MatchingStep
    <3> HIDE DEF m, T
    <3>4. Append(m, n + 1) \in Seq(T)
      BY <3>1, <3>2, AppendProperties
    <3>5. Matching(q, from, n + 1) \in Seq(T)
      BY <3>2, <3>3, <3>4
    <3> QED BY <3>5 DEF T
  <2> QED BY <2>1, <2>2
<1>3. P(0)
  <2>1. 0 \in Nat /\ 0 < from
    OBVIOUS
  <2> HIDE DEF P
  <2> QED BY <1>1, <2>1
<1>4. 0 \in S /\ S \in SUBSET Nat /\ \A n \in S : n + 1 \in S
  <2> HIDE DEF P
  <2> QED BY <1>2, <1>3
<1> HIDE DEF S
<1>5. S = Nat
  BY <1>4, Induction
<1> QED BY <1>5 DEF S

(* What is appended to a concatenation is appended to its second part.       *)
LEMMA AppendToConcat ==
  \A s, t \in Seq(Nat), e \in Nat : Append(s \o t, e) = s \o Append(t, e)
<1> TAKE s \in Seq(Nat), t \in Seq(Nat), e \in Nat
<1> DEFINE last == <<e>>
<1>1. s \o t \in Seq(Nat) /\ last \in Seq(Nat)
  BY ConcatProperties
<1>2. Append(s \o t, e) = (s \o t) \o last
  BY <1>1, AppendIsConcat, Zenon
<1>3. Append(t, e) = t \o last
  BY <1>1, AppendIsConcat, Zenon
<1> HIDE DEF last
<1>4. (s \o t) \o last = s \o (t \o last)
  BY <1>1, ConcatAssociative, SMTT(40)
<1> QED BY <1>2, <1>3, <1>4, Zenon

(* Matches of adjacent ranges. *)
LEMMA MatchingJoins ==
  ASSUME NEW q, NEW from \in Nat \ {0}, NEW mid \in Nat, from <= mid + 1,
         NEW to \in Nat, mid <= to
  PROVE  Matching(q, from, to) = Matching(q, from, mid) \o Matching(q, mid + 1, to)
<1> DEFINE first == Matching(q, from, mid)
           Joined(n) == Matching(q, from, n) = first \o Matching(q, mid + 1, n)
           P(n) == mid <= n => Joined(n)
           S == {n \in Nat : P(n)}
<1>1. mid + 1 \in Nat \ {0} /\ mid < mid + 1
  OBVIOUS
<1>2. first \in Seq(Nat) /\ \A n \in Nat : Matching(q, mid + 1, n) \in Seq(Nat)
  <2>1. from .. mid \subseteq Nat /\ \A n \in Nat : mid + 1 .. n \subseteq Nat
    OBVIOUS
  <2>2. first \in Seq(from .. mid) /\ \A n \in Nat : Matching(q, mid + 1, n) \in Seq(mid + 1 .. n)
    BY <1>1, MatchingType
  <2> HIDE DEF first
  <2> QED BY <2>1, <2>2, SeqMonotonic
<1>3. Joined(mid)
  <2>1. Matching(q, mid + 1, mid) = <<>>
    BY <1>1, MatchingStep, Zenon
  <2>2. first \o <<>> = first
    <3> HIDE DEF first
    <3> QED BY <1>2, ConcatEmptySeq
  <2> QED BY <2>1, <2>2
<1>4. P(0)
  <2>1. CASE mid = 0
    BY <1>3, <2>1
  <2>2. CASE mid # 0
    BY <2>2
  <2> QED BY <2>1, <2>2
<1>5. ASSUME NEW n \in Nat, P(n), mid <= n + 1 PROVE Joined(n + 1)
  <2>1. CASE mid = n + 1
    BY <1>3, <2>1
  <2>2. CASE mid <= n
    <3> DEFINE second == Matching(q, mid + 1, n)
    <3>1. n + 1 \in Nat /\ n + 1 >= from /\ n + 1 >= mid + 1
      BY <2>2
    <3>2. /\ Matching(q, from, n + 1) =
               IF q.rows[n + 1] = "match" THEN Append(Matching(q, from, n), n + 1)
               ELSE Matching(q, from, n)
          /\ Matching(q, mid + 1, n + 1) =
               IF q.rows[n + 1] = "match" THEN Append(second, n + 1) ELSE second
      BY <1>1, <3>1, MatchingStep
    <3>3. Matching(q, from, n) = first \o second /\ second \in Seq(Nat)
      BY <1>2, <1>5, <2>2
    <3>4. Append(first \o second, n + 1) = first \o Append(second, n + 1)
      <4>1. PICK s \in Seq(Nat) : s = first
        BY <1>2
      <4>2. PICK t \in Seq(Nat) : t = second
        BY <3>3
      <4>3. Append(s \o t, n + 1) = s \o Append(t, n + 1)
        BY <3>1, AppendToConcat
      <4> QED BY <4>1, <4>2, <4>3
    <3>5. Matching(q, from, n + 1) = first \o Matching(q, mid + 1, n + 1)
      <4> HIDE DEF first, second
      <4> QED BY <3>2, <3>3, <3>4
    <3> QED BY <3>5
  <2> QED BY <1>5, <2>1, <2>2
<1>6. 0 \in S /\ S \in SUBSET Nat /\ \A n \in S : n + 1 \in S
  <2> HIDE DEF Joined
  <2> QED BY <1>4, <1>5
<1> HIDE DEF S
<1>7. S = Nat
  BY <1>6, Induction
<1> QED BY <1>7 DEF S

(* Matches from the first row on, split at any row.                          *)
LEMMA MatchingSplit ==
  ASSUME NEW q, NEW mid \in Nat, NEW to \in Nat, mid <= to
  PROVE  Matching(q, 1, to) = Matching(q, 1, mid) \o Matching(q, mid + 1, to)
<1>1. PICK from \in Nat \ {0} : from = 1
  OBVIOUS
<1>2. from <= mid + 1
  BY <1>1
<1>3. Matching(q, from, to) = Matching(q, from, mid) \o Matching(q, mid + 1, to)
  BY <1>2, MatchingJoins
<1> QED BY <1>1, <1>3

-----------------------------------------------------------------------------
(* Collecting. *)

(* What a sequence holds after its first o elements.                         *)
LEMMA SubSeqFrom ==
  ASSUME NEW s \in Seq(Nat), NEW o \in Nat, NEW e \in Nat, e <= Len(s)
  PROVE  /\ SubSeq(s, o + 1, e) \in Seq(Nat)
         /\ Len(SubSeq(s, o + 1, e)) = IF o < e THEN e - o ELSE 0
         /\ \A i \in 1 .. e - o : SubSeq(s, o + 1, e)[i] = s[o + i]
<1>1. PICK m \in Nat : m = o + 1
  OBVIOUS
<1>2. \A i \in m .. e : s[i] \in Nat
  BY <1>1, ElementOfSeq, LenProperties
<1>3. PICK u : u = SubSeq(s, m, e)
  OBVIOUS
<1>4. /\ u \in Seq(Nat) /\ Len(u) = IF m <= e THEN e - m + 1 ELSE 0
      /\ \A i \in 1 .. e - m + 1 : u[i] = s[m + i - 1]
  BY <1>2, <1>3, SubSeqProperties
<1>5. /\ Len(u) = IF o < e THEN e - o ELSE 0
      /\ \A i \in 1 .. e - o : u[i] = s[o + i]
  BY <1>1, <1>4
<1> QED BY <1>1, <1>3, <1>4, <1>5

(* Skipping o elements of a concatenation skips those that its first part    *)
(* has, and the rest in its second.                                          *)
LEMMA SubSeqJoins ==
  ASSUME NEW s \in Seq(Nat), NEW t \in Seq(Nat), NEW o \in Nat, NEW last \in 0 .. Len(t)
  PROVE  SubSeq(s, o + 1, Len(s)) \o SubSeq(t, o - Smaller(o, Len(s)) + 1, last)
           = SubSeq(s \o t, o + 1, Len(s) + last)
<1>1. PICK n : n = Len(s)
  OBVIOUS
<1>2. PICK skip : skip = o - Smaller(o, n)
  OBVIOUS
<1>3. PICK j : j = s \o t
  OBVIOUS
<1>4. /\ n \in Nat /\ last \in Nat /\ last <= Len(t) /\ Len(t) \in Nat
      /\ skip \in Nat /\ skip = IF o < n THEN 0 ELSE o - n
  <2>1. n \in Nat /\ Len(t) \in Nat
    BY <1>1, LenProperties
  <2> QED BY <1>2, <2>1 DEF Smaller
<1>5. PICK u : u = SubSeq(s, o + 1, n)
  OBVIOUS
<1>6. PICK v : v = SubSeq(t, skip + 1, last)
  OBVIOUS
<1>7. PICK w : w = SubSeq(j, o + 1, n + last)
  OBVIOUS
<1>8. PICK x : x = u \o v
  OBVIOUS
<1>9. /\ j \in Seq(Nat) /\ Len(j) = n + Len(t)
      /\ \A i \in 1 .. n + Len(t) : j[i] = IF i <= n THEN s[i] ELSE t[i - n]
  BY <1>1, <1>3, ConcatProperties
<1>10. /\ u \in Seq(Nat) /\ Len(u) = IF o < n THEN n - o ELSE 0
       /\ \A i \in 1 .. n - o : u[i] = s[o + i]
  BY <1>1, <1>4, <1>5, SubSeqFrom, SMTT(40)
<1>11. /\ v \in Seq(Nat) /\ Len(v) = IF skip < last THEN last - skip ELSE 0
       /\ \A i \in 1 .. last - skip : v[i] = t[skip + i]
  BY <1>4, <1>6, SubSeqFrom, SMTT(40)
<1>12. /\ w \in Seq(Nat) /\ Len(w) = IF o < n + last THEN n + last - o ELSE 0
       /\ \A i \in 1 .. n + last - o : w[i] = j[o + i]
  <2>1. PICK e : e = n + last
    OBVIOUS
  <2>2. e \in Nat /\ e <= Len(j)
    BY <1>4, <1>9, <2>1
  <2>3. /\ w \in Seq(Nat) /\ Len(w) = IF o < e THEN e - o ELSE 0
        /\ \A i \in 1 .. e - o : w[i] = j[o + i]
    BY <1>7, <1>9, <2>1, <2>2, SubSeqFrom, SMTT(40)
  <2> QED BY <1>4, <2>1, <2>3
<1>13. /\ x \in Seq(Nat) /\ Len(x) = Len(u) + Len(v)
       /\ \A i \in 1 .. Len(u) + Len(v) : x[i] = IF i <= Len(u) THEN u[i] ELSE v[i - Len(u)]
  BY <1>8, <1>10, <1>11, ConcatProperties
<1>14. Len(x) = Len(w)
  <2>1. CASE o < n
    <3>1. skip = 0 /\ Len(u) = n - o /\ Len(w) = n + last - o
      BY <1>4, <1>10, <1>12, <2>1
    <3>2. Len(v) = last
      BY <1>4, <1>11, <3>1
    <3> QED BY <1>4, <1>13, <3>1, <3>2
  <2>2. CASE ~(o < n)
    <3>1. skip = o - n /\ Len(u) = 0
      BY <1>4, <1>10, <2>2
    <3>2. Len(x) = Len(v)
      BY <1>11, <1>13, <3>1, LenProperties
    <3>3. skip < last <=> o < n + last
      BY <1>4, <3>1
    <3>4. last - skip = n + last - o
      BY <1>4, <3>1
    <3> QED BY <1>11, <1>12, <3>2, <3>3, <3>4
  <2> QED BY <2>1, <2>2
<1>15. ASSUME NEW i \in 1 .. Len(w) PROVE x[i] = w[i]
  <2>1. i \in Nat /\ i >= 1 /\ i <= n + last - o /\ o + i \in 1 .. n + Len(t)
    BY <1>4, <1>12, SMTT(40)
  <2>2. w[i] = j[o + i] /\ i \in 1 .. Len(u) + Len(v)
    BY <1>4, <1>12, <1>13, <1>14, <2>1, SMTT(40)
  <2>3. CASE o + i <= n
    <3>1. i <= Len(u) /\ i \in 1 .. n - o
      BY <1>4, <1>10, <2>1, <2>3
    <3> QED BY <1>9, <1>10, <1>13, <2>1, <2>2, <2>3, <3>1
  <2>4. CASE ~(o + i <= n)
    <3>1. ~(i <= Len(u)) /\ i - Len(u) \in 1 .. last - skip /\ skip + (i - Len(u)) = o + i - n
      BY <1>4, <1>10, <2>1, <2>4
    <3>2. x[i] = v[i - Len(u)]
      BY <1>13, <2>2, <3>1
    <3>3. v[i - Len(u)] = t[o + i - n]
      BY <1>11, <3>1
    <3>4. j[o + i] = t[o + i - n]
      <4>1. PICK k \in 1 .. n + Len(t) : k = o + i
        BY <2>1
      <4> QED BY <1>4, <1>9, <2>4, <4>1, SMTT(40)
    <3> QED BY <2>2, <3>2, <3>3, <3>4
  <2> QED BY <2>3, <2>4
<1>16. x = w
  BY <1>12, <1>13, <1>14, <1>15, SeqEqual
<1> QED BY <1>1, <1>2, <1>3, <1>5, <1>6, <1>7, <1>8, <1>16

(* The fields of the state that matches make.                                *)
LEMMA StateFields ==
  ASSUME NEW q, NEW m, NEW end,
         end = IF q.limit = NoLimit THEN Len(m) ELSE Smaller(Len(m), q.offset + q.limit)
  PROVE  /\ StateOf(q, m).rows = SubSeq(m, q.offset + 1, end)
         /\ StateOf(q, m).skipped = Smaller(q.offset, Len(m))
         /\ StateOf(q, m).complete <=> q.limit # NoLimit /\ Len(StateOf(q, m).rows) >= q.limit
<1>1. StateOf(q, m) = [skipped |-> Smaller(q.offset, Len(m)), rows |-> SubSeq(m, q.offset + 1, end),
         complete |-> q.limit # NoLimit /\ Len(SubSeq(m, q.offset + 1, end)) >= q.limit]
  BY Zenon DEF StateOf
<1>2. PICK rows : rows = SubSeq(m, q.offset + 1, end)
  OBVIOUS
<1>3. PICK complete \in BOOLEAN : complete <=> q.limit # NoLimit /\ Len(rows) >= q.limit
  OBVIOUS
<1>4. StateOf(q, m) = [skipped |-> Smaller(q.offset, Len(m)), rows |-> rows, complete |-> complete]
  BY <1>1, <1>2, <1>3, Zenon
<1>5. /\ StateOf(q, m).rows = rows /\ StateOf(q, m).complete = complete
      /\ StateOf(q, m).skipped = Smaller(q.offset, Len(m))
  BY <1>4
<1> QED BY <1>2, <1>3, <1>5, Zenon

(* A state that is not complete holds all matches after the offset.          *)
LEMMA NotComplete ==
  ASSUME NEW q, IsQuery(q), NEW m \in Seq(Nat), ~StateOf(q, m).complete
  PROVE  /\ q.limit # NoLimit => q.limit \in Nat /\ Len(m) < q.offset + q.limit
         /\ StateOf(q, m).rows = SubSeq(m, q.offset + 1, Len(m))
<1>1. PICK n : n = Len(m)
  OBVIOUS
<1>2. PICK o : o = q.offset
  OBVIOUS
<1>3. n \in Nat /\ o \in Nat
  BY <1>1, <1>2, LenProperties DEF IsQuery
<1>4. ASSUME q.limit # NoLimit PROVE q.limit \in Nat /\ n < o + q.limit
  <2>1. PICK l \in Nat : l = q.limit
    BY <1>4 DEF IsQuery
  <2>2. SUFFICES ASSUME ~(n < o + l) PROVE FALSE
    BY <2>1
  <2>3. PICK e \in Nat : e = o + l /\ e <= n
    BY <1>3, <2>2
  <2>4. e = IF q.limit = NoLimit THEN Len(m) ELSE Smaller(Len(m), q.offset + q.limit)
    BY <1>1, <1>2, <1>3, <1>4, <2>1, <2>3 DEF Smaller
  <2>5. Len(SubSeq(m, o + 1, e)) = IF o < e THEN e - o ELSE 0
    BY <1>1, <1>3, <2>3, SubSeqFrom
  <2>6. Len(SubSeq(m, o + 1, e)) = l
    BY <1>3, <2>3, <2>5
  <2>7. Len(StateOf(q, m).rows) = l
    BY <1>2, <2>4, <2>6, StateFields
  <2> QED BY <1>4, <2>1, <2>4, <2>7, StateFields
<1>5. StateOf(q, m).rows = SubSeq(m, o + 1, n)
  <2>1. n = IF q.limit = NoLimit THEN Len(m) ELSE Smaller(Len(m), q.offset + q.limit)
    BY <1>1, <1>2, <1>3, <1>4 DEF Smaller
  <2> QED BY <1>2, <2>1, StateFields
<1> QED BY <1>1, <1>2, <1>4, <1>5

(* Collecting page after page makes what all matches make at once. *)
LEMMA CollectJoins ==
  ASSUME NEW q, IsQuery(q), NEW m1 \in Seq(Nat), NEW m2 \in Seq(Nat), ~StateOf(q, m1).complete
  PROVE  Collect(q, StateOf(q, m1), m2) = StateOf(q, m1 \o m2)
<1>1. PICK n : n = Len(m1)
  OBVIOUS
<1>2. PICK k : k = Len(m2)
  OBVIOUS
<1>3. PICK o : o = q.offset
  OBVIOUS
<1>4. PICK m : m = m1 \o m2
  OBVIOUS
<1>5. PICK s : s = StateOf(q, m1)
  OBVIOUS
<1>6. /\ n \in Nat /\ k \in Nat /\ o \in Nat
      /\ m \in Seq(Nat) /\ Len(m) = n + k
  BY <1>1, <1>2, <1>3, <1>4, LenProperties, ConcatProperties DEF IsQuery
<1>7. /\ q.limit # NoLimit => q.limit \in Nat /\ n < o + q.limit
      /\ s.rows = SubSeq(m1, o + 1, n)
      /\ s.skipped = Smaller(o, n)
      /\ Len(s.rows) = IF o < n THEN n - o ELSE 0
  <2>1. /\ q.limit # NoLimit => q.limit \in Nat /\ n < o + q.limit
        /\ s.rows = SubSeq(m1, o + 1, n)
    BY <1>1, <1>3, <1>5, NotComplete
  <2>2. s.skipped = Smaller(o, n)
    BY <1>1, <1>3, <1>5 DEF StateOf
  <2>3. Len(s.rows) = IF o < n THEN n - o ELSE 0
    BY <1>1, <1>6, <2>1, SubSeqFrom
  <2> QED BY <2>1, <2>2, <2>3
<1>8. PICK toSkip : toSkip = ToSkip(q, s)
  OBVIOUS
<1>9. toSkip = o - Smaller(o, n) /\ toSkip = IF o < n THEN 0 ELSE o - n
  BY <1>3, <1>6, <1>7, <1>8 DEF ToSkip, Smaller
<1>10. PICK last : last = IF q.limit = NoLimit THEN k ELSE Smaller(k, toSkip + Room(q, s))
  OBVIOUS
<1>11. /\ q.limit # NoLimit => toSkip + Room(q, s) = o + q.limit - n
       /\ last \in 0 .. k
       /\ last = IF q.limit = NoLimit THEN k ELSE Smaller(k, o + q.limit - n)
  <2>1. CASE q.limit = NoLimit
    BY <1>6, <1>10, <2>1
  <2>2. CASE q.limit # NoLimit
    <3>1. PICK l \in Nat : l = q.limit /\ n < o + l
      BY <1>7, <2>2
    <3>2. Room(q, s) = l - (IF o < n THEN n - o ELSE 0)
      BY <1>7, <3>1 DEF Room
    <3>3. toSkip + Room(q, s) = o + l - n
      <4>1. CASE o < n
        <5>1. toSkip = 0 /\ Room(q, s) = l - (n - o)
          BY <1>9, <3>2, <4>1
        <5> QED BY <1>6, <3>1, <5>1
      <4>2. CASE ~(o < n)
        <5>1. toSkip = o - n /\ Room(q, s) = l - 0
          BY <1>9, <3>2, <4>2
        <5> QED BY <1>6, <3>1, <5>1
      <4> QED BY <4>1, <4>2
    <3>4. last = Smaller(k, o + l - n)
      BY <1>10, <2>2, <3>3
    <3>5. last \in 0 .. k
      <4>1. PICK e \in Nat : e = o + l - n
        BY <1>6, <3>1
      <4> QED BY <1>6, <3>4, <4>1 DEF Smaller
    <3> QED BY <2>2, <3>1, <3>3, <3>4, <3>5
  <2> QED BY <2>1, <2>2
<1>12. PICK end : end = IF q.limit = NoLimit THEN Len(m) ELSE Smaller(Len(m), o + q.limit)
  OBVIOUS
<1>13. end = n + last
  <2>1. CASE q.limit = NoLimit
    BY <1>6, <1>11, <1>12, <2>1
  <2>2. CASE q.limit # NoLimit
    <3>1. PICK l \in Nat : l = q.limit /\ n < o + l
      BY <1>7, <2>2
    <3> QED BY <1>6, <1>11, <1>12, <2>2, <3>1, SMTT(40) DEF Smaller
  <2> QED BY <2>1, <2>2
<1>14. PICK rows : rows = SubSeq(m, o + 1, end)
  OBVIOUS
<1>15. s.rows \o SubSeq(m2, toSkip + 1, last) = rows
  <2>1. SubSeq(m1, o + 1, Len(m1)) \o SubSeq(m2, o - Smaller(o, Len(m1)) + 1, last)
           = SubSeq(m1 \o m2, o + 1, Len(m1) + last)
    BY <1>2, <1>6, <1>11, SubSeqJoins
  <2> QED BY <1>1, <1>4, <1>7, <1>9, <1>13, <1>14, <2>1
<1>16. Smaller(o, s.skipped + k) = Smaller(o, Len(m))
  BY <1>6, <1>7 DEF Smaller
<1>17. Collect(q, s, m2) = [skipped |-> Smaller(o, s.skipped + k), rows |-> rows,
                            complete |-> q.limit # NoLimit /\ Len(rows) >= q.limit]
  BY <1>2, <1>3, <1>8, <1>10, <1>15 DEF Collect, SkippedAfter
<1>18. StateOf(q, m) = [skipped |-> Smaller(o, Len(m)), rows |-> rows,
                        complete |-> q.limit # NoLimit /\ Len(rows) >= q.limit]
  BY <1>3, <1>12, <1>14 DEF StateOf
<1> QED BY <1>4, <1>5, <1>16, <1>17, <1>18

(* The state before the first page is the state of no matches. *)
LEMMA BeginIsStateOf ==
  ASSUME NEW q, IsQuery(q)
  PROVE  BeginState(q) = StateOf(q, <<>>)
<1>1. PICK o \in Nat : o = q.offset
  BY DEF IsQuery
<1>2. PICK end \in {0} : end = IF q.limit = NoLimit THEN 0 ELSE Smaller(0, o + q.limit)
  BY <1>1 DEF IsQuery, Smaller
<1>3. PICK empty : empty = <<>>
  OBVIOUS
<1>4. empty \in Seq(Nat) /\ Len(empty) = 0 /\ SubSeq(empty, o + 1, end) = empty
  BY <1>1, <1>2, <1>3, SubSeqEmpty
<1>5. StateOf(q, empty).rows = empty /\ StateOf(q, empty).skipped = 0
  BY <1>1, <1>2, <1>4, StateFields DEF Smaller
<1>6. StateOf(q, empty).complete <=> q.limit = 0
  <2>1. StateOf(q, empty).complete <=> q.limit # NoLimit /\ Len(StateOf(q, empty).rows) >= q.limit
    BY <1>1, <1>2, <1>4, StateFields
  <2> QED BY <1>4, <1>5, <2>1, NoLimitAssumption DEF IsQuery
<1>7. /\ StateOf(q, empty).complete \in BOOLEAN
      /\ StateOf(q, empty) = [skipped |-> StateOf(q, empty).skipped, rows |-> StateOf(q, empty).rows,
                              complete |-> StateOf(q, empty).complete]
  BY DEF StateOf
<1> QED BY <1>3, <1>5, <1>6, <1>7 DEF BeginState

(* When the limit is reached, no row after the one that reached it matters.  *)
LEMMA CompleteState ==
  ASSUME NEW q, IsQuery(q), q.limit # 0, NEW to \in 0 .. Len(q.rows),
         StateOf(q, Matching(q, 1, to)).complete
  PROVE  /\ StateOf(q, Matching(q, 1, to)).rows = Answer(q)
         /\ Answer(q) # <<>>
         /\ LastNeeded(q) \in 1 .. to
         /\ LastNeeded(q) = Answer(q)[Len(Answer(q))]
<1>1. PICK o \in Nat : o = q.offset
  BY DEF IsQuery
<1>2. PICK N \in Nat : N = Len(q.rows)
  BY LenProperties DEF IsQuery
<1>3. PICK m1 : m1 = Matching(q, 1, to)
  OBVIOUS
<1>4. PICK m2 : m2 = Matching(q, to + 1, N)
  OBVIOUS
<1>5. PICK m : m = Matching(q, 1, N)
  OBVIOUS
<1>6. to \in Nat /\ to <= N
  BY <1>2
<1>7. m1 \in Seq(1 .. to) /\ m1 \in Seq(Nat) /\ m2 \in Seq(Nat) /\ m = m1 \o m2
  <2>1. m1 \in Seq(1 .. to)
    BY <1>3, <1>6, MatchingType
  <2>2. m2 \in Seq(to + 1 .. N)
    BY <1>2, <1>4, <1>6, MatchingType
  <2>3. m = m1 \o m2
    BY <1>2, <1>3, <1>4, <1>5, <1>6, MatchingSplit
  <2>4. 1 .. to \subseteq Nat /\ to + 1 .. N \subseteq Nat
    BY <1>6
  <2> QED BY <2>1, <2>2, <2>3, <2>4, SeqMonotonic
<1>8. PICK n \in Nat : n = Len(m1)
  BY <1>7, LenProperties
<1>9. /\ m \in Seq(Nat) /\ Len(m) \in Nat /\ n <= Len(m)
      /\ \A i \in 1 .. n : m[i] = m1[i]
  <2>1. Len(m2) \in Nat
    BY <1>7, LenProperties
  <2>2. /\ m \in Seq(Nat) /\ Len(m) = n + Len(m2)
        /\ \A i \in 1 .. n + Len(m2) : m[i] = IF i <= n THEN m1[i] ELSE m2[i - n]
    BY <1>7, <1>8, ConcatProperties
  <2> QED BY <2>1, <2>2
<1>10. PICK l \in Nat \ {0} : l = q.limit /\ l # NoLimit
  <2>1. PICK end : end = IF q.limit = NoLimit THEN Len(m1) ELSE Smaller(Len(m1), q.offset + q.limit)
    OBVIOUS
  <2>2. q.limit # NoLimit
    BY <1>3, <2>1, StateFields
  <2> QED BY <2>2 DEF IsQuery
<1>11. o + l <= n
  <2>1. SUFFICES ASSUME n < o + l PROVE FALSE
    BY <1>8
  <2>2. n = IF q.limit = NoLimit THEN Len(m1) ELSE Smaller(Len(m1), q.offset + q.limit)
    BY <1>1, <1>8, <1>10, <2>1 DEF Smaller
  <2>3. Len(StateOf(q, m1).rows) = IF o < n THEN n - o ELSE 0
    <3>1. StateOf(q, m1).rows = SubSeq(m1, o + 1, n)
      BY <1>1, <2>2, StateFields
    <3>2. Len(SubSeq(m1, o + 1, n)) = IF o < n THEN n - o ELSE 0
      BY <1>7, <1>8, SubSeqFrom
    <3> QED BY <3>1, <3>2
  <2>4. Len(StateOf(q, m1).rows) >= l
    BY <1>3, <1>10, <2>2, StateFields
  <2> QED BY <2>1, <2>3, <2>4
<1>12. PICK e \in Nat : e = o + l /\ e <= n /\ e <= Len(m) /\ e - o = l /\ o < e
  BY <1>9, <1>11
<1>13. /\ e = IF q.limit = NoLimit THEN Len(m1) ELSE Smaller(Len(m1), q.offset + q.limit)
       /\ e = IF q.limit = NoLimit THEN Len(m) ELSE Smaller(Len(m), q.offset + q.limit)
  <2>1. e = Smaller(n, o + l) /\ e = Smaller(Len(m), o + l)
    BY <1>8, <1>9, <1>10, <1>12, SMTT(40) DEF Smaller
  <2>2. q.limit # NoLimit /\ q.limit = l /\ q.offset = o /\ Len(m1) = n
    BY <1>1, <1>8, <1>10
  <2> QED BY <2>1, <2>2
<1>14. PICK r1 : r1 = SubSeq(m1, o + 1, e)
  OBVIOUS
<1>15. PICK r : r = SubSeq(m, o + 1, e)
  OBVIOUS
<1>16. /\ r1 \in Seq(Nat) /\ Len(r1) = l /\ \A i \in 1 .. l : r1[i] = m1[o + i]
       /\ r \in Seq(Nat) /\ Len(r) = l /\ \A i \in 1 .. l : r[i] = m[o + i]
  <2>1. /\ r1 \in Seq(Nat) /\ Len(r1) = IF o < e THEN e - o ELSE 0
        /\ \A i \in 1 .. e - o : r1[i] = m1[o + i]
    BY <1>7, <1>8, <1>12, <1>14, SubSeqFrom
  <2>2. /\ r \in Seq(Nat) /\ Len(r) = IF o < e THEN e - o ELSE 0
        /\ \A i \in 1 .. e - o : r[i] = m[o + i]
    BY <1>9, <1>12, <1>15, SubSeqFrom
  <2> QED BY <1>12, <2>1, <2>2
<1>17. r1 = r
  <2>1. ASSUME NEW i \in 1 .. l PROVE r1[i] = r[i]
    <3>1. PICK k \in 1 .. n : k = o + i
      BY <1>12
    <3> QED BY <1>9, <1>16, <3>1
  <2> QED BY <1>16, <2>1, SeqEqual
<1>18. StateOf(q, m1).rows = r1 /\ Answer(q) = r
  <2>1. StateOf(q, m1).rows = r1
    BY <1>1, <1>13, <1>14, StateFields
  <2>2. StateOf(q, m).rows = r
    BY <1>1, <1>13, <1>15, StateFields
  <2> QED BY <1>2, <1>5, <2>1, <2>2 DEF Answer
<1>19. r[l] = m1[e] /\ m1[e] \in 1 .. to
  BY <1>7, <1>8, <1>12, <1>16, <1>17, ElementOfSeq
<1>20. LastNeeded(q) = r[l]
  BY <1>10, <1>16, <1>18 DEF LastNeeded, LimitReached
<1> QED BY <1>3, <1>16, <1>17, <1>18, <1>19, <1>20

(* Before it is reached, some row further on is needed, or none is left. *)
LEMMA IncompleteState ==
  ASSUME NEW q, IsQuery(q), NEW to \in 0 .. Len(q.rows),
         ~StateOf(q, Matching(q, 1, to)).complete
  PROVE  /\ q.limit # 0
         /\ LastNeeded(q) \in to .. Len(q.rows)
         /\ LastNeeded(q) = to => to = Len(q.rows)
<1>1. PICK o \in Nat : o = q.offset
  BY DEF IsQuery
<1>2. PICK N \in Nat : N = Len(q.rows)
  BY LenProperties DEF IsQuery
<1>3. PICK m1 : m1 = Matching(q, 1, to)
  OBVIOUS
<1>4. PICK m2 : m2 = Matching(q, to + 1, N)
  OBVIOUS
<1>5. PICK m : m = Matching(q, 1, N)
  OBVIOUS
<1>6. to \in Nat /\ to <= N
  BY <1>2
<1>7. m1 \in Seq(Nat) /\ m2 \in Seq(Nat) /\ m2 \in Seq(to + 1 .. N) /\ m = m1 \o m2
  <2>1. m1 \in Seq(1 .. to)
    BY <1>3, <1>6, MatchingType
  <2>2. m2 \in Seq(to + 1 .. N)
    BY <1>2, <1>4, <1>6, MatchingType
  <2>3. m = m1 \o m2
    BY <1>2, <1>3, <1>4, <1>5, <1>6, MatchingSplit
  <2>4. 1 .. to \subseteq Nat /\ to + 1 .. N \subseteq Nat
    BY <1>6
  <2> QED BY <2>1, <2>2, <2>3, <2>4, SeqMonotonic
<1>8. PICK n \in Nat : n = Len(m1)
  BY <1>7, LenProperties
<1>9. /\ m \in Seq(Nat) /\ Len(m) = n + Len(m2) /\ Len(m2) \in Nat
      /\ \A i \in 1 .. n + Len(m2) : m[i] = IF i <= n THEN m1[i] ELSE m2[i - n]
  <2>1. Len(m2) \in Nat
    BY <1>7, LenProperties
  <2> QED BY <1>7, <1>8, <2>1, ConcatProperties
<1>10. q.limit # NoLimit => q.limit \in Nat /\ n < o + q.limit
  BY <1>1, <1>3, <1>7, <1>8, NotComplete
<1>11. q.limit # 0
  <2>1. SUFFICES ASSUME q.limit = 0 PROVE FALSE
    OBVIOUS
  <2>2. PICK end : end = IF q.limit = NoLimit THEN Len(m1) ELSE Smaller(Len(m1), q.offset + q.limit)
    OBVIOUS
  <2>3. q.limit # NoLimit
    BY <2>1, NoLimitAssumption
  <2>4. StateOf(q, m1).rows = SubSeq(m1, o + 1, n)
    BY <1>1, <1>3, <1>7, <1>8, NotComplete
  <2>5. Len(StateOf(q, m1).rows) \in Nat
    BY <1>7, <1>8, <2>4, SubSeqFrom
  <2>6. StateOf(q, m1).complete <=> q.limit # NoLimit /\ Len(StateOf(q, m1).rows) >= q.limit
    BY <2>2, StateFields
  <2> QED BY <1>3, <2>1, <2>3, <2>5, <2>6
<1>12. CASE ~LimitReached(q)
  BY <1>2, <1>6, <1>11, <1>12 DEF LastNeeded
<1>13. CASE LimitReached(q)
  <2>1. PICK l \in Nat \ {0} : l = q.limit /\ l # NoLimit /\ Len(Answer(q)) = l /\ n < o + l
    BY <1>10, <1>11, <1>13 DEF LimitReached
  <2>2. PICK end \in Nat : /\ end = IF q.limit = NoLimit THEN Len(m) ELSE Smaller(Len(m), q.offset + q.limit)
                           /\ end = IF Len(m) < o + l THEN Len(m) ELSE o + l
    BY <1>1, <1>9, <2>1 DEF Smaller
  <2>3. Answer(q) = SubSeq(m, o + 1, end)
    BY <1>1, <1>2, <1>5, <2>2, StateFields DEF Answer
  <2>4. end <= Len(m)
    BY <1>9, <2>2
  <2>5. /\ l = IF o < end THEN end - o ELSE 0
        /\ \A i \in 1 .. end - o : Answer(q)[i] = m[o + i]
    <3>1. /\ Len(SubSeq(m, o + 1, end)) = IF o < end THEN end - o ELSE 0
          /\ \A i \in 1 .. end - o : SubSeq(m, o + 1, end)[i] = m[o + i]
      BY <1>9, <2>4, SubSeqFrom
    <3> QED BY <2>1, <2>3, <3>1
  <2>6. end = o + l /\ o + l <= Len(m)
    BY <2>1, <2>4, <2>5
  <2>7. Answer(q)[l] = m[o + l]
    BY <2>1, <2>5, <2>6
  <2>8. PICK k \in 1 .. Len(m2) : k = o + l - n
    <3>1. PICK k \in Int : k = o + l - n
      OBVIOUS
    <3>2. n < o + l /\ o + l <= n + Len(m2) /\ Len(m2) \in Nat
      BY <1>9, <2>1, <2>6
    <3> QED BY <3>1, <3>2
  <2>9. PICK i \in 1 .. n + Len(m2) : i = o + l /\ ~(i <= n)
    BY <1>9, <2>1, <2>6, SMTT(40)
  <2>10. m[o + l] = m2[k]
    BY <1>9, <2>8, <2>9
  <2>11. m2[k] \in to + 1 .. N
    BY <1>7, ElementOfSeq
  <2>12. LastNeeded(q) = m2[k]
    BY <1>13, <2>1, <2>7, <2>10 DEF LastNeeded
  <2> QED BY <1>2, <1>6, <1>11, <2>11, <2>12
<1> QED BY <1>12, <1>13

-----------------------------------------------------------------------------
(* Pages. *)

(* Multiples of the size of a page.                                          *)
LEMMA PageArithmetic ==
  ASSUME NEW b \in Nat \ {0}
  PROVE  /\ \A p \in Int : p * b \in Int /\ (p + 1) * b = p * b + b /\ (p - 1) * b = p * b - b
         /\ \A p \in Nat : p * b \in Nat /\ p <= p * b
         /\ \A p, r \in Int : p <= r => p * b <= r * b
         /\ \A p, r \in Int : p * b < r * b => p < r
<1>1. \A p \in Int : p * b \in Int /\ (p + 1) * b = p * b + b /\ (p - 1) * b = p * b - b
  OBVIOUS
<1>2. \A p \in Nat : p * b \in Nat /\ p <= p * b
  OBVIOUS
<1>3. ASSUME NEW p \in Int, NEW r \in Int, p <= r PROVE p * b <= r * b
  <2>1. (r - p) * b >= 0
    BY <1>3
  <2> QED BY <2>1
<1>4. ASSUME NEW p \in Int, NEW r \in Int, p * b < r * b PROVE p < r
  <2>1. SUFFICES ASSUME r <= p PROVE FALSE
    OBVIOUS
  <2>2. r * b <= p * b
    BY <1>3, <2>1
  <2>3. p * b \in Int /\ r * b \in Int
    BY <1>1
  <2> QED BY <1>4, <2>2, <2>3
<1> QED BY <1>1, <1>2, <1>3, <1>4

(* Pages follow each other: the last row of each is at or after that of the  *)
(* page before, and a page begins where the one before it ended, unless that *)
(* has met the end.                                                          *)
LEMMA PageBounds ==
  ASSUME NEW q, IsQuery(q), NEW c \in Nat
  PROVE  /\ LastOf(q, c) \in 0 .. Len(q.rows) /\ LastOf(q, c) <= LastOf(q, c + 1)
         /\ LastOf(q, 0) = 0 /\ ~ReachesEnd(q, 0)
         /\ FirstOf(q, c + 1) \in Nat \ {0}
         /\ ReachesEnd(q, c) => LastOf(q, c) = Len(q.rows)
         /\ ~ReachesEnd(q, c) => FirstOf(q, c + 1) = LastOf(q, c) + 1
         /\ IsEmptyPage(q, c + 1) <=> LastOf(q, c) = Len(q.rows)
<1>1. PICK b \in Nat \ {0} : b = q.batchSize
  BY DEF IsQuery
<1>2. PICK N \in Nat : N = Len(q.rows)
  BY LenProperties DEF IsQuery
<1>3. PICK e \in Nat : e = c * b
  BY PageArithmetic
<1>4. (c + 1) * b = e + b /\ (c + 1 - 1) * b = e /\ 0 * b = 0
  BY <1>3
<1>5. LastOf(q, c) = Smaller(e, N) /\ LastOf(q, c + 1) = Smaller(e + b, N)
  BY <1>1, <1>2, <1>3, <1>4 DEF LastOf
<1>6. FirstOf(q, c + 1) = e + 1
  BY <1>1, <1>4 DEF FirstOf
<1>7. LastOf(q, 0) = 0 /\ ~ReachesEnd(q, 0)
  BY <1>1, <1>2, <1>4, SMTT(40) DEF LastOf, ReachesEnd, Smaller
<1>8. ReachesEnd(q, c) <=> e > N
  BY <1>1, <1>2, <1>3 DEF ReachesEnd
<1>9. IsEmptyPage(q, c + 1) <=> e + 1 > N
  BY <1>2, <1>6 DEF IsEmptyPage
<1> QED BY <1>2, <1>5, <1>6, <1>7, <1>8, <1>9 DEF Smaller

(* Before the first page is read nothing has been found.                     *)
LEMMA BeginIsFirst ==
  ASSUME NEW q, IsQuery(q)
  PROVE  BeginState(q) = StateAfter(q, 0)
<1>1. PICK from \in Nat \ {0} : from = 1
  OBVIOUS
<1>2. PICK to \in Nat : to = 0
  OBVIOUS
<1>3. Matching(q, from, to) = <<>>
  <2>1. to < from
    BY <1>1, <1>2
  <2> QED BY <2>1, MatchingStep
<1>4. LastOf(q, 0) = 0
  BY <1>2, PageBounds
<1> QED BY <1>1, <1>2, <1>3, <1>4, BeginIsStateOf DEF StateAfter

(* Taking the next page in makes the state that is one page further.         *)
LEMMA PageCollects ==
  ASSUME NEW q, IsQuery(q), NEW c \in Nat, ~ReachesEnd(q, c), ~StateAfter(q, c).complete
  PROVE  Collect(q, StateAfter(q, c), Matching(q, FirstOf(q, c + 1), LastOf(q, c + 1)))
           = StateAfter(q, c + 1)
<1>1. PICK N \in Nat : N = Len(q.rows)
  BY LenProperties DEF IsQuery
<1>2. PICK l \in Nat : l = LastOf(q, c)
  BY <1>1, PageBounds
<1>3. PICK r \in Nat : r = LastOf(q, c + 1)
  <2>1. c + 1 \in Nat
    OBVIOUS
  <2> QED BY <1>1, <2>1, PageBounds
<1>4. l <= r /\ FirstOf(q, c + 1) = l + 1
  BY <1>2, <1>3, PageBounds
<1>5. PICK m1 : m1 = Matching(q, 1, l)
  OBVIOUS
<1>6. PICK m2 : m2 = Matching(q, l + 1, r)
  OBVIOUS
<1>7. Matching(q, 1, r) = m1 \o m2
  BY <1>4, <1>5, <1>6, MatchingSplit
<1>8. m1 \in Seq(Nat) /\ m2 \in Seq(Nat)
  <2>1. m1 \in Seq(1 .. l)
    BY <1>5, MatchingType
  <2>2. m2 \in Seq(l + 1 .. r)
    BY <1>6, MatchingType
  <2>3. 1 .. l \subseteq Nat /\ l + 1 .. r \subseteq Nat
    OBVIOUS
  <2> QED BY <2>1, <2>2, <2>3, SeqMonotonic
<1>9. Collect(q, StateOf(q, m1), m2) = StateOf(q, m1 \o m2)
  BY <1>2, <1>5, <1>8, CollectJoins DEF StateAfter
<1> QED BY <1>2, <1>3, <1>4, <1>5, <1>6, <1>7, <1>9 DEF StateAfter

(* A page that starts no later than a row that the first r pages have is one *)
(* of these.                                                                 *)
LEMMA PagesBefore ==
  ASSUME NEW q, IsQuery(q), NEW p \in Int, NEW r \in Nat, NEW i \in Int,
         FirstOf(q, p) <= i, i <= LastOf(q, r) \/ (i <= Len(q.rows) /\ ReachesEnd(q, r))
  PROVE  p <= r
<1>1. PICK b \in Nat \ {0} : b = q.batchSize
  BY DEF IsQuery
<1>2. PICK N \in Nat : N = Len(q.rows)
  BY LenProperties DEF IsQuery
<1>3. PICK x \in Int : x = (p - 1) * b
  BY PageArithmetic
<1>4. PICK y \in Int : y = r * b
  BY PageArithmetic
<1>5. x + 1 <= i
  BY <1>1, <1>3 DEF FirstOf
<1>6. i <= y
  <2>1. CASE i <= LastOf(q, r)
    BY <1>1, <1>2, <1>4, <2>1 DEF LastOf, Smaller
  <2>2. CASE i <= N /\ ReachesEnd(q, r)
    BY <1>1, <1>2, <1>4, <2>2 DEF ReachesEnd
  <2> QED BY <1>2, <2>1, <2>2
<1>7. (p - 1) * b < r * b
  BY <1>3, <1>4, <1>5, <1>6
<1>8. p - 1 \in Int /\ r \in Int
  OBVIOUS
<1>9. p - 1 < r
  BY <1>7, <1>8, PageArithmetic
<1> QED BY <1>9

(* When the first c pages have all that is needed, a page that starts no     *)
(* later than the last row needed is one of them.                            *)
LEMMA PagesBeforeRow ==
  ASSUME NEW q, IsQuery(q), NEW c \in Nat,
         LastNeeded(q) \in Int, LastNeeded(q) <= LastOf(q, c)
  PROVE  \A p \in Int : FirstOf(q, p) <= LastNeeded(q) => p <= c
<1>1. PICK i \in Int : i = LastNeeded(q)
  OBVIOUS
<1>2. ASSUME NEW p \in Int, FirstOf(q, p) <= i PROVE p <= c
  <2>1. i <= LastOf(q, c)
    BY <1>1
  <2>2. FirstOf(q, p) <= i
    BY <1>2
  <2> QED BY <2>1, <2>2, PagesBefore, Zenon
<1> QED BY <1>1, <1>2

(* A page with a row of some kind is not empty, nor are those before it. *)
LEMMA PageOfKind ==
  ASSUME NEW q, IsQuery(q), NEW p \in Nat \ {0}, NEW kind,
         HasKind(q, kind, FirstOf(q, p), LastOf(q, p))
  PROVE  /\ FirstOf(q, p) <= Len(q.rows) /\ p \in 1 .. Len(q.rows)
         /\ \A c \in Nat : c < p => LastOf(q, c) < Len(q.rows) /\ ~ReachesEnd(q, c)
<1>1. PICK b \in Nat \ {0} : b = q.batchSize
  BY DEF IsQuery
<1>2. PICK N \in Nat : N = Len(q.rows)
  BY LenProperties DEF IsQuery
<1>3. p - 1 \in Nat
  OBVIOUS
<1>4. PICK x \in Nat : x = (p - 1) * b /\ p - 1 <= x
  BY <1>3, PageArithmetic
<1>5. FirstOf(q, p) = x + 1
  BY <1>1, <1>4 DEF FirstOf
<1>6. x + 1 <= N
  <2>1. PICK y \in Nat : y = p * b
    BY PageArithmetic
  <2>2. LastOf(q, p) = Smaller(y, N)
    BY <1>1, <1>2, <2>1 DEF LastOf
  <2>3. PICK i \in FirstOf(q, p) .. LastOf(q, p) : TRUE
    BY DEF HasKind
  <2> QED BY <1>5, <2>2, <2>3 DEF Smaller
<1>7. ASSUME NEW c \in Nat, c < p PROVE LastOf(q, c) < N /\ ~ReachesEnd(q, c)
  <2>1. c \in Int /\ p - 1 \in Int /\ c <= p - 1
    BY <1>7
  <2>2. c * b <= (p - 1) * b
    BY <2>1, PageArithmetic
  <2>3. PICK z \in Nat : z = c * b
    BY PageArithmetic
  <2>4. z < N
    BY <1>4, <1>6, <2>2, <2>3
  <2> QED BY <1>1, <1>2, <2>3, <2>4 DEF LastOf, ReachesEnd, Smaller
<1> QED BY <1>2, <1>4, <1>5, <1>6, <1>7

-----------------------------------------------------------------------------
(* Outcomes. *)

(* The result is complete, or all rows have been seen: the rows are the      *)
(* answer, and no row after those seen is needed.                            *)
LEMMA Answered ==
  ASSUME NEW q, IsQuery(q), q.limit # 0, NEW c \in Nat,
         StateAfter(q, c).complete \/ LastOf(q, c) = Len(q.rows)
  PROVE  StateAfter(q, c).rows = Answer(q) /\ LastNeeded(q) \in 0 .. LastOf(q, c)
<1>1. PICK to \in 0 .. Len(q.rows) : to = LastOf(q, c)
  BY PageBounds
<1>2. CASE StateAfter(q, c).complete
  BY <1>1, <1>2, CompleteState DEF StateAfter
<1>3. CASE ~StateAfter(q, c).complete /\ LastOf(q, c) = Len(q.rows)
  <2>1. LastNeeded(q) \in to .. Len(q.rows)
    BY <1>1, <1>3, IncompleteState DEF StateAfter
  <2>2. Len(q.rows) \in Nat
    BY LenProperties DEF IsQuery
  <2> QED BY <1>1, <1>3, <2>1, <2>2 DEF StateAfter, Answer
<1> QED BY <1>2, <1>3

(* The result is not complete and another page is not empty: its first row   *)
(* is not beyond the last one needed.                                        *)
LEMMA NextPageNeeded ==
  ASSUME NEW q, IsQuery(q), NEW c \in Nat, ~StateAfter(q, c).complete,
         LastOf(q, c) < Len(q.rows), ~ReachesEnd(q, c)
  PROVE  /\ q.limit # 0 /\ LastNeeded(q) \in 1 .. Len(q.rows)
         /\ \A p \in Int : p <= c + 1 => FirstOf(q, p) <= LastNeeded(q)
<1>1. PICK N \in Nat : N = Len(q.rows)
  BY LenProperties DEF IsQuery
<1>2. PICK to \in 0 .. N : to = LastOf(q, c)
  BY <1>1, PageBounds
<1>3. q.limit # 0 /\ LastNeeded(q) \in to .. N /\ (LastNeeded(q) = to => to = N)
  BY <1>1, <1>2, IncompleteState DEF StateAfter
<1>4. LastNeeded(q) \in 1 .. N /\ to + 1 <= LastNeeded(q)
  BY <1>1, <1>2, <1>3
<1>5. ASSUME NEW p \in Int, p <= c + 1 PROVE FirstOf(q, p) <= to + 1
  <2>1. PICK b \in Nat \ {0} : b = q.batchSize
    BY DEF IsQuery
  <2>2. p - 1 \in Int /\ c \in Int /\ p - 1 <= c
    BY <1>5
  <2>3. (p - 1) * b <= c * b
    BY <2>2, PageArithmetic
  <2>4. PICK x \in Int : x = (p - 1) * b
    BY <2>2, PageArithmetic
  <2>5. PICK y \in Nat : y = c * b
    BY PageArithmetic
  <2>6. FirstOf(q, p) = x + 1
    BY <2>1, <2>4 DEF FirstOf
  <2>7. to = y
    BY <1>1, <1>2, <2>1, <2>5 DEF LastOf, ReachesEnd, Smaller
  <2> QED BY <2>3, <2>4, <2>5, <2>6, <2>7
<1>6. ASSUME NEW p \in Int, p <= c + 1 PROVE FirstOf(q, p) <= LastNeeded(q)
  <2>1. FirstOf(q, p) \in Int
    BY PageArithmetic DEF FirstOf, IsQuery
  <2> QED BY <1>2, <1>4, <1>5, <1>6, <2>1
<1> QED BY <1>1, <1>3, <1>4, <1>6

(* With one worker select throws when the page after those it took in is     *)
(* malformed, or executing it throws.                                        *)
LEMMA SequentialThrows ==
  ASSUME NEW q, IsQuery(q), NEW c \in Nat, ~ReachesEnd(q, c), ~StateAfter(q, c).complete,
         ReadFails(q, c + 1) \/ ExecuteRaises(q, StateAfter(q, c), c + 1)
  PROVE  SequentialOutcome(q) = Error
<1>1. PICK N \in Nat : N = Len(q.rows)
  BY LenProperties DEF IsQuery
<1>2. c + 1 \in Nat \ {0} /\ c + 1 \in Nat
  OBVIOUS
<1>3. CASE ReadFails(q, c + 1)
  <2>1. c + 1 \in 1 .. N /\ LastOf(q, c) < N
    BY <1>1, <1>2, <1>3, PageOfKind DEF ReadFails
  <2>2. q.limit # 0 /\ FirstOf(q, c + 1) <= LastNeeded(q)
    BY <1>1, <1>2, <2>1, NextPageNeeded
  <2> QED BY <1>1, <1>3, <2>1, <2>2 DEF SequentialOutcome
<1>4. CASE ExecuteRaises(q, StateAfter(q, c), c + 1)
  <2>1. ExecuteBatch(q, StateAfter(q, c), c + 1) = StateAfter(q, c + 1)
    BY PageCollects DEF ExecuteBatch
  <2>2. PICK to \in 0 .. N : to = LastOf(q, c + 1)
    BY <1>1, <1>2, PageBounds
  <2>3. PICK f \in Nat \ {0} : f = FirstOf(q, c + 1)
    BY PageBounds
  <2>4. q.limit # 0
    <3>1. LastOf(q, c) \in 0 .. Len(q.rows)
      BY PageBounds
    <3> QED BY <3>1, IncompleteState DEF StateAfter
  <2>5. PICK last : last = IF StateAfter(q, c + 1).complete
                           THEN StateAfter(q, c + 1).rows[Len(StateAfter(q, c + 1).rows)] ELSE to
    OBVIOUS
  <2>6. HasKind(q, "raise", f, last)
    BY <1>4, <2>1, <2>2, <2>3, <2>5 DEF ExecuteRaises
  <2>7. last \in Int /\ last <= LastNeeded(q) /\ LastNeeded(q) \in Int
    <3>1. CASE StateAfter(q, c + 1).complete
      BY <1>1, <2>2, <2>4, <2>5, <3>1, CompleteState DEF StateAfter
    <3>2. CASE ~StateAfter(q, c + 1).complete
      BY <1>1, <2>2, <2>5, <3>2, IncompleteState DEF StateAfter
    <3> QED BY <3>1, <3>2
  <2>8. HasKind(q, "raise", 1, LastNeeded(q))
    BY <2>6, <2>7 DEF HasKind
  <2> QED BY <2>4, <2>8 DEF SequentialOutcome
<1> QED BY <1>3, <1>4

(* With one worker select returns what it has when no page that it read was  *)
(* malformed and no row that is needed raised.                               *)
LEMMA SequentialAnswers ==
  ASSUME NEW q, IsQuery(q), q.limit # 0, NEW c \in Nat,
         StateAfter(q, c).complete \/ LastOf(q, c) = Len(q.rows),
         \A p \in 1 .. c : ~ReadFails(q, p),
         ~HasKind(q, "raise", 1, LastNeeded(q))
  PROVE  SequentialOutcome(q) = Rows(StateAfter(q, c).rows)
<1>1. /\ StateAfter(q, c).rows = Answer(q)
      /\ LastNeeded(q) \in Int /\ LastNeeded(q) <= LastOf(q, c)
  <2>1. PICK l \in Nat : l = LastOf(q, c)
    <3>1. LastOf(q, c) \in 0 .. Len(q.rows)
      BY PageBounds
    <3> QED BY <3>1
  <2> QED BY <2>1, Answered
<1>2. ASSUME NEW p \in 1 .. Len(q.rows), ReadFails(q, p), FirstOf(q, p) <= LastNeeded(q)
      PROVE  FALSE
  <2>1. p <= c
    BY <1>1, <1>2, PagesBeforeRow
  <2>2. p \in 1 .. c
    BY <2>1
  <2> QED BY <1>2, <2>2
<1> QED BY <1>1, <1>2 DEF SequentialOutcome

(* With several workers it throws when a page that it reads is malformed, or *)
(* the page it collects next raised.                                         *)
LEMMA ParallelThrows ==
  ASSUME NEW q, IsQuery(q), NEW ahead \in Nat, ~ReachesEnd(q, 1),
         NEW c \in Nat, NEW p \in Nat \ {0}, ~StateAfter(q, c).complete,
         \/ ReadFails(q, p) /\ c < p /\ p <= c + 1 + ahead
         \/ PageRaises(q, p) /\ p = c + 1
  PROVE  ParallelOutcome(q, ahead) = Error
<1>1. PICK kind : /\ HasKind(q, kind, FirstOf(q, p), LastOf(q, p)) /\ c < p
                  /\ \/ kind = "malformed" /\ p <= c + 1 + ahead
                     \/ kind = "raise" /\ p = c + 1
  BY DEF ReadFails, PageRaises
<1>2. p \in 1 .. Len(q.rows) /\ LastOf(q, c) < Len(q.rows) /\ ~ReachesEnd(q, c)
  BY <1>1, PageOfKind
<1>3. q.limit # 0 /\ \A r \in Int : r <= c + 1 => FirstOf(q, r) <= LastNeeded(q)
  BY <1>2, NextPageNeeded
<1>4. CASE kind = "malformed"
  <2>1. p - ahead \in Int /\ p - ahead <= c + 1
    BY <1>1, <1>4
  <2>2. FirstOf(q, p - ahead) <= LastNeeded(q)
    BY <1>3, <2>1
  <2> QED BY <1>1, <1>2, <1>3, <1>4, <2>2 DEF ParallelOutcome, ReadFails
<1>5. CASE kind = "raise"
  <2>1. FirstOf(q, p) <= LastNeeded(q)
    BY <1>1, <1>3, <1>5
  <2> QED BY <1>1, <1>2, <1>3, <1>5, <2>1 DEF ParallelOutcome
<1> QED BY <1>1, <1>4, <1>5

(* With several workers select returns what it has when no page that it      *)
(* collected raised, none that it read was malformed, and it has read ahead  *)
(* as far as it may.                                                         *)
LEMMA ParallelAnswers ==
  ASSUME NEW q, IsQuery(q), q.limit # 0, NEW ahead \in Nat, ~ReachesEnd(q, 1),
         NEW c \in Nat, NEW read \in Nat,
         StateAfter(q, c).complete \/ LastOf(q, c) = Len(q.rows),
         \A p \in 1 .. c : ~PageRaises(q, p),
         \A p \in 1 .. read : ~ReadFails(q, p),
         ReachesEnd(q, read) \/ c + ahead <= read
  PROVE  ParallelOutcome(q, ahead) = Rows(StateAfter(q, c).rows)
<1>1. /\ StateAfter(q, c).rows = Answer(q)
      /\ LastNeeded(q) \in Int /\ LastNeeded(q) <= LastOf(q, c)
  <2>1. PICK l \in Nat : l = LastOf(q, c)
    <3>1. LastOf(q, c) \in 0 .. Len(q.rows)
      BY PageBounds
    <3> QED BY <3>1
  <2> QED BY <2>1, Answered
<1>2. ASSUME NEW p \in 1 .. Len(q.rows), PageRaises(q, p), FirstOf(q, p) <= LastNeeded(q)
      PROVE  FALSE
  <2>1. p <= c
    BY <1>1, <1>2, PagesBeforeRow
  <2>2. p \in 1 .. c
    BY <2>1
  <2> QED BY <1>2, <2>2
<1>3. ASSUME NEW p \in 1 .. Len(q.rows), ReadFails(q, p), FirstOf(q, p - ahead) <= LastNeeded(q)
      PROVE  FALSE
  <2>1. CASE c + ahead <= read
    <3>1. p - ahead \in Int
      OBVIOUS
    <3>2. p - ahead <= c
      BY <1>1, <1>3, <3>1, PagesBeforeRow
    <3>3. p \in 1 .. read
      BY <2>1, <3>2
    <3> QED BY <1>3, <3>3
  <2>2. CASE ReachesEnd(q, read)
    <3>1. p \in Nat \ {0} /\ p \in Int
      OBVIOUS
    <3>2. FirstOf(q, p) <= Len(q.rows)
      BY <1>3, <3>1, PageOfKind DEF ReadFails
    <3>3. Len(q.rows) \in Nat
      BY LenProperties DEF IsQuery
    <3>4. p <= read
      BY <2>2, <3>1, <3>2, <3>3, PagesBefore
    <3>5. p \in 1 .. read
      BY <3>4
    <3> QED BY <1>3, <3>5
  <2> QED BY <2>1, <2>2
<1> QED BY <1>1, <1>2, <1>3 DEF ParallelOutcome, PageRaises

(* A query for no rows gets none. *)
LEMMA ZeroLimit ==
  ASSUME NEW q, IsQuery(q), q.limit = 0, NEW c \in Nat
  PROVE  StateAfter(q, c).rows = <<>> /\ SequentialOutcome(q) = Rows(<<>>)
<1>1. PICK m : m = Matching(q, 1, LastOf(q, c))
  OBVIOUS
<1>2. PICK o \in Nat : o = q.offset
  BY DEF IsQuery
<1>3. Len(m) \in Nat
  <2>1. PICK l \in Nat : l = LastOf(q, c)
    <3>1. LastOf(q, c) \in 0 .. Len(q.rows)
      BY PageBounds
    <3> QED BY <3>1
  <2>2. PICK one \in Nat \ {0} : one = 1
    OBVIOUS
  <2>3. m \in Seq(one .. l)
    BY <1>1, <2>1, <2>2, MatchingType
  <2> QED BY <2>3, LenProperties
<1>4. PICK end : end = IF q.limit = NoLimit THEN Len(m) ELSE Smaller(Len(m), q.offset + q.limit)
  OBVIOUS
<1>5. end \in Nat /\ end < o + 1
  <2>1. q.limit # NoLimit
    BY NoLimitAssumption
  <2> QED BY <1>2, <1>3, <1>4, <2>1 DEF Smaller
<1>6. SubSeq(m, o + 1, end) = <<>>
  BY <1>2, <1>5, SubSeqEmpty
<1>7. StateOf(q, m).rows = <<>>
  BY <1>2, <1>4, <1>6, StateFields
<1> QED BY <1>1, <1>7 DEF StateAfter, SequentialOutcome

(* A page that is executed without an exception adds no row that raises and  *)
(* is needed.                                                                *)
LEMMA ExecutedRows ==
  ASSUME NEW q, IsQuery(q), NEW c \in Nat, ~ReachesEnd(q, c), ~StateAfter(q, c).complete,
         ~ExecuteRaises(q, StateAfter(q, c), c + 1),
         \A i \in 1 .. LastOf(q, c) : q.rows[i] = "raise" => ~(i <= LastNeeded(q))
  PROVE  \A i \in 1 .. LastOf(q, c + 1) : q.rows[i] = "raise" => ~(i <= LastNeeded(q))
<1> SUFFICES ASSUME NEW i \in 1 .. LastOf(q, c + 1), q.rows[i] = "raise"
             PROVE  ~(i <= LastNeeded(q))
  OBVIOUS
<1>1. PICK n \in Nat : n = c + 1
  OBVIOUS
<1>2. PICK l \in Nat : l = LastOf(q, c) /\ FirstOf(q, n) = l + 1
  <2>1. LastOf(q, c) \in 0 .. Len(q.rows) /\ FirstOf(q, n) = LastOf(q, c) + 1
    BY <1>1, PageBounds
  <2> QED BY <2>1
<1>3. PICK to \in 0 .. Len(q.rows) : to = LastOf(q, n)
  BY PageBounds
<1>4. to \in Nat /\ i \in 1 .. to
  BY <1>1, <1>3, LenProperties DEF IsQuery
<1>5. CASE i \in 1 .. l
  BY <1>2, <1>5
<1>6. CASE i \in l + 1 .. to
  <2>1. q.limit # 0
    <3>1. LastOf(q, c) \in 0 .. Len(q.rows)
      BY PageBounds
    <3> QED BY <3>1, IncompleteState DEF StateAfter
  <2>2. ExecuteBatch(q, StateAfter(q, c), n) = StateAfter(q, n)
    BY <1>1, PageCollects DEF ExecuteBatch
  <2>3. ~ExecuteRaises(q, StateAfter(q, c), n)
    BY <1>1
  <2>4. CASE StateAfter(q, n).complete
    <3>1. LastNeeded(q) = StateAfter(q, n).rows[Len(StateAfter(q, n).rows)]
      BY <1>3, <2>1, <2>4, CompleteState DEF StateAfter
    <3>2. ~HasKind(q, "raise", l + 1, LastNeeded(q))
      BY <1>2, <2>2, <2>3, <2>4, <3>1 DEF ExecuteRaises
    <3>3. LastNeeded(q) \in 1 .. to
      BY <1>3, <2>1, <2>4, CompleteState DEF StateAfter
    <3> QED BY <1>2, <1>4, <1>6, <3>2, <3>3 DEF HasKind
  <2>5. CASE ~StateAfter(q, n).complete
    <3>1. ~HasKind(q, "raise", l + 1, to)
      BY <1>2, <1>3, <2>2, <2>3, <2>5 DEF ExecuteRaises
    <3> QED BY <1>6, <3>1 DEF HasKind
  <2> QED BY <2>4, <2>5
<1>7. i \in 1 .. l \/ i \in l + 1 .. to
  BY <1>2, <1>4
<1> QED BY <1>5, <1>6, <1>7

(* The state between two pages is one: no more is skipped than the offset,   *)
(* and the result consists of rows of the table.                             *)
LEMMA StateType ==
  ASSUME NEW q, IsQuery(q), NEW c \in Nat
  PROVE  StateAfter(q, c) \in [skipped : 0 .. q.offset, rows : Seq(1 .. Len(q.rows)),
                               complete : BOOLEAN]
<1>1. PICK o \in Nat : o = q.offset
  BY DEF IsQuery
<1>2. PICK N \in Nat : N = Len(q.rows)
  BY LenProperties DEF IsQuery
<1>3. PICK to \in 0 .. N : to = LastOf(q, c)
  BY <1>2, PageBounds
<1>4. PICK m : m = Matching(q, 1, to)
  OBVIOUS
<1>5. m \in Seq(1 .. N) /\ Len(m) \in Nat
  <2>1. PICK one \in Nat \ {0} : one = 1
    OBVIOUS
  <2>2. to \in Nat
    BY <1>2
  <2>3. m \in Seq(one .. to)
    BY <1>4, <2>1, <2>2, MatchingType
  <2>4. one .. to \subseteq 1 .. N
    BY <1>2, <2>1
  <2> QED BY <2>3, <2>4, SeqMonotonic, LenProperties
<1>6. PICK end : end = IF q.limit = NoLimit THEN Len(m) ELSE Smaller(Len(m), q.offset + q.limit)
  OBVIOUS
<1>7. end \in Nat /\ end <= Len(m)
  BY <1>1, <1>5, <1>6 DEF IsQuery, Smaller
<1>8. SubSeq(m, o + 1, end) \in Seq(1 .. N)
  <2>1. PICK first \in Nat : first = o + 1
    BY <1>1
  <2>2. \A i \in first .. end : m[i] \in 1 .. N
    BY <1>1, <1>5, <1>7, <2>1, ElementOfSeq, SMTT(40)
  <2>3. SubSeq(m, first, end) \in Seq(1 .. N)
    <3>1. PICK T : T = 1 .. N
      OBVIOUS
    <3>2. \A i \in first .. end : m[i] \in T
      BY <2>2, <3>1
    <3>3. SubSeq(m, first, end) \in Seq(T)
      BY <1>7, <3>2, SubSeqProperties
    <3> QED BY <3>1, <3>3
  <2> QED BY <1>1, <2>1, <2>3
<1>9. /\ StateOf(q, m).rows = SubSeq(m, o + 1, end)
      /\ StateOf(q, m).skipped = Smaller(o, Len(m))
  BY <1>1, <1>6, StateFields
<1>10. Smaller(o, Len(m)) \in 0 .. o
  BY <1>1, <1>5 DEF Smaller
<1>11. /\ StateOf(q, m).complete \in BOOLEAN
       /\ StateOf(q, m) = [skipped |-> StateOf(q, m).skipped, rows |-> StateOf(q, m).rows,
                           complete |-> StateOf(q, m).complete]
  BY DEF StateOf
<1>12. PICK s : s = StateOf(q, m)
  OBVIOUS
<1>13. s = [skipped |-> s.skipped, rows |-> s.rows, complete |-> s.complete]
  BY <1>11, <1>12
<1>14. s.skipped \in 0 .. q.offset /\ s.rows \in Seq(1 .. Len(q.rows)) /\ s.complete \in BOOLEAN
  BY <1>1, <1>2, <1>8, <1>9, <1>10, <1>11, <1>12
<1>15. s \in [skipped : 0 .. q.offset, rows : Seq(1 .. Len(q.rows)), complete : BOOLEAN]
  BY <1>13, <1>14
<1> QED BY <1>3, <1>4, <1>12, <1>15 DEF StateAfter
=============================================================================
