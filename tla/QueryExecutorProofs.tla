------------------------- MODULE QueryExecutorProofs -------------------------
(***************************************************************************)
(* The executor's loop over the rows of a page does what SequentialSelect  *)
(* says of their kinds; so the executor implements it, and its answers are *)
(* right for every schema, every table and every query.  SequentialSelect  *)
(* itself answers every query, also where no executor is behind it.        *)
(***************************************************************************)
EXTENDS QueryExecutor, SelectQueryProofs

-----------------------------------------------------------------------------
(* More about states, row by row. *)

(* Matches match, and ascend.                                                *)
LEMMA MatchingElements ==
  ASSUME NEW q, NEW to \in Nat
  PROVE  /\ Matching(q, 1, to) \in Seq(Nat)
         /\ \A k \in 1 .. Len(Matching(q, 1, to)) :
              /\ Matching(q, 1, to)[k] \in 1 .. to
              /\ q.rows[Matching(q, 1, to)[k]] = "match"
              /\ k > 1 => Matching(q, 1, to)[k - 1] < Matching(q, 1, to)[k]
<1> DEFINE M(n) == Matching(q, 1, n)
           Good(m, n) == \A k \in 1 .. Len(m) :
                           /\ m[k] \in 1 .. n /\ q.rows[m[k]] = "match"
                           /\ k > 1 => m[k - 1] < m[k]
           S == {n \in Nat : Good(M(n), n)}
<1>1. PICK one \in Nat \ {0} : one = 1
  OBVIOUS
<1>2. ASSUME NEW n \in Nat PROVE M(n) \in Seq(Nat)
  <2>1. M(n) \in Seq(one .. n)
    BY <1>1, MatchingType
  <2>2. one .. n \subseteq Nat
    OBVIOUS
  <2> HIDE DEF M
  <2> QED BY <2>1, <2>2, SeqMonotonic
<1>3. 0 \in S
  <2>1. M(0) = <<>>
    <3>1. 0 \in Nat /\ 0 < one
      OBVIOUS
    <3>2. Matching(q, one, 0) = <<>>
      BY <3>1, MatchingStep
    <3> QED BY <1>1, <3>2
  <2>2. Len(M(0)) = 0
    BY <2>1
  <2> HIDE DEF M
  <2> QED BY <2>2
<1>4. ASSUME NEW n \in S PROVE n + 1 \in S
  <2>1. n \in Nat /\ n + 1 \in Nat /\ n + 1 >= one
    BY <1>1
  <2>2. Matching(q, one, n + 1) = IF q.rows[n + 1] = "match"
                                  THEN Append(Matching(q, one, n), n + 1) ELSE Matching(q, one, n)
    BY <2>1, MatchingStep
  <2>3. PICK m : m = M(n)
    OBVIOUS
  <2>4. PICK u : u = M(n + 1)
    OBVIOUS
  <2>5. m \in Seq(Nat) /\ Good(m, n)
    BY <1>2, <1>4, <2>3
  <2>6. u = IF q.rows[n + 1] = "match" THEN Append(m, n + 1) ELSE m
    BY <1>1, <2>2, <2>3, <2>4
  <2>7. Good(u, n + 1)
    <3>1. CASE q.rows[n + 1] = "match"
      <4>1. /\ Len(u) = Len(m) + 1 /\ Len(m) \in Nat
            /\ \A k \in 1 .. Len(m) : u[k] = m[k]
            /\ u[Len(m) + 1] = n + 1
        BY <2>1, <2>5, <2>6, <3>1, AppendProperties, LenProperties
      <4> SUFFICES ASSUME NEW k \in 1 .. Len(u)
                   PROVE  /\ u[k] \in 1 .. n + 1 /\ q.rows[u[k]] = "match"
                          /\ k > 1 => u[k - 1] < u[k]
        OBVIOUS
      <4>2. CASE k <= Len(m)
        <5>1. k \in 1 .. Len(m) /\ (k > 1 => k - 1 \in 1 .. Len(m))
          BY <4>1, <4>2
        <5>2. u[k] = m[k] /\ (k > 1 => u[k - 1] = m[k - 1])
          BY <4>1, <5>1
        <5>3. m[k] \in 1 .. n /\ q.rows[m[k]] = "match" /\ (k > 1 => m[k - 1] < m[k])
          BY <2>5, <5>1
        <5>4. m[k] \in 1 .. n + 1
          BY <2>1, <5>3
        <5> QED BY <5>2, <5>3, <5>4
      <4>3. CASE k = Len(m) + 1
        <5>1. u[k] = n + 1
          BY <4>1, <4>3
        <5>2. k > 1 => k - 1 \in 1 .. Len(m) /\ u[k - 1] = m[k - 1]
          BY <4>1, <4>3
        <5>3. k > 1 => u[k - 1] < u[k]
          BY <2>5, <5>1, <5>2
        <5> QED BY <3>1, <5>1, <5>3
      <4> QED BY <4>1, <4>2, <4>3
    <3>2. CASE q.rows[n + 1] # "match"
      BY <2>5, <2>6, <3>2
    <3> QED BY <3>1, <3>2
  <2> HIDE DEF Good, M
  <2> QED BY <2>1, <2>4, <2>7
<1> HIDE DEF Good, M
<1>5. S = Nat
  <2>1. S \in SUBSET Nat
    OBVIOUS
  <2> HIDE DEF S
  <2> QED BY <1>3, <1>4, <2>1, Induction
<1>6. Good(M(to), to)
  BY <1>5
<1> QED BY <1>2, <1>6 DEF M, Good

(* So do the rows of the result between two pages.                           *)
LEMMA StateRows ==
  ASSUME NEW q, IsQuery(q), NEW c \in Nat,
         NEW k \in 1 .. Len(StateAfter(q, c).rows)
  PROVE  /\ StateAfter(q, c).rows[k] \in 1 .. Len(q.rows)
         /\ q.rows[StateAfter(q, c).rows[k]] = "match"
         /\ k > 1 => StateAfter(q, c).rows[k - 1] < StateAfter(q, c).rows[k]
<1>1. PICK o \in Nat : o = q.offset
  BY DEF IsQuery
<1>2. PICK N \in Nat : N = Len(q.rows)
  BY LenProperties DEF IsQuery
<1>3. PICK to \in 0 .. N : to = LastOf(q, c)
  BY <1>2, PageBounds
<1>4. PICK m : m = Matching(q, 1, to)
  OBVIOUS
<1>5. /\ m \in Seq(Nat) /\ Len(m) \in Nat
      /\ \A j \in 1 .. Len(m) : /\ m[j] \in 1 .. to /\ q.rows[m[j]] = "match"
                                /\ j > 1 => m[j - 1] < m[j]
  BY <1>4, MatchingElements, LenProperties
<1>6. PICK end : end = IF q.limit = NoLimit THEN Len(m) ELSE Smaller(Len(m), q.offset + q.limit)
  OBVIOUS
<1>7. end \in Nat /\ end <= Len(m)
  BY <1>1, <1>5, <1>6 DEF IsQuery, Smaller
<1>8. PICK rows : rows = SubSeq(m, o + 1, end)
  OBVIOUS
<1>9. StateAfter(q, c).rows = rows
  BY <1>1, <1>3, <1>4, <1>6, <1>8, StateFields DEF StateAfter
<1>10. /\ Len(rows) = IF o < end THEN end - o ELSE 0
       /\ \A i \in 1 .. end - o : rows[i] = m[o + i]
  <2>1. m \in Seq(Nat) /\ end <= Len(m)
    BY <1>5, <1>7
  <2>2. /\ Len(SubSeq(m, o + 1, end)) = IF o < end THEN end - o ELSE 0
        /\ \A i \in 1 .. end - o : SubSeq(m, o + 1, end)[i] = m[o + i]
    BY <1>7, <2>1, SubSeqFrom
  <2> QED BY <1>8, <2>2
<1>11. k \in 1 .. end - o /\ o + k \in 1 .. Len(m) /\ rows[k] = m[o + k]
  BY <1>7, <1>9, <1>10
<1>12. k > 1 => /\ rows[k - 1] = m[o + k - 1] /\ o + k > 1
  <2>1. k > 1 => k - 1 \in 1 .. end - o /\ o + (k - 1) = o + k - 1
    <3>1. PICK r \in Nat \ {0} : r = k /\ r <= end - o
      BY <1>11
    <3>2. r > 1 => r - 1 \in 1 .. end - o /\ o + (r - 1) = o + r - 1
      BY <1>7, <3>1
    <3> QED BY <3>1, <3>2
  <2> QED BY <1>10, <1>11, <2>1
<1>13. k > 1 => rows[k - 1] < rows[k]
  <2>1. PICK j \in 1 .. Len(m) : j = o + k
    BY <1>11
  <2> QED BY <1>5, <1>11, <1>12, <2>1
<1>14. rows[k] \in 1 .. N /\ q.rows[rows[k]] = "match"
  <2>1. rows[k] \in 1 .. to /\ q.rows[rows[k]] = "match"
    BY <1>5, <1>11
  <2> QED BY <1>2, <1>3, <2>1
<1> QED BY <1>2, <1>9, <1>13, <1>14

(* What is left of a sequence and one more element after its first o.        *)
LEMMA SubSeqAppended ==
  ASSUME NEW s \in Seq(Nat), NEW i \in Nat, NEW o \in Nat
  PROVE  /\ \A e \in 0 .. Len(s) : SubSeq(Append(s, i), o + 1, e) = SubSeq(s, o + 1, e)
         /\ o <= Len(s) => SubSeq(Append(s, i), o + 1, Len(s) + 1)
                             = Append(SubSeq(s, o + 1, Len(s)), i)
<1>1. PICK n \in Nat : n = Len(s)
  BY LenProperties
<1>2. PICK t : t = Append(s, i)
  OBVIOUS
<1>3. /\ t \in Seq(Nat) /\ Len(t) = n + 1 /\ t[n + 1] = i
      /\ \A j \in 1 .. n : t[j] = s[j]
  BY <1>1, <1>2, AppendProperties
<1>4. ASSUME NEW e \in 0 .. n PROVE SubSeq(t, o + 1, e) = SubSeq(s, o + 1, e)
  <2>1. e \in Nat /\ e <= n /\ e <= n + 1
    BY <1>1
  <2>2. PICK u : u = SubSeq(t, o + 1, e)
    OBVIOUS
  <2>3. PICK v : v = SubSeq(s, o + 1, e)
    OBVIOUS
  <2>4. /\ u \in Seq(Nat) /\ Len(u) = IF o < e THEN e - o ELSE 0
        /\ \A j \in 1 .. e - o : u[j] = t[o + j]
    BY <1>3, <2>1, <2>2, SubSeqFrom, SMTT(40)
  <2>5. /\ v \in Seq(Nat) /\ Len(v) = IF o < e THEN e - o ELSE 0
        /\ \A j \in 1 .. e - o : v[j] = s[o + j]
    BY <1>1, <2>1, <2>3, SubSeqFrom
  <2>6. ASSUME NEW j \in 1 .. Len(u) PROVE u[j] = v[j]
    <3>1. j \in 1 .. e - o /\ o + j \in 1 .. n
      BY <1>1, <2>1, <2>4
    <3> QED BY <1>3, <2>4, <2>5, <3>1
  <2>7. u = v
    BY <2>4, <2>5, <2>6, SeqEqual
  <2> QED BY <2>2, <2>3, <2>7
<1>5. ASSUME o <= n PROVE SubSeq(t, o + 1, n + 1) = Append(SubSeq(s, o + 1, n), i)
  <2>1. PICK u : u = SubSeq(t, o + 1, n + 1)
    OBVIOUS
  <2>2. PICK v : v = SubSeq(s, o + 1, n)
    OBVIOUS
  <2>3. PICK w : w = Append(v, i)
    OBVIOUS
  <2>4. /\ u \in Seq(Nat) /\ Len(u) = n + 1 - o
        /\ \A j \in 1 .. n + 1 - o : u[j] = t[o + j]
    <3>1. PICK e \in Nat : e = n + 1
      BY <1>1
    <3>2. /\ SubSeq(t, o + 1, e) \in Seq(Nat)
          /\ Len(SubSeq(t, o + 1, e)) = IF o < e THEN e - o ELSE 0
          /\ \A j \in 1 .. e - o : SubSeq(t, o + 1, e)[j] = t[o + j]
      <4>1. t \in Seq(Nat) /\ e <= Len(t)
        BY <1>3, <3>1
      <4> QED BY <4>1, SubSeqFrom
    <3>3. (IF o < e THEN e - o ELSE 0) = e - o
      BY <1>1, <1>5, <3>1
    <3> QED BY <2>1, <3>1, <3>2, <3>3
  <2>5. /\ v \in Seq(Nat) /\ Len(v) = n - o
        /\ \A j \in 1 .. n - o : v[j] = s[o + j]
    <3>1. /\ SubSeq(s, o + 1, n) \in Seq(Nat)
          /\ Len(SubSeq(s, o + 1, n)) = IF o < n THEN n - o ELSE 0
          /\ \A j \in 1 .. n - o : SubSeq(s, o + 1, n)[j] = s[o + j]
      BY <1>1, SubSeqFrom
    <3>2. (IF o < n THEN n - o ELSE 0) = n - o
      BY <1>1, <1>5
    <3> QED BY <2>2, <3>1, <3>2
  <2>6. /\ w \in Seq(Nat) /\ Len(w) = n - o + 1
        /\ \A j \in 1 .. n - o : w[j] = v[j]
        /\ w[n - o + 1] = i
    BY <2>3, <2>5, AppendProperties, SMTT(40)
  <2>7. ASSUME NEW j \in 1 .. Len(u) PROVE u[j] = w[j]
    <3>1. j \in 1 .. n + 1 - o /\ u[j] = t[o + j]
      BY <2>4
    <3>2. CASE j = n - o + 1
      <4>1. o + j = n + 1
        BY <1>1, <3>2
      <4> QED BY <1>3, <2>6, <3>1, <3>2, <4>1
    <3>3. CASE j # n - o + 1
      <4>1. j \in 1 .. n - o /\ o + j \in 1 .. n
        BY <1>1, <1>5, <3>1, <3>3
      <4> QED BY <1>3, <2>5, <2>6, <3>1, <4>1, SMTT(40)
    <3> QED BY <3>2, <3>3
  <2>8. u = w
    <3>1. Len(u) = Len(w)
      BY <1>1, <1>5, <2>4, <2>6
    <3> QED BY <2>4, <2>6, <2>7, <3>1, SeqEqual
  <2> QED BY <2>1, <2>2, <2>3, <2>8
<1> QED BY <1>1, <1>2, <1>4, <1>5

(* One more match is skipped, or joins the result.                           *)
LEMMA StateOfNext ==
  ASSUME NEW q, IsQuery(q), NEW m \in Seq(Nat), NEW i \in Nat, ~StateOf(q, m).complete
  PROVE  StateOf(q, Append(m, i)) =
           IF StateOf(q, m).skipped < q.offset
           THEN [skipped |-> StateOf(q, m).skipped + 1, rows |-> StateOf(q, m).rows,
                 complete |-> FALSE]
           ELSE [skipped |-> StateOf(q, m).skipped, rows |-> Append(StateOf(q, m).rows, i),
                 complete |-> q.limit # NoLimit /\ Len(StateOf(q, m).rows) + 1 >= q.limit]
<1>1. PICK n \in Nat : n = Len(m)
  BY LenProperties
<1>2. PICK o \in Nat : o = q.offset
  BY DEF IsQuery
<1>3. PICK t : t = Append(m, i)
  OBVIOUS
<1>4. PICK rows : rows = SubSeq(m, o + 1, n)
  OBVIOUS
<1>5. PICK next : next = SubSeq(t, o + 1, n + 1)
  OBVIOUS
<1>6. t \in Seq(Nat) /\ Len(t) = n + 1
  BY <1>1, <1>3, AppendProperties
<1>7. /\ q.limit # NoLimit => q.limit \in Nat /\ n < o + q.limit
      /\ StateOf(q, m).rows = rows
  BY <1>1, <1>2, <1>4, NotComplete
<1>8. StateOf(q, m).skipped = Smaller(o, n)
  BY <1>1, <1>2 DEF StateOf
<1>9. n + 1 = IF q.limit = NoLimit THEN Len(t) ELSE Smaller(Len(t), q.offset + q.limit)
  <2>1. ASSUME q.limit # NoLimit PROVE n + 1 = Smaller(n + 1, o + q.limit)
    <3>1. PICK l \in Nat : l = q.limit /\ n < o + l
      BY <1>7, <2>1
    <3> QED BY <3>1 DEF Smaller
  <2> QED BY <1>2, <1>6, <2>1
<1>10. StateOf(q, t) = [skipped |-> Smaller(o, n + 1), rows |-> next,
                        complete |-> q.limit # NoLimit /\ Len(next) >= q.limit]
  <2>1. PICK e : e = n + 1
    OBVIOUS
  <2>2. e = IF q.limit = NoLimit THEN Len(t) ELSE Smaller(Len(t), o + q.limit)
    BY <1>2, <1>9, <2>1
  <2>3. PICK x : x = Len(t)
    OBVIOUS
  <2>4. next = SubSeq(t, o + 1, e)
    BY <1>5, <2>1
  <2>5. StateOf(q, t) = [skipped |-> Smaller(o, x), rows |-> next,
                         complete |-> q.limit # NoLimit /\ Len(next) >= q.limit]
    BY <1>2, <2>2, <2>3, <2>4, Zenon DEF StateOf
  <2> QED BY <1>6, <2>3, <2>5
<1>11. CASE n < o
  <2>1. rows = <<>> /\ next = <<>>
    <3>1. PICK e \in Nat : e = n + 1 /\ e < o + 1
      BY <1>11
    <3>2. SubSeq(t, o + 1, e) = <<>> /\ SubSeq(m, o + 1, n) = <<>>
      BY <1>11, <3>1, SubSeqEmpty
    <3> QED BY <1>4, <1>5, <3>1, <3>2
  <2>2. ~(q.limit # NoLimit /\ Len(rows) >= q.limit)
    <3>1. n = IF q.limit = NoLimit THEN Len(m) ELSE Smaller(Len(m), q.offset + q.limit)
      <4>1. ASSUME q.limit # NoLimit PROVE n = Smaller(n, o + q.limit)
        <5>1. PICK l \in Nat : l = q.limit /\ n < o + l
          BY <1>7, <4>1
        <5> QED BY <5>1 DEF Smaller
      <4> QED BY <1>1, <1>2, <4>1
    <3> QED BY <1>7, <3>1, StateFields
  <2>3. Smaller(o, n + 1) = n + 1 /\ Smaller(o, n) = n
    BY <1>11 DEF Smaller
  <2>4. StateOf(q, t) = [skipped |-> n + 1, rows |-> rows, complete |-> FALSE]
    BY <1>10, <2>1, <2>2, <2>3
  <2> QED BY <1>2, <1>3, <1>7, <1>8, <1>11, <2>3, <2>4
<1>12. CASE ~(n < o)
  <2>1. next = Append(rows, i)
    <3>1. o <= Len(m)
      BY <1>1, <1>12
    <3>2. SubSeq(Append(m, i), o + 1, Len(m) + 1) = Append(SubSeq(m, o + 1, Len(m)), i)
      BY <3>1, SubSeqAppended, Zenon
    <3> QED BY <1>1, <1>3, <1>4, <1>5, <3>2, Zenon
  <2>2. Smaller(o, n + 1) = o /\ Smaller(o, n) = o
    BY <1>12 DEF Smaller
  <2>3. Len(next) = Len(rows) + 1
    <3>1. rows \in Seq(Nat)
      BY <1>1, <1>4, SubSeqFrom
    <3> QED BY <2>1, <3>1, AppendProperties
  <2>4. StateOf(q, t) = [skipped |-> o, rows |-> next,
                         complete |-> q.limit # NoLimit /\ Len(rows) + 1 >= q.limit]
    BY <1>10, <2>2, <2>3
  <2>5. ~(StateOf(q, m).skipped < q.offset) /\ StateOf(q, m).skipped = o
    BY <1>2, <1>8, <2>2
  <2> QED BY <1>3, <1>7, <2>1, <2>4, <2>5, Zenon
<1> QED BY <1>11, <1>12

(* Nothing joins a result that the limit has completed.                      *)
LEMMA StateOfStays ==
  ASSUME NEW q, IsQuery(q), q.limit # 0, NEW m \in Seq(Nat), NEW i \in Nat,
         StateOf(q, m).complete
  PROVE  StateOf(q, Append(m, i)) = StateOf(q, m)
<1>1. PICK n \in Nat : n = Len(m)
  BY LenProperties
<1>2. PICK o \in Nat : o = q.offset
  BY DEF IsQuery
<1>3. PICK t : t = Append(m, i)
  OBVIOUS
<1>4. t \in Seq(Nat) /\ Len(t) = n + 1
  BY <1>1, <1>3, AppendProperties
<1>5. q.limit # NoLimit
  BY DEF StateOf
<1>6. PICK l \in Nat \ {0} : l = q.limit
  BY <1>5 DEF IsQuery
<1>7. PICK end \in Nat : end = o + l
  OBVIOUS
<1>8. end <= n
  <2> SUFFICES ASSUME ~(end <= n) PROVE FALSE
    OBVIOUS
  <2>1. n = IF q.limit = NoLimit THEN Len(m) ELSE Smaller(Len(m), q.offset + q.limit)
    BY <1>1, <1>2, <1>5, <1>6, <1>7 DEF Smaller
  <2>2. Len(SubSeq(m, o + 1, n)) = IF o < n THEN n - o ELSE 0
    BY <1>1, SubSeqFrom
  <2>3. Len(StateOf(q, m).rows) = IF o < n THEN n - o ELSE 0
    BY <1>2, <2>1, <2>2, StateFields
  <2>4. Len(StateOf(q, m).rows) >= l
    BY <1>6, <2>1, StateFields
  <2> QED BY <1>6, <1>7, <2>3, <2>4
<1>9. Smaller(n, end) = end /\ Smaller(n + 1, end) = end /\ Smaller(o, n) = Smaller(o, n + 1)
  BY <1>6, <1>7, <1>8 DEF Smaller
<1>10. PICK rows : rows = SubSeq(m, o + 1, end)
  OBVIOUS
<1>11. SubSeq(t, o + 1, end) = rows
  <2>1. end \in 0 .. Len(m)
    BY <1>1, <1>8
  <2> QED BY <1>3, <1>10, <2>1, SubSeqAppended
<1>12. \A x \in {m, t} :
         StateOf(q, x) = [skipped |-> Smaller(o, n), rows |-> rows,
                          complete |-> q.limit # NoLimit /\ Len(rows) >= q.limit]
  <2> TAKE x \in {m, t}
  <2>1. PICK len : len = Len(x)
    OBVIOUS
  <2>2. /\ end = IF q.limit = NoLimit THEN len ELSE Smaller(len, o + q.limit)
        /\ rows = SubSeq(x, o + 1, end) /\ Smaller(o, len) = Smaller(o, n)
    BY <1>1, <1>4, <1>5, <1>6, <1>7, <1>9, <1>10, <1>11, <2>1
  <2>3. StateOf(q, x) = [skipped |-> Smaller(o, len), rows |-> rows,
                         complete |-> q.limit # NoLimit /\ Len(rows) >= q.limit]
    BY <1>2, <2>1, <2>2, Zenon DEF StateOf
  <2> QED BY <2>2, <2>3
<1> QED BY <1>3, <1>12

(* A row is needed when the rows before it have not completed the result.    *)
LEMMA NeededRow ==
  ASSUME NEW q, IsQuery(q), q.limit # 0, NEW i \in Nat, i + 1 <= Len(q.rows)
  PROVE  /\ LastNeeded(q) \in Int
         /\ i + 1 <= LastNeeded(q) <=> ~StateOf(q, Matching(q, 1, i)).complete
<1>1. PICK N \in Nat : N = Len(q.rows)
  BY LenProperties DEF IsQuery
<1>2. PICK to \in 0 .. N : to = i
  BY <1>1
<1>3. CASE StateOf(q, Matching(q, 1, to)).complete
  <2>1. LastNeeded(q) \in 1 .. to
    BY <1>1, <1>3, CompleteState
  <2> QED BY <1>2, <1>3, <2>1
<1>4. CASE ~StateOf(q, Matching(q, 1, to)).complete
  <2>1. LastNeeded(q) \in to .. N /\ (LastNeeded(q) = to => to = N)
    BY <1>1, <1>4, IncompleteState
  <2> QED BY <1>1, <1>2, <1>4, <2>1
<1> QED BY <1>3, <1>4

-----------------------------------------------------------------------------
(* Predicates. *)

FollowsUpTo(f, V, start, from, step, n) ==
  /\ f \in [0 .. n -> V]
  /\ \A i \in 0 .. n : f[i] = IF i < from THEN start ELSE step[i][f[i - 1]]

(* A recursion over the numbers up to n.                                     *)
LEMMA RecursionUpTo ==
  ASSUME NEW V, NEW start \in V, NEW from \in Nat \ {0}, NEW n \in Nat,
         NEW step \in [1 .. n -> [V -> V]]
  PROVE  \E f : FollowsUpTo(f, V, start, from, step, n)
<1> DEFINE all == [i \in Nat |-> IF i \in 1 .. n THEN step[i] ELSE [v \in V |-> v]]
<1>1. all \in [Nat -> [V -> V]]
  OBVIOUS
<1>2. PICK g : Follows(g, V, start, from, all)
  <2> HIDE DEF all
  <2> QED BY <1>1, Recursion
<1>3. /\ g \in [Nat -> V]
      /\ \A i \in Nat : g[i] = IF i < from THEN start ELSE all[i][g[i - 1]]
  <2> HIDE DEF all
  <2> QED BY <1>2 DEF Follows
<1> DEFINE f == [i \in 0 .. n |-> g[i]]
<1>4. f \in [0 .. n -> V]
  <2> HIDE DEF all
  <2> QED BY <1>3
<1>5. ASSUME NEW i \in 0 .. n PROVE f[i] = IF i < from THEN start ELSE step[i][f[i - 1]]
  <2>1. i \in Nat /\ f[i] = g[i]
    OBVIOUS
  <2>2. CASE i < from
    <3> HIDE DEF f, all
    <3> QED BY <1>3, <2>1, <2>2
  <2>3. CASE ~(i < from)
    <3>1. i \in 1 .. n /\ i - 1 \in 0 .. n
      BY <2>3
    <3>2. f[i - 1] = g[i - 1] /\ all[i] = step[i]
      BY <3>1
    <3> HIDE DEF f, all
    <3> QED BY <1>3, <2>1, <2>3, <3>2
  <2> QED BY <2>2, <2>3
<1> HIDE DEF f
<1> QED BY <1>4, <1>5 DEF FollowsUpTo

IsDot(f, v, w) ==
  f = [i \in 0 .. Len(v) |-> IF i = 0 THEN 0 ELSE f[i - 1] + v[i] * w[i]]

(* The scalar product of two vectors is a number.                            *)
LEMMA DotType ==
  ASSUME NEW n \in Nat, NEW v \in [1 .. n -> Int], NEW w \in [1 .. n -> Int], Len(v) = n
  PROVE  Dot(v, w) \in Int
<1> DEFINE step == [i \in 1 .. n |-> [x \in Int |-> x + v[i] * w[i]]]
           ZeroOr(x, i) == IF i = 0 THEN 0 ELSE x + v[i] * w[i]
<1>1. step \in [1 .. n -> [Int -> Int]]
  <2>1. \A i \in 1 .. n : v[i] * w[i] \in Int
    <3> TAKE i \in 1 .. n
    <3>1. PICK a \in Int : a = v[i]
      OBVIOUS
    <3>2. PICK b \in Int : b = w[i]
      OBVIOUS
    <3> QED BY <3>1, <3>2
  <2> QED BY <2>1
<1>2. PICK f : FollowsUpTo(f, Int, 0, 1, step, n)
  <2>1. PICK one \in Nat \ {0} : one = 1
    OBVIOUS
  <2>2. PICK zero \in Int : zero = 0
    OBVIOUS
  <2>3. \E f : FollowsUpTo(f, Int, zero, one, step, n)
    <3> HIDE DEF step
    <3> QED BY <1>1, RecursionUpTo
  <2> QED BY <2>1, <2>2, <2>3
<1>3. /\ f \in [0 .. n -> Int]
      /\ \A i \in 0 .. n : f[i] = IF i < 1 THEN 0 ELSE step[i][f[i - 1]]
  <2> HIDE DEF step
  <2> QED BY <1>2 DEF FollowsUpTo
<1>4. ASSUME NEW i \in 0 .. n PROVE f[i] = ZeroOr(f[i - 1], i)
  <2>1. CASE i = 0
    <3>1. i < 1
      BY <2>1
    <3>2. f[i] = 0
      <4> HIDE DEF step, ZeroOr
      <4> QED BY <1>3, <3>1
    <3> HIDE DEF step
    <3> QED BY <2>1, <3>2
  <2>2. CASE i # 0
    <3>1. i \in 1 .. n /\ i - 1 \in 0 .. n /\ ~(i < 1)
      BY <2>2
    <3>2. f[i - 1] \in Int /\ f[i] = step[i][f[i - 1]]
      <4> HIDE DEF step, ZeroOr
      <4> QED BY <1>3, <3>1
    <3>3. step[i][f[i - 1]] = f[i - 1] + v[i] * w[i]
      <4> HIDE DEF ZeroOr
      <4> QED BY <3>1, <3>2
    <3> HIDE DEF step
    <3> QED BY <2>2, <3>2, <3>3
  <2> QED BY <2>1, <2>2
<1>5. IsDot(f, v, w)
  <2>1. f = [i \in 0 .. n |-> f[i]]
    <3> HIDE DEF step, ZeroOr
    <3> QED BY <1>3
  <2>2. f = [i \in 0 .. n |-> ZeroOr(f[i - 1], i)]
    <3> HIDE DEF step, ZeroOr
    <3> QED BY <1>4, <2>1
  <2> HIDE DEF step
  <2> QED BY <2>2 DEF IsDot
<1> DEFINE g == CHOOSE g : IsDot(g, v, w)
<1>6. IsDot(g, v, w)
  BY <1>5
<1>7. Dot(v, w) = g[n]
  BY DEF Dot, IsDot
<1> HIDE DEF g, step, ZeroOr
<1>8. g = [i \in 0 .. n |-> IF i = 0 THEN 0 ELSE g[i - 1] + v[i] * w[i]]
  BY <1>6 DEF IsDot
<1>9. ASSUME NEW i \in 0 .. n PROVE g[i] = IF i = 0 THEN 0 ELSE g[i - 1] + v[i] * w[i]
  BY <1>8, <1>9
<1> DEFINE S == {i \in Nat : i <= n => g[i] \in Int}
<1>10. 0 \in S
  <2>1. 0 \in 0 .. n
    OBVIOUS
  <2>2. g[0] = 0
    BY <1>9, <2>1
  <2> QED BY <2>2
<1>11. ASSUME NEW i \in S PROVE i + 1 \in S
  <2> SUFFICES ASSUME i + 1 <= n PROVE g[i + 1] \in Int
    OBVIOUS
  <2>1. i + 1 \in 0 .. n /\ i + 1 # 0 /\ i + 1 - 1 = i /\ g[i] \in Int /\ i + 1 \in 1 .. n
    OBVIOUS
  <2>2. PICK k \in 1 .. n : k = i + 1
    BY <2>1
  <2>3. k \in 0 .. n /\ k # 0 /\ k - 1 = i
    BY <2>1, <2>2
  <2>4. g[k] = IF k = 0 THEN 0 ELSE g[k - 1] + v[k] * w[k]
    <3> HIDE DEF S
    <3> QED BY <1>9, <2>3
  <2>5. PICK a \in Int : a = v[k]
    OBVIOUS
  <2>6. PICK b \in Int : b = w[k]
    OBVIOUS
  <2>7. g[k] = g[i] + a * b
    <3> HIDE DEF S
    <3> QED BY <2>3, <2>4, <2>5, <2>6
  <2> QED BY <2>1, <2>2, <2>7
<1>12. S = Nat
  <2>1. S \in SUBSET Nat
    OBVIOUS
  <2> HIDE DEF S
  <2> QED BY <1>10, <1>11, <2>1, Induction
<1> QED BY <1>7, <1>12

(* The distance of two vectors of the same dimension is a number.            *)
LEMMA DistanceType ==
  ASSUME NEW v \in Seq(Int), NEW w \in Seq(Int), Len(v) = Len(w), NEW metric
  PROVE  distance(v, w, metric) \in Int
<1>1. PICK n \in Nat : n = Len(v)
  BY LenProperties
<1>2. v \in [1 .. n -> Int] /\ w \in [1 .. n -> Int] /\ Len(v) = n
  <2>1. \A s \in Seq(Int) : s \in [1 .. Len(s) -> Int]
    BY LenProperties
  <2> QED BY <1>1, <2>1
<1>3. Dot(v, w) \in Int
  BY <1>2, DotType
<1>4. PICK delta : delta = [i \in DOMAIN v |-> v[i] - w[i]]
  OBVIOUS
<1>5. delta \in [1 .. n -> Int] /\ delta \in Seq(Int) /\ Len(delta) = n
  <2>1. delta \in [1 .. n -> Int]
    BY <1>2, <1>4
  <2>2. delta \in Seq(Int)
    BY <2>1, SeqDef
  <2>3. DOMAIN delta = 1 .. n
    BY <2>1
  <2>4. Len(delta) \in Nat /\ DOMAIN delta = 1 .. Len(delta)
    BY <2>2, LenProperties
  <2> QED BY <1>1, <2>1, <2>2, <2>3, <2>4
<1>6. Dot(delta, delta) \in Int
  BY <1>5, DotType
<1>7. distance(v, w, metric) = IF metric = "COSINE" THEN Threshold - Dot(v, w) ELSE Dot(delta, delta)
  BY <1>4 DEF distance
<1> QED BY <1>3, <1>6, <1>7 DEF Threshold

(* A comparison holds when the difference has one of its signs.              *)
LEMMA CompareSign ==
  ASSUME NEW a \in Int, NEW b \in Int, NEW op \in Comparisons
  PROVE  compare(a, op, b) <=> Sign(a - b) \in Signs[op]
<1>1. a < b \/ a = b \/ a > b
  OBVIOUS
<1>2. /\ a < b => Sign(a - b) = -1
      /\ a = b => Sign(a - b) = 0
      /\ a > b => Sign(a - b) = 1
  BY DEF Sign
<1>3. /\ Signs["EQUAL"] = {0} /\ Signs["NOT_EQUAL"] = {-1, 1}
      /\ Signs["LESS_THAN"] = {-1} /\ Signs["LESS_THAN_OR_EQUAL"] = {-1, 0}
      /\ Signs["GREATER_THAN"] = {1} /\ Signs["GREATER_THAN_OR_EQUAL"] = {0, 1}
  BY DEF Signs
<1>4. CASE op = "EQUAL"
  BY <1>1, <1>2, <1>3, <1>4 DEF compare
<1>5. CASE op = "NOT_EQUAL"
  BY <1>1, <1>2, <1>3, <1>5 DEF compare
<1>6. CASE op = "LESS_THAN"
  BY <1>1, <1>2, <1>3, <1>6 DEF compare
<1>7. CASE op = "LESS_THAN_OR_EQUAL"
  BY <1>1, <1>2, <1>3, <1>7 DEF compare
<1>8. CASE op = "GREATER_THAN"
  BY <1>1, <1>2, <1>3, <1>8 DEF compare
<1>9. CASE op = "GREATER_THAN_OR_EQUAL"
  BY <1>1, <1>2, <1>3, <1>9 DEF compare
<1> QED BY <1>4, <1>5, <1>6, <1>7, <1>8, <1>9 DEF Comparisons

(* Evaluating a predicate that fits its column on a cell that fits it says   *)
(* what the predicate means of the cell, and throws only where this is       *)
(* undefined.                                                                *)
LEMMA PredicateMeans ==
  ASSUME NEW p \in Predicates, NEW cell \in Cells, NEW column \in Columns,
         validateCell(column, cell), validatePredicate(p, column)
  PROVE  evaluatePredicate(p, cell) = IF Satisfied(p, cell) THEN "true"
                                      ELSE IF Undefined(p, cell) THEN "raise" ELSE "false"
<1>1. p.kind \in {"null", "integer", "text", "vector"}
  BY DEF Predicates
<1>2. CASE p.kind = "null"
  <2>1. evaluatePredicate(p, cell) = IF (p.op = "IS_NULL") <=> (cell = NullCell)
                                     THEN "true" ELSE "false"
    BY <1>2 DEF evaluatePredicate, Truth
  <2>2. Satisfied(p, cell) <=> ((p.op = "IS_NULL") <=> (cell = NullCell))
    BY <1>2 DEF Satisfied
  <2>3. ~Undefined(p, cell)
    BY <1>2 DEF Undefined
  <2> QED BY <2>1, <2>2, <2>3
<1>3. CASE p.kind # "null" /\ cell = NullCell
  <2>1. evaluatePredicate(p, cell) = "false"
    <3>1. cell.type = "null"
      BY <1>3 DEF NullCell
    <3> QED BY <1>3, <3>1 DEF evaluatePredicate
  <2>2. ~Satisfied(p, cell)
    BY <1>3 DEF Satisfied
  <2>3. ~Undefined(p, cell)
    BY <1>3 DEF Undefined
  <2> QED BY <2>1, <2>2, <2>3
<1>4. ASSUME p.kind # "null", cell # NullCell PROVE cell.type = p.kind /\ p.op \in Comparisons
  BY <1>4 DEF validateCell, validatePredicate, Predicates
<1>5. CASE p.kind \in {"integer", "text"} /\ cell # NullCell
  <2>1. cell.type = p.kind /\ p.op \in Comparisons
    BY <1>4, <1>5
  <2>2. p.value \in Numbers /\ cell.value \in Numbers
    BY <1>5, <2>1 DEF Predicates, Cells
  <2>3. PICK a \in Int : a = cell.value[1]
    BY <2>2 DEF Numbers
  <2>4. PICK b \in Int : b = p.value[1]
    BY <2>2 DEF Numbers
  <2>5. evaluatePredicate(p, cell) = Truth(compare(a, p.op, b))
    BY <1>5, <2>1, <2>3, <2>4 DEF evaluatePredicate
  <2>6. Satisfied(p, cell) <=> Sign(a - b) \in Signs[p.op]
    BY <1>5, <2>3, <2>4 DEF Satisfied, Undefined, Measured
  <2>7. ~Undefined(p, cell)
    BY <1>5 DEF Undefined
  <2> QED BY <2>1, <2>5, <2>6, <2>7, CompareSign DEF Truth
<1>6. CASE p.kind = "vector" /\ cell # NullCell
  <2>1. cell.type = "vector" /\ p.op \in Comparisons
    BY <1>4, <1>6
  <2>2. p.value \in Seq(Int) /\ cell.value \in Seq(Int)
    BY <1>6, <2>1 DEF Predicates, Cells
  <2>3. Len(cell.value) = Len(p.value)
    BY <1>6, <2>1 DEF validateCell, validatePredicate
  <2>4. HasDistance(cell.value, p.value, p.metric) <=> ~Undefined(p, cell)
    BY <1>6, <2>3 DEF HasDistance, Undefined
  <2>5. PICK d \in Int : d = distance(cell.value, p.value, p.metric)
    BY <2>2, <2>3, DistanceType
  <2>6. evaluatePredicate(p, cell) = IF Undefined(p, cell) THEN "raise"
                                     ELSE Truth(compare(d, p.op, Threshold))
    <3>1. CASE Undefined(p, cell)
      BY <1>6, <2>1, <2>4, <3>1 DEF evaluatePredicate
    <3>2. CASE ~Undefined(p, cell)
      BY <1>6, <2>1, <2>4, <2>5, <3>2 DEF evaluatePredicate
    <3> QED BY <3>1, <3>2
  <2>7. Satisfied(p, cell) <=> ~Undefined(p, cell) /\ Sign(d - Threshold) \in Signs[p.op]
    BY <1>6, <2>5 DEF Satisfied, Measured
  <2>8. compare(d, p.op, Threshold) <=> Sign(d - Threshold) \in Signs[p.op]
    BY <2>1, CompareSign DEF Threshold
  <2> QED BY <2>6, <2>7, <2>8 DEF Truth
<1> QED BY <1>1, <1>2, <1>3, <1>5, <1>6

-----------------------------------------------------------------------------
(* Queries and their rows. *)

(* A query that begin may be given.                                          *)
LEMMA QueryType ==
  ASSUME NEW qu \in Queries
  PROVE  /\ qu.rows \in Seq(Seq(Cells)) /\ qu.projection \in Seq(STRING)
         /\ qu.predicates \in Seq(Predicates) /\ qu.offset \in Nat
         /\ qu.limit \in Nat \cup {NoLimit} /\ qu.batchSize \in Nat \ {0}
         /\ \A i \in 1 .. Len(qu.rows) :
              qu.rows[i] \in Seq(Cells) /\ (qu.rows[i] = Malformed \/ validateRow(Schema, qu.rows[i]))
<1>1. /\ qu.rows \in Seq(Seq(Cells)) /\ qu.projection \in Seq(STRING)
      /\ qu.predicates \in Seq(Predicates) /\ qu.offset \in Nat
      /\ qu.limit \in Nat \cup {NoLimit} /\ qu.batchSize \in Nat \ {0}
      /\ \A i \in DOMAIN qu.rows : qu.rows[i] = Malformed \/ validateRow(Schema, qu.rows[i])
  BY QueriesAssumption
<1>2. PICK T : T = Seq(Cells)
  OBVIOUS
<1>3. qu.rows \in Seq(T)
  BY <1>1, <1>2
<1>4. DOMAIN qu.rows = 1 .. Len(qu.rows)
  BY <1>3, LenProperties
<1>5. \A i \in 1 .. Len(qu.rows) : qu.rows[i] \in T
  BY <1>3, ElementOfSeq
<1> QED BY <1>1, <1>2, <1>4, <1>5

(* A column is found by its name.                                            *)
LEMMA ColumnFound ==
  /\ \A name : hasColumn(name) => /\ columnId(name) \in DOMAIN Schema
                                  /\ Schema[columnId(name)].name = name
  /\ \A c \in DOMAIN Schema : columnId(Schema[c].name) = c
  /\ \A c \in DOMAIN Schema : Schema[c] \in Columns
  /\ DOMAIN Schema = 1 .. Len(Schema) /\ Len(Schema) \in Nat
<1>1. \A name : hasColumn(name) => /\ columnId(name) \in DOMAIN Schema
                                   /\ Schema[columnId(name)].name = name
  BY DEF hasColumn, columnId
<1>2. ASSUME NEW c \in DOMAIN Schema PROVE columnId(Schema[c].name) = c
  <2>1. hasColumn(Schema[c].name)
    BY DEF hasColumn
  <2> QED BY <1>1, <2>1, SchemaAssumption
<1>3. DOMAIN Schema = 1 .. Len(Schema) /\ Len(Schema) \in Nat
  BY SchemaAssumption, LenProperties
<1>4. \A c \in 1 .. Len(Schema) : Schema[c] \in Columns
  BY SchemaAssumption, ElementOfSeq
<1> QED BY <1>1, <1>2, <1>3, <1>4

(* The verdict of the predicates on a row is what the query makes of it, and *)
(* they throw only for a distance that is undefined.                         *)
LEMMA VerdictIsKind ==
  ASSUME NEW qu \in Queries, Accepts(qu), NEW i \in 1 .. Len(qu.rows), qu.rows[i] # Malformed
  PROVE  \/ KindOf(qu, qu.rows[i]) = "match" /\ Verdict(qu, qu.rows[i]) = "true"
         \/ KindOf(qu, qu.rows[i]) = "other" /\ Verdict(qu, qu.rows[i]) = "false"
         \/ /\ KindOf(qu, qu.rows[i]) = "raise" /\ Verdict(qu, qu.rows[i]) = "raise"
            /\ \E j \in DOMAIN qu.predicates :
                 Undefined(qu.predicates[j], qu.rows[i][columnId(qu.predicates[j].column)])
<1>1. PICK row : row = qu.rows[i]
  OBVIOUS
<1> DEFINE Pred(j) == qu.predicates[j]
           CellOf(j) == row[columnId(qu.predicates[j].column)]
           Fails(j) == ~Satisfied(Pred(j), CellOf(j))
           failing == {j \in DOMAIN qu.predicates : Fails(j)}
           First(S) == CHOOSE j \in S : \A k \in S : j <= k
<1>2. row \in Seq(Cells) /\ validateRow(Schema, row) /\ row # Malformed
  BY <1>1, QueryType
<1>3. DOMAIN qu.predicates \subseteq Nat /\ \A j \in DOMAIN qu.predicates : Pred(j) \in Predicates
  <2>1. qu.predicates \in Seq(Predicates)
    BY QueryType
  <2>2. DOMAIN qu.predicates = 1 .. Len(qu.predicates)
    BY <2>1, LenProperties
  <2>3. \A j \in 1 .. Len(qu.predicates) : qu.predicates[j] \in Predicates
    BY <2>1, ElementOfSeq
  <2> QED BY <2>2, <2>3
<1>4. ASSUME NEW j \in DOMAIN qu.predicates
      PROVE  Evaluated(qu, row, j) = IF ~Fails(j) THEN "true"
                                     ELSE IF Undefined(Pred(j), CellOf(j)) THEN "raise" ELSE "false"
  <2>1. PICK c : c = columnId(Pred(j).column)
    OBVIOUS
  <2>2. c \in DOMAIN Schema /\ validatePredicate(Pred(j), Schema[c])
    BY <2>1, ColumnFound DEF Accepts
  <2>3. Schema[c] \in Columns
    BY <2>2, ColumnFound
  <2>4. CellOf(j) \in Cells /\ validateCell(Schema[c], CellOf(j))
    <3>1. DOMAIN row = DOMAIN Schema /\ validateCell(Schema[c], row[c])
      BY <1>2, <2>2 DEF validateRow
    <3>2. row[c] \in Cells
      <4>1. DOMAIN row = 1 .. Len(row)
        BY <1>2, LenProperties
      <4>2. c \in 1 .. Len(row)
        BY <2>2, <3>1, <4>1
      <4> QED BY <1>2, <4>2, ElementOfSeq
    <3> QED BY <2>1, <3>1, <3>2
  <2>5. PICK p \in Predicates : p = Pred(j)
    BY <1>3
  <2>6. PICK cell \in Cells : cell = CellOf(j)
    BY <2>4
  <2>7. PICK column \in Columns : column = Schema[c]
    BY <2>3
  <2>8. evaluatePredicate(p, cell) = IF Satisfied(p, cell) THEN "true"
                                     ELSE IF Undefined(p, cell) THEN "raise" ELSE "false"
    BY <2>2, <2>4, <2>5, <2>6, <2>7, PredicateMeans
  <2>9. Evaluated(qu, row, j) = evaluatePredicate(p, cell)
    BY <2>5, <2>6 DEF Evaluated
  <2> QED BY <2>5, <2>6, <2>8, <2>9
<1>5. Stopping(qu, row) = failing
  <2>1. Stopping(qu, row) = {j \in DOMAIN qu.predicates : Evaluated(qu, row, j) # "true"}
    BY DEF Stopping
  <2>2. \A j \in DOMAIN qu.predicates : Evaluated(qu, row, j) # "true" <=> Fails(j)
    <3> HIDE DEF Fails
    <3> QED BY <1>4
  <2> HIDE DEF Fails
  <2> QED BY <2>1, <2>2
<1>6. Verdict(qu, row) = IF failing = {} THEN "true" ELSE Evaluated(qu, row, First(failing))
  <2> HIDE DEF failing
  <2> QED BY <1>5 DEF Verdict
<1>7. KindOf(qu, row) = IF failing = {} THEN "match"
                        ELSE IF Undefined(Pred(First(failing)), CellOf(First(failing)))
                             THEN "raise" ELSE "other"
  BY <1>2, Zenon DEF KindOf
<1>8. failing \subseteq DOMAIN qu.predicates /\ failing \subseteq Nat
  <2> HIDE DEF Fails
  <2> QED BY <1>3
<1>9. CASE failing = {}
  <2> HIDE DEF failing
  <2> QED BY <1>1, <1>6, <1>7, <1>9
<1>10. CASE failing # {}
  <2>1. \E n \in failing : \A m \in failing : n <= m
    <3> HIDE DEF failing
    <3> QED BY <1>8, <1>10, Least
  <2>2. PICK j \in failing : j = First(failing)
    <3> HIDE DEF failing
    <3> QED BY <2>1
  <2>3. j \in DOMAIN qu.predicates /\ Fails(j)
    OBVIOUS
  <2>4. Verdict(qu, row) = Evaluated(qu, row, j)
    <3> HIDE DEF failing, First
    <3> QED BY <1>6, <1>10, <2>2
  <2>5. KindOf(qu, row) = IF Undefined(Pred(j), CellOf(j)) THEN "raise" ELSE "other"
    <3> HIDE DEF failing, First, Pred, CellOf
    <3> QED BY <1>7, <1>10, <2>2
  <2>6. Verdict(qu, row) = IF Undefined(Pred(j), CellOf(j)) THEN "raise" ELSE "false"
    <3> HIDE DEF Fails, Pred, CellOf
    <3> QED BY <1>4, <2>3, <2>4
  <2>7. CASE Undefined(Pred(j), CellOf(j))
    BY <1>1, <2>3, <2>5, <2>6, <2>7
  <2>8. CASE ~Undefined(Pred(j), CellOf(j))
    BY <1>1, <2>5, <2>6, <2>8
  <2> QED BY <2>7, <2>8
<1> QED BY <1>9, <1>10

(* What SequentialSelect sees of a query is one of its queries.              *)
LEMMA AbstractType ==
  ASSUME NEW qu \in Queries
  PROVE  /\ AbstractQuery(qu) \in [rows : Seq(Kinds), offset : Nat, limit : Nat \cup {NoLimit},
                                   batchSize : Nat \ {0}]
         /\ IsQuery(AbstractQuery(qu))
         /\ AbstractQuery(qu).offset = qu.offset /\ AbstractQuery(qu).limit = qu.limit
         /\ AbstractQuery(qu).batchSize = qu.batchSize
         /\ Accepts(qu) =>
              /\ Len(AbstractQuery(qu).rows) = Len(qu.rows)
              /\ \A i \in 1 .. Len(qu.rows) : AbstractQuery(qu).rows[i] = KindOf(qu, qu.rows[i])
<1>1. PICK n \in Nat : n = Len(qu.rows) /\ DOMAIN qu.rows = 1 .. n
  <2>1. PICK T : T = Seq(Cells)
    OBVIOUS
  <2>2. qu.rows \in Seq(T)
    BY <2>1, QueryType
  <2> QED BY <2>2, LenProperties
<1>2. PICK rows : rows = IF Accepts(qu) THEN [i \in DOMAIN qu.rows |-> KindOf(qu, qu.rows[i])] ELSE <<>>
  OBVIOUS
<1>3. rows \in Seq(Kinds)
  <2>1. CASE Accepts(qu)
    <3>1. ASSUME NEW i \in 1 .. n PROVE KindOf(qu, qu.rows[i]) \in Kinds
      <4>1. CASE qu.rows[i] = Malformed
        BY <4>1 DEF KindOf, Kinds
      <4>2. CASE qu.rows[i] # Malformed
        BY <1>1, <2>1, <4>2, VerdictIsKind DEF Kinds
      <4> QED BY <4>1, <4>2
    <3>2. rows \in [1 .. n -> Kinds]
      BY <1>1, <1>2, <2>1, <3>1
    <3> QED BY <3>2, SeqDef
  <2>2. CASE ~Accepts(qu)
    BY <1>2, <2>2, EmptySeq
  <2> QED BY <2>1, <2>2
<1>4. AbstractQuery(qu) = [rows |-> rows, offset |-> qu.offset, limit |-> qu.limit,
                           batchSize |-> qu.batchSize]
  BY <1>2 DEF AbstractQuery
<1>5. ASSUME Accepts(qu)
      PROVE  Len(rows) = n /\ \A i \in 1 .. n : rows[i] = KindOf(qu, qu.rows[i])
  <2>1. rows = [i \in 1 .. n |-> KindOf(qu, qu.rows[i])]
    BY <1>1, <1>2, <1>5
  <2>2. DOMAIN rows = 1 .. n /\ \A i \in 1 .. n : rows[i] = KindOf(qu, qu.rows[i])
    BY <2>1
  <2>3. Len(rows) \in Nat /\ DOMAIN rows = 1 .. Len(rows)
    BY <1>3, LenProperties
  <2> QED BY <1>1, <2>2, <2>3
<1>6. /\ qu.offset \in Nat /\ qu.limit \in Nat \cup {NoLimit} /\ qu.batchSize \in Nat \ {0}
  BY QueryType
<1> QED BY <1>1, <1>3, <1>4, <1>5, <1>6 DEF IsQuery

(* Its pages are those of the query, and the same of them cannot be read.    *)
LEMMA AbstractPages ==
  ASSUME NEW qu \in Queries, Accepts(qu), NEW p \in Nat
  PROVE  /\ FirstOf(AbstractQuery(qu), p) = FirstOf(qu, p)
         /\ LastOf(AbstractQuery(qu), p) = LastOf(qu, p)
         /\ ReachesEnd(AbstractQuery(qu), p) <=> ReachesEnd(qu, p)
         /\ p # 0 => (ReadFails(AbstractQuery(qu), p) <=> Unreadable(qu, p))
<1>1. PICK q : q = AbstractQuery(qu)
  OBVIOUS
<1>2. /\ IsQuery(q) /\ q.batchSize = qu.batchSize /\ Len(q.rows) = Len(qu.rows)
      /\ \A i \in 1 .. Len(qu.rows) : q.rows[i] = KindOf(qu, qu.rows[i])
  BY <1>1, AbstractType
<1>3. FirstOf(q, p) = FirstOf(qu, p) /\ LastOf(q, p) = LastOf(qu, p)
  BY <1>2 DEF FirstOf, LastOf
<1>4. ReachesEnd(q, p) <=> ReachesEnd(qu, p)
  BY <1>2 DEF ReachesEnd
<1>5. ASSUME p # 0 PROVE ReadFails(q, p) <=> Unreadable(qu, p)
  <2>1. PICK c \in Nat : p = c + 1
    <3>1. p - 1 \in Nat /\ p = (p - 1) + 1
      BY <1>5
    <3> QED BY <3>1
  <2>2. FirstOf(q, p) \in Nat \ {0} /\ LastOf(q, p) \in 0 .. Len(qu.rows)
    BY <1>2, <2>1, PageBounds
  <2>3. Len(qu.rows) \in Nat
    <3>1. Len(q.rows) \in Nat
      BY <1>2, LenProperties DEF IsQuery
    <3> QED BY <1>2, <3>1
  <2>4. ASSUME NEW i \in FirstOf(q, p) .. LastOf(q, p)
        PROVE  q.rows[i] = "malformed" <=> qu.rows[i] = Malformed
    <3>1. i \in 1 .. Len(qu.rows)
      BY <2>2, <2>3
    <3>2. CASE qu.rows[i] = Malformed
      BY <1>2, <3>1, <3>2 DEF KindOf
    <3>3. CASE qu.rows[i] # Malformed
      <4>1. KindOf(qu, qu.rows[i]) # "malformed"
        BY <3>1, <3>3, VerdictIsKind
      <4> QED BY <1>2, <3>1, <3>3, <4>1
    <3> QED BY <3>2, <3>3
  <2>5. ReadFails(q, p) <=> \E i \in FirstOf(q, p) .. LastOf(q, p) : q.rows[i] = "malformed"
    BY DEF ReadFails, HasKind
  <2>6. Unreadable(qu, p) <=> \E i \in FirstOf(q, p) .. LastOf(q, p) : qu.rows[i] = Malformed
    BY <1>3 DEF Unreadable
  <2> QED BY <2>4, <2>5, <2>6
<1> QED BY <1>1, <1>3, <1>4, <1>5

-----------------------------------------------------------------------------
(* Pages. *)

(* The states of an executor that runs a query: the rows of its result are   *)
(* projections of the rows of the table with those RowIds.                   *)
States(qu) ==
  {s \in [schema : {projectSchema(Projected(qu))},
          rows : Seq({projectRow(qu.rows[i], Projected(qu)) : i \in 1 .. Len(qu.rows)}),
          rowIds : Seq(1 .. Len(qu.rows)), skipped : Nat, complete : BOOLEAN, raised : BOOLEAN] :
     /\ Len(s.rows) = Len(s.rowIds)
     /\ \A k \in 1 .. Len(s.rows) :
          s.rows[k] = projectRow(qu.rows[s.rowIds[k]], Projected(qu))}

LEMMA StateOverType ==
  ASSUME NEW qu \in Queries PROVE StateOver(qu, Projected(qu)) \in States(qu)
<1>1. PICK R : R = {projectRow(qu.rows[i], Projected(qu)) : i \in 1 .. Len(qu.rows)}
  OBVIOUS
<1>2. PICK I : I = 1 .. Len(qu.rows)
  OBVIOUS
<1>3. PICK s : s = StateOver(qu, Projected(qu))
  OBVIOUS
<1>4. <<>> \in Seq(R) /\ <<>> \in Seq(I) /\ Len(<<>>) = 0
  BY EmptySeq
<1>5. s = [schema |-> projectSchema(Projected(qu)), rows |-> <<>>, rowIds |-> <<>>, skipped |-> 0,
           complete |-> qu.limit = 0, raised |-> FALSE]
  BY <1>3 DEF StateOver
<1>6. s \in [schema : {projectSchema(Projected(qu))}, rows : Seq(R), rowIds : Seq(I),
             skipped : Nat, complete : BOOLEAN, raised : BOOLEAN]
  BY <1>4, <1>5
<1>7. s.rows = <<>> /\ s.rowIds = <<>>
  BY <1>5
<1>8. Len(s.rows) = Len(s.rowIds) /\ Len(s.rows) = 0
  BY <1>4, <1>7
<1>9. \A k \in 1 .. Len(s.rows) : FALSE
  BY <1>8
<1> QED BY <1>1, <1>2, <1>3, <1>6, <1>8, <1>9 DEF States

(* A row taken leads from a state to a state.                                *)
LEMMA TakeRowType ==
  ASSUME NEW qu \in Queries, NEW s \in States(qu), NEW i \in 1 .. Len(qu.rows)
  PROVE  TakeRow(qu, s, i) \in States(qu)
<1>1. PICK R : R = {projectRow(qu.rows[j], Projected(qu)) : j \in 1 .. Len(qu.rows)}
  OBVIOUS
<1>2. PICK I : I = 1 .. Len(qu.rows)
  OBVIOUS
<1>3. PICK schema : schema = projectSchema(Projected(qu))
  OBVIOUS
<1> DEFINE Fits(t) == /\ Len(t.rows) = Len(t.rowIds)
                      /\ \A k \in 1 .. Len(t.rows) :
                           t.rows[k] = projectRow(qu.rows[t.rowIds[k]], Projected(qu))
           Fields == [schema : {schema}, rows : Seq(R), rowIds : Seq(I),
                      skipped : Nat, complete : BOOLEAN, raised : BOOLEAN]
<1>4. \A t : t \in States(qu) <=> t \in Fields /\ Fits(t)
  BY <1>1, <1>2, <1>3 DEF States
<1>5. s \in Fields /\ Fits(s)
  BY <1>4
<1>6. PICK t : t = TakeRow(qu, s, i)
  OBVIOUS
<1>7. \/ t = s
      \/ t = [s EXCEPT !.raised = TRUE]
      \/ t = [s EXCEPT !.skipped = @ + 1]
      \/ t = [s EXCEPT !.rows = Append(@, projectRow(qu.rows[i], Projected(qu))),
                       !.rowIds = Append(@, i), !.complete = IsFull(qu, Len(s.rows) + 1)]
  BY <1>6 DEF TakeRow
<1>8. CASE t = s
  BY <1>4, <1>5, <1>6, <1>8
<1>9. CASE t = [s EXCEPT !.raised = TRUE]
  <2>1. t \in Fields /\ t.rows = s.rows /\ t.rowIds = s.rowIds
    BY <1>5, <1>9
  <2>2. Fits(t)
    BY <1>5, <2>1
  <2> QED BY <1>4, <1>6, <2>1, <2>2
<1>10. CASE t = [s EXCEPT !.skipped = @ + 1]
  <2>1. t \in Fields /\ t.rows = s.rows /\ t.rowIds = s.rowIds
    BY <1>5, <1>10
  <2>2. Fits(t)
    BY <1>5, <2>1
  <2> QED BY <1>4, <1>6, <2>1, <2>2
<1>11. CASE t = [s EXCEPT !.rows = Append(@, projectRow(qu.rows[i], Projected(qu))),
                          !.rowIds = Append(@, i), !.complete = IsFull(qu, Len(s.rows) + 1)]
  <2>1. PICK row \in R : row = projectRow(qu.rows[i], Projected(qu))
    BY <1>1
  <2>2. PICK rows : rows = Append(s.rows, row)
    OBVIOUS
  <2>3. PICK rowIds : rowIds = Append(s.rowIds, i)
    OBVIOUS
  <2>4. PICK full \in BOOLEAN : full = IsFull(qu, Len(s.rows) + 1)
    BY DEF IsFull
  <2>5. s.rows \in Seq(R) /\ s.rowIds \in Seq(I) /\ i \in I
    BY <1>2, <1>5
  <2>6. PICK n \in Nat : n = Len(s.rows) /\ n = Len(s.rowIds)
    BY <1>5, <2>5, LenProperties
  <2>7. /\ rows \in Seq(R) /\ Len(rows) = n + 1 /\ rows[n + 1] = row
        /\ \A k \in 1 .. n : rows[k] = s.rows[k]
    <3>1. PICK old \in Seq(R) : old = s.rows
      BY <2>5
    <3>2. /\ Append(old, row) \in Seq(R) /\ Len(Append(old, row)) = Len(old) + 1
          /\ \A k \in 1 .. Len(old) : Append(old, row)[k] = old[k]
          /\ Append(old, row)[Len(old) + 1] = row
      BY AppendProperties
    <3>3. rows = Append(old, row) /\ Len(old) = n
      BY <2>2, <2>6, <3>1, Zenon
    <3>4. /\ rows \in Seq(R) /\ Len(rows) = Len(old) + 1 /\ rows[Len(old) + 1] = row
          /\ \A k \in 1 .. Len(old) : rows[k] = old[k]
      BY <3>2, <3>3, Zenon
    <3> QED BY <3>1, <3>3, <3>4
  <2>8. /\ rowIds \in Seq(I) /\ Len(rowIds) = n + 1 /\ rowIds[n + 1] = i
        /\ \A k \in 1 .. n : rowIds[k] = s.rowIds[k]
    BY <2>3, <2>5, <2>6, AppendProperties
  <2>9. t = [s EXCEPT !.rows = rows, !.rowIds = rowIds, !.complete = full]
    BY <1>11, <2>1, <2>2, <2>3, <2>4
  <2>10. t \in Fields /\ t.rows = rows /\ t.rowIds = rowIds
    BY <1>5, <2>7, <2>8, <2>9
  <2>11. ASSUME NEW k \in 1 .. n + 1 PROVE rows[k] = projectRow(qu.rows[rowIds[k]], Projected(qu))
    <3>1. CASE k = n + 1
      BY <2>1, <2>7, <2>8, <3>1
    <3>2. CASE k # n + 1
      <4>1. k \in 1 .. n
        BY <3>2
      <4> QED BY <1>5, <2>6, <2>7, <2>8, <4>1
    <3> QED BY <3>1, <3>2
  <2>12. Fits(t)
    BY <2>7, <2>8, <2>10, <2>11
  <2> QED BY <1>4, <1>6, <2>10, <2>12
<1> QED BY <1>7, <1>8, <1>9, <1>10, <1>11

(* A row taken does what it does to the matches before it: it throws when it *)
(* is needed and raises, and else makes the state of one more row.           *)
LEMMA RowTaken ==
  ASSUME NEW qu \in Queries, Accepts(qu), NEW q, q = AbstractQuery(qu), q.limit # 0,
         NEW i \in Nat, i + 1 <= Len(qu.rows), qu.rows[i + 1] # Malformed,
         NEW s \in States(qu), ~s.raised, AbstractState(s) = StateOf(q, Matching(q, 1, i)),
         NEW t, t = TakeRow(qu, s, i + 1)
  PROVE  /\ t.raised <=> q.rows[i + 1] = "raise" /\ i + 1 <= LastNeeded(q)
         /\ ~t.raised => AbstractState(t) = StateOf(q, Matching(q, 1, i + 1))
<1>1. PICK n \in 1 .. Len(qu.rows) : n = i + 1
  <2>1. Len(qu.rows) \in Nat
    <3>1. PICK T : T = Seq(Cells)
      OBVIOUS
    <3>2. qu.rows \in Seq(T)
      BY <3>1, QueryType
    <3> QED BY <3>2, LenProperties
  <2> QED BY <2>1
<1>2. /\ IsQuery(q) /\ q.offset = qu.offset /\ q.limit = qu.limit
      /\ Len(q.rows) = Len(qu.rows) /\ q.rows[n] = KindOf(qu, qu.rows[n])
  BY AbstractType
<1>3. PICK m \in Seq(Nat) : m = Matching(q, 1, i)
  BY MatchingElements
<1>4. Matching(q, 1, n) = IF q.rows[n] = "match" THEN Append(m, n) ELSE m
  <2>1. PICK one \in Nat \ {0} : one = 1
    OBVIOUS
  <2>2. i + 1 >= one
    BY <2>1
  <2>3. Matching(q, one, i + 1) = IF q.rows[i + 1] = "match"
                                  THEN Append(Matching(q, one, i), i + 1) ELSE Matching(q, one, i)
    BY <2>2, MatchingStep
  <2> QED BY <1>1, <1>3, <2>1, <2>3
<1>5. LastNeeded(q) \in Int /\ (n <= LastNeeded(q) <=> ~StateOf(q, m).complete)
  <2>1. i + 1 <= Len(q.rows)
    BY <1>2
  <2> QED BY <1>1, <1>2, <1>3, <2>1, NeededRow
<1>6. /\ s \in [schema : {projectSchema(Projected(qu))},
                rows : Seq({projectRow(qu.rows[j], Projected(qu)) : j \in 1 .. Len(qu.rows)}),
                rowIds : Seq(1 .. Len(qu.rows)), skipped : Nat, complete : BOOLEAN,
                raised : BOOLEAN]
      /\ Len(s.rows) = Len(s.rowIds)
  BY DEF States
<1>7. /\ s.skipped = StateOf(q, m).skipped /\ s.rowIds = StateOf(q, m).rows
      /\ s.complete = StateOf(q, m).complete
  <2>1. AbstractState(s) = [skipped |-> s.skipped, rows |-> s.rowIds, complete |-> s.complete]
    BY DEF AbstractState
  <2>2. PICK o : o = StateOf(q, m)
    OBVIOUS
  <2>3. o = [skipped |-> s.skipped, rows |-> s.rowIds, complete |-> s.complete]
    BY <1>3, <2>1, <2>2
  <2> QED BY <2>2, <2>3
<1>8. PICK verdict : verdict = Verdict(qu, qu.rows[n])
  OBVIOUS
<1>9. \/ q.rows[n] = "match" /\ verdict = "true"
      \/ q.rows[n] = "other" /\ verdict = "false"
      \/ q.rows[n] = "raise" /\ verdict = "raise"
  <2>1. qu.rows[n] # Malformed
    BY <1>1
  <2> QED BY <1>2, <1>8, <2>1, VerdictIsKind
<1>10. t = IF s.complete \/ s.raised \/ verdict = "false" THEN s
           ELSE IF verdict = "raise" THEN [s EXCEPT !.raised = TRUE]
           ELSE IF Skips(qu, s) THEN [s EXCEPT !.skipped = @ + 1]
           ELSE [s EXCEPT !.rows = Append(@, projectRow(qu.rows[n], Projected(qu))),
                          !.rowIds = Append(@, n),
                          !.complete = IsFull(qu, Len(s.rows) + 1)]
  BY <1>1, <1>8, Zenon DEF TakeRow
<1> SUFFICES /\ t.raised <=> q.rows[n] = "raise" /\ n <= LastNeeded(q)
             /\ ~t.raised => AbstractState(t) = StateOf(q, Matching(q, 1, n))
  BY <1>1
<1>11. CASE s.complete
  <2>1. t = s
    BY <1>10, <1>11
  <2>2. StateOf(q, Append(m, n)) = StateOf(q, m)
    <3>1. StateOf(q, m).complete /\ n \in Nat
      BY <1>1, <1>7, <1>11
    <3> QED BY <1>2, <3>1, StateOfStays
  <2>3. StateOf(q, Matching(q, 1, n)) = StateOf(q, m)
    BY <1>4, <2>2, Zenon
  <2>4. ~(n <= LastNeeded(q))
    BY <1>5, <1>7, <1>11
  <2> QED BY <1>3, <2>1, <2>3, <2>4
<1>12. CASE ~s.complete /\ verdict = "false"
  <2>1. t = s /\ q.rows[n] = "other"
    BY <1>9, <1>10, <1>12
  <2>2. Matching(q, 1, n) = m
    BY <1>4, <2>1
  <2> QED BY <1>3, <2>1, <2>2
<1>13. CASE ~s.complete /\ verdict = "raise"
  <2>1. t = [s EXCEPT !.raised = TRUE] /\ q.rows[n] = "raise"
    BY <1>9, <1>10, <1>13
  <2>2. t.raised
    BY <1>6, <2>1
  <2>3. n <= LastNeeded(q)
    BY <1>5, <1>7, <1>13
  <2> QED BY <2>1, <2>2, <2>3
<1>14. CASE ~s.complete /\ verdict = "true"
  <2>1. q.rows[n] = "match" /\ ~StateOf(q, m).complete /\ n \in Nat
    BY <1>1, <1>7, <1>9, <1>14
  <2>2. Matching(q, 1, n) = Append(m, n)
    BY <1>4, <2>1, Zenon
  <2>3. StateOf(q, Append(m, n)) =
          IF StateOf(q, m).skipped < q.offset
          THEN [skipped |-> StateOf(q, m).skipped + 1, rows |-> StateOf(q, m).rows,
                complete |-> FALSE]
          ELSE [skipped |-> StateOf(q, m).skipped, rows |-> Append(StateOf(q, m).rows, n),
                complete |-> q.limit # NoLimit /\ Len(StateOf(q, m).rows) + 1 >= q.limit]
    BY <1>2, <2>1, StateOfNext
  <2>4. StateOf(q, Matching(q, 1, n)) =
          IF s.skipped < q.offset
          THEN [skipped |-> s.skipped + 1, rows |-> s.rowIds, complete |-> FALSE]
          ELSE [skipped |-> s.skipped, rows |-> Append(s.rowIds, n),
                complete |-> q.limit # NoLimit /\ Len(s.rows) + 1 >= q.limit]
    BY <1>6, <1>7, <2>2, <2>3, Zenon
  <2>5. Skips(qu, s) <=> s.skipped < q.offset
    BY <1>2 DEF Skips
  <2>6. CASE s.skipped < q.offset
    <3>1. t = [s EXCEPT !.skipped = @ + 1]
      BY <1>10, <1>14, <2>5, <2>6
    <3>2. ~t.raised /\ t.skipped = s.skipped + 1 /\ t.rowIds = s.rowIds /\ t.complete = FALSE
      BY <1>6, <1>14, <3>1
    <3>3. AbstractState(t) = [skipped |-> s.skipped + 1, rows |-> s.rowIds, complete |-> FALSE]
      BY <3>2 DEF AbstractState
    <3> QED BY <2>1, <2>4, <2>6, <3>2, <3>3
  <2>7. CASE ~(s.skipped < q.offset)
    <3>1. PICK rowIds : rowIds = Append(s.rowIds, n)
      OBVIOUS
    <3>2. PICK rows : rows = Append(s.rows, projectRow(qu.rows[n], Projected(qu)))
      OBVIOUS
    <3>3. PICK full \in BOOLEAN : full = IsFull(qu, Len(s.rows) + 1)
      BY DEF IsFull
    <3>4. t = [s EXCEPT !.rows = rows, !.rowIds = rowIds, !.complete = full]
      BY <1>10, <1>14, <2>5, <2>7, <3>1, <3>2, <3>3
    <3>5. ~t.raised /\ t.skipped = s.skipped /\ t.rowIds = rowIds /\ t.complete = full
      BY <1>6, <3>4
    <3>6. AbstractState(t) = [skipped |-> s.skipped, rows |-> rowIds, complete |-> full]
      BY <3>5 DEF AbstractState
    <3>7. full = (q.limit # NoLimit /\ Len(s.rows) + 1 >= q.limit)
      BY <1>2, <3>3 DEF IsFull
    <3>8. StateOf(q, Matching(q, 1, n)) =
            [skipped |-> s.skipped, rows |-> rowIds, complete |-> full]
      BY <2>4, <2>7, <3>1, <3>7, Zenon
    <3> QED BY <2>1, <3>5, <3>6, <3>8
  <2> QED BY <2>6, <2>7
<1> QED BY <1>9, <1>11, <1>12, <1>13, <1>14

IsAfter(f, qu, st, p) ==
  f = [i \in 0 .. LastOf(qu, p) |-> IF i < FirstOf(qu, p) THEN st ELSE TakeRow(qu, f[i - 1], i)]

(* The recursion in executeBatch defines a function.                         *)
LEMMA BatchRows ==
  ASSUME NEW qu \in Queries, NEW st \in States(qu), NEW p,
         FirstOf(qu, p) \in Nat \ {0}, LastOf(qu, p) \in 0 .. Len(qu.rows), Len(qu.rows) \in Nat
  PROVE  \E after : /\ executeBatch(qu, st, p) = after[LastOf(qu, p)]
                    /\ \A i \in 0 .. LastOf(qu, p) :
                         after[i] = IF i < FirstOf(qu, p) THEN st ELSE TakeRow(qu, after[i - 1], i)
<1>1. PICK from \in Nat \ {0} : from = FirstOf(qu, p)
  OBVIOUS
<1>2. PICK n \in Nat : n = LastOf(qu, p) /\ n <= Len(qu.rows)
  OBVIOUS
<1> DEFINE V == States(qu)
           step == [i \in 1 .. n |-> [s \in V |-> TakeRow(qu, s, i)]]
           Row(x, i) == IF i < from THEN st ELSE TakeRow(qu, x, i)
<1>3. step \in [1 .. n -> [V -> V]]
  <2>1. \A i \in 1 .. n : i \in 1 .. Len(qu.rows)
    BY <1>2
  <2> QED BY <2>1, TakeRowType
<1>4. PICK f : FollowsUpTo(f, V, st, from, step, n)
  <2> HIDE DEF step
  <2> QED BY <1>3, RecursionUpTo
<1>5. /\ f \in [0 .. n -> V]
      /\ \A i \in 0 .. n : f[i] = IF i < from THEN st ELSE step[i][f[i - 1]]
  <2> HIDE DEF step, V
  <2> QED BY <1>4 DEF FollowsUpTo
<1>6. ASSUME NEW i \in 0 .. n PROVE f[i] = Row(f[i - 1], i)
  <2>1. CASE i < from
    <3> HIDE DEF step
    <3> QED BY <1>5, <2>1
  <2>2. CASE ~(i < from)
    <3>1. i \in 1 .. n /\ i - 1 \in 0 .. n
      BY <2>2
    <3>2. f[i - 1] \in V /\ f[i] = step[i][f[i - 1]]
      <4> HIDE DEF step, V
      <4> QED BY <1>5, <2>2, <3>1
    <3>3. step[i][f[i - 1]] = TakeRow(qu, f[i - 1], i)
      <4> HIDE DEF V
      <4> QED BY <3>1, <3>2
    <3> HIDE DEF step
    <3> QED BY <2>2, <3>2, <3>3
  <2> QED BY <2>1, <2>2
<1>7. IsAfter(f, qu, st, p)
  <2>1. f = [i \in 0 .. n |-> f[i]]
    <3> HIDE DEF step, V
    <3> QED BY <1>5
  <2>2. f = [i \in 0 .. n |-> Row(f[i - 1], i)]
    <3> HIDE DEF Row
    <3> QED BY <1>6, <2>1
  <2>3. f = [i \in 0 .. LastOf(qu, p) |-> IF i < FirstOf(qu, p) THEN st ELSE TakeRow(qu, f[i - 1], i)]
    BY <1>1, <1>2, <2>2
  <2> QED BY <2>3 DEF IsAfter
<1> DEFINE after == CHOOSE g : IsAfter(g, qu, st, p)
<1>8. IsAfter(after, qu, st, p)
  BY <1>7
<1>9. executeBatch(qu, st, p) = after[LastOf(qu, p)]
  BY DEF executeBatch, IsAfter
<1> HIDE DEF after, step, V
<1>10. after = [i \in 0 .. LastOf(qu, p) |->
                  IF i < FirstOf(qu, p) THEN st ELSE TakeRow(qu, after[i - 1], i)]
  BY <1>8 DEF IsAfter
<1>11. \A i \in 0 .. LastOf(qu, p) :
         after[i] = IF i < FirstOf(qu, p) THEN st ELSE TakeRow(qu, after[i - 1], i)
  BY <1>10
<1> QED BY <1>9, <1>11

NeededRaise(q, from, to) == \E i \in from .. to : q.rows[i] = "raise" /\ i <= LastNeeded(q)

(* SequentialSelect executes a page up to the row that completes the result, *)
(* which is the last one needed.                                             *)
LEMMA RaisesNeeded ==
  ASSUME NEW q, IsQuery(q), NEW c \in Nat, ~ReachesEnd(q, c), ~StateAfter(q, c).complete
  PROVE  ExecuteRaises(q, StateAfter(q, c), c + 1)
           <=> NeededRaise(q, FirstOf(q, c + 1), LastOf(q, c + 1))
<1>1. PICK n \in Nat : n = c + 1
  OBVIOUS
<1>2. PICK N \in Nat : N = Len(q.rows)
  BY LenProperties DEF IsQuery
<1>3. PICK to \in 0 .. N : to = LastOf(q, n)
  BY <1>1, <1>2, PageBounds
<1>4. PICK from \in Nat \ {0} : from = FirstOf(q, n)
  BY <1>1, PageBounds
<1>5. ExecuteBatch(q, StateAfter(q, c), n) = StateAfter(q, n)
  BY <1>1, PageCollects DEF ExecuteBatch
<1>6. StateAfter(q, n) = StateOf(q, Matching(q, 1, to))
  BY <1>3 DEF StateAfter
<1>7. q.limit # 0
  <2>1. LastOf(q, c) \in 0 .. Len(q.rows)
    BY PageBounds
  <2> QED BY <2>1, IncompleteState DEF StateAfter
<1>8. CASE StateAfter(q, n).complete
  <2>1. /\ StateAfter(q, n).rows[Len(StateAfter(q, n).rows)] = LastNeeded(q)
        /\ LastNeeded(q) \in 1 .. to
    BY <1>2, <1>6, <1>7, <1>8, CompleteState
  <2>2. ExecuteRaises(q, StateAfter(q, c), n) <=> HasKind(q, "raise", from, LastNeeded(q))
    BY <1>4, <1>5, <1>8, <2>1 DEF ExecuteRaises
  <2>3. HasKind(q, "raise", from, LastNeeded(q)) <=> NeededRaise(q, from, to)
    BY <1>2, <2>1 DEF HasKind, NeededRaise
  <2> QED BY <1>1, <1>3, <1>4, <2>2, <2>3
<1>9. CASE ~StateAfter(q, n).complete
  <2>1. LastNeeded(q) \in to .. N
    BY <1>2, <1>6, <1>9, IncompleteState
  <2>2. ExecuteRaises(q, StateAfter(q, c), n) <=> HasKind(q, "raise", from, to)
    BY <1>3, <1>4, <1>5, <1>9 DEF ExecuteRaises
  <2>3. HasKind(q, "raise", from, to) <=> NeededRaise(q, from, to)
    BY <1>2, <2>1 DEF HasKind, NeededRaise
  <2> QED BY <1>1, <1>3, <1>4, <2>2, <2>3
<1> QED BY <1>8, <1>9

(* The executor's loop over the rows of a page throws when SequentialSelect  *)
(* does, and else takes the page into the state as that does.                *)
LEMMA PageTaken ==
  ASSUME NEW qu \in Queries, Accepts(qu), NEW q, q = AbstractQuery(qu),
         NEW c \in Nat, ~ReachesEnd(q, c), ~Unreadable(qu, c + 1),
         NEW st \in States(qu), ~st.raised, ~st.complete, AbstractState(st) = StateAfter(q, c)
  PROVE  /\ executeBatch(qu, st, c + 1) \in States(qu)
         /\ executeBatch(qu, st, c + 1).raised
              <=> NeededRaise(q, FirstOf(q, c + 1), LastOf(q, c + 1))
         /\ ~executeBatch(qu, st, c + 1).raised
              => AbstractState(executeBatch(qu, st, c + 1)) = StateAfter(q, c + 1)
<1>1. PICK p \in Nat : p = c + 1
  OBVIOUS
<1>2. /\ IsQuery(q) /\ Len(q.rows) = Len(qu.rows)
      /\ \A i \in 1 .. Len(qu.rows) : q.rows[i] = KindOf(qu, qu.rows[i])
  BY AbstractType
<1>3. PICK N \in Nat : N = Len(q.rows) /\ N = Len(qu.rows)
  BY <1>2, LenProperties DEF IsQuery
<1>4. PICK last \in 0 .. N : last = LastOf(q, p) /\ last = LastOf(qu, p)
  BY <1>1, <1>2, <1>3, PageBounds, AbstractPages
<1>5. PICK l \in Nat : l = LastOf(q, c) /\ l <= last
  <2>1. LastOf(q, c) \in 0 .. Len(q.rows) /\ LastOf(q, c) <= LastOf(q, p)
    BY <1>1, <1>2, PageBounds
  <2> QED BY <1>3, <1>4, <2>1
<1>6. FirstOf(q, p) = l + 1 /\ FirstOf(qu, p) = l + 1
  BY <1>1, <1>2, <1>5, PageBounds, AbstractPages
<1>7. q.limit # 0
  <2>1. ~StateAfter(q, c).complete
    BY DEF AbstractState
  <2>2. PICK to \in 0 .. Len(q.rows) : to = LastOf(q, c)
    BY <1>2, PageBounds
  <2> QED BY <1>2, <2>1, <2>2, IncompleteState DEF StateAfter
<1>8. PICK after : /\ executeBatch(qu, st, p) = after[last]
                   /\ \A i \in 0 .. last : after[i] = IF i < l + 1 THEN st
                                                      ELSE TakeRow(qu, after[i - 1], i)
  <2>1. FirstOf(qu, p) \in Nat \ {0} /\ LastOf(qu, p) \in 0 .. Len(qu.rows) /\ Len(qu.rows) \in Nat
    BY <1>3, <1>4, <1>6
  <2>2. \E after : /\ executeBatch(qu, st, p) = after[LastOf(qu, p)]
                   /\ \A i \in 0 .. LastOf(qu, p) :
                        after[i] = IF i < FirstOf(qu, p) THEN st ELSE TakeRow(qu, after[i - 1], i)
    BY <2>1, BatchRows
  <2> QED BY <1>4, <1>6, <2>2
<1> DEFINE From(i) == IF i < l THEN l ELSE i
           Taken(s, i) == /\ s \in States(qu)
                          /\ s.raised <=> NeededRaise(q, l + 1, i)
                          /\ ~s.raised => AbstractState(s) = StateOf(q, Matching(q, 1, From(i)))
           S == {i \in Nat : i <= last => Taken(after[i], i)}
<1>9. ASSUME NEW i \in Nat, i <= l PROVE Taken(after[i], i)
  <2>1. i \in 0 .. last /\ i < l + 1
    BY <1>5, <1>9
  <2>2. after[i] = st
    BY <1>8, <2>1
  <2>3. ~NeededRaise(q, l + 1, i)
    BY <1>9 DEF NeededRaise
  <2>4. From(i) = l
    BY <1>9
  <2>5. AbstractState(st) = StateOf(q, Matching(q, 1, l))
    BY <1>5 DEF StateAfter
  <2> QED BY <2>2, <2>3, <2>4, <2>5
<1>10. 0 \in S
  <2> HIDE DEF Taken
  <2> QED BY <1>9
<1>11. ASSUME NEW i \in S PROVE i + 1 \in S
  <2> SUFFICES ASSUME i + 1 <= last PROVE Taken(after[i + 1], i + 1)
    OBVIOUS
  <2>1. CASE i + 1 <= l
    <3> HIDE DEF Taken
    <3> QED BY <1>9, <2>1
  <2>2. CASE ~(i + 1 <= l)
    <3>1. PICK n \in 1 .. N : n = i + 1
      OBVIOUS
    <3>2. PICK s : s = after[i]
      OBVIOUS
    <3>3. PICK t : t = after[n]
      OBVIOUS
    <3>4. t = TakeRow(qu, s, n)
      <4>1. n \in 0 .. last /\ ~(n < l + 1) /\ n - 1 = i
        BY <2>2, <3>1
      <4> QED BY <1>8, <3>2, <3>3, <4>1
    <3>5. Taken(s, i)
      <4> HIDE DEF Taken
      <4> QED BY <3>2
    <3>6. From(i) = i /\ From(n) = n
      BY <2>2, <3>1
    <3>7. t \in States(qu)
      BY <1>3, <3>4, <3>5, TakeRowType
    <3>8. NeededRaise(q, l + 1, n)
            <=> NeededRaise(q, l + 1, i) \/ (q.rows[n] = "raise" /\ n <= LastNeeded(q))
      <4>1. \A j : j \in l + 1 .. n <=> j \in l + 1 .. i \/ j = n
        BY <2>2, <3>1
      <4> QED BY <4>1 DEF NeededRaise
    <3>9. CASE s.raised
      <4>1. t = s
        BY <3>4, <3>9 DEF TakeRow
      <4> QED BY <3>1, <3>3, <3>5, <3>8, <3>9, <4>1
    <3>10. CASE ~s.raised
      <4>1. qu.rows[n] # Malformed
        <5>1. n \in FirstOf(qu, p) .. LastOf(qu, p)
          BY <1>4, <1>6, <2>2, <3>1
        <5> QED BY <1>1, <5>1 DEF Unreadable
      <4>2. AbstractState(s) = StateOf(q, Matching(q, 1, i))
        BY <3>5, <3>6, <3>10
      <4>3. /\ t.raised <=> q.rows[n] = "raise" /\ n <= LastNeeded(q)
            /\ ~t.raised => AbstractState(t) = StateOf(q, Matching(q, 1, n))
        <5>1. i \in Nat /\ i + 1 <= Len(qu.rows) /\ qu.rows[i + 1] # Malformed
              /\ t = TakeRow(qu, s, i + 1) /\ s \in States(qu)
          BY <1>3, <3>1, <3>4, <3>5, <4>1
        <5>2. /\ t.raised <=> q.rows[i + 1] = "raise" /\ i + 1 <= LastNeeded(q)
              /\ ~t.raised => AbstractState(t) = StateOf(q, Matching(q, 1, i + 1))
          <6> HIDE DEF Taken
          <6> QED BY <1>7, <3>10, <4>2, <5>1, RowTaken
        <5> QED BY <3>1, <5>2
      <4>4. ~NeededRaise(q, l + 1, i)
        BY <3>5, <3>10
      <4>5. Taken(t, n)
        BY <3>6, <3>7, <3>8, <4>3, <4>4
      <4> HIDE DEF Taken
      <4> QED BY <3>1, <3>3, <4>5
    <3> QED BY <3>9, <3>10
  <2> QED BY <2>1, <2>2
<1>12. S = Nat
  <2>1. S \in SUBSET Nat
    OBVIOUS
  <2> HIDE DEF S
  <2> QED BY <1>10, <1>11, <2>1, Induction
<1>13. Taken(after[last], last)
  <2> HIDE DEF Taken
  <2> QED BY <1>3, <1>12
<1>14. From(last) = last /\ StateAfter(q, p) = StateOf(q, Matching(q, 1, last))
  BY <1>4, <1>5 DEF StateAfter
<1> QED BY <1>1, <1>4, <1>6, <1>8, <1>13, <1>14

-----------------------------------------------------------------------------
(* The invariant: the query that has begun is valid; the state is one of     *)
(* its states, and the one of the pages read so far; none of these was       *)
(* malformed, and no row among them that is needed raised.                   *)

Abstract == AbstractQuery(query)

BegunOrNot ==
  IF begun THEN /\ Accepts(query) /\ state \in States(query) /\ ~state.raised
                /\ finished <=> ReachesEnd(Abstract, read)
  ELSE /\ read = 0 /\ finished = FALSE /\ state = StateOver(query, AllColumns)
       /\ outcome \in {Running, Refused}

NothingThrown ==
  Accepts(query) => /\ \A p \in 1 .. read : ~ReadFails(Abstract, p)
                    /\ ~NeededRaise(Abstract, 1, LastOf(Abstract, read))

ExecInv == /\ query \in Queries /\ read \in Nat /\ begun \in BOOLEAN
           /\ BegunOrNot
           /\ outcome = Refused => ~Accepts(query)
           /\ PrefixAnswered
           /\ NothingThrown
           /\ AnswersTheQuery
           /\ ThrowsOnlyForZeroVectors

(* Outcomes differ by their kinds. *)
LEMMA Outcomes ==
  /\ Running # Refused /\ Running # Error /\ Refused # Error
  /\ \A rows : Rows(rows) # Running /\ Rows(rows) # Refused /\ Rows(rows) # Error
BY DEF Running, Refused, Error, Rows

(* The state that begin makes. *)
LEMMA BeginsAt ==
  ASSUME NEW qu, NEW columns
  PROVE  AbstractState(StateOver(qu, columns)) = BeginState(AbstractQuery(qu))
<1>1. PICK s : s = StateOver(qu, columns)
  OBVIOUS
<1>2. s = [schema |-> projectSchema(columns), rows |-> <<>>, rowIds |-> <<>>,
           skipped |-> 0, complete |-> qu.limit = 0, raised |-> FALSE]
  BY <1>1 DEF StateOver
<1>3. s.skipped = 0 /\ s.rowIds = <<>> /\ s.complete = (qu.limit = 0)
  BY <1>2
<1>4. AbstractQuery(qu).limit = qu.limit
  BY DEF AbstractQuery
<1>5. AbstractState(s) = [skipped |-> 0, rows |-> <<>>, complete |-> qu.limit = 0]
  BY <1>3 DEF AbstractState
<1> QED BY <1>1, <1>4, <1>5 DEF BeginState

LEMMA ExecInit == ASSUME Init PROVE ExecInv
<1>1. query \in Queries /\ read = 0 /\ begun = FALSE /\ finished = FALSE /\ outcome = Running
      /\ state = StateOver(query, AllColumns)
  BY DEF Init
<1>2. IsQuery(Abstract)
  BY <1>1, AbstractType DEF Abstract
<1>3. PrefixAnswered
  BY <1>1, <1>2, BeginsAt, BeginIsFirst DEF PrefixAnswered, Abstract
<1>4. NothingThrown
  <2>1. PICK zero \in Nat : zero = 0
    OBVIOUS
  <2>2. LastOf(Abstract, read) = 0
    BY <1>1, <1>2, <2>1, PageBounds
  <2> QED BY <1>1, <2>2 DEF NothingThrown, NeededRaise
<1>5. AnswersTheQuery /\ ThrowsOnlyForZeroVectors
  BY <1>1, Outcomes DEF AnswersTheQuery, ThrowsOnlyForZeroVectors
<1> QED BY <1>1, <1>3, <1>4, <1>5, Outcomes DEF ExecInv, BegunOrNot

(* The next page throws when it cannot be read, or when executing it throws; *)
(* else it is taken into the state.                                          *)
LEMMA NextPage ==
  ASSUME ExecInv, begun, ~finished, ~state.complete
  PROVE  /\ Throws <=> \/ ReadFails(Abstract, read + 1)
                       \/ ExecuteRaises(Abstract, AbstractState(state), read + 1)
         /\ ~Throws =>
              /\ After \in States(query) /\ ~After.raised
              /\ AbstractState(After) = StateAfter(Abstract, read + 1)
              /\ AbstractState(After) = ExecuteBatch(Abstract, AbstractState(state), read + 1)
              /\ ~NeededRaise(Abstract, 1, LastOf(Abstract, read + 1))
              /\ \A p \in 1 .. read + 1 : ~ReadFails(Abstract, p)
<1>1. PICK q : q = Abstract /\ q = AbstractQuery(query)
  BY DEF Abstract
<1>2. PICK qu \in Queries : qu = query
  BY DEF ExecInv
<1>3. PICK c \in Nat : c = read
  BY DEF ExecInv
<1>4. PICK st \in States(qu) : st = state
  BY <1>2 DEF ExecInv, BegunOrNot
<1>5. /\ IsQuery(q) /\ Accepts(qu) /\ q = AbstractQuery(qu) /\ ~st.raised /\ ~st.complete
      /\ ~ReachesEnd(q, c) /\ AbstractState(st) = StateAfter(q, c)
  <2>1. /\ Accepts(qu) /\ ~st.raised /\ ~ReachesEnd(q, c)
    BY <1>1, <1>2, <1>3, <1>4 DEF ExecInv, BegunOrNot
  <2>2. AbstractState(st) = StateAfter(q, c)
    BY <1>1, <1>2, <1>3, <1>4, <2>1 DEF ExecInv, PrefixAnswered
  <2>3. IsQuery(q)
    BY <1>1, <1>2, AbstractType
  <2> QED BY <1>1, <1>2, <1>4, <2>1, <2>2, <2>3
<1>6. ~StateAfter(q, c).complete
  BY <1>5 DEF AbstractState
<1>7. PICK n \in Nat : n = c + 1
  OBVIOUS
<1>8. ReadFails(q, n) <=> Unreadable(qu, n)
  BY <1>5, <1>7, AbstractPages
<1>9. ExecuteRaises(q, StateAfter(q, c), n) <=> NeededRaise(q, FirstOf(q, n), LastOf(q, n))
  BY <1>5, <1>6, <1>7, RaisesNeeded
<1>10. Throws <=> (Unreadable(qu, n) \/ After.raised)
  BY <1>2, <1>3, <1>7 DEF Throws
<1>11. After = executeBatch(qu, st, n)
  BY <1>2, <1>3, <1>4, <1>7 DEF After
<1>12. ASSUME ~Unreadable(qu, n)
       PROVE  /\ After \in States(qu)
              /\ After.raised <=> NeededRaise(q, FirstOf(q, n), LastOf(q, n))
              /\ ~After.raised => AbstractState(After) = StateAfter(q, n)
  <2>1. ~Unreadable(qu, c + 1)
    BY <1>7, <1>12
  <2>2. /\ executeBatch(qu, st, c + 1) \in States(qu)
        /\ executeBatch(qu, st, c + 1).raised
              <=> NeededRaise(q, FirstOf(q, c + 1), LastOf(q, c + 1))
        /\ ~executeBatch(qu, st, c + 1).raised
              => AbstractState(executeBatch(qu, st, c + 1)) = StateAfter(q, c + 1)
    BY <1>5, <2>1, PageTaken
  <2> QED BY <1>7, <1>11, <2>2
<1>13. Throws <=> ReadFails(q, n) \/ ExecuteRaises(q, AbstractState(st), n)
  BY <1>5, <1>8, <1>9, <1>10, <1>12
<1>14. ASSUME ~Throws
       PROVE  /\ After \in States(qu) /\ ~After.raised
              /\ AbstractState(After) = StateAfter(q, n)
              /\ AbstractState(After) = ExecuteBatch(q, AbstractState(st), n)
              /\ ~NeededRaise(q, 1, LastOf(q, n))
              /\ \A p \in 1 .. n : ~ReadFails(q, p)
  <2>1. After \in States(qu) /\ ~After.raised /\ AbstractState(After) = StateAfter(q, n)
    BY <1>10, <1>12, <1>14
  <2>2. ExecuteBatch(q, StateAfter(q, c), n) = StateAfter(q, n)
    BY <1>5, <1>6, <1>7, PageCollects DEF ExecuteBatch
  <2>3. ~NeededRaise(q, FirstOf(q, n), LastOf(q, n))
    BY <1>10, <1>12, <1>14
  <2>4. /\ \A p \in 1 .. c : ~ReadFails(q, p)
        /\ ~NeededRaise(q, 1, LastOf(q, c))
    BY <1>1, <1>2, <1>3, <1>5 DEF ExecInv, NothingThrown
  <2>5. ~NeededRaise(q, 1, LastOf(q, n))
    <3>1. /\ FirstOf(q, n) = LastOf(q, c) + 1
          /\ LastOf(q, c) \in 0 .. Len(q.rows) /\ LastOf(q, n) \in 0 .. Len(q.rows)
      BY <1>5, <1>7, PageBounds
    <3>2. PICK l \in Int : l = LastOf(q, c)
      BY <3>1
    <3>3. PICK to \in Int : to = LastOf(q, n)
      BY <3>1
    <3>4. \A i \in 1 .. to : i \in 1 .. l \/ i \in l + 1 .. to
      BY <3>2, <3>3
    <3> QED BY <2>3, <2>4, <3>1, <3>2, <3>3, <3>4 DEF NeededRaise
  <2>6. \A p \in 1 .. n : ~ReadFails(q, p)
    <3>1. ~ReadFails(q, n)
      BY <1>13, <1>14
    <3>2. \A p \in 1 .. n : p \in 1 .. c \/ p = n
      BY <1>7
    <3> QED BY <2>4, <3>1, <3>2
  <2> QED BY <1>5, <2>1, <2>2, <2>5, <2>6
<1> QED BY <1>1, <1>2, <1>3, <1>4, <1>7, <1>13, <1>14

(* begin has looked at no row yet.                                           *)
LEMMA BeginInv == ASSUME ExecInv, begin PROVE ExecInv'
<1>1. /\ query' = query /\ read' = read /\ finished' = finished /\ query \in Queries
      /\ outcome = Running /\ ~begun /\ read = 0 /\ ~finished
      /\ state = StateOver(query, AllColumns)
  BY DEF begin, ExecInv, BegunOrNot
<1>2. Abstract' = Abstract /\ IsQuery(Abstract)
  BY <1>1, AbstractType DEF Abstract
<1>3. NothingThrown'
  BY <1>1, <1>2 DEF ExecInv, NothingThrown
<1>4. AbstractState(state)' = AbstractState(state)
  BY <1>1, BeginsAt DEF begin, AbstractState
<1>5. PrefixAnswered'
  BY <1>1, <1>4 DEF ExecInv, PrefixAnswered
<1>6. CASE Accepts(query)
  <2>1. begun' = TRUE /\ state' = StateOver(query, Projected(query)) /\ outcome' = outcome
    BY <1>6 DEF begin
  <2>2. state' \in States(query) /\ ~state'.raised
    BY <1>1, <2>1, StateOverType DEF StateOver
  <2>3. ~ReachesEnd(Abstract, read)
    <3>1. PICK zero \in Nat : zero = 0
      OBVIOUS
    <3> QED BY <1>1, <1>2, <3>1, PageBounds
  <2>4. BegunOrNot'
    BY <1>1, <1>2, <1>6, <2>1, <2>2, <2>3 DEF BegunOrNot
  <2>5. AnswersTheQuery' /\ ThrowsOnlyForZeroVectors'
    BY <1>1, <2>1, Outcomes DEF AnswersTheQuery, ThrowsOnlyForZeroVectors
  <2> QED BY <1>1, <1>3, <1>5, <2>1, <2>4, <2>5, Outcomes DEF ExecInv
<1>7. CASE ~Accepts(query)
  <2>1. begun' = begun /\ state' = state /\ outcome' = Refused
    BY <1>7 DEF begin
  <2>2. BegunOrNot'
    BY <1>1, <2>1 DEF ExecInv, BegunOrNot
  <2>3. AnswersTheQuery' /\ ThrowsOnlyForZeroVectors'
    BY <1>1, <1>7, <2>1, Outcomes DEF AnswersTheQuery, ThrowsOnlyForZeroVectors
  <2> QED BY <1>1, <1>3, <1>5, <1>7, <2>1, <2>2, <2>3 DEF ExecInv
<1> QED BY <1>6, <1>7

LEMMA ScanInv == ASSUME ExecInv, Scan PROVE ExecInv'
<1>1. /\ query' = query /\ read' = read + 1 /\ begun' = begun /\ outcome' = outcome
      /\ state' = After /\ begun /\ ~finished /\ ~state.complete /\ ~Throws /\ outcome = Running
      /\ finished' = ReachesEnd(query, read + 1)
      /\ query \in Queries /\ read \in Nat /\ Accepts(query) /\ begun \in BOOLEAN
  BY DEF Scan, ExecInv, BegunOrNot
<1>2. Abstract' = Abstract /\ Abstract = AbstractQuery(query) /\ read + 1 \in Nat
  BY <1>1 DEF Abstract
<1>3. /\ After \in States(query) /\ ~After.raised
      /\ AbstractState(After) = StateAfter(Abstract, read + 1)
      /\ ~NeededRaise(Abstract, 1, LastOf(Abstract, read + 1))
      /\ \A p \in 1 .. read + 1 : ~ReadFails(Abstract, p)
  BY <1>1, NextPage
<1>4. ReachesEnd(Abstract, read + 1) <=> ReachesEnd(query, read + 1)
  BY <1>1, <1>2, AbstractPages
<1>5. BegunOrNot'
  BY <1>1, <1>2, <1>3, <1>4 DEF BegunOrNot
<1>6. PrefixAnswered'
  BY <1>1, <1>2, <1>3 DEF PrefixAnswered, AbstractState
<1>7. NothingThrown'
  BY <1>1, <1>2, <1>3 DEF NothingThrown
<1>8. AnswersTheQuery' /\ ThrowsOnlyForZeroVectors'
  BY <1>1, Outcomes DEF AnswersTheQuery, ThrowsOnlyForZeroVectors
<1> QED BY <1>1, <1>2, <1>5, <1>6, <1>7, <1>8, Outcomes DEF ExecInv

(* A throw is the answer, and has its reason in a row of the page.           *)
LEMMA ScanThrowsInv == ASSUME ExecInv, ScanThrows PROVE ExecInv'
<1>1. /\ query' = query /\ read' = read /\ begun' = begun /\ finished' = finished /\ state' = state
      /\ outcome' = Error /\ begun /\ ~finished /\ ~state.complete /\ Throws
      /\ query \in Queries /\ read \in Nat /\ Accepts(query) /\ begun \in BOOLEAN
  BY DEF ScanThrows, ExecInv, BegunOrNot
<1>2. Abstract' = Abstract
  BY <1>1 DEF Abstract
<1>3. PICK q : q = Abstract /\ q = AbstractQuery(query)
  BY DEF Abstract
<1>4. /\ IsQuery(q) /\ ~ReachesEnd(q, read) /\ AbstractState(state) = StateAfter(q, read)
      /\ ~StateAfter(q, read).complete
  <2>1. IsQuery(q) /\ ~ReachesEnd(q, read)
    BY <1>1, <1>3, AbstractType DEF ExecInv, BegunOrNot
  <2>2. AbstractState(state) = StateAfter(q, read)
    BY <1>1, <1>3 DEF ExecInv, PrefixAnswered
  <2>3. ~AbstractState(state).complete
    BY <1>1 DEF AbstractState
  <2> QED BY <2>1, <2>2, <2>3
<1>5. ReadFails(q, read + 1) \/ ExecuteRaises(q, StateAfter(q, read), read + 1)
  BY <1>1, <1>3, <1>4, NextPage
<1>6. AnswersTheQuery'
  <2>1. SequentialOutcome(q) = Error
    BY <1>1, <1>4, <1>5, SequentialThrows
  <2> QED BY <1>1, <1>3, <2>1 DEF AnswersTheQuery
<1>7. \E i \in DOMAIN query.rows :
        \/ query.rows[i] = Malformed
        \/ \E j \in DOMAIN query.predicates :
             Undefined(query.predicates[j], query.rows[i][columnId(query.predicates[j].column)])
  <2>1. PICK N \in Nat : /\ N = Len(query.rows) /\ N = Len(q.rows) /\ DOMAIN query.rows = 1 .. N
                         /\ \A i \in 1 .. N : q.rows[i] = KindOf(query, query.rows[i])
    <3>1. PICK T : T = Seq(Cells)
      OBVIOUS
    <3>2. query.rows \in Seq(T)
      BY <1>1, <3>1, QueryType
    <3> QED BY <1>1, <1>3, <3>2, LenProperties, AbstractType
  <2>2. PICK n \in Nat : n = read + 1 /\ n # 0
    BY <1>1
  <2>3. \E i \in FirstOf(q, n) .. LastOf(q, n) : q.rows[i] \in {"malformed", "raise"}
    <3>1. CASE ReadFails(q, n)
      BY <3>1 DEF ReadFails, HasKind
    <3>2. CASE ExecuteRaises(q, StateAfter(q, read), n)
      <4>1. NeededRaise(q, FirstOf(q, n), LastOf(q, n))
        BY <1>1, <1>4, <2>2, <3>2, RaisesNeeded
      <4> QED BY <4>1 DEF NeededRaise
    <3> QED BY <1>5, <2>2, <3>1, <3>2
  <2>4. FirstOf(q, n) \in Nat \ {0} /\ LastOf(q, n) \in 0 .. N
    BY <1>1, <1>4, <2>1, <2>2, PageBounds
  <2>5. PICK i \in 1 .. N : q.rows[i] \in {"malformed", "raise"}
    BY <2>3, <2>4
  <2>6. CASE query.rows[i] = Malformed
    BY <2>1, <2>6
  <2>7. CASE query.rows[i] # Malformed
    <3>1. i \in 1 .. Len(query.rows) /\ KindOf(query, query.rows[i]) \in {"malformed", "raise"}
      BY <2>1, <2>5
    <3>2. \E j \in DOMAIN query.predicates :
            Undefined(query.predicates[j], query.rows[i][columnId(query.predicates[j].column)])
      BY <1>1, <2>7, <3>1, VerdictIsKind
    <3> QED BY <2>1, <3>2
  <2> QED BY <2>6, <2>7
<1>8. ThrowsOnlyForZeroVectors'
  BY <1>1, <1>7 DEF ThrowsOnlyForZeroVectors
<1>9. BegunOrNot' /\ PrefixAnswered' /\ NothingThrown'
  BY <1>1, <1>2 DEF ExecInv, BegunOrNot, PrefixAnswered, NothingThrown, AbstractState
<1> QED BY <1>1, <1>6, <1>8, <1>9, Outcomes DEF ExecInv

(* What is returned at the end of the file or at the limit is the answer.    *)
LEMMA ReturnInv == ASSUME ExecInv, Return PROVE ExecInv'
<1>1. /\ query' = query /\ read' = read /\ begun' = begun /\ finished' = finished /\ state' = state
      /\ outcome' = Rows(state.rowIds) /\ begun /\ (finished \/ state.complete)
      /\ query \in Queries /\ read \in Nat /\ Accepts(query) /\ begun \in BOOLEAN
  BY DEF Return, ExecInv, BegunOrNot
<1>2. Abstract' = Abstract
  BY <1>1 DEF Abstract
<1>3. PICK q : q = Abstract /\ q = AbstractQuery(query)
  BY DEF Abstract
<1>4. IsQuery(q) /\ AbstractState(state) = StateAfter(q, read)
  BY <1>1, <1>3, AbstractType DEF ExecInv, PrefixAnswered
<1>5. StateAfter(q, read).rows = state.rowIds /\ StateAfter(q, read).complete = state.complete
  BY <1>4 DEF AbstractState
<1>6. SequentialOutcome(q) = Rows(state.rowIds)
  <2>1. CASE q.limit = 0
    BY <1>1, <1>4, <1>5, <2>1, ZeroLimit
  <2>2. CASE q.limit # 0
    <3>1. StateAfter(q, read).complete \/ LastOf(q, read) = Len(q.rows)
      BY <1>1, <1>3, <1>4, <1>5, PageBounds DEF ExecInv, BegunOrNot
    <3>2. PICK l \in Nat : l = LastOf(q, read)
      <4>1. LastOf(q, read) \in 0 .. Len(q.rows)
        BY <1>1, <1>4, PageBounds
      <4> QED BY <4>1
    <3>3. LastNeeded(q) \in 0 .. l
      BY <1>1, <1>4, <2>2, <3>1, <3>2, Answered
    <3>4. ~NeededRaise(q, 1, l) /\ \A p \in 1 .. read : ~ReadFails(q, p)
      BY <1>1, <1>3, <3>2 DEF ExecInv, NothingThrown
    <3>5. ~HasKind(q, "raise", 1, LastNeeded(q))
      BY <3>2, <3>3, <3>4 DEF HasKind, NeededRaise
    <3> QED BY <1>1, <1>4, <1>5, <2>2, <3>1, <3>4, <3>5, SequentialAnswers
  <2> QED BY <2>1, <2>2
<1>7. AnswersTheQuery'
  BY <1>1, <1>3, <1>6 DEF AnswersTheQuery
<1>8. ThrowsOnlyForZeroVectors'
  BY <1>1, Outcomes DEF ThrowsOnlyForZeroVectors
<1>9. BegunOrNot' /\ PrefixAnswered' /\ NothingThrown'
  BY <1>1, <1>2 DEF ExecInv, BegunOrNot, PrefixAnswered, NothingThrown, AbstractState
<1> QED BY <1>1, <1>7, <1>8, <1>9, Outcomes DEF ExecInv

LEMMA ExecNext == ASSUME ExecInv, [Next]_vars PROVE ExecInv'
<1>1. CASE begin
  BY <1>1, BeginInv
<1>2. CASE Scan
  BY <1>2, ScanInv
<1>3. CASE ScanThrows
  BY <1>3, ScanThrowsInv
<1>4. CASE Return
  BY <1>4, ReturnInv
<1>5. CASE UNCHANGED vars
  BY <1>5 DEF vars, ExecInv, BegunOrNot, PrefixAnswered, NothingThrown, AnswersTheQuery,
              ThrowsOnlyForZeroVectors, Abstract, AbstractState
<1> QED BY <1>1, <1>2, <1>3, <1>4, <1>5 DEF Next

(* The one-worker select answers what the query means over the whole table,  *)
(* and throws exactly when a row it had to read or evaluate makes it.        *)
THEOREM ExecutorAnswers == Spec => []AnswersTheQuery
<1>1. Init => ExecInv
  BY ExecInit
<1>2. ExecInv /\ [Next]_vars => ExecInv'
  BY ExecNext
<1>3. ExecInv => AnswersTheQuery
  BY DEF ExecInv
<1> QED BY <1>1, <1>2, <1>3, PTL DEF Spec

(* Between two pages the result is the answer over the rows read so far.     *)
THEOREM ExecutorPrefix == Spec => []PrefixAnswered
<1>1. Init => ExecInv
  BY ExecInit
<1>2. ExecInv /\ [Next]_vars => ExecInv'
  BY ExecNext
<1>3. ExecInv => PrefixAnswered
  BY DEF ExecInv
<1> QED BY <1>1, <1>2, <1>3, PTL DEF Spec

(* What begin validates leaves the evaluation no reason to throw but the     *)
(* cosine distance of a zero vector.                                         *)
THEOREM ExecutorThrows == Spec => []ThrowsOnlyForZeroVectors
<1>1. Init => ExecInv
  BY ExecInit
<1>2. ExecInv /\ [Next]_vars => ExecInv'
  BY ExecNext
<1>3. ExecInv => ThrowsOnlyForZeroVectors
  BY DEF ExecInv
<1> QED BY <1>1, <1>2, <1>3, PTL DEF Spec

-----------------------------------------------------------------------------
(* Results and their schemas. *)

(* A row and the columns, projected alike, fit each other as they did.       *)
LEMMA ProjectionFits ==
  ASSUME NEW qu \in Queries, Accepts(qu), NEW row, validateRow(Schema, row)
  PROVE  LET columns == Projected(qu)
             schema == projectSchema(columns)
             projected == projectRow(row, columns)
         IN  /\ validateRow(schema, projected)
             /\ \A c \in DOMAIN schema : projected[c] = row[columnId(schema[c].name)]
<1>1. PICK columns : columns = Projected(qu)
  OBVIOUS
<1>2. PICK schema : schema = projectSchema(columns)
  OBVIOUS
<1>3. PICK projected : projected = projectRow(row, columns)
  OBVIOUS
<1>4. \A c \in DOMAIN columns : columns[c] \in DOMAIN Schema
  <2>1. CASE qu.projection = <<>>
    BY <1>1, <2>1 DEF Projected, AllColumns
  <2>2. CASE qu.projection # <<>>
    <3>1. columns = [c \in DOMAIN qu.projection |-> columnId(qu.projection[c])]
      BY <1>1, <2>2 DEF Projected
    <3>2. \A c \in DOMAIN qu.projection : hasColumn(qu.projection[c])
      BY DEF Accepts
    <3> QED BY <3>1, <3>2, ColumnFound
  <2> QED BY <2>1, <2>2
<1>5. /\ DOMAIN schema = DOMAIN columns /\ DOMAIN projected = DOMAIN columns
      /\ \A c \in DOMAIN columns : schema[c] = Schema[columns[c]] /\ projected[c] = row[columns[c]]
  BY <1>2, <1>3 DEF projectSchema, projectRow
<1>6. ASSUME NEW c \in DOMAIN columns
      PROVE  /\ validateCell(schema[c], projected[c])
             /\ projected[c] = row[columnId(schema[c].name)]
  <2>1. validateCell(Schema[columns[c]], row[columns[c]])
    BY <1>4 DEF validateRow
  <2>2. columnId(Schema[columns[c]].name) = columns[c]
    BY <1>4, ColumnFound
  <2> QED BY <1>5, <2>1, <2>2
<1> QED BY <1>1, <1>2, <1>3, <1>5, <1>6 DEF validateRow

(* A result, also one still growing, has valid rows of its schema, whose     *)
(* cells are those of the stored rows by name, in the order of RowIds.       *)
THEOREM ExecutorFits == Spec => []ResultFitsItsSchema
<1>1. Init => ExecInv
  BY ExecInit
<1>2. ExecInv /\ [Next]_vars => ExecInv'
  BY ExecNext
<1>3. ExecInv => ResultFitsItsSchema
  <2> SUFFICES ASSUME ExecInv PROVE ResultFitsItsSchema
    OBVIOUS
  <2>1. CASE begun
    <3>1. PICK qu \in Queries : qu = query
      BY DEF ExecInv
    <3>2. PICK q : q = AbstractQuery(qu)
      OBVIOUS
    <3>3. PICK c \in Nat : c = read
      BY DEF ExecInv
    <3>4. Accepts(qu) /\ state \in States(qu)
      BY <2>1, <3>1 DEF ExecInv, BegunOrNot
    <3>5. IsQuery(q) /\ StateAfter(q, c).rows = state.rowIds
      <4>1. AbstractState(state) = StateAfter(q, c)
        BY <3>1, <3>2, <3>3, <3>4 DEF ExecInv, PrefixAnswered
      <4> QED BY <3>2, <4>1, AbstractType DEF AbstractState
    <3>6. PICK n \in Nat : /\ n = Len(state.rows) /\ n = Len(state.rowIds)
                           /\ DOMAIN state.rows = 1 .. n /\ DOMAIN state.rowIds = 1 .. n
      <4>1. PICK R : R = {projectRow(qu.rows[i], Projected(qu)) : i \in 1 .. Len(qu.rows)}
        OBVIOUS
      <4>2. PICK I : I = 1 .. Len(qu.rows)
        OBVIOUS
      <4>3. state.rows \in Seq(R) /\ state.rowIds \in Seq(I) /\ Len(state.rows) = Len(state.rowIds)
        BY <3>4, <4>1, <4>2 DEF States
      <4> QED BY <4>3, LenProperties
    <3>7. /\ state.schema = projectSchema(Projected(qu))
          /\ \A k \in 1 .. n : state.rows[k] = projectRow(qu.rows[state.rowIds[k]], Projected(qu))
      BY <3>4, <3>6 DEF States
    <3>8. \A k \in 1 .. n : /\ state.rowIds[k] \in 1 .. Len(q.rows)
                            /\ q.rows[state.rowIds[k]] = "match"
                            /\ k > 1 => state.rowIds[k - 1] < state.rowIds[k]
      BY <3>5, <3>6, StateRows
    <3>9. ASSUME NEW k \in 1 .. n
          PROVE  /\ validateRow(state.schema, state.rows[k])
                 /\ \A d \in DOMAIN state.schema :
                      state.rows[k][d] = qu.rows[state.rowIds[k]][columnId(state.schema[d].name)]
      <4>1. PICK i \in 1 .. Len(qu.rows) : i = state.rowIds[k] /\ q.rows[i] = "match"
        BY <3>2, <3>4, <3>8, AbstractType
      <4>2. qu.rows[i] # Malformed
        BY <3>2, <3>4, <4>1, AbstractType DEF KindOf
      <4>3. validateRow(Schema, qu.rows[i])
        BY <4>2, QueryType
      <4>4. PICK row : row = qu.rows[i]
        OBVIOUS
      <4>5. /\ validateRow(projectSchema(Projected(qu)), projectRow(row, Projected(qu)))
            /\ \A d \in DOMAIN projectSchema(Projected(qu)) :
                 projectRow(row, Projected(qu))[d]
                   = row[columnId(projectSchema(Projected(qu))[d].name)]
        BY <3>4, <4>3, <4>4, ProjectionFits
      <4> QED BY <3>7, <4>1, <4>4, <4>5
    <3> QED BY <3>1, <3>6, <3>8, <3>9 DEF ResultFitsItsSchema
  <2>2. CASE ~begun
    <3>1. state = StateOver(query, AllColumns)
      BY <2>2 DEF ExecInv, BegunOrNot
    <3>2. state.rows = <<>> /\ state.rowIds = <<>>
      BY <3>1 DEF StateOver
    <3>3. DOMAIN state.rows = {} /\ DOMAIN state.rowIds = {}
      BY <3>2
    <3> QED BY <3>3 DEF ResultFitsItsSchema
  <2> QED BY <2>1, <2>2
<1> QED BY <1>1, <1>2, <1>3, PTL DEF Spec

-----------------------------------------------------------------------------
(* The executor implements SequentialSelect.  The operators that INSTANCE    *)
(* brings in are those of SelectQuery.                                       *)

LEMMA SameOperators ==
  ASSUME NEW q, NEW s, NEW p
  PROVE  /\ Sequential!BeginState(q) = BeginState(q)
         /\ Sequential!ReadFails(q, p) <=> ReadFails(q, p)
         /\ Sequential!ExecuteBatch(q, s, p) = ExecuteBatch(q, s, p)
         /\ Sequential!ExecuteRaises(q, s, p) <=> ExecuteRaises(q, s, p)
         /\ Sequential!ReachesEnd(q, p) <=> ReachesEnd(q, p)
         /\ Sequential!Running = Running /\ Sequential!Error = Error
         /\ \A rows : Sequential!Rows(rows) = Rows(rows)
<1>1. /\ Sequential!FirstOf(q, p) = FirstOf(q, p) /\ Sequential!LastOf(q, p) = LastOf(q, p)
  BY DEF Sequential!FirstOf, Sequential!LastOf, FirstOf, LastOf, Sequential!Smaller, Smaller
<1>2. ASSUME NEW from, NEW to
      PROVE  Sequential!Matching(q, from, to) = Matching(q, from, to)
  BY DEF Sequential!Matching, Matching
<1>3. ASSUME NEW m PROVE Sequential!Collect(q, s, m) = Collect(q, s, m)
  BY DEF Sequential!Collect, Collect, Sequential!ToSkip, ToSkip, Sequential!Room, Room,
         Sequential!Smaller, Smaller, Sequential!SkippedAfter, SkippedAfter
<1>4. Sequential!ExecuteBatch(q, s, p) = ExecuteBatch(q, s, p)
  BY <1>1, <1>2, <1>3 DEF Sequential!ExecuteBatch, ExecuteBatch
<1>5. ASSUME NEW kind, NEW from, NEW to
      PROVE  Sequential!HasKind(q, kind, from, to) <=> HasKind(q, kind, from, to)
  BY DEF Sequential!HasKind, HasKind
<1>6. Sequential!ReadFails(q, p) <=> ReadFails(q, p)
  BY <1>1, <1>5 DEF Sequential!ReadFails, ReadFails
<1>7. Sequential!ExecuteRaises(q, s, p) <=> ExecuteRaises(q, s, p)
  BY <1>1, <1>4, <1>5 DEF Sequential!ExecuteRaises, ExecuteRaises
<1>8. Sequential!ReachesEnd(q, p) <=> ReachesEnd(q, p)
  BY DEF Sequential!ReachesEnd, ReachesEnd
<1>9. Sequential!BeginState(q) = BeginState(q)
  BY DEF Sequential!BeginState, BeginState
<1>10. /\ Sequential!Running = Running /\ Sequential!Error = Error
       /\ \A rows : Sequential!Rows(rows) = Rows(rows)
  BY DEF Sequential!Running, Running, Sequential!Error, Error, Sequential!Rows, Rows
<1> QED BY <1>4, <1>6, <1>7, <1>8, <1>9, <1>10

(* The executor scans, throws and returns when SequentialSelect does, and    *)
(* what it makes of the rows is what that makes of their kinds.              *)
THEOREM ExecutorImplements == Spec => SequentialSpec
<1>1. Init => ExecInv
  BY ExecInit
<1>2. ExecInv /\ [Next]_vars => ExecInv'
  BY ExecNext
<1>3. Init => Sequential!Init
  <2> SUFFICES ASSUME Init PROVE Sequential!Init
    OBVIOUS
  <2>1. /\ query \in Queries /\ read = 0 /\ finished = FALSE /\ outcome = Running
        /\ state = StateOver(query, AllColumns)
    BY DEF Init
  <2>2. AbstractQuery(query) \in [rows : Seq(Kinds), offset : Nat, limit : Nat \cup {NoLimit},
                                  batchSize : Nat \ {0}]
    BY <2>1, AbstractType
  <2>3. AbstractState(state) = Sequential!BeginState(AbstractQuery(query))
    BY <2>1, BeginsAt, SameOperators
  <2>4. Sequential!Kinds = Kinds
    BY DEF Sequential!Kinds, Kinds
  <2>5. (IF outcome = Refused THEN Running ELSE outcome) = Sequential!Running
    BY <2>1, SameOperators
  <2> QED BY <2>1, <2>2, <2>3, <2>4, <2>5 DEF Sequential!Init
<1>4. ExecInv /\ [Next]_vars => [Sequential!Next]_(Sequential!vars)
  <2> SUFFICES ASSUME ExecInv, [Next]_vars PROVE [Sequential!Next]_(Sequential!vars)
    OBVIOUS
  <2>1. CASE begin
    <3>1. /\ query' = query /\ read' = read /\ finished' = finished /\ outcome = Running /\ ~begun
          /\ state = StateOver(query, AllColumns)
      BY <2>1 DEF begin, ExecInv, BegunOrNot
    <3>2. outcome' \in {Running, Refused}
      BY <2>1, <3>1 DEF begin
    <3>3. AbstractState(state)' = AbstractState(state)
      BY <2>1, <3>1, BeginsAt DEF begin, AbstractState
    <3>4. AbstractQuery(query)' = AbstractQuery(query)
      BY <3>1
    <3> QED BY <3>1, <3>2, <3>3, <3>4 DEF Sequential!vars
  <2>2. CASE Scan
    <3>1. /\ outcome = Running /\ begun /\ ~finished /\ ~state.complete /\ ~Throws
          /\ read' = read + 1 /\ finished' = ReachesEnd(query, read + 1) /\ state' = After
          /\ query' = query /\ outcome' = outcome
          /\ query \in Queries /\ read \in Nat /\ read + 1 \in Nat /\ Accepts(query)
      BY <2>2 DEF Scan, ExecInv, BegunOrNot
    <3>2. /\ ~ReadFails(AbstractQuery(query), read + 1)
          /\ ~ExecuteRaises(AbstractQuery(query), AbstractState(state), read + 1)
          /\ AbstractState(After) = ExecuteBatch(AbstractQuery(query), AbstractState(state), read + 1)
      BY <3>1, NextPage DEF Abstract
    <3>3. ~Sequential!Throws
      BY <3>2, SameOperators DEF Sequential!Throws
    <3>4. AbstractState(state)'
            = Sequential!ExecuteBatch(AbstractQuery(query), AbstractState(state), read + 1)
      BY <3>1, <3>2, SameOperators DEF AbstractState
    <3>5. finished' = Sequential!ReachesEnd(AbstractQuery(query), read + 1)
      <4>1. ReachesEnd(query, read + 1) <=> Sequential!ReachesEnd(AbstractQuery(query), read + 1)
        BY <3>1, AbstractPages, SameOperators
      <4> QED BY <3>1, <4>1 DEF ReachesEnd, Sequential!ReachesEnd
    <3>6. ~AbstractState(state).complete
      BY <3>1 DEF AbstractState
    <3>7. (IF outcome = Refused THEN Running ELSE outcome) = Sequential!Running
      BY <3>1, SameOperators
    <3>8. /\ (IF outcome = Refused THEN Running ELSE outcome)'
               = (IF outcome = Refused THEN Running ELSE outcome)
          /\ AbstractQuery(query)' = AbstractQuery(query)
      BY <3>1
    <3>9. Sequential!Scan
      BY <3>1, <3>3, <3>4, <3>5, <3>6, <3>7, <3>8 DEF Sequential!Scan
    <3> QED BY <3>9 DEF Sequential!Next
  <2>3. CASE ScanThrows
    <3>1. /\ outcome = Running /\ begun /\ ~finished /\ ~state.complete /\ Throws
          /\ outcome' = Error /\ query' = query /\ read' = read /\ finished' = finished
          /\ state' = state
      BY <2>3 DEF ScanThrows
    <3>2. Sequential!Throws
      <4>1. \/ ReadFails(AbstractQuery(query), read + 1)
            \/ ExecuteRaises(AbstractQuery(query), AbstractState(state), read + 1)
        BY <3>1, NextPage DEF Abstract
      <4> QED BY <4>1, SameOperators DEF Sequential!Throws
    <3>3. ~AbstractState(state).complete
      BY <3>1 DEF AbstractState
    <3>4. /\ (IF outcome = Refused THEN Running ELSE outcome) = Sequential!Running
          /\ (IF outcome = Refused THEN Running ELSE outcome)' = Sequential!Error
      BY <3>1, SameOperators, Outcomes
    <3>5. AbstractQuery(query)' = AbstractQuery(query) /\ AbstractState(state)' = AbstractState(state)
      BY <3>1
    <3>6. Sequential!ScanThrows
      BY <3>1, <3>2, <3>3, <3>4, <3>5 DEF Sequential!ScanThrows
    <3> QED BY <3>6 DEF Sequential!Next
  <2>4. CASE Return
    <3>1. /\ outcome = Running /\ (finished \/ state.complete)
          /\ outcome' = Rows(state.rowIds) /\ query' = query /\ read' = read
          /\ finished' = finished /\ state' = state
      BY <2>4 DEF Return
    <3>2. AbstractState(state).complete = state.complete /\ AbstractState(state).rows = state.rowIds
      BY DEF AbstractState
    <3>3. /\ (IF outcome = Refused THEN Running ELSE outcome) = Sequential!Running
          /\ (IF outcome = Refused THEN Running ELSE outcome)' = Sequential!Rows(AbstractState(state).rows)
      BY <3>1, <3>2, SameOperators, Outcomes
    <3>4. AbstractQuery(query)' = AbstractQuery(query) /\ AbstractState(state)' = AbstractState(state)
      BY <3>1
    <3>5. Sequential!Return
      BY <3>1, <3>2, <3>3, <3>4 DEF Sequential!Return
    <3> QED BY <3>5 DEF Sequential!Next
  <2>5. CASE UNCHANGED vars
    BY <2>5 DEF vars, Sequential!vars
  <2> QED BY <2>1, <2>2, <2>3, <2>4, <2>5 DEF Next
<1> QED BY <1>1, <1>2, <1>3, <1>4, PTL DEF Spec, SequentialSpec, Sequential!Spec

-----------------------------------------------------------------------------
(* SequentialSelect itself, over any queries with their tables: what the     *)
(* executor implements answers them.                                         *)

CONSTANT Selects
VARIABLES scanned, pages, atEnd, made, returned

Single == INSTANCE SequentialSelect WITH
            Queries <- Selects, q <- scanned, read <- pages, finished <- atEnd,
            state <- made, outcome <- returned

LEMMA SingleOperators ==
  ASSUME NEW q, NEW s, NEW p
  PROVE  /\ Single!BeginState(q) = BeginState(q)
         /\ Single!ReadFails(q, p) <=> ReadFails(q, p)
         /\ Single!ExecuteBatch(q, s, p) = ExecuteBatch(q, s, p)
         /\ Single!ExecuteRaises(q, s, p) <=> ExecuteRaises(q, s, p)
         /\ Single!ReachesEnd(q, p) <=> ReachesEnd(q, p)
         /\ Single!StateAfter(q, p) = StateAfter(q, p)
         /\ Single!SequentialOutcome(q) = SequentialOutcome(q)
         /\ Single!Running = Running /\ Single!Error = Error
         /\ \A rows : Single!Rows(rows) = Rows(rows)
<1>1. \A i : Single!FirstOf(q, i) = FirstOf(q, i) /\ Single!LastOf(q, i) = LastOf(q, i)
  BY DEF Single!FirstOf, Single!LastOf, FirstOf, LastOf, Single!Smaller, Smaller
<1>2. ASSUME NEW from, NEW to
      PROVE  Single!Matching(q, from, to) = Matching(q, from, to)
  BY DEF Single!Matching, Matching
<1>3. ASSUME NEW m PROVE Single!Collect(q, s, m) = Collect(q, s, m)
  BY DEF Single!Collect, Collect, Single!ToSkip, ToSkip, Single!Room, Room,
         Single!Smaller, Smaller, Single!SkippedAfter, SkippedAfter
<1>4. Single!ExecuteBatch(q, s, p) = ExecuteBatch(q, s, p)
  BY <1>1, <1>2, <1>3 DEF Single!ExecuteBatch, ExecuteBatch
<1>5. ASSUME NEW kind, NEW from, NEW to
      PROVE  Single!HasKind(q, kind, from, to) <=> HasKind(q, kind, from, to)
  BY DEF Single!HasKind, HasKind
<1>6. \A i : Single!ReadFails(q, i) <=> ReadFails(q, i)
  BY <1>1, <1>5 DEF Single!ReadFails, ReadFails
<1>7. Single!ExecuteRaises(q, s, p) <=> ExecuteRaises(q, s, p)
  BY <1>1, <1>4, <1>5 DEF Single!ExecuteRaises, ExecuteRaises
<1>8. Single!ReachesEnd(q, p) <=> ReachesEnd(q, p)
  BY DEF Single!ReachesEnd, ReachesEnd
<1>9. Single!BeginState(q) = BeginState(q)
  BY DEF Single!BeginState, BeginState
<1>10. /\ Single!Running = Running /\ Single!Error = Error
       /\ \A rows : Single!Rows(rows) = Rows(rows)
  BY DEF Single!Running, Running, Single!Error, Error, Single!Rows, Rows
<1>11. ASSUME NEW m PROVE Single!StateOf(q, m) = StateOf(q, m)
  BY DEF Single!StateOf, StateOf, Single!Smaller, Smaller
<1>12. Single!StateAfter(q, p) = StateAfter(q, p)
  BY <1>1, <1>2, <1>11 DEF Single!StateAfter, StateAfter
<1>13. Single!Answer(q) = Answer(q)
  BY <1>2, <1>11 DEF Single!Answer, Answer
<1>14. Single!LastNeeded(q) = LastNeeded(q)
  BY <1>13 DEF Single!LastNeeded, LastNeeded, Single!LimitReached, LimitReached
<1>15. Single!SequentialOutcome(q) = SequentialOutcome(q)
  BY <1>1, <1>5, <1>6, <1>10, <1>13, <1>14 DEF Single!SequentialOutcome, SequentialOutcome
<1> QED BY <1>4, <1>6, <1>7, <1>8, <1>9, <1>10, <1>12, <1>15

(* The actions and the properties, in the operators of SelectQuery.          *)
SingleVars == <<scanned, pages, atEnd, made, returned>>
SingleThrows == ReadFails(scanned, pages + 1) \/ ExecuteRaises(scanned, made, pages + 1)

LEMMA SingleInit ==
  Single!Init => /\ scanned \in Selects /\ pages = 0 /\ atEnd = FALSE
                 /\ made = BeginState(scanned) /\ returned = Running
BY SingleOperators DEF Single!Init

LEMMA SingleNext ==
  ASSUME [Single!Next]_(Single!vars)
  PROVE  \/ UNCHANGED SingleVars
         \/ /\ returned = Running /\ ~atEnd /\ ~made.complete /\ SingleThrows /\ returned' = Error
            /\ UNCHANGED <<scanned, pages, atEnd, made>>
         \/ /\ returned = Running /\ ~atEnd /\ ~made.complete /\ ~SingleThrows
            /\ pages' = pages + 1 /\ atEnd' = ReachesEnd(scanned, pages + 1)
            /\ made' = ExecuteBatch(scanned, made, pages + 1)
            /\ UNCHANGED <<scanned, returned>>
         \/ /\ returned = Running /\ (atEnd \/ made.complete) /\ returned' = Rows(made.rows)
            /\ UNCHANGED <<scanned, pages, atEnd, made>>
<1>1. Single!Throws <=> SingleThrows
  BY SingleOperators DEF Single!Throws, SingleThrows
<1>2. CASE UNCHANGED Single!vars
  BY <1>2 DEF Single!vars, SingleVars
<1>3. CASE Single!ScanThrows
  BY <1>1, <1>3, SingleOperators DEF Single!ScanThrows
<1>4. CASE Single!Scan
  <2>1. Single!ReachesEnd(scanned, pages + 1) = ReachesEnd(scanned, pages + 1)
    BY DEF Single!ReachesEnd, ReachesEnd
  <2> QED BY <1>1, <1>4, <2>1, SingleOperators DEF Single!Scan
<1>5. CASE Single!Return
  BY <1>5, SingleOperators DEF Single!Return
<1> QED BY <1>2, <1>3, <1>4, <1>5 DEF Single!Next

QueriesAreQueries == \A r \in Selects : IsQuery(r)

(* The pages read are those that the state accounts for; none of them had a  *)
(* malformed record, and no row that is needed raised.                       *)
ScannedSoFar ==
  /\ scanned \in Selects /\ pages \in Nat
  /\ atEnd <=> ReachesEnd(scanned, pages)
  /\ made = StateAfter(scanned, pages)
  /\ \A p \in 1 .. pages : ~ReadFails(scanned, p)
  /\ \A i \in 1 .. LastOf(scanned, pages) :
       scanned.rows[i] = "raise" => ~(i <= LastNeeded(scanned))
ReturnsTheAnswer == returned # Running => returned = SequentialOutcome(scanned)
SingleInv == ScannedSoFar /\ ReturnsTheAnswer

(* Before the first page is read.                                            *)
LEMMA SingleBegins == ASSUME QueriesAreQueries, Single!Init PROVE SingleInv
<1>1. /\ scanned \in Selects /\ IsQuery(scanned) /\ pages = 0 /\ atEnd = FALSE
      /\ made = BeginState(scanned) /\ returned = Running
  BY SingleInit DEF QueriesAreQueries
<1>2. made = StateAfter(scanned, 0)
  BY <1>1, BeginIsFirst
<1>3. LastOf(scanned, 0) = 0 /\ ~ReachesEnd(scanned, 0)
  <2>1. PICK c \in Nat : c = 0
    OBVIOUS
  <2> QED BY <1>1, <2>1, PageBounds
<1> QED BY <1>1, <1>2, <1>3 DEF SingleInv, ScannedSoFar, ReturnsTheAnswer

(* A page that is read and executed without an exception.                    *)
LEMMA SingleScans ==
  ASSUME QueriesAreQueries, SingleInv,
         returned = Running, ~atEnd, ~made.complete, ~SingleThrows,
         pages' = pages + 1, atEnd' = ReachesEnd(scanned, pages + 1),
         made' = ExecuteBatch(scanned, made, pages + 1), UNCHANGED <<scanned, returned>>
  PROVE  SingleInv'
<1>1. PICK n \in Nat : n = pages + 1 /\ pages \in Nat
  BY DEF SingleInv, ScannedSoFar
<1>2. /\ IsQuery(scanned) /\ scanned \in Selects /\ scanned' = scanned /\ pages' = n
      /\ returned' = returned
  BY <1>1 DEF SingleInv, ScannedSoFar, QueriesAreQueries
<1>3. made = StateAfter(scanned, pages) /\ ~made.complete /\ ~ReachesEnd(scanned, pages)
  BY DEF SingleInv, ScannedSoFar
<1>4. /\ ~ReadFails(scanned, n) /\ ~ExecuteRaises(scanned, made, n)
      /\ made' = ExecuteBatch(scanned, made, n)
  BY <1>1 DEF SingleThrows
<1>5. made' = StateAfter(scanned, n)
  BY <1>1, <1>2, <1>3, <1>4, PageCollects DEF ExecuteBatch
<1>6. atEnd' <=> ReachesEnd(scanned, n)
  BY <1>1
<1>7. \A p \in 1 .. n : ~ReadFails(scanned, p)
  <2>1. \A p \in 1 .. pages : ~ReadFails(scanned, p)
    BY DEF SingleInv, ScannedSoFar
  <2>2. \A p \in 1 .. n : p \in 1 .. pages \/ p = n
    BY <1>1
  <2> QED BY <1>4, <2>1, <2>2
<1>8. \A i \in 1 .. LastOf(scanned, n) : scanned.rows[i] = "raise" => ~(i <= LastNeeded(scanned))
  <2>1. \A i \in 1 .. LastOf(scanned, pages) :
          scanned.rows[i] = "raise" => ~(i <= LastNeeded(scanned))
    BY DEF SingleInv, ScannedSoFar
  <2> QED BY <1>1, <1>2, <1>3, <1>4, <2>1, ExecutedRows
<1>9. ScannedSoFar'
  BY <1>2, <1>5, <1>6, <1>7, <1>8 DEF ScannedSoFar
<1>10. ReturnsTheAnswer'
  BY <1>2 DEF ReturnsTheAnswer
<1> QED BY <1>9, <1>10 DEF SingleInv

(* Every step; one that throws or returns ends the select with its outcome.  *)
LEMMA SingleSteps ==
  ASSUME QueriesAreQueries, SingleInv, [Single!Next]_(Single!vars) PROVE SingleInv'
<1>1. IsQuery(scanned) /\ pages \in Nat /\ made = StateAfter(scanned, pages)
  BY DEF SingleInv, ScannedSoFar, QueriesAreQueries
<1>2. CASE UNCHANGED SingleVars
  BY <1>2 DEF SingleVars, SingleInv, ScannedSoFar, ReturnsTheAnswer
<1>3. CASE /\ returned = Running /\ ~atEnd /\ ~made.complete /\ SingleThrows /\ returned' = Error
           /\ UNCHANGED <<scanned, pages, atEnd, made>>
  <2>1. SequentialOutcome(scanned) = Error
    BY <1>1, <1>3, SequentialThrows DEF SingleThrows, SingleInv, ScannedSoFar
  <2>2. ReturnsTheAnswer'
    BY <1>3, <2>1 DEF ReturnsTheAnswer
  <2>3. ScannedSoFar'
    BY <1>3 DEF SingleInv, ScannedSoFar
  <2> QED BY <2>2, <2>3 DEF SingleInv
<1>4. CASE /\ returned = Running /\ ~atEnd /\ ~made.complete /\ ~SingleThrows
           /\ pages' = pages + 1 /\ atEnd' = ReachesEnd(scanned, pages + 1)
           /\ made' = ExecuteBatch(scanned, made, pages + 1)
           /\ UNCHANGED <<scanned, returned>>
  BY <1>4, SingleScans
<1>5. CASE /\ returned = Running /\ (atEnd \/ made.complete) /\ returned' = Rows(made.rows)
           /\ UNCHANGED <<scanned, pages, atEnd, made>>
  <2>1. SequentialOutcome(scanned) = Rows(made.rows)
    <3>1. CASE scanned.limit = 0
      BY <1>1, <3>1, ZeroLimit
    <3>2. CASE scanned.limit # 0
      <4>1. StateAfter(scanned, pages).complete \/ LastOf(scanned, pages) = Len(scanned.rows)
        BY <1>1, <1>5, PageBounds DEF SingleInv, ScannedSoFar
      <4>2. PICK l \in Nat : l = LastOf(scanned, pages)
        <5>1. LastOf(scanned, pages) \in 0 .. Len(scanned.rows)
          BY <1>1, PageBounds
        <5> QED BY <5>1
      <4>3. LastNeeded(scanned) \in 0 .. l
        BY <1>1, <3>2, <4>1, <4>2, Answered
      <4>4. ~HasKind(scanned, "raise", 1, LastNeeded(scanned))
        BY <4>2, <4>3 DEF HasKind, SingleInv, ScannedSoFar
      <4>5. \A p \in 1 .. pages : ~ReadFails(scanned, p)
        BY DEF SingleInv, ScannedSoFar
      <4> QED BY <1>1, <3>2, <4>1, <4>4, <4>5, SequentialAnswers
    <3> QED BY <3>1, <3>2
  <2>2. ReturnsTheAnswer'
    BY <1>5, <2>1 DEF ReturnsTheAnswer
  <2>3. ScannedSoFar'
    BY <1>5 DEF SingleInv, ScannedSoFar
  <2> QED BY <2>2, <2>3 DEF SingleInv
<1> QED BY <1>2, <1>3, <1>4, <1>5, SingleNext

(* Reading and executing page after page, and stopping at the limit, answers *)
(* what the query means over the whole table; select throws exactly when a   *)
(* row that it has to read or evaluate makes it.                             *)
THEOREM SequentialAnswer ==
  ASSUME QueriesAreQueries PROVE Single!Spec => []Single!AnswersTheQuery
<1>1. Single!Init => SingleInv
  BY SingleBegins
<1>2. SingleInv /\ [Single!Next]_(Single!vars) => SingleInv'
  BY SingleSteps
<1>3. SingleInv => Single!AnswersTheQuery
  BY SingleOperators DEF SingleInv, ReturnsTheAnswer, Single!AnswersTheQuery
<1> QED BY <1>1, <1>2, <1>3, PTL DEF Single!Spec

(* At every page boundary the state is what the rows read so far make of the *)
(* query.                                                                    *)
THEOREM SequentialPrefix ==
  ASSUME QueriesAreQueries PROVE Single!Spec => []Single!PrefixAnswered
<1>1. Single!Init => SingleInv
  BY SingleBegins
<1>2. SingleInv /\ [Single!Next]_(Single!vars) => SingleInv'
  BY SingleSteps
<1>3. SingleInv => Single!PrefixAnswered
  BY SingleOperators DEF SingleInv, ScannedSoFar, Single!PrefixAnswered
<1> QED BY <1>1, <1>2, <1>3, PTL DEF Single!Spec
=============================================================================
