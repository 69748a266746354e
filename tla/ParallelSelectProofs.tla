------------------------- MODULE ParallelSelectProofs -------------------------
(***************************************************************************)
(* Proofs, for every number of workers and every query, of the safety      *)
(* properties of ParallelSelect: every page has one worker, the read-ahead *)
(* is bounded, the pool is quiet when select returns, and what it returns  *)
(* is the answer.                                                          *)
(***************************************************************************)
EXTENDS ParallelSelect, SelectQueryProofs

(* Pages are numbered from 1, and there are finitely many. *)
LEMMA PagesOfQuery ==
  ASSUME q \in Queries
  PROVE  /\ q.batchSize \in Nat \ {0} /\ q.maxInFlight \in Nat \ {0}
         /\ Len(q.rows) \in Nat
         /\ Pages \subseteq Nat \ {0} /\ IsFiniteSet(Pages)
<1>1. /\ q.batchSize \in Nat \ {0} /\ q.maxInFlight \in Nat \ {0}
      /\ q.rows \in Seq(Kinds)
  BY PoolAssumption DEF IsQuery
<1>2. Len(q.rows) \in Nat
  BY <1>1, LenProperties
<1>3. IsFiniteSet(1 .. Len(q.rows))
  BY <1>2, FS_Interval
<1> QED BY <1>1, <1>2, <1>3, FS_Subset DEF Pages

(* The page after the last one is empty, and reading it meets the end. *)
LEMMA NextPage ==
  ASSUME q \in Queries, NEW n \in Nat
  PROVE  /\ IsEmptyPage(q, n + 1) => ReachesEnd(q, n + 1)
         /\ ~IsEmptyPage(q, n + 1) => n + 1 \in Pages
<1> DEFINE b == q.batchSize
           length == Len(q.rows)
<1>1. b \in Nat \ {0} /\ length \in Nat
  BY PagesOfQuery
<1> HIDE DEF b, length
<1>2. n * b \in Nat /\ (n + 1) * b = n * b + b /\ n * b >= n
  BY <1>1
<1>3. FirstOf(q, n + 1) = n * b + 1
  BY <1>1, <1>2 DEF FirstOf, b
<1>4. IsEmptyPage(q, n + 1) => ReachesEnd(q, n + 1)
  BY <1>1, <1>2, <1>3 DEF IsEmptyPage, ReachesEnd, b, length
<1>5. ASSUME ~IsEmptyPage(q, n + 1) PROVE n + 1 \in 1 .. Len(q.rows)
  <2>1. n * b + 1 <= length
    BY <1>1, <1>2, <1>3, <1>5 DEF IsEmptyPage, length
  <2>2. n + 1 <= length
    BY <1>1, <1>2, <2>1
  <2> QED BY <1>1, <2>2 DEF length
<1> QED BY <1>4, <1>5 DEF Pages

(* A table that does not end in its first page has one. *)
LEMMA FirstPage == ASSUME q \in Queries, ~ReachesEnd(q, 1)
                   PROVE  1 \in Pages
<1>1. q.batchSize \in Nat \ {0} /\ Len(q.rows) \in Nat
  BY PagesOfQuery
<1>2. 1 * q.batchSize = q.batchSize /\ 0 * q.batchSize = 0
  BY <1>1
<1>3. Len(q.rows) >= q.batchSize
  BY <1>1, <1>2 DEF ReachesEnd
<1>4. ~IsEmptyPage(q, 1)
  BY <1>1, <1>2, <1>3 DEF IsEmptyPage, FirstOf
<1> QED BY <1>1, <1>3, <1>4 DEF Pages

-----------------------------------------------------------------------------
(* The threads and the pages they hold. *)

(* Before the pool is built.                                                 *)
LEMMA InitInv == Init => PoolInv
<1> SUFFICES ASSUME Init PROVE PoolInv
  OBVIOUS
<1>1. /\ q \in Queries /\ read = 0 /\ ~finished /\ finished \in BOOLEAN
      /\ pending = <<>> /\ tasks = <<>> /\ ~stopping /\ stopping \in BOOLEAN
      /\ future = [p \in Pages |-> "none"] /\ worker = [w \in Workers |-> "unborn"]
      /\ job = [w \in Workers |-> 0] /\ pc = "begin"
  BY DEF Init
<1>2. q.maxInFlight \in Nat \ {0}
  BY <1>1, PagesOfQuery
<1>3. ThreadsTypeOK
  BY <1>1 DEF ThreadsTypeOK
<1>4. PoolOfSelect
  BY <1>1 DEF PoolOfSelect, NothingSubmitted
<1>5. PagesInOrder
  BY <1>1 DEF PagesInOrder
<1>6. RunnerOfPage
  <2>1. Len(tasks) = 0 /\ 1 .. 0 = {} /\ 0 \notin Pages
    BY <1>1, PagesOfQuery
  <2> QED BY <1>1, <2>1 DEF RunnerOfPage
<1>7. BoundedReadAhead
  <2>1. Unfinished = {}
    BY <1>1 DEF Unfinished
  <2> QED BY <1>1, <1>2, <2>1, FS_EmptySet DEF BoundedReadAhead
<1> QED BY <1>3, <1>4, <1>5, <1>6, <1>7 DEF PoolInv

(* The pages, and those not evaluated, as long as nobody touches a future.   *)
LEMMA SamePages ==
  ASSUME q' = q
  PROVE  Pages' = Pages /\ (future' = future => Unfinished' = Unfinished)
  BY DEF Pages, Unfinished

(* Steps of the calling thread that change neither pages nor pool. *)
LEMMA QuietInv ==
  ASSUME PoolInv, UNCHANGED <<q, cursor, pending, pool>>,
         \/ pc = "begin" /\ pc' = "done"
         \/ pc = "spawn" /\ pc' = "join"
         \/ pc = "loop" /\ pc' \in {"fill", "stop"}
         \/ pc = "fill" /\ pc' \in {"collect", "stop"}
         \/ pc = "collect" /\ pc' \in {"loop", "stop"}
         \/ /\ pc = "join" /\ pc' = "done"
            /\ \A w \in Workers : worker[w] \in {"unborn", "exited"}
  PROVE  PoolInv'
<1>1. /\ ThreadsTypeOK /\ PoolOfSelect /\ PagesInOrder
      /\ RunnerOfPage /\ BoundedReadAhead
  BY DEF PoolInv
<1>2. /\ q' = q /\ read' = read /\ finished' = finished /\ pending' = pending
      /\ tasks' = tasks /\ stopping' = stopping /\ future' = future
      /\ worker' = worker /\ job' = job
      /\ Pages' = Pages /\ Unfinished' = Unfinished
  BY SamePages DEF cursor, pool
<1>3. ThreadsTypeOK'
  BY <1>1, <1>2 DEF ThreadsTypeOK
<1>4. PoolOfSelect'
  BY <1>1, <1>2 DEF PoolOfSelect, NothingSubmitted
<1>5. PagesInOrder'
  BY <1>1, <1>2 DEF PagesInOrder
<1>6. RunnerOfPage'
  BY <1>1, <1>2 DEF RunnerOfPage
<1>7. BoundedReadAhead'
  BY <1>1, <1>2 DEF BoundedReadAhead
<1> QED BY <1>3, <1>4, <1>5, <1>6, <1>7 DEF PoolInv

(* Reading a page, the first or one more. *)
LEMMA ReadInv == PoolInv /\ (ReadFirst \/ Fill) => PoolInv'
<1> SUFFICES ASSUME PoolInv, ReadFirst \/ Fill PROVE PoolInv'
  OBVIOUS
<1>1. /\ ThreadsTypeOK /\ PoolOfSelect /\ PagesInOrder
      /\ RunnerOfPage /\ BoundedReadAhead
  BY DEF PoolInv
<1>2. CASE /\ UNCHANGED <<q, cursor, pending, pool>>
           /\ \/ pc = "begin" /\ pc' = "done"
              \/ pc = "fill" /\ pc' = "stop"
  BY <1>2, QuietInv
<1>3. CASE /\ pc = "begin" /\ pc' \in {"spawn", "done"}
           /\ read' = 1 /\ finished' = ReachesEnd(q, 1)
           /\ UNCHANGED <<q, pending, pool>>
           /\ pc' = "spawn" => ~finished'
  <2>1. /\ q' = q /\ pending' = pending
        /\ tasks' = tasks /\ stopping' = stopping /\ future' = future
        /\ worker' = worker /\ job' = job
        /\ Pages' = Pages /\ Unfinished' = Unfinished
    BY <1>3, SamePages DEF pool
  <2>2. NothingSubmitted /\ \A w \in Workers : worker[w] = "unborn"
    BY <1>1, <1>3 DEF PoolOfSelect
  <2>3. pc' = "spawn" => 1 \in Pages
    BY <1>1, <1>3, FirstPage DEF ThreadsTypeOK
  <2>4. ThreadsTypeOK'
    BY <1>1, <1>3, <2>1 DEF ThreadsTypeOK, ReachesEnd
  <2>5. PoolOfSelect'
    BY <1>1, <1>3, <2>1, <2>2 DEF PoolOfSelect, NothingSubmitted
  <2>6. PagesInOrder'
    BY <1>3, <2>1, <2>2, <2>3 DEF PagesInOrder, NothingSubmitted
  <2>7. RunnerOfPage'
    BY <1>1, <2>1 DEF RunnerOfPage
  <2>8. BoundedReadAhead'
    BY <1>1, <1>3, <2>1 DEF BoundedReadAhead
  <2> QED BY <2>4, <2>5, <2>6, <2>7, <2>8 DEF PoolInv
<1>4. CASE /\ pc = "fill" /\ ~finished /\ HasRoom
           /\ read' = read + 1 /\ finished' = ReachesEnd(q, read + 1)
           /\ pc' = IF IsEmptyPage(q, read + 1) THEN "collect" ELSE "submit"
           /\ UNCHANGED <<q, pending, pool>>
  <2>1. /\ q' = q /\ pending' = pending
        /\ tasks' = tasks /\ stopping' = stopping /\ future' = future
        /\ worker' = worker /\ job' = job
        /\ Pages' = Pages /\ Unfinished' = Unfinished
    BY <1>4, SamePages DEF pool
  <2>2. read \in Nat /\ read + 1 \in Nat /\ Pages \subseteq Nat
    BY <1>1, PagesOfQuery DEF ThreadsTypeOK
  <2>3. /\ pc' = "collect" => finished'
        /\ pc' = "submit" => read + 1 \in Pages
    BY <1>1, <1>4, <2>2, NextPage DEF ThreadsTypeOK
  <2>4. ThreadsTypeOK'
    BY <1>1, <1>4, <2>1, <2>2 DEF ThreadsTypeOK, ReachesEnd
  <2>5. PoolOfSelect'
    BY <1>1, <1>4, <2>1 DEF PoolOfSelect
  <2>6. PagesInOrder'
    <3>1. \A p \in Pages : future[p] # "none" => p <= read
      BY <1>1 DEF PagesInOrder
    <3>2. \A p \in Pages : future[p] # "none" => p <= read + 1 /\ p # read + 1
      BY <2>2, <3>1
    <3>3. pc' = "submit" => future[read + 1] = "none"
      BY <2>3, <3>2
    <3>4. pending # <<>> => pending[Len(pending)] = read
      BY <1>1, <1>4 DEF PagesInOrder
    <3>5. pc' \in {"collect", "submit"} /\ read' = read + 1
      BY <1>4
    <3>6. \A p \in Pages' : future'[p] # "none" => p <= read'
      BY <2>1, <3>2, <3>5
    <3>7. pc' = "submit" => read' \in Pages' /\ future'[read'] = "none"
      BY <2>1, <2>3, <3>3, <3>5
    <3>8. pending' # <<>> => pending'[Len(pending')] = read' - 1
      <4>1. read' - 1 = read
        BY <2>2, <3>5
      <4>2. pending' # <<>> => pending'[Len(pending')] = read
        BY <2>1, <3>4
      <4> QED BY <4>1, <4>2
    <3> QED BY <2>3, <3>5, <3>6, <3>7, <3>8 DEF PagesInOrder
  <2>7. RunnerOfPage'
    BY <1>1, <2>1 DEF RunnerOfPage
  <2>8. BoundedReadAhead'
    <3>1. Len(pending) + 1 <= q.maxInFlight
      <4>1. Len(pending) \in Nat /\ q.maxInFlight \in Nat
        BY <1>1, PagesOfQuery, LenProperties DEF ThreadsTypeOK
      <4> QED BY <1>4, <4>1 DEF HasRoom
    <3> QED BY <1>1, <1>4, <2>1, <3>1 DEF BoundedReadAhead
  <2> QED BY <2>4, <2>5, <2>6, <2>7, <2>8 DEF PoolInv
<1> QED BY <1>2, <1>3, <1>4 DEF ReadFirst, Fill

(* The pool gets one more thread; with the last one, the first page. *)
LEMMA SpawnInv == PoolInv /\ Spawn => PoolInv'
<1> SUFFICES ASSUME PoolInv, Spawn PROVE PoolInv'
  OBVIOUS
<1>1. /\ ThreadsTypeOK /\ PoolOfSelect /\ PagesInOrder
      /\ RunnerOfPage /\ BoundedReadAhead
  BY DEF PoolInv
<1>2. PICK w \in Workers : /\ worker[w] = "unborn"
                           /\ worker' = [worker EXCEPT ![w] = "check"]
  BY DEF Spawn
<1>3. /\ pc = "spawn" /\ q' = q /\ read' = read /\ finished' = finished
      /\ pending' = pending /\ tasks' = tasks /\ stopping' = stopping
      /\ future' = future /\ job' = job
      /\ Pages' = Pages /\ Unfinished' = Unfinished
  BY SamePages DEF Spawn, cursor
<1>4. /\ pc' \in {"spawn", "submit"}
      /\ pc' = "submit" => \A v \in Workers : worker'[v] # "unborn"
  BY DEF Spawn
<1>5. NothingSubmitted /\ ~stopping /\ read = 1 /\ read \in Pages
  BY <1>1, <1>3 DEF PoolOfSelect, PagesInOrder
<1>6. worker \in [Workers -> {"unborn", "check", "waiting", "running", "exited"}]
  BY <1>1 DEF ThreadsTypeOK
<1>7. ThreadsTypeOK'
  BY <1>1, <1>2, <1>3, <1>4, <1>6 DEF ThreadsTypeOK
<1>8. PoolOfSelect'
  <2>1. \A v \in Workers : /\ worker'[v] = "exited" => stopping /\ tasks = <<>>
                           /\ worker'[v] = "running" <=> job[v] # 0
    BY <1>1, <1>2, <1>6 DEF PoolOfSelect
  <2> QED BY <1>3, <1>4, <1>5, <2>1 DEF PoolOfSelect, NothingSubmitted
<1>9. PagesInOrder'
  BY <1>1, <1>3, <1>4, <1>5 DEF PagesInOrder, NothingSubmitted
<1>10. RunnerOfPage'
  BY <1>1, <1>3 DEF RunnerOfPage
<1>11. BoundedReadAhead'
  <2>1. q.maxInFlight \in Nat \ {0} /\ Len(pending) = 0
    BY <1>1, <1>5, PagesOfQuery DEF ThreadsTypeOK, NothingSubmitted
  <2> QED BY <1>1, <1>3, <1>4, <2>1 DEF BoundedReadAhead
<1> QED BY <1>7, <1>8, <1>9, <1>10, <1>11 DEF PoolInv

(* A sequence has at least as many entries as a set whose members are all    *)
(* among them.                                                               *)
LEMMA Covered ==
  ASSUME NEW S, NEW s \in Seq(S), NEW U, \A u \in U : \E i \in 1 .. Len(s) : s[i] = u
  PROVE  Cardinality(U) \in Nat /\ Cardinality(U) <= Len(s)
<1> DEFINE entries == {s[i] : i \in 1 .. Len(s)}
<1>1. Len(s) \in Nat /\ s \in [1 .. Len(s) -> S]
  BY LenProperties
<1>2. IsFiniteSet(1 .. Len(s)) /\ Cardinality(1 .. Len(s)) = Len(s)
  BY <1>1, FS_Interval
<1>3. s \in Surjection(1 .. Len(s), entries)
  BY <1>1 DEF Surjection
<1>4. IsFiniteSet(entries) /\ Cardinality(entries) <= Len(s)
  BY <1>2, <1>3, FS_Surjection
<1>5. U \subseteq entries
  OBVIOUS
<1>6. IsFiniteSet(U) /\ Cardinality(U) <= Cardinality(entries)
  BY <1>4, <1>5, FS_Subset
<1>7. Cardinality(U) \in Nat /\ Cardinality(entries) \in Nat
  BY <1>4, <1>6, FS_CardinalityType
<1> QED BY <1>1, <1>4, <1>6, <1>7

(* Submitting the page read last. *)
LEMMA SubmitInv == PoolInv /\ Submit => PoolInv'
<1> SUFFICES ASSUME PoolInv, Submit PROVE PoolInv'
  OBVIOUS
<1>1. /\ ThreadsTypeOK /\ PoolOfSelect /\ PagesInOrder
      /\ RunnerOfPage /\ BoundedReadAhead
  BY DEF PoolInv
<1>2. /\ pc = "submit" /\ pc' = "notify" /\ q' = q /\ read' = read /\ finished' = finished
      /\ tasks' = Append(tasks, read) /\ pending' = Append(pending, read)
      /\ future' = [future EXCEPT ![read] = "queued"]
      /\ stopping' = stopping /\ worker' = worker /\ job' = job
      /\ Pages' = Pages
  BY SamePages DEF Submit, cursor
<1>3. /\ q \in Queries /\ read \in Nat /\ pending \in Seq(Pages) /\ tasks \in Seq(Pages)
      /\ future \in [Pages -> {"none", "queued", "ready"}]
      /\ job \in [Workers -> Pages \cup {0}]
  BY <1>1 DEF ThreadsTypeOK
<1>4. read \in Pages /\ future[read] = "none" /\ Pages \subseteq Nat \ {0}
  BY <1>1, <1>2, <1>3, PagesOfQuery DEF PagesInOrder
<1>5. ~stopping
  BY <1>1, <1>2 DEF PoolOfSelect
<1>6. /\ tasks' \in Seq(Pages) /\ Len(tasks') = Len(tasks) + 1 /\ Len(tasks) \in Nat
      /\ \A i \in 1 .. Len(tasks) : tasks'[i] = tasks[i]
      /\ tasks'[Len(tasks) + 1] = read
  BY <1>2, <1>3, <1>4, AppendProperties, LenProperties
<1>7. /\ pending' \in Seq(Pages) /\ Len(pending') = Len(pending) + 1 /\ Len(pending) \in Nat
      /\ \A i \in 1 .. Len(pending) : pending'[i] = pending[i]
      /\ pending'[Len(pending) + 1] = read /\ pending' # <<>>
  BY <1>2, <1>3, <1>4, AppendProperties, LenProperties, EmptySeq
<1>8. ThreadsTypeOK'
  BY <1>1, <1>2, <1>3, <1>4, <1>6, <1>7 DEF ThreadsTypeOK
<1>9. PoolOfSelect'
  <2>1. \A w \in Workers : /\ worker[w] # "exited" /\ worker[w] # "unborn"
                           /\ worker[w] = "running" <=> job[w] # 0
    BY <1>1, <1>2, <1>5 DEF PoolOfSelect
  <2> QED BY <1>2, <1>5, <2>1 DEF PoolOfSelect
<1>10. PagesInOrder'
  <2>1. \A p \in Pages : future'[p] # "none" => p <= read
    BY <1>1, <1>2, <1>3, <1>4 DEF PagesInOrder
  <2> QED BY <1>2, <1>7, <2>1 DEF PagesInOrder
<1>11. RunnerOfPage'
  <2>1. /\ \A i \in 1 .. Len(tasks) : tasks[i] # read
        /\ \A w \in Workers : job[w] # read
    BY <1>1, <1>4 DEF RunnerOfPage
  <2>2. 1 .. Len(tasks') = (1 .. Len(tasks)) \cup {Len(tasks) + 1}
    BY <1>6
  <2>3. \A i, j \in 1 .. Len(tasks') : tasks'[i] = tasks'[j] => i = j
    BY <1>1, <1>6, <2>1, <2>2 DEF RunnerOfPage
  <2>4. \A i \in 1 .. Len(tasks'), w \in Workers : tasks'[i] # job[w]
    BY <1>1, <1>6, <2>1, <2>2 DEF RunnerOfPage
  <2>5. ASSUME NEW p \in Pages
        PROVE  future'[p] = "queued" <=> \/ \E i \in 1 .. Len(tasks') : tasks'[i] = p
                                         \/ \E w \in Workers : job[w] = p
    <3>1. CASE p = read
      BY <1>2, <1>3, <1>6, <2>2, <3>1
    <3>2. CASE p # read
      BY <1>1, <1>2, <1>3, <1>6, <2>2, <3>2 DEF RunnerOfPage
    <3> QED BY <3>1, <3>2
  <2> QED BY <1>1, <1>2, <2>3, <2>4, <2>5, SMTT(40) DEF RunnerOfPage
<1>12. BoundedReadAhead'
  <2>1. q.maxInFlight \in Nat
    BY <1>3, PagesOfQuery
  <2>2. Len(pending') <= q.maxInFlight
    BY <1>1, <1>2, <1>7, <2>1 DEF BoundedReadAhead
  <2>3. \A p \in Unfinished' : \E i \in 1 .. Len(pending') : pending'[i] = p
    <3> SUFFICES ASSUME NEW p \in Unfinished'
                 PROVE  \E i \in 1 .. Len(pending') : pending'[i] = p
      OBVIOUS
    <3>1. CASE p = read
      BY <1>7, <3>1
    <3>2. CASE p # read
      <4>1. p \in Unfinished
        BY <1>2, <1>3, <3>2 DEF Unfinished
      <4>2. PICK i \in 1 .. Len(pending) : pending[i] = p
        BY <1>1, <1>5, <4>1 DEF BoundedReadAhead
      <4> QED BY <1>7, <4>2
    <3> QED BY <3>1, <3>2
  <2>4. Cardinality(Unfinished') <= q.maxInFlight
    <3>1. /\ Cardinality(Unfinished') \in Nat
          /\ Cardinality(Unfinished') <= Len(pending')
      BY <1>7, <2>3, Covered
    <3> QED BY <1>7, <2>1, <2>2, <3>1
  <2>5. \A i \in 1 .. Len(pending') - 1 : pending'[i + 1] = pending'[i] + 1
    <3> SUFFICES ASSUME NEW i \in 1 .. Len(pending)
                 PROVE  pending'[i + 1] = pending'[i] + 1
      BY <1>7
    <3>1. CASE i = Len(pending)
      <4>1. pending # <<>>
        BY <1>3, <3>1, EmptySeq
      <4>2. pending[Len(pending)] = read - 1
        BY <1>1, <1>2, <4>1 DEF PagesInOrder
      <4> QED BY <1>3, <1>7, <3>1, <4>2
    <3>2. CASE i < Len(pending)
      <4>1. i \in 1 .. Len(pending) - 1 /\ i + 1 \in 1 .. Len(pending)
        BY <1>7, <3>2
      <4>2. pending[i + 1] = pending[i] + 1
        BY <1>1, <4>1 DEF BoundedReadAhead
      <4> QED BY <1>7, <4>1, <4>2
    <3> QED BY <1>7, <3>1, <3>2
  <2> QED BY <1>2, <1>7, <2>1, <2>2, <2>3, <2>4, <2>5 DEF BoundedReadAhead
<1> QED BY <1>8, <1>9, <1>10, <1>11, <1>12 DEF PoolInv

(* Workers that are woken, wait or end, and the threads' notifications. *)
LEMMA WorkersInv ==
  ASSUME PoolInv, UNCHANGED <<q, cursor, pending, tasks, stopping, future, job>>,
         \/ pc' = pc
         \/ pc = "notify" /\ pc' = "fill"
         \/ pc = "notifyAll" /\ pc' = "join",
         worker' \in [Workers -> {"unborn", "check", "waiting", "running", "exited"}],
         \A w \in Workers :
           \/ worker'[w] = worker[w]
           \/ /\ worker[w] \in {"check", "waiting"}
              /\ worker'[w] \in {"check", "waiting", "exited"}
              /\ worker'[w] = "exited" => stopping /\ tasks = <<>>
  PROVE  PoolInv'
<1>1. /\ ThreadsTypeOK /\ PoolOfSelect /\ PagesInOrder
      /\ RunnerOfPage /\ BoundedReadAhead
  BY DEF PoolInv
<1>2. /\ q' = q /\ read' = read /\ finished' = finished /\ pending' = pending
      /\ tasks' = tasks /\ stopping' = stopping /\ future' = future
      /\ job' = job
      /\ Pages' = Pages /\ Unfinished' = Unfinished
  BY SamePages DEF cursor
<1>3. ThreadsTypeOK'
  BY <1>1, <1>2 DEF ThreadsTypeOK
<1>4. PoolOfSelect'
  <2>1. \A w \in Workers : /\ worker'[w] = "exited" => stopping /\ tasks = <<>>
                           /\ worker'[w] = "running" <=> job[w] # 0
                           /\ worker[w] = "unborn" <=> worker'[w] = "unborn"
    BY <1>1 DEF PoolOfSelect
  <2>2. pc' = "done" => \A w \in Workers : worker'[w] \in {"unborn", "exited"}
    BY <1>1 DEF PoolOfSelect
  <2> QED BY <1>1, <1>2, <2>1, <2>2 DEF PoolOfSelect, NothingSubmitted
<1>5. PagesInOrder'
  BY <1>1, <1>2 DEF PagesInOrder
<1>6. RunnerOfPage'
  BY <1>1, <1>2 DEF RunnerOfPage
<1>7. BoundedReadAhead'
  BY <1>1, <1>2 DEF BoundedReadAhead
<1> QED BY <1>3, <1>4, <1>5, <1>6, <1>7 DEF PoolInv

(* Collecting the oldest page, or failing to. *)
LEMMA CollectInv == PoolInv /\ CollectFront => PoolInv'
<1> SUFFICES ASSUME PoolInv, CollectFront PROVE PoolInv'
  OBVIOUS
<1>1. /\ ThreadsTypeOK /\ PoolOfSelect /\ PagesInOrder
      /\ RunnerOfPage /\ BoundedReadAhead
  BY DEF PoolInv
<1>2. CASE pc' = "stop" /\ pending' = pending
  BY <1>2, QuietInv DEF CollectFront
<1>3. CASE pc' = "loop" /\ pending' = Tail(pending)
  <2>1. /\ pc = "collect" /\ pending # <<>> /\ future[Head(pending)] = "ready"
        /\ q' = q /\ read' = read /\ finished' = finished
        /\ tasks' = tasks /\ stopping' = stopping /\ future' = future
        /\ worker' = worker /\ job' = job
        /\ Pages' = Pages /\ Unfinished' = Unfinished
    BY SamePages DEF CollectFront, cursor, pool
  <2>2. q \in Queries /\ pending \in Seq(Pages) /\ q.maxInFlight \in Nat
    BY <1>1, PagesOfQuery DEF ThreadsTypeOK
  <2>3. /\ pending' \in Seq(Pages) /\ Len(pending) \in Nat \ {0}
        /\ Len(pending') = Len(pending) - 1
        /\ \A i \in 1 .. Len(pending') : pending'[i] = pending[i + 1]
        /\ Head(pending) = pending[1]
    BY <1>3, <2>1, <2>2, HeadTailProperties, EmptySeq
  <2>4. ThreadsTypeOK'
    BY <1>1, <1>3, <2>1, <2>3 DEF ThreadsTypeOK
  <2>5. PoolOfSelect'
    BY <1>1, <1>3, <2>1 DEF PoolOfSelect
  <2>6. PagesInOrder'
    <3>1. ASSUME pending' # <<>>, ~finished PROVE pending'[Len(pending')] = read
      <4>1. Len(pending') \in Nat \ {0}
        BY <2>3, <3>1, EmptySeq
      <4>2. pending'[Len(pending')] = pending[Len(pending)]
        BY <2>3, <4>1
      <4> QED BY <1>1, <2>1, <3>1, <4>2 DEF PagesInOrder
    <3> QED BY <1>1, <1>3, <2>1, <3>1 DEF PagesInOrder
  <2>7. RunnerOfPage'
    BY <1>1, <2>1 DEF RunnerOfPage
  <2>8. BoundedReadAhead'
    <3>1. Len(pending') <= q.maxInFlight
      BY <1>1, <2>1, <2>2, <2>3 DEF BoundedReadAhead
    <3>2. \A i \in 1 .. Len(pending') - 1 : pending'[i + 1] = pending'[i] + 1
      <4> SUFFICES ASSUME NEW i \in 1 .. Len(pending') - 1
                   PROVE  pending'[i + 1] = pending'[i] + 1
        OBVIOUS
      <4>1. /\ i + 1 \in 1 .. Len(pending) - 1
            /\ pending'[i] = pending[i + 1] /\ pending'[i + 1] = pending[i + 1 + 1]
        BY <2>3
      <4> QED BY <1>1, <4>1 DEF BoundedReadAhead
    <3>3. ASSUME ~stopping, NEW p \in Unfinished
          PROVE  \E i \in 1 .. Len(pending') : pending'[i] = p
      <4>1. PICK i \in 1 .. Len(pending) : pending[i] = p
        BY <1>1, <3>3 DEF BoundedReadAhead
      <4>2. i # 1
        BY <2>1, <2>3, <4>1 DEF Unfinished
      <4>3. i - 1 \in 1 .. Len(pending') /\ i - 1 + 1 = i
        BY <2>3, <4>2
      <4> QED BY <2>3, <4>1, <4>3
    <3> QED BY <1>1, <1>3, <2>1, <2>2, <2>3, <3>1, <3>2, <3>3 DEF BoundedReadAhead
  <2> QED BY <2>4, <2>5, <2>6, <2>7, <2>8 DEF PoolInv
<1> QED BY <1>2, <1>3 DEF CollectFront

(* Leaving select: the futures go, the pool is told to stop. *)
LEMMA StopInv == PoolInv /\ Stop => PoolInv'
<1> SUFFICES ASSUME PoolInv, Stop PROVE PoolInv'
  OBVIOUS
<1>1. /\ ThreadsTypeOK /\ PoolOfSelect /\ PagesInOrder
      /\ RunnerOfPage /\ BoundedReadAhead
  BY DEF PoolInv
<1>2. /\ pc = "stop" /\ pc' = "notifyAll" /\ q' = q /\ read' = read
      /\ finished' = finished /\ pending' = <<>> /\ tasks' = tasks /\ stopping' = TRUE
      /\ future' = future /\ worker' = worker /\ job' = job
      /\ Pages' = Pages /\ Unfinished' = Unfinished
  BY SamePages DEF Stop, cursor
<1>3. ThreadsTypeOK'
  BY <1>1, <1>2 DEF ThreadsTypeOK
<1>4. PoolOfSelect'
  BY <1>1, <1>2 DEF PoolOfSelect
<1>5. PagesInOrder'
  BY <1>1, <1>2 DEF PagesInOrder
<1>6. RunnerOfPage'
  BY <1>1, <1>2 DEF RunnerOfPage
<1>7. BoundedReadAhead'
  <2>1. q.maxInFlight \in Nat /\ Len(pending') = 0
    BY <1>1, <1>2, PagesOfQuery DEF ThreadsTypeOK
  <2> QED BY <1>1, <1>2, <2>1 DEF BoundedReadAhead
<1> QED BY <1>3, <1>4, <1>5, <1>6, <1>7 DEF PoolInv

(* A worker takes the oldest task. *)
LEMMA TakeInv == ASSUME PoolInv, NEW w \in Workers, Take(w) PROVE PoolInv'
<1>1. /\ ThreadsTypeOK /\ PoolOfSelect /\ PagesInOrder
      /\ RunnerOfPage /\ BoundedReadAhead
  BY DEF PoolInv
<1>2. /\ worker[w] = "check" /\ tasks # <<>> /\ tasks' = Tail(tasks)
      /\ job' = [job EXCEPT ![w] = Head(tasks)]
      /\ worker' = [worker EXCEPT ![w] = "running"]
      /\ pc' = pc /\ q' = q /\ read' = read /\ finished' = finished
      /\ pending' = pending /\ stopping' = stopping /\ future' = future
      /\ Pages' = Pages /\ Unfinished' = Unfinished
  BY SamePages DEF Take, Popped, mainState, cursor
<1>3. /\ q \in Queries /\ tasks \in Seq(Pages) /\ job \in [Workers -> Pages \cup {0}]
      /\ worker \in [Workers -> {"unborn", "check", "waiting", "running", "exited"}]
      /\ 0 \notin Pages
  BY <1>1, PagesOfQuery DEF ThreadsTypeOK
<1>4. /\ tasks' \in Seq(Pages) /\ Len(tasks) \in Nat \ {0} /\ Len(tasks') = Len(tasks) - 1
      /\ \A i \in 1 .. Len(tasks') : tasks'[i] = tasks[i + 1]
      /\ Head(tasks) = tasks[1] /\ tasks[1] \in Pages
  BY <1>2, <1>3, HeadTailProperties, EmptySeq
<1>5. job[w] = 0
  BY <1>1, <1>2, <1>3 DEF PoolOfSelect
<1>6. job'[w] = tasks[1] /\ \A v \in Workers : v # w => job'[v] = job[v]
  BY <1>2, <1>3, <1>4
<1>7. ThreadsTypeOK'
  BY <1>1, <1>2, <1>3, <1>4 DEF ThreadsTypeOK
<1>8. PoolOfSelect'
  <2>1. \A v \in Workers : /\ worker[v] # "exited"
                           /\ worker'[v] # "exited"
                           /\ worker'[v] = "running" <=> job'[v] # 0
                           /\ worker'[v] = "unborn" <=> worker[v] = "unborn"
    BY <1>1, <1>2, <1>3, <1>4, <1>6 DEF PoolOfSelect
  <2>2. pc \notin {"begin", "done"} /\ ~NothingSubmitted
    BY <1>1, <1>2 DEF PoolOfSelect, NothingSubmitted
  <2> QED BY <1>1, <1>2, <2>1, <2>2 DEF PoolOfSelect
<1>9. PagesInOrder'
  BY <1>1, <1>2 DEF PagesInOrder
<1>10. RunnerOfPage'
  <2>1. \A i \in 1 .. Len(tasks') : /\ i + 1 \in 1 .. Len(tasks) /\ i + 1 # 1
                                    /\ tasks'[i] = tasks[i + 1]
    BY <1>4
  <2>2. \A i, j \in 1 .. Len(tasks') : tasks'[i] = tasks'[j] => i = j
    <3> SUFFICES ASSUME NEW i \in 1 .. Len(tasks'), NEW j \in 1 .. Len(tasks'),
                        tasks'[i] = tasks'[j]
                 PROVE  i = j
      OBVIOUS
    <3>1. i + 1 = j + 1
      BY <1>1, <2>1 DEF RunnerOfPage
    <3> QED BY <1>4, <3>1
  <2>3. \A u, v \in Workers : job'[u] = job'[v] /\ job'[u] # 0 => u = v
    <3>1. 1 \in 1 .. Len(tasks)
      BY <1>4
    <3>2. \A v \in Workers : tasks[1] # job[v]
      BY <1>1, <3>1 DEF RunnerOfPage
    <3> QED BY <1>1, <1>6, <3>2 DEF RunnerOfPage
  <2>4. \A i \in 1 .. Len(tasks'), v \in Workers : tasks'[i] # job'[v]
    <3> SUFFICES ASSUME NEW i \in 1 .. Len(tasks'), NEW v \in Workers
                 PROVE  tasks'[i] # job'[v]
      OBVIOUS
    <3>1. 1 \in 1 .. Len(tasks)
      BY <1>4
    <3>2. tasks[i + 1] # tasks[1] /\ tasks[i + 1] # job[v]
      BY <1>1, <2>1, <3>1 DEF RunnerOfPage
    <3> QED BY <1>6, <2>1, <3>2
  <2>5. ASSUME NEW p \in Pages
        PROVE  future[p] = "queued" <=> \/ \E i \in 1 .. Len(tasks') : tasks'[i] = p
                                        \/ \E v \in Workers : job'[v] = p
    <3>1. future[p] = "queued" <=> \/ \E i \in 1 .. Len(tasks) : tasks[i] = p
                                   \/ \E v \in Workers : job[v] = p
      BY <1>1 DEF RunnerOfPage
    <3>2. (\E i \in 1 .. Len(tasks) : tasks[i] = p)
            <=> \/ tasks[1] = p
                \/ \E i \in 1 .. Len(tasks') : tasks'[i] = p
      <4>1. \A i \in 1 .. Len(tasks) : \/ i = 1
                                       \/ /\ i - 1 \in 1 .. Len(tasks')
                                          /\ tasks'[i - 1] = tasks[i]
        BY <1>4
      <4>2. 1 \in 1 .. Len(tasks)
        BY <1>4
      <4> QED BY <2>1, <4>1, <4>2, ZenonT(60)
    <3>3. (\E v \in Workers : job'[v] = p)
            <=> tasks[1] = p \/ \E v \in Workers : job[v] = p
      BY <1>3, <1>5, <1>6
    <3> QED BY <3>1, <3>2, <3>3
  <2> QED BY <1>2, <2>2, <2>3, <2>4, <2>5 DEF RunnerOfPage
<1>11. BoundedReadAhead'
  BY <1>1, <1>2 DEF BoundedReadAhead
<1> QED BY <1>7, <1>8, <1>9, <1>10, <1>11 DEF PoolInv

(* A worker finishes its page. *)
LEMMA RunInv == ASSUME PoolInv, NEW w \in Workers, Run(w) PROVE PoolInv'
<1>1. /\ ThreadsTypeOK /\ PoolOfSelect /\ PagesInOrder
      /\ RunnerOfPage /\ BoundedReadAhead
  BY DEF PoolInv
<1>2. /\ worker[w] = "running" /\ tasks' = tasks
      /\ future' = [future EXCEPT ![job[w]] = "ready"]
      /\ job' = [job EXCEPT ![w] = 0]
      /\ worker' = [worker EXCEPT ![w] = "check"]
      /\ pc' = pc /\ q' = q /\ read' = read /\ finished' = finished
      /\ pending' = pending /\ stopping' = stopping
      /\ Pages' = Pages
  BY SamePages DEF Run, mainState, cursor
<1>3. /\ q \in Queries /\ tasks \in Seq(Pages) /\ job \in [Workers -> Pages \cup {0}]
      /\ worker \in [Workers -> {"unborn", "check", "waiting", "running", "exited"}]
      /\ future \in [Pages -> {"none", "queued", "ready"}]
      /\ 0 \notin Pages /\ IsFiniteSet(Pages) /\ q.maxInFlight \in Nat
  BY <1>1, PagesOfQuery DEF ThreadsTypeOK
<1>4. job[w] # 0 /\ job[w] \in Pages
  BY <1>1, <1>2, <1>3 DEF PoolOfSelect
<1>5. future[job[w]] = "queued"
  BY <1>1, <1>4 DEF RunnerOfPage
<1>6. job'[w] = 0 /\ \A v \in Workers : v # w => job'[v] = job[v]
  BY <1>2, <1>3
<1>7. /\ future'[job[w]] = "ready"
      /\ \A p \in Pages : p # job[w] => future'[p] = future[p]
  BY <1>2, <1>3, <1>4
<1>8. ThreadsTypeOK'
  BY <1>1, <1>2, <1>3 DEF ThreadsTypeOK
<1>9. PoolOfSelect'
  <2>1. \A v \in Workers : /\ worker'[v] = "exited" => stopping /\ tasks = <<>>
                           /\ worker'[v] = "running" <=> job'[v] # 0
                           /\ worker'[v] = "unborn" <=> worker[v] = "unborn"
    BY <1>1, <1>2, <1>3, <1>6 DEF PoolOfSelect
  <2>2. pc \notin {"begin", "done"} /\ ~NothingSubmitted
    BY <1>1, <1>2, <1>4, <1>5 DEF PoolOfSelect, NothingSubmitted
  <2> QED BY <1>1, <1>2, <2>1, <2>2 DEF PoolOfSelect
<1>10. PagesInOrder'
  <2>1. \A p \in Pages : (future'[p] = "none") <=> (future[p] = "none")
    BY <1>5, <1>7
  <2> QED BY <1>1, <1>2, <2>1 DEF PagesInOrder
<1>11. RunnerOfPage'
  <2>1. \A u, v \in Workers : job'[u] = job'[v] /\ job'[u] # 0 => u = v
    BY <1>1, <1>6 DEF RunnerOfPage
  <2>2. \A i \in 1 .. Len(tasks) : tasks[i] \in Pages
    BY <1>3, ElementOfSeq
  <2>3. \A i \in 1 .. Len(tasks), v \in Workers : tasks[i] # job'[v]
    BY <1>1, <1>3, <1>6, <2>2 DEF RunnerOfPage
  <2>4. ASSUME NEW p \in Pages
        PROVE  future'[p] = "queued" <=> \/ \E i \in 1 .. Len(tasks) : tasks[i] = p
                                         \/ \E v \in Workers : job'[v] = p
    <3>1. CASE p = job[w]
      <4>1. \A i \in 1 .. Len(tasks) : tasks[i] # p
        BY <1>1, <3>1 DEF RunnerOfPage
      <4>2. \A v \in Workers : job'[v] # p
        BY <1>1, <1>4, <1>6, <3>1 DEF RunnerOfPage
      <4> QED BY <1>7, <3>1, <4>1, <4>2
    <3>2. CASE p # job[w]
      <4>1. \A v \in Workers : job'[v] = p <=> job[v] = p
        BY <1>3, <1>6, <3>2
      <4> QED BY <1>1, <1>7, <3>2, <4>1 DEF RunnerOfPage
    <3> QED BY <3>1, <3>2
  <2> QED BY <1>1, <1>2, <2>1, <2>3, <2>4 DEF RunnerOfPage
<1>12. BoundedReadAhead'
  <2>1. Unfinished' \subseteq Unfinished /\ Unfinished \subseteq Pages
    BY <1>2, <1>7 DEF Unfinished
  <2>2. /\ IsFiniteSet(Unfinished) /\ IsFiniteSet(Unfinished')
        /\ Cardinality(Unfinished') <= Cardinality(Unfinished)
    BY <1>3, <2>1, FS_Subset
  <2>3. Cardinality(Unfinished) \in Nat /\ Cardinality(Unfinished') \in Nat
    BY <2>2, FS_CardinalityType
  <2>4. Cardinality(Unfinished') <= q.maxInFlight
    BY <1>1, <1>3, <2>2, <2>3 DEF BoundedReadAhead
  <2> QED BY <1>1, <1>2, <2>1, <2>4 DEF BoundedReadAhead
<1> QED BY <1>8, <1>9, <1>10, <1>11, <1>12 DEF PoolInv

(* Every step of the calling thread and of the workers.                      *)
LEMMA NextInv == PoolInv /\ [Next]_vars => PoolInv'
<1> SUFFICES ASSUME PoolInv, [Next]_vars PROVE PoolInv'
  OBVIOUS
<1>1. worker \in [Workers -> {"unborn", "check", "waiting", "running", "exited"}]
  BY DEF PoolInv, ThreadsTypeOK
<1>2. CASE ReadFirst \/ Fill
  BY <1>2, ReadInv
<1>3. CASE Spawn
  BY <1>3, SpawnInv
<1>4. CASE Submit
  BY <1>4, SubmitInv
<1>5. CASE CollectFront
  BY <1>5, CollectInv
<1>6. CASE Stop
  BY <1>6, StopInv
<1>7. CASE \/ ReturnAtOnce \/ SpawnFails \/ Loop \/ Filled \/ NothingToCollect \/ Join
  BY <1>7, QuietInv DEF ReturnAtOnce, SpawnFails, Loop, Filled, NothingToCollect, Join
<1>8. CASE NotifyOne
  BY <1>1, <1>8, WorkersInv DEF NotifyOne
<1>9. CASE NotifyAll
  BY <1>1, <1>9, WorkersInv DEF NotifyAll
<1>10. ASSUME NEW w \in Workers, Take(w) PROVE PoolInv'
  BY <1>10, TakeInv
<1>11. ASSUME NEW w \in Workers, Wait(w) \/ Exit(w) PROVE PoolInv'
  BY <1>1, <1>11, WorkersInv DEF Wait, Exit, MayExit, mainState
<1>12. ASSUME NEW w \in Workers, Run(w) PROVE PoolInv'
  BY <1>12, RunInv
<1>13. CASE UNCHANGED vars
  BY <1>1, <1>13, WorkersInv DEF vars, cursor
<1> QED BY <1>2, <1>3, <1>4, <1>5, <1>6, <1>7, <1>8, <1>9, <1>10, <1>11, <1>12, <1>13
        DEF Next, Main, Work

-----------------------------------------------------------------------------
(* The answer. *)

(* The query, and the pages before the first one.                            *)
LEMMA QueryFacts ==
  ASSUME q \in Queries
  PROVE  /\ IsQuery(q) /\ q.maxInFlight \in Nat \ {0} /\ q.maxInFlight - 1 \in Nat
         /\ ~IsEmptyPage(q, 0) /\ ~ReachesEnd(q, 0 - 1) /\ ~ReachesEnd(q, 0)
         /\ BeginState(q) = StateAfter(q, 0) /\ LastOf(q, 0) = 0
<1>1. IsQuery(q) /\ q.maxInFlight \in Nat \ {0} /\ q.maxInFlight - 1 \in Nat
  BY PoolAssumption
<1>2. PICK b \in Nat \ {0} : b = q.batchSize
  BY <1>1 DEF IsQuery
<1>3. PICK N \in Nat : N = Len(q.rows)
  BY PagesOfQuery
<1>4. (0 - 1) * b < 0
  BY <1>2
<1>5. ~IsEmptyPage(q, 0) /\ ~ReachesEnd(q, 0 - 1)
  BY <1>2, <1>3, <1>4 DEF IsEmptyPage, FirstOf, ReachesEnd
<1>6. LastOf(q, 0) = 0 /\ ~ReachesEnd(q, 0)
  <2>1. PICK c \in Nat : c = 0
    OBVIOUS
  <2> QED BY <1>1, <2>1, PageBounds
<1> QED BY <1>1, <1>5, <1>6, BeginIsFirst

(* Before a page was read nothing is collected.                              *)
LEMMA AnswerInit == ASSUME Init PROVE AnswerInv
<1>1. /\ q \in Queries /\ read = 0 /\ finished = FALSE /\ state = BeginState(q)
      /\ pending = <<>> /\ stopping = FALSE /\ pc = "begin" /\ outcome = Running
  BY DEF Init
<1>2. Collected = 0
  BY <1>1, QueryFacts DEF Collected, LastPage
<1>3. PagesAccountedFor
  BY <1>1, <1>2, QueryFacts DEF PagesAccountedFor
<1>4. AnswerSoFar
  BY <1>1, <1>2, QueryFacts DEF AnswerSoFar
<1> QED BY <1>1, <1>3, <1>4 DEF AnswerInv

(* Steps that neither read nor collect.                                      *)
LEMMA KeepsAnswer ==
  ASSUME AnswerInv, UNCHANGED <<q, cursor, state, pending, outcome, stopping>>,
         \/ pc' = pc
         \/ pc = "spawn" /\ pc' = "submit"
         \/ pc = "notify" /\ pc' = "fill"
         \/ pc = "loop" /\ pc' = "fill" /\ ~state.complete
         \/ pc = "fill" /\ pc' = "collect" /\ (finished \/ ~HasRoom)
         \/ pc = "collect" /\ pc' = "loop" /\ pending = <<>>,
         ThreadsTypeOK
  PROVE  AnswerInv'
<1>1. /\ q' = q /\ read' = read /\ finished' = finished /\ state' = state
      /\ pending' = pending /\ outcome' = outcome /\ stopping' = stopping
      /\ ExpectedOutcome' = ExpectedOutcome
  BY DEF cursor, ExpectedOutcome
<1> DEFINE Going == {"begin", "spawn", "submit", "notify", "loop", "fill", "collect"}
<1>2. CASE pc' \notin Going
  BY <1>1, <1>2 DEF AnswerInv
<1>3. CASE pc' \in Going
  <2>1. pc \in Going /\ PagesAccountedFor /\ AnswerSoFar
    BY <1>3 DEF AnswerInv
  <2>2. Collected' = Collected
    BY <1>1 DEF Collected, LastPage
  <2>3. PagesAccountedFor'
    BY <1>1, <2>1, <2>2 DEF PagesAccountedFor
  <2>4. q.maxInFlight \in Nat \ {0} /\ Len(pending) \in Nat
    BY QueryFacts, LenProperties DEF ThreadsTypeOK
  <2>5. AnswerSoFar'
    BY <1>1, <1>3, <2>1, <2>2, <2>4 DEF AnswerSoFar, HasRoom
  <2> QED BY <1>1, <1>3, <2>3, <2>5 DEF AnswerInv
<1> QED BY <1>2, <1>3

(* A query for no rows reads nothing.                                        *)
LEMMA ReturnAnswer == ASSUME PoolInv, AnswerInv, ReturnAtOnce PROVE AnswerInv'
<1>1. /\ q \in Queries /\ read = 0 /\ pending = <<>> /\ state = StateAfter(q, Collected)
  BY DEF PoolInv, ThreadsTypeOK, PoolOfSelect, NothingSubmitted, ReturnAtOnce, AnswerInv,
         AnswerSoFar, PagesAccountedFor
<1>2. Collected = 0
  BY <1>1, QueryFacts DEF Collected, LastPage, ReturnAtOnce
<1>3. q.limit = 0
  <2>1. state = BeginState(q) /\ state.complete
    BY <1>1, <1>2, QueryFacts DEF ReturnAtOnce
  <2>2. BeginState(q).complete = (q.limit = 0)
    BY DEF BeginState
  <2> QED BY <2>1, <2>2
<1>4. SequentialOutcome(q) = Rows(<<>>)
  BY <1>3 DEF SequentialOutcome
<1>5. outcome' = ExpectedOutcome' /\ pc' = "done" /\ stopping' = stopping
  BY <1>3, <1>4 DEF ReturnAtOnce, ExpectedOutcome, ParallelOutcome, pool
<1> QED BY <1>5 DEF AnswerInv

(* The first page, and a table that ends in it.                              *)
LEMMA ReadFirstAnswer == ASSUME PoolInv, AnswerInv, ReadFirst PROVE AnswerInv'
<1>1. /\ q \in Queries /\ read = 0 /\ pending = <<>> /\ ~state.complete
      /\ state = StateAfter(q, Collected) /\ outcome = Running
      /\ q' = q /\ pending' = pending /\ stopping' = stopping /\ ~stopping
  BY DEF PoolInv, ThreadsTypeOK, PoolOfSelect, NothingSubmitted, ReadFirst, AnswerInv,
         AnswerSoFar, PagesAccountedFor, pool
<1>2. Collected = 0
  BY <1>1, QueryFacts DEF Collected, LastPage, ReadFirst
<1>3. PICK none \in Nat : none = 0 /\ none + 1 = 1 /\ none = Collected
  BY <1>2
<1>4. PICK one \in Nat \ {0} : one = 1 /\ one = none + 1
  BY <1>3
<1>5. /\ IsQuery(q) /\ q.maxInFlight \in Nat \ {0} /\ q.maxInFlight - 1 \in Nat
      /\ ~ReachesEnd(q, none) /\ ~IsEmptyPage(q, none) /\ LastOf(q, none) = 0
      /\ state = StateAfter(q, none) /\ state = BeginState(q)
  BY <1>1, <1>2, <1>3, QueryFacts
<1>6. q.limit # 0
  <2>1. BeginState(q).complete = (q.limit = 0)
    BY DEF BeginState
  <2> QED BY <1>1, <1>5, <2>1
<1>7. CASE ReadFails(q, one)
  <2>1. outcome' = Error /\ pc' = "done"
    BY <1>4, <1>7 DEF ReadFirst
  <2>2. CASE ReachesEnd(q, 1)
    <3>1. SequentialOutcome(q) = Error
      BY <1>1, <1>4, <1>5, <1>7, SequentialThrows
    <3> QED BY <1>1, <2>1, <2>2, <3>1 DEF AnswerInv, ExpectedOutcome, ParallelOutcome
  <2>3. CASE ~ReachesEnd(q, 1)
    <3>1. none < one /\ one <= none + 1 + (q.maxInFlight - 1)
      BY <1>3, <1>4, <1>5
    <3>2. ParallelOutcome(q, q.maxInFlight - 1) = Error
      BY <1>1, <1>5, <1>7, <2>3, <3>1, ParallelThrows
    <3> QED BY <1>1, <2>1, <3>2 DEF AnswerInv, ExpectedOutcome
  <2> QED BY <2>2, <2>3
<1>8. CASE ~ReadFails(q, one) /\ ReachesEnd(q, one)
  <2>1. /\ pc' = "done" /\ state' = ExecuteBatch(q, state, one)
        /\ outcome' = IF ExecuteRaises(q, state, one) THEN Error ELSE Rows(state'.rows)
    BY <1>4, <1>8 DEF ReadFirst
  <2>2. state' = StateAfter(q, one)
    BY <1>1, <1>4, <1>5, <2>1, PageCollects DEF ExecuteBatch
  <2>3. ParallelOutcome(q, q.maxInFlight - 1) = SequentialOutcome(q)
    BY <1>4, <1>8 DEF ParallelOutcome
  <2>4. CASE ExecuteRaises(q, state, one)
    <3>1. SequentialOutcome(q) = Error
      BY <1>1, <1>4, <1>5, <2>4, SequentialThrows
    <3> QED BY <1>1, <2>1, <2>3, <2>4, <3>1 DEF AnswerInv, ExpectedOutcome
  <2>5. CASE ~ExecuteRaises(q, state, one)
    <3>1. LastOf(q, one) = Len(q.rows)
      BY <1>5, <1>8, PageBounds
    <3>2. PICK N \in Nat : N = Len(q.rows)
      BY <1>1, PagesOfQuery
    <3>3. \A i \in 1 .. LastOf(q, one) : q.rows[i] = "raise" => ~(i <= LastNeeded(q))
      <4>1. \A i \in 1 .. LastOf(q, none) : q.rows[i] = "raise" => ~(i <= LastNeeded(q))
        BY <1>5
      <4> QED BY <1>1, <1>4, <1>5, <2>5, <4>1, ExecutedRows
    <3>4. LastNeeded(q) \in 0 .. N
      BY <1>5, <1>6, <3>1, <3>2, Answered
    <3>5. ~HasKind(q, "raise", 1, LastNeeded(q))
      BY <3>1, <3>2, <3>3, <3>4 DEF HasKind
    <3>6. \A p \in 1 .. one : ~ReadFails(q, p)
      BY <1>4, <1>8
    <3>7. SequentialOutcome(q) = Rows(StateAfter(q, one).rows)
      BY <1>5, <1>6, <3>1, <3>5, <3>6, SequentialAnswers
    <3> QED BY <1>1, <2>1, <2>2, <2>3, <2>5, <3>7 DEF AnswerInv, ExpectedOutcome
  <2> QED BY <2>4, <2>5
<1>9. CASE ~ReadFails(q, one) /\ ~ReachesEnd(q, one)
  <2>1. /\ pc' = "spawn" /\ read' = 1 /\ finished' = FALSE /\ state' = state
        /\ outcome' = outcome
    BY <1>4, <1>9 DEF ReadFirst
  <2>2. ~IsEmptyPage(q, 1)
    BY <1>1, <1>4, <1>9, FirstPage DEF Pages
  <2>3. Collected' = 0
    BY <1>1, <2>1, <2>2 DEF Collected, LastPage
  <2>4. PagesAccountedFor'
    BY <1>1, <1>3, <1>4, <1>5, <1>9, <2>1, <2>3 DEF PagesAccountedFor
  <2>5. AnswerSoFar'
    BY <1>1, <1>3, <1>4, <1>5, <1>6, <1>9, <2>1, <2>3 DEF AnswerSoFar
  <2> QED BY <1>1, <2>1, <2>4, <2>5 DEF AnswerInv
<1> QED BY <1>7, <1>8, <1>9

(* What holds as long as select reads and collects.                          *)
LEMMA Going ==
  ASSUME PoolInv, AnswerInv, pc \in {"submit", "loop", "fill", "collect"}
  PROVE  /\ q \in Queries /\ IsQuery(q) /\ read \in Nat \ {0} /\ finished \in BOOLEAN
         /\ q.maxInFlight \in Nat \ {0} /\ q.maxInFlight - 1 \in Nat
         /\ pending \in Seq(Pages) /\ Len(pending) \in Nat /\ ~stopping /\ q.limit # 0
         /\ ~ReachesEnd(q, 1) /\ PagesAccountedFor /\ AnswerSoFar
         /\ LastPage \in {read - 1, read} /\ LastPage \in Nat
         /\ ~finished => ~IsEmptyPage(q, read) /\ LastPage = read
<1>1. /\ q \in Queries /\ read \in Nat /\ finished \in BOOLEAN /\ pending \in Seq(Pages)
      /\ ~stopping /\ PagesAccountedFor /\ AnswerSoFar
  BY DEF PoolInv, ThreadsTypeOK, PoolOfSelect, AnswerInv
<1>2. /\ ~ReachesEnd(q, 1) /\ read > 0 /\ q.limit # 0
      /\ finished <=> ReachesEnd(q, read)
  BY <1>1 DEF PagesAccountedFor, AnswerSoFar
<1>3. PICK n \in Nat : read = n + 1
  <2>1. read - 1 \in Nat /\ read = read - 1 + 1
    BY <1>1, <1>2
  <2> QED BY <2>1
<1>4. ~finished => ~IsEmptyPage(q, read)
  BY <1>1, <1>2, <1>3, NextPage
<1>5. LastPage \in {read - 1, read} /\ LastPage \in Nat /\ (~finished => LastPage = read)
  BY <1>1, <1>2, <1>3, <1>4 DEF LastPage
<1>6. Len(pending) \in Nat
  BY <1>1, LenProperties
<1> QED BY <1>1, <1>2, <1>4, <1>5, <1>6, QueryFacts

(* The page read last is submitted.                                          *)
LEMMA SubmitAnswer == ASSUME PoolInv, AnswerInv, Submit PROVE AnswerInv'
<1>1. /\ read' = read /\ finished' = finished /\ q' = q /\ state' = state /\ pc = "submit"
      /\ pending' = Append(pending, read) /\ pc' = "notify" /\ stopping' = stopping
      /\ outcome' = outcome
  BY DEF Submit, cursor
<1>2. /\ read \in Nat \ {0} /\ pending \in Seq(Pages) /\ Len(pending) \in Nat /\ ~stopping
      /\ PagesAccountedFor /\ AnswerSoFar
  BY <1>1, Going
<1>3. read \in Pages /\ ~IsEmptyPage(q, read)
  BY <1>1 DEF PoolInv, PagesInOrder, Pages
<1>4. PICK c \in Nat : c = Collected
  BY <1>2 DEF PagesAccountedFor
<1>5. read = c + Len(pending) + 1
  BY <1>1, <1>2, <1>3, <1>4 DEF Collected, LastPage
<1>6. /\ Len(pending') = Len(pending) + 1
      /\ \A i \in 1 .. Len(pending) : pending'[i] = pending[i]
      /\ pending'[Len(pending) + 1] = read
  BY <1>1, <1>2, <1>3, AppendProperties
<1>7. Collected' = c
  BY <1>1, <1>2, <1>3, <1>5, <1>6 DEF Collected, LastPage
<1>8. \A i \in 1 .. Len(pending') : pending'[i] = c + i
  <2>1. \A i \in 1 .. Len(pending) : pending[i] = c + i
    BY <1>2, <1>4 DEF PagesAccountedFor
  <2>2. \A i \in 1 .. Len(pending') : i \in 1 .. Len(pending) \/ i = Len(pending) + 1
    BY <1>2, <1>6
  <2>3. c + (Len(pending) + 1) = read
    BY <1>2, <1>5
  <2> QED BY <1>6, <2>1, <2>2, <2>3
<1>9. PagesAccountedFor'
  BY <1>1, <1>2, <1>7, <1>8 DEF PagesAccountedFor
<1>10. AnswerSoFar'
  BY <1>1, <1>2, <1>4, <1>7 DEF AnswerSoFar
<1> QED BY <1>1, <1>2, <1>9, <1>10 DEF AnswerInv

(* The outer loop goes on, or ends with the answer.                          *)
LEMMA LoopAnswer == ASSUME PoolInv, AnswerInv, Loop PROVE AnswerInv'
<1>1. /\ pc = "loop" /\ q' = q /\ read' = read /\ finished' = finished /\ state' = state
      /\ pending' = pending /\ stopping' = stopping
  BY DEF Loop, cursor, pool
<1>2. /\ IsQuery(q) /\ read \in Nat \ {0} /\ Len(pending) \in Nat /\ ~stopping
      /\ q.maxInFlight \in Nat \ {0} /\ q.maxInFlight - 1 \in Nat
      /\ pending \in Seq(Pages) /\ q.limit # 0 /\ ~ReachesEnd(q, 1)
      /\ PagesAccountedFor /\ AnswerSoFar
      /\ LastPage \in {read - 1, read} /\ LastPage \in Nat
  BY <1>1, Going
<1>3. CASE (~finished \/ pending # <<>>) /\ ~state.complete
  <2>1. pc' = "fill" /\ outcome' = outcome
    BY <1>1, <1>3 DEF Loop
  <2>2. ThreadsTypeOK
    BY DEF PoolInv
  <2> QED BY <1>1, <1>3, <2>1, <2>2, KeepsAnswer DEF cursor
<1>4. CASE state.complete \/ (finished /\ pending = <<>>)
  <2>1. pc' = "stop" /\ outcome' = Rows(state.rows)
    BY <1>1, <1>4 DEF Loop
  <2>2. PICK c \in Nat : c = Collected
    BY <1>2 DEF PagesAccountedFor
  <2>3. c = LastPage - Len(pending) /\ state = StateAfter(q, c)
    BY <1>1, <1>2, <2>2 DEF Collected, AnswerSoFar
  <2>4. ASSUME finished /\ pending = <<>> PROVE LastOf(q, c) = Len(q.rows)
    <3>1. ReachesEnd(q, read) /\ Len(pending) = 0
      BY <1>2, <2>4 DEF PagesAccountedFor
    <3>2. c = LastPage
      BY <1>2, <2>3, <3>1
    <3>3. CASE IsEmptyPage(q, read)
      <4>1. c = read - 1 /\ c + 1 = read
        BY <1>2, <3>2, <3>3 DEF LastPage
      <4> QED BY <1>2, <3>3, <4>1, PageBounds
    <3>4. CASE ~IsEmptyPage(q, read)
      <4>1. c = read
        BY <3>2, <3>4 DEF LastPage
      <4> QED BY <1>2, <3>1, <4>1, PageBounds
    <3> QED BY <3>3, <3>4
  <2>5. StateAfter(q, c).complete \/ LastOf(q, c) = Len(q.rows)
    BY <1>4, <2>3, <2>4
  <2>6. /\ \A p \in 1 .. c : ~PageRaises(q, p)
        /\ \A p \in 1 .. read : ~ReadFails(q, p)
    BY <1>2, <2>2 DEF AnswerSoFar
  <2>7. ReachesEnd(q, read) \/ c + (q.maxInFlight - 1) <= read
    <3>1. finished \/ Len(pending) + 1 >= q.maxInFlight
      BY <1>1, <1>2 DEF AnswerSoFar
    <3>2. finished <=> ReachesEnd(q, read)
      BY <1>2 DEF PagesAccountedFor
    <3> QED BY <1>2, <2>3, <3>1, <3>2
  <2>8. ParallelOutcome(q, q.maxInFlight - 1) = Rows(state.rows)
    <3>1. read \in Nat
      BY <1>2
    <3> QED BY <1>2, <2>3, <2>5, <2>6, <2>7, <3>1, ParallelAnswers
  <2> QED BY <1>1, <1>2, <2>1, <2>8 DEF AnswerInv, ExpectedOutcome
<1> QED BY <1>3, <1>4

(* Reading ahead: one more page, or the exception of its malformed record.   *)
LEMMA FillAnswer == ASSUME PoolInv, AnswerInv, Fill PROVE AnswerInv'
<1>1. /\ pc = "fill" /\ ~finished /\ Len(pending) < q.maxInFlight /\ q' = q
      /\ state' = state /\ pending' = pending /\ stopping' = stopping
  BY DEF Fill, HasRoom, pool
<1>2. /\ q \in Queries /\ IsQuery(q) /\ read \in Nat \ {0} /\ Len(pending) \in Nat
      /\ q.maxInFlight \in Nat \ {0} /\ q.maxInFlight - 1 \in Nat
      /\ q.limit # 0 /\ ~ReachesEnd(q, 1) /\ PagesAccountedFor /\ AnswerSoFar
      /\ LastPage = read /\ ~stopping
  BY <1>1, Going
<1>3. PICK c \in Nat : c = Collected
  BY <1>2 DEF PagesAccountedFor
<1>4. c + Len(pending) = read /\ state = StateAfter(q, c) /\ ~state.complete
  BY <1>1, <1>2, <1>3 DEF Collected, AnswerSoFar
<1>5. PICK n \in Nat \ {0} : n = read + 1
  BY <1>2
<1>6. CASE ReadFails(q, n)
  <2>1. outcome' = Error /\ pc' = "stop"
    BY <1>5, <1>6 DEF Fill
  <2>2. c < n /\ n <= c + 1 + (q.maxInFlight - 1)
    BY <1>1, <1>2, <1>4, <1>5
  <2>3. ParallelOutcome(q, q.maxInFlight - 1) = Error
    BY <1>2, <1>4, <1>6, <2>2, ParallelThrows
  <2> QED BY <1>1, <1>2, <2>1, <2>3 DEF AnswerInv, ExpectedOutcome
<1>7. CASE ~ReadFails(q, n)
  <2>1. /\ read' = n /\ finished' = ReachesEnd(q, n) /\ outcome' = outcome
        /\ pc' = IF IsEmptyPage(q, n) THEN "collect" ELSE "submit"
    BY <1>5, <1>7 DEF Fill
  <2>2. LastPage' = IF IsEmptyPage(q, n) THEN read ELSE n
    BY <1>1, <1>2, <1>5, <2>1 DEF LastPage
  <2>3. Collected' = c
    <3>1. CASE IsEmptyPage(q, n)
      BY <1>1, <1>4, <2>1, <2>2, <3>1, <1>2 DEF Collected
    <3>2. CASE ~IsEmptyPage(q, n)
      BY <1>1, <1>4, <1>5, <2>1, <2>2, <3>2, <1>2 DEF Collected
    <3> QED BY <3>1, <3>2
  <2>4. n - 1 = read /\ ~ReachesEnd(q, read)
    BY <1>1, <1>2, <1>5 DEF PagesAccountedFor
  <2>5. PagesAccountedFor'
    <3>1. pc' # "begin"
      BY <2>1
    <3>2. \A i \in 1 .. Len(pending) : pending[i] = c + i
      BY <1>2, <1>3 DEF PagesAccountedFor
    <3> QED BY <1>1, <1>2, <2>1, <2>3, <2>4, <3>1, <3>2 DEF PagesAccountedFor
  <2>6. AnswerSoFar'
    <3>1. \A p \in 1 .. n : ~ReadFails(q, p)
      <4>1. \A p \in 1 .. n : p \in 1 .. read \/ p = n
        BY <1>2, <1>5
      <4> QED BY <1>2, <1>7, <4>1 DEF AnswerSoFar
    <3>2. IsEmptyPage(q, n) => ReachesEnd(q, n)
      BY <1>2, <1>5, NextPage
    <3>3. pc' \in {"collect", "submit"} /\ (pc' = "collect" => finished')
      BY <2>1, <3>2
    <3>4. outcome = Running /\ \A p \in 1 .. c : ~PageRaises(q, p)
      BY <1>2, <1>3 DEF AnswerSoFar
    <3> QED BY <1>1, <1>2, <1>4, <2>1, <2>3, <3>1, <3>3, <3>4 DEF AnswerSoFar
  <2> QED BY <1>1, <1>2, <2>1, <2>5, <2>6 DEF AnswerInv
<1> QED BY <1>6, <1>7

(* The oldest page is collected, or its exception.                           *)
LEMMA CollectAnswer == ASSUME PoolInv, AnswerInv, CollectFront PROVE AnswerInv'
<1>1. /\ pc = "collect" /\ pending # <<>> /\ q' = q
      /\ read' = read /\ finished' = finished /\ stopping' = stopping
  BY DEF CollectFront, cursor, pool
<1>2. /\ q \in Queries /\ IsQuery(q) /\ read \in Nat \ {0}
      /\ pending \in Seq(Pages) /\ Len(pending) \in Nat
      /\ q.maxInFlight \in Nat \ {0} /\ q.maxInFlight - 1 \in Nat
      /\ q.limit # 0 /\ ~ReachesEnd(q, 1) /\ PagesAccountedFor /\ AnswerSoFar
      /\ LastPage \in Nat /\ ~stopping
  BY <1>1, Going
<1>3. PICK c \in Nat : c = Collected
  BY <1>2 DEF PagesAccountedFor
<1>4. c = LastPage - Len(pending) /\ state = StateAfter(q, c) /\ ~state.complete
  BY <1>1, <1>2, <1>3 DEF Collected, AnswerSoFar
<1>5. PICK p \in Nat \ {0} : p = c + 1
  OBVIOUS
<1>6. /\ Len(pending) \in Nat \ {0} /\ Head(pending) = pending[1]
      /\ Tail(pending) \in Seq(Pages) /\ Len(Tail(pending)) = Len(pending) - 1
      /\ \A i \in 1 .. Len(pending) - 1 : Tail(pending)[i] = pending[i + 1]
  BY <1>1, <1>2, HeadTailProperties, EmptySeq
<1>7. \A i \in 1 .. Len(pending) : pending[i] = c + i
  BY <1>2, <1>3 DEF PagesAccountedFor
<1>8. Head(pending) = p /\ p \in Pages
  <2>1. 1 \in 1 .. Len(pending)
    BY <1>6
  <2> QED BY <1>2, <1>5, <1>6, <1>7, <2>1, ElementOfSeq
<1>9. ~IsEmptyPage(q, p) /\ ~ReachesEnd(q, c)
  <2>1. ~IsEmptyPage(q, p)
    BY <1>8 DEF Pages
  <2> QED BY <1>2, <1>5, <2>1, PageBounds
<1>10. CASE PageRaises(q, p)
  <2>1. outcome' = Error /\ pc' = "stop"
    BY <1>8, <1>10 DEF CollectFront
  <2>2. ParallelOutcome(q, q.maxInFlight - 1) = Error
    BY <1>2, <1>4, <1>5, <1>10, ParallelThrows
  <2> QED BY <1>1, <1>2, <2>1, <2>2 DEF AnswerInv, ExpectedOutcome
<1>11. CASE ~PageRaises(q, p)
  <2>1. /\ state' = Collect(q, state, Matching(q, FirstOf(q, p), LastOf(q, p)))
        /\ pending' = Tail(pending) /\ pc' = "loop" /\ outcome' = outcome
    BY <1>8, <1>11 DEF CollectFront, PageResult
  <2>2. state' = StateAfter(q, p)
    BY <1>2, <1>4, <1>5, <1>9, <2>1, PageCollects
  <2>3. Collected' = p
    <3>1. LastPage' = LastPage
      BY <1>1 DEF LastPage
    <3>2. Collected' = LastPage' - Len(pending') - 0
      BY <2>1 DEF Collected
    <3>3. Len(pending') = Len(pending) - 1
      BY <1>6, <2>1
    <3> QED BY <1>2, <1>4, <1>5, <3>1, <3>2, <3>3
  <2>4. \A i \in 1 .. Len(pending') : pending'[i] = p + i
    <3> SUFFICES ASSUME NEW i \in 1 .. Len(pending') PROVE pending'[i] = p + i
      OBVIOUS
    <3>1. i \in 1 .. Len(pending) - 1 /\ i + 1 \in 1 .. Len(pending)
      BY <1>6, <2>1
    <3>2. pending'[i] = c + (i + 1)
      BY <1>6, <1>7, <2>1, <3>1
    <3> QED BY <1>5, <3>1, <3>2
  <2>5. PagesAccountedFor'
    BY <1>1, <1>2, <2>1, <2>3, <2>4 DEF PagesAccountedFor
  <2>6. \A r \in 1 .. p : ~PageRaises(q, r)
    <3>1. \A r \in 1 .. c : ~PageRaises(q, r)
      BY <1>2, <1>3 DEF AnswerSoFar
    <3>2. \A r \in 1 .. p : r \in 1 .. c \/ r = p
      BY <1>5
    <3> QED BY <1>11, <3>1, <3>2
  <2>7. finished \/ Len(pending') + 1 >= q.maxInFlight
    BY <1>1, <1>2, <1>6, <2>1 DEF AnswerSoFar, HasRoom
  <2>8. AnswerSoFar'
    BY <1>1, <1>2, <2>1, <2>2, <2>3, <2>6, <2>7 DEF AnswerSoFar
  <2> QED BY <1>1, <1>2, <2>1, <2>5, <2>8 DEF AnswerInv
<1> QED BY <1>10, <1>11

(* Select is left: through ~ThreadPool with the outcome it has, or from the  *)
(* pool's constructor with an exception.                                     *)
LEMMA LeaveAnswer ==
  ASSUME PoolInv, AnswerInv, SpawnFails \/ Stop \/ NotifyAll \/ Join
  PROVE  AnswerInv'
<1>1. /\ pc = "notifyAll" => stopping
      /\ pc = "spawn" => ~stopping
      /\ stopping \in BOOLEAN
  BY DEF PoolInv, PoolOfSelect, ThreadsTypeOK
<1>2. CASE SpawnFails
  BY <1>1, <1>2 DEF SpawnFails, AnswerInv, pool
<1>3. ASSUME Stop \/ NotifyAll \/ Join
      PROVE  outcome' = outcome /\ ExpectedOutcome' = ExpectedOutcome
  BY <1>3 DEF Stop, NotifyAll, Join, ExpectedOutcome
<1>4. CASE Stop
  BY <1>3, <1>4 DEF Stop, AnswerInv
<1>5. CASE NotifyAll
  BY <1>1, <1>3, <1>5 DEF NotifyAll, AnswerInv
<1>6. CASE Join
  BY <1>1, <1>3, <1>6 DEF Join, AnswerInv, pool
<1> QED BY <1>2, <1>4, <1>5, <1>6

(* Every step; those of the workers leave the answer alone.                  *)
LEMMA NextAnswer == PoolInv /\ AnswerInv /\ [Next]_vars => AnswerInv'
<1> SUFFICES ASSUME PoolInv, AnswerInv, [Next]_vars PROVE AnswerInv'
  OBVIOUS
<1>1. ThreadsTypeOK
  BY DEF PoolInv
<1>2. CASE ReturnAtOnce
  BY <1>2, ReturnAnswer
<1>3. CASE ReadFirst
  BY <1>3, ReadFirstAnswer
<1>4. CASE Submit
  BY <1>4, SubmitAnswer
<1>5. CASE Loop
  BY <1>5, LoopAnswer
<1>6. CASE Fill
  BY <1>6, FillAnswer
<1>7. CASE CollectFront
  BY <1>7, CollectAnswer
<1>8. CASE SpawnFails \/ Stop \/ NotifyAll \/ Join
  BY <1>8, LeaveAnswer
<1>9. CASE Spawn \/ NotifyOne \/ Filled \/ NothingToCollect
  BY <1>1, <1>9, KeepsAnswer DEF Spawn, NotifyOne, Filled, NothingToCollect, pool
<1>10. ASSUME NEW w \in Workers, Work(w) PROVE AnswerInv'
  BY <1>1, <1>10, KeepsAnswer DEF Work, Take, Wait, Exit, Run, mainState
<1>11. CASE UNCHANGED vars
  BY <1>1, <1>11, KeepsAnswer DEF vars, cursor
<1> QED BY <1>2, <1>3, <1>4, <1>5, <1>6, <1>7, <1>8, <1>9, <1>10, <1>11 DEF Next, Main

(* The state of the select changes only when a page is taken in.             *)
LEMMA NextType ==
  ASSUME IInv, IInv', [Next]_vars,
         state \in [skipped : 0 .. q.offset, rows : Seq(1 .. Len(q.rows)), complete : BOOLEAN],
         outcome.kind \in {"running", "rows", "error"}
  PROVE  /\ state' \in [skipped : 0 .. q'.offset, rows : Seq(1 .. Len(q'.rows)),
                        complete : BOOLEAN]
         /\ outcome'.kind \in {"running", "rows", "error"}
<1>1. q \in Queries /\ IsQuery(q)
  BY QueryFacts DEF IInv, PoolInv, ThreadsTypeOK
<1>2. q' = q
  BY DEF Next, Main, ReturnAtOnce, ReadFirst, Spawn, SpawnFails, Submit, NotifyOne, Loop, Fill,
         Filled, CollectFront, NothingToCollect, Stop, NotifyAll, Join, Work, Take, Wait, Exit,
         Run, mainState, vars
<1>3. state' = state \/ \E c \in Nat : state' = StateAfter(q, c)
  <2>1. CASE ReadFirst
    <3>1. CASE state' = state
      BY <3>1
    <3>2. CASE ~ReadFails(q, 1) /\ ReachesEnd(q, 1) /\ state' = ExecuteBatch(q, state, 1)
      <4>1. /\ pc = "begin" /\ ~stopping /\ pending = <<>> /\ read = 0 /\ ~state.complete
            /\ state = StateAfter(q, Collected)
        BY <2>1 DEF ReadFirst, IInv, PoolInv, PoolOfSelect, NothingSubmitted, AnswerInv,
                    PagesAccountedFor, AnswerSoFar
      <4>2. Collected = 0
        BY <1>1, <4>1, QueryFacts DEF Collected, LastPage
      <4>3. PICK none \in Nat : none = 0 /\ none + 1 = 1 /\ none = Collected
        BY <4>2
      <4>4. state' = StateAfter(q, none + 1)
        BY <1>1, <3>2, <4>1, <4>3, QueryFacts, PageCollects DEF ExecuteBatch
      <4> QED BY <4>4
    <3> QED BY <2>1, <3>1, <3>2 DEF ReadFirst
  <2>2. CASE CollectFront
    <3>1. CASE state' = state
      BY <3>1
    <3>2. CASE pc' = "loop"
      <4>1. PagesAccountedFor' /\ AnswerSoFar'
        BY <3>2 DEF IInv, AnswerInv
      <4>2. Collected' \in Nat /\ state' = StateAfter(q, Collected')
        BY <1>2, <4>1 DEF PagesAccountedFor, AnswerSoFar
      <4> QED BY <4>2
    <3> QED BY <2>2, <3>1, <3>2 DEF CollectFront
  <2>3. CASE ~(ReadFirst \/ CollectFront)
    BY <2>3 DEF Next, Main, ReturnAtOnce, Spawn, SpawnFails, Submit, NotifyOne, Loop, Fill,
         Filled, NothingToCollect, Stop, NotifyAll, Join, Work, Take, Wait, Exit,
         Run, mainState, vars
  <2> QED BY <2>1, <2>2, <2>3
<1>4. state' \in [skipped : 0 .. q.offset, rows : Seq(1 .. Len(q.rows)), complete : BOOLEAN]
  BY <1>1, <1>3, StateType
<1>5. outcome'.kind \in {"running", "rows", "error"}
  <2>1. outcome' = outcome \/ outcome' = Error \/ \E rows : outcome' = Rows(rows)
    BY DEF Next, Main, ReturnAtOnce, ReadFirst, Spawn, SpawnFails, Submit, NotifyOne, Loop, Fill,
         Filled, CollectFront, NothingToCollect, Stop, NotifyAll, Join, Work, Take, Wait, Exit,
         Run, mainState, vars
  <2> QED BY <2>1 DEF Error, Rows
<1> QED BY <1>2, <1>4, <1>5

-----------------------------------------------------------------------------
(* Theorems. *)

(* The thread of select and its workers agree, in every state they can       *)
(* reach, on who has which page.                                             *)
THEOREM PoolInductive == Spec => []PoolInv
  BY InitInv, NextInv, PTL DEF Spec

(* The inductive invariant holds in every state the threads can reach: with  *)
(* the above, what select has taken in, or its outcome, is what the pages    *)
(* make of the query.                                                        *)
THEOREM Inductive == Spec => []IInv
<1>1. Init => IInv
  BY InitInv, AnswerInit DEF IInv
<1>2. IInv /\ [Next]_vars => IInv'
  BY NextInv, NextAnswer DEF IInv
<1> QED BY <1>1, <1>2, PTL DEF Spec

(* Reading ahead stays within QueryExecutionOptions::maxInFlightBatches, the *)
(* pages pending are consecutive, and those not evaluated are among them.    *)
THEOREM ReadAheadIsBounded == Spec => []BoundedReadAhead
<1>1. PoolInv => BoundedReadAhead
  BY DEF PoolInv
<1> QED BY <1>1, PoolInductive, PTL

(* Every page is evaluated by one worker: while its future is open it is in  *)
(* the queue once or with one worker, and nowhere before or after.           *)
THEOREM OneRunner == Spec => []OneRunnerPerPage
<1>1. PoolInv => OneRunnerPerPage
  <2> SUFFICES ASSUME PoolInv, NEW p \in Pages
               PROVE  Cardinality({i \in 1 .. Len(tasks) : tasks[i] = p})
                        + Cardinality({w \in Workers : job[w] = p})
                        = (IF future[p] = "queued" THEN 1 ELSE 0)
    BY DEF OneRunnerPerPage
  <2> DEFINE places == {i \in 1 .. Len(tasks) : tasks[i] = p}
             runners == {w \in Workers : job[w] = p}
  <2>1. ThreadsTypeOK /\ RunnerOfPage /\ p # 0
    BY PagesOfQuery DEF PoolInv, ThreadsTypeOK
  <2>2. /\ \A i, j \in places : i = j
        /\ \A v, w \in runners : v = w
        /\ places = {} \/ runners = {}
        /\ future[p] = "queued" <=> places # {} \/ runners # {}
    BY <2>1 DEF RunnerOfPage
  <2>3. /\ places = {} \/ \E i : places = {i}
        /\ runners = {} \/ \E w : runners = {w}
    BY <2>2, ZenonT(60)
  <2>4. Cardinality(places) = IF places = {} THEN 0 ELSE 1
    BY <2>3, FS_EmptySet, FS_Singleton
  <2>5. Cardinality(runners) = IF runners = {} THEN 0 ELSE 1
    BY <2>3, FS_EmptySet, FS_Singleton
  <2> QED BY <2>2, <2>4, <2>5
<1> QED BY <1>1, PoolInductive, PTL

(* When select has returned or thrown, its workers have ended and every page *)
(* that was submitted has been evaluated.                                    *)
THEOREM QuietWhenDone == Spec => []QuietAfterReturn
<1>1. PoolInv => QuietAfterReturn
  <2> SUFFICES ASSUME PoolInv, pc = "done"
               PROVE  /\ \A w \in Workers : worker[w] \in {"unborn", "exited"}
                      /\ tasks = <<>> /\ Unfinished = {}
    BY DEF QuietAfterReturn
  <2>1. ThreadsTypeOK /\ PoolOfSelect /\ RunnerOfPage
    BY DEF PoolInv
  <2>2. \A w \in Workers : worker[w] \in {"unborn", "exited"}
    BY <2>1 DEF PoolOfSelect
  <2>3. CASE ~stopping
    BY <2>1, <2>2, <2>3 DEF PoolOfSelect, NothingSubmitted, Unfinished
  <2>4. CASE stopping
    <3>1. \A w \in Workers : worker[w] = "exited" /\ tasks = <<>> /\ job[w] = 0
      BY <2>1, <2>2, <2>4 DEF PoolOfSelect
    <3>2. \E w \in Workers : TRUE
      BY PoolAssumption, FS_EmptySet
    <3>3. tasks = <<>> /\ Len(tasks) = 0 /\ 0 \notin Pages
      BY <2>1, <3>1, <3>2, PagesOfQuery DEF ThreadsTypeOK
    <3>4. \A p \in Pages : future[p] # "queued"
      BY <2>1, <3>1, <3>3 DEF RunnerOfPage
    <3> QED BY <2>2, <3>3, <3>4 DEF Unfinished
  <2>5. stopping \in BOOLEAN
    BY <2>1 DEF ThreadsTypeOK
  <2> QED BY <2>3, <2>4, <2>5
<1> QED BY <1>1, PoolInductive, PTL

(* All variables keep their types: the result only ever holds rows of the    *)
(* table, and no more is skipped than the offset.                            *)
THEOREM TypeCorrect == Spec => []TypeOK
<1>1. Init => TypeOK
  <2> SUFFICES ASSUME Init PROVE TypeOK
    OBVIOUS
  <2>1. ThreadsTypeOK /\ q \in Queries
    BY InitInv DEF PoolInv, ThreadsTypeOK
  <2>2. PICK none \in Nat : none = 0
    OBVIOUS
  <2>3. state = StateAfter(q, none) /\ IsQuery(q)
    BY <2>1, <2>2, QueryFacts DEF Init
  <2>4. state \in [skipped : 0 .. q.offset, rows : Seq(1 .. Len(q.rows)), complete : BOOLEAN]
    BY <2>3, StateType
  <2>5. outcome.kind \in {"running", "rows", "error"}
    BY DEF Init, Running
  <2> QED BY <2>1, <2>4, <2>5 DEF TypeOK
<1>2. IInv /\ IInv' /\ TypeOK /\ [Next]_vars => TypeOK'
  BY NextType DEF TypeOK, IInv, PoolInv
<1> QED BY <1>1, <1>2, Inductive, PTL DEF Spec

(* Whatever the schedule of its workers and the number of pages it reads     *)
(* ahead, select returns the answer to the query in table order, and throws  *)
(* exactly when a page that it collects or reads ahead makes it, or when the *)
(* system refused it a thread.                                               *)
THEOREM Answers == Spec => []AnswersTheQuery
<1>1. IInv => AnswersTheQuery
  <2> SUFFICES ASSUME IInv, pc = "done", outcome # ExpectedOutcome
               PROVE  SpawnMayFail /\ outcome = Error /\ \A w \in Workers : worker[w] = "unborn"
    BY DEF AnswersTheQuery, ExpectedOutcome
  <2>1. SpawnMayFail /\ outcome = Error /\ ~stopping
    BY DEF IInv, AnswerInv
  <2>2. \A w \in Workers : /\ worker[w] \in {"unborn", "exited"}
                           /\ worker[w] = "exited" => stopping
    BY DEF IInv, PoolInv, PoolOfSelect
  <2> QED BY <2>1, <2>2
<1> QED BY <1>1, Inductive, PTL
=============================================================================
