--------------------------- MODULE ParallelSelect ---------------------------
(***************************************************************************)
(* DatabaseManager::select with several workers: the thread that runs the  *)
(* select reads pages and submits them to a ThreadPool, at most            *)
(* maxInFlight of them uncollected, and takes the results from their       *)
(* futures in the order of the pages.  The pool is a queue, a mutex and a  *)
(* condition variable; a step of a thread is what it does while it holds   *)
(* the mutex, or between two such sections.  The workers' results are      *)
(* functions of their pages, so a future only is queued or ready.  A query *)
(* has one more field here: QueryExecutionOptions::maxInFlightBatches.     *)
(***************************************************************************)
EXTENDS SelectQuery, FiniteSets

CONSTANTS Queries,       \* the queries, with the tables they run over
          Workers,       \* the threads of the pool
          SpawnMayFail   \* whether the system may refuse to create a thread

ASSUME PoolAssumption ==
  /\ IsFiniteSet(Workers) /\ Cardinality(Workers) > 1
  /\ \A r \in Queries : IsQuery(r) /\ r.maxInFlight \in Nat \ {0}
  /\ SpawnMayFail \in BOOLEAN

VARIABLES q,         \* the query
          read,      \* how many pages the cursor has returned
          finished,  \* TableCursor::finished()
          state,     \* QueryExecutor::State of the calling thread
          pending,   \* the futures not yet collected, by the number of their page
          tasks,     \* the pool's queue of pages
          stopping,  \* the pool is being destroyed
          future,    \* for every page: "none", "queued" or "ready"
          worker,    \* for every worker: what it does
          job,       \* for every worker: the page it evaluates
          pc,        \* the next step of the calling thread
          outcome    \* what select returns or throws

vars == <<q, read, finished, state, pending, tasks, stopping, future, worker, job,
          pc, outcome>>

cursor == <<read, finished>>
pool == <<tasks, stopping, future, worker, job>>

Pages == {p \in 1 .. Len(q.rows) : ~IsEmptyPage(q, p)}

Init == /\ q \in Queries
        /\ read = 0
        /\ finished = FALSE
        /\ state = BeginState(q)
        /\ pending = <<>>
        /\ tasks = <<>>
        /\ stopping = FALSE
        /\ future = [p \in Pages |-> "none"]
        /\ worker = [w \in Workers |-> "unborn"]
        /\ job = [w \in Workers |-> 0]
        /\ pc = "begin"
        /\ outcome = Running

-----------------------------------------------------------------------------
(* The calling thread, before there is a pool. *)

ReturnAtOnce == /\ pc = "begin" /\ state.complete
                /\ outcome' = Rows(<<>>)
                /\ pc' = "done"
                /\ UNCHANGED <<q, cursor, state, pending, pool>>

(* The first page.  A table that ends in it needs no pool. *)
ReadFirst ==
  /\ pc = "begin" /\ ~state.complete
  /\ \/ /\ ReadFails(q, 1)
        /\ outcome' = Error /\ pc' = "done"
        /\ UNCHANGED <<cursor, state>>
     \/ /\ ~ReadFails(q, 1)
        /\ read' = 1 /\ finished' = ReachesEnd(q, 1)
        /\ IF finished'
           THEN /\ state' = ExecuteBatch(q, state, 1)
                /\ outcome' = IF ExecuteRaises(q, state, 1) THEN Error
                              ELSE Rows(state'.rows)
                /\ pc' = "done"
           ELSE pc' = "spawn" /\ UNCHANGED <<state, outcome>>
  /\ UNCHANGED <<q, pending, pool>>

(* The pool's constructor starts its threads one by one. *)
Spawn == /\ pc = "spawn"
         /\ \E w \in Workers :
              /\ worker[w] = "unborn"
              /\ worker' = [worker EXCEPT ![w] = "check"]
         /\ pc' = IF \A w \in Workers : worker'[w] # "unborn" THEN "submit" ELSE "spawn"
         /\ UNCHANGED <<q, cursor, state, pending, tasks, stopping, future, job, outcome>>

(* A thread that cannot be created ends the constructor with an exception.   *)
(* The members of the pool are destroyed, the threads first, which joins     *)
(* them; ~ThreadPool does not run.                                           *)
SpawnFails == /\ SpawnMayFail
              /\ pc = "spawn"
              /\ outcome' = Error
              /\ pc' = "join"
              /\ UNCHANGED <<q, cursor, state, pending, pool>>

-----------------------------------------------------------------------------
(* The calling thread, with the pool. *)

(* ThreadPool::submit, for the page read last: the task is queued under the  *)
(* mutex, one waiting worker is notified after it is released.               *)
Submit == /\ pc = "submit"
          /\ tasks' = Append(tasks, read)
          /\ future' = [future EXCEPT ![read] = "queued"]
          /\ pending' = Append(pending, read)
          /\ pc' = "notify"
          /\ UNCHANGED <<q, cursor, state, stopping, worker, job, outcome>>

NotifyOne == /\ pc = "notify"
             /\ \/ \E w \in Workers : /\ worker[w] = "waiting"
                                      /\ worker' = [worker EXCEPT ![w] = "check"]
                \/ (\A w \in Workers : worker[w] # "waiting") /\ UNCHANGED worker
             /\ pc' = "fill"
             /\ UNCHANGED <<q, cursor, state, pending, tasks, stopping, future, job,
                            outcome>>

(* The outer loop's condition. *)
Loop == /\ pc = "loop"
        /\ IF (~finished \/ pending # <<>>) /\ ~state.complete
           THEN pc' = "fill" /\ UNCHANGED outcome
           ELSE pc' = "stop" /\ outcome' = Rows(state.rows)
        /\ UNCHANGED <<q, cursor, state, pending, pool>>

(* The inner loop reads ahead while there is room. *)
(* Mutant: one page too many. *)
HasRoomForOneMore == Len(pending) <= q.maxInFlight
HasRoom == Len(pending) < q.maxInFlight

Fill == /\ pc = "fill" /\ ~finished /\ HasRoom
        /\ IF ReadFails(q, read + 1)
           THEN outcome' = Error /\ pc' = "stop" /\ UNCHANGED cursor
           ELSE /\ read' = read + 1 /\ finished' = ReachesEnd(q, read + 1)
                /\ pc' = IF IsEmptyPage(q, read + 1) THEN "collect" ELSE "submit"
                /\ UNCHANGED outcome
        /\ UNCHANGED <<q, state, pending, pool>>

Filled == /\ pc = "fill" /\ (finished \/ ~HasRoom)
          /\ pc' = "collect"
          /\ UNCHANGED <<q, cursor, state, pending, pool, outcome>>

(* execute(workerQuery, ...): the matches of the page; the offset and the    *)
(* limit are left to the calling thread.                                     *)
(* Mutant: the workers run the query with its offset.                        *)
PageResultWithOffset(p) ==
  LET matches == Matching(q, FirstOf(q, p), LastOf(q, p))
  IN  SubSeq(matches, q.offset + 1, Len(matches))
PageResult(p) == Matching(q, FirstOf(q, p), LastOf(q, p))

(* future.get() on the oldest future blocks until it is ready; it rethrows   *)
(* what the worker's execute threw, which has evaluated the whole page.      *)
CollectFront ==
  /\ pc = "collect" /\ pending # <<>>
  /\ LET p == Head(pending)
     IN  /\ future[p] = "ready"
         /\ IF PageRaises(q, p)
            THEN outcome' = Error /\ pc' = "stop" /\ UNCHANGED <<state, pending>>
            ELSE /\ state' = Collect(q, state, PageResult(p))
                 /\ pending' = Tail(pending)
                 /\ pc' = "loop"
                 /\ UNCHANGED outcome
  /\ UNCHANGED <<q, cursor, pool>>

NothingToCollect == /\ pc = "collect" /\ pending = <<>>
                    /\ pc' = "loop"
                    /\ UNCHANGED <<q, cursor, state, pending, pool, outcome>>

(* Leaving select, with a result or an exception: the futures go, then       *)
(* ~ThreadPool sets stopping_, notifies every waiting worker and joins all.  *)
Stop == /\ pc = "stop"
        /\ pending' = <<>>
        /\ stopping' = TRUE
        /\ pc' = "notifyAll"
        /\ UNCHANGED <<q, cursor, state, tasks, future, worker, job, outcome>>

(* Mutant: the waiting workers are not notified. *)
NotifyNobody == /\ pc = "notifyAll"
                /\ pc' = "join"
                /\ UNCHANGED <<q, cursor, state, pending, pool, outcome>>

NotifyAll == /\ pc = "notifyAll"
             /\ worker' = [w \in Workers |->
                             IF worker[w] = "waiting" THEN "check" ELSE worker[w]]
             /\ pc' = "join"
             /\ UNCHANGED <<q, cursor, state, pending, tasks, stopping, future, job,
                            outcome>>

Join == /\ pc = "join"
        /\ \A w \in Workers : worker[w] \in {"unborn", "exited"}
        /\ pc' = "done"
        /\ UNCHANGED <<q, cursor, state, pending, pool, outcome>>

Main == \/ ReturnAtOnce \/ ReadFirst \/ Spawn \/ SpawnFails \/ Submit \/ NotifyOne
        \/ Loop \/ Fill \/ Filled \/ CollectFront \/ NothingToCollect
        \/ Stop \/ NotifyAll \/ Join

-----------------------------------------------------------------------------
(* A worker holds the mutex from its check to the task it takes, to the wait *)
(* or to its end; a wait that is notified checks again.                      *)

mainState == <<q, cursor, state, pending, pc, outcome>>

(* Mutants: the task stays in the queue; a stopped pool drops its queue. *)
NotPopped == tasks
Popped == Tail(tasks)
MayExitEarly == stopping
MayExit == stopping /\ tasks = <<>>

Take(w) == /\ worker[w] = "check" /\ tasks # <<>>
           /\ job' = [job EXCEPT ![w] = Head(tasks)]
           /\ tasks' = Popped
           /\ worker' = [worker EXCEPT ![w] = "running"]
           /\ UNCHANGED <<mainState, stopping, future>>

Wait(w) == /\ worker[w] = "check" /\ tasks = <<>> /\ ~stopping
           /\ worker' = [worker EXCEPT ![w] = "waiting"]
           /\ UNCHANGED <<mainState, tasks, stopping, future, job>>

Exit(w) == /\ worker[w] = "check" /\ MayExit
           /\ worker' = [worker EXCEPT ![w] = "exited"]
           /\ UNCHANGED <<mainState, tasks, stopping, future, job>>

(* The packaged task stores its result, or its exception, in the future. *)
Run(w) == /\ worker[w] = "running"
          /\ future' = [future EXCEPT ![job[w]] = "ready"]
          /\ job' = [job EXCEPT ![w] = 0]
          /\ worker' = [worker EXCEPT ![w] = "check"]
          /\ UNCHANGED <<mainState, tasks, stopping>>

Work(w) == Take(w) \/ Wait(w) \/ Exit(w) \/ Run(w)

Next == Main \/ \E w \in Workers : Work(w)

Spec == Init /\ [][Next]_vars

(* Threads that can run are run: the operating system's scheduling.          *)
FairSpec == Spec /\ WF_vars(Main) /\ \A w \in Workers : WF_vars(Work(w))

-----------------------------------------------------------------------------
(* Properties. *)

ThreadsTypeOK ==
  /\ q \in Queries
  /\ read \in Nat /\ finished \in BOOLEAN
  /\ pending \in Seq(Pages) /\ tasks \in Seq(Pages)
  /\ stopping \in BOOLEAN
  /\ future \in [Pages -> {"none", "queued", "ready"}]
  /\ worker \in [Workers -> {"unborn", "check", "waiting", "running", "exited"}]
  /\ job \in [Workers -> Pages \cup {0}]
  /\ pc \in {"begin", "spawn", "submit", "notify", "loop", "fill", "collect",
             "stop", "notifyAll", "join", "done"}

TypeOK == /\ ThreadsTypeOK
          /\ state \in [skipped : 0 .. q.offset, rows : Seq(1 .. Len(q.rows)),
                       complete : BOOLEAN]
          /\ outcome.kind \in {"running", "rows", "error"}

(* Read-ahead is bounded, whatever the workers' speed: the pages that have   *)
(* been read and not collected are no more than the options allow, are       *)
(* consecutive, and all that is queued or being evaluated is among them      *)
(* until the select gives up on them.                                        *)
Unfinished == {p \in Pages : future[p] = "queued"}
BoundedReadAhead ==
  /\ Len(pending) + (IF pc = "submit" THEN 1 ELSE 0) <= q.maxInFlight
  /\ Cardinality(Unfinished) <= q.maxInFlight
  /\ \A i \in 1 .. Len(pending) - 1 : pending[i + 1] = pending[i] + 1
  /\ ~stopping => \A p \in Unfinished : \E i \in 1 .. Len(pending) : pending[i] = p

(* A queued page is in the queue or with exactly one worker, never lost and  *)
(* never evaluated twice.                                                    *)
OneRunnerPerPage ==
  \A p \in Pages :
    Cardinality({i \in 1 .. Len(tasks) : tasks[i] = p})
      + Cardinality({w \in Workers : job[w] = p})
      = (IF future[p] = "queued" THEN 1 ELSE 0)

(* Once select has returned or thrown, no worker is left that could touch    *)
(* the schema or the executor its tasks refer to, and every page submitted   *)
(* was evaluated, also those nobody wanted any more.                         *)
QuietAfterReturn ==
  pc = "done" => /\ \A w \in Workers : worker[w] \in {"unborn", "exited"}
                 /\ tasks = <<>> /\ Unfinished = {}

(* The inductive invariant behind these.  Nobody works before the pool is    *)
(* built and after it is joined, and between the two every worker is there.  *)
NothingSubmitted == tasks = <<>> /\ pending = <<>> /\ \A p \in Pages : future[p] = "none"

PoolOfSelect ==
  /\ pc = "notifyAll" => stopping
  /\ stopping => pc \in {"notifyAll", "join", "done"}
  /\ ~stopping /\ pc \in {"begin", "spawn", "join", "done"} => NothingSubmitted
  /\ pc = "begin" => \A w \in Workers : worker[w] = "unborn"
  /\ pc = "done" => \A w \in Workers : worker[w] \in {"unborn", "exited"}
  /\ stopping \/ pc \in {"submit", "notify", "loop", "fill", "collect", "stop"} =>
       \A w \in Workers : worker[w] # "unborn"
  /\ \A w \in Workers : /\ worker[w] = "exited" => stopping /\ tasks = <<>>
                        /\ worker[w] = "running" <=> job[w] # 0

(* Pages are submitted once, in the order in which they are read, and the    *)
(* one that was read last is the last one pending.                           *)
PagesInOrder ==
  /\ \A p \in Pages : future[p] # "none" => p <= read
  /\ pc = "spawn" => read = 1 /\ read \in Pages
  /\ pc = "submit" => read \in Pages /\ future[read] = "none"
  /\ pending # <<>> => /\ pc = "submit" => pending[Len(pending)] = read - 1
                       /\ pc # "submit" /\ ~finished => pending[Len(pending)] = read

(* Every page that is queued has its place in the queue, or its worker, and  *)
(* only one.                                                                 *)
RunnerOfPage ==
  /\ \A i, j \in 1 .. Len(tasks) : tasks[i] = tasks[j] => i = j
  /\ \A v, w \in Workers : job[v] = job[w] /\ job[v] # 0 => v = w
  /\ \A i \in 1 .. Len(tasks), w \in Workers : tasks[i] # job[w]
  /\ \A p \in Pages : future[p] = "queued" <=> \/ \E i \in 1 .. Len(tasks) : tasks[i] = p
                                               \/ \E w \in Workers : job[w] = p

PoolInv == /\ ThreadsTypeOK /\ PoolOfSelect /\ PagesInOrder
           /\ RunnerOfPage /\ BoundedReadAhead

(* The page that was submitted last, or is about to be: the page read last,  *)
(* unless it was empty; and how many pages have been collected.  The pending *)
(* pages are those in between.                                               *)
LastPage == IF IsEmptyPage(q, read) THEN read - 1 ELSE read
Collected == LastPage - Len(pending) - (IF pc \in {"spawn", "submit"} THEN 1 ELSE 0)

PagesAccountedFor ==
  /\ finished <=> ReachesEnd(q, read)
  /\ ~ReachesEnd(q, read - 1)
  /\ IF pc = "begin" THEN read = 0 ELSE ~ReachesEnd(q, 1) /\ read > 0
  /\ Collected \in Nat
  /\ \A i \in 1 .. Len(pending) : pending[i] = Collected + i

(* Until select is left, its state is what the collected pages make of the   *)
(* query, and no page has thrown yet; it goes on reading and collecting only *)
(* as long as the result is not complete, and collects only when it has read *)
(* ahead as far as it may.                                                   *)
AnswerSoFar ==
  /\ outcome = Running
  /\ state = StateAfter(q, Collected)
  /\ \A p \in 1 .. read : ~ReadFails(q, p)
  /\ \A p \in 1 .. Collected : ~PageRaises(q, p)
  /\ pc # "begin" => q.limit # 0
  /\ pc \notin {"begin", "loop"} => ~state.complete
  /\ pc = "collect" => finished \/ ~HasRoom
  /\ pc = "loop" => finished \/ Len(pending) + 1 >= q.maxInFlight

ExpectedOutcome == ParallelOutcome(q, q.maxInFlight - 1)

AnswerInv ==
  /\ pc \in {"begin", "spawn", "submit", "notify", "loop", "fill", "collect"} =>
       PagesAccountedFor /\ AnswerSoFar
  /\ stopping \/ pc = "stop" => outcome = ExpectedOutcome
  /\ pc = "join" /\ ~stopping => SpawnMayFail /\ outcome = Error
  /\ pc = "done" => \/ outcome = ExpectedOutcome
                    \/ SpawnMayFail /\ outcome = Error /\ ~stopping

IInv == PoolInv /\ AnswerInv

(* Whatever the schedule of the workers, the result is the answer to the     *)
(* query in table order, and select throws exactly when a page it collects,  *)
(* or a page it reads ahead, makes it.                                       *)
AnswersTheQuery ==
  pc = "done" =>
    \/ outcome = ParallelOutcome(q, q.maxInFlight - 1)
    \/ SpawnMayFail /\ outcome = Error /\ \A w \in Workers : worker[w] = "unborn"

(* Once it has all its threads every select returns or throws: no wakeup is  *)
(* lost and no thread waits for one that never comes.                        *)
RefusedThread == pc = "join" /\ ~stopping
Terminates == <>(pc = "done" \/ RefusedThread)

(* Every select returns or throws, one whose pool could not be built         *)
(* included ("Declared last so jthreads join before synchronization members  *)
(* are destroyed", the pool's members).                                      *)
EvenThenTerminates == <>(pc = "done")
=============================================================================
