----------------------------- MODULE ThreadsPool -----------------------------
(***************************************************************************)
(* The thread pool: class ThreadsPool (src/threads/threadpool.cpp and      *)
(* include/threads/threadpool.h).  Workers wait on a semaphore, look at    *)
(* the flag `running' and take a task from a queue.  The thread that made  *)
(* the pool is the one that commits to it and destroys it (Server's        *)
(* constructor and destructor, test/thread.cpp).                           *)
(*                                                                         *)
(* `running' is a plain bool, written by the owner and read by the workers *)
(* with no lock.  The store is followed by sem_post and every read by a    *)
(* call of sem_wait, so the read cannot be hoisted and a late store is the *)
(* store taken later: the outcomes are those of the interleavings here.    *)
(***************************************************************************)
EXTENDS Integers, Sequences, FiniteSets

CONSTANTS
  Workers,    \* tpool: one for each processor
  Tasks,      \* what may be committed
  Endless     \* those that never return: EventLoop::loop, whose quit stays false

ASSUME WorkersAssumption == IsFiniteSet(Workers) /\ Workers # {}
ASSUME TasksAssumption == IsFiniteSet(Tasks) /\ Endless \subseteq Tasks

VARIABLES
  running,    \* the flag
  queue,      \* tasks
  sem,        \* the value of semTask
  worker,     \* worker -> where it is in its loop
  held,       \* worker -> the tasks it took and has not finished
  owner,      \* "serving", then the steps of the destructor
  posted,     \* how often the destructor has posted
  committed, started    \* history

poolstate == <<running, queue, sem, worker, held, owner, posted, committed, started>>

At(place)   == {w \in Workers : worker[w] = place}
Goes(w, to) == worker' = [worker EXCEPT ![w] = to]

-----------------------------------------------------------------------------
(* The owner.                                                              *)

\* Mutant: the semaphore is told of a task only when there was none.
CommitWakesFirst(t) ==
  /\ owner = "serving" /\ running /\ t \notin committed
  /\ queue' = Append(queue, t)
  /\ sem' = IF queue = <<>> THEN sem + 1 ELSE sem
  /\ committed' = committed \cup {t}
  /\ UNCHANGED <<running, worker, held, owner, posted, started>>

\* commit(): the queue and the semaphore under the mutex.  The owner reads
\* the flag it alone writes, so nothing is refused while it commits.
Commit(t) ==
  /\ owner = "serving" /\ running /\ t \notin committed
  /\ queue' = Append(queue, t)
  /\ sem' = sem + 1
  /\ committed' = committed \cup {t}
  /\ UNCHANGED <<running, worker, held, owner, posted, started>>

\* The destructor, line 39.
Stop ==
  /\ owner = "serving"
  /\ running' = FALSE /\ owner' = "posting"
  /\ UNCHANGED <<queue, sem, worker, held, posted, committed, started>>

\* Mutant: one post too few.
PostsShort == Cardinality(Workers) - 1

\* tpool.size() posts, lines 41-43.
Posts == Cardinality(Workers)

\* Mutant: the loop runs to its bound inclusive.
PostOnceMore ==
  /\ owner = "posting"
  /\ IF posted <= Posts
     THEN sem' = sem + 1 /\ posted' = posted + 1 /\ UNCHANGED owner
     ELSE owner' = "joining" /\ UNCHANGED <<sem, posted>>
  /\ UNCHANGED <<running, queue, worker, held, committed, started>>

Post ==
  /\ owner = "posting"
  /\ IF posted < Posts
     THEN sem' = sem + 1 /\ posted' = posted + 1 /\ UNCHANGED owner
     ELSE owner' = "joining" /\ UNCHANGED <<sem, posted>>
  /\ UNCHANGED <<running, queue, worker, held, committed, started>>

\* join() of every thread, then sem_destroy().
Join ==
  /\ owner = "joining" /\ At("out") = Workers
  /\ owner' = "gone"
  /\ UNCHANGED <<running, queue, sem, worker, held, posted, committed, started>>

-----------------------------------------------------------------------------
(* A worker's loop, lines 18-28.                                           *)

\* sem_wait().
Wait(w) ==
  /\ worker[w] = "waiting" /\ sem > 0
  /\ sem' = sem - 1 /\ Goes(w, "woken")
  /\ UNCHANGED <<running, queue, held, owner, posted, committed, started>>

\* Mutant: the worker asks whether the semaphore is spent, not the flag.
StaysIfPosted == running \/ sem > 0

Stays == running

\* if (!running) break, before the mutex is taken.
Look(w) ==
  /\ worker[w] = "woken"
  /\ Goes(w, IF Stays THEN "taking" ELSE "out")
  /\ UNCHANGED <<running, queue, sem, held, owner, posted, committed, started>>

\* front() and pop() under the mutex; both are undefined on an empty queue,
\* and PopFindsTask says they never meet one.
Take(w) ==
  /\ worker[w] = "taking" /\ queue # <<>>
  /\ queue' = Tail(queue)
  /\ held' = [held EXCEPT ![w] = {Head(queue)}]
  /\ started' = started \cup {Head(queue)}
  /\ Goes(w, "running")
  /\ UNCHANGED <<running, sem, owner, posted, committed>>

\* task() returns.
Return(w) ==
  /\ worker[w] = "running" /\ held[w] \cap Endless = {}
  /\ held' = [held EXCEPT ![w] = {}] /\ Goes(w, "waiting")
  /\ UNCHANGED <<running, queue, sem, owner, posted, committed, started>>

-----------------------------------------------------------------------------
ThreadsInit ==
  /\ running = TRUE /\ queue = <<>> /\ sem = 0
  /\ worker = [w \in Workers |-> "waiting"]
  /\ held = [w \in Workers |-> {}]
  /\ owner = "serving" /\ posted = 0
  /\ committed = {} /\ started = {}

WorkerStep(w) == Wait(w) \/ Look(w) \/ Take(w) \/ Return(w)
Destructor    == Stop \/ Post \/ Join

ThreadsNext ==
  \/ \E t \in Tasks : Commit(t)
  \/ Destructor
  \/ \E w \in Workers : WorkerStep(w)

\* Threads are scheduled: a worker that can go on does, and so does a
\* destructor once it was entered.  Nobody has to commit or to destroy.
ThreadsSpec ==
  /\ ThreadsInit /\ [][ThreadsNext]_poolstate
  /\ WF_poolstate(Post \/ Join)
  /\ \A w \in Workers : WF_poolstate(WorkerStep(w))

-----------------------------------------------------------------------------
(* Properties.                                                             *)

\* Every variable keeps its type.
ThreadsTypeOK ==
  /\ running \in BOOLEAN /\ queue \in Seq(Tasks) /\ sem \in Nat
  /\ worker \in [Workers -> {"waiting", "woken", "taking", "running", "out"}]
  /\ held \in [Workers -> SUBSET Tasks]
  /\ owner \in {"serving", "posting", "joining", "gone"} /\ posted \in 0..Posts
  /\ committed \subseteq Tasks /\ started \subseteq committed

\* The workers past the flag never outnumber the queue, also when the flag
\* falls and the destructor posts while they are between flag and mutex: no
\* front() of an empty queue.
PopFindsTask == Cardinality(At("taking")) <= Len(queue)

\* What is committed is started, in whatever order tasks end, unless the
\* pool is shut down or every thread is given to a task that never returns:
\* the loops Server commits, as many as there are workers, all get a thread.
CommittedStarts ==
  \A t \in Tasks :
    (t \in committed) ~> \/ t \in started
                         \/ ~running
                         \/ \A w \in Workers : held[w] \cap Endless # {}

\* The destructor returns whatever the workers were doing when the flag
\* fell, except while a task that never returns is being run.
DestructorReturns ==
  (owner # "serving") ~> (owner = "gone" \/ \E w \in Workers : held[w] \cap Endless # {})

\* server.cpp:38, "releases the thread pool": its destructor comes to an end,
\* although Server has committed its event loops to it.
ShutdownEnds == (owner # "serving") ~> (owner = "gone")

=============================================================================
