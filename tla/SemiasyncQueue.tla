--------------------------- MODULE SemiasyncQueue ---------------------------
(***************************************************************************)
(* include/ds2i/semiasync_queue.hpp.  A builder hands its jobs to the      *)
(* queue from one thread, the main thread.  Jobs are collected in          *)
(* m_next_thread; when enough work has been collected the batch is given   *)
(* to a worker thread that runs prepare() on each of its jobs.  commit()   *)
(* is only ever run by the main thread: on the batch at the front of       *)
(* m_running_threads, after joining the batch's worker.  With zero worker  *)
(* threads every job is prepared and committed inside add_job.             *)
(*                                                                         *)
(* A job is the number of the add_job call that brought it.  A call to a   *)
(* job's prepare() takes time, other threads run in between: it is a begin *)
(* step and an end step.                                                   *)
(***************************************************************************)
EXTENDS Naturals, Sequences

CONSTANTS
  NumJobs,        \* bound: how many jobs the caller adds at most
  WorkValues,     \* the values of expected_work the caller passes
  WorkPerThread,  \* m_work_per_thread
  ThreadCounts    \* the values of configuration::worker_threads considered

ASSUME QueueAssumption ==
  /\ NumJobs \in Nat
  /\ WorkValues \subseteq Nat
  /\ WorkPerThread \in Nat \ {0}
  /\ ThreadCounts \subseteq Nat

VARIABLES
  max_threads,      \* m_max_threads
  next_thread,      \* m_next_thread.first: the jobs of the batch being filled
  running_threads,  \* m_running_threads: batches, each with its worker's progress
  expected_work,    \* m_expected_work
  added,            \* how many jobs the caller has added
  prepared,         \* the jobs whose prepare() has returned
  committed,        \* the jobs whose commit() has run, in that order
  pc,               \* where the main thread is in add_job and complete
  commit_pc,        \* where it is in commit_thread: "out", "join" or "commit"
  next_commit,      \* index in the front batch of the next job to commit
  completing        \* complete() has been called

vars == <<max_threads, next_thread, running_threads, expected_work, added,
          prepared, committed, pc, commit_pc, next_commit, completing>>

Jobs == 1 .. NumJobs

PCs == {"idle", "inline", "spawn", "drain", "done", "terminated"}

(* A batch and its worker: `started` jobs of the batch have entered          *)
(* prepare(), `finished` have left it.                                       *)
Batches == [jobs : Seq(Jobs), started : Nat, finished : Nat]

Busy(b) == b.started = b.finished + 1

Finished(b) == b.finished = Len(b.jobs)

TypeOK ==
  /\ max_threads \in Nat
  /\ next_thread \in Seq(Jobs)
  /\ running_threads \in Seq(Batches)
  /\ \A k \in 1 .. Len(running_threads) :
       running_threads[k].started <= Len(running_threads[k].jobs)
  /\ expected_work \in Nat
  /\ added \in 0 .. NumJobs
  /\ prepared \subseteq Jobs
  /\ committed \in Seq(Jobs)
  /\ pc \in PCs
  /\ commit_pc \in {"out", "join", "commit"}
  /\ next_commit \in Nat \ {0}
  /\ completing \in BOOLEAN

Init ==
  /\ max_threads \in ThreadCounts
  /\ next_thread = <<>>
  /\ running_threads = <<>>
  /\ expected_work = 0
  /\ added = 0
  /\ prepared = {}
  /\ committed = <<>>
  /\ pc = "idle"
  /\ commit_pc = "out"
  /\ next_commit = 1
  /\ completing = FALSE

-----------------------------------------------------------------------------
(* Plausible slips in the code's tests and updates.  They are not part of    *)
(* the specification: each one, put in the place of the definition it is a   *)
(* slip in, must make TLC refute a property (the project's mutation runs).   *)

ForgetPartialBatch == FALSE
ForgetRunningBatches == FALSE
PushFront(batches, b) == <<b>> \o batches
NewestBatch == running_threads[Len(running_threads)]
JoinNothing(b) == TRUE
OneJobTooMany(b) == b.finished <= Len(b.jobs)
SameJobAgain(b) == [b EXCEPT !.started = @ - 1]

-----------------------------------------------------------------------------
(* The main thread: add_job and complete.                                    *)

ReachesThreshold(work) == work >= WorkPerThread

HasPartialBatch == next_thread # <<>>

MoreToDrain == running_threads # <<>>

AddJob(work) ==
  /\ pc = "idle"
  /\ added < NumJobs
  /\ max_threads # 0
  /\ added' = added + 1
  /\ next_thread' = Append(next_thread, added')
  /\ expected_work' = expected_work + work
  /\ pc' = IF ReachesThreshold(expected_work') THEN "spawn" ELSE "idle"
  /\ UNCHANGED <<max_threads, running_threads, prepared, committed, commit_pc,
                 next_commit, completing>>

AddJobInline ==
  /\ pc = "idle"
  /\ added < NumJobs
  /\ max_threads = 0
  /\ added' = added + 1
  /\ pc' = "inline"
  /\ UNCHANGED <<max_threads, next_thread, running_threads, expected_work,
                 prepared, committed, commit_pc, next_commit, completing>>

(* j->prepare(); j->commit(); in the main thread.                            *)
RunInline ==
  /\ pc = "inline"
  /\ prepared' = prepared \cup {added}
  /\ committed' = Append(committed, added)
  /\ pc' = "idle"
  /\ UNCHANGED <<max_threads, next_thread, running_threads, expected_work,
                 added, commit_pc, next_commit, completing>>

(* complete(): a last, partial batch is spawned, then everything is joined.  *)
Complete ==
  /\ pc = "idle"
  /\ completing' = TRUE
  /\ pc' = IF HasPartialBatch THEN "spawn" ELSE "drain"
  /\ UNCHANGED <<max_threads, next_thread, running_threads, expected_work,
                 added, prepared, committed, commit_pc, next_commit>>

(* The while loop of complete().                                             *)
Drain ==
  /\ pc = "drain" /\ commit_pc = "out"
  /\ IF MoreToDrain
       THEN commit_pc' = "join" /\ UNCHANGED pc
       ELSE pc' = "done" /\ UNCHANGED commit_pc
  /\ UNCHANGED <<max_threads, next_thread, running_threads, expected_work,
                 added, prepared, committed, next_commit, completing>>

-----------------------------------------------------------------------------
(* spawn_next_thread: make room if all workers are taken, then swap the      *)
(* collected jobs into a new batch at the back and start its worker.  After  *)
(* one commit_thread there is room, so the code does not test again.         *)

IsFull == Len(running_threads) = max_threads

PushBatch(batches, b) == Append(batches, b)

MakeRoom ==
  /\ pc = "spawn" /\ commit_pc = "out"
  /\ IsFull
  /\ commit_pc' = "join"
  /\ UNCHANGED <<max_threads, next_thread, running_threads, expected_work,
                 added, prepared, committed, pc, next_commit, completing>>

SpawnThread ==
  /\ pc = "spawn" /\ commit_pc = "out"
  /\ ~ IsFull
  /\ running_threads' = PushBatch(running_threads,
                          [jobs |-> next_thread, started |-> 0, finished |-> 0])
  /\ next_thread' = <<>>
  /\ expected_work' = 0
  /\ pc' = IF completing THEN "drain" ELSE "idle"
  /\ UNCHANGED <<max_threads, added, prepared, committed, commit_pc,
                 next_commit, completing>>

-----------------------------------------------------------------------------
(* commit_thread: join the worker of the front batch, commit the batch's     *)
(* jobs in order, drop the batch.                                            *)

FrontBatch == Head(running_threads)

CanJoin(b) == Finished(b)

Join ==
  /\ pc # "terminated"
  /\ commit_pc = "join"
  /\ CanJoin(FrontBatch)
  /\ commit_pc' = "commit"
  /\ UNCHANGED <<max_threads, next_thread, running_threads, expected_work,
                 added, prepared, committed, pc, next_commit, completing>>

CommitJob ==
  /\ pc # "terminated"
  /\ commit_pc = "commit"
  /\ next_commit <= Len(FrontBatch.jobs)
  /\ committed' = Append(committed, FrontBatch.jobs[next_commit])
  /\ next_commit' = next_commit + 1
  /\ UNCHANGED <<max_threads, next_thread, running_threads, expected_work,
                 added, prepared, pc, commit_pc, completing>>

PopFront ==
  /\ pc # "terminated"
  /\ commit_pc = "commit"
  /\ next_commit > Len(FrontBatch.jobs)
  /\ running_threads' = Tail(running_threads)
  /\ next_commit' = 1
  /\ commit_pc' = "out"
  /\ UNCHANGED <<max_threads, next_thread, expected_work, added, prepared,
                 committed, pc, completing>>

-----------------------------------------------------------------------------
(* The workers: for (auto const& j : cur_queue) j->prepare();                *)

HasMoreJobs(b) == b.finished < Len(b.jobs)

AfterPrepare(b) == [b EXCEPT !.finished = @ + 1]

BeginPrepare(k) ==
  /\ pc # "terminated"
  /\ k \in 1 .. Len(running_threads)
  /\ ~ Busy(running_threads[k])
  /\ HasMoreJobs(running_threads[k])
  /\ running_threads' = [running_threads EXCEPT ![k].started = @ + 1]
  /\ UNCHANGED <<max_threads, next_thread, expected_work, added, prepared,
                 committed, pc, commit_pc, next_commit, completing>>

EndPrepare(k) ==
  /\ pc # "terminated"
  /\ k \in 1 .. Len(running_threads)
  /\ Busy(running_threads[k])
  /\ running_threads' = [running_threads EXCEPT ![k] = AfterPrepare(@)]
  /\ prepared' = prepared \cup
                   {running_threads[k].jobs[running_threads[k].started]}
  /\ UNCHANGED <<max_threads, next_thread, expected_work, added, committed,
                 pc, commit_pc, next_commit, completing>>

(* An exception that leaves prepare() ends the process: on a worker the      *)
(* thread function does not catch it (std::terminate), inline no caller in   *)
(* the repository does.                                                      *)
PrepareThrows ==
  /\ \/ pc = "inline"
     \/ /\ pc # "terminated"
        /\ \E k \in 1 .. Len(running_threads) : Busy(running_threads[k])
  /\ pc' = "terminated"
  /\ UNCHANGED <<max_threads, next_thread, running_threads, expected_work,
                 added, prepared, committed, commit_pc, next_commit, completing>>

-----------------------------------------------------------------------------
Stopped ==
  /\ pc \in {"done", "terminated"}
  /\ UNCHANGED vars

Caller == (\E w \in WorkValues : AddJob(w)) \/ AddJobInline \/ Complete

QueueCode == RunInline \/ Drain \/ MakeRoom \/ SpawnThread \/ Join
               \/ CommitJob \/ PopFront

Worker(k) == BeginPrepare(k) \/ EndPrepare(k)

Workers == \E k \in 1 .. Len(running_threads) : Worker(k)

Next == Caller \/ QueueCode \/ Workers \/ PrepareThrows \/ Stopped

Spec == Init /\ [][Next]_vars

(* The main thread runs, and the operating system runs every worker: the     *)
(* worker of the batch in position k is not starved for ever (a batch only   *)
(* moves towards the front, and at most NumJobs times).                      *)
Fairness ==
  /\ WF_vars(Caller)
  /\ WF_vars(QueueCode)
  /\ \A k \in Jobs : WF_vars(Worker(k))

FairSpec == Spec /\ Fairness

-----------------------------------------------------------------------------
(* Properties.                                                               *)

(* commit() runs once per job and in the order of the add_job calls,         *)
(* whatever order the workers finish in: the builders' lists and endpoints   *)
(* are only right under this order (semiasync_queue.hpp, commit_thread).     *)
CommitInOrder == \A i \in 1 .. Len(committed) : committed[i] = i

(* A job is committed only after its prepare() has returned, and while its   *)
(* batch is being committed no worker is inside that batch: commit() reads,  *)
(* without a lock, the buffer prepare() writes.                              *)
PreparedBeforeCommit ==
  /\ \A i \in 1 .. Len(committed) : committed[i] \in prepared
  /\ commit_pc = "commit" =>
       /\ running_threads # <<>>
       /\ Finished(Head(running_threads))
       /\ ~ Busy(Head(running_threads))

(* At most m_max_threads workers exist at any time, the batch being          *)
(* committed included, and with zero worker threads there is none.           *)
ThreadsBounded == Len(running_threads) <= max_threads

(* When complete() has returned nothing is left behind: every job added has  *)
(* been committed, no batch is waiting and no worker is running.             *)
CompleteIsComplete ==
  pc = "done" =>
    /\ Len(committed) = added
    /\ next_thread = <<>>
    /\ running_threads = <<>>

(* Where every job is, at every moment.  The jobs added so far are, in       *)
(* order: the committed ones, those of the running batches from front to     *)
(* back, those of the batch being filled, and the one being run inline.  No  *)
(* job is in two places and none is lost when batches are swapped, joined    *)
(* and popped, as long as the process lives.                                 *)
Consecutive(jobs) == \A i \in 1 .. Len(jobs) : jobs[i] = jobs[1] + i - 1

InFlight == IF pc = "inline" THEN 1 ELSE 0

BatchesChained ==
  /\ \A k \in 1 .. Len(running_threads) :
       /\ running_threads[k].jobs # <<>>
       /\ Consecutive(running_threads[k].jobs)
       /\ k > 1 => running_threads[k].jobs[1] =
                     running_threads[k - 1].jobs[1] + Len(running_threads[k - 1].jobs)

JobsInPlace ==
  /\ BatchesChained
  /\ \A i \in 1 .. Len(next_thread) :
       next_thread[i] = added - Len(next_thread) + i
  /\ IF running_threads = <<>>
       THEN Len(committed) + Len(next_thread) + InFlight = added
       ELSE LET last == running_threads[Len(running_threads)] IN
              /\ Head(running_threads).jobs[1] + next_commit = Len(committed) + 2
              /\ last.jobs[1] + Len(last.jobs) + Len(next_thread) = added + 1

NothingLost == pc # "terminated" => JobsInPlace

(* A call of complete() returns, or an encoder has failed: the main thread   *)
(* never waits for a worker that waits for the main thread.                  *)
CompleteReturns == completing ~> pc \in {"done", "terminated"}

(* The queue keeps the builder's promise.                                    *)
status == CASE pc = "done" -> "built"
            [] pc = "terminated" -> "aborted"
            [] OTHER -> "open"

Abs == INSTANCE OrderedBuild WITH accepted <- added, appended <- committed

ImplementsOrderedBuild == Abs!AbsSpec
=============================================================================
