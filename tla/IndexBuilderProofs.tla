------------------------- MODULE IndexBuilderProofs -------------------------
(***************************************************************************)
(* Proofs about the job queue and about the builders that feed it, for     *)
(* every number of jobs, direct calls and workers, every work threshold,   *)
(* every set of streams and every length of the encoded lists.             *)
(***************************************************************************)
EXTENDS IndexBuilder, SequenceTheorems, FiniteSetTheorems, TLAPS

-----------------------------------------------------------------------------
(* The queue (SemiasyncQueue).                                               *)

(* The safety invariants speak of the committed jobs; what makes them        *)
(* inductive is where the main thread is and how far each worker has come.   *)
Control ==
  /\ max_threads = 0 => running_threads = <<>> /\ next_thread = <<>>
  /\ pc = "inline" => max_threads = 0 /\ added >= 1
  /\ pc = "spawn" => next_thread # <<>> /\ max_threads # 0
  /\ pc \in {"drain", "done"} => next_thread = <<>>
  /\ pc = "done" => running_threads = <<>>
  /\ commit_pc # "out" => pc \in {"spawn", "drain"} /\ running_threads # <<>>
  /\ commit_pc # "commit" => next_commit = 1
  /\ commit_pc = "commit" => next_commit <= Len(Head(running_threads).jobs) + 1

(* A worker has prepared exactly the jobs it has finished.                   *)
Progress ==
  \A k \in 1 .. Len(running_threads) :
    /\ running_threads[k].finished <= running_threads[k].started
    /\ running_threads[k].started <= running_threads[k].finished + 1
    /\ \A i \in 1 .. running_threads[k].finished :
         running_threads[k].jobs[i] \in prepared

(* No worker holds a job that the caller has not added.                      *)
KnownJobs ==
  \A k \in 1 .. Len(running_threads) :
    \A i \in 1 .. Len(running_threads[k].jobs) :
      running_threads[k].jobs[i] <= added

IInv ==
  /\ TypeOK
  /\ CommitInOrder
  /\ PreparedBeforeCommit
  /\ ThreadsBounded
  /\ Progress
  /\ pc # "terminated" => Control /\ JobsInPlace /\ KnownJobs

-----------------------------------------------------------------------------
(* What TypeOK says of one batch.                                            *)
LEMMA BatchFacts ==
  ASSUME TypeOK, NEW k \in 1 .. Len(running_threads)
  PROVE  /\ running_threads[k] \in Batches
         /\ running_threads[k].jobs \in Seq(Jobs)
         /\ Len(running_threads[k].jobs) \in Nat
         /\ running_threads[k].started \in Nat
         /\ running_threads[k].finished \in Nat
         /\ running_threads[k].started <= Len(running_threads[k].jobs)
         /\ \A i \in 1 .. Len(running_threads[k].jobs) :
              running_threads[k].jobs[i] \in Jobs
<1>1. running_threads[k] \in Batches
  BY DEF TypeOK
<1> QED
  BY <1>1, SMTT(30) DEF TypeOK, Batches

LEMMA ProgressFacts ==
  ASSUME TypeOK, Progress, NEW k \in 1 .. Len(running_threads),
         ~ Busy(running_threads[k])
  PROVE  running_threads[k].started = running_threads[k].finished
<1>1. /\ running_threads[k].finished <= running_threads[k].started
      /\ running_threads[k].started <= running_threads[k].finished + 1
  BY DEF Progress
<1>2. running_threads[k].started # running_threads[k].finished + 1
  BY DEF Busy
<1> QED
  BY <1>1, <1>2, BatchFacts

LEMMA FrontFacts ==
  ASSUME TypeOK, running_threads # <<>>
  PROVE  /\ FrontBatch = running_threads[1]
         /\ Head(running_threads) = running_threads[1]
         /\ 1 \in 1 .. Len(running_threads)
         /\ Len(running_threads) \in Nat \ {0}
  BY DEF TypeOK, FrontBatch

(* The changes made to the deque of batches, position by position.           *)
LEMMA SpawnFacts ==
  ASSUME TypeOK, SpawnThread
  PROVE  /\ running_threads' \in Seq(Batches)
         /\ Len(running_threads) \in Nat
         /\ Len(running_threads') = Len(running_threads) + 1
         /\ \A k \in 1 .. Len(running_threads) :
              running_threads'[k] = running_threads[k]
         /\ running_threads'[Len(running_threads) + 1].jobs = next_thread
         /\ running_threads'[Len(running_threads) + 1].started = 0
         /\ running_threads'[Len(running_threads) + 1].finished = 0
<1> DEFINE b == [jobs |-> next_thread, started |-> 0, finished |-> 0]
<1>1. b \in Batches
  BY DEF Batches, TypeOK
<1>2. running_threads' = Append(running_threads, b)
  BY DEF SpawnThread, PushBatch
<1>3. b.jobs = next_thread /\ b.started = 0 /\ b.finished = 0
  OBVIOUS
<1> HIDE DEF b
<1> QED
  BY <1>1, <1>2, <1>3 DEF TypeOK

LEMMA PopFacts ==
  ASSUME TypeOK, running_threads # <<>>, PopFront
  PROVE  /\ running_threads' \in Seq(Batches)
         /\ Len(running_threads) \in Nat \ {0}
         /\ Len(running_threads') = Len(running_threads) - 1
         /\ \A k \in 1 .. Len(running_threads') :
              running_threads'[k] = running_threads[k + 1]
  BY DEF TypeOK, PopFront

LEMMA ExceptFacts ==
  ASSUME NEW s \in Seq(Batches), NEW k \in 1 .. Len(s), NEW b \in Batches
  PROVE  /\ [s EXCEPT ![k] = b] \in Seq(Batches)
         /\ Len([s EXCEPT ![k] = b]) = Len(s)
         /\ \A j \in 1 .. Len(s) :
              [s EXCEPT ![k] = b][j] = IF j = k THEN b ELSE s[j]
  BY ExceptSeq

LEMMA BeginFacts ==
  ASSUME TypeOK, NEW k \in 1 .. Len(running_threads), BeginPrepare(k)
  PROVE  /\ running_threads' \in Seq(Batches)
         /\ Len(running_threads') = Len(running_threads)
         /\ \A j \in 1 .. Len(running_threads) :
              /\ running_threads'[j].jobs = running_threads[j].jobs
              /\ running_threads'[j].finished = running_threads[j].finished
              /\ j # k => running_threads'[j] = running_threads[j]
         /\ running_threads'[k].started = running_threads[k].started + 1
<1> DEFINE b == [running_threads[k] EXCEPT !.started = @ + 1]
<1>1. /\ b \in Batches
      /\ b.jobs = running_threads[k].jobs
      /\ b.finished = running_threads[k].finished
      /\ b.started = running_threads[k].started + 1
  BY BatchFacts DEF Batches
<1>2. running_threads' = [running_threads EXCEPT ![k] = b]
  BY DEF BeginPrepare
<1> HIDE DEF b
<1> QED
  BY <1>1, <1>2, ExceptFacts DEF TypeOK

LEMMA EndFacts ==
  ASSUME TypeOK, NEW k \in 1 .. Len(running_threads), EndPrepare(k)
  PROVE  /\ running_threads' \in Seq(Batches)
         /\ Len(running_threads') = Len(running_threads)
         /\ \A j \in 1 .. Len(running_threads) :
              /\ running_threads'[j].jobs = running_threads[j].jobs
              /\ running_threads'[j].started = running_threads[j].started
              /\ j # k => running_threads'[j] = running_threads[j]
         /\ running_threads'[k].finished = running_threads[k].finished + 1
<1> DEFINE b == AfterPrepare(running_threads[k])
<1>1. /\ b \in Batches
      /\ b.jobs = running_threads[k].jobs
      /\ b.started = running_threads[k].started
      /\ b.finished = running_threads[k].finished + 1
  BY BatchFacts DEF Batches, AfterPrepare
<1>2. running_threads' = [running_threads EXCEPT ![k] = b]
  BY DEF EndPrepare
<1> HIDE DEF b
<1> QED
  BY <1>1, <1>2, ExceptFacts DEF TypeOK

-----------------------------------------------------------------------------
LEMMA TypeInit == Init => TypeOK
<1> SUFFICES ASSUME Init PROVE TypeOK
  OBVIOUS
<1>1. /\ <<>> \in Seq(Jobs)
      /\ <<>> \in Seq(Batches)
      /\ Len(<<>>) = 0
  OBVIOUS
<1>2. \A k \in 1 .. Len(running_threads) :
        running_threads[k].started <= Len(running_threads[k].jobs)
  BY <1>1 DEF Init
<1>3. max_threads \in Nat /\ added \in 0 .. NumJobs
  BY QueueAssumption DEF Init
<1>4. /\ next_thread \in Seq(Jobs)
      /\ running_threads \in Seq(Batches)
      /\ committed \in Seq(Jobs)
  BY <1>1 DEF Init
<1>5. /\ prepared \subseteq Jobs
      /\ completing \in BOOLEAN
      /\ pc \in PCs
  BY DEF Init, PCs
<1> QED
  BY <1>2, <1>3, <1>4, <1>5 DEF Init, TypeOK

(* Every action keeps the variables in their types.                          *)
LEMMA TypeStep ==
  ASSUME TypeOK, Progress, pc # "terminated" => Control, [Next]_vars
  PROVE  TypeOK'
<1> USE QueueAssumption DEF Jobs
<1>1. ASSUME NEW w \in WorkValues, AddJob(w)
      PROVE  TypeOK'
  <2>1. added' \in 0 .. NumJobs /\ added' \in Jobs
    BY <1>1 DEF TypeOK, AddJob
  <2>2. next_thread' \in Seq(Jobs)
    BY <1>1, <2>1 DEF TypeOK, AddJob
  <2>3. expected_work' \in Nat /\ pc' \in PCs
    BY <1>1 DEF TypeOK, AddJob, PCs
  <2> QED
    BY <1>1, <2>1, <2>2, <2>3 DEF TypeOK, AddJob
<1>2. CASE AddJobInline
  BY <1>2 DEF TypeOK, AddJobInline, PCs
<1>3. CASE Complete
  BY <1>3 DEF TypeOK, Complete, PCs
<1>4. CASE RunInline
  <2>1. added \in Jobs
    BY <1>4 DEF TypeOK, RunInline, Control
  <2>2. committed' \in Seq(Jobs) /\ prepared' \subseteq Jobs
    BY <1>4, <2>1 DEF TypeOK, RunInline
  <2> QED
    BY <1>4, <2>2 DEF TypeOK, RunInline, PCs
<1>5. CASE Drain
  BY <1>5 DEF TypeOK, Drain, PCs
<1>6. CASE MakeRoom
  BY <1>6 DEF TypeOK, MakeRoom
<1>7. CASE SpawnThread
  <2>1. ASSUME NEW k \in 1 .. Len(running_threads')
        PROVE  running_threads'[k].started <= Len(running_threads'[k].jobs)
    <3>1. Len(next_thread) >= 0
      BY DEF TypeOK
    <3>2. CASE k \in 1 .. Len(running_threads)
      BY <1>7, <3>2, SpawnFacts, BatchFacts
    <3>3. CASE k = Len(running_threads) + 1
      BY <1>7, <3>1, <3>3, SpawnFacts
    <3> QED
      BY <1>7, <3>2, <3>3, SpawnFacts
  <2>2. next_thread' \in Seq(Jobs) /\ pc' \in PCs /\ expected_work' \in Nat
    BY <1>7 DEF SpawnThread, PCs
  <2>3. running_threads' \in Seq(Batches)
    BY <1>7, SpawnFacts
  <2> QED
    BY <1>7, <2>1, <2>2, <2>3 DEF TypeOK, SpawnThread
<1>8. CASE Join
  BY <1>8 DEF TypeOK, Join
<1>9. CASE CommitJob
  <2>1. running_threads # <<>>
    BY <1>9 DEF CommitJob, Control
  <2>2. FrontBatch.jobs[next_commit] \in Jobs
    BY <1>9, <2>1, FrontFacts, BatchFacts, SMTT(30) DEF TypeOK, CommitJob
  <2>3. committed' \in Seq(Jobs) /\ next_commit' \in Nat \ {0}
    BY <1>9, <2>2 DEF TypeOK, CommitJob
  <2> QED
    BY <1>9, <2>3 DEF TypeOK, CommitJob
<1>10. CASE PopFront
  <2>1. running_threads # <<>>
    BY <1>10 DEF PopFront, Control
  <2>2. \A k \in 1 .. Len(running_threads') :
          running_threads'[k].started <= Len(running_threads'[k].jobs)
    BY <1>10, <2>1, PopFacts, BatchFacts
  <2> QED
    BY <1>10, <2>1, <2>2, PopFacts DEF TypeOK, PopFront
<1>11. ASSUME NEW k \in 1 .. Len(running_threads), BeginPrepare(k)
       PROVE  TypeOK'
  <2>1. ASSUME NEW j \in 1 .. Len(running_threads')
        PROVE  running_threads'[j].started <= Len(running_threads'[j].jobs)
    <3>1. j \in 1 .. Len(running_threads)
      BY <1>11, BeginFacts
    <3>2. CASE j = k
      <4>1. /\ ~ Busy(running_threads[k])
            /\ running_threads[k].finished < Len(running_threads[k].jobs)
        BY <1>11 DEF BeginPrepare, HasMoreJobs
      <4>2. running_threads[k].started + 1 <= Len(running_threads[k].jobs)
        BY <4>1, ProgressFacts, BatchFacts
      <4> QED
        BY <1>11, <3>1, <3>2, <4>2, BeginFacts
    <3>3. CASE j # k
      BY <1>11, <3>1, <3>3, BeginFacts, BatchFacts
    <3> QED
      BY <3>2, <3>3
  <2>2. running_threads' \in Seq(Batches)
    BY <1>11, BeginFacts
  <2> QED
    BY <1>11, <2>1, <2>2 DEF TypeOK, BeginPrepare
<1>12. ASSUME NEW k \in 1 .. Len(running_threads), EndPrepare(k)
       PROVE  TypeOK'
  <2>1. \A j \in 1 .. Len(running_threads') :
          running_threads'[j].started <= Len(running_threads'[j].jobs)
    BY <1>12, EndFacts, BatchFacts
  <2>2. running_threads[k].jobs[running_threads[k].started] \in Jobs
    BY <1>12, BatchFacts, SMTT(30) DEF EndPrepare, Busy
  <2>3. running_threads' \in Seq(Batches)
    BY <1>12, EndFacts
  <2>4. prepared' \subseteq Jobs
    BY <1>12, <2>2 DEF TypeOK, EndPrepare
  <2> QED
    BY <1>12, <2>1, <2>3, <2>4 DEF TypeOK, EndPrepare
<1>13. CASE PrepareThrows
  BY <1>13 DEF TypeOK, PrepareThrows, PCs
<1>14. CASE UNCHANGED vars
  BY <1>14 DEF TypeOK, vars
<1> QED
  BY <1>1, <1>2, <1>3, <1>4, <1>5, <1>6, <1>7, <1>8, <1>9, <1>10, <1>11,
     <1>12, <1>13, <1>14
     DEF Next, Caller, QueueCode, Workers, Worker, Stopped

-----------------------------------------------------------------------------
(* The workers' progress is kept by every step.                              *)
LEMMA ProgressStep ==
  ASSUME TypeOK, Progress, pc # "terminated" => Control, [Next]_vars
  PROVE  Progress'
<1>1. CASE UNCHANGED running_threads /\ prepared \subseteq prepared'
  BY <1>1 DEF Progress
<1>2. CASE SpawnThread
  <2> SUFFICES ASSUME NEW k \in 1 .. Len(running_threads')
               PROVE  /\ running_threads'[k].finished <= running_threads'[k].started
                      /\ running_threads'[k].started <= running_threads'[k].finished + 1
                      /\ \A i \in 1 .. running_threads'[k].finished :
                           running_threads'[k].jobs[i] \in prepared'
    BY DEF Progress
  <2>1. CASE k \in 1 .. Len(running_threads)
    <3>1. running_threads'[k] = running_threads[k] /\ prepared' = prepared
      BY <1>2, <2>1, SpawnFacts DEF SpawnThread
    <3> QED
      BY <2>1, <3>1 DEF Progress
  <2>2. CASE k = Len(running_threads) + 1
    BY <1>2, <2>2, SpawnFacts
  <2> QED
    BY <1>2, <2>1, <2>2, SpawnFacts
<1>3. CASE PopFront
  <2> SUFFICES ASSUME NEW k \in 1 .. Len(running_threads')
               PROVE  /\ running_threads'[k].finished <= running_threads'[k].started
                      /\ running_threads'[k].started <= running_threads'[k].finished + 1
                      /\ \A i \in 1 .. running_threads'[k].finished :
                           running_threads'[k].jobs[i] \in prepared'
    BY DEF Progress
  <2>1. running_threads # <<>>
    BY <1>3 DEF PopFront, Control
  <2>2. /\ running_threads'[k] = running_threads[k + 1]
        /\ k + 1 \in 1 .. Len(running_threads)
        /\ prepared' = prepared
    BY <1>3, <2>1, PopFacts DEF PopFront
  <2> QED
    BY <2>2 DEF Progress
<1>4. ASSUME NEW k \in 1 .. Len(running_threads), BeginPrepare(k)
      PROVE  Progress'
  <2> SUFFICES ASSUME NEW j \in 1 .. Len(running_threads')
               PROVE  /\ running_threads'[j].finished <= running_threads'[j].started
                      /\ running_threads'[j].started <= running_threads'[j].finished + 1
                      /\ \A i \in 1 .. running_threads'[j].finished :
                           running_threads'[j].jobs[i] \in prepared'
    BY DEF Progress
  <2>1. /\ j \in 1 .. Len(running_threads)
        /\ running_threads'[j].finished = running_threads[j].finished
        /\ running_threads'[j].jobs = running_threads[j].jobs
        /\ prepared' = prepared
    BY <1>4, BeginFacts DEF BeginPrepare
  <2>2. \A i \in 1 .. running_threads'[j].finished :
          running_threads'[j].jobs[i] \in prepared'
    BY <2>1 DEF Progress
  <2>3. CASE j = k
    <3>1. running_threads[k].started = running_threads[k].finished
      BY <1>4, ProgressFacts DEF BeginPrepare
    <3>2. running_threads'[k].started = running_threads[k].started + 1
      BY <1>4, BeginFacts
    <3> QED
      BY <2>1, <2>2, <2>3, <3>1, <3>2, BatchFacts
  <2>4. CASE j # k
    <3>1. running_threads'[j] = running_threads[j]
      BY <1>4, <2>1, <2>4, BeginFacts
    <3> QED
      BY <2>1, <2>2, <3>1 DEF Progress
  <2> QED
    BY <2>3, <2>4
<1>5. ASSUME NEW k \in 1 .. Len(running_threads), EndPrepare(k)
      PROVE  Progress'
  <2> SUFFICES ASSUME NEW j \in 1 .. Len(running_threads')
               PROVE  /\ running_threads'[j].finished <= running_threads'[j].started
                      /\ running_threads'[j].started <= running_threads'[j].finished + 1
                      /\ \A i \in 1 .. running_threads'[j].finished :
                           running_threads'[j].jobs[i] \in prepared'
    BY DEF Progress
  <2>1. /\ j \in 1 .. Len(running_threads)
        /\ running_threads'[j].started = running_threads[j].started
        /\ running_threads'[j].jobs = running_threads[j].jobs
    BY <1>5, EndFacts
  <2>2. prepared \subseteq prepared'
    BY <1>5 DEF EndPrepare
  <2>3. CASE j = k
    <3>1. /\ running_threads[k].started = running_threads[k].finished + 1
          /\ running_threads[k].jobs[running_threads[k].started] \in prepared'
      BY <1>5 DEF EndPrepare, Busy
    <3>2. running_threads'[k].finished = running_threads[k].finished + 1
      BY <1>5, EndFacts
    <3>3. \A i \in 1 .. running_threads[k].finished :
            running_threads[k].jobs[i] \in prepared'
      BY <2>2 DEF Progress
    <3>4. \A i \in 1 .. running_threads[k].finished + 1 :
            running_threads[k].jobs[i] \in prepared'
      BY <3>1, <3>3, BatchFacts
    <3>5. /\ running_threads'[j].jobs = running_threads[k].jobs
          /\ running_threads'[j].started = running_threads[k].started
          /\ running_threads'[j].finished = running_threads[k].finished + 1
      BY <2>1, <2>3, <3>2
    <3>6. running_threads[k].started \in Nat /\ running_threads[k].finished \in Nat
      BY BatchFacts
    <3> QED
      BY <3>1, <3>4, <3>5, <3>6
  <2>4. CASE j # k
    <3>1. running_threads'[j] = running_threads[j]
      BY <1>5, <2>1, <2>4, EndFacts
    <3> QED
      BY <2>1, <2>2, <3>1 DEF Progress
  <2> QED
    BY <2>3, <2>4
<1> QED
  BY <1>1, <1>2, <1>3, <1>4, <1>5
     DEF Next, Caller, QueueCode, Workers, Worker, Stopped, vars, AddJob,
         AddJobInline, RunInline, Complete, Drain, MakeRoom, Join, CommitJob,
         PrepareThrows

(* Where the main thread is, after every step but one that ends the process. *)
LEMMA ControlStep ==
  ASSUME TypeOK, Control, pc # "terminated", pc' # "terminated", [Next]_vars
  PROVE  Control'
<1>1. ASSUME NEW w \in WorkValues, AddJob(w)
      PROVE  Control'
  <2>1. next_thread' # <<>>
    BY <1>1 DEF AddJob, TypeOK
  <2> QED
    BY <1>1, <2>1 DEF AddJob, Control
<1>2. CASE AddJobInline
  <2>1. added' >= 1
    BY <1>2, QueueAssumption DEF AddJobInline, TypeOK
  <2> QED
    BY <1>2, <2>1 DEF AddJobInline, Control
<1>3. CASE Complete
  BY <1>3 DEF Complete, Control, HasPartialBatch
<1>4. CASE RunInline
  BY <1>4 DEF RunInline, Control
<1>5. CASE Drain
  BY <1>5, FrontFacts DEF Drain, Control, MoreToDrain, TypeOK
<1>6. CASE MakeRoom
  <2>1. running_threads # <<>>
    BY <1>6 DEF MakeRoom, IsFull, Control, TypeOK
  <2> QED
    BY <1>6, <2>1 DEF MakeRoom, Control
<1>7. CASE SpawnThread
  BY <1>7 DEF SpawnThread, Control
<1>8. CASE Join
  <2>1. /\ running_threads # <<>>
        /\ next_commit = 1
        /\ pc \in {"spawn", "drain"}
    BY <1>8 DEF Join, Control
  <2>2. Len(Head(running_threads).jobs) >= 0
    BY <2>1, FrontFacts, BatchFacts
  <2>3. next_commit' <= Len(Head(running_threads').jobs) + 1
    BY <1>8, <2>1, <2>2, FrontFacts, BatchFacts DEF Join
  <2> QED
    BY <1>8, <2>1, <2>3 DEF Join, Control
<1>9. CASE CommitJob
  <2>1. running_threads # <<>> /\ pc \in {"spawn", "drain"}
    BY <1>9 DEF CommitJob, Control
  <2>2. next_commit' <= Len(Head(running_threads').jobs) + 1
    BY <1>9, <2>1, FrontFacts, BatchFacts DEF CommitJob, FrontBatch, TypeOK
  <2> QED
    BY <1>9, <2>1, <2>2 DEF CommitJob, Control
<1>10. CASE PopFront
  <2>1. running_threads # <<>> /\ pc \in {"spawn", "drain"}
    BY <1>10 DEF PopFront, Control
  <2>2. max_threads # 0
    BY <2>1 DEF Control
  <2> QED
    BY <1>10, <2>1, <2>2 DEF PopFront, Control
<1>11. ASSUME NEW k \in 1 .. Len(running_threads),
              BeginPrepare(k) \/ EndPrepare(k)
       PROVE  Control'
  <2>1. /\ Len(running_threads') = Len(running_threads)
        /\ running_threads' \in Seq(Batches)
        /\ \A j \in 1 .. Len(running_threads) :
             running_threads'[j].jobs = running_threads[j].jobs
    BY <1>11, BeginFacts, EndFacts
  <2>2. Len(running_threads) > 0
    BY DEF TypeOK
  <2>3. /\ running_threads # <<>>
        /\ running_threads' # <<>>
        /\ Head(running_threads) = running_threads[1]
        /\ Head(running_threads') = running_threads'[1]
    BY <2>1, <2>2 DEF TypeOK
  <2>4. Head(running_threads').jobs = Head(running_threads).jobs
    BY <2>1, <2>2, <2>3 DEF TypeOK
  <2>5. UNCHANGED <<max_threads, next_thread, added, pc, commit_pc, next_commit>>
    BY <1>11 DEF BeginPrepare, EndPrepare
  <2> QED
    BY <2>3, <2>4, <2>5 DEF Control
<1>12. CASE PrepareThrows
  BY <1>12 DEF PrepareThrows
<1>13. CASE UNCHANGED vars
  BY <1>13 DEF vars, Control
<1> QED
  BY <1>1, <1>2, <1>3, <1>4, <1>5, <1>6, <1>7, <1>8, <1>9, <1>10, <1>11,
     <1>12, <1>13
     DEF Next, Caller, QueueCode, Workers, Worker, Stopped

-----------------------------------------------------------------------------
(* JobsInPlace, read in the two cases that every step distinguishes.         *)
LEMMA PlaceFacts ==
  ASSUME TypeOK, JobsInPlace
  PROVE  /\ added \in Nat
         /\ Len(committed) \in Nat
         /\ Len(next_thread) \in Nat
         /\ running_threads = <<>> =>
              Len(committed) + Len(next_thread) + InFlight = added
         /\ running_threads # <<>> =>
              LET last == running_threads[Len(running_threads)] IN
                /\ Head(running_threads).jobs[1] + next_commit = Len(committed) + 2
                /\ last.jobs[1] + Len(last.jobs) + Len(next_thread) = added + 1
<1>1. added \in Nat /\ Len(committed) \in Nat /\ Len(next_thread) \in Nat
  BY QueueAssumption DEF TypeOK
<1>2. running_threads = <<>> =>
        Len(committed) + Len(next_thread) + InFlight = added
  BY DEF JobsInPlace
<1>3. running_threads # <<>> =>
        LET last == running_threads[Len(running_threads)] IN
          /\ Head(running_threads).jobs[1] + next_commit = Len(committed) + 2
          /\ last.jobs[1] + Len(last.jobs) + Len(next_thread) = added + 1
  BY DEF JobsInPlace
<1> QED
  BY <1>1, <1>2, <1>3

(* The first job and the number of jobs of a running batch are numbers.      *)
LEMMA BatchNumbers ==
  ASSUME TypeOK, JobsInPlace, NEW k \in 1 .. Len(running_threads)
  PROVE  /\ running_threads[k].jobs # <<>>
         /\ running_threads[k].jobs[1] \in Nat
         /\ Len(running_threads[k].jobs) \in Nat \ {0}
         /\ Consecutive(running_threads[k].jobs)
<1>1. running_threads[k].jobs # <<>> /\ Consecutive(running_threads[k].jobs)
  BY DEF JobsInPlace, BatchesChained
<1>2. running_threads[k].jobs \in Seq(Jobs)
  BY BatchFacts
<1>3. Jobs \subseteq Nat
  BY QueueAssumption DEF Jobs
<1>4. running_threads[k].jobs[1] \in Jobs
  BY <1>1, <1>2
<1>5. Len(running_threads[k].jobs) \in Nat \ {0}
  BY <1>1, <1>2
<1> QED
  BY <1>1, <1>3, <1>4, <1>5

(* The chain of batches depends only on their jobs.                          *)
LEMMA SameJobs ==
  ASSUME TypeOK, JobsInPlace,
         running_threads' \in Seq(Batches),
         Len(running_threads') = Len(running_threads),
         \A j \in 1 .. Len(running_threads) :
           running_threads'[j].jobs = running_threads[j].jobs,
         UNCHANGED <<next_thread, added, committed, pc, next_commit>>
  PROVE  JobsInPlace'
<1>1. BatchesChained'
  <2> SUFFICES ASSUME NEW k \in 1 .. Len(running_threads')
               PROVE  /\ running_threads'[k].jobs # <<>>
                      /\ Consecutive(running_threads'[k].jobs)
                      /\ k > 1 => running_threads'[k].jobs[1] =
                                    running_threads'[k - 1].jobs[1]
                                      + Len(running_threads'[k - 1].jobs)
    BY DEF BatchesChained, Consecutive
  <2>1. k \in 1 .. Len(running_threads) /\ Len(running_threads) \in Nat
    BY DEF TypeOK
  <2>2. k > 1 => k - 1 \in 1 .. Len(running_threads)
    BY <2>1
  <2> QED
    BY <2>1, <2>2 DEF JobsInPlace, BatchesChained
<1>2. CASE running_threads = <<>>
  BY <1>1, <1>2 DEF JobsInPlace, InFlight, TypeOK
<1>3. CASE running_threads # <<>>
  <2>1. /\ running_threads' # <<>>
        /\ Len(running_threads) \in 1 .. Len(running_threads)
        /\ Head(running_threads) = running_threads[1]
        /\ Head(running_threads') = running_threads'[1]
        /\ 1 \in 1 .. Len(running_threads)
    BY <1>3 DEF TypeOK
  <2>2. /\ Head(running_threads').jobs = Head(running_threads).jobs
        /\ running_threads'[Len(running_threads')].jobs =
             running_threads[Len(running_threads)].jobs
    BY <2>1
  <2>3. /\ Head(running_threads).jobs[1] + next_commit = Len(committed) + 2
        /\ running_threads[Len(running_threads)].jobs[1]
             + Len(running_threads[Len(running_threads)].jobs)
             + Len(next_thread) = added + 1
    BY <1>3 DEF JobsInPlace
  <2> QED
    BY <1>1, <2>1, <2>2, <2>3 DEF JobsInPlace
<1> QED
  BY <1>2, <1>3

(* Every job stays in its place, until the process ends.                     *)
LEMMA JobsStep ==
  ASSUME TypeOK, Control, JobsInPlace, pc # "terminated", pc' # "terminated",
         [Next]_vars
  PROVE  JobsInPlace'
<1>1. ASSUME NEW w \in WorkValues, AddJob(w)
      PROVE  JobsInPlace'
  <2>1. /\ Len(next_thread') = Len(next_thread) + 1
        /\ \A i \in 1 .. Len(next_thread) : next_thread'[i] = next_thread[i]
        /\ next_thread'[Len(next_thread) + 1] = added + 1
        /\ added' = added + 1
        /\ Len(next_thread) \in Nat
        /\ added \in Nat
    BY <1>1, QueueAssumption DEF AddJob, TypeOK
  <2>2. \A i \in 1 .. Len(next_thread') :
          next_thread'[i] = added' - Len(next_thread') + i
    BY <2>1 DEF JobsInPlace
  <2>3. InFlight = 0 /\ InFlight' = 0
    BY <1>1 DEF AddJob, InFlight
  <2>4. CASE running_threads = <<>>
    <3>1. Len(committed) + Len(next_thread) = added
      BY <2>3, <2>4, PlaceFacts
    <3>2. Len(committed)' + Len(next_thread)' + InFlight' = added'
      BY <1>1, <2>1, <2>3, <3>1, PlaceFacts DEF AddJob
    <3> QED
      BY <1>1, <2>2, <2>4, <3>2 DEF AddJob, JobsInPlace, BatchesChained
  <2>5. CASE running_threads # <<>>
    <3> DEFINE last == running_threads[Len(running_threads)]
    <3>1. /\ last.jobs[1] + Len(last.jobs) + Len(next_thread) = added + 1
          /\ last.jobs[1] \in Nat
          /\ Len(last.jobs) \in Nat
      <4>1. Len(running_threads) \in 1 .. Len(running_threads)
        BY <2>5 DEF TypeOK
      <4>2. /\ last.jobs[1] \in Nat
            /\ Len(last.jobs) \in Nat
        BY <4>1, BatchNumbers
      <4> QED
        BY <2>5, <4>2, PlaceFacts
    <3> HIDE DEF last
    <3>2. last.jobs[1] + Len(last.jobs) + Len(next_thread') = added' + 1
      <4>1. /\ Len(next_thread') = Len(next_thread) + 1
            /\ added' = added + 1
            /\ Len(next_thread) \in Nat
            /\ added \in Nat
        BY <2>1
      <4> QED
        BY <3>1, <4>1
    <3> USE DEF last
    <3> QED
      BY <1>1, <2>2, <2>5, <3>2 DEF AddJob, JobsInPlace, BatchesChained
  <2> QED
    BY <2>4, <2>5
<1>2. CASE AddJobInline
  <2>1. running_threads = <<>> /\ next_thread = <<>>
    BY <1>2 DEF AddJobInline, Control
  <2> QED
    BY <1>2, <2>1, QueueAssumption
       DEF AddJobInline, JobsInPlace, BatchesChained, InFlight, TypeOK
<1>3. CASE Complete
  BY <1>3 DEF Complete, JobsInPlace, BatchesChained, InFlight
<1>4. CASE RunInline
  <2>1. running_threads = <<>> /\ next_thread = <<>>
    BY <1>4 DEF RunInline, Control
  <2> QED
    BY <1>4, <2>1, QueueAssumption
       DEF RunInline, JobsInPlace, BatchesChained, InFlight, TypeOK
<1>5. CASE Drain
  BY <1>5 DEF Drain, JobsInPlace, BatchesChained, InFlight
<1>6. CASE MakeRoom
  BY <1>6 DEF MakeRoom, JobsInPlace, BatchesChained, InFlight
<1>7. CASE SpawnThread
  <2> DEFINE n == Len(running_threads)
             m == Len(next_thread)
             new == running_threads'[n + 1]
  <2>1. /\ n \in Nat
        /\ m \in Nat \ {0}
        /\ Len(running_threads') = n + 1
        /\ running_threads' # <<>>
        /\ new.jobs = next_thread
        /\ \A k \in 1 .. n : running_threads'[k] = running_threads[k]
    BY <1>7, SpawnFacts DEF SpawnThread, Control, TypeOK
  <2>2. /\ InFlight = 0
        /\ next_commit = 1
        /\ UNCHANGED <<added, committed, next_commit>>
        /\ next_thread' = <<>>
    BY <1>7 DEF SpawnThread, InFlight, Control
  <2>3. next_thread[1] = added - m + 1 /\ Consecutive(next_thread)
    <3>1. \A i \in 1 .. m : next_thread[i] = added - m + i
      BY DEF JobsInPlace
    <3> QED
      BY <2>1, <3>1, PlaceFacts DEF Consecutive
  <2>4. n > 0 => next_thread[1] = running_threads[n].jobs[1]
                                    + Len(running_threads[n].jobs)
    <3> SUFFICES ASSUME n > 0
                 PROVE  next_thread[1] = running_threads[n].jobs[1]
                                           + Len(running_threads[n].jobs)
      OBVIOUS
    <3>1. n \in 1 .. Len(running_threads) /\ running_threads # <<>>
      BY <2>1 DEF TypeOK
    <3>2. running_threads[n].jobs[1] \in Nat /\ Len(running_threads[n].jobs) \in Nat
      BY <3>1, BatchNumbers
    <3>3. /\ running_threads[n].jobs[1] + Len(running_threads[n].jobs)
               + Len(next_thread) = added + 1
          /\ added \in Nat
      BY <3>1, PlaceFacts
    <3>4. m \in Nat /\ next_thread[1] = added - m + 1
      BY <2>1, <2>3
    <3> DEFINE x == running_threads[n].jobs[1]
               y == Len(running_threads[n].jobs)
               z == next_thread[1]
    <3>5. /\ x \in Nat /\ y \in Nat /\ m \in Nat /\ added \in Nat
          /\ x + y + m = added + 1
          /\ z = added - m + 1
      BY <3>2, <3>3, <3>4
    <3> HIDE DEF n, m, x, y, z
    <3>6. z = x + y
      BY <3>5
    <3> QED
      BY <3>6 DEF x, y, z
  <2>5. BatchesChained'
    <3> SUFFICES ASSUME NEW k \in 1 .. n + 1
                 PROVE  /\ running_threads'[k].jobs # <<>>
                        /\ Consecutive(running_threads'[k].jobs)
                        /\ k > 1 => running_threads'[k].jobs[1] =
                                      running_threads'[k - 1].jobs[1]
                                        + Len(running_threads'[k - 1].jobs)
      BY <2>1 DEF BatchesChained, Consecutive
    <3>1. CASE k \in 1 .. n
      <4>1. k > 1 => k - 1 \in 1 .. n
        BY <2>1, <3>1
      <4> QED
        BY <2>1, <3>1, <4>1 DEF JobsInPlace, BatchesChained
    <3>2. CASE k = n + 1
      <4>1. n > 0 => n \in 1 .. n /\ k - 1 = n
        BY <2>1, <3>2
      <4>2. next_thread # <<>>
        BY <1>7 DEF SpawnThread, Control
      <4> QED
        BY <2>1, <2>3, <2>4, <3>2, <4>1, <4>2
    <3> QED
      BY <2>1, <3>1, <3>2
  <2>6. Head(running_threads').jobs[1] + next_commit' = Len(committed') + 2
    <3>1. Head(running_threads') = running_threads'[1]
      BY <2>1, <1>7, SpawnFacts
    <3>2. CASE running_threads = <<>>
      BY <2>1, <2>2, <2>3, <3>1, <3>2, PlaceFacts
    <3>3. CASE running_threads # <<>>
      <4>1. 1 \in 1 .. n /\ Head(running_threads) = running_threads[1]
        BY <3>3, FrontFacts
      <4> QED
        BY <2>1, <2>2, <3>1, <3>3, <4>1, PlaceFacts
    <3> QED
      BY <3>2, <3>3
  <2>7. new.jobs[1] + Len(new.jobs) + Len(next_thread') = added' + 1
    BY <2>1, <2>2, <2>3, PlaceFacts
  <2> QED
    BY <2>1, <2>2, <2>5, <2>6, <2>7 DEF JobsInPlace
<1>8. CASE Join
  BY <1>8 DEF Join, JobsInPlace, BatchesChained, InFlight
<1>9. CASE CommitJob
  <2>1. running_threads # <<>>
    BY <1>9 DEF CommitJob, Control
  <2>2. /\ Len(committed') = Len(committed) + 1
        /\ Len(committed) \in Nat
        /\ next_commit' = next_commit + 1
        /\ next_commit \in Nat
        /\ Head(running_threads).jobs[1] \in Nat
    <3>1. Head(running_threads).jobs[1] \in Nat
      BY <2>1, FrontFacts, BatchNumbers
    <3> QED
      BY <1>9, <3>1 DEF CommitJob, TypeOK
  <2>3. Head(running_threads).jobs[1] + next_commit' = Len(committed') + 2
    BY <2>1, <2>2, SMTT(30) DEF JobsInPlace
  <2> QED
    BY <1>9, <2>1, <2>3 DEF CommitJob, JobsInPlace, BatchesChained
<1>10. CASE PopFront
  <2> DEFINE n == Len(running_threads)
             front == running_threads[1]
  <2>1. running_threads # <<>> /\ InFlight = 0
    BY <1>10 DEF PopFront, Control, InFlight
  <2>2. /\ n \in Nat \ {0}
        /\ Len(running_threads') = n - 1
        /\ running_threads' \in Seq(Batches)
        /\ \A k \in 1 .. n - 1 : running_threads'[k] = running_threads[k + 1]
    BY <1>10, <2>1, PopFacts
  <2>3. /\ next_commit = Len(front.jobs) + 1
        /\ front = Head(running_threads)
        /\ next_commit' = 1
        /\ UNCHANGED <<next_thread, added, committed, pc>>
    <3>1. /\ next_commit > Len(front.jobs)
          /\ next_commit <= Len(front.jobs) + 1
          /\ front = Head(running_threads)
          /\ 1 \in 1 .. n
      BY <1>10, <2>1, FrontFacts DEF PopFront, Control
    <3> QED
      BY <1>10, <3>1, BatchFacts DEF PopFront, TypeOK
  <2>4. front.jobs[1] + Len(front.jobs) = Len(committed) + 1
    <3>1. front.jobs[1] \in Nat /\ Len(front.jobs) \in Nat
      BY <2>2, BatchNumbers
    <3>2. /\ front.jobs[1] + next_commit = Len(committed) + 2
          /\ Len(committed) \in Nat
      BY <2>1, <2>3, PlaceFacts
    <3> QED
      BY <2>3, <3>1, <3>2
  <2>5. BatchesChained'
    <3> SUFFICES ASSUME NEW k \in 1 .. n - 1
                 PROVE  /\ running_threads'[k].jobs # <<>>
                        /\ Consecutive(running_threads'[k].jobs)
                        /\ k > 1 => running_threads'[k].jobs[1] =
                                      running_threads'[k - 1].jobs[1]
                                        + Len(running_threads'[k - 1].jobs)
      BY <2>2 DEF BatchesChained, Consecutive
    <3>1. k + 1 \in 1 .. n /\ k + 1 > 1 /\ (k + 1) - 1 = k
      BY <2>2
    <3>2. /\ running_threads[k + 1].jobs # <<>>
          /\ Consecutive(running_threads[k + 1].jobs)
          /\ running_threads[k + 1].jobs[1] = running_threads[k].jobs[1]
                                                + Len(running_threads[k].jobs)
      BY <3>1 DEF JobsInPlace, BatchesChained
    <3>3. k > 1 => /\ k - 1 \in 1 .. n - 1
                   /\ running_threads'[k - 1] = running_threads[k]
      BY <2>2
    <3> QED
      BY <2>2, <3>2, <3>3
  <2>6. CASE n = 1
    <3>1. running_threads' = <<>>
      BY <2>2, <2>6
    <3>2. Len(committed) + Len(next_thread) = added
      BY <2>1, <2>4, <2>6, PlaceFacts
    <3> QED
      BY <2>1, <2>3, <2>5, <3>1, <3>2, PlaceFacts DEF JobsInPlace, InFlight
  <2>7. CASE n > 1
    <3>1. /\ running_threads' # <<>>
          /\ Head(running_threads') = running_threads[2]
          /\ running_threads'[n - 1] = running_threads[n]
      BY <2>2, <2>7
    <3>2. running_threads[2].jobs[1] = front.jobs[1] + Len(front.jobs)
      BY <2>2, <2>7 DEF JobsInPlace, BatchesChained
    <3>3. Head(running_threads').jobs[1] + next_commit' = Len(committed') + 2
      BY <2>3, <2>4, <3>1, <3>2, PlaceFacts
    <3> QED
      BY <2>1, <2>2, <2>3, <2>5, <3>1, <3>3, PlaceFacts DEF JobsInPlace
  <2> QED
    BY <2>2, <2>6, <2>7
<1>11. ASSUME NEW k \in 1 .. Len(running_threads),
              BeginPrepare(k) \/ EndPrepare(k)
       PROVE  JobsInPlace'
  BY <1>11, BeginFacts, EndFacts, SameJobs DEF BeginPrepare, EndPrepare
<1>12. CASE PrepareThrows
  BY <1>12 DEF PrepareThrows
<1>13. CASE UNCHANGED vars
  BY <1>13 DEF vars, JobsInPlace, BatchesChained, InFlight
<1> QED
  BY <1>1, <1>2, <1>3, <1>4, <1>5, <1>6, <1>7, <1>8, <1>9, <1>10, <1>11,
     <1>12, <1>13
     DEF Next, Caller, QueueCode, Workers, Worker, Stopped

-----------------------------------------------------------------------------
(* The job that is about to be committed is the next one in the order of the *)
(* calls, and its worker has prepared it.                                    *)
LEMMA NextToCommit ==
  ASSUME TypeOK, Control, JobsInPlace, Progress, PreparedBeforeCommit, CommitJob
  PROVE  /\ FrontBatch.jobs[next_commit] = Len(committed) + 1
         /\ FrontBatch.jobs[next_commit] \in prepared
<1>1. /\ running_threads # <<>>
      /\ FrontBatch = Head(running_threads)
      /\ FrontBatch = running_threads[1]
      /\ 1 \in 1 .. Len(running_threads)
  BY FrontFacts DEF CommitJob, Control
<1>2. next_commit \in 1 .. Len(FrontBatch.jobs)
  BY <1>1, BatchFacts DEF CommitJob, TypeOK
<1>3. FrontBatch.jobs[next_commit] = FrontBatch.jobs[1] + next_commit - 1
  BY <1>1, <1>2, BatchNumbers DEF Consecutive
<1>4. /\ FrontBatch.jobs[1] + next_commit = Len(committed) + 2
      /\ Len(committed) \in Nat
  BY <1>1, PlaceFacts
<1>5. FrontBatch.jobs[1] \in Nat /\ next_commit \in Nat
  BY <1>1, BatchNumbers DEF TypeOK
<1>6. FrontBatch.jobs[next_commit] = Len(committed) + 1
  BY <1>3, <1>4, <1>5
<1>7. next_commit \in 1 .. FrontBatch.finished
  BY <1>1, <1>2 DEF PreparedBeforeCommit, Finished, CommitJob
<1> QED
  BY <1>1, <1>6, <1>7 DEF Progress

LEMMA CommitOrderStep ==
  ASSUME TypeOK, CommitInOrder, [Next]_vars, PreparedBeforeCommit, Progress,
         pc # "terminated" => Control /\ JobsInPlace
  PROVE  CommitInOrder'
<1>1. CASE RunInline
  <2>1. /\ committed' = Append(committed, added)
        /\ added = Len(committed) + 1
    <3>1. /\ running_threads = <<>>
          /\ next_thread = <<>>
          /\ InFlight = 1
          /\ Len(next_thread) = 0
      BY <1>1 DEF RunInline, Control, InFlight
    <3> QED
      BY <1>1, <3>1, PlaceFacts DEF RunInline
  <2> QED
    BY <2>1 DEF CommitInOrder, TypeOK
<1>2. CASE CommitJob
  <2>1. committed' = Append(committed, Len(committed) + 1)
    BY <1>2, NextToCommit DEF CommitJob
  <2> QED
    BY <2>1 DEF CommitInOrder, TypeOK
<1>3. CASE UNCHANGED committed
  BY <1>3 DEF CommitInOrder
<1> QED
  BY <1>1, <1>2, <1>3
     DEF Next, Caller, QueueCode, Workers, Worker, Stopped, vars, AddJob,
         AddJobInline, Complete, Drain, MakeRoom, SpawnThread, Join, PopFront,
         BeginPrepare, EndPrepare, PrepareThrows

LEMMA PreparedStep ==
  ASSUME TypeOK, PreparedBeforeCommit, Progress, [Next]_vars,
         pc # "terminated" => Control /\ JobsInPlace
  PROVE  PreparedBeforeCommit'
<1> DEFINE All  == \A i \in 1 .. Len(committed) : committed[i] \in prepared
           Quiet == commit_pc = "commit" =>
                      /\ running_threads # <<>>
                      /\ Finished(Head(running_threads))
                      /\ ~ Busy(Head(running_threads))
<1>1. All'
  <2>1. CASE RunInline
    BY <2>1, QueueAssumption DEF RunInline, PreparedBeforeCommit, TypeOK
  <2>2. CASE CommitJob
    BY <2>2, NextToCommit DEF CommitJob, PreparedBeforeCommit, TypeOK
  <2>3. CASE UNCHANGED committed /\ prepared \subseteq prepared'
    BY <2>3 DEF PreparedBeforeCommit
  <2> QED
    BY <2>1, <2>2, <2>3
       DEF Next, Caller, QueueCode, Workers, Worker, Stopped, vars, AddJob,
           AddJobInline, Complete, Drain, MakeRoom, SpawnThread, Join, PopFront,
           BeginPrepare, EndPrepare, PrepareThrows
<1>2. Quiet'
  <2>1. CASE UNCHANGED <<running_threads, commit_pc>> \/ commit_pc' # "commit"
    BY <2>1 DEF PreparedBeforeCommit, Finished, Busy
  <2>2. CASE Join
    <3>1. /\ running_threads # <<>>
          /\ FrontBatch = Head(running_threads)
          /\ FrontBatch = running_threads[1]
          /\ 1 \in 1 .. Len(running_threads)
          /\ running_threads' = running_threads
      BY <2>2, FrontFacts DEF Join, Control
    <3>2. Finished(FrontBatch) /\ ~ Busy(FrontBatch)
      BY <2>2, <3>1, BatchFacts DEF Join, CanJoin, Finished, Busy
    <3> QED
      BY <3>1, <3>2
  <2>3. ASSUME NEW k \in 1 .. Len(running_threads),
               BeginPrepare(k) \/ EndPrepare(k), commit_pc = "commit"
        PROVE  Quiet'
    <3>1. /\ running_threads # <<>>
          /\ Head(running_threads) = running_threads[1]
          /\ 1 \in 1 .. Len(running_threads)
      BY FrontFacts DEF TypeOK
    <3>2. Finished(running_threads[1]) /\ ~ Busy(running_threads[1])
      BY <2>3, <3>1 DEF PreparedBeforeCommit
    <3>3. k # 1
      BY <2>3, <3>2, BatchFacts, <3>1
         DEF BeginPrepare, EndPrepare, HasMoreJobs, Finished
    <3>4. /\ running_threads'[1] = running_threads[1]
          /\ Len(running_threads') = Len(running_threads)
          /\ running_threads' \in Seq(Batches)
      BY <2>3, <3>1, <3>3, BeginFacts, EndFacts
    <3>5. running_threads' # <<>> /\ Head(running_threads') = running_threads'[1]
      BY <3>1, <3>4
    <3> QED
      BY <3>2, <3>4, <3>5
  <2>4. CASE SpawnThread \/ CommitJob
    BY <2>4 DEF SpawnThread, CommitJob, PreparedBeforeCommit
  <2> QED
    BY <2>1, <2>2, <2>3, <2>4
       DEF Next, Caller, QueueCode, Workers, Worker, Stopped, vars, AddJob,
           AddJobInline, RunInline, Complete, Drain, MakeRoom, PopFront,
           BeginPrepare, EndPrepare, PrepareThrows
<1> QED
  BY <1>1, <1>2 DEF PreparedBeforeCommit

LEMMA BoundStep ==
  ASSUME TypeOK, ThreadsBounded, Progress, [Next]_vars,
         pc # "terminated" => Control
  PROVE  ThreadsBounded'
<1>1. CASE SpawnThread
  <2>1. Len(running_threads) # max_threads /\ max_threads' = max_threads
    BY <1>1 DEF SpawnThread, IsFull
  <2> QED
    BY <1>1, <2>1, SpawnFacts DEF ThreadsBounded, TypeOK
<1>2. CASE PopFront
  <2>1. running_threads # <<>> /\ max_threads' = max_threads
    BY <1>2 DEF PopFront, Control
  <2> QED
    BY <1>2, <2>1, PopFacts DEF ThreadsBounded, TypeOK
<1>3. ASSUME NEW k \in 1 .. Len(running_threads),
             BeginPrepare(k) \/ EndPrepare(k)
      PROVE  ThreadsBounded'
  <2>1. max_threads' = max_threads
    BY <1>3 DEF BeginPrepare, EndPrepare
  <2> QED
    BY <1>3, <2>1, BeginFacts, EndFacts DEF ThreadsBounded
<1>4. CASE UNCHANGED <<running_threads, max_threads>>
  BY <1>4 DEF ThreadsBounded
<1> QED
  BY <1>1, <1>2, <1>3, <1>4
     DEF Next, Caller, QueueCode, Workers, Worker, Stopped, vars, AddJob,
         AddJobInline, RunInline, Complete, Drain, MakeRoom, Join, CommitJob,
         PrepareThrows

LEMMA KnownStep ==
  ASSUME TypeOK, Control, JobsInPlace, Progress, KnownJobs,
         pc # "terminated", [Next]_vars
  PROVE  KnownJobs'
<1>1. CASE SpawnThread
  <2> SUFFICES ASSUME NEW k \in 1 .. Len(running_threads'),
                      NEW i \in 1 .. Len(running_threads'[k].jobs)
               PROVE  running_threads'[k].jobs[i] <= added'
    BY DEF KnownJobs
  <2>1. added' = added
    BY <1>1 DEF SpawnThread
  <2>2. CASE k \in 1 .. Len(running_threads)
    BY <1>1, <2>1, <2>2, SpawnFacts DEF KnownJobs
  <2>3. CASE k = Len(running_threads) + 1
    <3>1. running_threads'[k].jobs = next_thread
      BY <1>1, <2>3, SpawnFacts
    <3>2. i \in 1 .. Len(next_thread) /\ next_thread[i] = added - Len(next_thread) + i
      BY <3>1 DEF JobsInPlace
    <3>3. added \in Nat /\ Len(next_thread) \in Nat
      BY PlaceFacts
    <3> QED
      BY <2>1, <3>1, <3>2, <3>3
  <2> QED
    BY <1>1, <2>2, <2>3, SpawnFacts
<1>2. CASE PopFront
  <2>1. running_threads # <<>> /\ added' = added
    BY <1>2 DEF PopFront, Control
  <2> QED
    BY <1>2, <2>1, PopFacts, SMTT(30) DEF KnownJobs
<1>3. ASSUME NEW k \in 1 .. Len(running_threads),
             BeginPrepare(k) \/ EndPrepare(k)
      PROVE  KnownJobs'
  <2>1. added' = added
    BY <1>3 DEF BeginPrepare, EndPrepare
  <2> QED
    BY <1>3, <2>1, BeginFacts, EndFacts DEF KnownJobs
<1>4. CASE running_threads' = running_threads /\ added' = added
  BY <1>4 DEF KnownJobs
<1>5. CASE running_threads' = running_threads /\ added' = added + 1
  <2> SUFFICES ASSUME NEW k \in 1 .. Len(running_threads),
                      NEW i \in 1 .. Len(running_threads[k].jobs)
               PROVE  running_threads[k].jobs[i] <= added + 1
    BY <1>5 DEF KnownJobs
  <2>1. running_threads[k].jobs[i] \in Jobs
    BY BatchFacts
  <2>2. running_threads[k].jobs[i] \in Nat /\ added \in Nat
    BY <2>1, PlaceFacts, QueueAssumption, SMTT(30) DEF Jobs
  <2>3. running_threads[k].jobs[i] <= added
    BY DEF KnownJobs
  <2> QED
    BY <2>2, <2>3
<1> QED
  BY <1>1, <1>2, <1>3, <1>4, <1>5
     DEF Next, Caller, QueueCode, Workers, Worker, Stopped, vars, AddJob,
         AddJobInline, RunInline, Complete, Drain, MakeRoom, Join, CommitJob,
         PrepareThrows

-----------------------------------------------------------------------------
LEMMA IInvInit == Init => IInv
<1> SUFFICES ASSUME Init PROVE IInv
  OBVIOUS
<1>1. Len(<<>>) = 0
  OBVIOUS
<1>2. max_threads \in Nat
  BY TypeInit DEF TypeOK
<1>3. CommitInOrder /\ PreparedBeforeCommit /\ ThreadsBounded /\ Progress /\ KnownJobs
  BY <1>1, <1>2 DEF Init, CommitInOrder, PreparedBeforeCommit, ThreadsBounded,
                    Progress, KnownJobs
<1>4. Control
  BY DEF Init, Control
<1>5. JobsInPlace
  BY <1>1 DEF Init, JobsInPlace, BatchesChained, InFlight
<1> QED
  BY <1>3, <1>4, <1>5, TypeInit DEF IInv

LEMMA IInvStep == IInv /\ [Next]_vars => IInv'
<1> SUFFICES ASSUME IInv, [Next]_vars PROVE IInv'
  OBVIOUS
<1> USE DEF IInv
<1>1. TypeOK'
  BY TypeStep
<1>2. CommitInOrder'
  BY CommitOrderStep
<1>3. PreparedBeforeCommit'
  BY PreparedStep
<1>4. ThreadsBounded'
  BY BoundStep
<1>5. Progress'
  BY ProgressStep
<1>6. ASSUME pc' # "terminated"
      PROVE  Control' /\ JobsInPlace' /\ KnownJobs'
  <2>1. pc # "terminated"
    BY <1>6 DEF Next, Caller, QueueCode, Workers, Worker, Stopped, vars,
                AddJob, AddJobInline, RunInline, Complete, Drain, MakeRoom,
                SpawnThread, Join, CommitJob, PopFront, BeginPrepare,
                EndPrepare, PrepareThrows
  <2> QED
    BY <1>6, <2>1, ControlStep, JobsStep, KnownStep
<1> QED
  BY <1>1, <1>2, <1>3, <1>4, <1>5, <1>6

LEMMA IInvAlways == Spec => []IInv
  BY IInvInit, IInvStep, PTL DEF Spec

(* Every state of the queue is well typed.                                   *)
THEOREM TypeCorrect == Spec => []TypeOK
<1>1. IInv => TypeOK
  BY DEF IInv
<1> QED
  BY <1>1, IInvAlways, PTL

(* Whatever the threads do, commit() runs once per job, in the order of the  *)
(* add_job calls.                                                            *)
THEOREM CommitsInOrder == Spec => []CommitInOrder
<1>1. IInv => CommitInOrder
  BY DEF IInv
<1> QED
  BY <1>1, IInvAlways, PTL

(* A job is committed after its prepare() has returned, and no worker is     *)
(* inside a batch while it is being committed.                               *)
THEOREM CommitsPrepared == Spec => []PreparedBeforeCommit
<1>1. IInv => PreparedBeforeCommit
  BY DEF IInv
<1> QED
  BY <1>1, IInvAlways, PTL

(* There are never more workers than configured.                             *)
THEOREM WorkersBounded == Spec => []ThreadsBounded
<1>1. IInv => ThreadsBounded
  BY DEF IInv
<1> QED
  BY <1>1, IInvAlways, PTL

(* No job is lost or duplicated on its way from add_job to commit().         *)
THEOREM JobsConserved == Spec => []NothingLost
<1>1. IInv => NothingLost
  BY DEF IInv, NothingLost
<1> QED
  BY <1>1, IInvAlways, PTL

LEMMA DoneIsComplete == IInv => CompleteIsComplete
<1> SUFFICES ASSUME IInv, pc = "done" PROVE CompleteIsComplete
  BY DEF CompleteIsComplete
<1>1. /\ running_threads = <<>> /\ next_thread = <<>>
      /\ InFlight = 0
      /\ Len(next_thread) = 0
  BY DEF IInv, Control, InFlight
<1>2. Len(committed) = added
  BY <1>1, PlaceFacts DEF IInv
<1> QED
  BY <1>1, <1>2 DEF CompleteIsComplete

(* When complete() returns every job has been committed and no worker runs.  *)
THEOREM CompleteMeansComplete == Spec => []CompleteIsComplete
  BY DoneIsComplete, IInvAlways, PTL

-----------------------------------------------------------------------------
(* Refinement of OrderedBuild.                                               *)
LEMMA AbsInitial == Init => Abs!AbsInit
  BY DEF Init, Abs!AbsInit, status

LEMMA AbsStep == IInv /\ [Next]_vars => [Abs!AbsNext]_Abs!absVars
<1> SUFFICES ASSUME IInv, [Next]_vars PROVE [Abs!AbsNext]_Abs!absVars
  OBVIOUS
<1> USE DEF Abs!absVars
<1>1. CASE (\E w \in WorkValues : AddJob(w)) \/ AddJobInline
  <2>1. Abs!Accept
    BY <1>1 DEF AddJob, AddJobInline, Abs!Accept, status
  <2> QED
    BY <2>1 DEF Abs!AbsNext
<1>2. CASE RunInline
  <2>1. /\ running_threads = <<>> /\ next_thread = <<>>
        /\ InFlight = 1
        /\ Len(next_thread) = 0
    BY <1>2 DEF IInv, RunInline, Control, InFlight
  <2>2. added = Len(committed) + 1 /\ Len(committed) \in Nat
    BY <1>2, <2>1, PlaceFacts DEF IInv, RunInline
  <2>3. Abs!AppendNext
    BY <1>2, <2>2 DEF RunInline, Abs!AppendNext, status
  <2> QED
    BY <2>3 DEF Abs!AbsNext
<1>3. CASE CommitJob
  <2>1. /\ running_threads # <<>>
        /\ pc \in {"spawn", "drain"}
        /\ FrontBatch = running_threads[1]
        /\ 1 \in 1 .. Len(running_threads)
    BY <1>3, FrontFacts DEF IInv, CommitJob, Control
  <2>2. FrontBatch.jobs[next_commit] = Len(committed) + 1
    BY <1>3, NextToCommit DEF IInv, CommitJob
  <2>3. FrontBatch.jobs[next_commit] <= added
    <3>1. next_commit \in 1 .. Len(FrontBatch.jobs)
      BY <1>3, <2>1, BatchFacts DEF IInv, TypeOK, CommitJob
    <3> QED
      BY <1>3, <2>1, <3>1 DEF IInv, KnownJobs, CommitJob
  <2>4. Len(committed) < added
    BY <2>2, <2>3, QueueAssumption DEF IInv, TypeOK
  <2>5. Abs!AppendNext
    BY <1>3, <2>1, <2>2, <2>4 DEF CommitJob, Abs!AppendNext, status
  <2> QED
    BY <2>5 DEF Abs!AbsNext
<1>4. CASE Drain
  <2>1. CASE pc' = "done"
    <3>1. /\ running_threads = <<>> /\ next_thread = <<>>
          /\ InFlight = 0
          /\ Len(next_thread) = 0
      BY <1>4, <2>1 DEF IInv, Drain, Control, MoreToDrain, InFlight
    <3>2. Len(committed) = added
      BY <1>4, <3>1, PlaceFacts DEF IInv, Drain
    <3>3. Abs!Finish
      BY <1>4, <2>1, <3>2 DEF Drain, Abs!Finish, status
    <3> QED
      BY <3>3 DEF Abs!AbsNext
  <2>2. CASE pc' # "done"
    BY <1>4, <2>2 DEF Drain, status
  <2> QED
    BY <2>1, <2>2
<1>5. CASE PrepareThrows
  <2>1. pc # "terminated" /\ pc # "done"
    <3>1. CASE pc = "inline"
      BY <3>1
    <3>2. CASE /\ pc # "terminated"
               /\ \E k \in 1 .. Len(running_threads) : Busy(running_threads[k])
      BY <3>2 DEF IInv, Control
    <3> QED
      BY <1>5, <3>1, <3>2 DEF PrepareThrows
  <2>2. Abs!Abort
    BY <1>5, <2>1 DEF PrepareThrows, Abs!Abort, status
  <2> QED
    BY <2>2 DEF Abs!AbsNext
<1>6. CASE Complete \/ SpawnThread
  BY <1>6 DEF Complete, SpawnThread, status
<1>7. CASE UNCHANGED <<added, committed, pc>>
  BY <1>7 DEF status
<1> QED
  BY <1>1, <1>2, <1>3, <1>4, <1>5, <1>6, <1>7
     DEF Next, Caller, QueueCode, Workers, Worker, Stopped, vars, MakeRoom,
         Join, PopFront, BeginPrepare, EndPrepare

(* The queue, with all its threads, is an ordered build: what the builders   *)
(* see is lists appended one by one, in the order they were added.           *)
THEOREM QueueImplementsOrderedBuild == Spec => ImplementsOrderedBuild
<1>1. Spec => Abs!AbsSpec
  BY AbsInitial, AbsStep, IInvAlways, PTL DEF Spec, Abs!AbsSpec
<1> QED
  BY <1>1 DEF ImplementsOrderedBuild

-----------------------------------------------------------------------------
(* The builders (IndexBuilder).                                              *)

(* The properties speak of the streams; they are inductive together with     *)
(* the queue's own invariant and with what the buffers of the jobs in        *)
(* flight hold.                                                              *)

(* How many lists are stored, and the calls they came from.                  *)
NumLists == Len(committed) + Len(direct)

Calls == 1 .. Len(committed) \cup {NumJobs + d : d \in 1 .. Len(direct)}

Ranges ==
  /\ TypeOK
  /\ size \in [Jobs -> [Streams -> EncodedSizes]]
  /\ buffer \in [Jobs -> [Streams -> Seq(Cells)]]
  /\ Streams \in Builders
  /\ stored \in [Streams -> Seq(Cells)]
  /\ endpoints \in [Streams -> Seq(Nat)]
  /\ direct \in Seq([after : Nat, quiet : BOOLEAN])
  /\ Len(direct) <= NumDirect

(* Each list ends where the next begins, and the last one ends the stream.   *)
Layout ==
  \A s \in Streams :
    /\ Len(endpoints[s]) = NumLists + 1
    /\ endpoints[s][NumLists + 1] = Len(stored[s])
    /\ \A i \in 1 .. NumLists :
         /\ endpoints[s][i] <= endpoints[s][i + 1]
         /\ endpoints[s][i + 1] <= Len(stored[s])

(* The i-th section is the list of call c, in every stream.                  *)
Placed(i, c) == \A s \in Streams : Section(s, i) = ListOf(c, s)

SectionsWhole == \A i \in 1 .. NumLists : \E c \in Calls : Placed(i, c)

CallsPlaced == \A c \in Calls : \E i \in 1 .. NumLists : Placed(i, c)

JobsUpTo(i) == {j \in 1 .. i : \E c \in Jobs : Placed(j, c)}

JobsInOrder ==
  /\ Cardinality(JobsUpTo(NumLists)) = Len(committed)
  /\ \A i \in 1 .. NumLists : \A c \in Jobs :
       Placed(i, c) => Cardinality(JobsUpTo(i)) = c

(* As long as no direct call found jobs pending, lists are in call order.    *)
QuietOrder ==
  (\A d \in 1 .. Len(direct) : direct[d].quiet) =>
    /\ \A d \in 1 .. Len(direct) : direct[d].after <= Len(committed)
    /\ \A i \in 1 .. NumLists : \A s \in Streams : Section(s, i) = CallBytes(s, i)

StreamsRight ==
  /\ Layout
  /\ SectionsWhole
  /\ CallsPlaced
  /\ JobsInOrder
  /\ QuietOrder

(* No two batches share a job: they are in the order of their jobs.          *)
BatchesOrdered ==
  \A k, l \in 1 .. Len(running_threads) : k < l =>
    \A i \in 1 .. Len(running_threads[k].jobs) :
      running_threads[k].jobs[i] < running_threads[l].jobs[1]

(* A worker that has finished a job leaves its whole list in the buffer,     *)
(* until the commit.                                                         *)
BuffersEncoded ==
  \A k \in 1 .. Len(running_threads) : \A i \in 1 .. running_threads[k].finished :
    running_threads[k].jobs[i] > Len(committed) =>
      buffer[running_threads[k].jobs[i]] = EncodeList(running_threads[k].jobs[i])

(* What build() has frozen is what the streams still are.                    *)
IndexFrozen ==
  index # NoIndex =>
    /\ pc = "done"
    /\ index = [s \in Streams |-> [starts |-> StoredEndpoints(endpoints[s]),
                                   bytes |-> stored[s]]]

BInv ==
  /\ IInv
  /\ Ranges
  /\ StreamsRight
  /\ pc # "terminated" => BatchesOrdered
  /\ BuffersEncoded
  /\ BuffersFreed
  /\ IndexFrozen

-----------------------------------------------------------------------------
(* Appending to a stream leaves its sections alone, and what was appended    *)
(* is a section of its own.                                                  *)
LEMMA SectionKept ==
  ASSUME NEW S, NEW t \in Seq(S), NEW b \in Seq(S),
         NEW lo \in Nat, NEW hi \in Nat, hi <= Len(t)
  PROVE  SubSeq(t \o b, lo + 1, hi) = SubSeq(t, lo + 1, hi)
<1>1. CASE hi < lo + 1
  BY <1>1, SubSeqEmpty
<1>2. CASE lo + 1 <= hi
  <2>1. lo + 1 \in 1 .. Len(t) /\ hi \in 1 .. Len(t)
    BY <1>2, LenProperties
  <2> QED
    BY <2>1, SubSeqOfConcat1
<1> QED
  BY <1>1, <1>2

LEMMA SectionAdded ==
  ASSUME NEW S, NEW t \in Seq(S), NEW b \in Seq(S)
  PROVE  SubSeq(t \o b, Len(t) + 1, Len(t) + Len(b)) = b
<1>1. Len(t) \in Nat /\ Len(b) \in Nat
  BY LenProperties
<1>2. CASE Len(b) = 0
  <2>1. b = <<>>
    BY <1>2, EmptySeq
  <2>2. SubSeq(t \o b, Len(t) + 1, Len(t) + Len(b)) = <<>>
    BY <1>1, <1>2, SubSeqEmpty
  <2> QED
    BY <2>1, <2>2
<1>3. CASE Len(b) # 0
  <2> DEFINE m == Len(t) + 1
             n == Len(t) + Len(b)
  <2>1. m \in Len(t) + 1 .. Len(t) + Len(b) /\ n \in Len(t) + 1 .. Len(t) + Len(b)
    BY <1>1, <1>3
  <2>2. SubSeq(t \o b, m, n) = SubSeq(b, m - Len(t), n - Len(t))
    BY <2>1, SubSeqOfConcat2
  <2>3. m - Len(t) = 1 /\ n - Len(t) = Len(b)
    BY <1>1
  <2> QED
    BY <2>2, <2>3, SubSeqFull
<1> QED
  BY <1>2, <1>3

-----------------------------------------------------------------------------
(* The first cell of a list names its call.                                  *)
LEMMA EncodedFacts ==
  ASSUME Ranges, NEW j \in Jobs, NEW s \in Streams
  PROVE  /\ Encoded(j, s) \in Seq(Cells)
         /\ Encoded(j, s) # <<>>
         /\ Encoded(j, s)[1] = <<j, s, 1>>
<1> DEFINE n == size[j][s]
<1>1. n \in Nat \ {0}
  BY BuilderAssumption, ZenonT(60) DEF Ranges
<1>2. j \in 1 .. NumJobs + NumDirect
  BY QueueAssumption, BuilderAssumption DEF Jobs
<1>3. \A i \in 1 .. n : <<j, s, i>> \in Cells
  BY <1>1, <1>2 DEF Cells
<1>4. Encoded(j, s) \in [1 .. n -> Cells]
  BY <1>3 DEF Encoded
<1>5. Encoded(j, s) \in Seq(Cells)
  BY <1>1, <1>4, SeqDef
<1>6. 1 \in 1 .. n
  BY <1>1
<1>7. Encoded(j, s)[1] = <<j, s, 1>>
  BY <1>6 DEF Encoded
<1>8. DOMAIN Encoded(j, s) = 1 .. n
  BY DEF Encoded
<1>9. DOMAIN Encoded(j, s) # {}
  BY <1>6, <1>8
<1>10. Encoded(j, s) # <<>>
  BY <1>9, EmptySeq, LenProperties
<1> QED
  BY <1>5, <1>7, <1>10

LEMMA DirectFacts ==
  ASSUME NEW n \in 1 .. NumDirect, NEW s \in Streams
  PROVE  /\ DirectBytes(n, s) \in Seq(Cells)
         /\ DirectBytes(n, s) # <<>>
         /\ DirectBytes(n, s)[1] = <<NumJobs + n, s, 1>>
<1>1. NumJobs + n \in 1 .. NumJobs + NumDirect
  BY QueueAssumption, BuilderAssumption
<1>2. <<NumJobs + n, s, 1>> \in Cells
  BY <1>1 DEF Cells
<1> QED
  BY <1>2 DEF DirectBytes

LEMMA ListFacts ==
  ASSUME Ranges, NEW c \in 1 .. NumJobs + NumDirect, NEW s \in Streams
  PROVE  /\ ListOf(c, s) \in Seq(Cells)
         /\ ListOf(c, s) # <<>>
         /\ ListOf(c, s)[1] = <<c, s, 1>>
<1>1. CASE c \in Jobs
  BY <1>1, EncodedFacts DEF ListOf
<1>2. CASE c \notin Jobs
  <2>1. /\ c - NumJobs \in 1 .. NumDirect
        /\ NumJobs + (c - NumJobs) = c
    BY <1>2, QueueAssumption, BuilderAssumption DEF Jobs
  <2> QED
    BY <1>2, <2>1, DirectFacts DEF ListOf
<1> QED
  BY <1>1, <1>2

(* So a section holds the list of at most one call.                          *)
LEMMA OneOwner ==
  ASSUME Ranges, NEW i, NEW c \in 1 .. NumJobs + NumDirect,
         NEW d \in 1 .. NumJobs + NumDirect, Placed(i, c), Placed(i, d)
  PROVE  c = d
<1>1. PICK s \in Streams : TRUE
  BY BuilderAssumption DEF Ranges
<1>2. ListOf(c, s) = ListOf(d, s)
  BY <1>1 DEF Placed
<1>3. <<c, s, 1>> = <<d, s, 1>>
  BY <1>1, <1>2, ListFacts
<1> QED
  BY <1>3

LEMMA CallRange ==
  ASSUME Ranges, Len(committed) <= NumJobs
  PROVE  /\ Calls \subseteq 1 .. NumJobs + NumDirect
         /\ Jobs \subseteq 1 .. NumJobs + NumDirect
         /\ Len(committed) \in Nat
         /\ Len(direct) \in Nat
         /\ NumLists \in Nat
<1>1. Len(committed) \in Nat /\ Len(direct) \in Nat
  BY LenProperties DEF Ranges, TypeOK
<1>2. Len(direct) <= NumDirect
  BY DEF Ranges
<1> QED
  BY <1>1, <1>2, QueueAssumption, BuilderAssumption DEF Calls, Jobs, NumLists

-----------------------------------------------------------------------------
(* What commit() and the direct add_posting_list do to the streams: one more *)
(* section at the end, the others as they were.                              *)
LEMMA Appended ==
  ASSUME Ranges, Layout, NumLists \in Nat,
         NEW bytes, \A s \in Streams : bytes[s] \in Seq(Cells),
         AppendList(bytes)
  PROVE  /\ Streams' = Streams
         /\ stored' \in [Streams -> Seq(Cells)]
         /\ endpoints' \in [Streams -> Seq(Nat)]
         /\ \A s \in Streams :
              /\ Len(stored[s]) \in Nat
              /\ Len(stored'[s]) \in Nat
              /\ Len(stored[s]) <= Len(stored'[s])
              /\ Len(endpoints'[s]) = NumLists + 2
              /\ endpoints'[s][NumLists + 2] = Len(stored'[s])
              /\ \A i \in 1 .. NumLists + 1 : endpoints'[s][i] = endpoints[s][i]
              /\ \A i \in 1 .. NumLists : Section(s, i)' = Section(s, i)
              /\ \A i \in {NumLists + 1} : Section(s, i)' = bytes[s]
<1>1. /\ stored' = [s \in Streams |-> stored[s] \o bytes[s]]
      /\ endpoints' = [s \in Streams |->
                        Append(endpoints[s], Len(stored[s]) + Len(bytes[s]))]
  BY DEF AppendList, InsertBytes, PushEndpoints
<1>2. Streams' = Streams
  BY <1>1 DEF Streams
<1>3. ASSUME NEW s \in Streams
      PROVE  /\ stored'[s] \in Seq(Cells)
             /\ endpoints'[s] \in Seq(Nat)
             /\ Len(stored[s]) \in Nat
             /\ Len(stored'[s]) \in Nat
             /\ Len(stored[s]) <= Len(stored'[s])
             /\ Len(endpoints'[s]) = NumLists + 2
             /\ endpoints'[s][NumLists + 2] = Len(stored'[s])
             /\ \A i \in 1 .. NumLists + 1 : endpoints'[s][i] = endpoints[s][i]
             /\ \A i \in 1 .. NumLists : Section(s, i)' = Section(s, i)
             /\ \A i \in {NumLists + 1} : Section(s, i)' = bytes[s]
  <2> DEFINE t == stored[s]
             b == bytes[s]
             e == endpoints[s]
             last == Len(t) + Len(b)
  <2>1. /\ t \in Seq(Cells) /\ b \in Seq(Cells) /\ e \in Seq(Nat)
        /\ Len(t) \in Nat /\ Len(b) \in Nat /\ last \in Nat
    BY LenProperties DEF Ranges
  <2>2. /\ Len(e) = NumLists + 1
        /\ e[NumLists + 1] = Len(t)
        /\ \A i \in 1 .. NumLists : e[i + 1] <= Len(t)
    BY DEF Layout
  <2>3. stored'[s] = t \o b /\ endpoints'[s] = Append(e, last)
    BY <1>1
  <2>4. t \o b \in Seq(Cells) /\ Len(t \o b) = last
    BY <2>1, ConcatProperties
  <2>5. /\ Append(e, last) \in Seq(Nat)
        /\ Len(Append(e, last)) = NumLists + 2
        /\ \A i \in 1 .. NumLists + 1 : Append(e, last)[i] = e[i]
        /\ Append(e, last)[NumLists + 2] = last
    <3> HIDE DEF last
    <3>1. /\ Append(e, last) \in Seq(Nat)
          /\ Len(Append(e, last)) = Len(e) + 1
          /\ \A i \in 1 .. Len(e) : Append(e, last)[i] = e[i]
          /\ Append(e, last)[Len(e) + 1] = last
      BY <2>1, AppendProperties
    <3> QED
      BY <2>2, <3>1
  <2>6. ASSUME NEW i \in 1 .. NumLists
        PROVE  Section(s, i)' = Section(s, i)
    <3>1. e[i] \in Nat /\ e[i + 1] \in Nat /\ e[i + 1] <= Len(t)
      BY <2>1, <2>2, ElementOfSeq, SMTT(30)
    <3>2. endpoints'[s][i] = e[i] /\ endpoints'[s][i + 1] = e[i + 1]
      <4>1. i \in 1 .. NumLists + 1 /\ i + 1 \in 1 .. NumLists + 1
        OBVIOUS
      <4> HIDE DEF e, last
      <4> QED
        BY <2>3, <2>5, <4>1
    <3>3. SubSeq(t \o b, e[i] + 1, e[i + 1]) = SubSeq(t, e[i] + 1, e[i + 1])
      <4> DEFINE lo == e[i]
                 hi == e[i + 1]
      <4> HIDE DEF lo, hi, t, b
      <4>1. lo \in Nat /\ hi \in Nat /\ hi <= Len(t)
        BY <3>1 DEF lo, hi
      <4>2. SubSeq(t \o b, lo + 1, hi) = SubSeq(t, lo + 1, hi)
        BY <2>1, <4>1, SectionKept
      <4> QED
        BY <4>2 DEF lo, hi
    <3> QED
      BY <2>3, <3>2, <3>3 DEF Section
  <2>7. ASSUME NEW i \in {NumLists + 1}
        PROVE  Section(s, i)' = b
    <3>1. endpoints'[s][i] = Len(t) /\ endpoints'[s][i + 1] = last
      <4>1. i \in 1 .. NumLists + 1 /\ i + 1 = NumLists + 2 /\ i = NumLists + 1
        OBVIOUS
      <4> HIDE DEF e, last, t
      <4> QED
        BY <2>2, <2>3, <2>5, <4>1
    <3>2. SubSeq(t \o b, Len(t) + 1, last) = b
      BY <2>1, SectionAdded
    <3> QED
      BY <2>3, <3>1, <3>2 DEF Section
  <2>8. stored'[s] \in Seq(Cells) /\ endpoints'[s] \in Seq(Nat)
    BY <2>3, <2>4, <2>5
  <2>9. Len(stored'[s]) = last
    <3> HIDE DEF t, b, last
    <3> QED
      BY <2>3, <2>4
  <2>10. /\ Len(endpoints'[s]) = NumLists + 2
         /\ endpoints'[s][NumLists + 2] = Len(stored'[s])
         /\ \A i \in 1 .. NumLists + 1 : endpoints'[s][i] = endpoints[s][i]
    BY <2>3, <2>4, <2>5
  <2>11. /\ Len(t) \in Nat
         /\ Len(stored'[s]) \in Nat
         /\ Len(t) <= Len(stored'[s])
    <3>1. Len(t) \in Nat /\ last \in Nat /\ Len(t) <= last
      <4> DEFINE m == Len(t)
                 n == Len(b)
      <4>1. m \in Nat /\ n \in Nat /\ last = m + n
        BY <2>1
      <4> HIDE DEF m, n, last
      <4>2. last \in Nat /\ m <= last
        BY <4>1
      <4> QED
        BY <4>1, <4>2 DEF m
    <3> HIDE DEF t, b, last
    <3> QED
      BY <2>9, <3>1
  <2> QED
    BY <2>6, <2>7, <2>8, <2>10, <2>11
<1>4. stored' \in [Streams -> Seq(Cells)] /\ endpoints' \in [Streams -> Seq(Nat)]
  BY <1>1, <1>3
<1> QED
  BY <1>2, <1>3, <1>4

(* The step of the streams common to a commit and to a direct call: the new  *)
(* section is the list of the new call, and of no other.                     *)
LEMMA SectionsStep ==
  ASSUME Ranges, StreamsRight, NumLists \in Nat,
         NEW c \in 1 .. NumJobs + NumDirect,
         NEW bytes, \A s \in Streams : bytes[s] = ListOf(c, s),
         AppendList(bytes),
         UNCHANGED size, NumLists' = NumLists + 1, Calls' = Calls \cup {c}
  PROVE  /\ Streams' = Streams
         /\ stored' \in [Streams -> Seq(Cells)]
         /\ endpoints' \in [Streams -> Seq(Nat)]
         /\ Layout' /\ SectionsWhole' /\ CallsPlaced'
         /\ \A i \in 1 .. NumLists : \A s \in Streams : Section(s, i)' = Section(s, i)
         /\ \A i \in 1 .. NumLists : \A d : Placed(i, d)' <=> Placed(i, d)
         /\ \A i \in {NumLists + 1} :
              /\ \A s \in Streams : Section(s, i)' = ListOf(c, s)
              /\ \A d \in 1 .. NumJobs + NumDirect : Placed(i, d)' <=> d = c
<1>1. \A s \in Streams : bytes[s] \in Seq(Cells)
  BY ListFacts
<1>2. /\ Streams' = Streams
      /\ stored' \in [Streams -> Seq(Cells)]
      /\ endpoints' \in [Streams -> Seq(Nat)]
      /\ \A s \in Streams :
           /\ Len(stored[s]) \in Nat
           /\ Len(stored'[s]) \in Nat
           /\ Len(stored[s]) <= Len(stored'[s])
           /\ Len(endpoints'[s]) = NumLists + 2
           /\ endpoints'[s][NumLists + 2] = Len(stored'[s])
           /\ \A i \in 1 .. NumLists + 1 : endpoints'[s][i] = endpoints[s][i]
           /\ \A i \in 1 .. NumLists : Section(s, i)' = Section(s, i)
           /\ \A i \in {NumLists + 1} : Section(s, i)' = bytes[s]
  BY <1>1, Appended DEF StreamsRight
<1>3. Layout'
  <2> SUFFICES ASSUME NEW s \in Streams
               PROVE  /\ Len(endpoints'[s]) = NumLists' + 1
                      /\ endpoints'[s][NumLists' + 1] = Len(stored'[s])
                      /\ \A i \in 1 .. NumLists' :
                           /\ endpoints'[s][i] <= endpoints'[s][i + 1]
                           /\ endpoints'[s][i + 1] <= Len(stored'[s])
    BY <1>2 DEF Layout
  <2>1. NumLists' + 1 = NumLists + 2
    OBVIOUS
  <2>2. ASSUME NEW i \in 1 .. NumLists
        PROVE  /\ endpoints'[s][i] <= endpoints'[s][i + 1]
               /\ endpoints'[s][i + 1] <= Len(stored'[s])
    <3>1. i \in 1 .. NumLists + 1 /\ i + 1 \in 1 .. NumLists + 1
      OBVIOUS
    <3>2. endpoints'[s][i] = endpoints[s][i] /\ endpoints'[s][i + 1] = endpoints[s][i + 1]
      BY <1>2, <3>1
    <3>3. /\ endpoints[s][i] <= endpoints[s][i + 1]
          /\ endpoints[s][i + 1] <= Len(stored[s])
          /\ Len(endpoints[s]) = NumLists + 1
      BY DEF StreamsRight, Layout
    <3>4. endpoints[s][i + 1] \in Nat
      <4>1. endpoints[s] \in Seq(Nat) /\ i + 1 \in 1 .. Len(endpoints[s])
        BY <3>1, <3>3 DEF Ranges
      <4> QED
        BY <4>1, ElementOfSeq
    <3>5. /\ Len(stored[s]) \in Nat /\ Len(stored'[s]) \in Nat
          /\ Len(stored[s]) <= Len(stored'[s])
      BY <1>2
    <3> QED
      BY <3>2, <3>3, <3>4, <3>5
  <2>3. ASSUME NEW i \in {NumLists + 1}
        PROVE  /\ endpoints'[s][i] <= endpoints'[s][i + 1]
               /\ endpoints'[s][i + 1] <= Len(stored'[s])
    <3>1. i \in 1 .. NumLists + 1 /\ i + 1 = NumLists + 2
      OBVIOUS
    <3>2. endpoints'[s][i] = endpoints[s][i] /\ endpoints'[s][i + 1] = Len(stored'[s])
      BY <1>2, <3>1
    <3>3. endpoints[s][i] = Len(stored[s])
      BY DEF StreamsRight, Layout
    <3>4. /\ Len(stored[s]) \in Nat /\ Len(stored'[s]) \in Nat
          /\ Len(stored[s]) <= Len(stored'[s])
      BY <1>2
    <3> QED
      BY <3>2, <3>3, <3>4
  <2>4. \A i \in 1 .. NumLists' : i \in 1 .. NumLists \/ i \in {NumLists + 1}
    OBVIOUS
  <2> QED
    BY <1>2, <2>1, <2>2, <2>3, <2>4
<1>4. \A d, s : ListOf(d, s)' = ListOf(d, s)
  BY DEF ListOf, Encoded, DirectBytes
<1>5. \A i \in 1 .. NumLists : \A d : Placed(i, d)' <=> Placed(i, d)
  BY <1>2, <1>4 DEF Placed
<1>6. ASSUME NEW i \in {NumLists + 1}
      PROVE  /\ \A s \in Streams : Section(s, i)' = ListOf(c, s)
             /\ \A d \in 1 .. NumJobs + NumDirect : Placed(i, d)' <=> d = c
  <2>1. \A s \in Streams : Section(s, i)' = ListOf(c, s)
    BY <1>2
  <2>2. Placed(i, c)'
    BY <1>2, <1>4, <2>1 DEF Placed
  <2>3. ASSUME NEW d \in 1 .. NumJobs + NumDirect, Placed(i, d)'
        PROVE  d = c
    <3>1. PICK s \in Streams : TRUE
      BY BuilderAssumption DEF Ranges
    <3>2. Section(s, i)' = ListOf(d, s)
      BY <1>2, <1>4, <2>3 DEF Placed
    <3>3. ListOf(d, s) = ListOf(c, s)
      BY <2>1, <3>2
    <3>4. <<d, s, 1>> = <<c, s, 1>>
      BY <3>3, ListFacts
    <3> QED
      BY <3>4
  <2> QED
    BY <2>1, <2>2, <2>3
<1>7. SectionsWhole'
  <2> SUFFICES ASSUME NEW i \in 1 .. NumLists'
               PROVE  \E d \in Calls' : Placed(i, d)'
    BY DEF SectionsWhole
  <2>1. CASE i \in 1 .. NumLists
    BY <1>5, <2>1 DEF StreamsRight, SectionsWhole
  <2>2. CASE i \in {NumLists + 1}
    BY <1>6, <2>2
  <2> QED
    BY <2>1, <2>2
<1>8. CallsPlaced'
  <2> SUFFICES ASSUME NEW d \in Calls'
               PROVE  \E i \in 1 .. NumLists' : Placed(i, d)'
    BY DEF CallsPlaced
  <2>1. CASE d \in Calls
    <3>1. PICK i \in 1 .. NumLists : Placed(i, d)
      BY <2>1 DEF StreamsRight, CallsPlaced
    <3>2. i \in 1 .. NumLists' /\ Placed(i, d)'
      BY <1>5, <3>1
    <3> QED
      BY <3>2
  <2>2. CASE d = c
    <3>1. NumLists + 1 \in 1 .. NumLists' /\ NumLists + 1 \in {NumLists + 1}
      OBVIOUS
    <3>2. PICK i \in {NumLists + 1} : i \in 1 .. NumLists'
      BY <3>1
    <3>3. Placed(i, d)'
      BY <1>6, <2>2
    <3> QED
      BY <3>2, <3>3
  <2> QED
    BY <2>1, <2>2
<1> QED
  BY <1>2, <1>3, <1>5, <1>6, <1>7, <1>8

(* The number of jobs' lists among the sections, after the step: one more    *)
(* when the new list is a job's.                                             *)
LEMMA CountStep ==
  ASSUME NumLists \in Nat, NEW c, NumLists' = NumLists + 1,
         \A i \in 1 .. NumLists : \A d : Placed(i, d)' <=> Placed(i, d),
         \A i \in {NumLists + 1} : \A d \in Jobs : Placed(i, d)' <=> d = c
  PROVE  /\ \A i \in 0 .. NumLists : JobsUpTo(i)' = JobsUpTo(i)
         /\ IsFiniteSet(JobsUpTo(NumLists))
         /\ \A i \in {NumLists + 1} :
              Cardinality(JobsUpTo(i)') =
                IF c \in Jobs THEN Cardinality(JobsUpTo(NumLists)) + 1
                               ELSE Cardinality(JobsUpTo(NumLists))
<1>1. ASSUME NEW i \in 0 .. NumLists
      PROVE  JobsUpTo(i)' = JobsUpTo(i)
  <2>1. \A j \in 1 .. i : j \in 1 .. NumLists
    OBVIOUS
  <2> QED
    BY <2>1 DEF JobsUpTo, Jobs
<1>2. IsFiniteSet(JobsUpTo(NumLists))
  <2>1. JobsUpTo(NumLists) \in SUBSET (1 .. NumLists)
    BY DEF JobsUpTo
  <2>2. IsFiniteSet(1 .. NumLists)
    BY FS_Interval
  <2> QED
    BY <2>1, <2>2, FS_Subset
<1>3. ASSUME NEW i \in {NumLists + 1}
      PROVE  Cardinality(JobsUpTo(i)') =
               IF c \in Jobs THEN Cardinality(JobsUpTo(NumLists)) + 1
                              ELSE Cardinality(JobsUpTo(NumLists))
  <2>1. \A j : j \in 1 .. i <=> j \in 1 .. NumLists \/ j = i
    OBVIOUS
  <2>2. i \notin JobsUpTo(NumLists)
    BY DEF JobsUpTo
  <2>3. CASE c \in Jobs
    <3>1. JobsUpTo(i)' = JobsUpTo(NumLists) \cup {i}
      BY <2>1, <2>3 DEF JobsUpTo, Jobs
    <3> QED
      BY <1>2, <2>2, <2>3, <3>1, FS_AddElement
  <2>4. CASE c \notin Jobs
    <3>1. JobsUpTo(i)' = JobsUpTo(NumLists)
      BY <2>1, <2>4 DEF JobsUpTo, Jobs
    <3> QED
      BY <2>4, <3>1
  <2> QED
    BY <2>3, <2>4
<1> QED
  BY <1>1, <1>2, <1>3

LEMMA JobsInOrderStep ==
  ASSUME NumLists \in Nat, NEW c, NumLists' = NumLists + 1,
         \A i \in 1 .. NumLists : \A d : Placed(i, d)' <=> Placed(i, d),
         \A i \in {NumLists + 1} : \A d \in Jobs : Placed(i, d)' <=> d = c,
         JobsInOrder,
         Len(committed') = IF c \in Jobs THEN Len(committed) + 1 ELSE Len(committed),
         c \in Jobs => c = Len(committed) + 1
  PROVE  JobsInOrder'
<1> DEFINE n == NumLists + 1
<1>1. /\ Cardinality(JobsUpTo(NumLists)) = Len(committed)
      /\ \A i \in 1 .. NumLists : \A d \in Jobs :
           Placed(i, d) => Cardinality(JobsUpTo(i)) = d
  BY DEF JobsInOrder
<1>2. \A i \in {n} : Cardinality(JobsUpTo(i)') = Len(committed')
  BY <1>1, CountStep
<1>3. Cardinality(JobsUpTo(NumLists))' = Len(committed)'
  BY <1>2 DEF JobsUpTo
<1>4. ASSUME NEW i \in 1 .. NumLists, NEW d \in Jobs, Placed(i, d)'
      PROVE  Cardinality(JobsUpTo(i)') = d
  BY <1>1, <1>4, CountStep
<1>5. ASSUME NEW i \in {n}, NEW d \in Jobs, Placed(i, d)'
      PROVE  Cardinality(JobsUpTo(i)') = d
  BY <1>2, <1>5
<1>6. \A i \in 1 .. NumLists' : i \in 1 .. NumLists \/ i \in {n}
  OBVIOUS
<1>7. \A i \in 1 .. NumLists' : \A d \in Jobs :
        Placed(i, d)' => Cardinality(JobsUpTo(i)') = d
  BY <1>4, <1>5, <1>6
<1> QED
  BY <1>3, <1>7 DEF JobsInOrder, Jobs

LEMMA DirectRange ==
  ASSUME Ranges
  PROVE  /\ Len(committed) \in Nat
         /\ Len(direct) \in Nat
         /\ \A d \in 1 .. Len(direct) : direct[d].after \in Nat
<1>1. \A d \in 1 .. Len(direct) : direct[d] \in [after : Nat, quiet : BOOLEAN]
  BY ElementOfSeq DEF Ranges
<1>2. Len(committed) \in Nat /\ Len(direct) \in Nat
  BY LenProperties DEF Ranges, TypeOK
<1> QED
  BY <1>1, <1>2

(* Where CallBytes looks for the list of a call does not depend on a job     *)
(* that is committed.                                                        *)
LEMMA QuietAfterCommit ==
  ASSUME Ranges, QuietOrder, NumLists \in Nat,
         NEW c \in Jobs, c = Len(committed) + 1, Len(committed)' = c,
         UNCHANGED <<size, direct>>, Streams' = Streams, NumLists' = NumLists + 1,
         \A i \in 1 .. NumLists : \A s \in Streams : Section(s, i)' = Section(s, i),
         \A i \in {NumLists + 1} : \A s \in Streams : Section(s, i)' = ListOf(c, s)
  PROVE  QuietOrder'
<1> SUFFICES ASSUME \A d \in 1 .. Len(direct) : direct[d].quiet
             PROVE  /\ \A d \in 1 .. Len(direct) : direct[d].after <= Len(committed')
                    /\ \A i \in 1 .. NumLists' : \A s \in Streams :
                         Section(s, i)' = CallBytes(s, i)'
  BY DEF QuietOrder
<1>1. /\ Len(committed) \in Nat /\ Len(direct) \in Nat
      /\ \A d \in 1 .. Len(direct) : direct[d].after \in Nat
  BY DirectRange
<1>2. /\ \A d \in 1 .. Len(direct) : direct[d].after <= Len(committed)
      /\ \A i \in 1 .. NumLists : \A s \in Streams : Section(s, i) = CallBytes(s, i)
  BY DEF QuietOrder
<1>3. \A i, s : CallBytes(s, i)' = CallBytes(s, i)
  BY DEF CallBytes, DirectAt, DirectBefore, DirectBytes, Encoded
<1>4. ASSUME NEW i \in {NumLists + 1}, NEW s \in Streams
      PROVE  CallBytes(s, i) = ListOf(c, s)
  <2>1. \A d \in 1 .. Len(direct) : direct[d].after + d < i
    BY <1>1, <1>2 DEF NumLists
  <2>2. DirectAt(i) = {}
    BY <1>1, <2>1 DEF DirectAt
  <2>3. DirectBefore(i) = 1 .. Len(direct)
    BY <2>1 DEF DirectBefore
  <2>4. Cardinality(1 .. Len(direct)) = Len(direct)
    <3> DEFINE n == Len(direct)
    <3>1. n \in Nat
      BY <1>1
    <3> HIDE DEF n
    <3>2. Cardinality(1 .. n) = n
      BY <3>1, FS_Interval
    <3> QED
      BY <3>2 DEF n
  <2>5. i - Len(direct) = c
    BY <1>1 DEF NumLists
  <2> QED
    BY <2>2, <2>3, <2>4, <2>5 DEF CallBytes, ListOf
<1>5. \A i \in 1 .. NumLists' : i \in 1 .. NumLists \/ i \in {NumLists + 1}
  OBVIOUS
<1>6. \A i \in 1 .. NumLists' : \A s \in Streams : Section(s, i)' = CallBytes(s, i)'
  BY <1>2, <1>3, <1>4, <1>5
<1>7. \A d \in 1 .. Len(direct) : direct[d].after <= Len(committed')
  BY <1>1, <1>2
<1> QED
  BY <1>6, <1>7

(* A direct call that found no job pending is the call at its place.         *)
LEMMA QuietAfterDirect ==
  ASSUME Ranges, QuietOrder, NumLists \in Nat, added \in Nat,
         direct' = Append(direct, [after |-> added, quiet |-> Len(committed) = added]),
         UNCHANGED <<size, committed>>, Streams' = Streams, NumLists' = NumLists + 1,
         \A i \in 1 .. NumLists : \A s \in Streams : Section(s, i)' = Section(s, i),
         \A i \in {NumLists + 1} : \A s \in Streams :
           Section(s, i)' = DirectBytes(Len(direct) + 1, s)
  PROVE  QuietOrder'
<1> DEFINE new == Len(direct) + 1
<1>1. /\ Len(committed) \in Nat /\ Len(direct) \in Nat
      /\ \A d \in 1 .. Len(direct) : direct[d].after \in Nat
  BY DirectRange
<1>2. /\ Len(direct') = new
      /\ \A d \in 1 .. Len(direct) : direct'[d] = direct[d]
      /\ direct'[new].after = added
      /\ direct'[new].quiet = (Len(committed) = added)
  <2> DEFINE r == [after |-> added, quiet |-> Len(committed) = added]
  <2>1. r \in [after : Nat, quiet : BOOLEAN] /\ r.after = added /\ r.quiet = (Len(committed) = added)
    OBVIOUS
  <2> HIDE DEF r
  <2>2. direct \in Seq([after : Nat, quiet : BOOLEAN])
    BY DEF Ranges
  <2> QED
    BY <2>1, <2>2, AppendProperties DEF r
<1> SUFFICES ASSUME \A d \in 1 .. new : direct'[d].quiet
             PROVE  /\ \A d \in 1 .. new : direct'[d].after <= Len(committed)
                    /\ \A i \in 1 .. NumLists' : \A s \in Streams :
                         Section(s, i)' = CallBytes(s, i)'
  BY <1>2 DEF QuietOrder
<1>3. new \in 1 .. new /\ \A d \in 1 .. new : d \in 1 .. Len(direct) \/ d = new
  BY <1>1
<1>4. Len(committed) = added
  BY <1>2, <1>3
<1>5. /\ \A d \in 1 .. Len(direct) : direct[d].after <= Len(committed)
      /\ \A i \in 1 .. NumLists : \A s \in Streams : Section(s, i) = CallBytes(s, i)
  <2>1. \A d \in 1 .. Len(direct) : d \in 1 .. new /\ direct[d].quiet = direct'[d].quiet
    BY <1>1, <1>2
  <2>2. \A d \in 1 .. Len(direct) : direct[d].quiet
    BY <2>1
  <2> QED
    BY <2>2 DEF QuietOrder
<1>6. direct'[new].after + new = NumLists + 1
  BY <1>1, <1>2, <1>4 DEF NumLists
<1>7. ASSUME NEW i \in 1 .. NumLists, NEW s \in Streams
      PROVE  Section(s, i)' = CallBytes(s, i)'
  <2>1. DirectAt(i)' = DirectAt(i)
    BY <1>1, <1>2, <1>3, <1>6 DEF DirectAt
  <2>2. DirectBefore(i)' = DirectBefore(i)
    BY <1>1, <1>2, <1>3, <1>6 DEF DirectBefore
  <2>3. CallBytes(s, i)' = CallBytes(s, i)
    BY <2>1, <2>2 DEF CallBytes, DirectBytes, Encoded
  <2> QED
    BY <1>5, <2>3
<1>8. ASSUME NEW i \in {NumLists + 1}, NEW s \in Streams
      PROVE  Section(s, i)' = CallBytes(s, i)'
  <2>1. DirectAt(i)' = {new}
    <3>1. \A d \in 1 .. Len(direct) : direct'[d].after + d # i
      BY <1>1, <1>2, <1>5 DEF NumLists
    <3> QED
      BY <1>2, <1>3, <1>6, <3>1 DEF DirectAt
  <2>2. CallBytes(s, i)' = DirectBytes(new, s)
    BY <2>1 DEF CallBytes, DirectBytes
  <2> QED
    BY <2>2
<1>9. \A i \in 1 .. NumLists' : i \in 1 .. NumLists \/ i \in {NumLists + 1}
  OBVIOUS
<1>10. \A d \in 1 .. new : direct'[d].after <= Len(committed)
  BY <1>1, <1>2, <1>3, <1>4, <1>5
<1> QED
  BY <1>7, <1>8, <1>9, <1>10

-----------------------------------------------------------------------------
(* The streams after each kind of step.                                      *)
LEMMA CommittedRange ==
  ASSUME TypeOK, CommitInOrder
  PROVE  Len(committed) \in 0 .. NumJobs
<1>1. Len(committed) \in Nat
  BY LenProperties DEF TypeOK
<1>2. CASE Len(committed) # 0
  <2>1. Len(committed) \in 1 .. Len(committed)
    BY <1>1, <1>2
  <2>2. committed[Len(committed)] = Len(committed)
    BY <2>1 DEF CommitInOrder
  <2>3. committed[Len(committed)] \in Jobs
    BY <2>1, ElementOfSeq DEF TypeOK
  <2> QED
    BY <2>2, <2>3, QueueAssumption DEF Jobs
<1>3. CASE Len(committed) = 0
  BY <1>3, QueueAssumption
<1> QED
  BY <1>2, <1>3

LEMMA StreamsAfterCommit ==
  ASSUME Ranges, StreamsRight, CommitInOrder,
         NEW c \in Jobs, c = Len(committed) + 1, committed' = Append(committed, c),
         NEW bytes, \A s \in Streams : bytes[s] = Encoded(c, s),
         AppendList(bytes), UNCHANGED <<size, direct>>
  PROVE  /\ Streams' = Streams
         /\ stored' \in [Streams -> Seq(Cells)]
         /\ endpoints' \in [Streams -> Seq(Nat)]
         /\ StreamsRight'
<1>1. /\ Calls \subseteq 1 .. NumJobs + NumDirect
      /\ Jobs \subseteq 1 .. NumJobs + NumDirect
      /\ Len(committed) \in Nat
      /\ Len(direct) \in Nat
      /\ NumLists \in Nat
  BY CallRange, CommittedRange DEF Ranges
<1>2. Len(committed') = c
  BY <1>1, AppendProperties DEF Ranges, TypeOK
<1>3. NumLists' = NumLists + 1
  BY <1>1, <1>2 DEF NumLists
<1>4. Calls' = Calls \cup {c}
  BY <1>1, <1>2 DEF Calls
<1>5. \A s \in Streams : bytes[s] = ListOf(c, s)
  BY DEF ListOf
<1>6. /\ Streams' = Streams
      /\ stored' \in [Streams -> Seq(Cells)]
      /\ endpoints' \in [Streams -> Seq(Nat)]
      /\ Layout' /\ SectionsWhole' /\ CallsPlaced'
      /\ \A i \in 1 .. NumLists : \A s \in Streams : Section(s, i)' = Section(s, i)
      /\ \A i \in 1 .. NumLists : \A d : Placed(i, d)' <=> Placed(i, d)
      /\ \A i \in {NumLists + 1} :
           /\ \A s \in Streams : Section(s, i)' = ListOf(c, s)
           /\ \A d \in 1 .. NumJobs + NumDirect : Placed(i, d)' <=> d = c
  BY <1>1, <1>3, <1>4, <1>5, SectionsStep
<1>7. JobsInOrder'
  BY <1>1, <1>2, <1>3, <1>6, JobsInOrderStep DEF StreamsRight
<1>8. QuietOrder'
  BY <1>1, <1>2, <1>3, <1>6, QuietAfterCommit DEF StreamsRight
<1> QED
  BY <1>6, <1>7, <1>8 DEF StreamsRight

LEMMA StreamsAfterDirect ==
  ASSUME Ranges, StreamsRight, CommitInOrder, AddBytes
  PROVE  /\ Streams' = Streams
         /\ stored' \in [Streams -> Seq(Cells)]
         /\ endpoints' \in [Streams -> Seq(Nat)]
         /\ direct' \in Seq([after : Nat, quiet : BOOLEAN])
         /\ Len(direct') <= NumDirect
         /\ StreamsRight'
<1> DEFINE new == Len(direct) + 1
           c == NumJobs + new
           bytes == [s \in Streams |-> DirectBytes(new, s)]
           r == [after |-> added, quiet |-> Len(committed) = added]
<1>1. /\ Calls \subseteq 1 .. NumJobs + NumDirect
      /\ Jobs \subseteq 1 .. NumJobs + NumDirect
      /\ Len(committed) \in Nat
      /\ Len(direct) \in Nat
      /\ NumLists \in Nat
      /\ added \in Nat
  BY CallRange, CommittedRange, QueueAssumption DEF Ranges, TypeOK
<1>2. /\ Len(direct) < NumDirect
      /\ direct' = Append(direct, r)
      /\ UNCHANGED <<size, committed>>
      /\ AppendList([s \in Streams |-> DirectBytes(Len(direct'), s)])
  BY DEF AddBytes, vars
<1>3. Len(direct') = new /\ direct' \in Seq([after : Nat, quiet : BOOLEAN])
  <2>1. r \in [after : Nat, quiet : BOOLEAN]
    BY <1>1
  <2> HIDE DEF r
  <2> QED
    BY <1>2, <2>1, AppendProperties DEF Ranges
<1>4. AppendList(bytes)
  BY <1>2, <1>3
<1>5. new \in 1 .. NumDirect /\ c \in 1 .. NumJobs + NumDirect /\ c \notin Jobs
  BY <1>1, <1>2, QueueAssumption, BuilderAssumption DEF Jobs
<1>6. c - NumJobs = new
  BY <1>5, QueueAssumption
<1>7. \A s \in Streams : bytes[s] = ListOf(c, s)
  BY <1>5, <1>6 DEF ListOf
<1>8. NumLists' = NumLists + 1
  BY <1>1, <1>2, <1>3 DEF NumLists
<1>9. Calls' = Calls \cup {c}
  BY <1>1, <1>2, <1>3 DEF Calls
<1> HIDE DEF bytes
<1>10. /\ Streams' = Streams
       /\ stored' \in [Streams -> Seq(Cells)]
       /\ endpoints' \in [Streams -> Seq(Nat)]
       /\ Layout' /\ SectionsWhole' /\ CallsPlaced'
       /\ \A i \in 1 .. NumLists : \A s \in Streams : Section(s, i)' = Section(s, i)
       /\ \A i \in 1 .. NumLists : \A d : Placed(i, d)' <=> Placed(i, d)
       /\ \A i \in {NumLists + 1} :
            /\ \A s \in Streams : Section(s, i)' = ListOf(c, s)
            /\ \A d \in 1 .. NumJobs + NumDirect : Placed(i, d)' <=> d = c
  <2> HIDE DEF c
  <2> QED
    BY <1>1, <1>2, <1>4, <1>5, <1>7, <1>8, <1>9, SectionsStep
<1>11. JobsInOrder'
  <2> HIDE DEF c
  <2> QED
    BY <1>1, <1>2, <1>5, <1>8, <1>10, JobsInOrderStep DEF StreamsRight
<1>12. \A i \in {NumLists + 1} : \A s \in Streams : Section(s, i)' = DirectBytes(new, s)
  BY <1>5, <1>6, <1>10 DEF ListOf
<1>13. QuietOrder'
  BY <1>1, <1>2, <1>8, <1>10, <1>12, QuietAfterDirect DEF StreamsRight
<1>14. Len(direct') <= NumDirect
  BY <1>3, <1>5
<1> QED
  BY <1>3, <1>10, <1>11, <1>13, <1>14 DEF StreamsRight

LEMMA StreamsSame ==
  ASSUME StreamsRight, UNCHANGED <<stored, endpoints, size, direct, committed>>
  PROVE  StreamsRight'
<1>1. \A s, i : Section(s, i)' = Section(s, i)
  BY DEF Section
<1>2. \A c, s : ListOf(c, s)' = ListOf(c, s)
  BY DEF ListOf, Encoded, DirectBytes
<1>3. Streams' = Streams /\ NumLists' = NumLists /\ Calls' = Calls
  BY DEF Streams, NumLists, Calls
<1>4. \A i, c : Placed(i, c)' <=> Placed(i, c)
  BY <1>1, <1>2, <1>3 DEF Placed
<1>5. Layout' /\ SectionsWhole' /\ CallsPlaced'
  BY <1>3, <1>4 DEF StreamsRight, Layout, SectionsWhole, CallsPlaced
<1>6. JobsInOrder'
  BY <1>3, <1>4 DEF StreamsRight, JobsInOrder, JobsUpTo, Jobs
<1>7. \A s, i : CallBytes(s, i)' = CallBytes(s, i)
  BY DEF CallBytes, DirectAt, DirectBefore, DirectBytes, Encoded
<1>8. QuietOrder'
  BY <1>1, <1>3, <1>7 DEF StreamsRight, QuietOrder
<1> QED
  BY <1>5, <1>6, <1>8 DEF StreamsRight

-----------------------------------------------------------------------------
(* Every step of a builder is a step of its queue.                           *)
LEMMA QueueStep == [BuilderNext]_BuilderVars => [Next]_vars
  BY DEF BuilderNext, BuilderVars, vars, Next, Caller, QueueCode, Workers,
         Worker, AddPostingList, AddBytes, RunInlineList, RunInline, Encoding,
         BeginEncoding, EndEncoding, CommitList, QueueOnly, Build, Idle

(* How far the committed jobs reach into the running batches.                *)
LEMMA CommittedReach ==
  ASSUME TypeOK, Control, JobsInPlace, BatchesOrdered,
         NEW k \in 1 .. Len(running_threads),
         NEW i \in 1 .. Len(running_threads[k].jobs)
  PROVE  /\ running_threads[k].jobs[i] \in Nat
         /\ k = 1 => running_threads[k].jobs[i] = Len(committed) + 1 + i - next_commit
         /\ k > 1 => running_threads[k].jobs[i] > Len(committed)
<1> DEFINE front == running_threads[1].jobs
           n == Len(front)
<1>1. /\ 1 \in 1 .. Len(running_threads)
      /\ running_threads # <<>>
      /\ Head(running_threads) = running_threads[1]
  BY FrontFacts DEF TypeOK
<1>2. /\ front[1] \in Nat
      /\ n \in Nat \ {0}
      /\ Consecutive(front)
      /\ running_threads[k].jobs[1] \in Nat
      /\ Consecutive(running_threads[k].jobs)
      /\ Len(running_threads[k].jobs) \in Nat
  BY <1>1, BatchNumbers
<1>3. Len(committed) \in Nat /\ front[1] + next_commit = Len(committed) + 2
  BY <1>1, PlaceFacts
<1>4. next_commit \in Nat \ {0} /\ next_commit <= n + 1
  <2>1. next_commit \in Nat \ {0}
    BY DEF TypeOK
  <2>2. CASE commit_pc = "commit"
    BY <1>1, <2>1, <2>2 DEF Control
  <2>3. CASE commit_pc # "commit"
    BY <1>2, <2>3 DEF Control
  <2> QED
    BY <2>1, <2>2, <2>3
<1>5. running_threads[k].jobs[i] = running_threads[k].jobs[1] + i - 1
  BY <1>2 DEF Consecutive
<1>6. ASSUME k > 1
      PROVE  running_threads[k].jobs[1] > Len(committed)
  <2>1. n \in 1 .. n
    BY <1>2
  <2>2. front[n] < running_threads[k].jobs[1]
    BY <1>1, <1>6, <2>1 DEF BatchesOrdered
  <2>3. front[n] = front[1] + n - 1
    BY <1>2, <2>1 DEF Consecutive
  <2> HIDE DEF n
  <2> QED
    BY <1>2, <1>3, <1>4, <2>2, <2>3, SMTT(30)
<1>7. i \in Nat /\ i >= 1
  BY <1>2
<1>8. running_threads[k].jobs[i] \in Nat
  BY <1>2, <1>5, <1>7
<1>9. k > 1 => running_threads[k].jobs[i] > Len(committed)
  BY <1>2, <1>3, <1>5, <1>6, <1>7
<1>10. k = 1 => running_threads[k].jobs[i] = Len(committed) + 1 + i - next_commit
  BY <1>2, <1>3, <1>4, <1>5, <1>7, SMTT(30)
<1> QED
  BY <1>8, <1>9, <1>10

(* The job a worker is about to encode is nobody else's and not committed.   *)
LEMMA FreshJob ==
  ASSUME IInv, BatchesOrdered, NEW k \in 1 .. Len(running_threads), BeginPrepare(k)
  PROVE  /\ running_threads'[k].started = running_threads[k].finished + 1
         /\ running_threads'[k].started \in 1 .. Len(running_threads[k].jobs)
         /\ running_threads[k].jobs[running_threads'[k].started] > Len(committed)
         /\ \A l \in 1 .. Len(running_threads) :
              \A i \in 1 .. running_threads[l].finished :
                running_threads[l].jobs[i] #
                  running_threads[k].jobs[running_threads'[k].started]
<1> DEFINE b == running_threads[k]
           m == b.finished + 1
<1>1. /\ TypeOK /\ Progress /\ pc # "terminated" /\ Control /\ JobsInPlace
      /\ ~ Busy(b) /\ HasMoreJobs(b)
  BY DEF IInv, BeginPrepare
<1>2. /\ b.started = b.finished
      /\ b.finished \in Nat
      /\ Len(b.jobs) \in Nat
      /\ b.finished < Len(b.jobs)
  BY <1>1, ProgressFacts, BatchFacts DEF HasMoreJobs
<1>3. running_threads'[k].started = m
  BY <1>1, <1>2, BeginFacts
<1>4. m \in 1 .. Len(b.jobs)
  BY <1>2
<1>5. b.jobs[m] > Len(committed)
  <2>1. CASE k = 1
    <3>1. commit_pc # "commit"
      <4> SUFFICES ASSUME commit_pc = "commit" PROVE FALSE
        OBVIOUS
      <4>1. /\ running_threads # <<>>
            /\ Finished(Head(running_threads))
        BY DEF IInv, PreparedBeforeCommit
      <4>2. Head(running_threads) = b
        BY <1>1, <2>1, <4>1, FrontFacts
      <4> QED
        BY <1>2, <4>1, <4>2 DEF Finished
    <3>2. next_commit = 1 /\ Len(committed) \in Nat
      BY <1>1, <3>1, PlaceFacts DEF Control
    <3> QED
      BY <1>1, <1>2, <1>4, <2>1, <3>2, CommittedReach
  <2>2. CASE k # 1
    BY <1>1, <1>4, <2>2, CommittedReach
  <2> QED
    BY <2>1, <2>2
<1>6. ASSUME NEW l \in 1 .. Len(running_threads),
             NEW i \in 1 .. running_threads[l].finished
      PROVE  running_threads[l].jobs[i] # b.jobs[m]
  <2>1. i \in 1 .. Len(running_threads[l].jobs)
    <3>1. running_threads[l].finished <= running_threads[l].started
      BY <1>1 DEF Progress
    <3> QED
      BY <1>1, <3>1, BatchFacts
  <2>2. /\ running_threads[l].jobs[1] \in Nat
        /\ Consecutive(running_threads[l].jobs)
        /\ b.jobs[1] \in Nat
        /\ Consecutive(b.jobs)
    BY <1>1, BatchNumbers
  <2>3. /\ running_threads[l].jobs[i] = running_threads[l].jobs[1] + i - 1
        /\ b.jobs[m] = b.jobs[1] + m - 1
    BY <1>4, <2>1, <2>2 DEF Consecutive
  <2>4. CASE l = k
    BY <1>2, <2>2, <2>3, <2>4, SMTT(30)
  <2>5. CASE l < k
    <3> DEFINE x == running_threads[l].jobs[i]
               y == b.jobs[1]
               f == b.finished
    <3>1. x < y
      BY <2>1, <2>5 DEF BatchesOrdered
    <3>2. b.jobs[m] = y + f /\ y \in Nat /\ f \in Nat
      BY <1>2, <2>2, <2>3
    <3>3. x \in Int
      BY <1>1, <2>1, CommittedReach
    <3> HIDE DEF x, y, f
    <3>4. x # y + f
      BY <3>1, <3>2, <3>3
    <3> QED
      BY <3>2, <3>4 DEF x
  <2>6. CASE l > k
    <3>1. b.jobs[m] < running_threads[l].jobs[1]
      BY <1>4, <2>6 DEF BatchesOrdered
    <3> QED
      BY <2>2, <2>3, <3>1
  <2> QED
    BY <2>4, <2>5, <2>6
<1> QED
  BY <1>3, <1>4, <1>5, <1>6

(* The batches stay in the order of their jobs.                              *)
LEMMA OrderStep ==
  ASSUME IInv, BatchesOrdered, pc # "terminated", [Next]_vars
  PROVE  BatchesOrdered'
<1>1. CASE SpawnThread
  <2> DEFINE n == Len(running_threads)
  <2>1. TypeOK /\ Control /\ JobsInPlace
    BY DEF IInv
  <2>2. /\ n \in Nat
        /\ Len(running_threads') = n + 1
        /\ \A k \in 1 .. n : running_threads'[k] = running_threads[k]
        /\ running_threads'[n + 1].jobs = next_thread
    BY <1>1, <2>1, SpawnFacts
  <2> HIDE DEF n
  <2>3. ASSUME NEW k \in 1 .. n, NEW i \in 1 .. Len(running_threads[k].jobs)
        PROVE  running_threads[k].jobs[i] < next_thread[1]
    <3> DEFINE last == running_threads[n].jobs
               m == Len(last)
    <3>1. n \in 1 .. n /\ running_threads # <<>>
      BY <2>1, <2>2 DEF n, TypeOK
    <3>2. last[1] \in Nat /\ m \in Nat \ {0} /\ Consecutive(last)
      BY <2>1, <3>1, BatchNumbers DEF n
    <3>3. /\ last[1] + m + Len(next_thread) = added + 1
          /\ added \in Nat
          /\ Len(next_thread) \in Nat
      BY <2>1, <3>1, PlaceFacts DEF n
    <3>4. next_thread # <<>> /\ Len(next_thread) # 0
      BY <1>1, <2>1 DEF SpawnThread, Control, TypeOK
    <3>5. next_thread[1] = added - Len(next_thread) + 1
      BY <2>1, <3>3, <3>4 DEF JobsInPlace
    <3>6. running_threads[k].jobs[i] \in Nat
      BY <2>1, CommittedReach DEF n
    <3>7. CASE k = n
      <4>1. last[i] = last[1] + i - 1
        BY <3>2, <3>7 DEF Consecutive
      <4> QED
        BY <3>2, <3>3, <3>5, <3>7, <4>1, SMTT(30)
    <3>8. CASE k < n
      <4>1. running_threads[k].jobs[i] < last[1]
        BY <3>1, <3>8 DEF BatchesOrdered, n
      <4> HIDE DEF last, m
      <4> QED
        BY <3>2, <3>3, <3>5, <3>6, <4>1, SMTT(30)
    <3> QED
      BY <2>2, <3>7, <3>8
  <2>4. ASSUME NEW k \in 1 .. n + 1, NEW l \in 1 .. n + 1, k < l,
               NEW i \in 1 .. Len(running_threads'[k].jobs)
        PROVE  running_threads'[k].jobs[i] < running_threads'[l].jobs[1]
    <3>1. k \in 1 .. n /\ running_threads'[k] = running_threads[k]
      BY <2>2, <2>4
    <3>2. CASE l = n + 1
      BY <2>2, <2>3, <3>1, <3>2
    <3>3. CASE l # n + 1
      <4>1. l \in 1 .. n /\ running_threads'[l] = running_threads[l]
        BY <2>2, <3>3
      <4> QED
        BY <2>4, <3>1, <4>1 DEF BatchesOrdered, n
    <3> QED
      BY <3>2, <3>3
  <2> QED
    BY <2>2, <2>4 DEF BatchesOrdered
<1>2. CASE PopFront
  <2>1. running_threads # <<>> /\ TypeOK
    BY <1>2 DEF PopFront, Control, IInv
  <2>2. /\ Len(running_threads) \in Nat \ {0}
        /\ Len(running_threads') = Len(running_threads) - 1
        /\ \A k \in 1 .. Len(running_threads') :
             running_threads'[k] = running_threads[k + 1]
    BY <1>2, <2>1, PopFacts
  <2>3. \A k \in 1 .. Len(running_threads') : k + 1 \in 1 .. Len(running_threads)
    BY <2>2
  <2> QED
    BY <2>2, <2>3, SMTT(30) DEF BatchesOrdered
<1>3. ASSUME NEW k \in 1 .. Len(running_threads), BeginPrepare(k) \/ EndPrepare(k)
      PROVE  BatchesOrdered'
  <2>1. /\ Len(running_threads') = Len(running_threads)
        /\ \A j \in 1 .. Len(running_threads) :
             running_threads'[j].jobs = running_threads[j].jobs
    BY <1>3, BeginFacts, EndFacts DEF IInv
  <2> QED
    BY <2>1 DEF BatchesOrdered
<1>4. CASE UNCHANGED running_threads
  BY <1>4 DEF BatchesOrdered
<1> QED
  BY <1>1, <1>2, <1>3, <1>4
     DEF Next, Caller, QueueCode, Workers, Worker, Stopped, vars, AddJob,
         AddJobInline, RunInline, Complete, Drain, MakeRoom, Join, CommitJob,
         PrepareThrows

-----------------------------------------------------------------------------
(* The job that is committed next, from a batch or inline.                   *)
LEMMA CommitFacts ==
  ASSUME IInv, BuffersEncoded, CommitJob
  PROVE  LET j == FrontBatch.jobs[next_commit] IN
           /\ j \in Jobs
           /\ j = Len(committed) + 1
           /\ committed' = Append(committed, j)
           /\ buffer[j] = EncodeList(j)
           /\ pc \in {"spawn", "drain"}
<1> DEFINE j == FrontBatch.jobs[next_commit]
<1>1. TypeOK /\ Control /\ JobsInPlace /\ Progress /\ PreparedBeforeCommit
  BY DEF IInv, CommitJob
<1>2. /\ running_threads # <<>>
      /\ FrontBatch = running_threads[1]
      /\ Head(running_threads) = running_threads[1]
      /\ 1 \in 1 .. Len(running_threads)
  BY <1>1, FrontFacts DEF CommitJob, Control
<1>3. next_commit \in 1 .. Len(FrontBatch.jobs)
  BY <1>1, <1>2, BatchFacts DEF CommitJob, TypeOK
<1>4. j \in Jobs
  BY <1>1, <1>2, <1>3, BatchFacts
<1>5. j = Len(committed) + 1
  BY <1>1, NextToCommit
<1>6. next_commit \in 1 .. running_threads[1].finished
  BY <1>1, <1>2, <1>3 DEF PreparedBeforeCommit, Finished, CommitJob
<1>7. j > Len(committed)
  BY <1>1, <1>5, LenProperties DEF TypeOK
<1>8. buffer[j] = EncodeList(j)
  BY <1>2, <1>6, <1>7 DEF BuffersEncoded
<1>9. committed' = Append(committed, j) /\ pc \in {"spawn", "drain"}
  BY <1>1 DEF CommitJob, Control
<1> QED
  BY <1>4, <1>5, <1>8, <1>9

LEMMA InlineFacts ==
  ASSUME IInv, RunInline
  PROVE  /\ added \in Jobs
         /\ added = Len(committed) + 1
         /\ committed' = Append(committed, added)
<1>1. TypeOK /\ Control /\ JobsInPlace /\ pc = "inline"
  BY DEF IInv, RunInline
<1>2. /\ running_threads = <<>> /\ next_thread = <<>>
      /\ InFlight = 1
      /\ Len(next_thread) = 0
  BY <1>1 DEF Control, InFlight
<1>3. added = Len(committed) + 1 /\ Len(committed) \in Nat
  BY <1>1, <1>2, PlaceFacts
<1>4. added \in Jobs
  BY <1>1, <1>3, QueueAssumption DEF TypeOK, Jobs
<1> QED
  BY <1>3, <1>4 DEF RunInline

(* What prepare() may leave in a buffer.                                     *)
LEMMA BufferValues ==
  ASSUME Ranges, NEW j \in Jobs
  PROVE  /\ EncodeList(j) \in [Streams -> Seq(Cells)]
         /\ HalfEncoded(j) \in [Streams -> Seq(Cells)]
         /\ NoBytes \in [Streams -> Seq(Cells)]
<1>1. \A s \in Streams : Encoded(j, s) \in Seq(Cells)
  BY EncodedFacts
<1>2. <<>> \in Seq(Cells)
  BY EmptySeq
<1> QED
  BY <1>1, <1>2 DEF EncodeList, HalfEncoded, NoBytes

(* The three kinds of steps a builder's data can take.                       *)
LEMMA StreamsSteps ==
  ASSUME BInv, [BuilderNext]_BuilderVars
  PROVE  /\ Streams' = Streams
         /\ UNCHANGED size
         /\ stored' \in [Streams -> Seq(Cells)]
         /\ endpoints' \in [Streams -> Seq(Nat)]
         /\ direct' \in Seq([after : Nat, quiet : BOOLEAN])
         /\ Len(direct') <= NumDirect
         /\ StreamsRight'
<1> USE DEF BInv
<1>1. CASE RunInlineList
  <2> DEFINE bytes == EncodeList(added)
  <2>1. /\ added \in Jobs
        /\ added = Len(committed) + 1
        /\ committed' = Append(committed, added)
        /\ AppendList(bytes)
        /\ UNCHANGED <<size, direct>>
    BY <1>1, InlineFacts DEF RunInlineList
  <2>2. \A s \in Streams : bytes[s] = Encoded(added, s)
    BY DEF EncodeList
  <2> HIDE DEF bytes
  <2> QED
    BY <2>1, <2>2, StreamsAfterCommit DEF IInv, Ranges
<1>2. CASE CommitList
  <2> DEFINE j == FrontBatch.jobs[next_commit]
             bytes == buffer[j]
  <2>1. /\ j \in Jobs
        /\ j = Len(committed) + 1
        /\ committed' = Append(committed, j)
        /\ bytes = EncodeList(j)
    BY <1>2, CommitFacts DEF CommitList
  <2>2. AppendList(bytes) /\ UNCHANGED <<size, direct>>
    BY <1>2 DEF CommitList
  <2>3. \A s \in Streams : bytes[s] = Encoded(j, s)
    BY <2>1 DEF EncodeList
  <2> HIDE DEF j, bytes
  <2> QED
    BY <2>1, <2>2, <2>3, StreamsAfterCommit DEF IInv, Ranges
<1>3. CASE AddBytes
  <2>1. UNCHANGED size
    BY <1>3 DEF AddBytes
  <2> QED
    BY <1>3, <2>1, StreamsAfterDirect DEF IInv
<1>4. CASE UNCHANGED <<stored, endpoints, size, direct, committed>>
  <2>1. Streams' = Streams
    BY <1>4 DEF Streams
  <2> QED
    BY <1>4, <2>1, StreamsSame DEF Ranges
<1> QED
  BY <1>1, <1>2, <1>3, <1>4
     DEF BuilderNext, BuilderVars, vars, dataVars, AddPostingList, Encoding,
         BeginEncoding, EndEncoding, QueueOnly, Build, Idle, AddJob,
         AddJobInline, Complete, Drain, MakeRoom, SpawnThread, Join, PopFront,
         BeginPrepare, EndPrepare, PrepareThrows

LEMMA BufferRangeStep ==
  ASSUME BInv, [BuilderNext]_BuilderVars
  PROVE  buffer' \in [Jobs -> [Streams -> Seq(Cells)]]
<1>1. Ranges /\ TypeOK
  BY DEF BInv, Ranges
<1>2. ASSUME NEW k \in 1 .. Len(running_threads), BeginEncoding(k)
      PROVE  buffer' \in [Jobs -> [Streams -> Seq(Cells)]]
  <2> DEFINE j == running_threads[k].jobs[running_threads'[k].started]
  <2>1. buffer' = [buffer EXCEPT ![j] = HalfEncoded(j)]
    BY <1>2 DEF BeginEncoding
  <2>2. running_threads'[k].started \in 1 .. Len(running_threads[k].jobs)
    <3>1. BeginPrepare(k) /\ IInv /\ BatchesOrdered
      BY <1>2 DEF BInv, BeginEncoding, BeginPrepare
    <3> QED
      BY <3>1, FreshJob
  <2>3. j \in Jobs
    BY <1>1, <2>2, BatchFacts
  <2> HIDE DEF j
  <2>4. HalfEncoded(j) \in [Streams -> Seq(Cells)]
    BY <1>1, <2>3, BufferValues
  <2> QED
    BY <1>1, <2>1, <2>4 DEF Ranges
<1>3. ASSUME NEW k \in 1 .. Len(running_threads), EndEncoding(k)
      PROVE  buffer' \in [Jobs -> [Streams -> Seq(Cells)]]
  <2> DEFINE j == running_threads[k].jobs[running_threads[k].started]
  <2>1. buffer' = [buffer EXCEPT ![j] = EncodeList(j)]
    BY <1>3 DEF EndEncoding
  <2>2. j \in Jobs
    BY <1>1, <1>3, BatchFacts DEF EndEncoding, EndPrepare, Busy
  <2> HIDE DEF j
  <2>3. EncodeList(j) \in [Streams -> Seq(Cells)]
    BY <1>1, <2>2, BufferValues
  <2> QED
    BY <1>1, <2>1, <2>3 DEF Ranges
<1>4. CASE CommitList
  <2> DEFINE j == FrontBatch.jobs[next_commit]
  <2>1. j \in Jobs
    BY <1>4, CommitFacts DEF BInv, CommitList
  <2>2. buffer' = [buffer EXCEPT ![j] = NoBytes]
    BY <1>4 DEF CommitList, FreeBuffer
  <2> HIDE DEF j
  <2>3. NoBytes \in [Streams -> Seq(Cells)]
    BY <1>1, <2>1, BufferValues
  <2> QED
    BY <1>1, <2>2, <2>3 DEF Ranges
<1>5. CASE UNCHANGED buffer
  BY <1>1, <1>5 DEF Ranges
<1> QED
  BY <1>2, <1>3, <1>4, <1>5
     DEF BuilderNext, BuilderVars, vars, dataVars, AddPostingList, AddBytes,
         RunInlineList, Encoding, QueueOnly, Build, Idle

LEMMA RangesStep ==
  ASSUME BInv, [BuilderNext]_BuilderVars
  PROVE  Ranges'
<1>1. TypeOK'
  BY QueueStep, IInvStep DEF BInv, IInv
<1>2. /\ Streams' = Streams
      /\ UNCHANGED size
      /\ stored' \in [Streams -> Seq(Cells)]
      /\ endpoints' \in [Streams -> Seq(Nat)]
      /\ direct' \in Seq([after : Nat, quiet : BOOLEAN])
      /\ Len(direct') <= NumDirect
  BY StreamsSteps
<1>3. Cells' = Cells
  BY <1>2 DEF Cells
<1>4. buffer' \in [Jobs -> [Streams -> Seq(Cells)]]
  BY BufferRangeStep
<1>5. Streams \in Builders /\ size \in [Jobs -> [Streams -> EncodedSizes]]
  BY DEF BInv, Ranges
<1> QED
  BY <1>1, <1>2, <1>3, <1>4, <1>5 DEF Ranges, Jobs

-----------------------------------------------------------------------------
(* The buffers.  Every job finished and not yet committed has its list.      *)
LEMMA EncodedStep ==
  ASSUME BInv, [BuilderNext]_BuilderVars
  PROVE  BuffersEncoded'
<1>1. TypeOK /\ Progress /\ Len(committed) \in Nat
  BY LenProperties DEF BInv, IInv, TypeOK
<1>2. \A j : EncodeList(j)' = EncodeList(j)
  BY StreamsSteps DEF EncodeList, Encoded
<1>3. /\ buffer \in [Jobs -> [Streams -> Seq(Cells)]]
      /\ BuffersEncoded
  BY DEF BInv, Ranges
<1>4. \A k \in 1 .. Len(running_threads) :
        \A i \in 1 .. running_threads[k].finished :
          /\ i \in 1 .. Len(running_threads[k].jobs)
          /\ running_threads[k].jobs[i] \in Jobs
          /\ running_threads[k].jobs[i] \in Nat
  <2> TAKE k \in 1 .. Len(running_threads)
  <2> TAKE i \in 1 .. running_threads[k].finished
  <2>1. running_threads[k].finished <= running_threads[k].started
    BY <1>1 DEF Progress
  <2>2. i \in 1 .. Len(running_threads[k].jobs)
    BY <1>1, <2>1, BatchFacts
  <2> QED
    BY <1>1, <2>2, BatchFacts, QueueAssumption DEF Jobs
<1>5. ASSUME NEW k \in 1 .. Len(running_threads), BeginEncoding(k)
      PROVE  BuffersEncoded'
  <2> DEFINE m == running_threads[k].jobs[running_threads'[k].started]
  <2>1. /\ BeginPrepare(k) /\ IInv /\ BatchesOrdered
        /\ buffer' = [buffer EXCEPT ![m] = HalfEncoded(m)]
        /\ UNCHANGED committed
    BY <1>5 DEF BInv, BeginEncoding, BeginPrepare
  <2>2. /\ Len(running_threads') = Len(running_threads)
        /\ \A l \in 1 .. Len(running_threads) :
             /\ running_threads'[l].jobs = running_threads[l].jobs
             /\ running_threads'[l].finished = running_threads[l].finished
    BY <1>1, <2>1, BeginFacts
  <2>3. \A l \in 1 .. Len(running_threads) :
          \A i \in 1 .. running_threads[l].finished :
            running_threads[l].jobs[i] # m
    BY <2>1, FreshJob
  <2> HIDE DEF m
  <2>4. \A l \in 1 .. Len(running_threads) :
          \A i \in 1 .. running_threads[l].finished :
            buffer'[running_threads[l].jobs[i]] = buffer[running_threads[l].jobs[i]]
    BY <1>3, <1>4, <2>1, <2>3
  <2> QED
    BY <1>2, <1>3, <2>1, <2>2, <2>4 DEF BuffersEncoded
<1>6. ASSUME NEW k \in 1 .. Len(running_threads), EndEncoding(k)
      PROVE  BuffersEncoded'
  <2> DEFINE m == running_threads[k].jobs[running_threads[k].started]
  <2>1. /\ EndPrepare(k)
        /\ buffer' = [buffer EXCEPT ![m] = EncodeList(m)]
        /\ UNCHANGED committed
        /\ running_threads[k].started = running_threads[k].finished + 1
    BY <1>6 DEF EndEncoding, EndPrepare, Busy
  <2>2. /\ Len(running_threads') = Len(running_threads)
        /\ \A l \in 1 .. Len(running_threads) :
             /\ running_threads'[l].jobs = running_threads[l].jobs
             /\ l # k => running_threads'[l] = running_threads[l]
        /\ running_threads'[k].finished = running_threads[k].finished + 1
    BY <1>1, <2>1, EndFacts
  <2>3. running_threads[k].finished \in Nat /\ m \in Jobs
    BY <1>1, <2>1, BatchFacts
  <2>4. ASSUME NEW l \in 1 .. Len(running_threads),
               NEW i \in 1 .. running_threads'[l].finished,
               running_threads[l].jobs[i] > Len(committed)
        PROVE  buffer'[running_threads[l].jobs[i]] = EncodeList(running_threads[l].jobs[i])
    <3> DEFINE x == running_threads[l].jobs[i]
    <3>1. CASE l = k /\ i = running_threads[k].finished + 1
      <4>1. x = m
        BY <2>1, <3>1
      <4> HIDE DEF x, m
      <4> QED
        BY <1>3, <2>1, <2>3, <4>1 DEF x
    <3>2. CASE ~ (l = k /\ i = running_threads[k].finished + 1)
      <4>1. i \in 1 .. running_threads[l].finished
        BY <2>2, <2>3, <3>2
      <4>2. x \in Jobs /\ buffer[x] = EncodeList(x)
        BY <1>3, <1>4, <2>4, <4>1 DEF BuffersEncoded
      <4> HIDE DEF x, m
      <4>3. buffer'[x] = EncodeList(x)
        BY <1>3, <2>1, <4>2
      <4> QED
        BY <4>3 DEF x
    <3> QED
      BY <3>1, <3>2
  <2>5. UNCHANGED committed
    BY <2>1
  <2>6. /\ Len(running_threads') = Len(running_threads)
        /\ \A l \in 1 .. Len(running_threads) :
             running_threads'[l].jobs = running_threads[l].jobs
    BY <2>2
  <2> HIDE DEF m
  <2> QED
    BY <1>2, <2>4, <2>5, <2>6 DEF BuffersEncoded
<1>7. CASE CommitList
  <2> DEFINE m == FrontBatch.jobs[next_commit]
  <2>1. /\ m = Len(committed) + 1
        /\ committed' = Append(committed, m)
        /\ m \in Jobs
        /\ UNCHANGED running_threads
        /\ buffer' = [buffer EXCEPT ![m] = NoBytes]
    BY <1>7, CommitFacts DEF BInv, CommitList, CommitJob, FreeBuffer
  <2> HIDE DEF m
  <2>2. Len(committed') = Len(committed) + 1
    BY <1>1, <2>1, AppendProperties DEF TypeOK
  <2>3. ASSUME NEW l \in 1 .. Len(running_threads),
               NEW i \in 1 .. running_threads[l].finished,
               running_threads[l].jobs[i] > Len(committed')
        PROVE  buffer'[running_threads[l].jobs[i]] = EncodeList(running_threads[l].jobs[i])
    <3>1. /\ running_threads[l].jobs[i] \in Jobs
          /\ running_threads[l].jobs[i] # m
          /\ running_threads[l].jobs[i] > Len(committed)
      BY <1>1, <1>4, <2>1, <2>2, <2>3
    <3> QED
      BY <1>3, <2>1, <3>1 DEF BuffersEncoded
  <2> QED
    BY <1>2, <2>1, <2>3 DEF BuffersEncoded
<1>8. CASE RunInlineList
  <2>1. /\ committed' = Append(committed, added)
        /\ added \in Jobs
        /\ UNCHANGED <<running_threads, buffer>>
    BY <1>8, InlineFacts DEF BInv, RunInlineList, RunInline
  <2>2. Len(committed') = Len(committed) + 1
    BY <1>1, <2>1, AppendProperties DEF TypeOK
  <2>3. ASSUME NEW l \in 1 .. Len(running_threads),
               NEW i \in 1 .. running_threads[l].finished,
               running_threads[l].jobs[i] > Len(committed')
        PROVE  buffer[running_threads[l].jobs[i]] = EncodeList(running_threads[l].jobs[i])
    <3>1. running_threads[l].jobs[i] > Len(committed)
      BY <1>1, <1>4, <2>2, <2>3
    <3> QED
      BY <1>3, <3>1 DEF BuffersEncoded
  <2> QED
    BY <1>2, <2>1, <2>3 DEF BuffersEncoded
<1>9. CASE SpawnThread /\ UNCHANGED dataVars
  <2>1. UNCHANGED <<buffer, committed>>
    BY <1>9 DEF SpawnThread, dataVars
  <2>2. \A k \in 1 .. Len(running_threads') :
          /\ k \in 1 .. Len(running_threads) /\ running_threads'[k] = running_threads[k]
          \/ running_threads'[k].finished = 0
    BY <1>1, <1>9, SpawnFacts
  <2> QED
    BY <1>2, <1>3, <2>1, <2>2 DEF BuffersEncoded
<1>10. CASE PopFront /\ UNCHANGED dataVars
  <2>1. UNCHANGED <<buffer, committed>> /\ running_threads # <<>>
    BY <1>10 DEF PopFront, dataVars, BInv, IInv, Control
  <2>2. \A k \in 1 .. Len(running_threads') :
          k + 1 \in 1 .. Len(running_threads) /\ running_threads'[k] = running_threads[k + 1]
    BY <1>1, <1>10, <2>1, PopFacts
  <2> QED
    BY <1>2, <1>3, <2>1, <2>2 DEF BuffersEncoded
<1>11. CASE UNCHANGED <<buffer, committed, running_threads>>
  BY <1>2, <1>3, <1>11 DEF BuffersEncoded
<1> QED
  BY <1>5, <1>6, <1>7, <1>8, <1>9, <1>10, <1>11
     DEF BuilderNext, BuilderVars, vars, dataVars, AddPostingList, AddBytes,
         Encoding, QueueOnly, Build, Idle, AddJob, AddJobInline, Complete,
         Drain, MakeRoom, Join, PrepareThrows

(* Only jobs of running batches that are not yet committed hold memory.      *)
LEMMA RunningFacts ==
  ASSUME TypeOK, NEW k \in 1 .. Len(running_threads),
         NEW i \in 1 .. Len(running_threads[k].jobs)
  PROVE  running_threads[k].jobs[i] \in RunningJobs
<1>1. i \in DOMAIN running_threads[k].jobs
  BY BatchFacts, LenProperties
<1>2. running_threads[k].jobs[i] \in ToSet(running_threads[k].jobs)
  BY <1>1 DEF ToSet
<1> QED
  BY <1>2 DEF RunningJobs

LEMMA CommittedSet ==
  ASSUME TypeOK, CommitInOrder
  PROVE  \A j : j \in ToSet(committed) <=> j \in 1 .. Len(committed)
<1>1. DOMAIN committed = 1 .. Len(committed)
  BY LenProperties DEF TypeOK
<1> QED
  BY <1>1 DEF ToSet, CommitInOrder

LEMMA FreedStep ==
  ASSUME BInv, [BuilderNext]_BuilderVars
  PROVE  BuffersFreed'
<1>1. /\ IInv /\ TypeOK /\ CommitInOrder /\ Len(committed) \in Nat
      /\ BuffersFreed /\ buffer \in [Jobs -> [Streams -> Seq(Cells)]]
      /\ Jobs \subseteq Nat
  BY LenProperties, QueueAssumption DEF BInv, IInv, TypeOK, Ranges, Jobs
<1>2. NoBytes' = NoBytes
  BY StreamsSteps DEF NoBytes
<1> SUFFICES ASSUME NEW x \in Jobs, buffer'[x] # NoBytes
             PROVE  x \in RunningJobs' /\ x \notin ToSet(committed')
  BY <1>2 DEF BuffersFreed, Jobs
<1>3. ASSUME NEW k \in 1 .. Len(running_threads), BeginEncoding(k)
      PROVE  x \in RunningJobs' /\ x \notin ToSet(committed')
  <2> DEFINE n == running_threads'[k].started
             m == running_threads[k].jobs[n]
  <2>1. /\ BeginPrepare(k) /\ BatchesOrdered
        /\ buffer' = [buffer EXCEPT ![m] = HalfEncoded(m)]
        /\ UNCHANGED committed
    BY <1>3 DEF BInv, BeginEncoding, BeginPrepare
  <2>2. /\ Len(running_threads') = Len(running_threads)
        /\ \A l \in 1 .. Len(running_threads) :
             running_threads'[l].jobs = running_threads[l].jobs
    BY <1>1, <2>1, BeginFacts
  <2>3. RunningJobs' = RunningJobs
    BY <2>2 DEF RunningJobs
  <2>4. n \in 1 .. Len(running_threads[k].jobs) /\ m > Len(committed)
    BY <1>1, <2>1, FreshJob
  <2>5. m \in RunningJobs
    BY <1>1, <2>4, RunningFacts
  <2>6. m \notin ToSet(committed)
    BY <1>1, <2>4, CommittedSet
  <2> HIDE DEF m
  <2>7. x # m => buffer'[x] = buffer[x]
    BY <1>1, <2>1
  <2> QED
    BY <1>1, <2>1, <2>3, <2>5, <2>6, <2>7 DEF BuffersFreed
<1>4. ASSUME NEW k \in 1 .. Len(running_threads), EndEncoding(k)
      PROVE  x \in RunningJobs' /\ x \notin ToSet(committed')
  <2> DEFINE m == running_threads[k].jobs[running_threads[k].started]
  <2>1. /\ EndPrepare(k)
        /\ buffer' = [buffer EXCEPT ![m] = EncodeList(m)]
        /\ UNCHANGED committed
        /\ running_threads[k].started = running_threads[k].finished + 1
        /\ pc # "terminated"
    BY <1>4 DEF EndEncoding, EndPrepare, Busy
  <2>2. /\ Len(running_threads') = Len(running_threads)
        /\ \A l \in 1 .. Len(running_threads) :
             running_threads'[l].jobs = running_threads[l].jobs
    BY <1>1, <2>1, EndFacts
  <2>3. RunningJobs' = RunningJobs
    BY <2>2 DEF RunningJobs
  <2>4. running_threads[k].started \in 1 .. Len(running_threads[k].jobs)
    BY <1>1, <2>1, BatchFacts
  <2>5. m \in RunningJobs
    BY <1>1, <2>4, RunningFacts
  <2>6. m \notin ToSet(committed)
    <3>1. Control /\ JobsInPlace /\ BatchesOrdered
      BY <2>1 DEF BInv, IInv
    <3>2. m > Len(committed)
      <4>1. CASE k = 1
        <5>1. commit_pc # "commit"
          <6> SUFFICES ASSUME commit_pc = "commit" PROVE FALSE
            OBVIOUS
          <6>1. running_threads # <<>> /\ ~ Busy(Head(running_threads))
            BY <1>1 DEF IInv, PreparedBeforeCommit
          <6>2. Head(running_threads) = running_threads[1]
            BY <1>1, <6>1, FrontFacts
          <6> QED
            BY <2>1, <4>1, <6>1, <6>2 DEF Busy
        <5>2. next_commit = 1
          BY <3>1, <5>1 DEF Control
        <5> QED
          BY <1>1, <2>4, <3>1, <4>1, <5>2, CommittedReach
      <4>2. CASE k # 1
        BY <1>1, <2>4, <3>1, <4>2, CommittedReach
      <4> QED
        BY <4>1, <4>2
    <3> QED
      BY <1>1, <3>2, CommittedSet
  <2> HIDE DEF m
  <2>7. x # m => buffer'[x] = buffer[x]
    BY <1>1, <2>1
  <2> QED
    BY <1>1, <2>1, <2>3, <2>5, <2>6, <2>7 DEF BuffersFreed
<1>5. CASE CommitList
  <2> DEFINE m == FrontBatch.jobs[next_commit]
  <2>1. /\ m = Len(committed) + 1
        /\ committed' = Append(committed, m)
        /\ m \in Jobs
        /\ UNCHANGED running_threads
        /\ buffer' = [buffer EXCEPT ![m] = NoBytes]
    BY <1>1, <1>5, CommitFacts DEF BInv, CommitList, CommitJob, FreeBuffer
  <2>2. TypeOK' /\ CommitInOrder'
    BY QueueStep, IInvStep DEF BInv, IInv
  <2> HIDE DEF m
  <2>3. x # m /\ buffer'[x] = buffer[x]
    BY <1>1, <2>1
  <2>4. x \in RunningJobs /\ x \notin 1 .. Len(committed)
    BY <1>1, <2>3, CommittedSet DEF BuffersFreed
  <2>5. Len(committed') = Len(committed) + 1
    BY <1>1, <2>1, AppendProperties DEF TypeOK
  <2>6. x \notin 1 .. Len(committed')
    BY <1>1, <2>1, <2>3, <2>4, <2>5
  <2>7. DOMAIN committed' = 1 .. Len(committed') /\ \A i \in 1 .. Len(committed') : committed'[i] = i
    BY <2>2, LenProperties DEF TypeOK, CommitInOrder
  <2>8. x \notin ToSet(committed')
    BY <2>6, <2>7 DEF ToSet
  <2> QED
    BY <2>1, <2>4, <2>8 DEF RunningJobs
<1>6. CASE RunInlineList
  <2>1. buffer' = buffer /\ running_threads = <<>>
    BY <1>6 DEF RunInlineList, RunInline, BInv, IInv, Control
  <2>2. RunningJobs = {}
    BY <2>1 DEF RunningJobs
  <2> QED
    BY <1>1, <2>1, <2>2 DEF BuffersFreed
<1>7. CASE SpawnThread /\ UNCHANGED dataVars
  <2>1. UNCHANGED <<buffer, committed>>
    BY <1>7 DEF SpawnThread, dataVars
  <2>2. \A k \in 1 .. Len(running_threads) :
          k \in 1 .. Len(running_threads') /\ running_threads'[k] = running_threads[k]
    BY <1>1, <1>7, SpawnFacts
  <2>3. RunningJobs \subseteq RunningJobs'
    BY <2>2 DEF RunningJobs
  <2> QED
    BY <1>1, <2>1, <2>3 DEF BuffersFreed
<1>8. CASE PopFront /\ UNCHANGED dataVars
  <2>1. /\ UNCHANGED <<buffer, committed>>
        /\ running_threads # <<>>
        /\ Control /\ JobsInPlace /\ BatchesOrdered
        /\ next_commit > Len(FrontBatch.jobs)
    BY <1>8 DEF PopFront, dataVars, BInv, IInv, Control
  <2>2. /\ Len(running_threads) \in Nat \ {0}
        /\ Len(running_threads') = Len(running_threads) - 1
        /\ \A k \in 1 .. Len(running_threads') :
             running_threads'[k] = running_threads[k + 1]
    BY <1>1, <1>8, <2>1, PopFacts
  <2>3. x \in RunningJobs /\ x \notin 1 .. Len(committed)
    BY <1>1, <2>1, CommittedSet DEF BuffersFreed
  <2>4. PICK k \in 1 .. Len(running_threads) : x \in ToSet(running_threads[k].jobs)
    BY <2>3 DEF RunningJobs
  <2>5. k # 1
    <3> SUFFICES ASSUME k = 1 PROVE FALSE
      OBVIOUS
    <3>1. PICK i \in 1 .. Len(running_threads[k].jobs) : x = running_threads[k].jobs[i]
      BY <1>1, <2>4, BatchFacts, LenProperties DEF ToSet
    <3>2. x = Len(committed) + 1 + i - next_commit
      BY <1>1, <2>1, <3>1, CommittedReach
    <3>3. next_commit > Len(running_threads[k].jobs) /\ next_commit \in Nat
      BY <1>1, <2>1, FrontFacts DEF TypeOK
    <3> DEFINE n == Len(running_threads[k].jobs)
               c == Len(committed)
    <3>4. n \in Nat /\ c \in Nat /\ x \in Nat /\ x >= 1 /\ x \notin 1 .. c
      BY <1>1, <2>3, BatchFacts, QueueAssumption DEF Jobs
    <3> HIDE DEF n, c
    <3>5. i \in 1 .. n /\ x = c + 1 + i - next_commit /\ next_commit > n
      BY <3>2, <3>3 DEF n, c
    <3> QED
      BY <3>3, <3>4, <3>5
  <2>6. k - 1 \in 1 .. Len(running_threads') /\ running_threads'[k - 1] = running_threads[k]
    BY <2>2, <2>5
  <2>7. x \in RunningJobs'
    BY <2>4, <2>6 DEF RunningJobs
  <2>8. x \notin ToSet(committed')
    BY <1>1, <2>1 DEF BuffersFreed
  <2> QED
    BY <2>7, <2>8
<1>9. CASE UNCHANGED <<buffer, committed, running_threads>>
  BY <1>1, <1>9 DEF BuffersFreed, RunningJobs
<1> QED
  BY <1>3, <1>4, <1>5, <1>6, <1>7, <1>8, <1>9
     DEF BuilderNext, BuilderVars, vars, dataVars, AddPostingList, AddBytes,
         Encoding, QueueOnly, Build, Idle, AddJob, AddJobInline, Complete,
         Drain, MakeRoom, Join, PrepareThrows

(* Nothing moves under the index once it is built.                           *)
LEMMA FrozenStep ==
  ASSUME BInv, [BuilderNext]_BuilderVars
  PROVE  IndexFrozen'
<1>1. CASE Build
  <2>1. Streams' = Streams
    BY <1>1 DEF Build, Streams
  <2> QED
    BY <1>1, <2>1 DEF Build, IndexFrozen, QueueCompleted, vars, StoredEndpoints
<1>2. CASE index = NoIndex /\ UNCHANGED index
  BY <1>2 DEF IndexFrozen, NoIndex
<1>3. CASE index # NoIndex /\ ~ Build
  <2>1. pc = "done" /\ commit_pc = "out" /\ running_threads = <<>>
    BY <1>3 DEF BInv, IndexFrozen, IInv, Control
  <2>2. UNCHANGED <<stored, endpoints, index, pc>>
    BY <1>3, <2>1
       DEF BuilderNext, BuilderVars, vars, dataVars, AddPostingList, AddBytes,
           RunInlineList, RunInline, CommitList, CommitJob, Encoding,
           QueueOnly, Idle, AddJob, AddJobInline, Complete, Drain, MakeRoom,
           SpawnThread, Join, PopFront, PrepareThrows
  <2>3. Streams' = Streams
    BY <2>2 DEF Streams
  <2> QED
    BY <2>2, <2>3 DEF BInv, IndexFrozen, NoIndex, StoredEndpoints
<1> QED
  BY <1>1, <1>2, <1>3
     DEF BuilderNext, BuilderVars, vars, dataVars, AddPostingList, AddBytes,
         RunInlineList, CommitList, Encoding, BeginEncoding, EndEncoding,
         QueueOnly, Idle

-----------------------------------------------------------------------------
LEMMA BInvInit == BuilderInit => BInv
<1> SUFFICES ASSUME BuilderInit PROVE BInv
  OBVIOUS
<1>1. /\ IInv /\ TypeOK
      /\ running_threads = <<>> /\ committed = <<>>
      /\ Len(running_threads) = 0 /\ Len(committed) = 0
  BY IInvInit DEF BuilderInit, Init, IInv
<1>2. /\ Streams \in Builders
      /\ stored = [s \in Streams |-> <<>>]
      /\ size \in [Jobs -> [Streams -> EncodedSizes]]
      /\ buffer = [j \in Jobs |-> NoBytes]
      /\ endpoints = [s \in Streams |-> <<0>>]
      /\ direct = <<>> /\ Len(direct) = 0
      /\ index = NoIndex
  BY DEF BuilderInit, Streams
<1>3. NumLists = 0 /\ Calls = {}
  BY <1>1, <1>2 DEF NumLists, Calls
<1>4. Ranges
  <2>1. /\ <<>> \in Seq(Cells)
        /\ <<0>> \in Seq(Nat)
        /\ <<>> \in Seq([after : Nat, quiet : BOOLEAN])
    OBVIOUS
  <2>2. NoBytes \in [Streams -> Seq(Cells)]
    BY <2>1 DEF NoBytes
  <2> QED
    BY <1>1, <1>2, <2>1, <2>2, BuilderAssumption DEF Ranges
<1>5. StreamsRight
  <2>1. Layout
    BY <1>2, <1>3 DEF Layout
  <2>2. SectionsWhole /\ CallsPlaced
    BY <1>3 DEF SectionsWhole, CallsPlaced
  <2>3. JobsInOrder
    <3>1. JobsUpTo(NumLists) = {}
      BY <1>3 DEF JobsUpTo
    <3> QED
      BY <1>1, <1>3, <3>1, FS_EmptySet DEF JobsInOrder
  <2>4. QuietOrder
    BY <1>2, <1>3 DEF QuietOrder
  <2> QED
    BY <2>1, <2>2, <2>3, <2>4 DEF StreamsRight
<1>6. BatchesOrdered /\ BuffersEncoded /\ BuffersFreed /\ IndexFrozen
  BY <1>1, <1>2 DEF BatchesOrdered, BuffersEncoded, BuffersFreed, IndexFrozen
<1> QED
  BY <1>1, <1>4, <1>5, <1>6 DEF BInv

LEMMA BInvStep == BInv /\ [BuilderNext]_BuilderVars => BInv'
<1> SUFFICES ASSUME BInv, [BuilderNext]_BuilderVars PROVE BInv'
  OBVIOUS
<1>1. [Next]_vars
  BY QueueStep
<1>2. IInv'
  BY <1>1, IInvStep DEF BInv
<1>3. ASSUME pc' # "terminated"
      PROVE  BatchesOrdered'
  <2>1. pc # "terminated"
    BY <1>1, <1>3
       DEF Next, Caller, QueueCode, Workers, Worker, Stopped, vars, AddJob,
           AddJobInline, RunInline, Complete, Drain, MakeRoom, SpawnThread,
           Join, CommitJob, PopFront, BeginPrepare, EndPrepare, PrepareThrows
  <2> QED
    BY <1>1, <2>1, OrderStep DEF BInv
<1> QED
  BY <1>2, <1>3, StreamsSteps, RangesStep, EncodedStep, FreedStep, FrozenStep
     DEF BInv

LEMMA BInvAlways == BuilderSpec => []BInv
  BY BInvInit, BInvStep, PTL DEF BuilderSpec

(* Every state of a builder is well typed; in particular an endpoint is a    *)
(* place in its stream.                                                      *)
THEOREM BuilderTypeCorrect == BuilderSpec => []BuilderTypeOK
<1>1. BInv => BuilderTypeOK
  <2> SUFFICES ASSUME BInv PROVE BuilderTypeOK
    OBVIOUS
  <2>1. Ranges /\ Layout /\ IndexFrozen /\ TypeOK
    BY DEF BInv, StreamsRight, Ranges
  <2>2. ASSUME NEW s \in Streams
        PROVE  endpoints[s] \in Seq(0 .. Len(stored[s]))
    <3> DEFINE e == endpoints[s]
               t == Len(stored[s])
    <3>1. e \in Seq(Nat) /\ t \in Nat /\ NumLists \in Nat
      BY <2>1, LenProperties DEF Ranges, NumLists, TypeOK
    <3>2. /\ Len(e) = NumLists + 1
          /\ e[NumLists + 1] = t
          /\ \A i \in 1 .. NumLists : e[i] <= e[i + 1] /\ e[i + 1] <= t
      BY <2>1 DEF Layout
    <3> HIDE DEF e, t
    <3>3. ASSUME NEW i \in 1 .. Len(e)
          PROVE  e[i] \in 0 .. t
      <4>1. e[i] \in Nat
        BY <3>1, ElementOfSeq
      <4>2. CASE i \in 1 .. NumLists
        <5>1. i + 1 \in 1 .. Len(e)
          BY <3>1, <3>2, <4>2
        <5>2. e[i + 1] \in Nat
          BY <3>1, <5>1, ElementOfSeq
        <5> QED
          BY <3>1, <3>2, <4>1, <4>2, <5>2
      <4>3. CASE i = NumLists + 1
        BY <3>1, <3>2, <4>3
      <4> QED
        BY <3>1, <3>2, <4>2, <4>3
    <3>4. e \in [1 .. Len(e) -> 0 .. t]
      BY <3>1, <3>3, LenProperties
    <3>5. e \in Seq(0 .. t)
      BY <3>1, <3>4, LenProperties, SeqDef
    <3> QED
      BY <3>5 DEF e, t
  <2>3. index = NoIndex \/ DOMAIN index = Streams
    BY <2>1 DEF IndexFrozen
  <2> QED
    BY <2>1, <2>2, <2>3 DEF BuilderTypeOK, Ranges
<1> QED
  BY <1>1, BInvAlways, PTL

(* Memory is held only for the jobs the workers hold, and freed by the       *)
(* commit.                                                                   *)
THEOREM BuffersAreFreed == BuilderSpec => []BuffersFreed
<1>1. BInv => BuffersFreed
  BY DEF BInv
<1> QED
  BY <1>1, BInvAlways, PTL

-----------------------------------------------------------------------------
(* What the index returns, once built, are the sections of the streams.      *)
LEMMA ReadBack ==
  ASSUME BInv, index # NoIndex, NEW s \in Streams
  PROVE  /\ Size(s) = NumLists
         /\ NumLists \in Nat
         /\ Len(committed) = added
         /\ NumLists = added + Len(direct)
         /\ \A i \in 1 .. NumLists : ListAt(s, i) = Section(s, i)
<1> DEFINE e == endpoints[s]
           starts == StoredEndpoints(e)
<1>1. /\ index[s].starts = starts
      /\ index[s].bytes = stored[s]
      /\ Len(committed) = added
  BY DoneIsComplete DEF BInv, IndexFrozen, CompleteIsComplete
<1>2. /\ e \in Seq(Nat)
      /\ NumLists \in Nat
      /\ Len(e) = NumLists + 1
      /\ e[NumLists + 1] = Len(stored[s])
  BY LenProperties DEF BInv, Ranges, StreamsRight, Layout, NumLists, TypeOK
<1>3. /\ Len(starts) = NumLists
      /\ \A i \in 1 .. NumLists : starts[i] = e[i]
  <2> HIDE DEF e
  <2> DEFINE n == NumLists
  <2>1. starts = SubSeq(e, 1, n)
    BY <1>2 DEF StoredEndpoints
  <2>2. \A i \in 1 .. n : e[i] \in Nat
    BY <1>2, ElementOfSeq
  <2>3. n \in Nat
    BY <1>2
  <2> HIDE DEF n
  <2>4. /\ Len(SubSeq(e, 1, n)) = IF 1 <= n THEN n - 1 + 1 ELSE 0
        /\ \A i \in 1 .. n - 1 + 1 : SubSeq(e, 1, n)[i] = e[1 + i - 1]
    BY <2>2, <2>3, SubSeqProperties
  <2>5. Len(starts) = n
    BY <2>1, <2>3, <2>4
  <2>6. ASSUME NEW i \in 1 .. n PROVE starts[i] = e[i]
    <3>1. i \in 1 .. n - 1 + 1 /\ 1 + i - 1 = i
      BY <2>3
    <3> QED
      BY <2>1, <2>4, <3>1
  <2> QED
    BY <2>5, <2>6 DEF n
<1>4. Size(s) = NumLists
  BY <1>1, <1>3 DEF Size
<1>5. ASSUME NEW i \in 1 .. NumLists
      PROVE  ListAt(s, i) = Section(s, i)
  <2>1. EndOf(s, i) = e[i + 1]
    <3>1. CASE i = NumLists
      BY <1>1, <1>2, <1>4, <3>1 DEF EndOf
    <3>2. CASE i # NumLists
      <4>1. i + 1 \in 1 .. NumLists
        BY <1>2, <3>2
      <4> QED
        BY <1>1, <1>3, <1>4, <3>2, <4>1 DEF EndOf
    <3> QED
      BY <3>1, <3>2
  <2>2. index[s].starts[i] = e[i]
    BY <1>1, <1>3
  <2> QED
    BY <1>1, <2>1, <2>2 DEF ListAt, Section
<1> QED
  BY <1>1, <1>2, <1>4, <1>5 DEF NumLists

(* No list is cut or lost: what the index returns are the lists of all the   *)
(* calls, whatever direct calls were made while jobs were pending.           *)
THEOREM IndexHasWholeLists == BuilderSpec => []ListsWhole
<1>1. BInv => ListsWhole
  <2> SUFFICES ASSUME BInv, index # NoIndex, NEW s \in Streams
               PROVE  /\ Size(s) = added + Len(direct)
                      /\ {ListAt(s, i) : i \in 1 .. Size(s)} =
                           {Encoded(j, s) : j \in 1 .. added}
                             \cup {DirectBytes(d, s) : d \in 1 .. Len(direct)}
    BY DEF ListsWhole
  <2>1. /\ Size(s) = NumLists
        /\ Len(committed) = added
        /\ NumLists = added + Len(direct)
        /\ \A i \in 1 .. NumLists : ListAt(s, i) = Section(s, i)
    BY ReadBack
  <2>2. Ranges /\ SectionsWhole /\ CallsPlaced /\ added \in Nat /\ added <= NumJobs
    BY QueueAssumption DEF BInv, StreamsRight, Ranges, TypeOK
  <2>3. \A c \in 1 .. added : c \in Calls /\ ListOf(c, s) = Encoded(c, s)
    BY <2>1, <2>2, QueueAssumption DEF Calls, ListOf, Jobs
  <2>4. ASSUME NEW d \in 1 .. Len(direct)
        PROVE  NumJobs + d \in Calls /\ ListOf(NumJobs + d, s) = DirectBytes(d, s)
    <3>1. NumJobs + d \notin Jobs /\ (NumJobs + d) - NumJobs = d
      BY QueueAssumption DEF Jobs
    <3> QED
      BY <3>1 DEF Calls, ListOf
  <2>5. ASSUME NEW i \in 1 .. NumLists
        PROVE  \/ \E j \in 1 .. added : Section(s, i) = Encoded(j, s)
               \/ \E d \in 1 .. Len(direct) : Section(s, i) = DirectBytes(d, s)
    <3>1. PICK c \in Calls : Section(s, i) = ListOf(c, s)
      BY <2>2 DEF SectionsWhole, Placed
    <3>2. CASE c \in 1 .. added
      BY <2>3, <3>1, <3>2
    <3>3. CASE c \notin 1 .. added
      <4>1. PICK d \in 1 .. Len(direct) : c = NumJobs + d
        BY <2>1, <3>3 DEF Calls
      <4> QED
        BY <2>4, <3>1, <4>1
    <3> QED
      BY <3>2, <3>3
  <2>6. ASSUME NEW c \in Calls
        PROVE  \E i \in 1 .. NumLists : Section(s, i) = ListOf(c, s)
    BY <2>2 DEF CallsPlaced, Placed
  <2>7. {ListAt(s, i) : i \in 1 .. NumLists} = {Section(s, i) : i \in 1 .. NumLists}
    BY <2>1
  <2>8. {Section(s, i) : i \in 1 .. NumLists} =
          {Encoded(j, s) : j \in 1 .. added}
            \cup {DirectBytes(d, s) : d \in 1 .. Len(direct)}
    <3>1. ASSUME NEW j \in 1 .. added
          PROVE  \E i \in 1 .. NumLists : Section(s, i) = Encoded(j, s)
      BY <2>3, <2>6
    <3>2. ASSUME NEW d \in 1 .. Len(direct)
          PROVE  \E i \in 1 .. NumLists : Section(s, i) = DirectBytes(d, s)
      BY <2>4, <2>6
    <3> QED
      BY <2>5, <3>1, <3>2
  <2> QED
    BY <2>1, <2>7, <2>8
<1> QED
  BY <1>1, BInvAlways, PTL

(* When no direct call found jobs pending, the i-th list of the index is     *)
(* that of the i-th call.                                                    *)
THEOREM IndexInCallOrder == BuilderSpec => []ListsInCallOrder
<1>1. BInv => ListsInCallOrder
  <2> SUFFICES ASSUME BInv, index # NoIndex,
                      \A d \in 1 .. Len(direct) : direct[d].quiet,
                      NEW s \in Streams
               PROVE  /\ Size(s) = added + Len(direct)
                      /\ \A i \in 1 .. Size(s) : ListAt(s, i) = CallBytes(s, i)
    BY DEF ListsInCallOrder
  <2>1. \A i \in 1 .. NumLists : Section(s, i) = CallBytes(s, i)
    BY DEF BInv, StreamsRight, QuietOrder
  <2> QED
    BY <2>1, ReadBack
<1> QED
  BY <1>1, BInvAlways, PTL

-----------------------------------------------------------------------------
(* Refinement of OrderedBuild by the bytes in the streams.                   *)
LEMMA OwnerFacts ==
  ASSUME BInv, NEW i \in 1 .. NumLists
  PROVE  /\ Owner(i) \in Calls
         /\ Placed(i, Owner(i))
         /\ \A c \in 1 .. NumJobs + NumDirect : Placed(i, c) => c = Owner(i)
<1> DEFINE whole == {c \in 1 .. NumJobs + Len(direct) : \A s \in Streams :
                       /\ i + 1 <= Len(endpoints[s])
                       /\ Section(s, i) = ListOf(c, s)}
<1>1. /\ Ranges /\ SectionsWhole /\ Layout /\ TypeOK /\ CommitInOrder
      /\ Len(committed) \in 0 .. NumJobs
      /\ Len(direct) \in Nat
      /\ NumLists \in Nat
  BY CommittedRange, CallRange DEF BInv, StreamsRight, Ranges, IInv
<1>2. PICK c \in Calls : Placed(i, c)
  BY <1>1 DEF SectionsWhole
<1>3. c \in 1 .. NumJobs + Len(direct) /\ Calls \subseteq 1 .. NumJobs + NumDirect
  BY <1>1, CallRange, QueueAssumption DEF Calls
<1>4. \A s \in Streams : i + 1 <= Len(endpoints[s])
  BY <1>1 DEF Layout
<1>5. c \in whole
  BY <1>2, <1>3, <1>4 DEF Placed
<1>6. Len(direct) <= NumDirect
  BY <1>1 DEF Ranges
<1>7. \A d \in whole : d \in 1 .. NumJobs + NumDirect /\ Placed(i, d)
  BY <1>1, <1>6, QueueAssumption, BuilderAssumption DEF Placed
<1>8. whole = {c}
  BY <1>1, <1>2, <1>3, <1>5, <1>7, OneOwner
<1>9. Owner(i) = c
  <2>1. Owner(i) = IF whole = {} THEN 0 ELSE CHOOSE d \in whole : TRUE
    BY DEF Owner
  <2> HIDE DEF whole
  <2> QED
    BY <1>8, <2>1
<1> QED
  BY <1>1, <1>2, <1>3, <1>9, OneOwner

OwnersMatch == Owners = committed

LEMMA OwnersAreCommitted == BInv => OwnersMatch
<1> SUFFICES ASSUME BInv PROVE Owners = committed
  BY DEF OwnersMatch
<1> DEFINE s0 == CHOOSE s \in Streams : TRUE
           owner == [i \in 1 .. Len(endpoints[s0]) - 1 |-> Owner(i)]
           ofJobs == {i \in DOMAIN owner : owner[i] <= NumJobs}
           UpTo(i) == {j \in ofJobs : j <= i}
           n == Len(committed)
<1>1. /\ Ranges /\ Layout /\ CallsPlaced /\ JobsInOrder /\ TypeOK /\ CommitInOrder
      /\ n \in 0 .. NumJobs
      /\ NumLists \in Nat
      /\ Calls \subseteq 1 .. NumJobs + NumDirect
  BY CommittedRange, CallRange DEF BInv, StreamsRight, Ranges, IInv
<1>2. Owners = [k \in 1 .. Cardinality(ofJobs) |->
                  owner[CHOOSE i \in ofJobs : Cardinality(UpTo(i)) = k]]
  BY DEF Owners
<1>3. Len(endpoints[s0]) - 1 = NumLists
  <2>1. s0 \in Streams
    BY <1>1, BuilderAssumption DEF Ranges
  <2> HIDE DEF s0
  <2>2. Len(endpoints[s0]) = NumLists + 1
    BY <1>1, <2>1 DEF Layout
  <2> QED
    BY <1>1, <2>2
<1> HIDE DEF s0
<1>4. DOMAIN owner = 1 .. NumLists /\ \A i \in 1 .. NumLists : owner[i] = Owner(i)
  BY <1>3
<1> HIDE DEF owner
<1>5. ASSUME NEW i \in 1 .. NumLists
      PROVE  owner[i] <= NumJobs <=> \E c \in Jobs : Placed(i, c)
  <2>1. /\ Owner(i) \in 1 .. NumJobs + NumDirect
        /\ Placed(i, Owner(i))
        /\ \A c \in 1 .. NumJobs + NumDirect : Placed(i, c) => c = Owner(i)
    BY <1>1, OwnerFacts
  <2>2. Jobs \subseteq 1 .. NumJobs + NumDirect
    BY <1>1, CallRange, QueueAssumption
  <2> QED
    BY <1>4, <2>1, <2>2, QueueAssumption DEF Jobs
<1>6. ofJobs = JobsUpTo(NumLists)
  BY <1>4, <1>5 DEF JobsUpTo
<1>7. ASSUME NEW i \in 1 .. NumLists
      PROVE  UpTo(i) = JobsUpTo(i)
  <2>1. \A j : j \in 1 .. NumLists /\ j <= i <=> j \in 1 .. i
    BY <1>1
  <2> QED
    BY <1>6, <2>1 DEF JobsUpTo
<1>8. Cardinality(ofJobs) = n
  BY <1>1, <1>6 DEF JobsInOrder
<1>9. ASSUME NEW i \in ofJobs
      PROVE  Cardinality(UpTo(i)) = owner[i]
  <2>1. i \in 1 .. NumLists /\ owner[i] = Owner(i) /\ owner[i] <= NumJobs
    BY <1>4
  <2>2. Owner(i) \in 1 .. NumJobs + NumDirect /\ Placed(i, Owner(i))
    BY <1>1, <2>1, OwnerFacts
  <2>3. Owner(i) \in Jobs
    <3> DEFINE o == Owner(i)
    <3>1. o \in 1 .. NumJobs + NumDirect /\ o <= NumJobs
      BY <2>1, <2>2
    <3> HIDE DEF o
    <3>2. o \in Jobs
      BY <3>1, QueueAssumption DEF Jobs
    <3> QED
      BY <3>2 DEF o
  <2> QED
    BY <1>1, <1>7, <2>1, <2>2, <2>3 DEF JobsInOrder
<1>10. ASSUME NEW k \in 1 .. n
       PROVE  \E i \in ofJobs : owner[i] = k
  <2>1. k \in Calls /\ k \in Jobs
    BY <1>1, QueueAssumption DEF Calls, Jobs
  <2>2. PICK i \in 1 .. NumLists : Placed(i, k)
    BY <1>1, <2>1 DEF CallsPlaced
  <2>3. Owner(i) = k
    BY <1>1, <2>1, <2>2, OwnerFacts
  <2> QED
    BY <1>4, <1>6, <2>1, <2>2, <2>3 DEF JobsUpTo
<1> HIDE DEF UpTo, ofJobs
<1>11. ASSUME NEW k \in 1 .. n
       PROVE  owner[CHOOSE i \in ofJobs : Cardinality(UpTo(i)) = k] = k
  <2> DEFINE c == CHOOSE i \in ofJobs : Cardinality(UpTo(i)) = k
  <2>1. \E i \in ofJobs : Cardinality(UpTo(i)) = k
    BY <1>9, <1>10
  <2>2. c \in ofJobs /\ Cardinality(UpTo(c)) = k
    BY <2>1
  <2> HIDE DEF c
  <2>3. owner[c] = k
    BY <1>9, <2>2
  <2> QED
    BY <2>3 DEF c
<1>12. Owners = [k \in 1 .. n |-> k]
  BY <1>2, <1>8, <1>11
<1>13. committed = [k \in 1 .. n |-> k]
  <2>1. committed \in [1 .. n -> Jobs]
    BY <1>1, LenProperties DEF TypeOK
  <2>2. \A k \in 1 .. n : committed[k] = k
    BY <1>1 DEF CommitInOrder
  <2> HIDE DEF n
  <2> QED
    BY <2>1, <2>2
<1> QED
  BY <1>12, <1>13

LEMMA StoreInitial == BuilderInit => Store!AbsInit
<1> SUFFICES ASSUME BuilderInit PROVE Store!AbsInit
  OBVIOUS
<1>1. /\ added = 0 /\ committed = <<>> /\ pc = "idle" /\ index = NoIndex
  BY DEF BuilderInit, Init
<1>2. Owners = committed
  BY BInvInit, OwnersAreCommitted DEF OwnersMatch
<1> QED
  BY <1>1, <1>2 DEF Store!AbsInit

LEMMA StoreStep ==
  ASSUME BInv, [BuilderNext]_BuilderVars, OwnersMatch, OwnersMatch'
  PROVE  [Store!AbsNext]_Store!absVars
<1> DEFINE st == CASE pc = "terminated" -> "aborted"
                   [] index # NoIndex -> "built"
                   [] OTHER -> "open"
<1>1. /\ Owners = committed /\ Owners' = committed'
      /\ IInv /\ TypeOK /\ added \in Nat /\ Len(committed) \in Nat
      /\ index # NoIndex => pc = "done"
  BY QueueAssumption, LenProperties DEF OwnersMatch, BInv, IInv, TypeOK, IndexFrozen
<1> HIDE DEF st
<1> USE DEF Store!absVars, Store!AbsNext
<1>2. CASE AddPostingList
  <2>1. /\ added' = added + 1
        /\ pc = "idle" /\ pc' \in {"spawn", "idle", "inline"}
        /\ UNCHANGED <<committed, index>>
    BY <1>2 DEF AddPostingList, AddJob, AddJobInline, dataVars
  <2>2. st = "open" /\ st' = "open"
    BY <1>1, <2>1 DEF st
  <2>3. Store!Accept
    BY <1>1, <2>1, <2>2 DEF Store!Accept, st
  <2> QED
    BY <2>3
<1>3. CASE RunInlineList
  <2>1. /\ added = Len(committed) + 1
        /\ committed' = Append(committed, added)
        /\ pc = "inline" /\ pc' = "idle"
        /\ UNCHANGED <<added, index>>
    BY <1>1, <1>3, InlineFacts DEF RunInlineList, RunInline
  <2>2. st = "open" /\ st' = "open"
    BY <1>1, <2>1 DEF st
  <2>3. Store!AppendNext
    BY <1>1, <2>1, <2>2 DEF Store!AppendNext, st
  <2> QED
    BY <2>3
<1>4. CASE CommitList
  <2> DEFINE j == FrontBatch.jobs[next_commit]
  <2>1. /\ CommitJob /\ BuffersEncoded
        /\ UNCHANGED <<added, pc, index>>
    BY <1>4 DEF BInv, CommitList, CommitJob
  <2>2. /\ j = Len(committed) + 1
        /\ committed' = Append(committed, j)
        /\ pc \in {"spawn", "drain"}
    BY <1>1, <2>1, CommitFacts
  <2>3. Len(committed) < added
    <3>1. Control /\ KnownJobs
      BY <2>1 DEF BInv, IInv, CommitJob
    <3>2. /\ running_threads # <<>>
          /\ FrontBatch = running_threads[1]
          /\ 1 \in 1 .. Len(running_threads)
      BY <1>1, <2>1, <3>1, FrontFacts DEF Control, CommitJob
    <3>3. next_commit \in 1 .. Len(running_threads[1].jobs)
      BY <1>1, <2>1, <3>2, BatchFacts DEF CommitJob, TypeOK
    <3>4. j <= added
      BY <3>1, <3>2, <3>3 DEF KnownJobs
    <3> HIDE DEF j
    <3> QED
      BY <1>1, <2>2, <3>4
  <2> HIDE DEF j
  <2>4. st = "open" /\ st' = "open"
    BY <1>1, <2>1, <2>2 DEF st
  <2>5. Store!AppendNext
    BY <1>1, <2>1, <2>2, <2>3, <2>4 DEF Store!AppendNext, st
  <2> QED
    BY <2>5
<1>5. CASE Build
  <2>1. /\ pc = "done" /\ index = NoIndex
        /\ index' = [s \in Streams |-> [starts |-> StoredEndpoints(endpoints[s]),
                                         bytes |-> stored[s]]]
        /\ UNCHANGED <<added, committed, pc>>
    BY <1>5 DEF Build, QueueCompleted, vars
  <2>2. index' # NoIndex
    <3>1. Streams # {} /\ DOMAIN index' = Streams
      BY <2>1, BuilderAssumption DEF BInv, Ranges
    <3>2. DOMAIN NoIndex = {}
      BY DEF NoIndex
    <3> QED
      BY <3>1, <3>2
  <2>3. Len(committed) = added
    BY <1>1, <2>1, DoneIsComplete DEF CompleteIsComplete
  <2>4. st = "open" /\ st' = "built"
    BY <2>1, <2>2 DEF st, NoIndex
  <2>5. Store!Finish
    BY <1>1, <2>1, <2>3, <2>4 DEF Store!Finish, st
  <2> QED
    BY <2>5
<1>6. CASE PrepareThrows /\ UNCHANGED dataVars
  <2>1. /\ pc # "terminated" /\ pc # "done" /\ pc' = "terminated"
        /\ UNCHANGED <<added, committed, index>>
    <3>1. CASE pc = "inline"
      BY <1>6, <3>1 DEF PrepareThrows, dataVars
    <3>2. CASE /\ pc # "terminated"
               /\ \E k \in 1 .. Len(running_threads) : Busy(running_threads[k])
      BY <1>1, <1>6, <3>2 DEF PrepareThrows, dataVars, IInv, Control
    <3> QED
      BY <1>6, <3>1, <3>2 DEF PrepareThrows
  <2>2. st = "open" /\ st' = "aborted"
    BY <1>1, <2>1 DEF st
  <2>3. Store!Abort
    BY <1>1, <2>1, <2>2 DEF Store!Abort, st
  <2> QED
    BY <2>3
<1>7. CASE /\ UNCHANGED <<added, committed, index>>
           /\ pc # "terminated" /\ pc' # "terminated"
  BY <1>1, <1>7 DEF NoIndex
<1>8. CASE UNCHANGED <<added, committed, index, pc>>
  BY <1>1, <1>8 DEF NoIndex
<1> QED
  BY <1>2, <1>3, <1>4, <1>5, <1>6, <1>7, <1>8
     DEF BuilderNext, BuilderVars, vars, dataVars, AddBytes, Encoding,
         BeginEncoding, EndEncoding, QueueOnly, Idle, Complete, Drain,
         MakeRoom, SpawnThread, Join, PopFront, BeginPrepare, EndPrepare

(* The bytes that can be read back keep the builder's promise: whole lists,  *)
(* docs next to freqs of the same list, one by one in the order of the       *)
(* calls, and an index only when all are there.                              *)
THEOREM BuilderImplementsOrderedBuild == BuilderSpec => ImplementsOrderedStore
<1>1. BInv /\ [BuilderNext]_BuilderVars /\ OwnersMatch /\ OwnersMatch'
        => [Store!AbsNext]_Store!absVars
  BY StoreStep
<1>2. BuilderSpec => Store!AbsSpec
  BY <1>1, StoreInitial, OwnersAreCommitted, BInvAlways, PTL
     DEF BuilderSpec, Store!AbsSpec
<1> QED
  BY <1>2 DEF ImplementsOrderedStore
=============================================================================
