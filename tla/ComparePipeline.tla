-------------------------- MODULE ComparePipeline ---------------------------
(***************************************************************************)
(* The metadata compare pipeline (compare_pipeline.cpp): one producer and   *)
(* consumer (the caller's main thread), a pool of workers that probe the    *)
(* local file and decide, a task queue under taskMu_ with its condition     *)
(* variable taskCv_, and a result queue.                                    *)
(*                                                                         *)
(* taskCv_.wait(lock, pred) is two steps: the predicate is tested with the  *)
(* mutex held ("dozing" when it was false), then the mutex is released and  *)
(* the worker sleeps.  Flush and the slot release change the predicate's    *)
(* inputs under the mutex, so they wait for a dozing worker to be asleep;   *)
(* Stop stores an atomic and notifies without it.  pending_ feeds only the  *)
(* predicate of the callers' timed waits and is left out.                   *)
(***************************************************************************)
EXTENDS ComparePhase, Sequences, FiniteSets

CONSTANTS
  File,            \* the files of the remote manifest
  Remote,          \* [File -> entry]: what the manifest says of each
  CompareWorker,   \* the threads of the pool
  BatchPop,        \* cfg_.batchPop
  ActiveCap        \* what SetActiveCap last stored; FastCheck leaves it at 0 = unlimited

VARIABLES
  mode,            \* cfg_.mode: "Fast", "Strict" or "SizeOnly"
  disk,            \* [File -> {} or {entry}]: what the injected probe reads
  buffer,          \* dispatchBuffer_
  tasks,           \* tasks_
  results,         \* results_
  issued, drained, \* issued_, drained_
  stop,            \* stop_
  worker,          \* [CompareWorker -> where the thread is in WorkerLoop]
  batch            \* [CompareWorker -> taskBatch, then resultBatch]

pipelineVars == <<mode, disk, buffer, tasks, results, issued, drained, stop,
                  worker, batch>>

WorkerPlace == {"ready", "dozing", "asleep", "probing", "published", "gone"}

PipelineInit ==
  /\ buffer = <<>> /\ tasks = <<>> /\ results = <<>>
  /\ issued = 0 /\ drained = 0
  /\ stop = FALSE
  /\ worker = [w \in CompareWorker |-> "ready"]
  /\ batch = [w \in CompareWorker |-> <<>>]

InFlight == IF issued >= drained THEN issued - drained ELSE 0

\* taskMu_ is held across a step only by a worker about to sleep.
TaskMuFree == \A w \in CompareWorker : worker[w] # "dozing"

\* activeWorkers_, guarded by taskMu_
ActiveWorkers ==
  Cardinality({w \in CompareWorker : worker[w] \in {"probing", "published"}})

\* taskCv_.notify_all() reaches the threads that sleep
Woken(place) == [w \in DOMAIN place |-> IF place[w] = "asleep" THEN "ready" ELSE place[w]]

-----------------------------------------------------------------------------
(* Calls of the main thread; each leaves the rest of the pipeline alone.   *)

\* Enqueue of several entries in a row, and then Flush.
EnqueueAndFlush(entries) ==
  LET all == buffer \o entries IN
  /\ TaskMuFree
  /\ issued' = issued + Len(entries)
  /\ tasks' = tasks \o all
  /\ worker' = IF all = <<>> THEN worker ELSE Woken(worker)
  /\ buffer' = <<>>
  /\ UNCHANGED <<mode, disk, results, drained, stop, batch>>

Enqueue(f) ==
  /\ buffer' = Append(buffer, f)
  /\ issued' = issued + 1
  /\ UNCHANGED <<mode, disk, tasks, results, drained, stop, worker, batch>>

\* Drain hands over everything in the result queue.
Drain ==
  /\ results' = <<>>
  /\ drained' = drained + Len(results)
  /\ UNCHANGED <<mode, disk, buffer, tasks, issued, stop, worker, batch>>

Stop ==
  /\ stop' = TRUE
  /\ worker' = Woken(worker)
  /\ UNCHANGED <<mode, disk, buffer, tasks, results, issued, drained, batch>>

Joined == \A w \in CompareWorker : worker[w] = "gone"

-----------------------------------------------------------------------------
(* WorkerLoop.                                                             *)

\* The predicate of taskCv_.wait.
MayRun == stop \/ (tasks # <<>> /\ (ActiveCap = 0 \/ ActiveWorkers < ActiveCap))

\* A worker holds taskMu_ and finds nothing to do.
WorkerDozes(w) ==
  /\ worker[w] = "ready" /\ TaskMuFree
  /\ ~MayRun
  /\ worker' = [worker EXCEPT ![w] = "dozing"]
  /\ UNCHANGED <<mode, disk, buffer, tasks, results, issued, drained, stop, batch>>

WorkerSleeps(w) ==
  /\ worker[w] = "dozing"
  /\ worker' = [worker EXCEPT ![w] = "asleep"]
  /\ UNCHANGED <<mode, disk, buffer, tasks, results, issued, drained, stop, batch>>

WorkerExits(w) ==
  /\ worker[w] = "ready" /\ TaskMuFree
  /\ stop /\ tasks = <<>>
  /\ worker' = [worker EXCEPT ![w] = "gone"]
  /\ UNCHANGED <<mode, disk, buffer, tasks, results, issued, drained, stop, batch>>

\* A stopping worker drains the queue past the cap.
WorkerPops(w) ==
  LET take == IF Len(tasks) < BatchPop THEN Len(tasks) ELSE BatchPop IN
  /\ worker[w] = "ready" /\ TaskMuFree
  /\ MayRun /\ tasks # <<>>
  /\ worker' = [worker EXCEPT ![w] = "probing"]
  /\ batch' = [batch EXCEPT ![w] = SubSeq(tasks, 1, take)]
  /\ tasks' = SubSeq(tasks, take + 1, Len(tasks))
  /\ UNCHANGED <<mode, disk, buffer, results, issued, drained, stop>>

Compared(f) == [file |-> f, local |-> disk[f], outcome |-> DecideCompare(mode, disk[f], Remote[f])]

\* probe_ and DecideCompare for the batch, then one push under resultMu_
WorkerPublishes(w) ==
  /\ worker[w] = "probing"
  /\ worker' = [worker EXCEPT ![w] = "published"]
  /\ results' = results \o [i \in DOMAIN batch[w] |-> Compared(batch[w][i])]
  /\ batch' = [batch EXCEPT ![w] = <<>>]
  /\ UNCHANGED <<mode, disk, buffer, tasks, issued, drained, stop>>

\* The slot is given back under taskMu_, then taskCv_.notify_one().
WorkerReleases(w) ==
  /\ worker[w] = "published" /\ TaskMuFree
  /\ LET back == [worker EXCEPT ![w] = "ready"]
         asleep == {v \in CompareWorker : worker[v] = "asleep"}
     IN IF asleep = {} THEN worker' = back
        ELSE \E v \in asleep : worker' = [back EXCEPT ![v] = "ready"]
  /\ UNCHANGED <<mode, disk, buffer, tasks, results, issued, drained, stop, batch>>

WorkerStep(w) ==
  \/ WorkerDozes(w) \/ WorkerSleeps(w) \/ WorkerExits(w)
  \/ WorkerPops(w) \/ WorkerPublishes(w) \/ WorkerReleases(w)
=============================================================================
