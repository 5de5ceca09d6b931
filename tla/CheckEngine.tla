---------------------------- MODULE CheckEngine -----------------------------
(***************************************************************************)
(* FastCheck's RunCheck (check_engine.cpp): the main thread receives the    *)
(* manifest, feeds the compare pipeline, sends hash requests for the files  *)
(* metadata cannot settle, pairs each answer with the hash a local worker   *)
(* computes, and ends with an exit code.  It composes ComparePipeline and,  *)
(* for the extra files of a full comparison, ParallelDirWalk.               *)
(*                                                                         *)
(* The connection delivers manifest frames in order and hash answers in any *)
(* order; recv blocks until a frame is there or the connection is down.     *)
(* The local tree does not change during the check.                         *)
(***************************************************************************)
EXTENDS ComparePipeline, ParallelDirWalk, FiniteSetsExt

CONSTANTS
  Manifest,          \* the files in the order the server lists them
  Cases,             \* the pairs of a --mode value and a local tree that are checked
  HashWorkers,       \* maxWorkers
  InitialWorkers,    \* initialWorkers
  BacklogFactor,     \* kLocalBacklogFactor
  NetWindowMin, NetWindowMax, Checkers,  \* kNetWindowMin, kNetWindowMax, --checkers
  CompareInFlightCap,                    \* kCompareInFlightCap
  RecvBatch                              \* kRecvBatch

\* Where an entry may be, the hands of a compare worker apart.
SharedStage == {"delayed", "buffer", "tasks", "results", "hashQueue", "awaiting"}

ASSUME CheckAssumption ==
  /\ HashWorkers \in Nat \ {0} /\ InitialWorkers \in 1..HashWorkers
  /\ NetWindowMin \in Nat \ {0} /\ NetWindowMax \in Nat
  /\ Checkers \in NetWindowMin..NetWindowMax
  /\ CompareInFlightCap \in Nat \ {0} /\ RecvBatch \in Nat \ {0}
  /\ IsFiniteSet(CompareWorker) /\ CompareWorker \cap SharedStage = {}
  /\ BatchPop \in Nat \ {0} /\ BacklogFactor \in Nat
  /\ Remote \in [File -> [size : Nat, mtime : Int, content : STRING]]

\* exit before the main thread has decided
Undecided == "none"
NoResult == "none"

\* The server lists every file once; a path names at most one local file, and its content
\* is not taken for the absence of a hash.
ASSUME InputAssumption ==
  /\ Manifest \in Seq(File) /\ IsInjective(Manifest) /\ Range(Manifest) = File
  /\ \A c \in Cases :
       /\ c.mode \in {"Fast", "Strict", "SizeOnly"} /\ DOMAIN c.disk = File
       /\ \A f \in File : \A e, g \in c.disk[f] :
            e = g /\ e.content \notin {NoResult, "Failed"}

HashWorker == 1..HashWorkers

VARIABLES
  pc,              \* where the main thread is
  listed,          \* manifest frames received
  manifestDone,    \* manifestDone
  delayed,         \* delayedCompareEntries
  hashQueue,       \* hashQueue
  awaiting,        \* keys of awaiting
  inFlight,        \* inFlight
  serverHash,      \* keys of serverHashReady
  requested,       \* requests the server has not answered yet
  hashWindow,      \* hashWindow
  hashTasks,       \* hashTaskQueue
  hashCap,         \* hashWorkerCap
  hashStop,        \* hashStop
  hasher,          \* [HashWorker -> where the thread is]
  hashing,         \* [HashWorker -> its file, as a sequence of at most one]
  localResult,     \* [File -> "none", "Failed" or the content hashed]
  readFail,        \* readFailSignal has moved since the last sample
  ready,           \* readyQueue
  counters,        \* result.counters
  cause,           \* "interrupted" (userInterrupted), "disconnected" or "none"
  link,            \* the connection: "up" or "down"
  interrupted,     \* the Ctrl+C flag
  localReadFailed, \* localReadFailed
  batched,         \* frames received in this batch
  exit             \* outcome.exit

hashVars == <<hashTasks, hashCap, hashStop, hasher, hashing, localResult, readFail, ready>>
netVars  == <<requested, hashWindow, link, interrupted>>
mainVars == <<pc, listed, manifestDone, delayed, hashQueue, awaiting, inFlight, serverHash,
              counters, localReadFailed, cause, batched, exit>>
engineVars == <<hashVars, netVars, mainVars>>
vars == <<pipelineVars, walkVars, engineVars>>

Init ==
  /\ PipelineInit /\ WalkInit
  /\ \E c \in Cases : mode = c.mode /\ disk = c.disk
  /\ pc = "top"
  /\ listed = 0 /\ manifestDone = FALSE
  /\ delayed = <<>> /\ hashQueue = <<>>
  /\ awaiting = {} /\ inFlight = 0 /\ serverHash = {} /\ requested = {}
  /\ hashWindow = Checkers
  /\ hashTasks = <<>> /\ hashCap = InitialWorkers /\ hashStop = FALSE
  /\ hasher = [w \in HashWorker |-> "ready"]
  /\ hashing = [w \in HashWorker |-> <<>>]
  /\ localResult = [f \in File |-> NoResult]
  /\ readFail = FALSE
  /\ ready = <<>>
  /\ counters = [Same |-> 0, Diff |-> 0, Missing |-> 0, Extra |-> 0]
  /\ link = "up" /\ interrupted = FALSE
  /\ localReadFailed = FALSE /\ cause = "none"
  /\ batched = 0
  /\ exit = Undecided

-----------------------------------------------------------------------------
(* The local hash pool.                                                    *)

HashMuFree == \A w \in HashWorker : hasher[w] # "dozing"

LocalHashInFlight == Cardinality({w \in HashWorker : hasher[w] = "hashing"})

HashAsleep == {w \in HashWorker : hasher[w] = "asleep"}

\* n calls of hashTaskCv.notify_one(): any n sleepers, or all of them
Notified(n) ==
  {[w \in HashWorker |-> IF w \in s THEN "ready" ELSE hasher[w]] :
     s \in {t \in SUBSET HashAsleep :
              \/ Cardinality(t) = n
              \/ Cardinality(t) < n /\ t = HashAsleep}}

HasherStep(w, place) ==
  /\ hasher' = [hasher EXCEPT ![w] = place]
  /\ UNCHANGED <<pipelineVars, walkVars, netVars, mainVars, hashCap, hashStop>>

HasherDozes(w) ==
  /\ hasher[w] = "ready" /\ HashMuFree
  /\ ~hashStop /\ hashTasks = <<>>
  /\ HasherStep(w, "dozing")
  /\ UNCHANGED <<hashTasks, hashing, localResult, readFail, ready>>

HasherSleeps(w) ==
  /\ hasher[w] = "dozing"
  /\ HasherStep(w, "asleep")
  /\ UNCHANGED <<hashTasks, hashing, localResult, readFail, ready>>

\* Nothing left, or over the cap with the pool stopping
HasherExits(w) ==
  /\ hasher[w] = "ready" /\ HashMuFree
  /\ hashStop /\ (hashTasks = <<>> \/ w > hashCap)
  /\ \E h \in IF hashTasks = <<>> THEN {hasher} ELSE Notified(1) :
       hasher' = [h EXCEPT ![w] = "gone"]
  /\ UNCHANGED <<pipelineVars, walkVars, netVars, mainVars, hashCap, hashStop, hashTasks,
                 hashing, localResult, readFail, ready>>

\* Over the cap, back to sleep with the wakeup consumed.
HasherKeepsBaton(w) ==
  /\ hasher[w] = "ready" /\ HashMuFree
  /\ hashTasks # <<>> /\ w > hashCap /\ ~hashStop
  /\ HasherStep(w, "asleep")
  /\ UNCHANGED <<hashTasks, hashing, localResult, readFail, ready>>

\* Over the cap with work in the queue: the baton goes to a sleeper.
HasherPassesBaton(w) ==
  /\ hasher[w] = "ready" /\ HashMuFree
  /\ hashTasks # <<>> /\ w > hashCap /\ ~hashStop
  /\ hasher' \in Notified(1)
  /\ UNCHANGED <<pipelineVars, walkVars, netVars, mainVars, hashCap, hashStop, hashTasks,
                 hashing, localResult, readFail, ready>>

\* localHashInFlight is raised just after hashTaskMu is released; the gap is
\* left out, it only lets pump() see a task less.
HasherTakes(w) ==
  /\ hasher[w] = "ready" /\ HashMuFree
  /\ hashTasks # <<>> /\ w <= hashCap
  /\ HasherStep(w, "hashing")
  /\ hashing' = [hashing EXCEPT ![w] = <<Head(hashTasks)>>]
  /\ hashTasks' = Tail(hashTasks)
  /\ UNCHANGED <<localResult, readFail, ready>>

\* The hash, or a failure to read the file
HasherStores(w) ==
  LET f == Head(hashing[w]) IN
  /\ hasher[w] = "hashing"
  /\ \E r \in {"Failed"} \cup {e.content : e \in disk[f]} :
       /\ localResult' = [localResult EXCEPT ![f] = r]
       /\ readFail' = (readFail \/ r = "Failed")
  /\ HasherStep(w, "stored")
  /\ UNCHANGED <<hashTasks, hashing, ready>>

HasherReports(w) ==
  /\ hasher[w] = "stored"
  /\ ready' = Append(ready, Head(hashing[w]))
  /\ hashing' = [hashing EXCEPT ![w] = <<>>]
  /\ HasherStep(w, "ready")
  /\ UNCHANGED <<hashTasks, localResult, readFail>>

HasherNext(w) ==
  \/ HasherDozes(w) \/ HasherSleeps(w) \/ HasherExits(w) \/ HasherPassesBaton(w)
  \/ HasherTakes(w) \/ HasherStores(w) \/ HasherReports(w)

-----------------------------------------------------------------------------
(* Helpers of the main thread.                                             *)

\* record
Counted(category, n) == [counters EXCEPT ![category] = @ + n]

\* pump(): how many of the queue q may be sent now
Sendable(q, flying, window) ==
  LET room == BacklogFactor * hashCap - (Len(hashTasks) + LocalHashInFlight)
  IN Min({Len(q)} \cup {Max({0, room}), Max({0, window - flying})})

\* pump() on a queue q, with what the caller has changed so far.  A send on a
\* connection that is down may throw, after the entry has left the queue.
Pumps(q, waiting, flying, window, asked, place) ==
  LET n == Sendable(q, flying, window)
      sent == {q[i] : i \in 1..n}
  IN /\ HashMuFree
     /\ \/ /\ hashQueue' = SubSeq(q, n + 1, Len(q))
           /\ awaiting' = waiting \cup sent
           /\ requested' = asked \cup sent
           /\ inFlight' = flying + n
           /\ hashTasks' = hashTasks \o SubSeq(q, 1, n)
           /\ hasher' \in Notified(n)
           /\ pc' = place
           /\ UNCHANGED cause
        \/ /\ n > 0 /\ link = "down"
           /\ hashQueue' = Tail(q)
           /\ awaiting' = waiting /\ requested' = asked /\ inFlight' = flying
           /\ pc' = "stop" /\ cause' = "disconnected"
           /\ UNCHANGED <<hashTasks, hasher>>

NextLocalWorkerCap(cap, queued, flying, failed) ==
  IF failed THEN Max({1, cap \div 2})
  ELSE IF queued > 0 /\ flying >= cap /\ cap < HashWorkers THEN cap + 1
  ELSE cap

\* NextNetWindow for a stable, an undecided and a spiking round trip
NextNetWindow(window) ==
  {window, Min({window + 1, NetWindowMax}), Max({NetWindowMin, (window * 6) \div 10})}

LoopGoesOn ==
  \/ ~manifestDone \/ InFlight > 0 \/ delayed # <<>>
  \/ hashQueue # <<>> \/ inFlight > 0 \/ awaiting # {}

\* Frames expected as long as a file is not settled.
WantsFrameWhileAwaiting ==
  (~manifestDone /\ InFlight < CompareInFlightCap) \/ awaiting # {}

\* stillWant, and expectFrame
WantsFrame == (~manifestDone /\ InFlight < CompareInFlightCap) \/ inFlight > 0

-----------------------------------------------------------------------------
(* One iteration of the main loop.                                         *)

\* The loop condition is false, or Ctrl+C was seen.
LoopLeaves ==
  /\ pc = "top"
  /\ ~LoopGoesOn \/ interrupted
  /\ cause' = IF LoopGoesOn THEN "interrupted" ELSE cause
  /\ pc' = "stop"
  /\ UNCHANGED <<pipelineVars, walkVars, hashVars, netVars, listed, manifestDone, delayed,
                 hashQueue, awaiting, inFlight, serverHash, counters, localReadFailed,
                 batched, exit>>

\* drainCompare(): settled entries are recorded, the others are clustered by
\* path, queued for hashing and pumped.
DrainCompare ==
  LET settled(c) == {i \in DOMAIN results : /\ ~results[i].outcome.needHash
                                            /\ results[i].outcome.category = c}
      unsettled == {results[i].file : i \in {j \in DOMAIN results : results[j].outcome.needHash}}
  IN /\ pc = "top" /\ LoopGoesOn /\ ~interrupted
     /\ Drain
     /\ counters' = [c \in DOMAIN counters |-> counters[c] + Cardinality(settled(c))]
     /\ IF results = <<>>
        THEN /\ pc' = "ready"
             /\ UNCHANGED <<hashQueue, awaiting, requested, inFlight, hashTasks, hasher, cause>>
        ELSE \E clustered \in SetToSeqs(unsettled) :
               /\ \A i, j \in DOMAIN clustered : i < j => clustered[i] < clustered[j]
               /\ Pumps(hashQueue \o clustered, awaiting, inFlight, hashWindow, requested, "ready")
     /\ UNCHANGED <<walkVars, hashWindow, link, interrupted, hashCap, hashStop, hashing,
                    localResult, readFail, ready, listed, manifestDone, delayed, serverHash,
                    localReadFailed, batched, exit>>

\* The files a pass over the ready queue settles, up to the first failure.
Pairable(i) == ready[i] \in awaiting \cap serverHash

PairedUpTo ==
  LET ends == {i \in DOMAIN ready : Pairable(i) /\ (localReadFailed
                                                    \/ localResult[ready[i]] = "Failed")}
  IN Min({Len(ready)} \cup ends)

\* drainReady() that leaves the settled entries in awaiting.
DrainsReadyKeepsEntry ==
  LET seen == {ready[i] : i \in {j \in 1..PairedUpTo : Pairable(j)}}
      paired == {f \in seen : localResult[f] # "Failed"}
      category(f) == ClassifyByHash(TRUE, localResult[f], Remote[f].content)
  IN /\ counters' = [c \in DOMAIN counters |->
           counters[c] + Cardinality({f \in paired : category(f) = c})]
     /\ serverHash' = serverHash \ paired
     /\ localReadFailed' = (localReadFailed \/ paired # seen)
     /\ ready' = <<>>
     /\ UNCHANGED awaiting

\* drainReady()
DrainsReady ==
  LET seen == {ready[i] : i \in {j \in 1..PairedUpTo : Pairable(j)}}
      paired == {f \in seen : localResult[f] # "Failed"}
      category(f) == ClassifyByHash(TRUE, localResult[f], Remote[f].content)
  IN /\ counters' = [c \in DOMAIN counters |->
           counters[c] + Cardinality({f \in paired : category(f) = c})]
     /\ awaiting' = awaiting \ paired
     /\ serverHash' = serverHash \ paired
     /\ localReadFailed' = (localReadFailed \/ paired # seen)
     /\ ready' = <<>>

DrainReady ==
  /\ pc = "ready"
  /\ DrainsReady
  /\ pc' = IF localReadFailed' THEN "stop" ELSE "fill"
  /\ UNCHANGED <<pipelineVars, walkVars, netVars, hashTasks, hashCap, hashStop, hasher, hashing,
                 localResult, readFail, listed, manifestDone, delayed, hashQueue, inFlight,
                 cause, batched, exit>>

\* The refill from delayedCompareEntries, and Flush.
Fill ==
  LET k == Min({Len(delayed), Max({0, CompareInFlightCap - InFlight})}) IN
  /\ pc = "fill"
  /\ EnqueueAndFlush(SubSeq(delayed, 1, k))
  /\ delayed' = SubSeq(delayed, k + 1, Len(delayed))
  /\ pc' = "pump"
  /\ UNCHANGED <<walkVars, hashVars, netVars, listed, manifestDone, hashQueue, awaiting, inFlight,
                 serverHash, counters, localReadFailed, cause, batched, exit>>

Pump ==
  /\ pc = "pump"
  /\ Pumps(hashQueue, awaiting, inFlight, hashWindow, requested, "tune")
  /\ UNCHANGED <<pipelineVars, walkVars, hashWindow, link, interrupted, hashCap, hashStop, hashing,
                 localResult, readFail, ready, listed, manifestDone, delayed, serverHash,
                 counters, localReadFailed, batched, exit>>

\* maybeTuneLocal(), when its interval has passed, and the choice of how to wait.
Tune ==
  /\ pc = "tune"
  /\ pc' = IF WantsFrame THEN "recv" ELSE "wait"
  /\ batched' = 0
  /\ \/ UNCHANGED <<hashCap, hasher, readFail>>
     \/ /\ hashCap' = NextLocalWorkerCap(hashCap, Len(hashTasks), LocalHashInFlight, readFail)
        /\ hasher' = IF hashCap' # hashCap THEN Woken(hasher) ELSE hasher
        /\ readFail' = FALSE
  /\ UNCHANGED <<pipelineVars, walkVars, netVars, hashTasks, hashStop, hashing, localResult, ready,
                 listed, manifestDone, delayed, hashQueue, awaiting, inFlight, serverHash,
                 counters, localReadFailed, cause, exit>>

\* readyCv.wait_for with its timeout of 200 ms
Wait ==
  /\ pc = "wait"
  /\ pc' = "top"
  /\ UNCHANGED <<pipelineVars, walkVars, hashVars, netVars, listed, manifestDone, delayed,
                 hashQueue, awaiting, inFlight, serverHash, counters, localReadFailed, cause,
                 batched, exit>>

-----------------------------------------------------------------------------
(* The receive batch.                                                      *)

\* The batch ends when it is full.
AfterFrame == IF batched + 1 = RecvBatch THEN "top" ELSE "recv"

Receives == pc = "recv" /\ WantsFrame

RecvManifestEntry ==
  LET f == Manifest[listed + 1] IN
  /\ Receives /\ link = "up"
  /\ listed < Len(Manifest)
  /\ listed' = listed + 1
  /\ IF InFlight >= CompareInFlightCap
     THEN delayed' = Append(delayed, f) /\ UNCHANGED pipelineVars
     ELSE Enqueue(f) /\ UNCHANGED delayed
  /\ batched' = batched + 1
  /\ pc' = AfterFrame
  /\ UNCHANGED <<walkVars, hashVars, netVars, manifestDone, hashQueue, awaiting, inFlight,
                 serverHash, counters, localReadFailed, cause, exit>>

RecvManifestEnd ==
  /\ Receives /\ link = "up"
  /\ listed = Len(Manifest) /\ ~manifestDone
  /\ manifestDone' = TRUE
  /\ pc' = "top"
  /\ UNCHANGED <<pipelineVars, walkVars, hashVars, netVars, listed, delayed, hashQueue, awaiting,
                 inFlight, serverHash, counters, localReadFailed, cause, batched, exit>>

\* handleHashResponse: pair with the local result, or keep the answer until
\* the local hash is there; then pump into the freed window.
RecvHashResponse(f) ==
  /\ Receives /\ link = "up"
  /\ f \in requested
  /\ batched' = batched + 1
  /\ hashWindow' \in NextNetWindow(hashWindow)
  /\ IF localResult[f] = "Failed"
     THEN /\ localReadFailed' = TRUE
          /\ inFlight' = inFlight - 1
          /\ requested' = requested \ {f}
          /\ pc' = "top"
          /\ UNCHANGED <<serverHash, counters, hashQueue, awaiting, hashTasks, hasher, cause>>
     ELSE LET paired == localResult[f] # NoResult IN
          /\ counters' = IF paired
               THEN Counted(ClassifyByHash(TRUE, localResult[f], Remote[f].content), 1)
               ELSE counters
          /\ serverHash' = IF paired THEN serverHash \ {f} ELSE serverHash \cup {f}
          /\ Pumps(hashQueue, IF paired THEN awaiting \ {f} ELSE awaiting, inFlight - 1,
                   hashWindow', requested \ {f}, AfterFrame)
          /\ UNCHANGED localReadFailed
  /\ UNCHANGED <<pipelineVars, walkVars, link, interrupted, hashCap, hashStop, hashing,
                 localResult, readFail, ready, listed, manifestDone, delayed, exit>>

\* Nothing more is expected: back to the top of the loop.
RecvStops ==
  /\ pc = "recv" /\ ~WantsFrame
  /\ pc' = "top"
  /\ UNCHANGED <<pipelineVars, walkVars, hashVars, netVars, listed, manifestDone, delayed,
                 hashQueue, awaiting, inFlight, serverHash, counters, localReadFailed, cause,
                 batched, exit>>

\* recv throws; what was in transit is lost
RecvThrows ==
  /\ Receives /\ link = "down"
  /\ pc' = "stop" /\ cause' = "disconnected"
  /\ UNCHANGED <<pipelineVars, walkVars, hashVars, netVars, listed, manifestDone, delayed,
                 hashQueue, awaiting, inFlight, serverHash, counters, localReadFailed,
                 batched, exit>>

-----------------------------------------------------------------------------
(* Teardown and the verdict.                                               *)

\* comparePipeline.Stop()
StopCompare ==
  /\ pc = "stop"
  /\ Stop
  /\ pc' = "join"
  /\ UNCHANGED <<walkVars, hashVars, netVars, listed, manifestDone, delayed, hashQueue, awaiting,
                 inFlight, serverHash, counters, localReadFailed, cause, batched, exit>>

\* comparePipeline.Join() returns; joinWorkers() stores hashStop and notifies,
\* without hashTaskMu
JoinCompare ==
  /\ pc = "join" /\ Joined
  /\ hashStop' = TRUE
  /\ hasher' = Woken(hasher)
  /\ pc' = "joinHash"
  /\ UNCHANGED <<pipelineVars, walkVars, netVars, hashTasks, hashCap, hashing, localResult,
                 readFail, ready, listed, manifestDone, delayed, hashQueue, awaiting, inFlight,
                 serverHash, counters, localReadFailed, cause, batched, exit>>

\* The last worker is joined; what became ready is settled, then the exit
\* code of a partial check, or the scan for extra files of a full one.
JoinHash ==
  /\ pc = "joinHash"
  /\ \A w \in HashWorker : hasher[w] = "gone"
  /\ IF localReadFailed THEN UNCHANGED <<counters, awaiting, serverHash, localReadFailed, ready>>
     ELSE DrainsReady
  /\ exit' = CASE cause = "interrupted" -> "Interrupted"
              [] cause = "disconnected" -> "ConnFailed"
              [] cause = "none" /\ localReadFailed' -> "LocalPrecondFailed"
              [] OTHER -> Undecided
  /\ IF exit' = Undecided
     THEN pc' = "scan" /\ WalkStarts
     ELSE pc' = "done" /\ UNCHANGED walkVars
  /\ UNCHANGED <<pipelineVars, netVars, hashTasks, hashCap, hashStop, hasher, hashing, localResult,
                 readFail, listed, manifestDone, delayed, hashQueue, inFlight, cause, batched>>

\* CollectExtraFiles returns, or rethrows what a walker threw.
Judge ==
  /\ pc = "scan" /\ WalkJoined
  /\ IF firstError THEN exit' = "Threw" /\ UNCHANGED counters
     ELSE /\ counters' = Counted("Extra", Cardinality(merged))
          /\ exit' = IF counters'.Diff + counters'.Missing + counters'.Extra = 0
                     THEN "Identical" ELSE "DiffFound"
  /\ pc' = "done"
  /\ UNCHANGED <<pipelineVars, walkVars, hashVars, netVars, listed, manifestDone, delayed,
                 hashQueue, awaiting, inFlight, serverHash, localReadFailed, cause, batched>>

-----------------------------------------------------------------------------
(* The environment.                                                        *)

\* A check is disturbed at most once: either way it ends as a partial one.
LinkDown ==
  /\ link = "up" /\ ~interrupted /\ exit = Undecided
  /\ link' = "down"
  /\ UNCHANGED <<pipelineVars, walkVars, hashVars, requested, hashWindow, interrupted, mainVars>>

Interrupt ==
  /\ ~interrupted /\ link = "up" /\ exit = Undecided
  /\ interrupted' = TRUE
  /\ UNCHANGED <<pipelineVars, walkVars, hashVars, requested, hashWindow, link, mainVars>>

MainStep ==
  \/ LoopLeaves \/ DrainCompare \/ DrainReady \/ Fill \/ Pump \/ Tune \/ Wait
  \/ RecvManifestEntry \/ RecvManifestEnd \/ RecvStops \/ RecvThrows
  \/ \E f \in File : RecvHashResponse(f)
  \/ StopCompare \/ JoinCompare \/ JoinHash \/ Judge

CompareStep(w) == WorkerStep(w) /\ UNCHANGED <<walkVars, engineVars>>

WalkStep(w) ==
  /\ WalkerStep(w, {Manifest[i] : i \in 1..listed})
  /\ UNCHANGED <<pipelineVars, engineVars>>

Next ==
  \/ MainStep \/ LinkDown \/ Interrupt
  \/ \E w \in CompareWorker : CompareStep(w)
  \/ \E w \in HashWorker : HasherNext(w)
  \/ \E w \in Walker : WalkStep(w)

Spec == Init /\ [][Next]_vars

\* The operating system runs every thread; the server goes on listing and
\* answering or the connection goes down.
FairSpec ==
  /\ Spec
  /\ WF_vars(MainStep)
  /\ \A w \in CompareWorker : WF_vars(CompareStep(w))
  /\ \A w \in HashWorker : WF_vars(HasherNext(w))
  /\ \A w \in Walker : WF_vars(WalkStep(w))

-----------------------------------------------------------------------------
(* Correctness.                                                            *)

\* What the check should say of a file: Strict compares content, SizeOnly
\* sizes, Fast content where the times differ.
TrueCategory(f) ==
  LET local == CHOOSE e \in disk[f] : TRUE IN
  CASE disk[f] = {} -> "Missing"
    [] disk[f] # {} /\ local.size # Remote[f].size -> "Diff"
    [] disk[f] # {} /\ local.size = Remote[f].size ->
         IF \/ local.content = Remote[f].content
            \/ mode = "SizeOnly"
            \/ mode = "Fast" /\ MtimeWithinTolerance(local.mtime, Remote[f].mtime)
         THEN "Same" ELSE "Diff"

\* The directories below those of a set, through directories that can be listed: what
\* every set that has these and the children of its members has.
Reachable(from) ==
  {d \in Dir : \A s \in SUBSET Dir :
     from \subseteq s /\ (\A e \in s : Children(e) \subseteq s) => d \in s}

\* The files of the directories the walk can reach and list that the
\* manifest does not name.
TrueExtras ==
  (UNION {LocalFiles[d] : d \in Reachable({Root}) \ Unreadable}) \ File

\* RunCheck's verdict is the truth: when it claims a full comparison
\* (check_engine.cpp "Full comparison"), every count of the report and the
\* exit code are those of the two trees, whatever order the results came in.
VerdictTrue ==
  exit \in {"Identical", "DiffFound"} =>
    /\ \A c \in {"Same", "Diff", "Missing"} :
         counters[c] = Cardinality({f \in File : TrueCategory(f) = c})
    /\ counters.Extra = Cardinality(TrueExtras)
    /\ (exit = "Identical") = (TrueExtras = {} /\ \A f \in File : TrueCategory(f) = "Same")

Listed == {Manifest[i] : i \in 1..listed}

\* Where an entry may be: in a queue, or waiting for its two hashes.
Stage == SharedStage \cup CompareWorker
Entries(s) ==
  CASE s = "delayed" -> delayed
    [] s = "buffer" -> buffer
    [] s = "tasks" -> tasks
    [] s = "results" -> [i \in DOMAIN results |-> results[i].file]
    [] s = "hashQueue" -> hashQueue
    [] OTHER -> batch[s]
Held(s) == IF s = "awaiting" THEN awaiting ELSE Range(Entries(s))
Unrecorded == UNION {Held(s) : s \in Stage}

\* No entry is dropped or recorded twice between recv, the compare pipeline, the hash
\* queue and the pairing of hashes (awaiting.erase, "one-and-only-once"): it is at one
\* place of one stage, or it is one of those recorded.
EveryEntryOnce ==
  /\ \A s \in Stage \ {"awaiting"} : IsInjective(Entries(s))
  /\ \A s, t \in Stage : s # t => Held(s) \cap Held(t) = {}
  /\ Unrecorded \subseteq Listed
  /\ cause = "none" =>
       counters.Same + counters.Diff + counters.Missing = Cardinality(Listed \ Unrecorded)

\* The blocking recv never waits for a frame that is not in transit
\* (check_engine.cpp "Receive a frame only when one is guaranteed in transit").
RecvHasFrame == Receives => ~manifestDone \/ requested # {}

\* A worker that went to sleep with its stop flag already stored: Stop() and
\* joinWorkers() notify without the mutex the flag is tested under.
WakeupLost ==
  \/ stop /\ \E w \in CompareWorker : worker[w] = "asleep"
  \/ hashStop /\ \E w \in HashWorker : hasher[w] = "asleep"

\* Unless a worker misses its stop notification, RunCheck returns: the two
\* windows, the worker cap with its baton, the compare pipeline and the walk
\* never wait for one another for ever.
CheckEnds == <>(exit # Undecided \/ WakeupLost)

\* RunCheck always returns (check_engine.cpp, teardown: "so no worker is ever
\* left hanging").
CheckReturns == <>(exit # Undecided)
=============================================================================
