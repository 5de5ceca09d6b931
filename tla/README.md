# FastClone in TLA+

This directory is a verification development for FastClone: a mirroring file
synchroniser (server, client) and its read-only companion FastCheck. The modules
are written from the C++ under `src/`; `PROJECT.json` maps every definition that
models code to the lines it stands for.

## 1. The system

| Part (source) | State it keeps | Operations | What makes it correct |
|---|---|---|---|
| **Disk-IO driver** (`disk_io_driver.cpp`) | read/write queues, fair-share credits, in-flight window, per-file completion queues threaded on one global order list, per-file outstanding counts, wait states, deferred releases | `submit`, `drainCompletions`, `drainCompletionsForFile`, `waitForFile`, `releaseFile(s)`, `requestCancel`, destructor; scheduler thread | every accepted operation is delivered once, to its file, and completes; nothing is retained after a release; neither direction starves; teardown ends |
| **SequentialReader** (same file) | submit/yield offsets, in-flight count, reorder buffer, sticky error | `next`, `refill` | in-order bytes, a clean EOF only at the end of the file, bounded memory, every call returns |
| **Platform backends** (`disk_io_backend_*.cpp`) | handle table, work queue | `submit`, `reap`, open/close | each submitted operation finishes once; what a close leaves of an unfinished write can be told from a finished one |
| **One-shot server** (`sync_engine_server.cpp`, `RunServer`) | session registry, once target, verdict, failure aggregate, handshakes in flight, timers | accept, handshake (Auth, CheckAuth, SessionJoin), claim, verdict, idle grace, first-connect timeout | one session with `--once`, exit code counts every lane, process always exits |
| **Server session** (`RunSessionServer`) and **hash memory cache** | outbound queues, active and pending streams, hash and signature jobs, manifest producers, digests under fingerprints | one handler per message, send loop, teardown; lookup, store, evict | one answer per request, ends are last, no handle leaks, a cached digest is the file's, session returns |
| **Sync client** (`sync_engine_client.cpp`) | lanes, pending/active transfers, retries, delta and block states, plan results, reconnect budget, extras | one loop: compare, schedule, receive, fail over, write, finish; connect again; delete extras, create empty directories | every file counted once, no frame of a dead lane applied, a rebuilt file is whole, nothing the server has is deleted, the exit code is true, loop ends |
| **Compare pipeline** (`compare_pipeline.cpp`, `compare_phase.cpp`) | task and result queues, active slots | enqueue, flush, drain, stop, join | every task answered, true category, stop and join end |
| **Directory walk, extra scan** (`parallel_dir_walk.h`, `extra_scan.cpp`) | shared stack, active count, first error | pop, list, push, leave, join | every directory listed once, an error is reported and ends nobody else's walk |
| **FastCheck** (`check_engine.cpp`) | entries awaiting a hash, local and server results, in-flight window, hash workers with a cap | receive, compare, hash, pair, tune, judge | every entry judged once and truly, no blocking receive without a frame, check ends |
| **Binary delta** (`delta.cpp`) | signer state, sliding window | signatures, scan, plan | the streaming forms equal the whole-file forms; a used plan rebuilds the file |
| **Link scheduler, transfer tuning** | write-cap controller | lane choice, stream and window sizes, cap per sampling window | limits kept, monotone in the RTT, no oscillation |
| **Wire protocol, sockets, CLI, topology probe, reports** | none beyond a call | encode, decode, parse | out of scope here (section 7) |

How they interact. A client opens one connection per lane; each is one thread in
`RunServer`, which joins the lanes of a client into a session (registry) and runs
`RunSessionServer` on it. That function has a receiver thread, a manifest thread
with directory walkers, jobs on a process-wide hash pool, and the connection
thread as send loop; they share queues under one mutex, one condition variable
and the atomics `done` and `failed`. All disk access of server and client goes
through one `DiskIoDriver` per process: callers submit from many threads, a
scheduler thread picks, a backend finishes in any order, and completions wait
until the owner drains them. `SequentialReader` is the blocking façade of the
hash jobs over it. On the client one main loop owns all bookkeeping; a receive
thread per lane pushes frames into two shared queues, and compare, hash, plan and
write pools hand their results back through queues the loop drains once per
iteration. Around the session loop, `RunClient` reconnects, and after a whole
session mirrors deletions. FastCheck is one main thread over one connection, with
the same compare pipeline, a capped pool of hash workers and the same extra scan.

What is hard: state split over three mutexes in the driver; releases that race
completions; condition variables whose flag is set outside their mutex; the order
"count the lane out, then publish its failure"; timers evaluated only between
accepts; sessions dying between opening a file and adopting its stream; a queue
shared by readers that do not know each other; frames of a lane that is already
drained; answers that die with their lane; a file owned in turn by delta, blocks
and stream; files torn by a drop; a listing cut short before deletions; a cache
that outlives the file it describes. `PROJECT.json` lists these under `hazards`,
each at its line.

## 2. Modules

| Module | Models | Relation |
|---|---|---|
| `IoService` | what the driver promises a caller: an accepted operation completes once, with one result, and is delivered at most once, or dropped with its file | abstract specification |
| `DiskIoDriver` | the driver, one action per critical section | implements `IoService` (`KeepsPromise`) |
| `SequentialReader` | `next`/`refill` over the driver as `IoService` promises it | uses the promise as environment |
| `OnceServer` | accept loop, registry, handshake, verdicts, timers | `RunSessionServer` is its step `ServeEnds` |
| `ServerSession` | `RunSessionServer` opened up, with the digest caches | refines that step's outcome: ok or error |
| `LinkScheduler` | lane choice and reserved slots, as operators | used by the two transfer modules |
| `ClientTransfer` | the session loop of the sync client over its lanes: listing, hashes, single and batch downloads | its server answers as `ServerSession!EveryRequestAnswered` says |
| `BlockTransfer` | the same loop's delta and file-range paths | the plan it waits for is `Delta`'s |
| `ClientRun` | `RunClient` around the session loop: connects, listing, drops, deletion, empty directories, exit code | a session's transfers are one step per file |
| `ComparePhase` | the comparison of two entries, as operators | used by `ComparePipeline`, `CheckEngine`, `ClientRun` |
| `ComparePipeline`, `ParallelDirWalk` | the two worker pools | composed into `CheckEngine` |
| `CheckEngine` | FastCheck's `RunCheck` | |
| `Delta` | signatures, scan, plan of one file | |
| `TransferTuning` | the tuning functions and the write-cap controller | |
| `DiskIoDriverProofs`, `SequentialReaderProofs`, `OnceServerProofs`, `ServerSessionProofs`, `CheckEngineProofs`, `ClientTransferProofs`, `BlockTransferProofs` | the theorems about the module of that name | TLAPS, section 5 |
| `AlgorithmProofs` | the theorems about `Delta`, `TransferTuning` and `ClientRun` | TLAPS, section 5 |
| `MC*` | instances for TLC | |

**DiskIoDriver.** The queues and the credits belong to `qmu_`, the completion
queues, the order list and the wait states to `cmu_`, the outstanding counts and
deferred releases to `countMu_`. Every action is the code between acquiring and
releasing one of these. The scheduler thread is `SchedTop`, `Pick`, `Handoff` (or
`HandoffFails`, `FreeFailedSlot`), `Reap`, `Route`, `RouteDone`; callers are
`Submit`, `DrainAll`, `DrainForFile`, `WaitForFile`, `LeaveWait`, `ReleaseFile`,
`ReleaseNow`, `RequestCancel`, `FlushOne`, `FlushDone`; the destructor is
`Destroy`, `Shutdown`. A release reads the outstanding count in one section and
acts in a second: both are actions. Operations are model values with a file and a
direction; data and byte counts are left out.

**SequentialReader.** Offsets are chunks. The file may be shorter on disk than
the size given (`OnDisk < Chunks`); the driver may accept a prefix of a refill
(`MayBackpressure`), finish reads in any order with any status, and be cancelled.

**OnceServer.** Connection thread: `hello`, `create`, `authok`, `resolved`,
`serving`, `closing`, `verdict`, `leaving`. A session is named after the
connection that created it, so tokens are connections. The clock is three
abstract moments: first-connect deadline, the grace after it, idle grace.

**ServerSession.** A request is for a hash, block signatures, a file stream, a
batch or a range (delta and file ranges share their send-loop code). Frames are
kept per request in the order they are sent. The served file has a version that a
change raises; a fingerprint is the version read, and `blind` marks the one path
that stores a digest without having read a fingerprint before. `outboundCv` is
modelled with the window between testing the predicate and sleeping, because
`done` is stored without the mutex. The teardown is the code's order: sweep, join
receiver, join manifest thread, drain jobs, release files. The caches are assumed
enabled; running out of memory and the quota of a batch are left out, and a burst
of a stream is one chunk.

**ClientTransfer.** `pc` is the part of an iteration the main loop is in: `scan`
(`failoverScan`), `resolve` (its last test, hash verdicts, hash requests), `start`
(`tryStartTransfers`, one action per transfer started), `drain` (compare and write
results), `test` (exit test, sweep, taking frames), `process` (one action per frame
type). Receive threads, pools and the server interleave anywhere between them; a
lane's `healthy` flag may fall at any moment. What the loop's helpers change
together is the record `work`, so that the code's helpers are operators on it;
`work.verdicts` is history: how each file was counted. Abstracted: the bytes of a
file are one chunk, so a batch entry either has its bytes or not; the batch
threshold is constant (it only adapts above 1000 pending files); the soft limits
on queued bytes, compare entries and frames per iteration are not reached.

**BlockTransfer.** The same loop with the delta and file-range stages of an
iteration; `work.states` holds the two maps `deltaStates` and `fileRangeStates`,
`work.temps` the temporaries on disk as sets of blocks, `work.committed` what was
renamed into place. Comparisons and single downloads are one step each here.

**ClientRun.** `place` is where the main thread of `RunClient` is: connecting,
requesting, in the session, scanning, deleting, creating directories, stopping. A
path is a sequence of names; an entry has size, time and content, and `Torn` is
what `closeFile` leaves of a download that was not finished: the full size, part
of the bytes, and the clock's time. The tree the server offers may change between
sessions. `Fails` is a disk operation that may be refused, `MaxFailures` times.

**CheckEngine.** The main thread, the hash workers (with the predicate window of
their condition variable), `ComparePipeline` and `ParallelDirWalk`, whose actions
are conjoined with `UNCHANGED` of the others' variables. Times come in both
representations `ComparePhase` knows, scaled by the constants. A directory is
listed in any order, as the file system gives it; the entries that need a hash are
queued in the order of their paths, as `drainCompare` clusters them. A
*stage* is a place that holds manifest entries: the delayed list, the pipeline's
buffer, its task and result queues, a compare worker's batch, the hash queue, the
entries awaiting the two hashes. `EveryEntryOnce` says that each listed entry is in
one stage, once, or recorded.

**Delta.** Bytes are 0 to 2, a block two bytes, the checksum modulo 2 (so that weak
collisions are common) and the hash the block itself. Short reads and a failing
source are choices of `LoadTo`. `BuildPlan` is the whole-file scan, `Reference` a
definition without checksums or window.

**TransferTuning.** Sizes in KiB; rates, latencies and the word size are scaled;
doubles are exact fractions.

## 3. Runs

| Run | Bounds | Shows |
|---|---|---|
| `DiskIoDriver` | 2 writes of one file (one of low latency), 1 read of another, read queue 1, write queue 2, window 2, weights 1, one waiter | the safety properties, fair share, the implementation of `IoService`, completion of every operation and the end of destruction, in every order of submit, drain, wait, release, cancel, refusal by the backend and destruction |
| `SequentialReader` | 10 chunks (9 on disk), window 3 | at most 3+2+1 chunks in flight or held back, clean EOF only at the end, and a call with a read outstanding returns |
| `SequentialReaderStuck` | 5 chunks, window 2 | **violation**: a refused refill with nothing in flight leaves `next()` waiting forever |
| `OnceServer` | 2 connections, both modes, all claims | one session served, exact lane counts, the verdict counts every lane, is returned, and an unused server exits |
| `OnceServerAggregate` | 2 connections, `--once-multi` | **violation**: exit 0 although a session failed |
| `ServerSession` | 2 hashes, 1 signature (may stick), 1 file, 1 batch, 1 range, at most 2 of them asked for, 1 walker of 2 chunks and the manifest thread, queue limit 1, 1 change of the file | no handle leak, well-formed single replies, fresh digests, every request answered, the session returns |
| `ClientTransfer` | 2 lanes, a batched and a large single file, one stream per lane, one retry, hash window 1, 2 failures | no file in two places, no single file lost, exact slots, late frames harmless, complete means the whole listing, the loop ends |
| `ClientTransferLost` | the same | **violation**: complete without counting every file |
| `CheckEngine` | 2 listed files and an extra one, 4 cases of mode and local state, 1 compare and 2 hash workers (cap 1 at first), 2 walkers over 3 directories of which one cannot be listed | true verdict, every entry once, no receive without a frame, the check ends unless a stop is lost |
| `CheckEngineStuck` | one case | **violation**: lost wakeup at teardown, the check never returns |
| `BlockTransfer` | 2 lanes, a file of 2 blocks that can be rebuilt by delta or blocks, or two delta files of one, signature window 1, 2 failures | a committed file is whole, one owner per file, every temporary owned, the loop ends |
| `Algorithms` | files up to 4 (new) and 5 (old) bytes of 3 values; 4 windows of the controller; thresholds and their neighbours; 3 local and 3 served trees, budgets 0 and 2, 3 sessions, 2 failing disk operations | streaming equals whole-file, a used plan rebuilds the file, tuning monotone and steady, exit code true, deletions safe |

Why the bounds are enough. Every race above needs at most two actors and the
scheduler: two operations of one file (order within a file) and one of another
(global order against per-file queues), a queue at its limit, a window smaller
than the load; credits of weight 1 run out with two operations of a direction. Two
connections are a session with two lanes, or two rivals. With two failures
(`MaxFaults`) a file can fail on one lane and again on the other, run out of its
one retry, or lose both lanes; two lanes with one stream each make both files
compete. Two blocks and two lanes let one block arrive late and twice. Three
sessions (`MaxSessions`) are a torn one, one that repairs, and one whose tree is
another; the trees have a file where the other side has a directory, nested empty
directories, an unreadable directory, the executable, and a file stamped at the
time of the download. In `Delta` four new bytes are two blocks, or one and a short
one; five old bytes hold two blocks at every offset. Counters are bounded by the
number of operations, connections or requests, each used once.

All runs allow the system to stop (`CHECK_DEADLOCK FALSE`): these models end, by
destruction, by return of `RunServer`, of the session, of the check or of
`RunClient`, or because every operation or connection was used.

### Findings

* `SequentialReader::next` (`disk_io_driver.cpp:574`): `refill()` runs before the
  loop and after a chunk was yielded, not inside it. If the shared read queue
  accepts nothing and nothing is in flight, the loop waits forever.
* `RunServer`, `--once-multi` (`sync_engine_server.cpp:2641`): the failure is
  published after the lane was counted out; an idle grace that elapses in between
  returns 0. `issues/om4-sticky-exit5-flaky-under-ctest.md` reports the symptom.
* `failoverScan` (`sync_engine_client.cpp:3976`): a batch learns its files from the
  header the server sends back. If the lane fails between request and header there
  is nothing to requeue; the files are in no queue and the client exits 0 without
  them (`ClientTransferLost`). `SingleFilesNeverLost` therefore speaks of files with
  a stream of their own.
* `joinWorkers` (`check_engine.cpp:329`): `hashStop` is stored without the mutex of
  the condition variable; a worker between test and sleep misses it and the join
  never returns. `ComparePipeline::Stop` (`compare_pipeline.cpp:83`) and
  `RunSessionServer` (`done`, `sync_engine_server.cpp:1405`) are written the same
  way; `CheckEnds` and `SessionReturns` name this as their only exception.

### Observations without a run of their own

* `LoopEnds` of `ClientTransfer` names the only ways the loop can go round for ever:
  the primary lane dies before `ManifestEnd` while another lives (the manifest is
  not asked for again), and hash answers die with their lane (the sent and received
  counts stay apart, so the sweep at line 2480 stays off). The stall watchdog only
  warns.
* A `FileError` that arrives after its lane was drained is not tested for staleness
  (`sync_engine_client.cpp:3535`), nor is `FileRangeError` (3713): `failed` may count
  a file that is transferred later.
* `failoverScan` asks again for every unanswered signature, also those sent on
  healthy lanes (4040). A second response lowers `deltaSigInFlight` once too often;
  a second `DeltaError` fetches a file again that is already in place, which
  `OneOwner` admits; with three lanes a failed re-send and a late response can keep
  a slot.
* A digest requested while the fingerprint could not be read is stored under the
  fingerprint read afterwards (`sync_engine_server.cpp:1081`); `CachedDigestFresh`
  excepts it.
* `SlidingWindow` holds up to two chunks and a block, its comment says one chunk and
  a block. `transfer_tuning.h` describes relative thresholds, the code has absolute
  ones. `fileRangePendingHash` is never filled.
* A file torn by a drop is recognised by its time alone: if the remote time is within
  2 ms of the download, it is taken for whole (`Telling` in `ExitTellsTruth`).
* The executable in a directory the server does not have makes every run exit 2: the
  directory is an extra that cannot be removed.
* Errors of creating an empty directory are not counted (`CreateDirectoriesLong`). A
  directory of the server whose path is taken by a file the extra scan does not see
  (the running executable, or what lies below an unreadable directory) is therefore
  missing after a run that exits 0; `Blocked` in `Mirrors` excepts it.
* The memory of `SequentialReader` is not bounded by its window: while the oldest read
  is outstanding, each chunk handed out before it has let one more read start, so a
  window of n may hold back n(n+1)/2 chunks, and `MemoryBounded` is exact.

## 4. Fairness

* `DiskIoDriver!FairSpec`: the scheduler thread, the backend and a started
  destruction, release, flush or wait make progress. Callers need not call.
* `SequentialReader!FairSpec`: the reading thread runs and the driver completes
  what it accepted, which is what `DiskIoDriver!EveryOpCompletes` shows.
* `OnceServer!FairSpec`: the main thread, the clock and each connection thread
  run. A peer need not send anything; a handshake blocked in `recv` moves only if
  its socket was shut down. A session need not end.
* `ServerSession!FairSpec`: all threads run; producers and jobs that compete for
  `mu` get it eventually (strong fairness: a mutex that is free again and again is
  acquired). The client need not send; a shut-down socket makes `recv` throw. A
  job in `Sticky` need not run.
* `ClientTransfer!FairSpec`, `BlockTransfer!FairSpec`: the main loop never waits
  without a timeout, the pools run, and the server answers every request on a living
  lane. No lane need die, and none need live. The comparison of a file in
  `BlockTransfer` is enabled in one stage of the loop only, hence strong fairness.
* `CheckEngine!FairSpec`: each thread runs. The connection delivers what was asked
  for or goes down.
* `Algorithms` checks safety only.

## 5. Proofs

Every theorem holds for all values of the constants that satisfy the module's named
`ASSUME`, which TLC evaluates in the runs. The three facts of an induction (the
initial states satisfy the invariant, each step keeps it, it implies the property)
are separate lemmas, with one lemma or step per action. Each inductive invariant was
model-checked on the run's instance before it was proved, but for `DeltaInv`, which
speaks of the runs of two recursive functions and which TLC cannot evaluate.

**DiskIoDriver** (`DriverAssumption`: finitely many operations, any files and waiters,
all queue limits, every positive window, all weights, zero included).

* `TypeCorrect`: includes that a read never sits in the write queue, that the credits
  never leave `0..weight`, and that the scheduler holds an operation exactly while it
  hands one over.
* `FairShareHolds`: `FairShare` is not inductive, because the streak alone does not
  say how many credits are left. `FairInv` ties the two together (a streak of reads
  plus the read credits left is at most twice the read weight, or once if the write
  credits are used up; a streak of writes plus the write credits left at most the
  write weight).
* `DeferredReleaseSafe`: a release that was deferred always has an outstanding
  operation whose completion runs it. It rests on `EnqueueKeepsTrigger`: counting an
  operation out either leaves another one outstanding or runs the release in the same
  critical section.
* `OnePlaceHolds`, `ReleaseHolds`: `PlaceInv`. Disjoint places (`Placed`) are not
  inductive alone: that an operation taken from a queue is gone from it needs that no
  queue holds one twice (`Distinct`), that draining one file leaves the order list in
  step needs that each file's list is the order list restricted to it
  (`OrderExact`), and that a release leaves nothing needs that the outstanding count
  is the number of accepted operations not yet linked (`OutstandingExact`) and what
  a release in progress has seen (`ReleaseShape`).
* `DriverImplements`: `Spec => KeepsPromise`, the safety part of `IoService` under the
  refinement mapping, step by step: each action is a step of the service
  or leaves its variables alone, given `PlaceInv`.

**SequentialReader** (`ReaderAssumption`: every window, every size, every prefix on
disk).

* `CleanEofHolds`, `MemoryHolds`. The bound is triangular, and the window alone does
  not imply it: `Reach` says for every read in flight how far submission may have
  gone beyond it, given how many reads before it are still in flight; `Span` says the
  same for the chunk handed out next. Both need `Places` (nothing between the next
  chunk to yield and the next to submit is missing or twice there) and `WindowExact`.

**OnceServer** (`OnceAssumption`: any finite set of connections).

* `OnceTypeCorrect`, `LiveConnsHolds`, `OneSessionHolds`, `VerdictHolds`, from one
  invariant `IInv`. It adds what a thread's place says about its session and outcome
  (`ThreadShape`), that a lane joins only a session whose `AuthOk` was sent
  (`LaneShape`), that the claimed target is such a Sync session (`TargetShape`), that
  with `--once` only its lanes are served (`ServedLanes`), that an error is on record
  before the lane leaves (`ErrorsRecorded`), and that lanes counted closed stay closed
  (`FireShape`).

**ServerSession** (`SessionAssumption`: any finite disjoint sets of requests and
walkers, positive budgets, lengths and limits).

* `CacheHolds`: the file's version only grows, and a job reads the fingerprint before
  the digest (`FreshInv`).
* `HandlesHold`: an open file belongs to a stream that is active or waits to be
  adopted, and the teardown removes these in order (`StreamInv`): after the sweep only
  the receiver can have left one, and it has exited before the release.
* `RepliesHold`: what a walker has flushed is what the wire, the send loop's hand and
  the queue together hold of it (`EntriesExact`), and `ManifestEnd` is queued only
  after all walkers finished (`WalkShape`); a request is silent until it is refused,
  answered or adopted, an active stream has sent no terminal frame, and its chunks sent
  and left add up to its size (`ReplyInv`).

**CheckEngine** with `ComparePipeline` and `ParallelDirWalk` (`CheckAssumption`,
`InputAssumption`, `WalkAssumption`, `ComparePhaseAssumption`: any manifest without
repetitions, any tree, mode, number of threads, window and cap).

* `EntriesHold`, `RecvHolds`, `VerdictTrueHolds`, from one invariant `Inv`: the stages
  are disjoint and hold an entry once (`PlaceInv`), the counters of the window and of
  the pipeline are the sizes of what they count (`NetExact`, `PipeExact`), each
  category's counter is the number of recorded files that truly belong to it
  (`CountsExact`), a local hash is the file's content or a failure (`Hashed`), the
  verdict is reached only with the whole manifest and nothing unrecorded
  (`EndsWhole`), and the walk has found, or has still ahead of it, every extra file
  (`WalkExact`). Moving entries between stages is one general lemma about disjoint
  families of sets.

**ClientTransfer** (`ClientAssumption`: any finite set of files, any of them small or
pinned to the primary lane, any positive numbers of lanes, streams, batch entries and
hash requests, any number of retries and failures).

* `ClientNeverInTwoPlaces`, `ClientSingleFilesNeverLost`, `ClientLaneOccupancyExact`,
  `ClientNoFalseDesync`, `ClientCompleteHasFullView`, from one invariant `Inv`. The
  count of a file's places (`PlaceInv`) is kept by a step only if what leaves one place
  is what enters another, and for that the network must be known. `NetInv` is a
  predicate of the requests and of the frames to come in the order they are handled:
  stream ids are not used again (`IdsFresh`); a stream the client no longer knows while
  its answer is under way was on a lane that is down (`AnswersKnown`), which makes late
  frames harmless; an answer is one terminal frame, that of a batch a header, chunks
  and one terminal frame (`Grammar`); a batch knows its header or the header comes
  before all else of it (`HeaderFirst`); and there are never more chunks sent and to be
  sent than files waiting (`ChunksFit`), which is why no chunk ends the session.
  `ListedOnce` and `EndLast` say that a file is listed once and `ManifestEnd` comes
  last, so that an entry is always of a file that is nowhere else; `HashInv` that only
  files the comparison could not decide are in the hash fallback, so that a verdict of
  the sweep and one of a late hash answer never queue a file twice; `LanesExact` is
  the stronger form of the slot property (a drained lane is down).
* Each helper of the main loop has a lemma that says what it does to a file's count
  (`Held`): `RetryOrFailIs`, `ScheduleIs`, `WriteResultIs` and so on. The loops of the
  code are folds; `FoldExists` and `FoldRuns` turn a fold into the sequence of states it
  goes through, by induction on the length in the form of the least counterexample
  (`UpTo`, from the well-foundedness of `<` on the naturals), and the lemmas about
  `RetryAll`, `OpenEntries`, the sweep and the drained results follow by the same
  induction.
* A batch's files are not covered by `ClientSingleFilesNeverLost`: the run
  `ClientTransferLost` shows why.

**BlockTransfer** (`BlockAssumption`: any files and changed sets, any positive number of
blocks, lanes and streams, any signature window, any number of failures).

* `CommittedHolds`, `OneOwnerHolds`, from one invariant `Inv`. That a file without a
  hash is whole when its last block has ended needs, for every file in block mode, that
  the blocks missing are those queued or being fetched (`BlocksKept`: they are as many
  as `pendingRanges`, and with the blocks written they are all of the file unless a
  write failed), that a block is in one of these places once (`BlocksOnce`, else a block
  fetched again after a lane failed would count twice), and that a stream's End comes
  after its Data (`DataFirst`). For the binary delta the hash is always there (`Right`).
  `NetInv` gives the order of the frames: stream ids are not used again (`IdsFresh`), an
  answer is Data and one terminal frame (`Grammar`), and a frame of a stream the client
  no longer knows is of a lane that is down (`AnswersKnown`), so that none ends the
  session. `Own` says where a file is: the modes and the settled files are disjoint, a
  plan is made once (`PlansOnce`), a temporary belongs to a state or to a plan that
  waits (`TempsOwned`); `TasksBegun` that blocks are asked for only after the temporary
  was opened, so that a file which enters a mode finds no block of its own under way.
  The lemmas follow the helpers of the code: each says what a helper does to the owner
  (`FallsBackOwner`, `FinalizesOwner`, ...), and `MovesKeeps` that this disturbs no other
  file's blocks.

**ClientRun** (`ClientRunAssumption`: all trees, budgets and failures, under the
premise of the metadata comparison, `TimesTell`: two versions of a file with the same
size and, within the tolerance, the same time have the same content).

* `MirrorSafeHolds`: the action property needs `DeleteInv`: a finished listing is the
  served tree (it is reset by every connect), the scan is reached only with one, and
  what is left to delete is disjoint from it.
* `ExitHolds`: `RunInv`: as long as nothing failed, a settled file has the served
  content (`SettledHere`), what is visible is remote or still to be deleted
  (`ExtrasLeft`), an empty directory exists, is blocked or is still to be made
  (`DirsLeft`), and the attempts used are within the budget (`RetryBudget`).

**TransferTuning** (`TuningAssumption`: all pool sizes, thresholds, samples, trips,
stream counts and word sizes).

* `SteadyHolds`: the action property needs `CapInv`, which ties the history (a cut for
  the rate, calm windows) to the controller's own counters.
* `MonotoneHolds`: lemmas about each tuning function, by cases of its clamps; no
  induction.

**Delta** (`DeltaAssumption`: any finite alphabet, any lengths of the two files, any
block, chunk and slice size, any moduli and thresholds, for files of less than `Word`
/ 100 bytes: `BenefitRejected` multiplies byte counts by 100 in 64 bits without a check).

* `DeltaInvariant` is the invariant `DeltaInv`. The signer: the blocks pushed so far are
  those of the new file, and the open sums are the sums of what is filled of the current
  one (`SignInv`), because the sums of two spans add up (`ConcatSums`). The window: as
  long as no read has failed it holds a stretch of the old file that covers the cursor
  and is bounded (`Faithful`, `Bounded`). The scan: its checksum is the checksum of the
  window computed afresh, as rolling it by a byte is computing it anew (`RollIsInit`: the
  two sums lose and gain a byte, and reducing early or late gives the same remainder);
  every matched block equals the old file where it was matched (`SrcOk`), and the temp
  file holds exactly the matched blocks (`WrittenOf`). `InStep` ties it to the other two
  scans: after some number of iterations `BuildPlan` and the reference are where the
  streaming scan is, and `EndsAs` says that they then stay there.
* `StreamingIsExact`: `StreamingAgrees` from it; equal blocks have equal checksums, so
  the filter by weak checksum loses no match (`MatchIs`), which the reference does not
  have. The functions `BuildPlan` and `Reference` define are shown to exist before they
  are unfolded (`PlanRunExists`, `RefRunExists`).
* `PlanIsSound`: `PlanReconstructs` from it; the runs of missing blocks are disjoint and
  cover them (`RunOf`, `OneRun`), slices cover a miss (`SliceIs`), the sum of the lengths
  of disjoint ranges is the number of their bytes (`LengthsCount`), and the verdict
  never lets the plan of an early stop be used (`WholeIsRejected`, where the bound on the
  lengths is needed).
* The induction over bytes, blocks, iterations and finite sets that these need is done
  by a least counterexample in a set (`CountTo`, `OnSubsets`), since the induction
  theorems of the library take a predicate, which the provers cannot instantiate. A sum
  over a set is the value of a chosen function; that one exists, is unique and adds up
  in any order are lemmas (`SolutionExists`, `SolutionUnique`, `TotalRemove`).

Only model-checked:

* all liveness (`EveryOpCompletes`, `TeardownCompletes`, `OutstandingReadReturns`,
  `TerminalReturns`, `UnusedServerExits`, `EveryRequestAnswered`, `SessionReturns`,
  `LoopEnds`, `CheckEnds`) and the four violations: fairness is out of the prover's
  reach.

## 6. Plan

What is left, in order of importance:

1. Client: the soft limits (delayed compare entries, bytes in flight), the batch
   threshold that adapts, setting up auxiliary lanes, a statement of what `failed`
   may count.
2. Delta: block size and strong-hash length as functions of the file size.
3. Handles of the POSIX backend (a descriptor copied under the lock, used after it).

## 7. Not modelled

Byte layouts of the wire protocol, socket options, path handling, CLI parsing,
terminal output and reports, interface enumeration and route scoring carry no
interleaving state. `file_index` and `local_probe` are file-system calls; what they
return is an entry of the model. The io_uring and IOCP backends promise what the
pool backend does and are one step of `DiskIoDriver` (`BackendFinish`). The client's
side of the handshake is a sequential exchange; its outcome is a step of `ClientRun`.
Statistics counters are left out. Lifetimes of stack objects after a thread was
detached are outside TLA+'s view: connection threads of `OnceServer` stop when
`RunServer` returns. An exception out of the extra scan of a client run, which
unwinds past joinable threads, is not modelled either.
