---------------------------- MODULE ClientTransfer ----------------------------
(***************************************************************************)
(* The sync client's session loop over its pool of lanes: the manifest, the *)
(* comparison verdicts, the hash fallback, the single-file and batch        *)
(* downloads, the write pool, retries, lane failover and the exit verdict   *)
(* (FastClone/sync_engine_client.cpp, the loop of RunClient).               *)
(*                                                                         *)
(* Threads: the main loop, one receive thread per lane, and the compare,    *)
(* hash and write pools.  The main loop is sequential; pc names the part of *)
(* an iteration it is in.  The server is the environment: it answers every  *)
(* request on a living lane (module ServerSession), in any order.  A file's *)
(* bytes are one chunk.  The binary-delta and file-range paths are off (they *)
(* are module BlockTransfer), and the batch threshold is the constant it is *)
(* below 1000 pending files.                                                *)
(***************************************************************************)
EXTENDS Integers, FiniteSets, SequencesExt, Functions, LinkScheduler

CONSTANTS
    File,               \* the regular files of the server's tree
    Small,              \* those at most smallFileBatchThreshold bytes
    Large,              \* those pinned to the primary lane (largeFileThreshold)
    Outcomes,           \* the compare outcomes each file may get
    Lanes,              \* pool.size(); lane 0 is the primary
    StreamLimit,        \* activeStreamLimit
    BatchMax,           \* smallBatchMaxFiles
    HashWindow,         \* maxInFlightHashRequests
    MaxTransferRetries, \* kMaxTransferRetries
    MaxFaults           \* bound: lane, disk and server failures in a session

ASSUME ClientAssumption ==
    /\ IsFiniteSet(File) /\ Small \subseteq File /\ Large \subseteq File \ Small
    /\ Outcomes \in [File -> SUBSET {"TransferNow", "Skip", "Hash"}]
    /\ {Lanes, StreamLimit, BatchMax, HashWindow} \subseteq Nat \ {0}
    /\ {MaxTransferRetries, MaxFaults} \subseteq Nat

Lane == 0 .. Lanes - 1
Primary == 0

VARIABLES
    \* ClientConnection: healthy and recving (its thread lives) change under the
    \* receive thread, the others belong to the main loop
    healthy, recving, drained, inFlight, nextStreamId,
    \* the server: its zero-byte files, files still to list, ManifestEnd sent, requests to answer
    empty, toList, endSent, asked,
    \* frames: the receive thread's manifestBatch, the two shared queues, and the
    \* frames the main loop has taken
    manifestBatch, incomingManifest, incomingPriority, readyFrames,
    \* main loop
    pc, recvClosed, manifestDone, remoteFiles, result,
    \* compare pool: entries issued and not drained, with their outcome if known
    comparing,
    \* hash fallback
    pendingHash, hashRequested, hashSent, hashReceived, remoteHashes,
    localHash, fallbackReady,
    \* downloads, by stream key <<lane, streamId>>
    activeDownloads, activeBatches,
    \* pending queues, retry counts, verdicts, write pool: see NewWork
    work,
    \* bound: failures so far
    faults

connVars  == <<healthy, recving, drained, inFlight, nextStreamId>>
serverVars == <<empty, toList, endSent, asked>>
frameVars == <<manifestBatch, incomingManifest, incomingPriority, readyFrames>>
mainVars  == <<pc, recvClosed, manifestDone, remoteFiles, result>>
hashVars  == <<pendingHash, hashRequested, hashSent, hashReceived, remoteHashes,
               localHash, fallbackReady>>
vars == <<connVars, serverVars, frameVars, mainVars, comparing, hashVars,
          activeDownloads, activeBatches, work, faults>>

\* What the main loop's helpers read and write together.
NewWork ==
    [pendingBatch |-> <<>>, pending |-> <<>>, retryBatch |-> <<>>, retry |-> <<>>,
     scheduled |-> {}, retries |-> [f \in File |-> 0],
     resolved |-> {},                        \* hashResolved
     ioTasks |-> {}, ioResults |-> {}, ioOutstanding |-> 0,
     verdicts |-> [f \in File |-> <<>>],     \* history: how each file was counted
     failed |-> 0]

Init ==
    /\ healthy = [l \in Lane |-> TRUE] /\ recving = [l \in Lane |-> TRUE]
    /\ drained = [l \in Lane |-> FALSE] /\ inFlight = [l \in Lane |-> 0]
    /\ nextStreamId = [l \in Lane |-> 1]
    /\ empty \in SUBSET Small /\ toList = File /\ endSent = FALSE /\ asked = {}
    /\ manifestBatch = <<>> /\ incomingManifest = <<>> /\ incomingPriority = <<>>
    /\ readyFrames = <<>>
    /\ pc = "scan" /\ recvClosed = FALSE /\ manifestDone = FALSE /\ remoteFiles = {}
    /\ result = "running"
    /\ comparing = <<>>
    /\ pendingHash = <<>> /\ hashRequested = {} /\ hashSent = 0 /\ hashReceived = 0
    /\ remoteHashes = {} /\ localHash = [f \in File |-> "none"] /\ fallbackReady = <<>>
    /\ activeDownloads = <<>> /\ activeBatches = <<>>
    /\ work = NewWork
    /\ faults = 0

\* Something goes well, or fails within the bound.
MayFail == faults < MaxFaults
Succeeds(ok) == IF ok THEN UNCHANGED faults ELSE MayFail /\ faults' = faults + 1

-----------------------------------------------------------------------------
(* Queueing and verdicts.                                                  *)

\* ++compared with ++unchanged, ++transferred or ++failed.
Settle(w, f, verdict) ==
    [w EXCEPT !.verdicts[f] = Append(@, verdict),
              !.failed = IF verdict = "failed" THEN @ + 1 ELSE @]

EnqueueTransfer(w, f, isRetry) ==
    CASE isRetry /\ f \in Small -> [w EXCEPT !.retryBatch = Append(@, f)]
      [] isRetry /\ f \notin Small -> [w EXCEPT !.retry = Append(@, f)]
      [] ~isRetry /\ f \in Small -> [w EXCEPT !.pendingBatch = Append(@, f)]
      [] OTHER -> [w EXCEPT !.pending = Append(@, f)]

ScheduleTransfer(w, f) ==
    IF f \in w.scheduled THEN w
    ELSE EnqueueTransfer([w EXCEPT !.scheduled = @ \cup {f}], f, FALSE)

MarkTransferFailed(w, f) == [Settle(w, f, "failed") EXCEPT !.retries[f] = 0]

\* kMaxTransferRetries more attempts, then the file counts as failed.
RetryOrFail(w, f) ==
    IF w.retries[f] < MaxTransferRetries
    THEN EnqueueTransfer([w EXCEPT !.retries[f] = @ + 1], f, TRUE)
    ELSE MarkTransferFailed(w, f)

RetryAll(w, fs) == FoldLeft(RetryOrFail, w, fs)

\* compared and transferred, with the retry count forgotten.
Transferred(w, f) == [Settle(w, f, "transferred") EXCEPT !.retries[f] = 0]

DispatchBatchWrite(w, f) == [w EXCEPT !.ioTasks = @ \cup {f}, !.ioOutstanding = @ + 1]

\* A batch header: what the server cannot serve fails for good, a zero-byte file
\* is written at once, the others wait for their bytes.
OpenEntries(w, files, ok) ==
    FoldLeft(LAMBDA v, f : IF f \notin ok THEN MarkTransferFailed(v, f)
                           ELSE IF f \in empty THEN DispatchBatchWrite(v, f) ELSE v,
             w, files)

\* Mutant of WaitingEntries: zero-byte entries wait for bytes as well.
WaitingEntriesAll(files, ok) == SelectSeq(files, LAMBDA f : f \in ok)

\* The entries of a header that wait for bytes.
WaitingEntries(files, ok) ==
    FoldLeft(LAMBDA s, f : IF f \in ok \ empty THEN Append(s, f) ELSE s, <<>>, files)

Without(fn, ks) == Restrict(fn, DOMAIN fn \ ks)
With(fn, k, v) == [x \in DOMAIN fn \cup {k} |-> IF x \in DOMAIN fn THEN fn[x] ELSE v]

-----------------------------------------------------------------------------
(* The server and the receive threads.                                     *)

\* A receive thread pushes a frame to the priority queue, after the manifest
\* frames it has been holding back.
Push(l, frame) ==
    /\ recving[l]
    /\ incomingPriority' = Append(incomingPriority, frame)
    /\ IF l = Primary
       THEN incomingManifest' = incomingManifest \o manifestBatch /\ manifestBatch' = <<>>
       ELSE UNCHANGED <<incomingManifest, manifestBatch>>
    /\ UNCHANGED <<connVars, empty, toList, endSent, readyFrames, mainVars, comparing, hashVars,
                   activeDownloads, activeBatches, work>>

\* ManifestEntry: held back until something flushes the batch.
ServerLists(f) ==
    /\ recving[Primary] /\ f \in toList
    /\ toList' = toList \ {f}
    /\ manifestBatch' = Append(manifestBatch, [type |-> "ManifestEntry", rel |-> f])
    /\ UNCHANGED <<connVars, empty, endSent, asked, incomingManifest, incomingPriority, readyFrames,
                   mainVars, comparing, hashVars, activeDownloads, activeBatches, work, faults>>

ServerEndsManifest ==
    /\ recving[Primary] /\ toList = {} /\ ~endSent
    /\ endSent' = TRUE
    /\ incomingManifest' = incomingManifest \o manifestBatch \o <<[type |-> "ManifestEnd"]>>
    /\ manifestBatch' = <<>>
    /\ UNCHANGED <<connVars, empty, toList, asked, incomingPriority, readyFrames, mainVars,
                   comparing, hashVars, activeDownloads, activeBatches, work, faults>>

ServerHashes(r) ==
    /\ r \in asked /\ r.type = "HashRequest"
    /\ asked' = asked \ {r}
    /\ UNCHANGED faults
    /\ Push(r.lane, [type |-> "HashResponse", lane |-> r.lane, rel |-> r.rel])

\* FileOpen is answered by its bytes and FileEnd, or by FileError.
ServerSendsFile(r) ==
    /\ r \in asked /\ r.type = "FileOpen"
    /\ asked' = asked \ {r}
    /\ \E answer \in {"FileEnd", "FileError"} :
          /\ Succeeds(answer = "FileEnd")
          /\ Push(r.lane, [type |-> answer, lane |-> r.lane, sid |-> r.sid])

\* FileBatchOpen is answered by a header that says which files can be served ...
ServerOpensBatch(r) ==
    /\ r \in asked /\ r.type = "FileBatchOpen"
    /\ \E ok \in SUBSET ToSet(r.files) :
          /\ Succeeds(ok = ToSet(r.files))
          /\ asked' = (asked \ {r}) \cup
                {[type |-> "batch", lane |-> r.lane, sid |-> r.sid,
                  chunks |-> Cardinality(ok \ empty)]}
          /\ Push(r.lane, [type |-> "FileBatchOpen", lane |-> r.lane, sid |-> r.sid,
                           files |-> r.files, ok |-> ok])

\* ... then by the files' bytes in that order ...
ServerSendsChunk(r) ==
    /\ r \in asked /\ r.type = "batch" /\ r.chunks > 0
    /\ asked' = (asked \ {r}) \cup {[r EXCEPT !.chunks = @ - 1]}
    /\ UNCHANGED faults
    /\ Push(r.lane, [type |-> "FileBatchChunk", lane |-> r.lane, sid |-> r.sid])

\* ... and by FileBatchEnd, or FileError when a read fails on the way.
ServerEndsBatch(r) ==
    /\ r \in asked /\ r.type = "batch"
    /\ asked' = asked \ {r}
    /\ Succeeds(r.chunks = 0)
    /\ Push(r.lane, [type |-> IF r.chunks = 0 THEN "FileBatchEnd" ELSE "FileError",
                     lane |-> r.lane, sid |-> r.sid])

\* The lane's socket fails under its receive thread.
LaneDies(l) ==
    /\ recving[l] /\ Succeeds(~healthy[l])
    /\ recving' = [recving EXCEPT ![l] = FALSE]
    /\ healthy' = [healthy EXCEPT ![l] = FALSE]
    /\ UNCHANGED <<drained, inFlight, nextStreamId, serverVars, frameVars, mainVars,
                   comparing, hashVars, activeDownloads, activeBatches, work>>

-----------------------------------------------------------------------------
(* Worker pools.                                                           *)

\* A compare worker classifies an entry.
CompareFinishes(f) ==
    /\ f \in DOMAIN comparing /\ comparing[f] = "queued"
    /\ \E outcome \in Outcomes[f] : comparing' = [comparing EXCEPT ![f] = outcome]
    /\ UNCHANGED <<connVars, serverVars, frameVars, mainVars, hashVars, activeDownloads,
                   activeBatches, work, faults>>

\* A hash worker takes a task: only now does localHashInFlight count it.
HashStarts(f) ==
    /\ localHash[f] = "queued"
    /\ localHash' = [localHash EXCEPT ![f] = "hashing"]
    /\ UNCHANGED <<connVars, serverVars, frameVars, mainVars, comparing, pendingHash,
                   hashRequested, hashSent, hashReceived, remoteHashes, fallbackReady,
                   activeDownloads, activeBatches, work, faults>>

HashFinishes(f) ==
    /\ localHash[f] = "hashing"
    /\ \E h \in {"hashed", "unreadable"} : localHash' = [localHash EXCEPT ![f] = h]
    /\ fallbackReady' = Append(fallbackReady, f)
    /\ UNCHANGED <<connVars, serverVars, frameVars, mainVars, comparing, pendingHash,
                   hashRequested, hashSent, hashReceived, remoteHashes, activeDownloads,
                   activeBatches, work, faults>>

\* A write worker writes a whole file; an exception is a failed write.
WriteFinishes(f) ==
    /\ f \in work.ioTasks
    /\ \E ok \in BOOLEAN :
          /\ Succeeds(ok)
          /\ work' = [work EXCEPT !.ioTasks = @ \ {f}, !.ioResults = @ \cup {<<f, ok>>}]
    /\ UNCHANGED <<connVars, serverVars, frameVars, mainVars, comparing, hashVars,
                   activeDownloads, activeBatches>>

-----------------------------------------------------------------------------
(* The main loop.                                                          *)

Main(from, to) == pc = from /\ result = "running" /\ pc' = to

HealthyConnCount == Cardinality({l \in Lane : healthy[l]})

\* Mutant of Requeued: only what batches were fetching is queued again.
RequeuedBatches(fs, bs) ==
    FlattenSeq([i \in DOMAIN bs |-> activeBatches[bs[i]].waiting])

\* What failoverScan queues again: the files of single streams, then the entries of
\* batches whose bytes have not come.
Requeued(fs, bs) ==
    [i \in DOMAIN fs |-> activeDownloads[fs[i]]] \o
    FlattenSeq([i \in DOMAIN bs |-> activeBatches[bs[i]].waiting])

\* failoverScan, up to its last test: a lane found unhealthy is drained once; its streams
\* are erased and what they were fetching is queued again.
FailoverScan ==
    LET dead == {l \in Lane : ~healthy[l] /\ ~drained[l]}
        files == {k \in DOMAIN activeDownloads : k[1] \in dead}
        batches == {k \in DOMAIN activeBatches : k[1] \in dead}
    IN  /\ Main("scan", "resolve")
        /\ \E fs \in SetToSeqs(files), bs \in SetToSeqs(batches) :
              work' = RetryAll(work, Requeued(fs, bs))
        /\ activeDownloads' = Without(activeDownloads, files)
        /\ activeBatches' = Without(activeBatches, batches)
        /\ inFlight' = [l \in Lane |-> IF l \in dead THEN 0 ELSE inFlight[l]]
        /\ drained' = [l \in Lane |-> drained[l] \/ l \in dead]
        /\ UNCHANGED <<healthy, recving, nextStreamId, serverVars, frameVars, recvClosed,
                       manifestDone, remoteFiles, result, comparing, hashVars, faults>>

HashesReady(f) == f \in remoteHashes /\ localHash[f] \in {"hashed", "unreadable"}

\* resolveFallbackIfReady over the candidates; same says whose hashes agree.
ResolveFallback(w, candidates, same) ==
    FoldLeft(LAMBDA v, f :
                IF f \in v.resolved \/ ~HashesReady(f) THEN v
                ELSE [(IF f \in same THEN Settle(v, f, "unchanged")
                                     ELSE ScheduleTransfer(v, f))
                      EXCEPT !.resolved = @ \cup {f}],
             w, candidates)

\* An unreadable local file never compares equal.
Agreeing(fs) == SUBSET {f \in fs : localHash[f] = "hashed"}

ControlConn ==
    IF HealthyConnCount = 0 THEN Primary
    ELSE CHOOSE l \in Lane : healthy[l] /\ \A m \in 0 .. l - 1 : ~healthy[m]

\* dispatchHashRequests on the queue q: the window's worth of requests goes to the
\* control lane, counted as sent and hashed locally whether or not the send succeeds.
DispatchHashRequests(q) ==
    LET window == HashWindow - (hashSent - hashReceived)
        n == IF Len(q) < window THEN Len(q) ELSE window
        rels == ToSet(SubSeq(q, 1, n))
        ctrl == ControlConn
    IN  /\ pendingHash' = SubSeq(q, n + 1, Len(q))
        /\ hashSent' = hashSent + n
        /\ localHash' = [f \in File |-> IF f \in rels THEN "queued" ELSE localHash[f]]
        /\ \E sent \in IF n = 0 THEN {TRUE} ELSE BOOLEAN :
              /\ Succeeds(sent \/ ~healthy[ctrl])
              /\ IF sent
                 THEN /\ asked' = asked \cup {[type |-> "HashRequest", lane |-> ctrl, rel |-> f] :
                                             f \in rels}
                      /\ UNCHANGED healthy
                 ELSE healthy' = [healthy EXCEPT ![ctrl] = FALSE] /\ UNCHANGED asked

\* The end of failoverScan (recvClosed once every lane is down), then
\* resolveFallbackIfReady and dispatchHashRequests.
Resolve ==
    /\ Main("resolve", "start")
    /\ recvClosed' = (recvClosed \/ HealthyConnCount = 0)
    /\ \E same \in Agreeing(ToSet(fallbackReady)) :
          work' = ResolveFallback(work, fallbackReady, same)
    /\ fallbackReady' = <<>>
    /\ DispatchHashRequests(pendingHash)
    /\ UNCHANGED <<recving, drained, inFlight, nextStreamId, empty, toList, endSent, frameVars,
                   manifestDone, remoteFiles, result, comparing, hashRequested, hashReceived,
                   remoteHashes, activeDownloads, activeBatches>>

\* pickConnection with equal weights: the primary carries one more while the manifest is
\* coming.
PickConnection(forcePrimary) ==
    SelectLeastLoadedLane(
        [l \in Lane |-> [healthy |-> healthy[l], inFlight |-> inFlight[l], weight |-> 1,
                         bias |-> IF l = Primary /\ ~manifestDone THEN 1 ELSE 0]],
        StreamLimit, forcePrimary)

GlobalSlotCap == StreamLimit * (IF HealthyConnCount = 0 THEN 1 ELSE HealthyConnCount)
ActiveSlots == Cardinality(DOMAIN activeDownloads) + Cardinality(DOMAIN activeBatches)

\* tryStartTransfers looks at the queues in this order; "none" when all are empty.
NextQueue ==
    CASE work.pendingBatch # <<>> -> "pendingBatch"
      [] work.pendingBatch = <<>> /\ work.pending # <<>> -> "pending"
      [] work.pendingBatch = <<>> /\ work.pending = <<>> /\ work.retryBatch # <<>> ->
            "retryBatch"
      [] OTHER -> IF work.retry # <<>> THEN "retry" ELSE "none"

BatchTurn == NextQueue \in {"pendingBatch", "retryBatch"}
RegularTurn == NextQueue \in {"pending", "retry"}

\* The lane the next transfer goes to, if one may start now.
NextLane ==
    IF NextQueue = "none" \/ ActiveSlots >= GlobalSlotCap THEN NoLane
    ELSE IF BatchTurn THEN PickConnection(FALSE)
    ELSE IF Cardinality(DOMAIN activeDownloads)
              >= GlobalSlotCap - (IF GlobalSlotCap > 1 /\ work.retryBatch # <<>> THEN 1 ELSE 0)
         THEN NoLane
         ELSE PickConnection(Head(work[NextQueue]) \in Large)

\* A batch request is sent: nothing but the stream key remembers it.
StartBatch ==
    LET l == NextLane
        q == work[NextQueue]
        n == IF Len(q) < BatchMax THEN Len(q) ELSE BatchMax
        key == <<l, nextStreamId[l]>>
    IN  /\ Main("start", "start") /\ BatchTurn /\ l # NoLane
        /\ work' = [work EXCEPT ![NextQueue] = SubSeq(q, n + 1, Len(q))]
        /\ activeBatches' = With(activeBatches, key, [headerReady |-> FALSE, waiting |-> <<>>])
        /\ nextStreamId' = [nextStreamId EXCEPT ![l] = @ + 1]
        /\ inFlight' = [inFlight EXCEPT ![l] = @ + 1]
        /\ asked' = asked \cup {[type |-> "FileBatchOpen", lane |-> l, sid |-> key[2],
                                 files |-> SubSeq(q, 1, n)]}
        /\ UNCHANGED <<healthy, recving, drained, empty, toList, endSent, frameVars, recvClosed,
                       manifestDone, remoteFiles, result, comparing, hashVars,
                       activeDownloads, faults>>

\* The batch request cannot be sent: its files are queued again and the pass ends.
StartBatchFails ==
    LET l == NextLane
        q == work[NextQueue]
        n == IF Len(q) < BatchMax THEN Len(q) ELSE BatchMax
    IN  /\ Main("start", "drain") /\ BatchTurn /\ l # NoLane /\ Succeeds(FALSE)
        /\ work' = RetryAll([work EXCEPT ![NextQueue] = SubSeq(q, n + 1, Len(q))],
                            SubSeq(q, 1, n))
        /\ nextStreamId' = [nextStreamId EXCEPT ![l] = @ + 1]
        /\ healthy' = [healthy EXCEPT ![l] = FALSE]
        /\ UNCHANGED <<recving, drained, inFlight, serverVars, frameVars, recvClosed,
                       manifestDone, remoteFiles, result, comparing, hashVars,
                       activeDownloads, activeBatches>>

\* A single file: the stream is entered before the request is sent, so that a
\* failed send leaves it to failoverScan.
StartRegular ==
    LET l == NextLane
        key == <<l, nextStreamId[l]>>
        f == Head(work[NextQueue])
    IN  /\ pc = "start" /\ result = "running" /\ RegularTurn /\ l # NoLane
        /\ work' = [work EXCEPT ![NextQueue] = Tail(@)]
        /\ activeDownloads' = With(activeDownloads, key, f)
        /\ nextStreamId' = [nextStreamId EXCEPT ![l] = @ + 1]
        /\ \/ /\ pc' = "start"
              /\ inFlight' = [inFlight EXCEPT ![l] = @ + 1]
              /\ asked' = asked \cup {[type |-> "FileOpen", lane |-> l, sid |-> key[2]]}
              /\ UNCHANGED <<healthy, faults>>
           \/ /\ Succeeds(FALSE) /\ pc' = "drain"
              /\ healthy' = [healthy EXCEPT ![l] = FALSE]
              /\ UNCHANGED <<inFlight, asked>>
        /\ UNCHANGED <<recving, drained, empty, toList, endSent, frameVars, recvClosed,
                       manifestDone, remoteFiles, result, comparing, hashVars,
                       activeBatches>>

\* The local file cannot be opened for writing.
OpenFileFails ==
    LET q == NextQueue
    IN  /\ Main("start", "start") /\ RegularTurn /\ NextLane # NoLane /\ Succeeds(FALSE)
        /\ work' = RetryOrFail([work EXCEPT ![q] = Tail(@)], Head(work[q]))
        /\ UNCHANGED <<connVars, serverVars, frameVars, recvClosed, manifestDone, remoteFiles,
                       result, comparing, hashVars, activeDownloads, activeBatches>>

\* Nothing queued, every slot taken or no eligible lane.
StartsDone ==
    /\ Main("start", "drain") /\ NextLane = NoLane
    /\ UNCHANGED <<connVars, serverVars, frameVars, recvClosed, manifestDone, remoteFiles,
                   result, comparing, hashVars, activeDownloads, activeBatches, work, faults>>

\* handleCompareResult, for a whole drained batch.
CompareResult(w, f, outcome) ==
    CASE outcome = "TransferNow" -> ScheduleTransfer(w, f)
      [] outcome = "Skip" -> Settle(w, f, "unchanged")
      [] OTHER -> w

\* An ioResults entry: counted once, or tried again.
WriteResult(w, r) ==
    LET v == [w EXCEPT !.ioResults = @ \ {r}, !.ioOutstanding = @ - 1]
    IN  IF r[2] THEN Transferred(v, r[1]) ELSE RetryOrFail(v, r[1])

\* Drain the compare pool, then the write pool, and dispatch the new hash requests.
DrainResults ==
    LET drainedFiles == {f \in DOMAIN comparing : comparing[f] # "queued"}
        toHash == {f \in drainedFiles : comparing[f] = "Hash" /\ f \notin hashRequested}
    IN  /\ Main("drain", "test")
        /\ \E fs \in SetToSeqs(drainedFiles), rs \in SetToSeqs(work.ioResults) :
              work' = FoldLeft(WriteResult,
                          FoldLeft(LAMBDA w, f : CompareResult(w, f, comparing[f]), work, fs),
                          rs)
        /\ \E fallback \in SetToSeqs(toHash) : DispatchHashRequests(pendingHash \o fallback)
        /\ hashRequested' = hashRequested \cup toHash
        /\ comparing' = Without(comparing, drainedFiles)
        /\ UNCHANGED <<recving, drained, inFlight, nextStreamId, empty, toList, endSent, frameVars,
                       recvClosed, manifestDone, remoteFiles, result, hashReceived,
                       remoteHashes, fallbackReady, activeDownloads, activeBatches>>

\* Mutant of AllDone: the loop may end before ManifestEnd.
AllDoneSoFar ==
    /\ comparing = <<>>
    /\ work.pending = <<>> /\ work.pendingBatch = <<>>
    /\ work.retry = <<>> /\ work.retryBatch = <<>>
    /\ activeDownloads = <<>> /\ activeBatches = <<>>
    /\ work.resolved = hashRequested
    /\ work.ioOutstanding = 0

\* The exit test: nothing is left in any stage.
AllDone ==
    /\ manifestDone /\ comparing = <<>>
    /\ work.pending = <<>> /\ work.pendingBatch = <<>>
    /\ work.retry = <<>> /\ work.retryBatch = <<>>
    /\ activeDownloads = <<>> /\ activeBatches = <<>>
    /\ work.resolved = hashRequested
    /\ work.ioOutstanding = 0

\* The loop ends: with a full manifest and a living pool the session is complete
\* (extras are deleted, SyncDone is sent), otherwise it is given up.
Leaves ==
    /\ Main("test", "exit")
    /\ AllDone
    /\ result' = IF recvClosed THEN "incomplete" ELSE "complete"
    /\ UNCHANGED <<connVars, serverVars, frameVars, recvClosed, manifestDone, remoteFiles,
                   comparing, hashVars, activeDownloads, activeBatches, work, faults>>

\* sweepUnresolvedFallbackIfQuiescent: what no answer can resolve is transferred.
MustSweep ==
    /\ work.resolved # hashRequested
    /\ pendingHash = <<>> /\ hashSent = hashReceived
    /\ \A f \in File : localHash[f] # "hashing"

Sweep ==
    LET unresolved == hashRequested \ work.resolved
    IN  IF MustSweep
        THEN /\ \E us \in SetToSeqs(unresolved),
                   same \in Agreeing(unresolved \cup ToSet(fallbackReady)) :
                   work' = FoldLeft(LAMBDA w, f :
                                 IF f \in w.resolved THEN w
                                 ELSE [ScheduleTransfer(w, f) EXCEPT !.resolved = @ \cup {f}],
                              ResolveFallback(work, fallbackReady \o us, same), us)
             /\ fallbackReady' = <<>>
        ELSE UNCHANGED <<work, fallbackReady>>

NeedNetworkFrame ==
    \/ ~manifestDone \/ activeDownloads # <<>> \/ activeBatches # <<>>
    \/ hashReceived < hashSent

\* Mutant of TakesFrames: with nothing to wait for, a closed pool is not noticed.
TakesFramesIfNeeded == NeedNetworkFrame

\* The iteration goes on to the frame queues, also when every lane is down.
TakesFrames == NeedNetworkFrame \/ recvClosed

\* Not done: sweep, then go on, wait, take the queued frames, or give up when every
\* lane is closed and nothing is queued.
GoesOn ==
    /\ pc = "test" /\ result = "running" /\ ~AllDone
    /\ Sweep
    /\ IF ~TakesFrames
       THEN pc' = "scan" /\ UNCHANGED <<frameVars, result>>
       ELSE LET queued == incomingPriority \o incomingManifest
            IN  /\ readyFrames' = queued
                /\ incomingPriority' = <<>> /\ incomingManifest' = <<>>
                /\ IF queued # <<>> THEN pc' = "process" /\ UNCHANGED result
                   ELSE IF comparing = <<>> /\ recvClosed
                   THEN pc' = "exit" /\ result' = "incomplete"
                   ELSE pc' = "scan" /\ UNCHANGED result
                /\ UNCHANGED manifestBatch
    /\ UNCHANGED <<connVars, serverVars, recvClosed, manifestDone, remoteFiles, comparing,
                   pendingHash, hashRequested, hashSent, hashReceived, remoteHashes, localHash,
                   activeDownloads, activeBatches, faults>>

-----------------------------------------------------------------------------
(* processIncomingFrame, one action per frame type.                        *)

Frame == Head(readyFrames)
FrameKey == <<Frame.lane, Frame.sid>>

\* The frame is done with; the loop starts over after the last one.
TakeFrame(type) ==
    /\ pc = "process" /\ result = "running" /\ Frame.type = type
    /\ readyFrames' = Tail(readyFrames)
    /\ UNCHANGED <<manifestBatch, incomingManifest, incomingPriority>>

Proceed == pc' = (IF Len(readyFrames) = 1 THEN "scan" ELSE "process") /\ UNCHANGED result

\* A protocol error: the exception leaves the loop.
Desync ==
    /\ pc' = "exit" /\ result' = "aborted"
    /\ UNCHANGED <<inFlight, activeDownloads, activeBatches, work, faults>>

\* Mutant of Unknown: a late frame of a lane that is down is a protocol error too.
UnknownIsFatal == Desync

\* A frame for a stream that is not known: dropped from a lane that is down, a
\* protocol error that ends the session on a healthy one.
Unknown ==
    IF healthy[Frame.lane] THEN Desync
    ELSE Proceed /\ UNCHANGED <<inFlight, activeDownloads, activeBatches, work, faults>>

ReleaseSlot ==
    inFlight' = [inFlight EXCEPT ![Frame.lane] = IF @ > 0 THEN @ - 1 ELSE 0]

OnManifestEntry ==
    /\ TakeFrame("ManifestEntry") /\ Proceed
    /\ remoteFiles' = remoteFiles \cup {Frame.rel}
    /\ comparing' = With(comparing, Frame.rel, "queued")
    /\ UNCHANGED <<connVars, serverVars, recvClosed, manifestDone, hashVars, activeDownloads,
                   activeBatches, work, faults>>

OnManifestEnd ==
    /\ TakeFrame("ManifestEnd") /\ Proceed
    /\ manifestDone' = TRUE
    /\ UNCHANGED <<connVars, serverVars, recvClosed, remoteFiles, comparing, hashVars,
                   activeDownloads, activeBatches, work, faults>>

OnHashResponse ==
    /\ TakeFrame("HashResponse") /\ Proceed
    /\ remoteHashes' = remoteHashes \cup {Frame.rel}
    /\ fallbackReady' = Append(fallbackReady, Frame.rel)
    /\ hashReceived' = hashReceived + 1
    /\ UNCHANGED <<connVars, serverVars, recvClosed, manifestDone, remoteFiles, comparing,
                   pendingHash, hashRequested, hashSent, localHash, activeDownloads,
                   activeBatches, work, faults>>

\* What a file frame leaves alone.
FileFrame ==
    UNCHANGED <<healthy, recving, drained, nextStreamId, serverVars, recvClosed, manifestDone,
                remoteFiles, comparing, hashVars>>

OnFileBatchOpen ==
    /\ TakeFrame("FileBatchOpen") /\ FileFrame
    /\ IF FrameKey \in DOMAIN activeBatches
       THEN /\ work' = OpenEntries(work, Frame.files, Frame.ok)
            /\ activeBatches' = [activeBatches EXCEPT ![FrameKey] =
                  [headerReady |-> TRUE,
                   waiting |-> WaitingEntries(Frame.files, Frame.ok)]]
            /\ Proceed
            /\ UNCHANGED <<inFlight, activeDownloads, faults>>
       ELSE Unknown

\* The bytes belong to the first entry still waiting for its own.
OnFileBatchChunk ==
    /\ TakeFrame("FileBatchChunk") /\ FileFrame
    /\ IF FrameKey \notin DOMAIN activeBatches THEN Unknown
       ELSE IF ~activeBatches[FrameKey].headerReady THEN Desync
       ELSE /\ work' = DispatchBatchWrite(work, Head(activeBatches[FrameKey].waiting))
            /\ activeBatches' = [activeBatches EXCEPT ![FrameKey].waiting = Tail(@)]
            /\ Proceed
            /\ UNCHANGED <<inFlight, activeDownloads, faults>>

\* Mutant of BatchCloses: the lane keeps the slot.
BatchClosesKeepsSlot ==
    /\ work' = RetryAll(work, activeBatches[FrameKey].waiting)
    /\ activeBatches' = Without(activeBatches, {FrameKey})
    /\ Proceed
    /\ UNCHANGED <<inFlight, activeDownloads, faults>>

\* FileBatchEnd, and FileError on a batch: entries without their bytes are tried again.
BatchCloses ==
    /\ work' = RetryAll(work, activeBatches[FrameKey].waiting)
    /\ activeBatches' = Without(activeBatches, {FrameKey})
    /\ ReleaseSlot /\ Proceed
    /\ UNCHANGED <<activeDownloads, faults>>

OnFileBatchEnd ==
    /\ TakeFrame("FileBatchEnd") /\ FileFrame
    /\ IF FrameKey \in DOMAIN activeBatches THEN BatchCloses ELSE Unknown

\* FileEnd: the writes are waited for and the file closed, which may fail.
OnFileEnd ==
    /\ TakeFrame("FileEnd") /\ FileFrame
    /\ IF FrameKey \in DOMAIN activeDownloads
       THEN /\ \E ok \in BOOLEAN :
                  /\ Succeeds(ok)
                  /\ work' = IF ok THEN Transferred(work, activeDownloads[FrameKey])
                             ELSE RetryOrFail(work, activeDownloads[FrameKey])
            /\ activeDownloads' = Without(activeDownloads, {FrameKey})
            /\ ReleaseSlot /\ Proceed
            /\ UNCHANGED activeBatches
       ELSE Unknown

\* FileError has no stale-lane test: for a stream failoverScan has erased it counts
\* one more failure.
OnFileError ==
    /\ TakeFrame("FileError") /\ FileFrame
    /\ IF FrameKey \in DOMAIN activeBatches THEN BatchCloses
       ELSE /\ work' = IF FrameKey \in DOMAIN activeDownloads
                       THEN RetryOrFail(work, activeDownloads[FrameKey])
                       ELSE [work EXCEPT !.failed = @ + 1]
            /\ activeDownloads' = Without(activeDownloads, {FrameKey})
            /\ ReleaseSlot /\ Proceed
            /\ UNCHANGED <<activeBatches, faults>>

-----------------------------------------------------------------------------
MainLoop ==
    \/ FailoverScan \/ Resolve
    \/ StartBatch \/ StartBatchFails \/ StartRegular \/ OpenFileFails \/ StartsDone
    \/ DrainResults \/ Leaves \/ GoesOn
    \/ OnManifestEntry \/ OnManifestEnd \/ OnHashResponse
    \/ OnFileBatchOpen \/ OnFileBatchChunk \/ OnFileBatchEnd \/ OnFileEnd \/ OnFileError

Server ==
    \/ \E f \in File : ServerLists(f)
    \/ ServerEndsManifest
    \/ \E r \in asked : \/ ServerHashes(r) \/ ServerSendsFile(r) \/ ServerOpensBatch(r)
                        \/ ServerSendsChunk(r) \/ ServerEndsBatch(r)

Workers ==
    \E f \in File : CompareFinishes(f) \/ HashStarts(f) \/ HashFinishes(f) \/ WriteFinishes(f)

Running == result = "running"

Next ==
    \/ MainLoop
    \/ Running /\ (Server \/ Workers \/ \E l \in Lane : LaneDies(l))

Spec == Init /\ [][Next]_vars

\* The main loop never blocks for good, the pools keep working and the server
\* answers what it was asked; nothing makes a lane die.
FairSpec ==
    /\ Spec
    /\ WF_vars(MainLoop)
    /\ WF_vars(Running /\ Server)
    /\ WF_vars(Running /\ Workers)

-----------------------------------------------------------------------------
(* Properties.                                                             *)

Occurrences(f, s) == Cardinality({i \in DOMAIN s : s[i] = f})

\* Requests and headers of batches the client still has open.
HeaderlessBatches(f) ==
    {r \in asked \cup ToSet(incomingPriority) \cup ToSet(readyFrames) :
        /\ r.type = "FileBatchOpen" /\ f \in ToSet(r.files)
        /\ <<r.lane, r.sid>> \in DOMAIN activeBatches}

\* In how many places of the client a file is: not listed yet, being compared, in
\* the hash fallback, queued, being downloaded, being written, or counted.
Places(f) ==
    Cardinality({p \in {"listing", "compare", "fallback"} :
                    \/ p = "listing" /\ f \notin remoteFiles
                    \/ p = "compare" /\ f \in DOMAIN comparing
                    \/ p = "fallback" /\ f \in hashRequested \ work.resolved})
    + Occurrences(f, work.pendingBatch \o work.pending \o work.retryBatch \o work.retry)
    + Cardinality({k \in DOMAIN activeDownloads : activeDownloads[k] = f})
    + Cardinality({k \in DOMAIN activeBatches : Contains(activeBatches[k].waiting, f)})
    + Cardinality(HeaderlessBatches(f))
    + Cardinality({f} \cap work.ioTasks) + Cardinality({r \in work.ioResults : r[1] = f})
    + Len(work.verdicts[f])

\* No file is fetched twice at a time, written by two workers or counted twice,
\* whatever lanes fail and whichever retries, sweeps and late answers there are.
NeverInTwoPlaces == \A f \in File : Places(f) <= 1

\* A file that is fetched on a stream of its own is never dropped on the way.
SingleFilesNeverLost == \A f \in File \ Small : Places(f) >= 1

Streams(l) == {k \in DOMAIN activeDownloads \cup DOMAIN activeBatches : k[1] = l}

\* A lane's slot count is the number of its streams while it is healthy, within the
\* limit, and none are left once failoverScan has drained it.
LaneOccupancyExact ==
    \A l \in Lane :
        /\ healthy[l] => inFlight[l] = Cardinality(Streams(l))
        /\ drained[l] => inFlight[l] = 0 /\ Streams(l) = {}
        /\ inFlight[l] <= StreamLimit

\* Frames that arrive after their lane was drained never end the session as a
\* protocol error.
NoFalseDesync == result # "aborted"

\* Local extras are deleted only against the whole listing, with every file that has
\* a stream of its own counted.
CompleteHasFullView ==
    result = "complete" =>
        remoteFiles = File /\ \A f \in File \ Small : work.verdicts[f] # <<>>

\* What failoverScan promises: the files a failed lane was fetching go to the healthy
\* ones, so a session that ends complete has counted every file.
CompleteCountsEveryFile ==
    result = "complete" => \A f \in File : work.verdicts[f] # <<>>

\* A lane failed with answers on it that nobody asks for again.
ManifestLost == ~healthy[Primary] /\ ~manifestDone
HashAnswerLost == hashReceived < hashSent /\ \E l \in Lane : ~healthy[l]

\* The loop ends: these two losses are the only way it can go round for ever.
LoopEnds == <>(result # "running") \/ <>[](ManifestLost \/ HashAnswerLost)
=============================================================================
