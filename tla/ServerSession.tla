---------------------------- MODULE ServerSession ----------------------------
(***************************************************************************)
(* One server connection: RunSessionServer                                  *)
(* (FastClone/sync_engine_server.cpp), with the hash and block-signature    *)
(* memory caches it consults (FastClone/hash_memcache.cpp).                 *)
(*                                                                         *)
(* Threads: the receiver, the send loop (the connection thread itself), the*)
(* manifest thread with its directory walkers, and jobs on the shared hash *)
(* pool.  A burst of a stream is one chunk.  The condition variable        *)
(* outboundCv is modelled with its blocking window: `done` is set without  *)
(* the mutex, so it can fall between a producer's test and its sleep.      *)
(*                                                                         *)
(* Frames are kept per channel: one channel per request and one for the    *)
(* manifest.  Their order across channels is not observable: a batch of    *)
(* frames is sent whole or the session fails.                              *)
(***************************************************************************)
EXTENDS Integers, Sequences, FiniteSets, Functions

CONSTANTS
    HashReq, SigReq,       \* HashRequest, BlockSigRequest: all for one path
    FileReq, BatchReq,     \* FileOpen, FileBatchOpen
    RangeReq,              \* DeltaRangeOpen, FileRangeOpen
    MaxFrames,             \* bound: requests the client sends
    Walker,                \* directory-walk workers
    Chunk, Chunks,         \* frames per flushed chunk, chunks per walker
    MaxQueued,             \* maxQueuedManifestFrames
    HighBudget, Budget,    \* replies, manifest frames taken per round
    Length,                \* bound: chunks of a file or a range
    MaxChanges,            \* bound: times the hashed file is written meanwhile
    Sticky,                \* jobs that may be stuck past the drain timeout
    Free                   \* the mutex mu is not held across a sleep

Digest == HashReq \cup SigReq
Stream == FileReq \cup BatchReq \cup RangeReq
Req == Digest \cup Stream
Producer == Walker \cup {"tail"}
Channel == Req \cup {"manifest"}

ASSUME SessionAssumption ==
    /\ \A S \in {HashReq, SigReq, FileReq, BatchReq, RangeReq, Walker} : IsFiniteSet(S)
    /\ Digest \cap Stream = {} /\ HashReq \cap SigReq = {} /\ FileReq \cap BatchReq = {}
    /\ RangeReq \cap (FileReq \cup BatchReq) = {} /\ "manifest" \notin Req
    /\ {"tail", "ManifestEnd"} \cap Walker = {} /\ Free \notin Producer
    /\ {Chunk, Chunks, MaxQueued, HighBudget, Budget, Length} \subseteq Nat \ {0}
    /\ MaxChanges \in Nat /\ MaxFrames \in Nat /\ Sticky \subseteq Digest

VARIABLES
    type,                  \* SessionType: a Check session serves no file
    done, failed,          \* atomics
    received,              \* requests taken from the socket
    outHigh, outManifest,  \* outboundHigh, outboundManifest (mu)
    mu,                    \* the producer about to sleep on outboundCv, or Free
    pendingNew,            \* pendingNew*Streams (mu)
    active, left,          \* active*Streams, chunks they still have to send
    handle,                \* driver file: "none", "open", "closed", "swept"
    job, pendingJobs,      \* jobs of the hash pool, sessionPendingHashJobs
    version,               \* what the hashed file holds; also its fingerprint
    asked, digest,         \* a job's fingerprint at request time, what it hashed
    cache,                 \* ServerHashMemCache, BlockSigMemCache: the path's entry
    producer, chunksLeft,  \* manifest producers
    recvPc, shutdown,      \* the receiver; the socket was shut down
    pc, hand,              \* the send loop; sendFrames
    fileIds, released,     \* sessionFileIds; driver files released
    wire                   \* frames on the wire, per channel

netVars   == <<received, recvPc, shutdown>>
queueVars == <<outHigh, outManifest, mu>>
strmVars  == <<pendingNew, active, left, handle>>
jobVars   == <<job, pendingJobs, asked, digest>>
fileVars  == <<version, cache>>
prodVars  == <<producer, chunksLeft>>
sendVars  == <<pc, hand, fileIds, released, wire>>
progress == <<done, failed, netVars, queueVars, strmVars, jobVars, fileVars, prodVars, sendVars>>
vars == <<type, progress>>

\* No fingerprint could be read, or no digest computed.
Unread == -1

\* The caches hold nothing for the path.
NoEntry == [fp |-> Unread, of |-> Unread, blind |-> FALSE]

NoFrames == [c \in Channel |-> <<>>]

Init ==
    /\ type \in {"Sync", "Check"}
    /\ done = FALSE /\ failed = FALSE
    /\ received = {} /\ recvPc = "recv" /\ shutdown = FALSE
    /\ outHigh = <<>> /\ outManifest = <<>> /\ mu = Free
    /\ pendingNew = {} /\ active = {} /\ left = [r \in Stream |-> 0]
    /\ handle = [r \in Stream |-> "none"]
    /\ job = [r \in Digest |-> "none"] /\ pendingJobs = 0
    /\ asked = [r \in Digest |-> Unread] /\ digest = [r \in Digest |-> Unread]
    /\ version = 0 /\ cache = [k \in {"hash", "sig"} |-> NoEntry]
    /\ producer = [p \in Producer |-> "off"] /\ chunksLeft = [p \in Producer |-> 0]
    /\ pc = "top" /\ hand = NoFrames /\ fileIds = {} /\ released = {} /\ wire = NoFrames

Frames(w, n) == [i \in 1 .. n |-> w]
Least(a, b) == IF a < b THEN a ELSE b

-----------------------------------------------------------------------------
(* outboundCv.                                                             *)

Asleep == {p \in Producer : producer[p] = "asleep"}

\* notify_one: a sleeping producer re-tests, or the send loop (whose own wait is
\* timed) takes the wakeup.
Woken(ps) == [p \in Producer |-> IF p \in ps THEN "test" ELSE producer[p]]
NotifyOne == \E ps \in {{}} \cup {{p} : p \in Asleep} : producer' = Woken(ps)
NotifyAll == producer' = Woken(Asleep)

\* flushManifest, the wait's test under mu: push the chunk, drop it when the
\* session is over, or prepare to sleep with mu still held.
Flush(p) ==
    /\ producer[p] = "test" /\ mu = Free
    /\ IF done
       THEN /\ producer' = [producer EXCEPT ![p] = "finished"]
            /\ UNCHANGED <<outManifest, mu, chunksLeft>>
       ELSE IF Len(outManifest) < MaxQueued
       THEN /\ outManifest' = outManifest \o
                   (IF p = "tail" THEN <<"ManifestEnd">> ELSE Frames(p, Chunk))
            /\ chunksLeft' = [chunksLeft EXCEPT ![p] = @ - 1]
            /\ \E q \in Asleep \cup {p} :
                 producer' = [Woken({q}) EXCEPT ![p] = IF chunksLeft[p] = 1 THEN "finished"
                                                       ELSE "test"]
            /\ UNCHANGED mu
       ELSE /\ producer' = [producer EXCEPT ![p] = "sleeping"] /\ mu' = p
            /\ UNCHANGED <<outManifest, chunksLeft>>
    /\ UNCHANGED <<done, failed, netVars, outHigh, strmVars, jobVars, fileVars, sendVars>>

\* outboundCv.wait blocks and releases mu, atomically for holders of mu only.
Sleep(p) ==
    /\ producer[p] = "sleeping"
    /\ producer' = [producer EXCEPT ![p] = "asleep"] /\ mu' = Free
    /\ UNCHANGED <<done, failed, netVars, outHigh, outManifest, strmVars, jobVars, fileVars,
                   chunksLeft, sendVars>>

\* ParallelDirWalk has joined its workers: the manifest thread flushes the end
\* marker, unless the walk was cut short.
WalkJoined ==
    /\ producer["tail"] = "walking" /\ \A p \in Walker : producer[p] = "finished"
    /\ producer' = [producer EXCEPT !["tail"] = IF done THEN "finished" ELSE "test"]
    /\ UNCHANGED <<done, failed, netVars, queueVars, strmVars, jobVars, fileVars,
                   chunksLeft, sendVars>>

\* The enumeration throws: the manifest thread ends the session.
ManifestFails ==
    /\ producer["tail"] = "walking" /\ \A p \in Walker : producer[p] = "finished"
    /\ producer' = [Woken(Asleep) EXCEPT !["tail"] = "finished"]
    /\ failed' = TRUE /\ done' = TRUE
    /\ UNCHANGED <<netVars, queueVars, strmVars, jobVars, fileVars, chunksLeft, sendVars>>

-----------------------------------------------------------------------------
(* The receiver thread.                                                    *)

\* RecvFrame returned a frame.  The receiver tests done only between frames, so
\* one that was blocked in recv when the session ended still handles a frame.
Receiving == recvPc = "recv" /\ recvPc' = IF done THEN "leaving" ELSE "recv"

Started == IF producer["tail"] = "off" THEN 0 ELSE 1

\* Request r arrives, within the bound.
Takes(r) ==
    /\ r \notin received /\ Cardinality(received) + Started < MaxFrames
    /\ received' = received \cup {r} /\ Receiving

\* ManifestRequest: the first one starts the enumeration.
RecvManifestRequest ==
    /\ Receiving /\ (Started = 1 \/ Cardinality(received) < MaxFrames)
    /\ IF Started = 0
       THEN /\ producer' = [p \in Producer |-> IF p = "tail" THEN "walking" ELSE "test"]
            /\ chunksLeft' = [p \in Producer |-> IF p = "tail" THEN 1 ELSE Chunks]
       ELSE UNCHANGED prodVars
    /\ UNCHANGED <<done, failed, received, shutdown, queueVars, strmVars, jobVars, fileVars,
                   sendVars>>

\* enqueueHigh: an answer of one frame, under mu.
EnqueueHigh(r) == mu = Free /\ outHigh' = Append(outHigh, r) /\ NotifyOne

Kind(r) == IF r \in HashReq THEN "hash" ELSE "sig"

\* TryReadHashFingerprint: size and time of the file as it is now, if they can
\* be read (the file may be locked or between two names).
ReadFingerprint == {version, Unread}

\* ServerHashMemCache::TryGet, BlockSigMemCache::TryGet.
Hits(r, fp) == fp # Unread /\ cache[Kind(r)] # NoEntry /\ cache[Kind(r)].fp = fp

\* A lookup with another fingerprint evicts the entry.
Evicts(r, fp) ==
    cache' = IF fp = Unread \/ cache[Kind(r)].fp = fp THEN cache
             ELSE [cache EXCEPT ![Kind(r)] = NoEntry]

\* HashRequest, BlockSigRequest: answered from the cache, or a job of the pool.
AnswerOrEnqueue(r) ==
    /\ Takes(r)
    /\ \E fp \in ReadFingerprint :
         /\ Evicts(r, fp)
         /\ IF Hits(r, fp)
            THEN EnqueueHigh(r) /\ UNCHANGED jobVars
            ELSE /\ job' = [job EXCEPT ![r] = "queued"] /\ pendingJobs' = pendingJobs + 1
                 /\ asked' = [asked EXCEPT ![r] = fp]
                 /\ UNCHANGED <<outHigh, producer, digest>>
    /\ UNCHANGED <<done, failed, shutdown, outManifest, mu, strmVars, version, chunksLeft,
                   sendVars>>

RecvHashRequest(r) == r \in HashReq /\ AnswerOrEnqueue(r)
RecvBlockSigRequest(r) == r \in SigReq /\ type = "Sync" /\ AnswerOrEnqueue(r)

\* A Check session ignores the frames of a transfer.
RecvIgnored(r) ==
    /\ r \in Req \ HashReq /\ type = "Check" /\ Takes(r)
    /\ UNCHANGED <<done, failed, shutdown, queueVars, strmVars, jobVars, fileVars, prodVars,
                   sendVars>>

\* A stream of n chunks with driver file h is handed to the send loop.
HandOver(r, n, h) ==
    /\ mu = Free /\ pendingNew' = pendingNew \cup {r}
    /\ left' = [left EXCEPT ![r] = n] /\ handle' = [handle EXCEPT ![r] = h]
    /\ NotifyOne /\ UNCHANGED outHigh

\* The request cannot be served: FileError, DeltaError or FileRangeError at once.
Refuse(r) == EnqueueHigh(r) /\ UNCHANGED <<pendingNew, left, handle>>

\* FileOpen: its size cannot be read or it cannot be opened; an empty file needs
\* no handle.
RecvFileOpen(r) ==
    /\ r \in FileReq /\ type = "Sync" /\ Takes(r)
    /\ Refuse(r) \/ HandOver(r, 0, "none") \/ HandOver(r, Length, "open")
    /\ UNCHANGED <<done, failed, shutdown, outManifest, mu, active, jobVars, fileVars,
                   chunksLeft, sendVars>>

\* FileBatchOpen: nothing is opened yet; every file of the batch that cannot be
\* opened is skipped, possibly all of them.
RecvFileBatchOpen(r) ==
    /\ r \in BatchReq /\ type = "Sync" /\ Takes(r)
    /\ \E n \in {0, Length} : HandOver(r, n, "none")
    /\ UNCHANGED <<done, failed, shutdown, outManifest, mu, active, jobVars, fileVars,
                   chunksLeft, sendVars>>

\* DeltaRangeOpen, FileRangeOpen: an empty or overflowing range, or a file that
\* cannot be opened, is refused.
RecvRangeOpen(r) ==
    /\ r \in RangeReq /\ type = "Sync" /\ Takes(r)
    /\ Refuse(r) \/ HandOver(r, Length, "open")
    /\ UNCHANGED <<done, failed, shutdown, outManifest, mu, active, jobVars, fileVars,
                   chunksLeft, sendVars>>

\* SyncDone: the client has all it wants.
RecvSyncDone ==
    /\ recvPc = "recv" /\ recvPc' = "leaving"
    /\ done' = TRUE /\ NotifyAll
    /\ UNCHANGED <<failed, received, shutdown, queueVars, strmVars, jobVars, fileVars,
                   chunksLeft, sendVars>>

\* recv throws: the peer is gone, the message is unknown, or the socket was shut
\* down.  For a Check session an orderly close is the normal end.
RecvThrows ==
    /\ recvPc = "recv"
    /\ \/ failed' = TRUE
       \/ type = "Check" /\ UNCHANGED failed
    /\ done' = TRUE /\ recvPc' = "exited" /\ NotifyAll
    /\ UNCHANGED <<received, shutdown, queueVars, strmVars, jobVars, fileVars, chunksLeft,
                   sendVars>>

\* while (!done): the receiver leaves its loop.
RecvExits ==
    /\ recvPc = "leaving"
    /\ recvPc' = "exited"
    /\ UNCHANGED <<done, failed, received, shutdown, queueVars, strmVars, jobVars, fileVars,
                   prodVars, sendVars>>

-----------------------------------------------------------------------------
(* Jobs on the hash pool, and the file they read.                          *)

\* Somebody will compare the file with what it was: a job, or a later lookup.
Watched ==
    \/ \E r \in Digest : job[r] \in {"queued", "digested"}
    \/ /\ \E k \in DOMAIN cache : cache[k] # NoEntry
       /\ Cardinality(received) + Started < MaxFrames

\* Somebody writes the file: other content, and another size or time.  A change
\* that nobody can notice is not a step.
FileChanges ==
    /\ version < MaxChanges /\ Watched
    /\ version' = version + 1
    /\ UNCHANGED <<done, failed, netVars, queueVars, strmVars, jobVars, cache, prodVars,
                   sendVars>>

\* The job's locals are not read again.
Forgets(r) ==
    asked' = [asked EXCEPT ![r] = Unread] /\ digest' = [digest EXCEPT ![r] = Unread]

\* A worker reads and digests the file, or fails; a BlockSigRequest of a session
\* that is over is dropped unread.  What is read across a write counts as read
\* before it.
JobDigests(r) ==
    /\ job[r] = "queued"
    /\ \/ /\ r \in SigReq /\ done /\ job' = [job EXCEPT ![r] = "answered"]
          /\ Forgets(r)
       \/ /\ r \in HashReq \/ ~done
          /\ job' = [job EXCEPT ![r] = "digested"]
          /\ \E got \in {version, Unread} : digest' = [digest EXCEPT ![r] = got]
          /\ UNCHANGED asked
    /\ UNCHANGED <<done, failed, netVars, queueVars, strmVars, pendingJobs, fileVars, prodVars,
                   sendVars>>

\* The entry a job stores: fingerprint, what was digested, and whether the two
\* differ because the request had no fingerprint to compare with.
Entry(r, fp) ==
    [fp |-> fp, of |-> digest[r], blind |-> asked[r] = Unread /\ digest[r] # fp]

\* Mutant: the fingerprint is not compared with the one of the request.
UpsertsUnchecked(r) ==
    \E fp \in ReadFingerprint :
       cache' = IF digest[r] # Unread /\ fp # Unread
                THEN [cache EXCEPT ![Kind(r)] = Entry(r, fp)] ELSE cache

\* Upsert: the digest is stored under the fingerprint the file has now, unless
\* that differs from the one read with the request.
Upserts(r) ==
    \E fp \in ReadFingerprint :
       cache' = IF digest[r] # Unread /\ fp # Unread /\ asked[r] \in {Unread, fp}
                THEN [cache EXCEPT ![Kind(r)] = Entry(r, fp)] ELSE cache

\* Mutant: a job whose read failed ends without its answer.
JobAnswersOrNot(r) ==
    /\ job[r] = "digested" /\ job' = [job EXCEPT ![r] = "answered"]
    /\ Upserts(r) /\ Forgets(r)
    /\ IF done \/ digest[r] = Unread THEN UNCHANGED <<outHigh, producer>> ELSE EnqueueHigh(r)
    /\ UNCHANGED <<done, failed, netVars, outManifest, mu, strmVars, pendingJobs, version,
                   chunksLeft, sendVars>>

\* The cache is written, and the job answers unless the session is over: the
\* digest, or 0xFF (HashResponse) or DeltaError when it has none.
JobAnswers(r) ==
    /\ job[r] = "digested" /\ job' = [job EXCEPT ![r] = "answered"]
    /\ Upserts(r) /\ Forgets(r)
    /\ IF done THEN UNCHANGED <<outHigh, producer>> ELSE EnqueueHigh(r)
    /\ UNCHANGED <<done, failed, netVars, outManifest, mu, strmVars, pendingJobs, version,
                   chunksLeft, sendVars>>

\* Its last access to the session: count itself out and notify (sessionHashMu).
JobFinishes(r) ==
    /\ job[r] = "answered"
    /\ job' = [job EXCEPT ![r] = "finished"]
    /\ pendingJobs' = IF pendingJobs > 0 THEN pendingJobs - 1 ELSE 0
    /\ UNCHANGED <<done, failed, netVars, queueVars, strmVars, asked, digest, fileVars,
                   prodVars, sendVars>>

-----------------------------------------------------------------------------
(* The send loop and the teardown (the connection thread).                 *)

\* Manifest frames a round takes: more when no reply waits (four times) and when
\* the queue is more than half full (twice).
ManifestBudget(high, n) ==
    Budget * (IF high = <<>> THEN 4 ELSE 1) * (IF n > MaxQueued \div 2 THEN 2 ELSE 1)

\* while (!done); under mu take replies and manifest frames, adopt new streams.
SenderDrain ==
    /\ pc = "top" /\ ~done /\ mu = Free
    /\ LET h == Least(HighBudget, Len(outHigh))
           n == Least(ManifestBudget(outHigh', Len(outManifest)), Len(outManifest))
           replies == {outHigh[i] : i \in 1 .. h}
       IN  /\ outHigh' = SubSeq(outHigh, h + 1, Len(outHigh))
           /\ outManifest' = SubSeq(outManifest, n + 1, Len(outManifest))
           /\ hand' = [c \in Channel |-> IF c = "manifest" THEN SubSeq(outManifest, 1, n)
                                         ELSE IF c \in replies THEN <<"reply">> ELSE <<>>]
           /\ \E ps \in SUBSET Asleep : Cardinality(ps) = Least(n, Cardinality(Asleep))
                                        /\ producer' = Woken(ps)
    /\ active' = active \cup pendingNew /\ pendingNew' = {}
    /\ pc' = "serve"
    /\ UNCHANGED <<done, failed, netVars, mu, left, handle, jobVars, fileVars, chunksLeft,
                   fileIds, released, wire>>

\* The round reads a chunk of stream r.
Reads(r) == left[r] > 0

\* Mutant: a read that returns nothing is taken for the end of the file.
BurstEndsShort(r, ok) ==
    (IF r \in BatchReq /\ wire[r] = <<>> THEN <<"header">> ELSE <<>>)
    \o (IF Reads(r) /\ ok THEN <<"data">> ELSE <<>>)
    \o (IF ~ok \/ left[r] = 0 \/ (r \notin FileReq /\ left[r] = 1) THEN <<"end">> ELSE <<>>)

\* What stream r sends in a round whose read, if any, is ok or not: FileChunk or
\* FileEnd; a batch its header first, and its FileBatchEnd with the last chunk,
\* like the *RangeEnd of a range; the *Error of its kind.
Burst(r, ok) ==
    (IF r \in BatchReq /\ wire[r] = <<>> THEN <<"header">> ELSE <<>>)
    \o (IF ~ok THEN <<"error">>
        ELSE (IF Reads(r) THEN <<"data">> ELSE <<>>)
             \o (IF left[r] = 0 \/ (r \notin FileReq /\ left[r] = 1) THEN <<"end">> ELSE <<>>))

\* The stream's driver file after a burst that is not its last: a batch opens the
\* next file for its first chunk (each file has two) and closes it with its last.
HandleAfter(r) ==
    IF r \in BatchReq THEN (IF (left[r] - 1) % 2 = 1 THEN "open" ELSE "closed") ELSE handle[r]

\* sendFrames at the end of a round in which the reads of `broken` fail.
RoundFrames(broken) ==
    [c \in Channel |-> hand[c] \o (IF c \in active THEN Burst(c, c \notin broken) ELSE <<>>)]

\* One round over the active streams, outside mu: one that is through, or whose
\* open or read fails, is closed and forgotten.  Only the send loop sees this
\* before SendFrameBatch.
Serve(broken) ==
    LET Over(r) == {"end", "error"} \cap Range(Burst(r, r \notin broken)) # {}
    IN  /\ handle' = [r \in Stream |->
             IF r \notin active THEN handle[r]
             ELSE IF ~Over(r) THEN HandleAfter(r)
             ELSE IF handle[r] = "open" THEN "closed" ELSE handle[r]]
        /\ active' = {r \in active : ~Over(r)}
        /\ left' = [r \in Stream |-> IF r \notin active THEN left[r]
                                     ELSE IF Over(r) THEN 0 ELSE left[r] - 1]
        /\ hand' = NoFrames

\* The round is served and its frames are sent (SendFrameBatch, if there are any).
SenderSend ==
    /\ pc = "serve" /\ pc' = "top"
    /\ \E broken \in SUBSET {r \in active : Reads(r)} :
         /\ Serve(broken)
         /\ wire' = [c \in Channel |-> wire[c] \o RoundFrames(broken)[c]]
    /\ UNCHANGED <<done, failed, netVars, queueVars, pendingNew, jobVars, fileVars, prodVars,
                   fileIds, released>>

\* The round is served and SendFrameBatch throws.
SenderThrows ==
    /\ pc = "serve" /\ pc' = "sweep"
    /\ \E broken \in SUBSET {r \in active : Reads(r)} :
         Serve(broken) /\ RoundFrames(broken) # NoFrames
    /\ failed' = TRUE /\ done' = TRUE /\ NotifyAll
    /\ UNCHANGED <<netVars, queueVars, pendingNew, jobVars, fileVars, chunksLeft, fileIds,
                   released, wire>>

Open(S) == {r \in S : handle[r] = "open"}
CloseAll(S) == [r \in Stream |-> IF r \in Open(S) THEN "swept" ELSE handle[r]]

\* Mutant: the socket is not shut down before the receiver is joined.
SweepKeepsSocket ==
    /\ pc = "sweep" \/ (pc = "top" /\ done)
    /\ pc' = "join"
    /\ fileIds' = Open(active)
    /\ handle' = CloseAll(active)
    /\ UNCHANGED <<done, failed, netVars, queueVars, pendingNew, active, left, jobVars,
                   fileVars, prodVars, hand, released, wire>>

\* The send loop is over (it threw, or found done): close what the active
\* streams still hold; on failure unblock the receiver.
Sweep ==
    /\ pc = "sweep" \/ (pc = "top" /\ done)
    /\ pc' = "join"
    /\ fileIds' = Open(active)
    /\ handle' = CloseAll(active)
    /\ shutdown' = failed
    /\ UNCHANGED <<done, failed, received, recvPc, queueVars, pendingNew, active, left,
                   jobVars, fileVars, prodVars, hand, released, wire>>

\* The receiver is joined, then the manifest thread.
JoinThreads ==
    /\ pc = "join" /\ recvPc = "exited" /\ producer["tail"] \in {"off", "finished"}
    /\ pc' = "drainJobs"
    /\ UNCHANGED <<done, failed, netVars, queueVars, strmVars, jobVars, fileVars, prodVars, hand,
                   fileIds, released, wire>>

\* The drain wait: all jobs counted out, or ten minutes have passed.
DrainJobs ==
    /\ pc = "drainJobs" /\ pc' = "release"
    /\ \/ pendingJobs = 0 /\ UNCHANGED failed
       \/ (\E r \in Sticky : job[r] \in {"queued", "digested", "answered"}) /\ failed' = TRUE
    /\ UNCHANGED <<done, netVars, queueVars, strmVars, jobVars, fileVars, prodVars, hand, fileIds,
                   released, wire>>

\* Mutant: only the adopted streams are released (before B-01).
ReleaseAdoptedOnly ==
    /\ pc = "release" /\ pc' = "returned"
    /\ released' = fileIds
    /\ UNCHANGED <<done, failed, netVars, queueVars, strmVars, jobVars, fileVars, prodVars, hand,
                   fileIds, wire>>

\* releaseDriverFiles, the scope guard: streams that were never adopted are
\* closed, then the driver forgets the files of this session.
Release ==
    /\ pc = "release" /\ pc' = "returned"
    /\ handle' = CloseAll(pendingNew)
    /\ released' = fileIds \cup Open(pendingNew)
    /\ UNCHANGED <<done, failed, netVars, queueVars, pendingNew, active, left, jobVars,
                   fileVars, prodVars, hand, fileIds, wire>>

-----------------------------------------------------------------------------
Receiver ==
    \/ RecvManifestRequest
    \/ \E r \in Req :
         \/ RecvHashRequest(r) \/ RecvBlockSigRequest(r) \/ RecvIgnored(r)
         \/ RecvFileOpen(r) \/ RecvFileBatchOpen(r) \/ RecvRangeOpen(r)
    \/ RecvSyncDone \/ RecvThrows \/ RecvExits

Sender ==
    \/ SenderDrain \/ SenderSend \/ SenderThrows
    \/ Sweep \/ JoinThreads \/ DrainJobs \/ Release

ManifestStep == WalkJoined \/ ManifestFails \/ \E p \in Producer : Flush(p) \/ Sleep(p)

Next ==
    /\ \/ Receiver \/ Sender \/ ManifestStep \/ FileChanges
       \/ \E r \in Digest : JobDigests(r) \/ JobAnswers(r) \/ JobFinishes(r)
    /\ UNCHANGED type

Spec == Init /\ [][Next]_vars

\* Threads run (a job of the pool unless it may be stuck); the client need not
\* send anything, but a receiver whose session is over, or whose socket is shut
\* down, leaves.
FairSpec ==
    /\ Spec
    /\ WF_progress(Sender) /\ WF_progress(WalkJoined \/ ManifestFails)
    /\ WF_progress(RecvExits) /\ WF_progress(shutdown /\ RecvThrows)
    /\ \A p \in Producer : SF_progress(Flush(p)) /\ WF_progress(Sleep(p))
    /\ \A r \in Digest \ Sticky :
         SF_progress(JobAnswers(r)) /\ WF_progress(JobDigests(r) \/ JobFinishes(r))

-----------------------------------------------------------------------------
(* Properties.                                                             *)

Returned == pc = "returned"

\* server-memory-retention: whatever moment the session dies at, each driver
\* file it opened is closed when RunSessionServer returns, an open file always
\* belongs to a stream that a later step will close, and the driver forgets each
\* file that was closed with reads possibly unclaimed.
NoHandleLeak ==
    /\ Open(Stream) \subseteq pendingNew \cup active
    /\ Returned => Open(Stream) = {}
    /\ Returned => {r \in Stream : handle[r] = "swept"} \subseteq released

Terminal == {"reply", "end", "error"}
Times(x, s) == Cardinality({i \in DOMAIN s : s[i] = x})

\* A request gets at most one terminal frame and nothing after it.
AnsweredOnce(r) ==
    LET s == wire[r] \o hand[r]
    IN  IF s = <<>> THEN Times(r, outHigh) <= 1
        ELSE Times(r, outHigh) = 0 /\ \A i \in DOMAIN s : s[i] \in Terminal => i = Len(s)

\* FileEnd, FileBatchEnd and *RangeEnd follow every chunk of what was asked for.
EndFollowsChunks(r) ==
    Times("end", wire[r]) > 0 =>
    Times("data", wire[r]) \in (IF r \in RangeReq THEN {Length} ELSE {0, Length})

\* ManifestEnd follows every entry of every walker.
EndFollowsEntries ==
    \A i \in DOMAIN wire["manifest"] :
        wire["manifest"][i] = "ManifestEnd" =>
        \A w \in Walker : Times(w, SubSeq(wire["manifest"], 1, i)) = Chunk * Chunks

\* The client takes an end marker for "this is all" and anything after a terminal
\* frame for a protocol error: however opens, short reads, walkers and the
\* teardown interleave, each request is answered once and an end marker is
\* behind everything it ends.
RepliesWellFormed ==
    /\ \A r \in Req : AnsweredOnce(r)
    /\ \A r \in Stream : EndFollowsChunks(r)
    /\ EndFollowsEntries

\* A digest that the caches hold under a fingerprint is the digest of the file
\* that had it, although the file is written while it is read (except when the
\* fingerprint could not be read with the request, where the code stores blindly).
CachedDigestFresh ==
    \A k \in {"hash", "sig"} : cache[k].blind \/ cache[k].of = cache[k].fp

Answered(r) == \E x \in Terminal : Times(x, wire[r]) > 0

\* Every request whose job is not stuck is answered on the wire, unless the
\* session ends first or is a Check session that ignores it: again and again
\* none of the requests received is left waiting.
EveryRequestAnswered ==
    []<>(\/ done
         \/ \A r \in received \ Sticky : Answered(r) \/ (type = "Check" /\ r \notin HashReq))

\* AC-B2, bounded convergence: a session that is over returns, unless a walker
\* sleeps for ever on a full manifest queue (the wakeup is not sent under mu).
SessionReturns == []<>(Asleep = {}) => (done ~> Returned)
=============================================================================
