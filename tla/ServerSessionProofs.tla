------------------------- MODULE ServerSessionProofs -------------------------
(***************************************************************************)
(* Proofs about ServerSession, for any requests, walkers, queue limits,    *)
(* budgets and lengths.                                                    *)
(***************************************************************************)
EXTENDS ServerSession, SequenceTheorems, FunctionTheorems, FiniteSetTheorems, TLAPS

-----------------------------------------------------------------------------
(* The digest caches.                                                      *)

Cached == [fp : Int, of : Int, blind : BOOLEAN]

\* The version of the file only grows: what a job digested lies between the version its
\* request saw and the present one.
FreshInv ==
    /\ version \in Nat /\ asked \in [Digest -> Int] /\ digest \in [Digest -> Int]
    /\ cache \in [{"hash", "sig"} -> Cached]
    /\ \A r \in Digest : /\ asked[r] <= version /\ digest[r] <= version
                         /\ digest[r] # Unread => asked[r] <= digest[r]
    /\ \A r \in Digest \ received : digest[r] = Unread
    /\ CachedDigestFresh

digestVars == <<version, asked, digest, cache>>

LEMMA NoEntryFresh == NoEntry \in Cached /\ NoEntry.of = NoEntry.fp
  BY DEF NoEntry, Cached, Unread

LEMMA KindType == \A r \in Digest : Kind(r) \in {"hash", "sig"}
  BY DEF Kind

LEMMA AnswerOrEnqueueFresh ==
    ASSUME FreshInv, NEW r \in Digest, AnswerOrEnqueue(r)
    PROVE  FreshInv'
  <1>1. /\ version' = version /\ digest' = digest /\ received' = received \cup {r}
        /\ r \notin received
        /\ cache' = cache \/ cache' = [cache EXCEPT ![Kind(r)] = NoEntry]
        /\ asked' = asked \/ \E fp \in {version, Unread} : asked' = [asked EXCEPT ![r] = fp]
    BY DEF AnswerOrEnqueue, Takes, Evicts, jobVars, ReadFingerprint
  <1>2. /\ cache' \in [{"hash", "sig"} -> Cached] /\ CachedDigestFresh'
    <2>1. CASE cache' = cache
      BY <2>1 DEF FreshInv, CachedDigestFresh
    <2>2. CASE cache' = [cache EXCEPT ![Kind(r)] = NoEntry]
      <3>1. cache' \in [{"hash", "sig"} -> Cached]
        BY <2>2, KindType, NoEntryFresh DEF FreshInv
      <3>2. \A k \in {"hash", "sig"} : cache'[k] = cache[k] \/ cache'[k] = NoEntry
        BY <2>2 DEF FreshInv
      <3> QED
        BY <3>1, <3>2, NoEntryFresh DEF FreshInv, CachedDigestFresh
    <2> QED
      BY <1>1, <2>1, <2>2
  <1>3. digest[r] = Unread /\ Unread \in Int /\ Unread <= version
    BY <1>1 DEF FreshInv, Unread
  <1>4. /\ asked' \in [Digest -> Int]
        /\ \A x \in Digest \ {r} : asked'[x] = asked[x]
        /\ asked'[r] = asked[r] \/ asked'[r] \in {version, Unread}
    BY <1>1, <1>3 DEF FreshInv
  <1> QED
    BY <1>1, <1>2, <1>3, <1>4 DEF FreshInv

LEMMA JobDigestsFresh ==
    ASSUME FreshInv, NEW r \in Digest, JobDigests(r), r \in received
    PROVE  FreshInv'
  <1>1. /\ version' = version /\ cache' = cache /\ received' = received
        /\ \/ /\ asked' = [asked EXCEPT ![r] = Unread] /\ digest' = [digest EXCEPT ![r] = Unread]
           \/ /\ asked' = asked
              /\ \E got \in {version, Unread} : digest' = [digest EXCEPT ![r] = got]
    BY DEF JobDigests, Forgets, fileVars, netVars
  <1>2. Unread \in Int /\ Unread <= version
    BY DEF FreshInv, Unread
  <1>3. /\ asked' \in [Digest -> Int] /\ digest' \in [Digest -> Int]
        /\ \A x \in Digest \ {r} : asked'[x] = asked[x] /\ digest'[x] = digest[x]
        /\ \/ digest'[r] = Unread /\ asked'[r] = Unread
           \/ asked'[r] = asked[r] /\ digest'[r] \in {version, Unread}
    <2>0. version \in Int /\ asked \in [Digest -> Int] /\ digest \in [Digest -> Int]
      BY DEF FreshInv
    <2>1. CASE /\ asked' = [asked EXCEPT ![r] = Unread]
               /\ digest' = [digest EXCEPT ![r] = Unread]
      BY <1>2, <2>0, <2>1
    <2>2. CASE asked' = asked /\ \E got \in {version, Unread} : digest' = [digest EXCEPT ![r] = got]
      <3>1. PICK got \in {version, Unread} : digest' = [digest EXCEPT ![r] = got]
        BY <2>2
      <3> QED
        BY <1>2, <2>0, <2>2, <3>1
    <2> QED
      BY <1>1, <2>1, <2>2
  <1> QED
    BY <1>1, <1>2, <1>3 DEF FreshInv, CachedDigestFresh

\* Upsert stores a digest only under the fingerprint the request saw (or blindly, and then
\* the entry says so): no write can have come between the request and the digest.
LEMMA JobAnswersFresh ==
    ASSUME FreshInv, NEW r \in Digest, JobAnswers(r)
    PROVE  FreshInv'
  <1>1. /\ version' = version /\ received' = received /\ Upserts(r)
        /\ asked' = [asked EXCEPT ![r] = Unread] /\ digest' = [digest EXCEPT ![r] = Unread]
    BY DEF JobAnswers, Forgets, netVars
  <1>2. Unread \in Int /\ Unread <= version
    BY DEF FreshInv, Unread
  <1>3. /\ asked' \in [Digest -> Int] /\ digest' \in [Digest -> Int]
        /\ \A x \in Digest \ {r} : asked'[x] = asked[x] /\ digest'[x] = digest[x]
        /\ digest'[r] = Unread /\ asked'[r] = Unread
    BY <1>1, <1>2 DEF FreshInv
  <1>4. CASE cache' = cache
    BY <1>1, <1>2, <1>3, <1>4 DEF FreshInv, CachedDigestFresh
  <1>5. CASE cache' # cache
    <2>1. PICK fp \in {version, Unread} :
            /\ digest[r] # Unread /\ fp # Unread /\ asked[r] \in {Unread, fp}
            /\ cache' = [cache EXCEPT ![Kind(r)] = Entry(r, fp)]
      BY <1>1, <1>5 DEF Upserts, ReadFingerprint
    <2>2. /\ fp = version /\ version \in Int /\ digest[r] \in Int /\ asked[r] \in Int
          /\ asked[r] <= digest[r] /\ digest[r] <= version
      <3>1. fp = version
        BY <2>1
      <3>2. /\ version \in Int /\ digest[r] \in Int /\ asked[r] \in Int
            /\ digest[r] <= version /\ (digest[r] # Unread => asked[r] <= digest[r])
        BY DEF FreshInv
      <3> QED
        BY <2>1, <3>1, <3>2
    <2> DEFINE e == Entry(r, fp)
    <2>3. e \in Cached /\ (e.blind \/ e.of = e.fp)
      <3> DEFINE blind == asked[r] = Unread /\ digest[r] # fp
      <3>1. e = [fp |-> fp, of |-> digest[r], blind |-> blind] /\ blind \in BOOLEAN
        BY DEF Entry
      <3>2. blind \/ digest[r] = fp
        BY <2>1, <2>2
      <3> HIDE DEF e, blind
      <3> QED
        BY <2>2, <3>1, <3>2 DEF Cached
    <2> HIDE DEF e
    <2>4. /\ cache' \in [{"hash", "sig"} -> Cached]
          /\ \A k \in {"hash", "sig"} : cache'[k] = cache[k] \/ cache'[k] = e
      BY <2>1, <2>3, KindType DEF FreshInv, e
    <2>5. CachedDigestFresh'
      BY <2>3, <2>4 DEF FreshInv, CachedDigestFresh
    <2> QED
      BY <1>1, <1>2, <1>3, <2>4, <2>5 DEF FreshInv
  <1> QED
    BY <1>4, <1>5

\* Only requests that came have jobs.
JobsKnown ==
    /\ job \in [Digest -> {"none", "queued", "digested", "answered", "finished"}]
    /\ \A r \in Digest : job[r] # "none" => r \in received

\* Any other step leaves the digests alone; requests are never forgotten.
LEMMA DigestFrame ==
    ASSUME [Next]_vars
    PROVE  \/ \E r \in Digest : AnswerOrEnqueue(r) \/ JobDigests(r) \/ JobAnswers(r) \/ JobFinishes(r)
           \/ FileChanges
           \/ UNCHANGED digestVars /\ job' = job /\ received \subseteq received'
  <1> USE DEF digestVars, fileVars, jobVars
  <1>1. CASE Receiver
    <2>1. ASSUME NEW r \in Req, RecvHashRequest(r) \/ RecvBlockSigRequest(r)
          PROVE  r \in Digest /\ AnswerOrEnqueue(r)
      BY <2>1 DEF RecvHashRequest, RecvBlockSigRequest, Digest
    <2>2. ASSUME NEW r \in Req, RecvIgnored(r) \/ RecvFileOpen(r) \/ RecvFileBatchOpen(r)
                                \/ RecvRangeOpen(r)
          PROVE  UNCHANGED digestVars /\ job' = job /\ received \subseteq received'
      BY <2>2 DEF RecvIgnored, RecvFileOpen, RecvFileBatchOpen, RecvRangeOpen, Takes
    <2>3. ASSUME RecvManifestRequest \/ RecvSyncDone \/ RecvThrows \/ RecvExits
          PROVE  UNCHANGED digestVars /\ job' = job /\ received \subseteq received'
      BY <2>3 DEF RecvManifestRequest, RecvSyncDone, RecvThrows, RecvExits
    <2> QED
      BY <1>1, <2>1, <2>2, <2>3 DEF Receiver
  <1>2. CASE Sender
    BY <1>2 DEF Sender, SenderDrain, SenderSend, SenderThrows, Sweep, JoinThreads, DrainJobs,
                Release, netVars
  <1>3. CASE ManifestStep
    BY <1>3 DEF ManifestStep, WalkJoined, ManifestFails, Flush, Sleep, netVars
  <1>4. CASE UNCHANGED vars
    BY <1>4 DEF vars, progress, netVars
  <1> QED
    BY <1>1, <1>2, <1>3, <1>4 DEF Next

LEMMA NextFresh == FreshInv /\ JobsKnown /\ [Next]_vars => FreshInv' /\ JobsKnown'
  <1> SUFFICES ASSUME FreshInv, JobsKnown, [Next]_vars PROVE FreshInv' /\ JobsKnown'
    OBVIOUS
  <1>1. ASSUME NEW r \in Digest, AnswerOrEnqueue(r) PROVE FreshInv' /\ JobsKnown'
    <2>1. /\ job' = job \/ job' = [job EXCEPT ![r] = "queued"]
          /\ received' = received \cup {r}
      BY <1>1 DEF AnswerOrEnqueue, Takes, jobVars
    <2>2. JobsKnown'
      BY <2>1 DEF JobsKnown
    <2> QED
      BY <1>1, <2>2, AnswerOrEnqueueFresh
  <1>2. ASSUME NEW r \in Digest, JobDigests(r) \/ JobAnswers(r) \/ JobFinishes(r)
        PROVE  JobsKnown' /\ r \in received
    <2>1. /\ job[r] # "none" /\ received' = received
          /\ \E x \in {"digested", "answered", "finished"} : job' = [job EXCEPT ![r] = x]
      BY <1>2 DEF JobDigests, JobAnswers, JobFinishes, netVars
    <2> QED
      BY <2>1 DEF JobsKnown
  <1>3. ASSUME NEW r \in Digest, JobFinishes(r) PROVE FreshInv'
    BY <1>3 DEF JobFinishes, FreshInv, CachedDigestFresh, fileVars, netVars
  <1>4. CASE FileChanges
    <2>1. version' = version + 1 /\ UNCHANGED <<asked, digest, cache, job, received>>
      BY <1>4 DEF FileChanges, jobVars, netVars
    <2>2. FreshInv'
      <3>1. version' \in Nat /\ \A x \in Int : x <= version => x <= version'
        BY <2>1 DEF FreshInv
      <3> QED
        BY <2>1, <3>1 DEF FreshInv, CachedDigestFresh
    <2> QED
      BY <2>1, <2>2 DEF JobsKnown
  <1>5. CASE UNCHANGED digestVars /\ job' = job /\ received \subseteq received'
    BY <1>5 DEF FreshInv, JobsKnown, CachedDigestFresh, digestVars
  <1> QED
    BY <1>1, <1>2, <1>3, <1>4, <1>5, DigestFrame, JobDigestsFresh, JobAnswersFresh

\* hash_memcache.cpp: however often the file is written while requests wait, are digested
\* and stored, a digest the caches hold is that of the file that had its fingerprint, unless
\* it was stored blindly.
THEOREM CacheHolds == Spec => []CachedDigestFresh
  <1>1. Init => FreshInv /\ JobsKnown
    <2> SUFFICES ASSUME Init PROVE FreshInv /\ JobsKnown
      OBVIOUS
    <2>1. asked \in [Digest -> Int] /\ digest \in [Digest -> Int] /\ version \in Nat
      BY DEF Init, Unread
    <2>2. cache \in [{"hash", "sig"} -> Cached] /\ CachedDigestFresh
      BY NoEntryFresh DEF Init, CachedDigestFresh
    <2>3. \A r \in Digest : asked[r] = -1 /\ digest[r] = -1
      BY DEF Init, Unread
    <2>4. FreshInv
      BY <2>1, <2>2, <2>3 DEF FreshInv, Init, Unread
    <2> QED
      BY <2>4 DEF Init, JobsKnown
  <1>2. FreshInv /\ JobsKnown /\ [Next]_vars => (FreshInv /\ JobsKnown)'
    BY NextFresh
  <1>3. FreshInv => CachedDigestFresh
    BY DEF FreshInv
  <1> QED
    BY <1>1, <1>2, <1>3, PTL DEF Spec

-----------------------------------------------------------------------------
(* Driver files.                                                           *)

Swept == {r \in Stream : handle[r] = "swept"}

\* An open file belongs to a stream; after the sweep only to one that was never adopted, and
\* once the threads are joined no new one comes.  A file closed by the teardown is on the
\* list of those the driver is told to forget.
StreamInv ==
    /\ pendingNew \subseteq Stream /\ active \subseteq Stream
    /\ handle \in [Stream -> {"none", "open", "closed", "swept"}]
    /\ pc \in {"top", "serve", "sweep", "join", "drainJobs", "release", "returned"}
    /\ Open(Stream) \subseteq pendingNew \cup active
    /\ pc \in {"join", "drainJobs", "release"} => Open(Stream) \subseteq pendingNew
    /\ pc \in {"drainJobs", "release", "returned"} => recvPc = "exited"
    /\ pc = "returned" => Open(Stream) = {}
    /\ Swept \subseteq (IF pc \in {"top", "serve", "sweep"} THEN {}
                        ELSE IF pc = "returned" THEN released ELSE fileIds)

fileStepVars == <<pendingNew, active, handle, pc, fileIds, released>>

\* A stream of request r is handed over.
NewStream(r) ==
    /\ recvPc = "recv" /\ pendingNew' = pendingNew \cup {r}
    /\ \E h \in {"none", "open"} : handle' = [handle EXCEPT ![r] = h]
    /\ UNCHANGED <<active, pc, fileIds, released>>

LEMMA StreamFrame ==
    ASSUME [Next]_vars
    PROVE  \/ \E r \in Stream : NewStream(r)
           \/ SenderDrain \/ SenderSend \/ SenderThrows
           \/ Sweep \/ JoinThreads \/ DrainJobs \/ Release
           \/ UNCHANGED fileStepVars /\ (recvPc = "exited" => recvPc' = "exited")
  <1> USE DEF fileStepVars, strmVars, sendVars
  <1>1. CASE Receiver
    <2>1. ASSUME NEW r \in Req, RecvFileOpen(r) \/ RecvFileBatchOpen(r) \/ RecvRangeOpen(r)
          PROVE  \/ r \in Stream /\ NewStream(r)
                 \/ UNCHANGED fileStepVars /\ (recvPc = "exited" => recvPc' = "exited")
      BY <2>1 DEF RecvFileOpen, RecvFileBatchOpen, RecvRangeOpen, Stream, NewStream, HandOver,
                  Refuse, Takes, Receiving
    <2>2. ASSUME NEW r \in Req, RecvHashRequest(r) \/ RecvBlockSigRequest(r) \/ RecvIgnored(r)
          PROVE  UNCHANGED fileStepVars /\ (recvPc = "exited" => recvPc' = "exited")
      BY <2>2 DEF RecvHashRequest, RecvBlockSigRequest, RecvIgnored, AnswerOrEnqueue, Takes,
                  Receiving
    <2>3. ASSUME RecvManifestRequest \/ RecvSyncDone \/ RecvThrows \/ RecvExits
          PROVE  UNCHANGED fileStepVars /\ (recvPc = "exited" => recvPc' = "exited")
      BY <2>3 DEF RecvManifestRequest, RecvSyncDone, RecvThrows, RecvExits, Receiving
    <2> QED
      BY <1>1, <2>1, <2>2, <2>3 DEF Receiver
  <1>2. CASE Sender
    BY <1>2 DEF Sender
  <1>3. CASE ManifestStep \/ FileChanges
    BY <1>3 DEF ManifestStep, WalkJoined, ManifestFails, Flush, Sleep, FileChanges, netVars
  <1>4. ASSUME NEW r \in Digest, JobDigests(r) \/ JobAnswers(r) \/ JobFinishes(r)
        PROVE  UNCHANGED fileStepVars /\ recvPc' = recvPc
    BY <1>4 DEF JobDigests, JobAnswers, JobFinishes, netVars
  <1>5. CASE UNCHANGED vars
    BY <1>5 DEF vars, progress, netVars
  <1> QED
    BY <1>1, <1>2, <1>3, <1>4, <1>5 DEF Next

\* A round of the send loop: a stream that is not over stays active, one that is over holds
\* no open file.
LEMMA ServeStreams ==
    ASSUME StreamInv, pc = "serve", NEW broken, Serve(broken)
    PROVE  /\ active' \subseteq active /\ handle' \in [Stream -> {"none", "open", "closed", "swept"}]
           /\ \A r \in Stream : handle'[r] = "open" => r \in active' \/ (r \notin active /\ handle[r] = "open")
           /\ \A r \in Stream : handle'[r] # "swept"
  <1> DEFINE Over(r) == {"end", "error"} \cap Range(Burst(r, r \notin broken)) # {}
  <1>1. /\ handle' = [r \in Stream |->
             IF r \notin active THEN handle[r]
             ELSE IF ~Over(r) THEN HandleAfter(r)
             ELSE IF handle[r] = "open" THEN "closed" ELSE handle[r]]
        /\ active' = {r \in active : ~Over(r)}
    BY DEF Serve
  <1> HIDE DEF Over
  <1>2. \A r \in Stream : handle[r] \in {"none", "open", "closed"}
    BY DEF StreamInv, Swept
  <1>3. \A r \in Stream : HandleAfter(r) \in {"none", "open", "closed"}
    BY <1>2 DEF HandleAfter
  <1>4. ASSUME NEW r \in Stream
        PROVE  /\ handle'[r] \in {"none", "open", "closed"}
               /\ handle'[r] = "open" => r \in active' \/ (r \notin active /\ handle[r] = "open")
    BY <1>1, <1>2, <1>3
  <1> QED
    BY <1>1, <1>4

LEMMA NextStreamInv == StreamInv /\ [Next]_vars => StreamInv'
  <1> SUFFICES ASSUME StreamInv, [Next]_vars PROVE StreamInv'
    OBVIOUS
  <1>1. ASSUME NEW r \in Stream, NewStream(r) PROVE StreamInv'
    <2>1. PICK h \in {"none", "open"} : handle' = [handle EXCEPT ![r] = h]
      BY <1>1 DEF NewStream
    <2>2. /\ handle' \in [Stream -> {"none", "open", "closed", "swept"}] /\ handle'[r] = h
          /\ \A x \in Stream \ {r} : handle'[x] = handle[x]
      BY <2>1 DEF StreamInv
    <2>3. Open(Stream)' \subseteq Open(Stream) \cup {r} /\ Swept' \subseteq Swept
      BY <2>2 DEF Open, Swept
    <2>4. pc \notin {"drainJobs", "release", "returned"}
      BY <1>1 DEF StreamInv, NewStream
    <2> QED
      BY <1>1, <2>2, <2>3, <2>4 DEF StreamInv, NewStream
  <1>2. CASE SenderDrain
    <2>1. /\ pc = "top" /\ pc' = "serve" /\ active' = active \cup pendingNew /\ pendingNew' = {}
          /\ UNCHANGED <<handle, recvPc>>
      BY <1>2 DEF SenderDrain, netVars
    <2> QED
      BY <2>1 DEF StreamInv, Open, Swept
  <1>3. CASE SenderSend \/ SenderThrows
    <2>1. /\ pc = "serve" /\ pc' \in {"top", "sweep"} /\ pendingNew' = pendingNew
          /\ \E broken \in SUBSET {r \in active : Reads(r)} : Serve(broken)
      BY <1>3 DEF SenderSend, SenderThrows
    <2>2. PICK broken \in SUBSET {r \in active : Reads(r)} : Serve(broken)
      BY <2>1
    <2>3. /\ active' \subseteq active /\ handle' \in [Stream -> {"none", "open", "closed", "swept"}]
          /\ \A r \in Stream : handle'[r] = "open" => r \in active' \/ (r \notin active /\ handle[r] = "open")
          /\ \A r \in Stream : handle'[r] # "swept"
      BY <2>1, <2>2, ServeStreams
    <2>4. Open(Stream)' \subseteq pendingNew' \cup active'
      BY <2>1, <2>3 DEF StreamInv, Open
    <2>5. Swept' = {}
      BY <2>3 DEF Swept
    <2> QED
      BY <2>1, <2>3, <2>4, <2>5 DEF StreamInv
  <1>4. CASE Sweep
    <2>1. /\ pc \in {"top", "sweep"} /\ pc' = "join" /\ fileIds' = Open(active)
          /\ handle' = CloseAll(active) /\ UNCHANGED <<pendingNew, active>>
      BY <1>4 DEF Sweep
    <2>2. /\ handle' \in [Stream -> {"none", "open", "closed", "swept"}]
          /\ \A r \in Stream : handle'[r] = "open" => handle[r] = "open" /\ r \notin active
          /\ \A r \in Stream : handle'[r] = "swept" => r \in Open(active) \/ handle[r] = "swept"
      BY <2>1 DEF CloseAll, Open, StreamInv
    <2>3. Open(Stream)' \subseteq pendingNew /\ Swept' \subseteq Open(active)
      BY <2>1, <2>2 DEF StreamInv, Open, Swept
    <2> QED
      BY <2>1, <2>2, <2>3 DEF StreamInv
  <1>5. CASE JoinThreads \/ DrainJobs
    <2>1. /\ pc \in {"join", "drainJobs"} /\ pc' \in {"drainJobs", "release"} /\ recvPc' = recvPc
          /\ pc = "join" => recvPc = "exited"
          /\ UNCHANGED <<pendingNew, active, handle, fileIds>>
      BY <1>5 DEF JoinThreads, DrainJobs, netVars, strmVars
    <2>2. Open(Stream)' = Open(Stream) /\ Swept' = Swept
      BY <2>1 DEF Open, Swept
    <2> QED
      BY <2>1, <2>2 DEF StreamInv
  <1>6. CASE Release
    <2>1. /\ pc = "release" /\ pc' = "returned" /\ released' = fileIds \cup Open(pendingNew)
          /\ handle' = CloseAll(pendingNew) /\ UNCHANGED <<pendingNew, active, recvPc>>
      BY <1>6 DEF Release, netVars
    <2>2. /\ handle' \in [Stream -> {"none", "open", "closed", "swept"}]
          /\ \A r \in Stream : handle'[r] = "open" => handle[r] = "open" /\ r \notin pendingNew
          /\ \A r \in Stream : handle'[r] = "swept" => r \in Open(pendingNew) \/ handle[r] = "swept"
      BY <2>1 DEF CloseAll, Open, StreamInv
    <2>3. Open(Stream)' = {} /\ Swept' \subseteq fileIds \cup Open(pendingNew)
      BY <2>1, <2>2 DEF StreamInv, Open, Swept
    <2> QED
      BY <2>1, <2>2, <2>3 DEF StreamInv
  <1>7. CASE UNCHANGED fileStepVars /\ (recvPc = "exited" => recvPc' = "exited")
    <2>1. Open(Stream)' = Open(Stream) /\ Swept' = Swept
      BY <1>7 DEF Open, Swept, fileStepVars
    <2> QED
      BY <1>7, <2>1 DEF StreamInv, fileStepVars
  <1> QED
    BY <1>1, <1>2, <1>3, <1>4, <1>5, <1>6, <1>7, StreamFrame

\* server-memory-retention: at whatever moment a session dies and whatever the receiver has
\* handed over by then, each driver file is closed when RunSessionServer returns, and the
\* driver is told to forget each one the teardown closed.
THEOREM HandlesHold == Spec => []NoHandleLeak
  <1>1. Init => StreamInv
    BY DEF Init, StreamInv, Open, Swept
  <1>2. StreamInv => NoHandleLeak
    BY DEF StreamInv, NoHandleLeak, Returned, Swept
  <1> QED
    BY <1>1, <1>2, NextStreamInv, PTL DEF Spec

-----------------------------------------------------------------------------
(* What is sent.                                                           *)

LEMMA TimesType ==
    ASSUME NEW S, NEW s \in Seq(S), NEW x
    PROVE  Times(x, s) \in Nat /\ IsFiniteSet({i \in DOMAIN s : s[i] = x})
  <1>1. DOMAIN s = 1 .. Len(s) /\ Len(s) \in Nat
    OBVIOUS
  <1>2. IsFiniteSet(1 .. Len(s))
    BY <1>1, FS_Interval
  <1>3. IsFiniteSet({i \in DOMAIN s : s[i] = x})
    BY <1>1, <1>2, FS_Subset
  <1> QED
    BY <1>3, FS_CardinalityType DEF Times

LEMMA TimesAbsent ==
    ASSUME NEW s, NEW x, \A i \in DOMAIN s : s[i] # x
    PROVE  Times(x, s) = 0
  <1>1. {i \in DOMAIN s : s[i] = x} = {}
    OBVIOUS
  <1> QED
    BY <1>1, FS_EmptySet DEF Times

LEMMA TimesUnit == ASSUME NEW x, NEW y PROVE Times(x, <<y>>) = IF x = y THEN 1 ELSE 0
  <1>1. CASE x = y
    <2>1. {i \in DOMAIN <<y>> : <<y>>[i] = x} = {1}
      BY <1>1
    <2> QED
      BY <1>1, <2>1, FS_Singleton DEF Times
  <1>2. CASE x # y
    BY <1>2, TimesAbsent
  <1> QED
    BY <1>1, <1>2

LEMMA TimesConcat ==
    ASSUME NEW S, NEW s \in Seq(S), NEW t \in Seq(S), NEW x
    PROVE  Times(x, s \o t) = Times(x, s) + Times(x, t)
  <1> DEFINE A == {i \in DOMAIN s : s[i] = x}
             B == {i \in DOMAIN t : t[i] = x}
             C == {i \in 1 .. Len(s) + Len(t) : i > Len(s) /\ t[i - Len(s)] = x}
             U == {i \in DOMAIN (s \o t) : (s \o t)[i] = x}
             f == [i \in B |-> i + Len(s)]
  <1>1. /\ Len(s) \in Nat /\ Len(t) \in Nat /\ DOMAIN s = 1 .. Len(s) /\ DOMAIN t = 1 .. Len(t)
        /\ DOMAIN (s \o t) = 1 .. Len(s) + Len(t)
        /\ \A i \in 1 .. Len(s) + Len(t) : (s \o t)[i] = IF i <= Len(s) THEN s[i] ELSE t[i - Len(s)]
    BY ConcatProperties, LenProperties
  <1>2. U = A \cup C /\ A \cap C = {}
    BY <1>1
  <1>3. IsFiniteSet(A) /\ IsFiniteSet(B)
    BY TimesType
  <1>4. f \in Bijection(B, C)
    <2>1. f \in [B -> C]
      BY <1>1
    <2>2. \A a, b \in B : f[a] = f[b] => a = b
      BY <1>1
    <2>3. \A c \in C : \E b \in B : f[b] = c
      <3> SUFFICES ASSUME NEW c \in C PROVE \E b \in B : f[b] = c
        OBVIOUS
      <3>1. c - Len(s) \in B /\ (c - Len(s)) + Len(s) = c
        BY <1>1
      <3> QED
        BY <3>1
    <2> HIDE DEF f, B, C
    <2> QED
      BY <2>1, <2>2, <2>3, Fun_IsBij
  <1> HIDE DEF A, B, C, U, f
  <1>5. IsFiniteSet(C) /\ Cardinality(C) = Cardinality(B)
    BY <1>3, <1>4, FS_Bijection DEF ExistsBijection
  <1>6. Cardinality(A \cup C) = Cardinality(A) + Cardinality(C)
    <2>1. Cardinality(A \cap C) = 0
      BY <1>2, FS_EmptySet
    <2>2. Cardinality(A) \in Nat /\ Cardinality(C) \in Nat
      BY <1>3, <1>5, FS_CardinalityType
    <2>3. Cardinality(A \cup C) = Cardinality(A) + Cardinality(C) - Cardinality(A \cap C)
      BY <1>3, <1>5, FS_Union
    <2> QED
      BY <2>1, <2>2, <2>3
  <1> QED
    BY <1>2, <1>5, <1>6 DEF Times, A, B, U

LEMMA TimesFrames ==
    ASSUME NEW w, NEW n \in Nat, NEW x
    PROVE  Times(x, Frames(w, n)) = IF x = w THEN n ELSE 0
  <1>1. DOMAIN Frames(w, n) = 1 .. n /\ \A i \in 1 .. n : Frames(w, n)[i] = w
    BY DEF Frames
  <1>2. CASE x = w
    <2>1. {i \in DOMAIN Frames(w, n) : Frames(w, n)[i] = x} = 1 .. n
      BY <1>1, <1>2
    <2>2. Cardinality(1 .. n) = n
      BY FS_Interval
    <2> QED
      BY <1>2, <2>1, <2>2 DEF Times
  <1>3. CASE x # w
    BY <1>1, <1>3, TimesAbsent
  <1> QED
    BY <1>2, <1>3

Frame == Walker \cup {"ManifestEnd", "reply", "header", "data", "end", "error"}

\* Once the send loop is left nothing more is sent, and the session is over.
Sending == pc \in {"top", "serve"}

SendInv ==
    /\ pc \in {"top", "serve", "sweep", "join", "drainJobs", "release", "returned"}
    /\ done \in BOOLEAN /\ (~done => Sending)
    /\ wire \in [Channel -> Seq(Frame)] /\ hand \in [Channel -> Seq(Frame)]
    /\ outManifest \in Seq(Frame) /\ outHigh \in Seq(Req)
    /\ pc # "serve" => hand = NoFrames

\* All manifest frames so far, those sent first.
Manifest == wire["manifest"] \o (hand["manifest"] \o outManifest)

\* Each end marker in s is behind all entries.
EndsLast(s) ==
    \A i \in DOMAIN s : s[i] = "ManifestEnd" =>
        \A w \in Walker : Times(w, SubSeq(s, 1, i)) = Chunk * Chunks

Running == {"test", "sleeping", "asleep"}

\* The frames a walker has flushed.
Flushed(w) == IF producer["tail"] = "off" THEN 0 ELSE Chunk * (Chunks - chunksLeft[w])

\* A walker that ends in a living session has flushed all its chunks, and the manifest thread
\* flushes the end marker only when all walkers have ended.
WalkShape ==
    /\ producer \in [Producer -> Running \cup {"off", "walking", "finished"}]
    /\ chunksLeft \in [Producer -> Nat] /\ \A w \in Walker : chunksLeft[w] <= Chunks
    /\ \A w \in Walker : /\ producer[w] # "walking"
                         /\ producer[w] = "off" <=> producer["tail"] = "off"
                         /\ producer[w] \in Running => chunksLeft[w] >= 1
    /\ producer["tail"] \in Running \cup {"walking"} => chunksLeft["tail"] >= 1
    /\ ~done => \A w \in Walker : producer[w] = "finished" => chunksLeft[w] = 0
    /\ ~done /\ producer["tail"] \in Running =>
         \A w \in Walker : producer[w] = "finished"

\* While the send loop runs, the frames account for what the walkers have flushed.
EntriesExact ==
    /\ Sending => EndsLast(Manifest) /\ \A w \in Walker : Times(w, Manifest) = Flushed(w)
    /\ EndsLast(wire["manifest"])

\* Nothing has been said to r yet.
Silent(r) == r \notin Range(outHigh) /\ wire[r] = <<>> /\ hand[r] = <<>>

NoTerminal(s) == \A i \in DOMAIN s : s[i] \notin Terminal
TerminalLast(s) == \A i \in DOMAIN s : s[i] \in Terminal => i = Len(s)

\* The chunks a stream may have.
Sizes(r) == IF r \in RangeReq THEN {Length} ELSE {0, Length}

\* A request waits silently, for its job or as a stream, until it is refused, answered, or
\* its stream is over; what is queued for it was never said before.
RequestInv(r) ==
    /\ r \notin received => Silent(r)
    /\ r \in Digest => /\ job[r] # "none" => r \in received
                       /\ job[r] \in {"queued", "digested"} => Silent(r)
    /\ r \in pendingNew => r \in received /\ r \notin active /\ Silent(r) /\ left[r] \in Sizes(r)
    /\ r \in active => /\ r \in received /\ r \notin Range(outHigh)
                       /\ hand[r] = <<>> /\ NoTerminal(wire[r])
                       /\ Sending => Times("data", wire[r]) + left[r] \in Sizes(r)
    /\ hand[r] \in {<<>>, <<"reply">>} /\ TerminalLast(wire[r])
    /\ hand[r] # <<>> => wire[r] = <<>>
    /\ r \in Range(outHigh) => wire[r] = <<>> /\ hand[r] = <<>>
    /\ r \in Stream => EndFollowsChunks(r)

\* No reply is queued twice.
ReplyInv ==
    /\ \A i, j \in DOMAIN outHigh : outHigh[i] = outHigh[j] => i = j
    /\ job \in [Digest -> {"none", "queued", "digested", "answered", "finished"}]
    /\ pendingNew \subseteq Stream /\ active \subseteq Stream /\ left \in [Stream -> Nat]
    /\ \A r \in Req : RequestInv(r)

LEMMA EndsPrefix ==
    ASSUME NEW s \in Seq(Frame), NEW t \in Seq(Frame), EndsLast(s \o t)
    PROVE  EndsLast(s)
  <1> SUFFICES ASSUME NEW i \in DOMAIN s, s[i] = "ManifestEnd", NEW w \in Walker
               PROVE  Times(w, SubSeq(s, 1, i)) = Chunk * Chunks
    BY DEF EndsLast
  <1>1. i \in 1 .. Len(s) /\ 1 \in 1 .. Len(s) /\ i \in DOMAIN (s \o t) /\ (s \o t)[i] = s[i]
    BY ConcatProperties, LenProperties
  <1>2. SubSeq(s \o t, 1, i) = SubSeq(s, 1, i)
    BY <1>1, SubSeqOfConcat1
  <1> QED
    BY <1>1, <1>2 DEF EndsLast

LEMMA EndsExtend ==
    ASSUME NEW s \in Seq(Frame), NEW t \in Seq(Frame), EndsLast(s),
           \A i \in DOMAIN t : t[i] # "ManifestEnd"
    PROVE  EndsLast(s \o t)
  <1> SUFFICES ASSUME NEW i \in DOMAIN (s \o t), (s \o t)[i] = "ManifestEnd", NEW w \in Walker
               PROVE  Times(w, SubSeq(s \o t, 1, i)) = Chunk * Chunks
    BY DEF EndsLast
  <1>1. /\ Len(s) \in Nat /\ Len(t) \in Nat /\ DOMAIN s = 1 .. Len(s) /\ DOMAIN t = 1 .. Len(t)
        /\ i \in 1 .. Len(s) + Len(t)
        /\ (s \o t)[i] = IF i <= Len(s) THEN s[i] ELSE t[i - Len(s)]
    BY ConcatProperties, LenProperties
  <1>2. i \in 1 .. Len(s) /\ 1 \in 1 .. Len(s) /\ s[i] = "ManifestEnd"
    BY <1>1
  <1>3. SubSeq(s \o t, 1, i) = SubSeq(s, 1, i)
    BY <1>2, SubSeqOfConcat1
  <1> QED
    BY <1>1, <1>2, <1>3 DEF EndsLast

LEMMA EndsMark ==
    ASSUME NEW s \in Seq(Frame), EndsLast(s), \A w \in Walker : Times(w, s) = Chunk * Chunks
    PROVE  EndsLast(s \o <<"ManifestEnd">>)
  <1> DEFINE m == <<"ManifestEnd">>
             u == s \o m
  <1>1. m \in Seq(Frame) /\ Len(m) = 1
    BY DEF Frame
  <1>2. u \in Seq(Frame) /\ Len(u) = Len(s) + 1 /\ Len(s) \in Nat
        /\ DOMAIN u = 1 .. Len(s) + 1 /\ DOMAIN s = 1 .. Len(s)
        /\ \A i \in 1 .. Len(s) : u[i] = s[i]
    BY <1>1, ConcatProperties, LenProperties
  <1> SUFFICES ASSUME NEW i \in DOMAIN u, u[i] = "ManifestEnd", NEW w \in Walker
               PROVE  Times(w, SubSeq(u, 1, i)) = Chunk * Chunks
    BY DEF EndsLast
  <1>3. CASE i <= Len(s)
    <2>1. i \in 1 .. Len(s) /\ 1 \in 1 .. Len(s) /\ s[i] = "ManifestEnd"
      BY <1>2, <1>3
    <2>2. SubSeq(u, 1, i) = SubSeq(s, 1, i)
      BY <1>1, <2>1, SubSeqOfConcat1
    <2> QED
      BY <1>2, <2>1, <2>2 DEF EndsLast
  <1>4. CASE i > Len(s)
    <2>1. SubSeq(u, 1, i) = u
      <3>1. i = Len(u)
        BY <1>2, <1>4
      <3> HIDE DEF u
      <3> QED
        BY <1>2, <3>1, SubSeqFull
    <2>2. Times(w, u) = Times(w, s) + Times(w, m)
      BY <1>1, TimesConcat
    <2>3. w # "ManifestEnd"
      BY SessionAssumption
    <2>4. Times(w, m) = 0
      BY <2>3, TimesUnit
    <2>5. Times(w, s) = Chunk * Chunks
      OBVIOUS
    <2>6. Times(w, s) \in Nat
      BY TimesType
    <2>7. Times(w, u) = Times(w, s)
      <3> HIDE DEF m, u
      <3> QED
        BY <2>2, <2>4, <2>6
    <2> HIDE DEF m, u
    <2> QED
      BY <2>1, <2>5, <2>7
  <1> QED
    BY <1>2, <1>3, <1>4

\* Frames of a walker's chunk.
LEMMA FlushedFrames ==
    ASSUME NEW p \in Walker
    PROVE  /\ Frames(p, Chunk) \in Seq(Frame)
           /\ \A i \in DOMAIN Frames(p, Chunk) : Frames(p, Chunk)[i] # "ManifestEnd"
           /\ \A w \in Walker : Times(w, Frames(p, Chunk)) = IF w = p THEN Chunk ELSE 0
  <1>1. Chunk \in Nat /\ p # "ManifestEnd" /\ p \in Frame
    BY SessionAssumption DEF Frame
  <1>2. Frames(p, Chunk) \in Seq(Frame)
    BY <1>1 DEF Frames
  <1>3. \A i \in DOMAIN Frames(p, Chunk) : Frames(p, Chunk)[i] # "ManifestEnd"
    BY <1>1 DEF Frames
  <1> QED
    BY <1>1, <1>2, <1>3, TimesFrames

-----------------------------------------------------------------------------
(* Steps, as the queues and the wire see them.                             *)

\* Nothing is handed to the send loop or sent; at most one reply is queued.
QuietStep ==
    /\ UNCHANGED <<wire, hand, outManifest>> /\ done' \in BOOLEAN /\ (done => done')
    /\ \/ pc' = pc
       \/ pc # "serve" /\ done' /\ pc' \in {"join", "drainJobs", "release", "returned"}
    /\ \/ outHigh' = outHigh
       \/ \E r \in Req : outHigh' = Append(outHigh, r)

Wakes == \E ps \in SUBSET Asleep : producer' = Woken(ps)

LEMMA WakesAre == (NotifyOne => Wakes) /\ (NotifyAll => Wakes)
  BY DEF NotifyOne, NotifyAll, Wakes

LEMMA WakesNone == ASSUME WalkShape, UNCHANGED producer PROVE Wakes
  <1>1. Woken({}) = producer
    BY DEF Woken, WalkShape
  <1> QED
    BY <1>1 DEF Wakes

\* Whatever neither flushes, drains nor sends.
LEMMA OtherSteps ==
    ASSUME SendInv, WalkShape, [Next]_vars
    PROVE  \/ \E p \in Producer : Flush(p)
           \/ SenderDrain \/ SenderSend \/ SenderThrows
           \/ /\ QuietStep
              /\ \/ Wakes /\ UNCHANGED chunksLeft
                 \/ RecvManifestRequest \/ WalkJoined \/ ManifestFails
                 \/ \E p \in Producer : Sleep(p)
  <1> USE DEF sendVars, queueVars, prodVars
  <1>0. done \in BOOLEAN /\ (~done => pc \in {"top", "serve"})
    BY DEF SendInv, Sending
  <1>1. CASE Receiver
    <2>1. CASE RecvManifestRequest
      BY <1>0, <2>1 DEF RecvManifestRequest, QuietStep
    <2>2. ASSUME NEW r \in Req, RecvHashRequest(r) \/ RecvBlockSigRequest(r)
          PROVE  QuietStep /\ Wakes /\ UNCHANGED chunksLeft
      <3>1. AnswerOrEnqueue(r)
        BY <2>2 DEF RecvHashRequest, RecvBlockSigRequest
      <3>2. /\ UNCHANGED <<done, wire, hand, outManifest, pc, chunksLeft>>
            /\ \/ UNCHANGED <<outHigh, producer>> \/ EnqueueHigh(r)
        BY <3>1 DEF AnswerOrEnqueue
      <3> QED
        BY <1>0, <3>2, WakesAre, WakesNone DEF QuietStep, EnqueueHigh
    <2>3. ASSUME NEW r \in Req, RecvIgnored(r)
          PROVE  QuietStep /\ Wakes /\ UNCHANGED chunksLeft
      BY <1>0, <2>3, WakesNone DEF RecvIgnored, QuietStep
    <2>4. ASSUME NEW r \in Req, RecvFileOpen(r) \/ RecvFileBatchOpen(r) \/ RecvRangeOpen(r)
          PROVE  QuietStep /\ Wakes /\ UNCHANGED chunksLeft
      <3>1. /\ UNCHANGED <<done, wire, hand, outManifest, pc, chunksLeft>>
            /\ (UNCHANGED outHigh /\ NotifyOne) \/ EnqueueHigh(r)
        BY <2>4 DEF RecvFileOpen, RecvFileBatchOpen, RecvRangeOpen, HandOver, Refuse
      <3> QED
        BY <1>0, <3>1, WakesAre DEF QuietStep, EnqueueHigh
    <2>5. CASE RecvSyncDone \/ RecvThrows
      BY <2>5, WakesAre DEF RecvSyncDone, RecvThrows, QuietStep
    <2>6. CASE RecvExits
      BY <1>0, <2>6, WakesNone DEF RecvExits, QuietStep
    <2> QED
      BY <1>1, <2>1, <2>2, <2>3, <2>4, <2>5, <2>6 DEF Receiver
  <1>2. CASE Sweep \/ JoinThreads \/ DrainJobs \/ Release
    <2>1. /\ pc # "serve" /\ done' = done /\ done
          /\ pc' \in {"join", "drainJobs", "release", "returned"}
          /\ UNCHANGED <<wire, hand, outManifest, outHigh, producer, chunksLeft>>
      BY <1>0, <1>2 DEF Sweep, JoinThreads, DrainJobs, Release
    <2> QED
      BY <2>1, WakesNone DEF QuietStep
  <1>3. CASE WalkJoined \/ ManifestFails \/ \E p \in Producer : Sleep(p)
    BY <1>0, <1>3 DEF WalkJoined, ManifestFails, Sleep, QuietStep
  <1>4. CASE FileChanges
    BY <1>0, <1>4, WakesNone DEF FileChanges, QuietStep
  <1>5. ASSUME NEW r \in Digest, JobDigests(r) \/ JobAnswers(r) \/ JobFinishes(r)
        PROVE  QuietStep /\ Wakes /\ UNCHANGED chunksLeft
    <2>1. r \in Req
      BY DEF Req
    <2>2. /\ UNCHANGED <<done, wire, hand, outManifest, pc, chunksLeft>>
          /\ \/ UNCHANGED <<outHigh, producer>> \/ EnqueueHigh(r)
      BY <1>5 DEF JobDigests, JobAnswers, JobFinishes
    <2> QED
      BY <1>0, <2>1, <2>2, WakesAre, WakesNone DEF QuietStep, EnqueueHigh
  <1>6. CASE UNCHANGED vars
    BY <1>0, <1>6, WakesNone DEF vars, progress, QuietStep
  <1> QED
    BY <1>1, <1>2, <1>3, <1>4, <1>5, <1>6 DEF Next, Sender, ManifestStep

LEMMA ChannelsAre ==
    /\ "manifest" \in Channel /\ Req \subseteq Channel /\ "manifest" \notin Req
    /\ Stream \subseteq Req /\ Digest \subseteq Req /\ Digest \cap Stream = {}
  BY SessionAssumption DEF Channel, Req

BurstFrame == {"header", "data", "end", "error"}

LEMMA FramesConcat ==
    /\ \A a, b, c \in Seq(Frame) : (a \o b) \o c = a \o (b \o c)
    /\ \A a, b \in Seq(BurstFrame) : a \o b \in Seq(BurstFrame)
  <1>1. ASSUME NEW a \in Seq(Frame), NEW b \in Seq(Frame), NEW c \in Seq(Frame)
        PROVE  (a \o b) \o c = a \o (b \o c)
    BY ConcatAssociative
  <1>2. ASSUME NEW a \in Seq(BurstFrame), NEW b \in Seq(BurstFrame)
        PROVE  a \o b \in Seq(BurstFrame)
    BY ConcatProperties
  <1> QED
    BY <1>1, <1>2

LEMMA UnitFrames ==
    /\ <<>> \in Seq(BurstFrame) /\ <<"header">> \in Seq(BurstFrame)
    /\ <<"data">> \in Seq(BurstFrame) /\ <<"end">> \in Seq(BurstFrame)
    /\ <<"error">> \in Seq(BurstFrame) /\ <<"data">> \o <<"end">> \in Seq(BurstFrame)
    /\ BurstFrame \subseteq Frame
  <1>1. /\ <<>> \in Seq(BurstFrame) /\ <<"header">> \in Seq(BurstFrame)
        /\ <<"data">> \in Seq(BurstFrame) /\ <<"end">> \in Seq(BurstFrame)
        /\ <<"error">> \in Seq(BurstFrame)
    BY DEF BurstFrame
  <1> QED
    BY <1>1, ConcatProperties DEF BurstFrame, Frame

\* A burst: a batch's header if it is due, then data, the end or the error.
LEMMA BurstIs ==
    ASSUME NEW r, NEW ok, left[r] \in Nat
    PROVE  \E h \in {<<>>, <<"header">>} :
             \/ ~ok /\ Burst(r, ok) = h \o <<"error">>
             \/ /\ ok /\ left[r] = 0 /\ Burst(r, ok) = h \o <<"end">>
             \/ /\ ok /\ left[r] = 1 /\ r \notin FileReq /\ Burst(r, ok) = h \o (<<"data">> \o <<"end">>)
             \/ /\ ok /\ left[r] >= 1 /\ (r \in FileReq \/ left[r] >= 2)
                /\ Burst(r, ok) = h \o <<"data">>
  <1> DEFINE h == IF r \in BatchReq /\ wire[r] = <<>> THEN <<"header">> ELSE <<>>
             d == IF Reads(r) THEN <<"data">> ELSE <<>>
             e == IF left[r] = 0 \/ (r \notin FileReq /\ left[r] = 1) THEN <<"end">> ELSE <<>>
  <1>1. Burst(r, ok) = h \o (IF ~ok THEN <<"error">> ELSE d \o e)
    BY DEF Burst
  <1>2. h \in {<<>>, <<"header">>}
    OBVIOUS
  <1>3. /\ left[r] = 0 => d = <<>> /\ e = <<"end">>
        /\ left[r] = 1 /\ r \notin FileReq => d = <<"data">> /\ e = <<"end">>
        /\ left[r] >= 1 /\ (r \in FileReq \/ left[r] >= 2) => d = <<"data">> /\ e = <<>>
    BY DEF Reads
  <1>4. <<>> \o <<"end">> = <<"end">> /\ <<"data">> \o <<>> = <<"data">>
    BY UnitFrames, ConcatEmptySeq
  <1> HIDE DEF h, d, e
  <1>5. \/ ~ok
        \/ ok /\ left[r] = 0
        \/ ok /\ left[r] = 1 /\ r \notin FileReq
        \/ ok /\ left[r] >= 1 /\ (r \in FileReq \/ left[r] >= 2)
    OBVIOUS
  <1>6. /\ ~ok => Burst(r, ok) = h \o <<"error">>
        /\ ok => Burst(r, ok) = h \o (d \o e)
    BY <1>1
  <1> QED
    BY <1>2, <1>3, <1>4, <1>5, <1>6

LEMMA BurstType ==
    ASSUME NEW r, NEW ok, left[r] \in Nat
    PROVE  Burst(r, ok) \in Seq(BurstFrame) /\ Burst(r, ok) \in Seq(Frame)
  <1>1. PICK h \in {<<>>, <<"header">>} :
          Burst(r, ok) \in {h \o <<"error">>, h \o <<"end">>, h \o (<<"data">> \o <<"end">>),
                            h \o <<"data">>}
    BY BurstIs
  <1>2. h \in Seq(BurstFrame)
    BY UnitFrames
  <1>3. Burst(r, ok) \in Seq(BurstFrame)
    <2> DEFINE b1 == <<"error">>
               b2 == <<"end">>
               b3 == <<"data">> \o <<"end">>
               b4 == <<"data">>
    <2>1. b1 \in Seq(BurstFrame) /\ b2 \in Seq(BurstFrame) /\ b3 \in Seq(BurstFrame)
          /\ b4 \in Seq(BurstFrame)
      BY UnitFrames
    <2>2. Burst(r, ok) \in {h \o b1, h \o b2, h \o b3, h \o b4}
      BY <1>1
    <2> HIDE DEF b1, b2, b3, b4
    <2> QED
      BY <1>2, <2>1, <2>2, FramesConcat, ZenonT(60)
  <1> QED
    BY <1>3, UnitFrames, SeqMonotonic

LEMMA SenderDrainIs ==
    ASSUME SendInv, SenderDrain
    PROVE  /\ pc = "top" /\ pc' = "serve" /\ ~done /\ done' = done /\ wire' = wire
           /\ hand = NoFrames /\ Wakes /\ chunksLeft' = chunksLeft
           /\ \E h \in 0 .. Len(outHigh) :
                /\ outHigh' = SubSeq(outHigh, h + 1, Len(outHigh))
                /\ \A c \in Channel \ {"manifest"} :
                     hand'[c] = IF c \in {outHigh[i] : i \in 1 .. h} THEN <<"reply">> ELSE <<>>
           /\ \E n \in 0 .. Len(outManifest) :
                /\ hand'["manifest"] = SubSeq(outManifest, 1, n)
                /\ outManifest' = SubSeq(outManifest, n + 1, Len(outManifest))
           /\ hand' \in [Channel -> Seq(Frame)]
           /\ active' = active \cup pendingNew /\ pendingNew' = {}
           /\ UNCHANGED <<left, job, received>>
  <1> DEFINE h == Least(HighBudget, Len(outHigh))
             n == Least(ManifestBudget(outHigh', Len(outManifest)), Len(outManifest))
             replies == {outHigh[i] : i \in 1 .. h}
  <1>1. /\ pc = "top" /\ pc' = "serve" /\ ~done /\ done' = done /\ wire' = wire
        /\ chunksLeft' = chunksLeft /\ Wakes
        /\ outHigh' = SubSeq(outHigh, h + 1, Len(outHigh))
        /\ outManifest' = SubSeq(outManifest, n + 1, Len(outManifest))
        /\ hand' = [c \in Channel |-> IF c = "manifest" THEN SubSeq(outManifest, 1, n)
                                      ELSE IF c \in replies THEN <<"reply">> ELSE <<>>]
        /\ active' = active \cup pendingNew /\ pendingNew' = {}
        /\ UNCHANGED <<left, job, received>>
    BY DEF SenderDrain, Wakes, jobVars, netVars
  <1>2. Len(outHigh) \in Nat /\ Len(outManifest) \in Nat /\ outManifest \in Seq(Frame)
    BY DEF SendInv
  <1>3. h \in 0 .. Len(outHigh)
    BY <1>2, SessionAssumption DEF Least
  <1>4. ManifestBudget(outHigh', Len(outManifest)) \in Nat
    <2> DEFINE a == IF outHigh' = <<>> THEN 4 ELSE 1
               b == IF Len(outManifest) > MaxQueued \div 2 THEN 2 ELSE 1
    <2>1. Budget \in Nat /\ a \in {1, 4} /\ b \in {1, 2}
      BY SessionAssumption
    <2>2. Budget * a * b \in Nat
      <3> HIDE DEF a, b
      <3> QED
        BY <2>1
    <2> QED
      BY <2>2 DEF ManifestBudget
  <1>5. n \in 0 .. Len(outManifest)
    BY <1>2, <1>4 DEF Least
  <1> HIDE DEF h, n
  <1>6. SubSeq(outManifest, 1, n) \in Seq(Frame)
    BY <1>2, <1>5, SubSeqProperties
  <1>7. hand' \in [Channel -> Seq(Frame)]
    <2>1. <<"reply">> \in Seq(Frame) /\ <<>> \in Seq(Frame)
      BY DEF Frame
    <2> HIDE DEF replies
    <2> QED
      BY <1>1, <1>6, <2>1
  <1>8. hand = NoFrames
    BY <1>1 DEF SendInv
  <1> QED
    BY <1>1, <1>3, <1>5, <1>7, <1>8, ChannelsAre

LEMMA RoundIs ==
    ASSUME SendInv, SenderSend \/ SenderThrows, active \subseteq Stream, left \in [Stream -> Nat]
    PROVE  /\ pc = "serve" /\ hand' = NoFrames /\ UNCHANGED <<outHigh, outManifest, chunksLeft>>
           /\ \/ pc' = "top" /\ done' = done /\ producer' = producer
              \/ pc' = "sweep" /\ done' = TRUE /\ Wakes /\ wire' = wire
           /\ wire' \in [Channel -> Seq(Frame)]
           /\ wire'["manifest"] = wire["manifest"] \o hand["manifest"] \/ pc' = "sweep"
           /\ \E broken \in SUBSET active :
                /\ Serve(broken)
                /\ pc' = "top" => \A c \in Channel : wire'[c] = wire[c] \o
                     (hand[c] \o (IF c \in active THEN Burst(c, c \notin broken) ELSE <<>>))
           /\ UNCHANGED <<pendingNew, job, received>>
  <1> USE DEF queueVars, jobVars, netVars, prodVars
  <1>1. PICK broken \in SUBSET {r \in active : Reads(r)} :
          /\ Serve(broken)
          /\ \/ /\ pc' = "top" /\ done' = done /\ producer' = producer /\ chunksLeft' = chunksLeft
                /\ wire' = [c \in Channel |-> wire[c] \o RoundFrames(broken)[c]]
             \/ /\ pc' = "sweep" /\ done' = TRUE /\ NotifyAll /\ wire' = wire /\ chunksLeft' = chunksLeft
    BY DEF SenderSend, SenderThrows
  <1>2. /\ pc = "serve" /\ hand' = NoFrames /\ UNCHANGED <<outHigh, outManifest, pendingNew, job, received>>
    BY <1>1 DEF SenderSend, SenderThrows, Serve
  <1>3. \A c \in Channel : RoundFrames(broken)[c] =
          hand[c] \o (IF c \in active THEN Burst(c, c \notin broken) ELSE <<>>)
    BY DEF RoundFrames
  <1>4. \A c \in Channel : RoundFrames(broken)[c] \in Seq(Frame)
    <2> SUFFICES ASSUME NEW c \in Channel PROVE RoundFrames(broken)[c] \in Seq(Frame)
      OBVIOUS
    <2> DEFINE b == IF c \in active THEN Burst(c, c \notin broken) ELSE <<>>
    <2>1. hand[c] \in Seq(Frame)
      BY DEF SendInv
    <2>2. b \in Seq(Frame)
      BY BurstType, EmptySeq
    <2> HIDE DEF b
    <2>3. hand[c] \o b \in Seq(Frame)
      BY <2>1, <2>2, ConcatProperties
    <2> QED
      BY <1>3, <2>3 DEF b
  <1>5. wire \in [Channel -> Seq(Frame)]
    BY DEF SendInv
  <1>6. \A c \in Channel : wire[c] \o RoundFrames(broken)[c] \in Seq(Frame)
    BY <1>4, <1>5, ConcatProperties
  <1>7. wire' \in [Channel -> Seq(Frame)]
    BY <1>1, <1>5, <1>6
  <1>8. pc' = "top" => \A c \in Channel : wire'[c] = wire[c] \o
                         (hand[c] \o (IF c \in active THEN Burst(c, c \notin broken) ELSE <<>>))
    BY <1>1, <1>3
  <1>9. wire'["manifest"] = wire["manifest"] \o hand["manifest"] \/ pc' = "sweep"
    <2>1. "manifest" \notin active /\ "manifest" \in Channel
      BY ChannelsAre
    <2>2. hand["manifest"] \o <<>> = hand["manifest"]
      BY <2>1, ConcatEmptySeq DEF SendInv
    <2> QED
      BY <1>1, <1>8, <2>1, <2>2
  <1>10. broken \in SUBSET active
    OBVIOUS
  <1> QED
    BY <1>1, <1>2, <1>7, <1>8, <1>9, <1>10, WakesAre

FlushedBy(p) == IF p = "tail" THEN <<"ManifestEnd">> ELSE Frames(p, Chunk)

LEMMA FlushIs ==
    ASSUME SendInv, NEW p \in Producer, Flush(p)
    PROVE  /\ producer[p] = "test" /\ UNCHANGED <<done, pc, hand, wire, outHigh>>
           /\ FlushedBy(p) \in Seq(Frame)
           /\ \/ /\ done /\ producer' = [producer EXCEPT ![p] = "finished"]
                 /\ UNCHANGED <<outManifest, chunksLeft>>
              \/ /\ ~done /\ outManifest' = outManifest \o FlushedBy(p)
                 /\ chunksLeft' = [chunksLeft EXCEPT ![p] = @ - 1]
                 /\ \E q \in Asleep \cup {p} :
                      producer' = [Woken({q}) EXCEPT ![p] = IF chunksLeft[p] = 1 THEN "finished"
                                                            ELSE "test"]
              \/ /\ ~done /\ producer' = [producer EXCEPT ![p] = "sleeping"]
                 /\ UNCHANGED <<outManifest, chunksLeft>>
  <1>1. FlushedBy(p) \in Seq(Frame)
    <2>1. <<"ManifestEnd">> \in Seq(Frame)
      BY DEF Frame
    <2>2. p # "tail" => p \in Walker
      BY DEF Producer
    <2> QED
      BY <2>1, <2>2, FlushedFrames DEF FlushedBy
  <1> QED
    BY <1>1 DEF Flush, FlushedBy, sendVars

LEMMA NextSend == ASSUME SendInv, WalkShape, active \subseteq Stream, left \in [Stream -> Nat],
                         [Next]_vars
                  PROVE  SendInv'
  <1>1. ASSUME NEW p \in Producer, Flush(p) PROVE SendInv'
    <2>1. outManifest' \in Seq(Frame)
      <3>1. FlushedBy(p) \in Seq(Frame) /\ outManifest \in Seq(Frame)
        BY <1>1, FlushIs DEF SendInv
      <3>2. outManifest' = outManifest \/ outManifest' = outManifest \o FlushedBy(p)
        BY <1>1, FlushIs
      <3> QED
        BY <3>1, <3>2, ConcatProperties
    <2> QED
      BY <1>1, <2>1, FlushIs DEF SendInv, Sending
  <1>2. CASE SenderDrain
    <2>1. outHigh' \in Seq(Req)
      <3>1. PICK h \in 0 .. Len(outHigh) : outHigh' = SubSeq(outHigh, h + 1, Len(outHigh))
        BY <1>2, SenderDrainIs
      <3> QED
        BY <3>1, SubSeqProperties DEF SendInv
    <2>2. outManifest' \in Seq(Frame)
      <3>1. PICK n \in 0 .. Len(outManifest) : outManifest' = SubSeq(outManifest, n + 1, Len(outManifest))
        BY <1>2, SenderDrainIs
      <3> QED
        BY <3>1, SubSeqProperties DEF SendInv
    <2> QED
      BY <1>2, <2>1, <2>2, SenderDrainIs DEF SendInv, Sending
  <1>3. CASE SenderSend \/ SenderThrows
    <2>1. NoFrames \in [Channel -> Seq(Frame)]
      BY EmptySeq DEF NoFrames
    <2> QED
      BY <1>3, <2>1, RoundIs DEF SendInv, Sending
  <1>4. CASE QuietStep
    <2>1. outHigh' \in Seq(Req)
      <3>1. outHigh \in Seq(Req)
        BY DEF SendInv
      <3>2. outHigh' = outHigh \/ \E r \in Req : outHigh' = Append(outHigh, r)
        BY <1>4 DEF QuietStep
      <3> QED
        BY <3>1, <3>2, AppendProperties
    <2> QED
      BY <1>4, <2>1 DEF QuietStep, SendInv, Sending
  <1> QED
    BY <1>1, <1>2, <1>3, <1>4, OtherSteps

-----------------------------------------------------------------------------
(* The manifest.                                                           *)

\* Waking sleepers changes no walker's progress.
LEMMA WakesShape ==
    ASSUME WalkShape, Wakes, chunksLeft' = chunksLeft, done => done'
    PROVE  WalkShape' /\ (producer'["tail"] = "off" <=> producer["tail"] = "off")
  <1>1. PICK ps \in SUBSET Asleep : producer' = Woken(ps)
    BY DEF Wakes
  <1>2. /\ producer' \in [Producer -> Running \cup {"off", "walking", "finished"}]
        /\ \A p \in Producer : producer'[p] = producer[p] \/ (producer[p] = "asleep" /\ producer'[p] = "test")
    BY <1>1 DEF Woken, Asleep, WalkShape, Running
  <1>3. "tail" \in Producer /\ Walker \subseteq Producer
    BY DEF Producer
  <1>4. \A p \in Producer : /\ producer'[p] \in Running <=> producer[p] \in Running
                            /\ \A x \in {"off", "walking", "finished"} :
                                 producer'[p] = x <=> producer[p] = x
    BY <1>2 DEF Running
  <1> QED
    BY <1>2, <1>3, <1>4 DEF WalkShape

\* A producer changes its state alone.
LEMMA OneShape ==
    ASSUME WalkShape, NEW p \in Producer, chunksLeft' = chunksLeft, done' = done,
           producer[p] \in Running \cup {"walking"}, NEW x, producer' = [producer EXCEPT ![p] = x],
           \/ producer[p] \in Running /\ x \in Running
           \/ done /\ (x = "finished" \/ (p = "tail" /\ x \in Running))
           \/ p = "tail" /\ x = "finished"
           \/ p = "tail" /\ x \in Running /\ \A w \in Walker : producer[w] = "finished"
    PROVE  WalkShape' /\ (producer'["tail"] = "off" <=> producer["tail"] = "off")
  <1>1. x \in Running \cup {"finished"} /\ "off" \notin Running \cup {"finished"}
        /\ "walking" \notin Running /\ "finished" \notin Running /\ producer[p] # "off"
    BY DEF Running
  <1>2. /\ producer' \in [Producer -> Running \cup {"off", "walking", "finished"}]
        /\ producer'[p] = x /\ \A q \in Producer \ {p} : producer'[q] = producer[q]
    BY <1>1 DEF WalkShape
  <1>3. "tail" \in Producer /\ Walker \subseteq Producer /\ "tail" \notin Walker
    BY SessionAssumption DEF Producer
  <1>4. producer'["tail"] = "off" <=> producer["tail"] = "off"
    BY <1>1, <1>2, <1>3
  <1>5. \A w \in Walker : /\ producer'[w] # "walking"
                          /\ producer'[w] = "off" <=> producer'["tail"] = "off"
                          /\ producer'[w] \in Running => chunksLeft'[w] >= 1
    BY <1>1, <1>2, <1>3, <1>4 DEF WalkShape
  <1>6. ~done => \A w \in Walker : producer'[w] = "finished" => chunksLeft'[w] = 0
    BY <1>1, <1>2, <1>3 DEF WalkShape
  <1>7. ~done /\ producer'["tail"] \in Running => \A w \in Walker : producer'[w] = "finished"
    BY <1>1, <1>2, <1>3 DEF WalkShape
  <1>8. producer'["tail"] \in Running \cup {"walking"} => chunksLeft'["tail"] >= 1
    BY <1>1, <1>2, <1>3 DEF WalkShape
  <1> QED
    BY <1>2, <1>4, <1>5, <1>6, <1>7, <1>8 DEF WalkShape

\* The manifest thread starts the walkers.
LEMMA StartShape ==
    ASSUME WalkShape, RecvManifestRequest
    PROVE  WalkShape' /\ (producer["tail"] = "off" /\ producer'["tail"] # "off" =>
                            \A w \in Walker : chunksLeft'[w] = Chunks)
                      /\ (producer["tail"] # "off" => UNCHANGED <<producer, chunksLeft>>)
  <1>1. done' = done
    BY DEF RecvManifestRequest
  <1>2. CASE producer["tail"] # "off"
    BY <1>1, <1>2 DEF RecvManifestRequest, Started, prodVars, WalkShape
  <1>3. CASE producer["tail"] = "off"
    <2>1. /\ producer' = [p \in Producer |-> IF p = "tail" THEN "walking" ELSE "test"]
          /\ chunksLeft' = [p \in Producer |-> IF p = "tail" THEN 1 ELSE Chunks]
      BY <1>3 DEF RecvManifestRequest, Started
    <2>2. Chunks \in Nat /\ Chunks >= 1
      BY SessionAssumption
    <2>3. "tail" \in Producer /\ Walker \subseteq Producer /\ "tail" \notin Walker
      BY SessionAssumption DEF Producer
    <2>4. /\ producer' \in [Producer -> Running \cup {"off", "walking", "finished"}]
          /\ chunksLeft' \in [Producer -> Nat] /\ producer'["tail"] = "walking"
          /\ chunksLeft'["tail"] = 1
          /\ \A w \in Walker : producer'[w] = "test" /\ chunksLeft'[w] = Chunks
      BY <2>1, <2>2, <2>3 DEF Running
    <2> QED
      BY <1>1, <1>3, <2>2, <2>4 DEF WalkShape, Running
  <1> QED
    BY <1>2, <1>3

\* A chunk is pushed.
LEMMA PushShape ==
    ASSUME WalkShape, NEW p \in Producer, producer[p] = "test", ~done, done' = done,
           chunksLeft[p] >= 1, chunksLeft' = [chunksLeft EXCEPT ![p] = @ - 1],
           NEW q \in Asleep \cup {p},
           producer' = [Woken({q}) EXCEPT ![p] = IF chunksLeft[p] = 1 THEN "finished" ELSE "test"]
    PROVE  WalkShape' /\ producer["tail"] # "off" /\ producer'["tail"] # "off"
  <1> DEFINE x == IF chunksLeft[p] = 1 THEN "finished" ELSE "test"
  <1>1. Woken({q}) \in [Producer -> Running \cup {"off", "walking", "finished"}]
        /\ \A a \in Producer \ {p} : Woken({q})[a] = producer[a]
                                     \/ (producer[a] = "asleep" /\ Woken({q})[a] = "test")
    BY DEF Woken, Asleep, WalkShape, Running
  <1>2. /\ producer' \in [Producer -> Running \cup {"off", "walking", "finished"}]
        /\ producer'[p] = x
        /\ \A a \in Producer \ {p} : /\ producer'[a] \in Running <=> producer[a] \in Running
                                     /\ \A y \in {"off", "walking", "finished"} :
                                          producer'[a] = y <=> producer[a] = y
    BY <1>1 DEF Running
  <1>3. chunksLeft[p] \in Nat /\ chunksLeft \in [Producer -> Nat]
    BY DEF WalkShape
  <1>4. /\ chunksLeft' \in [Producer -> Nat] /\ chunksLeft'[p] = chunksLeft[p] - 1
        /\ \A a \in Producer \ {p} : chunksLeft'[a] = chunksLeft[a]
    BY <1>3
  <1>5. "tail" \in Producer /\ Walker \subseteq Producer /\ "tail" \notin Walker
    BY SessionAssumption DEF Producer
  <1>6. producer["tail"] # "off"
    BY <1>5 DEF WalkShape, Producer
  <1>7. producer'["tail"] # "off"
    BY <1>2, <1>5, <1>6
  <1>8. Chunks \in Nat
    BY SessionAssumption
  <1>9. ASSUME NEW w \in Walker
        PROVE  /\ chunksLeft'[w] <= Chunks /\ producer'[w] # "walking" /\ producer'[w] # "off"
               /\ producer'[w] \in Running => chunksLeft'[w] >= 1
               /\ producer'[w] = "finished" => chunksLeft'[w] = 0
    <2>1. /\ chunksLeft[w] <= Chunks /\ producer[w] # "walking" /\ producer[w] # "off"
          /\ producer[w] \in Running => chunksLeft[w] >= 1
          /\ producer[w] = "finished" => chunksLeft[w] = 0
      BY <1>6 DEF WalkShape
    <2>2. CASE w = p
      BY <1>2, <1>3, <1>4, <1>8, <2>1, <2>2 DEF Running
    <2>3. CASE w # p
      BY <1>2, <1>4, <1>5, <2>1, <2>3
    <2> QED
      BY <2>2, <2>3
  <1>10. ASSUME producer'["tail"] \in Running, NEW w \in Walker
         PROVE  producer'[w] = "finished"
    <2>1. producer["tail"] \in Running
      BY <1>2, <1>5, <1>10 DEF Running
    <2>2. producer[w] = "finished"
      BY <2>1 DEF WalkShape
    <2>3. w # p
      BY <2>2
    <2> QED
      BY <1>2, <1>5, <2>2, <2>3
  <1>11. producer'["tail"] \in Running \cup {"walking"} => chunksLeft'["tail"] >= 1
    <2>1. CASE p = "tail"
      BY <1>2, <1>3, <1>4, <2>1 DEF Running
    <2>2. CASE p # "tail"
      BY <1>2, <1>4, <1>5, <2>2 DEF WalkShape
    <2> QED
      BY <2>1, <2>2
  <1> QED
    BY <1>2, <1>4, <1>6, <1>7, <1>9, <1>10, <1>11 DEF WalkShape

\* The manifest frames are only moved.
LEMMA KeepEntries ==
    ASSUME SendInv, SendInv', EntriesExact, Manifest' = Manifest, Sending,
           \A w \in Walker : Flushed(w)' = Flushed(w)
    PROVE  EntriesExact'
  <1>1. wire'["manifest"] \in Seq(Frame) /\ (hand'["manifest"] \o outManifest') \in Seq(Frame)
    BY ChannelsAre, ConcatProperties DEF SendInv
  <1>2. EndsLast(Manifest')
    BY DEF EntriesExact
  <1>3. EndsLast(wire'["manifest"])
    BY <1>1, <1>2, EndsPrefix DEF Manifest
  <1>4. EndsLast(Manifest)' /\ EndsLast(wire["manifest"])'
    BY <1>2, <1>3 DEF EndsLast
  <1>5. \A w \in Walker : Times(w, Manifest') = Flushed(w)'
    BY DEF EntriesExact
  <1> QED
    BY <1>4, <1>5 DEF EntriesExact

\* The frames account for what was flushed when a chunk is pushed.
LEMMA PushEntries ==
    ASSUME SendInv, SendInv', WalkShape, EntriesExact, Sending, NEW p \in Producer, ~done,
           producer[p] = "test", UNCHANGED <<wire, hand, pc>>, outManifest' = outManifest \o FlushedBy(p),
           chunksLeft' = [chunksLeft EXCEPT ![p] = @ - 1],
           producer["tail"] # "off", producer'["tail"] # "off"
    PROVE  EntriesExact'
  <1> DEFINE F == FlushedBy(p)
             a == wire["manifest"]
             b == hand["manifest"]
  <1>1. /\ a \in Seq(Frame) /\ b \in Seq(Frame) /\ outManifest \in Seq(Frame) /\ Manifest \in Seq(Frame)
        /\ b \o outManifest \in Seq(Frame)
    BY ChannelsAre, ConcatProperties DEF SendInv, Manifest
  <1>2. p # "tail" => p \in Walker
    BY DEF Producer
  <1>3. F \in Seq(Frame)
    <2>1. <<"ManifestEnd">> \in Seq(Frame)
      BY DEF Frame
    <2> QED
      BY <1>2, <2>1, FlushedFrames DEF FlushedBy
  <1> HIDE DEF F, a, b
  <1>4. Manifest' = Manifest \o F
    <2>1. Manifest' = a \o (b \o (outManifest \o F)) /\ Manifest = a \o (b \o outManifest)
      BY DEF Manifest, F, a, b
    <2> DEFINE o == outManifest
               bo == b \o o
    <2>2. a \in Seq(Frame) /\ b \in Seq(Frame) /\ o \in Seq(Frame) /\ F \in Seq(Frame)
          /\ bo \in Seq(Frame)
      BY <1>1, <1>3
    <2>3. (b \o o) \o F = b \o (o \o F)
      <3> HIDE DEF o
      <3> QED
        BY <2>2, FramesConcat
    <2>4. (a \o bo) \o F = a \o (bo \o F)
      <3>1. a \in Seq(Frame) /\ bo \in Seq(Frame) /\ F \in Seq(Frame)
        BY <2>2
      <3> HIDE DEF bo
      <3> QED
        BY <3>1, FramesConcat
    <2> QED
      BY <2>1, <2>3, <2>4
  <1>5. Chunk \in Nat /\ Chunks \in Nat /\ chunksLeft \in [Producer -> Nat]
        /\ EndsLast(Manifest) /\ \A w \in Walker : Times(w, Manifest) = Chunk * (Chunks - chunksLeft[w])
    BY SessionAssumption DEF WalkShape, EntriesExact, Flushed
  <1>6. EndsLast(Manifest \o F) /\ \A w \in Walker : Times(w, Manifest \o F) = Chunk * (Chunks - chunksLeft'[w])
    <2>1. \A w \in Walker : Times(w, Manifest \o F) = Times(w, Manifest) + Times(w, F)
      BY <1>1, <1>3, TimesConcat
    <2>2. CASE p = "tail"
      <3>1. F = <<"ManifestEnd">>
        BY <2>2 DEF F, FlushedBy
      <3>2. \A w \in Walker : producer[w] = "finished" /\ chunksLeft[w] = 0 /\ chunksLeft'[w] = chunksLeft[w]
        <4>1. \A w \in Walker : w \in Producer /\ w # "tail"
          BY SessionAssumption DEF Producer
        <4> QED
          BY <1>5, <2>2, <4>1 DEF WalkShape, Running
      <3>3. \A w \in Walker : Times(w, Manifest) = Chunk * Chunks
        BY <1>5, <3>2
      <3>4. \A w \in Walker : Times(w, F) = 0
        BY <3>1, SessionAssumption, TimesUnit
      <3>5. EndsLast(Manifest \o F)
        BY <1>1, <1>5, <3>1, <3>3, EndsMark
      <3>6. \A w \in Walker : Times(w, Manifest) \in Nat
        BY <1>1, TimesType
      <3>7. \A w \in Walker : Times(w, Manifest \o F) = Times(w, Manifest)
        BY <2>1, <3>4, <3>6
      <3> QED
        BY <1>5, <3>2, <3>5, <3>7
    <2>3. CASE p # "tail"
      <3>1. F = Frames(p, Chunk) /\ p \in Walker
        BY <1>2, <2>3 DEF F, FlushedBy
      <3>2. /\ \A i \in DOMAIN F : F[i] # "ManifestEnd"
            /\ \A w \in Walker : Times(w, F) = IF w = p THEN Chunk ELSE 0
        BY <3>1, FlushedFrames
      <3>3. EndsLast(Manifest \o F)
        BY <1>1, <1>3, <1>5, <3>2, EndsExtend
      <3>4. ASSUME NEW w \in Walker PROVE Times(w, Manifest \o F) = Chunk * (Chunks - chunksLeft'[w])
        <4>1. Times(w, Manifest) \in Nat /\ Times(w, Manifest) = Chunk * (Chunks - chunksLeft[w])
          BY <1>1, <1>5, TimesType
        <4>2. CASE w = p
          <5>1. chunksLeft[w] \in Nat /\ chunksLeft'[w] = chunksLeft[w] - 1
            BY <1>5, <4>2
          <5> DEFINE c == Chunks - chunksLeft[w]
          <5>2. c \in Int /\ Chunks - chunksLeft'[w] = c + 1
            BY <1>5, <5>1
          <5>3. Chunk * (c + 1) = Chunk * c + Chunk
            <6> HIDE DEF c
            <6> QED
              BY <1>5, <5>2
          <5> QED
            BY <2>1, <3>2, <4>1, <4>2, <5>2, <5>3
        <4>3. CASE w # p
          <5>1. chunksLeft'[w] = chunksLeft[w]
            BY <1>5, <4>3 DEF Producer
          <5>2. Times(w, Manifest \o F) = Times(w, Manifest)
            BY <2>1, <3>2, <4>1, <4>3
          <5> QED
            BY <4>1, <5>1, <5>2
        <4> QED
          BY <4>2, <4>3
      <3> QED
        BY <3>3, <3>4
    <2> QED
      BY <2>2, <2>3
  <1>7. EndsLast(Manifest)' /\ \A w \in Walker : Times(w, Manifest') = Flushed(w)'
    BY <1>4, <1>6 DEF EndsLast, Flushed
  <1>8. EndsLast(wire["manifest"])'
    BY DEF EntriesExact, EndsLast
  <1> QED
    BY <1>7, <1>8 DEF EntriesExact

LEMMA NextWalk ==
    ASSUME SendInv, SendInv', WalkShape, EntriesExact, active \subseteq Stream,
           left \in [Stream -> Nat], [Next]_vars
    PROVE  WalkShape' /\ EntriesExact'
  <1>1. ASSUME NEW p \in Producer, Flush(p) PROVE WalkShape' /\ EntriesExact'
    <2>1. /\ producer[p] = "test" /\ UNCHANGED <<done, pc, hand, wire>>
      BY <1>1, FlushIs
    <2>2. chunksLeft[p] >= 1
      BY <2>1 DEF WalkShape, Producer, Running
    <2>3. CASE /\ ~done /\ outManifest' = outManifest \o FlushedBy(p)
               /\ chunksLeft' = [chunksLeft EXCEPT ![p] = @ - 1]
               /\ \E q \in Asleep \cup {p} :
                    producer' = [Woken({q}) EXCEPT ![p] = IF chunksLeft[p] = 1 THEN "finished"
                                                          ELSE "test"]
      <3>1. WalkShape' /\ producer["tail"] # "off" /\ producer'["tail"] # "off"
        BY <2>1, <2>2, <2>3, PushShape
      <3>2. Sending
        BY <2>3 DEF SendInv
      <3> QED
        BY <2>1, <2>3, <3>1, <3>2, PushEntries
    <2>4. CASE /\ UNCHANGED <<outManifest, chunksLeft>>
               /\ \/ done /\ producer' = [producer EXCEPT ![p] = "finished"]
                  \/ producer' = [producer EXCEPT ![p] = "sleeping"]
      <3>1. WalkShape' /\ (producer'["tail"] = "off" <=> producer["tail"] = "off")
        <4>1. CASE done /\ producer' = [producer EXCEPT ![p] = "finished"]
          BY <2>1, <2>4, <4>1, OneShape DEF Running
        <4>2. CASE producer' = [producer EXCEPT ![p] = "sleeping"]
          BY <2>1, <2>4, <4>2, OneShape DEF Running
        <4> QED
          BY <2>4, <4>1, <4>2
      <3>2. EntriesExact'
        BY <2>1, <2>4, <3>1 DEF EntriesExact, Sending, Manifest, Flushed, EndsLast
      <3> QED
        BY <3>1, <3>2
    <2> QED
      BY <1>1, <2>3, <2>4, FlushIs
  <1>2. CASE SenderDrain
    <2>1. WalkShape' /\ (producer'["tail"] = "off" <=> producer["tail"] = "off")
      BY <1>2, SenderDrainIs, WakesShape
    <2>2. \A w \in Walker : Flushed(w)' = Flushed(w)
      BY <1>2, <2>1, SenderDrainIs DEF Flushed
    <2>3. Manifest' = Manifest
      <3>1. PICK n \in 0 .. Len(outManifest) :
              /\ hand'["manifest"] = SubSeq(outManifest, 1, n)
              /\ outManifest' = SubSeq(outManifest, n + 1, Len(outManifest))
        BY <1>2, SenderDrainIs
      <3>2. outManifest \in Seq(Frame) /\ hand["manifest"] = <<>> /\ wire' = wire
        BY <1>2, SenderDrainIs, ChannelsAre DEF SendInv, NoFrames
      <3>3. SubSeq(outManifest, 1, n) \o SubSeq(outManifest, n + 1, Len(outManifest)) = outManifest
        <4>1. 1 \in 1 .. Len(outManifest) + 1 /\ n \in 1 - 1 .. Len(outManifest)
              /\ Len(outManifest) \in n .. Len(outManifest)
          BY <3>2
        <4>2. SubSeq(outManifest, 1, n) \o SubSeq(outManifest, n + 1, Len(outManifest))
                = SubSeq(outManifest, 1, Len(outManifest))
          BY <3>2, <4>1, ConcatAdjacentSubSeq
        <4> QED
          BY <3>2, <4>2, SubSeqFull
      <3>4. <<>> \o outManifest = outManifest
        BY <3>2, ConcatEmptySeq
      <3> QED
        BY <3>1, <3>2, <3>3, <3>4 DEF Manifest
    <2>4. Sending
      BY <1>2, SenderDrainIs DEF Sending
    <2> QED
      BY <2>1, <2>2, <2>3, <2>4, KeepEntries
  <1>3. CASE SenderSend \/ SenderThrows
    <2>1. /\ pc = "serve" /\ hand' = NoFrames /\ UNCHANGED <<outManifest, chunksLeft>>
          /\ \/ /\ pc' = "top" /\ done' = done /\ producer' = producer
                /\ wire'["manifest"] = wire["manifest"] \o hand["manifest"]
             \/ pc' = "sweep" /\ done' = TRUE /\ Wakes /\ wire' = wire
      BY <1>3, RoundIs
    <2>2. CASE pc' = "top"
      <3>1. WalkShape' /\ \A w \in Walker : Flushed(w)' = Flushed(w)
        BY <2>1, <2>2 DEF WalkShape, Flushed
      <3>2. Manifest' = Manifest
        <4> DEFINE a == wire["manifest"]
                   b == hand["manifest"]
        <4>1. a \in Seq(Frame) /\ b \in Seq(Frame) /\ outManifest \in Seq(Frame)
          BY ChannelsAre DEF SendInv
        <4>2. Manifest = a \o (b \o outManifest)
          BY DEF Manifest
        <4>3. Manifest' = (a \o b) \o (<<>> \o outManifest)
          BY <2>1, <2>2, ChannelsAre DEF Manifest, NoFrames
        <4> HIDE DEF a, b
        <4>4. <<>> \o outManifest = outManifest /\ (a \o b) \o outManifest = a \o (b \o outManifest)
          BY <4>1, ConcatEmptySeq, ConcatAssociative
        <4> QED
          BY <4>2, <4>3, <4>4
      <3>3. Sending
        BY <2>1 DEF Sending
      <3> QED
        BY <3>1, <3>2, <3>3, KeepEntries
    <2>3. CASE pc' = "sweep"
      <3>1. WalkShape'
        BY <2>1, <2>3, WakesShape
      <3>2. EntriesExact'
        BY <2>1, <2>3 DEF EntriesExact, Sending, EndsLast
      <3> QED
        BY <3>1, <3>2
    <2> QED
      BY <2>1, <2>2, <2>3
  <1>4. ASSUME QuietStep, \A w \in Walker : Flushed(w)' = Flushed(w) PROVE EntriesExact'
    BY <1>4 DEF QuietStep, EntriesExact, Sending, Manifest, EndsLast
  <1>5. CASE QuietStep /\ Wakes /\ UNCHANGED chunksLeft
    <2>1. WalkShape' /\ (producer'["tail"] = "off" <=> producer["tail"] = "off")
      BY <1>5, WakesShape DEF QuietStep
    <2> QED
      BY <1>4, <1>5, <2>1 DEF Flushed
  <1>6. CASE QuietStep /\ RecvManifestRequest
    <2>1. \A w \in Walker : Flushed(w)' = Flushed(w)
      <3>1. Chunk * (Chunks - Chunks) = 0
        BY SessionAssumption
      <3> QED
        BY <1>6, <3>1, StartShape DEF Flushed
    <2> QED
      BY <1>4, <1>6, <2>1, StartShape
  <1>7. CASE QuietStep /\ (WalkJoined \/ ManifestFails \/ \E p \in Producer : Sleep(p))
    <2>1. WalkShape' /\ UNCHANGED chunksLeft /\ (producer'["tail"] = "off" <=> producer["tail"] = "off")
      <3>0. "tail" \in Producer
        BY DEF Producer
      <3>1. CASE WalkJoined
        <4>1. PICK x \in {"finished", "test"} : producer' = [producer EXCEPT !["tail"] = x] /\ (x = "finished" => done)
          BY <3>1 DEF WalkJoined
        <4>2. /\ producer["tail"] = "walking" /\ UNCHANGED <<done, chunksLeft>>
              /\ \A w \in Walker : producer[w] = "finished"
          BY <3>1 DEF WalkJoined
        <4> QED
          BY <3>0, <4>1, <4>2, OneShape DEF Running
      <3>2. CASE ManifestFails
        <4>1. /\ producer["tail"] = "walking" /\ done' = TRUE /\ chunksLeft' = chunksLeft
              /\ producer' = [Woken(Asleep) EXCEPT !["tail"] = "finished"]
          BY <3>2 DEF ManifestFails
        <4>2. /\ producer' \in [Producer -> Running \cup {"off", "walking", "finished"}]
              /\ producer'["tail"] = "finished"
              /\ \A a \in Producer \ {"tail"} :
                   producer'[a] = producer[a] \/ (producer[a] = "asleep" /\ producer'[a] = "test")
          BY <3>0, <4>1 DEF Woken, Asleep, WalkShape, Running
        <4>3. \A a \in Producer \ {"tail"} : /\ producer'[a] \in Running <=> producer[a] \in Running
                            /\ \A x \in {"off", "walking", "finished"} :
                                 producer'[a] = x <=> producer[a] = x
          BY <4>2 DEF Running
        <4>4. Walker \subseteq Producer \ {"tail"}
          BY SessionAssumption DEF Producer
        <4> QED
          BY <4>1, <4>2, <4>3, <4>4 DEF WalkShape, Running
      <3>3. ASSUME NEW p \in Producer, Sleep(p)
            PROVE  WalkShape' /\ UNCHANGED chunksLeft /\ (producer'["tail"] = "off" <=> producer["tail"] = "off")
        <4>1. producer[p] = "sleeping" /\ producer' = [producer EXCEPT ![p] = "asleep"]
              /\ UNCHANGED <<done, chunksLeft>>
          BY <3>3 DEF Sleep
        <4> QED
          BY <4>1, OneShape DEF Running
      <3> QED
        BY <1>7, <3>1, <3>2, <3>3
    <2> QED
      BY <1>4, <1>7, <2>1 DEF Flushed
  <1> QED
    BY <1>1, <1>2, <1>3, <1>5, <1>6, <1>7, OtherSteps

-----------------------------------------------------------------------------
(* The replies.                                                            *)

LEMMA NoTerminalConcat ==
    ASSUME NEW s \in Seq(Frame), NEW t \in Seq(Frame), NoTerminal(s)
    PROVE  /\ NoTerminal(t) => NoTerminal(s \o t)
           /\ TerminalLast(t) => TerminalLast(s \o t)
  <1>1. /\ Len(s) \in Nat /\ Len(t) \in Nat /\ DOMAIN s = 1 .. Len(s) /\ DOMAIN t = 1 .. Len(t)
        /\ DOMAIN (s \o t) = 1 .. Len(s) + Len(t) /\ Len(s \o t) = Len(s) + Len(t)
        /\ \A i \in 1 .. Len(s) + Len(t) : (s \o t)[i] = IF i <= Len(s) THEN s[i] ELSE t[i - Len(s)]
    BY ConcatProperties, LenProperties
  <1>2. \A i \in DOMAIN (s \o t) : (s \o t)[i] \in Terminal =>
          i - Len(s) \in DOMAIN t /\ t[i - Len(s)] \in Terminal /\ i = Len(s) + (i - Len(s))
    BY <1>1 DEF NoTerminal
  <1>3. NoTerminal(t) => NoTerminal(s \o t)
    BY <1>2 DEF NoTerminal
  <1>4. ASSUME TerminalLast(t), NEW i \in DOMAIN (s \o t), (s \o t)[i] \in Terminal
        PROVE  i = Len(s \o t)
    <2>1. i - Len(s) = Len(t) /\ i \in Int
      BY <1>1, <1>2, <1>4 DEF TerminalLast
    <2> QED
      BY <1>1, <2>1
  <1> QED
    BY <1>3, <1>4 DEF TerminalLast

Over(b) == {"end", "error"} \cap Range(b) # {}

\* What a burst adds: its terminal frame, if any, is its last; without one it has a chunk;
\* with an end it has all the chunks left.
BurstFacts(r, ok) ==
    LET b == Burst(r, ok)
    IN  /\ TerminalLast(b) /\ (Over(b) \/ NoTerminal(b))
        /\ ~Over(b) => /\ left[r] >= 1 /\ (r \in FileReq \/ left[r] >= 2)
                       /\ Times("data", b) = 1 /\ Times("end", b) = 0
        /\ Times("end", b) = 0 \/ Times("data", b) = left[r]

\* A burst that ends with frame y.
LEMMA EndedBurst ==
    ASSUME NEW h \in Seq(BurstFrame), NEW y \in {"end", "error"}, NoTerminal(h)
    PROVE  LET b == h \o <<y>> IN TerminalLast(b) /\ Over(b)
  <1>1. <<y>> \in Seq(BurstFrame) /\ <<y>> \in Seq(Frame) /\ h \in Seq(Frame)
    BY UnitFrames, SeqMonotonic
  <1>2. TerminalLast(<<y>>)
    BY DEF TerminalLast
  <1>3. TerminalLast(h \o <<y>>)
    BY <1>1, <1>2, NoTerminalConcat
  <1>4. (h \o <<y>>)[Len(h) + 1] = y /\ Len(h) + 1 \in DOMAIN (h \o <<y>>)
    BY <1>1, ConcatProperties, LenProperties
  <1>5. y \in Range(h \o <<y>>)
    BY <1>4 DEF Range
  <1> QED
    BY <1>3, <1>5 DEF Over

LEMMA BurstHas == ASSUME NEW r, NEW ok, left[r] \in Nat PROVE BurstFacts(r, ok)
  <1>1. PICK h \in {<<>>, <<"header">>} :
             \/ ~ok /\ Burst(r, ok) = h \o <<"error">>
             \/ /\ ok /\ left[r] = 0 /\ Burst(r, ok) = h \o <<"end">>
             \/ /\ ok /\ left[r] = 1 /\ r \notin FileReq
                /\ Burst(r, ok) = h \o (<<"data">> \o <<"end">>)
             \/ /\ ok /\ left[r] >= 1 /\ (r \in FileReq \/ left[r] >= 2)
                /\ Burst(r, ok) = h \o <<"data">>
    BY BurstIs
  <1>2. h \in Seq(BurstFrame) /\ NoTerminal(h) /\ Times("data", h) = 0 /\ Times("end", h) = 0
    <2>1. NoTerminal(h) /\ \A i \in DOMAIN h : h[i] # "data" /\ h[i] # "end"
      BY DEF NoTerminal, Terminal
    <2> QED
      BY <2>1, UnitFrames, TimesAbsent
  <1> HIDE DEF Times
  <1>3. /\ Times("data", <<"error">>) = 0 /\ Times("end", <<"error">>) = 0
        /\ Times("data", <<"end">>) = 0 /\ Times("end", <<"end">>) = 1
        /\ Times("data", <<"data">>) = 1 /\ Times("end", <<"data">>) = 0
    BY TimesUnit
  <1>4. \A b \in Seq(BurstFrame), x \in {"data", "end"} : Times(x, h \o b) = Times(x, b)
    <2> SUFFICES ASSUME NEW b \in Seq(BurstFrame), NEW x \in {"data", "end"}
                 PROVE  Times(x, h \o b) = Times(x, b)
      OBVIOUS
    <2>1. Times(x, h \o b) = Times(x, h) + Times(x, b) /\ Times(x, b) \in Nat
      BY <1>2, TimesConcat, TimesType
    <2>2. Times(x, h) = 0
      BY <1>2
    <2> QED
      BY <2>1, <2>2
  <1>5. CASE ~ok /\ Burst(r, ok) = h \o <<"error">>
    <2>1. Times("end", h \o <<"error">>) = 0
      BY <1>3, <1>4, UnitFrames
    <2>2. TerminalLast(h \o <<"error">>) /\ Over(h \o <<"error">>)
      BY <1>2, EndedBurst
    <2> QED
      BY <1>5, <2>1, <2>2 DEF BurstFacts
  <1>6. CASE left[r] = 0 /\ Burst(r, ok) = h \o <<"end">>
    <2>1. Times("data", h \o <<"end">>) = 0
      BY <1>3, <1>4, UnitFrames
    <2>2. TerminalLast(h \o <<"end">>) /\ Over(h \o <<"end">>)
      BY <1>2, EndedBurst
    <2> QED
      BY <1>6, <2>1, <2>2 DEF BurstFacts
  <1>7. CASE left[r] = 1 /\ Burst(r, ok) = h \o (<<"data">> \o <<"end">>)
    <2> DEFINE d == <<"data">>
               e == <<"end">>
    <2>1. d \in Seq(BurstFrame) /\ e \in Seq(BurstFrame) /\ d \o e \in Seq(BurstFrame)
          /\ NoTerminal(d) /\ d \in Seq(Frame) /\ e \in Seq(Frame) /\ h \in Seq(Frame)
      BY <1>2, UnitFrames, SeqMonotonic DEF NoTerminal, Terminal
    <2>2. Times("data", d \o e) = Times("data", d) + Times("data", e)
      BY <2>1, TimesConcat
    <2>3. Times("data", h \o (d \o e)) = 1
      <3>1. Times("data", h \o (d \o e)) = Times("data", d \o e)
        BY <1>4, <2>1
      <3> QED
        BY <1>3, <2>2, <3>1
    <2>4. (h \o d) \o e = h \o (d \o e)
      <3> HIDE DEF d, e
      <3> QED
        BY <2>1, FramesConcat
    <2>5. h \o d \in Seq(BurstFrame) /\ NoTerminal(h \o d)
      <3> HIDE DEF d, e
      <3> QED
        BY <1>2, <2>1, ConcatProperties, NoTerminalConcat
    <2>6. TerminalLast((h \o d) \o e) /\ Over((h \o d) \o e)
      BY <2>5, EndedBurst
    <2> HIDE DEF d, e
    <2>7. Burst(r, ok) = h \o (d \o e)
      BY <1>7 DEF d, e
    <2> QED
      BY <1>7, <2>3, <2>4, <2>6, <2>7 DEF BurstFacts
  <1>8. CASE /\ left[r] >= 1 /\ (r \in FileReq \/ left[r] >= 2)
             /\ Burst(r, ok) = h \o <<"data">>
    <2> DEFINE d == <<"data">>
    <2>1. d \in Seq(BurstFrame) /\ NoTerminal(d) /\ d \in Seq(Frame) /\ h \in Seq(Frame)
      BY <1>2, UnitFrames, SeqMonotonic DEF NoTerminal, Terminal
    <2>2. Times("data", h \o d) = 1 /\ Times("end", h \o d) = 0
      BY <1>3, <1>4, UnitFrames
    <2>3. NoTerminal(h \o d)
      <3> HIDE DEF d
      <3> QED
        BY <1>2, <2>1, NoTerminalConcat
    <2>4. TerminalLast(h \o d)
      BY <2>3 DEF NoTerminal, TerminalLast
    <2> HIDE DEF d
    <2>5. Burst(r, ok) = h \o d
      BY <1>8 DEF d
    <2> QED
      BY <1>8, <2>2, <2>3, <2>4, <2>5 DEF BurstFacts
  <1> QED
    BY <1>1, <1>5, <1>6, <1>7, <1>8

\* A request nothing happens to.
LEMMA SameRequest ==
    ASSUME NEW r, RequestInv(r), wire'[r] = wire[r], hand'[r] = hand[r],
           r \in Range(outHigh') <=> r \in Range(outHigh),
           r \in received' <=> r \in received, r \in Digest => job'[r] = job[r],
           r \in pendingNew' <=> r \in pendingNew, r \in active' <=> r \in active,
           left'[r] = left[r], Sending' => Sending
    PROVE  RequestInv(r)'
  <1>1. Silent(r)' <=> Silent(r)
    BY DEF Silent, Range
  <1>2. EndFollowsChunks(r)' <=> EndFollowsChunks(r)
    BY DEF EndFollowsChunks
  <1>3. r \in Range(outHigh)' <=> r \in Range(outHigh)
    BY DEF Range
  <1> QED
    BY <1>1, <1>2, <1>3 DEF RequestInv, NoTerminal, TerminalLast, Sizes

LEMMA AppendRange ==
    ASSUME outHigh \in Seq(Req), NEW r \in Req, r \notin Range(outHigh),
           \A i, j \in DOMAIN outHigh : outHigh[i] = outHigh[j] => i = j
    PROVE  LET q == Append(outHigh, r)
           IN  Range(q) = Range(outHigh) \cup {r} /\ \A i, j \in DOMAIN q : q[i] = q[j] => i = j
  <1> DEFINE q == Append(outHigh, r)
  <1>1. /\ DOMAIN q = 1 .. Len(outHigh) + 1 /\ DOMAIN outHigh = 1 .. Len(outHigh) /\ Len(outHigh) \in Nat
        /\ \A i \in 1 .. Len(outHigh) : q[i] = outHigh[i]
        /\ q[Len(outHigh) + 1] = r
    BY AppendProperties, LenProperties
  <1> HIDE DEF q
  <1>2. \A i \in 1 .. Len(outHigh) : outHigh[i] # r
    BY <1>1 DEF Range
  <1>3. \A i, j \in DOMAIN q : q[i] = q[j] => i = j
    BY <1>1, <1>2
  <1>4. Range(q) = Range(outHigh) \cup {r}
    <2>1. \A i \in 1 .. Len(outHigh) + 1 : i \in 1 .. Len(outHigh) \/ i = Len(outHigh) + 1
      BY <1>1
    <2> QED
      BY <1>1, <2>1 DEF Range
  <1> QED
    BY <1>3, <1>4 DEF q

replyVars == <<outHigh, wire, hand, job, received, pendingNew, active, left>>

\* A new request is refused or answered at once, given to a job, handed over, or ignored.
Arrives(r) ==
    /\ r \in Req /\ r \notin received /\ received' = received \cup {r}
    /\ UNCHANGED <<wire, hand, active, pc>>
    /\ \/ outHigh' = Append(outHigh, r) /\ UNCHANGED <<job, pendingNew, left>>
       \/ /\ r \in Digest /\ job' = [job EXCEPT ![r] = "queued"]
          /\ UNCHANGED <<outHigh, pendingNew, left>>
       \/ /\ r \in Stream /\ pendingNew' = pendingNew \cup {r}
          /\ \E n \in Sizes(r) : left' = [left EXCEPT ![r] = n]
          /\ UNCHANGED <<outHigh, job>>
       \/ UNCHANGED <<outHigh, job, pendingNew, left>>

\* A job goes on, and may answer.
Works(r) ==
    /\ r \in Digest /\ UNCHANGED <<wire, hand, active, pc, received, pendingNew, left>>
    /\ \/ /\ job[r] \in {"queued", "digested"} /\ job' = [job EXCEPT ![r] = "answered"]
          /\ outHigh' = outHigh \/ outHigh' = Append(outHigh, r)
       \/ /\ job[r] \in {"queued", "answered"} /\ outHigh' = outHigh
          /\ job' = [job EXCEPT ![r] = IF job[r] = "queued" THEN "digested" ELSE "finished"]

LEMMA ReplySteps ==
    ASSUME SendInv, [Next]_vars
    PROVE  \/ \E r \in Req : Arrives(r)
           \/ \E r \in Digest : Works(r)
           \/ SenderDrain \/ SenderSend \/ SenderThrows
           \/ UNCHANGED replyVars /\ (Sending' => Sending)
  <1> USE DEF sendVars, queueVars, strmVars, jobVars, netVars, replyVars
  <1>1. CASE Receiver
    <2>1. CASE RecvManifestRequest \/ RecvSyncDone \/ RecvThrows \/ RecvExits
      <3>1. UNCHANGED replyVars /\ pc' = pc
        BY <2>1 DEF RecvManifestRequest, RecvSyncDone, RecvThrows, RecvExits
      <3> QED
        BY <3>1 DEF Sending
    <2>2. ASSUME NEW r \in Req, RecvHashRequest(r) \/ RecvBlockSigRequest(r)
          PROVE  Arrives(r)
      <3>1. AnswerOrEnqueue(r) /\ r \in Digest
        BY <2>2 DEF RecvHashRequest, RecvBlockSigRequest, Digest
      <3> QED
        BY <3>1 DEF AnswerOrEnqueue, Takes, EnqueueHigh, Arrives
    <2>3. ASSUME NEW r \in Req, RecvIgnored(r) PROVE Arrives(r)
      BY <2>3 DEF RecvIgnored, Takes, Arrives
    <2>4. ASSUME NEW r \in Req, RecvFileOpen(r) \/ RecvFileBatchOpen(r) \/ RecvRangeOpen(r)
          PROVE  Arrives(r)
      <3>1. /\ r \in Stream /\ Takes(r) /\ UNCHANGED <<wire, hand, active, pc, job>>
            /\ \/ Refuse(r)
               \/ \E n \in {0, Length}, x \in {"none", "open"} :
                    HandOver(r, n, x) /\ (r \in RangeReq => n = Length)
        <4>1. (FileReq \cup BatchReq) \cap RangeReq = {}
          BY SessionAssumption
        <4>2. CASE RecvFileOpen(r)
          BY <4>1, <4>2 DEF RecvFileOpen, Stream
        <4>3. CASE RecvFileBatchOpen(r)
          BY <4>1, <4>3 DEF RecvFileBatchOpen, Stream
        <4>4. CASE RecvRangeOpen(r)
          BY <4>4 DEF RecvRangeOpen, Stream
        <4> QED
          BY <2>4, <4>2, <4>3, <4>4
      <3>2. CASE Refuse(r)
        BY <3>1, <3>2 DEF Refuse, EnqueueHigh, Takes, Arrives
      <3>3. ASSUME NEW n \in {0, Length}, NEW x, HandOver(r, n, x), r \in RangeReq => n = Length
            PROVE  Arrives(r)
        <4>1. n \in Sizes(r)
          BY <3>3 DEF Sizes
        <4> QED
          BY <3>1, <3>3, <4>1 DEF HandOver, Takes, Arrives
      <3> QED
        BY <3>1, <3>2, <3>3
    <2> QED
      BY <1>1, <2>1, <2>2, <2>3, <2>4 DEF Receiver
  <1>2. CASE Sweep \/ JoinThreads \/ DrainJobs \/ Release
    <2>1. UNCHANGED replyVars /\ pc' \notin {"top", "serve"}
      BY <1>2 DEF Sweep, JoinThreads, DrainJobs, Release
    <2> QED
      BY <2>1 DEF Sending
  <1>3. CASE ManifestStep \/ FileChanges
    <2>1. UNCHANGED replyVars /\ pc' = pc
      BY <1>3 DEF ManifestStep, WalkJoined, ManifestFails, Flush, Sleep, FileChanges
    <2> QED
      BY <2>1 DEF Sending
  <1>4. ASSUME NEW r \in Digest, JobDigests(r) \/ JobAnswers(r) \/ JobFinishes(r)
        PROVE  Works(r)
    <2>1. CASE JobDigests(r)
      BY <2>1 DEF JobDigests, Works
    <2>2. CASE JobAnswers(r)
      BY <2>2 DEF JobAnswers, EnqueueHigh, Works
    <2>3. CASE JobFinishes(r)
      BY <2>3 DEF JobFinishes, Works
    <2> QED
      BY <1>4, <2>1, <2>2, <2>3
  <1>5. CASE UNCHANGED vars
    BY <1>5 DEF vars, progress, Sending
  <1> QED
    BY <1>1, <1>2, <1>3, <1>4, <1>5 DEF Next, Sender

LEMMA ArrivesReply ==
    ASSUME SendInv, ReplyInv, NEW r \in Req, Arrives(r)
    PROVE  ReplyInv'
  <1>1. RequestInv(r) /\ Silent(r) /\ r \notin pendingNew /\ r \notin active
        /\ (r \in Digest => job[r] = "none")
    BY DEF ReplyInv, RequestInv, Arrives
  <1>2. outHigh \in Seq(Req) /\ r \notin Range(outHigh)
        /\ \A i, j \in DOMAIN outHigh : outHigh[i] = outHigh[j] => i = j
    BY <1>1 DEF SendInv, Silent, ReplyInv
  <1>3. /\ \A i, j \in DOMAIN outHigh' : outHigh'[i] = outHigh'[j] => i = j
        /\ Range(outHigh') \in {Range(outHigh), Range(outHigh) \cup {r}}
        /\ (outHigh' # outHigh => UNCHANGED <<job, pendingNew, left>>)
    <2>1. CASE outHigh' = outHigh
      BY <1>2, <2>1
    <2>2. CASE outHigh' = Append(outHigh, r) /\ UNCHANGED <<job, pendingNew, left>>
      BY <1>2, <2>2, AppendRange
    <2> QED
      BY <2>1, <2>2 DEF Arrives
  <1>4. /\ job' \in [Digest -> {"none", "queued", "digested", "answered", "finished"}]
        /\ \A x \in Digest \ {r} : job'[x] = job[x]
        /\ pendingNew' \subseteq Stream /\ pendingNew' \subseteq pendingNew \cup {r}
        /\ pendingNew \subseteq pendingNew'
    BY DEF ReplyInv, Arrives
  <1>5. left' \in [Stream -> Nat] /\ (\A x \in Req \ {r} : left'[x] = left[x])
        /\ (r \in pendingNew' => left'[r] \in Sizes(r))
    <2>1. CASE UNCHANGED <<left, pendingNew>>
      BY <1>1, <2>1 DEF ReplyInv
    <2>2. CASE r \in Stream /\ \E n \in Sizes(r) : left' = [left EXCEPT ![r] = n]
      <3>1. \A n \in Sizes(r) : n \in Nat
        BY SessionAssumption DEF Sizes
      <3> QED
        BY <2>2, <3>1 DEF ReplyInv
    <2> QED
      BY <2>1, <2>2 DEF Arrives
  <1>6. received' = received \cup {r} /\ UNCHANGED <<wire, hand, active, pc>>
    BY DEF Arrives
  <1>7. ASSUME NEW x \in Req, x # r PROVE RequestInv(x)'
    <2>1. RequestInv(x) /\ (Sending' => Sending)
      BY <1>6 DEF ReplyInv, Sending
    <2>2. /\ x \in Range(outHigh') <=> x \in Range(outHigh)
          /\ x \in received' <=> x \in received
          /\ x \in pendingNew' <=> x \in pendingNew
          /\ x \in active' <=> x \in active
          /\ x \in Digest => job'[x] = job[x]
          /\ left'[x] = left[x] /\ wire'[x] = wire[x] /\ hand'[x] = hand[x]
      BY <1>3, <1>4, <1>5, <1>6, <1>7
    <2> QED
      BY <2>1, <2>2, SameRequest
  <1>8. RequestInv(r)'
    <2>1. wire'[r] = <<>> /\ hand'[r] = <<>> /\ r \in received' /\ r \notin active'
      BY <1>1, <1>6 DEF Silent
    <2>2. r \in Digest /\ job'[r] # "none" => outHigh' = outHigh
      BY <1>1, <1>3
    <2>3. r \in pendingNew' => outHigh' = outHigh
      BY <1>1, <1>3
    <2>4. outHigh' = outHigh => Silent(r)'
      BY <1>2, <2>1 DEF Silent, Range
    <2>5. TerminalLast(wire[r])'
      BY <2>1 DEF TerminalLast
    <2>6. EndFollowsChunks(r)'
      <3>1. Times("end", wire'[r]) = 0
        BY <2>1, TimesAbsent
      <3> QED
        BY <3>1 DEF EndFollowsChunks
    <2> QED
      BY <1>5, <2>1, <2>2, <2>3, <2>4, <2>5, <2>6 DEF RequestInv, Sizes
  <1> QED
    BY <1>3, <1>4, <1>5, <1>6, <1>7, <1>8 DEF ReplyInv

LEMMA WorksReply ==
    ASSUME SendInv, ReplyInv, NEW r \in Digest, Works(r)
    PROVE  ReplyInv'
  <1>0. r \in Req /\ r \notin Stream
    BY ChannelsAre
  <1>1. RequestInv(r) /\ r \notin pendingNew /\ r \notin active /\ job[r] # "none" /\ r \in received
        /\ (job[r] \in {"queued", "digested"} => Silent(r))
    BY <1>0 DEF ReplyInv, RequestInv, Works
  <1>2. outHigh \in Seq(Req)
        /\ \A i, j \in DOMAIN outHigh : outHigh[i] = outHigh[j] => i = j
    BY DEF SendInv, ReplyInv
  <1>3. /\ \A i, j \in DOMAIN outHigh' : outHigh'[i] = outHigh'[j] => i = j
        /\ \/ outHigh' = outHigh
           \/ Range(outHigh') = Range(outHigh) \cup {r} /\ Silent(r) /\ job'[r] = "answered"
    <2>1. CASE outHigh' = outHigh
      BY <1>2, <2>1
    <2>2. CASE outHigh' = Append(outHigh, r) /\ job[r] \in {"queued", "digested"}
               /\ job' = [job EXCEPT ![r] = "answered"]
      <3>1. r \notin Range(outHigh) /\ Silent(r) /\ job'[r] = "answered"
        BY <1>1, <2>2 DEF Silent, ReplyInv
      <3> QED
        BY <1>0, <1>2, <2>2, <3>1, AppendRange
    <2> QED
      BY <2>1, <2>2 DEF Works
  <1>4. /\ job' \in [Digest -> {"none", "queued", "digested", "answered", "finished"}]
        /\ \A x \in Digest \ {r} : job'[x] = job[x]
        /\ job'[r] = "queued" => FALSE
        /\ job'[r] = "digested" => job[r] = "queued" /\ outHigh' = outHigh
    BY DEF ReplyInv, Works
  <1>5. UNCHANGED <<wire, hand, active, pc, received, pendingNew, left>>
    BY DEF Works
  <1>6. ASSUME NEW x \in Req, x # r PROVE RequestInv(x)'
    <2>1. RequestInv(x) /\ (Sending' => Sending)
      BY <1>5 DEF ReplyInv, Sending
    <2>2. /\ x \in Range(outHigh') <=> x \in Range(outHigh)
          /\ x \in Digest => job'[x] = job[x]
      BY <1>3, <1>4, <1>6
    <2> QED
      BY <1>5, <2>1, <2>2, SameRequest
  <1>7. RequestInv(r)'
    <2>1. outHigh' = outHigh \/ (wire'[r] = <<>> /\ hand'[r] = <<>>)
      BY <1>3, <1>5 DEF Silent
    <2>2. job'[r] \in {"queued", "digested"} => Silent(r)'
      BY <1>1, <1>4, <1>5 DEF Silent, Range
    <2>3. r \in Range(outHigh)' => wire'[r] = <<>> /\ hand'[r] = <<>>
      <3>1. outHigh' = outHigh => (r \in Range(outHigh)' => r \in Range(outHigh))
        BY DEF Range
      <3> QED
        BY <1>1, <1>5, <2>1, <3>1 DEF RequestInv
    <2>4. /\ hand'[r] \in {<<>>, <<"reply">>} /\ (hand'[r] # <<>> => wire'[r] = <<>>)
          /\ TerminalLast(wire[r])'
      BY <1>1, <1>5 DEF RequestInv, TerminalLast
    <2> QED
      BY <1>0, <1>1, <1>5, <2>2, <2>3, <2>4 DEF RequestInv
  <1> QED
    BY <1>3, <1>4, <1>5, <1>6, <1>7 DEF ReplyInv

LEMMA DrainReply ==
    ASSUME SendInv, ReplyInv, SenderDrain
    PROVE  ReplyInv'
  <1>1. /\ pc = "top" /\ wire' = wire /\ hand = NoFrames /\ Sending
        /\ active' = active \cup pendingNew /\ pendingNew' = {} /\ UNCHANGED <<left, job, received>>
    BY SenderDrainIs DEF Sending
  <1>2. PICK h \in 0 .. Len(outHigh) :
          /\ outHigh' = SubSeq(outHigh, h + 1, Len(outHigh))
          /\ \A c \in Channel \ {"manifest"} :
               hand'[c] = IF c \in {outHigh[i] : i \in 1 .. h} THEN <<"reply">> ELSE <<>>
    BY SenderDrainIs
  <1>3. /\ outHigh \in Seq(Req) /\ Len(outHigh) \in Nat /\ DOMAIN outHigh = 1 .. Len(outHigh)
        /\ \A i, j \in DOMAIN outHigh : outHigh[i] = outHigh[j] => i = j
    BY LenProperties DEF SendInv, ReplyInv
  <1>4. /\ DOMAIN outHigh' = 1 .. Len(outHigh) - h
        /\ \A i \in 1 .. Len(outHigh) - h : outHigh'[i] = outHigh[h + i]
    <2> DEFINE n == Len(outHigh)
               q == SubSeq(outHigh, h + 1, n)
    <2>1. n \in Nat /\ h \in 0 .. n /\ \A i \in h + 1 .. n : outHigh[i] \in Req
      BY <1>3
    <2> HIDE DEF n
    <2>2. /\ q \in Seq(Req) /\ Len(q) = (IF h + 1 <= n THEN n - (h + 1) + 1 ELSE 0)
          /\ \A i \in 1 .. n - (h + 1) + 1 : q[i] = outHigh[(h + 1) + i - 1]
      BY <2>1, SubSeqProperties
    <2> HIDE DEF q
    <2>3. Len(q) = n - h /\ \A i \in 1 .. n - h : q[i] = outHigh[h + i]
      <3>1. n - (h + 1) + 1 = n - h /\ \A i \in 1 .. n - h : (h + 1) + i - 1 = h + i
        BY <2>1
      <3> QED
        BY <2>1, <2>2, <3>1
    <2>4. DOMAIN q = 1 .. n - h
      BY <2>2, <2>3, LenProperties
    <2> QED
      BY <1>2, <2>3, <2>4 DEF n, q
  <1>5. \A i, j \in DOMAIN outHigh' : outHigh'[i] = outHigh'[j] => i = j
    BY <1>3, <1>4
  <1>6. \A x \in Req : /\ x \in Range(outHigh') => x \in Range(outHigh) /\ x \notin {outHigh[i] : i \in 1 .. h}
                       /\ x \in {outHigh[i] : i \in 1 .. h} => x \in Range(outHigh)
    <2> SUFFICES ASSUME NEW x \in Req
                 PROVE  /\ x \in Range(outHigh') => x \in Range(outHigh) /\ x \notin {outHigh[i] : i \in 1 .. h}
                        /\ x \in {outHigh[i] : i \in 1 .. h} => x \in Range(outHigh)
      OBVIOUS
    <2>1. ASSUME NEW k \in DOMAIN outHigh', x = outHigh'[k]
          PROVE  x \in Range(outHigh) /\ x \notin {outHigh[i] : i \in 1 .. h}
      <3>1. h + k \in 1 .. Len(outHigh) /\ h + k > h /\ outHigh[h + k] = x
        BY <1>3, <1>4, <2>1
      <3>2. \A i \in 1 .. h : i \in 1 .. Len(outHigh) /\ i # h + k
        BY <1>3, <3>1
      <3> QED
        BY <1>3, <3>1, <3>2 DEF Range
    <2>2. \A i \in 1 .. h : i \in DOMAIN outHigh
      BY <1>3
    <2> QED
      BY <2>1, <2>2 DEF Range
  <1>7. ASSUME NEW x \in Req PROVE RequestInv(x)'
    <2>1. RequestInv(x) /\ wire'[x] = wire[x] /\ hand[x] = <<>> /\ x \in Channel \ {"manifest"}
      BY <1>1, ChannelsAre DEF ReplyInv, NoFrames
    <2>2. hand'[x] = IF x \in {outHigh[i] : i \in 1 .. h} THEN <<"reply">> ELSE <<>>
      BY <1>2, <2>1
    <2>3. Range(outHigh)' = Range(outHigh')
      BY DEF Range
    <2>4. /\ x \in Range(outHigh') => x \in Range(outHigh) /\ hand'[x] = <<>>
          /\ x \notin Range(outHigh) => hand'[x] = <<>> /\ x \notin Range(outHigh')
      BY <1>6, <2>2
    <2>5. Silent(x) => Silent(x)'
      BY <2>1, <2>3, <2>4 DEF Silent
    <2>6. x \in active' => /\ x \in received' /\ x \notin Range(outHigh)'
                           /\ hand'[x] = <<>> /\ NoTerminal(wire[x])'
                           /\ Times("data", wire'[x]) + left'[x] \in Sizes(x)
      <3>1. CASE x \in active
        BY <1>1, <2>1, <2>3, <2>4, <3>1 DEF RequestInv, NoTerminal
      <3>2. CASE x \in pendingNew
        <4>1. wire'[x] = <<>> /\ x \in received /\ x \notin Range(outHigh) /\ left[x] \in Sizes(x)
          BY <2>1, <3>2 DEF RequestInv, Silent
        <4>2. Times("data", <<>>) = 0
          BY TimesAbsent
        <4>3. left[x] \in Nat /\ 0 + left[x] = left[x]
          BY <3>2 DEF ReplyInv
        <4> QED
          BY <1>1, <2>3, <2>4, <4>1, <4>2, <4>3 DEF NoTerminal
      <3> QED
        BY <1>1, <3>1, <3>2
    <2>7. EndFollowsChunks(x)' <=> EndFollowsChunks(x)
      BY <2>1 DEF EndFollowsChunks
    <2>8. /\ hand'[x] \in {<<>>, <<"reply">>} /\ TerminalLast(wire[x])'
          /\ hand'[x] # <<>> => wire'[x] = <<>>
          /\ x \in Range(outHigh)' => wire'[x] = <<>> /\ hand'[x] = <<>>
      BY <1>6, <2>1, <2>2, <2>3, <2>4 DEF RequestInv, TerminalLast
    <2> QED
      BY <1>1, <2>1, <2>5, <2>6, <2>7, <2>8 DEF RequestInv, Sizes
  <1> QED
    BY <1>1, <1>5, <1>7 DEF ReplyInv

LEMMA RoundReply ==
    ASSUME SendInv, ReplyInv, SenderSend \/ SenderThrows
    PROVE  ReplyInv'
  <1>0. active \subseteq Stream /\ left \in [Stream -> Nat]
    BY DEF ReplyInv
  <1>1. /\ pc = "serve" /\ hand' = NoFrames /\ outHigh' = outHigh
        /\ \/ pc' = "top"
           \/ pc' = "sweep" /\ wire' = wire
        /\ UNCHANGED <<pendingNew, job, received>> /\ Sending
    BY <1>0, RoundIs DEF Sending
  <1>2. PICK broken \in SUBSET active :
          /\ Serve(broken)
          /\ pc' = "top" => \A c \in Channel : wire'[c] = wire[c] \o
               (hand[c] \o (IF c \in active THEN Burst(c, c \notin broken) ELSE <<>>))
    BY <1>0, RoundIs
  <1> DEFINE B(r) == Burst(r, r \notin broken)
  <1>3. /\ active' = {r \in active : ~Over(B(r))}
        /\ left' = [r \in Stream |-> IF r \notin active THEN left[r]
                                     ELSE IF Over(B(r)) THEN 0 ELSE left[r] - 1]
    BY <1>2 DEF Serve, Over
  <1>4. \A r \in active : BurstFacts(r, r \notin broken) /\ B(r) \in Seq(Frame) /\ left[r] \in Nat
    BY <1>0, BurstHas, BurstType
  <1>5. left' \in [Stream -> Nat]
    <2>1. ASSUME NEW r \in active, ~Over(B(r)) PROVE left[r] - 1 \in Nat
      BY <1>4, <2>1 DEF BurstFacts
    <2> QED
      BY <1>0, <1>3, <2>1
  <1> HIDE DEF B
  <1>6. ASSUME NEW x \in Req PROVE RequestInv(x)'
    <2>1. /\ RequestInv(x) /\ hand'[x] = <<>> /\ x \in Channel /\ wire[x] \in Seq(Frame)
          /\ hand[x] \in Seq(Frame) /\ Range(outHigh)' = Range(outHigh)
      BY <1>1, ChannelsAre DEF ReplyInv, NoFrames, SendInv, Range
    <2>2. CASE pc' = "sweep"
      <3>1. wire'[x] = wire[x] /\ ~Sending' /\ active' \subseteq active
        BY <1>1, <1>3, <2>2 DEF Sending
      <3>2. Silent(x) => Silent(x)'
        BY <2>1, <3>1 DEF Silent
      <3>3. x \in pendingNew => left'[x] = left[x]
        BY <1>3, <2>1 DEF RequestInv, ReplyInv
      <3>4. EndFollowsChunks(x)' <=> EndFollowsChunks(x)
        BY <3>1 DEF EndFollowsChunks
      <3>5. NoTerminal(wire[x])' = NoTerminal(wire[x]) /\ TerminalLast(wire[x])' = TerminalLast(wire[x])
        BY <3>1 DEF NoTerminal, TerminalLast
      <3> QED
        BY <1>1, <2>1, <3>1, <3>2, <3>3, <3>4, <3>5 DEF RequestInv, Sizes
    <2>3. CASE pc' = "top" /\ x \notin active
      <3>1. wire'[x] = wire[x] \o hand[x]
        <4>1. hand[x] \o <<>> = hand[x]
          BY <2>1, ConcatEmptySeq
        <4> QED
          BY <1>2, <2>1, <2>3, <4>1
      <3>2. x \notin active'
        BY <1>3, <2>3
      <3>3. x \in Stream => left'[x] = left[x]
        BY <1>3, <2>3
      <3>4. CASE hand[x] = <<>>
        <4>1. wire'[x] = wire[x]
          BY <2>1, <3>1, <3>4, ConcatEmptySeq
        <4>2. EndFollowsChunks(x)' <=> EndFollowsChunks(x)
          BY <4>1 DEF EndFollowsChunks
        <4>3. Silent(x) => Silent(x)'
          BY <2>1, <4>1 DEF Silent
        <4>4. TerminalLast(wire[x])' = TerminalLast(wire[x])
          BY <4>1 DEF TerminalLast
        <4> QED
          BY <1>0, <1>1, <2>1, <3>2, <3>3, <4>1, <4>2, <4>3, <4>4 DEF RequestInv, Sizes, ReplyInv
      <3>5. CASE hand[x] = <<"reply">>
        <4>1. wire'[x] = <<"reply">> /\ hand[x] # <<>>
          <5>1. hand[x] # <<>> /\ wire[x] = <<>>
            BY <2>1, <3>5 DEF RequestInv
          <5>2. <<>> \o hand[x] = hand[x]
            BY <2>1, ConcatEmptySeq
          <5> QED
            BY <3>1, <3>5, <5>1, <5>2
        <4>2. ~Silent(x) /\ x \notin Range(outHigh)
          BY <2>1, <4>1 DEF Silent, RequestInv
        <4>3. EndFollowsChunks(x)'
          <5>1. Times("end", wire'[x]) = 0
            BY <4>1, TimesUnit
          <5> QED
            BY <5>1 DEF EndFollowsChunks
        <4>4. TerminalLast(wire[x])'
          BY <4>1 DEF TerminalLast
        <4> QED
          BY <1>1, <2>1, <3>2, <4>2, <4>3, <4>4 DEF RequestInv
      <3> QED
        BY <2>1, <3>4, <3>5 DEF RequestInv
    <2>4. CASE pc' = "top" /\ x \in active
      <3> DEFINE b == B(x)
                 w == wire[x]
      <3>1. /\ w \in Seq(Frame) /\ b \in Seq(Frame) /\ NoTerminal(w) /\ TerminalLast(b)
            /\ (Over(b) \/ NoTerminal(b)) /\ x \in Stream /\ left[x] \in Nat
            /\ ~Over(b) => left[x] >= 1 /\ Times("data", b) = 1 /\ Times("end", b) = 0
            /\ Times("end", b) = 0 \/ Times("data", b) = left[x]
        BY <1>0, <1>4, <2>1, <2>4 DEF BurstFacts, B, RequestInv
      <3>2. wire'[x] = w \o b
        <4>1. <<>> \o b = b
          BY <3>1, ConcatEmptySeq
        <4>2. hand[x] = <<>>
          BY <2>1, <2>4 DEF RequestInv
        <4> QED
          BY <1>2, <2>1, <2>4, <4>1, <4>2 DEF B
      <3>3. x \in active' <=> ~Over(b)
        BY <1>3, <2>4
      <3>4. x \in active' => left'[x] = left[x] - 1
        BY <1>3, <2>4, <3>1, <3>3
      <3>5. Times("data", w) + left[x] \in Sizes(x) /\ x \notin Range(outHigh) /\ x \in received
            /\ x \notin pendingNew
        BY <1>1, <2>1, <2>4 DEF RequestInv
      <3>6. ~(~(x \in received)) /\ (x \in Digest => FALSE)
        BY <3>1, <3>5, ChannelsAre
      <3> HIDE DEF b, w
      <3>7. /\ Times("data", w \o b) = Times("data", w) + Times("data", b)
            /\ Times("end", w \o b) = Times("end", w) + Times("end", b)
            /\ Times("data", w) \in Nat /\ Times("data", b) \in Nat /\ Times("end", b) \in Nat
        BY <3>1, TimesConcat, TimesType
      <3>8. Times("end", w) = 0
        BY <3>1, TimesAbsent DEF NoTerminal, Terminal
      <3>9. TerminalLast(w \o b) /\ (~Over(b) => NoTerminal(w \o b))
        BY <3>1, NoTerminalConcat
      <3>10. TerminalLast(wire[x])' /\ (~Over(b) => NoTerminal(wire[x])')
        BY <3>2, <3>9 DEF TerminalLast, NoTerminal
      <3>11. x \in active' => Times("data", wire'[x]) + left'[x] \in Sizes(x)
        <4>1. ASSUME x \in active' PROVE Times("data", w \o b) + left'[x] = Times("data", w) + left[x]
          BY <3>1, <3>3, <3>4, <3>7, <4>1
        <4> QED
          BY <3>2, <3>5, <4>1
      <3>12. EndFollowsChunks(x)'
        <4>1. ASSUME Times("end", w \o b) > 0 PROVE Times("data", w \o b) \in Sizes(x)
          <5>1. Times("data", b) = left[x]
            BY <3>1, <3>7, <3>8, <4>1
          <5> QED
            BY <3>5, <3>7, <5>1
        <4> QED
          BY <3>2, <4>1 DEF EndFollowsChunks, Sizes
      <3> QED
        BY <1>1, <2>1, <3>3, <3>5, <3>6, <3>10, <3>11, <3>12 DEF RequestInv, Sizes
    <2> QED
      BY <1>1, <2>2, <2>3, <2>4
  <1>7. active' \subseteq Stream
    BY <1>0, <1>3
  <1> QED
    BY <1>1, <1>5, <1>6, <1>7 DEF ReplyInv

LEMMA NextReply ==
    ASSUME SendInv, ReplyInv, [Next]_vars
    PROVE  ReplyInv'
  <1>1. CASE UNCHANGED replyVars /\ (Sending' => Sending)
    <2>1. \A x \in Req : RequestInv(x)'
      <3> SUFFICES ASSUME NEW x \in Req PROVE RequestInv(x)'
        OBVIOUS
      <3>1. RequestInv(x)
        BY DEF ReplyInv
      <3> QED
        BY <1>1, <3>1, SameRequest DEF replyVars
    <2> QED
      BY <1>1, <2>1 DEF ReplyInv, replyVars
  <1> QED
    BY <1>1, ReplySteps, ArrivesReply, WorksReply, DrainReply, RoundReply

\* sync_engine_server.cpp, the send loop: however replies, streams, short reads, walkers and
\* the teardown interleave, each request gets one terminal frame and nothing after it, an end
\* of a file, batch or range follows all its chunks, and ManifestEnd all entries.
THEOREM RepliesHold == Spec => []RepliesWellFormed
  <1> DEFINE Inv == SendInv /\ WalkShape /\ EntriesExact /\ ReplyInv
  <1>1. Init => Inv
    <2> SUFFICES ASSUME Init PROVE Inv
      OBVIOUS
    <2>1. SendInv
      <3>1. NoFrames \in [Channel -> Seq(Frame)] /\ <<>> \in Seq(Frame) /\ <<>> \in Seq(Req)
        BY EmptySeq DEF NoFrames
      <3> QED
        BY <3>1 DEF SendInv, Init, Sending
    <2>2. WalkShape
      BY SessionAssumption DEF WalkShape, Init, Producer, Running
    <2>3. EntriesExact
      <3>1. wire["manifest"] = <<>> /\ hand["manifest"] = <<>> /\ outManifest = <<>>
        BY ChannelsAre DEF Init, NoFrames
      <3>2. <<>> \o <<>> = <<>>
        BY EmptySeq, ConcatEmptySeq
      <3>3. Manifest = <<>>
        BY <3>1, <3>2 DEF Manifest
      <3>4. EndsLast(<<>>) /\ \A w \in Walker : Times(w, <<>>) = 0
        BY TimesAbsent DEF EndsLast
      <3>5. producer["tail"] = "off"
        BY DEF Init, Producer
      <3> QED
        BY <3>1, <3>3, <3>4, <3>5 DEF EntriesExact, Flushed
    <2>4. ReplyInv
      <3>1. outHigh = <<>> /\ Range(outHigh) = {}
        BY DEF Init, Range
      <3>2. ASSUME NEW r \in Req PROVE RequestInv(r)
        <4>1. wire[r] = <<>> /\ hand[r] = <<>>
          BY ChannelsAre DEF Init, NoFrames
        <4>2. Silent(r) /\ TerminalLast(wire[r])
          BY <3>1, <4>1 DEF Silent, TerminalLast
        <4>3. EndFollowsChunks(r)
          <5>1. Times("end", <<>>) = 0
            BY TimesAbsent
          <5> QED
            BY <4>1, <5>1 DEF EndFollowsChunks
        <4> QED
          BY <4>1, <4>2, <4>3 DEF RequestInv, Init
      <3>3. job \in [Digest -> {"none", "queued", "digested", "answered", "finished"}]
            /\ pendingNew = {} /\ active = {} /\ left \in [Stream -> Nat]
        BY DEF Init
      <3> QED
        BY <3>1, <3>2, <3>3 DEF ReplyInv
    <2> QED
      BY <2>1, <2>2, <2>3, <2>4
  <1>2. Inv /\ [Next]_vars => Inv'
    <2> SUFFICES ASSUME Inv, [Next]_vars PROVE Inv'
      OBVIOUS
    <2>1. active \subseteq Stream /\ left \in [Stream -> Nat]
      BY DEF ReplyInv
    <2>2. SendInv'
      BY <2>1, NextSend
    <2>3. WalkShape' /\ EntriesExact'
      BY <2>1, <2>2, NextWalk
    <2>4. ReplyInv'
      BY NextReply
    <2> QED
      BY <2>2, <2>3, <2>4
  <1>3. Inv => RepliesWellFormed
    <2> SUFFICES ASSUME Inv PROVE RepliesWellFormed
      OBVIOUS
    <2>1. ASSUME NEW r \in Req PROVE AnsweredOnce(r)
      <3> DEFINE s == wire[r] \o hand[r]
      <3>1. RequestInv(r) /\ wire[r] \in Seq(Frame) /\ hand[r] \in Seq(Frame) /\ outHigh \in Seq(Req)
            /\ \A i, j \in DOMAIN outHigh : outHigh[i] = outHigh[j] => i = j
        BY ChannelsAre DEF ReplyInv, SendInv
      <3>2. r \notin Range(outHigh) => Times(r, outHigh) = 0
        BY TimesAbsent DEF Range
      <3>3. Times(r, outHigh) <= 1
        <4>1. CASE r \notin Range(outHigh)
          BY <3>2, <4>1
        <4>2. CASE r \in Range(outHigh)
          <5>1. PICK k \in DOMAIN outHigh : outHigh[k] = r
            BY <4>2 DEF Range
          <5>2. {i \in DOMAIN outHigh : outHigh[i] = r} = {k}
            BY <3>1, <5>1
          <5>3. Times(r, outHigh) = 1
            BY <5>2, FS_Singleton DEF Times
          <5> QED
            BY <5>3
        <4> QED
          BY <4>1, <4>2
      <3>4. s # <<>> => r \notin Range(outHigh)
        <4>1. <<>> \o <<>> = <<>>
          BY EmptySeq, ConcatEmptySeq
        <4> QED
          BY <3>1, <4>1 DEF RequestInv
      <3>5. TerminalLast(s)
        <4>1. CASE hand[r] = <<>>
          <5>1. s = wire[r]
            BY <3>1, <4>1, ConcatEmptySeq
          <5> QED
            BY <3>1, <5>1 DEF RequestInv
        <4>2. CASE hand[r] # <<>>
          <5>1. wire[r] = <<>> /\ hand[r] = <<"reply">>
            BY <3>1, <4>2 DEF RequestInv
          <5>2. s = <<"reply">>
            BY <3>1, <5>1, ConcatEmptySeq
          <5> HIDE DEF s
          <5> QED
            BY <5>2 DEF TerminalLast
        <4> QED
          BY <4>1, <4>2
      <3> HIDE DEF s
      <3> QED
        BY <3>2, <3>3, <3>4, <3>5 DEF AnsweredOnce, s, TerminalLast
    <2>2. \A r \in Stream : EndFollowsChunks(r)
      BY ChannelsAre DEF ReplyInv, RequestInv
    <2>3. EndFollowsEntries
      BY DEF EntriesExact, EndsLast, EndFollowsEntries
    <2> QED
      BY <2>1, <2>2, <2>3 DEF RepliesWellFormed
  <1> HIDE DEF Inv
  <1> QED
    BY <1>1, <1>2, <1>3, PTL DEF Spec

====
