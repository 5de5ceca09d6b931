---------------------------- MODULE BlockTransfer ----------------------------
(***************************************************************************)
(* The sync client's two ways of rebuilding a file in a temporary from      *)
(* blocks that arrive on several lanes: the binary delta (signature, plan   *)
(* on a worker, missing ranges) and the large-file block mode, with their   *)
(* fallbacks to one another and to a single-stream download                 *)
(* (FastClone/sync_engine_client.cpp, the loop of RunClient).               *)
(*                                                                         *)
(* The loop is that of module ClientTransfer.  Here a comparison is over    *)
(* when its file may be admitted, and a single-stream download is one       *)
(* stream that is fetched again when its lane fails; retries, batches and   *)
(* hashes are that module's.  The plan itself is module Delta: here it      *)
(* keeps any set of a file's blocks.  A block's bytes are one chunk, and a  *)
(* temporary is the set of blocks written to it.  A driver write ends well  *)
(* or badly when it is submitted: the finalize step waits for all of them.  *)
(***************************************************************************)
EXTENDS Integers, FiniteSets, SequencesExt, Functions, LinkScheduler

CONSTANTS
    File,           \* files of the server's tree
    Changed,        \* the sets of files a session may find different
    DeltaFile,      \* those with a readable local copy, at least deltaMinSizeBytes
    LargeFile,      \* those of at least largeFileThresholdBytes
    HashedFile,     \* those whose comparison left the remote hash behind
    Blocks,         \* how many blocks each file has
    Lanes,          \* pool.size(); lane 0 is the primary
    StreamLimit,    \* activeStreamLimit
    SigWindow,      \* maxInFlightDeltaSig; 0 is no limit
    MaxFaults       \* bound: lane, disk and server failures in a session

ASSUME BlockAssumption ==
    /\ Changed \subseteq SUBSET File
    /\ DeltaFile \subseteq File /\ LargeFile \subseteq File /\ HashedFile \subseteq File
    /\ Blocks \in [File -> Nat \ {0}] /\ {Lanes, StreamLimit} \subseteq Nat \ {0}
    /\ {SigWindow, MaxFaults} \subseteq Nat

Lane == 0 .. Lanes - 1
Primary == 0
Block(f) == 1 .. Blocks[f]

\* How a file is being rebuilt.
Kind == {"delta", "range"}

VARIABLES
    healthy, recving, drained, inFlight, nextStreamId,  \* per lane, as in ClientTransfer
    asked,          \* requests the server has not answered in full
    incoming,       \* incomingPriorityFrames
    batch,          \* how many of them the loop has taken as readyFrames
    pc, recvClosed, result,
    comparing,      \* changed files whose comparison is not over
    active,         \* the open streams, <<lane, stream id>> to what they fetch
    planTasks, planResults,     \* deltaPlanTaskQueue, deltaPlanResults
    work,           \* what the loop's helpers read and write: see NewWork
    faults          \* bound: failures so far

connVars == <<healthy, recving, drained, inFlight, nextStreamId>>
mainVars == <<pc, recvClosed, result>>
planVars == <<planTasks, planResults>>
vars == <<connVars, asked, incoming, batch, mainVars, comparing, active, planVars, work,
          faults>>

NewWork(changed) ==
    [changed |-> changed,                   \* the files this session has to transfer
     states |-> [k \in Kind |-> <<>>],      \* deltaStates, fileRangeStates
     abandoned |-> [k \in Kind |-> {}],     \* deltaAbandoned, fileRangeAbandoned
     queue |-> [k \in Kind |-> <<>>],       \* pendingDeltaRanges, pendingFileRanges
     sigQueue |-> <<>>, sigRequested |-> {}, sigInFlight |-> 0,
     planQueue |-> <<>>,                    \* pendingFileRangePlans
     pending |-> <<>>, scheduled |-> {},    \* single-stream downloads
     temps |-> <<>>,                        \* temporaries on disk: the blocks written
     committed |-> <<>>]                    \* history: the blocks a file was renamed with

Init ==
    /\ healthy = [l \in Lane |-> TRUE] /\ recving = [l \in Lane |-> TRUE]
    /\ drained = [l \in Lane |-> FALSE] /\ inFlight = [l \in Lane |-> 0]
    /\ nextStreamId = [l \in Lane |-> 1]
    /\ asked = {} /\ incoming = <<>> /\ batch = 0
    /\ pc = "scan" /\ recvClosed = FALSE /\ result = "running"
    /\ comparing \in Changed /\ active = <<>>
    /\ planTasks = {} /\ planResults = <<>>
    /\ work = NewWork(comparing)
    /\ faults = 0

Succeeds(ok) == IF ok THEN UNCHANGED faults ELSE faults < MaxFaults /\ faults' = faults + 1

Without(fn, ks) == Restrict(fn, DOMAIN fn \ ks)
With(fn, x, v) == [y \in DOMAIN fn \cup {x} |-> IF y = x THEN v ELSE fn[y]]
HealthyConnCount == Cardinality({l \in Lane : healthy[l]})
AtLeastZero(n) == IF n > 0 THEN n ELSE 0

-----------------------------------------------------------------------------
(* Admission, fallback and the end of a rebuilt file, on the record work.   *)

ScheduleTransfer(w, f) ==
    IF f \in w.scheduled THEN w
    ELSE [w EXCEPT !.scheduled = @ \cup {f}, !.pending = Append(@, f)]

NewState(verify) ==
    [temp |-> FALSE, sigReceived |-> FALSE, pendingRanges |-> 0, writeError |-> FALSE,
     verify |-> verify]

\* deltaSigRequested is read as well: it keeps a file it answered for.
EntersDelta(w, f) ==
    /\ f \in DeltaFile /\ f \notin w.abandoned["delta"]
    /\ f \notin DOMAIN w.states["delta"] /\ f \notin w.sigRequested

TryEnterDelta(w, f) ==
    [w EXCEPT !.states["delta"] = With(@, f, NewState(TRUE)),
              !.sigQueue = Append(@, f)]

EntersFileRange(w, f) ==
    /\ f \in LargeFile /\ f \notin w.abandoned["range"]
    /\ f \notin DOMAIN w.states["range"] /\ HealthyConnCount >= 2

\* The content is verified at the end only if the remote hash is there already.
TryEnterFileRange(w, f) ==
    [w EXCEPT !.states["range"] = With(@, f, NewState(f \in HashedFile)),
              !.planQueue = Append(@, f)]

BlocksOrStream(w, f) ==
    IF EntersFileRange(w, f) THEN TryEnterFileRange(w, f) ELSE ScheduleTransfer(w, f)

\* A file leaves a mode for good; the temporary its state holds is closed and removed.
Abandon(w, kind, f) ==
    [w EXCEPT !.abandoned[kind] = @ \cup {f},
              !.states[kind] = Without(@, {f}),
              !.temps = IF f \in DOMAIN w.states[kind] /\ w.states[kind][f].temp
                        THEN Without(@, {<<kind, f>>}) ELSE @]

\* A delta that does not help goes to block mode if it can, a block file to one stream.
FallsBack(w, kind, f) ==
    IF kind = "delta" THEN BlocksOrStream(Abandon(w, kind, f), f)
    ELSE ScheduleTransfer(Abandon(w, kind, f), f)

\* finalizeTempVerifyRename can succeed: no write failed, and the content is right
\* where there is a hash to tell.
Sound(w, kind, f) ==
    /\ ~w.states[kind][f].writeError
    /\ w.states[kind][f].verify => w.temps[<<kind, f>>] = Block(f)

Commit(w, kind, f) ==
    [w EXCEPT !.committed = With(@, f, w.temps[<<kind, f>>]),
              !.states[kind] = Without(@, {f}),
              !.temps = Without(@, {<<kind, f>>})]

\* finalizeDelta, finalizeFileRange: closing, flushing, verifying or renaming may fail.
Finalize(w, kind, f) ==
    \E ok \in BOOLEAN :
        /\ ok => Sound(w, kind, f)
        /\ Succeeds(ok \/ ~Sound(w, kind, f))
        /\ work' = IF ok THEN Commit(w, kind, f) ELSE FallsBack(w, kind, f)

-----------------------------------------------------------------------------
(* The server, the receive threads and the plan workers.                    *)

Push(r, type) ==
    incoming' = Append(incoming, [type |-> type, lane |-> r.lane, sid |-> r.sid, rel |-> r.rel])

ServerStep ==
    UNCHANGED <<connVars, batch, mainVars, comparing, active, planVars, work>>

\* BlockSigRequest is answered by the signature, or by an error.
ServerSigns(r) ==
    /\ r.type = "BlockSigRequest" /\ recving[r.lane]
    /\ asked' = asked \ {r}
    /\ \E answer \in {"BlockSigResponse", "DeltaError"} :
          Succeeds(answer = "BlockSigResponse") /\ Push(r, answer)
    /\ ServerStep

\* A block or a file is answered by its bytes ...
ServerSendsData(r) ==
    /\ r.type = "Open" /\ ~r.sent /\ recving[r.lane]
    /\ asked' = (asked \ {r}) \cup {[r EXCEPT !.sent = TRUE]}
    /\ Push(r, "Data")
    /\ ServerStep /\ UNCHANGED faults

\* ... and End; a block's request may end in an error at either point.
ServerEnds(r) ==
    /\ r.type = "Open" /\ recving[r.lane]
    /\ asked' = asked \ {r}
    /\ \/ r.sent /\ Push(r, "End") /\ UNCHANGED faults
       \/ r.kind = "delta" /\ Push(r, "DeltaError") /\ Succeeds(FALSE)
       \/ r.kind = "range" /\ Push(r, "FileRangeError") /\ Succeeds(FALSE)
    /\ ServerStep

\* The lane's socket fails under its receive thread: no answer comes any more.
LaneDies(l) ==
    /\ recving[l] /\ Succeeds(~healthy[l])
    /\ recving' = [recving EXCEPT ![l] = FALSE]
    /\ healthy' = [healthy EXCEPT ![l] = FALSE]
    /\ asked' = {r \in asked : r.lane # l}
    /\ UNCHANGED <<drained, inFlight, nextStreamId, incoming, batch, mainVars, comparing,
                   active, planVars, work>>

\* buildDeltaPlanOffloaded: the blocks the old file has are copied to a temporary, or
\* the plan is refused and its temporary discarded.
PlanFinishes(f) ==
    /\ f \in planTasks
    /\ planTasks' = planTasks \ {f}
    /\ \/ \E missing \in SUBSET Block(f) :
             /\ planResults' = Append(planResults, [rel |-> f, ok |-> TRUE, missing |-> missing])
             /\ work' = [work EXCEPT !.temps = With(@, <<"delta", f>>, Block(f) \ missing)]
       \/ /\ planResults' = Append(planResults, [rel |-> f, ok |-> FALSE])
          /\ UNCHANGED work
    /\ UNCHANGED <<connVars, asked, incoming, batch, mainVars, comparing, active, faults>>

-----------------------------------------------------------------------------
(* The main loop, in the order of one iteration.                            *)

At(stage) == pc = stage /\ result = "running"

\* The helpers an iteration calls, in order; one with nothing to do is passed over.
Stages == <<"files", "sigs", "plans", "deltaRanges", "rangePlans", "fileRanges">>
Busy(stage, w, results) ==
    CASE stage = "files" -> w.pending # <<>>
      [] stage = "sigs" -> w.sigQueue # <<>>
      [] stage = "plans" -> results # <<>>
      [] stage = "deltaRanges" -> w.queue["delta"] # <<>>
      [] stage = "rangePlans" -> w.planQueue # <<>>
      [] stage = "fileRanges" -> w.queue["range"] # <<>>
GoTo(first) ==
    LET busy == {i \in first .. Len(Stages) : Busy(Stages[i], work', planResults')}
    IN  pc' = IF busy = {} THEN "drain" ELSE Stages[Min(busy)]
Stage(name) == CHOOSE i \in DOMAIN Stages : Stages[i] = name
Again(name) == GoTo(Stage(name))
Onward(name) == GoTo(Stage(name) + 1)

\* What an iteration's steps leave alone.
LoopStep == UNCHANGED <<recving, drained, incoming, batch, recvClosed, result, planTasks>>

\* The signature requests without an answer: those of every lane.
Unanswered(w) ==
    {f \in DOMAIN w.states["delta"] : /\ ~w.states["delta"][f].sigReceived
                                      /\ f \in w.sigRequested}

\* failoverScan queues the unanswered requests again and gives their slots back.
SignAgain(w, fs) ==
    [w EXCEPT !.sigRequested = @ \ ToSet(fs), !.sigQueue = @ \o fs,
              !.sigInFlight = AtLeastZero(@ - Len(fs))]

\* What the streams of dead lanes were fetching is queued again, in any order: files, and
\* the blocks of files still in their mode.
Requeue(w, files, deltas, ranges) ==
    LET Tasks(ks) == [i \in DOMAIN ks |-> [rel |-> active[ks[i]].rel,
                                          block |-> active[ks[i]].block]]
    IN  [w EXCEPT !.pending = @ \o [i \in DOMAIN files |-> active[files[i]].rel],
                  !.queue = [k \in Kind |-> @[k] \o Tasks(IF k = "delta" THEN deltas ELSE ranges)]]

\* failoverScan: a lane found unhealthy is drained once; recvClosed when it was the last.
FailoverScan ==
    LET dead == {l \in Lane : ~healthy[l] /\ ~drained[l]}
        streams == {k \in DOMAIN active : k[1] \in dead}
        Lost(kind) == {k \in streams : /\ active[k].kind = kind
                                       /\ kind \in Kind => active[k].rel \in DOMAIN work.states[kind]}
        again == IF dead # {} /\ HealthyConnCount > 0 THEN Unanswered(work) ELSE {}
    IN  /\ At("scan")
        /\ \E files \in SetToSeqs(Lost("file")), deltas \in SetToSeqs(Lost("delta")),
              ranges \in SetToSeqs(Lost("range")), fs \in SetToSeqs(again) :
              work' = SignAgain(Requeue(work, files, deltas, ranges), fs)
        /\ active' = Without(active, streams)
        /\ inFlight' = [l \in Lane |-> IF l \in dead THEN 0 ELSE inFlight[l]]
        /\ drained' = [l \in Lane |-> drained[l] \/ l \in dead]
        /\ recvClosed' = (recvClosed \/ HealthyConnCount = 0)
        /\ UNCHANGED <<healthy, recving, nextStreamId, asked, incoming, batch, result,
                       comparing, planVars, faults>>
        /\ GoTo(1)

ReservedSlots ==
    IF HealthyConnCount >= 2 THEN ComputeFileRangeReservedSlots(StreamLimit) ELSE 0

\* Every stream but a block's stays out of the reserved slots.
LaneCap(kind) == IF kind = "range" THEN StreamLimit ELSE StreamLimit - ReservedSlots

PickConnection(kind) ==
    SelectLeastLoadedLane(
        [l \in Lane |-> [healthy |-> healthy[l], inFlight |-> inFlight[l], weight |-> 1,
                         bias |-> IF l = Primary /\ comparing # {} THEN 1 ELSE 0]],
        LaneCap(kind), FALSE)

\* The tasks from the first one whose file is still in the mode.
Wanted(w, kind) ==
    LET q == w.queue[kind]
        live == {i \in DOMAIN q : q[i].rel \in DOMAIN w.states[kind]}
    IN  IF live = {} THEN <<>> ELSE SubSeq(q, Min(live), Len(q))

\* The next thing a pass would start.
Waiting(kind) ==
    IF kind = "file" THEN [i \in DOMAIN work.pending |-> [rel |-> work.pending[i], block |-> 0]]
    ELSE Wanted(work, kind)

Queued(kind, q) ==
    IF kind = "file" THEN [work EXCEPT !.pending = [i \in DOMAIN q |-> q[i].rel]]
    ELSE [work EXCEPT !.queue[kind] = q]

\* tryStartTransfers, tryStartDeltaRanges, tryStartFileRanges: one request is sent.
Start(kind, here) ==
    LET l == PickConnection(kind)
        task == Head(Waiting(kind))
    IN  /\ At(here) /\ Waiting(kind) # <<>> /\ l # NoLane
        /\ active' = With(active, <<l, nextStreamId[l]>>,
                          [kind |-> kind, rel |-> task.rel, block |-> task.block])
        /\ asked' = asked \cup {[type |-> "Open", kind |-> kind, lane |-> l,
                                 sid |-> nextStreamId[l], rel |-> task.rel,
                                 sent |-> kind = "file"]}
        /\ nextStreamId' = [nextStreamId EXCEPT ![l] = @ + 1]
        /\ inFlight' = [inFlight EXCEPT ![l] = @ + 1]
        /\ work' = Queued(kind, Tail(Waiting(kind)))
        /\ LoopStep /\ UNCHANGED <<healthy, comparing, planResults, faults>>
        /\ Again(here)

\* The send fails: the task stays first in its queue and the pass ends.
StartFails(kind, here) ==
    LET l == PickConnection(kind)
    IN  /\ At(here) /\ Waiting(kind) # <<>> /\ l # NoLane /\ Succeeds(FALSE)
        /\ healthy' = [healthy EXCEPT ![l] = FALSE]
        /\ nextStreamId' = [nextStreamId EXCEPT ![l] = @ + 1]
        /\ work' = Queued(kind, Waiting(kind))
        /\ LoopStep /\ UNCHANGED <<inFlight, asked, active, comparing, planResults>>
        /\ Onward(here)

\* Nothing left to start, or every lane is full.
StartsDone(kind, here) ==
    /\ At(here)
    /\ Waiting(kind) = <<>> \/ PickConnection(kind) = NoLane
    /\ work' = Queued(kind, Waiting(kind))
    /\ LoopStep
    /\ UNCHANGED <<healthy, inFlight, nextStreamId, asked, active, comparing, planResults, faults>>
    /\ Onward(here)

Starts(kind, here) == Start(kind, here) \/ StartFails(kind, here) \/ StartsDone(kind, here)

StartFiles == Starts("file", "files")
StartDeltaRanges == Starts("delta", "deltaRanges")
StartFileRanges == Starts("range", "fileRanges")

ControlConn ==
    LET up == {l \in Lane : healthy[l]} IN IF up = {} THEN Primary ELSE Min(up)

\* What one pass over pendingDeltaSigRequests pops: until the window is full of requests
\* of files still in the mode.
LiveSigs == {i \in DOMAIN work.sigQueue : work.sigQueue[i] \in DOMAIN work.states["delta"]}
SigBatch ==
    {i \in DOMAIN work.sigQueue :
        SigWindow = 0 \/ work.sigInFlight + Cardinality({j \in LiveSigs : j < i}) < SigWindow}

\* A request is counted in flight once it is sent; the window bounds them.
PumpDeltaSignatures ==
    LET keep == SubSeq(work.sigQueue, Cardinality(SigBatch) + 1, Len(work.sigQueue))
        ctrl == ControlConn
    IN  /\ At("sigs")
        /\ \E at \in SetToSeqs(SigBatch \cap LiveSigs) :
              LET send == [i \in DOMAIN at |-> work.sigQueue[at[i]]]
              IN  /\ \A i, j \in DOMAIN at : i < j => at[i] < at[j]
                  /\ \/ /\ send = <<>> \/ healthy[ctrl]
                        /\ work' = [work EXCEPT !.sigQueue = keep,
                                                !.sigRequested = @ \cup ToSet(send),
                                                !.sigInFlight = @ + Len(send)]
                        /\ asked' = asked \cup {[type |-> "BlockSigRequest", lane |-> ctrl,
                                                 sid |-> 0, rel |-> f] : f \in ToSet(send)}
                        /\ UNCHANGED <<healthy, faults>>
                     \/ /\ send # <<>> /\ Succeeds(~healthy[ctrl])
                        /\ healthy' = [healthy EXCEPT ![ctrl] = FALSE]
                        /\ work' = [work EXCEPT !.sigQueue = send \o keep]
                        /\ UNCHANGED asked
        /\ LoopStep /\ UNCHANGED <<inFlight, nextStreamId, comparing, active, planResults>>
        /\ Onward("sigs")

\* applyDeltaPlanResult on a plan that helps: the missing blocks are queued.
AdoptPlan(w, r) ==
    LET ranges == SetToSeq({[rel |-> r.rel, block |-> b] : b \in r.missing})
    IN  [w EXCEPT !.states["delta"][r.rel] =
                        [@ EXCEPT !.temp = TRUE, !.pendingRanges = Len(ranges)],
                  !.queue["delta"] = @ \o ranges]

\* Mutant of ApplyPlan: a plan nobody wants leaves its temporary behind.
ApplyPlanForgetsTemp ==
    LET r == Head(planResults)
    IN  /\ At("plans") /\ planResults # <<>>
        /\ planResults' = Tail(planResults)
        /\ CASE r.rel \notin DOMAIN work.states["delta"] ->
                   UNCHANGED <<work, faults>>
             [] r.rel \in DOMAIN work.states["delta"] /\ ~r.ok ->
                   work' = FallsBack(work, "delta", r.rel) /\ UNCHANGED faults
             [] OTHER ->
                   IF r.missing = {} THEN Finalize(AdoptPlan(work, r), "delta", r.rel)
                   ELSE work' = AdoptPlan(work, r) /\ UNCHANGED faults
        /\ LoopStep /\ UNCHANGED <<healthy, inFlight, nextStreamId, asked, comparing, active>>
        /\ Again("plans")

\* A plan for a file that has left the mode is discarded with its temporary.
ApplyPlan ==
    LET r == Head(planResults)
    IN  /\ At("plans") /\ planResults # <<>>
        /\ planResults' = Tail(planResults)
        /\ CASE r.rel \notin DOMAIN work.states["delta"] ->
                   /\ work' = [work EXCEPT !.temps = Without(@, {<<"delta", r.rel>>})]
                   /\ UNCHANGED faults
             [] r.rel \in DOMAIN work.states["delta"] /\ ~r.ok ->
                   work' = FallsBack(work, "delta", r.rel) /\ UNCHANGED faults
             [] OTHER ->
                   IF r.missing = {} THEN Finalize(AdoptPlan(work, r), "delta", r.rel)
                   ELSE work' = AdoptPlan(work, r) /\ UNCHANGED faults
        /\ LoopStep /\ UNCHANGED <<healthy, inFlight, nextStreamId, asked, comparing, active>>
        /\ Again("plans")

\* beginFileRangePlan: the temporary is opened and every block queued.
PlanBlocks(w, f) ==
    [w EXCEPT !.states["range"][f] = [@ EXCEPT !.temp = TRUE, !.pendingRanges = Blocks[f]],
              !.temps = With(@, <<"range", f>>, {}),
              !.queue["range"] = @ \o [b \in Block(f) |-> [rel |-> f, block |-> b]]]

\* pumpFileRangePlans, one queued plan: a file that has left the mode is skipped.
PumpFileRangePlans ==
    LET f == Head(work.planQueue)
        rest == [work EXCEPT !.planQueue = Tail(@)]
    IN  /\ At("rangePlans") /\ work.planQueue # <<>>
        /\ IF f \notin DOMAIN work.states["range"] \/ work.states["range"][f].temp
           THEN work' = rest /\ UNCHANGED faults
           ELSE \E ok \in BOOLEAN :
                  /\ Succeeds(ok)
                  /\ work' = IF ok THEN PlanBlocks(rest, f) ELSE FallsBack(rest, "range", f)
        /\ LoopStep
        /\ UNCHANGED <<healthy, inFlight, nextStreamId, asked, comparing, active, planResults>>
        /\ Again("rangePlans")

\* A comparison ended with a transfer: delta first, then block mode, then one stream.
Admit(f) ==
    /\ At("drain") /\ f \in comparing
    /\ comparing' = comparing \ {f}
    /\ work' = IF EntersDelta(work, f) THEN TryEnterDelta(work, f) ELSE BlocksOrStream(work, f)
    /\ LoopStep
    /\ UNCHANGED <<pc, healthy, inFlight, nextStreamId, asked, active, planResults, faults>>

DeltaIdle ==
    /\ work.states["delta"] = <<>> /\ work.sigQueue = <<>> /\ work.queue["delta"] = <<>>
    /\ planTasks = {} /\ planResults = <<>>
FileRangeIdle ==
    work.states["range"] = <<>> /\ work.queue["range"] = <<>> /\ work.planQueue = <<>>

\* The exit test; open streams of every kind are in active.
AllDone ==
    comparing = {} /\ work.pending = <<>> /\ active = <<>> /\ DeltaIdle /\ FileRangeIdle

NeedNetworkFrame == comparing # {} \/ active # <<>> \/ ~DeltaIdle \/ ~FileRangeIdle

\* The end of an iteration: leave, give up with every lane closed and nothing queued,
\* take the queued frames or start over.
Test ==
    /\ At("drain")
    /\ CASE AllDone ->
               /\ pc' = "exit" /\ UNCHANGED batch
               /\ result' = IF recvClosed THEN "incomplete" ELSE "complete"
         [] ~AllDone /\ (NeedNetworkFrame \/ recvClosed) /\ incoming # <<>> ->
               pc' = "process" /\ batch' = Len(incoming) /\ UNCHANGED result
         [] ~AllDone /\ recvClosed /\ incoming = <<>> ->
               pc' = "exit" /\ result' = "incomplete" /\ UNCHANGED batch
         [] OTHER -> pc' = "scan" /\ UNCHANGED <<batch, result>>
    /\ UNCHANGED <<connVars, asked, incoming, recvClosed, comparing, active, planVars, work,
                   faults>>

-----------------------------------------------------------------------------
(* processIncomingFrame.                                                    *)

Frame == Head(incoming)
FrameKey == <<Frame.lane, Frame.sid>>
Known == FrameKey \in DOMAIN active
Stream == active[FrameKey]

TakeFrame(type) ==
    /\ pc = "process" /\ result = "running" /\ Frame.type = type
    /\ incoming' = Tail(incoming) /\ batch' = batch - 1
    /\ UNCHANGED <<healthy, recving, drained, nextStreamId, asked, recvClosed, comparing,
                   planResults>>

Proceed == pc' = (IF batch = 1 THEN "scan" ELSE "process") /\ UNCHANGED result

\* A frame of an unknown stream: late on a lane that is down, else a protocol error.
Unknown ==
    /\ ~Known
    /\ IF healthy[Frame.lane] THEN pc' = "exit" /\ result' = "aborted" ELSE Proceed
    /\ UNCHANGED <<inFlight, active, planTasks, work, faults>>

ReleaseSlot ==
    inFlight' = [inFlight EXCEPT ![Frame.lane] = AtLeastZero(@ - 1)]

\* The first answer sends the file to the plan workers; every answer frees a slot.
OnBlockSigResponse ==
    LET f == Frame.rel
        w == [work EXCEPT !.sigInFlight = AtLeastZero(@ - 1)]
    IN  /\ TakeFrame("BlockSigResponse") /\ Proceed
        /\ IF f \in DOMAIN w.states["delta"] /\ ~w.states["delta"][f].sigReceived
           THEN /\ planTasks' = planTasks \cup {f}
                /\ work' = [w EXCEPT !.states["delta"][f].sigReceived = TRUE]
           ELSE UNCHANGED planTasks /\ work' = w
        /\ UNCHANGED <<inFlight, active, faults>>

\* Mutant of WriteBlock: the bytes already count as a finished block.
WriteBlockCounts(w, s) ==
    [w EXCEPT !.temps[<<s.kind, s.rel>>] = @ \cup {s.block},
              !.states[s.kind][s.rel].pendingRanges = AtLeastZero(@ - 1)]

\* A block goes to its own place in the temporary, and does not count yet.
WriteBlock(w, s) == [w EXCEPT !.temps[<<s.kind, s.rel>>] = @ \cup {s.block}]

\* The bytes are written to the temporary, if the file is still in the mode.
OnData ==
    /\ TakeFrame("Data")
    /\ \/ Unknown
       \/ /\ Known /\ Proceed
          /\ IF Stream.kind \in Kind /\ Stream.rel \in DOMAIN work.states[Stream.kind]
             THEN \E ok \in BOOLEAN :
                    /\ Succeeds(ok)
                    /\ work' = IF ok THEN WriteBlock(work, Stream)
                          ELSE [work EXCEPT !.states[Stream.kind][Stream.rel].writeError = TRUE]
             ELSE UNCHANGED <<work, faults>>
          /\ UNCHANGED <<inFlight, active, planTasks>>

\* A block counts once it has ended; the last one finalizes the file.
OnEnd ==
    /\ TakeFrame("End")
    /\ \/ Unknown
       \/ /\ Known /\ Proceed /\ ReleaseSlot
          /\ active' = Without(active, {FrameKey})
          /\ IF Stream.kind \in Kind /\ Stream.rel \in DOMAIN work.states[Stream.kind]
             THEN LET w == [work EXCEPT !.states[Stream.kind][Stream.rel].pendingRanges =
                                           AtLeastZero(@ - 1)]
                  IN  IF w.states[Stream.kind][Stream.rel].pendingRanges = 0
                      THEN Finalize(w, Stream.kind, Stream.rel)
                      ELSE work' = w /\ UNCHANGED faults
             ELSE UNCHANGED <<work, faults>>
          /\ UNCHANGED planTasks

\* Mutant of ReleasesSigSlot: only an answer gives the slot back.
ReleasesSigSlotNever(f) == FALSE

\* DeltaErrorReleasesSigSlot, and the request is still marked as sent.
ReleasesSigSlot(f) ==
    /\ ~Known /\ f \in work.sigRequested
    /\ f \notin DOMAIN work.states["delta"] \/ ~work.states["delta"][f].sigReceived

\* What an error frame does to its stream, known or not: there is no stale-lane test.
CloseStream ==
    /\ active' = Without(active, {FrameKey})
    /\ IF Known THEN ReleaseSlot ELSE UNCHANGED inFlight

\* A signature or a range failed on the server: the file goes to one stream.
OnDeltaError ==
    LET f == Frame.rel
        managed == f \in DOMAIN work.states["delta"] \/ f \in work.sigRequested
        w == IF ReleasesSigSlot(f)
             THEN [work EXCEPT !.sigRequested = @ \ {f},
                               !.sigInFlight = AtLeastZero(@ - 1)]
             ELSE work
    IN  /\ TakeFrame("DeltaError") /\ Proceed /\ CloseStream
        /\ work' = IF managed /\ f \notin work.abandoned["delta"]
                   THEN ScheduleTransfer(Abandon(w, "delta", f), f) ELSE w
        /\ UNCHANGED <<planTasks, faults>>

OnFileRangeError ==
    LET f == Frame.rel
    IN  /\ TakeFrame("FileRangeError") /\ Proceed /\ CloseStream
        /\ work' = IF f \notin work.abandoned["range"] THEN FallsBack(work, "range", f) ELSE work
        /\ UNCHANGED <<planTasks, faults>>

-----------------------------------------------------------------------------
MainLoop ==
    \/ FailoverScan \/ StartFiles \/ PumpDeltaSignatures \/ ApplyPlan
    \/ StartDeltaRanges \/ PumpFileRangePlans \/ StartFileRanges \/ Test
    \/ OnBlockSigResponse \/ OnData \/ OnEnd \/ OnDeltaError \/ OnFileRangeError

Server == \E r \in asked : ServerSigns(r) \/ ServerSendsData(r) \/ ServerEnds(r)
Running == result = "running"
Compared == \E f \in File : Admit(f)
Planned == \E f \in planTasks : PlanFinishes(f)
LaneFails == \E l \in Lane : LaneDies(l)

Next ==
    \/ MainLoop \/ Compared
    \/ Running /\ (Server \/ Planned \/ LaneFails)

Spec == Init /\ [][Next]_vars

\* The loop never blocks for good, comparisons and plans end and the server answers
\* what it was asked; nothing makes a lane die.
FairSpec ==
    /\ Spec
    /\ WF_vars(MainLoop) /\ SF_vars(Compared)
    /\ WF_vars(Running /\ Server) /\ WF_vars(Running /\ Planned)

-----------------------------------------------------------------------------
(* Properties.                                                              *)

\* A file is renamed into place only with every block in its temporary, although blocks
\* come on several lanes, are fetched again when one fails, and no hash may be there to
\* tell.
CommittedWhole == \A f \in DOMAIN work.committed : work.committed[f] = Block(f)

\* Exactly one part of the client answers for a file: the delta, the block mode, or the
\* single stream that also stands for a file already in place (a late DeltaError for a
\* signature asked for twice fetches such a file again).  Every temporary on disk has an
\* owner that will rename or remove it, and no late frame ends the session.
OneOwner ==
    /\ \A f \in work.changed \ comparing :
          Cardinality({o \in Kind \cup {"settled"} :
                          IF o \in Kind THEN f \in DOMAIN work.states[o]
                          ELSE f \in work.scheduled \cup DOMAIN work.committed}) = 1
    /\ DOMAIN work.temps =
          {t \in Kind \X File : t[2] \in DOMAIN work.states[t[1]] /\ work.states[t[1]][t[2]].temp}
          \cup {<<"delta", r.rel>> : r \in {p \in ToSet(planResults) : p.ok}}
    /\ result # "aborted"

\* The loop ends: no lost signature, full window, abandoned block or dead lane keeps a
\* file waiting for good.
LoopEnds == <>(result # "running")
=============================================================================
