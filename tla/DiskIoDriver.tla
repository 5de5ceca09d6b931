----------------------------- MODULE DiskIoDriver -----------------------------
(***************************************************************************)
(* The unified asynchronous disk-IO driver (FastClone/disk_io_driver.cpp). *)
(*                                                                         *)
(* Threads: callers (submit, drain, waitForFile, releaseFile,              *)
(* requestCancel), ONE scheduler thread (SchedulerLoop), the backend's     *)
(* workers, and the destructor.  One action is one critical section of     *)
(* qmu_ or cmu_ (countMu_ is always the innermost lock, so a section that   *)
(* takes it inside another is one step).                                   *)
(*                                                                         *)
(* An operation is an element of Op: the payload, offset and length of an  *)
(* IoRequest are abstracted, its file, direction and priority are the      *)
(* constants FileOf, Reads and Small.  An Op is submitted at most once, so *)
(* it also names its completion.  Statistics counters are not modelled.    *)
(***************************************************************************)
EXTENDS Integers, Sequences, FiniteSets

CONSTANTS
    Op, File,
    FileOf,         \* [Op -> File]
    Reads,          \* the Op whose kind is OpKind::Read
    Small,          \* the Op submitted with Prio::Small
    Waiter,         \* caller threads that may block in waitForFile
    MaxReadQueue, MaxWriteQueue, MaxInFlight, ReadWeight, WriteWeight,
    NoOp, NoFile    \* model values: "none"

ASSUME DriverAssumption ==
    /\ IsFiniteSet(Op)
    /\ FileOf \in [Op -> File]
    /\ Reads \subseteq Op /\ Small \subseteq Op
    /\ MaxReadQueue \in Nat /\ MaxWriteQueue \in Nat
    /\ MaxInFlight \in Nat \ {0}
    /\ ReadWeight \in Nat /\ WriteWeight \in Nat
    /\ NoOp \notin Op /\ NoFile \notin File

VARIABLES
    readQ, writeQ,            \* readQ_, writeQ_ (qmu_)
    readCredit, writeCredit,  \* fair-share credits (qmu_)
    cancelled, stop,          \* cancelled_, stop_ (qmu_)
    inFlight,                 \* inFlight_ (qmu_)
    pc,                       \* where the scheduler thread is
    hand,                     \* the op PickAndSubmit popped and is submitting
    comps, got,               \* the batch reap() returned, and its size
    executing, done,          \* backend: submitted ops, its completion queue
    flushQ, canceller,        \* requestCancel: swapped-out ops, its progress
    byFile,                   \* completionsByFile_
    order, nextSlot,          \* the global order list: an op's slot in it (0: none)
    outstanding,              \* fileOutstanding_ (countMu_)
    pendingRelease,           \* pendingRelease_ (countMu_)
    releasing,                \* releaseFile calls between their two sections
    waitingOn, dead,          \* fileWait_: blocked threads, "dead" wait states
    accepted, delivered, dropped, released, shut,   \* history
    readStreak, writeStreak   \* history: picks in a row past a waiting other side

queueVars   == <<readQ, writeQ, readCredit, writeCredit, cancelled, stop>>
backendVars == <<executing, done>>
schedVars   == <<pc, hand, comps, got>>
cancelVars  == <<flushQ, canceller>>
complVars   == <<byFile, order, nextSlot, outstanding, pendingRelease, dead, dropped>>
streaks     == <<readStreak, writeStreak>>
callerVars  == <<releasing, waitingOn, accepted, delivered, released, shut>>
vars == <<queueVars, inFlight, backendVars, schedVars, cancelVars, complVars,
          callerVars, streaks>>

-----------------------------------------------------------------------------
(* Helpers.                                                                *)

Elems(s) == {s[i] : i \in DOMAIN s}

\* s without its i-th element (deque::erase).
Without(s, i) == [j \in 1 .. Len(s) - 1 |-> IF j < i THEN s[j] ELSE s[j + 1]]

\* OrderUnlink of each element of S; the others keep their slots.
Unlink(ord, S) == [o \in Op |-> IF o \in S THEN 0 ELSE ord[o]]
Linked == {o \in Op : order[o] # 0}

OpsOf(f) == {o \in Op : FileOf[o] = f}

\* A weight of 0 counts as 1 (constructor and PickAndSubmit).
FullReadCredit == IF ReadWeight = 0 THEN 1 ELSE ReadWeight
FullWriteCredit == IF WriteWeight = 0 THEN 1 ELSE WriteWeight

\* PopPreferSmall: i is the first Prio::Small op of the queue, else its front.
PopPreferSmall(q, i) ==
    /\ i \in DOMAIN q
    /\ IF Elems(q) \cap Small = {} THEN i = 1
       ELSE q[i] \in Small /\ \A j \in 1 .. i - 1 : q[j] \notin Small

-----------------------------------------------------------------------------
Init ==
    /\ readQ = <<>> /\ writeQ = <<>>
    /\ readCredit = FullReadCredit /\ writeCredit = FullWriteCredit
    /\ cancelled = FALSE /\ stop = FALSE /\ inFlight = 0
    /\ pc = "top" /\ hand = NoOp /\ comps = <<>> /\ got = 0
    /\ executing = {} /\ done = <<>>
    /\ flushQ = <<>> /\ canceller = "idle"
    /\ byFile = [f \in File |-> <<>>] /\ order = [o \in Op |-> 0] /\ nextSlot = 1
    /\ outstanding = [f \in File |-> 0] /\ pendingRelease = {}
    /\ releasing = {} /\ waitingOn = [t \in Waiter |-> NoFile] /\ dead = {}
    /\ accepted = {} /\ delivered = {} /\ dropped = {} /\ released = {}
    /\ shut = FALSE /\ readStreak = 0 /\ writeStreak = 0

-----------------------------------------------------------------------------
(* Completions: EnqueueCompletion and ReleaseFileLocked, under cmu_.       *)

\* ReleaseFileLocked on the values bf, ord of byFile and order: the file's
\* undelivered completions go, and blocked waiters are told to leave.
ReleaseFileLocked(f, bf, ord) ==
    /\ dropped' = dropped \cup Elems(bf[f])
    /\ order' = Unlink(ord, Elems(bf[f]))
    /\ byFile' = [bf EXCEPT ![f] = <<>>]
    /\ dead' = IF \E t \in Waiter : waitingOn[t] = f THEN dead \cup {f} ELSE dead

\* EnqueueCompletion: push first, then settle the outstanding count, then run
\* a deferred release if this was the file's last outstanding operation.
EnqueueCompletion(op) ==
    LET f  == FileOf[op]
        bf == [byFile EXCEPT ![f] = Append(@, op)]
        ord == [order EXCEPT ![op] = nextSlot]
        doRelease == outstanding[f] <= 1 /\ f \in pendingRelease
    IN  /\ nextSlot' = nextSlot + 1
        /\ outstanding' = [outstanding EXCEPT ![f] = IF @ > 0 THEN @ - 1 ELSE 0]
        /\ pendingRelease' = IF doRelease THEN pendingRelease \ {f} ELSE pendingRelease
        /\ IF doRelease
           THEN ReleaseFileLocked(f, bf, ord)
           ELSE byFile' = bf /\ order' = ord /\ UNCHANGED <<dead, dropped>>

-----------------------------------------------------------------------------
(* Callers.                                                                *)

\* submit() with a batch of one; a longer batch is that many calls, since a
\* batch is taken op by op until the first that its queue has no room for.
Submit(op) ==
    /\ ~shut /\ op \notin accepted /\ FileOf[op] \notin released
    /\ ~cancelled /\ ~stop
    /\ \/ /\ op \in Reads /\ Len(readQ) < MaxReadQueue
          /\ readQ' = Append(readQ, op) /\ UNCHANGED writeQ
       \/ /\ op \notin Reads /\ Len(writeQ) < MaxWriteQueue
          /\ writeQ' = Append(writeQ, op) /\ UNCHANGED readQ
    /\ outstanding' = [outstanding EXCEPT ![FileOf[op]] = @ + 1]
    /\ accepted' = accepted \cup {op}
    /\ UNCHANGED <<readCredit, writeCredit, cancelled, stop, inFlight, backendVars,
                   schedVars, cancelVars, byFile, order, nextSlot, pendingRelease, dead, dropped,
                   releasing, waitingOn, delivered, released, shut, streaks>>

\* drainCompletionsForFile: hand out and forget everything the file has.
DrainForFile(f) ==
    /\ ~shut /\ f \notin released /\ byFile[f] # <<>>
    /\ delivered' = delivered \cup Elems(byFile[f])
    /\ order' = Unlink(order, Elems(byFile[f]))
    /\ byFile' = [byFile EXCEPT ![f] = <<>>]
    /\ UNCHANGED <<queueVars, inFlight, backendVars, schedVars, cancelVars, nextSlot, outstanding,
                   pendingRelease, dead, dropped, releasing, waitingOn, accepted,
                   released, shut, streaks>>

\* How many completions of f a walk of the order list hands out: one per slot.
Taken(f) ==
    LET slots == Cardinality(Linked \cap OpsOf(f))
    IN  IF slots <= Len(byFile[f]) THEN slots ELSE Len(byFile[f])

\* drainCompletions: walk the global order list; each slot hands out the FRONT
\* of the file queue that its completion names.
DrainAll ==
    /\ ~shut /\ Linked # {}
    /\ delivered' = delivered \cup UNION {Elems(SubSeq(byFile[f], 1, Taken(f))) : f \in File}
    /\ byFile' = [f \in File |-> SubSeq(byFile[f], Taken(f) + 1, Len(byFile[f]))]
    /\ order' = [o \in Op |-> 0]
    /\ UNCHANGED <<queueVars, inFlight, backendVars, schedVars, cancelVars, nextSlot, outstanding,
                   pendingRelease, dead, dropped, releasing, waitingOn, accepted,
                   released, shut, streaks>>

\* waitForFile: the fast path returns at once, so a thread blocks only when the
\* file has no completion.  wait_for is timed: it may return at any moment, and
\* the last thread out erases the wait state, a dead one included.
WaitForFile(t, f) ==
    /\ ~shut /\ f \notin released
    /\ waitingOn[t] = NoFile /\ byFile[f] = <<>>
    /\ waitingOn' = [waitingOn EXCEPT ![t] = f]
    /\ UNCHANGED <<queueVars, inFlight, backendVars, schedVars, cancelVars, complVars,
                   releasing, accepted, delivered, released, shut, streaks>>

LeaveWait(t) ==
    /\ waitingOn[t] # NoFile
    /\ waitingOn' = [waitingOn EXCEPT ![t] = NoFile]
    /\ dead' = IF \E u \in Waiter \ {t} : waitingOn[u] = waitingOn[t]
               THEN dead ELSE dead \ {waitingOn[t]}
    /\ UNCHANGED <<queueVars, inFlight, backendVars, schedVars, cancelVars, byFile, order,
                   nextSlot, outstanding, pendingRelease, dropped, releasing, accepted, delivered,
                   released, shut, streaks>>

\* Mutant of ReleaseFile: every release is deferred, outstanding operations or not.
ReleaseFileAlwaysDefers(f) ==
    /\ ~shut
    /\ released' = released \cup {f} /\ pendingRelease' = pendingRelease \cup {f}
    /\ UNCHANGED <<queueVars, inFlight, backendVars, schedVars, cancelVars, byFile, order,
                   nextSlot, outstanding, dead, dropped, releasing, waitingOn, accepted, delivered,
                   shut, streaks>>

\* Mutant of ReleaseFile: a release with operations outstanding is not registered.
ReleaseFileForgets(f) ==
    /\ ~shut
    /\ released' = released \cup {f}
    /\ releasing' = IF outstanding[f] = 0 THEN releasing \cup {f} ELSE releasing
    /\ UNCHANGED <<queueVars, inFlight, backendVars, schedVars, cancelVars, complVars,
                   waitingOn, accepted, delivered, shut, streaks>>

\* releaseFile, first section (countMu_): decide whether to clean up now or to
\* leave it to the last outstanding completion.
ReleaseFile(f) ==
    /\ ~shut
    /\ released' = released \cup {f}
    /\ IF outstanding[f] = 0
       THEN releasing' = releasing \cup {f} /\ UNCHANGED pendingRelease
       ELSE pendingRelease' = pendingRelease \cup {f} /\ UNCHANGED releasing
    /\ UNCHANGED <<queueVars, inFlight, backendVars, schedVars, cancelVars, byFile, order,
                   nextSlot, outstanding, dead, dropped, waitingOn, accepted, delivered, shut,
                   streaks>>

\* releaseFile, second section (cmu_) of the immediate branch.
ReleaseNow(f) ==
    /\ f \in releasing
    /\ ReleaseFileLocked(f, byFile, order)
    /\ releasing' = releasing \ {f}
    /\ UNCHANGED <<queueVars, inFlight, backendVars, schedVars, cancelVars, nextSlot, outstanding,
                   pendingRelease, waitingOn, accepted, delivered, released, shut, streaks>>

\* requestCancel, first section (qmu_): both queues are taken away whole.
RequestCancel ==
    /\ ~shut /\ ~cancelled
    /\ cancelled' = TRUE
    /\ flushQ' = readQ \o writeQ /\ readQ' = <<>> /\ writeQ' = <<>>
    /\ canceller' = "flush"
    /\ UNCHANGED <<readCredit, writeCredit, stop, inFlight, backendVars, schedVars,
                   complVars, callerVars, streaks>>

\* ... then each of them gets a Cancelled completion, one cmu_ section each.
FlushOne ==
    /\ canceller = "flush" /\ flushQ # <<>>
    /\ EnqueueCompletion(Head(flushQ))
    /\ flushQ' = Tail(flushQ) /\ UNCHANGED canceller
    /\ UNCHANGED <<queueVars, inFlight, backendVars, schedVars, callerVars, streaks>>

FlushDone ==
    /\ canceller = "flush" /\ flushQ = <<>>
    /\ canceller' = "done" /\ UNCHANGED flushQ
    /\ UNCHANGED <<queueVars, inFlight, backendVars, schedVars, complVars, callerVars, streaks>>

\* The destructor, run when no other caller is inside the driver: its own
\* requestCancel has finished, then stop_ is set and the scheduler is joined.
Destroy ==
    /\ ~stop /\ canceller = "done" /\ releasing = {}
    /\ \A t \in Waiter : waitingOn[t] = NoFile
    /\ stop' = TRUE
    /\ UNCHANGED <<readQ, writeQ, readCredit, writeCredit, cancelled, inFlight, backendVars,
                   schedVars, cancelVars, complVars, callerVars, streaks>>

\* backend_->shutdown() after the join: ops still in the backend are freed
\* without a completion.
Shutdown ==
    /\ stop /\ pc = "exit" /\ ~shut
    /\ shut' = TRUE
    /\ executing' = {} /\ done' = <<>>
    /\ UNCHANGED <<queueVars, inFlight, schedVars, cancelVars, complVars, releasing,
                   waitingOn, accepted, delivered, released, streaks>>

-----------------------------------------------------------------------------
(* The scheduler thread (SchedulerLoop, PickAndSubmit).                    *)

\* Mutant of SchedTop: the loop exits on stop only when work is queued.
SchedTopIgnoresIdleStop ==
    /\ pc = "top"
    /\ pc' = IF stop /\ ~(readQ = <<>> /\ writeQ = <<>>) THEN "exit" ELSE "pick"
    /\ UNCHANGED <<queueVars, inFlight, backendVars, hand, comps, got, cancelVars,
                   complVars, callerVars, streaks>>

\* Top of the loop: leave when stopping with empty queues, even with ops still
\* in flight; otherwise go on (the timed idle wait is a stutter).
SchedTop ==
    /\ pc = "top"
    /\ pc' = IF stop /\ readQ = <<>> /\ writeQ = <<>> THEN "exit" ELSE "pick"
    /\ UNCHANGED <<queueVars, inFlight, backendVars, hand, comps, got, cancelVars,
                   complVars, callerVars, streaks>>

CanPick == ~cancelled /\ inFlight < MaxInFlight /\ (readQ # <<>> \/ writeQ # <<>>)

\* PickAndSubmit returns false: on to reaping.
PickNothing ==
    /\ pc = "pick" /\ ~CanPick
    /\ pc' = "reap"
    /\ UNCHANGED <<queueVars, inFlight, backendVars, hand, comps, got, cancelVars,
                   complVars, callerVars, streaks>>

\* Mutants of Pick: writes are taken for as long as there are any, ...
PickIgnoresCredits ==
    /\ pc = "pick" /\ CanPick /\ writeQ # <<>>
    /\ hand' = Head(writeQ) /\ writeQ' = Tail(writeQ)
    /\ writeCredit' = (IF writeCredit = 0 THEN FullWriteCredit ELSE writeCredit) - 1
    /\ writeStreak' = (IF readQ # <<>> THEN writeStreak + 1 ELSE 0) /\ readStreak' = 0
    /\ inFlight' = inFlight + 1 /\ pc' = "handoff"
    /\ UNCHANGED <<readQ, readCredit, cancelled, stop, backendVars, comps, got, cancelVars,
                   complVars, callerVars>>

\* ... or a pick of the only waiting direction takes a credit it may not have.
PickOverdraws ==
    /\ pc = "pick" /\ CanPick /\ writeQ # <<>> /\ readQ = <<>>
    /\ hand' = Head(writeQ) /\ writeQ' = Tail(writeQ)
    /\ writeCredit' = writeCredit - 1
    /\ inFlight' = inFlight + 1 /\ pc' = "handoff"
    /\ UNCHANGED <<readQ, readCredit, cancelled, stop, backendVars, comps, got, cancelVars,
                   complVars, callerVars, streaks>>

\* The qmu_ section of PickAndSubmit: credits decide only when both directions
\* wait; exhausted credits are refilled; every pick spends one of its side's.
Pick ==
    LET haveR  == readQ # <<>>
        haveW  == writeQ # <<>>
        refill == haveR /\ haveW /\ readCredit = 0 /\ writeCredit = 0
        rc == IF refill THEN FullReadCredit ELSE readCredit
        wc == IF refill THEN FullWriteCredit ELSE writeCredit
        isRead == IF haveR /\ haveW THEN rc > 0 ELSE haveR
    IN  /\ pc = "pick" /\ CanPick
        /\ IF isRead
           THEN /\ \E i \in DOMAIN readQ :
                     /\ PopPreferSmall(readQ, i)
                     /\ hand' = readQ[i] /\ readQ' = Without(readQ, i)
                /\ UNCHANGED writeQ
                /\ readCredit' = (IF rc > 0 THEN rc - 1 ELSE 0) /\ writeCredit' = wc
                /\ readStreak' = (IF haveW THEN readStreak + 1 ELSE 0) /\ writeStreak' = 0
           ELSE /\ \E i \in DOMAIN writeQ :
                     /\ PopPreferSmall(writeQ, i)
                     /\ hand' = writeQ[i] /\ writeQ' = Without(writeQ, i)
                /\ UNCHANGED readQ
                /\ writeCredit' = (IF wc > 0 THEN wc - 1 ELSE 0) /\ readCredit' = rc
                /\ writeStreak' = (IF haveR THEN writeStreak + 1 ELSE 0) /\ readStreak' = 0
        /\ inFlight' = inFlight + 1
        /\ pc' = "handoff"
        /\ UNCHANGED <<cancelled, stop, backendVars, comps, got, cancelVars, complVars,
                       callerVars>>

\* backend_->submit(op) succeeds.
Handoff ==
    /\ pc = "handoff"
    /\ executing' = executing \cup {hand}
    /\ hand' = NoOp /\ pc' = "pick"
    /\ UNCHANGED <<queueVars, inFlight, done, comps, got, cancelVars, complVars,
                   callerVars, streaks>>

\* Mutant of HandoffFails: no completion is made up for the failed operation.
HandoffFailsLosesOp ==
    /\ pc = "handoff"
    /\ hand' = NoOp /\ pc' = "failed"
    /\ UNCHANGED <<queueVars, inFlight, backendVars, comps, got, cancelVars, complVars,
                   callerVars, streaks>>

\* backend_->submit(op) fails hard: an Error completion is made up for it ...
HandoffFails ==
    /\ pc = "handoff"
    /\ EnqueueCompletion(hand)
    /\ hand' = NoOp /\ pc' = "failed"
    /\ UNCHANGED <<queueVars, inFlight, backendVars, comps, got, cancelVars, callerVars, streaks>>

\* Mutant of FreeFailedSlot: the in-flight slot of a failed operation leaks.
FreeFailedSlotLeaks ==
    /\ pc = "failed" /\ pc' = "pick"
    /\ UNCHANGED <<queueVars, inFlight, backendVars, hand, comps, got, cancelVars, complVars,
                   callerVars, streaks>>

\* ... and its in-flight slot is given back in a later qmu_ section.
FreeFailedSlot ==
    /\ pc = "failed"
    /\ inFlight' = inFlight - 1 /\ pc' = "pick"
    /\ UNCHANGED <<queueVars, backendVars, hand, comps, got, cancelVars, complVars,
                   callerVars, streaks>>

\* Mutant of Reap: the backend's completion queue is copied, not emptied.
ReapCopies ==
    /\ pc = "reap"
    /\ comps' = done /\ got' = Len(done)
    /\ pc' = IF done = <<>> THEN "top" ELSE "route"
    /\ UNCHANGED <<queueVars, inFlight, backendVars, hand, cancelVars, complVars,
                   callerVars, streaks>>

\* backend_->reap(): everything the backend has completed, maybe nothing.  (Its
\* limit of 128 is above maxInFlight.)
Reap ==
    /\ pc = "reap"
    /\ comps' = done /\ got' = Len(done) /\ done' = <<>>
    /\ pc' = IF done = <<>> THEN "top" ELSE "route"
    /\ UNCHANGED <<queueVars, inFlight, executing, hand, cancelVars, complVars,
                   callerVars, streaks>>

Route ==
    /\ pc = "route" /\ comps # <<>>
    /\ EnqueueCompletion(Head(comps))
    /\ comps' = Tail(comps)
    /\ UNCHANGED <<queueVars, inFlight, backendVars, pc, hand, got, cancelVars,
                   callerVars, streaks>>

RouteDone ==
    /\ pc = "route" /\ comps = <<>>
    /\ inFlight' = inFlight - got
    /\ got' = 0 /\ pc' = "top"
    /\ UNCHANGED <<queueVars, backendVars, hand, comps, cancelVars, complVars,
                   callerVars, streaks>>

\* A backend worker finishes one op; ops finish in any order.
BackendFinish(op) ==
    /\ op \in executing
    /\ executing' = executing \ {op}
    /\ done' = Append(done, op)
    /\ UNCHANGED <<queueVars, inFlight, schedVars, cancelVars, complVars, callerVars, streaks>>

-----------------------------------------------------------------------------
Callers ==
    \/ \E op \in Op : Submit(op)
    \/ \E f \in File : DrainForFile(f) \/ ReleaseFile(f)
    \/ DrainAll
    \/ \E t \in Waiter, f \in File : WaitForFile(t, f)
    \/ RequestCancel \/ Destroy

\* Steps a thread takes on its own once it is inside the driver.
Progress ==
    \/ SchedTop \/ PickNothing \/ Pick \/ Handoff \/ HandoffFails \/ FreeFailedSlot
    \/ Reap \/ Route \/ RouteDone
    \/ \E op \in Op : BackendFinish(op)
    \/ FlushOne \/ FlushDone \/ Shutdown
    \/ \E f \in File : ReleaseNow(f)
    \/ \E t \in Waiter : LeaveWait(t)

Next == Callers \/ Progress

Spec == Init /\ [][Next]_vars

\* The operating system keeps running the scheduler thread, the backend workers
\* and a caller that is inside requestCancel, releaseFile or the destructor.
Fairness ==
    /\ WF_vars(SchedTop \/ PickNothing \/ Pick \/ Handoff \/ HandoffFails
               \/ FreeFailedSlot \/ Reap \/ Route \/ RouteDone)
    /\ \A op \in Op : WF_vars(BackendFinish(op))
    /\ WF_vars(FlushOne \/ FlushDone) /\ WF_vars(Shutdown)
    /\ \A f \in File : WF_vars(ReleaseNow(f))

FairSpec == Spec /\ Fairness

-----------------------------------------------------------------------------
(* Properties.                                                             *)

TypeOK ==
    /\ readQ \in Seq(Reads) /\ writeQ \in Seq(Op \ Reads)
    /\ readCredit \in 0 .. FullReadCredit /\ writeCredit \in 0 .. FullWriteCredit
    /\ cancelled \in BOOLEAN /\ stop \in BOOLEAN /\ shut \in BOOLEAN
    /\ inFlight \in Int /\ got \in Nat
    /\ pc \in {"top", "pick", "handoff", "failed", "reap", "route", "exit"}
    /\ hand \in Op \cup {NoOp} /\ (hand = NoOp <=> pc # "handoff")
    /\ comps \in Seq(Op) /\ done \in Seq(Op) /\ flushQ \in Seq(Op)
    /\ order \in [Op -> Nat] /\ nextSlot \in Nat \ {0}
    /\ executing \subseteq Op
    /\ canceller \in {"idle", "flush", "done"}
    /\ byFile \in [File -> Seq(Op)] /\ outstanding \in [File -> Nat]
    /\ pendingRelease \subseteq File /\ releasing \subseteq File /\ released \subseteq File
    /\ waitingOn \in [Waiter -> File \cup {NoFile}] /\ dead \subseteq File
    /\ accepted \subseteq Op /\ delivered \subseteq Op /\ dropped \subseteq Op
    /\ readStreak \in Nat /\ writeStreak \in Nat

InHand == IF hand = NoOp THEN {} ELSE {hand}
InBackend == executing \cup Elems(done)

\* Accepted operations that have not gone through EnqueueCompletion.
Unsettled == Elems(readQ) \cup Elems(writeQ) \cup Elems(flushQ) \cup InHand
             \cup InBackend \cup Elems(comps)

\* FR-14, "exactly one completion is produced per submitted op": an accepted
\* operation is in exactly one place, whatever submit, cancel, hard backend
\* failure, reap, drain and release do to it, until the backend is shut down.
\* "Invariant I" of disk_io_driver.h: the intrusive order list holds exactly the
\* completions of the per-file lists, each in enqueue order, so a global drain and
\* per-file drains can be mixed freely.
ExactlyOnePlace ==
    ~shut =>
    /\ accepted = Unsettled \cup Linked \cup delivered \cup dropped
    /\ Cardinality(accepted) =
         Len(readQ) + Len(writeQ) + Len(flushQ) + Cardinality(InHand)
         + Cardinality(executing) + Len(done) + Len(comps) + Cardinality(Linked)
         + Cardinality(delivered) + Cardinality(dropped)
    /\ \A f \in File :
         /\ Elems(byFile[f]) = Linked \cap OpsOf(f)
         /\ \A i, j \in DOMAIN byFile[f] : i < j => order[byFile[f][i]] < order[byFile[f][j]]

\* "Invariant II": a deferred release always has an operation left that will run
\* it, so a release is never forgotten.
DeferredReleaseHasTrigger ==
    ~shut => \A f \in pendingRelease : outstanding[f] > 0

\* Memory retention (C1): once a release has run its course nothing of the file
\* is kept when its last operation settles, and no wait state outlives its last waiter.
ReleaseLeavesNothing ==
    /\ ~shut => \A f \in released \ releasing :
         Unsettled \cap OpsOf(f) = {} => byFile[f] = <<>>
    /\ \A f \in dead : \E t \in Waiter : waitingOn[t] = f

\* Weighted fairness (AC-19/AC-20): with operations of both directions waiting,
\* the other direction is passed over at most this often in a row.
FairShare ==
    /\ readStreak <= 2 * FullReadCredit
    /\ writeStreak <= FullWriteCredit

\* Every accepted operation is eventually completed, cancelled or not, unless
\* the driver is destroyed first.
EveryOpCompletes ==
    \A op \in Op : (op \in accepted) ~> (op \notin Unsettled \/ shut)

\* Teardown never hangs: once the destructor sets stop_, the scheduler leaves
\* and the backend is shut down.
TeardownCompletes == stop ~> shut

\* The promise the callers rely on (refinement).
Promise == INSTANCE IoService WITH
    pending <- accepted \ (Linked \cup delivered \cup dropped),
    ready <- Linked,
    closing <- released,
    closed <- shut

\* The driver implements IoService: an operation completes once, is delivered at
\* most once, and is thrown away only by a release of its file.
KeepsPromise == Promise!Spec
=============================================================================
