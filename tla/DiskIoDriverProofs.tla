------------------------- MODULE DiskIoDriverProofs -------------------------
(***************************************************************************)
(* Proofs about DiskIoDriver, for every set of operations, files and       *)
(* waiters, every queue limit and every pair of weights.                   *)
(***************************************************************************)
EXTENDS DiskIoDriver, SequenceTheorems, FunctionTheorems, FiniteSetTheorems, TLAPS

-----------------------------------------------------------------------------
(* The helpers.                                                            *)

\* PickAndSubmit's erase leaves a queue of the same element type.
LEMMA WithoutType ==
    ASSUME NEW S, NEW s \in Seq(S), NEW i \in DOMAIN s
    PROVE  Without(s, i) \in Seq(S) /\ s[i] \in S
  <1>1. i \in 1 .. Len(s) /\ Len(s) \in Nat
    OBVIOUS
  <1>2. [j \in 1 .. Len(s) - 1 |-> IF j < i THEN s[j] ELSE s[j + 1]] \in Seq(S)
    BY <1>1
  <1> QED
    BY <1>1, <1>2 DEF Without

\* What a queue or a completion list holds has the type of its elements.
LEMMA ElemsType ==
    ASSUME NEW S, NEW s \in Seq(S)
    PROVE  Elems(s) \subseteq S
  BY DEF Elems

\* Parts of a list, as drainCompletions takes them.
LEMMA SubSeqType ==
    ASSUME NEW S, NEW s \in Seq(S), NEW k \in 0 .. Len(s)
    PROVE  SubSeq(s, 1, k) \in Seq(S) /\ SubSeq(s, k + 1, Len(s)) \in Seq(S)
  OBVIOUS

LEMMA TakenType ==
    ASSUME TypeOK, NEW f \in File
    PROVE  Taken(f) \in 0 .. Len(byFile[f])
  <1>1. IsFiniteSet(Linked \cap OpsOf(f))
    BY DriverAssumption, FS_Subset DEF DriverAssumption, Linked
  <1>2. Cardinality(Linked \cap OpsOf(f)) \in Nat
    BY <1>1, FS_CardinalityType
  <1>3. Len(byFile[f]) \in Nat
    BY DEF TypeOK
  <1> QED
    BY <1>2, <1>3 DEF Taken

\* A full credit is a positive number, whatever the configured weight.
LEMMA FullCredits == FullReadCredit \in Nat \ {0} /\ FullWriteCredit \in Nat \ {0}
  BY DriverAssumption DEF DriverAssumption, FullReadCredit, FullWriteCredit

\* EnqueueCompletion, with or without the deferred release, keeps the
\* completion bookkeeping well typed.
LEMMA EnqueueCompletionType ==
    ASSUME TypeOK, NEW op \in Op, EnqueueCompletion(op)
    PROVE  /\ byFile' \in [File -> Seq(Op)] /\ outstanding' \in [File -> Nat]
           /\ order' \in [Op -> Nat] /\ nextSlot' \in Nat \ {0}
           /\ pendingRelease' \subseteq File /\ dead' \subseteq File
           /\ dropped' \subseteq Op
  <1> DEFINE f == FileOf[op]
             bf == [byFile EXCEPT ![f] = Append(@, op)]
             ord == [order EXCEPT ![op] = nextSlot]
  <1>1. f \in File
    BY DriverAssumption DEF DriverAssumption
  <1>2. bf \in [File -> Seq(Op)] /\ ord \in [Op -> Nat]
    BY <1>1 DEF TypeOK
  <1>3. Elems(bf[f]) \subseteq Op
    BY <1>1, <1>2, ElemsType
  <1>4. Unlink(ord, Elems(bf[f])) \in [Op -> Nat]
    BY <1>2 DEF Unlink
  <1>5. [bf EXCEPT ![f] = <<>>] \in [File -> Seq(Op)]
    BY <1>2
  <1>6. outstanding' \in [File -> Nat] /\ nextSlot' \in Nat \ {0}
    <2>1. outstanding' = [outstanding EXCEPT ![f] = IF @ > 0 THEN @ - 1 ELSE 0]
          /\ nextSlot' = nextSlot + 1
      BY Zenon DEF EnqueueCompletion
    <2> QED
      BY <1>1, <2>1 DEF TypeOK
  <1>7. pendingRelease' \subseteq File
    BY Zenon DEF EnqueueCompletion, TypeOK
  <1>8. CASE outstanding[f] <= 1 /\ f \in pendingRelease
    <2>1. /\ dropped' = dropped \cup Elems(bf[f])
          /\ order' = Unlink(ord, Elems(bf[f]))
          /\ byFile' = [bf EXCEPT ![f] = <<>>]
          /\ dead' = dead \cup {f} \/ dead' = dead
      BY <1>8, Zenon DEF EnqueueCompletion, ReleaseFileLocked
    <2> HIDE DEF bf, ord
    <2> QED
      BY <1>1, <1>3, <1>4, <1>5, <1>6, <1>7, <2>1 DEF TypeOK
  <1>9. CASE ~(outstanding[f] <= 1 /\ f \in pendingRelease)
    <2>1. byFile' = bf /\ order' = ord /\ dead' = dead /\ dropped' = dropped
      BY <1>9, Zenon DEF EnqueueCompletion
    <2> HIDE DEF bf, ord
    <2> QED
      BY <1>2, <1>6, <1>7, <2>1 DEF TypeOK
  <1> QED
    BY <1>8, <1>9

\* Pick's decision: which side is served, and what that does to the credits
\* and the streaks.
PickFrom(q, rest) ==
    \E i \in DOMAIN q : hand' = q[i] /\ q' = Without(q, i) /\ rest' = rest

Refill == readQ # <<>> /\ writeQ # <<>> /\ readCredit = 0 /\ writeCredit = 0
Rc == IF Refill THEN FullReadCredit ELSE readCredit
Wc == IF Refill THEN FullWriteCredit ELSE writeCredit

ServesRead ==
    /\ (IF readQ # <<>> /\ writeQ # <<>> THEN Rc > 0 ELSE readQ # <<>>)
    /\ PickFrom(readQ, writeQ)
    /\ readCredit' = (IF Rc > 0 THEN Rc - 1 ELSE 0) /\ writeCredit' = Wc
    /\ readStreak' = (IF writeQ # <<>> THEN readStreak + 1 ELSE 0) /\ writeStreak' = 0

ServesWrite ==
    /\ ~(IF readQ # <<>> /\ writeQ # <<>> THEN Rc > 0 ELSE readQ # <<>>)
    /\ PickFrom(writeQ, readQ)
    /\ writeCredit' = (IF Wc > 0 THEN Wc - 1 ELSE 0) /\ readCredit' = Rc
    /\ writeStreak' = (IF readQ # <<>> THEN writeStreak + 1 ELSE 0) /\ readStreak' = 0

LEMMA PickCases ==
    ASSUME Pick
    PROVE  /\ ServesRead \/ ServesWrite
           /\ pc = "pick" /\ inFlight' = inFlight + 1 /\ pc' = "handoff"
           /\ UNCHANGED <<cancelled, stop, backendVars, comps, got, cancelVars, complVars,
                          callerVars>>
  BY Zenon DEF Pick, ServesRead, ServesWrite, PickFrom, Refill, Rc, Wc

LEMMA CreditsType ==
    ASSUME TypeOK
    PROVE  Rc \in 0 .. FullReadCredit /\ Wc \in 0 .. FullWriteCredit
  BY FullCredits DEF TypeOK, Rc, Wc

-----------------------------------------------------------------------------
(* Type correctness.                                                       *)

LEMMA InitType == Init => TypeOK
  <1> SUFFICES ASSUME Init PROVE TypeOK
    OBVIOUS
  <1>1. readQ \in Seq(Reads) /\ writeQ \in Seq(Op \ Reads)
    BY DEF Init
  <1>2. comps \in Seq(Op) /\ done \in Seq(Op) /\ flushQ \in Seq(Op)
    BY DEF Init
  <1>3. byFile \in [File -> Seq(Op)] /\ outstanding \in [File -> Nat]
    BY DEF Init
  <1>4. readCredit \in 0 .. FullReadCredit /\ writeCredit \in 0 .. FullWriteCredit
    BY FullCredits DEF Init
  <1>5. order \in [Op -> Nat] /\ waitingOn \in [Waiter -> File \cup {NoFile}]
    BY DEF Init
  <1>6. /\ inFlight \in Int /\ got \in Nat /\ nextSlot \in Nat \ {0}
        /\ hand \in Op \cup {NoOp} /\ (hand = NoOp <=> pc # "handoff")
        /\ readStreak \in Nat /\ writeStreak \in Nat
    BY DEF Init
  <1> QED
    BY <1>1, <1>2, <1>3, <1>4, <1>5, <1>6 DEF Init, TypeOK

LEMMA NextType == TypeOK /\ [Next]_vars => TypeOK'
  <1> SUFFICES ASSUME TypeOK, [Next]_vars PROVE TypeOK'
    OBVIOUS
  <1> USE DriverAssumption DEF DriverAssumption
  <1>1. ASSUME NEW op \in Op, Submit(op) PROVE TypeOK'
    <2>1. readQ' \in Seq(Reads) /\ writeQ' \in Seq(Op \ Reads)
      <3>1. op \in Reads => Append(readQ, op) \in Seq(Reads)
        BY DEF TypeOK
      <3>2. op \notin Reads => Append(writeQ, op) \in Seq(Op \ Reads)
        BY DEF TypeOK
      <3> QED
        BY <1>1, <3>1, <3>2, Zenon DEF Submit, TypeOK
    <2>2. outstanding' = [outstanding EXCEPT ![FileOf[op]] = @ + 1]
      BY <1>1, Zenon DEF Submit
    <2>3. outstanding' \in [File -> Nat]
      BY <2>2 DEF TypeOK
    <2>4. accepted' \subseteq Op
      BY <1>1, Zenon DEF Submit, TypeOK
    <2> QED
      BY <1>1, <2>1, <2>3, <2>4 DEF Submit, TypeOK, streaks, backendVars, schedVars, cancelVars
  <1>2. ASSUME NEW f \in File, DrainForFile(f) PROVE TypeOK'
    <2>1. Elems(byFile[f]) \subseteq Op
      BY ElemsType DEF TypeOK
    <2>2. order' \in [Op -> Nat]
      <3>1. order' = Unlink(order, Elems(byFile[f]))
        BY <1>2, Zenon DEF DrainForFile
      <3> QED
        BY <3>1 DEF Unlink, TypeOK
    <2>3. byFile' \in [File -> Seq(Op)]
      <3>1. byFile' = [byFile EXCEPT ![f] = <<>>]
        BY <1>2, Zenon DEF DrainForFile
      <3> QED
        BY <3>1 DEF TypeOK
    <2>4. delivered' \subseteq Op
      BY <1>2, <2>1, Zenon DEF DrainForFile, TypeOK
    <2> QED
      BY <1>2, <2>2, <2>3, <2>4 DEF DrainForFile, TypeOK, streaks, queueVars, backendVars, schedVars,
                                    cancelVars
  <1>3. ASSUME NEW f \in File, ReleaseFile(f) PROVE TypeOK'
    BY <1>3 DEF ReleaseFile, TypeOK, streaks, queueVars, backendVars, schedVars, cancelVars
  <1>4. CASE DrainAll
    <2>1. ASSUME NEW f \in File
          PROVE  /\ SubSeq(byFile[f], 1, Taken(f)) \in Seq(Op)
                 /\ SubSeq(byFile[f], Taken(f) + 1, Len(byFile[f])) \in Seq(Op)
      BY TakenType, SubSeqType DEF TypeOK
    <2>2. byFile' \in [File -> Seq(Op)]
      <3>1. byFile' = [f \in File |-> SubSeq(byFile[f], Taken(f) + 1, Len(byFile[f]))]
        BY <1>4, Zenon DEF DrainAll
      <3> QED
        BY <2>1, <3>1, Zenon
    <2>3. delivered' \subseteq Op
      <3>1. \A f \in File : Elems(SubSeq(byFile[f], 1, Taken(f))) \subseteq Op
        BY <2>1, ElemsType
      <3>2. delivered' = delivered \cup UNION {Elems(SubSeq(byFile[f], 1, Taken(f))) : f \in File}
        BY <1>4, Zenon DEF DrainAll
      <3> QED
        BY <3>1, <3>2 DEF TypeOK
    <2>4. order' \in [Op -> Nat]
      BY <1>4 DEF DrainAll
    <2> QED
      BY <1>4, <2>2, <2>3, <2>4 DEF DrainAll, TypeOK, streaks, queueVars, backendVars, schedVars, cancelVars
  <1>5. ASSUME NEW t \in Waiter, NEW f \in File, WaitForFile(t, f) PROVE TypeOK'
    BY <1>5 DEF WaitForFile, TypeOK, streaks, queueVars, backendVars, schedVars, cancelVars, complVars
  <1>6. CASE RequestCancel
    <2>1. readQ \o writeQ \in Seq(Op)
      <3>1. readQ \in Seq(Op) /\ writeQ \in Seq(Op)
        BY SeqMonotonic DEF TypeOK
      <3> QED
        BY <3>1
    <2> QED
      BY <1>6, <2>1 DEF RequestCancel, TypeOK, streaks, backendVars, schedVars, complVars, callerVars
  <1>7. CASE Destroy
    BY <1>7 DEF Destroy, TypeOK, streaks, backendVars, schedVars, cancelVars, complVars, callerVars
  <1>8. CASE SchedTop \/ PickNothing
    BY <1>8 DEF SchedTop, PickNothing, TypeOK, streaks, queueVars, backendVars, cancelVars, complVars,
                callerVars
  <1>9. CASE Pick
    <2>0. /\ pc = "pick" /\ inFlight' = inFlight + 1 /\ pc' = "handoff"
          /\ UNCHANGED <<cancelled, stop, backendVars, comps, got, cancelVars, complVars,
                         callerVars>>
      BY <1>9, PickCases
    <2>1. \A i \in DOMAIN readQ : readQ[i] \in Op /\ Without(readQ, i) \in Seq(Reads)
      BY WithoutType DEF TypeOK
    <2>2. \A i \in DOMAIN writeQ : writeQ[i] \in Op /\ Without(writeQ, i) \in Seq(Op \ Reads)
      BY WithoutType DEF TypeOK
    <2>5. /\ inFlight' \in Int /\ pc' = "handoff"
          /\ pc' \in {"top", "pick", "handoff", "failed", "reap", "route", "exit"}
          /\ \A o \in Op : o # NoOp /\ o \in Op \cup {NoOp}
      BY <2>0 DEF TypeOK
    <2>6. /\ cancelled' = cancelled /\ stop' = stop /\ shut' = shut
          /\ comps' = comps /\ got' = got /\ executing' = executing /\ done' = done
          /\ flushQ' = flushQ /\ canceller' = canceller
          /\ byFile' = byFile /\ order' = order /\ nextSlot' = nextSlot
          /\ outstanding' = outstanding /\ pendingRelease' = pendingRelease
          /\ dead' = dead /\ dropped' = dropped /\ releasing' = releasing
          /\ waitingOn' = waitingOn /\ accepted' = accepted /\ delivered' = delivered
          /\ released' = released
      BY <2>0 DEF backendVars, cancelVars, complVars, callerVars
    <2>3. CASE ServesRead
      <3>1. hand' \in Op /\ readQ' \in Seq(Reads) /\ writeQ' \in Seq(Op \ Reads)
        <4> PICK i \in DOMAIN readQ : hand' = readQ[i] /\ readQ' = Without(readQ, i)
                                     /\ writeQ' = writeQ
          BY <2>3, Zenon DEF ServesRead, PickFrom
        <4> QED
          BY <2>1, Zenon DEF TypeOK
      <3>2. readCredit' \in 0 .. FullReadCredit /\ writeCredit' \in 0 .. FullWriteCredit
        BY <2>3, CreditsType, FullCredits DEF ServesRead
      <3>3. readStreak' \in Nat /\ writeStreak' \in Nat
        BY <2>3 DEF ServesRead, TypeOK
      <3> QED
        BY <2>5, <2>6, <3>1, <3>2, <3>3, Zenon DEF TypeOK
    <2>4. CASE ServesWrite
      <3>1. hand' \in Op /\ readQ' \in Seq(Reads) /\ writeQ' \in Seq(Op \ Reads)
        <4> PICK i \in DOMAIN writeQ : hand' = writeQ[i] /\ writeQ' = Without(writeQ, i)
                                      /\ readQ' = readQ
          BY <2>4, Zenon DEF ServesWrite, PickFrom
        <4> QED
          BY <2>2, Zenon DEF TypeOK
      <3>2. readCredit' \in 0 .. FullReadCredit /\ writeCredit' \in 0 .. FullWriteCredit
        BY <2>4, CreditsType, FullCredits DEF ServesWrite
      <3>3. readStreak' \in Nat /\ writeStreak' \in Nat
        BY <2>4 DEF ServesWrite, TypeOK
      <3> QED
        BY <2>5, <2>6, <3>1, <3>2, <3>3, Zenon DEF TypeOK
    <2> QED
      BY <1>9, <2>3, <2>4, PickCases
  <1>10. CASE Handoff
    BY <1>10 DEF Handoff, TypeOK, streaks, queueVars, cancelVars, complVars, callerVars
  <1>11. CASE HandoffFails
    <2>1. hand \in Op
      BY <1>11 DEF HandoffFails, TypeOK
    <2> QED
      BY <1>11, <2>1, EnqueueCompletionType DEF HandoffFails, TypeOK, streaks, queueVars, backendVars,
                                                cancelVars, callerVars
  <1>12. CASE FreeFailedSlot
    BY <1>12 DEF FreeFailedSlot, TypeOK, streaks, queueVars, backendVars, cancelVars, complVars, callerVars
  <1>13. CASE Reap
    <2>1. Len(done) \in Nat /\ <<>> \in Seq(Op)
      BY DEF TypeOK
    <2>2. comps' \in Seq(Op) /\ got' \in Nat /\ done' \in Seq(Op)
      BY <1>13, <2>1, Zenon DEF Reap, TypeOK
    <2>3. /\ pc = "reap" /\ pc' \in {"top", "route"}
          /\ UNCHANGED <<queueVars, inFlight, executing, hand, cancelVars, complVars,
                         callerVars, streaks>>
      BY <1>13 DEF Reap
    <2> QED
      BY <2>2, <2>3 DEF TypeOK, streaks, queueVars, cancelVars, complVars, callerVars
  <1>14. CASE Route
    <2>1. Head(comps) \in Op /\ Tail(comps) \in Seq(Op)
      BY <1>14 DEF Route, TypeOK
    <2> QED
      BY <1>14, <2>1, EnqueueCompletionType DEF Route, TypeOK, streaks, queueVars, backendVars,
                                                cancelVars, callerVars
  <1>15. CASE RouteDone
    BY <1>15 DEF RouteDone, TypeOK, streaks, queueVars, backendVars, cancelVars, complVars, callerVars
  <1>16. ASSUME NEW op \in Op, BackendFinish(op) PROVE TypeOK'
    BY <1>16 DEF BackendFinish, TypeOK, streaks, queueVars, schedVars, cancelVars, complVars, callerVars
  <1>17. CASE FlushOne
    <2>1. Head(flushQ) \in Op /\ Tail(flushQ) \in Seq(Op)
      BY <1>17 DEF FlushOne, TypeOK
    <2> QED
      BY <1>17, <2>1, EnqueueCompletionType DEF FlushOne, TypeOK, streaks, queueVars, backendVars,
                                                schedVars, callerVars
  <1>18. CASE FlushDone
    BY <1>18 DEF FlushDone, TypeOK, streaks, queueVars, backendVars, schedVars, complVars, callerVars
  <1>22. CASE Shutdown
    <2>1. done' \in Seq(Op)
      BY <1>22 DEF Shutdown
    <2> QED
      BY <1>22, <2>1 DEF Shutdown, TypeOK, streaks, queueVars, schedVars, cancelVars, complVars
  <1>19. ASSUME NEW f \in File, ReleaseNow(f) PROVE TypeOK'
    <2>1. Elems(byFile[f]) \subseteq Op
      BY ElemsType DEF TypeOK
    <2>2. order' \in [Op -> Nat]
      <3>1. order' = Unlink(order, Elems(byFile[f]))
        BY <1>19, Zenon DEF ReleaseNow, ReleaseFileLocked
      <3> QED
        BY <3>1 DEF Unlink, TypeOK
    <2>3. byFile' \in [File -> Seq(Op)]
      <3>1. byFile' = [byFile EXCEPT ![f] = <<>>]
        BY <1>19, Zenon DEF ReleaseNow, ReleaseFileLocked
      <3> QED
        BY <3>1 DEF TypeOK
    <2>4. dropped' \subseteq Op /\ dead' \subseteq File
      BY <1>19, <2>1, Zenon DEF ReleaseNow, ReleaseFileLocked, TypeOK
    <2> QED
      BY <1>19, <2>2, <2>3, <2>4 DEF ReleaseNow, TypeOK, streaks, queueVars, backendVars,
                                     schedVars, cancelVars
  <1>20. ASSUME NEW t \in Waiter, LeaveWait(t) PROVE TypeOK'
    BY <1>20 DEF LeaveWait, TypeOK, streaks, queueVars, backendVars, schedVars, cancelVars
  <1>21. CASE UNCHANGED vars
    BY <1>21 DEF vars, streaks, TypeOK, queueVars, backendVars, schedVars, cancelVars, complVars,
                 callerVars
  <1> QED
    BY <1>1, <1>2, <1>3, <1>4, <1>5, <1>6, <1>7, <1>8, <1>9, <1>10, <1>11, <1>12, <1>13,
       <1>14, <1>15, <1>16, <1>17, <1>18, <1>19, <1>20, <1>21, <1>22 DEF Next, Callers, Progress

\* Every variable of the driver keeps its type; in particular the credits stay
\* within their weights and fileOutstanding_, which the code keeps in unsigned
\* integers, never passes below zero.
THEOREM TypeCorrect == Spec => []TypeOK
  <1>1. Init => TypeOK
    BY InitType
  <1>2. TypeOK /\ [Next]_vars => TypeOK'
    BY NextType
  <1> QED
    BY <1>1, <1>2, PTL DEF Spec

-----------------------------------------------------------------------------
(* Weighted fairness.                                                      *)

\* What a streak has used up is what its side's credit has lost.  Reads go
\* first, so one refill can fall inside a read streak; after it the writes hold
\* credit, which only a write can spend, so there is no second one.
FairInv ==
    /\ readStreak + readCredit <= (IF writeCredit = 0 THEN 1 ELSE 2) * FullReadCredit
    /\ writeStreak + writeCredit <= FullWriteCredit

creditVars == <<readCredit, writeCredit, readStreak, writeStreak>>

\* Only Pick touches credits and streaks.
LEMMA CreditFrame == [Next]_vars => Pick \/ UNCHANGED creditVars
  <1> SUFFICES ASSUME [Next]_vars PROVE Pick \/ UNCHANGED creditVars
    OBVIOUS
  <1> USE DEF creditVars, queueVars, streaks
  <1>1. CASE Callers
    BY <1>1, Zenon DEF Callers, Submit, DrainForFile, ReleaseFile, DrainAll, WaitForFile,
                       RequestCancel, Destroy
  <1>2. CASE Progress
    BY <1>2, Zenon DEF Progress, SchedTop, PickNothing, Handoff, HandoffFails, FreeFailedSlot,
                       Reap, Route, RouteDone, BackendFinish, FlushOne, FlushDone, Shutdown,
                       ReleaseNow, LeaveWait
  <1>3. CASE UNCHANGED vars
    BY <1>3, Zenon DEF vars
  <1> QED
    BY <1>1, <1>2, <1>3 DEF Next

LEMMA PickFair == TypeOK /\ FairInv /\ Pick => FairInv'
  <1> SUFFICES ASSUME TypeOK, FairInv, Pick PROVE FairInv'
    OBVIOUS
  <1>1. /\ readCredit \in 0 .. FullReadCredit /\ writeCredit \in 0 .. FullWriteCredit
        /\ readStreak \in Nat /\ writeStreak \in Nat
    BY DEF TypeOK
  <1>2. CASE ServesRead
    BY <1>1, <1>2, FullCredits DEF ServesRead, Rc, Wc, Refill, FairInv
  <1>3. CASE ServesWrite
    BY <1>1, <1>3, FullCredits DEF ServesWrite, Rc, Wc, Refill, FairInv
  <1> QED
    BY <1>2, <1>3, PickCases

\* AC-19/AC-20: whatever the weights and the load, with both directions waiting
\* at most 2 * readWeight reads, or writeWeight writes, are picked in a row.
THEOREM FairShareHolds == Spec => []FairShare
  <1>1. Init => FairInv
    BY FullCredits DEF Init, FairInv
  <1>2. TypeOK /\ FairInv /\ [Next]_vars => FairInv'
    <2>1. FairInv /\ UNCHANGED creditVars => FairInv'
      BY DEF FairInv, creditVars
    <2> QED
      BY <2>1, CreditFrame, PickFair
  <1>3. TypeOK /\ FairInv => FairShare
    BY FullCredits DEF TypeOK, FairInv, FairShare
  <1> QED
    BY <1>1, <1>2, <1>3, TypeCorrect, PTL DEF Spec

-----------------------------------------------------------------------------
(* Deferred releases.                                                      *)

\* EnqueueCompletion settles the count before it looks at pendingRelease_, so
\* it never leaves a deferred release behind that nothing will run.
LEMMA EnqueueKeepsTrigger ==
    ASSUME TypeOK, NEW op \in Op, EnqueueCompletion(op),
           \A g \in pendingRelease : outstanding[g] > 0
    PROVE  \A g \in pendingRelease' : outstanding'[g] > 0
  <1> DEFINE f == FileOf[op]
  <1>1. f \in File
    BY DriverAssumption DEF DriverAssumption
  <1>2. /\ outstanding' = [outstanding EXCEPT ![f] = IF @ > 0 THEN @ - 1 ELSE 0]
        /\ pendingRelease' = IF outstanding[f] <= 1 /\ f \in pendingRelease
                             THEN pendingRelease \ {f} ELSE pendingRelease
    BY Zenon DEF EnqueueCompletion
  <1>3. outstanding \in [File -> Nat] /\ pendingRelease \subseteq File
    BY DEF TypeOK
  <1> HIDE DEF f
  <1> QED
    BY <1>1, <1>2, <1>3

LEMMA NextKeepsTrigger ==
    TypeOK /\ DeferredReleaseHasTrigger /\ [Next]_vars => DeferredReleaseHasTrigger'
  <1> SUFFICES ASSUME TypeOK, DeferredReleaseHasTrigger, [Next]_vars, ~shut'
               PROVE  \A g \in pendingRelease' : outstanding'[g] > 0
    BY DEF DeferredReleaseHasTrigger
  <1>0. ~shut
    BY Zenon DEF Next, Callers, Progress, vars, callerVars, Submit, DrainForFile, ReleaseFile,
                 DrainAll, WaitForFile, RequestCancel, Destroy, SchedTop, PickNothing, Pick,
                 Handoff, HandoffFails, FreeFailedSlot, Reap, Route, RouteDone, BackendFinish,
                 FlushOne, FlushDone, Shutdown, ReleaseNow, LeaveWait
  <1>1. \A g \in pendingRelease : outstanding[g] > 0
    BY <1>0 DEF DeferredReleaseHasTrigger
  <1>2. CASE UNCHANGED <<outstanding, pendingRelease>>
    BY <1>1, <1>2
  <1>3. ASSUME NEW op \in Op, Submit(op)
        PROVE  \A g \in pendingRelease' : outstanding'[g] > 0
    <2>1. outstanding' = [outstanding EXCEPT ![FileOf[op]] = @ + 1]
          /\ pendingRelease' = pendingRelease
      BY <1>3, Zenon DEF Submit
    <2> QED
      BY <1>1, <2>1, DriverAssumption DEF TypeOK, DriverAssumption
  <1>4. ASSUME NEW f \in File, ReleaseFile(f)
        PROVE  \A g \in pendingRelease' : outstanding'[g] > 0
    BY <1>1, <1>4 DEF ReleaseFile, TypeOK
  <1>5. CASE HandoffFails
    <2>1. hand \in Op /\ EnqueueCompletion(hand)
      BY <1>5 DEF HandoffFails, TypeOK
    <2> QED
      BY <1>1, <2>1, EnqueueKeepsTrigger
  <1>6. CASE Route
    <2>1. Head(comps) \in Op /\ EnqueueCompletion(Head(comps))
      BY <1>6 DEF Route, TypeOK
    <2> QED
      BY <1>1, <2>1, EnqueueKeepsTrigger
  <1>7. CASE FlushOne
    <2>1. Head(flushQ) \in Op /\ EnqueueCompletion(Head(flushQ))
      BY <1>7 DEF FlushOne, TypeOK
    <2> QED
      BY <1>1, <2>1, EnqueueKeepsTrigger
  <1>8. CASE Callers
    BY <1>2, <1>3, <1>4, <1>8, Zenon DEF Callers, DrainForFile, DrainAll, WaitForFile,
                                         RequestCancel, Destroy, complVars
  <1>9. CASE Progress
    BY <1>2, <1>5, <1>6, <1>7, <1>9, Zenon
       DEF Progress, complVars, SchedTop, PickNothing, Pick, Handoff, FreeFailedSlot, Reap,
           RouteDone, BackendFinish, FlushDone, Shutdown, ReleaseNow, LeaveWait
  <1>10. CASE UNCHANGED vars
    BY <1>2, <1>10, Zenon DEF vars, complVars
  <1> QED
    BY <1>8, <1>9, <1>10 DEF Next

\* Invariant II of disk_io_driver.h for any number of files, operations and
\* concurrent releases: a deferred release always has an operation outstanding
\* whose completion will run it.
THEOREM DeferredReleaseSafe == Spec => []DeferredReleaseHasTrigger
  <1>1. Init => DeferredReleaseHasTrigger
    BY DEF Init, DeferredReleaseHasTrigger
  <1>2. TypeOK /\ DeferredReleaseHasTrigger /\ [Next]_vars => DeferredReleaseHasTrigger'
    BY NextKeepsTrigger
  <1> QED
    BY <1>1, <1>2, TypeCorrect, PTL DEF Spec
-----------------------------------------------------------------------------
(* Lists without repetition.                                               *)

Injective(s) == \A i, j \in DOMAIN s : s[i] = s[j] => i = j

LEMMA EmptyList == Elems(<<>>) = {} /\ Injective(<<>>)
  BY DEF Elems, Injective

LEMMA EmptyElems ==
    ASSUME NEW S, NEW s \in Seq(S), Elems(s) = {}
    PROVE  s = <<>>
  <1>1. CASE Len(s) = 0
    BY <1>1
  <1>2. CASE Len(s) # 0
    <2>1. 1 \in DOMAIN s
      BY <1>2
    <2> QED
      BY <2>1 DEF Elems
  <1> QED
    BY <1>1, <1>2

LEMMA AppendList ==
    ASSUME NEW S, NEW s \in Seq(S), NEW e \in S
    PROVE  /\ Elems(Append(s, e)) = Elems(s) \cup {e}
           /\ Injective(s) /\ e \notin Elems(s) => Injective(Append(s, e))
  <1> DEFINE t == Append(s, e)
  <1>1. /\ Len(s) \in Nat /\ DOMAIN s = 1 .. Len(s) /\ DOMAIN t = 1 .. (Len(s) + 1)
        /\ t[Len(s) + 1] = e /\ \A i \in DOMAIN s : t[i] = s[i]
    OBVIOUS
  <1> HIDE DEF t
  <1>2. \A i \in DOMAIN t : i \in DOMAIN s \/ i = Len(s) + 1
    BY <1>1
  <1>3. Elems(t) = Elems(s) \cup {e}
    <2>1. Elems(t) \subseteq Elems(s) \cup {e}
      BY <1>1, <1>2 DEF Elems
    <2>2. Elems(s) \cup {e} \subseteq Elems(t)
      <3>1. DOMAIN s \subseteq DOMAIN t /\ Len(s) + 1 \in DOMAIN t
        BY <1>1
      <3> QED
        BY <1>1, <3>1 DEF Elems
    <2> QED
      BY <2>1, <2>2
  <1>4. Injective(s) /\ e \notin Elems(s) => Injective(t)
    BY <1>1, <1>2 DEF Injective, Elems
  <1> QED
    BY <1>3, <1>4 DEF t

LEMMA TailList ==
    ASSUME NEW S, NEW s \in Seq(S), s # <<>>, Injective(s)
    PROVE  /\ Head(s) \in Elems(s) /\ Elems(Tail(s)) = Elems(s) \ {Head(s)}
           /\ Injective(Tail(s))
  <1> DEFINE t == Tail(s)
  <1>1. /\ Len(s) \in Nat \ {0} /\ DOMAIN s = 1 .. Len(s) /\ DOMAIN t = 1 .. (Len(s) - 1)
        /\ Head(s) = s[1] /\ \A i \in DOMAIN t : t[i] = s[i + 1]
    OBVIOUS
  <1> HIDE DEF t
  <1>2. \A i \in DOMAIN t : i + 1 \in DOMAIN s /\ i + 1 # 1 /\ i \in Int
    BY <1>1
  <1>3. \A i \in DOMAIN s : i = 1 \/ (i - 1 \in DOMAIN t /\ (i - 1) + 1 = i)
    BY <1>1
  <1>4. 1 \in DOMAIN s
    BY <1>1
  <1>5. Elems(t) = Elems(s) \ {Head(s)}
    <2>1. Elems(t) \subseteq Elems(s) \ {Head(s)}
      <3> SUFFICES ASSUME NEW i \in DOMAIN t PROVE t[i] \in Elems(s) /\ t[i] # Head(s)
        BY DEF Elems
      <3> QED
        BY <1>1, <1>2, <1>4 DEF Elems, Injective
    <2>2. Elems(s) \ {Head(s)} \subseteq Elems(t)
      <3> SUFFICES ASSUME NEW i \in DOMAIN s, s[i] # Head(s) PROVE s[i] \in Elems(t)
        BY DEF Elems
      <3>1. i - 1 \in DOMAIN t /\ t[i - 1] = s[i]
        BY <1>1, <1>3
      <3> QED
        BY <3>1 DEF Elems
    <2> QED
      BY <2>1, <2>2
  <1>6. Injective(t)
    <2> SUFFICES ASSUME NEW i \in DOMAIN t, NEW j \in DOMAIN t, t[i] = t[j] PROVE i = j
      BY DEF Injective
    <2>1. i + 1 = j + 1
      BY <1>1, <1>2 DEF Injective
    <2> QED
      BY <1>2, <2>1
  <1>7. Head(s) \in Elems(s)
    BY <1>1, <1>4 DEF Elems
  <1> QED
    BY <1>5, <1>6, <1>7 DEF t

LEMMA WithoutList ==
    ASSUME NEW S, NEW s \in Seq(S), NEW k \in DOMAIN s, Injective(s)
    PROVE  /\ s[k] \in Elems(s) /\ Elems(Without(s, k)) = Elems(s) \ {s[k]}
           /\ Injective(Without(s, k))
  <1> DEFINE t == Without(s, k)
  <1>1. /\ Len(s) \in Nat \ {0} /\ DOMAIN s = 1 .. Len(s) /\ DOMAIN t = 1 .. (Len(s) - 1)
        /\ k \in 1 .. Len(s)
        /\ \A i \in DOMAIN t : t[i] = IF i < k THEN s[i] ELSE s[i + 1]
    BY DEF Without
  <1> HIDE DEF t
  <1>2. \A i \in DOMAIN t : \E m \in DOMAIN s : /\ m # k /\ t[i] = s[m]
                                               /\ m = IF i < k THEN i ELSE i + 1
    BY <1>1
  <1>3. \A m \in DOMAIN s : m = k \/ \E i \in DOMAIN t : t[i] = s[m]
    <2> SUFFICES ASSUME NEW m \in DOMAIN s, m # k PROVE \E i \in DOMAIN t : t[i] = s[m]
      OBVIOUS
    <2>1. CASE m < k
      <3>1. m \in DOMAIN t /\ t[m] = s[m]
        BY <1>1, <2>1
      <3> QED
        BY <3>1
    <2>2. CASE m > k
      <3>1. m - 1 \in DOMAIN t /\ ~(m - 1 < k) /\ (m - 1) + 1 = m
        BY <1>1, <2>2
      <3> QED
        BY <1>1, <3>1
    <2> QED
      BY <1>1, <2>1, <2>2
  <1>5. Elems(t) = Elems(s) \ {s[k]}
    <2>1. Elems(t) \subseteq Elems(s) \ {s[k]}
      BY <1>2 DEF Elems, Injective
    <2>2. Elems(s) \ {s[k]} \subseteq Elems(t)
      BY <1>3 DEF Elems
    <2> QED
      BY <2>1, <2>2
  <1>6. Injective(t)
    <2> SUFFICES ASSUME NEW i \in DOMAIN t, NEW j \in DOMAIN t, t[i] = t[j] PROVE i = j
      BY DEF Injective
    <2>1. PICK m \in DOMAIN s : t[i] = s[m] /\ m = IF i < k THEN i ELSE i + 1
      BY <1>2
    <2>2. PICK n \in DOMAIN s : t[j] = s[n] /\ n = IF j < k THEN j ELSE j + 1
      BY <1>2
    <2>3. m = n
      BY <2>1, <2>2 DEF Injective
    <2> QED
      BY <1>1, <2>1, <2>2, <2>3
  <1>7. s[k] \in Elems(s)
    BY DEF Elems
  <1> QED
    BY <1>5, <1>6, <1>7 DEF t

LEMMA ConcatList ==
    ASSUME NEW S, NEW s \in Seq(S), NEW u \in Seq(S)
    PROVE  /\ Elems(s \o u) = Elems(s) \cup Elems(u)
           /\ Injective(s) /\ Injective(u) /\ Elems(s) \cap Elems(u) = {} => Injective(s \o u)
  <1> DEFINE t == s \o u
             m == Len(s)
  <1>1. /\ m \in Nat /\ Len(u) \in Nat /\ DOMAIN s = 1 .. m /\ DOMAIN u = 1 .. Len(u)
        /\ DOMAIN t = 1 .. (m + Len(u))
        /\ \A i \in DOMAIN t : t[i] = IF i <= m THEN s[i] ELSE u[i - m]
    OBVIOUS
  <1> HIDE DEF t, m
  <1>2. \A i \in DOMAIN t : \/ i <= m /\ i \in DOMAIN s /\ t[i] = s[i]
                            \/ i > m /\ i - m \in DOMAIN u /\ t[i] = u[i - m] /\ i \in Int
    <2> TAKE i \in DOMAIN t
    <2>1. i \in Int /\ 1 <= i /\ i <= m + Len(u)
      BY <1>1
    <2>2. CASE i <= m
      <3>1. i \in 1 .. m
        BY <1>1, <2>1, <2>2
      <3>2. i \in DOMAIN s /\ t[i] = s[i]
        BY <1>1, <2>2, <3>1
      <3> QED
        BY <2>2, <3>2
    <2>3. CASE i > m
      <3>1. i - m \in 1 .. Len(u) /\ ~(i <= m)
        BY <1>1, <2>1, <2>3
      <3> QED
        BY <1>1, <2>1, <2>3, <3>1
    <2> QED
      BY <1>1, <2>1, <2>2, <2>3
  <1>6. \A i \in DOMAIN t : (i <= m => t[i] \in Elems(s)) /\ (i > m => t[i] \in Elems(u))
    BY <1>1, <1>2 DEF Elems
  <1>3. /\ \A i \in DOMAIN s : i \in DOMAIN t /\ t[i] = s[i]
        /\ \A i \in DOMAIN u : i + m \in DOMAIN t /\ t[i + m] = u[i]
    BY <1>1
  <1>4. Elems(t) = Elems(s) \cup Elems(u)
    <2>1. Elems(t) \subseteq Elems(s) \cup Elems(u)
      BY <1>2 DEF Elems
    <2>2. Elems(s) \cup Elems(u) \subseteq Elems(t)
      BY <1>3 DEF Elems
    <2> QED
      BY <2>1, <2>2
  <1>5. ASSUME Injective(s), Injective(u), Elems(s) \cap Elems(u) = {}, NEW i \in DOMAIN t,
               NEW j \in DOMAIN t, t[i] = t[j]
        PROVE  i = j
    <2>1. CASE i <= m /\ j <= m
      <3>1. i \in DOMAIN s /\ j \in DOMAIN s /\ t[i] = s[i] /\ t[j] = s[j]
        BY <1>1, <1>2, <2>1
      <3> QED
        BY <1>5, <3>1 DEF Injective
    <2>2. CASE i > m /\ j > m
      <3>1. i - m = j - m
        BY <1>1, <1>2, <1>5, <2>2 DEF Injective
      <3> QED
        BY <1>1, <3>1
    <2>3. CASE (i <= m /\ j > m) \/ (i > m /\ j <= m)
      BY <1>5, <1>6, <2>3
    <2> QED
      BY <1>1, <2>1, <2>2, <2>3
  <1> QED
    BY <1>4, <1>5 DEF t, Injective

LEMMA CountList ==
    ASSUME NEW S, NEW s \in Seq(S), Injective(s)
    PROVE  IsFiniteSet(Elems(s)) /\ Cardinality(Elems(s)) = Len(s)
  <1>1. Len(s) \in Nat /\ DOMAIN s = 1 .. Len(s)
    OBVIOUS
  <1>2. s \in Bijection(1 .. Len(s), Elems(s))
    <2>1. s \in [1 .. Len(s) -> Elems(s)]
      BY <1>1 DEF Elems
    <2>2. \A i, j \in 1 .. Len(s) : s[i] = s[j] => i = j
      BY <1>1 DEF Injective
    <2>3. \A e \in Elems(s) : \E i \in 1 .. Len(s) : s[i] = e
      BY <1>1 DEF Elems
    <2> QED
      BY <2>1, <2>2, <2>3, Fun_IsBij
  <1>3. IsFiniteSet(1 .. Len(s)) /\ Cardinality(1 .. Len(s)) = Len(s)
    BY <1>1, FS_Interval, SMTT(30)
  <1>4. ExistsBijection(1 .. Len(s), Elems(s))
    BY <1>2 DEF ExistsBijection
  <1> QED
    BY <1>3, <1>4, FS_Bijection

-----------------------------------------------------------------------------
(* Exactly one place.                                                      *)

PlaceName == {"readQ", "writeQ", "flushQ", "hand", "executing", "done", "comps",
              "linked", "delivered", "dropped"}

\* What each place of the driver holds.
Holds(x) ==
    CASE x = "readQ" -> Elems(readQ) [] x = "writeQ" -> Elems(writeQ)
      [] x = "flushQ" -> Elems(flushQ) [] x = "hand" -> InHand
      [] x = "executing" -> executing [] x = "done" -> Elems(done)
      [] x = "comps" -> Elems(comps) [] x = "linked" -> Linked
      [] x = "delivered" -> delivered [] x = "dropped" -> dropped

\* No two places share an operation, and until the backend is shut down no accepted
\* operation is in none.
Placed ==
    /\ \A x, y \in PlaceName : x # y => Holds(x) \cap Holds(y) = {}
    /\ \A x \in PlaceName : Holds(x) \subseteq accepted
    /\ ~shut => \A o \in accepted : \E x \in PlaceName : o \in Holds(x)

\* No place holds an operation twice; a batch is routed whole before the next reap, and
\* only requestCancel fills the list it flushes.
Distinct ==
    /\ Injective(readQ) /\ Injective(writeQ) /\ Injective(flushQ)
    /\ Injective(done) /\ Injective(comps)
    /\ pc # "route" => comps = <<>>
    /\ ~cancelled => flushQ = <<>>

Ascending(s, ord) == \A i, j \in DOMAIN s : i < j => ord[s[i]] < ord[s[j]]

\* The per-file lists and the global order list hold the same completions, oldest first.
OrderExact ==
    /\ \A o \in Op : order[o] < nextSlot
    /\ \A f \in File : Elems(byFile[f]) = Linked \cap OpsOf(f) /\ Ascending(byFile[f], order)

Pending == accepted \ (Linked \cup delivered \cup dropped)

\* fileOutstanding_ counts the operations of a file that have not been completed.
OutstandingExact == \A f \in File : outstanding[f] = Cardinality(Pending \cap OpsOf(f))

\* A released file waits for its last operation, or has none; once its release has run
\* nothing of it is kept.  A dead wait state has a waiter.
ReleaseShape ==
    /\ pendingRelease \subseteq released /\ releasing \subseteq released
    /\ \A f \in released : f \in pendingRelease \/ outstanding[f] = 0
    /\ \A f \in released \ releasing : f \in pendingRelease \/ byFile[f] = <<>>
    /\ \A f \in dead : \E t \in Waiter : waitingOn[t] = f

Shape == Placed /\ Distinct /\ OrderExact /\ OutstandingExact /\ ReleaseShape
PlaceInv == TypeOK /\ Shape

LEMMA HoldsIs ==
    /\ Holds("readQ") = Elems(readQ) /\ Holds("readQ")' = Elems(readQ')
    /\ Holds("writeQ") = Elems(writeQ) /\ Holds("writeQ")' = Elems(writeQ')
    /\ Holds("flushQ") = Elems(flushQ) /\ Holds("flushQ")' = Elems(flushQ')
    /\ Holds("hand") = InHand /\ Holds("hand")' = InHand'
    /\ Holds("executing") = executing /\ Holds("executing")' = executing'
    /\ Holds("done") = Elems(done) /\ Holds("done")' = Elems(done')
    /\ Holds("comps") = Elems(comps) /\ Holds("comps")' = Elems(comps')
    /\ Holds("linked") = Linked /\ Holds("linked")' = Linked'
    /\ Holds("delivered") = delivered /\ Holds("delivered")' = delivered'
    /\ Holds("dropped") = dropped /\ Holds("dropped")' = dropped'
  BY DEF Holds, Elems

\* Operations that leave some places for one place stay in exactly one.
LEMMA Gathered ==
    ASSUME Placed, NEW b \in PlaceName, NEW A \in SUBSET (PlaceName \ {b}), NEW S,
           \A o \in S : \E a \in A : o \in Holds(a),
           accepted' = accepted, shut' = shut,
           Holds(b)' = Holds(b) \cup S,
           \A a \in A : Holds(a)' = Holds(a) \ S,
           \A x \in PlaceName \ (A \cup {b}) : Holds(x)' = Holds(x)
    PROVE  Placed'
  <1>1. S \subseteq accepted
    BY DEF Placed
  <1>2. \A x \in PlaceName \ {b} : Holds(x)' = Holds(x) \ S
    <2> SUFFICES ASSUME NEW x \in PlaceName \ {b}, x \notin A PROVE Holds(x)' = Holds(x) \ S
      OBVIOUS
    <2>1. Holds(x) \cap S = {}
      BY DEF Placed
    <2> QED
      BY <2>1
  <1>3. \A x, y \in PlaceName : x # y => Holds(x)' \cap Holds(y)' = {}
    BY <1>2 DEF Placed
  <1>4. \A x \in PlaceName : Holds(x)' \subseteq accepted'
    BY <1>1, <1>2 DEF Placed
  <1>5. ASSUME ~shut', NEW o \in accepted' PROVE \E x \in PlaceName : o \in Holds(x)'
    <2>1. PICK x \in PlaceName : o \in Holds(x)
      BY <1>5 DEF Placed
    <2> QED
      BY <1>2, <2>1
  <1> QED
    BY <1>3, <1>4, <1>5 DEF Placed

\* A new operation is put into one place.
LEMMA Added ==
    ASSUME Placed, NEW b \in PlaceName, NEW o, o \notin accepted,
           accepted' = accepted \cup {o}, shut' = shut,
           Holds(b)' = Holds(b) \cup {o},
           \A x \in PlaceName \ {b} : Holds(x)' = Holds(x)
    PROVE  Placed'
  <1>1. \A x, y \in PlaceName : x # y => Holds(x)' \cap Holds(y)' = {}
    BY DEF Placed
  <1>2. \A x \in PlaceName : Holds(x)' \subseteq accepted'
    BY DEF Placed
  <1>3. ASSUME ~shut', NEW p \in accepted' PROVE \E x \in PlaceName : p \in Holds(x)'
    <2>1. CASE p = o
      BY <2>1
    <2>2. CASE p # o
      <3>1. PICK x \in PlaceName : p \in Holds(x)
        BY <1>3, <2>2 DEF Placed
      <3> QED
        BY <3>1
    <2> QED
      BY <2>1, <2>2
  <1> QED
    BY <1>1, <1>2, <1>3 DEF Placed

\* An operation in a place before EnqueueCompletion is pending.
LEMMA PendingPlace ==
    ASSUME Placed, NEW a \in PlaceName \ {"linked", "delivered", "dropped"}, NEW o \in Holds(a)
    PROVE  o \in Pending /\ o \in accepted /\ o \notin Linked
  <1>1. Holds(a) \cap Holds("linked") = {} /\ Holds(a) \cap Holds("delivered") = {}
        /\ Holds(a) \cap Holds("dropped") = {} /\ Holds(a) \subseteq accepted
    BY DEF Placed, PlaceName
  <1> QED
    BY <1>1, HoldsIs DEF Pending

-----------------------------------------------------------------------------
(* EnqueueCompletion.                                                      *)

\* The completion is put on both lists ...
Kept(op) ==
    /\ ~(outstanding[FileOf[op]] <= 1 /\ FileOf[op] \in pendingRelease)
    /\ Linked' = Linked \cup {op}
    /\ UNCHANGED <<dropped, dead, pendingRelease>>
    /\ byFile' = [byFile EXCEPT ![FileOf[op]] = Append(@, op)]
    /\ order' = [order EXCEPT ![op] = nextSlot]

\* ... or, as the last one of a file whose release was deferred, goes with the rest of it.
Released(op) ==
    /\ outstanding[FileOf[op]] <= 1 /\ FileOf[op] \in pendingRelease
    /\ Linked' = Linked \ OpsOf(FileOf[op])
    /\ dropped' = dropped \cup ({op} \cup (Linked \cap OpsOf(FileOf[op])))
    /\ pendingRelease' = pendingRelease \ {FileOf[op]}
    /\ byFile' = [byFile EXCEPT ![FileOf[op]] = <<>>]
    /\ \A o \in Op : order'[o] = order[o] \/ order'[o] = 0
    /\ \A o \in Op \ OpsOf(FileOf[op]) : order'[o] = order[o]
    /\ \A f \in dead' : f \in dead \/ \E t \in Waiter : waitingOn[t] = f

LEMMA EnqueueCases ==
    ASSUME TypeOK, OrderExact, NEW op \in Op, op \notin Linked, EnqueueCompletion(op)
    PROVE  /\ Kept(op) \/ Released(op)
           /\ nextSlot' = nextSlot + 1
           /\ outstanding' = [outstanding EXCEPT ![FileOf[op]] = IF @ > 0 THEN @ - 1 ELSE 0]
           /\ FileOf[op] \in File
  <1> DEFINE f == FileOf[op]
             bf == [byFile EXCEPT ![f] = Append(@, op)]
             ord == [order EXCEPT ![op] = nextSlot]
  <1>1. f \in File
    BY DriverAssumption DEF DriverAssumption
  <1>2. /\ nextSlot' = nextSlot + 1
        /\ outstanding' = [outstanding EXCEPT ![f] = IF @ > 0 THEN @ - 1 ELSE 0]
    BY Zenon DEF EnqueueCompletion
  <1>3. /\ ord \in [Op -> Nat] /\ ord[op] = nextSlot /\ nextSlot # 0
        /\ \A o \in Op : o # op => ord[o] = order[o]
    BY DEF TypeOK
  <1>4. CASE outstanding[f] <= 1 /\ f \in pendingRelease
    <2>1. /\ dropped' = dropped \cup Elems(bf[f])
          /\ order' = Unlink(ord, Elems(bf[f]))
          /\ byFile' = [bf EXCEPT ![f] = <<>>]
          /\ dead' = (IF \E t \in Waiter : waitingOn[t] = f THEN dead \cup {f} ELSE dead)
          /\ pendingRelease' = pendingRelease \ {f}
      BY <1>4, Zenon DEF EnqueueCompletion, ReleaseFileLocked
    <2>2. Elems(bf[f]) = (Linked \cap OpsOf(f)) \cup {op}
      <3>1. bf[f] = Append(byFile[f], op) /\ byFile[f] \in Seq(Op)
        BY <1>1 DEF TypeOK
      <3> QED
        BY <1>1, <3>1, AppendList DEF OrderExact
    <2>3. [bf EXCEPT ![f] = <<>>] = [byFile EXCEPT ![f] = <<>>]
      BY <1>1 DEF TypeOK
    <2> HIDE DEF bf, ord
    <2>4. /\ \A o \in Op : order'[o] = IF o \in Linked \cap OpsOf(f) \/ o = op THEN 0 ELSE order[o]
      BY <1>3, <2>1, <2>2 DEF Unlink
    <2>5. op \in OpsOf(f)
      BY DEF OpsOf
    <2>6. Linked' = Linked \ OpsOf(f)
      BY <2>4, <2>5 DEF Linked
    <2>7. Released(op)
      <3> HIDE DEF f
      <3>1. \A g \in dead' : g \in dead \/ \E t \in Waiter : waitingOn[t] = g
        BY <2>1
      <3>2. /\ \A o \in Op : order'[o] = order[o] \/ order'[o] = 0
            /\ \A o \in Op \ OpsOf(f) : order'[o] = order[o]
        BY <2>4, <2>5
      <3>3. dropped' = dropped \cup ({op} \cup (Linked \cap OpsOf(f)))
        BY <2>1, <2>2
      <3> QED
        BY <1>4, <2>1, <2>3, <2>6, <3>1, <3>2, <3>3 DEF Released, f
    <2> QED
      BY <1>1, <1>2, <2>7
  <1>5. CASE ~(outstanding[f] <= 1 /\ f \in pendingRelease)
    <2>1. byFile' = bf /\ order' = ord /\ UNCHANGED <<dead, dropped, pendingRelease>>
      BY <1>5, Zenon DEF EnqueueCompletion
    <2>2. Linked' = Linked \cup {op}
      <3> HIDE DEF ord
      <3> QED
        BY <1>3, <2>1 DEF Linked
    <2>3. Kept(op)
      BY <1>5, <2>1, <2>2 DEF Kept
    <2> QED
      BY <1>1, <1>2, <2>3
  <1> QED
    BY <1>4, <1>5

LEMMA KeptOrder ==
    ASSUME TypeOK, OrderExact, NEW op \in Op, op \notin Linked, Kept(op), FileOf[op] \in File,
           nextSlot' = nextSlot + 1
    PROVE  OrderExact'
  <1> DEFINE f == FileOf[op]
  <1>0. /\ order \in [Op -> Nat] /\ nextSlot \in Nat /\ byFile \in [File -> Seq(Op)]
        /\ order'[op] = nextSlot /\ \A o \in Op \ {op} : order'[o] = order[o]
    BY DEF TypeOK, Kept
  <1>1. \A o \in Op : order'[o] < nextSlot'
    BY <1>0 DEF OrderExact
  <1>2. ASSUME NEW g \in File
        PROVE  Elems(byFile'[g]) = Linked' \cap OpsOf(g) /\ Ascending(byFile'[g], order')
    <2>0. /\ Elems(byFile[g]) = Linked \cap OpsOf(g) /\ Ascending(byFile[g], order)
          /\ Linked' = Linked \cup {op} /\ op \in OpsOf(f)
      BY DEF OrderExact, Kept, OpsOf
    <2>1. CASE g # f
      <3>1. byFile'[g] = byFile[g] /\ op \notin OpsOf(g)
        BY <1>0, <2>1 DEF Kept, OpsOf
      <3>2. ASSUME NEW i \in DOMAIN byFile[g]
            PROVE  byFile[g][i] \in Op \ {op}
        BY <2>0 DEF Elems, Linked
      <3>3. Ascending(byFile[g], order')
        BY <1>0, <2>0, <3>2 DEF Ascending
      <3> QED
        BY <2>0, <3>1, <3>3
    <2>2. CASE g = f
      <3> DEFINE s == byFile[g]
                 t == Append(s, op)
      <3>1. byFile'[g] = t /\ s \in Seq(Op)
        BY <1>0, <2>2 DEF Kept
      <3>2. Elems(t) = Elems(s) \cup {op}
        BY <3>1, AppendList
      <3>3. /\ Len(s) \in Nat /\ DOMAIN s = 1 .. Len(s) /\ DOMAIN t = 1 .. (Len(s) + 1)
            /\ t[Len(s) + 1] = op /\ \A i \in DOMAIN s : t[i] = s[i]
        BY <3>1
      <3> HIDE DEF s, t
      <3>4. \A i \in DOMAIN s : s[i] \in Op \ {op} /\ order'[s[i]] = order[s[i]]
                               /\ order[s[i]] < nextSlot
        BY <1>0, <2>0 DEF s, Elems, Linked, OrderExact
      <3>5. ASSUME NEW i \in DOMAIN t, NEW j \in DOMAIN t, i < j
            PROVE  order'[t[i]] < order'[t[j]]
        <4>1. i \in DOMAIN s /\ (j \in DOMAIN s \/ j = Len(s) + 1)
          BY <3>3, <3>5
        <4>2. CASE j \in DOMAIN s
          BY <2>0, <3>3, <3>4, <3>5, <4>1, <4>2 DEF Ascending, s
        <4>3. CASE j = Len(s) + 1
          BY <1>0, <3>3, <3>4, <4>1, <4>3
        <4> QED
          BY <4>1, <4>2, <4>3
      <3>6. Elems(t) = Linked' \cap OpsOf(g)
        BY <2>0, <2>2, <3>2 DEF s
      <3> QED
        BY <3>1, <3>5, <3>6 DEF Ascending
    <2> QED
      BY <2>1, <2>2
  <1> QED
    BY <1>1, <1>2 DEF OrderExact

\* Emptying the list of one file, and no other, in both views.
LEMMA EmptiedOrder ==
    ASSUME TypeOK, OrderExact, NEW f \in File,
           byFile' = [byFile EXCEPT ![f] = <<>>], Linked' = Linked \ OpsOf(f),
           \A o \in Op : order'[o] = order[o] \/ order'[o] = 0,
           \A o \in Op \ OpsOf(f) : order'[o] = order[o],
           nextSlot' \in {nextSlot, nextSlot + 1}
    PROVE  OrderExact'
  <1>0. /\ order \in [Op -> Nat] /\ nextSlot \in Nat \ {0} /\ byFile \in [File -> Seq(Op)]
    BY DEF TypeOK
  <1>1. \A o \in Op : order'[o] < nextSlot'
    BY <1>0 DEF OrderExact
  <1>2. ASSUME NEW g \in File
        PROVE  Elems(byFile'[g]) = Linked' \cap OpsOf(g) /\ Ascending(byFile'[g], order')
    <2>1. CASE g = f
      <3>1. byFile'[g] = <<>>
        BY <1>0, <2>1
      <3>2. Ascending(<<>>, order')
        BY DEF Ascending
      <3> QED
        BY <2>1, <3>1, <3>2, EmptyList
    <2>2. CASE g # f
      <3>1. byFile'[g] = byFile[g] /\ OpsOf(g) \cap OpsOf(f) = {}
        BY <1>0, <2>2 DEF OpsOf
      <3>2. Elems(byFile[g]) = Linked \cap OpsOf(g) /\ Ascending(byFile[g], order)
        BY DEF OrderExact
      <3>3. \A i \in DOMAIN byFile[g] : order'[byFile[g][i]] = order[byFile[g][i]]
        BY <3>1, <3>2 DEF Elems, Linked
      <3>4. Ascending(byFile[g], order')
        BY <3>2, <3>3 DEF Ascending
      <3> QED
        BY <3>1, <3>2, <3>4
    <2> QED
      BY <2>1, <2>2
  <1> QED
    BY <1>1, <1>2 DEF OrderExact

LEMMA PendingFinite ==
    ASSUME TypeOK, NEW f \in File
    PROVE  IsFiniteSet(Pending \cap OpsOf(f)) /\ Cardinality(Pending \cap OpsOf(f)) \in Nat
  <1>1. Pending \cap OpsOf(f) \subseteq Op
    BY DEF Pending, TypeOK
  <1> QED
    BY <1>1, DriverAssumption, FS_Subset, FS_CardinalityType DEF DriverAssumption

\* An operation is completed: what EnqueueCompletion does with it is one move, the count
\* of its file goes down by one, and a deferred release runs exactly when it gets to zero.
LEMMA EnqueueMoves ==
    ASSUME PlaceInv, NEW op \in Op, NEW a \in {"flushQ", "hand", "comps"}, op \in Holds(a),
           EnqueueCompletion(op), Holds(a)' = Holds(a) \ {op},
           \A x \in PlaceName \ {a, "linked", "dropped"} : Holds(x)' = Holds(x),
           UNCHANGED callerVars
    PROVE  /\ Placed' /\ OrderExact' /\ OutstandingExact' /\ ReleaseShape'
           /\ Kept(op) \/ Released(op)
           /\ op \in Pending /\ op \notin Linked /\ Pending' = Pending \ {op}
           /\ outstanding[FileOf[op]] \in Nat
           /\ Cardinality((Pending \cap OpsOf(FileOf[op])) \ {op}) = outstanding[FileOf[op]] - 1
  <1> DEFINE f == FileOf[op]
  <1> USE DEF PlaceInv, Shape
  <1>0. /\ a \in PlaceName /\ op \in Pending /\ op \in accepted /\ op \notin Linked
        /\ op \in OpsOf(f)
    BY PendingPlace DEF PlaceName, OpsOf
  <1>1. /\ Kept(op) \/ Released(op)
        /\ nextSlot' = nextSlot + 1 /\ f \in File
        /\ outstanding' = [outstanding EXCEPT ![f] = IF @ > 0 THEN @ - 1 ELSE 0]
    BY <1>0, EnqueueCases
  <1>2. /\ accepted' = accepted /\ delivered' = delivered /\ released' = released
        /\ releasing' = releasing /\ waitingOn' = waitingOn /\ shut' = shut
    BY DEF callerVars
  <1>3. Placed'
    <2>1. CASE Kept(op)
      <3>1. Holds("linked")' = Holds("linked") \cup {op} /\ Holds("dropped")' = Holds("dropped")
        BY <2>1, HoldsIs DEF Kept
      <3>2. \A x \in PlaceName \ ({a} \cup {"linked"}) : Holds(x)' = Holds(x)
        BY <3>1
      <3>3. {a} \in SUBSET (PlaceName \ {"linked"}) /\ "linked" \in PlaceName
        BY DEF PlaceName
      <3>4. /\ \A o \in {op} : \E x \in {a} : o \in Holds(x)
            /\ \A x \in {a} : Holds(x)' = Holds(x) \ {op}
        OBVIOUS
      <3> DEFINE A == {a}
                 S == {op}
      <3>5. /\ Placed /\ A \in SUBSET (PlaceName \ {"linked"})
            /\ \A o \in S : \E x \in A : o \in Holds(x)
            /\ \A x \in A : Holds(x)' = Holds(x) \ S
            /\ Holds("linked")' = Holds("linked") \cup S
            /\ \A x \in PlaceName \ (A \cup {"linked"}) : Holds(x)' = Holds(x)
        BY <3>1, <3>2, <3>3, <3>4
      <3> HIDE DEF A, S, PlaceInv
      <3> QED
        BY <1>2, <3>3, <3>5, Gathered, SMTT(30)
    <2>2. CASE Released(op)
      <3> DEFINE S == {op} \cup (Linked \cap OpsOf(f))
      <3>1. Holds("dropped")' = Holds("dropped") \cup S
        BY <2>2, HoldsIs DEF Released
      <3>2. Holds("linked")' = Holds("linked") \ S
        <4>1. Linked' = Linked \ OpsOf(f)
          BY <2>2 DEF Released
        <4>2. Linked \ OpsOf(f) = Linked \ S
          BY <1>0
        <4> QED
          BY <4>1, <4>2, HoldsIs
      <3>3. Holds(a)' = Holds(a) \ S
        <4>1. Holds(a) \cap Linked = {}
          BY PendingPlace DEF PlaceName
        <4> QED
          BY <4>1
      <3>4. /\ {a, "linked"} \in SUBSET (PlaceName \ {"dropped"}) /\ "dropped" \in PlaceName
        BY DEF PlaceName
      <3>5. \A o \in S : \E x \in {a, "linked"} : o \in Holds(x)
        BY HoldsIs
      <3>6. \A x \in {a, "linked"} : Holds(x)' = Holds(x) \ S
        BY <3>2, <3>3
      <3>7. \A x \in PlaceName \ ({a, "linked"} \cup {"dropped"}) : Holds(x)' = Holds(x)
        OBVIOUS
      <3> DEFINE A == {a, "linked"}
      <3>8. /\ Placed /\ A \in SUBSET (PlaceName \ {"dropped"}) /\ "dropped" \in PlaceName
            /\ \A o \in S : \E x \in A : o \in Holds(x)
            /\ \A x \in A : Holds(x)' = Holds(x) \ S
            /\ \A x \in PlaceName \ (A \cup {"dropped"}) : Holds(x)' = Holds(x)
        BY <3>4, <3>5, <3>6, <3>7
      <3> HIDE DEF A, S, PlaceInv
      <3> QED
        BY <1>2, <3>1, <3>8, Gathered
    <2> QED
      BY <1>1, <2>1, <2>2
  <1>4. OrderExact'
    <2>1. CASE Kept(op)
      BY <1>0, <1>1, <2>1, KeptOrder
    <2>2. CASE Released(op)
      BY <1>1, <2>2, EmptiedOrder DEF Released
    <2> QED
      BY <1>1, <2>1, <2>2
  <1>5. Pending' = Pending \ {op}
    <2>1. CASE Kept(op)
      BY <1>2, <2>1 DEF Kept, Pending
    <2>2. CASE Released(op)
      <3>1. Linked' \cup dropped' = Linked \cup dropped \cup {op}
        BY <1>0, <2>2 DEF Released
      <3> QED
        BY <1>2, <3>1 DEF Pending
    <2> QED
      BY <1>1, <2>1, <2>2
  <1>6. /\ outstanding \in [File -> Nat] /\ outstanding[f] > 0 /\ outstanding'[f] = outstanding[f] - 1
        /\ \A g \in File \ {f} : outstanding'[g] = outstanding[g]
        /\ Cardinality((Pending \cap OpsOf(f)) \ {op}) = outstanding'[f]
    <2>1. /\ op \in Pending \cap OpsOf(f) /\ outstanding[f] = Cardinality(Pending \cap OpsOf(f))
          /\ outstanding \in [File -> Nat]
      BY <1>0, <1>1 DEF OutstandingExact, TypeOK
    <2>2. IsFiniteSet(Pending \cap OpsOf(f))
      BY <1>1, PendingFinite
    <2>3. /\ Cardinality((Pending \cap OpsOf(f)) \ {op}) = Cardinality(Pending \cap OpsOf(f)) - 1
          /\ Cardinality((Pending \cap OpsOf(f)) \ {op}) \in Nat
      BY <2>1, <2>2, FS_RemoveElement, FS_CardinalityType
    <2>4. outstanding[f] > 0 /\ outstanding[f] \in Nat
      BY <1>1, <2>1, <2>3
    <2> HIDE DEF f
    <2> QED
      BY <1>1, <2>1, <2>3, <2>4
  <1>7. OutstandingExact'
    <2> SUFFICES ASSUME NEW g \in File
                 PROVE  outstanding'[g] = Cardinality(Pending' \cap OpsOf(g))
      BY DEF OutstandingExact
    <2>1. CASE g = f
      <3>1. Pending' \cap OpsOf(f) = (Pending \cap OpsOf(f)) \ {op}
        BY <1>5
      <3> QED
        BY <1>6, <2>1, <3>1
    <2>2. CASE g # f
      <3>1. Pending' \cap OpsOf(g) = Pending \cap OpsOf(g)
        BY <1>5, <2>2 DEF OpsOf
      <3> QED
        BY <1>6, <2>2, <3>1 DEF OutstandingExact
    <2> QED
      BY <2>1, <2>2
  <1>8. ReleaseShape'
    <2>0. byFile \in [File -> Seq(Op)] /\ pendingRelease \subseteq File /\ released \subseteq File
      BY DEF TypeOK
    <2>1. CASE Kept(op)
      <3>1. /\ pendingRelease' = pendingRelease /\ dead' = dead
            /\ f \in pendingRelease => outstanding[f] > 1
            /\ \A g \in File \ {f} : byFile'[g] = byFile[g]
        BY <1>1, <1>6, <2>0, <2>1 DEF Kept
      <3> HIDE DEF f
      <3> QED
        BY <1>1, <1>2, <1>6, <2>0, <3>1 DEF ReleaseShape
    <2>2. CASE Released(op)
      <3>1. /\ pendingRelease' = pendingRelease \ {f} /\ outstanding[f] = 1
            /\ byFile'[f] = <<>> /\ \A g \in File \ {f} : byFile'[g] = byFile[g]
            /\ \A g \in dead' : g \in dead \/ \E t \in Waiter : waitingOn[t] = g
        BY <1>1, <1>6, <2>0, <2>2 DEF Released
      <3> HIDE DEF f
      <3> QED
        BY <1>1, <1>2, <1>6, <2>0, <3>1, SMTT(30) DEF ReleaseShape
    <2> QED
      BY <1>1, <2>1, <2>2
  <1> QED
    BY <1>0, <1>1, <1>3, <1>4, <1>5, <1>6, <1>7, <1>8

-----------------------------------------------------------------------------
(* The invariant is preserved, action by action.                           *)

LEMMA Moved ==
    ASSUME Placed, NEW a \in PlaceName, NEW b \in PlaceName, a # b, NEW S \in SUBSET Holds(a),
           accepted' = accepted, shut' = shut,
           Holds(b)' = Holds(b) \cup S, Holds(a)' = Holds(a) \ S,
           \A x \in PlaceName \ {a, b} : Holds(x)' = Holds(x)
    PROVE  Placed'
  <1>1. S \subseteq accepted
    BY DEF Placed
  <1>2. \A x \in PlaceName \ {a, b} : Holds(x) \cap S = {}
    BY DEF Placed
  <1>3. \A x, y \in PlaceName : x # y => Holds(x)' \cap Holds(y)' = {}
    BY <1>2 DEF Placed
  <1>4. \A x \in PlaceName : Holds(x)' \subseteq accepted'
    BY <1>1 DEF Placed
  <1>5. ASSUME ~shut', NEW o \in accepted' PROVE \E x \in PlaceName : o \in Holds(x)'
    <2>1. PICK x \in PlaceName : o \in Holds(x)
      BY <1>5 DEF Placed
    <2> QED
      BY <2>1
  <1> QED
    BY <1>3, <1>4, <1>5 DEF Placed

placeVars == <<readQ, writeQ, flushQ, hand, executing, done, comps, order, delivered, dropped,
               accepted, shut>>

LEMMA StayPlaced ==
    ASSUME Placed, UNCHANGED placeVars
    PROVE  Placed'
  <1>1. \A x \in PlaceName : Holds(x)' = Holds(x)
    BY HoldsIs DEF placeVars, PlaceName, InHand, Linked
  <1> QED
    BY <1>1 DEF Placed, placeVars

\* A step that leaves the completion lists, the counts and the releases alone.
LEMMA FilesKept ==
    ASSUME OrderExact, OutstandingExact, ReleaseShape, UNCHANGED complVars,
           UNCHANGED <<releasing, waitingOn, accepted, delivered, released>>
    PROVE  /\ OrderExact' /\ OutstandingExact' /\ ReleaseShape' /\ Linked' = Linked
           /\ delivered' = delivered /\ dropped' = dropped
  <1>1. /\ order' = order /\ byFile' = byFile /\ nextSlot' = nextSlot /\ dropped' = dropped
        /\ outstanding' = outstanding /\ pendingRelease' = pendingRelease /\ dead' = dead
    BY DEF complVars
  <1>2. Linked' = Linked
    BY <1>1 DEF Linked
  <1>3. Pending' = Pending
    BY <1>1, <1>2 DEF Pending
  <1>4. OrderExact'
    BY <1>1, <1>2 DEF OrderExact
  <1>5. OutstandingExact'
    BY <1>1, <1>3 DEF OutstandingExact
  <1> QED
    BY <1>1, <1>2, <1>4, <1>5 DEF ReleaseShape

LEMMA SubmitShape == ASSUME PlaceInv, NEW op \in Op, Submit(op) PROVE Shape'
  <1> USE DEF PlaceInv, Shape
  <1> DEFINE f == FileOf[op]
  <1>1. /\ op \notin accepted /\ f \notin released /\ accepted' = accepted \cup {op}
        /\ \/ readQ' = Append(readQ, op) /\ writeQ' = writeQ /\ op \in Reads
           \/ writeQ' = Append(writeQ, op) /\ readQ' = readQ /\ op \in Op \ Reads
        /\ outstanding' = [outstanding EXCEPT ![f] = @ + 1]
        /\ UNCHANGED <<cancelled, flushQ, hand, executing, done, comps, order, nextSlot, byFile,
                       pendingRelease, dead, dropped, releasing, waitingOn, delivered, released,
                       shut, pc>>
    BY DEF Submit, schedVars, backendVars, cancelVars
  <1>2. f \in File /\ op \in OpsOf(f)
    BY DriverAssumption DEF DriverAssumption, OpsOf
  <1>3. \A x \in PlaceName : op \notin Holds(x)
    BY <1>1 DEF Placed
  <1>4. op \notin Elems(readQ) /\ op \notin Elems(writeQ) /\ op \notin Linked
        /\ op \notin delivered /\ op \notin dropped
    BY <1>3, HoldsIs DEF PlaceName
  <1>5. Linked' = Linked /\ InHand' = InHand
    BY <1>1 DEF Linked, InHand
  <1>6. \A x \in PlaceName \ {"readQ", "writeQ"} : Holds(x)' = Holds(x)
    BY <1>1, <1>5, HoldsIs DEF PlaceName
  <1>7. Placed' /\ Distinct'
    <2>1. CASE readQ' = Append(readQ, op) /\ writeQ' = writeQ /\ op \in Reads
      <3>1. Elems(readQ') = Elems(readQ) \cup {op} /\ Injective(readQ')
        BY <1>4, <2>1, AppendList DEF TypeOK, Distinct
      <3>2. /\ \A x \in PlaceName \ {"readQ"} : Holds(x)' = Holds(x)
            /\ Holds("readQ")' = Holds("readQ") \cup {op} /\ "readQ" \in PlaceName
        BY <1>6, <2>1, <3>1, HoldsIs DEF PlaceName
      <3>3. Placed'
        BY <1>1, <3>2, Added
      <3> QED
        BY <1>1, <2>1, <3>1, <3>3 DEF Distinct
    <2>2. CASE writeQ' = Append(writeQ, op) /\ readQ' = readQ /\ op \in Op \ Reads
      <3>1. Elems(writeQ') = Elems(writeQ) \cup {op} /\ Injective(writeQ')
        BY <1>4, <2>2, AppendList DEF TypeOK, Distinct
      <3>2. /\ \A x \in PlaceName \ {"writeQ"} : Holds(x)' = Holds(x)
            /\ Holds("writeQ")' = Holds("writeQ") \cup {op} /\ "writeQ" \in PlaceName
        BY <1>6, <2>2, <3>1, HoldsIs DEF PlaceName
      <3>3. Placed'
        BY <1>1, <3>2, Added
      <3> QED
        BY <1>1, <2>2, <3>1, <3>3 DEF Distinct
    <2> QED
      BY <1>1, <2>1, <2>2
  <1>8. OrderExact'
    BY <1>1, <1>5 DEF OrderExact
  <1>9. OutstandingExact'
    <2> SUFFICES ASSUME NEW g \in File
                 PROVE  outstanding'[g] = Cardinality(Pending' \cap OpsOf(g))
      BY DEF OutstandingExact
    <2>1. Pending' = Pending \cup {op} /\ op \notin Pending
      BY <1>1, <1>4, <1>5 DEF Pending
    <2>2. outstanding \in [File -> Nat] /\ outstanding[g] = Cardinality(Pending \cap OpsOf(g))
      BY DEF TypeOK, OutstandingExact
    <2>3. CASE g = f
      <3>1. Pending' \cap OpsOf(g) = (Pending \cap OpsOf(g)) \cup {op}
        BY <1>2, <2>1, <2>3
      <3>2. Cardinality((Pending \cap OpsOf(g)) \cup {op}) = Cardinality(Pending \cap OpsOf(g)) + 1
        BY <2>1, PendingFinite, FS_AddElement
      <3>3. outstanding'[g] = outstanding[g] + 1
        BY <1>1, <1>2, <2>2, <2>3
      <3> QED
        BY <2>2, <3>1, <3>2, <3>3
    <2>4. CASE g # f
      <3>1. Pending' \cap OpsOf(g) = Pending \cap OpsOf(g)
        BY <2>1, <2>4 DEF OpsOf
      <3>2. outstanding'[g] = outstanding[g]
        BY <1>1, <2>2, <2>4
      <3> QED
        BY <2>2, <3>1, <3>2
    <2> QED
      BY <2>3, <2>4
  <1>10. ReleaseShape'
    <2>1. \A g \in released : outstanding'[g] = outstanding[g]
      BY <1>1 DEF TypeOK
    <2> QED
      BY <1>1, <2>1 DEF ReleaseShape
  <1> QED
    BY <1>7, <1>8, <1>9, <1>10

\* A file's completions leave both lists for the place b: a drain or a release.
LEMMA ListEmptied ==
    ASSUME PlaceInv, NEW f \in File, NEW b \in {"delivered", "dropped"},
           Holds(b)' = Holds(b) \cup Elems(byFile[f]),
           order' = Unlink(order, Elems(byFile[f])), byFile' = [byFile EXCEPT ![f] = <<>>],
           \A x \in PlaceName \ {b, "linked"} : Holds(x)' = Holds(x),
           UNCHANGED <<nextSlot, outstanding, accepted, shut>>
    PROVE  /\ Placed' /\ OrderExact' /\ OutstandingExact'
           /\ Linked' = Linked \ OpsOf(f) /\ Elems(byFile[f]) = Linked \cap OpsOf(f)
           /\ Pending' = Pending
  <1> USE DEF PlaceInv, Shape
  <1>1. Elems(byFile[f]) = Linked \cap OpsOf(f)
    BY DEF OrderExact
  <1>2. /\ \A o \in Op : order'[o] = IF o \in Linked \cap OpsOf(f) THEN 0 ELSE order[o]
    BY <1>1 DEF Unlink
  <1>3. Linked' = Linked \ OpsOf(f)
    BY <1>2 DEF Linked
  <1>4. OrderExact'
    <2>1. /\ \A o \in Op : order'[o] = order[o] \/ order'[o] = 0
          /\ \A o \in Op \ OpsOf(f) : order'[o] = order[o]
      BY <1>2
    <2> QED
      BY <1>3, <2>1, EmptiedOrder
  <1>5. Placed'
    <2> DEFINE S == Linked \cap OpsOf(f)
    <2>1. /\ "linked" \in PlaceName /\ b \in PlaceName /\ b # "linked"
          /\ S \in SUBSET Holds("linked") /\ Holds(b)' = Holds(b) \cup S
          /\ Holds("linked")' = Holds("linked") \ S
          /\ \A x \in PlaceName \ {"linked", b} : Holds(x)' = Holds(x)
      BY <1>1, <1>3, HoldsIs DEF PlaceName
    <2> HIDE DEF S
    <2> QED
      BY <2>1, Moved
  <1>6. Pending' = Pending
    <2>1. delivered' \cup dropped' = delivered \cup dropped \cup (Linked \cap OpsOf(f))
      BY <1>1, HoldsIs DEF PlaceName
    <2> QED
      BY <1>3, <2>1 DEF Pending
  <1>7. OutstandingExact'
    BY <1>6 DEF OutstandingExact
  <1> QED
    BY <1>1, <1>3, <1>4, <1>5, <1>6, <1>7

LEMMA DrainForFileShape == ASSUME PlaceInv, NEW f \in File, DrainForFile(f) PROVE Shape'
  <1> USE DEF PlaceInv, Shape
  <1>1. /\ delivered' = delivered \cup Elems(byFile[f])
        /\ order' = Unlink(order, Elems(byFile[f])) /\ byFile' = [byFile EXCEPT ![f] = <<>>]
        /\ UNCHANGED <<readQ, writeQ, cancelled, flushQ, hand, executing, done, comps, pc, nextSlot,
                       outstanding, pendingRelease, dead, dropped, releasing, waitingOn,
                       accepted, released, shut>>
    BY DEF DrainForFile, queueVars, backendVars, schedVars, cancelVars
  <1>2. /\ \A x \in PlaceName \ {"delivered", "linked"} : Holds(x)' = Holds(x)
        /\ Holds("delivered")' = Holds("delivered") \cup Elems(byFile[f])
    BY <1>1, HoldsIs DEF PlaceName, InHand
  <1>3. Placed' /\ OrderExact' /\ OutstandingExact'
    BY <1>1, <1>2, ListEmptied
  <1>4. Distinct'
    BY <1>1 DEF Distinct
  <1>5. ReleaseShape'
    <2>1. \A g \in File : byFile'[g] = byFile[g] \/ byFile'[g] = <<>>
      BY <1>1 DEF TypeOK
    <2>2. released \subseteq File
      BY DEF TypeOK
    <2> QED
      BY <1>1, <2>1, <2>2 DEF ReleaseShape
  <1> QED
    BY <1>3, <1>4, <1>5

LEMMA ReleaseNowShape == ASSUME PlaceInv, NEW f \in File, ReleaseNow(f) PROVE Shape'
  <1> USE DEF PlaceInv, Shape
  <1>1. /\ dropped' = dropped \cup Elems(byFile[f]) /\ releasing' = releasing \ {f}
        /\ order' = Unlink(order, Elems(byFile[f])) /\ byFile' = [byFile EXCEPT ![f] = <<>>]
        /\ dead' = (IF \E t \in Waiter : waitingOn[t] = f THEN dead \cup {f} ELSE dead)
        /\ UNCHANGED <<readQ, writeQ, cancelled, flushQ, hand, executing, done, comps, pc, nextSlot,
                       outstanding, pendingRelease, delivered, waitingOn,
                       accepted, released, shut>>
    BY DEF ReleaseNow, ReleaseFileLocked, queueVars, backendVars, schedVars, cancelVars
  <1>2. /\ \A x \in PlaceName \ {"dropped", "linked"} : Holds(x)' = Holds(x)
        /\ Holds("dropped")' = Holds("dropped") \cup Elems(byFile[f])
    BY <1>1, HoldsIs DEF PlaceName, InHand
  <1>3. Placed' /\ OrderExact' /\ OutstandingExact'
    BY <1>1, <1>2, ListEmptied
  <1>4. Distinct'
    BY <1>1 DEF Distinct
  <1>5. ReleaseShape'
    <2>1. byFile'[f] = <<>> /\ \A g \in File : byFile'[g] = byFile[g] \/ byFile'[g] = <<>>
      BY <1>1 DEF TypeOK
    <2>2. released \subseteq File
      BY DEF TypeOK
    <2>3. \A g \in dead' : \E t \in Waiter : waitingOn'[t] = g
      BY <1>1 DEF ReleaseShape
    <2>4. \A g \in released' \ releasing' : g \in pendingRelease' \/ byFile'[g] = <<>>
      BY <1>1, <2>1, <2>2 DEF ReleaseShape
    <2> QED
      BY <1>1, <2>3, <2>4 DEF ReleaseShape
  <1> QED
    BY <1>3, <1>4, <1>5

\* With Invariant I a walk of the order list hands out every completion there is.
LEMMA WalkTakesAll ==
    ASSUME PlaceInv, NEW f \in File
    PROVE  /\ Elems(SubSeq(byFile[f], 1, Taken(f))) = Linked \cap OpsOf(f)
           /\ SubSeq(byFile[f], Taken(f) + 1, Len(byFile[f])) = <<>>
  <1> USE DEF PlaceInv, Shape
  <1>1. byFile[f] \in Seq(Op) /\ Elems(byFile[f]) = Linked \cap OpsOf(f)
    BY DEF TypeOK, OrderExact
  <1>2. Injective(byFile[f])
    <2> SUFFICES ASSUME NEW i \in DOMAIN byFile[f], NEW j \in DOMAIN byFile[f],
                        byFile[f][i] = byFile[f][j]
                 PROVE  i = j
      BY DEF Injective
    <2>1. i \in Nat /\ j \in Nat /\ order[byFile[f][i]] \in Nat
      BY <1>1, SMTT(30) DEF TypeOK
    <2>2. ~(i < j) /\ ~(j < i)
      BY <2>1 DEF OrderExact, Ascending
    <2> QED
      BY <2>1, <2>2
  <1>3. Cardinality(Linked \cap OpsOf(f)) = Len(byFile[f]) /\ Len(byFile[f]) \in Nat
    <2>1. Cardinality(Elems(byFile[f])) = Len(byFile[f])
      BY <1>1, <1>2, CountList
    <2>2. Len(byFile[f]) \in Nat
      BY <1>1
    <2> QED
      BY <1>1, <2>1, <2>2
  <1>4. Taken(f) = Len(byFile[f])
    BY <1>3 DEF Taken
  <1>5. /\ SubSeq(byFile[f], 1, Len(byFile[f])) = byFile[f]
        /\ SubSeq(byFile[f], Len(byFile[f]) + 1, Len(byFile[f])) = <<>>
    BY <1>1
  <1> QED
    BY <1>1, <1>4, <1>5

LEMMA DrainAllShape ==
    ASSUME PlaceInv, DrainAll
    PROVE  Shape' /\ Linked' = {} /\ delivered' = delivered \cup Linked
  <1> USE DEF PlaceInv, Shape
  <1>1. /\ delivered' = delivered \cup UNION {Elems(SubSeq(byFile[f], 1, Taken(f))) : f \in File}
        /\ byFile' = [f \in File |-> SubSeq(byFile[f], Taken(f) + 1, Len(byFile[f]))]
        /\ order' = [o \in Op |-> 0]
        /\ UNCHANGED <<readQ, writeQ, cancelled, flushQ, hand, executing, done, comps, pc, nextSlot,
                       outstanding, pendingRelease, dead, dropped, releasing, waitingOn,
                       accepted, released, shut>>
    BY DEF DrainAll, queueVars, backendVars, schedVars, cancelVars
  <1>2. \A f \in File : byFile'[f] = <<>>
    BY <1>1, WalkTakesAll
  <1>3. UNION {Elems(SubSeq(byFile[f], 1, Taken(f))) : f \in File} = Linked
    <2>1. \A f \in File : Elems(SubSeq(byFile[f], 1, Taken(f))) = Linked \cap OpsOf(f)
      BY WalkTakesAll
    <2>2. \A o \in Linked : FileOf[o] \in File /\ o \in OpsOf(FileOf[o])
      BY DriverAssumption DEF DriverAssumption, Linked, OpsOf
    <2> QED
      BY <2>1, <2>2
  <1>4. Linked' = {} /\ delivered' = delivered \cup Linked
    BY <1>1, <1>3 DEF Linked
  <1>5. Placed'
    <2>1. /\ "linked" \in PlaceName /\ "delivered" \in PlaceName
          /\ Linked \in SUBSET Holds("linked")
          /\ Holds("delivered")' = Holds("delivered") \cup Linked
          /\ Holds("linked")' = Holds("linked") \ Linked
          /\ \A x \in PlaceName \ {"linked", "delivered"} : Holds(x)' = Holds(x)
      BY <1>1, <1>4, HoldsIs DEF PlaceName, InHand
    <2>2. "linked" # "delivered"
      OBVIOUS
    <2> QED
      BY <1>1, <2>1, <2>2, Moved
  <1>6. OrderExact'
    <2>1. \A o \in Op : order'[o] = 0 /\ nextSlot' \in Nat \ {0}
      BY <1>1 DEF TypeOK
    <2>2. \A f \in File : Elems(byFile'[f]) = {} /\ Ascending(byFile'[f], order')
      BY <1>2, EmptyList DEF Ascending
    <2> QED
      BY <1>4, <2>1, <2>2 DEF OrderExact
  <1>7. Pending' = Pending
    BY <1>1, <1>4 DEF Pending
  <1>8. OutstandingExact'
    BY <1>1, <1>7 DEF OutstandingExact
  <1>9. ReleaseShape'
    BY <1>1, <1>2 DEF ReleaseShape, TypeOK
  <1>10. Distinct'
    BY <1>1 DEF Distinct
  <1> QED
    BY <1>4, <1>5, <1>6, <1>8, <1>9, <1>10

\* Steps that move no operation.
LEMMA QuietShape ==
    ASSUME PlaceInv, FlushDone \/ Destroy \/ SchedTop \/ PickNothing \/ FreeFailedSlot \/ RouteDone
                     \/ UNCHANGED vars
    PROVE  Shape'
  <1> USE DEF PlaceInv, Shape
  <1>1. UNCHANGED <<readQ, writeQ, cancelled, backendVars, hand, comps, flushQ, complVars, callerVars>>
    BY DEF FlushDone, Destroy, SchedTop, PickNothing, FreeFailedSlot, RouteDone, vars, queueVars,
           schedVars, cancelVars
  <1>2. pc' # "route" => comps = <<>>
    BY DEF FlushDone, Destroy, SchedTop, PickNothing, FreeFailedSlot, RouteDone, vars,
           schedVars, Distinct
  <1>3. UNCHANGED placeVars
    BY <1>1 DEF placeVars, backendVars, complVars, callerVars
  <1>4. OrderExact' /\ OutstandingExact' /\ ReleaseShape'
    BY <1>1, FilesKept DEF callerVars
  <1>5. Distinct'
    BY <1>1, <1>2 DEF Distinct, backendVars
  <1> QED
    BY <1>3, <1>4, <1>5, StayPlaced

LEMMA CallerShape ==
    ASSUME PlaceInv,
           \/ \E f \in File : ReleaseFile(f)
           \/ \E t \in Waiter, f \in File : WaitForFile(t, f)
           \/ \E t \in Waiter : LeaveWait(t)
    PROVE  Shape'
  <1> USE DEF PlaceInv, Shape
  <1>1. /\ UNCHANGED <<readQ, writeQ, cancelled, flushQ, hand, executing, done, comps, pc, order, nextSlot,
                       byFile, outstanding, accepted, delivered, dropped, shut>>
    BY DEF ReleaseFile, WaitForFile, LeaveWait, queueVars, backendVars, schedVars, cancelVars,
           complVars
  <1>2. Placed'
    BY <1>1, StayPlaced DEF placeVars
  <1>3. Distinct'
    BY <1>1 DEF Distinct
  <1>4. Linked' = Linked
    BY <1>1 DEF Linked
  <1>5. OrderExact' /\ OutstandingExact'
    <2>1. Pending' = Pending
      BY <1>1, <1>4 DEF Pending
    <2> QED
      BY <1>1, <1>4, <2>1 DEF OrderExact, OutstandingExact
  <1>6. ReleaseShape'
    <2>1. ASSUME NEW f \in File, ReleaseFile(f) PROVE ReleaseShape'
      BY <2>1 DEF ReleaseFile, ReleaseShape, TypeOK
    <2>2. ASSUME NEW t \in Waiter, NEW f \in File, WaitForFile(t, f) PROVE ReleaseShape'
      <3>1. /\ waitingOn[t] = NoFile /\ waitingOn' = [waitingOn EXCEPT ![t] = f]
            /\ UNCHANGED <<dead, pendingRelease, releasing, released>>
        BY <2>2 DEF WaitForFile, complVars
      <3>2. NoFile \notin dead
        BY DriverAssumption DEF DriverAssumption, TypeOK
      <3>3. \A u \in Waiter : waitingOn[u] # NoFile => waitingOn'[u] = waitingOn[u]
        BY <3>1 DEF TypeOK
      <3> QED
        BY <1>1, <3>1, <3>2, <3>3 DEF ReleaseShape
    <2>3. ASSUME NEW t \in Waiter, LeaveWait(t) PROVE ReleaseShape'
      <3>1. /\ waitingOn' = [waitingOn EXCEPT ![t] = NoFile]
            /\ dead' = (IF \E u \in Waiter \ {t} : waitingOn[u] = waitingOn[t]
                        THEN dead ELSE dead \ {waitingOn[t]})
            /\ UNCHANGED <<pendingRelease, releasing, released>>
        BY <2>3 DEF LeaveWait
      <3>2. \A u \in Waiter \ {t} : waitingOn'[u] = waitingOn[u]
        BY <3>1 DEF TypeOK
      <3>3. \A f \in dead' : \E u \in Waiter : waitingOn'[u] = f
        BY <3>1, <3>2 DEF ReleaseShape
      <3> QED
        BY <1>1, <3>1, <3>3 DEF ReleaseShape
    <2> QED
      BY <2>1, <2>2, <2>3
  <1> QED
    BY <1>2, <1>3, <1>5, <1>6

LEMMA RequestCancelShape == ASSUME PlaceInv, RequestCancel PROVE Shape'
  <1> USE DEF PlaceInv, Shape
  <1>1. /\ flushQ = <<>> /\ cancelled'
        /\ flushQ' = readQ \o writeQ /\ readQ' = <<>> /\ writeQ' = <<>>
        /\ UNCHANGED <<executing, done, hand, comps, pc, complVars, callerVars>>
    BY DEF RequestCancel, backendVars, schedVars, Distinct
  <1>2. readQ \in Seq(Op) /\ writeQ \in Seq(Op)
    BY DriverAssumption, SeqMonotonic DEF TypeOK, DriverAssumption
  <1>3. Elems(readQ) \cap Elems(writeQ) = {}
    BY HoldsIs DEF Placed, PlaceName
  <1>4. Elems(flushQ') = Elems(readQ) \cup Elems(writeQ) /\ Injective(flushQ')
    BY <1>1, <1>2, <1>3, ConcatList DEF Distinct
  <1>5. /\ OrderExact' /\ OutstandingExact' /\ ReleaseShape' /\ Linked' = Linked
        /\ delivered' = delivered /\ dropped' = dropped
    BY <1>1, FilesKept DEF callerVars
  <1>6. Distinct'
    BY <1>1, <1>4, EmptyList DEF Distinct
  <1>7. Placed'
    <2> DEFINE S == Elems(readQ) \cup Elems(writeQ)
               A == {"readQ", "writeQ"}
    <2>1. /\ A \in SUBSET (PlaceName \ {"flushQ"}) /\ "flushQ" \in PlaceName
          /\ \A o \in S : \E x \in A : o \in Holds(x)
      BY HoldsIs DEF PlaceName
    <2>2. \A x \in A : Holds(x)' = Holds(x) \ S
      BY <1>1, HoldsIs, EmptyList
    <2>3. Holds("flushQ")' = Holds("flushQ") \cup S
      BY <1>1, <1>4, HoldsIs, EmptyList
    <2>4. \A x \in PlaceName \ (A \cup {"flushQ"}) : Holds(x)' = Holds(x)
      BY <1>1, <1>5, HoldsIs DEF PlaceName, InHand
    <2>5. accepted' = accepted /\ shut' = shut
      BY <1>1 DEF callerVars
    <2> HIDE DEF S, A, PlaceInv, Shape
    <2>6. Placed
      BY DEF PlaceInv, Shape
    <2> QED
      BY <2>1, <2>2, <2>3, <2>4, <2>5, <2>6, Gathered
  <1> QED
    BY <1>5, <1>6, <1>7

LEMMA PickShape == ASSUME PlaceInv, Pick PROVE Shape'
  <1> USE DEF PlaceInv, Shape
  <1>0. /\ pc = "pick" /\ pc' = "handoff" /\ hand = NoOp
        /\ PickFrom(readQ, writeQ) \/ PickFrom(writeQ, readQ)
        /\ UNCHANGED <<cancelled, executing, done, comps, flushQ, complVars, callerVars>>
    BY PickCases DEF TypeOK, ServesRead, ServesWrite, backendVars, cancelVars
  <1>1. /\ OrderExact' /\ OutstandingExact' /\ ReleaseShape' /\ Linked' = Linked
        /\ delivered' = delivered /\ dropped' = dropped /\ accepted' = accepted /\ shut' = shut
    BY <1>0, FilesKept DEF callerVars
  <1>2. InHand = {} /\ \A o \in Op : hand' = o => InHand' = {o}
    BY <1>0, DriverAssumption DEF InHand, DriverAssumption
  <1>3. CASE PickFrom(readQ, writeQ)
    <2>1. PICK i \in DOMAIN readQ : hand' = readQ[i] /\ readQ' = Without(readQ, i) /\ writeQ' = writeQ
      BY <1>3 DEF PickFrom
    <2>2. /\ readQ[i] \in Op /\ readQ[i] \in Elems(readQ) /\ Elems(readQ') = Elems(readQ) \ {readQ[i]}
          /\ Injective(readQ')
      BY <2>1, WithoutList, WithoutType, DriverAssumption DEF TypeOK, Distinct, DriverAssumption
    <2>3. InHand' = {readQ[i]}
      BY <1>2, <2>1, <2>2
    <2> DEFINE S == {readQ[i]}
    <2>4. /\ "readQ" \in PlaceName /\ "hand" \in PlaceName /\ "readQ" # "hand"
          /\ S \in SUBSET Holds("readQ")
          /\ Holds("hand")' = Holds("hand") \cup S /\ Holds("readQ")' = Holds("readQ") \ S
          /\ \A x \in PlaceName \ {"readQ", "hand"} : Holds(x)' = Holds(x)
      BY <1>0, <1>1, <1>2, <2>1, <2>2, <2>3, HoldsIs DEF PlaceName
    <2> HIDE DEF S
    <2>5. Placed'
      BY <1>1, <2>4, Moved
    <2>6. Distinct'
      BY <1>0, <2>1, <2>2 DEF Distinct
    <2> QED
      BY <1>1, <2>5, <2>6
  <1>4. CASE PickFrom(writeQ, readQ)
    <2>1. PICK i \in DOMAIN writeQ : hand' = writeQ[i] /\ writeQ' = Without(writeQ, i) /\ readQ' = readQ
      BY <1>4 DEF PickFrom
    <2>2. /\ writeQ[i] \in Op /\ writeQ[i] \in Elems(writeQ)
          /\ Elems(writeQ') = Elems(writeQ) \ {writeQ[i]} /\ Injective(writeQ')
      BY <2>1, WithoutList, WithoutType, SMTT(30) DEF TypeOK, Distinct
    <2>3. InHand' = {writeQ[i]}
      BY <1>2, <2>1, <2>2
    <2> DEFINE S == {writeQ[i]}
    <2>4. /\ "writeQ" \in PlaceName /\ "hand" \in PlaceName /\ "writeQ" # "hand"
          /\ S \in SUBSET Holds("writeQ")
          /\ Holds("hand")' = Holds("hand") \cup S /\ Holds("writeQ")' = Holds("writeQ") \ S
          /\ \A x \in PlaceName \ {"writeQ", "hand"} : Holds(x)' = Holds(x)
      BY <1>0, <1>1, <1>2, <2>1, <2>2, <2>3, HoldsIs DEF PlaceName
    <2> HIDE DEF S
    <2>5. Placed'
      BY <1>1, <2>4, Moved
    <2>6. Distinct'
      BY <1>0, <2>1, <2>2 DEF Distinct
    <2> QED
      BY <1>1, <2>5, <2>6
  <1> QED
    BY <1>0, <1>3, <1>4

LEMMA HandoffShape == ASSUME PlaceInv, Handoff PROVE Shape'
  <1> USE DEF PlaceInv, Shape
  <1>0. /\ hand \in Op /\ hand' = NoOp /\ pc' = "pick" /\ executing' = executing \cup {hand}
        /\ pc = "handoff"
        /\ UNCHANGED <<readQ, writeQ, cancelled, done, comps, flushQ, complVars, callerVars>>
    BY DEF Handoff, TypeOK, queueVars, cancelVars
  <1>1. /\ OrderExact' /\ OutstandingExact' /\ ReleaseShape' /\ Linked' = Linked
        /\ delivered' = delivered /\ dropped' = dropped /\ accepted' = accepted /\ shut' = shut
    BY <1>0, FilesKept DEF callerVars
  <1>2. InHand = {hand} /\ InHand' = {}
    BY <1>0, DriverAssumption DEF InHand, DriverAssumption
  <1> DEFINE S == {hand}
  <1>3. /\ "executing" \in PlaceName /\ "hand" \in PlaceName /\ "hand" # "executing"
        /\ S \in SUBSET Holds("hand")
        /\ Holds("executing")' = Holds("executing") \cup S /\ Holds("hand")' = Holds("hand") \ S
        /\ \A x \in PlaceName \ {"hand", "executing"} : Holds(x)' = Holds(x)
    BY <1>0, <1>1, <1>2, HoldsIs DEF PlaceName
  <1> HIDE DEF S
  <1>4. Placed'
    BY <1>1, <1>3, Moved
  <1>5. Distinct'
    BY <1>0 DEF Distinct
  <1> QED
    BY <1>1, <1>4, <1>5

LEMMA ReapShape == ASSUME PlaceInv, Reap PROVE Shape'
  <1> USE DEF PlaceInv, Shape
  <1>0. /\ comps = <<>> /\ comps' = done /\ done' = <<>>
        /\ UNCHANGED <<readQ, writeQ, cancelled, executing, hand, flushQ, complVars, callerVars>>
        /\ pc' # "route" => done = <<>>
    BY DEF Reap, queueVars, cancelVars, Distinct
  <1>1. /\ OrderExact' /\ OutstandingExact' /\ ReleaseShape' /\ Linked' = Linked
        /\ delivered' = delivered /\ dropped' = dropped /\ accepted' = accepted /\ shut' = shut
    BY <1>0, FilesKept DEF callerVars
  <1> DEFINE S == Elems(done)
  <1>2. Elems(comps') = Elems(comps) \cup S /\ Elems(done') = Elems(done) \ S
    BY <1>0, EmptyList
  <1>3. /\ "done" \in PlaceName /\ "comps" \in PlaceName /\ "done" # "comps"
        /\ S \in SUBSET Holds("done")
        /\ Holds("comps")' = Holds("comps") \cup S /\ Holds("done")' = Holds("done") \ S
        /\ \A x \in PlaceName \ {"done", "comps"} : Holds(x)' = Holds(x)
    BY <1>0, <1>1, <1>2, HoldsIs DEF PlaceName, InHand
  <1> HIDE DEF S
  <1>4. Placed'
    BY <1>1, <1>3, Moved
  <1>5. Distinct'
    BY <1>0, EmptyList DEF Distinct
  <1> QED
    BY <1>1, <1>4, <1>5

LEMMA BackendFinishShape == ASSUME PlaceInv, NEW op \in Op, BackendFinish(op) PROVE Shape'
  <1> USE DEF PlaceInv, Shape
  <1>0. /\ op \in executing /\ executing' = executing \ {op} /\ done' = Append(done, op)
        /\ UNCHANGED <<readQ, writeQ, cancelled, hand, comps, pc, flushQ, complVars, callerVars>>
    BY DEF BackendFinish, queueVars, schedVars, cancelVars
  <1>1. /\ OrderExact' /\ OutstandingExact' /\ ReleaseShape' /\ Linked' = Linked
        /\ delivered' = delivered /\ dropped' = dropped /\ accepted' = accepted /\ shut' = shut
    BY <1>0, FilesKept DEF callerVars
  <1>2. op \notin Elems(done)
    BY <1>0, HoldsIs DEF Placed, PlaceName
  <1>3. Elems(done') = Elems(done) \cup {op} /\ Injective(done')
    BY <1>0, <1>2, AppendList DEF TypeOK, Distinct
  <1> DEFINE S == {op}
  <1>4. /\ "done" \in PlaceName /\ "executing" \in PlaceName /\ "executing" # "done"
        /\ S \in SUBSET Holds("executing")
        /\ Holds("done")' = Holds("done") \cup S /\ Holds("executing")' = Holds("executing") \ S
        /\ \A x \in PlaceName \ {"executing", "done"} : Holds(x)' = Holds(x)
    BY <1>0, <1>1, <1>3, HoldsIs DEF PlaceName, InHand
  <1> HIDE DEF S
  <1>5. Placed'
    BY <1>1, <1>4, Moved
  <1>6. Distinct'
    BY <1>0, <1>3 DEF Distinct
  <1> QED
    BY <1>1, <1>5, <1>6

\* The shutdown of the backend loses what it held, and only that.
LEMMA ShutdownShape == ASSUME PlaceInv, Shutdown PROVE Shape'
  <1> USE DEF PlaceInv, Shape
  <1>0. /\ executing' = {} /\ done' = <<>> /\ shut' = TRUE
        /\ UNCHANGED <<readQ, writeQ, cancelled, hand, comps, pc, flushQ, complVars>>
        /\ UNCHANGED <<releasing, waitingOn, accepted, delivered, released>>
    BY DEF Shutdown, queueVars, schedVars, cancelVars
  <1>1. /\ OrderExact' /\ OutstandingExact' /\ ReleaseShape' /\ Linked' = Linked
        /\ delivered' = delivered /\ dropped' = dropped
    BY <1>0, FilesKept
  <1>2. \A x \in PlaceName : Holds(x)' \subseteq Holds(x)
    BY <1>0, <1>1, HoldsIs, EmptyList DEF PlaceName, InHand
  <1>3. Placed'
    BY <1>0, <1>2 DEF Placed
  <1>4. Distinct'
    BY <1>0, EmptyList DEF Distinct
  <1> QED
    BY <1>1, <1>3, <1>4

\* The three places an operation is completed from: requestCancel's list, the hand of the
\* scheduler when the backend refuses, and the batch that reap() returned.
Settles(op) ==
    /\ EnqueueCompletion(op) /\ UNCHANGED callerVars
    /\ \E a \in {"flushQ", "hand", "comps"} :
         /\ op \in Holds(a) /\ Holds(a)' = Holds(a) \ {op}
         /\ \A x \in PlaceName \ {a, "linked", "dropped"} : Holds(x)' = Holds(x)

LEMMA SettlesCases ==
    ASSUME PlaceInv, FlushOne \/ HandoffFails \/ Route
    PROVE  Distinct' /\ \E op \in Op : Settles(op)
  <1> USE DEF PlaceInv, Shape
  <1>1. CASE FlushOne
    <2>1. /\ flushQ # <<>> /\ EnqueueCompletion(Head(flushQ)) /\ flushQ' = Tail(flushQ)
          /\ UNCHANGED <<readQ, writeQ, cancelled, executing, done, hand, comps, pc, callerVars>>
      BY <1>1 DEF FlushOne, queueVars, backendVars, schedVars
    <2>2. /\ Head(flushQ) \in Elems(flushQ) /\ Elems(flushQ') = Elems(flushQ) \ {Head(flushQ)}
          /\ Injective(flushQ') /\ Head(flushQ) \in Op
      BY <2>1, TailList DEF TypeOK, Distinct
    <2>3. /\ Head(flushQ) \in Holds("flushQ") /\ Holds("flushQ")' = Holds("flushQ") \ {Head(flushQ)}
          /\ \A x \in PlaceName \ {"flushQ", "linked", "dropped"} : Holds(x)' = Holds(x)
      BY <2>1, <2>2, HoldsIs DEF PlaceName, InHand, callerVars
    <2>4. Settles(Head(flushQ))
      BY <2>1, <2>3 DEF Settles
    <2>5. Distinct'
      BY <2>1, <2>2 DEF Distinct
    <2> QED
      BY <2>2, <2>4, <2>5
  <1>2. CASE HandoffFails
    <2>1. /\ hand \in Op /\ EnqueueCompletion(hand) /\ hand' = NoOp /\ pc = "handoff" /\ pc' = "failed"
          /\ UNCHANGED <<readQ, writeQ, cancelled, executing, done, flushQ, comps, callerVars>>
      BY <1>2 DEF HandoffFails, TypeOK, queueVars, backendVars, cancelVars
    <2>2. InHand = {hand} /\ InHand' = {}
      BY <2>1, DriverAssumption DEF InHand, DriverAssumption
    <2>3. /\ hand \in Holds("hand") /\ Holds("hand")' = Holds("hand") \ {hand}
          /\ \A x \in PlaceName \ {"hand", "linked", "dropped"} : Holds(x)' = Holds(x)
      BY <2>1, <2>2, HoldsIs DEF PlaceName, callerVars
    <2>4. Settles(hand)
      BY <2>1, <2>3 DEF Settles
    <2>5. Distinct'
      BY <2>1 DEF Distinct
    <2> QED
      BY <2>1, <2>4, <2>5
  <1>3. CASE Route
    <2>1. /\ comps # <<>> /\ EnqueueCompletion(Head(comps)) /\ comps' = Tail(comps) /\ pc = "route"
          /\ UNCHANGED <<readQ, writeQ, cancelled, executing, done, hand, flushQ, pc, callerVars>>
      BY <1>3 DEF Route, queueVars, backendVars, cancelVars
    <2>2. /\ Head(comps) \in Elems(comps) /\ Elems(comps') = Elems(comps) \ {Head(comps)}
          /\ Injective(comps') /\ Head(comps) \in Op
      BY <2>1, TailList DEF TypeOK, Distinct
    <2>3. /\ Head(comps) \in Holds("comps") /\ Holds("comps")' = Holds("comps") \ {Head(comps)}
          /\ \A x \in PlaceName \ {"comps", "linked", "dropped"} : Holds(x)' = Holds(x)
      BY <2>1, <2>2, HoldsIs DEF PlaceName, InHand, callerVars
    <2>4. Settles(Head(comps))
      BY <2>1, <2>3 DEF Settles
    <2>5. Distinct'
      BY <2>1, <2>2 DEF Distinct
    <2> QED
      BY <2>2, <2>4, <2>5
  <1> QED
    BY <1>1, <1>2, <1>3

LEMMA InitShape == Init => Shape
  <1> SUFFICES ASSUME Init PROVE Shape
    OBVIOUS
  <1>1. /\ Linked = {} /\ InHand = {} /\ Elems(readQ) = {} /\ Elems(writeQ) = {}
        /\ Elems(flushQ) = {} /\ Elems(done) = {} /\ Elems(comps) = {}
    BY EmptyList DEF Init, Linked, InHand
  <1>2. \A x \in PlaceName : Holds(x) = {}
    BY <1>1, HoldsIs DEF PlaceName, Init
  <1>3. Placed
    BY <1>2 DEF Placed, Init
  <1>4. Distinct
    BY EmptyList DEF Distinct, Init
  <1>5. OrderExact
    <2>1. \A o \in Op : order[o] < nextSlot
      BY DEF Init
    <2>2. \A f \in File : byFile[f] = <<>>
      BY DEF Init
    <2>3. Ascending(<<>>, order)
      BY DEF Ascending
    <2> QED
      BY <1>1, <2>1, <2>2, <2>3, EmptyList DEF OrderExact
  <1>6. OutstandingExact
    <2>1. \A f \in File : Pending \cap OpsOf(f) = {} /\ outstanding[f] = 0
      BY DEF Pending, Init
    <2> QED
      BY <2>1, FS_EmptySet DEF OutstandingExact
  <1>7. ReleaseShape
    BY DEF ReleaseShape, Init
  <1> QED
    BY <1>3, <1>4, <1>5, <1>6, <1>7 DEF Shape

LEMMA NextPlaceInv == PlaceInv /\ [Next]_vars => PlaceInv'
  <1> SUFFICES ASSUME PlaceInv, [Next]_vars PROVE Shape'
    BY NextType DEF PlaceInv
  <1>1. CASE FlushOne \/ HandoffFails \/ Route
    <2>1. PICK op \in Op : Settles(op)
      BY <1>1, SettlesCases
    <2>2. PICK a \in {"flushQ", "hand", "comps"} :
            /\ op \in Holds(a) /\ Holds(a)' = Holds(a) \ {op}
            /\ \A x \in PlaceName \ {a, "linked", "dropped"} : Holds(x)' = Holds(x)
      BY <2>1 DEF Settles
    <2>3. EnqueueCompletion(op) /\ UNCHANGED callerVars
      BY <2>1 DEF Settles
    <2>4. Placed' /\ OrderExact' /\ OutstandingExact' /\ ReleaseShape'
      BY <2>2, <2>3, EnqueueMoves
    <2> QED
      BY <1>1, <2>4, SettlesCases DEF Shape
  <1>2. CASE Callers
    BY <1>2, SubmitShape, DrainForFileShape, DrainAllShape, CallerShape, RequestCancelShape,
       QuietShape DEF Callers
  <1>3. CASE Progress
    BY <1>1, <1>3, QuietShape, PickShape, HandoffShape, ReapShape, BackendFinishShape,
       ShutdownShape, ReleaseNowShape, CallerShape DEF Progress
  <1>4. CASE UNCHANGED vars
    BY <1>4, QuietShape
  <1> QED
    BY <1>2, <1>3, <1>4 DEF Next

LEMMA PlaceInvariance == Spec => []PlaceInv
  <1>1. Init => PlaceInv
    BY InitType, InitShape DEF PlaceInv
  <1> QED
    BY <1>1, NextPlaceInv, PTL DEF Spec

-----------------------------------------------------------------------------
(* What the invariant says.                                                *)

LEMMA CountApart ==
    ASSUME NEW S, NEW T, IsFiniteSet(S), IsFiniteSet(T), S \cap T = {}
    PROVE  /\ IsFiniteSet(S \cup T)
           /\ Cardinality(S \cup T) = Cardinality(S) + Cardinality(T)
           /\ Cardinality(S) \in Nat /\ Cardinality(T) \in Nat
  BY FS_Union, FS_EmptySet, FS_CardinalityType, SMTT(30)

\* The places hold the accepted operations, each once: their sizes add up.
LEMMA PlacesAddUp ==
    ASSUME PlaceInv, ~shut
    PROVE  /\ accepted = Unsettled \cup Linked \cup delivered \cup dropped
           /\ Cardinality(accepted) =
                Len(readQ) + Len(writeQ) + Len(flushQ) + Cardinality(InHand)
                + Cardinality(executing) + Len(done) + Len(comps) + Cardinality(Linked)
                + Cardinality(delivered) + Cardinality(dropped)
  <1> USE DEF PlaceInv, Shape
  <1> DEFINE r == Elems(readQ)
             w == Elems(writeQ)
             q == Elems(flushQ)
             h == InHand
             d == Elems(done)
             c == Elems(comps)
             s2 == r \cup w
             s3 == s2 \cup q
             s4 == s3 \cup h
             s5 == s4 \cup executing
             s6 == s5 \cup d
             s7 == s6 \cup c
             s8 == s7 \cup Linked
             s9 == s8 \cup delivered
  <1>1. /\ IsFiniteSet(r) /\ Cardinality(r) = Len(readQ) /\ IsFiniteSet(w)
        /\ Cardinality(w) = Len(writeQ) /\ IsFiniteSet(q) /\ Cardinality(q) = Len(flushQ)
        /\ IsFiniteSet(d) /\ Cardinality(d) = Len(done)
        /\ IsFiniteSet(c) /\ Cardinality(c) = Len(comps)
    BY CountList DEF TypeOK, Distinct
  <1>2. /\ IsFiniteSet(h) /\ IsFiniteSet(executing) /\ IsFiniteSet(Linked)
        /\ IsFiniteSet(delivered) /\ IsFiniteSet(dropped)
    <2>1. /\ h \subseteq Op /\ executing \subseteq Op /\ Linked \subseteq Op
          /\ delivered \subseteq Op /\ dropped \subseteq Op
      BY DEF TypeOK, InHand, Linked
    <2> QED
      BY <2>1, DriverAssumption, FS_Subset DEF DriverAssumption
  <1>3. /\ \A x, y \in PlaceName : x # y => Holds(x) \cap Holds(y) = {}
        /\ \A x \in PlaceName : Holds(x) \subseteq accepted
        /\ \A o \in accepted : \E x \in PlaceName : o \in Holds(x)
    BY DEF Placed
  <1>4. accepted = s9 \cup dropped
    <2>1. \A o \in accepted : o \in s9 \cup dropped
      BY <1>3, HoldsIs DEF PlaceName
    <2>2. \A x \in PlaceName : Holds(x) \subseteq accepted
      BY <1>3
    <2>3. s9 \cup dropped \subseteq accepted
      BY <2>2, HoldsIs DEF PlaceName
    <2> QED
      BY <2>1, <2>3
  <1>5. accepted = Unsettled \cup Linked \cup delivered \cup dropped
    BY <1>4 DEF Unsettled, InBackend
  <1>6. /\ r \cap w = {} /\ s2 \cap q = {} /\ s3 \cap h = {} /\ s4 \cap executing = {}
        /\ s5 \cap d = {} /\ s6 \cap c = {} /\ s7 \cap Linked = {}
        /\ s8 \cap delivered = {} /\ s9 \cap dropped = {}
    <2>1. r \cap w = {} /\ s2 \cap q = {} /\ s3 \cap h = {} /\ s4 \cap executing = {}
      BY <1>3, HoldsIs DEF PlaceName
    <2>2. s5 \cap d = {} /\ s6 \cap c = {} /\ s7 \cap Linked = {}
      BY <1>3, HoldsIs DEF PlaceName
    <2>3. s8 \cap delivered = {} /\ s9 \cap dropped = {}
      BY <1>3, HoldsIs DEF PlaceName
    <2> QED
      BY <2>1, <2>2, <2>3
  <1> HIDE DEF r, w, q, h, d, c
  <1>7. IsFiniteSet(s2) /\ Cardinality(s2) = Cardinality(r) + Cardinality(w)
    BY <1>1, <1>6, CountApart
  <1> HIDE DEF s2
  <1>8. IsFiniteSet(s3) /\ Cardinality(s3) = Cardinality(s2) + Cardinality(q)
    BY <1>1, <1>6, <1>7, CountApart
  <1> HIDE DEF s3
  <1>9. IsFiniteSet(s4) /\ Cardinality(s4) = Cardinality(s3) + Cardinality(h)
    BY <1>2, <1>6, <1>8, CountApart
  <1> HIDE DEF s4
  <1>10. IsFiniteSet(s5) /\ Cardinality(s5) = Cardinality(s4) + Cardinality(executing)
    BY <1>2, <1>6, <1>9, CountApart
  <1> HIDE DEF s5
  <1>11. IsFiniteSet(s6) /\ Cardinality(s6) = Cardinality(s5) + Cardinality(d)
    BY <1>1, <1>6, <1>10, CountApart
  <1> HIDE DEF s6
  <1>12. IsFiniteSet(s7) /\ Cardinality(s7) = Cardinality(s6) + Cardinality(c)
    BY <1>1, <1>6, <1>11, CountApart
  <1> HIDE DEF s7
  <1>13. IsFiniteSet(s8) /\ Cardinality(s8) = Cardinality(s7) + Cardinality(Linked)
    BY <1>2, <1>6, <1>12, CountApart
  <1> HIDE DEF s8
  <1>14. IsFiniteSet(s9) /\ Cardinality(s9) = Cardinality(s8) + Cardinality(delivered)
    BY <1>2, <1>6, <1>13, CountApart
  <1> HIDE DEF s9
  <1>15. Cardinality(accepted) = Cardinality(s9) + Cardinality(dropped)
    BY <1>2, <1>4, <1>6, <1>14, CountApart
  <1> QED
    BY <1>1, <1>5, <1>7, <1>8, <1>9, <1>10, <1>11, <1>12, <1>13, <1>14, <1>15 DEF h

\* FR-14 and Invariant I of disk_io_driver.h for any operations, files and weights: until
\* the backend is shut down an accepted operation is in exactly one place, and the order
\* list holds exactly the completions of the per-file lists, oldest first.
THEOREM OnePlaceHolds == Spec => []ExactlyOnePlace
  <1>1. PlaceInv => ExactlyOnePlace
    <2> SUFFICES ASSUME PlaceInv, ~shut
                 PROVE  /\ accepted = Unsettled \cup Linked \cup delivered \cup dropped
                        /\ Cardinality(accepted) =
                             Len(readQ) + Len(writeQ) + Len(flushQ) + Cardinality(InHand)
                             + Cardinality(executing) + Len(done) + Len(comps)
                             + Cardinality(Linked) + Cardinality(delivered)
                             + Cardinality(dropped)
                        /\ \A f \in File :
                             /\ Elems(byFile[f]) = Linked \cap OpsOf(f)
                             /\ Ascending(byFile[f], order)
      BY Zenon DEF ExactlyOnePlace, Ascending
    <2>1. OrderExact
      BY DEF PlaceInv, Shape
    <2> QED
      BY <2>1, PlacesAddUp, Zenon DEF OrderExact
  <1> QED
    BY <1>1, PlaceInvariance, PTL

\* C1 (memory retention) for any number of files and concurrent releases: when the last
\* operation of a released file has settled and no release of it is half done, none of its
\* completions is kept; a dead wait state always has a waiter left to erase it.
THEOREM ReleaseHolds == Spec => []ReleaseLeavesNothing
  <1>1. PlaceInv /\ DeferredReleaseHasTrigger => ReleaseLeavesNothing
    <2> SUFFICES ASSUME PlaceInv, DeferredReleaseHasTrigger PROVE ReleaseLeavesNothing
      OBVIOUS
    <2> USE DEF PlaceInv, Shape
    <2>1. ASSUME ~shut, NEW f \in released \ releasing, Unsettled \cap OpsOf(f) = {}
          PROVE  byFile[f] = <<>>
      <3>1. f \in File /\ outstanding[f] = Cardinality(Pending \cap OpsOf(f))
        BY DEF TypeOK, OutstandingExact
      <3>2. Pending \subseteq Unsettled
        BY <2>1, PlacesAddUp DEF Pending
      <3>3. Pending \cap OpsOf(f) = {}
        BY <2>1, <3>2
      <3>4. outstanding[f] = 0
        BY <3>1, <3>3, FS_EmptySet
      <3>5. CASE byFile[f] # <<>>
        <4>1. f \in pendingRelease
          BY <3>5 DEF ReleaseShape
        <4> QED
          BY <3>4, <4>1, <2>1 DEF DeferredReleaseHasTrigger
      <3> QED
        BY <3>5
    <2> QED
      BY <2>1 DEF ReleaseLeavesNothing, ReleaseShape
  <1> QED
    BY <1>1, PlaceInvariance, DeferredReleaseSafe, PTL

-----------------------------------------------------------------------------
(* The driver implements IoService.                                        *)

LEMMA EnqueueCompletes ==
    ASSUME PlaceInv, NEW op \in Op, Settles(op)
    PROVE  Promise!Complete(op)
  <1> DEFINE f == FileOf[op]
  <1>0. PICK a \in {"flushQ", "hand", "comps"} :
          /\ op \in Holds(a) /\ Holds(a)' = Holds(a) \ {op}
          /\ \A x \in PlaceName \ {a, "linked", "dropped"} : Holds(x)' = Holds(x)
    BY DEF Settles
  <1>1. EnqueueCompletion(op) /\ UNCHANGED callerVars
    BY DEF Settles
  <1>2. /\ Kept(op) \/ Released(op)
        /\ op \in Pending /\ op \notin Linked /\ Pending' = Pending \ {op}
        /\ outstanding[f] \in Nat
        /\ Cardinality((Pending \cap OpsOf(f)) \ {op}) = outstanding[f] - 1
    BY <1>0, <1>1, EnqueueMoves
  <1>3. UNCHANGED <<delivered, released, shut>>
    BY <1>1 DEF callerVars
  <1>4. CASE Kept(op)
    BY <1>2, <1>3, <1>4 DEF Kept, Promise!Complete, Pending
  <1>5. CASE Released(op)
    <2>1. f \in released
      BY <1>5 DEF Released, PlaceInv, Shape, ReleaseShape
    <2>2. \A o \in Pending \ {op} : FileOf[o] # f
      <3>1. IsFiniteSet((Pending \cap OpsOf(f)) \ {op})
        <4>1. f \in File
          BY DriverAssumption DEF DriverAssumption
        <4>2. IsFiniteSet(Pending \cap OpsOf(f))
          BY <4>1, PendingFinite DEF PlaceInv
        <4> QED
          BY <4>2, FS_Subset
      <3>2. Cardinality((Pending \cap OpsOf(f)) \ {op}) \in Nat /\ outstanding[f] <= 1
        BY <1>5, <3>1, FS_CardinalityType DEF Released
      <3>3. Cardinality((Pending \cap OpsOf(f)) \ {op}) = 0
        BY <1>2, <3>2
      <3>4. (Pending \cap OpsOf(f)) \ {op} = {}
        BY <3>1, <3>3, FS_EmptySet
      <3>5. Pending \subseteq Op
        BY DEF Pending, PlaceInv, TypeOK
      <3> QED
        BY <3>4, <3>5 DEF OpsOf
    <2>3. {o \in Linked \cup {op} : FileOf[o] = f} = {op} \cup (Linked \cap OpsOf(f))
      BY DEF OpsOf, Linked
    <2>4. /\ Linked' = (Linked \cup {op}) \ ({op} \cup (Linked \cap OpsOf(f)))
          /\ dropped' = dropped \cup ({op} \cup (Linked \cap OpsOf(f)))
      <3>1. Linked' = Linked \ OpsOf(f) /\ op \in OpsOf(f)
        BY <1>5 DEF Released, OpsOf
      <3>2. dropped' = dropped \cup ({op} \cup (Linked \cap OpsOf(f)))
        BY <1>5 DEF Released
      <3> QED
        BY <1>2, <3>1, <3>2
    <2> QED
      BY <1>2, <1>3, <2>1, <2>2, <2>3, <2>4 DEF Promise!Complete, Pending
  <1> QED
    BY <1>2, <1>4, <1>5

\* What a step that is no submit, completion, drain or release leaves alone.
LEMMA PromiseFrame ==
    ASSUME UNCHANGED <<order, accepted, delivered, dropped, released, shut>>
    PROVE  UNCHANGED Promise!vars
  BY DEF Promise!vars, Linked

LEMMA StepKeepsPromise == PlaceInv /\ [Next]_vars => [Promise!Next]_(Promise!vars)
  <1> SUFFICES ASSUME PlaceInv, [Next]_vars PROVE Promise!Next \/ UNCHANGED Promise!vars
    OBVIOUS
  <1>1. ASSUME NEW op \in Op, Submit(op) PROVE Promise!Next
    <2>1. /\ ~shut /\ op \notin accepted /\ accepted' = accepted \cup {op}
          /\ UNCHANGED <<order, delivered, dropped, released, shut>>
      BY <1>1 DEF Submit
    <2>2. Linked' = Linked /\ Linked \subseteq accepted /\ delivered \subseteq accepted
          /\ dropped \subseteq accepted
      <3>1. \A x \in PlaceName : Holds(x) \subseteq accepted
        BY DEF PlaceInv, Shape, Placed
      <3> QED
        BY <2>1, <3>1, HoldsIs DEF PlaceName, Linked
    <2>3. Promise!Accept({op})
      BY <2>1, <2>2 DEF Promise!Accept, Promise!Known
    <2> QED
      BY <2>3 DEF Promise!Next
  <1>2. ASSUME NEW f \in File, DrainForFile(f) \/ ReleaseNow(f) PROVE Promise!Next
    <2>0. /\ order' = Unlink(order, Elems(byFile[f])) /\ UNCHANGED <<accepted, released, shut>>
          /\ \/ delivered' = delivered \cup Elems(byFile[f]) /\ dropped' = dropped
             \/ /\ dropped' = dropped \cup Elems(byFile[f]) /\ delivered' = delivered
                /\ f \in releasing
      BY <1>2 DEF DrainForFile, ReleaseNow, ReleaseFileLocked
    <2>1. Elems(byFile[f]) = Linked \cap OpsOf(f)
      BY DEF PlaceInv, Shape, OrderExact
    <2>2. Linked' = Linked \ (Linked \cap OpsOf(f))
      BY <2>0, <2>1 DEF Unlink, Linked
    <2>3. CASE delivered' = delivered \cup Elems(byFile[f]) /\ dropped' = dropped
      <3> DEFINE S == Linked \cap OpsOf(f)
      <3>1. Promise!Deliver(S) /\ S \in SUBSET Op
        BY <2>0, <2>1, <2>2, <2>3 DEF Promise!Deliver, Linked
      <3> HIDE DEF S
      <3> QED
        BY <3>1 DEF Promise!Next
    <2>4. CASE dropped' = dropped \cup Elems(byFile[f]) /\ delivered' = delivered /\ f \in releasing
      <3>1. f \in released
        BY <2>4 DEF PlaceInv, Shape, ReleaseShape
      <3>2. {o \in Linked : FileOf[o] = f} = Linked \cap OpsOf(f)
        BY DEF OpsOf, Linked
      <3>3. Promise!Release(f)
        BY <2>0, <2>1, <2>2, <2>4, <3>1, <3>2 DEF Promise!Release
      <3> QED
        BY <3>3 DEF Promise!Next
    <2> QED
      BY <2>0, <2>3, <2>4
  <1>3. CASE DrainAll
    <2>1. Linked' = {} /\ delivered' = delivered \cup Linked
      BY <1>3, DrainAllShape
    <2>2. UNCHANGED <<accepted, released, shut, dropped>>
      BY <1>3 DEF DrainAll
    <2>3. Promise!Deliver(Linked) /\ Linked \in SUBSET Op
      BY <2>1, <2>2 DEF Promise!Deliver, Linked
    <2> QED
      BY <2>3 DEF Promise!Next
  <1>4. ASSUME NEW f \in File, ReleaseFile(f) PROVE Promise!Next
    <2>1. released' = released \cup {f} /\ UNCHANGED <<order, accepted, delivered, dropped, shut>>
      BY <1>4 DEF ReleaseFile
    <2>2. Promise!RequestRelease(f)
      BY <2>1 DEF Promise!RequestRelease, Linked
    <2> QED
      BY <2>2 DEF Promise!Next
  <1>5. CASE FlushOne \/ HandoffFails \/ Route
    BY <1>5, SettlesCases, EnqueueCompletes DEF Promise!Next
  <1>6. CASE Shutdown
    <2>1. shut' = TRUE /\ UNCHANGED <<order, accepted, delivered, dropped, released>>
      BY <1>6 DEF Shutdown, complVars
    <2>2. Promise!Close
      BY <2>1 DEF Promise!Close, Linked
    <2> QED
      BY <2>2 DEF Promise!Next
  <1>7. CASE UNCHANGED <<order, accepted, delivered, dropped, released, shut>>
    BY <1>7, PromiseFrame
  <1>8. CASE Callers
    BY <1>1, <1>2, <1>3, <1>4, <1>7, <1>8, Zenon
       DEF Callers, WaitForFile, RequestCancel, Destroy, complVars, callerVars
  <1>9. CASE Progress
    BY <1>2, <1>5, <1>6, <1>7, <1>9, Zenon
       DEF Progress, SchedTop, PickNothing, Pick, Handoff, FreeFailedSlot, Reap, RouteDone,
           BackendFinish, FlushDone, LeaveWait, complVars, callerVars
  <1>10. CASE UNCHANGED vars
    BY <1>7, <1>10, Zenon DEF vars, complVars, callerVars
  <1> QED
    BY <1>8, <1>9, <1>10 DEF Next

\* The driver keeps IoService's promise for any operations and files, through every
\* interleaving of submit, cancel, hard failure, drain, release and destruction: an operation
\* completes once, is delivered at most once, and is thrown away only by a release of its file.
THEOREM DriverImplements == Spec => KeepsPromise
  <1>1. Init => Promise!Init
    <2> SUFFICES ASSUME Init PROVE Promise!Init
      OBVIOUS
    <2>1. Linked = {}
      BY DEF Init, Linked
    <2> QED
      BY <2>1 DEF Init, Promise!Init
  <1>2. PlaceInv /\ [Next]_vars => [Promise!Next]_(Promise!vars)
    BY StepKeepsPromise
  <1> QED
    BY <1>1, <1>2, PlaceInvariance, PTL DEF Spec, KeepsPromise, Promise!Spec

=============================================================================
