--------------------------- MODULE SequentialReader ---------------------------
(***************************************************************************)
(* SequentialReader (FastClone/disk_io_driver.cpp): one thread pulls a     *)
(* file in offset order through the disk-IO driver, which completes reads  *)
(* in any order (IoService).  Offsets are counted in chunks, 0 .. Chunks-1;*)
(* the file on disk may be shorter than the size the reader was given.     *)
(* The rest of the driver is its environment: other readers may have the   *)
(* read queue full when refill() submits (backpressure), and requestCancel *)
(* may turn queued reads into Cancelled completions.                       *)
(***************************************************************************)
EXTENDS Integers, FiniteSets

CONSTANTS
    Chunks,           \* fileSize_ in chunks
    OnDisk,           \* chunks the file really has (fewer: it shrank)
    ReadAhead,        \* readAhead_
    MayBackpressure,  \* other files' reads can fill the read queue
    MayCancel         \* requestCancel can be called while this file is read

ASSUME ReaderAssumption ==
    /\ Chunks \in Nat /\ OnDisk \in 0 .. Chunks /\ ReadAhead \in Nat \ {0}
    /\ MayBackpressure \in BOOLEAN /\ MayCancel \in BOOLEAN

VARIABLES
    nextSubmit, nextYield,  \* nextSubmitOffset_, nextYieldOffset_
    inFlight, error,        \* inFlight_, error_
    reordered,              \* reordered_: drained completions, [offset, status]
    atDriver,               \* offsets accepted by the driver, not completed
    ready,                  \* completions in the driver, not drained
    cancelled,              \* the driver's cancelled_
    pc,                     \* "idle" (in the caller), "next" (in the loop)
    returned                \* what the last next() returned: "none" yet, "data", or 0
                            \* bytes with ok ("eof") or not ok ("fail")

vars == <<nextSubmit, nextYield, inFlight, error, reordered, atDriver, ready,
          cancelled, pc, returned>>

Offset == 0 .. Chunks - 1

Smaller(a, b) == IF a < b THEN a ELSE b

Init ==
    /\ nextSubmit = 0 /\ nextYield = 0 /\ inFlight = 0 /\ error = FALSE
    /\ reordered = {} /\ atDriver = {} /\ ready = {}
    /\ cancelled = FALSE /\ pc = "idle" /\ returned = "none"

-----------------------------------------------------------------------------
(* The reader.                                                             *)

\* Mutant of Refill: the whole rest of the file is requested at once.
RefillUnbounded ==
    /\ inFlight' = inFlight + (Chunks - nextSubmit)
    /\ nextSubmit' = Chunks
    /\ atDriver' = atDriver \cup nextSubmit .. (Chunks - 1)

\* refill(): plan up to the window, submit, keep what was accepted.  A
\* cancelled driver accepts nothing; a full queue accepts a prefix.
Refill ==
    LET planned == Smaller(ReadAhead - inFlight, Chunks - nextSubmit)
        plan    == IF planned > 0 THEN planned ELSE 0
        taken   == IF cancelled THEN {0}
                   ELSE IF MayBackpressure THEN 0 .. plan ELSE {plan}
    IN  \E took \in taken :
          /\ inFlight' = inFlight + took
          /\ nextSubmit' = nextSubmit + took
          /\ atDriver' = atDriver \cup nextSubmit .. (nextSubmit + took - 1)

\* next() is called, also after it has reported the end or an error: sticky
\* error, end of file, or refill and enter the loop.
CallNext ==
    /\ pc = "idle"
    /\ \/ /\ error
          /\ returned' = "fail"
          /\ UNCHANGED <<nextSubmit, inFlight, atDriver, pc>>
       \/ /\ ~error /\ nextYield >= Chunks
          /\ returned' = "eof"
          /\ UNCHANGED <<nextSubmit, inFlight, atDriver, pc>>
       \/ /\ ~error /\ nextYield < Chunks
          /\ Refill /\ pc' = "next" /\ UNCHANGED returned
    /\ UNCHANGED <<nextYield, error, reordered, ready, cancelled>>

\* Mutant of Yield: an early end of file is taken for the clean one.
YieldEofIsClean ==
    /\ pc = "next" /\ pc' = "idle"
    /\ \E c \in reordered :
         /\ c.off = nextYield
         /\ reordered' = reordered \ {c}
         /\ returned' = IF c.status = "Eof" THEN "eof" ELSE "data"
         /\ nextYield' = IF c.status = "Eof" THEN nextYield ELSE nextYield + 1
         /\ Refill /\ UNCHANGED error
    /\ UNCHANGED <<ready, cancelled>>

\* The completion of nextYield is here: fail on Error or early Eof, else hand
\* its bytes back.  A Cancelled completion has no bytes: 0 is returned, ok.
Yield ==
    /\ pc = "next"
    /\ \E c \in reordered :
         /\ c.off = nextYield
         /\ reordered' = reordered \ {c}
         /\ \/ /\ c.status \in {"Error", "Eof"}
               /\ error' = TRUE /\ returned' = "fail"
               /\ UNCHANGED <<nextYield, nextSubmit, inFlight, atDriver>>
            \/ /\ c.status = "Ok"
               /\ nextYield' = nextYield + 1 /\ returned' = "data"
               /\ Refill /\ UNCHANGED error
            \/ /\ c.status = "Cancelled"
               /\ returned' = "eof"
               /\ Refill /\ UNCHANGED <<nextYield, error>>
    /\ pc' = "idle"
    /\ UNCHANGED <<ready, cancelled>>

Awaited == \A c \in reordered : c.off # nextYield

\* Mutant of Drain: completions that are not the awaited one are thrown away.
DrainDropsOutOfOrder ==
    /\ pc = "next" /\ Awaited /\ ready # {}
    /\ reordered' = reordered \cup {c \in ready : c.off = nextYield}
    /\ inFlight' = inFlight - Smaller(inFlight, Cardinality(ready))
    /\ ready' = {}
    /\ UNCHANGED <<nextSubmit, nextYield, error, atDriver, cancelled, pc, returned>>

\* drainCompletionsForFile, with or without a wait before it.
Drain ==
    /\ pc = "next" /\ Awaited /\ ready # {}
    /\ reordered' = reordered \cup {c \in ready : \A d \in reordered : d.off # c.off}
    /\ inFlight' = inFlight - Smaller(inFlight, Cardinality(ready))
    /\ ready' = {}
    /\ UNCHANGED <<nextSubmit, nextYield, error, atDriver, cancelled, pc, returned>>

\* Nothing drained, nothing outstanding, nothing left to submit: give up.
GiveUp ==
    /\ pc = "next" /\ Awaited /\ ready = {}
    /\ inFlight = 0 /\ nextSubmit >= Chunks
    /\ returned' = "eof" /\ pc' = "idle"
    /\ UNCHANGED <<nextSubmit, nextYield, inFlight, error, reordered, atDriver, ready, cancelled>>

-----------------------------------------------------------------------------
(* The driver, as IoService promises it.                                   *)

\* The backend executes a read: past the end of the file it comes back short.
Complete(off) ==
    /\ off \in atDriver
    /\ atDriver' = atDriver \ {off}
    /\ \E s \in {IF off < OnDisk THEN "Ok" ELSE "Eof", "Error"} :
         ready' = ready \cup {[off |-> off, status |-> s]}
    /\ UNCHANGED <<nextSubmit, nextYield, inFlight, error, reordered, cancelled, pc, returned>>

\* requestCancel: the reads that were still queued complete as Cancelled.
Cancel ==
    /\ MayCancel /\ ~cancelled
    /\ cancelled' = TRUE
    /\ \E queued \in SUBSET atDriver :
         /\ atDriver' = atDriver \ queued
         /\ ready' = ready \cup [off : queued, status : {"Cancelled"}]
    /\ UNCHANGED <<nextSubmit, nextYield, inFlight, error, reordered, pc, returned>>

Next ==
    \/ CallNext \/ Yield \/ Drain \/ GiveUp
    \/ \E off \in Offset : Complete(off)
    \/ Cancel

Spec == Init /\ [][Next]_vars

\* The reading thread runs, and the driver completes what it accepted
\* (DiskIoDriver!EveryOpCompletes).
FairSpec ==
    /\ Spec
    /\ WF_vars(CallNext \/ Yield \/ Drain \/ GiveUp)
    /\ \A off \in Offset : WF_vars(Complete(off))

-----------------------------------------------------------------------------
(* Properties.                                                             *)

\* Memory is bounded by the window, not by the file.  While one read is slow the reads
\* after it complete and are held back for ordering, and every chunk handed out before it
\* refills the window behind them: what is in flight or held back can reach the triangular
\* number of the window, and no more.
MemoryBounded ==
    /\ inFlight <= ReadAhead
    /\ 2 * (inFlight + Cardinality(reordered)) <= ReadAhead * (ReadAhead + 1)

\* "A clean EOF is only nextYieldOffset_ >= fileSize_": the caller takes 0 bytes
\* with ok=true for the end of the file and hashes what it has.  Not so once the
\* driver is being torn down: a Cancelled completion also reads as 0 bytes, ok.
CleanEofMeansComplete == returned = "eof" /\ ~cancelled => nextYield >= Chunks

\* next() waits only for reads that will come: a call that has one outstanding
\* ends with a chunk or an error, unless the driver is torn down under it.
OutstandingReadReturns ==
    (pc = "next" /\ inFlight > 0) ~> (pc = "idle" \/ cancelled)

\* disk_io_driver.h: "Pull the next in-order chunk.  Returns bytes read (0 at
\* clean EOF).  Sets `ok=false` on error": every call of next() returns.
NextReturns == pc = "next" ~> pc = "idle"
=============================================================================
