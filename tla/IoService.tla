------------------------------ MODULE IoService ------------------------------
(***************************************************************************)
(* What the unified disk-IO driver promises its callers, without queues,   *)
(* threads or locks: every accepted operation is completed exactly once,   *)
(* and its completion is handed out at most once, or thrown away by a      *)
(* release of its file.  DiskIoDriver implements this module.              *)
(***************************************************************************)
CONSTANTS Op, File, FileOf

VARIABLES
    pending,    \* accepted, not yet completed
    ready,      \* completed, completion not yet handed to a caller
    delivered,  \* completion handed to a caller
    dropped,    \* completion freed by a release of the file
    closing,    \* files whose release was requested
    closed      \* the driver was destroyed

vars == <<pending, ready, delivered, dropped, closing, closed>>

Known == pending \cup ready \cup delivered \cup dropped

Init ==
    /\ pending = {} /\ ready = {} /\ delivered = {} /\ dropped = {}
    /\ closing = {} /\ closed = FALSE

\* A batch is accepted in part (backpressure) or whole.
Accept(S) ==
    /\ ~closed /\ S \cap Known = {}
    /\ pending' = pending \cup S
    /\ UNCHANGED <<ready, delivered, dropped, closing, closed>>

\* One operation completes; when its file was released and this was the last
\* operation of that file, the release takes every undelivered completion.
Complete(op) ==
    /\ op \in pending
    /\ pending' = pending \ {op}
    /\ \/ /\ ready' = ready \cup {op}
          /\ UNCHANGED dropped
       \/ /\ FileOf[op] \in closing
          /\ \A o \in pending \ {op} : FileOf[o] # FileOf[op]
          /\ LET mine == {o \in ready \cup {op} : FileOf[o] = FileOf[op]}
             IN  /\ ready' = (ready \cup {op}) \ mine
                 /\ dropped' = dropped \cup mine
    /\ UNCHANGED <<delivered, closing, closed>>

Deliver(S) ==
    /\ S \subseteq ready
    /\ ready' = ready \ S
    /\ delivered' = delivered \cup S
    /\ UNCHANGED <<pending, dropped, closing, closed>>

RequestRelease(f) ==
    /\ closing' = closing \cup {f}
    /\ UNCHANGED <<pending, ready, delivered, dropped, closed>>

Release(f) ==
    /\ f \in closing
    /\ LET mine == {o \in ready : FileOf[o] = f}
       IN  /\ ready' = ready \ mine
           /\ dropped' = dropped \cup mine
    /\ UNCHANGED <<pending, delivered, closing, closed>>

Close ==
    /\ closed' = TRUE
    /\ UNCHANGED <<pending, ready, delivered, dropped, closing>>

Next ==
    \/ \E S \in SUBSET Op : Accept(S) \/ Deliver(S)
    \/ \E op \in Op : Complete(op)
    \/ \E f \in File : RequestRelease(f) \/ Release(f)
    \/ Close

Spec == Init /\ [][Next]_vars
=============================================================================
