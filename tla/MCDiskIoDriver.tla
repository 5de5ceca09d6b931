--------------------------- MODULE MCDiskIoDriver ---------------------------
(* Two writes of one file, the second of low latency, and a read of another *)
(* file: both queues wait at once behind the in-flight window.              *)
EXTENDS DiskIoDriver

CONSTANTS r1, w1, w2, f1, f2

MCOp == {r1, w1, w2}
MCFileOf == [o \in MCOp |-> IF o \in {w1, w2} THEN f1 ELSE f2]
=============================================================================
