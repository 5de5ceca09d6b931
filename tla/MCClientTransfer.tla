-------------------------- MODULE MCClientTransfer --------------------------
(* Instances of ClientTransfer for TLC.                                    *)
EXTENDS ClientTransfer

CONSTANTS s1, g1

\* A small file that is new, and a large one whose size is that of the local file.
MCOutcomes == s1 :> {"TransferNow"} @@ g1 :> {"Hash", "Skip"}
=============================================================================
