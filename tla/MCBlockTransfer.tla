--------------------------- MODULE MCBlockTransfer ---------------------------
(* Instances of BlockTransfer for TLC: file d can be rebuilt from a delta or from blocks, *)
(* files e and g from a delta only.                                                       *)
EXTENDS BlockTransfer

CONSTANTS d, e, g

BlockCount == [f \in {d, e, g} |-> IF f = d THEN 2 ELSE 1]
=============================================================================
