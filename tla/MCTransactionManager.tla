------------------------ MODULE MCTransactionManager ------------------------
(* The sequences of targets for TLC, which a .cfg cannot write. *)
EXTENDS TransactionManager

CONSTANTS e1, e2

OneTarget == <<e1>>
TwoTargets == <<e1, e2>>
=============================================================================
