-------------------------- MODULE MCTransactionLog --------------------------
(* An instance of TransactionLog for TLC: each transaction counts keys for  *)
(* two devices and carries two events.                                      *)
EXTENDS TransactionLog, TLC

CONSTANTS c1, c2, c3, t1, d1, d2

MCCounted == [t \in Txn |-> Device]
MCEvents  == [t \in Txn |-> 2]
=============================================================================
