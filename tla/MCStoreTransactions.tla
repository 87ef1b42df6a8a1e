------------------------ MODULE MCStoreTransactions ------------------------
(* Transactions of a few concurrent calls, for TLC.                        *)
EXTENDS StoreTransactions

CONSTANTS t1, t2, t3, single
=============================================================================
