---------------------------- MODULE MCSshdApply ----------------------------
(* Instance of SshdApply for TLC.  A password login survives any value or  *)
(* is refused by the recommended one.                                      *)
EXTENDS SshdApply, TLC

AnyBarring   == {{}, Allowed}
Transactions == Permutations(Tx)
=============================================================================
