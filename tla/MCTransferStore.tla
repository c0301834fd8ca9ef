--------------------------- MODULE MCTransferStore ---------------------------
(* TransferStore on small instances: clients and tokens are model values,  *)
(* interchangeable in every property but the temporal one.                 *)
EXTENDS TransferStore, TLC

CONSTANTS c1, c2, c3, t1, t2

Symmetry == Permutations(Clients) \cup Permutations(Tokens)
==============================================================================
