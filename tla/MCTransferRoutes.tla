--------------------------- MODULE MCTransferRoutes ---------------------------
(* TransferRoutes on small instances; requests are interchangeable but for *)
(* the temporal property.                                                  *)
EXTENDS TransferRoutes, TLC

CONSTANTS c1, c2, t1

Symmetry == Permutations(Clients)
==============================================================================
