--------------------------- MODULE MCContractCall ---------------------------
(* ContractCall on small instances, for TLC.                               *)
EXTENDS ContractCall, TLC

CallSymmetry == Permutations(Thread)

=============================================================================
