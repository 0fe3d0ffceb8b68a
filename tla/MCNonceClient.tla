--------------------------- MODULE MCNonceClient ----------------------------
(* Instances of NonceClient for TLC. *)
EXTENDS NonceClient, TLC

ThreadSymmetry == Permutations(Threads)
=============================================================================
