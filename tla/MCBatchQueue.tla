---------------------------- MODULE MCBatchQueue ----------------------------
(* Instances of BatchQueue for TLC. *)
EXTENDS BatchQueue, TLC

SenderSymmetry == Permutations(Senders) \cup Permutations(Closers)
=============================================================================
