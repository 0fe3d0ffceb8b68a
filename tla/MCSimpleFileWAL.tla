--------------------------- MODULE MCSimpleFileWAL --------------------------
(* An instance of SimpleFileWAL for TLC. *)
EXTENDS SimpleFileWAL, TLC

MCSize == "a" :> 2 @@ "b" :> 1 @@ "empty" :> 0
=============================================================================
