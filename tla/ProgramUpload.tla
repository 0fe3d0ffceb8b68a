---------------------------- MODULE ProgramUpload ---------------------------
(***************************************************************************)
(* CreateProgramUploadMsgs (client/svm/helper.go): a program is cut into   *)
(* chunks, one write instruction each, the instructions are collected into *)
(* transactions, and the last transaction deploys what was written. Bytes  *)
(* are numbered from 0; an instruction stands for the range it writes.     *)
(***************************************************************************)
EXTENDS Integers, Sequences

CONSTANTS Sizes,             \* lengths of programs
          InstructionSize,   \* 1200 in the code
          InstructionsPerTx  \* 750 in the code

ASSUME SizeAssumption ==
    /\ Sizes \subseteq Nat
    /\ InstructionSize \in Nat \ {0} /\ InstructionsPerTx \in Nat \ {0}

VARIABLES programSize,
          upc,         \* "loop" or "done"
          idx,         \* the first byte that no instruction has yet
          txBuilder,   \* the instructions of the transaction being built
          res          \* the transactions

uploadVars == <<programSize, upc, idx, txBuilder, res>>

Write(from, to) == [op |-> "write", from |-> from, to |-> to]
Deploy(n) == [op |-> "deploy", from |-> n, to |-> n]

UploadInit ==
    /\ programSize \in Sizes
    /\ upc = "loop" /\ idx = 0 /\ txBuilder = <<>> /\ res = <<>>

\* Mutant of Chunk: the end is not cut to the size of the program.
ChunkUncut == Write(idx, idx + InstructionSize)

Chunk ==
    LET end == idx + InstructionSize
    IN Write(idx, IF end > programSize THEN programSize ELSE end)

\* Mutant of Full: one instruction too many.
FullLate(ixs) == Len(ixs) > InstructionsPerTx

Full(ixs) == Len(ixs) = InstructionsPerTx

\* One pass of the loop. instructionCount is the length of txBuilder.
AddChunk ==
    /\ upc = "loop" /\ idx < programSize
    /\ idx' = Chunk.to
    /\ LET ixs == Append(txBuilder, Chunk)
       IN IF Full(ixs)
          THEN res' = Append(res, ixs) /\ txBuilder' = <<>>
          ELSE res' = res /\ txBuilder' = ixs
    /\ UNCHANGED <<programSize, upc>>

AddDeploy ==
    /\ upc = "loop" /\ idx >= programSize
    /\ res' = Append(res, Append(txBuilder, Deploy(programSize)))
    /\ txBuilder' = <<>> /\ upc' = "done"
    /\ UNCHANGED <<programSize, idx>>

UploadNext == AddChunk \/ AddDeploy

UploadSpec == UploadInit /\ [][UploadNext]_uploadVars

-----------------------------------------------------------------------------
(* Properties *)

Covers(i, b) == i.from <= b /\ b < i.to

\* Some instruction of the transactions ts writes each of the first n bytes.
Covered(ts, n) ==
    \A b \in 0..(n - 1) : \E j \in 1..Len(ts) : \E k \in 1..Len(ts[j]) : Covers(ts[j][k], b)

\* None writes beyond them, and each starts where the ones before it have ended
\* or later.
InOrder(ts, n) ==
    \A j \in 1..Len(ts) : \A k \in 1..Len(ts[j]) :
        /\ ts[j][k].to <= n
        /\ \A l \in j..Len(ts) : \A m \in 1..Len(ts[l]) :
               j < l \/ k < m => ts[j][k].to <= ts[l][m].from

\* When all is cut, every byte of the program is written by exactly one
\* instruction, also when the last chunk fills a chunk or a transaction, and
\* nothing outside the program is written.
EachByteOnce == upc = "done" => Covered(res, programSize) /\ InOrder(res, programSize)

\* No transaction is empty or has more instructions than a transaction may
\* have, no instruction is longer than allowed, and the only deployment comes
\* after all writes.
TransactionsFit ==
    /\ \A j \in 1..Len(res) :
           /\ Len(res[j]) \in 1..InstructionsPerTx
           /\ \A k \in 1..Len(res[j]) :
                  /\ res[j][k].to - res[j][k].from <= InstructionSize
                  /\ res[j][k].op = "deploy" <=>
                         upc = "done" /\ j = Len(res) /\ k = Len(res[j])
    /\ upc = "done" => res # <<>>
=============================================================================
