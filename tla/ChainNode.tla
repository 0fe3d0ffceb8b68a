----------------------------- MODULE ChainNode ------------------------------
(***************************************************************************)
(* The node chainClient talks to, as far as one account's transactions go. *)
(* It is not part of the repository: it is modelled from what the client   *)
(* relies on. An account query answers from the last block (committed);    *)
(* Simulate and CheckTx compare the sequence in the signature with the     *)
(* check state, which also counts the transactions waiting in the mempool. *)
(***************************************************************************)
EXTENDS Integers, Sequences

VARIABLES committed,  \* the account's sequence in the last block
          pool,       \* its transactions in the mempool, in sequence order
          chain,      \* its transactions in blocks, oldest first
          admitted    \* history: its transactions ever let into the mempool

nodeVars == <<committed, pool, chain, admitted>>

\* The sequence Simulate and CheckTx ask for.
CheckSeq == committed + Len(pool)

included == {chain[i] : i \in 1..Len(chain)}
OnNode == included \cup {pool[i] : i \in 1..Len(pool)}

NodeInit(firstSeqs) ==
    /\ committed \in firstSeqs
    /\ pool = <<>> /\ chain = <<>> /\ admitted = {}

\* CheckTx accepts a transaction signed with CheckSeq.
Admit(tx) ==
    /\ pool' = Append(pool, tx)
    /\ admitted' = admitted \cup {tx}
    /\ UNCHANGED <<committed, chain>>

\* A block takes transactions from the front of the mempool.
DeliverBlock(n) ==
    /\ n \in 1..Len(pool)
    /\ chain' = chain \o SubSeq(pool, 1, n)
    /\ committed' = committed + n
    /\ pool' = SubSeq(pool, n + 1, Len(pool))
    /\ UNCHANGED admitted

\* The mempool loses a transaction (restart, recheck, eviction) and with it
\* every later one of the account, whose sequence no longer fits.
Evict(n) ==
    /\ n \in 0..(Len(pool) - 1)
    /\ pool' = SubSeq(pool, 1, n)
    /\ UNCHANGED <<committed, chain, admitted>>
=============================================================================
