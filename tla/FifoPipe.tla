------------------------------ MODULE FifoPipe ------------------------------
(***************************************************************************)
(* What the queue of chainClient promises: a first-in first-out pipe from  *)
(* QueueBroadcastMsg to submitBatch that hands over chunks of bounded      *)
(* size, can be sealed, and is finished only when it is sealed and empty.  *)
(* BatchQueue implements it.                                               *)
(***************************************************************************)
EXTENDS Integers, Sequences

CONSTANTS Elems,     \* what goes through the pipe
          MaxChunk   \* size limit of a chunk

VARIABLES pending,    \* put and not yet delivered
          delivered,  \* delivered so far
          open,       \* elements may still be put
          finished    \* the consumer has left

vars == <<pending, delivered, open, finished>>

Init ==
    /\ pending = <<>> /\ delivered = <<>>
    /\ open = TRUE /\ finished = FALSE

Put(e) ==
    /\ open
    /\ pending' = Append(pending, e)
    /\ UNCHANGED <<delivered, open, finished>>

\* A chunk leaves the front of the pipe.
Deliver(n) ==
    /\ ~finished
    /\ n <= Len(pending)
    /\ delivered' = delivered \o SubSeq(pending, 1, n)
    /\ pending' = SubSeq(pending, n + 1, Len(pending))
    /\ UNCHANGED <<open, finished>>

Seal ==
    /\ open' = FALSE
    /\ UNCHANGED <<pending, delivered, finished>>

Finish ==
    /\ ~open /\ pending = <<>>
    /\ finished' = TRUE
    /\ UNCHANGED <<pending, delivered, open>>

Next ==
    \/ \E e \in Elems : Put(e)
    \/ \E n \in 1..MaxChunk : Deliver(n)
    \/ Seal
    \/ Finish

SafeSpec == Init /\ [][Next]_vars

\* What is put is delivered, and a sealed pipe is finished.
Spec ==
    /\ SafeSpec
    /\ WF_vars(\E n \in 1..MaxChunk : Deliver(n))
    /\ WF_vars(Finish)
=============================================================================
