---------------------------- MODULE ChainClient -----------------------------
(***************************************************************************)
(* The whole signing client: the queue of BatchQueue, whose goroutine      *)
(* submits every batch as a transaction under the nonce rules of           *)
(* NonceClient, next to goroutines that broadcast on their own and compete *)
(* for the mutex and the account sequence.                                 *)
(***************************************************************************)
EXTENDS BatchQueue, NonceClient

CONSTANTS Batcher,       \* the goroutine runBatchBroadcast, one of Threads
          MaxCallerCalls \* bound: calls of each of the others

\* MaxCalls bounds the batches too; it is chosen not to hold Batcher back.
ASSUME BatcherAssumption == Batcher \in Threads /\ "batch" \in Ops

\* The goroutines that broadcast themselves, and what they call.
Callers   == Threads \ {Batcher}
CallerOps == Ops \ {"batch"}

VARIABLE payload   \* history: the messages in the transaction of each batch

vars == <<queueVars, nonceVars, payload>>

Init == QueueInit /\ NonceInit /\ payload = <<>> /\ canSign

-----------------------------------------------------------------------------
\* Senders, Close, BroadcastDone and the timer do not touch the account.
QueueUser ==
    /\ \/ \E s \in Senders : \/ QueueRefused(s) \/ SenderStep(s)
                             \/ \E n \in 0..MaxMsgs : QueueEnter(s, n)
       \/ \E c \in Closers : CloseSwap(c) \/ CloserStep(c)
       \/ \E w \in Waiters : BroadcastDoneCall(w) \/ BroadcastDoneReturn(w)
       \/ TimerFire
    /\ UNCHANGED <<nonceVars, payload>>

\* A batch that is due starts submitBatch.
StartsSubmit ==
    IF bpc' \in {"submit", "last"}
    THEN Call(Batcher, "batch") /\ payload' = Append(payload, <<>>)
    ELSE UNCHANGED <<nonceVars, payload>>

\* The two cases of the select.
BatcherReceives == (BatchReceive \/ BatchClosed) /\ StartsSubmit
BatcherExpires  == BatchExpire /\ StartsSubmit

\* submitBatch in broadcastTx. The messages are read from the slice when the
\* transaction is built.
BatcherBroadcasts ==
    /\ Lock(Batcher) \/ Transact(Batcher) \/ Fail(Batcher)
    /\ payload' = IF pc[Batcher] = "broadcast"
                  THEN [payload EXCEPT ![call[Batcher]] = toSubmit] ELSE payload
    /\ UNCHANGED queueVars

Answered == pc[Batcher] = "result" /\ ~Retries(Batcher)

BatcherAnswered ==
    /\ Answered /\ res[Batcher] \in {"ok", "rejected"}
    /\ SubmitOk /\ UNCHANGED <<nonceVars, payload>>

\* The token is sent before the deferred unlock.
BatcherSignals ==
    /\ SubmitSignal /\ ReturnLocked(Batcher) /\ UNCHANGED payload

BatcherGivesUp ==
    /\ Answered /\ res[Batcher] \notin {"ok", "rejected"}
    /\ SubmitErr /\ ReturnLocked(Batcher) /\ UNCHANGED payload

BatcherExits == BatchExit /\ UNCHANGED <<nonceVars, payload>>

\* A goroutine that calls a broadcasting method itself.
Caller(t) ==
    /\ Step(t) \/ (call[t] < MaxCallerCalls /\ \E o \in CallerOps : Call(t, o))
    /\ UNCHANGED <<queueVars, payload>>

Environment ==
    /\ Block \/ PoolLoss \/ ForeignTx
    /\ UNCHANGED <<queueVars, payload>>

BatcherSubmits == BatcherBroadcasts \/ BatcherAnswered \/ BatcherSignals \/ BatcherGivesUp

Next ==
    \/ QueueUser
    \/ BatcherReceives \/ BatcherExpires \/ BatcherSubmits \/ BatcherExits
    \/ \E t \in Callers : Caller(t)
    \/ Environment

\* As in the two components.
Fairness ==
    /\ \A s \in Senders : WF_vars(SenderStep(s) /\ UNCHANGED <<nonceVars, payload>>)
    /\ \A c \in Closers : WF_vars(CloserStep(c) /\ UNCHANGED <<nonceVars, payload>>)
    /\ WF_vars(TimerFire /\ UNCHANGED <<nonceVars, payload>>)
    /\ WF_vars(BatcherReceives) /\ WF_vars(BatcherExpires)
    /\ WF_vars(BatcherSubmits \/ BatcherExits)
    /\ SF_vars(BatcherBroadcasts /\ pc[Batcher] = "lock")
    /\ \A t \in Callers : /\ SF_vars(Caller(t) /\ pc[t] = "lock")
                          /\ WF_vars(Caller(t) /\ pc[t] # "idle")
    /\ WF_vars(Block /\ UNCHANGED <<queueVars, payload>>)

Spec == Init /\ [][Next]_vars /\ Fairness

-----------------------------------------------------------------------------
(* Properties *)

InBlock(m) ==
    \E x \in included : x[1] = Batcher /\
        \E i \in 1..Len(payload[x[2]]) : payload[x[2]][i] = m

BatchTxs == {x \in admitted : x[1] = Batcher}

\* m is in s, and n is in s after it.
InOrder(s, m, n) == \E a, b \in 1..Len(s) : a < b /\ s[a] = m /\ s[b] = n

\* No message gets to the node in two transactions: not by the retry, not by
\* the reuse of the batch array, not after a timeout or a lost reply.
MessageAtMostOnce ==
    \A x, y \in BatchTxs :
        \A i \in 1..Len(payload[x[2]]), j \in 1..Len(payload[y[2]]) :
            payload[x[2]][i] = payload[y[2]][j] => x = y /\ i = j

\* Messages are in blocks in the order in which the queue accepted them,
\* whatever was lost in between and whatever other goroutines broadcast.
ChainKeepsOrder ==
    \A i, j \in 1..Len(chain) :
        i < j /\ chain[i][1] = Batcher /\ chain[j][1] = Batcher =>
            \A m \in 1..Len(payload[chain[i][2]]), k \in 1..Len(payload[chain[j][2]]) :
                InOrder(accepted, payload[chain[i][2]][m], payload[chain[j][2]][k])

\* As long as nothing has failed, Close returns only after every accepted
\* message is in a block.
CloseSettles ==
    faults = 0 /\ (\E c \in Closers : cpc[c] = "returned") =>
        \A a \in 1..Len(accepted) : InBlock(accepted[a])

\* Inductive strengthening of the three, beside the invariants of the two
\* components: where runBatchBroadcast is and where its transaction is agree;
\* the payloads are in the order in which the batches were handed over, those
\* of earlier batches before the present one; and without a fault every batch
\* that submitBatch is through with is in a block.
Submitting == bpc \in {"submit", "signal", "last", "lastSignal"}

Coupled ==
    /\ canSign /\ bpc # "absent"
    /\ IF Submitting THEN op[Batcher] = "batch" /\ pc[Batcher] # "idle"
                     ELSE pc[Batcher] = "idle"
    /\ bpc \in {"signal", "lastSignal"} =>
           pc[Batcher] = "result" /\ res[Batcher] \in {"ok", "rejected"}
    /\ \A c \in Closers : cpc[c] = "returned" => doneC

\* The batch has been in broadcastTx and nothing went wrong since.
OnItsWay == pc[Batcher] = "await" \/ (pc[Batcher] = "result" /\ res[Batcher] = "ok")

Precedes(k, i, l, j) == k < l \/ (k = l /\ i < j)

Past ==
    \A k \in 1..Len(payload) : (Submitting => k < call[Batcher]) =>
        \A i \in 1..Len(payload[k]) :
            \E a \in 1..(Len(handed) - submitLen) : handed[a] = payload[k][i]

Ordered ==
    \A k, l \in 1..Len(payload) :
        \A i \in 1..Len(payload[k]), j \in 1..Len(payload[l]) :
            Precedes(k, i, l, j) => InOrder(handed, payload[k][i], payload[l][j])

Payloads ==
    /\ payload \in Seq(Seq(Msgs)) /\ Len(payload) = call[Batcher]
    /\ submitLen <= Len(handed)
    /\ Submitting => /\ payload[call[Batcher]] \in {<<>>, toSubmit}
                     /\ OnItsWay => payload[call[Batcher]] = toSubmit
    /\ Past /\ Ordered

Settled ==
    faults = 0 => \A a \in 1..(Len(handed) - submitLen) : InBlock(handed[a])

\* Every accepted message gets into a block, unless something fails.
AllIncluded ==
    \A m \in Msgs :
        (\E a \in 1..Len(accepted) : accepted[a] = m) ~> (InBlock(m) \/ faults > 0)

\* Close returns, and every call of a broadcasting method.
EveryoneReturns ==
    /\ \A c \in Closers : (cpc[c] # "idle") ~> (cpc[c] = "returned")
    /\ \A t \in Callers : (pc[t] # "idle") ~> (pc[t] = "idle")
=============================================================================
