------------------------- MODULE ChainClientProofs --------------------------
(***************************************************************************)
(* Proofs about the whole signing client. Its steps are steps of the two   *)
(* components, so their invariants hold here too; on top of them come      *)
(* where the batch goroutine is in both of them at once (Coupled), what    *)
(* the transactions of the batches carry (Payloads) and what is in blocks  *)
(* (Settled).                                                              *)
(***************************************************************************)
EXTENDS ChainClient, BatchQueueProofs, NonceClientProofs

(* The components. *)

LEMMA QueueStep ==
    ASSUME [Next]_vars
    PROVE  [QueueNext]_queueVars
  <1>1. CASE QueueUser
    BY <1>1 DEF QueueUser, QueueNext
  <1>2. CASE BatcherReceives \/ BatcherExpires \/ BatcherExits
    BY <1>2 DEF BatcherReceives, BatcherExpires, BatcherExits, QueueNext, BatcherStep
  <1>3. CASE BatcherSubmits
    BY <1>3 DEF BatcherSubmits, BatcherBroadcasts, BatcherAnswered, BatcherSignals,
                BatcherGivesUp, QueueNext, BatcherStep, SubmitStep
  <1>4. CASE (\E t \in Callers : Caller(t)) \/ Environment
    BY <1>4 DEF Caller, Environment
  <1>5. CASE UNCHANGED vars
    BY <1>5 DEF vars
  <1> QED
    BY <1>1, <1>2, <1>3, <1>4, <1>5 DEF Next

LEMMA NonceStep ==
    ASSUME [Next]_vars
    PROVE  [NonceNext]_nonceVars
  <1>1. CASE QueueUser
    BY <1>1 DEF QueueUser
  <1>2. CASE BatcherReceives \/ BatcherExpires
    <2>1. StartsSubmit
      BY <1>2 DEF BatcherReceives, BatcherExpires
    <2> QED
      BY <2>1, BatcherAssumption DEF StartsSubmit, NonceNext
  <1>3. CASE BatcherExits
    BY <1>3 DEF BatcherExits
  <1>4. CASE BatcherSubmits
    BY <1>4, BatcherAssumption
       DEF BatcherSubmits, BatcherBroadcasts, BatcherAnswered, BatcherSignals, BatcherGivesUp,
           NonceNext, Step, Proceed
  <1>5. CASE \E t \in Callers : Caller(t)
    BY <1>5 DEF Caller, Callers, CallerOps, NonceNext
  <1>6. CASE Environment
    BY <1>6 DEF Environment, NonceNext
  <1>7. CASE UNCHANGED vars
    BY <1>7 DEF vars
  <1> QED
    BY <1>1, <1>2, <1>3, <1>4, <1>5, <1>6, <1>7 DEF Next

\* Composing the queue with the nonce protocol adds nothing to what either of
\* them does: every behaviour of the client is a behaviour of both.
THEOREM ClientImplementsComponents ==
    Spec => /\ QueueInit /\ [][QueueNext]_queueVars
            /\ NonceInit /\ [][NonceNext]_nonceVars
  <1>1. [Next]_vars => [QueueNext]_queueVars
    BY QueueStep
  <1>2. [Next]_vars => [NonceNext]_nonceVars
    BY NonceStep
  <1>3. Init => QueueInit /\ NonceInit
    BY DEF Init
  <1> QED
    BY <1>1, <1>2, <1>3, PTL DEF Spec

\* What the proofs below use of the components.
Components ==
    /\ IndInv /\ CallPrefix /\ Progress
    /\ NonceTypeOK /\ SentOnce /\ AnswerIncluded /\ Lined

LEMMA InitComponents == Init => Components
  <1> SUFFICES ASSUME Init PROVE Components
    OBVIOUS
  <1>1. QueueInit /\ NonceInit
    BY DEF Init
  <1>2. CallPrefix /\ Progress
    <2>1. 1..Len(accepted) = {}
      BY <1>1, EmptySeq DEF QueueInit
    <2> QED
      BY <1>1, <2>1 DEF QueueInit, CallPrefix, Progress, Accepted
  <1>3. AnswerIncluded
    BY <1>1 DEF NonceInit, AnswerIncluded
  <1> QED
    BY <1>1, <1>2, <1>3, InitIndInv, InitTypeOK, InitSentOnce, InitLined DEF Components

LEMMA NextComponents == Components /\ [Next]_vars => Components'
  <1> SUFFICES ASSUME Components, [Next]_vars PROVE Components'
    OBVIOUS
  <1>1. [QueueNext]_queueVars /\ [NonceNext]_nonceVars
    BY QueueStep, NonceStep
  <1>2. IndInv' /\ CallPrefix' /\ Progress'
    BY <1>1, NextIndInv, NextKeepsPrefix DEF Components
  <1>3. NonceTypeOK'
    BY <1>1, NextTypeOK DEF Components
  <1>4. SentOnce' /\ AnswerIncluded' /\ Lined'
    BY <1>1, <1>3, NextSentOnce, NextAnswerIncluded, NextLined DEF Components
  <1> QED
    BY <1>2, <1>3, <1>4 DEF Components

-----------------------------------------------------------------------------
(* The batch goroutine in the queue and in the nonce protocol. *)

\* The two cases of the select: a batch of submitLen' messages is handed over,
\* or nothing is.
LEMMA SelectStep ==
    ASSUME IndInv, BatchReceive \/ BatchClosed \/ BatchExpire
    PROVE  /\ bpc = "select" /\ submitLen = 0 /\ UNCHANGED <<canSign, cpc, doneC>>
           /\ \/ /\ bpc' \in {"submit", "last"}
                 /\ \E b \in Seq(Msgs) : handed' = handed \o b /\ Len(b) = submitLen'
              \/ bpc' \in {"select", "exit"} /\ UNCHANGED <<handed, submitLen>>
  <1>1. bpc = "select" /\ submitLen = 0 /\ UNCHANGED <<canSign, cpc, doneC>>
    BY DEF BatchReceive, BatchClosed, BatchExpire, IndInv, Phase, chanVars
  <1>2. msgBatch \in Seq(Msgs) /\ Len(msgBatch) = batchLen
    BY HeldIsSeq DEF IndInv
  <1>3. CASE BatchReceive
    <2>1. Grown \in Seq(Msgs) /\ Len(Grown) = batchLen + 1
      BY <1>3, ReceiveFacts
    <2>2. \/ /\ bpc' = "submit" /\ handed' = handed \o Grown /\ submitLen' = batchLen + 1
          \/ bpc' = bpc /\ UNCHANGED <<handed, submitLen>>
      BY <1>3 DEF BatchReceive, TakeBatch, Grown
    <2> QED
      BY <1>1, <2>1, <2>2
  <1>4. CASE BatchClosed
    <2>1. \/ /\ bpc' = "last" /\ handed' = handed \o msgBatch /\ submitLen' = batchLen
          \/ bpc' = "exit" /\ UNCHANGED <<handed, submitLen>>
      BY <1>4 DEF BatchClosed
    <2> QED
      BY <1>1, <1>2, <2>1
  <1>5. CASE BatchExpire
    <2>1. \/ /\ bpc' = "submit" /\ handed' = handed \o msgBatch /\ submitLen' = batchLen
          \/ bpc' = bpc /\ UNCHANGED <<handed, submitLen>>
      <3>1. CASE batchLen > 0
        <4>1. [i \in 1..batchLen |-> buf'[i]] = msgBatch
          BY <1>5 DEF BatchExpire, msgBatch, Slice
        <4> QED
          BY <1>5, <3>1, <4>1 DEF BatchExpire, TakeBatch
      <3>2. CASE ~(batchLen > 0)
        BY <1>5, <3>2 DEF BatchExpire
      <3> QED
        BY <3>1, <3>2
    <2> QED
      BY <1>1, <1>2, <2>1
  <1> QED
    BY <1>1, <1>3, <1>4, <1>5

\* The kinds of steps of the client, for what it has in both components.
\* A batch starts its way to the node ...
Starts ==
    /\ bpc = "select" /\ bpc' \in {"submit", "last"} /\ submitLen = 0
    /\ Call(Batcher, "batch") /\ payload' = Append(payload, <<>>)
    /\ \E b \in Seq(Msgs) : handed' = handed \o b /\ Len(b) = submitLen'
    /\ UNCHANGED <<canSign, cpc, doneC>>

\* ... is signed and sent ...
Sends ==
    /\ pc[Batcher] = "broadcast" /\ BatcherBroadcasts

\* ... and ends it, with the token or with the error logged.
Ends ==
    /\ Submitting /\ bpc' \in {"select", "exit"} /\ ReturnLocked(Batcher)
    /\ bpc \in {"submit", "last"} => res[Batcher] \notin {"ok", "rejected"}
    /\ submitLen' = 0 /\ UNCHANGED <<canSign, cpc, doneC, handed, payload>>

\* Whatever else happens leaves the batches alone.
Aside ==
    /\ UNCHANGED <<canSign, handed, submitLen, payload>>
    /\ call'[Batcher] = call[Batcher] /\ op'[Batcher] = op[Batcher]
    /\ Submitting' = Submitting /\ (Submitting' => buf' = buf)
    /\ pc'[Batcher] = "idle" <=> pc[Batcher] = "idle"
    /\ OnItsWay' => OnItsWay
    /\ bpc' # "absent"
    /\ bpc' \in {"signal", "lastSignal"} =>
           pc'[Batcher] = "result" /\ res'[Batcher] \in {"ok", "rejected"}
    /\ \A c \in Closers : cpc'[c] = "returned" => doneC'

\* The batch goroutine between Lock and its answer.
LEMMA BroadcastStep ==
    ASSUME NonceTypeOK, Lock(Batcher) \/ Transact(Batcher) \/ Fail(Batcher)
    PROVE  /\ call'[Batcher] = call[Batcher] /\ op'[Batcher] = op[Batcher]
           /\ pc[Batcher] # "idle" /\ pc'[Batcher] # "idle"
           /\ pc[Batcher] = "result" => res[Batcher] = "mismatch"
           /\ op[Batcher] = "batch" /\ pc[Batcher] # "broadcast" /\ OnItsWay' => OnItsWay
  <1> USE BatcherAssumption DEF NonceTypeOK, OnItsWay, Goto, End
  <1>1. CASE Lock(Batcher)
    BY <1>1 DEF Lock
  <1>2. CASE SetSequence(Batcher)
    BY <1>2 DEF SetSequence
  <1>3. CASE ReadFactory(Batcher)
    BY <1>3 DEF ReadFactory
  <1>4. CASE PrepareFactory(Batcher)
    BY <1>4 DEF PrepareFactory, AfterPrepare
  <1>5. CASE SimulateOk(Batcher)
    BY <1>5 DEF SimulateOk
  <1>6. CASE SimulateMismatch(Batcher)
    BY <1>6 DEF SimulateMismatch
  <1>7. CASE BroadcastAccepted(Batcher)
    BY <1>7 DEF BroadcastAccepted
  <1>8. CASE BroadcastRejected(Batcher) \/ BroadcastFails(Batcher)
             \/ BroadcastLost(Batcher) \/ BroadcastRefused(Batcher)
    BY <1>8 DEF BroadcastRejected, BroadcastFails, BroadcastLost, BroadcastRefused
  <1>9. CASE AwaitIncluded(Batcher)
    BY <1>9 DEF AwaitIncluded
  <1>10. CASE AwaitTimeout(Batcher)
    BY <1>10 DEF AwaitTimeout
  <1>11. CASE SyncNonce(Batcher) \/ SyncNonceFails(Batcher)
    BY <1>11 DEF SyncNonce, SyncNonceFails, Again, Retries
  <1>12. CASE PrepareFails(Batcher) \/ SimulateFails(Batcher)
    BY <1>12 DEF PrepareFails, SimulateFails
  <1> QED
    BY <1>1, <1>2, <1>3, <1>4, <1>5, <1>6, <1>7, <1>8, <1>9, <1>10, <1>11, <1>12
       DEF Transact, Fail

\* A goroutine other than the batch goroutine, and the chain.
LEMMA AsideNonce ==
    ASSUME NonceTypeOK, (\E t \in Callers : Caller(t)) \/ Environment
    PROVE  /\ call'[Batcher] = call[Batcher] /\ op'[Batcher] = op[Batcher]
           /\ pc'[Batcher] = pc[Batcher] /\ res'[Batcher] = res[Batcher]
           /\ UNCHANGED <<queueVars, payload>>
  <1>1. ASSUME NEW t \in Callers, Caller(t)
        PROVE  /\ call'[Batcher] = call[Batcher] /\ op'[Batcher] = op[Batcher]
               /\ pc'[Batcher] = pc[Batcher] /\ res'[Batcher] = res[Batcher]
               /\ UNCHANGED <<queueVars, payload>>
    <2>1. t \in Threads /\ Batcher \in Threads \ {t}
      BY BatcherAssumption DEF Callers
    <2>2. \/ Quiet(t) \/ BroadcastAccepted(t) \/ BroadcastLost(t)
          \/ \E o \in Ops : Call(t, o)
      BY <1>1 DEF Caller, CallerOps, Step, Proceed, Transact, Fail, Quiet
    <2> QED
      BY <1>1, <2>1, <2>2, OthersUntouched DEF Caller
  <1>2. CASE Environment
    BY <1>2 DEF Environment, Block, PoolLoss, ForeignTx, threadVars
  <1> QED
    BY <1>1, <1>2

LEMMA AsideQueue ==
    ASSUME IndInv, Coupled, QueueUser
    PROVE  /\ UNCHANGED <<canSign, handed, submitLen, buf, bpc>> /\ UNCHANGED <<nonceVars, payload>>
           /\ \A c \in Closers : cpc'[c] = "returned" => doneC'
  <1> USE DEF chanVars, senderVars, waitVars, batchVars, IndInv, QueueTypeOK, Coupled
  <1>1. UNCHANGED <<nonceVars, payload>>
    BY DEF QueueUser
  <1>2. ASSUME NEW s \in Senders, \/ QueueRefused(s) \/ SenderStep(s)
                                  \/ \E n \in 0..MaxMsgs : QueueEnter(s, n)
        PROVE  UNCHANGED <<canSign, handed, submitLen, buf, bpc, cpc, doneC>>
    BY <1>2 DEF QueueRefused, SenderStep, QueueEnter, QueueSend, QueuePanic, QueueTimeout,
                QueueReturn
  <1>3. ASSUME NEW c \in Closers, CloseSwap(c) \/ CloserStep(c)
        PROVE  /\ UNCHANGED <<canSign, handed, submitLen, buf, bpc, doneC>>
               /\ \A d \in Closers : cpc'[d] = "returned" => doneC'
    BY <1>3 DEF CloseSwap, CloserStep, CloseChannel, CloseReturn
  <1>4. ASSUME NEW w \in Waiters, BroadcastDoneCall(w) \/ BroadcastDoneReturn(w)
        PROVE  UNCHANGED <<canSign, handed, submitLen, buf, bpc, cpc, doneC>>
    BY <1>4 DEF BroadcastDoneCall, BroadcastDoneReturn
  <1>5. CASE TimerFire
    BY <1>1, <1>5 DEF TimerFire
  <1> QED
    BY <1>1, <1>2, <1>3, <1>4, <1>5 DEF QueueUser

LEMMA ClientKinds ==
    ASSUME Components, Coupled, [Next]_vars
    PROVE  Starts \/ Sends \/ Ends \/ Aside
  <1> USE DEF Components
  <1>1. CASE QueueUser
    <2>1. /\ UNCHANGED <<canSign, handed, submitLen, buf, bpc>>
          /\ UNCHANGED <<pc, op, call, res, payload>>
          /\ \A c \in Closers : cpc'[c] = "returned" => doneC'
      BY <1>1, AsideQueue DEF nonceVars, threadVars
    <2> QED
      BY <2>1 DEF Aside, Coupled, Submitting, OnItsWay
  <1>2. CASE BatcherReceives \/ BatcherExpires
    <2>1. /\ bpc = "select" /\ submitLen = 0 /\ UNCHANGED <<canSign, cpc, doneC>>
          /\ \/ /\ bpc' \in {"submit", "last"}
                /\ \E b \in Seq(Msgs) : handed' = handed \o b /\ Len(b) = submitLen'
             \/ bpc' \in {"select", "exit"} /\ UNCHANGED <<handed, submitLen>>
      BY <1>2, SelectStep DEF BatcherReceives, BatcherExpires
    <2>2. StartsSubmit
      BY <1>2 DEF BatcherReceives, BatcherExpires
    <2>3. CASE bpc' \in {"submit", "last"}
      <3>1. \E b \in Seq(Msgs) : handed' = handed \o b /\ Len(b) = submitLen'
        BY <2>1, <2>3
      <3>2. Call(Batcher, "batch") /\ payload' = Append(payload, <<>>)
        BY <2>2, <2>3 DEF StartsSubmit
      <3> QED
        BY <2>1, <2>3, <3>1, <3>2 DEF Starts
    <2>4. CASE bpc' \in {"select", "exit"}
      <3>1. UNCHANGED <<handed, submitLen>>
        BY <2>1, <2>4
      <3>2. UNCHANGED <<pc, op, call, res, payload>>
        BY <2>2, <2>4 DEF StartsSubmit, nonceVars, threadVars
      <3> QED
        BY <2>1, <2>4, <3>1, <3>2 DEF Aside, Coupled, Submitting, OnItsWay
    <2> QED
      BY <2>1, <2>3, <2>4
  <1>3. CASE BatcherBroadcasts
    <2>1. /\ call'[Batcher] = call[Batcher] /\ op'[Batcher] = op[Batcher]
          /\ pc[Batcher] # "idle" /\ pc'[Batcher] # "idle"
          /\ pc[Batcher] = "result" => res[Batcher] = "mismatch"
          /\ op[Batcher] = "batch" /\ pc[Batcher] # "broadcast" /\ OnItsWay' => OnItsWay
      BY <1>3, BroadcastStep DEF BatcherBroadcasts
    <2>2. UNCHANGED <<canSign, handed, submitLen, buf, bpc, cpc, doneC>>
      BY <1>3 DEF BatcherBroadcasts, queueVars, chanVars, batchVars
    <2>3. CASE pc[Batcher] # "broadcast"
      <3>1. payload' = payload
        BY <1>3, <2>3 DEF BatcherBroadcasts
      <3>2. op[Batcher] = "batch" /\ bpc \notin {"signal", "lastSignal"}
        BY <2>1 DEF Coupled, Submitting
      <3>3. OnItsWay' => OnItsWay
        BY <2>1, <2>3, <3>2
      <3> HIDE DEF OnItsWay
      <3> QED
        BY <2>1, <2>2, <3>1, <3>2, <3>3 DEF Aside, Coupled, Submitting
    <2> QED
      BY <1>3, <2>3 DEF Sends
  <1>4. CASE BatcherAnswered
    <2>1. /\ UNCHANGED <<canSign, handed, submitLen, buf, cpc, doneC>>
          /\ bpc \in {"submit", "last"} /\ bpc' \in {"signal", "lastSignal"}
      BY <1>4 DEF BatcherAnswered, SubmitOk, chanVars
    <2>2. UNCHANGED <<pc, op, call, res, payload>>
      BY <1>4 DEF BatcherAnswered, nonceVars, threadVars
    <2>3. pc[Batcher] = "result" /\ res[Batcher] \in {"ok", "rejected"}
      BY <1>4 DEF BatcherAnswered, Answered
    <2> QED
      BY <2>1, <2>2, <2>3 DEF Aside, Coupled, Submitting, OnItsWay
  <1>5. CASE BatcherSignals
    BY <1>5 DEF BatcherSignals, SubmitSignal, Ends, Submitting
  <1>6. CASE BatcherGivesUp
    BY <1>6 DEF BatcherGivesUp, SubmitErr, chanVars, Ends, Submitting
  <1>7. CASE BatcherExits
    <2>1. /\ UNCHANGED <<canSign, handed, submitLen, buf, cpc>>
          /\ bpc = "exit" /\ bpc' = "stopped" /\ doneC'
      BY <1>7 DEF BatcherExits, BatchExit
    <2>2. UNCHANGED <<pc, op, call, res, payload>>
      BY <1>7 DEF BatcherExits, nonceVars, threadVars
    <2> QED
      BY <2>1, <2>2 DEF Aside, Coupled, Submitting, OnItsWay
  <1>8. CASE (\E t \in Callers : Caller(t)) \/ Environment
    <2>1. /\ call'[Batcher] = call[Batcher] /\ op'[Batcher] = op[Batcher]
          /\ pc'[Batcher] = pc[Batcher] /\ res'[Batcher] = res[Batcher]
          /\ UNCHANGED <<queueVars, payload>>
      BY <1>8, AsideNonce
    <2>2. UNCHANGED <<canSign, handed, submitLen, buf, bpc, cpc, doneC, payload>>
      BY <2>1 DEF queueVars, chanVars, batchVars
    <2> QED
      BY <2>1, <2>2 DEF Aside, Coupled, Submitting, OnItsWay
  <1>9. CASE UNCHANGED vars
    <2>1. /\ UNCHANGED <<canSign, handed, submitLen, buf, bpc, cpc, doneC, payload>>
          /\ UNCHANGED <<pc, op, call, res>>
      BY <1>9 DEF vars, queueVars, chanVars, batchVars, nonceVars, threadVars
    <2> QED
      BY <2>1 DEF Aside, Coupled, Submitting, OnItsWay
  <1> QED
    BY <1>1, <1>2, <1>3, <1>4, <1>5, <1>6, <1>7, <1>8, <1>9 DEF Next, BatcherSubmits

LEMMA InitCoupled == Init => Coupled
  BY BatcherAssumption DEF Init, QueueInit, NonceInit, Coupled, Submitting

LEMMA NextCoupled ==
    ASSUME Components, Coupled, [Next]_vars
    PROVE  Coupled'
  <1>1. CASE Starts
    <2>1. pc'[Batcher] = "lock" /\ op'[Batcher] = "batch"
      BY <1>1, BatcherAssumption
         DEF Starts, Call, Goto, FirstStep, LockedOps, SignedOps, Components, NonceTypeOK
    <2> QED
      BY <1>1, <2>1 DEF Starts, Coupled, Submitting
  <1>2. CASE Sends
    <2>1. /\ op'[Batcher] = op[Batcher]
          /\ pc[Batcher] # "idle" /\ pc'[Batcher] # "idle" /\ pc[Batcher] # "result"
      BY <1>2, BroadcastStep DEF Sends, BatcherBroadcasts, Components
    <2>2. UNCHANGED <<canSign, bpc, cpc, doneC>>
      BY <1>2 DEF Sends, BatcherBroadcasts, queueVars, chanVars, batchVars
    <2> QED
      BY <2>1, <2>2 DEF Coupled, Submitting
  <1>3. CASE Ends
    <2>1. pc'[Batcher] = "idle"
      BY <1>3, BatcherAssumption DEF Ends, ReturnLocked, Goto, Components, NonceTypeOK
    <2> QED
      BY <1>3, <2>1 DEF Ends, Coupled, Submitting
  <1>4. CASE Aside
    BY <1>4 DEF Aside, Coupled
  <1> QED
    BY <1>1, <1>2, <1>3, <1>4, ClientKinds

-----------------------------------------------------------------------------
(* What the transactions of the batches carry. *)

\* The batch in submitBatch is the end of what was handed over.
LEMMA ToSubmit ==
    ASSUME IndInv, submitLen <= Len(handed)
    PROVE  /\ toSubmit \in Seq(Msgs) /\ Len(toSubmit) = submitLen
           /\ submitLen \in Nat /\ Len(handed) \in Nat
           /\ \A i \in 1..submitLen : toSubmit[i] = handed[(Len(handed) - submitLen) + i]
  <1> DEFINE n == Len(handed) - submitLen
  <1>1. submitLen \in Nat /\ handed \in Seq(Msgs) /\ Len(handed) \in Nat /\ n \in Nat
    <2>1. submitLen \in Nat /\ handed \in Seq(Msgs)
      BY LimitAssumption DEF IndInv, QueueTypeOK
    <2> QED
      BY <2>1, LenProperties
  <1>2. CASE submitLen = 0
    <2>1. toSubmit = <<>>
      BY <1>2 DEF toSubmit, Slice
    <2> QED
      BY <1>1, <1>2, <2>1, EmptySeq
  <1>3. CASE submitLen > 0
    <2>1. toSubmit = SubSeq(handed, n + 1, Len(handed))
      BY <1>1, <1>3 DEF IndInv, SubmissionIntact
    <2>2. \A i \in 1..Len(handed) : handed[i] \in Msgs
      BY <1>1, ElementOfSeq
    <2>3. n + 1 \in 1..Len(handed) /\ Len(handed) - (n + 1) + 1 = submitLen
      BY <1>1, <1>3
    <2> HIDE DEF n
    <2>4. /\ SubSeq(handed, n + 1, Len(handed)) \in Seq(Msgs)
          /\ Len(SubSeq(handed, n + 1, Len(handed))) = submitLen
          /\ \A i \in 1..submitLen : SubSeq(handed, n + 1, Len(handed))[i] = handed[(n + 1) + i - 1]
      BY <1>1, <2>2, <2>3, SubSeqProperties
    <2>5. \A i \in 1..submitLen : (n + 1) + i - 1 = n + i
      BY <1>1
    <2> HIDE DEF toSubmit
    <2>6. \A i \in 1..submitLen : toSubmit[i] = handed[n + i]
      BY <2>1, <2>4, <2>5
    <2> QED
      BY <1>1, <2>1, <2>4, <2>6 DEF n
  <1> QED
    BY <1>1, <1>2, <1>3

LEMMA AsidePayloads ==
    ASSUME Payloads, Aside
    PROVE  Payloads'
  <1>1. /\ UNCHANGED <<handed, submitLen, payload>> /\ call'[Batcher] = call[Batcher]
        /\ Submitting' = Submitting /\ (OnItsWay' => OnItsWay)
        /\ Submitting' => toSubmit' = toSubmit
    BY DEF Aside, toSubmit, Slice
  <1>2. Past'
    BY <1>1 DEF Payloads, Past
  <1>3. Ordered'
    BY <1>1 DEF Payloads, Ordered, Precedes
  <1> QED
    BY <1>1, <1>2, <1>3 DEF Payloads

LEMMA StartsPayloads ==
    ASSUME Components, Payloads, Starts
    PROVE  Payloads'
  <1>1. PICK b \in Seq(Msgs) : handed' = handed \o b /\ Len(b) = submitLen'
    BY DEF Starts
  <1>2. /\ payload \in Seq(Seq(Msgs)) /\ handed \in Seq(Msgs) /\ submitLen = 0
        /\ Len(payload) = call[Batcher] /\ Len(payload) \in Nat /\ Len(handed) \in Nat
        /\ Len(b) \in Nat
    BY LenProperties DEF Starts, Payloads, Components, IndInv, QueueTypeOK
  <1>3. /\ Len(handed') = Len(handed) + Len(b)
        /\ \A a \in 1..Len(handed) : a \in 1..Len(handed') /\ handed'[a] = handed[a]
    <2>1. /\ Len(handed \o b) = Len(handed) + Len(b)
          /\ \A a \in 1..(Len(handed) + Len(b)) : (handed \o b)[a] =
                 IF a <= Len(handed) THEN handed[a] ELSE b[a - Len(handed)]
      BY <1>2, ConcatProperties
    <2> QED
      BY <1>1, <1>2, <2>1
  <1>4. /\ payload' \in Seq(Seq(Msgs)) /\ Len(payload') = Len(payload) + 1
        /\ payload'[Len(payload) + 1] = <<>>
        /\ \A k \in 1..Len(payload) : payload'[k] = payload[k]
    <2>1. payload' = Append(payload, <<>>) /\ <<>> \in Seq(Msgs)
      BY EmptySeq DEF Starts
    <2> QED
      BY <1>2, <2>1, AppendProperties
  <1>5. call'[Batcher] = call[Batcher] + 1 /\ pc'[Batcher] = "lock"
    BY BatcherAssumption
       DEF Starts, Call, Goto, FirstStep, LockedOps, SignedOps, Components, NonceTypeOK
  <1>6. ~Submitting /\ Submitting'
    BY DEF Starts, Submitting
  <1>7. Len(handed') - submitLen' = Len(handed) /\ submitLen' <= Len(handed')
    BY <1>1, <1>2, <1>3
  <1>8. ASSUME NEW k \in 1..Len(payload'), NEW i \in 1..Len(payload'[k])
        PROVE  k \in 1..Len(payload) /\ payload'[k] = payload[k]
    <2>1. k # Len(payload) + 1
      BY <1>4, EmptySeq
    <2>2. k \in 1..(Len(payload) + 1) /\ Len(payload) \in Nat
      BY <1>2, <1>4
    <2>3. k \in 1..Len(payload)
      BY <2>1, <2>2
    <2> QED
      BY <1>4, <2>3
  <1>9. Past'
    <2> SUFFICES ASSUME NEW k \in 1..Len(payload'), NEW i \in 1..Len(payload'[k])
                 PROVE  \E a \in 1..Len(handed) : handed'[a] = payload'[k][i]
      BY <1>7 DEF Past
    <2>1. k \in 1..Len(payload) /\ payload'[k] = payload[k]
      BY <1>8
    <2>2. PICK a \in 1..(Len(handed) - submitLen) : handed[a] = payload[k][i]
      BY <1>6, <2>1 DEF Payloads, Past
    <2>3. a \in 1..Len(handed)
      BY <1>2
    <2> QED
      BY <1>3, <2>1, <2>2, <2>3
  <1>10. Ordered'
    <2> SUFFICES ASSUME NEW k \in 1..Len(payload'), NEW l \in 1..Len(payload'),
                        NEW i \in 1..Len(payload'[k]), NEW j \in 1..Len(payload'[l]),
                        Precedes(k, i, l, j)
                 PROVE  InOrder(handed', payload'[k][i], payload'[l][j])
      BY DEF Ordered, Precedes
    <2>1. /\ k \in 1..Len(payload) /\ payload'[k] = payload[k]
          /\ l \in 1..Len(payload) /\ payload'[l] = payload[l]
      BY <1>8
    <2>2. InOrder(handed, payload[k][i], payload[l][j])
      BY <2>1 DEF Payloads, Ordered
    <2> QED
      BY <1>3, <2>1, <2>2 DEF InOrder
  <1>11. payload'[call'[Batcher]] = <<>> /\ ~OnItsWay'
    BY <1>2, <1>4, <1>5 DEF OnItsWay
  <1>12. Len(payload') = call'[Batcher]
    BY <1>2, <1>4, <1>5
  <1> QED
    BY <1>4, <1>7, <1>9, <1>10, <1>11, <1>12 DEF Payloads

\* In broadcast the batch goroutine has a batch, whose transaction it builds.
LEMMA SendsFacts ==
    ASSUME Components, Coupled, Payloads, Sends
    PROVE  /\ Submitting /\ Submitting' /\ UNCHANGED <<handed, submitLen, buf>>
           /\ call'[Batcher] = call[Batcher] /\ call[Batcher] \in 1..Len(payload)
           /\ payload' = [payload EXCEPT ![call[Batcher]] = toSubmit]
           /\ toSubmit' = toSubmit
           /\ payload' \in Seq(Seq(Msgs)) /\ Len(payload') = Len(payload) /\ Len(payload) \in Nat
           /\ payload'[call[Batcher]] = toSubmit
           /\ \A k \in 1..Len(payload) : k # call[Batcher] => payload'[k] = payload[k]
  <1>1. UNCHANGED <<handed, submitLen, buf, bpc>>
    BY DEF Sends, BatcherBroadcasts, queueVars, batchVars
  <1>2. toSubmit' = toSubmit
    BY <1>1 DEF toSubmit, Slice
  <1>3. pc[Batcher] = "broadcast" /\ payload' = [payload EXCEPT ![call[Batcher]] = toSubmit]
    BY DEF Sends, BatcherBroadcasts
  <1>4. Submitting /\ Submitting'
    BY <1>1, <1>3 DEF Coupled, Submitting
  <1>5. call'[Batcher] = call[Batcher]
    BY BroadcastStep DEF Sends, BatcherBroadcasts, Components
  <1>6. call[Batcher] \in 1..Len(payload) /\ Len(payload) \in Nat
    <2>1. call[Batcher] > 0
      BY <1>3, BatcherAssumption DEF Components, Lined
    <2>2. call[Batcher] \in Nat /\ Len(payload) = call[Batcher]
      BY BatcherAssumption, CallsAssumption DEF Components, NonceTypeOK, Payloads
    <2> QED
      BY <2>1, <2>2
  <1>7. toSubmit \in Seq(Msgs) /\ payload \in Seq(Seq(Msgs))
    BY ToSubmit DEF Components, Payloads
  <1> HIDE DEF toSubmit
  <1>8. /\ payload' \in Seq(Seq(Msgs)) /\ Len(payload') = Len(payload)
        /\ payload'[call[Batcher]] = toSubmit
        /\ \A k \in 1..Len(payload) : k # call[Batcher] => payload'[k] = payload[k]
    BY <1>3, <1>6, <1>7, ExceptSeq
  <1> QED
    BY <1>1, <1>2, <1>3, <1>4, <1>5, <1>6, <1>8

LEMMA SendsPayloads ==
    ASSUME Components, Coupled, Payloads, Sends
    PROVE  Payloads'
  <1> DEFINE K == call[Batcher]
             n == Len(handed) - submitLen
  <1>1. /\ Submitting /\ Submitting' /\ UNCHANGED <<handed, submitLen>>
        /\ call'[Batcher] = K /\ K \in 1..Len(payload)
        /\ toSubmit' = toSubmit
        /\ payload' \in Seq(Seq(Msgs)) /\ Len(payload') = Len(payload) /\ Len(payload) \in Nat
        /\ payload'[K] = toSubmit
        /\ \A k \in 1..Len(payload) : k # K => payload'[k] = payload[k]
    BY SendsFacts
  <1>2. /\ Len(payload) = K /\ submitLen <= Len(handed) /\ Past /\ Ordered
        /\ toSubmit \in Seq(Msgs) /\ Len(toSubmit) = submitLen
        /\ submitLen \in Nat /\ Len(handed) \in Nat /\ n \in Nat
        /\ \A i \in 1..submitLen : toSubmit[i] = handed[n + i]
    <2>1. Len(payload) = K /\ submitLen <= Len(handed) /\ Past /\ Ordered
      BY DEF Payloads
    <2>2. /\ toSubmit \in Seq(Msgs) /\ Len(toSubmit) = submitLen
          /\ submitLen \in Nat /\ Len(handed) \in Nat
          /\ \A i \in 1..submitLen : toSubmit[i] = handed[n + i]
      BY <2>1, ToSubmit DEF Components
    <2>3. n \in Nat
      BY <2>1, <2>2
    <2> QED
      BY <2>1, <2>2, <2>3
  <1>3. Past'
    <2> SUFFICES ASSUME NEW k \in 1..Len(payload), k < K, NEW i \in 1..Len(payload'[k])
                 PROVE  \E a \in 1..n : handed[a] = payload'[k][i]
      BY <1>1 DEF Past
    <2>1. payload'[k] = payload[k]
      BY <1>1
    <2> QED
      BY <1>2, <2>1 DEF Past
  <1>4. Ordered'
    <2> SUFFICES ASSUME NEW k \in 1..Len(payload), NEW l \in 1..Len(payload),
                        NEW i \in 1..Len(payload'[k]), NEW j \in 1..Len(payload'[l]),
                        Precedes(k, i, l, j)
                 PROVE  InOrder(handed, payload'[k][i], payload'[l][j])
      BY <1>1 DEF Ordered, Precedes
    <2>1. CASE l # K
      <3>1. k # K
        BY <1>2, <2>1 DEF Precedes
      <3>2. payload'[k] = payload[k] /\ payload'[l] = payload[l]
        BY <1>1, <2>1, <3>1
      <3> QED
        BY <1>2, <3>2 DEF Ordered
    <2>2. CASE l = K
      <3>1. j \in 1..submitLen /\ payload'[l][j] = handed[n + j] /\ n + j \in 1..Len(handed)
        <4>1. j \in 1..submitLen /\ payload'[l] = toSubmit
          BY <1>1, <1>2, <2>2
        <4>2. toSubmit[j] = handed[n + j]
          BY <1>2, <4>1
        <4>3. n + j \in 1..Len(handed)
          BY <1>2, <4>1
        <4> QED
          BY <4>1, <4>2, <4>3
      <3>2. CASE k = K
        <4>1. i \in 1..submitLen /\ payload'[k] = toSubmit
          BY <1>1, <1>2, <3>2
        <4>2. toSubmit[i] = handed[n + i]
          BY <1>2, <4>1
        <4>3. n + i \in 1..Len(handed) /\ n + i < n + j
          BY <1>2, <2>2, <3>1, <3>2, <4>1 DEF Precedes
        <4> QED
          BY <3>1, <4>1, <4>2, <4>3 DEF InOrder
      <3>3. CASE k # K
        <4>1. payload'[k] = payload[k] /\ k < K
          BY <1>1, <1>2, <3>3
        <4>2. PICK a \in 1..n : handed[a] = payload[k][i]
          BY <1>2, <4>1 DEF Past
        <4>3. a \in 1..Len(handed) /\ a < n + j
          <5>1. /\ n \in Nat /\ submitLen \in Nat /\ Len(handed) = n + submitLen
                /\ j \in 1..submitLen
            BY <1>2, <3>1
          <5> HIDE DEF n
          <5> QED
            BY <5>1
        <4> QED
          BY <3>1, <4>1, <4>2, <4>3 DEF InOrder
      <3> QED
        BY <3>2, <3>3
    <2> QED
      BY <2>1, <2>2
  <1> QED
    BY <1>1, <1>2, <1>3, <1>4 DEF Payloads

LEMMA EndsPayloads ==
    ASSUME Components, Coupled, Payloads, Ends
    PROVE  Payloads'
  <1> DEFINE n == Len(handed) - submitLen
  <1>1. /\ Submitting /\ ~Submitting' /\ submitLen' = 0 /\ UNCHANGED <<handed, payload>>
        /\ call' = call
    BY DEF Ends, Submitting, ReturnLocked
  <1>2. /\ Len(payload) = call[Batcher] /\ submitLen <= Len(handed) /\ Past /\ Ordered
        /\ payload \in Seq(Seq(Msgs)) /\ Len(payload) \in Nat
        /\ payload[call[Batcher]] \in {<<>>, toSubmit}
        /\ toSubmit \in Seq(Msgs) /\ Len(toSubmit) = submitLen
        /\ submitLen \in Nat /\ Len(handed) \in Nat /\ n \in Nat
        /\ \A i \in 1..submitLen : toSubmit[i] = handed[n + i]
    BY <1>1, ToSubmit, LenProperties DEF Payloads, Components
  <1>3. Past'
    <2> SUFFICES ASSUME NEW k \in 1..Len(payload), NEW i \in 1..Len(payload[k])
                 PROVE  \E a \in 1..Len(handed) : handed[a] = payload[k][i]
      BY <1>1, <1>2 DEF Past
    <2>1. CASE k < call[Batcher]
      <3>1. PICK a \in 1..n : handed[a] = payload[k][i]
        BY <1>2, <2>1 DEF Past
      <3>2. a \in 1..Len(handed)
        BY <1>2
      <3> QED
        BY <3>1, <3>2
    <2>2. CASE k = call[Batcher]
      <3>1. payload[k] = toSubmit /\ i \in 1..submitLen
        BY <1>2, <2>2, EmptySeq
      <3>2. n + i \in 1..Len(handed)
        BY <1>2, <3>1
      <3> QED
        BY <1>2, <3>1, <3>2
    <2> QED
      BY <1>2, <2>1, <2>2
  <1>4. Ordered'
    <2>1. Ordered
      BY <1>2
    <2> QED
      BY <1>1, <2>1 DEF Ordered, Precedes
  <1> QED
    BY <1>1, <1>2, <1>3, <1>4 DEF Payloads

LEMMA InitPayloads == Init => Payloads
  <1> SUFFICES ASSUME Init PROVE Payloads
    OBVIOUS
  <1>1. /\ payload = <<>> /\ handed = <<>> /\ submitLen = 0 /\ call[Batcher] = 0
        /\ ~Submitting
    BY BatcherAssumption DEF Init, QueueInit, NonceInit, Submitting
  <1>2. payload \in Seq(Seq(Msgs)) /\ Len(payload) = 0 /\ Len(handed) = 0
    BY <1>1, EmptySeq
  <1> QED
    BY <1>1, <1>2 DEF Payloads, Past, Ordered

LEMMA NextPayloads ==
    Components /\ Coupled /\ Payloads /\ [Next]_vars => Coupled' /\ Payloads'
  BY ClientKinds, NextCoupled, AsidePayloads, StartsPayloads, SendsPayloads, EndsPayloads

-----------------------------------------------------------------------------
(* The order of the messages. *)

\* What was handed over is the beginning of what was accepted, and no message
\* was accepted twice.
LEMMA HandedOnce ==
    ASSUME Components
    PROVE  /\ \A a \in 1..Len(handed) : a \in 1..Len(accepted) /\ accepted[a] = handed[a]
           /\ \A m : ~InOrder(handed, m, m)
  <1>1. handed \in Seq(Msgs) /\ Held \in Seq(Msgs) /\ msgC \in Seq(Msgs)
    BY HeldIsSeq DEF Components, IndInv, QueueTypeOK
  <1>2. accepted = handed \o (Held \o msgC) /\ Held \o msgC \in Seq(Msgs)
    <2>1. accepted = (handed \o Held) \o msgC
      BY DEF Components, IndInv, Conservation
    <2> HIDE DEF Held
    <2>2. (handed \o Held) \o msgC = handed \o (Held \o msgC)
      BY <1>1, ConcatAssociative
    <2>3. Held \o msgC \in Seq(Msgs)
      BY <1>1, ConcatProperties
    <2> QED
      BY <2>1, <2>2, <2>3
  <1>3. \A a \in 1..Len(handed) : a \in 1..Len(accepted) /\ accepted[a] = handed[a]
    <2> DEFINE rest == Held \o msgC
    <2> HIDE DEF rest
    <2>1. rest \in Seq(Msgs) /\ accepted = handed \o rest
      BY <1>2 DEF rest
    <2>2. /\ Len(handed \o rest) = Len(handed) + Len(rest)
          /\ \A a \in 1..(Len(handed) + Len(rest)) : (handed \o rest)[a] =
                 IF a <= Len(handed) THEN handed[a] ELSE rest[a - Len(handed)]
      BY <1>1, <2>1, ConcatProperties
    <2>3. Len(handed) \in Nat /\ Len(rest) \in Nat
      BY <1>1, <2>1, LenProperties
    <2> QED
      BY <2>1, <2>2, <2>3
  <1>4. ASSUME NEW a \in 1..Len(handed), NEW b \in 1..Len(handed), a < b, handed[a] = handed[b]
        PROVE  FALSE
    <2>1. /\ a \in 1..Len(accepted) /\ b \in 1..Len(accepted)
          /\ accepted[a] = accepted[b]
      BY <1>3, <1>4
    <2>2. accepted[a][3] < accepted[b][3]
      BY <1>4, <2>1 DEF Components, CallPrefix
    <2>3. accepted[a][3] \in Nat
      BY <2>1, AcceptedAreMsgs, BoundAssumption DEF Components, IndInv
    <2> QED
      BY <2>1, <2>2, <2>3
  <1> QED
    BY <1>3, <1>4 DEF InOrder

\* A transaction of the batch goroutine has a payload.
LEMMA BatchTxCall ==
    ASSUME Components, Payloads, NEW x \in admitted, x[1] = Batcher
    PROVE  x[2] \in 1..Len(payload)
  <1>1. x[2] > 0 /\ x[2] <= call[Batcher]
    BY BatcherAssumption, ThreadAssumption DEF Components, Lined, SentOnce
  <1>2. x[2] \in Nat /\ call[Batcher] \in Nat /\ Len(payload) = call[Batcher]
    BY BatcherAssumption, CallsAssumption DEF Components, NonceTypeOK, Txs, Payloads
  <1> QED
    BY <1>1, <1>2

LEMMA PayloadsOnce == Components /\ Payloads => MessageAtMostOnce
  <1> SUFFICES ASSUME Components, Payloads,
                      NEW x \in BatchTxs, NEW y \in BatchTxs,
                      NEW i \in 1..Len(payload[x[2]]), NEW j \in 1..Len(payload[y[2]]),
                      payload[x[2]][i] = payload[y[2]][j]
               PROVE  x = y /\ i = j
    BY DEF MessageAtMostOnce
  <1>1. x[2] \in 1..Len(payload) /\ y[2] \in 1..Len(payload)
    BY BatchTxCall DEF BatchTxs
  <1>2. ~Precedes(x[2], i, y[2], j) /\ ~Precedes(y[2], j, x[2], i)
    <2>1. ~InOrder(handed, payload[x[2]][i], payload[y[2]][j])
      BY HandedOnce
    <2>2. ~InOrder(handed, payload[y[2]][j], payload[x[2]][i])
      BY HandedOnce
    <2>3. Ordered
      BY DEF Payloads
    <2>4. ~Precedes(x[2], i, y[2], j)
      BY <1>1, <2>1, <2>3 DEF Ordered
    <2>5. ~Precedes(y[2], j, x[2], i)
      BY <1>1, <2>2, <2>3 DEF Ordered
    <2> QED
      BY <2>4, <2>5
  <1>3. payload[x[2]] \in Seq(Msgs) /\ payload[y[2]] \in Seq(Msgs)
    BY <1>1, ElementOfSeq DEF Payloads
  <1>4. i \in Nat /\ j \in Nat /\ x[2] \in Nat /\ y[2] \in Nat
    BY <1>1
  <1>5. x[2] = y[2] /\ i = j
    BY <1>2, <1>4 DEF Precedes
  <1>6. x = y
    BY <1>5, BatcherAssumption, ThreadAssumption DEF BatchTxs, Components, SentOnce, AtMostOnce
  <1> QED
    BY <1>5, <1>6

LEMMA PayloadsInOrder == Components /\ Payloads => ChainKeepsOrder
  <1> SUFFICES ASSUME Components, Payloads,
                      NEW i \in 1..Len(chain), NEW j \in 1..Len(chain), i < j,
                      chain[i][1] = Batcher, chain[j][1] = Batcher,
                      NEW m \in 1..Len(payload[chain[i][2]]),
                      NEW k \in 1..Len(payload[chain[j][2]])
               PROVE  InOrder(accepted, payload[chain[i][2]][m], payload[chain[j][2]][k])
    BY DEF ChainKeepsOrder
  <1>1. InCallOrder(chain) /\ chain[i] \in admitted /\ chain[j] \in admitted
    BY LinedChain DEF Components
  <1>2. chain[i][2] < chain[j][2]
    BY <1>1, BatcherAssumption, ThreadAssumption DEF InCallOrder
  <1>3. chain[i][2] \in 1..Len(payload) /\ chain[j][2] \in 1..Len(payload)
    BY <1>1, BatchTxCall
  <1>4. Precedes(chain[i][2], m, chain[j][2], k)
    BY <1>2 DEF Precedes
  <1>5. InOrder(handed, payload[chain[i][2]][m], payload[chain[j][2]][k])
    BY <1>3, <1>4 DEF Payloads, Ordered
  <1> QED
    BY <1>5, HandedOnce DEF InOrder

\* No message reaches the node in two transactions, whatever fails and however
\* the batch goroutine competes with the others for the account.
THEOREM ClientMessageAtMostOnce == Spec => []MessageAtMostOnce
  BY InitComponents, NextComponents, InitCoupled, InitPayloads, NextPayloads, PayloadsOnce, PTL
     DEF Spec

\* The messages of the queue are in blocks in the order in which the queue
\* accepted them, whatever fails and whatever other goroutines send.
THEOREM ClientChainKeepsOrder == Spec => []ChainKeepsOrder
  BY InitComponents, NextComponents, InitCoupled, InitPayloads, NextPayloads, PayloadsInOrder, PTL
     DEF Spec

-----------------------------------------------------------------------------
(* Close settles. *)

\* Faults are only ever counted up.
LEMMA FaultsGrow ==
    ASSUME NonceTypeOK, [NonceNext]_nonceVars
    PROVE  faults' = faults \/ faults' = faults + 1
  <1> USE DEF NoFault, Disturb, Fault
  <1>1. ASSUME NEW t \in Threads, Quiet(t)
        PROVE  faults' = faults \/ faults' = faults + 1
    BY <1>1 DEF Quiet, Lock, LoadSeq, LoadNonce, SetSequence, ReadFactory, PrepareFactory,
         SimulateOk, SimulateMismatch, BroadcastRejected, AwaitIncluded, AwaitTimeout,
         PrepareFails, SimulateFails, BroadcastFails, BroadcastRefused, SyncNonce,
         SyncNonceFails, ReturnLocked, ReturnUnlocked
  <1>2. ASSUME NEW t \in Threads, BroadcastAccepted(t) \/ BroadcastLost(t)
        PROVE  faults' = faults \/ faults' = faults + 1
    BY <1>2 DEF BroadcastAccepted, BroadcastLost
  <1>3. ASSUME NEW t \in Threads, NEW o \in Ops, Call(t, o)
        PROVE  faults' = faults
    BY <1>3 DEF Call
  <1>4. CASE Block \/ PoolLoss \/ ForeignTx
    BY <1>4 DEF Block, PoolLoss, ForeignTx
  <1>5. CASE UNCHANGED nonceVars
    BY <1>5 DEF nonceVars
  <1> QED
    BY <1>1, <1>2, <1>3, <1>4, <1>5, StepKinds

\* In a block after the step.
InBlockNext(m) ==
    \E x \in included' : x[1] = Batcher /\
        \E i \in 1..Len(payload'[x[2]]) : payload'[x[2]][i] = m

\* A message that is in a block stays there: payloads of transactions that are
\* on the node are never written again.
LEMMA InBlockStays ==
    ASSUME Components, Coupled, Payloads, [Next]_vars, NEW m, InBlock(m)
    PROVE  InBlockNext(m)
  <1>1. PICK x \in included : x[1] = Batcher /\
                              \E i \in 1..Len(payload[x[2]]) : payload[x[2]][i] = m
    BY DEF InBlock
  <1>2. x \in admitted
    BY LinedChain DEF Components, included
  <1>3. x[2] \in 1..Len(payload)
    BY <1>1, <1>2, BatchTxCall
  <1>4. x \in included'
    BY NonceStep, ChainGrows DEF Components
  <1>5. payload'[x[2]] = payload[x[2]]
    <2>1. CASE Starts
      BY <1>3, <2>1, AppendProperties, EmptySeq DEF Starts, Payloads
    <2>2. CASE Sends
      <3>1. x[2] # call[Batcher]
        BY <1>1, <1>2, <2>2, BatcherAssumption DEF Sends, Components, SentOnce, Unsent
      <3> QED
        BY <1>3, <2>2, <3>1, SendsFacts
    <2>3. CASE Ends \/ Aside
      BY <2>3 DEF Ends, Aside
    <2> QED
      BY <2>1, <2>2, <2>3, ClientKinds
  <1> QED
    BY <1>1, <1>4, <1>5 DEF InBlockNext

\* Without a fault a batch leaves submitBatch only when it is in a block.
LEMMA EndsInBlock ==
    ASSUME Components, Coupled, Payloads, NoDrift, faults = 0, Ends,
           NEW i \in 1..submitLen
    PROVE  InBlock(toSubmit[i])
  <1>1. pc[Batcher] = "result" /\ op[Batcher] = "batch"
    BY DEF Ends, ReturnLocked, Coupled
  <1>2. res[Batcher] = "ok"
    BY <1>1, BatcherAssumption DEF NoDrift
  <1>3. Tx(Batcher) \in included
    BY <1>1, <1>2, BatcherAssumption DEF Components, AnswerIncluded, AwaitOps
  <1>4. payload[call[Batcher]] = toSubmit
    BY <1>1, <1>2 DEF Payloads, OnItsWay, Ends
  <1>5. Len(toSubmit) = submitLen
    BY ToSubmit DEF Components, Payloads
  <1>6. Tx(Batcher)[1] = Batcher /\ Tx(Batcher)[2] = call[Batcher]
    BY DEF Tx
  <1> HIDE DEF toSubmit, Tx
  <1> QED
    BY <1>3, <1>4, <1>5, <1>6 DEF InBlock

LEMMA NextSettled ==
    ASSUME Components, Coupled, Payloads, NoDrift, Settled, [Next]_vars
    PROVE  Settled'
  <1> DEFINE n == Len(handed) - submitLen
  <1> SUFFICES ASSUME faults' = 0, NEW a \in 1..(Len(handed') - submitLen')
               PROVE  InBlockNext(handed'[a])
    BY DEF Settled, InBlock, InBlockNext
  <1>1. faults = 0
    <2>1. faults' = faults \/ faults' = faults + 1
      BY NonceStep, FaultsGrow DEF Components
    <2>2. faults \in Nat
      BY CallsAssumption DEF Components, NonceTypeOK
    <2> QED
      BY <2>1, <2>2
  <1>2. \A c \in 1..n : InBlockNext(handed[c])
    BY <1>1, InBlockStays DEF Settled
  <1>3. CASE Sends \/ Aside
    <2>1. UNCHANGED <<handed, submitLen>>
      BY <1>3, SendsFacts DEF Aside
    <2> QED
      BY <1>2, <2>1
  <1>4. CASE Starts
    <2>1. PICK b \in Seq(Msgs) : handed' = handed \o b /\ Len(b) = submitLen'
      BY <1>4 DEF Starts
    <2>2. handed \in Seq(Msgs) /\ Len(handed) \in Nat /\ Len(b) \in Nat /\ submitLen = 0
      BY <1>4, LenProperties DEF Starts, Components, IndInv, QueueTypeOK
    <2>3. /\ Len(handed \o b) = Len(handed) + Len(b)
          /\ \A c \in 1..(Len(handed) + Len(b)) : (handed \o b)[c] =
                 IF c <= Len(handed) THEN handed[c] ELSE b[c - Len(handed)]
      BY <2>2, ConcatProperties
    <2>4. a \in 1..n /\ a \in 1..Len(handed)
      BY <2>1, <2>2, <2>3
    <2>5. handed'[a] = handed[a]
      BY <2>1, <2>2, <2>3, <2>4
    <2> QED
      BY <1>2, <2>4, <2>5
  <1>5. CASE Ends
    <2>1. handed' = handed /\ submitLen' = 0
      BY <1>5 DEF Ends
    <2>2. /\ submitLen \in Nat /\ Len(handed) \in Nat /\ submitLen <= Len(handed)
          /\ \A i \in 1..submitLen : toSubmit[i] = handed[n + i]
      BY ToSubmit DEF Components, Payloads
    <2>3. CASE a \in 1..n
      BY <1>2, <2>1, <2>3
    <2>4. CASE a \notin 1..n
      <3> DEFINE i == a - n
      <3>1. i \in 1..submitLen /\ n + i = a
        BY <2>1, <2>2, <2>4
      <3>2. handed[a] = toSubmit[i]
        BY <2>2, <3>1
      <3>3. InBlock(toSubmit[i])
        BY <1>1, <1>5, <3>1, EndsInBlock
      <3> HIDE DEF i, toSubmit, InBlock, InBlockNext
      <3>4. InBlock(handed[a])
        BY <3>2, <3>3
      <3> QED
        BY <2>1, <3>4, InBlockStays
    <2> QED
      BY <2>3, <2>4
  <1> QED
    BY <1>3, <1>4, <1>5, ClientKinds

\* When the other goroutines use the locking methods too, and as long as
\* nothing has failed, Close returns only after every accepted message is in a
\* block.
THEOREM ClientCloseSettles ==
    ASSUME Ops \subseteq LockedOps
    PROVE  Spec => []CloseSettles
  <1>1. Init => OneHolder /\ NoDrift /\ Settled
    <2> SUFFICES ASSUME Init PROVE OneHolder /\ NoDrift /\ Settled
      OBVIOUS
    <2>1. accSeq = CheckSeq
      BY SeqAssumption DEF Init, NonceInit, NodeInit, CheckSeq
    <2>2. OneHolder /\ NoDrift
      BY <2>1 DEF Init, NonceInit, OneHolder, NoDrift, Inside, Sent
    <2>3. 1..(Len(handed) - submitLen) = {}
      BY EmptySeq DEF Init, QueueInit
    <2> QED
      BY <2>2, <2>3 DEF Settled
  <1>2. Components /\ OneHolder /\ NoDrift /\ [Next]_vars => OneHolder' /\ NoDrift'
    BY NonceStep, NextOneHolder, NextNoDrift DEF Components
  <1>3. Components /\ Coupled /\ Payloads /\ NoDrift /\ Settled /\ [Next]_vars => Settled'
    BY NextSettled
  <1>4. Components /\ Coupled /\ Settled => CloseSettles
    <2> SUFFICES ASSUME Components, Coupled, Settled, faults = 0,
                        NEW c \in Closers, cpc[c] = "returned", NEW a \in 1..Len(accepted)
                 PROVE  InBlock(accepted[a])
      BY DEF CloseSettles
    <2>1. doneC
      BY DEF Coupled
    <2>2. bpc = "stopped" /\ submitLen = 0 /\ msgC = <<>>
      BY <2>1 DEF Components, IndInv, Phase
    <2>3. handed = accepted
      <3>1. handed \in Seq(Msgs) /\ Held = <<>>
        BY <2>2 DEF Components, IndInv, QueueTypeOK, Held, InLoop
      <3>2. accepted = (handed \o <<>>) \o <<>>
        BY <2>2, <3>1 DEF Components, IndInv, Conservation
      <3> QED
        BY <3>1, <3>2, ConcatEmptySeq
    <2>4. Len(handed) \in Nat
      BY LenProperties DEF Components, IndInv, QueueTypeOK
    <2>5. a \in 1..(Len(handed) - submitLen)
      BY <2>2, <2>3, <2>4
    <2> HIDE DEF InBlock
    <2> QED
      BY <2>3, <2>5 DEF Settled
  <1> QED
    BY <1>1, <1>2, <1>3, <1>4, InitComponents, NextComponents, InitCoupled, InitPayloads,
       NextPayloads, PTL DEF Spec
=============================================================================
