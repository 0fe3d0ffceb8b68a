-------------------------- MODULE QueueUsageProofs --------------------------
(***************************************************************************)
(* Proofs about QueueUsage: what one goroutine that queues a message and   *)
(* waits for it, as the example programs do, may conclude from the return  *)
(* of BroadcastDone.                                                       *)
(***************************************************************************)
EXTENDS QueueUsage, BatchQueueProofs

\* One goroutine uses the client. With several BroadcastDone promises less: a
\* goroutine may take the token of another one's batch.
OneCaller == \A s, t \in Senders \cap Waiters : s = t

UsageInv == IndInv /\ LockstepInv

\* A step of UsageNext is one of the queue.
LEMMA UsageStep == [UsageNext]_usageVars => [QueueNext]_queueVars
  BY DEF UsageNext, usageVars

LEMMA PendingIsNat ==
    ASSUME IndInv
    PROVE  /\ Len(msgC) \in Nat /\ batchLen \in Nat /\ submitLen \in Nat
           /\ broadcasted \in Nat /\ Pending \in Nat
  <1>1. Len(msgC) \in Nat
    BY LenProperties DEF IndInv, QueueTypeOK
  <1>2. batchLen \in Nat /\ submitLen \in Nat /\ broadcasted \in Nat
    BY LimitAssumption, CapAssumption DEF IndInv, QueueTypeOK
  <1> QED
    BY <1>1, <1>2 DEF Pending

\* In lockstep a sender that is in the loop of a call is the one caller.
LEMMA OnlyCallerSends ==
    ASSUME UsageInv, usage = "lockstep", NEW s \in Senders, qpc[s] # "idle"
    PROVE  s \in Senders \cap Waiters
  BY DEF UsageInv, LockstepInv

\* What a step of the batch goroutine or the timer does to the messages in
\* its hands: none is added, and a token takes the place of a message.
LEMMA BatcherKeepsCount ==
    ASSUME IndInv, BatcherStep \/ TimerFire,
           bpc \in {"submit", "signal", "last", "lastSignal"} => submitLen > 0
    PROVE  /\ broadcasted' + Pending' <= broadcasted + Pending
           /\ broadcasted' + Pending' \in Nat
           /\ bpc' \in {"submit", "signal", "last", "lastSignal"} => submitLen' > 0
  <1> USE DEF chanVars
  <1>0. /\ Len(msgC) \in Nat /\ batchLen \in Nat /\ submitLen \in Nat
        /\ broadcasted \in Nat /\ Pending \in Nat
    BY PendingIsNat
  <1>1. CASE BatchReceive
    <2>1. bpc = "select" /\ submitLen = 0 /\ broadcasted' = broadcasted
      BY <1>1 DEF IndInv, Phase, BatchReceive
    <2>2. Len(msgC') = Len(msgC) - 1
      <3>1. msgC \in Seq(Msgs) /\ msgC # <<>> /\ msgC' = Tail(msgC)
        BY <1>1 DEF IndInv, QueueTypeOK, BatchReceive
      <3> QED
        BY <3>1, HeadTailProperties
    <2>3. \/ submitLen' = batchLen + 1 /\ batchLen' = 0 /\ bpc' = "submit"
          \/ batchLen' = batchLen + 1 /\ submitLen' = submitLen /\ bpc' = bpc
      BY <1>1 DEF BatchReceive, TakeBatch
    <2> QED
      BY <1>0, <2>1, <2>2, <2>3 DEF Pending, InLoop
  <1>2. CASE BatchClosed
    <2>1. bpc = "select" /\ submitLen = 0 /\ UNCHANGED <<broadcasted, msgC, batchLen>>
      BY <1>2 DEF IndInv, Phase, BatchClosed
    <2>2. \/ batchLen > 0 /\ submitLen' = batchLen /\ bpc' = "last"
          \/ bpc' = "exit" /\ submitLen' = submitLen
      BY <1>2 DEF BatchClosed
    <2> QED
      BY <1>0, <2>1, <2>2 DEF Pending, InLoop
  <1>3. CASE BatchExpire
    <2>1. bpc = "select" /\ submitLen = 0 /\ UNCHANGED <<broadcasted, msgC>>
      BY <1>3 DEF IndInv, Phase, BatchExpire
    <2>2. \/ batchLen > 0 /\ submitLen' = batchLen /\ batchLen' = 0 /\ bpc' = "submit"
          \/ UNCHANGED <<bpc, batchLen, submitLen>>
      BY <1>3 DEF BatchExpire, TakeBatch
    <2> QED
      BY <1>0, <2>1, <2>2 DEF Pending, InLoop
  <1>4. CASE SubmitStep
    <2>1. bpc \in {"submit", "signal", "last", "lastSignal"} /\ UNCHANGED <<msgC, batchLen>>
      BY <1>4 DEF SubmitStep, SubmitOk, SubmitSignal, SubmitErr
    <2>2. submitLen > 0
      BY <2>1
    <2>3. \/ /\ UNCHANGED <<submitLen, broadcasted>>
             /\ \/ bpc = "submit" /\ bpc' = "signal"
                \/ bpc = "last" /\ bpc' = "lastSignal"
          \/ /\ submitLen' = 0 /\ broadcasted' \in {broadcasted, broadcasted + 1}
             /\ \/ bpc \in {"submit", "signal"} /\ bpc' = "select"
                \/ bpc \in {"last", "lastSignal"} /\ bpc' = "exit"
      BY <1>4 DEF SubmitStep, SubmitOk, SubmitSignal, SubmitErr
    <2> QED
      BY <1>0, <2>1, <2>2, <2>3 DEF Pending, InLoop
  <1>5. CASE BatchExit
    <2>1. /\ UNCHANGED <<msgC, batchLen, submitLen, broadcasted>>
          /\ bpc = "exit" /\ bpc' = "stopped"
      BY <1>5 DEF BatchExit
    <2> QED
      BY <1>0, <2>1 DEF Pending, InLoop
  <1>6. CASE TimerFire
    <2>1. UNCHANGED <<msgC, batchLen, submitLen, broadcasted, bpc>>
      BY <1>6 DEF TimerFire
    <2> QED
      BY <1>0, <2>1 DEF Pending, InLoop
  <1> QED
    BY <1>1, <1>2, <1>3, <1>4, <1>5, <1>6 DEF BatcherStep

LEMMA UsageInitInv == UsageInit => UsageInv
  <1> SUFFICES ASSUME UsageInit PROVE UsageInv
    OBVIOUS
  <1>1. IndInv
    BY InitIndInv DEF UsageInit
  <1>2. Len(msgC) = 0 /\ batchLen = 0 /\ submitLen = 0 /\ broadcasted = 0
        /\ bpc \in {"select", "absent"}
    BY DEF UsageInit, QueueInit
  <1>3. Pending = 0
    BY <1>2 DEF Pending
  <1>4. /\ \A s \in Senders : qpc[s] = "idle" /\ qcall[s] = 0
        /\ \A w \in Waiters : wpc[w] = "idle" /\ wcall[w] = 0
    BY DEF UsageInit, QueueInit
  <1> QED
    BY <1>1, <1>2, <1>3, <1>4 DEF UsageInv, LockstepInv, AtRest

LEMMA SenderKeepsLockstep ==
    ASSUME OneCaller, UsageInv, usage = "lockstep", Lockstep, UNCHANGED usage,
           NEW s \in Senders,
           \/ QueueRefused(s) \/ SenderStep(s)
           \/ \E n \in 0..MaxMsgs : QueueEnter(s, n)
    PROVE  LockstepInv'
  <1> USE DEF chanVars, waitVars, batchVars
  <1>0. /\ Len(msgC) \in Nat /\ batchLen \in Nat /\ submitLen \in Nat
        /\ broadcasted \in Nat /\ Pending \in Nat
    BY PendingIsNat DEF UsageInv
  <1>1. /\ qpc \in [Senders -> {"idle", "send", "panicked"}]
        /\ qcall \in [Senders -> 0..MaxQueueCalls] /\ qlen \in [Senders -> 0..MaxMsgs]
        /\ qidx \in [Senders -> 1..MaxMsgs + 1] /\ wcall \in [Waiters -> 0..MaxQueueCalls]
        /\ wpc \in [Waiters -> {"idle", "waiting"}]
    BY DEF UsageInv, IndInv, QueueTypeOK
  <1>2. /\ UNCHANGED <<bpc, batchLen, submitLen, broadcasted, wpc, wcall>>
        /\ bpc \in {"submit", "signal", "last", "lastSignal"} => submitLen > 0
        /\ \A u \in Senders \ Waiters : qpc[u] = "idle"
    BY DEF UsageInv, LockstepInv, QueueRefused, QueueEnter, SenderStep, QueueSend,
           QueuePanic, QueueTimeout, QueueReturn
  <1>3. s \in Waiters
    <2>1. CASE qpc[s] # "idle"
      BY <2>1, OnlyCallerSends
    <2>2. CASE qpc[s] = "idle"
      <3>1. qcall' = [qcall EXCEPT ![s] = @ + 1]
        BY <2>2 DEF QueueRefused, QueueEnter, SenderStep, QueueSend, QueuePanic,
                    QueueTimeout, QueueReturn
      <3>2. qcall'[s] # 0
        BY <3>1, <1>1, BoundAssumption
      <3> QED
        BY <3>2 DEF Lockstep
    <2> QED
      BY <2>1, <2>2
  <1>4. \A t \in Senders \cap Waiters : t = s
    BY <1>3 DEF OneCaller
  <1>5. /\ broadcasted + Pending <= 1 /\ wcall[s] <= qcall[s]
        /\ AtRest(s) => broadcasted + Pending = 0
        /\ wpc[s] = "waiting" => qpc[s] # "send"
        /\ qpc[s] = "send" => qlen[s] = 1 /\ wcall[s] < qcall[s]
    BY <1>3 DEF UsageInv, LockstepInv
  <1>6. \A u \in Senders \ Waiters : qpc'[u] = "idle"
    BY <1>1, <1>2, <1>3 DEF QueueRefused, QueueEnter, SenderStep, QueueSend, QueuePanic,
                            QueueTimeout, QueueReturn
  <1> SUFFICES /\ broadcasted' + Pending' <= 1 /\ wcall'[s] <= qcall'[s]
               /\ AtRest(s)' => broadcasted' + Pending' = 0
               /\ wpc'[s] = "waiting" => qpc'[s] # "send"
               /\ qpc'[s] = "send" => qlen'[s] = 1 /\ wcall'[s] < qcall'[s]
    BY <1>2, <1>4, <1>6 DEF LockstepInv, AtRest
  <1>7. CASE QueueRefused(s)
    <2>1. qcall'[s] = qcall[s] + 1 /\ qpc[s] = "idle" /\ UNCHANGED <<qpc, qlen, qidx, msgC>>
      BY <1>1, <1>7 DEF QueueRefused
    <2>2. Pending' = Pending
      BY <1>2, <2>1 DEF Pending, InLoop
    <2>3. qcall[s] \in Nat /\ wcall[s] \in Nat
      BY <1>1, <1>3, BoundAssumption
    <2> QED
      BY <1>2, <1>5, <2>1, <2>2, <2>3 DEF AtRest
  <1>8. CASE \E n \in 0..MaxMsgs : QueueEnter(s, n)
    <2>1. /\ qcall'[s] = qcall[s] + 1 /\ qpc[s] = "idle" /\ qpc'[s] = "send"
          /\ qidx'[s] = 1 /\ UNCHANGED msgC
      BY <1>1, <1>8 DEF QueueEnter
    <2>2. Pending' = Pending
      BY <1>2, <2>1 DEF Pending, InLoop
    <2>3. qcall[s] \in Nat /\ wcall[s] \in Nat
      BY <1>1, <1>3, BoundAssumption
    <2>4. wpc[s] = "idle" /\ wcall[s] = qcall[s] /\ qlen'[s] = 1
      BY <1>3, <2>1, <2>3 DEF Lockstep
    <2>5. broadcasted + Pending = 0
      BY <1>5, <2>1, <2>4 DEF AtRest
    <2> QED
      BY <1>2, <2>1, <2>2, <2>3, <2>4, <2>5
  <1>9. CASE QueueSend(s)
    <2>1. /\ qpc[s] = "send" /\ qidx[s] <= qlen[s] /\ qidx'[s] = qidx[s] + 1
          /\ UNCHANGED <<qpc, qcall, qlen>>
      BY <1>1, <1>9 DEF QueueSend
    <2>2. qidx[s] = 1 /\ qlen[s] = 1 /\ qidx'[s] = 2
      BY <1>1, <1>5, <2>1
    <2>3. broadcasted + Pending = 0
      BY <1>5, <2>1, <2>2 DEF AtRest
    <2>4. Len(msgC') = Len(msgC) + 1
      <3>1. msgC \in Seq(Msgs) /\ msgC' = Append(msgC, <<s, qcall[s], qidx[s]>>)
        BY <1>9 DEF UsageInv, IndInv, QueueTypeOK, QueueSend
      <3>2. <<s, qcall[s], qidx[s]>> \in Msgs
        BY <1>9, SentIsMsg DEF UsageInv
      <3> QED
        BY <3>1, <3>2
    <2>5. broadcasted' + Pending' = 1
      BY <1>0, <1>2, <2>3, <2>4 DEF Pending, InLoop
    <2>6. ~AtRest(s)'
      BY <2>1, <2>2 DEF AtRest
    <2> QED
      BY <1>2, <1>5, <2>1, <2>2, <2>5, <2>6
  <1>10. CASE QueuePanic(s) \/ QueueTimeout(s) \/ QueueReturn(s)
    <2>1. /\ qpc[s] = "send" /\ qpc'[s] \in {"idle", "panicked"}
          /\ UNCHANGED <<qcall, qlen, msgC>>
      BY <1>1, <1>10 DEF QueuePanic, QueueTimeout, QueueReturn
    <2>2. Pending' = Pending
      BY <1>2, <2>1 DEF Pending, InLoop
    <2>3. qcall[s] \in Nat /\ wcall[s] \in Nat
      BY <1>1, <1>3, BoundAssumption
    <2>4. wcall[s] < qcall[s]
      BY <1>5, <2>1
    <2>5. ~AtRest(s)'
      BY <1>2, <2>1, <2>3, <2>4 DEF AtRest
    <2> QED
      BY <1>2, <1>5, <2>1, <2>2, <2>5
  <1> QED
    BY <1>7, <1>8, <1>9, <1>10 DEF SenderStep

LEMMA WaiterKeepsLockstep ==
    ASSUME OneCaller, UsageInv, usage = "lockstep", Lockstep, UNCHANGED usage,
           NEW w \in Waiters, BroadcastDoneCall(w) \/ BroadcastDoneReturn(w)
    PROVE  LockstepInv'
  <1> USE DEF chanVars, senderVars, batchVars
  <1>0. /\ Len(msgC) \in Nat /\ batchLen \in Nat /\ submitLen \in Nat
        /\ broadcasted \in Nat /\ Pending \in Nat
    BY PendingIsNat DEF UsageInv
  <1>1. /\ qcall \in [Senders -> 0..MaxQueueCalls] /\ wcall \in [Waiters -> 0..MaxQueueCalls]
        /\ wpc \in [Waiters -> {"idle", "waiting"}]
    BY DEF UsageInv, IndInv, QueueTypeOK
  <1>2. UNCHANGED <<msgC, bpc, batchLen, submitLen, qpc, qcall, qlen, qidx>>
    BY DEF BroadcastDoneCall, BroadcastDoneReturn
  <1>3. Pending' = Pending
    BY <1>2 DEF Pending, InLoop
  <1>4. CASE BroadcastDoneCall(w)
    <2>1. broadcasted' = broadcasted /\ wpc' = [wpc EXCEPT ![w] = "waiting"]
          /\ wcall' = [wcall EXCEPT ![w] = @ + 1]
      BY <1>4 DEF BroadcastDoneCall
    <2>2. \A t \in Senders \cap Waiters :
             /\ t = w => qpc[t] = "idle" /\ wcall[t] < qcall[t] /\ wcall'[t] = wcall[t] + 1
                         /\ wpc'[t] = "waiting"
             /\ t # w => wcall'[t] = wcall[t] /\ wpc'[t] = wpc[t]
      BY <1>1, <2>1, BoundAssumption DEF Lockstep
    <2>3. \A t \in Senders \cap Waiters : wcall[t] \in Nat /\ qcall[t] \in Nat
      BY <1>1, BoundAssumption
    <2>4. \A t \in Senders \cap Waiters :
             /\ wcall'[t] <= qcall[t] /\ (wpc'[t] = "waiting" => qpc[t] # "send")
             /\ qpc[t] = "send" => qlen[t] = 1 /\ wcall'[t] < qcall[t]
             /\ AtRest(t)' => AtRest(t)
      BY <1>2, <2>2, <2>3 DEF UsageInv, LockstepInv, AtRest
    <2> QED
      BY <1>2, <1>3, <2>1, <2>4 DEF UsageInv, LockstepInv
  <1>5. CASE BroadcastDoneReturn(w)
    <2>1. broadcasted > 0 /\ broadcasted' = broadcasted - 1 /\ UNCHANGED wcall
          /\ wpc' = [wpc EXCEPT ![w] = "idle"]
      BY <1>5 DEF BroadcastDoneReturn
    <2>2. \A t \in Waiters : wpc'[t] = "waiting" => wpc[t] = "waiting"
      BY <1>1, <2>1
    <2>3. \A t \in Senders \cap Waiters : broadcasted' + Pending' = 0
      BY <1>0, <1>3, <2>1 DEF UsageInv, LockstepInv
    <2> QED
      BY <1>2, <2>1, <2>2, <2>3 DEF UsageInv, LockstepInv
  <1> QED
    BY <1>4, <1>5

LEMMA OtherKeepsLockstep ==
    ASSUME UsageInv, usage = "lockstep", UNCHANGED usage,
           \/ \E c \in Closers : CloseReadOnly(c) \/ CloseSwap(c) \/ CloserStep(c)
           \/ BatcherStep \/ TimerFire
           \/ UNCHANGED queueVars
    PROVE  LockstepInv'
  <1>0. /\ Pending \in Nat /\ broadcasted \in Nat
    BY PendingIsNat DEF UsageInv
  <1>1. UNCHANGED <<qpc, qcall, qlen, qidx, wpc, wcall>>
    BY DEF CloseReadOnly, CloseSwap, CloserStep, CloseChannel, CloseReturn, BatcherStep,
           BatchReceive, BatchClosed, BatchExpire, SubmitStep, SubmitOk, SubmitSignal,
           SubmitErr, BatchExit, TimerFire, queueVars, senderVars, waitVars
  <1>2. \A t \in Senders \cap Waiters : AtRest(t)' <=> AtRest(t)
    BY <1>1 DEF AtRest
  <1>3. bpc \in {"submit", "signal", "last", "lastSignal"} => submitLen > 0
    BY DEF UsageInv, LockstepInv
  <1>4. /\ bpc' \in {"submit", "signal", "last", "lastSignal"} => submitLen' > 0
        /\ broadcasted' + Pending' <= broadcasted + Pending
        /\ broadcasted' + Pending' \in Nat
    <2>1. CASE BatcherStep \/ TimerFire
      BY <1>3, <2>1, BatcherKeepsCount DEF UsageInv
    <2>2. CASE ~(BatcherStep \/ TimerFire)
      <3>1. UNCHANGED <<msgC, bpc, batchLen, submitLen, broadcasted>>
        BY <2>2 DEF CloseReadOnly, CloseSwap, CloserStep, CloseChannel, CloseReturn,
           queueVars, chanVars, batchVars
      <3> QED
        BY <1>0, <1>3, <3>1 DEF Pending, InLoop
    <2> QED
      BY <2>1, <2>2
  <1> QED
    BY <1>0, <1>1, <1>2, <1>4 DEF UsageInv, LockstepInv

LEMMA UsageNextInv ==
    ASSUME OneCaller
    PROVE  UsageInv /\ [UsageNext]_usageVars => UsageInv'
  <1> SUFFICES ASSUME UsageInv, [UsageNext]_usageVars PROVE UsageInv'
    OBVIOUS
  <1>1. IndInv'
    BY UsageStep, NextIndInv DEF UsageInv
  <1>2. UNCHANGED usage
    BY DEF UsageNext, usageVars
  <1>3. CASE usage # "lockstep"
    BY <1>1, <1>2, <1>3 DEF UsageInv, LockstepInv
  <1>4. CASE usage = "lockstep" /\ UNCHANGED queueVars
    BY <1>1, <1>2, <1>4, OtherKeepsLockstep DEF UsageInv
  <1>5. CASE usage = "lockstep" /\ QueueNext /\ Lockstep
    BY <1>1, <1>2, <1>5, SenderKeepsLockstep, WaiterKeepsLockstep, OtherKeepsLockstep
    DEF UsageInv, QueueNext
  <1> QED
    BY <1>3, <1>4, <1>5 DEF UsageNext, usageVars

\* One goroutine that queues one message at a time and calls BroadcastDone
\* after a nil error gets back from it only when the submission of that message
\* has ended and nothing is left in the queue: the token it takes is never one
\* of an earlier batch, whatever other goroutines take tokens or close the
\* client and whatever submissions fail.
THEOREM QueueDoneAfterOwnBatch ==
    ASSUME OneCaller
    PROVE  UsageSpec => DoneAfterOwnBatch
  <1> DEFINE Own == \A t \in Senders \cap Waiters :
                        usage = "lockstep" /\ BroadcastDoneReturn(t) =>
                            handed = accepted /\ submitLen = 0
  <1>1. UsageInv => Own
    <2> SUFFICES ASSUME UsageInv, NEW t \in Senders \cap Waiters,
                        usage = "lockstep", BroadcastDoneReturn(t)
                 PROVE  handed = accepted /\ submitLen = 0
      OBVIOUS
    <2>1. /\ Len(msgC) \in Nat /\ batchLen \in Nat /\ submitLen \in Nat
          /\ broadcasted \in Nat
      BY PendingIsNat DEF UsageInv
    <2>2. broadcasted > 0 /\ broadcasted + Pending <= 1
      BY DEF UsageInv, LockstepInv, BroadcastDoneReturn
    <2>3. Len(msgC) = 0 /\ submitLen = 0 /\ (InLoop => batchLen = 0)
      BY <2>1, <2>2 DEF Pending
    <2>4. msgC = <<>>
      BY <2>3, EmptySeq DEF UsageInv, IndInv, QueueTypeOK
    <2>5. Held = <<>>
      <3>1. msgBatch \in Seq(Msgs) /\ Len(msgBatch) = batchLen
        BY HeldIsSeq DEF UsageInv, IndInv
      <3> QED
        BY <2>3, <3>1, EmptySeq DEF Held
    <2>6. handed \in Seq(Msgs) /\ accepted = handed \o Held \o msgC
      BY DEF UsageInv, IndInv, QueueTypeOK, Conservation
    <2> QED
      BY <2>3, <2>4, <2>5, <2>6, ConcatEmptySeq
  <1>2. UsageInv /\ [UsageNext]_usageVars => [Own]_usageVars
    BY <1>1
  <1> HIDE DEF Own
  <1>3. UsageSpec => [][Own]_usageVars
    BY <1>2, UsageInitInv, UsageNextInv, PTL DEF UsageSpec
  <1> QED
    BY <1>3 DEF DoneAfterOwnBatch, Own
=============================================================================
