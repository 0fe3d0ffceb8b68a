-------------------------- MODULE BatchQueueProofs --------------------------
(***************************************************************************)
(* Proofs about BatchQueue for every set of goroutines and every limit.    *)
(***************************************************************************)
EXTENDS BatchQueue, TLAPS, SequenceTheorems

(* Facts about sequences. *)

\* Appending to the last part of a concatenation.
LEMMA AppendLast ==
    ASSUME NEW S, NEW a \in Seq(S), NEW b \in Seq(S), NEW e \in S
    PROVE  Append(a \o b, e) = a \o (b \o <<e>>)
  <1>1. <<e>> \in Seq(S)
    OBVIOUS
  <1>2. Append(a \o b, e) = (a \o b) \o <<e>>
    BY AppendIsConcat, ConcatProperties
  <1> QED
    BY <1>1, <1>2, ConcatAssociative

\* Moving the head of the last part to the end of the part before it.
LEMMA MoveHead ==
    ASSUME NEW S, NEW a \in Seq(S), NEW b \in Seq(S), NEW c \in Seq(S), c # <<>>
    PROVE  (a \o b) \o c = (a \o (b \o <<Head(c)>>)) \o Tail(c)
  <1> DEFINE l == (a \o b) \o c
             r == (a \o (b \o <<Head(c)>>)) \o Tail(c)
  <1>1. Head(c) = c[1] /\ Head(c) \in S /\ Tail(c) \in Seq(S)
        /\ Len(Tail(c)) = Len(c) - 1 /\ Len(c) \in Nat \ {0}
        /\ \A i \in 1..Len(Tail(c)) : Tail(c)[i] = c[i + 1]
    OBVIOUS
  <1>2. l \in Seq(S) /\ r \in Seq(S) /\ Len(l) = Len(r)
    BY <1>1
  <1>3. \A i \in 1..Len(l) : l[i] = r[i]
    BY <1>1
  <1> HIDE DEF l, r
  <1>4. l = r
    BY <1>2, <1>3, SeqEqual
  <1> QED
    BY <1>4 DEF l, r

\* The last n elements of a sequence that ends with t are t.
LEMMA SuffixOfConcat ==
    ASSUME NEW S, NEW s \in Seq(S), NEW t \in Seq(S), t # <<>>
    PROVE  SubSeq(s \o t, Len(s \o t) - Len(t) + 1, Len(s \o t)) = t
  <1>1. Len(s) \in Nat /\ Len(t) \in Nat \ {0} /\ Len(s \o t) = Len(s) + Len(t)
    BY ConcatProperties, LenProperties, EmptySeq
  <1>2. SubSeq(s \o t, Len(s) + 1, Len(s) + Len(t)) = SubSeq(t, 1, Len(t))
    BY <1>1, SubSeqOfConcat2
  <1> QED
    BY <1>1, <1>2, SubSeqFull

(* The inductive invariant. *)

\* The held messages are a sequence of messages, as long as the slice says.
LEMMA HeldIsSeq ==
    ASSUME QueueTypeOK, Phase
    PROVE  /\ msgBatch \in Seq(Msgs) /\ Len(msgBatch) = batchLen
           /\ Held \in Seq(Msgs)
  <1>1. batchLen \in Nat /\ \A i \in 1..batchLen : buf[i] \in Msgs
    BY LimitAssumption DEF QueueTypeOK, Phase
  <1>2. msgBatch \in Seq(Msgs) /\ Len(msgBatch) = batchLen
    BY <1>1 DEF msgBatch, Slice
  <1> QED
    BY <1>2 DEF Held

LEMMA InitIndInv == QueueInit => IndInv
  <1> SUFFICES ASSUME QueueInit PROVE IndInv
    OBVIOUS
  <1> USE LimitAssumption, CapAssumption, BoundAssumption DEF QueueInit
  <1>1. QueueTypeOK
    <2>1. /\ msgC \in Seq(Msgs) /\ Len(msgC) <= Limit
          /\ accepted \in Seq(Msgs) /\ handed \in Seq(Msgs)
      BY EmptySeq
    <2>2. buf \in [1..Limit -> Msgs \cup {NoMsg}]
      OBVIOUS
    <2>3. bpc \in {"select", "absent"} /\ armed \in BOOLEAN
      OBVIOUS
    <2>4. /\ qpc \in [Senders -> {"idle", "send", "panicked"}]
          /\ qcall \in [Senders -> 0..MaxQueueCalls]
          /\ qlen \in [Senders -> 0..MaxMsgs]
          /\ qidx \in [Senders -> 1..MaxMsgs + 1]
      OBVIOUS
    <2>5. /\ cpc \in [Closers -> {"idle", "closing", "waiting", "returned"}]
          /\ wpc \in [Waiters -> {"idle", "waiting"}]
          /\ wcall \in [Waiters -> 0..MaxQueueCalls]
      OBVIOUS
    <2>6. broadcasted \in 0..TokenCap /\ batchLen \in 0..Limit /\ submitLen \in 0..Limit
      OBVIOUS
    <2> QED
      BY <2>1, <2>2, <2>3, <2>4, <2>5, <2>6 DEF QueueTypeOK, Results
  <1>2. Phase
    BY DEF Phase
  <1>3. msgBatch = <<>>
    BY DEF msgBatch, Slice
  <1>4. Conservation
    BY <1>3 DEF Conservation, Held
  <1>5. SubmissionIntact
    BY DEF SubmissionIntact
  <1> QED
    BY <1>1, <1>2, <1>4, <1>5 DEF IndInv

\* A step that leaves the messages, the slices and the position of the batch
\* goroutine alone keeps Conservation and SubmissionIntact.
LEMMA FrameStep ==
    ASSUME IndInv, UNCHANGED <<msgC, bpc, buf, batchLen, submitLen, accepted, handed>>
    PROVE  Conservation' /\ SubmissionIntact'
  BY DEF IndInv, Conservation, SubmissionIntact, Held, InLoop, msgBatch, toSubmit, Slice

\* Phase survives a step that leaves its variables alone, except that the
\* channel may be closed.
LEMMA FramePhase ==
    ASSUME Phase, UNCHANGED <<qpc, qcall, msgC, doneC, bpc, buf, batchLen, submitLen>>,
           chanClosed => chanClosed'
    PROVE  Phase'
  BY DEF Phase

\* What a caller puts into the channel names the caller, a call and a position.
LEMMA SentIsMsg ==
    ASSUME IndInv, NEW s \in Senders, QueueSend(s)
    PROVE  <<s, qcall[s], qidx[s]>> \in Msgs
  <1>1. /\ qcall \in [Senders -> 0..MaxQueueCalls] /\ qlen \in [Senders -> 0..MaxMsgs]
        /\ qidx \in [Senders -> 1..MaxMsgs + 1]
    BY DEF IndInv, QueueTypeOK
  <1>2. qcall[s] > 0 /\ qidx[s] <= qlen[s]
    BY DEF IndInv, Phase, QueueSend
  <1>3. qcall[s] \in 1..MaxQueueCalls /\ qidx[s] \in 1..MaxMsgs
    BY <1>1, <1>2, BoundAssumption
  <1> QED
    BY <1>3 DEF Msgs

LEMMA SenderKeepsIndInv ==
    ASSUME IndInv, NEW s \in Senders,
           \/ QueueRefused(s) \/ SenderStep(s)
           \/ \E n \in 0..MaxMsgs : QueueEnter(s, n)
    PROVE  IndInv'
  <1> USE LimitAssumption, CapAssumption, BoundAssumption
      DEF chanVars, senderVars, waitVars, batchVars
  <1>1. CASE QueueRefused(s)
    <2>1. QueueTypeOK'
      <3>1. qres' \in [Senders -> Results]
        BY <1>1 DEF IndInv, QueueTypeOK, QueueRefused, Results
      <3>2. UNCHANGED <<canSign, chanVars, qpc, qlen, qidx, cpc, waitVars, batchVars, accepted>>
        BY <1>1 DEF QueueRefused
      <3>3. qcall' \in [Senders -> 0..MaxQueueCalls]
        BY <1>1 DEF IndInv, QueueTypeOK, QueueRefused
      <3>4. QueueTypeOK
        BY DEF IndInv
      <3> QED
        BY <3>1, <3>2, <3>3, <3>4 DEF QueueTypeOK
    <2>2. Phase'
      BY <1>1 DEF IndInv, QueueTypeOK, Phase, QueueRefused
    <2> QED
      BY <1>1, <2>1, <2>2, FrameStep DEF IndInv, QueueRefused
  <1>2. CASE \E n \in 0..MaxMsgs : QueueEnter(s, n)
    <2> PICK n \in 0..MaxMsgs : QueueEnter(s, n)
      BY <1>2
    <2>1. QueueTypeOK'
      <3>1. /\ qpc' \in [Senders -> {"idle", "send", "panicked"}]
            /\ qcall' \in [Senders -> 0..MaxQueueCalls]
        BY DEF IndInv, QueueTypeOK, QueueEnter
      <3>2. /\ qlen' \in [Senders -> 0..MaxMsgs]
            /\ qidx' \in [Senders -> 1..MaxMsgs + 1]
        BY DEF IndInv, QueueTypeOK, QueueEnter
      <3>3. qres' \in [Senders -> Results]
        BY DEF IndInv, QueueTypeOK, QueueEnter, Results
      <3> QED
        BY <3>1, <3>2, <3>3 DEF IndInv, QueueTypeOK, QueueEnter
    <2>2. Phase'
      BY DEF IndInv, QueueTypeOK, Phase, QueueEnter
    <2> QED
      BY <2>1, <2>2, FrameStep DEF IndInv, QueueEnter
  <1>3. CASE QueueSend(s)
    <2> DEFINE m == <<s, qcall[s], qidx[s]>>
    <2>1. m \in Msgs
      BY <1>3, SentIsMsg
    <2>2. msgC' = Append(msgC, m) /\ accepted' = Append(accepted, m)
      BY <1>3 DEF QueueSend
    <2>3. msgC' \in Seq(Msgs) /\ Len(msgC') <= Limit /\ accepted' \in Seq(Msgs)
      BY <1>3, <2>1, <2>2 DEF IndInv, QueueTypeOK, QueueSend
    <2>4. QueueTypeOK'
      <3>1. qidx' \in [Senders -> 1..MaxMsgs + 1]
        <4>1. qidx \in [Senders -> 1..MaxMsgs + 1] /\ qlen \in [Senders -> 0..MaxMsgs]
          BY DEF IndInv, QueueTypeOK
        <4>2. qidx[s] <= qlen[s] /\ qidx' = [qidx EXCEPT ![s] = @ + 1]
          BY <1>3 DEF QueueSend
        <4>3. qidx[s] + 1 \in 1..MaxMsgs + 1
          BY <4>1, <4>2
        <4> QED
          BY <4>1, <4>2, <4>3
      <3> QED
        BY <1>3, <2>3, <3>1 DEF IndInv, QueueTypeOK, QueueSend
    <2>5. Phase'
      BY <1>3 DEF IndInv, QueueTypeOK, Phase, QueueSend
    <2>6. Held' = Held /\ handed' = handed
      BY <1>3 DEF QueueSend, Held, InLoop, msgBatch, Slice
    <2>7. Conservation'
      <3>1. Held \in Seq(Msgs) /\ handed \in Seq(Msgs) /\ msgC \in Seq(Msgs)
        BY HeldIsSeq DEF IndInv, QueueTypeOK
      <3>2. handed \o Held \in Seq(Msgs)
        BY <3>1, ConcatProperties
      <3> DEFINE front == handed \o Held
      <3> HIDE DEF m, front
      <3>3. Append(front \o msgC, m) = front \o (msgC \o <<m>>)
        BY <3>1, <3>2, <2>1, AppendLast DEF front
      <3>4. msgC' = msgC \o <<m>>
        BY <3>1, <2>1, <2>2, AppendIsConcat
      <3> QED
        BY <3>3, <3>4, <2>2, <2>6 DEF IndInv, Conservation, front
    <2>8. SubmissionIntact'
      BY <1>3 DEF IndInv, SubmissionIntact, QueueSend, toSubmit, Slice
    <2> QED
      BY <2>4, <2>5, <2>7, <2>8 DEF IndInv
  <1>4. CASE QueuePanic(s) \/ QueueTimeout(s) \/ QueueReturn(s)
    <2>0. PICK p \in {"idle", "panicked"}, r \in {"panic", "ErrEnqueueTimeout", "ok"} :
              /\ qpc' = [qpc EXCEPT ![s] = p] /\ qres' = [qres EXCEPT ![s] = r]
      BY <1>4 DEF QueuePanic, QueueTimeout, QueueReturn
    <2>00. /\ qpc[s] = "send"
           /\ UNCHANGED <<canSign, chanVars, qcall, qlen, qidx, cpc, waitVars, batchVars,
                          accepted>>
      BY <1>4 DEF QueuePanic, QueueTimeout, QueueReturn
    <2>1. QueueTypeOK'
      <3>1. qpc' \in [Senders -> {"idle", "send", "panicked"}]
        BY <2>0 DEF IndInv, QueueTypeOK
      <3>2. qres' \in [Senders -> Results]
        BY <2>0 DEF IndInv, QueueTypeOK, Results
      <3> QED
        BY <2>00, <3>1, <3>2 DEF IndInv, QueueTypeOK
    <2>2. Phase'
      <3>1. \A t \in Senders : qpc'[t] = "send" => qpc[t] = "send"
        BY <2>0, <2>00 DEF IndInv, QueueTypeOK
      <3> QED
        BY <2>00, <3>1 DEF IndInv, Phase
    <2> QED
      BY <2>00, <2>1, <2>2, FrameStep DEF IndInv
  <1> QED
    BY <1>1, <1>2, <1>3, <1>4 DEF SenderStep

LEMMA CloserKeepsIndInv ==
    ASSUME IndInv, NEW c \in Closers, CloseReadOnly(c) \/ CloseSwap(c) \/ CloserStep(c)
    PROVE  IndInv'
  <1> USE DEF chanVars, senderVars, waitVars, batchVars, CloserStep
  <1>1. CASE CloseReadOnly(c)
    <2>1. QueueTypeOK'
      BY <1>1 DEF IndInv, QueueTypeOK, CloseReadOnly
    <2> QED
      BY <1>1, <2>1, FrameStep, FramePhase DEF IndInv, CloseReadOnly
  <1>2. CASE CloseSwap(c)
    <2>1. QueueTypeOK'
      BY <1>2 DEF IndInv, QueueTypeOK, CloseSwap
    <2> QED
      BY <1>2, <2>1, FrameStep, FramePhase DEF IndInv, CloseSwap
  <1>3. CASE CloseChannel(c)
    <2>1. QueueTypeOK'
      BY <1>3 DEF IndInv, QueueTypeOK, CloseChannel
    <2> QED
      BY <1>3, <2>1, FrameStep, FramePhase DEF IndInv, CloseChannel
  <1>4. CASE CloseReturn(c)
    <2>1. QueueTypeOK'
      BY <1>4 DEF IndInv, QueueTypeOK, CloseReturn
    <2> QED
      BY <1>4, <2>1, FrameStep, FramePhase DEF IndInv, CloseReturn
  <1> QED
    BY <1>1, <1>2, <1>3, <1>4

LEMMA WaiterKeepsIndInv ==
    ASSUME IndInv, NEW w \in Waiters, BroadcastDoneCall(w) \/ BroadcastDoneReturn(w)
    PROVE  IndInv'
  <1> USE BoundAssumption, CapAssumption DEF chanVars, senderVars, waitVars, batchVars
  <1>1. CASE BroadcastDoneCall(w)
    <2>1. wcall' \in [Waiters -> 0..MaxQueueCalls] /\ wpc' \in [Waiters -> {"idle", "waiting"}]
      BY <1>1 DEF IndInv, QueueTypeOK, BroadcastDoneCall
    <2>2. QueueTypeOK'
      BY <1>1, <2>1 DEF IndInv, QueueTypeOK, BroadcastDoneCall
    <2> QED
      BY <1>1, <2>2, FrameStep, FramePhase DEF IndInv, BroadcastDoneCall
  <1>2. CASE BroadcastDoneReturn(w)
    <2>1. broadcasted' \in 0..TokenCap /\ wpc' \in [Waiters -> {"idle", "waiting"}]
      BY <1>2 DEF IndInv, QueueTypeOK, BroadcastDoneReturn
    <2>2. QueueTypeOK'
      BY <1>2, <2>1 DEF IndInv, QueueTypeOK, BroadcastDoneReturn
    <2> QED
      BY <1>2, <2>2, FrameStep, FramePhase DEF IndInv, BroadcastDoneReturn
  <1> QED
    BY <1>1, <1>2

\* One more cell of the array: a slice grown by its next element.
LEMMA SliceGrows ==
    ASSUME NEW S, NEW n \in Nat, NEW f, \A i \in 1..(n + 1) : f[i] \in S
    PROVE  [i \in 1..(n + 1) |-> f[i]] = [i \in 1..n |-> f[i]] \o <<f[n + 1]>>
  <1> DEFINE long == [i \in 1..(n + 1) |-> f[i]]
             short == [i \in 1..n |-> f[i]]
             last == <<f[n + 1]>>
  <1>1. long \in Seq(S) /\ Len(long) = n + 1
    OBVIOUS
  <1>2. short \in Seq(S) /\ Len(short) = n /\ last \in Seq(S) /\ Len(last) = 1
    OBVIOUS
  <1>3. /\ short \o last \in Seq(S) /\ Len(short \o last) = n + 1
        /\ \A i \in 1..(n + 1) : (short \o last)[i] =
               IF i <= n THEN short[i] ELSE last[i - n]
    BY <1>2, ConcatProperties
  <1>4. \A i \in 1..(n + 1) : long[i] = (short \o last)[i]
    BY <1>3
  <1> HIDE DEF long, short, last
  <1>5. long = short \o last
    BY <1>1, <1>3, <1>4, SeqEqual
  <1> QED
    BY <1>5 DEF long, short, last

\* A batch that is taken whole: the front of the pipe moves from the slice to
\* the submission.
LEMMA TakeWhole ==
    ASSUME NEW S, NEW h \in Seq(S), NEW b \in Seq(S), b # <<>>
    PROVE  /\ h \o b \in Seq(S)
           /\ (h \o b) \o <<>> = h \o b
           /\ SubSeq(h \o b, Len(h \o b) - Len(b) + 1, Len(h \o b)) = b
  <1>1. h \o b \in Seq(S)
    BY ConcatProperties
  <1> QED
    BY <1>1, ConcatEmptySeq, SuffixOfConcat

\* The slice after append(msgBatch, msg).
Grown == [i \in 1..(batchLen + 1) |-> buf'[i]]

\* What BatchReceive does to the array and to the two ends of the pipe.
LEMMA ReceiveFacts ==
    ASSUME IndInv, BatchReceive
    PROVE  /\ msgC' \in Seq(Msgs) /\ Len(msgC') <= Limit
           /\ batchLen + 1 \in 1..Limit /\ submitLen = 0 /\ bpc = "select"
           /\ buf' \in [1..Limit -> Msgs \cup {NoMsg}]
           /\ \A i \in 1..(batchLen + 1) : buf'[i] \in Msgs
           /\ handed \in Seq(Msgs) /\ Grown \in Seq(Msgs)
           /\ Len(Grown) = batchLen + 1 /\ Grown # <<>>
           /\ Held \o msgC = Grown \o msgC'
           /\ accepted = (handed \o Grown) \o msgC'
  <1> USE LimitAssumption
  <1> DEFINE m == Head(msgC)
             n == batchLen + 1
  <1>1. m \in Msgs /\ msgC' \in Seq(Msgs) /\ Len(msgC') <= Limit
    <2>1. msgC \in Seq(Msgs) /\ msgC # <<>> /\ Len(msgC) <= Limit /\ msgC' = Tail(msgC)
      BY DEF IndInv, QueueTypeOK, BatchReceive
    <2>2. Head(msgC) \in Msgs /\ Tail(msgC) \in Seq(Msgs) /\ Len(Tail(msgC)) = Len(msgC) - 1
      BY <2>1, HeadTailProperties
    <2>3. Len(msgC) \in Nat
      BY <2>1, LenProperties
    <2> QED
      BY <2>1, <2>2, <2>3
  <1>2. n \in 1..Limit /\ batchLen \in Nat /\ submitLen = 0 /\ bpc = "select"
    BY DEF IndInv, QueueTypeOK, Phase, BatchReceive
  <1>3. /\ buf' \in [1..Limit -> Msgs \cup {NoMsg}]
        /\ \A i \in 1..batchLen : buf'[i] = buf[i]
        /\ buf'[n] = m
        /\ \A i \in 1..n : buf'[i] \in Msgs
    BY <1>1, <1>2 DEF IndInv, QueueTypeOK, Phase, BatchReceive
  <1>4. /\ handed \in Seq(Msgs) /\ msgBatch \in Seq(Msgs) /\ msgC \in Seq(Msgs)
        /\ msgC # <<>> /\ msgC' = Tail(msgC)
    BY HeldIsSeq DEF IndInv, QueueTypeOK, BatchReceive
  <1>5. /\ Grown \in Seq(Msgs) /\ Len(Grown) = n /\ Grown # <<>>
        /\ Grown = msgBatch \o <<m>>
    <2>1. Grown \in Seq(Msgs) /\ Len(Grown) = n
      BY <1>2, <1>3 DEF Grown
    <2>2. [i \in 1..batchLen |-> buf'[i]] = msgBatch
      BY <1>3 DEF msgBatch, Slice
    <2>3. Grown = [i \in 1..batchLen |-> buf'[i]] \o <<buf'[batchLen + 1]>>
      BY <1>2, <1>3, SliceGrows DEF Grown
    <2>4. Grown # <<>>
      BY <2>1, <1>2
    <2> QED
      BY <2>1, <2>2, <2>3, <2>4, <1>3
  <1>6. Held \o msgC = Grown \o msgC'
    <2>1. Held = msgBatch
      BY <1>2 DEF Held, InLoop
    <2>2. msgC = <<Head(msgC)>> \o Tail(msgC) /\ <<m>> \in Seq(Msgs) /\ Tail(msgC) \in Seq(Msgs)
      BY <1>1, <1>4, HeadTailProperties
    <2>3. msgBatch \o (<<m>> \o Tail(msgC)) = (msgBatch \o <<m>>) \o Tail(msgC)
      <3> DEFINE b == msgBatch
                 h == <<m>>
                 t == Tail(msgC)
      <3>1. b \in Seq(Msgs) /\ h \in Seq(Msgs) /\ t \in Seq(Msgs)
        BY <1>4, <2>2
      <3> HIDE DEF b, h, t
      <3>2. b \o (h \o t) = (b \o h) \o t
        BY <3>1, ConcatAssociative
      <3> QED
        BY <3>2 DEF b, h, t
    <2> QED
      BY <2>1, <2>2, <2>3, <1>4, <1>5
  <1>7. accepted = (handed \o Grown) \o msgC'
    <2>1. accepted = (handed \o msgBatch) \o msgC
      BY <1>2 DEF IndInv, Conservation, Held, InLoop
    <2>2. (handed \o msgBatch) \o msgC = (handed \o (msgBatch \o <<m>>)) \o Tail(msgC)
      BY <1>4, MoveHead
    <2> QED
      BY <2>1, <2>2, <1>4, <1>5
  <1> QED
    BY <1>1, <1>2, <1>3, <1>4, <1>5, <1>6, <1>7

LEMMA ReceiveKeepsIndInv ==
    ASSUME IndInv, BatchReceive
    PROVE  IndInv'
  <1> USE LimitAssumption DEF chanVars, senderVars, waitVars, batchVars
  <1> DEFINE n == batchLen + 1
  <1>1. msgC' \in Seq(Msgs) /\ Len(msgC') <= Limit
    BY ReceiveFacts
  <1>2. n \in 1..Limit /\ submitLen = 0 /\ bpc = "select"
    BY ReceiveFacts
  <1>3. /\ buf' \in [1..Limit -> Msgs \cup {NoMsg}]
        /\ \A i \in 1..n : buf'[i] \in Msgs
    BY ReceiveFacts
  <1>4. handed \in Seq(Msgs) /\ Grown \in Seq(Msgs) /\ Len(Grown) = n /\ Grown # <<>>
    BY ReceiveFacts
  <1>5. accepted = (handed \o Grown) \o msgC'
    BY ReceiveFacts
  <1>6. CASE n >= Limit
    <2>1. /\ submitLen' = n /\ batchLen' = 0 /\ handed' = handed \o Grown
          /\ bpc' = "submit" /\ armed' = TRUE
      BY <1>6 DEF BatchReceive, TakeBatch, Grown
    <2>2. /\ handed' \in Seq(Msgs)
          /\ handed' \o <<>> = handed'
          /\ SubSeq(handed', Len(handed') - Len(Grown) + 1, Len(handed')) = Grown
      <3>1. handed \in Seq(Msgs) /\ Grown \in Seq(Msgs) /\ Grown # <<>>
        BY <1>4
      <3>2. /\ handed \o Grown \in Seq(Msgs)
            /\ (handed \o Grown) \o <<>> = handed \o Grown
            /\ SubSeq(handed \o Grown, Len(handed \o Grown) - Len(Grown) + 1,
                      Len(handed \o Grown)) = Grown
        BY <3>1, TakeWhole
      <3> QED
        BY <3>2, <2>1
    <2>3. QueueTypeOK'
      BY <1>1, <1>2, <1>3, <2>1, <2>2 DEF IndInv, QueueTypeOK, BatchReceive
    <2>4. Phase'
      BY <1>2, <2>1 DEF IndInv, QueueTypeOK, Phase, BatchReceive
    <2>5. Held' = <<>>
      BY <2>1 DEF Held, InLoop, msgBatch, Slice
    <2>6. accepted' = accepted
      BY DEF BatchReceive
    <2>7. Conservation'
      BY <1>5, <2>1, <2>2, <2>5, <2>6 DEF Conservation
    <2>8. toSubmit' = Grown
      BY <2>1 DEF toSubmit, Slice, Grown
    <2>9. SubmissionIntact'
      BY <2>1, <2>2, <2>8, <1>4 DEF SubmissionIntact
    <2> QED
      BY <2>3, <2>4, <2>7, <2>9 DEF IndInv
  <1>7. CASE n < Limit
    <2>1. batchLen' = n /\ UNCHANGED <<bpc, submitLen, handed, armed, accepted>>
      BY <1>2, <1>7 DEF BatchReceive
    <2>2. QueueTypeOK'
      BY <1>1, <1>2, <1>3, <2>1 DEF IndInv, QueueTypeOK, BatchReceive
    <2>3. Phase'
      BY <1>2, <1>3, <1>7, <2>1 DEF IndInv, QueueTypeOK, Phase, BatchReceive
    <2>4. Held' = Grown
      BY <1>2, <2>1 DEF Held, InLoop, msgBatch, Slice, Grown
    <2>5. Conservation'
      BY <1>5, <2>1, <2>4 DEF Conservation
    <2>6. SubmissionIntact'
      BY <1>2, <2>1 DEF SubmissionIntact
    <2> QED
      BY <2>2, <2>3, <2>5, <2>6 DEF IndInv
  <1> QED
    BY <1>2, <1>6, <1>7

\* The other steps of runBatchBroadcast that start a submission: msgBatch as a
\* whole becomes toSubmit, the array does not change.
LEMMA TakeKeepsIndInv ==
    ASSUME IndInv, batchLen > 0, bpc = "select",
           handed' = handed \o msgBatch, submitLen' = batchLen, Held' = <<>>,
           UNCHANGED <<msgC, buf, accepted>>
    PROVE  handed' \in Seq(Msgs) /\ Conservation' /\ SubmissionIntact'
  <1>1. /\ handed \in Seq(Msgs) /\ msgBatch \in Seq(Msgs) /\ Len(msgBatch) = batchLen
        /\ batchLen \in Nat
    BY HeldIsSeq, LimitAssumption DEF IndInv, QueueTypeOK
  <1>2. msgBatch # <<>>
    BY <1>1
  <1>3. /\ handed' \in Seq(Msgs)
        /\ handed' \o <<>> = handed'
        /\ SubSeq(handed', Len(handed') - Len(msgBatch) + 1, Len(handed')) = msgBatch
    <2> DEFINE h == handed
               b == msgBatch
    <2>1. h \in Seq(Msgs) /\ b \in Seq(Msgs) /\ b # <<>> /\ handed' = h \o b
      BY <1>1, <1>2
    <2> HIDE DEF h, b
    <2>2. /\ h \o b \in Seq(Msgs)
          /\ (h \o b) \o <<>> = h \o b
          /\ SubSeq(h \o b, Len(h \o b) - Len(b) + 1, Len(h \o b)) = b
      BY <2>1, TakeWhole
    <2> QED
      BY <2>1, <2>2 DEF b
  <1>4. accepted = (handed \o msgBatch) \o msgC
    BY DEF IndInv, Conservation, Held, InLoop
  <1>5. toSubmit' = msgBatch
    BY DEF toSubmit, msgBatch, Slice
  <1> QED
    BY <1>1, <1>3, <1>4, <1>5 DEF Conservation, SubmissionIntact

LEMMA ClosedKeepsIndInv ==
    ASSUME IndInv, BatchClosed
    PROVE  IndInv'
  <1> USE LimitAssumption DEF chanVars, senderVars, waitVars, batchVars
  <1>1. CASE batchLen > 0
    <2>1. /\ submitLen' = batchLen /\ handed' = handed \o msgBatch /\ bpc' = "last"
          /\ bpc = "select" /\ UNCHANGED <<msgC, buf, accepted>>
      BY <1>1 DEF BatchClosed
    <2>2. Held' = <<>>
      BY <2>1 DEF Held, InLoop
    <2>3. handed' \in Seq(Msgs) /\ Conservation' /\ SubmissionIntact'
      BY <1>1, <2>1, <2>2, TakeKeepsIndInv
    <2>4. QueueTypeOK'
      BY <1>1, <2>1, <2>3 DEF IndInv, QueueTypeOK, BatchClosed
    <2>5. Phase'
      BY <1>1, <2>1 DEF IndInv, QueueTypeOK, Phase, BatchClosed
    <2> QED
      BY <2>3, <2>4, <2>5 DEF IndInv
  <1>2. CASE batchLen = 0
    <2>1. bpc' = "exit" /\ bpc = "select" /\ UNCHANGED <<submitLen, handed, msgC, buf, accepted>>
      BY <1>2 DEF BatchClosed
    <2>2. Held' = <<>> /\ Held = <<>>
      BY <1>2, <2>1 DEF Held, InLoop, msgBatch, Slice
    <2>3. Conservation'
      BY <2>1, <2>2 DEF IndInv, Conservation
    <2>4. SubmissionIntact'
      BY <2>1 DEF IndInv, Phase, SubmissionIntact
    <2>5. QueueTypeOK'
      BY <1>2, <2>1 DEF IndInv, QueueTypeOK, BatchClosed
    <2>6. Phase'
      BY <1>2, <2>1 DEF IndInv, QueueTypeOK, Phase, BatchClosed
    <2> QED
      BY <2>3, <2>4, <2>5, <2>6 DEF IndInv
  <1>3. batchLen \in Nat
    BY DEF IndInv, QueueTypeOK
  <1> QED
    BY <1>1, <1>2, <1>3

LEMMA ExpireKeepsIndInv ==
    ASSUME IndInv, BatchExpire
    PROVE  IndInv'
  <1> USE LimitAssumption DEF chanVars, senderVars, waitVars, batchVars
  <1>1. CASE batchLen > 0
    <2>1. /\ submitLen' = batchLen /\ batchLen' = 0 /\ bpc' = "submit"
          /\ bpc = "select" /\ UNCHANGED <<msgC, buf, accepted>>
      BY <1>1 DEF BatchExpire, TakeBatch
    <2>2. handed' = handed \o msgBatch
      BY <1>1, <2>1 DEF BatchExpire, TakeBatch, msgBatch, Slice
    <2>3. Held' = <<>>
      BY <2>1 DEF Held, InLoop, msgBatch, Slice
    <2>4. handed' \in Seq(Msgs) /\ Conservation' /\ SubmissionIntact'
      BY <1>1, <2>1, <2>2, <2>3, TakeKeepsIndInv
    <2>5. QueueTypeOK'
      <3>1. armed' = TRUE /\ tick' = FALSE /\ batchLen' \in 0..Limit
        BY <2>1 DEF BatchExpire
      <3>2. UNCHANGED <<canSign, chanVars, senderVars, cpc, waitVars, accepted, buf>>
        BY DEF BatchExpire
      <3> QED
        BY <3>1, <3>2, <2>1, <2>4 DEF IndInv, QueueTypeOK
    <2>6. Phase'
      BY <1>1, <2>1 DEF IndInv, QueueTypeOK, Phase, BatchExpire
    <2> QED
      BY <2>4, <2>5, <2>6 DEF IndInv
  <1>2. CASE batchLen = 0
    <2>1. UNCHANGED <<bpc, batchLen, submitLen, handed>>
      BY <1>2 DEF BatchExpire
    <2>2. QueueTypeOK'
      BY <2>1 DEF IndInv, QueueTypeOK, BatchExpire
    <2> QED
      BY <2>1, <2>2, FrameStep, FramePhase DEF IndInv, BatchExpire
  <1>3. batchLen \in Nat
    BY DEF IndInv, QueueTypeOK
  <1> QED
    BY <1>1, <1>2, <1>3

LEMMA SubmitKeepsIndInv ==
    ASSUME IndInv, SubmitStep
    PROVE  IndInv'
  <1> USE LimitAssumption, CapAssumption DEF chanVars, senderVars, waitVars, batchVars
  <1>1. /\ UNCHANGED <<msgC, buf, batchLen, accepted, handed, chanClosed, doneC, qpc, qcall>>
        /\ bpc \in {"submit", "signal", "last", "lastSignal"}
        /\ bpc' \in {"signal", "lastSignal", "select", "exit"}
        /\ bpc' \in {"signal", "select"} <=> bpc \in {"submit", "signal"}
        /\ \/ submitLen' = submitLen /\ bpc' \in {"signal", "lastSignal"}
           \/ submitLen' = 0 /\ bpc' \in {"select", "exit"}
    BY DEF SubmitStep, SubmitOk, SubmitSignal, SubmitErr
  <1>2. QueueTypeOK'
    <2>1. CASE SubmitOk
      BY <2>1, <1>1 DEF IndInv, QueueTypeOK, SubmitOk
    <2>2. CASE SubmitSignal
      <3>1. broadcasted' \in 0..TokenCap
        BY <2>2 DEF IndInv, QueueTypeOK, SubmitSignal
      <3> QED
        BY <2>2, <1>1, <3>1 DEF IndInv, QueueTypeOK, SubmitSignal
    <2>3. CASE SubmitErr
      BY <2>3, <1>1 DEF IndInv, QueueTypeOK, SubmitErr
    <2> QED
      BY <2>1, <2>2, <2>3 DEF SubmitStep
  <1>3. Phase'
    BY <1>1 DEF IndInv, QueueTypeOK, Phase
  <1>4. Held' = Held
    BY <1>1 DEF Held, InLoop, msgBatch, Slice
  <1>5. Conservation'
    BY <1>1, <1>4 DEF IndInv, Conservation
  <1>6. SubmissionIntact'
    BY <1>1 DEF IndInv, SubmissionIntact, toSubmit, Slice
  <1> QED
    BY <1>2, <1>3, <1>5, <1>6 DEF IndInv

LEMMA ExitKeepsIndInv ==
    ASSUME IndInv, BatchExit \/ TimerFire
    PROVE  IndInv'
  <1> USE DEF chanVars, senderVars, waitVars, batchVars
  <1>1. CASE BatchExit
    <2>1. QueueTypeOK'
      BY <1>1 DEF IndInv, QueueTypeOK, BatchExit
    <2>2. Phase'
      BY <1>1 DEF IndInv, QueueTypeOK, Phase, BatchExit
    <2>3. Held' = Held
      BY <1>1 DEF BatchExit, Held, InLoop
    <2>4. Conservation' /\ SubmissionIntact'
      BY <1>1, <2>3
      DEF IndInv, Conservation, SubmissionIntact, BatchExit, toSubmit, Slice
    <2> QED
      BY <2>1, <2>2, <2>4 DEF IndInv
  <1>2. CASE TimerFire
    <2>1. QueueTypeOK'
      BY <1>2 DEF IndInv, QueueTypeOK, TimerFire
    <2> QED
      BY <1>2, <2>1, FrameStep, FramePhase DEF IndInv, TimerFire
  <1> QED
    BY <1>1, <1>2

LEMMA NextIndInv == IndInv /\ [QueueNext]_queueVars => IndInv'
  <1> SUFFICES ASSUME IndInv, [QueueNext]_queueVars PROVE IndInv'
    OBVIOUS
  <1>1. CASE UNCHANGED queueVars
    <2>1. QueueTypeOK'
      BY <1>1 DEF IndInv, QueueTypeOK, queueVars, chanVars, senderVars, waitVars, batchVars
    <2> QED
      BY <1>1, <2>1, FrameStep, FramePhase
      DEF IndInv, queueVars, chanVars, senderVars, waitVars, batchVars
  <1>2. CASE BatcherStep \/ TimerFire
    BY <1>2, ReceiveKeepsIndInv, ClosedKeepsIndInv, ExpireKeepsIndInv,
       SubmitKeepsIndInv, ExitKeepsIndInv DEF BatcherStep
  <1> QED
    BY <1>1, <1>2, SenderKeepsIndInv, CloserKeepsIndInv, WaiterKeepsIndInv DEF QueueNext

(* The theorems. *)

\* The type invariant of the queue, for every number of goroutines, every
\* batch limit and every channel capacity.
THEOREM QueueTypeCorrect == QueueSpec => []QueueTypeOK
  <1>1. IndInv => QueueTypeOK
    BY DEF IndInv
  <1> QED
    BY <1>1, InitIndInv, NextIndInv, PTL DEF QueueSpec

\* No message is lost, duplicated or reordered on its way from
\* QueueBroadcastMsg to submitBatch.
THEOREM QueueConserves == QueueSpec => []Conservation
  <1>1. IndInv => Conservation
    BY DEF IndInv
  <1> QED
    BY <1>1, InitIndInv, NextIndInv, PTL DEF QueueSpec

\* submitBatch can read its slice until it returns, although the next batch
\* will be built in the same array.
THEOREM QueueSubmissionIntact == QueueSpec => []SubmissionIntact
  <1>1. IndInv => SubmissionIntact
    BY DEF IndInv
  <1> QED
    BY <1>1, InitIndInv, NextIndInv, PTL DEF QueueSpec

\* When Close can return, every accepted message has been submitted.
THEOREM QueueDrains == QueueSpec => []DrainedWhenDone
  <1>1. IndInv => DrainedWhenDone
    <2> SUFFICES ASSUME IndInv, doneC PROVE handed = accepted /\ submitLen = 0
      BY DEF DrainedWhenDone
    <2>1. bpc = "stopped" /\ msgC = <<>> /\ submitLen = 0
      BY DEF IndInv, Phase
    <2>2. Held = <<>> /\ handed \in Seq(Msgs)
      BY <2>1 DEF Held, InLoop, IndInv, QueueTypeOK
    <2>3. (handed \o <<>>) \o <<>> = handed
      BY <2>2, ConcatEmptySeq
    <2> QED
      BY <2>1, <2>2, <2>3 DEF IndInv, Conservation
  <1> QED
    BY <1>1, InitIndInv, NextIndInv, PTL DEF QueueSpec

(* The timer. *)

LEMMA NextTimerAlive == QueueTypeOK /\ TimerAlive /\ [QueueNext]_queueVars => TimerAlive'
  <1> SUFFICES ASSUME QueueTypeOK, TimerAlive, [QueueNext]_queueVars PROVE TimerAlive'
    OBVIOUS
  <1> USE DEF chanVars, senderVars, waitVars, batchVars, TimerAlive, InLoop
  <1>1. CASE BatchReceive
    BY <1>1 DEF BatchReceive, TakeBatch
  <1>2. CASE BatchClosed
    BY <1>2 DEF BatchClosed
  <1>3. CASE BatchExpire
    BY <1>3 DEF BatchExpire
  <1>4. CASE SubmitStep
    BY <1>4 DEF SubmitStep, SubmitOk, SubmitSignal, SubmitErr
  <1>5. CASE BatchExit \/ TimerFire
    BY <1>5 DEF BatchExit, TimerFire
  <1>6. CASE UNCHANGED batchVars
    BY <1>6
  <1>7. ASSUME NEW s \in Senders,
               \/ QueueRefused(s) \/ SenderStep(s)
               \/ \E n \in 0..MaxMsgs : QueueEnter(s, n)
        PROVE  UNCHANGED batchVars
    BY <1>7 DEF QueueRefused, QueueEnter, SenderStep,
                QueueSend, QueuePanic, QueueTimeout, QueueReturn
  <1>8. ASSUME NEW c \in Closers, CloseReadOnly(c) \/ CloseSwap(c) \/ CloserStep(c)
        PROVE  UNCHANGED batchVars
    BY <1>8 DEF CloseReadOnly, CloseSwap, CloserStep, CloseChannel, CloseReturn
  <1>9. ASSUME NEW w \in Waiters, BroadcastDoneCall(w) \/ BroadcastDoneReturn(w)
        PROVE  UNCHANGED batchVars
    BY <1>9 DEF BroadcastDoneCall, BroadcastDoneReturn
  <1>10. CASE UNCHANGED queueVars
    BY <1>10 DEF queueVars
  <1> QED
    BY <1>1, <1>2, <1>3, <1>4, <1>5, <1>6, <1>7, <1>8, <1>9, <1>10 DEF QueueNext, BatcherStep

\* A batch below its limit always has a timer that will flush it: no order of
\* expiries, resets and full batches loses it.
THEOREM QueueTimerAlive == QueueSpec => []TimerAlive
  <1>1. QueueInit => TimerAlive
    BY DEF QueueInit, TimerAlive, InLoop
  <1> QED
    BY <1>1, QueueTypeCorrect, NextTimerAlive, PTL DEF QueueSpec

(* The messages of one call. *)

\* Message m has been accepted after the step.
AcceptedNext(m) == \E a \in 1..Len(accepted') : accepted'[a] = m

\* What a send adds to the accepted messages.
LEMMA AcceptedGrows ==
    ASSUME NEW m \in Msgs, accepted \in Seq(Msgs), accepted' = Append(accepted, m)
    PROVE  /\ Len(accepted) \in Nat /\ Len(accepted') = Len(accepted) + 1
           /\ accepted'[Len(accepted) + 1] = m
           /\ \A a \in 1..Len(accepted) : accepted'[a] = accepted[a]
           /\ \A x : AcceptedNext(x) <=> Accepted(x) \/ x = m
  <1>1. Len(accepted) \in Nat
    BY LenProperties
  <1>2. /\ Len(accepted') = Len(accepted) + 1
        /\ accepted'[Len(accepted) + 1] = m
        /\ \A a \in 1..Len(accepted) : accepted'[a] = accepted[a]
    BY AppendProperties
  <1>3. \A x : AcceptedNext(x) <=> Accepted(x) \/ x = m
    <2> TAKE x
    <2>1. ASSUME AcceptedNext(x) PROVE Accepted(x) \/ x = m
      <3> PICK a \in 1..Len(accepted') : accepted'[a] = x
        BY <2>1 DEF Accepted, AcceptedNext
      <3>1. CASE a \in 1..Len(accepted)
        BY <1>2, <3>1 DEF Accepted, AcceptedNext
      <3>2. CASE a = Len(accepted) + 1
        BY <1>2, <3>2
      <3> QED
        BY <1>1, <1>2, <3>1, <3>2
    <2>2. ASSUME Accepted(x) PROVE AcceptedNext(x)
      <3> PICK a \in 1..Len(accepted) : accepted[a] = x
        BY <2>2 DEF Accepted, AcceptedNext
      <3>1. a \in 1..Len(accepted') /\ accepted'[a] = x
        BY <1>1, <1>2
      <3> QED
        BY <3>1 DEF Accepted, AcceptedNext
    <2>3. ASSUME x = m PROVE AcceptedNext(x)
      <3>1. Len(accepted) + 1 \in 1..Len(accepted') /\ accepted'[Len(accepted) + 1] = x
        BY <1>1, <1>2, <2>3
      <3> QED
        BY <3>1 DEF Accepted, AcceptedNext
    <2> QED
      BY <2>1, <2>2, <2>3
  <1> QED
    BY <1>1, <1>2, <1>3

\* An accepted message is a message.
LEMMA AcceptedAreMsgs ==
    ASSUME QueueTypeOK, NEW a \in 1..Len(accepted)
    PROVE  /\ accepted[a] \in Msgs /\ accepted[a][1] \in Senders
           /\ accepted[a][2] \in 1..MaxQueueCalls /\ accepted[a][3] \in 1..MaxMsgs
           /\ accepted[a] = <<accepted[a][1], accepted[a][2], accepted[a][3]>>
  <1>1. accepted[a] \in Msgs
    BY ElementOfSeq DEF QueueTypeOK
  <1> QED
    BY <1>1 DEF Msgs

\* A send keeps both: the new message is the next one of its call.
LEMMA SendKeepsPrefix ==
    ASSUME IndInv, CallPrefix, Progress, NEW s \in Senders, QueueSend(s)
    PROVE  CallPrefix' /\ Progress'
  <1> USE BoundAssumption
  <1> DEFINE m == <<s, qcall[s], qidx[s]>>
  <1>0. QueueTypeOK /\ m \in Msgs
    BY SentIsMsg DEF IndInv
  <1>1. /\ qpc[s] = "send" /\ qidx[s] <= qlen[s]
        /\ accepted' = Append(accepted, m)
        /\ qidx' = [qidx EXCEPT ![s] = @ + 1] /\ UNCHANGED <<qpc, qcall, qlen, qres>>
    BY DEF QueueSend
  <1>2. /\ Len(accepted) \in Nat /\ Len(accepted') = Len(accepted) + 1
        /\ accepted'[Len(accepted) + 1] = m
        /\ \A a \in 1..Len(accepted) : accepted'[a] = accepted[a]
        /\ \A x : AcceptedNext(x) <=> Accepted(x) \/ x = m
    BY <1>0, <1>1, AcceptedGrows DEF QueueTypeOK
  <1>3. /\ m[1] = s /\ m[2] = qcall[s] /\ m[3] = qidx[s]
        /\ qcall[s] \in Nat /\ qidx[s] \in 1..MaxMsgs /\ qlen[s] \in Nat
        /\ qidx'[s] = qidx[s] + 1
    BY <1>0, <1>1 DEF Msgs, QueueTypeOK
  <1>4. /\ \A i \in 1..MaxMsgs : Accepted(<<s, qcall[s], i>>) <=> i < qidx[s]
        /\ qres[s] # "ok"
    BY <1>1 DEF Progress
  <1> HIDE DEF m
  <1>5. ASSUME NEW a \in 1..Len(accepted), accepted[a][1] = s, accepted[a][2] = qcall[s]
        PROVE  accepted[a][3] < qidx[s]
    <2>1. accepted[a] = <<s, qcall[s], accepted[a][3]>> /\ accepted[a][3] \in 1..MaxMsgs
      BY <1>0, <1>5, AcceptedAreMsgs
    <2>2. Accepted(<<s, qcall[s], accepted[a][3]>>)
      BY <2>1 DEF Accepted, AcceptedNext
    <2> QED
      BY <1>4, <2>1, <2>2
  <1>6. ASSUME NEW a \in 1..Len(accepted'), NEW b \in 1..Len(accepted'), a < b,
               accepted'[a][1] = accepted'[b][1], accepted'[a][2] = accepted'[b][2]
        PROVE  accepted'[a][3] < accepted'[b][3]
    <2>1. a \in 1..Len(accepted)
      BY <1>2, <1>6
    <2>2. CASE b \in 1..Len(accepted)
      BY <1>2, <1>6, <2>1, <2>2 DEF CallPrefix
    <2>3. CASE b = Len(accepted) + 1
      BY <1>2, <1>3, <1>5, <1>6, <2>1, <2>3
    <2> QED
      BY <1>2, <2>2, <2>3
  <1>7. ASSUME NEW a \in 1..Len(accepted'), NEW i \in 1..accepted'[a][3]
        PROVE  AcceptedNext(<<accepted'[a][1], accepted'[a][2], i>>)
    <2>1. CASE a \in 1..Len(accepted)
      <3>1. Accepted(<<accepted[a][1], accepted[a][2], i>>)
        BY <1>2, <1>7, <2>1 DEF CallPrefix
      <3> QED
        BY <1>2, <2>1, <3>1 DEF Accepted, AcceptedNext
    <2>2. CASE a = Len(accepted) + 1
      <3>1. accepted'[a] = m /\ i \in 1..qidx[s]
        BY <1>2, <1>3, <1>7, <2>2
      <3>2. CASE i = qidx[s]
        <4>1. <<m[1], m[2], i>> = m
          BY <1>3, <3>2 DEF m
        <4> QED
          BY <1>2, <3>1, <4>1 DEF Accepted, AcceptedNext
      <3>3. CASE i < qidx[s]
        <4>1. Accepted(<<s, qcall[s], i>>)
          BY <1>3, <1>4, <3>1, <3>3
        <4>2. AcceptedNext(<<s, qcall[s], i>>)
          BY <1>1, <1>2, <4>1 DEF Accepted, AcceptedNext
        <4> QED
          BY <1>1, <1>3, <3>1, <4>2 DEF Accepted, AcceptedNext
      <3> QED
        BY <1>3, <3>1, <3>2, <3>3
    <2> QED
      BY <1>2, <2>1, <2>2
  <1>8. ASSUME NEW u \in Senders, u # s, NEW k, NEW i
        PROVE  AcceptedNext(<<u, k, i>>) <=> Accepted(<<u, k, i>>)
    <2>1. <<u, k, i>> # m
      BY <1>8 DEF m
    <2> QED
      BY <1>2, <2>1 DEF Accepted, AcceptedNext
  <1>9. ASSUME NEW u \in Senders, qres'[u] = "ok", NEW i \in 1..MaxMsgs
        PROVE  AcceptedNext(<<u, qcall'[u], i>>) <=> i <= qlen'[u]
    <2>1. u # s
      BY <1>1, <1>4, <1>9
    <2>2. Accepted(<<u, qcall[u], i>>) <=> i <= qlen[u]
      BY <1>1, <1>9 DEF CallPrefix
    <2> QED
      BY <1>1, <1>8, <2>1, <2>2
  <1>10. CallPrefix'
    BY <1>6, <1>7, <1>9 DEF CallPrefix, Accepted, AcceptedNext
  <1>11. ASSUME NEW u \in Senders, NEW a \in 1..Len(accepted'), accepted'[a][1] = u
         PROVE  accepted'[a][2] <= qcall'[u]
    <2>1. CASE a \in 1..Len(accepted)
      BY <1>1, <1>2, <1>11, <2>1 DEF Progress
    <2>2. CASE a = Len(accepted) + 1
      BY <1>1, <1>2, <1>3, <1>11, <2>2
    <2> QED
      BY <1>2, <2>1, <2>2
  <1>12. ASSUME NEW u \in Senders, qpc'[u] = "send"
         PROVE  /\ qidx'[u] <= qlen'[u] + 1
                /\ \A i \in 1..MaxMsgs : AcceptedNext(<<u, qcall'[u], i>>) <=> i < qidx'[u]
    <2>1. CASE u = s
      <3>1. qidx'[s] <= qlen'[s] + 1
        BY <1>1, <1>3
      <3>2. ASSUME NEW i \in 1..MaxMsgs
            PROVE  AcceptedNext(<<s, qcall[s], i>>) <=> i < qidx[s] + 1
        <4>1. <<s, qcall[s], i>> = m <=> i = qidx[s]
          BY DEF m
        <4>2. AcceptedNext(<<s, qcall[s], i>>) <=> Accepted(<<s, qcall[s], i>>) \/ i = qidx[s]
          BY <1>1, <1>2, <4>1 DEF Accepted, AcceptedNext
        <4> QED
          BY <1>3, <1>4, <4>2
      <3> QED
        BY <1>1, <1>3, <2>1, <3>1, <3>2
    <2>2. CASE u # s
      <3>1. qidx'[u] = qidx[u] /\ qidx[u] <= qlen[u] + 1
        BY <1>0, <1>1, <1>12, <2>2 DEF QueueTypeOK, Progress
      <3>2. \A i \in 1..MaxMsgs : Accepted(<<u, qcall[u], i>>) <=> i < qidx[u]
        BY <1>1, <1>12 DEF Progress
      <3> QED
        BY <1>1, <1>8, <2>2, <3>1, <3>2
    <2> QED
      BY <2>1, <2>2
  <1>13. Progress'
    BY <1>1, <1>4, <1>11, <1>12 DEF Progress, Accepted, AcceptedNext
  <1> QED
    BY <1>10, <1>13

\* The other steps of a caller accept nothing.
LEMMA CallerKeepsPrefix ==
    ASSUME IndInv, CallPrefix, Progress, NEW s \in Senders, accepted' = accepted,
           \/ QueueRefused(s) \/ QueuePanic(s) \/ QueueTimeout(s) \/ QueueReturn(s)
           \/ \E n \in 0..MaxMsgs : QueueEnter(s, n)
    PROVE  CallPrefix' /\ Progress'
  <1> USE BoundAssumption
  <1>0. QueueTypeOK
    BY DEF IndInv
  <1>1. \A x : AcceptedNext(x) <=> Accepted(x)
    BY DEF Accepted, AcceptedNext
  <1>2. \A u \in Senders \ {s} : /\ qpc'[u] = qpc[u] /\ qcall'[u] = qcall[u]
                                 /\ qlen'[u] = qlen[u] /\ qidx'[u] = qidx[u]
                                 /\ qres'[u] = qres[u]
    BY <1>0 DEF QueueRefused, QueuePanic, QueueTimeout, QueueReturn, QueueEnter, QueueTypeOK
  <1>3. /\ qcall[s] \in Nat /\ qlen[s] \in Nat /\ qidx[s] \in Nat
        /\ \A a \in 1..Len(accepted) : accepted[a][2] \in Nat
    <2>1. qcall[s] \in Nat /\ qlen[s] \in Nat /\ qidx[s] \in Nat
      BY <1>0 DEF QueueTypeOK
    <2>2. \A a \in 1..Len(accepted) : accepted[a][2] \in 1..MaxQueueCalls
      BY <1>0, AcceptedAreMsgs
    <2> QED
      BY <2>1, <2>2
  <1>4. qcall'[s] = qcall[s] \/ qcall'[s] = qcall[s] + 1
    BY <1>0 DEF QueueRefused, QueuePanic, QueueTimeout, QueueReturn, QueueEnter, QueueTypeOK
  <1>5. \A a \in 1..Len(accepted) : accepted[a][1] = s => accepted[a][2] <= qcall'[s]
    BY <1>3, <1>4 DEF Progress
  <1>6. qres'[s] = "ok" =>
            /\ qpc'[s] = "idle"
            /\ \A i \in 1..MaxMsgs : Accepted(<<s, qcall'[s], i>>) <=> i <= qlen'[s]
    <2>1. CASE QueueReturn(s)
      <3>1. /\ qpc[s] = "send" /\ qidx[s] > qlen[s] /\ UNCHANGED <<qcall, qlen>>
            /\ qpc'[s] = "idle"
        BY <1>0, <2>1 DEF QueueReturn, QueueTypeOK
      <3>2. /\ \A i \in 1..MaxMsgs : Accepted(<<s, qcall[s], i>>) <=> i < qidx[s]
            /\ qidx[s] <= qlen[s] + 1
        BY <3>1 DEF Progress
      <3>3. qidx[s] = qlen[s] + 1
        BY <1>3, <3>1, <3>2
      <3> QED
        BY <1>3, <3>1, <3>2, <3>3
    <2>2. CASE ~QueueReturn(s)
      BY <1>0, <2>2 DEF QueueRefused, QueuePanic, QueueTimeout, QueueEnter, QueueTypeOK
    <2> QED
      BY <2>1, <2>2
  <1>7. qpc'[s] = "send" =>
            /\ qidx'[s] <= qlen'[s] + 1
            /\ \A i \in 1..MaxMsgs : Accepted(<<s, qcall'[s], i>>) <=> i < qidx'[s]
    <2> SUFFICES ASSUME qpc'[s] = "send"
                 PROVE  /\ qidx'[s] <= qlen'[s] + 1
                        /\ \A i \in 1..MaxMsgs : Accepted(<<s, qcall'[s], i>>) <=> i < qidx'[s]
      OBVIOUS
    <2>1. PICK n \in 0..MaxMsgs : QueueEnter(s, n)
      BY <1>0 DEF QueueRefused, QueuePanic, QueueTimeout, QueueReturn, QueueTypeOK
    <2>2. qidx'[s] = 1 /\ qlen'[s] = n /\ qcall'[s] = qcall[s] + 1
      BY <1>0, <2>1 DEF QueueEnter, QueueTypeOK
    <2>3. ASSUME NEW i \in 1..MaxMsgs PROVE ~Accepted(<<s, qcall[s] + 1, i>>)
      <3> SUFFICES ASSUME NEW a \in 1..Len(accepted), accepted[a] = <<s, qcall[s] + 1, i>>
                   PROVE  FALSE
        BY DEF Accepted, AcceptedNext
      <3>1. accepted[a][1] = s /\ accepted[a][2] = qcall[s] + 1
        OBVIOUS
      <3>2. accepted[a][2] <= qcall[s]
        BY <3>1 DEF Progress
      <3> QED
        BY <1>3, <3>1, <3>2
    <2> QED
      BY <2>2, <2>3
  <1>8. Progress'
    <2> SUFFICES ASSUME NEW u \in Senders
                 PROVE  /\ \A a \in 1..Len(accepted) :
                               accepted[a][1] = u => accepted[a][2] <= qcall'[u]
                        /\ qpc'[u] = "send" =>
                              /\ qidx'[u] <= qlen'[u] + 1
                              /\ \A i \in 1..MaxMsgs :
                                     Accepted(<<u, qcall'[u], i>>) <=> i < qidx'[u]
                        /\ qres'[u] = "ok" => qpc'[u] = "idle"
      BY DEF Progress, Accepted, AcceptedNext
    <2>1. CASE u = s
      BY <1>5, <1>6, <1>7, <2>1
    <2>2. CASE u # s
      BY <1>2, <2>2 DEF Progress
    <2> QED
      BY <2>1, <2>2
  <1>9. ASSUME NEW u \in Senders, qres'[u] = "ok", NEW i \in 1..MaxMsgs
        PROVE  AcceptedNext(<<u, qcall'[u], i>>) <=> i <= qlen'[u]
    <2>1. Accepted(<<u, qcall'[u], i>>) <=> i <= qlen'[u]
      <3>1. CASE u = s
        BY <1>6, <1>9, <3>1
      <3>2. CASE u # s
        BY <1>2, <1>9, <3>2 DEF CallPrefix
      <3> QED
        BY <3>1, <3>2
    <2> QED
      BY <2>1 DEF Accepted, AcceptedNext
  <1>10. CallPrefix'
    BY <1>9 DEF CallPrefix, Accepted, AcceptedNext
  <1> QED
    BY <1>8, <1>10

LEMMA NextKeepsPrefix ==
    IndInv /\ CallPrefix /\ Progress /\ [QueueNext]_queueVars => CallPrefix' /\ Progress'
  <1> SUFFICES ASSUME IndInv, CallPrefix, Progress, [QueueNext]_queueVars
               PROVE  CallPrefix' /\ Progress'
    OBVIOUS
  <1> USE DEF chanVars, senderVars, waitVars, batchVars
  <1>1. ASSUME NEW s \in Senders,
               \/ QueueRefused(s) \/ SenderStep(s)
               \/ \E n \in 0..MaxMsgs : QueueEnter(s, n)
        PROVE  CallPrefix' /\ Progress'
    <2>1. CASE QueueSend(s)
      BY <2>1, SendKeepsPrefix
    <2>2. CASE ~QueueSend(s)
      <3>1. accepted' = accepted
        BY <1>1, <2>2 DEF SenderStep, QueueRefused, QueueEnter, QueuePanic, QueueTimeout,
                          QueueReturn
      <3> QED
        BY <1>1, <2>2, <3>1, CallerKeepsPrefix DEF SenderStep
    <2> QED
      BY <2>1, <2>2
  <1>2. CASE UNCHANGED <<senderVars, accepted>>
    <2>1. UNCHANGED <<accepted, qpc, qcall, qlen, qidx, qres>>
      BY <1>2
    <2> QED
      BY <2>1 DEF CallPrefix, Progress, Accepted
  <1>3. ASSUME NEW c \in Closers, CloseReadOnly(c) \/ CloseSwap(c) \/ CloserStep(c)
        PROVE  UNCHANGED <<senderVars, accepted>>
    BY <1>3 DEF CloseReadOnly, CloseSwap, CloserStep, CloseChannel, CloseReturn
  <1>4. ASSUME NEW w \in Waiters, BroadcastDoneCall(w) \/ BroadcastDoneReturn(w)
        PROVE  UNCHANGED <<senderVars, accepted>>
    BY <1>4 DEF BroadcastDoneCall, BroadcastDoneReturn
  <1>5. CASE BatcherStep \/ TimerFire \/ UNCHANGED queueVars
    <2>1. UNCHANGED <<senderVars, accepted>>
      BY <1>5 DEF BatcherStep, BatchReceive, BatchClosed, BatchExpire, SubmitStep, SubmitOk,
                  SubmitSignal, SubmitErr, BatchExit, TimerFire, queueVars
    <2> QED
      BY <1>2, <2>1
  <1> QED
    BY <1>1, <1>2, <1>3, <1>4, <1>5 DEF QueueNext

\* Of every call exactly a prefix is accepted, in the caller's order and each
\* message once, and all of it when the call returns nil.
THEOREM QueueCallPrefix == QueueSpec => []CallPrefix
  <1>1. QueueInit => CallPrefix /\ Progress
    <2> SUFFICES ASSUME QueueInit PROVE CallPrefix /\ Progress
      OBVIOUS
    <2>1. 1..Len(accepted) = {}
      BY EmptySeq DEF QueueInit
    <2> QED
      BY <2>1 DEF QueueInit, CallPrefix, Progress, Accepted
  <1> QED
    BY <1>1, InitIndInv, NextIndInv, NextKeepsPrefix, PTL DEF QueueSpec

(* The refinement. *)

\* Splitting a concatenation where it was joined.
LEMMA SplitConcat ==
    ASSUME NEW S, NEW a \in Seq(S), NEW b \in Seq(S), a # <<>>
    PROVE  /\ SubSeq(a \o b, 1, Len(a)) = a
           /\ SubSeq(a \o b, Len(a) + 1, Len(a \o b)) = b
           /\ Len(a) <= Len(a \o b)
  <1>1. /\ a \o b \in Seq(S) /\ Len(a \o b) = Len(a) + Len(b)
        /\ Len(a) \in Nat \ {0} /\ Len(b) \in Nat
    BY ConcatProperties, LenProperties, EmptySeq
  <1>2. SubSeq(a \o b, 1, Len(a)) = SubSeq(a, 1, Len(a))
    BY <1>1, SubSeqOfConcat1
  <1>3. SubSeq(a, 1, Len(a)) = a
    BY SubSeqFull
  <1>4. SubSeq(a \o b, Len(a) + 1, Len(a \o b)) = b
    <2>1. CASE b = <<>>
      <3>1. Len(b) = 0
        BY <2>1
      <3>2. SubSeq(a \o b, Len(a) + 1, Len(a \o b)) = <<>>
        BY <1>1, <3>1, SubSeqEmpty
      <3> QED
        BY <2>1, <3>2
    <2>2. CASE b # <<>>
      <3>1. Len(b) \in Nat \ {0}
        BY <2>2, EmptySeq
      <3>2. SubSeq(a \o b, Len(a) + 1, Len(a) + Len(b)) = SubSeq(b, 1, Len(b))
        BY <1>1, <3>1, SubSeqOfConcat2
      <3> QED
        BY <1>1, <3>2, SubSeqFull
    <2> QED
      BY <2>1, <2>2
  <1> QED
    BY <1>1, <1>2, <1>3, <1>4

\* Taking b from the front of b \o c is a Deliver step of the pipe.
LEMMA DeliverStep ==
    ASSUME NEW b \in Seq(Msgs), NEW c \in Seq(Msgs), b # <<>>,
           Held \o msgC = b \o c, (Held \o msgC)' = c,
           handed' = handed \o b, Len(b) \in 1..Limit, ~doneC,
           UNCHANGED <<chanClosed, doneC>>
    PROVE  Pipe!Next
  <1>1. /\ SubSeq(b \o c, 1, Len(b)) = b
        /\ SubSeq(b \o c, Len(b) + 1, Len(b \o c)) = c
        /\ Len(b) <= Len(b \o c)
    BY ONLY b \in Seq(Msgs), c \in Seq(Msgs), b # <<>>, SplitConcat
  <1>2. Pipe!Deliver(Len(b))
    BY <1>1 DEF Pipe!Deliver
  <1> QED
    BY <1>2 DEF Pipe!Next

\* Steps inside the queue that the pipe does not see.
LEMMA PipeStutters ==
    ASSUME Held' = Held, UNCHANGED <<msgC, handed, chanClosed, doneC>>
    PROVE  UNCHANGED Pipe!vars
  BY DEF Pipe!vars

LEMMA HeldFrame ==
    ASSUME UNCHANGED <<bpc, buf, batchLen>>
    PROVE  Held' = Held
  BY DEF Held, InLoop, msgBatch, Slice

LEMMA SenderPipeStep ==
    ASSUME IndInv, NEW s \in Senders,
           \/ QueueRefused(s) \/ SenderStep(s)
           \/ \E n \in 0..MaxMsgs : QueueEnter(s, n)
    PROVE  [Pipe!Next]_(Pipe!vars)
  <1> USE DEF chanVars, senderVars, waitVars, batchVars
  <1>1. CASE QueueSend(s)
    <2> DEFINE m == <<s, qcall[s], qidx[s]>>
    <2>1. m \in Msgs
      BY <1>1, SentIsMsg
    <2>2. /\ msgC' = Append(msgC, m) /\ ~chanClosed
          /\ UNCHANGED <<bpc, buf, batchLen, handed, chanClosed, doneC>>
      BY <1>1 DEF QueueSend
    <2>3. Held' = Held
      BY <2>2, HeldFrame
    <2>4. Held \in Seq(Msgs) /\ msgC \in Seq(Msgs)
      BY HeldIsSeq DEF IndInv, QueueTypeOK
    <2> HIDE DEF m
    <2>5. Append(Held \o msgC, m) = Held \o (msgC \o <<m>>)
      BY <2>1, <2>4, AppendLast
    <2>6. msgC' = msgC \o <<m>>
      BY <2>1, <2>2, <2>4, AppendIsConcat
    <2>7. Pipe!Put(m)
      BY <2>2, <2>3, <2>5, <2>6 DEF Pipe!Put
    <2> QED
      BY <2>1, <2>7 DEF Pipe!Next
  <1>2. CASE ~QueueSend(s)
    <2>1. UNCHANGED <<msgC, handed, chanClosed, doneC, bpc, buf, batchLen>>
      BY <1>2 DEF SenderStep, QueueRefused, QueueEnter, QueuePanic, QueueTimeout, QueueReturn
    <2> QED
      BY <2>1, HeldFrame, PipeStutters
  <1> QED
    BY <1>1, <1>2

LEMMA UserPipeStep ==
    ASSUME \/ \E c \in Closers : CloseReadOnly(c) \/ CloseSwap(c) \/ CloserStep(c)
           \/ \E w \in Waiters : BroadcastDoneCall(w) \/ BroadcastDoneReturn(w)
           \/ TimerFire
           \/ UNCHANGED queueVars
    PROVE  [Pipe!Next]_(Pipe!vars)
  <1> USE DEF chanVars, senderVars, waitVars, batchVars
  <1>1. CASE \E c \in Closers : CloseChannel(c)
    <2>1. /\ UNCHANGED <<msgC, handed, doneC, bpc, buf, batchLen>>
          /\ chanClosed' = TRUE
      BY <1>1 DEF CloseChannel
    <2>2. Pipe!Seal
      BY <2>1, HeldFrame DEF Pipe!Seal
    <2> QED
      BY <2>2 DEF Pipe!Next
  <1>2. CASE ~ \E c \in Closers : CloseChannel(c)
    <2>1. UNCHANGED <<msgC, handed, chanClosed, doneC, bpc, buf, batchLen>>
      BY <1>2 DEF CloseReadOnly, CloseSwap, CloserStep, CloseReturn,
                  BroadcastDoneCall, BroadcastDoneReturn, TimerFire, queueVars
    <2> QED
      BY <2>1, HeldFrame, PipeStutters
  <1> QED
    BY <1>1, <1>2

LEMMA BatcherPipeStep ==
    ASSUME IndInv, BatcherStep
    PROVE  [Pipe!Next]_(Pipe!vars)
  <1> USE LimitAssumption DEF chanVars, senderVars, waitVars, batchVars
  <1>0. /\ handed \in Seq(Msgs) /\ msgC \in Seq(Msgs)
        /\ msgBatch \in Seq(Msgs) /\ Len(msgBatch) = batchLen /\ batchLen \in 0..Limit
    BY HeldIsSeq DEF IndInv, QueueTypeOK
  <1>1. CASE BatchReceive
    <2>1. /\ Grown \in Seq(Msgs) /\ msgC' \in Seq(Msgs) /\ Grown # <<>>
          /\ Held \o msgC = Grown \o msgC' /\ Len(Grown) = batchLen + 1
          /\ batchLen + 1 \in 1..Limit /\ bpc = "select"
      BY <1>1, ReceiveFacts
    <2>2. UNCHANGED <<chanClosed, doneC>> /\ ~doneC
      BY <1>1, <2>1 DEF BatchReceive, IndInv, Phase
    <2>3. CASE batchLen + 1 >= Limit
      <3>1. handed' = handed \o Grown /\ batchLen' = 0 /\ bpc' = "submit"
        BY <1>1, <2>3 DEF BatchReceive, TakeBatch, Grown
      <3>2. Held' = <<>>
        BY <3>1 DEF Held, InLoop, msgBatch, Slice
      <3>3. (Held \o msgC)' = msgC'
        BY <2>1, <3>2, ConcatEmptySeq
      <3>4. Pipe!Next
        BY <2>1, <2>2, <3>1, <3>3, DeliverStep
      <3> QED
        BY <3>4
    <2>4. CASE ~(batchLen + 1 >= Limit)
      <3>1. batchLen' = batchLen + 1 /\ UNCHANGED <<bpc, handed>>
        BY <1>1, <2>4 DEF BatchReceive
      <3>2. Held' = Grown
        BY <2>1, <3>1 DEF Held, InLoop, msgBatch, Slice, Grown
      <3>3. (Held \o msgC)' = Held \o msgC
        BY <2>1, <3>2
      <3> QED
        BY <2>2, <3>1, <3>3 DEF Pipe!vars
    <2> QED
      BY <2>3, <2>4
  <1>2. ASSUME batchLen > 0, BatchClosed \/ BatchExpire
        PROVE  Pipe!Next
    <2>1. /\ handed' = handed \o msgBatch /\ Held' = <<>> /\ bpc = "select"
          /\ UNCHANGED <<msgC, chanClosed, doneC>>
      <3>1. CASE BatchClosed
        BY <1>2, <3>1 DEF BatchClosed, Held, InLoop
      <3>2. CASE BatchExpire
        <4>1. /\ batchLen' = 0 /\ buf' = buf /\ bpc' = "submit" /\ bpc = "select"
              /\ handed' = handed \o [i \in 1..batchLen |-> buf'[i]]
              /\ UNCHANGED <<msgC, chanClosed, doneC>>
          BY <1>2, <3>2 DEF BatchExpire, TakeBatch
        <4>2. [i \in 1..batchLen |-> buf'[i]] = msgBatch
          BY <4>1 DEF msgBatch, Slice
        <4>3. Held' = <<>>
          BY <4>1 DEF Held, InLoop, msgBatch, Slice
        <4> QED
          BY <4>1, <4>2, <4>3
      <3> QED
        BY <1>2, <3>1, <3>2
    <2>2. Held = msgBatch /\ ~doneC
      BY <2>1 DEF Held, InLoop, IndInv, Phase
    <2>3. (Held \o msgC)' = msgC
      BY <1>0, <2>1, ConcatEmptySeq
    <2>4. msgBatch # <<>> /\ Len(msgBatch) \in 1..Limit
      BY <1>0, <1>2
    <2> QED
      BY <1>0, <2>1, <2>2, <2>3, <2>4, DeliverStep
  <1>3. ASSUME batchLen = 0, BatchClosed \/ BatchExpire
        PROVE  UNCHANGED Pipe!vars
    <2>1. UNCHANGED <<msgC, handed, chanClosed, doneC, buf, batchLen>>
      BY <1>3 DEF BatchClosed, BatchExpire
    <2>2. Held' = Held
      BY <1>3, <2>1 DEF Held, msgBatch, Slice
    <2> QED
      BY <2>1, <2>2, PipeStutters
  <1>4. CASE SubmitStep
    <2>1. UNCHANGED <<msgC, handed, chanClosed, doneC, buf, batchLen>>
      BY <1>4 DEF SubmitStep, SubmitOk, SubmitSignal, SubmitErr
    <2>2. Held' = Held
      BY <1>4, <2>1
      DEF SubmitStep, SubmitOk, SubmitSignal, SubmitErr, Held, InLoop, msgBatch, Slice
    <2> QED
      BY <2>1, <2>2, PipeStutters
  <1>5. CASE BatchExit
    <2>1. /\ bpc = "exit" /\ bpc' = "stopped" /\ doneC' = TRUE
          /\ UNCHANGED <<msgC, handed, chanClosed>>
      BY <1>5 DEF BatchExit
    <2>2. chanClosed /\ msgC = <<>>
      BY <2>1 DEF IndInv, Phase
    <2>3. Held = <<>> /\ Held' = <<>>
      BY <2>1 DEF Held, InLoop
    <2>4. <<>> \o <<>> = <<>>
      BY <1>0, ConcatEmptySeq, EmptySeq
    <2>5. Pipe!Finish
      BY <2>1, <2>2, <2>3, <2>4 DEF Pipe!Finish
    <2> QED
      BY <2>5 DEF Pipe!Next
  <1>6. batchLen = 0 \/ batchLen > 0
    BY <1>0
  <1> QED
    BY <1>1, <1>2, <1>3, <1>4, <1>5, <1>6 DEF BatcherStep

\* Every step of the queue is a step of the abstract pipe or leaves it alone:
\* the safety part of ImplementsPipe.
THEOREM QueueImplementsPipe == QueueSpec => Pipe!SafeSpec
  <1>1. QueueInit => Pipe!Init
    <2> SUFFICES ASSUME QueueInit PROVE Pipe!Init
      OBVIOUS
    <2>1. Held = <<>> /\ msgC = <<>>
      BY DEF QueueInit, Held, InLoop, msgBatch, Slice
    <2>2. <<>> \o <<>> = <<>>
      BY ConcatEmptySeq, EmptySeq
    <2> QED
      BY <2>1, <2>2 DEF QueueInit, Pipe!Init
  <1>2. IndInv /\ [QueueNext]_queueVars => [Pipe!Next]_(Pipe!vars)
    BY SenderPipeStep, UserPipeStep, BatcherPipeStep DEF QueueNext
  <1> QED
    BY <1>1, <1>2, InitIndInv, NextIndInv, PTL DEF QueueSpec, Pipe!SafeSpec
=============================================================================
