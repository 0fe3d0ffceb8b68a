----------------------------- MODULE BatchQueue -----------------------------
(***************************************************************************)
(* The message queue of chainClient: goroutines that call                  *)
(* QueueBroadcastMsg, Close and BroadcastDone, the channel msgC between    *)
(* them and the goroutine runBatchBroadcast, and that goroutine, which     *)
(* groups messages into batches and submits each as one transaction.       *)
(* What submitBatch does with the nonce is module NonceClient; here a      *)
(* submission takes a while and then succeeds or fails.                    *)
(***************************************************************************)
EXTENDS Integers, Sequences

CONSTANTS Senders,    \* goroutines that call QueueBroadcastMsg
          Closers,    \* goroutines that call Close
          Waiters,    \* goroutines that call BroadcastDone
          Limit,      \* msgCommitBatchSizeLimit: capacity of msgC and of a batch
          TokenCap,   \* capacity of the channel Broadcasted
          MaxQueueCalls,   \* bound: calls of QueueBroadcastMsg, of BroadcastDone, per goroutine
          MaxMsgs     \* bound: messages of one QueueBroadcastMsg call

ASSUME LimitAssumption == Limit \in Nat \ {0}
ASSUME CapAssumption   == TokenCap \in Nat \ {0}
ASSUME BoundAssumption == MaxQueueCalls \in Nat /\ MaxMsgs \in Nat

NoMsg == <<>>

\* The i-th message of the k-th QueueBroadcastMsg call of sender s.
Msgs == Senders \X (1..MaxQueueCalls) \X (1..MaxMsgs)

VARIABLES canSign,      \* c.canSign: the context has a keyring
          msgC,         \* the buffered channel of messages
          chanClosed,   \* close(c.msgC) has happened
          closed,       \* the atomic flag c.closed
          doneC,        \* close(c.doneC) has happened
          broadcasted,  \* tokens in the channel c.Broadcasted
          qpc,          \* per sender: where it is in QueueBroadcastMsg
          qcall,        \* per sender: calls made so far
          qlen,         \* per sender: messages of the current call
          qidx,         \* per sender: index of the next message to enqueue
          qres,         \* per sender: what the last call returned
          cpc,          \* per closer: where it is in Close
          wpc,          \* per waiter: where it is in BroadcastDone
          wcall,        \* per waiter: calls made so far
          bpc,          \* where runBatchBroadcast is
          buf,          \* the array under msgBatch and under toSubmit
          batchLen,     \* len(msgBatch)
          submitLen,    \* len(toSubmit), 0 when nothing is being submitted
          armed,        \* expirationTimer is running
          tick,         \* expirationTimer.C holds a tick
          accepted,     \* history: messages sent on msgC, in order
          handed        \* history: messages given to submitBatch, in order

chanVars   == <<msgC, chanClosed, closed, doneC, broadcasted>>
senderVars == <<qpc, qcall, qlen, qidx, qres>>
waitVars   == <<wpc, wcall>>
batchVars  == <<bpc, buf, batchLen, submitLen, armed, tick, handed>>
queueVars == <<canSign, chanVars, senderVars, cpc, waitVars, batchVars, accepted>>

\* The first n cells of the array: a Go slice buf[:n].
Slice(n) == [i \in 1..n |-> buf[i]]

msgBatch == Slice(batchLen)
toSubmit == Slice(submitLen)

QueueInit ==
    /\ canSign \in BOOLEAN
    /\ msgC = <<>> /\ chanClosed = FALSE /\ closed = FALSE /\ doneC = FALSE
    /\ broadcasted = 0
    /\ qpc = [s \in Senders |-> "idle"]
    /\ qcall = [s \in Senders |-> 0]
    /\ qlen = [s \in Senders |-> 0]
    /\ qidx = [s \in Senders |-> 1]
    /\ qres = [s \in Senders |-> "none"]
    /\ cpc = [c \in Closers |-> "idle"]
    /\ wpc = [w \in Waiters |-> "idle"]
    /\ wcall = [w \in Waiters |-> 0]
    /\ bpc = IF canSign THEN "select" ELSE "absent"
    /\ buf = [i \in 1..Limit |-> NoMsg]
    /\ batchLen = 0 /\ submitLen = 0
    /\ armed = canSign /\ tick = FALSE
    /\ accepted = <<>> /\ handed = <<>>

-----------------------------------------------------------------------------
(* QueueBroadcastMsg *)

\* The two early returns: a read-only client, a queue seen closed.
QueueRefused(s) ==
    /\ qpc[s] = "idle" /\ qcall[s] < MaxQueueCalls
    /\ ~canSign \/ closed
    /\ qcall' = [qcall EXCEPT ![s] = @ + 1]
    /\ qres' = [qres EXCEPT ![s] = IF ~canSign THEN "ErrReadOnly" ELSE "ErrQueueClosed"]
    /\ UNCHANGED <<canSign, chanVars, qpc, qlen, qidx, cpc, waitVars, batchVars, accepted>>

\* The flag is loaded once, before the loop over the messages.
QueueEnter(s, n) ==
    /\ qpc[s] = "idle" /\ qcall[s] < MaxQueueCalls
    /\ canSign /\ ~closed
    /\ qpc' = [qpc EXCEPT ![s] = "send"]
    /\ qcall' = [qcall EXCEPT ![s] = @ + 1]
    /\ qlen' = [qlen EXCEPT ![s] = n]
    /\ qidx' = [qidx EXCEPT ![s] = 1]
    /\ qres' = [qres EXCEPT ![s] = "none"]
    /\ UNCHANGED <<canSign, chanVars, cpc, waitVars, batchVars, accepted>>

\* case c.msgC <- msg
QueueSend(s) ==
    /\ qpc[s] = "send" /\ qidx[s] <= qlen[s]
    /\ ~chanClosed /\ Len(msgC) < Limit
    /\ LET m == <<s, qcall[s], qidx[s]>>
       IN /\ msgC' = Append(msgC, m)
          /\ accepted' = Append(accepted, m)
    /\ qidx' = [qidx EXCEPT ![s] = @ + 1]
    /\ UNCHANGED <<canSign, chanClosed, closed, doneC, broadcasted,
                   qpc, qcall, qlen, qres, cpc, waitVars, batchVars>>

\* A send on a closed channel panics, also one that was already blocked.
QueuePanic(s) ==
    /\ qpc[s] = "send" /\ qidx[s] <= qlen[s]
    /\ chanClosed
    /\ qpc' = [qpc EXCEPT ![s] = "panicked"]
    /\ qres' = [qres EXCEPT ![s] = "panic"]
    /\ UNCHANGED <<canSign, chanVars, qcall, qlen, qidx, cpc, waitVars, batchVars, accepted>>

\* Mutant of QueueTimeout: a break that only leaves the select skips a message.
QueueTimeoutSkips(s) ==
    /\ qpc[s] = "send" /\ qidx[s] <= qlen[s]
    /\ qidx' = [qidx EXCEPT ![s] = @ + 1]
    /\ UNCHANGED <<canSign, chanVars, qpc, qcall, qlen, qres, cpc, waitVars, batchVars, accepted>>

\* case <-t.C: ten seconds have passed since the call began.
QueueTimeout(s) ==
    /\ qpc[s] = "send" /\ qidx[s] <= qlen[s]
    /\ qpc' = [qpc EXCEPT ![s] = "idle"]
    /\ qres' = [qres EXCEPT ![s] = "ErrEnqueueTimeout"]
    /\ UNCHANGED <<canSign, chanVars, qcall, qlen, qidx, cpc, waitVars, batchVars, accepted>>

QueueReturn(s) ==
    /\ qpc[s] = "send" /\ qidx[s] > qlen[s]
    /\ qpc' = [qpc EXCEPT ![s] = "idle"]
    /\ qres' = [qres EXCEPT ![s] = "ok"]
    /\ UNCHANGED <<canSign, chanVars, qcall, qlen, qidx, cpc, waitVars, batchVars, accepted>>

-----------------------------------------------------------------------------
(* Close and BroadcastDone *)

\* A read-only client has nothing to close.
CloseReadOnly(c) ==
    /\ cpc[c] = "idle" /\ ~canSign
    /\ cpc' = [cpc EXCEPT ![c] = "returned"]
    /\ UNCHANGED <<canSign, chanVars, senderVars, waitVars, batchVars, accepted>>

\* The compare-and-swap; only the caller that wins it closes the channel.
CloseSwap(c) ==
    /\ cpc[c] = "idle" /\ canSign
    /\ closed' = TRUE
    /\ cpc' = [cpc EXCEPT ![c] = IF closed THEN "waiting" ELSE "closing"]
    /\ UNCHANGED <<canSign, msgC, chanClosed, doneC, broadcasted,
                   senderVars, waitVars, batchVars, accepted>>

CloseChannel(c) ==
    /\ cpc[c] = "closing"
    /\ chanClosed' = TRUE
    /\ cpc' = [cpc EXCEPT ![c] = "waiting"]
    /\ UNCHANGED <<canSign, msgC, closed, doneC, broadcasted,
                   senderVars, waitVars, batchVars, accepted>>

CloseReturn(c) ==
    /\ cpc[c] = "waiting" /\ doneC
    /\ cpc' = [cpc EXCEPT ![c] = "returned"]
    /\ UNCHANGED <<canSign, chanVars, senderVars, waitVars, batchVars, accepted>>

BroadcastDoneCall(w) ==
    /\ wpc[w] = "idle" /\ wcall[w] < MaxQueueCalls
    /\ wpc' = [wpc EXCEPT ![w] = "waiting"]
    /\ wcall' = [wcall EXCEPT ![w] = @ + 1]
    /\ UNCHANGED <<canSign, chanVars, senderVars, cpc, batchVars, accepted>>

BroadcastDoneReturn(w) ==
    /\ wpc[w] = "waiting" /\ broadcasted > 0
    /\ broadcasted' = broadcasted - 1
    /\ wpc' = [wpc EXCEPT ![w] = "idle"]
    /\ UNCHANGED <<canSign, msgC, chanClosed, closed, doneC,
                   senderVars, cpc, wcall, batchVars, accepted>>

-----------------------------------------------------------------------------
(* runBatchBroadcast *)

\* toSubmit := msgBatch; msgBatch = msgBatch[:0]; Reset; submitBatch(toSubmit).
\* Both slices share one array. n is the length of the batch.
TakeBatch(n) ==
    /\ submitLen' = n
    /\ batchLen' = 0
    /\ handed' = handed \o [i \in 1..n |-> buf'[i]]
    /\ bpc' = "submit"

\* Mutant of BatchReceive: go submitBatch(...), so that the loop goes on
\* receiving while the batch is being submitted.
BatchReceiveAsync ==
    /\ bpc \in {"select", "submit", "signal"} /\ msgC # <<>> /\ batchLen + 1 < Limit
    /\ msgC' = Tail(msgC)
    /\ buf' = [buf EXCEPT ![batchLen + 1] = Head(msgC)]
    /\ batchLen' = batchLen + 1
    /\ UNCHANGED <<canSign, chanClosed, closed, doneC, broadcasted, senderVars, cpc,
                   waitVars, bpc, submitLen, handed, armed, tick, accepted>>

\* case msg, ok := <-c.msgC with ok: append, and submit a full batch.
BatchReceive ==
    /\ bpc = "select" /\ msgC # <<>>
    /\ msgC' = Tail(msgC)
    /\ buf' = [buf EXCEPT ![batchLen + 1] = Head(msgC)]
    /\ IF batchLen + 1 >= Limit
       THEN TakeBatch(batchLen + 1) /\ armed' = TRUE
       ELSE batchLen' = batchLen + 1 /\ UNCHANGED <<bpc, submitLen, handed, armed>>
    /\ UNCHANGED <<canSign, chanClosed, closed, doneC, broadcasted,
                   senderVars, cpc, waitVars, tick, accepted>>

\* Mutant of BatchClosed: the last batch is not submitted.
BatchClosedDrops ==
    /\ bpc = "select" /\ msgC = <<>> /\ chanClosed
    /\ bpc' = "exit"
    /\ UNCHANGED <<canSign, chanVars, senderVars, cpc, waitVars, submitLen, handed,
                   buf, batchLen, armed, tick, accepted>>

\* Mutant of BatchClosed: leaves on the closed flag, with messages in the channel.
BatchClosedEarly ==
    /\ bpc = "select" /\ closed
    /\ bpc' = "exit"
    /\ UNCHANGED <<canSign, chanVars, senderVars, cpc, waitVars, submitLen, handed,
                   buf, batchLen, armed, tick, accepted>>

\* case msg, ok := <-c.msgC with !ok: the channel is closed and empty. The
\* last batch is submitted as it is; msgBatch is not used any more.
BatchClosed ==
    /\ bpc = "select" /\ msgC = <<>> /\ chanClosed
    /\ IF batchLen > 0
       THEN /\ submitLen' = batchLen
            /\ handed' = handed \o msgBatch
            /\ bpc' = "last"
       ELSE bpc' = "exit" /\ UNCHANGED <<submitLen, handed>>
    /\ UNCHANGED <<canSign, chanVars, senderVars, cpc, waitVars,
                   buf, batchLen, armed, tick, accepted>>

\* Mutant of BatchExpire: the timer is reset only when there is a batch.
BatchExpireNoReset ==
    /\ bpc = "select" /\ tick
    /\ tick' = FALSE
    /\ UNCHANGED buf
    /\ IF batchLen > 0
       THEN TakeBatch(batchLen) /\ armed' = TRUE
       ELSE UNCHANGED <<bpc, batchLen, submitLen, handed, armed>>
    /\ UNCHANGED <<canSign, chanVars, senderVars, cpc, waitVars, accepted>>

\* Mutant of BatchExpire: an empty batch is submitted too.
BatchExpireEmpty ==
    /\ bpc = "select" /\ tick
    /\ tick' = FALSE /\ armed' = TRUE
    /\ UNCHANGED buf
    /\ TakeBatch(batchLen)
    /\ UNCHANGED <<canSign, chanVars, senderVars, cpc, waitVars, accepted>>

\* Mutant of BatchExpire: msgBatch is not emptied.
BatchExpireKeeps ==
    /\ bpc = "select" /\ tick
    /\ tick' = FALSE /\ armed' = TRUE
    /\ UNCHANGED <<buf, batchLen>>
    /\ IF batchLen > 0
       THEN submitLen' = batchLen /\ handed' = handed \o msgBatch /\ bpc' = "submit"
       ELSE UNCHANGED <<bpc, submitLen, handed>>
    /\ UNCHANGED <<canSign, chanVars, senderVars, cpc, waitVars, accepted>>

\* case <-expirationTimer.C
BatchExpire ==
    /\ bpc = "select" /\ tick
    /\ tick' = FALSE
    /\ armed' = TRUE
    /\ UNCHANGED buf
    /\ IF batchLen > 0
       THEN TakeBatch(batchLen)
       ELSE UNCHANGED <<bpc, batchLen, submitLen, handed>>
    /\ UNCHANGED <<canSign, chanVars, senderVars, cpc, waitVars, accepted>>

\* submitBatch got a response, with whatever code, and goes on to signal.
SubmitOk ==
    /\ bpc \in {"submit", "last"}
    /\ bpc' = IF bpc = "submit" THEN "signal" ELSE "lastSignal"
    /\ UNCHANGED <<canSign, chanVars, senderVars, cpc, waitVars,
                   buf, batchLen, submitLen, armed, tick, handed, accepted>>

\* c.Broadcasted <- struct{}{}: blocks, mutex held, while the channel is full.
SubmitSignal ==
    /\ bpc \in {"signal", "lastSignal"}
    /\ broadcasted < TokenCap
    /\ broadcasted' = broadcasted + 1
    /\ submitLen' = 0
    /\ bpc' = IF bpc = "signal" THEN "select" ELSE "exit"
    /\ UNCHANGED <<canSign, msgC, chanClosed, closed, doneC, senderVars, cpc, waitVars,
                   buf, batchLen, armed, tick, handed, accepted>>

\* submitBatch got an error: it logs and returns, the batch is not kept.
SubmitErr ==
    /\ bpc \in {"submit", "last"}
    /\ submitLen' = 0
    /\ bpc' = IF bpc = "submit" THEN "select" ELSE "exit"
    /\ UNCHANGED <<canSign, chanVars, senderVars, cpc, waitVars,
                   buf, batchLen, armed, tick, handed, accepted>>

\* Mutant of BatchExit: doneC is not closed.
BatchExitSilent ==
    /\ bpc = "exit"
    /\ bpc' = "stopped"
    /\ UNCHANGED <<canSign, chanVars, senderVars, cpc, waitVars,
                   buf, batchLen, submitLen, armed, tick, handed, accepted>>

BatchExit ==
    /\ bpc = "exit"
    /\ doneC' = TRUE
    /\ bpc' = "stopped"
    /\ UNCHANGED <<canSign, msgC, chanClosed, closed, broadcasted, senderVars, cpc, waitVars,
                   buf, batchLen, submitLen, armed, tick, handed, accepted>>

\* The runtime: the timer expires and leaves one tick in its channel. With
\* the toolchain of go.mod a later Reset does not remove that tick.
TimerFire ==
    /\ armed
    /\ armed' = FALSE
    /\ tick' = TRUE
    /\ UNCHANGED <<canSign, chanVars, senderVars, cpc, waitVars,
                   bpc, buf, batchLen, submitLen, handed, accepted>>

-----------------------------------------------------------------------------
SenderStep(s) ==
    \/ QueueSend(s) \/ QueuePanic(s) \/ QueueTimeout(s) \/ QueueReturn(s)

CloserStep(c) == CloseChannel(c) \/ CloseReturn(c)

SubmitStep == SubmitOk \/ SubmitSignal \/ SubmitErr

BatcherStep == BatchReceive \/ BatchClosed \/ BatchExpire \/ SubmitStep \/ BatchExit

QueueNext ==
    \/ \E s \in Senders : \/ QueueRefused(s)
                          \/ \E n \in 0..MaxMsgs : QueueEnter(s, n)
                          \/ SenderStep(s)
    \/ \E c \in Closers : CloseReadOnly(c) \/ CloseSwap(c) \/ CloserStep(c)
    \/ \E w \in Waiters : BroadcastDoneCall(w) \/ BroadcastDoneReturn(w)
    \/ BatcherStep
    \/ TimerFire

\* A goroutine that can run does run, an expired timer ticks, and a
\* submission ends: broadcastTx bounds its wait by defaultBroadcastTimeout,
\* and its calls to the node are taken to return. No call has to be made.
\* A ready case of the select is taken in the end: select picks among the ready
\* ones at random.
QueueFairness ==
    /\ \A s \in Senders : WF_queueVars(SenderStep(s))
    /\ \A c \in Closers : WF_queueVars(CloserStep(c))
    /\ \A w \in Waiters : WF_queueVars(BroadcastDoneReturn(w))
    /\ WF_queueVars(BatchReceive \/ BatchClosed)
    /\ WF_queueVars(BatchExpire)
    /\ WF_queueVars(SubmitStep \/ BatchExit)
    /\ WF_queueVars(TimerFire)

QueueSpec == QueueInit /\ [][QueueNext]_queueVars /\ QueueFairness

-----------------------------------------------------------------------------
(* Properties *)

\* Every variable keeps its type; in particular the channels never exceed
\* their capacity and a batch never exceeds the array made for it.
Results == {"none", "ok", "ErrReadOnly", "ErrQueueClosed", "ErrEnqueueTimeout", "panic"}

QueueTypeOK ==
    /\ canSign \in BOOLEAN /\ chanClosed \in BOOLEAN
    /\ closed \in BOOLEAN /\ doneC \in BOOLEAN
    /\ msgC \in Seq(Msgs) /\ Len(msgC) <= Limit
    /\ broadcasted \in 0..TokenCap
    /\ qpc \in [Senders -> {"idle", "send", "panicked"}]
    /\ qcall \in [Senders -> 0..MaxQueueCalls]
    /\ qlen \in [Senders -> 0..MaxMsgs]
    /\ qidx \in [Senders -> 1..MaxMsgs + 1]
    /\ qres \in [Senders -> Results]
    /\ cpc \in [Closers -> {"idle", "closing", "waiting", "returned"}]
    /\ wpc \in [Waiters -> {"idle", "waiting"}]
    /\ wcall \in [Waiters -> 0..MaxQueueCalls]
    /\ bpc \in {"absent", "select", "submit", "signal",
               "last", "lastSignal", "exit", "stopped"}
    /\ buf \in [1..Limit -> Msgs \cup {NoMsg}]
    /\ batchLen \in 0..Limit /\ submitLen \in 0..Limit
    /\ armed \in BOOLEAN /\ tick \in BOOLEAN
    /\ accepted \in Seq(Msgs) /\ handed \in Seq(Msgs)

\* What runBatchBroadcast holds and has not submitted: after the channel was
\* found closed its msgBatch is dead.
InLoop == bpc \in {"select", "submit", "signal"}
Held == IF InLoop THEN msgBatch ELSE <<>>

\* Nothing is lost, duplicated or reordered between QueueBroadcastMsg and
\* submitBatch: what was accepted is what was handed over, then what is held
\* in the batch, then what is still in the channel.
Conservation == accepted = handed \o Held \o msgC

\* While submitBatch runs (and may read its messages again for the retry)
\* the batch it was given is intact, although msgBatch shares its array.
SubmissionIntact ==
    submitLen > 0 => toSubmit = SubSeq(handed, Len(handed) - submitLen + 1, Len(handed))

\* doneC is closed, and so Close returns, only after every message that any
\* QueueBroadcastMsg call got into the channel was handed to submitBatch.
DrainedWhenDone == doneC => handed = accepted /\ submitLen = 0

\* What the position of runBatchBroadcast says about its slices and channels.
\* With QueueTypeOK, Conservation and SubmissionIntact it is inductive.
Phase ==
    /\ \A s \in Senders : qpc[s] = "send" => qcall[s] > 0
    /\ \A i \in 1..batchLen : buf[i] \in Msgs
    /\ bpc = "select" => batchLen < Limit
    /\ bpc \in {"submit", "signal"} => batchLen = 0
    /\ bpc \notin {"submit", "signal", "last", "lastSignal"} => submitLen = 0
    /\ bpc \in {"last", "lastSignal", "exit", "stopped"} => chanClosed /\ msgC = <<>>
    /\ doneC <=> bpc = "stopped"

IndInv == QueueTypeOK /\ Conservation /\ SubmissionIntact /\ Phase

\* Of each call a prefix is accepted, in the caller's order, whatever the
\* interleaving with other callers and also when the call times out or panics;
\* all of it when the call returns nil.
Accepted(m) == \E a \in 1..Len(accepted) : accepted[a] = m

CallPrefix ==
    /\ \A a, b \in 1..Len(accepted) :
          a < b /\ accepted[a][1] = accepted[b][1] /\ accepted[a][2] = accepted[b][2]
              => accepted[a][3] < accepted[b][3]
    /\ \A a \in 1..Len(accepted) :
          \A i \in 1..accepted[a][3] : Accepted(<<accepted[a][1], accepted[a][2], i>>)
    /\ \A s \in Senders : qres[s] = "ok" =>
          \A i \in 1..MaxMsgs : Accepted(<<s, qcall[s], i>>) <=> i <= qlen[s]

\* Inductive strengthening of CallPrefix: the loop of a call has sent exactly
\* the messages before its index, and nothing of a later call is there.
Progress ==
    \A s \in Senders :
        /\ \A a \in 1..Len(accepted) : accepted[a][1] = s => accepted[a][2] <= qcall[s]
        /\ qpc[s] = "send" =>
              /\ qidx[s] <= qlen[s] + 1
              /\ \A i \in 1..MaxMsgs : Accepted(<<s, qcall[s], i>>) <=> i < qidx[s]
        /\ qres[s] = "ok" => qpc[s] = "idle"

\* A batch that waits for its timer always has one: while the goroutine is in
\* its loop the timer is running or its tick is there to be taken.
TimerAlive == InLoop => armed \/ tick

\* A QueueBroadcastMsg call on a closed queue gets ErrQueueClosed (the error
\* the function defines for this case), never a panic.
ClosedQueueIsAnError == \A s \in Senders : qpc[s] # "panicked"

\* Every QueueBroadcastMsg call ends and every Close call returns.
CallsEnd ==
    /\ \A s \in Senders : (qpc[s] = "send") ~> (qpc[s] # "send")
    /\ \A c \in Closers : (cpc[c] # "idle") ~> (cpc[c] = "returned")

Pipe == INSTANCE FifoPipe WITH
    Elems <- Msgs, MaxChunk <- Limit,
    pending <- Held \o msgC, delivered <- handed,
    open <- ~chanClosed, finished <- doneC

\* The queue implements the abstract pipe: chunks of at most
\* msgCommitBatchSizeLimit messages leave it in the order of acceptance, every
\* accepted message leaves it in the end, and doneC means sealed and empty.
ImplementsPipe == Pipe!Spec
=============================================================================
