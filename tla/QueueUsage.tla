----------------------------- MODULE QueueUsage -----------------------------
(***************************************************************************)
(* BatchQueue under two usages, one of which each behaviour keeps to:      *)
(*   free      every goroutine calls once, with up to MaxMsgs messages     *)
(*   lockstep  as the example programs do: one goroutine, also a waiter,   *)
(*             queues one message, calls BroadcastDone after a nil error,  *)
(*             and starts over, up to MaxQueueCalls times                  *)
(***************************************************************************)
EXTENDS BatchQueue

VARIABLE usage

usageVars == <<queueVars, usage>>

Free ==
    /\ \A s \in Senders : qcall'[s] <= 1
    /\ \A w \in Waiters : wcall'[w] = 0

Lockstep ==
    /\ \A s \in Senders \ Waiters : qcall'[s] = 0
    /\ \A t \in Senders \cap Waiters :
           /\ qcall'[t] # qcall[t] => wpc[t] = "idle" /\ wcall[t] = qcall[t]
           /\ qpc[t] = "idle" /\ qpc'[t] = "send" => qlen'[t] = 1
           /\ wcall'[t] # wcall[t] =>
                  qpc[t] = "idle" /\ qres[t] = "ok" /\ wcall[t] < qcall[t]

UsageInit == QueueInit /\ usage \in {"free", "lockstep"}

UsageNext ==
    /\ QueueNext
    /\ usage = "free" => Free
    /\ usage = "lockstep" => Lockstep
    /\ UNCHANGED usage

UsageSpec == UsageInit /\ [][UsageNext]_usageVars /\ QueueFairness

\* Messages accepted of which the submission has not ended.
Pending == Len(msgC) + (IF InLoop THEN batchLen ELSE 0) + submitLen

\* The caller has had its BroadcastDone return, or is about to queue a message.
AtRest(t) ==
    \/ qpc[t] = "idle" /\ wpc[t] = "idle" /\ wcall[t] = qcall[t]
    \/ qpc[t] = "send" /\ qidx[t] = 1

\* What lockstep makes of the queue, inductive for one caller: a message and
\* its token, of which there is at most one, exist only between the send and
\* the return of BroadcastDone.
LockstepInv ==
    usage = "lockstep" =>
        /\ \A s \in Senders \ Waiters : qpc[s] = "idle"
        /\ bpc \in {"submit", "signal", "last", "lastSignal"} => submitLen > 0
        /\ \A t \in Senders \cap Waiters :
               /\ broadcasted + Pending <= 1
               /\ AtRest(t) => broadcasted + Pending = 0
               /\ wcall[t] <= qcall[t]
               /\ wpc[t] = "waiting" => qpc[t] # "send"
               /\ qpc[t] = "send" => qlen[t] = 1 /\ wcall[t] < qcall[t]

\* For a caller in lockstep BroadcastDone returns only when the submission of
\* the message it queued last has ended, never on the token of an earlier batch.
DoneAfterOwnBatch ==
    [][\A t \in Senders \cap Waiters :
           usage = "lockstep" /\ BroadcastDoneReturn(t) =>
               handed = accepted /\ submitLen = 0]_usageVars
=============================================================================
