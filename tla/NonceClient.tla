---------------------------- MODULE NonceClient -----------------------------
(***************************************************************************)
(* How chainClient picks the account sequence of a transaction and keeps   *)
(* its cached copy accSeq in step with the chain, for every method that    *)
(* signs or simulates: SyncBroadcastMsg, AsyncBroadcastMsg, the submitBatch*)
(* of runBatchBroadcast, SyncBroadcastSvmMsg, SimulateMsg and the pair     *)
(* BuildSignedTx / Sync- or AsyncBroadcastSignedTx. Goroutines interleave  *)
(* between any two accesses to the shared fields and between any two calls *)
(* to the node.                                                            *)
(***************************************************************************)
EXTENDS ChainNode

CONSTANTS Threads,    \* goroutines that use the client
          Ops,        \* the operations they call, a subset of AllOps
          Simulate,   \* clientCtx.Simulate
          Faults,     \* what may go wrong, a subset of AllFaults
          FirstSeqs,  \* the account's sequence when the client is created
          MaxCalls,   \* bound: calls per goroutine
          MaxFaults   \* bound: faults in a behaviour

LockedOps == {"sync", "async", "batch"}
SignedOps == {"signedSync", "signedAsync"}
AwaitOps  == {"sync", "batch", "signedSync"}
AllOps    == LockedOps \cup SignedOps \cup {"svm", "simulate"}

AllFaults == {"rpc",      \* a call fails and has no effect on the node
              "lost",     \* BroadcastTx takes effect, its reply is lost
              "reject",   \* CheckTx rejects for a reason other than the sequence
              "timeout",  \* defaultBroadcastTimeout passes before inclusion
              "evict",    \* the mempool drops transactions
              "foreign"}  \* another program signs with the same account

ASSUME OpsAssumption    == Ops \subseteq AllOps
ASSUME FaultsAssumption == Faults \subseteq AllFaults
ASSUME ModeAssumption   == Simulate \in BOOLEAN
ASSUME SeqAssumption    == FirstSeqs \subseteq Nat
ASSUME CallsAssumption  == MaxCalls \in Nat /\ MaxFaults \in Nat

NoThread == "none"
Foreign  == "foreign"
ASSUME ThreadAssumption == NoThread \notin Threads /\ Foreign \notin Threads

VARIABLES accSeq,   \* c.accSeq
          txfSeq,   \* the sequence in c.txFactory
          mux,      \* the holder of c.syncMux
          pc,       \* per goroutine: the next step
          op,       \* the operation it is in, or was in last
          call,     \* the number of that call
          try,      \* 1, or 2 after a sequence mismatch
          sig,      \* the sequence in its own copy of the factory
          res,      \* what broadcastTx, and so the call, came back with
          calm,     \* history: see Undisturbed
          faults    \* faults so far

clientVars == <<accSeq, txfSeq, mux>>
threadVars == <<pc, op, call, try, sig, res>>
nonceVars == <<nodeVars, clientVars, threadVars, calm, faults>>

Txs == (Threads \cup {Foreign}) \X Nat \X (1..2)

\* The transaction that goroutine t signs in its present call and try.
Tx(t) == <<t, call[t], try[t]>>

\* NewChainClient reads the committed sequence; c.txFactory is fresh.
NonceInit ==
    /\ NodeInit(FirstSeqs)
    /\ accSeq = committed /\ txfSeq = 0 /\ mux = NoThread
    /\ pc = [t \in Threads |-> "idle"]
    /\ op = [t \in Threads |-> "simulate"]
    /\ call = [t \in Threads |-> 0]
    /\ try = [t \in Threads |-> 1]
    /\ sig = [t \in Threads |-> 0]
    /\ res = [t \in Threads |-> "none"]
    /\ calm = [t \in Threads |-> FALSE]
    /\ faults = 0

-----------------------------------------------------------------------------
Goto(t, l) == pc' = [pc EXCEPT ![t] = l]

\* broadcastTx (or the whole of an unlocked operation) ends with r.
End(t, r) ==
    /\ res' = [res EXCEPT ![t] = r]
    /\ Goto(t, "result")

Fault(f) ==
    /\ f \in Faults /\ faults < MaxFaults
    /\ faults' = faults + 1
    /\ calm' = [t \in Threads |-> FALSE]

NoFault == UNCHANGED <<calm, faults>>

\* Steps of goroutines that do not take the mutex disturb those that do.
Disturb(t) ==
    /\ calm' = IF op[t] \in LockedOps THEN calm ELSE [u \in Threads |-> FALSE]
    /\ UNCHANGED faults

\* Where an operation starts, and what follows its steps.
FirstStep(o) == CASE o \in LockedOps -> "lock"
                  [] o \in SignedOps -> "nonce"
                  [] OTHER           -> "load"

AfterPrepare(o) == IF o \in {"svm", "simulate"} \/ (o \in LockedOps /\ Simulate)
                   THEN "simulate" ELSE "broadcast"

\* BuildSignedTx simulates before it prepares the factory.
AfterNonce == IF Simulate THEN "simulate" ELSE "prepare"

-----------------------------------------------------------------------------
(* Entering an operation *)

Call(t, o) ==
    /\ pc[t] = "idle" /\ call[t] < MaxCalls
    /\ op' = [op EXCEPT ![t] = o]
    /\ call' = [call EXCEPT ![t] = @ + 1]
    /\ try' = [try EXCEPT ![t] = 1]
    /\ sig' = [sig EXCEPT ![t] = 0]
    /\ res' = [res EXCEPT ![t] = "none"]
    /\ Goto(t, FirstStep(o))
    /\ NoFault /\ UNCHANGED <<nodeVars, clientVars>>

\* Mutant of Lock: the mutex is not taken.
LockNothing(t) ==
    /\ pc[t] = "lock"
    /\ mux' = t
    /\ sig' = [sig EXCEPT ![t] = accSeq]
    /\ calm' = [calm EXCEPT ![t] = (pool = <<>>)]
    /\ Goto(t, "setSeq")
    /\ UNCHANGED <<nodeVars, accSeq, txfSeq, op, call, try, res, faults>>

\* c.syncMux.Lock(). Nobody else writes accSeq until the unlock.
Lock(t) ==
    /\ pc[t] = "lock" /\ mux = NoThread
    /\ mux' = t
    /\ sig' = [sig EXCEPT ![t] = accSeq]
    /\ calm' = [calm EXCEPT ![t] = (pool = <<>>)]
    /\ Goto(t, "setSeq")
    /\ UNCHANGED <<nodeVars, accSeq, txfSeq, op, call, try, res, faults>>

\* SimulateMsg and SyncBroadcastSvmMsg read c.accSeq without the mutex ...
LoadSeq(t) ==
    /\ pc[t] = "load"
    /\ sig' = [sig EXCEPT ![t] = accSeq]
    /\ Goto(t, "setSeq")
    /\ NoFault /\ UNCHANGED <<nodeVars, clientVars, op, call, try, res>>

\* ... and callers of BuildSignedTx get it from GetAccNonce.
LoadNonce(t) ==
    /\ pc[t] = "nonce"
    /\ sig' = [sig EXCEPT ![t] = accSeq]
    /\ Goto(t, AfterNonce)
    /\ NoFault /\ UNCHANGED <<nodeVars, clientVars, op, call, try, res>>

\* c.txFactory = c.txFactory.WithSequence(...): a write to the shared factory.
SetSequence(t) ==
    /\ pc[t] = "setSeq"
    /\ txfSeq' = sig[t]
    /\ Goto(t, "read")
    /\ Disturb(t) /\ UNCHANGED <<nodeVars, accSeq, mux, op, call, try, sig, res>>

\* The factory is read back and passed on by value.
ReadFactory(t) ==
    /\ pc[t] = "read"
    /\ sig' = [sig EXCEPT ![t] = txfSeq]
    /\ Goto(t, "prepare")
    /\ NoFault /\ UNCHANGED <<nodeVars, clientVars, op, call, try, res>>

-----------------------------------------------------------------------------
(* Calls to the node *)

\* prepareFactory takes a sequence of 0 for "not set" and asks the node.
PrepareFactory(t) ==
    /\ pc[t] = "prepare"
    /\ sig' = [sig EXCEPT ![t] = IF @ = 0 THEN committed ELSE @]
    /\ Goto(t, AfterPrepare(op[t]))
    /\ NoFault /\ UNCHANGED <<nodeVars, clientVars, op, call, try, res>>

SimulateOk(t) ==
    /\ pc[t] = "simulate" /\ sig[t] = CheckSeq
    /\ IF op[t] = "simulate"
       THEN End(t, "ok")
       ELSE /\ Goto(t, IF op[t] \in SignedOps THEN "prepare" ELSE "broadcast")
            /\ UNCHANGED res
    /\ NoFault /\ UNCHANGED <<nodeVars, clientVars, op, call, try, sig>>

SimulateMismatch(t) ==
    /\ pc[t] = "simulate" /\ sig[t] # CheckSeq
    /\ End(t, "mismatch")
    /\ NoFault /\ UNCHANGED <<nodeVars, clientVars, op, call, try, sig>>

BroadcastAccepted(t) ==
    /\ pc[t] = "broadcast" /\ sig[t] = CheckSeq
    /\ Admit(Tx(t))
    /\ IF op[t] \in AwaitOps
       THEN Goto(t, "await") /\ UNCHANGED res
       ELSE End(t, "ok")
    /\ Disturb(t) /\ UNCHANGED <<clientVars, op, call, try, sig>>

\* CheckTx says no: a response with a non-zero code and a nil error.
BroadcastRejected(t) ==
    /\ pc[t] = "broadcast" /\ sig[t] # CheckSeq
    /\ End(t, "rejected")
    /\ NoFault /\ UNCHANGED <<nodeVars, clientVars, op, call, try, sig>>

\* Mutant of AwaitIncluded: an answer without a height will do.
AwaitSeen(t) ==
    /\ pc[t] = "await" /\ Tx(t) \in OnNode
    /\ End(t, "ok")
    /\ NoFault /\ UNCHANGED <<nodeVars, clientVars, op, call, try, sig>>

\* GetTx reports a height: the transaction is in a block.
AwaitIncluded(t) ==
    /\ pc[t] = "await" /\ Tx(t) \in included
    /\ End(t, "ok")
    /\ NoFault /\ UNCHANGED <<nodeVars, clientVars, op, call, try, sig>>

\* ErrTimedOut: always possible once the mempool has lost the transaction.
AwaitTimeout(t) ==
    /\ pc[t] = "await"
    /\ \/ Tx(t) \notin OnNode /\ NoFault
       \/ Fault("timeout")
    /\ End(t, "timeout")
    /\ UNCHANGED <<nodeVars, clientVars, op, call, try, sig>>

-----------------------------------------------------------------------------
(* Faults of those calls *)

PrepareFails(t) ==
    /\ pc[t] = "prepare" /\ Fault("rpc")
    /\ End(t, "error")
    /\ UNCHANGED <<nodeVars, clientVars, op, call, try, sig>>

SimulateFails(t) ==
    /\ pc[t] = "simulate" /\ Fault("rpc")
    /\ End(t, "error")
    /\ UNCHANGED <<nodeVars, clientVars, op, call, try, sig>>

BroadcastFails(t) ==
    /\ pc[t] = "broadcast" /\ Fault("rpc")
    /\ End(t, "lost")
    /\ UNCHANGED <<nodeVars, clientVars, op, call, try, sig>>

BroadcastLost(t) ==
    /\ pc[t] = "broadcast" /\ sig[t] = CheckSeq /\ Fault("lost")
    /\ Admit(Tx(t))
    /\ End(t, "lost")
    /\ UNCHANGED <<clientVars, op, call, try, sig>>

BroadcastRefused(t) ==
    /\ pc[t] = "broadcast" /\ sig[t] = CheckSeq /\ Fault("reject")
    /\ End(t, "rejected")
    /\ UNCHANGED <<nodeVars, clientVars, op, call, try, sig>>

-----------------------------------------------------------------------------
(* Leaving an operation *)

\* Mutant of Retries: a retry after any error.
RetriesAnyError(t) == op[t] \in LockedOps /\ res[t] \notin {"ok", "rejected"} /\ try[t] = 1

\* The error is a sequence mismatch and this was the first try of a call that
\* retries.
Retries(t) == op[t] \in LockedOps /\ res[t] = "mismatch" /\ try[t] = 1

Again(t) ==
    /\ try' = [try EXCEPT ![t] = 2]
    /\ Goto(t, "setSeq")
    /\ UNCHANGED <<nodeVars, txfSeq, mux, op, call, res>>

\* Mutant of SyncNonce: the factory is not given the new sequence.
SyncNonceKeepsFactory(t) ==
    /\ pc[t] = "result" /\ Retries(t)
    /\ accSeq' = committed
    /\ Again(t) /\ NoFault /\ UNCHANGED sig

\* syncNonce replaces the cached sequence by the committed one, and the call
\* goes through the factory once more.
SyncNonce(t) ==
    /\ pc[t] = "result" /\ Retries(t)
    /\ accSeq' = committed
    /\ sig' = [sig EXCEPT ![t] = committed]
    /\ Again(t) /\ NoFault

\* syncNonce only logs when its query fails.
SyncNonceFails(t) ==
    /\ pc[t] = "result" /\ Retries(t) /\ Fault("rpc")
    /\ sig' = [sig EXCEPT ![t] = accSeq]
    /\ Again(t) /\ UNCHANGED accSeq

\* Mutants of ReturnLocked: one method forgets to count; an early return
\* forgets to unlock.
ReturnAsyncUncounted(t) ==
    /\ pc[t] = "result" /\ op[t] \in LockedOps /\ ~Retries(t)
    /\ accSeq' = IF res[t] \in {"ok", "rejected"} /\ op[t] # "async" THEN accSeq + 1 ELSE accSeq
    /\ mux' = NoThread
    /\ Goto(t, "idle")
    /\ NoFault /\ UNCHANGED <<nodeVars, txfSeq, op, call, try, sig, res>>

ReturnKeepsLock(t) ==
    /\ pc[t] = "result" /\ op[t] \in LockedOps /\ ~Retries(t)
    /\ accSeq' = IF res[t] \in {"ok", "rejected"} THEN accSeq + 1 ELSE accSeq
    /\ mux' = IF res[t] \in {"ok", "rejected"} THEN NoThread ELSE mux
    /\ Goto(t, "idle")
    /\ NoFault /\ UNCHANGED <<nodeVars, txfSeq, op, call, try, sig, res>>

\* A locked operation counts a transaction for every nil error, whatever the
\* code in the response, and unlocks.
ReturnLocked(t) ==
    /\ pc[t] = "result" /\ op[t] \in LockedOps /\ ~Retries(t)
    /\ accSeq' = IF res[t] \in {"ok", "rejected"} THEN accSeq + 1 ELSE accSeq
    /\ mux' = NoThread
    /\ Goto(t, "idle")
    /\ NoFault /\ UNCHANGED <<nodeVars, txfSeq, op, call, try, sig, res>>

\* The other operations leave accSeq alone.
ReturnUnlocked(t) ==
    /\ pc[t] = "result" /\ op[t] \notin LockedOps
    /\ Goto(t, "idle")
    /\ NoFault /\ UNCHANGED <<nodeVars, clientVars, op, call, try, sig, res>>

-----------------------------------------------------------------------------
(* The environment *)

Block == \E n \in 1..Len(pool) :
    DeliverBlock(n) /\ NoFault /\ UNCHANGED <<clientVars, threadVars>>

PoolLoss == \E n \in 0..(Len(pool) - 1) :
    Evict(n) /\ Fault("evict") /\ UNCHANGED <<clientVars, threadVars>>

ForeignTx ==
    /\ Fault("foreign")
    /\ Admit(<<Foreign, faults, 1>>)
    /\ UNCHANGED <<clientVars, threadVars>>

\* From the write of the factory to the answer, the retry included.
Transact(t) ==
    \/ SetSequence(t) \/ ReadFactory(t) \/ PrepareFactory(t)
    \/ SimulateOk(t) \/ SimulateMismatch(t)
    \/ BroadcastAccepted(t) \/ BroadcastRejected(t)
    \/ AwaitIncluded(t) \/ AwaitTimeout(t)
    \/ SyncNonce(t)

Proceed(t) ==
    \/ LoadSeq(t) \/ LoadNonce(t) \/ Transact(t)
    \/ ReturnLocked(t) \/ ReturnUnlocked(t)

Fail(t) ==
    \/ PrepareFails(t) \/ SimulateFails(t) \/ BroadcastFails(t)
    \/ BroadcastLost(t) \/ BroadcastRefused(t) \/ SyncNonceFails(t)

Step(t) == Lock(t) \/ Proceed(t) \/ Fail(t)

NonceNext ==
    \/ \E t \in Threads : (\E o \in Ops : Call(t, o)) \/ Step(t)
    \/ Block \/ PoolLoss \/ ForeignTx

\* A goroutine that can run does; the mutex is handed over fairly (a Go mutex
\* gives itself to a waiter that starves); the node answers, and the chain goes
\* on making blocks. Faults are possible, never due.
NonceFairness ==
    /\ \A t \in Threads : SF_nonceVars(Lock(t)) /\ WF_nonceVars(Proceed(t))
    /\ WF_nonceVars(Block)

NonceSpec == NonceInit /\ [][NonceNext]_nonceVars /\ NonceFairness

-----------------------------------------------------------------------------
(* Properties *)

\* Every variable keeps its type.
NonceTypeOK ==
    /\ committed \in Nat
    /\ accSeq \in Nat /\ txfSeq \in Nat /\ mux \in Threads \cup {NoThread}
    /\ pc \in [Threads -> {"idle", "lock", "load", "nonce", "setSeq", "read", "prepare",
                           "simulate", "broadcast", "await", "result"}]
    /\ op \in [Threads -> AllOps]
    /\ call \in [Threads -> 0..MaxCalls]
    /\ try \in [Threads -> 1..2]
    /\ sig \in [Threads -> Nat]
    /\ res \in [Threads -> {"none", "ok", "rejected", "mismatch", "error", "lost", "timeout"}]
    /\ calm \in [Threads -> BOOLEAN]
    /\ faults \in 0..MaxFaults
    /\ pool \in Seq(Txs) /\ chain \in Seq(Txs) /\ admitted \subseteq Txs

\* However its tries end, no call gets two transactions into the mempool: the
\* retry after a sequence mismatch never repeats something the node took.
AtMostOnce ==
    \A x, y \in admitted : x[1] = y[1] /\ x[2] = y[2] /\ x[1] # Foreign => x = y

\* A call that comes back with a rejection, with a sequence mismatch or with
\* an error from before BroadcastTx has put nothing on the node.
ErrorMeansNotSent ==
    \A t \in Threads :
        pc[t] = "idle" /\ res[t] \in {"rejected", "mismatch", "error"} =>
            \A x \in admitted : x[1] # t \/ x[2] # call[t]

\* Thread t has not got its present call onto the node: it is before
\* BroadcastTx, or BroadcastTx was not reached or said no.
Unsent(t) ==
    \/ pc[t] \in {"lock", "load", "nonce", "setSeq", "read", "prepare",
                  "simulate", "broadcast"}
    \/ pc[t] \in {"result", "idle"} /\ res[t] \in {"rejected", "mismatch", "error"}

\* Inductive strengthening of AtMostOnce and ErrorMeansNotSent.
SentOnce ==
    /\ \A x \in admitted : x[1] # Foreign => x[2] <= call[x[1]]
    /\ \A t \in Threads : Unsent(t) => \A x \in admitted : x[1] # t \/ x[2] # call[t]
    /\ AtMostOnce

\* A zero-code answer of SyncBroadcastMsg, SyncBroadcastSignedTx or submitBatch
\* means that the transaction is in a block.
OkMeansIncluded ==
    \A t \in Threads :
        pc[t] = "idle" /\ op[t] \in AwaitOps /\ res[t] = "ok" => Tx(t) \in included

\* The same from the moment the answer is there.
AnswerIncluded ==
    \A t \in Threads :
        pc[t] \in {"result", "idle"} /\ op[t] \in AwaitOps /\ res[t] = "ok"
            => Tx(t) \in included

\* "SyncBroadcastMsg sends Tx to chain and waits until Tx is included in
\* block": whenever it returns without an error, the transaction is in a block.
SyncReturnsIncluded ==
    \A t \in Threads :
        pc[t] = "idle" /\ op[t] = "sync" /\ res[t] \in {"ok", "rejected"}
            => Tx(t) \in included

\* A method that holds the mutex signs with the client's current sequence: no
\* other goroutine replaces the factory between its write and its read.
SignsOwnNonce ==
    \A t \in Threads : pc[t] = "prepare" /\ op[t] \in LockedOps => sig[t] = accSeq

\* Inductive strengthening of SignsOwnNonce when every operation locks: the
\* mutex has one holder, and from syncNonce or Lock to the read of the factory
\* the sequence on its way into the signature is accSeq.
Inside(t) == pc[t] \notin {"idle", "lock"}

OneHolder ==
    /\ \A t \in Threads : pc[t] # "idle" => op[t] \in LockedOps
    /\ \A t \in Threads : Inside(t) => mux = t
    /\ \A t \in Threads : pc[t] \in {"setSeq", "prepare"} => sig[t] = accSeq
    /\ \A t \in Threads : pc[t] = "read" => txfSeq = accSeq

\* As long as nothing has failed, and nobody is in a critical section, the
\* cached sequence is the one the node will ask for, blocks and pending
\* transactions notwithstanding. (For the methods that take the mutex.)
InSync == faults = 0 /\ mux = NoThread => accSeq = CheckSeq

\* Inductive strengthening of InSync when every operation locks: the holder of
\* the mutex is at most the one transaction it has on the node behind.
Sent(t) == pc[t] \in {"await", "result"}

NoDrift ==
    faults = 0 =>
        /\ mux = NoThread => accSeq = CheckSeq
        /\ \A t \in Threads : Inside(t) /\ ~Sent(t) => accSeq = CheckSeq
        /\ \A t \in Threads : Sent(t) => accSeq + 1 = CheckSeq
        /\ \A t \in Threads : pc[t] \in {"simulate", "broadcast"} => sig[t] = accSeq
        /\ \A t \in Threads : pc[t] = "await" => Tx(t) \in OnNode
        /\ \A t \in Threads : pc[t] = "result" => res[t] = "ok"

\* The pool was empty when t took the mutex, and since then nothing failed and
\* nobody without the mutex touched the account or the factory.
Undisturbed(t) == calm[t] /\ op[t] \in LockedOps

\* One retry heals any drift: whatever happened before, an undisturbed call is
\* not rejected and does not come back with a sequence mismatch.
OneRetryHeals ==
    \A t \in Threads :
        pc[t] = "result" /\ Undisturbed(t) /\ ~Retries(t) => res[t] = "ok"

\* Inductive strengthening of OneRetryHeals, for any mix of operations: a call
\* in a locked operation holds the mutex; as long as it is undisturbed the pool
\* stays empty until its own transaction gets there, and on the second try the
\* sequence on its way into the signature is the committed one.
HoldsMutex ==
    \A t \in Threads : op[t] \in LockedOps /\ pc[t] # "idle" =>
        /\ pc[t] \notin {"load", "nonce"}
        /\ IF pc[t] = "lock" THEN try[t] = 1 ELSE mux = t

Heals(t) ==
    /\ pc[t] \in {"setSeq", "read", "prepare", "simulate", "broadcast"} => pool = <<>>
    /\ pc[t] \in {"setSeq", "prepare", "simulate"} /\ try[t] = 2 => sig[t] = committed
    /\ pc[t] = "read" /\ try[t] = 2 => txfSeq = committed
    /\ pc[t] = "broadcast" => sig[t] = committed
    /\ pc[t] = "await" => Tx(t) \in OnNode
    /\ pc[t] = "result" => \/ res[t] = "ok"
                           \/ res[t] = "mismatch" /\ try[t] = 1 /\ pool = <<>>

Healing ==
    /\ HoldsMutex
    /\ \A t \in Threads : Inside(t) /\ Undisturbed(t) => Heals(t)

\* Every call returns.
CallsReturn == \A t \in Threads : (pc[t] # "idle") ~> (pc[t] = "idle")
=============================================================================
