------------------------- MODULE NonceClientProofs --------------------------
(***************************************************************************)
(* Proofs about NonceClient for every set of goroutines, every mix of      *)
(* operations and faults and every starting sequence.                      *)
(***************************************************************************)
EXTENDS NonceClient, TLAPS, SequenceTheorems

(* The type invariant. *)

LEMMA InitTypeOK == NonceInit => NonceTypeOK
  <1> SUFFICES ASSUME NonceInit PROVE NonceTypeOK
    OBVIOUS
  <1> USE CallsAssumption, SeqAssumption DEF NonceInit, NodeInit
  <1>1. committed \in Nat /\ accSeq \in Nat /\ txfSeq \in Nat
    OBVIOUS
  <1>2. op \in [Threads -> AllOps]
    BY DEF AllOps, LockedOps, SignedOps
  <1>3. pool \in Seq(Txs) /\ chain \in Seq(Txs) /\ admitted \subseteq Txs
    BY EmptySeq
  <1> QED
    BY <1>1, <1>2, <1>3 DEF NonceTypeOK

\* The steps of a goroutine that leave the node alone.
Quiet(t) ==
    \/ Lock(t) \/ LoadSeq(t) \/ LoadNonce(t) \/ SetSequence(t) \/ ReadFactory(t)
    \/ PrepareFactory(t) \/ SimulateOk(t) \/ SimulateMismatch(t)
    \/ BroadcastRejected(t) \/ AwaitIncluded(t) \/ AwaitTimeout(t)
    \/ PrepareFails(t) \/ SimulateFails(t) \/ BroadcastFails(t) \/ BroadcastRefused(t)
    \/ SyncNonce(t) \/ SyncNonceFails(t) \/ ReturnLocked(t) \/ ReturnUnlocked(t)

LEMMA QuietTypeOK ==
    ASSUME NonceTypeOK, NEW t \in Threads, Quiet(t)
    PROVE  NonceTypeOK'
  <1> USE CallsAssumption
      DEF NonceTypeOK, nodeVars, clientVars, threadVars, Goto, NoFault
  <1>1. CASE LoadSeq(t)
    BY <1>1 DEF LoadSeq
  <1>2. CASE LoadNonce(t)
    BY <1>2 DEF LoadNonce, AfterNonce
  <1>3. CASE SetSequence(t)
    BY <1>3 DEF SetSequence, Disturb
  <1>4. CASE ReadFactory(t)
    BY <1>4 DEF ReadFactory
  <1>5. CASE PrepareFactory(t)
    BY <1>5 DEF PrepareFactory, AfterPrepare
  <1>6. CASE SimulateOk(t)
    BY <1>6 DEF SimulateOk, End
  <1>7. CASE SimulateMismatch(t)
    BY <1>7 DEF SimulateMismatch, End
  <1>8. CASE BroadcastRejected(t)
    BY <1>8 DEF BroadcastRejected, End
  <1>9. CASE AwaitIncluded(t)
    BY <1>9 DEF AwaitIncluded, End
  <1>10. CASE AwaitTimeout(t)
    <2>1. /\ res' = [res EXCEPT ![t] = "timeout"] /\ pc' = [pc EXCEPT ![t] = "result"]
          /\ UNCHANGED <<nodeVars, clientVars, op, call, try, sig>>
      BY <1>10 DEF AwaitTimeout, End
    <2>2. calm' \in [Threads -> BOOLEAN] /\ faults' \in 0..MaxFaults
      <3>1. UNCHANGED <<calm, faults>> \/ Fault("timeout")
        BY <1>10 DEF AwaitTimeout
      <3>2. CASE Fault("timeout")
        BY <3>2 DEF Fault
      <3> QED
        BY <3>1, <3>2
    <2> QED
      BY <2>1, <2>2
  <1>11. CASE PrepareFails(t)
    BY <1>11 DEF PrepareFails, End, Fault
  <1>12. CASE SimulateFails(t)
    BY <1>12 DEF SimulateFails, End, Fault
  <1>13. CASE BroadcastFails(t)
    BY <1>13 DEF BroadcastFails, End, Fault
  <1>14. CASE BroadcastRefused(t)
    BY <1>14 DEF BroadcastRefused, End, Fault
  <1>15. CASE SyncNonce(t)
    BY <1>15 DEF SyncNonce, Again
  <1>16. CASE SyncNonceFails(t)
    BY <1>16 DEF SyncNonceFails, Again, Fault
  <1>17. CASE ReturnLocked(t)
    BY <1>17 DEF ReturnLocked
  <1>18. CASE ReturnUnlocked(t)
    BY <1>18 DEF ReturnUnlocked
  <1>19. CASE Lock(t)
    BY <1>19 DEF Lock
  <1> QED
    BY <1>1, <1>2, <1>3, <1>4, <1>5, <1>6, <1>7, <1>8, <1>9, <1>10, <1>11, <1>12, <1>13, <1>14, <1>15, <1>16, <1>17, <1>18, <1>19 DEF Quiet

\* The transaction of a goroutine, and what an admission does to the types.
LEMMA TxType ==
    ASSUME NonceTypeOK, NEW t \in Threads
    PROVE  Tx(t) \in Txs
  BY CallsAssumption DEF NonceTypeOK, Tx, Txs

LEMMA AdmitTypes ==
    ASSUME NonceTypeOK, NEW x \in Txs, Admit(x)
    PROVE  /\ committed' \in Nat
           /\ pool' \in Seq(Txs) /\ chain' \in Seq(Txs) /\ admitted' \subseteq Txs
  BY AppendProperties DEF NonceTypeOK, Admit

LEMMA BroadcastTypeOK ==
    ASSUME NonceTypeOK, NEW t \in Threads, BroadcastAccepted(t) \/ BroadcastLost(t)
    PROVE  NonceTypeOK'
  <1> USE CallsAssumption DEF clientVars, Goto
  <1>1. Admit(Tx(t))
    BY DEF BroadcastAccepted, BroadcastLost
  <1>2. /\ committed' \in Nat
        /\ pool' \in Seq(Txs) /\ chain' \in Seq(Txs) /\ admitted' \subseteq Txs
    BY <1>1, TxType, AdmitTypes
  <1>3. CASE BroadcastAccepted(t)
    BY <1>2, <1>3 DEF NonceTypeOK, BroadcastAccepted, End, Disturb
  <1>4. CASE BroadcastLost(t)
    BY <1>2, <1>4 DEF NonceTypeOK, BroadcastLost, End, Fault
  <1> QED
    BY <1>3, <1>4

LEMMA CallTypeOK ==
    ASSUME NonceTypeOK, NEW t \in Threads, NEW o \in Ops, Call(t, o)
    PROVE  NonceTypeOK'
  <1>1. o \in AllOps
    BY OpsAssumption
  <1>2. FirstStep(o) \in {"lock", "nonce", "load"}
    BY DEF FirstStep
  <1> QED
    BY <1>1, <1>2, CallsAssumption
    DEF NonceTypeOK, Call, Goto, NoFault, nodeVars, clientVars

LEMMA EnvironmentTypeOK ==
    ASSUME NonceTypeOK, Block \/ PoolLoss \/ ForeignTx
    PROVE  NonceTypeOK'
  <1> USE CallsAssumption DEF clientVars, threadVars
  <1>0. pool \in Seq(Txs) /\ chain \in Seq(Txs) /\ Len(pool) \in Nat
    BY LenProperties DEF NonceTypeOK
  <1>1. CASE Block
    <2> PICK n \in 1..Len(pool) :
          DeliverBlock(n) /\ NoFault /\ UNCHANGED <<clientVars, threadVars>>
      BY <1>1 DEF Block
    <2>1. \A i \in 1..Len(pool) : pool[i] \in Txs
      BY <1>0, ElementOfSeq
    <2>2. SubSeq(pool, 1, n) \in Seq(Txs) /\ SubSeq(pool, n + 1, Len(pool)) \in Seq(Txs)
      BY <1>0, <2>1, SubSeqProperties
    <2>3. chain \o SubSeq(pool, 1, n) \in Seq(Txs)
      BY <1>0, <2>2, ConcatProperties
    <2>4. committed + n \in Nat
      BY <1>0 DEF NonceTypeOK
    <2> QED
      BY <2>2, <2>3, <2>4 DEF NonceTypeOK, DeliverBlock, NoFault
  <1>2. CASE PoolLoss
    <2> PICK n \in 0..(Len(pool) - 1) :
          Evict(n) /\ Fault("evict") /\ UNCHANGED <<clientVars, threadVars>>
      BY <1>2 DEF PoolLoss
    <2>1. \A i \in 1..Len(pool) : pool[i] \in Txs
      BY <1>0, ElementOfSeq
    <2>2. SubSeq(pool, 1, n) \in Seq(Txs)
      BY <1>0, <2>1, SubSeqProperties
    <2> QED
      BY <2>2 DEF NonceTypeOK, Evict, Fault
  <1>3. CASE ForeignTx
    <2>1. <<Foreign, faults, 1>> \in Txs
      BY DEF NonceTypeOK, Txs
    <2>2. Admit(<<Foreign, faults, 1>>)
      BY <1>3 DEF ForeignTx
    <2>3. /\ committed' \in Nat
          /\ pool' \in Seq(Txs) /\ chain' \in Seq(Txs) /\ admitted' \subseteq Txs
      BY <2>1, <2>2, AdmitTypes
    <2> QED
      BY <1>3, <2>3 DEF NonceTypeOK, ForeignTx, Fault
  <1> QED
    BY <1>1, <1>2, <1>3

\* Every step is of one of these kinds.
LEMMA StepKinds ==
    ASSUME NonceNext
    PROVE  \/ \E t \in Threads : \/ Quiet(t)
                                 \/ BroadcastAccepted(t) \/ BroadcastLost(t)
                                 \/ \E o \in Ops : Call(t, o)
           \/ Block \/ PoolLoss \/ ForeignTx
  BY DEF NonceNext, Step, Proceed, Transact, Fail, Quiet

LEMMA NextTypeOK == NonceTypeOK /\ [NonceNext]_nonceVars => NonceTypeOK'
  <1> SUFFICES ASSUME NonceTypeOK, [NonceNext]_nonceVars PROVE NonceTypeOK'
    OBVIOUS
  <1>1. CASE UNCHANGED nonceVars
    BY <1>1 DEF NonceTypeOK, nonceVars, nodeVars, clientVars, threadVars
  <1>2. CASE NonceNext
    BY <1>2, StepKinds, QuietTypeOK, BroadcastTypeOK, CallTypeOK, EnvironmentTypeOK
  <1> QED
    BY <1>1, <1>2

\* Type correctness of the nonce protocol.
THEOREM NonceTypeCorrect == NonceSpec => []NonceTypeOK
  BY InitTypeOK, NextTypeOK, PTL DEF NonceSpec

(* At most one transaction per call. *)

LEMMA InitSentOnce == NonceInit => SentOnce
  BY DEF NonceInit, NodeInit, SentOnce, AtMostOnce

\* A step of t that admits nothing keeps SentOnce if it makes no call look
\* unsent that was not.
LEMMA QuietSentOnce ==
    ASSUME NonceTypeOK, SentOnce, NEW t \in Threads, Quiet(t)
    PROVE  SentOnce'
  <1>1. UNCHANGED <<admitted, call>>
    BY DEF Quiet, Lock, LoadSeq, LoadNonce, SetSequence, ReadFactory, PrepareFactory,
           SimulateOk, SimulateMismatch, BroadcastRejected, AwaitIncluded, AwaitTimeout,
           PrepareFails, SimulateFails, BroadcastFails, BroadcastRefused, SyncNonce,
           SyncNonceFails, ReturnLocked, ReturnUnlocked, Again, nodeVars
  <1>2. \A u \in Threads : Unsent(u)' => Unsent(u)
    <2> SUFFICES ASSUME NEW u \in Threads, Unsent(u)' PROVE Unsent(u)
      OBVIOUS
    <2> USE DEF NonceTypeOK, Unsent, Goto
    <2>1. CASE Lock(t)
      BY <2>1 DEF Lock
    <2>2. CASE LoadSeq(t)
      BY <2>2 DEF LoadSeq
    <2>3. CASE LoadNonce(t)
      BY <2>3 DEF LoadNonce
    <2>4. CASE SetSequence(t)
      BY <2>4 DEF SetSequence
    <2>5. CASE ReadFactory(t)
      BY <2>5 DEF ReadFactory
    <2>6. CASE PrepareFactory(t)
      BY <2>6 DEF PrepareFactory
    <2>7. CASE SimulateOk(t)
      BY <2>7 DEF SimulateOk, End
    <2>8. CASE SimulateMismatch(t)
      BY <2>8 DEF SimulateMismatch, End
    <2>9. CASE BroadcastRejected(t)
      BY <2>9 DEF BroadcastRejected, End
    <2>10. CASE AwaitIncluded(t)
      BY <2>10 DEF AwaitIncluded, End
    <2>11. CASE AwaitTimeout(t)
      BY <2>11 DEF AwaitTimeout, End
    <2>12. CASE PrepareFails(t)
      BY <2>12 DEF PrepareFails, End
    <2>13. CASE SimulateFails(t)
      BY <2>13 DEF SimulateFails, End
    <2>14. CASE BroadcastFails(t)
      BY <2>14 DEF BroadcastFails, End
    <2>15. CASE BroadcastRefused(t)
      BY <2>15 DEF BroadcastRefused, End
    <2>16. CASE SyncNonce(t)
      BY <2>16 DEF SyncNonce, Again, Retries
    <2>17. CASE SyncNonceFails(t)
      BY <2>17 DEF SyncNonceFails, Again, Retries
    <2>18. CASE ReturnLocked(t)
      BY <2>18 DEF ReturnLocked
    <2>19. CASE ReturnUnlocked(t)
      BY <2>19 DEF ReturnUnlocked
    <2> QED
      BY <2>1, <2>2, <2>3, <2>4, <2>5, <2>6, <2>7, <2>8, <2>9, <2>10, <2>11, <2>12, <2>13, <2>14, <2>15, <2>16, <2>17, <2>18, <2>19 DEF Quiet
  <1> QED
    BY <1>1, <1>2 DEF SentOnce, AtMostOnce

LEMMA BroadcastSentOnce ==
    ASSUME NonceTypeOK, SentOnce, NEW t \in Threads, BroadcastAccepted(t) \/ BroadcastLost(t)
    PROVE  SentOnce'
  <1>1. /\ pc[t] = "broadcast" /\ admitted' = admitted \cup {Tx(t)} /\ call' = call
        /\ Tx(t) = <<t, call[t], try[t]>>
    BY DEF BroadcastAccepted, BroadcastLost, Admit, Tx
  <1>2. \A x \in admitted : x[1] # t \/ x[2] # call[t]
    BY <1>1 DEF SentOnce, Unsent
  <1>3. AtMostOnce'
    <2> SUFFICES ASSUME NEW x \in admitted', NEW y \in admitted',
                        x[1] = y[1], x[2] = y[2], x[1] # Foreign
                 PROVE  x = y
      BY DEF AtMostOnce
    <2>1. Tx(t)[1] = t /\ Tx(t)[2] = call[t]
      BY <1>1
    <2>2. CASE x \in admitted /\ y \in admitted
      BY <2>2 DEF SentOnce, AtMostOnce
    <2>3. CASE x = Tx(t) \/ y = Tx(t)
      BY <2>1, <2>3, <1>1, <1>2
    <2> QED
      BY <2>2, <2>3, <1>1
  <1>4. \A x \in admitted' : x[1] # Foreign => x[2] <= call'[x[1]]
    <2> SUFFICES ASSUME NEW x \in admitted', x[1] # Foreign PROVE x[2] <= call[x[1]]
      BY <1>1
    <2>1. CASE x \in admitted
      BY <2>1 DEF SentOnce
    <2>2. CASE x = Tx(t)
      BY <2>2, <1>1, CallsAssumption DEF NonceTypeOK
    <2> QED
      BY <1>1, <2>1, <2>2
  <1>5. ~Unsent(t)' /\ \A u \in Threads \ {t} : Unsent(u)' => Unsent(u)
    <2> USE DEF NonceTypeOK, Unsent, Goto, End
    <2>1. CASE BroadcastAccepted(t)
      BY <2>1 DEF BroadcastAccepted
    <2>2. CASE BroadcastLost(t)
      BY <2>2 DEF BroadcastLost
    <2> QED
      BY <2>1, <2>2
  <1>6. \A u \in Threads : Unsent(u)' =>
            \A x \in admitted' : x[1] # u \/ x[2] # call'[u]
    <2> SUFFICES ASSUME NEW u \in Threads, Unsent(u)', NEW x \in admitted'
                 PROVE  x[1] # u \/ x[2] # call[u]
      BY <1>1
    <2>1. u # t /\ Unsent(u)
      BY <1>5
    <2>2. CASE x \in admitted
      BY <2>1, <2>2 DEF SentOnce
    <2>3. CASE x = Tx(t)
      BY <2>1, <2>3, <1>1
    <2> QED
      BY <1>1, <2>2, <2>3
  <1> QED
    BY <1>3, <1>4, <1>6 DEF SentOnce

LEMMA CallSentOnce ==
    ASSUME NonceTypeOK, SentOnce, NEW t \in Threads, NEW o \in Ops, Call(t, o)
    PROVE  SentOnce'
  <1>1. admitted' = admitted /\ call' = [call EXCEPT ![t] = @ + 1]
    BY DEF Call, nodeVars
  <1>2. \A x \in admitted : /\ x[1] # Foreign => x[1] \in Threads
                            /\ x[2] \in Nat
    BY DEF NonceTypeOK, Txs
  <1>3. \A x \in admitted : x[1] # Foreign => x[2] <= call'[x[1]]
    BY <1>1, <1>2, CallsAssumption DEF SentOnce, NonceTypeOK
  <1>4. \A u \in Threads : Unsent(u)' =>
            \A x \in admitted : x[1] # u \/ x[2] # call'[u]
    <2> SUFFICES ASSUME NEW u \in Threads, Unsent(u)', NEW x \in admitted
                 PROVE  x[1] # u \/ x[2] # call'[u]
      OBVIOUS
    <2>1. CASE u = t
      <3>1. x[1] = t => x[2] <= call[t]
        BY ThreadAssumption DEF SentOnce
      <3>2. call'[t] = call[t] + 1 /\ call[t] \in Nat
        BY <1>1, CallsAssumption DEF NonceTypeOK
      <3> QED
        BY <2>1, <3>1, <3>2, <1>2
    <2>2. CASE u # t
      <3>1. Unsent(u) /\ call'[u] = call[u]
        BY <2>2, <1>1 DEF Call, Goto, Unsent, NonceTypeOK
      <3> QED
        BY <3>1 DEF SentOnce
    <2> QED
      BY <2>1, <2>2
  <1> QED
    BY <1>1, <1>3, <1>4 DEF SentOnce, AtMostOnce

LEMMA EnvironmentSentOnce ==
    ASSUME NonceTypeOK, SentOnce, Block \/ PoolLoss \/ ForeignTx
    PROVE  SentOnce'
  <1>1. UNCHANGED <<call, pc, res>>
    BY DEF Block, PoolLoss, ForeignTx, threadVars
  <1>2. \A x \in admitted' : x \in admitted \/ x = <<Foreign, faults, 1>>
    BY DEF Block, PoolLoss, ForeignTx, DeliverBlock, Evict, Admit
  <1>3. \A x \in admitted' : x[1] # Foreign => x \in admitted
    BY <1>2
  <1>4. \A t \in Threads : t # Foreign
    BY ThreadAssumption
  <1> QED
    BY <1>1, <1>3, <1>4 DEF SentOnce, AtMostOnce, Unsent

LEMMA NextSentOnce == NonceTypeOK /\ SentOnce /\ [NonceNext]_nonceVars => SentOnce'
  <1> SUFFICES ASSUME NonceTypeOK, SentOnce, [NonceNext]_nonceVars PROVE SentOnce'
    OBVIOUS
  <1>1. CASE UNCHANGED nonceVars
    BY <1>1 DEF SentOnce, AtMostOnce, Unsent, nonceVars, nodeVars, threadVars
  <1>2. CASE NonceNext
    BY <1>2, StepKinds, QuietSentOnce, BroadcastSentOnce, CallSentOnce, EnvironmentSentOnce
  <1> QED
    BY <1>1, <1>2

\* No call of any method puts two transactions on the node, whatever fails.
THEOREM NonceAtMostOnce == NonceSpec => []AtMostOnce
  <1>1. SentOnce => AtMostOnce
    BY DEF SentOnce
  <1> QED
    BY <1>1, NonceTypeCorrect, InitSentOnce, NextSentOnce, PTL DEF NonceSpec

\* A rejection, a sequence mismatch or an early error means nothing was sent.
THEOREM NonceErrorMeansNotSent == NonceSpec => []ErrorMeansNotSent
  <1>1. SentOnce => ErrorMeansNotSent
    BY DEF SentOnce, ErrorMeansNotSent, Unsent
  <1> QED
    BY <1>1, NonceTypeCorrect, InitSentOnce, NextSentOnce, PTL DEF NonceSpec

(* A zero-code answer of an awaiting method. *)

\* Blocks are never taken back.
LEMMA ChainGrows ==
    ASSUME NonceTypeOK, [NonceNext]_nonceVars
    PROVE  included \subseteq included'
  <1>0. pool \in Seq(Txs) /\ chain \in Seq(Txs) /\ Len(pool) \in Nat /\ Len(chain) \in Nat
    BY LenProperties DEF NonceTypeOK
  <1>1. CASE Block
    <2> PICK n \in 1..Len(pool) : DeliverBlock(n)
      BY <1>1 DEF Block
    <2>1. \A i \in 1..Len(pool) : pool[i] \in Txs
      BY <1>0, ElementOfSeq
    <2>2. SubSeq(pool, 1, n) \in Seq(Txs)
      BY <1>0, <2>1, SubSeqProperties
    <2>3. /\ Len(chain \o SubSeq(pool, 1, n)) = Len(chain) + Len(SubSeq(pool, 1, n))
          /\ Len(SubSeq(pool, 1, n)) \in Nat
          /\ \A i \in 1..Len(chain) : (chain \o SubSeq(pool, 1, n))[i] = chain[i]
      BY <1>0, <2>2, ConcatProperties, LenProperties
    <2>4. chain' = chain \o SubSeq(pool, 1, n)
      BY DEF DeliverBlock
    <2> QED
      BY <1>0, <2>3, <2>4 DEF included
  <1>2. CASE ~Block
    <2>1. chain' = chain
      <3>1. CASE UNCHANGED nonceVars
        BY <3>1 DEF nonceVars, nodeVars
      <3>2. CASE PoolLoss \/ ForeignTx
        BY <3>2 DEF PoolLoss, ForeignTx, Evict, Admit
      <3>3. ASSUME NEW t \in Threads,
                   \/ Quiet(t) \/ BroadcastAccepted(t) \/ BroadcastLost(t)
                   \/ \E o \in Ops : Call(t, o)
            PROVE  chain' = chain
        BY <3>3 DEF Quiet, Call, Lock, LoadSeq, LoadNonce, SetSequence, ReadFactory,
             PrepareFactory, SimulateOk, SimulateMismatch, BroadcastRejected,
             AwaitIncluded, AwaitTimeout, PrepareFails, SimulateFails, BroadcastFails,
             BroadcastRefused, SyncNonce, SyncNonceFails, ReturnLocked, ReturnUnlocked,
             Again, nodeVars, BroadcastAccepted, BroadcastLost, Admit
      <3> QED
        BY <1>2, <3>1, <3>2, <3>3, StepKinds
    <2> QED
      BY <2>1 DEF included
  <1> QED
    BY <1>1, <1>2

\* A thread whose call has just been answered with a zero code.
HasOk(t) == pc[t] \in {"result", "idle"} /\ op[t] \in AwaitOps /\ res[t] = "ok"

\* An awaiting call gets its zero code from GetTx and from nowhere else.
LEMMA OkFromBlock ==
    ASSUME NonceTypeOK, NEW t \in Threads, Quiet(t), NEW u \in Threads, HasOk(u)'
    PROVE  /\ Tx(u)' = Tx(u)
           /\ HasOk(u) \/ Tx(u) \in included
  <1> USE DEF NonceTypeOK, Goto, HasOk, Tx, AwaitOps
  <1>1. CASE Lock(t)
    BY <1>1 DEF Lock
  <1>2. CASE LoadSeq(t)
    BY <1>2 DEF LoadSeq
  <1>3. CASE LoadNonce(t)
    BY <1>3 DEF LoadNonce, AfterNonce
  <1>4. CASE SetSequence(t)
    BY <1>4 DEF SetSequence
  <1>5. CASE ReadFactory(t)
    BY <1>5 DEF ReadFactory
  <1>6. CASE PrepareFactory(t)
    BY <1>6 DEF PrepareFactory, AfterPrepare
  <1>7. CASE SimulateOk(t)
    BY <1>7 DEF SimulateOk, End
  <1>8. CASE SimulateMismatch(t)
    BY <1>8 DEF SimulateMismatch, End
  <1>9. CASE BroadcastRejected(t)
    BY <1>9 DEF BroadcastRejected, End
  <1>10. CASE AwaitIncluded(t)
    BY <1>10 DEF AwaitIncluded, End
  <1>11. CASE AwaitTimeout(t)
    BY <1>11 DEF AwaitTimeout, End
  <1>12. CASE PrepareFails(t)
    BY <1>12 DEF PrepareFails, End
  <1>13. CASE SimulateFails(t)
    BY <1>13 DEF SimulateFails, End
  <1>14. CASE BroadcastFails(t)
    BY <1>14 DEF BroadcastFails, End
  <1>15. CASE BroadcastRefused(t)
    BY <1>15 DEF BroadcastRefused, End
  <1>16. CASE SyncNonce(t)
    BY <1>16 DEF SyncNonce, Again, Retries
  <1>17. CASE SyncNonceFails(t)
    BY <1>17 DEF SyncNonceFails, Again, Retries
  <1>18. CASE ReturnLocked(t)
    BY <1>18 DEF ReturnLocked
  <1>19. CASE ReturnUnlocked(t)
    BY <1>19 DEF ReturnUnlocked
  <1> QED
    BY <1>1, <1>2, <1>3, <1>4, <1>5, <1>6, <1>7, <1>8, <1>9, <1>10, <1>11, <1>12, <1>13, <1>14, <1>15, <1>16, <1>17, <1>18, <1>19 DEF Quiet

LEMMA NextAnswerIncluded ==
    NonceTypeOK /\ AnswerIncluded /\ [NonceNext]_nonceVars => AnswerIncluded'
  <1> SUFFICES ASSUME NonceTypeOK, AnswerIncluded, [NonceNext]_nonceVars, NEW u \in Threads, HasOk(u)'
               PROVE  Tx(u)' \in included'
    BY DEF AnswerIncluded, HasOk
  <1>0. included \subseteq included' /\ (HasOk(u) => Tx(u) \in included)
    BY ChainGrows DEF AnswerIncluded, HasOk
  <1>1. ASSUME NEW t \in Threads, Quiet(t)
        PROVE  Tx(u)' \in included'
    BY <1>0, <1>1, OkFromBlock
  <1>2. ASSUME NEW t \in Threads, BroadcastAccepted(t) \/ BroadcastLost(t)
        PROVE  Tx(u)' \in included'
    <2>1. u # t
      BY <1>2 DEF BroadcastAccepted, BroadcastLost, End, Goto, HasOk, NonceTypeOK
    <2>2. HasOk(u) /\ Tx(u)' = Tx(u)
      BY <1>2, <2>1 DEF BroadcastAccepted, BroadcastLost, End, Goto, HasOk, Tx, NonceTypeOK
    <2> QED
      BY <1>0, <2>2
  <1>3. ASSUME NEW t \in Threads, NEW o \in Ops, Call(t, o)
        PROVE  Tx(u)' \in included'
    <2>1. HasOk(u) /\ Tx(u)' = Tx(u)
      BY <1>3 DEF Call, Goto, HasOk, Tx, NonceTypeOK
    <2> QED
      BY <1>0, <2>1
  <1>4. CASE UNCHANGED threadVars
    BY <1>0, <1>4 DEF threadVars, HasOk, Tx
  <1>5. Block \/ PoolLoss \/ ForeignTx \/ UNCHANGED nonceVars => UNCHANGED threadVars
    BY DEF Block, PoolLoss, ForeignTx, nonceVars
  <1> QED
    BY <1>1, <1>2, <1>3, <1>4, <1>5, StepKinds

\* A zero-code answer of SyncBroadcastMsg, SyncBroadcastSignedTx or submitBatch
\* means that the transaction is in a block.
THEOREM NonceOkMeansIncluded == NonceSpec => []OkMeansIncluded
  <1>1. NonceInit => AnswerIncluded
    BY DEF NonceInit, AnswerIncluded, AwaitOps
  <1>2. AnswerIncluded => OkMeansIncluded
    BY DEF AnswerIncluded, OkMeansIncluded
  <1> QED
    BY <1>1, <1>2, NonceTypeCorrect, NextAnswerIncluded, PTL DEF NonceSpec

(* The mutex and the shared factory. *)

LEMMA NextOneHolder ==
    ASSUME Ops \subseteq LockedOps
    PROVE  NonceTypeOK /\ OneHolder /\ [NonceNext]_nonceVars => OneHolder'
  <1> SUFFICES ASSUME NonceTypeOK, OneHolder, [NonceNext]_nonceVars PROVE OneHolder'
    OBVIOUS
  <1> USE ThreadAssumption DEF NonceTypeOK, OneHolder, Inside, Goto, clientVars, threadVars
  <1>1. ASSUME NEW t \in Threads, Quiet(t)
        PROVE  OneHolder'
    <2>0. \A o \in LockedOps : o \notin SignedOps
      BY DEF LockedOps, SignedOps
    <2>1. CASE Lock(t)
      BY <2>0, <2>1 DEF Lock
    <2>2. CASE LoadSeq(t)
      BY <2>0, <2>2 DEF LoadSeq
    <2>3. CASE LoadNonce(t)
      BY <2>0, <2>3 DEF LoadNonce, AfterNonce
    <2>4. CASE SetSequence(t)
      BY <2>0, <2>4 DEF SetSequence
    <2>5. CASE ReadFactory(t)
      BY <2>0, <2>5 DEF ReadFactory
    <2>6. CASE PrepareFactory(t)
      BY <2>0, <2>6 DEF PrepareFactory, AfterPrepare
    <2>7. CASE SimulateOk(t)
      <3>1. \/ pc' = [pc EXCEPT ![t] = "result"]
            \/ pc' = [pc EXCEPT ![t] = "broadcast"]
        BY <2>0, <2>7 DEF SimulateOk, End
      <3>2. UNCHANGED <<op, sig, accSeq, txfSeq, mux>>
        BY <2>7 DEF SimulateOk
      <3> QED
        BY <2>7, <3>1, <3>2 DEF SimulateOk
    <2>8. CASE SimulateMismatch(t)
      BY <2>0, <2>8 DEF SimulateMismatch, End
    <2>9. CASE BroadcastRejected(t)
      BY <2>0, <2>9 DEF BroadcastRejected, End
    <2>10. CASE AwaitIncluded(t)
      BY <2>0, <2>10 DEF AwaitIncluded, End
    <2>11. CASE AwaitTimeout(t)
      BY <2>0, <2>11 DEF AwaitTimeout, End
    <2>12. CASE PrepareFails(t)
      BY <2>0, <2>12 DEF PrepareFails, End
    <2>13. CASE SimulateFails(t)
      BY <2>0, <2>13 DEF SimulateFails, End
    <2>14. CASE BroadcastFails(t)
      BY <2>0, <2>14 DEF BroadcastFails, End
    <2>15. CASE BroadcastRefused(t)
      BY <2>0, <2>15 DEF BroadcastRefused, End
    <2>16. CASE SyncNonce(t)
      BY <2>0, <2>16 DEF SyncNonce, Again, Retries
    <2>17. CASE SyncNonceFails(t)
      BY <2>0, <2>17 DEF SyncNonceFails, Again, Retries
    <2>18. CASE ReturnLocked(t)
      BY <2>0, <2>18 DEF ReturnLocked
    <2>19. CASE ReturnUnlocked(t)
      BY <2>0, <2>19 DEF ReturnUnlocked
    <2> QED
      BY <1>1, <2>1, <2>2, <2>3, <2>4, <2>5, <2>6, <2>7, <2>8, <2>9, <2>10, <2>11, <2>12, <2>13, <2>14, <2>15, <2>16, <2>17, <2>18, <2>19 DEF Quiet
  <1>2. ASSUME NEW t \in Threads, BroadcastAccepted(t) \/ BroadcastLost(t)
        PROVE  OneHolder'
    <2>1. CASE BroadcastAccepted(t)
      <3>1. \/ pc' = [pc EXCEPT ![t] = "result"]
            \/ pc' = [pc EXCEPT ![t] = "await"]
        BY <2>1 DEF BroadcastAccepted, End
      <3>2. pc[t] = "broadcast" /\ UNCHANGED <<op, sig, accSeq, txfSeq, mux>>
        BY <2>1 DEF BroadcastAccepted
      <3> QED
        BY <3>1, <3>2
    <2>2. CASE BroadcastLost(t)
      BY <2>2 DEF BroadcastLost, End
    <2> QED
      BY <1>2, <2>1, <2>2
  <1>3. ASSUME NEW t \in Threads, NEW o \in Ops, Call(t, o)
        PROVE  OneHolder'
    <2>1. o \in LockedOps /\ FirstStep(o) = "lock"
      BY DEF FirstStep, LockedOps, SignedOps
    <2> QED
      BY <1>3, <2>1 DEF Call
  <1>4. CASE Block \/ PoolLoss \/ ForeignTx
    BY <1>4 DEF Block, PoolLoss, ForeignTx
  <1>5. CASE UNCHANGED nonceVars
    BY <1>5 DEF nonceVars
  <1> QED
    BY <1>1, <1>2, <1>3, <1>4, <1>5, StepKinds

\* When goroutines use the locking methods only, each signs with the current
\* sequence: the factory it passes on is the one it wrote.
THEOREM NonceSignsOwn ==
    ASSUME Ops \subseteq LockedOps
    PROVE  NonceSpec => []SignsOwnNonce
  <1>1. NonceInit => OneHolder
    BY DEF NonceInit, OneHolder, Inside
  <1>2. OneHolder => SignsOwnNonce
    BY DEF OneHolder, SignsOwnNonce
  <1>3. NonceTypeOK /\ OneHolder /\ [NonceNext]_nonceVars => OneHolder'
    BY NextOneHolder
  <1> QED
    BY <1>1, <1>2, <1>3, NonceTypeCorrect, PTL DEF NonceSpec

(* The node under the steps of the others. *)

\* A step of a goroutine that admits nothing leaves the node as it is.
LEMMA QuietNode ==
    ASSUME NEW t \in Threads, Quiet(t)
    PROVE  UNCHANGED nodeVars /\ CheckSeq' = CheckSeq /\ OnNode' = OnNode
  <1>1. UNCHANGED nodeVars
    BY DEF Quiet, Lock, LoadSeq, LoadNonce, SetSequence, ReadFactory, PrepareFactory,
           SimulateOk, SimulateMismatch, BroadcastRejected, AwaitIncluded, AwaitTimeout,
           PrepareFails, SimulateFails, BroadcastFails, BroadcastRefused, SyncNonce,
           SyncNonceFails, ReturnLocked, ReturnUnlocked, Again
  <1>2. committed' = committed /\ pool' = pool /\ chain' = chain
    BY <1>1 DEF nodeVars
  <1>3. included' = included
    BY <1>2 DEF included
  <1> QED
    BY <1>1, <1>2, <1>3 DEF CheckSeq, OnNode

LEMMA CheckSeqNat ==
    ASSUME NonceTypeOK
    PROVE  CheckSeq \in Nat /\ committed \in Nat /\ Len(pool) \in Nat
  BY LenProperties DEF NonceTypeOK, CheckSeq

\* An admitted transaction is on the node, and the next one has to carry the
\* following sequence.
LEMMA AdmitNode ==
    ASSUME NonceTypeOK, NEW x \in Txs, Admit(x)
    PROVE  /\ CheckSeq' = CheckSeq + 1
           /\ OnNode \subseteq OnNode' /\ x \in OnNode'
  <1>1. pool \in Seq(Txs) /\ Len(pool) \in Nat /\ committed \in Nat
    BY CheckSeqNat DEF NonceTypeOK
  <1>2. pool' = Append(pool, x) /\ committed' = committed /\ chain' = chain
    BY DEF Admit
  <1>3. /\ Len(pool') = Len(pool) + 1
        /\ \A i \in 1..Len(pool) : pool'[i] = pool[i]
        /\ pool'[Len(pool) + 1] = x
    BY <1>1, <1>2, AppendProperties
  <1>4. CheckSeq' = CheckSeq + 1
    BY <1>1, <1>2, <1>3 DEF CheckSeq
  <1>5. included' = included
    BY <1>2 DEF included
  <1>6. {pool[i] : i \in 1..Len(pool)} \cup {x} \subseteq {pool'[i] : i \in 1..Len(pool')}
    BY <1>1, <1>3
  <1> QED
    BY <1>4, <1>5, <1>6 DEF OnNode

\* A block moves transactions from the mempool to the chain: none is lost, and
\* the sequence the node asks for stays the same.
LEMMA BlockNode ==
    ASSUME NonceTypeOK, Block
    PROVE  CheckSeq' = CheckSeq /\ OnNode \subseteq OnNode'
  <1>0. pool \in Seq(Txs) /\ chain \in Seq(Txs) /\ Len(pool) \in Nat /\ Len(chain) \in Nat
    BY LenProperties DEF NonceTypeOK
  <1> PICK n \in 1..Len(pool) : DeliverBlock(n)
    BY DEF Block
  <1> DEFINE front == SubSeq(pool, 1, n)
             back  == SubSeq(pool, n + 1, Len(pool))
  <1>1. \A i \in 1..Len(pool) : pool[i] \in Txs
    BY <1>0, ElementOfSeq
  <1>2. /\ front \in Seq(Txs) /\ Len(front) = n
        /\ \A i \in 1..n : front[i] = pool[i]
    BY <1>0, <1>1, SubSeqProperties
  <1>3. /\ back \in Seq(Txs) /\ Len(back) = Len(pool) - n
        /\ \A i \in 1..(Len(pool) - n) : back[i] = pool[n + i]
    BY <1>0, <1>1, SubSeqProperties
  <1>4. pool' = back /\ chain' = chain \o front /\ committed' = committed + n
    BY DEF DeliverBlock
  <1>5. /\ Len(chain \o front) = Len(chain) + n
        /\ \A i \in 1..Len(chain) : (chain \o front)[i] = chain[i]
        /\ \A i \in 1..n : (chain \o front)[Len(chain) + i] = front[i]
    <2> HIDE DEF front
    <2>1. /\ Len(chain \o front) = Len(chain) + Len(front)
          /\ \A i \in 1..(Len(chain) + Len(front)) : (chain \o front)[i] =
                IF i <= Len(chain) THEN chain[i] ELSE front[i - Len(chain)]
      BY <1>0, <1>2, ConcatProperties
    <2> DEFINE joined == chain \o front
    <2> HIDE DEF joined
    <2>2. \A i \in 1..n : joined[Len(chain) + i] = front[i]
      BY <1>0, <1>2, <2>1 DEF joined
    <2> QED
      BY <1>0, <1>2, <2>1, <2>2 DEF joined
  <1>6. CheckSeq' = CheckSeq
    <2> HIDE DEF back
    <2>1. committed \in Nat
      BY DEF NonceTypeOK
    <2> QED
      BY <1>0, <1>3, <1>4, <2>1 DEF CheckSeq
  <1> HIDE DEF front, back
  <1>7. ASSUME NEW i \in 1..Len(chain)
        PROVE  chain[i] \in included'
    BY <1>0, <1>4, <1>5 DEF included
  <1>8. ASSUME NEW i \in 1..Len(pool)
        PROVE  pool[i] \in OnNode'
    <2>1. CASE i <= n
      <3>1. pool[i] = chain'[Len(chain) + i] /\ Len(chain) + i \in 1..Len(chain')
        BY <1>0, <1>2, <1>4, <1>5, <2>1
      <3> QED
        BY <3>1 DEF OnNode, included
    <2>2. CASE i > n
      <3>1. pool[i] = pool'[i - n] /\ i - n \in 1..Len(pool')
        BY <1>0, <1>3, <1>4, <2>2
      <3> QED
        BY <3>1 DEF OnNode
    <2> QED
      BY <1>0, <2>1, <2>2
  <1> QED
    BY <1>6, <1>7, <1>8 DEF OnNode, included

(* No drift without a fault. *)

\* Without a fault every answer is a zero code, so the holder of the mutex
\* never retries and always counts.
LEMMA QuietNoDrift ==
    ASSUME NonceTypeOK, OneHolder, NoDrift, NEW t \in Threads, Quiet(t)
    PROVE  NoDrift'
  <1> SUFFICES ASSUME faults' = 0 PROVE NoDrift'
    BY DEF NoDrift
  <1>0. /\ CheckSeq' = CheckSeq /\ OnNode' = OnNode /\ CheckSeq \in Nat
        /\ committed \in Nat /\ committed <= CheckSeq
    BY QuietNode, CheckSeqNat DEF CheckSeq
  <1>1. faults = 0 /\ (NoFault \/ Lock(t) \/ SetSequence(t))
    <2>1. ASSUME NEW f, Fault(f) PROVE FALSE
      BY <2>1, CallsAssumption DEF Fault, NonceTypeOK
    <2> QED
      BY <2>1 DEF NoFault, Quiet, Lock, LoadSeq, LoadNonce, SetSequence, ReadFactory,
           PrepareFactory, SimulateOk, SimulateMismatch, BroadcastRejected, AwaitIncluded,
           AwaitTimeout, PrepareFails, SimulateFails, BroadcastFails, BroadcastRefused,
           SyncNonce, SyncNonceFails, ReturnLocked, ReturnUnlocked, Disturb
  <1>2. /\ mux = NoThread => accSeq = CheckSeq
        /\ \A u \in Threads : Inside(u) /\ ~Sent(u) => accSeq = CheckSeq
        /\ \A u \in Threads : Sent(u) => accSeq + 1 = CheckSeq
        /\ \A u \in Threads : pc[u] \in {"simulate", "broadcast"} => sig[u] = accSeq
        /\ \A u \in Threads : pc[u] = "await" => Tx(u) \in OnNode
        /\ \A u \in Threads : pc[u] = "result" => res[u] = "ok"
    BY <1>1 DEF NoDrift
  <1>3. op[t] \in LockedOps /\ op[t] # "simulate" /\ op[t] \notin SignedOps
    <2>1. pc[t] # "idle"
      BY DEF Quiet, Lock, LoadSeq, LoadNonce, SetSequence, ReadFactory, PrepareFactory,
           SimulateOk, SimulateMismatch, BroadcastRejected, AwaitIncluded, AwaitTimeout,
           PrepareFails, SimulateFails, BroadcastFails, BroadcastRefused, SyncNonce,
           SyncNonceFails, ReturnLocked, ReturnUnlocked
    <2> QED
      BY <2>1 DEF OneHolder, LockedOps, SignedOps
  <1>4. /\ \A u \in Threads : pc[u] # "idle" => op[u] \in LockedOps
        /\ \A u \in Threads : Inside(u) => mux = u
        /\ \A u \in Threads : pc[u] \in {"setSeq", "prepare"} => sig[u] = accSeq
        /\ \A u \in Threads : pc[u] = "read" => txfSeq = accSeq
    BY DEF OneHolder
  <1> USE <1>0, <1>2, <1>3, <1>4, ThreadAssumption
      DEF NonceTypeOK, NoDrift, Inside, Sent, Tx, Goto, clientVars, threadVars
  <1>5. CASE Lock(t)
    BY <1>5 DEF Lock
  <1>6. CASE LoadSeq(t)
    BY <1>6 DEF LoadSeq
  <1>7. CASE LoadNonce(t)
    BY <1>7 DEF LoadNonce, AfterNonce
  <1>8. CASE SetSequence(t)
    BY <1>8 DEF SetSequence
  <1>9. CASE ReadFactory(t)
    BY <1>9 DEF ReadFactory
  <1>10. CASE PrepareFactory(t)
    <2>0. pc[t] = "prepare" /\ sig[t] = CheckSeq
      BY <1>10 DEF PrepareFactory
    <2>1. sig' = sig
      <3>1. sig[t] = 0 => committed = sig[t]
        BY <2>0
      <3> QED
        BY <1>10, <3>1 DEF PrepareFactory
    <2> QED
      BY <1>10, <2>1 DEF PrepareFactory, AfterPrepare
  <1>11. CASE SimulateOk(t)
    <2>1. pc' = [pc EXCEPT ![t] = "broadcast"] /\ res' = res
      BY <1>11 DEF SimulateOk
    <2> QED
      BY <1>11, <2>1 DEF SimulateOk
  <1>12. CASE SimulateMismatch(t) \/ BroadcastRejected(t)
    BY <1>12 DEF SimulateMismatch, BroadcastRejected
  <1>13. CASE AwaitIncluded(t)
    BY <1>13 DEF AwaitIncluded, End
  <1>14. CASE AwaitTimeout(t)
    <2>1. Tx(t) \notin OnNode /\ pc[t] = "await"
      BY <1>1, <1>14, CallsAssumption DEF AwaitTimeout, Fault, Lock, SetSequence
    <2> QED
      BY <2>1
  <1>15. CASE PrepareFails(t) \/ SimulateFails(t) \/ BroadcastFails(t) \/ BroadcastRefused(t)
               \/ SyncNonceFails(t)
    <2>1. faults' = faults + 1
      BY <1>15 DEF PrepareFails, SimulateFails, BroadcastFails, BroadcastRefused,
                   SyncNonceFails, Fault
    <2> QED
      BY <1>1, <2>1
  <1>16. CASE SyncNonce(t)
    BY <1>16 DEF SyncNonce, Retries
  <1>17. CASE ReturnLocked(t)
    BY <1>17 DEF ReturnLocked
  <1>18. CASE ReturnUnlocked(t)
    BY <1>18 DEF ReturnUnlocked
  <1> QED
    BY <1>5, <1>6, <1>7, <1>8, <1>9, <1>10, <1>11, <1>12, <1>13, <1>14, <1>15, <1>16,
       <1>17, <1>18 DEF Quiet

LEMMA BroadcastNoDrift ==
    ASSUME NonceTypeOK, OneHolder, NoDrift, NEW t \in Threads,
           BroadcastAccepted(t) \/ BroadcastLost(t)
    PROVE  NoDrift'
  <1> SUFFICES ASSUME faults' = 0 PROVE NoDrift'
    BY DEF NoDrift
  <1>1. BroadcastAccepted(t)
    BY CallsAssumption DEF BroadcastLost, Fault, NonceTypeOK
  <1>2. faults = 0 /\ pc[t] = "broadcast" /\ Admit(Tx(t))
        /\ UNCHANGED <<accSeq, mux, op, call, try, sig>>
    BY <1>1 DEF BroadcastAccepted, Disturb, clientVars
  <1>3. /\ CheckSeq' = CheckSeq + 1 /\ CheckSeq \in Nat
        /\ OnNode \subseteq OnNode' /\ Tx(t) \in OnNode'
    BY <1>2, TxType, AdmitNode, CheckSeqNat
  <1>4. mux = t /\ accSeq = CheckSeq /\ \A u \in Threads : Inside(u) => u = t
    BY <1>2 DEF NoDrift, OneHolder, Inside, Sent
  <1>5. \/ pc' = [pc EXCEPT ![t] = "await"] /\ res' = res
        \/ pc' = [pc EXCEPT ![t] = "result"] /\ res' = [res EXCEPT ![t] = "ok"]
    BY <1>1 DEF BroadcastAccepted, End, Goto
  <1> QED
    BY <1>2, <1>3, <1>4, <1>5, ThreadAssumption DEF NonceTypeOK, NoDrift, Inside, Sent, Tx

LEMMA NextNoDrift ==
    ASSUME Ops \subseteq LockedOps
    PROVE  NonceTypeOK /\ OneHolder /\ NoDrift /\ [NonceNext]_nonceVars => NoDrift'
  <1> SUFFICES ASSUME NonceTypeOK, OneHolder, NoDrift, [NonceNext]_nonceVars PROVE NoDrift'
    OBVIOUS
  <1>1. ASSUME NEW t \in Threads, NEW o \in Ops, Call(t, o)
        PROVE  NoDrift'
    <2>1. FirstStep(o) = "lock"
      BY DEF FirstStep, LockedOps, SignedOps
    <2>2. UNCHANGED <<committed, pool, chain, accSeq, mux, faults>>
      BY <1>1 DEF Call, NoFault, nodeVars, clientVars
    <2>3. CheckSeq' = CheckSeq /\ OnNode' = OnNode
      BY <2>2 DEF CheckSeq, OnNode, included
    <2> QED
      BY <1>1, <2>1, <2>2, <2>3 DEF Call, Goto, NonceTypeOK, NoDrift, Inside, Sent, Tx
  <1>2. CASE Block
    <2>1. CheckSeq' = CheckSeq /\ OnNode \subseteq OnNode'
      BY <1>2, BlockNode
    <2>2. UNCHANGED <<accSeq, mux, pc, op, call, try, sig, res, faults>>
      BY <1>2 DEF Block, NoFault, clientVars, threadVars
    <2> QED
      BY <2>1, <2>2 DEF NoDrift, Inside, Sent, Tx
  <1>3. CASE PoolLoss \/ ForeignTx
    <2>1. faults' # 0
      BY <1>3, CallsAssumption DEF PoolLoss, ForeignTx, Fault, NonceTypeOK
    <2> QED
      BY <2>1 DEF NoDrift
  <1>4. CASE UNCHANGED nonceVars
    <2>1. UNCHANGED <<committed, pool, chain, accSeq, mux, pc, op, call, try, sig, res, faults>>
      BY <1>4 DEF nonceVars, nodeVars, clientVars, threadVars
    <2>2. CheckSeq' = CheckSeq /\ OnNode' = OnNode
      BY <2>1 DEF CheckSeq, OnNode, included
    <2> QED
      BY <2>1, <2>2 DEF NoDrift, Inside, Sent, Tx
  <1> QED
    BY <1>1, <1>2, <1>3, <1>4, StepKinds, QuietNoDrift, BroadcastNoDrift

\* When goroutines use the locking methods only and nothing has failed, the
\* cached sequence is the one the node asks for whenever the mutex is free.
THEOREM NonceInSync ==
    ASSUME Ops \subseteq LockedOps
    PROVE  NonceSpec => []InSync
  <1>1. NonceInit => OneHolder /\ NoDrift
    <2> SUFFICES ASSUME NonceInit PROVE OneHolder /\ NoDrift
      OBVIOUS
    <2>1. accSeq = CheckSeq
      BY SeqAssumption DEF NonceInit, NodeInit, CheckSeq
    <2> QED
      BY <2>1 DEF NonceInit, OneHolder, NoDrift, Inside, Sent
  <1>2. NoDrift => InSync
    BY DEF NoDrift, InSync
  <1>3. NonceTypeOK /\ OneHolder /\ NoDrift /\ [NonceNext]_nonceVars => OneHolder' /\ NoDrift'
    BY NextOneHolder, NextNoDrift
  <1> QED
    BY <1>1, <1>2, <1>3, NonceTypeCorrect, PTL DEF NonceSpec

(* One retry heals any drift. *)

\* The mutex has one holder whatever the other methods do.
LEMMA QuietHoldsMutex ==
    ASSUME NonceTypeOK, HoldsMutex, NEW t \in Threads, Quiet(t)
    PROVE  HoldsMutex'
  <1> USE ThreadAssumption DEF NonceTypeOK, HoldsMutex, Goto, clientVars
  <1>1. CASE Lock(t)
    BY <1>1 DEF Lock
  <1>2. CASE LoadSeq(t)
    BY <1>2 DEF LoadSeq
  <1>3. CASE LoadNonce(t)
    BY <1>3 DEF LoadNonce, AfterNonce
  <1>4. CASE SetSequence(t)
    BY <1>4 DEF SetSequence
  <1>5. CASE ReadFactory(t)
    BY <1>5 DEF ReadFactory
  <1>6. CASE PrepareFactory(t)
    BY <1>6 DEF PrepareFactory, AfterPrepare
  <1>7. CASE SimulateOk(t)
    BY <1>7 DEF SimulateOk, End
  <1>8. CASE SimulateMismatch(t)
    BY <1>8 DEF SimulateMismatch, End
  <1>9. CASE BroadcastRejected(t)
    BY <1>9 DEF BroadcastRejected, End
  <1>10. CASE AwaitIncluded(t)
    BY <1>10 DEF AwaitIncluded, End
  <1>11. CASE AwaitTimeout(t)
    BY <1>11 DEF AwaitTimeout, End
  <1>12. CASE PrepareFails(t)
    BY <1>12 DEF PrepareFails, End
  <1>13. CASE SimulateFails(t)
    BY <1>13 DEF SimulateFails, End
  <1>14. CASE BroadcastFails(t)
    BY <1>14 DEF BroadcastFails, End
  <1>15. CASE BroadcastRefused(t)
    BY <1>15 DEF BroadcastRefused, End
  <1>16. CASE SyncNonce(t)
    BY <1>16 DEF SyncNonce, Again, Retries
  <1>17. CASE SyncNonceFails(t)
    BY <1>17 DEF SyncNonceFails, Again, Retries
  <1>18. CASE ReturnLocked(t)
    BY <1>18 DEF ReturnLocked
  <1>19. CASE ReturnUnlocked(t)
    BY <1>19 DEF ReturnUnlocked
  <1> QED
    BY <1>1, <1>2, <1>3, <1>4, <1>5, <1>6, <1>7, <1>8, <1>9, <1>10,
       <1>11, <1>12, <1>13, <1>14, <1>15, <1>16, <1>17, <1>18, <1>19 DEF Quiet

LEMMA NextHoldsMutex == NonceTypeOK /\ HoldsMutex /\ [NonceNext]_nonceVars => HoldsMutex'
  <1> SUFFICES ASSUME NonceTypeOK, HoldsMutex, [NonceNext]_nonceVars PROVE HoldsMutex'
    OBVIOUS
  <1>1. ASSUME NEW t \in Threads, BroadcastAccepted(t) \/ BroadcastLost(t)
        PROVE  HoldsMutex'
    <2>1. /\ pc[t] = "broadcast" /\ UNCHANGED <<op, try, mux>>
          /\ \/ pc' = [pc EXCEPT ![t] = "await"]
             \/ pc' = [pc EXCEPT ![t] = "result"]
      BY <1>1 DEF BroadcastAccepted, BroadcastLost, End, Goto, clientVars
    <2> QED
      BY <2>1 DEF NonceTypeOK, HoldsMutex
  <1>2. ASSUME NEW t \in Threads, NEW o \in Ops, Call(t, o)
        PROVE  HoldsMutex'
    <2>1. o \in LockedOps => FirstStep(o) = "lock"
      BY DEF FirstStep, LockedOps, SignedOps
    <2> QED
      BY <1>2, <2>1 DEF Call, Goto, NonceTypeOK, HoldsMutex, clientVars
  <1>3. CASE Block \/ PoolLoss \/ ForeignTx \/ UNCHANGED nonceVars
    <2>1. UNCHANGED <<pc, op, try, mux>>
      BY <1>3 DEF Block, PoolLoss, ForeignTx, nonceVars, clientVars, threadVars
    <2> QED
      BY <2>1 DEF HoldsMutex
  <1> QED
    BY <1>1, <1>2, <1>3, StepKinds, QuietHoldsMutex

\* The call of t is under way and nothing has disturbed it.
Healthy(t) == Inside(t) /\ Undisturbed(t)

LEMMA HealthyHolds ==
    ASSUME HoldsMutex, NEW t \in Threads, Healthy(t)
    PROVE  mux = t /\ op[t] \in LockedOps /\ pc[t] \notin {"idle", "lock", "load", "nonce"}
  BY DEF HoldsMutex, Healthy, Inside, Undisturbed

LEMMA FaultDisturbs ==
    ASSUME NEW f, Fault(f), NEW t \in Threads
    PROVE  ~Healthy(t)'
  BY DEF Fault, Healthy, Undisturbed

\* A step of a goroutine touches the fields of no other goroutine.
LEMMA OthersUntouched ==
    ASSUME NonceTypeOK, NEW t \in Threads, NEW u \in Threads \ {t},
           \/ Quiet(t) \/ BroadcastAccepted(t) \/ BroadcastLost(t)
           \/ \E o \in Ops : Call(t, o)
    PROVE  /\ pc'[u] = pc[u] /\ op'[u] = op[u] /\ call'[u] = call[u]
           /\ try'[u] = try[u] /\ sig'[u] = sig[u] /\ res'[u] = res[u]
  <1> USE DEF NonceTypeOK, Goto
  <1>1. CASE Lock(t)
    BY <1>1 DEF Lock
  <1>2. CASE LoadSeq(t)
    BY <1>2 DEF LoadSeq
  <1>3. CASE LoadNonce(t)
    BY <1>3 DEF LoadNonce, AfterNonce
  <1>4. CASE SetSequence(t)
    BY <1>4 DEF SetSequence
  <1>5. CASE ReadFactory(t)
    BY <1>5 DEF ReadFactory
  <1>6. CASE PrepareFactory(t)
    BY <1>6 DEF PrepareFactory, AfterPrepare
  <1>7. CASE SimulateOk(t)
    BY <1>7 DEF SimulateOk, End
  <1>8. CASE SimulateMismatch(t)
    BY <1>8 DEF SimulateMismatch, End
  <1>9. CASE BroadcastRejected(t)
    BY <1>9 DEF BroadcastRejected, End
  <1>10. CASE AwaitIncluded(t)
    BY <1>10 DEF AwaitIncluded, End
  <1>11. CASE AwaitTimeout(t)
    BY <1>11 DEF AwaitTimeout, End
  <1>12. CASE PrepareFails(t)
    BY <1>12 DEF PrepareFails, End
  <1>13. CASE SimulateFails(t)
    BY <1>13 DEF SimulateFails, End
  <1>14. CASE BroadcastFails(t)
    BY <1>14 DEF BroadcastFails, End
  <1>15. CASE BroadcastRefused(t)
    BY <1>15 DEF BroadcastRefused, End
  <1>16. CASE SyncNonce(t)
    BY <1>16 DEF SyncNonce, Again, Retries
  <1>17. CASE SyncNonceFails(t)
    BY <1>17 DEF SyncNonceFails, Again, Retries
  <1>18. CASE ReturnLocked(t)
    BY <1>18 DEF ReturnLocked
  <1>19. CASE ReturnUnlocked(t)
    BY <1>19 DEF ReturnUnlocked
  <1>20. CASE BroadcastAccepted(t)
    <2>1. UNCHANGED <<op, call, try, sig>>
      BY <1>20 DEF BroadcastAccepted
    <2>2. \/ pc' = [pc EXCEPT ![t] = "await"] /\ res' = res
          \/ pc' = [pc EXCEPT ![t] = "result"] /\ res' = [res EXCEPT ![t] = "ok"]
      BY <1>20 DEF BroadcastAccepted, End
    <2> QED
      BY <2>1, <2>2
  <1>21. CASE BroadcastLost(t)
    BY <1>21 DEF BroadcastLost, End
  <1>22. CASE \E o \in Ops : Call(t, o)
    BY <1>22 DEF Call
  <1> QED
    BY <1>1, <1>2, <1>3, <1>4, <1>5, <1>6, <1>7, <1>8, <1>9, <1>10, <1>11, <1>12, <1>13,
       <1>14, <1>15, <1>16, <1>17, <1>18, <1>19, <1>20, <1>21, <1>22 DEF Quiet

\* Other goroutines leave an undisturbed call alone.
LEMMA OthersHeal ==
    ASSUME NonceTypeOK, HoldsMutex, NEW t \in Threads, Quiet(t),
           NEW u \in Threads \ {t}, Healthy(u)'
    PROVE  /\ Healthy(u)
           /\ txfSeq' = txfSeq
           /\ pc'[u] = pc[u] /\ op'[u] = op[u] /\ call'[u] = call[u]
           /\ try'[u] = try[u] /\ sig'[u] = sig[u] /\ res'[u] = res[u]
  <1>1. /\ pc'[u] = pc[u] /\ op'[u] = op[u] /\ call'[u] = call[u]
        /\ try'[u] = try[u] /\ sig'[u] = sig[u] /\ res'[u] = res[u]
    BY OthersUntouched
  <1>2. \/ calm' = calm
        \/ calm' = [calm EXCEPT ![t] = (pool = <<>>)]
        \/ calm' = [v \in Threads |-> FALSE]
    BY DEF Quiet, Lock, LoadSeq, LoadNonce, SetSequence, ReadFactory,
           PrepareFactory, SimulateOk, SimulateMismatch, BroadcastRejected, AwaitIncluded,
           AwaitTimeout, PrepareFails, SimulateFails, BroadcastFails, BroadcastRefused,
           SyncNonce, SyncNonceFails, ReturnLocked, ReturnUnlocked, NoFault, Fault, Disturb
  <1>3. Healthy(u)
    BY <1>1, <1>2 DEF Healthy, Inside, Undisturbed, NonceTypeOK
  <1>4. mux = u
    BY <1>3, HealthyHolds
  <1>5. CASE SetSequence(t)
    <2>1. op[t] \notin LockedOps
      BY <1>4, <1>5 DEF SetSequence, HoldsMutex
    <2> QED
      BY <1>5, <2>1 DEF SetSequence, Disturb, Healthy, Undisturbed
  <1>6. CASE ~SetSequence(t)
    <2>1. txfSeq' = txfSeq
      BY <1>6 DEF Quiet, Lock, LoadSeq, LoadNonce, SetSequence, ReadFactory,
           PrepareFactory, SimulateOk, SimulateMismatch, BroadcastRejected, AwaitIncluded,
           AwaitTimeout, PrepareFails, SimulateFails, BroadcastFails, BroadcastRefused,
           SyncNonce, SyncNonceFails, ReturnLocked, ReturnUnlocked, Again, clientVars
    <2> QED
      BY <1>1, <1>3, <2>1
  <1> QED
    BY <1>5, <1>6

\* The steps of the undisturbed call itself: with an empty pool the simulation
\* fails only when the signature does not carry the committed sequence, and
\* after syncNonce it does.
LEMMA OwnHeals ==
    ASSUME Simulate, NonceTypeOK, HoldsMutex, NEW t \in Threads, Quiet(t), Healthy(t)',
           Healthy(t) => Heals(t)
    PROVE  Heals(t)'
  <1>0. /\ committed' = committed /\ pool' = pool /\ OnNode' = OnNode
        /\ CheckSeq \in Nat /\ committed \in Nat
        /\ pool = <<>> => CheckSeq = committed
    <2>1. pool = <<>> => Len(pool) = 0
      BY EmptySeq
    <2> QED
      BY <2>1, QuietNode, CheckSeqNat DEF CheckSeq, nodeVars
  <1>1. \A f : ~Fault(f)
    BY FaultDisturbs
  <1>2. CASE Lock(t)
    <2>1. pc' = [pc EXCEPT ![t] = "setSeq"] /\ try' = try /\ pool = <<>>
      BY <1>2 DEF Lock, Goto, Healthy, Undisturbed, NonceTypeOK
    <2>2. op'[t] \in LockedOps /\ op' = op
      BY <1>2 DEF Lock, Healthy, Undisturbed
    <2>3. try[t] = 1
      BY <1>2, <2>2 DEF Lock, HoldsMutex
    <2> QED
      BY <1>0, <2>1, <2>3 DEF Heals, NonceTypeOK
  <1>3. CASE ~Lock(t)
    <2>1. calm'[t] = calm[t] /\ op' = op
      BY <1>1, <1>3 DEF Quiet, LoadSeq, LoadNonce, SetSequence, ReadFactory,
           PrepareFactory, SimulateOk, SimulateMismatch, BroadcastRejected, AwaitIncluded,
           AwaitTimeout, PrepareFails, SimulateFails, BroadcastFails, BroadcastRefused,
           SyncNonce, SyncNonceFails, ReturnLocked, ReturnUnlocked, NoFault, Disturb,
           Again, Healthy, Undisturbed, NonceTypeOK
    <2>2. calm[t] /\ op[t] \in LockedOps
      BY <2>1 DEF Healthy, Undisturbed
    <2>3. pc[t] \notin {"idle", "lock"}
      BY <1>3 DEF Quiet, LoadSeq, LoadNonce, SetSequence, ReadFactory,
           PrepareFactory, SimulateOk, SimulateMismatch, BroadcastRejected, AwaitIncluded,
           AwaitTimeout, PrepareFails, SimulateFails, BroadcastFails, BroadcastRefused,
           SyncNonce, SyncNonceFails, ReturnLocked, ReturnUnlocked
    <2>4. Heals(t) /\ pc[t] \notin {"load", "nonce"}
      BY <2>2, <2>3 DEF Healthy, Inside, Undisturbed, HoldsMutex
    <2>5. op[t] # "simulate" /\ op[t] \notin SignedOps
      BY <2>2 DEF LockedOps, SignedOps
    <2> USE <1>0, <2>4 DEF Heals, NonceTypeOK, Goto, Tx
    <2>6. CASE SetSequence(t)
      BY <2>6 DEF SetSequence
    <2>7. CASE ReadFactory(t)
      BY <2>7 DEF ReadFactory
    <2>8. CASE PrepareFactory(t)
      <3>1. pc' = [pc EXCEPT ![t] = "simulate"] /\ pc[t] = "prepare"
        BY <2>2, <2>8 DEF PrepareFactory, AfterPrepare
      <3>2. sig'[t] = IF sig[t] = 0 THEN committed ELSE sig[t]
        BY <2>8 DEF PrepareFactory
      <3> QED
        BY <2>8, <3>1, <3>2 DEF PrepareFactory
    <2>9. CASE SimulateOk(t)
      <3>1. pc' = [pc EXCEPT ![t] = "broadcast"] /\ pc[t] = "simulate"
        BY <2>5, <2>9 DEF SimulateOk
      <3> QED
        BY <2>9, <3>1 DEF SimulateOk
    <2>10. CASE SimulateMismatch(t)
      BY <2>10 DEF SimulateMismatch, End
    <2>11. CASE BroadcastRejected(t)
      BY <2>11 DEF BroadcastRejected
    <2>12. CASE AwaitIncluded(t)
      BY <2>12 DEF AwaitIncluded, End
    <2>13. CASE AwaitTimeout(t)
      <3>1. Tx(t) \notin OnNode /\ pc[t] = "await"
        BY <1>1, <2>13 DEF AwaitTimeout
      <3> QED
        BY <3>1
    <2>14. CASE SyncNonce(t)
      BY <2>14 DEF SyncNonce, Again, Retries
    <2>15. CASE ReturnLocked(t) \/ ReturnUnlocked(t)
      BY <2>15 DEF ReturnLocked, ReturnUnlocked, Healthy, Inside
    <2>16. CASE LoadSeq(t) \/ LoadNonce(t)
      BY <2>16 DEF LoadSeq, LoadNonce
    <2>17. ~(PrepareFails(t) \/ SimulateFails(t) \/ BroadcastFails(t)
               \/ BroadcastRefused(t) \/ SyncNonceFails(t))
      BY <1>1 DEF PrepareFails, SimulateFails, BroadcastFails, BroadcastRefused,
                  SyncNonceFails
    <2> QED
      BY <1>3, <2>6, <2>7, <2>8, <2>9, <2>10, <2>11, <2>12, <2>13, <2>14, <2>15, <2>16,
         <2>17 DEF Quiet
  <1> QED
    BY <1>2, <1>3

\* The transaction that ends an undisturbed call is its own.
LEMMA BroadcastHeals ==
    ASSUME NonceTypeOK, HoldsMutex, NEW t \in Threads, BroadcastAccepted(t) \/ BroadcastLost(t),
           NEW u \in Threads, Healthy(u)'
    PROVE  Heals(u)'
  <1>1. BroadcastAccepted(t)
    BY FaultDisturbs DEF BroadcastLost
  <1>2. op' = op /\ pc[t] = "broadcast" /\ calm'[u] /\ op[u] \in LockedOps
    BY <1>1 DEF BroadcastAccepted, Healthy, Undisturbed
  <1>3. op[t] \in LockedOps /\ calm' = calm
    BY <1>1, <1>2 DEF BroadcastAccepted, Disturb
  <1>4. mux = t
    BY <1>2, <1>3 DEF HoldsMutex
  <1>5. \/ pc' = [pc EXCEPT ![t] = "await"] /\ res' = res
        \/ pc' = [pc EXCEPT ![t] = "result"] /\ res' = [res EXCEPT ![t] = "ok"]
    BY <1>1 DEF BroadcastAccepted, End, Goto
  <1>6. u = t
    <2> SUFFICES ASSUME u # t PROVE FALSE
      OBVIOUS
    <2>1. Healthy(u)
      BY <1>2, <1>3, <1>5 DEF Healthy, Inside, Undisturbed, NonceTypeOK
    <2> QED
      BY <1>4, <2>1, HealthyHolds
  <1>7. Tx(t) \in OnNode' /\ Tx(t)' = Tx(t)
    BY <1>1, TxType, AdmitNode DEF BroadcastAccepted, Tx
  <1> QED
    BY <1>5, <1>6, <1>7 DEF Heals, NonceTypeOK

LEMMA NextHealing ==
    ASSUME Simulate
    PROVE  NonceTypeOK /\ Healing /\ [NonceNext]_nonceVars => Healing'
  <1> SUFFICES ASSUME NonceTypeOK, Healing, [NonceNext]_nonceVars, NEW u \in Threads, Healthy(u)'
               PROVE  Heals(u)'
    BY NextHoldsMutex DEF Healing, Healthy
  <1>0. HoldsMutex /\ (Healthy(u) => Heals(u))
    BY DEF Healing, Healthy
  <1>1. ASSUME NEW t \in Threads, Quiet(t)
        PROVE  Heals(u)'
    <2>1. CASE u = t
      BY <1>0, <1>1, <2>1, OwnHeals
    <2>2. CASE u # t
      <3>1. committed' = committed /\ pool' = pool /\ OnNode' = OnNode
        BY <1>1, QuietNode DEF nodeVars
      <3>2. /\ Healthy(u) /\ txfSeq' = txfSeq
            /\ pc'[u] = pc[u] /\ call'[u] = call[u]
            /\ try'[u] = try[u] /\ sig'[u] = sig[u] /\ res'[u] = res[u]
        BY <1>0, <1>1, <2>2, OthersHeal
      <3> QED
        BY <1>0, <3>1, <3>2 DEF Heals, Tx
    <2> QED
      BY <2>1, <2>2
  <1>2. ASSUME NEW t \in Threads, BroadcastAccepted(t) \/ BroadcastLost(t)
        PROVE  Heals(u)'
    BY <1>0, <1>2, BroadcastHeals
  <1>3. ASSUME NEW t \in Threads, NEW o \in Ops, Call(t, o)
        PROVE  Heals(u)'
    <2>1. o \in LockedOps => FirstStep(o) = "lock"
      BY DEF FirstStep, LockedOps, SignedOps
    <2>2. u # t
      BY <1>3, <2>1 DEF Call, Goto, NonceTypeOK, Healthy, Inside, Undisturbed
    <2>3. /\ UNCHANGED <<committed, pool, chain, txfSeq>>
          /\ pc'[u] = pc[u] /\ call'[u] = call[u] /\ op'[u] = op[u] /\ calm' = calm
          /\ try'[u] = try[u] /\ sig'[u] = sig[u] /\ res'[u] = res[u]
      BY <1>3, <2>2 DEF Call, Goto, NoFault, NonceTypeOK, nodeVars, clientVars
    <2>4. OnNode' = OnNode
      BY <2>3 DEF OnNode, included
    <2>5. Healthy(u)
      BY <2>3 DEF Healthy, Inside, Undisturbed
    <2> QED
      BY <1>0, <2>3, <2>4, <2>5 DEF Heals, Tx
  <1>4. CASE Block
    <2>1. /\ UNCHANGED <<txfSeq, pc, op, call, try, sig, res, calm>>
          /\ pool # <<>>
      <3>1. pool = <<>> => Len(pool) = 0
        BY EmptySeq
      <3> QED
        BY <1>4, <3>1 DEF Block, NoFault, clientVars, threadVars
    <2>2. OnNode \subseteq OnNode'
      BY <1>4, BlockNode
    <2>3. Healthy(u)
      BY <2>1 DEF Healthy, Inside, Undisturbed
    <2> QED
      BY <1>0, <2>1, <2>2, <2>3 DEF Heals, Tx
  <1>5. CASE PoolLoss \/ ForeignTx
    BY <1>5, FaultDisturbs DEF PoolLoss, ForeignTx
  <1>6. CASE UNCHANGED nonceVars
    <2>1. UNCHANGED <<committed, pool, chain, txfSeq, pc, op, call, try, sig, res, calm>>
      BY <1>6 DEF nonceVars, nodeVars, clientVars, threadVars
    <2>2. OnNode' = OnNode
      BY <2>1 DEF OnNode, included
    <2>3. Healthy(u)
      BY <2>1 DEF Healthy, Inside, Undisturbed
    <2> QED
      BY <1>0, <2>1, <2>2, <2>3 DEF Heals, Tx
  <1> QED
    BY <1>1, <1>2, <1>3, <1>4, <1>5, <1>6, StepKinds

\* When the client simulates, one retry heals any drift: whatever other methods,
\* blocks and earlier faults have done to the cached sequence, a call of a
\* locking method that starts on an empty pool and is not disturbed is neither
\* rejected nor comes back with a sequence mismatch.
THEOREM NonceOneRetryHeals ==
    ASSUME Simulate
    PROVE  NonceSpec => []OneRetryHeals
  <1>1. NonceInit => Healing
    BY DEF NonceInit, Healing, HoldsMutex, Inside
  <1>2. NonceTypeOK /\ Healing => OneRetryHeals
    BY DEF Healing, Heals, OneRetryHeals, Inside, Undisturbed, Retries
  <1>3. NonceTypeOK /\ Healing /\ [NonceNext]_nonceVars => Healing'
    BY NextHealing
  <1> QED
    BY <1>1, <1>2, <1>3, NonceTypeCorrect, PTL DEF NonceSpec

(* The order of one goroutine's transactions on the node. *)

\* What is in blocks and after it what waits in the mempool.
Line == chain \o pool

\* Of one goroutine's transactions, the one of the later call is further back.
InCallOrder(s) ==
    \A i, j \in 1..Len(s) :
        i < j /\ s[i][1] = s[j][1] /\ s[i][1] # Foreign => s[i][2] < s[j][2]

LineShape ==
    /\ Line \in Seq(Txs) /\ Len(Line) \in Nat
    /\ Len(Line) = Len(chain) + Len(pool) /\ Len(chain) \in Nat /\ Len(pool) \in Nat
    /\ \A i \in 1..Len(chain) : Line[i] = chain[i]
    /\ \A i \in 1..Len(pool) : Line[Len(chain) + i] = pool[i]

LEMMA LineFacts == NonceTypeOK => LineShape
  <1> SUFFICES ASSUME NonceTypeOK PROVE LineShape
    OBVIOUS
  <1>1. /\ chain \in Seq(Txs) /\ pool \in Seq(Txs)
        /\ Len(chain) \in Nat /\ Len(pool) \in Nat
    BY LenProperties DEF NonceTypeOK
  <1>2. /\ Line \in Seq(Txs) /\ Len(Line) = Len(chain) + Len(pool)
        /\ \A i \in 1..(Len(chain) + Len(pool)) :
               Line[i] = IF i <= Len(chain) THEN chain[i] ELSE pool[i - Len(chain)]
    BY <1>1, ConcatProperties DEF Line
  <1>3. ASSUME NEW i \in 1..Len(pool) PROVE Line[Len(chain) + i] = pool[i]
    <2>1. /\ Len(chain) + i \in 1..(Len(chain) + Len(pool)) /\ ~(Len(chain) + i <= Len(chain))
          /\ (Len(chain) + i) - Len(chain) = i
      BY <1>1
    <2> QED
      BY <1>2, <2>1
  <1>4. \A i \in 1..Len(chain) : Line[i] = chain[i]
    BY <1>1, <1>2
  <1> QED
    BY <1>1, <1>2, <1>3, <1>4 DEF LineShape

\* A block does not move anybody in the line.
LEMMA BlockLine ==
    ASSUME NonceTypeOK, NonceTypeOK', Block
    PROVE  Line' = Line
  <1>1. /\ Line \in Seq(Txs) /\ Len(Line) = Len(chain) + Len(pool)
        /\ Len(chain) \in Nat /\ Len(pool) \in Nat
        /\ \A i \in 1..Len(chain) : Line[i] = chain[i]
        /\ \A i \in 1..Len(pool) : Line[Len(chain) + i] = pool[i]
    BY LineFacts DEF LineShape
  <1>2. /\ Line' \in Seq(Txs) /\ Len(Line') = Len(chain') + Len(pool') /\ Len(Line') \in Nat
        /\ Len(chain') \in Nat /\ Len(pool') \in Nat
        /\ \A i \in 1..Len(chain') : Line'[i] = chain'[i]
        /\ \A i \in 1..Len(pool') : Line'[Len(chain') + i] = pool'[i]
    <2>1. LineShape'
      BY LineFacts, PTL
    <2> QED
      BY <2>1 DEF LineShape
  <1> PICK n \in 1..Len(pool) : DeliverBlock(n)
    BY DEF Block
  <1> DEFINE front == SubSeq(pool, 1, n)
             back  == SubSeq(pool, n + 1, Len(pool))
  <1>3. chain \in Seq(Txs) /\ pool \in Seq(Txs) /\ \A i \in 1..Len(pool) : pool[i] \in Txs
    BY ElementOfSeq DEF NonceTypeOK
  <1>4. /\ front \in Seq(Txs) /\ Len(front) = n
        /\ \A i \in 1..n : front[i] = pool[i]
    BY <1>1, <1>3, SubSeqProperties
  <1>5. /\ back \in Seq(Txs) /\ Len(back) = Len(pool) - n
        /\ \A i \in 1..(Len(pool) - n) : back[i] = pool[n + i]
    BY <1>1, <1>3, SubSeqProperties
  <1> HIDE DEF front, back
  <1>6. pool' = back /\ chain' = chain \o front
    BY DEF DeliverBlock, front, back
  <1>7. /\ Len(chain') = Len(chain) + n
        /\ \A i \in 1..(Len(chain) + n) :
               chain'[i] = IF i <= Len(chain) THEN chain[i] ELSE front[i - Len(chain)]
    <2>1. /\ Len(chain \o front) = Len(chain) + Len(front)
          /\ \A i \in 1..(Len(chain) + Len(front)) : (chain \o front)[i] =
                IF i <= Len(chain) THEN chain[i] ELSE front[i - Len(chain)]
      BY <1>3, <1>4, ConcatProperties
    <2> QED
      BY <1>4, <1>6, <2>1
  <1>8. Len(Line') = Len(Line)
    <2>1. Len(pool') = Len(pool) - n
      BY <1>5, <1>6
    <2> HIDE DEF Line
    <2> QED
      BY <1>1, <1>2, <1>7, <2>1
  <1>9. ASSUME NEW i \in 1..Len(Line) PROVE Line'[i] = Line[i]
    <2>1. CASE i <= Len(chain)
      <3>1. i \in 1..Len(chain) /\ i \in 1..Len(chain')
        BY <1>1, <1>7, <2>1
      <3>2. chain'[i] = chain[i]
        BY <1>1, <1>7, <3>1
      <3> QED
        BY <1>1, <1>2, <3>1, <3>2
    <2>2. CASE Len(chain) < i /\ i <= Len(chain) + n
      <3>1. i - Len(chain) \in 1..n /\ i \in 1..Len(chain')
        BY <1>1, <1>7, <2>2
      <3>2. Line'[i] = pool[i - Len(chain)]
        BY <1>1, <1>2, <1>4, <1>7, <2>2, <3>1
      <3>3. Line[Len(chain) + (i - Len(chain))] = pool[i - Len(chain)]
        BY <1>1, <3>1
      <3> QED
        BY <1>1, <3>2, <3>3
    <2>3. CASE Len(chain) + n < i
      <3> DEFINE k == i - Len(chain) - n
      <3>1. k \in 1..(Len(pool) - n) /\ i = Len(chain') + k /\ i = Len(chain) + (n + k)
            /\ n + k \in 1..Len(pool)
        BY <1>1, <1>7, <2>3
      <3> HIDE DEF k
      <3>2. Line'[i] = pool[n + k]
        BY <1>2, <1>5, <1>6, <3>1
      <3> QED
        BY <1>1, <3>1, <3>2
    <2> QED
      BY <1>1, <2>1, <2>2, <2>3
  <1> QED
    BY <1>1, <1>2, <1>8, <1>9, SeqEqual

\* An admitted transaction goes to the end of the line.
LEMMA AdmitLine ==
    ASSUME NonceTypeOK, NonceTypeOK', NEW x \in Txs, Admit(x)
    PROVE  /\ Len(Line') = Len(Line) + 1 /\ Len(Line) \in Nat
           /\ Line'[Len(Line) + 1] = x
           /\ \A i \in 1..Len(Line) : Line'[i] = Line[i]
  <1>1. /\ Len(Line) = Len(chain) + Len(pool)
        /\ Len(chain) \in Nat /\ Len(pool) \in Nat
        /\ \A i \in 1..Len(chain) : Line[i] = chain[i]
        /\ \A i \in 1..Len(pool) : Line[Len(chain) + i] = pool[i]
    BY LineFacts DEF LineShape
  <1>2. /\ Len(Line') = Len(chain') + Len(pool') /\ Len(Line') \in Nat
        /\ Len(chain') \in Nat /\ Len(pool') \in Nat
        /\ \A i \in 1..Len(chain') : Line'[i] = chain'[i]
        /\ \A i \in 1..Len(pool') : Line'[Len(chain') + i] = pool'[i]
    <2>1. LineShape'
      BY LineFacts, PTL
    <2> QED
      BY <2>1 DEF LineShape
  <1>3. /\ chain' = chain /\ Len(pool') = Len(pool) + 1
        /\ pool'[Len(pool) + 1] = x
        /\ \A i \in 1..Len(pool) : pool'[i] = pool[i]
    BY AppendProperties DEF Admit, NonceTypeOK
  <1>4. Line'[Len(Line) + 1] = x
    <2>1. Line'[Len(chain) + (Len(pool) + 1)] = x
      BY <1>1, <1>2, <1>3
    <2> QED
      BY <1>1, <2>1
  <1>5. ASSUME NEW i \in 1..Len(Line) PROVE Line'[i] = Line[i]
    <2>1. CASE i <= Len(chain)
      BY <1>1, <1>2, <1>3, <2>1
    <2>2. CASE i > Len(chain)
      <3> DEFINE k == i - Len(chain)
      <3>1. k \in 1..Len(pool) /\ i = Len(chain) + k
        BY <1>1, <2>2
      <3> HIDE DEF k
      <3>2. k \in 1..Len(pool') /\ i = Len(chain') + k
        BY <1>1, <1>3, <3>1
      <3>3. Line'[i] = pool'[k]
        BY <1>2, <3>2
      <3>4. Line[i] = pool[k]
        BY <1>1, <3>1
      <3> QED
        BY <1>3, <3>1, <3>3, <3>4
    <2> QED
      BY <1>1, <2>1, <2>2
  <1> QED
    BY <1>1, <1>2, <1>3, <1>4, <1>5

\* The mempool loses the end of the line.
LEMMA EvictLine ==
    ASSUME NonceTypeOK, NonceTypeOK', PoolLoss
    PROVE  /\ Len(Line') <= Len(Line) /\ Len(Line) \in Nat /\ Len(Line') \in Nat
           /\ \A i \in 1..Len(Line') : Line'[i] = Line[i]
  <1>1. /\ Len(Line) = Len(chain) + Len(pool)
        /\ Len(chain) \in Nat /\ Len(pool) \in Nat
        /\ \A i \in 1..Len(chain) : Line[i] = chain[i]
        /\ \A i \in 1..Len(pool) : Line[Len(chain) + i] = pool[i]
    BY LineFacts DEF LineShape
  <1>2. /\ Len(Line') = Len(chain') + Len(pool') /\ Len(Line') \in Nat
        /\ Len(chain') \in Nat /\ Len(pool') \in Nat
        /\ \A i \in 1..Len(chain') : Line'[i] = chain'[i]
        /\ \A i \in 1..Len(pool') : Line'[Len(chain') + i] = pool'[i]
    <2>1. LineShape'
      BY LineFacts, PTL
    <2> QED
      BY <2>1 DEF LineShape
  <1> PICK n \in 0..(Len(pool) - 1) : Evict(n)
    BY DEF PoolLoss
  <1>3. pool \in Seq(Txs) /\ \A i \in 1..Len(pool) : pool[i] \in Txs
    BY ElementOfSeq DEF NonceTypeOK
  <1>4. /\ chain' = chain /\ Len(pool') = n
        /\ \A i \in 1..n : pool'[i] = pool[i]
    BY <1>1, <1>3, SubSeqProperties DEF Evict
  <1>5. ASSUME NEW i \in 1..Len(Line') PROVE Line'[i] = Line[i]
    <2>1. CASE i <= Len(chain)
      BY <1>1, <1>2, <1>4, <2>1
    <2>2. CASE i > Len(chain)
      <3> DEFINE k == i - Len(chain)
      <3>1. k \in 1..n /\ i = Len(chain) + k
        BY <1>1, <1>2, <1>4, <2>2
      <3> HIDE DEF k
      <3>0. k \in 1..Len(pool)
        BY <1>1, <3>1
      <3>2. Line'[i] = pool'[k]
        BY <1>2, <1>4, <3>1
      <3>3. Line[i] = pool[k]
        BY <1>1, <3>0, <3>1
      <3> QED
        BY <1>4, <3>1, <3>2, <3>3
    <2> QED
      BY <1>1, <1>2, <1>4, <2>1, <2>2
  <1> QED
    BY <1>1, <1>2, <1>4, <1>5

\* Whoever is in the line was admitted, calls are counted from 1, and the line
\* is in call order: with SentOnce, inductive.
Lined ==
    /\ \A t \in Threads : pc[t] # "idle" => call[t] > 0
    /\ \A x \in admitted : x[1] # Foreign => x[2] > 0
    /\ \A i \in 1..Len(Line) : Line[i] \in admitted
    /\ InCallOrder(Line)

\* Steps that leave the line alone and count no call down.
LEMMA LinedFrame ==
    ASSUME Lined, Line' = Line, admitted' = admitted,
           \A t \in Threads : pc'[t] # "idle" => call'[t] > 0
    PROVE  Lined'
  BY DEF Lined, InCallOrder

\* One more at the end of the line.
LEMMA LinedGrows ==
    ASSUME NonceTypeOK, NonceTypeOK', Lined, NEW x \in Txs, Admit(x),
           x[1] # Foreign => x[2] > 0,
           x[1] # Foreign => \A y \in admitted : y[1] = x[1] => y[2] < x[2],
           \A t \in Threads : pc'[t] # "idle" => call'[t] > 0
    PROVE  Lined'
  <1>1. /\ Len(Line') = Len(Line) + 1 /\ Len(Line) \in Nat
        /\ Line'[Len(Line) + 1] = x
        /\ \A i \in 1..Len(Line) : Line'[i] = Line[i]
    BY AdmitLine
  <1>2. admitted' = admitted \cup {x}
    BY DEF Admit
  <1>3. \A i \in 1..Len(Line') : Line'[i] \in admitted'
    BY <1>1, <1>2 DEF Lined
  <1>4. InCallOrder(Line')
    <2> SUFFICES ASSUME NEW i \in 1..Len(Line'), NEW j \in 1..Len(Line'), i < j,
                        Line'[i][1] = Line'[j][1], Line'[i][1] # Foreign
                 PROVE  Line'[i][2] < Line'[j][2]
      BY DEF InCallOrder
    <2>1. i \in 1..Len(Line)
      BY <1>1
    <2>2. CASE j \in 1..Len(Line)
      BY <1>1, <2>1, <2>2 DEF Lined, InCallOrder
    <2>3. CASE j = Len(Line) + 1
      BY <1>1, <2>1, <2>3 DEF Lined
    <2> QED
      BY <1>1, <2>2, <2>3
  <1> QED
    BY <1>2, <1>3, <1>4 DEF Lined, InCallOrder

LEMMA NextLined ==
    ASSUME NonceTypeOK, NonceTypeOK', SentOnce, Lined, [NonceNext]_nonceVars
    PROVE  Lined'
  <1>1. ASSUME NEW t \in Threads, Quiet(t)
        PROVE  Lined'
    <2>1. Line' = Line /\ admitted' = admitted
      BY <1>1, QuietNode DEF nodeVars, Line
    <2>2. call' = call /\ pc[t] # "idle"
      BY <1>1 DEF Quiet, Lock, LoadSeq, LoadNonce, SetSequence, ReadFactory, PrepareFactory,
           SimulateOk, SimulateMismatch, BroadcastRejected, AwaitIncluded, AwaitTimeout,
           PrepareFails, SimulateFails, BroadcastFails, BroadcastRefused, SyncNonce,
           SyncNonceFails, ReturnLocked, ReturnUnlocked, Again
    <2>3. \A u \in Threads \ {t} : pc'[u] = pc[u]
      BY <1>1, OthersUntouched
    <2> QED
      BY <2>1, <2>2, <2>3, LinedFrame DEF Lined
  <1>2. ASSUME NEW t \in Threads, BroadcastAccepted(t) \/ BroadcastLost(t)
        PROVE  Lined'
    <2>1. pc[t] = "broadcast" /\ Admit(Tx(t)) /\ call' = call /\ Tx(t) \in Txs
      BY <1>2, TxType DEF BroadcastAccepted, BroadcastLost
    <2>2. Tx(t)[1] = t /\ Tx(t)[2] = call[t] /\ call[t] > 0 /\ call[t] \in Nat
      BY <2>1, CallsAssumption DEF Tx, Lined, NonceTypeOK
    <2>3. \A y \in admitted : y[1] = t => y[2] < call[t]
      <3> SUFFICES ASSUME NEW y \in admitted, y[1] = t PROVE y[2] < call[t]
        OBVIOUS
      <3>1. y[2] # call[t] /\ y[2] <= call[t]
        BY <2>1, ThreadAssumption DEF SentOnce, Unsent
      <3>2. y[2] \in Nat
        BY DEF NonceTypeOK, Txs
      <3> QED
        BY <2>2, <3>1, <3>2
    <2>4. \A u \in Threads : pc'[u] # "idle" => call'[u] > 0
      <3>1. \A u \in Threads \ {t} : pc'[u] = pc[u]
        BY <1>2, OthersUntouched
      <3> QED
        BY <2>1, <2>2, <3>1 DEF Lined
    <2> QED
      BY <2>1, <2>2, <2>3, <2>4, LinedGrows
  <1>3. ASSUME NEW t \in Threads, NEW o \in Ops, Call(t, o)
        PROVE  Lined'
    <2>1. Line' = Line /\ admitted' = admitted
      BY <1>3 DEF Call, nodeVars, Line
    <2>2. call'[t] > 0
      BY <1>3, CallsAssumption DEF Call, NonceTypeOK
    <2>3. \A u \in Threads \ {t} : pc'[u] = pc[u] /\ call'[u] = call[u]
      BY <1>3, OthersUntouched
    <2> QED
      BY <2>1, <2>2, <2>3, LinedFrame DEF Lined
  <1>4. CASE Block
    <2>1. Line' = Line
      BY <1>4, BlockLine
    <2>2. UNCHANGED <<admitted, pc, call>>
      BY <1>4 DEF Block, DeliverBlock, threadVars
    <2> QED
      BY <2>1, <2>2, LinedFrame DEF Lined
  <1>5. CASE PoolLoss
    <2>1. /\ Len(Line') <= Len(Line) /\ Len(Line) \in Nat /\ Len(Line') \in Nat
          /\ \A i \in 1..Len(Line') : Line'[i] = Line[i]
      BY <1>5, EvictLine
    <2>2. UNCHANGED <<admitted, pc, call>>
      BY <1>5 DEF PoolLoss, Evict, threadVars
    <2> QED
      BY <2>1, <2>2 DEF Lined, InCallOrder
  <1>6. CASE ForeignTx
    <2>1. Admit(<<Foreign, faults, 1>>) /\ UNCHANGED <<pc, call>>
      BY <1>6 DEF ForeignTx, threadVars
    <2>2. <<Foreign, faults, 1>> \in Txs
      <3>1. faults \in Nat
        BY CallsAssumption DEF NonceTypeOK
      <3> QED
        BY <3>1 DEF Txs
    <2> QED
      BY <2>1, <2>2, LinedGrows DEF Lined
  <1>7. CASE UNCHANGED nonceVars
    BY <1>7, LinedFrame DEF nonceVars, nodeVars, threadVars, Line, Lined
  <1> QED
    BY <1>1, <1>2, <1>3, <1>4, <1>5, <1>6, <1>7, StepKinds

LEMMA InitLined == NonceInit => Lined
  <1> SUFFICES ASSUME NonceInit PROVE Lined
    OBVIOUS
  <1>1. Len(Line) = 0
    <2>1. chain = <<>> /\ pool = <<>>
      BY DEF NonceInit, NodeInit
    <2> QED
      BY <2>1 DEF Line
  <1> QED
    BY <1>1 DEF NonceInit, NodeInit, Lined, InCallOrder

LEMMA LinedChain ==
    ASSUME NonceTypeOK, Lined
    PROVE  /\ InCallOrder(chain)
           /\ \A i \in 1..Len(chain) : chain[i] \in admitted
  <1>1. /\ Len(chain) \in Nat /\ Len(Line) \in Nat /\ Len(chain) <= Len(Line)
        /\ \A i \in 1..Len(chain) : Line[i] = chain[i]
    BY LineFacts DEF LineShape
  <1> QED
    BY <1>1 DEF Lined, InCallOrder

\* The transactions of one goroutine are in blocks in the order of its calls,
\* whatever the mempool loses, whatever other goroutines send in between and
\* whatever retries it takes.
THEOREM NonceChainInCallOrder == NonceSpec => []InCallOrder(chain)
  <1>1. NonceTypeOK /\ Lined => InCallOrder(chain)
    BY LinedChain
  <1>2. NonceTypeOK /\ NonceTypeOK' /\ SentOnce /\ Lined /\ [NonceNext]_nonceVars => Lined'
    BY NextLined
  <1> QED
    BY <1>1, <1>2, NonceTypeCorrect, InitSentOnce, NextSentOnce, InitLined, PTL DEF NonceSpec
=============================================================================
