----------------------------- MODULE SvmProofs ------------------------------
(***************************************************************************)
(* SVM messages, the upload of a program and its deployment.               *)
(*                                                                         *)
(* The verdict of ValidateBasic is right for every message, and every      *)
(* message of ToCosmosMsg gets the verdict "accepted". The invariant of    *)
(* the loops, LoopInv, says that what was passed so far is valid and that  *)
(* calleeIndexMap holds the first position of exactly the accounts of this *)
(* instruction that were passed.                                           *)
(*                                                                         *)
(* The loop of CreateProgramUploadMsgs cuts programs of any length into    *)
(* chunks and transactions of any sizes without losing, doubling or        *)
(* misplacing a byte.                                                      *)
(*                                                                         *)
(* Linking and deploying is proved for any number of accounts, competing   *)
(* programs, faults and restarts, and programs of any length.              *)
(***************************************************************************)
EXTENDS SvmMessage, SvmHelper, WellFoundedInduction, TLAPS

-----------------------------------------------------------------------------
(* Messages *)

\* A set of naturals that is not empty has a least element.
LEMMA LeastNat ==
    ASSUME NEW T \in SUBSET Nat, T # {}
    PROVE  \E x \in T : \A y \in T : x <= y
  <1>1. \A R : (\A x, y \in Nat : <<y, x>> \in R <=> y < x)
                 /\ (\E x \in T : \A y \in T : ~(<<y, x>> \in R))
               => \E x \in T : \A y \in T : ~(y < x)
    BY Zenon
  <1>2. \E x \in T : \A y \in T : ~(<<y, x>> \in OpToRel(<, Nat))
    BY NatLessThanWellFounded, WFMin, Zenon
  <1>3. \A x, y \in Nat : <<y, x>> \in OpToRel(<, Nat) <=> y < x
    BY DEF OpToRel
  <1>4. \E x \in T : \A y \in T : ~(y < x)
    BY <1>1, <1>2, <1>3, Zenon
  <1> QED
    BY <1>4, SMT

\* PositionOf is the first position, counted from 0, of what is in a sequence.
LEMMA PositionFirst ==
    ASSUME NEW S, NEW s \in Seq(S), NEW a, \E k \in DOMAIN s : s[k] = a
    PROVE  LET p == PositionOf(a, s)
           IN p \in Nat /\ p + 1 \in DOMAIN s /\ s[p + 1] = a /\ \A l \in 1..p : s[l] # a
  <1> DEFINE T == {k \in DOMAIN s : s[k] = a}
             P(k) == s[k] = a /\ \A l \in 1..(k - 1) : s[l] # a
             c == CHOOSE k \in DOMAIN s : P(k)
  <1>1. T \in SUBSET Nat /\ T # {}
    OBVIOUS
  <1>2. PICK x \in T : \A y \in T : x <= y
    <2> HIDE DEF T
    <2> QED BY <1>1, LeastNat
  <1>3. x \in DOMAIN s /\ P(x)
    BY <1>2
  <1>4. c \in DOMAIN s /\ P(c)
    <2> HIDE DEF P
    <2> QED BY <1>3
  <1>5. PositionOf(a, s) = c - 1
    BY DEF PositionOf
  <1>6. c \in Nat /\ c >= 1
    BY <1>4
  <1> HIDE DEF c
  <1> QED
    BY <1>4, <1>5, <1>6

\* A function on 1..n with values in S is a sequence over S.
LEMMA IsASeq ==
    ASSUME NEW S, NEW n \in Nat, NEW f, f = [i \in 1..n |-> f[i]], \A i \in 1..n : f[i] \in S
    PROVE  f \in Seq(S)
  OBVIOUS

\* The shape of a message as it is decoded.
MsgType(m) ==
    /\ m.accounts \in Seq(ToSet(m.accounts))
    /\ m.ixs \in Seq(Seq(IxAccounts))

\* The accounts of one instruction, as ToCosmosMsg writes them, are valid.
LEMMA InstructionValid ==
    ASSUME NEW K, NEW keys \in Seq(K), NEW accounts \in Seq(ToSet(keys))
    PROVE  LET s == ToInstruction(keys, accounts)
           IN /\ s \in Seq(IxAccounts)
              /\ \A k \in DOMAIN s : /\ s[k].id <= Len(keys) /\ s[k].caller <= Len(keys)
                                     /\ IsFirst(s, k, s[k].callee)
  <1> DEFINE s == ToInstruction(keys, accounts)
             Id(k) == PositionOf(accounts[k], keys)
             Callee(k) == PositionOf(accounts[k], accounts)
  <1>1. DOMAIN s = DOMAIN accounts /\ DOMAIN s = 1..Len(accounts)
    BY DEF ToInstruction
  <1>2. \A k \in DOMAIN s : s[k] = [id |-> Id(k), caller |-> Id(k), callee |-> Callee(k)]
    BY <1>1 DEF ToInstruction
  <1>3. ASSUME NEW k \in DOMAIN s
        PROVE  Id(k) \in Nat /\ Id(k) + 1 \in DOMAIN keys /\ keys[Id(k) + 1] = accounts[k]
    <2>1. \E l \in DOMAIN keys : keys[l] = accounts[k]
      BY <1>1 DEF ToSet
    <2> QED
      BY <2>1, PositionFirst
  <1>4. ASSUME NEW k \in DOMAIN s
        PROVE  /\ Callee(k) \in Nat /\ Callee(k) + 1 \in DOMAIN accounts
               /\ accounts[Callee(k) + 1] = accounts[k]
               /\ \A l \in 1..Callee(k) : accounts[l] # accounts[k]
    BY <1>1, PositionFirst
  <1> HIDE DEF s, Id, Callee
  <1>5. \A k \in DOMAIN s : s[k] \in IxAccounts /\ s[k].id = Id(k)
                            /\ s[k].caller = Id(k) /\ s[k].callee = Callee(k)
    BY <1>2, <1>3, <1>4 DEF IxAccounts
  <1>6. s \in Seq(IxAccounts)
    <2>1. s = [k \in 1..Len(accounts) |-> s[k]]
      BY <1>1 DEF s, ToInstruction
    <2> QED
      BY <1>1, <1>5, <2>1
  <1>7. ASSUME NEW k \in DOMAIN s PROVE IsFirst(s, k, s[k].callee)
    <2>1. s[k].callee = Callee(k) /\ Callee(k) + 1 \in DOMAIN s
      BY <1>1, <1>4, <1>5
    <2>2. s[Callee(k) + 1].id = s[k].id
      BY <1>1, <1>4, <1>5, <2>1 DEF Id
    <2>3. ASSUME NEW l \in 1..Callee(k) PROVE s[l].id # s[k].id
      <3>1. l \in DOMAIN s /\ accounts[l] # accounts[k]
        BY <1>1, <1>4
      <3> QED
        BY <1>3, <1>5, <3>1
    <2> QED
      BY <2>1, <2>2, <2>3 DEF IsFirst
  <1>8. \A k \in DOMAIN s : s[k].id <= Len(keys) /\ s[k].caller <= Len(keys)
    BY <1>3, <1>5
  <1> QED
    BY <1>6, <1>7, <1>8 DEF s

\* Whatever ToCosmosMsg returns is valid.
LEMMA CompiledValid ==
    ASSUME NEW m \in Compiled
    PROVE  MsgType(m) /\ Valid(m)
  <1>1. PICK g \in SignerLists, soltx \in SolanaTxs : m = ToCosmosMsg(g, Budget, soltx)
    BY DEF Compiled
  <1>2. /\ m.signers = g /\ m.budget = Budget /\ m.accounts = soltx.keys
        /\ m.ixs = [i \in DOMAIN soltx.ixs |-> ToInstruction(soltx.keys, soltx.ixs[i])]
    BY <1>1 DEF ToCosmosMsg
  <1>3. /\ soltx.keys \in Seq(ToSet(soltx.keys)) /\ soltx.keys # <<>> /\ IsInjective(soltx.keys)
        /\ soltx.ixs \in Seq(Seq(ToSet(soltx.keys))) /\ soltx.ixs # <<>>
    BY SolanaAssumption
  <1>4. \A i \in DOMAIN soltx.ixs :
            /\ m.ixs[i] = ToInstruction(soltx.keys, soltx.ixs[i])
            /\ m.ixs[i] \in Seq(IxAccounts) /\ ValidIx(m, m.ixs[i])
    <2> SUFFICES ASSUME NEW i \in DOMAIN soltx.ixs
                 PROVE  /\ m.ixs[i] = ToInstruction(soltx.keys, soltx.ixs[i])
                        /\ m.ixs[i] \in Seq(IxAccounts) /\ ValidIx(m, m.ixs[i])
      OBVIOUS
    <2>1. soltx.ixs[i] \in Seq(ToSet(soltx.keys))
      BY <1>3
    <2> QED
      BY <1>2, <1>3, <2>1, InstructionValid DEF ValidIx
  <1>5. DOMAIN m.ixs = 1..Len(soltx.ixs) /\ DOMAIN soltx.ixs = 1..Len(soltx.ixs)
        /\ Len(soltx.ixs) \in Nat /\ Len(soltx.ixs) # 0
    BY <1>2, <1>3
  <1>6. m.ixs \in Seq(Seq(IxAccounts)) /\ m.ixs # <<>>
    <2>1. m.ixs = [i \in 1..Len(soltx.ixs) |-> m.ixs[i]]
      BY <1>2, <1>5
    <2>2. m.ixs \in Seq(Seq(IxAccounts))
      <3>1. \A i \in 1..Len(soltx.ixs) : m.ixs[i] \in Seq(IxAccounts)
        BY <1>4, <1>5
      <3> DEFINE S == Seq(IxAccounts)
                 f == m.ixs
                 n == Len(soltx.ixs)
      <3>2. n \in Nat /\ f = [i \in 1..n |-> f[i]] /\ \A i \in 1..n : f[i] \in S
        BY <1>5, <2>1, <3>1
      <3> HIDE DEF S, f, n
      <3>3. f \in Seq(S)
        BY <3>2, IsASeq
      <3> QED
        BY <3>3 DEF S, f
    <2>3. 1 \in DOMAIN m.ixs
      BY <1>5
    <2> QED
      BY <2>2, <2>3
  <1>7. ToSet(m.signers) \subseteq Addresses
    BY <1>2, ArgumentAssumption DEF ToSet
  <1> QED
    BY <1>2, <1>3, <1>4, <1>5, <1>6, <1>7, ArgumentAssumption DEF MsgType, Valid, HeaderOK

-----------------------------------------------------------------------------
(* The loops *)

\* The first n accounts of the instruction s are valid, and map holds the
\* first position of each of them.
PassedUpTo(m, s, n, map) ==
    /\ \A k \in 1..n : /\ s[k].id <= Len(m.accounts) /\ s[k].caller <= Len(m.accounts)
                       /\ IsFirst(s, k, s[k].callee) /\ s[k].id \in DOMAIN map
    /\ \A d \in DOMAIN map : /\ map[d] \in 0..(n - 1) /\ s[map[d] + 1].id = d
                            /\ \A l \in 1..map[d] : s[l].id # d

LoopInv ==
    /\ MsgType(msg) /\ pc \in {"header", "loop", "accepted", "rejected"}
    /\ pc = "header" => ix = 1 /\ acc = 1 /\ calleeIndexMap = EmptyMap
    /\ pc = "loop" =>
           /\ HeaderOK(msg) /\ ix \in 1..(Len(msg.ixs) + 1)
           /\ \A i \in 1..(ix - 1) : ValidIx(msg, msg.ixs[i])
           /\ ix <= Len(msg.ixs) =>
                  /\ acc \in 1..(Len(msg.ixs[ix]) + 1)
                  /\ PassedUpTo(msg, msg.ixs[ix], acc - 1, calleeIndexMap)
    /\ VerdictRight

LEMMA InitLoop == Init => LoopInv
  <1> SUFFICES ASSUME Init PROVE LoopInv
    OBVIOUS
  <1>1. MsgType(msg)
    BY CompiledValid, RawAssumption DEF Init, MsgType
  <1> QED
    BY <1>1 DEF Init, LoopInv, VerdictRight

\* One more account, one step of the inner loop.
LEMMA PassOne ==
    ASSUME NEW m, NEW s \in Seq(IxAccounts), NEW k \in DOMAIN s, NEW map,
           PassedUpTo(m, s, k - 1, map), NEW new,
           new = WithFirst(map, s[k].id, k - 1)
    PROVE  /\ InRange(m, s[k], Len(s)) /\ s[k].callee = new[s[k].id]
                 => PassedUpTo(m, s, k, new)
           /\ s[k].callee # new[s[k].id] => ~IsFirst(s, k, s[k].callee)
  <1> DEFINE d == s[k].id
             p == new[d]
  <1>1. k \in Nat /\ k >= 1 /\ k <= Len(s) /\ Len(s) \in Nat /\ DOMAIN s = 1..Len(s)
        /\ \A l \in DOMAIN s : s[l].id \in Nat /\ s[l].callee \in Nat
    <2>1. \A l \in DOMAIN s : s[l] \in IxAccounts
      OBVIOUS
    <2> QED
      BY <2>1 DEF IxAccounts
  <1>2. DOMAIN new = DOMAIN map \cup {d}
        /\ \A e \in DOMAIN new : new[e] = IF e \in DOMAIN map THEN map[e] ELSE k - 1
    BY DEF WithFirst
  <1>3. \A e \in DOMAIN new : /\ new[e] \in 0..(k - 1) /\ s[new[e] + 1].id = e
                              /\ \A l \in 1..new[e] : s[l].id # e
    <2> SUFFICES ASSUME NEW e \in DOMAIN new
                 PROVE  /\ new[e] \in 0..(k - 1) /\ s[new[e] + 1].id = e
                        /\ \A l \in 1..new[e] : s[l].id # e
      OBVIOUS
    <2>1. CASE e \in DOMAIN map
      BY <1>1, <1>2, <2>1 DEF PassedUpTo
    <2>2. CASE e \notin DOMAIN map
      <3>1. e = d /\ new[e] = k - 1 /\ (k - 1) + 1 = k
        BY <1>1, <1>2, <2>2
      <3>2. \A l \in 1..(k - 1) : s[l].id # e
        BY <2>2 DEF PassedUpTo
      <3> QED
        BY <1>1, <3>1, <3>2
    <2> QED
      BY <2>1, <2>2
  <1>4. p \in 0..(k - 1) /\ s[p + 1].id = d /\ \A l \in 1..p : s[l].id # d
    BY <1>2, <1>3
  <1>5. IsFirst(s, k, p)
    BY <1>1, <1>4 DEF IsFirst
  <1>6. ASSUME InRange(m, s[k], Len(s)), s[k].callee = p PROVE PassedUpTo(m, s, k, new)
    <2>1. \A l \in 1..k : l = k \/ l \in 1..(k - 1)
      BY <1>1
    <2> QED
      BY <1>1, <1>2, <1>3, <1>5, <1>6, <2>1 DEF PassedUpTo, InRange
  <1>7. ASSUME s[k].callee # p PROVE ~IsFirst(s, k, s[k].callee)
    <2> DEFINE q == s[k].callee
    <2>1. q \in Nat /\ p \in Nat /\ (q < p \/ p < q)
      BY <1>1, <1>4, <1>7
    <2>2. CASE q < p
      <3>1. q + 1 \in 1..p
        BY <2>1, <2>2
      <3> QED
        BY <1>4, <3>1 DEF IsFirst
    <2>3. CASE p < q
      <3>1. p + 1 \in 1..q
        BY <2>1, <2>3
      <3> QED
        BY <1>4, <3>1 DEF IsFirst
    <2> QED
      BY <2>1, <2>2, <2>3
  <1> QED
    BY <1>6, <1>7

LEMMA NextLoop == LoopInv /\ [Next]_vars => LoopInv'
  <1> SUFFICES ASSUME LoopInv, [Next]_vars PROVE LoopInv'
    OBVIOUS
  <1>0. /\ msg.ixs \in Seq(Seq(IxAccounts)) /\ Len(msg.ixs) \in Nat
        /\ \A i \in 1..Len(msg.ixs) : msg.ixs[i] \in Seq(IxAccounts)
        /\ DOMAIN msg.ixs = 1..Len(msg.ixs)
    BY DEF LoopInv, MsgType
  <1>1. CASE Header
    <2>1. CASE HeaderOK(msg)
      <3>1. pc' = "loop" /\ UNCHANGED <<msg, ix, acc, calleeIndexMap>> /\ ix = 1 /\ acc = 1
            /\ calleeIndexMap = EmptyMap
        BY <1>1, <2>1 DEF Header, LoopInv
      <3>2. PassedUpTo(msg, msg.ixs[1], 0, EmptyMap)
        BY DEF PassedUpTo, EmptyMap
      <3>3. \A i \in 1..Len(msg.ixs) : Len(msg.ixs[i]) \in Nat
        BY <1>0
      <3> QED
        BY <1>0, <2>1, <3>1, <3>2, <3>3 DEF LoopInv, VerdictRight, MsgType, HeaderOK
    <2>2. CASE ~HeaderOK(msg)
      BY <1>1, <2>2 DEF Header, LoopInv, VerdictRight, Valid, MsgType
    <2> QED
      BY <2>1, <2>2
  <1>2. CASE CheckAccount
    <2> DEFINE s == msg.ixs[ix]
               a == s[acc]
               map == WithFirst(calleeIndexMap, a.id, acc - 1)
    <2>1. /\ pc = "loop" /\ ix \in 1..Len(msg.ixs) /\ s \in Seq(IxAccounts)
          /\ acc \in DOMAIN s /\ acc \in Nat /\ PassedUpTo(msg, s, acc - 1, calleeIndexMap)
          /\ Len(s) \in Nat /\ DOMAIN s = 1..Len(s)
      <3>1. /\ pc = "loop" /\ ix \in 1..Len(msg.ixs) /\ acc \in Nat /\ 1 <= acc
            /\ acc <= Len(s) /\ PassedUpTo(msg, s, acc - 1, calleeIndexMap)
        BY <1>0, <1>2 DEF CheckAccount, LoopInv
      <3>2. s \in Seq(IxAccounts)
        BY <1>0, <3>1
      <3> HIDE DEF s
      <3>3. Len(s) \in Nat /\ DOMAIN s = 1..Len(s)
        BY <3>2
      <3> QED
        BY <3>1, <3>2, <3>3
    <2>2. /\ InRange(msg, a, Len(s)) /\ a.callee = map[a.id]
                => PassedUpTo(msg, s, acc, map)
          /\ a.callee # map[a.id] => ~IsFirst(s, acc, a.callee)
      <3> HIDE DEF s
      <3> QED BY <2>1, PassOne
    <2>3. CASE InRange(msg, a, Len(s)) /\ a.callee = map[a.id]
      <3>1. /\ acc' = acc + 1 /\ calleeIndexMap' = map /\ UNCHANGED <<msg, pc, ix>>
        BY <1>2, <2>3 DEF CheckAccount
      <3>2. PassedUpTo(msg, s, acc' - 1, map) /\ acc' \in 1..(Len(s) + 1)
        BY <2>1, <2>2, <2>3, <3>1
      <3> QED
        BY <2>1, <3>1, <3>2 DEF LoopInv, VerdictRight, MsgType
    <2>4. CASE ~(InRange(msg, a, Len(s)) /\ a.callee = map[a.id])
      <3>1. pc' = "rejected" /\ UNCHANGED <<msg, ix>>
        BY <1>2, <2>4 DEF CheckAccount
      <3>2. ~ValidIx(msg, s)
        <4>1. IsFirst(s, acc, a.callee) => a.callee <= Len(s)
          <5>1. a \in IxAccounts
            BY <2>1
          <5>2. a.callee \in Nat
            BY <5>1 DEF IxAccounts
          <5> QED
            BY <2>1, <5>2 DEF IsFirst
        <4> QED
          BY <2>1, <2>2, <2>4, <4>1 DEF ValidIx, InRange
      <3> QED
        BY <1>0, <2>1, <3>1, <3>2 DEF LoopInv, VerdictRight, MsgType, Valid
    <2> QED
      BY <2>3, <2>4
  <1>3. CASE NextInstruction
    <2>1. /\ pc = "loop" /\ ix \in 1..Len(msg.ixs) /\ acc = Len(msg.ixs[ix]) + 1
          /\ PassedUpTo(msg, msg.ixs[ix], acc - 1, calleeIndexMap)
          /\ Len(msg.ixs[ix]) \in Nat /\ DOMAIN msg.ixs[ix] = 1..Len(msg.ixs[ix])
      <3>1. /\ pc = "loop" /\ ix \in 1..Len(msg.ixs) /\ acc > Len(msg.ixs[ix])
            /\ acc \in 1..(Len(msg.ixs[ix]) + 1)
            /\ PassedUpTo(msg, msg.ixs[ix], acc - 1, calleeIndexMap)
        BY <1>0, <1>3 DEF NextInstruction, LoopInv
      <3>2. msg.ixs[ix] \in Seq(IxAccounts)
        BY <1>0, <3>1
      <3>3. Len(msg.ixs[ix]) \in Nat /\ DOMAIN msg.ixs[ix] = 1..Len(msg.ixs[ix])
        BY <3>2
      <3> QED
        BY <3>1, <3>3
    <2>2. ValidIx(msg, msg.ixs[ix])
      <3>1. PassedUpTo(msg, msg.ixs[ix], Len(msg.ixs[ix]), calleeIndexMap)
        BY <2>1
      <3> QED
        BY <2>1, <3>1 DEF PassedUpTo, ValidIx
    <2>3. \A i \in 1..ix : ValidIx(msg, msg.ixs[i])
      <3>1. \A i \in 1..ix : i = ix \/ i \in 1..(ix - 1)
        BY <2>1
      <3> QED
        BY <2>1, <2>2, <3>1 DEF LoopInv
    <2>4. /\ ix' = ix + 1 /\ acc' = 1 /\ calleeIndexMap' = EmptyMap /\ UNCHANGED <<msg, pc>>
      BY <1>3 DEF NextInstruction
    <2>5. PassedUpTo(msg, msg.ixs[ix + 1], 0, EmptyMap)
      BY DEF PassedUpTo, EmptyMap
    <2>6. \A i \in 1..Len(msg.ixs) : Len(msg.ixs[i]) \in Nat
      BY <1>0
    <2> QED
      BY <1>0, <2>1, <2>3, <2>4, <2>5, <2>6 DEF LoopInv, VerdictRight, MsgType
  <1>4. CASE Accept
    <2>1. pc = "loop" /\ ix = Len(msg.ixs) + 1 /\ pc' = "accepted" /\ UNCHANGED msg
      BY <1>0, <1>4 DEF Accept, LoopInv
    <2>2. Valid(msg)
      BY <1>0, <2>1 DEF LoopInv, Valid
    <2> QED
      BY <2>1, <2>2 DEF LoopInv, VerdictRight, MsgType
  <1>5. CASE UNCHANGED vars
    BY <1>5 DEF LoopInv, VerdictRight, vars
  <1> QED
    BY <1>1, <1>2, <1>3, <1>4, <1>5 DEF Next

\* The verdict of ValidateBasic agrees with the declarative definition of a
\* valid message, for messages of any size.
THEOREM SvmVerdictRight == Spec => []VerdictRight
  <1>1. LoopInv => VerdictRight
    BY DEF LoopInv
  <1> QED
    BY <1>1, InitLoop, NextLoop, PTL DEF Spec

\* No message that ToCosmosMsg made of a resolvable Solana transaction is
\* refused by ValidateBasic.
THEOREM SvmCompiledAccepted == Spec => []CompiledAccepted
  <1>1. LoopInv => CompiledAccepted
    BY CompiledValid DEF LoopInv, VerdictRight, CompiledAccepted
  <1> QED
    BY <1>1, InitLoop, NextLoop, PTL DEF Spec

-----------------------------------------------------------------------------
(* Upload *)

\* The instructions; a deploy instruction writes nothing.
Ixs == {i \in [op : {"write", "deploy"}, from : Nat, to : Nat] : i.op = "deploy" => i.from = i.to}

UploadTypeOK ==
    /\ programSize \in Nat /\ upc \in {"loop", "done"} /\ idx \in 0..programSize
    /\ txBuilder \in Seq(Ixs) /\ res \in Seq(Seq(Ixs))

\* What is cut so far: the finished transactions and the one being built.
SoFar == Append(res, txBuilder)

CutInv == upc = "loop" => Covered(SoFar, idx) /\ InOrder(SoFar, idx)

\* A transaction of write instructions.
Writes(ixs) ==
    \A k \in 1..Len(ixs) : ixs[k].op = "write" /\ ixs[k].to - ixs[k].from <= InstructionSize

FitInv ==
    upc = "loop" => /\ Len(txBuilder) < InstructionsPerTx /\ Writes(txBuilder)
                    /\ \A j \in 1..Len(res) : Len(res[j]) \in 1..InstructionsPerTx /\ Writes(res[j])

UploadInv == UploadTypeOK /\ CutInv /\ FitInv /\ EachByteOnce /\ TransactionsFit

-----------------------------------------------------------------------------
(* Adding to the cut *)

\* The next instruction goes to the end of the last transaction.
LEMMA Extend ==
  ASSUME NEW R \in Seq(Seq(Ixs)), NEW B \in Seq(Ixs), NEW c \in Ixs, c.from <= c.to,
         Covered(Append(R, B), c.from), InOrder(Append(R, B), c.from)
  PROVE  /\ Covered(Append(R, Append(B, c)), c.to)
         /\ InOrder(Append(R, Append(B, c)), c.to)
<1> DEFINE T == Append(R, B)
           U == Append(R, Append(B, c))
<1>1. /\ Len(T) = Len(R) + 1 /\ Len(U) = Len(R) + 1 /\ Len(R) \in Nat /\ Len(B) \in Nat
      /\ \A j \in 1..Len(R) : T[j] = R[j] /\ U[j] = R[j] /\ R[j] \in Seq(Ixs)
      /\ T[Len(R) + 1] = B /\ U[Len(R) + 1] = Append(B, c)
  OBVIOUS
<1>2. /\ Len(Append(B, c)) = Len(B) + 1
      /\ \A k \in 1..Len(B) : Append(B, c)[k] = B[k] /\ B[k] \in Ixs
      /\ Append(B, c)[Len(B) + 1] = c
  OBVIOUS
<1>3. \A j \in 1..Len(U) : \A k \in 1..Len(U[j]) :
         \/ j \in 1..Len(T) /\ k \in 1..Len(T[j]) /\ U[j][k] = T[j][k] /\ U[j][k] \in Ixs
         \/ j = Len(U) /\ k = Len(U[j]) /\ U[j][k] = c
  <2> SUFFICES ASSUME NEW j \in 1..Len(U), NEW k \in 1..Len(U[j])
               PROVE  \/ j \in 1..Len(T) /\ k \in 1..Len(T[j]) /\ U[j][k] = T[j][k] /\ U[j][k] \in Ixs
                      \/ j = Len(U) /\ k = Len(U[j]) /\ U[j][k] = c
    OBVIOUS
  <2>1. CASE j \in 1..Len(R)
    BY <2>1, <1>1
  <2>2. CASE j = Len(R) + 1 /\ k \in 1..Len(B)
    BY <2>2, <1>1, <1>2
  <2>3. CASE j = Len(R) + 1 /\ k = Len(B) + 1
    BY <2>3, <1>1, <1>2
  <2> QED
    BY <2>1, <2>2, <2>3, <1>1, <1>2
<1>4. \A j \in 1..Len(T) : \A k \in 1..Len(T[j]) :
         j \in 1..Len(U) /\ k \in 1..Len(U[j]) /\ U[j][k] = T[j][k]
  <2> SUFFICES ASSUME NEW j \in 1..Len(T), NEW k \in 1..Len(T[j])
               PROVE  j \in 1..Len(U) /\ k \in 1..Len(U[j]) /\ U[j][k] = T[j][k]
    OBVIOUS
  <2>1. CASE j \in 1..Len(R)
    BY <2>1, <1>1
  <2>2. CASE j = Len(R) + 1
    BY <2>2, <1>1, <1>2
  <2> QED
    BY <2>1, <2>2, <1>1
<1>5. Len(U) \in 1..Len(U) /\ Len(U[Len(U)]) \in 1..Len(U[Len(U)]) /\ U[Len(U)][Len(U[Len(U)])] = c
  BY <1>1, <1>2
<1>6. c.from \in Nat /\ c.to \in Nat /\ (\A x \in Ixs : x.from \in Nat /\ x.to \in Nat)
  BY DEF Ixs
<1>7. Covered(T, c.from) /\ InOrder(T, c.from)
  OBVIOUS
<1> HIDE DEF T, U
<1>8. Covered(U, c.to)
  <2> SUFFICES ASSUME NEW b \in 0..(c.to - 1)
               PROVE  \E j \in 1..Len(U) : \E k \in 1..Len(U[j]) : Covers(U[j][k], b)
    BY DEF Covered
  <2>1. CASE b < c.from
    <3>0. b \in 0..(c.from - 1)
      BY <2>1, <1>6
    <3>1. PICK j \in 1..Len(T) : \E k \in 1..Len(T[j]) : Covers(T[j][k], b)
      BY <3>0, <1>7 DEF Covered
    <3>2. PICK k \in 1..Len(T[j]) : Covers(T[j][k], b)
      BY <3>1
    <3> QED
      BY <3>2, <1>4
  <2>2. CASE c.from <= b
    <3>1. Covers(c, b)
      BY <2>2, <1>6 DEF Covers
    <3> QED
      BY <3>1, <1>5
  <2> QED
    BY <2>1, <2>2, <1>6
<1>9. InOrder(U, c.to)
  <2> SUFFICES ASSUME NEW j \in 1..Len(U), NEW k \in 1..Len(U[j])
               PROVE  /\ U[j][k].to <= c.to
                      /\ \A l \in j..Len(U) : \A m \in 1..Len(U[l]) :
                             j < l \/ k < m => U[j][k].to <= U[l][m].from
    BY DEF InOrder
  <2>1. CASE j \in 1..Len(T) /\ k \in 1..Len(T[j]) /\ U[j][k] = T[j][k] /\ U[j][k] \in Ixs
    <3>1. T[j][k].to <= c.from
      BY <2>1, <1>7 DEF InOrder
    <3>2. U[j][k].to <= c.to
      BY <3>1, <2>1, <1>6
    <3>3. ASSUME NEW l \in j..Len(U), NEW m \in 1..Len(U[l]), j < l \/ k < m
          PROVE  U[j][k].to <= U[l][m].from
      <4>1. CASE U[l][m] = c
        BY <4>1, <3>1, <2>1
      <4>2. CASE l \in 1..Len(T) /\ m \in 1..Len(T[l]) /\ U[l][m] = T[l][m]
        <5>1. l \in j..Len(T)
          BY <4>2, <2>1, <1>1 DEF T, U
        <5> QED
          BY <5>1, <4>2, <3>3, <2>1, <1>7 DEF InOrder
      <4>3. l \in 1..Len(U)
        BY <1>1 DEF U
      <4> QED
        BY <4>1, <4>2, <4>3, <1>3
    <3> QED
      BY <3>2, <3>3
  <2>2. CASE j = Len(U) /\ k = Len(U[j]) /\ U[j][k] = c
    <3>1. Len(U) \in Nat /\ Len(U[Len(U)]) \in Nat
      BY <1>1, <1>2 DEF U
    <3> QED
      BY <3>1, <2>2, <1>6
  <2> QED
    BY <2>1, <2>2, <1>3
<1> QED
  BY <1>8, <1>9 DEF U

\* A new transaction without instructions changes nothing.
LEMMA Pad ==
  ASSUME NEW T \in Seq(Seq(Ixs)), NEW n \in Nat, Covered(T, n), InOrder(T, n)
  PROVE  Covered(Append(T, <<>>), n) /\ InOrder(Append(T, <<>>), n)
<1> DEFINE U == Append(T, <<>>)
<1>1. /\ Len(U) = Len(T) + 1 /\ Len(T) \in Nat
      /\ \A j \in 1..Len(T) : U[j] = T[j]
      /\ U[Len(T) + 1] = <<>>
  OBVIOUS
<1>2. \A j \in 1..Len(U) : \A k \in 1..Len(U[j]) : j \in 1..Len(T) /\ k \in 1..Len(T[j]) /\ U[j] = T[j]
  BY <1>1
<1> HIDE DEF U
<1>3. Covered(U, n)
  <2> SUFFICES ASSUME NEW b \in 0..(n - 1)
               PROVE  \E j \in 1..Len(U) : \E k \in 1..Len(U[j]) : Covers(U[j][k], b)
    BY DEF Covered
  <2>1. PICK j \in 1..Len(T) : \E k \in 1..Len(T[j]) : Covers(T[j][k], b)
    BY DEF Covered
  <2>2. j \in 1..Len(U) /\ U[j] = T[j]
    BY <1>1
  <2> QED
    BY <2>1, <2>2
<1>4. InOrder(U, n)
  <2> SUFFICES ASSUME NEW j \in 1..Len(U), NEW k \in 1..Len(U[j])
               PROVE  /\ U[j][k].to <= n
                      /\ \A l \in j..Len(U) : \A m \in 1..Len(U[l]) :
                             j < l \/ k < m => U[j][k].to <= U[l][m].from
    BY DEF InOrder
  <2>1. U[j][k].to <= n
    BY <1>2 DEF InOrder
  <2>2. ASSUME NEW l \in j..Len(U), NEW m \in 1..Len(U[l]), j < l \/ k < m
        PROVE  U[j][k].to <= U[l][m].from
    <3>1. l \in 1..Len(U)
      BY <1>1
    <3>2. l \in 1..Len(T) /\ m \in 1..Len(T[l]) /\ U[l] = T[l] /\ l \in j..Len(T)
      BY <3>1, <1>1, <1>2
    <3> QED
      BY <3>2, <2>2, <1>2 DEF InOrder
  <2> QED
    BY <2>1, <2>2
<1> QED
  BY <1>3, <1>4 DEF U

-----------------------------------------------------------------------------
(* The loop *)

LEMMA ChunkFacts ==
  ASSUME UploadTypeOK, idx < programSize
  PROVE  /\ Chunk \in Ixs /\ Chunk.op = "write" /\ Chunk.from = idx /\ Chunk.from <= Chunk.to
         /\ Chunk.to \in 0..programSize /\ Chunk.to - Chunk.from <= InstructionSize
BY SizeAssumption DEF UploadTypeOK, Chunk, Write, Ixs

LEMMA DeployFacts ==
  ASSUME NEW n \in Nat
  PROVE  /\ Deploy(n) \in Ixs /\ Deploy(n).op = "deploy"
         /\ Deploy(n).from = n /\ Deploy(n).to = n
BY DEF Deploy, Ixs

\* A transaction of writes with one more.
LEMMA WritesAppend ==
  ASSUME NEW B \in Seq(Ixs), Writes(B), NEW c \in Ixs, c.op = "write",
         c.to - c.from <= InstructionSize
  PROVE  Writes(Append(B, c))
BY DEF Writes

LEMMA UploadStart == UploadInit => UploadInv
<1> SUFFICES ASSUME UploadInit PROVE UploadInv
  OBVIOUS
<1> USE DEF UploadInit
<1>1. UploadTypeOK
  BY SizeAssumption DEF UploadTypeOK
<1>2. SoFar = <<<<>>>>
  BY DEF SoFar
<1>3. CutInv
  BY <1>2 DEF CutInv, Covered, InOrder
<1>4. FitInv /\ EachByteOnce /\ TransactionsFit
  BY SizeAssumption DEF FitInv, Writes, EachByteOnce, TransactionsFit
<1> QED
  BY <1>1, <1>3, <1>4 DEF UploadInv

LEMMA AddChunkInv == ASSUME UploadInv, AddChunk PROVE UploadInv'
<1> USE DEF UploadInv
<1> DEFINE ixs == Append(txBuilder, Chunk)
<1>1. /\ upc = "loop" /\ upc' = "loop" /\ idx < programSize /\ idx' = Chunk.to
      /\ programSize' = programSize
  BY DEF AddChunk
<1>2. /\ Full(ixs) => res' = Append(res, ixs) /\ txBuilder' = <<>>
      /\ ~Full(ixs) => res' = res /\ txBuilder' = ixs
  BY DEF AddChunk
<1>3. /\ Chunk \in Ixs /\ Chunk.op = "write" /\ Chunk.from = idx /\ Chunk.from <= Chunk.to
      /\ Chunk.to \in 0..programSize /\ Chunk.to - Chunk.from <= InstructionSize
  BY <1>1, ChunkFacts
<1>4. programSize \in Nat /\ txBuilder \in Seq(Ixs) /\ res \in Seq(Seq(Ixs))
  BY DEF UploadTypeOK
<1>5. ixs \in Seq(Ixs) /\ Len(ixs) = Len(txBuilder) + 1 /\ Len(txBuilder) \in Nat
  BY <1>3, <1>4
<1>6. Writes(ixs)
  BY <1>1, <1>3, <1>4, WritesAppend DEF FitInv
<1>7. Covered(Append(res, ixs), Chunk.to) /\ InOrder(Append(res, ixs), Chunk.to)
  BY <1>1, <1>3, <1>4, Extend DEF CutInv, SoFar
<1> HIDE DEF ixs
<1>8. UploadTypeOK'
  <2>1. txBuilder' \in Seq(Ixs) /\ res' \in Seq(Seq(Ixs))
    <3>1. Append(res, ixs) \in Seq(Seq(Ixs)) /\ <<>> \in Seq(Ixs)
      BY <1>4, <1>5
    <3> QED
      BY <3>1, <1>2, <1>4, <1>5
  <2> QED
    BY <2>1, <1>1, <1>3, <1>4 DEF UploadTypeOK
<1>9. CutInv'
  <2>1. CASE Full(ixs)
    <3>1. Append(res, ixs) \in Seq(Seq(Ixs)) /\ Chunk.to \in Nat
      BY <1>3, <1>4, <1>5
    <3>2. Covered(Append(Append(res, ixs), <<>>), Chunk.to)
          /\ InOrder(Append(Append(res, ixs), <<>>), Chunk.to)
      BY <3>1, <1>7, Pad
    <3>3. SoFar' = Append(Append(res, ixs), <<>>)
      BY <2>1, <1>2 DEF SoFar
    <3>4. Covered(SoFar', idx') /\ InOrder(SoFar', idx')
      BY <3>2, <3>3, <1>1
    <3> QED
      BY <3>4 DEF CutInv, Covered, InOrder
  <2>2. CASE ~Full(ixs)
    <3>1. SoFar' = Append(res, ixs)
      BY <2>2, <1>2 DEF SoFar
    <3> QED
      BY <3>1, <1>1, <1>7 DEF CutInv, Covered, InOrder
  <2> QED
    BY <2>1, <2>2
<1>10. /\ Len(txBuilder') < InstructionsPerTx /\ Writes(txBuilder')
       /\ \A j \in 1..Len(res') : Len(res'[j]) \in 1..InstructionsPerTx /\ Writes(res'[j])
  <2>1. CASE Full(ixs)
    <3>1. Len(ixs) \in 1..InstructionsPerTx
      BY <2>1, <1>5, SizeAssumption DEF Full
    <3>2. \A j \in 1..Len(res') : res'[j] = ixs \/ (j \in 1..Len(res) /\ res'[j] = res[j])
      BY <2>1, <1>2, <1>4, <1>5
    <3>3. Writes(txBuilder') /\ Len(txBuilder') < InstructionsPerTx
      BY <2>1, <1>2, SizeAssumption DEF Writes
    <3> QED
      BY <3>1, <3>2, <3>3, <1>1, <1>6 DEF FitInv
  <2>2. CASE ~Full(ixs)
    BY <2>2, <1>1, <1>2, <1>5, <1>6, SizeAssumption DEF FitInv, Full
  <2> QED
    BY <2>1, <2>2
<1>11. FitInv'
  BY <1>10, <1>1 DEF FitInv, Writes
<1>12. EachByteOnce'
  BY <1>1 DEF EachByteOnce
<1>13. TransactionsFit'
  BY <1>10, <1>1 DEF TransactionsFit, Writes
<1> QED
  BY <1>8, <1>9, <1>11, <1>12, <1>13

LEMMA AddDeployInv == ASSUME UploadInv, AddDeploy PROVE UploadInv'
<1> USE DEF UploadInv
<1> DEFINE d == Deploy(programSize)
           ixs == Append(txBuilder, d)
<1>1. /\ upc = "loop" /\ upc' = "done" /\ programSize' = programSize /\ idx' = idx
      /\ res' = Append(res, ixs) /\ txBuilder' = <<>>
  BY DEF AddDeploy
<1>2. /\ programSize \in Nat /\ txBuilder \in Seq(Ixs) /\ res \in Seq(Seq(Ixs))
      /\ idx = programSize
  BY DEF UploadTypeOK, AddDeploy
<1>3. d \in Ixs /\ d.op = "deploy" /\ d.from = programSize /\ d.to = programSize
  BY <1>2, DeployFacts
<1> HIDE DEF d
<1>4. ixs \in Seq(Ixs) /\ Len(ixs) = Len(txBuilder) + 1 /\ Len(txBuilder) \in Nat
  BY <1>2, <1>3
<1>5. Covered(Append(res, ixs), programSize) /\ InOrder(Append(res, ixs), programSize)
  BY <1>1, <1>2, <1>3, Extend DEF CutInv, SoFar
<1>6. /\ \A k \in 1..Len(txBuilder) : ixs[k] = txBuilder[k]
      /\ ixs[Len(ixs)] = d
  BY <1>2, <1>3
<1> HIDE DEF ixs
<1>7. UploadTypeOK'
  BY <1>1, <1>2, <1>4 DEF UploadTypeOK
<1>8. CutInv' /\ FitInv'
  BY <1>1 DEF CutInv, FitInv
<1>9. EachByteOnce'
  BY <1>1, <1>5 DEF EachByteOnce, Covered, InOrder
<1>10. TransactionsFit'
  <2>1. /\ Len(res') = Len(res) + 1 /\ Len(res) \in Nat /\ res'[Len(res')] = ixs
        /\ \A j \in 1..Len(res) : res'[j] = res[j]
    BY <1>1, <1>2, <1>4
  <2>2. ASSUME NEW j \in 1..Len(res)
        PROVE  /\ Len(res'[j]) \in 1..InstructionsPerTx
               /\ \A k \in 1..Len(res'[j]) :
                      res'[j][k].to - res'[j][k].from <= InstructionSize /\ res'[j][k].op = "write"
    BY <2>1, <1>1 DEF FitInv, Writes
  <2>3. Len(ixs) \in 1..InstructionsPerTx
    BY <1>1, <1>4, SizeAssumption DEF FitInv
  <2>4. ASSUME NEW k \in 1..Len(ixs)
        PROVE  /\ ixs[k].to - ixs[k].from <= InstructionSize
               /\ ixs[k].op = "deploy" <=> k = Len(ixs)
    <3>1. CASE k \in 1..Len(txBuilder)
      BY <3>1, <1>1, <1>4, <1>6 DEF FitInv, Writes
    <3>2. CASE k = Len(ixs)
      BY <3>2, <1>3, <1>2, <1>6, SizeAssumption
    <3> QED
      BY <3>1, <3>2, <1>4
  <2>5. ASSUME NEW j \in 1..Len(res')
        PROVE  /\ Len(res'[j]) \in 1..InstructionsPerTx
               /\ \A k \in 1..Len(res'[j]) :
                      /\ res'[j][k].to - res'[j][k].from <= InstructionSize
                      /\ res'[j][k].op = "deploy" <=>
                             upc' = "done" /\ j = Len(res') /\ k = Len(res'[j])
    <3>1. CASE j \in 1..Len(res)
      <4>1. j # Len(res')
        BY <3>1, <2>1
      <4> QED
        BY <4>1, <3>1, <2>2
    <3>2. CASE j = Len(res')
      BY <3>2, <2>1, <2>3, <2>4, <1>1
    <3> QED
      BY <3>1, <3>2, <2>1
  <2>6. res' # <<>>
    BY <2>1
  <2> QED
    BY <2>5, <2>6 DEF TransactionsFit
<1> QED
  BY <1>7, <1>8, <1>9, <1>10

LEMMA UploadInductive == UploadInv /\ [UploadNext]_uploadVars => UploadInv'
<1> SUFFICES ASSUME UploadInv, [UploadNext]_uploadVars PROVE UploadInv'
  OBVIOUS
<1>1. CASE AddChunk
  BY <1>1, AddChunkInv
<1>2. CASE AddDeploy
  BY <1>2, AddDeployInv
<1>3. CASE UNCHANGED uploadVars
  <2>1. /\ programSize' = programSize /\ upc' = upc /\ idx' = idx
        /\ txBuilder' = txBuilder /\ res' = res
    BY <1>3 DEF uploadVars
  <2>2. UploadTypeOK'
    BY <2>1 DEF UploadInv, UploadTypeOK
  <2>3. CutInv'
    <3>1. SoFar' = SoFar
      BY <2>1 DEF SoFar
    <3> QED
      BY <3>1, <2>1 DEF UploadInv, CutInv, Covered, InOrder
  <2>4. FitInv'
    BY <2>1 DEF UploadInv, FitInv, Writes
  <2>5. EachByteOnce'
    BY <2>1 DEF UploadInv, EachByteOnce, Covered, InOrder
  <2>6. TransactionsFit'
    BY <2>1 DEF UploadInv, TransactionsFit
  <2> QED
    BY <2>2, <2>3, <2>4, <2>5, <2>6 DEF UploadInv
<1> QED
  BY <1>1, <1>2, <1>3 DEF UploadNext

LEMMA UploadAlways == UploadSpec => []UploadInv
BY UploadStart, UploadInductive, PTL DEF UploadSpec

\* CreateProgramUploadMsgs writes every byte of a program of any length exactly
\* once, for any chunk and transaction size.
THEOREM UploadEachByteOnce == UploadSpec => []EachByteOnce
<1>1. UploadInv => EachByteOnce
  BY DEF UploadInv
<1> QED
  BY <1>1, UploadAlways, PTL

\* Its transactions are never empty or too long, and the deployment comes last.
THEOREM UploadTransactionsFit == UploadSpec => []TransactionsFit
<1>1. UploadInv => TransactionsFit
  BY DEF UploadInv
<1> QED
  BY <1>1, UploadAlways, PTL

-----------------------------------------------------------------------------
(* Deployment *)

KeySet == {NoKey} \cup UNION {{OwnKey[p][a] : a \in Accs} : p \in Programs}

Busy == {"account", "simulate", "broadcast", "await"}

\* The upload message that is due at a stage.
Part(p) == stage[p] - Links(p) - 1

HelperTypeOK ==
    /\ link \in [Accs -> KeySet] /\ (\E S : pool \in Seq(S))
    /\ at \in [Programs -> {"query", "next", "end", "stopped"} \cup Busy]
    /\ stage \in [Programs -> Nat \ {0}]
    /\ tx = [p \in Programs |-> tx[p]]
    /\ keyOf \in [Programs -> [Accs -> KeySet]]
    /\ sure \in [Programs -> SUBSET Accs] /\ failed \in [Programs -> BOOLEAN]

\* A program that sends a message has one to send.
Due(p) ==
    \/ stage[p] \in 1..Links(p)
    \/ p = Deployer /\ upc = "done" /\ stage[p] \in (Links(p) + 1)..LastStage(p)

StageInv ==
    \A p \in Programs : /\ at[p] = "query" => stage[p] \in 1..Links(p)
                        /\ at[p] \in Busy => Due(p)

\* The parts before part j of the upload r are in w, or a failure f was reported.
Uploaded(j, r, w, f) == f \/ \A i \in 1..(j - 1) : BytesOf(r[i]) \subseteq w

ProgressInv ==
    Part(Deployer) > 0 => /\ upc = "done"
                          /\ Uploaded(Part(Deployer), res, written, failed[Deployer])

LinkOf(m, p, a) == m.kind = "link" /\ m.signers = <<a>> /\ m.keys = {OwnKey[p][a]}

\* A message that some program sent when the upload was r, and so on.
GoodMsg(m, up, r, w, f) ==
    \/ \E p \in Programs : \E a \in Accs : LinkOf(m, p, a)
    \/ m.kind = "init"
    \/ /\ m.kind = "upload" /\ up = "done"
       /\ \E j \in 1..Len(r) : m.ixs = r[j] /\ Uploaded(j, r, w, f)

PoolInv ==
    \A i \in 1..Len(pool) : GoodMsg(pool[i].msg, upc, res, written, failed[Deployer])

\* What a transaction that succeeded has left.
Effective(m, l, w) ==
    /\ m.kind = "link" => \E p \in Programs : \E a \in Accs :
                              LinkOf(m, p, a) /\ l[a] = OwnKey[p][a]
    /\ m.kind = "upload" => BytesOf(m.ixs) \subseteq w

IncludedInv ==
    \A e \in included : e.ok \in BOOLEAN /\ (e.ok => Effective(e.tx.msg, link, written))

AwaitInv ==
    \A p \in Programs : at[p] = "await" =>
        /\ stage[p] \in 1..Links(p) => LinkOf(tx[p].msg, p, Accounts[stage[p]])
        /\ Part(p) > 0 => tx[p].msg.kind = "upload" /\ tx[p].msg.ixs = res[Part(p)]

SureInv ==
    \A p \in Programs : \A a \in sure[p] :
        /\ link[a] = keyOf[p][a] /\ link[a] # NoKey
        /\ \E i \in 1..Len(Accounts) : i < stage[p] /\ Accounts[i] = a

\* Only the program is written, and all of it when it is deployed.
BufferInv == written \subseteq Program /\ DeployedComplete

HelperInv ==
    /\ UploadInv /\ HelperTypeOK /\ StageInv /\ ProgressInv /\ PoolInv
    /\ IncludedInv /\ AwaitInv /\ SureInv /\ BufferInv

-----------------------------------------------------------------------------
(* Facts about programs and their messages *)

LEMMA LinksFacts ==
  /\ Deployer \in Programs
  /\ \A p \in Programs : Links(p) \in 1..Len(Accounts) /\ Links(p) \in Nat
  /\ \A i \in 1..Len(Accounts) : Accounts[i] \in Accs
BY HelperAssumption DEF Programs, Links, Accs

LEMMA OwnKeyFacts ==
  ASSUME NEW p \in Programs, NEW a \in Accs
  PROVE  OwnKey[p][a] \in KeySet /\ OwnKey[p][a] # NoKey
BY HelperAssumption DEF KeySet

\* The message a program sends, by stage.
LEMMA MsgFacts ==
  ASSUME NEW p \in Programs, stage[p] \in Nat \ {0}
  PROVE  /\ stage[p] \in 1..Links(p) =>
                LinkOf(Msg(p), p, Accounts[stage[p]]) /\ Accounts[stage[p]] \in Accs
         /\ stage[p] = Links(p) + 1 => Msg(p).kind = "init"
         /\ Part(p) > 0 => Msg(p).kind = "upload" /\ Msg(p).ixs = res[Part(p)]
<1>1. Links(p) \in 1..Len(Accounts) /\ Links(p) \in Nat
  BY LinksFacts
<1>2. CASE stage[p] \in 1..Links(p)
  <2>1. Msg(p) = LinkMsg(p)
    BY <1>1, <1>2 DEF Msg
  <2>2. Accounts[stage[p]] \in Accs
    BY <1>1, <1>2, LinksFacts, HelperAssumption
  <2>3. LinkOf(LinkMsg(p), p, Accounts[stage[p]])
    BY DEF LinkOf, LinkMsg
  <2> QED
    BY <1>1, <1>2, <2>1, <2>2, <2>3 DEF Part
<1>3. CASE stage[p] = Links(p) + 1
  <2>1. Msg(p) = CreateInitAccountsMsg(p)
    BY <1>1, <1>3 DEF Msg
  <2>2. CreateInitAccountsMsg(p).kind = "init"
    BY DEF CreateInitAccountsMsg
  <2> QED
    BY <1>1, <1>3, <2>1, <2>2 DEF Part
<1>4. CASE stage[p] > Links(p) + 1
  <2>1. Msg(p) = UploadMsg(p, res[Part(p)])
    BY <1>1, <1>4 DEF Msg, Part
  <2>2. UploadMsg(p, res[Part(p)]).kind = "upload" /\ UploadMsg(p, res[Part(p)]).ixs = res[Part(p)]
    BY DEF UploadMsg
  <2> QED
    BY <1>1, <1>4, <2>1, <2>2
<1> QED
  BY <1>1, <1>2, <1>3, <1>4

\* What is due is a good message.
LEMMA DueGood ==
  ASSUME HelperInv, NEW p \in Programs, Due(p)
  PROVE  GoodMsg(Msg(p), upc, res, written, failed[Deployer])
<1>1. stage[p] \in Nat \ {0} /\ Links(p) \in Nat /\ Len(res) \in Nat
  BY LinksFacts DEF HelperInv, HelperTypeOK, UploadInv, UploadTypeOK
<1>2. CASE stage[p] \in 1..Links(p)
  BY <1>1, <1>2, MsgFacts DEF GoodMsg
<1>3. CASE stage[p] = Links(p) + 1
  BY <1>1, <1>3, MsgFacts DEF GoodMsg
<1>4. CASE p = Deployer /\ upc = "done" /\ stage[p] \in (Links(p) + 2)..LastStage(p)
  <2>1. Part(p) \in 1..Len(res)
    BY <1>1, <1>4 DEF Part, LastStage
  <2>2. Uploaded(Part(p), res, written, failed[Deployer])
    BY <2>1, <1>4 DEF HelperInv, ProgressInv
  <2> QED
    BY <2>1, <2>2, <1>1, <1>4, MsgFacts DEF GoodMsg
<1>5. Due(p) => \/ stage[p] \in 1..Links(p) \/ stage[p] = Links(p) + 1
                \/ p = Deployer /\ upc = "done" /\ stage[p] \in (Links(p) + 2)..LastStage(p)
  BY <1>1 DEF Due, LastStage
<1> QED
  BY <1>2, <1>3, <1>4, <1>5

\* A good message stays good while the upload stays, more is written, and
\* reported failures are not forgotten.
LEMMA GoodStays ==
  ASSUME NEW m, NEW up, NEW r, NEW w, NEW f, NEW w2, NEW f2 \in BOOLEAN,
         GoodMsg(m, up, r, w, f), w \subseteq w2, f => f2
  PROVE  GoodMsg(m, up, r, w2, f2)
<1>1. \A j : Uploaded(j, r, w, f) => Uploaded(j, r, w2, f2)
  BY DEF Uploaded
<1> QED
  BY <1>1 DEF GoodMsg

\* The parts of a finished upload are the program.
LEMMA AllBytes ==
  ASSUME UploadInv, upc = "done"
  PROVE  /\ \A j \in 1..Len(res) : BytesOf(res[j]) \subseteq Program
         /\ \A b \in Program : \E j \in 1..Len(res) : b \in BytesOf(res[j])
<1>1. /\ programSize \in Nat /\ res \in Seq(Seq(Ixs))
      /\ Covered(res, programSize) /\ InOrder(res, programSize)
  BY DEF UploadInv, UploadTypeOK, EachByteOnce
<1>2. \A j \in 1..Len(res) : \A k \in 1..Len(res[j]) : res[j][k] \in Ixs
  BY <1>1
<1>3. ASSUME NEW j \in 1..Len(res), NEW b \in BytesOf(res[j])
      PROVE  b \in Program
  <2>1. PICK k \in 1..Len(res[j]) : b \in res[j][k].from..(res[j][k].to - 1)
    BY <1>3 DEF BytesOf
  <2>2. res[j][k].from \in Nat /\ res[j][k].to \in Nat
    BY <1>2 DEF Ixs
  <2>3. res[j][k].to <= programSize
    BY <1>1 DEF InOrder
  <2> QED
    BY <2>1, <2>2, <2>3, <1>1 DEF Program
<1>4. ASSUME NEW b \in Program
      PROVE  \E j \in 1..Len(res) : b \in BytesOf(res[j])
  <2>1. PICK j \in 1..Len(res) : \E k \in 1..Len(res[j]) : Covers(res[j][k], b)
    BY <1>1 DEF Program, Covered
  <2>2. PICK k \in 1..Len(res[j]) : Covers(res[j][k], b)
    BY <2>1
  <2>3. /\ res[j][k].from \in Nat /\ res[j][k].to \in Nat /\ b \in Int
        /\ res[j][k].op \in {"write", "deploy"}
        /\ res[j][k].op = "deploy" => res[j][k].from = res[j][k].to
    <3>1. res[j][k] \in Ixs
      BY <1>2
    <3>2. b \in Int
      BY DEF Program
    <3>3. \A x \in Ixs : /\ x.from \in Nat /\ x.to \in Nat /\ x.op \in {"write", "deploy"}
                         /\ x.op = "deploy" => x.from = x.to
      BY DEF Ixs
    <3> QED
      BY <3>1, <3>2, <3>3
  <2>4. res[j][k].op = "write" /\ b \in res[j][k].from..(res[j][k].to - 1)
    BY <2>2, <2>3 DEF Covers
  <2> QED
    BY <2>4 DEF BytesOf
<1> QED
  BY <1>3, <1>4

-----------------------------------------------------------------------------
(* Steps of the programs *)

LEMMA HelperStart == HelperInit => HelperInv
<1> SUFFICES ASSUME HelperInit PROVE HelperInv
  OBVIOUS
<1>1. UploadInv
  BY UploadStart DEF HelperInit
<1>2. HelperTypeOK
  <2>1. pool \in Seq({})
    BY DEF HelperInit
  <2>2. \E S : pool \in Seq(S)
    BY <2>1
  <2>3. tx = [p \in Programs |-> tx[p]]
    BY DEF HelperInit
  <2> QED
    BY <2>2, <2>3 DEF HelperInit, HelperTypeOK, KeySet
<1>3. StageInv
  BY LinksFacts DEF HelperInit, StageInv, Busy
<1>4. ProgressInv
  BY LinksFacts DEF HelperInit, ProgressInv, Part
<1>5. PoolInv /\ IncludedInv /\ BufferInv
  BY DEF HelperInit, PoolInv, IncludedInv, BufferInv, DeployedComplete
<1>6. AwaitInv
  BY DEF HelperInit, AwaitInv
<1>7. SureInv
  BY DEF HelperInit, SureInv
<1> QED
  BY <1>1, <1>2, <1>3, <1>4, <1>5, <1>6, <1>7 DEF HelperInv

\* A program moves from one step of sending its message to another, or stops;
\* its transaction may get into the mempool.
LEMMA MoveInv ==
  ASSUME HelperInv, NEW p \in Programs,
         NEW x \in {"next", "end", "stopped"} \cup Busy, at' = [at EXCEPT ![p] = x],
         x \in Busy => Due(p),
         IF x = "await" THEN tx' = [tx EXCEPT ![p] = Sent(p)] ELSE tx' = tx,
         \/ pool' = pool
         \/ Due(p) /\ pool' = Append(pool, Sent(p)),
         UNCHANGED <<stage, keyOf, sure, failed, uploadVars, link, written, deployed, included>>
  PROVE  HelperInv'
<1>1. /\ stage' = stage /\ keyOf' = keyOf /\ sure' = sure /\ failed' = failed
      /\ programSize' = programSize /\ upc' = upc /\ res' = res /\ uploadVars' = uploadVars
      /\ link' = link /\ written' = written /\ deployed' = deployed /\ included' = included
  BY DEF uploadVars
<1>2. UploadInv'
  BY <1>1, UploadInductive DEF HelperInv
<1>3. HelperTypeOK /\ StageInv /\ PoolInv /\ AwaitInv
  BY DEF HelperInv
<1>4. PICK S : pool \in Seq(S)
  BY <1>3 DEF HelperTypeOK
<1>5. \A q \in Programs : at'[q] = IF q = p THEN x ELSE at[q]
  BY <1>3 DEF HelperTypeOK
<1>6. HelperTypeOK'
  <2>1. \E R : pool' \in Seq(R)
    <3>1. CASE pool' = pool
      BY <3>1, <1>4
    <3>2. CASE pool' = Append(pool, Sent(p))
      <4>1. pool \in Seq(S \cup {Sent(p)})
        BY <1>4
      <4>2. pool' \in Seq(S \cup {Sent(p)})
        BY <4>1, <3>2
      <4> QED
        BY <4>2
    <3> QED
      BY <3>1, <3>2
  <2>2. tx' = [q \in Programs |-> tx'[q]]
    BY <1>3 DEF HelperTypeOK
  <2>3. at' \in [Programs -> {"query", "next", "end", "stopped"} \cup Busy]
    BY <1>3 DEF HelperTypeOK
  <2> QED
    BY <2>1, <2>2, <2>3, <1>1, <1>3 DEF HelperTypeOK
<1>7. \A q \in Programs : Due(q)' <=> Due(q)
  BY <1>1 DEF Due, LastStage
<1>8. StageInv'
  BY <1>1, <1>3, <1>5, <1>7 DEF StageInv, Busy
<1>9. ProgressInv'
  BY <1>1 DEF HelperInv, ProgressInv, Part
<1>10. PoolInv'
  <2>1. CASE pool' = pool
    BY <2>1, <1>1, <1>3 DEF PoolInv
  <2>2. CASE Due(p) /\ pool' = Append(pool, Sent(p))
    <3>1. GoodMsg(Sent(p).msg, upc, res, written, failed[Deployer])
      BY <2>2, DueGood DEF Sent
    <3>2. \A i \in 1..Len(pool') : pool'[i] = Sent(p) \/ (i \in 1..Len(pool) /\ pool'[i] = pool[i])
      BY <2>2, <1>4
    <3> QED
      BY <3>1, <3>2, <1>1, <1>3 DEF PoolInv
  <2> QED
    BY <2>1, <2>2
<1>11. IncludedInv'
  BY <1>1 DEF HelperInv, IncludedInv
<1>12. AwaitInv'
  <2> SUFFICES ASSUME NEW q \in Programs, at'[q] = "await"
               PROVE  /\ stage[q] \in 1..Links(q) => LinkOf(tx'[q].msg, q, Accounts[stage[q]])
                      /\ Part(q) > 0 => tx'[q].msg.kind = "upload" /\ tx'[q].msg.ixs = res[Part(q)]
    BY <1>1 DEF AwaitInv, Part
  <2>1. CASE q = p
    <3>1. tx'[p] = Sent(p) /\ Sent(p).msg = Msg(p)
      BY <2>1, <1>3, <1>5 DEF HelperTypeOK, Sent
    <3>2. stage[p] \in Nat \ {0}
      BY <1>3 DEF HelperTypeOK
    <3> QED
      BY <3>1, <3>2, <2>1, MsgFacts
  <2>2. CASE q # p
    <3>1. tx'[q] = tx[q] /\ at[q] = "await"
      BY <2>2, <1>3, <1>5 DEF HelperTypeOK
    <3> QED
      BY <3>1, <1>3 DEF AwaitInv
  <2> QED
    BY <2>1, <2>2
<1>13. SureInv'
  BY <1>1 DEF HelperInv, SureInv
<1>14. BufferInv'
  BY <1>1 DEF HelperInv, BufferInv, DeployedComplete, Program
<1> QED
  BY <1>2, <1>6, <1>8, <1>9, <1>10, <1>11, <1>12, <1>13, <1>14 DEF HelperInv

\* A program goes on to its next message.
LEMMA ContinuesInv ==
  ASSUME HelperInv, NEW p \in Programs, NEW key \in KeySet, NEW ok \in BOOLEAN,
         Continues(p, key, ok), Due(p), UNCHANGED <<uploadVars, chainVars>>,
         stage[p] \in 1..Links(p) /\ ok => link[Accounts[stage[p]]] = key /\ key # NoKey,
         Part(p) > 0 /\ ok => BytesOf(res[Part(p)]) \subseteq written
  PROVE  HelperInv'
<1> DEFINE a0 == Accounts[stage[p]]
<1>1. /\ programSize' = programSize /\ upc' = upc /\ res' = res /\ uploadVars' = uploadVars
      /\ link' = link /\ written' = written /\ deployed' = deployed /\ included' = included
      /\ pool' = pool
  BY DEF uploadVars, chainVars
<1>2. HelperTypeOK /\ StageInv /\ PoolInv /\ AwaitInv /\ ProgressInv /\ SureInv
  BY DEF HelperInv
<1>3. UploadInv'
  BY <1>1, UploadInductive DEF HelperInv
<1>4. Links(p) \in 1..Len(Accounts) /\ Links(p) \in Nat /\ stage[p] \in Nat \ {0}
  BY <1>2, LinksFacts DEF HelperTypeOK
<1>5. /\ stage' = [stage EXCEPT ![p] = @ + 1]
      /\ tx' = [tx EXCEPT ![p] = NoTx]
      /\ \E x \in {"query", "next", "end"} :
             at' = [at EXCEPT ![p] = x] /\ (x = "query" => stage[p] < Links(p))
  BY DEF Continues
<1>6. PICK x \in {"query", "next", "end"} :
          at' = [at EXCEPT ![p] = x] /\ (x = "query" => stage[p] < Links(p))
  BY <1>5
<1>7. \A q \in Programs : /\ stage'[q] = IF q = p THEN stage[p] + 1 ELSE stage[q]
                          /\ at'[q] = IF q = p THEN x ELSE at[q]
                          /\ q # p => tx'[q] = tx[q]
  BY <1>2, <1>5, <1>6 DEF HelperTypeOK
<1>8. ASSUME stage[p] \in 1..Links(p)
      PROVE  HelperTypeOK' /\ ProgressInv' /\ PoolInv' /\ SureInv'
  <2>1. a0 \in Accs
    BY <1>4, <1>8, LinksFacts
  <2>2. /\ keyOf' = [keyOf EXCEPT ![p][a0] = key]
        /\ sure' = [sure EXCEPT ![p] = IF ok THEN @ \cup {a0} ELSE @]
        /\ failed' = failed
    BY <1>4, <1>8 DEF Continues
  <2>3. HelperTypeOK'
    <3>1. tx' = [q \in Programs |-> tx'[q]]
      BY <1>2, <1>5 DEF HelperTypeOK
    <3>2. keyOf' \in [Programs -> [Accs -> KeySet]]
      BY <1>2, <2>1, <2>2 DEF HelperTypeOK
    <3>3. sure' \in [Programs -> SUBSET Accs]
      BY <1>2, <2>1, <2>2 DEF HelperTypeOK
    <3>4. stage' \in [Programs -> Nat \ {0}]
      BY <1>2, <1>5 DEF HelperTypeOK
    <3>5. at' \in [Programs -> {"query", "next", "end", "stopped"} \cup Busy]
      BY <1>2, <1>6 DEF HelperTypeOK
    <3> QED
      BY <3>1, <3>2, <3>3, <3>4, <3>5, <2>2, <1>1, <1>2 DEF HelperTypeOK
  <2>4. ProgressInv'
    <3>1. CASE p = Deployer
      BY <3>1, <1>4, <1>7, <1>8, LinksFacts DEF ProgressInv, Part
    <3>2. CASE p # Deployer
      BY <3>2, <2>2, <1>1, <1>2, <1>7, LinksFacts DEF ProgressInv, Part
    <3> QED
      BY <3>1, <3>2
  <2>5. PoolInv'
    BY <2>2, <1>1, <1>2 DEF PoolInv
  <2>6. SureInv'
    <3> SUFFICES ASSUME NEW q \in Programs, NEW a \in sure'[q]
                 PROVE  /\ link[a] = keyOf'[q][a] /\ link[a] # NoKey
                        /\ \E i \in 1..Len(Accounts) : i < stage'[q] /\ Accounts[i] = a
      BY <1>1 DEF SureInv
    <3>1. CASE q = p /\ a \in sure[p] /\ a # a0
      <4>1. keyOf'[q][a] = keyOf[p][a]
        BY <3>1, <2>1, <2>2, <1>2 DEF HelperTypeOK
      <4> QED
        BY <4>1, <3>1, <1>2, <1>4, <1>7 DEF SureInv
    <3>2. CASE q = p /\ a = a0 /\ ok
      <4>1. keyOf'[q][a] = key
        BY <3>2, <2>1, <2>2, <1>2 DEF HelperTypeOK
      <4>2. stage[p] \in 1..Len(Accounts) /\ stage[p] < stage'[p]
        BY <1>4, <1>7, <1>8
      <4> QED
        BY <4>1, <4>2, <3>2, <1>8
    <3>3. CASE q = p /\ a \in sure[p] /\ a = a0
      <4>1. PICK i \in 1..Len(Accounts) : i < stage[p] /\ Accounts[i] = a
        BY <3>3, <1>2 DEF SureInv
      <4>2. stage[p] \in 1..Len(Accounts)
        BY <1>4, <1>8
      <4> QED
        BY <4>1, <4>2, <3>3, HelperAssumption
    <3>4. CASE q # p
      <4>1. sure'[q] = sure[q] /\ keyOf'[q] = keyOf[q]
        BY <3>4, <2>2, <1>2 DEF HelperTypeOK
      <4> QED
        BY <4>1, <3>4, <1>2, <1>7 DEF SureInv
    <3>5. q = p => a \in sure[p] \/ (a = a0 /\ ok)
      BY <2>2, <1>2 DEF HelperTypeOK
    <3> QED
      BY <3>1, <3>2, <3>3, <3>4, <3>5
  <2> QED
    BY <2>3, <2>4, <2>5, <2>6
<1>9. ASSUME stage[p] > Links(p)
      PROVE  HelperTypeOK' /\ ProgressInv' /\ PoolInv' /\ SureInv'
  <2>1. /\ keyOf' = keyOf /\ sure' = sure
        /\ failed' = [failed EXCEPT ![p] = @ \/ ~ok]
    BY <1>4, <1>9 DEF Continues
  <2>2. p = Deployer /\ upc = "done" /\ stage[p] \in (Links(p) + 1)..LastStage(p)
    BY <1>4, <1>9 DEF Due
  <2>3. failed' \in [Programs -> BOOLEAN] /\ failed'[Deployer] = (failed[Deployer] \/ ~ok)
    BY <2>1, <2>2, <1>2 DEF HelperTypeOK
  <2>4. HelperTypeOK'
    <3>1. tx' = [q \in Programs |-> tx'[q]]
      BY <1>2, <1>5 DEF HelperTypeOK
    <3>2. stage' \in [Programs -> Nat \ {0}]
      BY <1>2, <1>5 DEF HelperTypeOK
    <3>3. at' \in [Programs -> {"query", "next", "end", "stopped"} \cup Busy]
      BY <1>2, <1>6 DEF HelperTypeOK
    <3> QED
      BY <3>1, <3>2, <3>3, <2>1, <2>3, <1>1, <1>2 DEF HelperTypeOK
  <2>5. ProgressInv'
    <3>1. Part(Deployer)' = Part(Deployer) + 1 /\ Part(Deployer) \in Nat
      BY <2>2, <1>4, <1>7 DEF Part
    <3>2. Uploaded(Part(Deployer) + 1, res, written, failed'[Deployer])
      <4>1. CASE Part(Deployer) = 0
        BY <4>1 DEF Uploaded
      <4>2. CASE Part(Deployer) > 0 /\ ok
        <5>1. Uploaded(Part(Deployer), res, written, failed[Deployer])
          BY <4>2, <1>2 DEF ProgressInv
        <5>2. BytesOf(res[Part(Deployer)]) \subseteq written
          BY <4>2, <2>2
        <5>3. \A i \in 1..((Part(Deployer) + 1) - 1) :
                  i \in 1..(Part(Deployer) - 1) \/ i = Part(Deployer)
          BY <3>1
        <5> QED
          BY <5>1, <5>2, <5>3, <2>3 DEF Uploaded
      <4>3. CASE ~ok
        BY <4>3, <2>3 DEF Uploaded
      <4> QED
        BY <4>1, <4>2, <4>3, <3>1
    <3> QED
      BY <3>1, <3>2, <2>2, <1>1 DEF ProgressInv
  <2>6. PoolInv'
    <3>1. failed'[Deployer] \in BOOLEAN /\ (failed[Deployer] => failed'[Deployer])
      BY <2>3, LinksFacts
    <3>2. \A m : GoodMsg(m, upc, res, written, failed[Deployer]) =>
                    GoodMsg(m, upc, res, written, failed'[Deployer])
      BY <3>1, GoodStays
    <3> QED
      BY <3>2, <1>1, <1>2 DEF PoolInv
  <2>7. SureInv'
    <3>1. \A q \in Programs : stage[q] <= stage'[q] /\ stage[q] \in Nat /\ stage'[q] \in Nat
      BY <1>2, <1>7 DEF HelperTypeOK
    <3> SUFFICES ASSUME NEW q \in Programs, NEW a \in sure[q]
                 PROVE  /\ link[a] = keyOf[q][a] /\ link[a] # NoKey
                        /\ \E i \in 1..Len(Accounts) : i < stage'[q] /\ Accounts[i] = a
      BY <2>1, <1>1 DEF SureInv
    <3>2. PICK i \in 1..Len(Accounts) : i < stage[q] /\ Accounts[i] = a
      BY <1>2 DEF SureInv
    <3> QED
      BY <3>1, <3>2, <1>2 DEF SureInv
  <2> QED
    BY <2>4, <2>5, <2>6, <2>7
<1>10. HelperTypeOK' /\ ProgressInv' /\ PoolInv' /\ SureInv'
  BY <1>4, <1>8, <1>9
<1>11. StageInv'
  <2> SUFFICES ASSUME NEW q \in Programs
               PROVE  /\ at'[q] = "query" => stage'[q] \in 1..Links(q)
                      /\ at'[q] \in Busy => Due(q)'
    BY DEF StageInv
  <2>1. CASE q = p
    BY <2>1, <1>4, <1>6, <1>7 DEF Busy
  <2>2. CASE q # p
    BY <2>2, <1>1, <1>2, <1>7 DEF StageInv, Due, LastStage
  <2> QED
    BY <2>1, <2>2
<1>12. IncludedInv'
  BY <1>1 DEF HelperInv, IncludedInv
<1>13. AwaitInv'
  <2> SUFFICES ASSUME NEW q \in Programs, at'[q] = "await"
               PROVE  /\ stage'[q] \in 1..Links(q) => LinkOf(tx'[q].msg, q, Accounts[stage'[q]])
                      /\ stage'[q] - Links(q) - 1 > 0 =>
                             /\ tx'[q].msg.kind = "upload"
                             /\ tx'[q].msg.ixs = res[stage'[q] - Links(q) - 1]
    BY <1>1 DEF AwaitInv, Part
  <2>1. q # p
    BY <1>6, <1>7
  <2> QED
    BY <2>1, <1>2, <1>7 DEF AwaitInv, Part
<1>14. BufferInv'
  BY <1>1 DEF HelperInv, BufferInv, DeployedComplete, Program
<1> QED
  BY <1>3, <1>10, <1>11, <1>12, <1>13, <1>14 DEF HelperInv

LEMMA LinkFoundInv ==
  ASSUME HelperInv, NEW p \in Programs, LinkFound(p)
  PROVE  HelperInv'
<1>1. stage[p] \in 1..Links(p) /\ Links(p) \in Nat
  BY LinksFacts DEF LinkFound, HelperInv, StageInv
<1>2. Accounts[stage[p]] \in Accs
  BY <1>1, LinksFacts, HelperAssumption
<1>3. link[Accounts[stage[p]]] \in KeySet /\ link[Accounts[stage[p]]] # NoKey
  BY <1>2 DEF HelperInv, HelperTypeOK, LinkFound
<1>4. Due(p) /\ ~(Part(p) > 0)
  BY <1>1 DEF Due, Part
<1>5. Continues(p, link[Accounts[stage[p]]], TRUE) /\ UNCHANGED <<uploadVars, chainVars>>
  BY DEF LinkFound
<1> QED
  BY <1>3, <1>4, <1>5, ContinuesInv

LEMMA MyKeyFacts ==
  ASSUME HelperInv, NEW p \in Programs
  PROVE  /\ MyKey(p) \in KeySet
         /\ stage[p] \in 1..Links(p) => MyKey(p) = OwnKey[p][Accounts[stage[p]]]
                                        /\ MyKey(p) # NoKey
<1>1. Links(p) \in Nat /\ stage[p] \in Nat \ {0}
  BY LinksFacts DEF HelperInv, HelperTypeOK
<1>2. CASE stage[p] \in 1..Links(p)
  <2>1. Accounts[stage[p]] \in Accs
    BY <1>2, LinksFacts, HelperAssumption
  <2>2. MyKey(p) = OwnKey[p][Accounts[stage[p]]]
    BY <1>1, <1>2 DEF MyKey
  <2> QED
    BY <2>1, <2>2, OwnKeyFacts
<1>3. CASE ~(stage[p] \in 1..Links(p))
  BY <1>1, <1>3 DEF MyKey, KeySet
<1> QED
  BY <1>2, <1>3

LEMMA BroadcastRefusedInv ==
  ASSUME HelperInv, NEW p \in Programs, BroadcastRefused(p)
  PROVE  HelperInv'
<1>1. Due(p)
  BY DEF BroadcastRefused, HelperInv, StageInv, Busy
<1>2. Continues(p, MyKey(p), FALSE) /\ UNCHANGED <<uploadVars, chainVars>>
  BY DEF BroadcastRefused
<1> QED
  BY <1>1, <1>2, MyKeyFacts, ContinuesInv

LEMMA AwaitIncludedInv ==
  ASSUME HelperInv, NEW p \in Programs, AwaitIncluded(p)
  PROVE  HelperInv'
<1>1. PICK e \in included : e.tx = tx[p] /\ Continues(p, MyKey(p), e.ok)
  BY DEF AwaitIncluded
<1>2. Due(p) /\ at[p] = "await" /\ UNCHANGED <<uploadVars, chainVars>>
  BY DEF AwaitIncluded, HelperInv, StageInv, Busy
<1>3. e.ok \in BOOLEAN
  BY DEF HelperInv, IncludedInv
<1>4. stage[p] \in 1..Links(p) /\ e.ok => link[Accounts[stage[p]]] = MyKey(p) /\ MyKey(p) # NoKey
  <2> SUFFICES ASSUME stage[p] \in 1..Links(p), e.ok
               PROVE  link[Accounts[stage[p]]] = MyKey(p) /\ MyKey(p) # NoKey
    OBVIOUS
  <2>1. LinkOf(e.tx.msg, p, Accounts[stage[p]])
    BY <1>1, <1>2 DEF HelperInv, AwaitInv
  <2>2. PICK q \in Programs, a \in Accs : LinkOf(e.tx.msg, q, a) /\ link[a] = OwnKey[q][a]
    BY <2>1 DEF HelperInv, IncludedInv, Effective, LinkOf
  <2>3. a = Accounts[stage[p]] /\ OwnKey[q][a] = OwnKey[p][Accounts[stage[p]]]
    <3>1. <<a>> = <<Accounts[stage[p]]>> /\ {OwnKey[q][a]} = {OwnKey[p][Accounts[stage[p]]]}
      BY <2>1, <2>2 DEF LinkOf
    <3> QED
      BY <3>1
  <2> QED
    BY <2>2, <2>3, MyKeyFacts
<1>5. Part(p) > 0 /\ e.ok => BytesOf(res[Part(p)]) \subseteq written
  BY <1>1, <1>2 DEF HelperInv, AwaitInv, IncludedInv, Effective
<1> QED
  BY <1>1, <1>2, <1>3, <1>4, <1>5, MyKeyFacts, ContinuesInv

LEMMA RestartInv ==
  ASSUME HelperInv, NEW p \in Programs, Restart(p)
  PROVE  HelperInv'
<1>1. /\ keyOf' = keyOf /\ failed' = failed /\ uploadVars' = uploadVars
      /\ programSize' = programSize /\ upc' = upc /\ res' = res
      /\ link' = link /\ written' = written /\ deployed' = deployed /\ included' = included
      /\ pool' = pool
  BY DEF Restart, uploadVars, chainVars
<1>2. HelperTypeOK /\ StageInv /\ PoolInv /\ AwaitInv /\ ProgressInv /\ SureInv
  BY DEF HelperInv
<1>3. /\ at' = [at EXCEPT ![p] = "query"] /\ stage' = [stage EXCEPT ![p] = 1]
      /\ tx' = [tx EXCEPT ![p] = NoTx] /\ sure' = [sure EXCEPT ![p] = {}]
  BY DEF Restart
<1>4. \A q \in Programs : /\ stage'[q] = IF q = p THEN 1 ELSE stage[q]
                          /\ at'[q] = IF q = p THEN "query" ELSE at[q]
                          /\ sure'[q] = IF q = p THEN {} ELSE sure[q]
                          /\ q # p => tx'[q] = tx[q]
  BY <1>2, <1>3 DEF HelperTypeOK
<1>5. UploadInv'
  BY <1>1, UploadInductive DEF HelperInv
<1>6. HelperTypeOK'
  <2>1. tx' = [q \in Programs |-> tx'[q]]
    BY <1>2, <1>3 DEF HelperTypeOK
  <2>2. sure' \in [Programs -> SUBSET Accs] /\ stage' \in [Programs -> Nat \ {0}]
    BY <1>2, <1>3 DEF HelperTypeOK
  <2>3. at' \in [Programs -> {"query", "next", "end", "stopped"} \cup Busy]
    BY <1>2, <1>3 DEF HelperTypeOK
  <2> QED
    BY <2>1, <2>2, <2>3, <1>1, <1>2 DEF HelperTypeOK
<1>7. StageInv'
  <2> SUFFICES ASSUME NEW q \in Programs
               PROVE  /\ at'[q] = "query" => stage'[q] \in 1..Links(q)
                      /\ at'[q] \in Busy => Due(q)'
    BY DEF StageInv
  <2>1. CASE q = p
    BY <2>1, <1>4, LinksFacts DEF Busy
  <2>2. CASE q # p
    BY <2>2, <1>1, <1>2, <1>4 DEF StageInv, Due, LastStage
  <2> QED
    BY <2>1, <2>2
<1>8. ProgressInv'
  <2>1. CASE p = Deployer
    BY <2>1, <1>4, LinksFacts DEF ProgressInv, Part
  <2>2. CASE p # Deployer
    BY <2>2, <1>1, <1>2, <1>4, LinksFacts DEF ProgressInv, Part
  <2> QED
    BY <2>1, <2>2
<1>9. PoolInv' /\ IncludedInv'
  BY <1>1 DEF HelperInv, PoolInv, IncludedInv
<1>10. AwaitInv'
  BY <1>1, <1>2, <1>4 DEF AwaitInv, Part
<1>11. SureInv'
  BY <1>1, <1>2, <1>4 DEF SureInv
<1>12. BufferInv'
  BY <1>1 DEF HelperInv, BufferInv, DeployedComplete, Program
<1> QED
  BY <1>5, <1>6, <1>7, <1>8, <1>9, <1>10, <1>11, <1>12 DEF HelperInv

\* While messages are being built, no upload message is due or sent.
LEMMA BuildMsgsInv ==
  ASSUME HelperInv, BuildMsgs
  PROVE  HelperInv'
<1>1. /\ link' = link /\ written' = written /\ deployed' = deployed /\ included' = included
      /\ pool' = pool /\ at' = at /\ stage' = stage /\ tx' = tx /\ keyOf' = keyOf
      /\ sure' = sure /\ failed' = failed
  BY DEF BuildMsgs, chainVars, programVars
<1>2. upc = "loop" /\ UploadNext /\ programSize' = programSize
  BY DEF BuildMsgs, UploadNext, AddChunk, AddDeploy
<1>3. HelperTypeOK /\ StageInv /\ PoolInv /\ AwaitInv /\ ProgressInv /\ SureInv
  BY DEF HelperInv
<1>4. UploadInv'
  BY <1>2, UploadInductive DEF HelperInv
<1>5. HelperTypeOK'
  BY <1>1, <1>3 DEF HelperTypeOK
<1>6. StageInv'
  BY <1>1, <1>2, <1>3 DEF StageInv, Due
<1>7. ProgressInv'
  BY <1>1, <1>2, <1>3 DEF ProgressInv, Part
<1>8. PoolInv'
  BY <1>1, <1>2, <1>3 DEF PoolInv, GoodMsg
<1>9. IncludedInv'
  BY <1>1 DEF HelperInv, IncludedInv
<1>10. AwaitInv'
  <2> SUFFICES ASSUME NEW q \in Programs, at[q] = "await"
               PROVE  /\ stage[q] \in 1..Links(q) => LinkOf(tx[q].msg, q, Accounts[stage[q]])
                      /\ ~(Part(q) > 0)
    BY <1>1 DEF AwaitInv, Part
  <2>1. stage[q] \in 1..Links(q) /\ Links(q) \in Nat
    BY <1>2, <1>3, LinksFacts DEF StageInv, Due, Busy
  <2> QED
    BY <2>1, <1>3 DEF AwaitInv, Part
<1>11. SureInv'
  BY <1>1, <1>3 DEF SureInv
<1>12. BufferInv'
  BY <1>1, <1>2 DEF HelperInv, BufferInv, DeployedComplete, Program
<1> QED
  BY <1>4, <1>5, <1>6, <1>7, <1>8, <1>9, <1>10, <1>11, <1>12 DEF HelperInv

-----------------------------------------------------------------------------
(* Steps of the chain *)

\* A block takes the oldest transaction: links are only added, bytes are only
\* written, and what the transaction says it did it has done.
LEMMA BlockInv ==
  ASSUME HelperInv, pool # <<>>, NEW ok \in BOOLEAN, Included(Head(pool), ok),
         UNCHANGED <<uploadVars, programVars>>,
         link' \in [Accs -> KeySet], \A a \in Accs : link[a] # NoKey => link'[a] = link[a],
         written \subseteq written',
         ok => Effective(Head(pool).msg, link', written'),
         BufferInv'
  PROVE  HelperInv'
<1>1. /\ at' = at /\ stage' = stage /\ tx' = tx /\ keyOf' = keyOf
      /\ sure' = sure /\ failed' = failed /\ uploadVars' = uploadVars
      /\ programSize' = programSize /\ upc' = upc /\ res' = res
  BY DEF uploadVars, programVars
<1>2. HelperTypeOK /\ StageInv /\ PoolInv /\ AwaitInv /\ ProgressInv /\ SureInv /\ IncludedInv
  BY DEF HelperInv
<1>3. pool' = Tail(pool) /\ included' = included \cup {[tx |-> Head(pool), ok |-> ok]}
  BY DEF Included
<1>4. PICK S : pool \in Seq(S)
  BY <1>2 DEF HelperTypeOK
<1>5. UploadInv'
  BY <1>1, UploadInductive DEF HelperInv
<1>6. HelperTypeOK'
  <2>1. pool' \in Seq(S)
    BY <1>3, <1>4
  <2>2. \E R : pool' \in Seq(R)
    BY <2>1
  <2> QED
    BY <2>2, <1>1, <1>2 DEF HelperTypeOK
<1>7. StageInv'
  BY <1>1, <1>2 DEF StageInv, Due, LastStage
<1>8. failed[Deployer] \in BOOLEAN
  BY <1>2, LinksFacts DEF HelperTypeOK
<1>9. ProgressInv'
  BY <1>1, <1>2 DEF ProgressInv, Part, Uploaded
<1>10. PoolInv'
  <2>1. \A m : GoodMsg(m, upc, res, written, failed[Deployer]) =>
                  GoodMsg(m, upc, res, written', failed[Deployer])
    BY <1>8, GoodStays
  <2>2. \A i \in 1..Len(pool') : i + 1 \in 1..Len(pool) /\ pool'[i] = pool[i + 1]
    BY <1>3, <1>4
  <2> QED
    BY <2>1, <2>2, <1>1, <1>2 DEF PoolInv
<1>11. IncludedInv'
  <2> SUFFICES ASSUME NEW e \in included'
               PROVE  e.ok \in BOOLEAN /\ (e.ok => Effective(e.tx.msg, link', written'))
    BY DEF IncludedInv
  <2>1. CASE e \in included
    <3>1. e.ok \in BOOLEAN /\ (e.ok => Effective(e.tx.msg, link, written))
      BY <2>1, <1>2 DEF IncludedInv
    <3>2. Effective(e.tx.msg, link, written) => Effective(e.tx.msg, link', written')
      <4> SUFFICES ASSUME Effective(e.tx.msg, link, written)
                   PROVE  Effective(e.tx.msg, link', written')
        OBVIOUS
      <4>1. ASSUME e.tx.msg.kind = "link"
            PROVE  \E p \in Programs : \E a \in Accs :
                       LinkOf(e.tx.msg, p, a) /\ link'[a] = OwnKey[p][a]
        <5>1. PICK p \in Programs, a \in Accs : LinkOf(e.tx.msg, p, a) /\ link[a] = OwnKey[p][a]
          BY <4>1 DEF Effective
        <5>2. link'[a] = OwnKey[p][a]
          BY <5>1, OwnKeyFacts
        <5> QED
          BY <5>1, <5>2
      <4> QED
        BY <4>1 DEF Effective
    <3> QED
      BY <3>1, <3>2
  <2>2. CASE e = [tx |-> Head(pool), ok |-> ok]
    BY <2>2
  <2> QED
    BY <2>1, <2>2, <1>3
<1>12. AwaitInv'
  BY <1>1, <1>2 DEF AwaitInv, Part
<1>13. SureInv'
  <2> SUFFICES ASSUME NEW q \in Programs, NEW a \in sure[q]
               PROVE  /\ link'[a] = keyOf[q][a] /\ link'[a] # NoKey
                      /\ \E i \in 1..Len(Accounts) : i < stage[q] /\ Accounts[i] = a
    BY <1>1 DEF SureInv
  <2>1. a \in Accs
    BY <1>2 DEF HelperTypeOK
  <2> QED
    BY <2>1, <1>2 DEF SureInv
<1> QED
  BY <1>5, <1>6, <1>7, <1>9, <1>10, <1>11, <1>12, <1>13 DEF HelperInv

LEMMA DeliverFailsInv ==
  ASSUME HelperInv, DeliverFails
  PROVE  HelperInv'
<1>1. /\ pool # <<>> /\ Included(Head(pool), FALSE) /\ UNCHANGED <<uploadVars, programVars>>
      /\ link' = link /\ written' = written /\ deployed' = deployed
  BY DEF DeliverFails
<1>2. programSize' = programSize
  BY <1>1 DEF uploadVars
<1>3. BufferInv'
  BY <1>1, <1>2 DEF HelperInv, BufferInv, DeployedComplete, Program
<1>4. link' \in [Accs -> KeySet]
  BY <1>1 DEF HelperInv, HelperTypeOK
<1> QED
  BY <1>1, <1>3, <1>4, BlockInv

LEMMA DeliverOkInv ==
  ASSUME HelperInv, DeliverOk
  PROVE  HelperInv'
<1> DEFINE m == Head(pool).msg
<1>1. /\ pool # <<>> /\ Included(Head(pool), TRUE) /\ UNCHANGED <<uploadVars, programVars>>
      /\ ExecutesOK(m) /\ Execute(m)
  BY DEF DeliverOk
<1>2. programSize' = programSize /\ res' = res /\ upc' = upc /\ failed' = failed
  BY <1>1 DEF uploadVars, programVars
<1>3. link \in [Accs -> KeySet]
  BY DEF HelperInv, HelperTypeOK
<1>4. GoodMsg(m, upc, res, written, failed[Deployer])
  <2>1. PICK S : pool \in Seq(S)
    BY DEF HelperInv, HelperTypeOK
  <2>2. 1 \in 1..Len(pool) /\ Head(pool) = pool[1]
    BY <2>1, <1>1
  <2> QED
    BY <2>2 DEF HelperInv, PoolInv
<1> HIDE DEF m
<1>5. CASE \E p \in Programs : \E a \in Accs : LinkOf(m, p, a)
  <2>1. PICK p \in Programs, a \in Accs : LinkOf(m, p, a)
    BY <1>5
  <2>2. m.kind = "link" /\ m.signers[1] = a /\ m.keys = {OwnKey[p][a]}
    BY <2>1 DEF LinkOf
  <2>3. link[a] = NoKey
    BY <2>2, <1>1 DEF ExecutesOK
  <2>4. (CHOOSE k \in m.keys : TRUE) = OwnKey[p][a]
    BY <2>2
  <2>5. /\ link' = [link EXCEPT ![a] = OwnKey[p][a]]
        /\ written' = written /\ deployed' = deployed
    BY <2>2, <2>4, <1>1 DEF Execute
  <2>6. BufferInv'
    BY <2>5, <1>2 DEF HelperInv, BufferInv, DeployedComplete, Program
  <2>7. /\ link' \in [Accs -> KeySet] /\ link'[a] = OwnKey[p][a]
        /\ \A b \in Accs : link[b] # NoKey => link'[b] = link[b]
    BY <2>3, <2>5, <1>3, OwnKeyFacts
  <2>8. Effective(m, link', written')
    BY <2>1, <2>2, <2>7 DEF Effective
  <2> QED
    BY <2>5, <2>6, <2>7, <2>8, <1>1, BlockInv DEF m
<1>6. CASE m.kind = "init"
  <2>1. link' = link /\ written' = written /\ deployed' = deployed
    BY <1>1, <1>6 DEF Execute
  <2>2. BufferInv'
    BY <2>1, <1>2 DEF HelperInv, BufferInv, DeployedComplete, Program
  <2>3. Effective(m, link', written')
    BY <1>6 DEF Effective
  <2> QED
    BY <2>1, <2>2, <2>3, <1>1, <1>3, BlockInv DEF m
<1>7. CASE /\ m.kind = "upload" /\ upc = "done"
           /\ \E j \in 1..Len(res) : m.ixs = res[j] /\ Uploaded(j, res, written, failed[Deployer])
  <2>1. PICK j \in 1..Len(res) : m.ixs = res[j] /\ Uploaded(j, res, written, failed[Deployer])
    BY <1>7
  <2>2. /\ link' = link /\ written' = written \cup BytesOf(m.ixs)
        /\ deployed' = IF Deploys(m.ixs)
                       THEN [bytes |-> written', told |-> failed[Deployer]] ELSE deployed
    BY <1>1, <1>7 DEF Execute
  <2>3. Effective(m, link', written')
    BY <2>2, <1>7 DEF Effective
  <2>4. /\ \A i \in 1..Len(res) : BytesOf(res[i]) \subseteq Program
        /\ \A b \in Program : \E i \in 1..Len(res) : b \in BytesOf(res[i])
    BY <1>7, AllBytes DEF HelperInv
  <2>5. written' \subseteq Program /\ Program' = Program
    BY <2>1, <2>2, <2>4, <1>2 DEF HelperInv, BufferInv, Program
  <2>6. ASSUME ~Deploys(m.ixs) PROVE BufferInv'
    BY <2>2, <2>5, <2>6 DEF HelperInv, BufferInv, DeployedComplete
  <2>7. ASSUME Deploys(m.ixs) /\ failed[Deployer] PROVE BufferInv'
    <3>1. deployed'.told
      BY <2>2, <2>7
    <3> QED
      BY <3>1, <2>5 DEF BufferInv, DeployedComplete
  <2>8. ASSUME Deploys(m.ixs) /\ ~failed[Deployer] PROVE BufferInv'
    <3>1. j = Len(res)
      BY <2>1, <2>8 DEF Deploys, HelperInv, UploadInv, TransactionsFit
    <3>2. \A i \in 1..(Len(res) - 1) : BytesOf(res[i]) \subseteq written
      BY <3>1, <2>1, <2>8 DEF Uploaded
    <3>3. Len(res) \in Nat
      BY DEF HelperInv, UploadInv, UploadTypeOK
    <3>4. \A i \in 1..Len(res) : BytesOf(res[i]) \subseteq written'
      BY <3>1, <3>2, <3>3, <2>1, <2>2
    <3>5. written' = Program
      BY <3>4, <2>4, <2>5
    <3>6. deployed'.bytes = Program'
      BY <3>5, <2>2, <2>5, <2>8
    <3> QED
      BY <3>6, <2>5 DEF BufferInv, DeployedComplete
  <2>9. BufferInv'
    BY <2>6, <2>7, <2>8
  <2> QED
    BY <2>9, <2>2, <2>3, <1>1, <1>3, BlockInv DEF m
<1> QED
  BY <1>4, <1>5, <1>6, <1>7 DEF GoodMsg

-----------------------------------------------------------------------------
(* The theorems *)

LEMMA RunsInv ==
  ASSUME HelperInv, NEW p \in Programs, Runs(p)
  PROVE  HelperInv'
<1>1. at[p] \in Busy => Due(p)
  BY DEF HelperInv, StageInv
<1>2. CASE LinkNotFound(p)
  <2>1. Due(p)
    BY <1>2 DEF LinkNotFound, HelperInv, StageInv, Due
  <2> QED
    BY <2>1, <1>2, MoveInv DEF LinkNotFound, chainVars, Busy
<1>3. CASE ReadAccount(p)
  <2>1. PICK x \in {"account", "simulate"} : at' = [at EXCEPT ![p] = x]
    BY <1>3 DEF ReadAccount
  <2> QED
    BY <2>1, <1>1, <1>3, MoveInv DEF ReadAccount, chainVars, Busy
<1>4. CASE Simulate(p)
  <2>1. PICK x \in {"broadcast", "stopped"} : at' = [at EXCEPT ![p] = x]
    BY <1>4 DEF Simulate, Panics
  <2>2. UNCHANGED <<stage, tx, keyOf, sure, failed>>
    BY <1>4 DEF Simulate, Panics
  <2> QED
    BY <2>1, <2>2, <1>1, <1>4, MoveInv DEF Simulate, chainVars, Busy
<1>5. CASE BroadcastOk(p)
  BY <1>1, <1>5, MoveInv DEF BroadcastOk, Busy
<1>6. CASE p = Deployer /\ NextMsg
  <2>1. Len(res) \in Nat /\ Links(p) \in Nat /\ stage[p] \in Nat \ {0}
    BY LinksFacts DEF HelperInv, HelperTypeOK, UploadInv, UploadTypeOK
  <2>2. PICK x \in {"end", "account"} :
            at' = [at EXCEPT ![p] = x] /\ (x = "account" => ~(stage[p] > LastStage(p)))
    BY <1>6 DEF NextMsg
  <2>3. x = "account" => Due(p)
    BY <2>1, <2>2, <1>6 DEF NextMsg, Due, LastStage
  <2> QED
    BY <2>2, <2>3, <1>6, MoveInv DEF NextMsg, chainVars, Busy
<1> QED
  BY <1>2, <1>3, <1>4, <1>5, <1>6, LinkFoundInv, BroadcastRefusedInv, AwaitIncludedInv,
     RestartInv, BuildMsgsInv DEF Runs

LEMMA CallFailsInv ==
  ASSUME HelperInv, NEW p \in Programs, CallFails(p)
  PROVE  HelperInv'
<1>1. at[p] = "broadcast" => Due(p)
  BY DEF HelperInv, StageInv, Busy
<1>2. /\ at' = [at EXCEPT ![p] = "stopped"]
      /\ UNCHANGED <<stage, tx, keyOf, sure, failed>>
  BY DEF CallFails, Panics
<1>3. pool' = pool \/ (Due(p) /\ pool' = Append(pool, Sent(p)))
  BY <1>1 DEF CallFails
<1> QED
  BY <1>2, <1>3, MoveInv DEF CallFails, Busy

LEMMA StutterInv ==
  ASSUME HelperInv, UNCHANGED helperVars
  PROVE  HelperInv'
<1>1. /\ link' = link /\ written' = written /\ deployed' = deployed /\ included' = included
      /\ pool' = pool /\ at' = at /\ stage' = stage /\ tx' = tx /\ keyOf' = keyOf
      /\ sure' = sure /\ failed' = failed /\ uploadVars' = uploadVars
      /\ programSize' = programSize /\ upc' = upc /\ res' = res
  BY DEF helperVars, chainVars, programVars, uploadVars
<1>2. UploadInv'
  BY <1>1, UploadInductive DEF HelperInv
<1>3. HelperTypeOK' /\ StageInv'
  BY <1>1 DEF HelperInv, HelperTypeOK, StageInv, Due, LastStage
<1>4. ProgressInv' /\ PoolInv' /\ IncludedInv'
  BY <1>1 DEF HelperInv, ProgressInv, Part, PoolInv, IncludedInv
<1>5. AwaitInv' /\ SureInv'
  BY <1>1 DEF HelperInv, AwaitInv, Part, SureInv
<1>6. BufferInv'
  BY <1>1 DEF HelperInv, BufferInv, DeployedComplete, Program
<1> QED
  BY <1>2, <1>3, <1>4, <1>5, <1>6 DEF HelperInv

LEMMA HelperAlways == HelperSpec => []HelperInv
<1>1. HelperInv /\ [HelperNext]_helperVars => HelperInv'
  <2> SUFFICES ASSUME HelperInv, [HelperNext]_helperVars PROVE HelperInv'
    OBVIOUS
  <2> QED
    BY RunsInv, CallFailsInv, DeliverOkInv, DeliverFailsInv, StutterInv DEF HelperNext
<1> QED
  BY <1>1, HelperStart, PTL DEF HelperSpec

\* A key that GetOrLinkSvmAccount returned with success is and stays the linked
\* one, however many programs link the same accounts.
THEOREM SvmReturnedKeyLinked == HelperSpec => []ReturnedKeyLinked
<1>1. HelperInv => ReturnedKeyLinked
  BY DEF HelperInv, SureInv, ReturnedKeyLinked
<1> QED
  BY <1>1, HelperAlways, PTL

\* A deployer that was told of no failure has deployed the whole program,
\* whatever was lost, sent again or started again.
THEOREM SvmDeployedComplete == HelperSpec => []DeployedComplete
<1>1. HelperInv => DeployedComplete
  BY DEF HelperInv, BufferInv
<1> QED
  BY <1>1, HelperAlways, PTL
=============================================================================
