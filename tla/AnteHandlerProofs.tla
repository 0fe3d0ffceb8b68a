-------------------------- MODULE AnteHandlerProofs -------------------------
(***************************************************************************)
(* Proofs about the ante handler in its node, for any accounts, any        *)
(* transactions and any interleaving of CheckTx, DeliverTx and Commit:     *)
(* first about blocks, for which only the state they are executed on       *)
(* matters, then about the mempool and the check state.                    *)
(***************************************************************************)
EXTENDS AnteHandler, TLAPS, SequenceTheorems, FiniteSetTheorems, WellFoundedInduction

\* The state of the block being executed, and what it says about the past:
\* every sequence that was used is below the current one.
Used(tx) ==
    \A a \in Signers(tx) :
        SeqOfSigner(tx, a) \in Nat /\ SeqOfSigner(tx, a) < working.seq[a]

WorkingType ==
    /\ working \in States
    /\ included \in Seq([tx : Txs, links : SUBSET (Accounts \X SvmAddrs)])

BlocksInv ==
    /\ WorkingType
    /\ \A i \in DOMAIN included : Used(included[i].tx)
    /\ SequenceUsedOnce

-----------------------------------------------------------------------------
LEMMA ElementIn ==
    ASSUME NEW S, NEW q \in Seq(S), NEW i \in DOMAIN q
    PROVE  q[i] \in S
  OBVIOUS

LEMMA SignersExist ==
    ASSUME NEW tx \in Txs
    PROVE  Signers(tx) \subseteq Accounts /\ tx.body.signers[1] \in Accounts
  BY TxAssumption DEF Signers, ToSet

\* A transaction that passes in a block carries the current sequence of each
\* of its signers, whichever chain it goes through.
LEMMA PassesCurrent ==
    ASSUME NEW tx \in Txs, NEW st \in States, NEW a \in Signers(tx),
           Passes(st, tx, "deliver")
    PROVE  SeqOfSigner(tx, a) = st.seq[a]
  <1>1. SetPubKey(st, tx).seq = st.seq
    BY DEF SetPubKey, States
  <1>2. /\ Len(tx.sigs) = Len(tx.body.signers)
        /\ \A i \in DOMAIN tx.sigs : tx.sigs[i].seq = st.seq[tx.body.signers[i]]
    <2>1. CASE Eip712SigVerification(SetPubKey(st, tx), tx, "deliver")
      BY <1>1, <2>1 DEF Eip712SigVerification
    <2>2. CASE SigVerification(SetPubKey(st, tx), tx, "deliver")
      BY <1>1, <2>2 DEF SigVerification
    <2> QED
      BY <2>1, <2>2 DEF Passes
  <1>3. DOMAIN tx.sigs = DOMAIN tx.body.signers
    BY <1>2, TxAssumption
  <1>4. \E i \in DOMAIN tx.sigs : tx.body.signers[i] = a
    BY <1>3 DEF Signers, ToSet
  <1> QED
    BY <1>2, <1>4 DEF SeqOfSigner

\* Passing raises the sequence of every signer by one and no other.
LEMMA AfterState ==
    ASSUME NEW tx \in Txs, NEW st \in States, CanDeductFee(st, tx)
    PROVE  /\ After(st, tx) \in States
           /\ After(st, tx).seq = [a \in Accounts |-> IF a \in Signers(tx)
                                                      THEN st.seq[a] + 1 ELSE st.seq[a]]
  <1>1. SetPubKey(st, tx) = [st EXCEPT !.keys = @ \cup tx.pub]
    BY DEF SetPubKey
  <1>2. SetPubKey(st, tx) \in States /\ SetPubKey(st, tx).bal = st.bal
        /\ SetPubKey(st, tx).seq = st.seq /\ SetPubKey(st, tx).fees = st.fees
    BY <1>1, TxAssumption DEF States
  <1>3. tx.body.fee \in Nat /\ Funds \in Nat
    BY TxAssumption, ConfigAssumption
  <1>4. FeePayer(tx) \in Accounts
    BY DEF CanDeductFee
  <1>5. st.bal[FeePayer(tx)] - tx.body.fee \in 0..Funds
    BY <1>3, <1>4 DEF CanDeductFee, States
  <1> DEFINE new == [a \in Accounts |-> IF a \in Signers(tx) THEN st.seq[a] + 1 ELSE st.seq[a]]
  <1>6. new \in [Accounts -> Nat]
    BY DEF States
  <1> DEFINE paid == [st.bal EXCEPT ![FeePayer(tx)] = st.bal[FeePayer(tx)] - tx.body.fee]
  <1>7. After(st, tx) = [SetPubKey(st, tx) EXCEPT
            !.bal = paid, !.fees = st.fees + tx.body.fee, !.seq = new]
    BY <1>2 DEF After, States
  <1>8. paid \in [Accounts -> 0..Funds]
    BY <1>4, <1>5 DEF States
  <1>9. st.fees + tx.body.fee \in Nat
    BY <1>3 DEF States
  <1> HIDE DEF new, paid
  <1>10. After(st, tx) \in States /\ After(st, tx).seq = new
    BY <1>2, <1>6, <1>7, <1>8, <1>9 DEF States
  <1> QED
    BY <1>10 DEF new

LEMMA ExecuteState ==
    ASSUME NEW tx \in Txs, NEW st \in States
    PROVE  Execute(st, tx) \in States /\ Execute(st, tx).seq = st.seq
  <1>1. Signers(tx) \X tx.body.svm \subseteq Accounts \X SvmAddrs
    BY SignersExist, TxAssumption
  <1> QED
    BY <1>1 DEF Execute, States

-----------------------------------------------------------------------------
LEMMA NextBlocks == BlocksInv /\ [Next]_vars => BlocksInv'
  <1> SUFFICES ASSUME BlocksInv, [Next]_vars PROVE BlocksInv'
    OBVIOUS
  <1>1. ASSUME NEW tx \in Txs, DeliverOk(tx) PROVE BlocksInv'
    <2> DEFINE new == [tx |-> tx, links |-> working.links]
    <2>1. Passes(working, tx, "deliver") /\ working' = Execute(After(working, tx), tx)
          /\ included' = Append(included, new)
      BY <1>1 DEF DeliverOk
    <2>2. After(working, tx) \in States
          /\ After(working, tx).seq = [a \in Accounts |-> IF a \in Signers(tx)
                                  THEN working.seq[a] + 1 ELSE working.seq[a]]
      BY <2>1, AfterState DEF Passes, BlocksInv, WorkingType
    <2>3. working' \in States
          /\ working'.seq = [a \in Accounts |-> IF a \in Signers(tx)
                                  THEN working.seq[a] + 1 ELSE working.seq[a]]
      BY <2>1, <2>2, ExecuteState
    <2>4. WorkingType'
      BY <2>1, <2>3 DEF BlocksInv, WorkingType, States
    <2>5. \A a \in Accounts : working.seq[a] \in Nat
      BY DEF BlocksInv, WorkingType, States
    <2>6. \A a \in Signers(tx) : SeqOfSigner(tx, a) = working.seq[a]
      BY <2>1, PassesCurrent DEF BlocksInv, WorkingType
    <2>7. \A i \in DOMAIN included : included[i].tx \in Txs
      <3>1. included \in Seq([tx : Txs, links : SUBSET (Accounts \X SvmAddrs)])
        BY DEF BlocksInv, WorkingType
      <3>2. \A i \in DOMAIN included :
                included[i] \in [tx : Txs, links : SUBSET (Accounts \X SvmAddrs)]
        BY <3>1, ElementIn
      <3> QED
        BY <3>2
    <2>8. /\ Len(included') = Len(included) + 1
          /\ DOMAIN included' = 1..Len(included) + 1
          /\ DOMAIN included = 1..Len(included)
          /\ \A i \in DOMAIN included : included'[i] = included[i]
          /\ included'[Len(included) + 1] = new
      BY <2>1 DEF BlocksInv, WorkingType, States
    <2>9. (\A i \in DOMAIN included : Used(included[i].tx))'
      <3> SUFFICES ASSUME NEW i \in DOMAIN included', NEW a \in Signers(included'[i].tx)
                   PROVE  /\ SeqOfSigner(included'[i].tx, a) \in Nat
                          /\ SeqOfSigner(included'[i].tx, a) < working'.seq[a]
        BY DEF Used
      <3>1. CASE i \in DOMAIN included
        <4>1. a \in Accounts
          BY <3>1, <2>7, <2>8, SignersExist
        <4>2. /\ SeqOfSigner(included[i].tx, a) \in Nat
              /\ SeqOfSigner(included[i].tx, a) < working.seq[a]
          BY <3>1, <2>8 DEF BlocksInv, Used
        <4>3. working'.seq[a] = working.seq[a] \/ working'.seq[a] = working.seq[a] + 1
          BY <4>1, <2>3
        <4> QED
          BY <4>1, <4>2, <4>3, <2>5, <2>8, <3>1
      <3>2. CASE i = Len(included) + 1
        BY <3>2, <2>3, <2>5, <2>6, <2>8, SignersExist
      <3> QED
        BY <2>8, <3>1, <3>2
    <2>10. SequenceUsedOnce'
      <3> SUFFICES ASSUME NEW i \in DOMAIN included', NEW j \in DOMAIN included', i # j,
                          NEW a \in Signers(included'[i].tx) \cap Signers(included'[j].tx)
                   PROVE  SeqOfSigner(included'[i].tx, a) # SeqOfSigner(included'[j].tx, a)
        BY DEF SequenceUsedOnce
      <3>0. ASSUME NEW k \in DOMAIN included, a \in Signers(included[k].tx), a \in Signers(tx)
            PROVE  SeqOfSigner(included[k].tx, a) # SeqOfSigner(tx, a)
        BY <3>0, <2>5, <2>6, <2>7, SignersExist DEF BlocksInv, Used
      <3>1. CASE i \in DOMAIN included /\ j \in DOMAIN included
        <4>1. included'[i] = included[i] /\ included'[j] = included[j]
          BY <3>1, <2>8
        <4>2. a \in Signers(included[i].tx) \cap Signers(included[j].tx)
          BY <4>1
        <4>3. SequenceUsedOnce
          BY DEF BlocksInv
        <4> QED
          BY <3>1, <4>1, <4>2, <4>3 DEF SequenceUsedOnce
      <3>2. CASE i \in DOMAIN included /\ j = Len(included) + 1
        BY <3>0, <3>2, <2>8
      <3>3. CASE j \in DOMAIN included /\ i = Len(included) + 1
        BY <3>0, <3>3, <2>8
      <3> QED
        BY <2>8, <3>1, <3>2, <3>3
    <2> QED
      BY <2>4, <2>9, <2>10 DEF BlocksInv
  <1>2. CASE UNCHANGED <<working, included>>
    BY <1>2 DEF BlocksInv, WorkingType, Used, SequenceUsedOnce
  <1>3. ASSUME NEW tx \in Txs, CheckTx(tx) \/ DeliverFail(tx) PROVE BlocksInv'
    BY <1>2, <1>3 DEF CheckTx, DeliverFail
  <1>4. Commit \/ UNCHANGED vars => UNCHANGED <<working, included>>
    BY DEF Commit, vars
  <1> QED
    BY <1>1, <1>2, <1>3, <1>4 DEF Next

LEMMA InitBlocks == Init => BlocksInv
  <1> SUFFICES ASSUME Init PROVE BlocksInv
    OBVIOUS
  <1>1. working \in States
    BY ConfigAssumption DEF Init, Genesis, States
  <1>2. included = <<>> /\ included \in Seq([tx : Txs, links : SUBSET (Accounts \X SvmAddrs)])
    BY DEF Init
  <1>3. DOMAIN included = {}
    BY <1>2
  <1> QED
    BY <1>1, <1>2, <1>3 DEF BlocksInv, WorkingType, SequenceUsedOnce

\* No two transactions that pass in blocks use the same sequence of the same
\* signer, whichever of the two decorator chains they go through.
THEOREM AnteNoReplay == Spec => []SequenceUsedOnce
  <1>1. BlocksInv => SequenceUsedOnce
    BY DEF BlocksInv
  <1> QED
    BY <1>1, InitBlocks, NextBlocks, PTL DEF Spec

-----------------------------------------------------------------------------
(* Signatures and links of what is in blocks. *)

LEMMA PassesSigned ==
    ASSUME NEW tx \in Txs, NEW st \in States, Passes(st, tx, "deliver")
    PROVE  SignedByAll(tx)
  <1>1. /\ Len(tx.sigs) = Len(tx.body.signers)
        /\ \A i \in DOMAIN tx.sigs :
               /\ tx.sigs[i].by = tx.body.signers[i]
               /\ tx.sigs[i].over.body = tx.body
               /\ tx.sigs[i].over.signer = tx.body.signers[i]
               /\ Delegated(tx) => /\ tx.delegateSig.by = tx.delegate
                                   /\ tx.delegateSig.over.body = tx.body
                                   /\ tx.delegateSig.over.payer = tx.delegate
    <2>1. CASE tx.ext = "web3" /\ Eip712SigVerification(SetPubKey(st, tx), tx, "deliver")
      <3>1. Len(tx.sigs) = Len(tx.body.signers)
        BY <2>1 DEF Eip712SigVerification
      <3>2. ASSUME NEW i \in DOMAIN tx.sigs
            PROVE  /\ tx.sigs[i].by = tx.body.signers[i]
                   /\ tx.sigs[i].over.body = tx.body
                   /\ tx.sigs[i].over.signer = tx.body.signers[i]
                   /\ Delegated(tx) => /\ tx.delegateSig.by = tx.delegate
                                       /\ tx.delegateSig.over.body = tx.body
                                       /\ tx.delegateSig.over.payer = tx.delegate
        <4> DEFINE a == tx.body.signers[i]
                   n == SetPubKey(st, tx).seq[a]
                   doc == TypedData(tx, a, n)
        <4>1. VerifySignatureEIP712(tx, a, n, tx.sigs[i])
          BY <2>1 DEF Eip712SigVerification
        <4>2. /\ tx.sigs[i].by = a /\ tx.sigs[i].over = doc
              /\ Delegated(tx) => Recovered(tx.delegateSig, doc) = tx.delegate
          BY <4>1 DEF VerifySignatureEIP712
        <4>3. Delegated(tx) => tx.delegateSig.over = doc /\ tx.delegateSig.by = tx.delegate
          BY <4>2 DEF Recovered, Delegated
        <4>4. /\ doc.body = tx.body /\ doc.signer = a
              /\ Delegated(tx) => doc.payer = tx.delegate
          BY DEF TypedData
        <4> QED
          BY <4>2, <4>3, <4>4
      <3> QED
        BY <3>1, <3>2
    <2>2. CASE tx.ext = "none" /\ SigVerification(SetPubKey(st, tx), tx, "deliver")
      <3>1. ~Delegated(tx) /\ Len(tx.sigs) = Len(tx.body.signers)
        BY <2>2 DEF SigVerification, Delegated
      <3>2. ASSUME NEW i \in DOMAIN tx.sigs
            PROVE  /\ tx.sigs[i].by = tx.body.signers[i]
                   /\ tx.sigs[i].over.body = tx.body
                   /\ tx.sigs[i].over.signer = tx.body.signers[i]
        <4> DEFINE a == tx.body.signers[i]
                   doc == SignDoc(tx, a, SetPubKey(st, tx).seq[a])
        <4>1. tx.sigs[i].by = a /\ tx.sigs[i].over = doc
          BY <2>2 DEF SigVerification
        <4>2. doc.body = tx.body /\ doc.signer = a
          BY DEF SignDoc
        <4> QED
          BY <4>1, <4>2
      <3> QED
        BY <3>1, <3>2
    <2> QED
      BY <2>1, <2>2 DEF Passes
  <1>2. DOMAIN tx.sigs = DOMAIN tx.body.signers /\ 1 \in DOMAIN tx.sigs
    BY <1>1, TxAssumption
  <1>3. \A i \in DOMAIN tx.sigs : tx.sigs[i] \in Signatures(tx)
    BY DEF Signatures, ToSet
  <1>4. tx.delegateSig \in Signatures(tx)
    BY DEF Signatures
  <1>5. \A a \in Signers(tx) : \E g \in Signatures(tx) :
            g.by = a /\ g.over.body = tx.body /\ g.over.signer = a
    BY <1>1, <1>2, <1>3 DEF Signers, ToSet
  <1>6. \E g \in Signatures(tx) :
            /\ g.by = FeePayer(tx) /\ g.over.body = tx.body
            /\ Delegated(tx) => g.over.payer = FeePayer(tx)
    BY <1>1, <1>2, <1>3, <1>4 DEF FeePayer
  <1> QED
    BY <1>5, <1>6 DEF SignedByAll

LEMMA PassesLinked ==
    ASSUME NEW tx \in Txs, NEW st \in States, Passes(st, tx, "deliver"),
           SvmDecoratorEnabled
    PROVE  LinkedToSigner([tx |-> tx, links |-> st.links])
  <1>1. HasSvm(tx) => \A x \in tx.body.svm :
            \E l \in st.links : l[2] = x /\ l[1] \in Signers(tx)
    BY DEF Passes, SvmDecorator
  <1>2. \A l \in st.links : l = <<l[1], l[2]>>
    BY DEF States
  <1> QED
    BY <1>1, <1>2 DEF LinkedToSigner

\* What an appended element has, and all the earlier ones had, all have.
LEMMA AppendDomain ==
    ASSUME NEW S, NEW q \in Seq(S), NEW e
    PROVE  /\ DOMAIN Append(q, e) = DOMAIN q \cup {Len(q) + 1}
           /\ \A i \in DOMAIN q : Append(q, e)[i] = q[i]
           /\ Append(q, e)[Len(q) + 1] = e
  OBVIOUS

\* Whoever's sequence or money a transaction in a block takes has signed it.
THEOREM AnteAuthorised == Spec => []Authorised
  <1>1. Init => Authorised
    BY DEF Init, Authorised
  <1>2. BlocksInv /\ Authorised /\ [Next]_vars => Authorised'
    <2> SUFFICES ASSUME BlocksInv, Authorised, [Next]_vars PROVE Authorised'
      OBVIOUS
    <2>1. ASSUME NEW tx \in Txs, DeliverOk(tx) PROVE Authorised'
      <3>1. SignedByAll(tx)
        BY <2>1, PassesSigned DEF DeliverOk, BlocksInv, WorkingType
      <3>2. included' = Append(included, [tx |-> tx, links |-> working.links])
        BY <2>1 DEF DeliverOk
      <3> QED
        BY <3>1, <3>2, AppendDomain DEF Authorised, BlocksInv, WorkingType
    <2>2. CASE UNCHANGED included
      BY <2>2 DEF Authorised
    <2>3. ASSUME NEW tx \in Txs, CheckTx(tx) \/ DeliverFail(tx) PROVE Authorised'
      BY <2>2, <2>3 DEF CheckTx, DeliverFail
    <2>4. Commit \/ UNCHANGED vars => UNCHANGED included
      BY DEF Commit, vars
    <2> QED
      BY <2>1, <2>2, <2>3, <2>4 DEF Next
  <1> QED
    BY <1>1, <1>2, InitBlocks, NextBlocks, PTL DEF Spec

\* With the decorator enabled, an SVM address signs in a block only for the
\* account it is linked to.
THEOREM AnteSvmAuthorised ==
    ASSUME SvmDecoratorEnabled
    PROVE  Spec => []SvmAuthorised
  <1>1. Init => SvmAuthorised
    BY DEF Init, SvmAuthorised
  <1>2. BlocksInv /\ SvmAuthorised /\ [Next]_vars => SvmAuthorised'
    <2> SUFFICES ASSUME BlocksInv, SvmAuthorised, [Next]_vars PROVE SvmAuthorised'
      OBVIOUS
    <2>1. ASSUME NEW tx \in Txs, DeliverOk(tx) PROVE SvmAuthorised'
      <3>1. LinkedToSigner([tx |-> tx, links |-> working.links])
        BY <2>1, PassesLinked DEF DeliverOk, BlocksInv, WorkingType
      <3>2. included' = Append(included, [tx |-> tx, links |-> working.links])
        BY <2>1 DEF DeliverOk
      <3> QED
        BY <3>1, <3>2, AppendDomain DEF SvmAuthorised, BlocksInv, WorkingType
    <2>2. CASE UNCHANGED included
      BY <2>2 DEF SvmAuthorised
    <2>3. ASSUME NEW tx \in Txs, CheckTx(tx) \/ DeliverFail(tx) PROVE SvmAuthorised'
      BY <2>2, <2>3 DEF CheckTx, DeliverFail
    <2>4. Commit \/ UNCHANGED vars => UNCHANGED included
      BY DEF Commit, vars
    <2> QED
      BY <2>1, <2>2, <2>3, <2>4 DEF Next
  <1> QED
    BY <1>1, <1>2, InitBlocks, NextBlocks, PTL DEF Spec

-----------------------------------------------------------------------------
(* The mempool. *)

\* Induction over the natural numbers, for a set: the form that the recheck of
\* a mempool of any length needs.
LEMMA SetInduction ==
    ASSUME NEW T, 0 \in T, \A n \in Nat : n \in T => n + 1 \in T
    PROVE  Nat \subseteq T
  <1> DEFINE U == Nat \ T
             R == {p \in Nat \X Nat : p[1] < p[2]}
  <1>1. IsWellFoundedOn(R, Nat)
    BY NatLessThanWellFounded DEF OpToRel
  <1>2. ASSUME U # {} PROVE FALSE
    <2>1. PICK x \in U : \A y \in U : ~(<<y, x>> \in R)
      <3>1. U \subseteq Nat
        OBVIOUS
      <3> HIDE DEF U, R
      <3> QED
        BY <1>1, <1>2, <3>1, WFMin
    <2>2. x # 0 /\ x \in Nat
      OBVIOUS
    <2>3. x - 1 \in Nat /\ x - 1 < x /\ (x - 1) + 1 = x
      BY <2>2
    <2>4. <<x - 1, x>> \in R
      BY <2>2, <2>3
    <2>5. x - 1 \notin U
      BY <2>1, <2>4
    <2> QED
      BY <2>2, <2>3, <2>5
  <1> QED
    BY <1>2

\* The signatures of a plain transaction are in order for the sequences that
\* the transaction states. CheckTx finds this out once; recheck relies on it.
Verified(tx) ==
    tx.ext = "none" =>
        \A i \in DOMAIN tx.sigs :
            LET a == tx.body.signers[i]
                sig == tx.sigs[i]
            IN sig.form = "ok" /\ sig.by = a /\ sig.over = SignDoc(tx, a, sig.seq)

LEMMA CheckVerifies ==
    ASSUME NEW tx \in Txs, NEW st \in States, Passes(st, tx, "check")
    PROVE  Verified(tx)
  <1> SUFFICES ASSUME tx.ext = "none" PROVE Verified(tx)
    BY DEF Verified
  <1>1. SigVerification(SetPubKey(st, tx), tx, "check")
    BY DEF Passes
  <1> QED
    BY <1>1 DEF SigVerification, Verified

\* A plain transaction that passes when it is checked or rechecked would pass
\* in a block.
LEMMA WouldDeliver ==
    ASSUME NEW tx \in Txs, NEW st \in States, NEW mode \in {"check", "recheck"},
           Passes(st, tx, mode), Verified(tx), tx.ext = "none"
    PROVE  Passes(st, tx, "deliver")
  <1>1. SigVerification(SetPubKey(st, tx), tx, mode)
    BY DEF Passes
  <1>2. SigVerification(SetPubKey(st, tx), tx, "deliver")
    BY <1>1 DEF SigVerification, Verified
  <1> QED
    BY <1>2 DEF Passes

\* The transactions of q that a has signed.
Count(q, a) == Cardinality({i \in DOMAIN q : a \in Signers(q[i])})

LEMMA CountAppend ==
    ASSUME NEW q \in Seq(Txs), NEW tx \in Txs, NEW a
    PROVE  /\ Count(q, a) \in Nat
           /\ Count(Append(q, tx), a) = IF a \in Signers(tx) THEN Count(q, a) + 1 ELSE Count(q, a)
  <1> DEFINE A == {i \in DOMAIN q : a \in Signers(q[i])}
             B == {i \in DOMAIN Append(q, tx) : a \in Signers(Append(q, tx)[i])}
  <1>1. /\ DOMAIN Append(q, tx) = DOMAIN q \cup {Len(q) + 1}
        /\ \A i \in DOMAIN q : Append(q, tx)[i] = q[i]
        /\ Append(q, tx)[Len(q) + 1] = tx
    BY AppendDomain
  <1>2. DOMAIN q = 1..Len(q) /\ Len(q) \in Nat
    BY LenProperties
  <1>3. IsFiniteSet(A) /\ Len(q) + 1 \notin A
    <2>1. IsFiniteSet(1..Len(q))
      BY <1>2, FS_Interval
    <2>2. A \in SUBSET (1..Len(q))
      BY <1>2
    <2>3. Len(q) + 1 \notin 1..Len(q)
      BY <1>2
    <2> HIDE DEF A
    <2> QED
      BY <2>1, <2>2, <2>3, FS_Subset
  <1>4. B = IF a \in Signers(tx) THEN A \cup {Len(q) + 1} ELSE A
    <2> HIDE DEF Signers
    <2> QED
      BY <1>1, <1>2
  <1>5. Count(q, a) = Cardinality(A) /\ Count(Append(q, tx), a) = Cardinality(B)
    BY DEF Count
  <1> HIDE DEF A, B
  <1>6. Cardinality(A) \in Nat
    BY <1>3, FS_CardinalityType
  <1>7. Cardinality(A \cup {Len(q) + 1}) = Cardinality(A) + 1
    BY <1>3, FS_AddElement
  <1> QED
    BY <1>4, <1>5, <1>6, <1>7

\* Applying q one after the other leads from the state s to the state t, and
\* each plain transaction of q passes where its turn comes.
Executes(s, q, t) ==
    \E p \in [0..Len(q) -> States] :
        /\ p[0] = s /\ p[Len(q)] = t
        /\ \A i \in 1..Len(q) :
               /\ p[i] = After(p[i - 1], q[i])
               /\ q[i].ext = "none" => Passes(p[i - 1], q[i], "deliver")

LEMMA ExecutesAppend ==
    ASSUME NEW s, NEW t \in States, NEW q \in Seq(Txs), NEW tx \in Txs,
           Executes(s, q, t), After(t, tx) \in States,
           tx.ext = "none" => Passes(t, tx, "deliver")
    PROVE  Executes(s, Append(q, tx), After(t, tx))
  <1> DEFINE n == Len(q)
             q2 == Append(q, tx)
             t2 == After(t, tx)
  <1>1. PICK p \in [0..n -> States] :
            /\ p[0] = s /\ p[n] = t
            /\ \A i \in 1..n : /\ p[i] = After(p[i - 1], q[i])
                               /\ q[i].ext = "none" => Passes(p[i - 1], q[i], "deliver")
    BY DEF Executes
  <1>2. /\ n \in Nat /\ Len(q2) = n + 1 /\ q2[n + 1] = tx
        /\ \A i \in 1..n : q2[i] = q[i]
    BY LenProperties, AppendProperties
  <1> DEFINE p2 == [i \in 0..(n + 1) |-> IF i = n + 1 THEN t2 ELSE p[i]]
  <1>3. t2 \in States
    OBVIOUS
  <1> HIDE DEF n, q2, t2
  <1>4. /\ p2 \in [0..(n + 1) -> States] /\ p2[n + 1] = t2
        /\ \A i \in 0..n : p2[i] = p[i]
    BY <1>2, <1>3
  <1>5. p2[0] = s /\ p2[n] = t
    BY <1>1, <1>2, <1>4
  <1> HIDE DEF p2
  <1>6. ASSUME NEW i \in 1..(n + 1)
        PROVE  /\ p2[i] = After(p2[i - 1], q2[i])
               /\ q2[i].ext = "none" => Passes(p2[i - 1], q2[i], "deliver")
    <2>1. CASE i \in 1..n
      <3>1. p2[i] = p[i] /\ p2[i - 1] = p[i - 1] /\ q2[i] = q[i]
        BY <1>2, <1>4, <2>1
      <3> QED
        BY <1>1, <2>1, <3>1
    <2>2. CASE i = n + 1
      <3>1. p2[i] = t2 /\ p2[i - 1] = t /\ q2[i] = tx
        BY <1>2, <1>4, <1>5, <2>2
      <3> QED
        BY <3>1 DEF t2
    <2> QED
      BY <1>2, <2>1, <2>2
  <1>7. Executes(s, q2, t2)
    BY <1>2, <1>4, <1>5, <1>6 DEF Executes
  <1> QED
    BY <1>7 DEF q2, t2

\* q is a mempool over the state s, and t the check state that belongs to it.
Tracks(s, q, t) ==
    /\ q \in Seq(Txs) /\ t \in States
    /\ \A k \in DOMAIN q : Verified(q[k])
    /\ \A a \in Accounts : t.seq[a] = s.seq[a] + Count(q, a)
    /\ Executes(s, q, t)

LEMMA TracksEmpty ==
    ASSUME NEW s \in States
    PROVE  Tracks(s, <<>>, s)
  <1>1. /\ <<>> \in Seq(Txs) /\ Len(<<>>) = 0
        /\ DOMAIN <<>> = {}
    BY EmptySeq
  <1>2. \A a \in Accounts : Count(<<>>, a) = 0 /\ s.seq[a] \in Nat
    BY FS_EmptySet DEF Count, States
  <1>3. Executes(s, <<>>, s)
    <2> DEFINE p == [i \in 0..0 |-> s]
    <2>1. p \in [0..0 -> States] /\ p[0] = s
      OBVIOUS
    <2> HIDE DEF p
    <2> QED
      BY <1>1, <2>1 DEF Executes
  <1> QED
    BY <1>1, <1>2, <1>3 DEF Tracks

LEMMA TracksAppend ==
    ASSUME NEW s \in States, NEW q, NEW t, NEW tx \in Txs, NEW mode \in {"check", "recheck"},
           Tracks(s, q, t), Passes(t, tx, mode), Verified(tx)
    PROVE  Tracks(s, Append(q, tx), After(t, tx))
  <1>1. q \in Seq(Txs) /\ t \in States
    BY DEF Tracks
  <1>2. /\ After(t, tx) \in States
        /\ After(t, tx).seq = [a \in Accounts |-> IF a \in Signers(tx)
                                                  THEN t.seq[a] + 1 ELSE t.seq[a]]
    BY <1>1, AfterState DEF Passes
  <1>3. Append(q, tx) \in Seq(Txs) /\ \A k \in DOMAIN Append(q, tx) : Verified(Append(q, tx)[k])
    <2>1. Append(q, tx) \in Seq(Txs)
      BY <1>1, AppendProperties
    <2> QED
      BY <1>1, <2>1, AppendDomain DEF Tracks
  <1>4. ASSUME NEW a \in Accounts
        PROVE  After(t, tx).seq[a] = s.seq[a] + Count(Append(q, tx), a)
    <2>1. s.seq[a] \in Nat /\ t.seq[a] = s.seq[a] + Count(q, a)
      BY DEF States, Tracks
    <2>2. /\ Count(q, a) \in Nat
          /\ Count(Append(q, tx), a) = IF a \in Signers(tx) THEN Count(q, a) + 1 ELSE Count(q, a)
      BY <1>1, CountAppend
    <2>3. After(t, tx).seq[a] = IF a \in Signers(tx) THEN t.seq[a] + 1 ELSE t.seq[a]
      BY <1>2
    <2> QED
      BY <2>1, <2>2, <2>3
  <1>5. Executes(s, Append(q, tx), After(t, tx))
    <2>1. tx.ext = "none" => Passes(t, tx, "deliver")
      BY <1>1, WouldDeliver
    <2> QED
      BY <1>1, <1>2, <2>1, ExecutesAppend DEF Tracks
  <1> QED
    BY <1>2, <1>3, <1>4, <1>5 DEF Tracks

-----------------------------------------------------------------------------
(* The recheck after a commit. *)

\* g is the recheck of the first n transactions of the mempool.
IsRecheck(g, n) ==
    g = [i \in 0..n |-> IF i = 0 THEN [st |-> working, kept |-> <<>>]
                                 ELSE Recheck(g[i - 1], pool[i])]

LEMMA RecheckExists == \A n \in Nat : \E g : IsRecheck(g, n)
  <1> DEFINE T == {n \in Nat : \E g : IsRecheck(g, n)}
             first == [st |-> working, kept |-> <<>>]
  <1> HIDE DEF Recheck
  <1>1. 0 \in T
    <2> DEFINE g == [i \in 0..0 |-> first]
    <2>1. g = [i \in 0..0 |-> IF i = 0 THEN first ELSE Recheck(g[i - 1], pool[i])]
      OBVIOUS
    <2> HIDE DEF g
    <2>2. IsRecheck(g, 0)
      BY <2>1 DEF IsRecheck
    <2> QED
      BY <2>2
  <1>2. ASSUME NEW n \in Nat, n \in T PROVE n + 1 \in T
    <2>1. PICK g : IsRecheck(g, n)
      BY <1>2
    <2> DEFINE h == [i \in 0..(n + 1) |-> IF i = n + 1 THEN Recheck(g[n], pool[n + 1]) ELSE g[i]]
    <2>2. \A i \in 0..n : g[i] = IF i = 0 THEN first ELSE Recheck(g[i - 1], pool[i])
      BY <2>1 DEF IsRecheck
    <2>3. /\ h[n + 1] = Recheck(g[n], pool[n + 1]) /\ DOMAIN h = 0..(n + 1)
          /\ \A i \in 0..n : h[i] = g[i]
          /\ h = [i \in 0..(n + 1) |-> h[i]]
      OBVIOUS
    <2> HIDE DEF h, first
    <2>4. ASSUME NEW i \in 0..(n + 1)
          PROVE  h[i] = IF i = 0 THEN first ELSE Recheck(h[i - 1], pool[i])
      <3>1. CASE i = n + 1
        <4>1. i # 0 /\ i - 1 = n /\ n \in 0..n
          BY <3>1
        <4>2. h[i - 1] = g[n]
          BY <2>3, <4>1
        <4> QED
          BY <2>3, <3>1, <4>1, <4>2
      <3>2. CASE i \in 1..n
        <4>1. i \in 0..n /\ i - 1 \in 0..n /\ i # 0
          BY <3>2
        <4>2. h[i] = g[i] /\ h[i - 1] = g[i - 1]
          BY <2>3, <4>1
        <4> QED
          BY <2>2, <4>1, <4>2
      <3>3. CASE i = 0
        BY <2>2, <2>3, <3>3
      <3> QED
        BY <3>1, <3>2, <3>3
    <2>5. h = [i \in 0..(n + 1) |-> IF i = 0 THEN first ELSE Recheck(h[i - 1], pool[i])]
      BY <2>3, <2>4
    <2>6. IsRecheck(h, n + 1)
      BY <2>5 DEF IsRecheck, first
    <2> QED
      BY <2>6
  <1> HIDE DEF T
  <1>3. Nat \subseteq T
    BY <1>1, <1>2, SetInduction
  <1> QED
    BY <1>3 DEF T

\* What Rechecked computes, step by step.
LEMMA RecheckedSteps ==
    ASSUME Len(pool) \in Nat
    PROVE  \E g : /\ g[0] = [st |-> working, kept |-> <<>>]
                  /\ \A i \in 1..Len(pool) : g[i] = Recheck(g[i - 1], pool[i])
                  /\ Rechecked = g[Len(pool)]
  <1> HIDE DEF Recheck
  <1> DEFINE n == Len(pool)
             first == [st |-> working, kept |-> <<>>]
             h == CHOOSE g : g = [i \in 0..n |-> IF i = 0 THEN first
                                                 ELSE Recheck(g[i - 1], pool[i])]
  <1>1. Rechecked = h[n]
    BY DEF Rechecked
  <1>2. h = [i \in 0..n |-> IF i = 0 THEN first ELSE Recheck(h[i - 1], pool[i])]
    BY RecheckExists DEF IsRecheck
  <1> HIDE DEF h, first
  <1>3. h[0] = first /\ \A i \in 1..n : h[i] = Recheck(h[i - 1], pool[i])
    BY <1>2
  <1> QED
    BY <1>1, <1>3 DEF first

LEMMA RecheckTracks ==
    ASSUME TypeOK, \A k \in DOMAIN pool : Verified(pool[k])
    PROVE  /\ Tracks(working, Rechecked.kept, Rechecked.st)
           /\ Len(Rechecked.kept) <= Len(pool)
  <1> DEFINE n == Len(pool)
  <1>1. /\ n \in Nat /\ working \in States /\ DOMAIN pool = 1..n
        /\ \A i \in 1..n : pool[i] \in Txs /\ Verified(pool[i])
    BY LenProperties, ElementOfSeq DEF TypeOK
  <1>2. PICK g : /\ g[0] = [st |-> working, kept |-> <<>>]
                 /\ \A i \in 1..n : g[i] = Recheck(g[i - 1], pool[i])
                 /\ Rechecked = g[n]
    BY <1>1, RecheckedSteps
  <1> DEFINE Good(i) == Tracks(working, g[i].kept, g[i].st) /\ Len(g[i].kept) <= i
             T == {i \in Nat : i <= n => Good(i)}
  <1>3. 0 \in T
    <2>1. Tracks(working, <<>>, working) /\ Len(<<>>) = 0
      BY <1>1, TracksEmpty, EmptySeq
    <2>2. g[0].kept = <<>> /\ g[0].st = working
      BY <1>2
    <2> HIDE DEF Tracks
    <2> QED
      BY <2>1, <2>2
  <1>4. ASSUME NEW i \in Nat, i \in T PROVE i + 1 \in T
    <2> SUFFICES ASSUME i + 1 <= n PROVE Good(i + 1)
      OBVIOUS
    <2>1. Tracks(working, g[i].kept, g[i].st) /\ Len(g[i].kept) <= i
      BY <1>1, <1>4
    <2>2. i + 1 \in 1..n /\ (i + 1) - 1 = i
      BY <1>1
    <2> DEFINE tx == pool[i + 1]
    <2>3. g[i + 1] = Recheck(g[i], tx) /\ tx \in Txs /\ Verified(tx)
      BY <1>1, <1>2, <2>2
    <2>4. g[i].kept \in Seq(Txs) /\ Len(g[i].kept) \in Nat
      BY <2>1, LenProperties DEF Tracks
    <2> HIDE DEF tx, Tracks, Verified
    <2>5. CASE ~Contains(block, tx) /\ Passes(g[i].st, tx, "recheck")
      <3>1. g[i + 1] = [st |-> After(g[i].st, tx), kept |-> Append(g[i].kept, tx)]
        BY <2>3, <2>5 DEF Recheck
      <3>2. g[i + 1].st = After(g[i].st, tx) /\ g[i + 1].kept = Append(g[i].kept, tx)
        BY <3>1
      <3>3. Tracks(working, Append(g[i].kept, tx), After(g[i].st, tx))
        BY <1>1, <2>1, <2>3, <2>5, TracksAppend
      <3>4. Len(Append(g[i].kept, tx)) = Len(g[i].kept) + 1
        BY <2>3, <2>4, AppendProperties
      <3> QED
        BY <2>1, <2>4, <3>2, <3>3, <3>4
    <2>6. CASE ~(~Contains(block, tx) /\ Passes(g[i].st, tx, "recheck"))
      <3>1. g[i + 1] = g[i]
        BY <2>3, <2>6 DEF Recheck
      <3> QED
        BY <2>1, <2>4, <3>1
    <2> QED
      BY <2>5, <2>6
  <1>5. Nat \subseteq T
    <2> HIDE DEF T
    <2> QED
      BY <1>3, <1>4, SetInduction
  <1>6. Good(n)
    BY <1>1, <1>5
  <1> QED
    BY <1>2, <1>6

-----------------------------------------------------------------------------
(* The invariants of the node. *)

PoolInv == TypeOK /\ Tracks(committed, pool, check)

Entries == [tx : Txs, links : SUBSET (Accounts \X SvmAddrs)]

LEMMA InitPool == Init => PoolInv
  <1> SUFFICES ASSUME Init PROVE PoolInv
    OBVIOUS
  <1>1. Genesis \in States
    BY ConfigAssumption DEF Genesis, States
  <1>2. /\ pool \in Seq(Txs) /\ Len(pool) = 0 /\ block \in Seq(Txs) /\ Len(block) = 0
        /\ included \in Seq(Entries)
    BY EmptySeq DEF Init
  <1>3. TypeOK
    BY <1>1, <1>2, ConfigAssumption DEF Init, TypeOK, Entries
  <1> QED
    BY <1>1, <1>3, TracksEmpty DEF Init, PoolInv

LEMMA CheckTxPool ==
    ASSUME PoolInv, NEW tx \in Txs, CheckTx(tx)
    PROVE  PoolInv'
  <1>1. /\ Passes(check, tx, "check") /\ Len(pool) < MaxPool
        /\ check' = After(check, tx) /\ pool' = Append(pool, tx)
        /\ UNCHANGED <<committed, working, block, included>>
    BY DEF CheckTx
  <1>2. check \in States /\ committed \in States /\ pool \in Seq(Txs)
    BY DEF PoolInv, TypeOK
  <1>3. Tracks(committed, pool', check')
    <2>1. Verified(tx)
      BY <1>1, <1>2, CheckVerifies
    <2>2. Tracks(committed, Append(pool, tx), After(check, tx))
      BY <1>1, <1>2, <2>1, TracksAppend DEF PoolInv
    <2> QED
      BY <1>1, <2>2
  <1>4. pool' \in Seq(Txs) /\ check' \in States
    BY <1>3 DEF Tracks
  <1>5. Len(pool') <= MaxPool
    <2>1. Len(pool') = Len(pool) + 1 /\ Len(pool) \in Nat
      BY <1>1, <1>2, AppendProperties, LenProperties
    <2> QED
      BY <1>1, <2>1, ConfigAssumption
  <1>6. TypeOK'
    BY <1>1, <1>4, <1>5 DEF PoolInv, TypeOK, States
  <1>7. Tracks(committed', pool', check')
    BY <1>1, <1>3
  <1> QED
    BY <1>6, <1>7 DEF PoolInv

LEMMA DeliverPool ==
    ASSUME PoolInv, NEW tx \in Txs, DeliverOk(tx) \/ DeliverFail(tx)
    PROVE  PoolInv'
  <1>1. /\ UNCHANGED <<committed, check, pool>>
        /\ Len(block) < MaxBlock /\ block' = Append(block, tx)
    BY DEF DeliverOk, DeliverFail
  <1>2. block \in Seq(Txs) /\ working \in States /\ included \in Seq(Entries)
    BY DEF PoolInv, TypeOK, Entries
  <1>3. block' \in Seq(Txs) /\ Len(block') <= MaxBlock
    <2>1. block' \in Seq(Txs) /\ Len(block') = Len(block) + 1 /\ Len(block) \in Nat
      BY <1>1, <1>2, AppendProperties, LenProperties
    <2> QED
      BY <1>1, <2>1, ConfigAssumption
  <1>4. working' \in States /\ included' \in Seq(Entries)
    <2>1. CASE DeliverFail(tx)
      BY <1>2, <2>1 DEF DeliverFail
    <2>2. CASE DeliverOk(tx)
      <3> DEFINE new == [tx |-> tx, links |-> working.links]
      <3>1. /\ Passes(working, tx, "deliver") /\ working' = Execute(After(working, tx), tx)
            /\ included' = Append(included, new)
        BY <2>2 DEF DeliverOk
      <3>2. After(working, tx) \in States
        BY <1>2, <3>1, AfterState DEF Passes
      <3>3. working' \in States
        BY <3>1, <3>2, ExecuteState
      <3>4. new \in Entries
        BY <1>2 DEF States, Entries
      <3> HIDE DEF new
      <3>5. included' \in Seq(Entries)
        BY <1>2, <3>1, <3>4, AppendProperties
      <3> QED
        BY <3>3, <3>5
    <2> QED
      BY <2>1, <2>2
  <1>5. TypeOK'
    BY <1>1, <1>3, <1>4 DEF PoolInv, TypeOK, Entries
  <1>6. Tracks(committed', pool', check')
    BY <1>1 DEF PoolInv
  <1> QED
    BY <1>5, <1>6 DEF PoolInv

LEMMA CommitPool ==
    ASSUME PoolInv, Commit
    PROVE  PoolInv'
  <1>1. /\ committed' = working /\ check' = Rechecked.st /\ pool' = Rechecked.kept
        /\ block' = <<>> /\ UNCHANGED <<working, included>>
    BY DEF Commit
  <1>2. /\ Tracks(working, Rechecked.kept, Rechecked.st)
        /\ Len(Rechecked.kept) <= Len(pool)
    BY RecheckTracks DEF PoolInv, Tracks
  <1>3. pool' \in Seq(Txs) /\ check' \in States /\ Len(pool') <= Len(pool)
    BY <1>1, <1>2 DEF Tracks
  <1>4. Len(pool') <= MaxPool /\ block' \in Seq(Txs) /\ Len(block') <= MaxBlock
    <2>1. Len(pool) \in Nat /\ Len(pool') \in Nat /\ Len(pool) <= MaxPool
      BY <1>3, LenProperties DEF PoolInv, TypeOK
    <2> QED
      BY <1>1, <1>3, <2>1, ConfigAssumption, EmptySeq
  <1>5. TypeOK'
    BY <1>1, <1>3, <1>4 DEF PoolInv, TypeOK
  <1>6. Tracks(committed', pool', check')
    BY <1>1, <1>2
  <1> QED
    BY <1>5, <1>6 DEF PoolInv

LEMMA NextPool == PoolInv /\ [Next]_vars => PoolInv'
  <1> SUFFICES ASSUME PoolInv, [Next]_vars PROVE PoolInv'
    OBVIOUS
  <1>1. CASE UNCHANGED vars
    <2>1. UNCHANGED <<committed, working, check, pool, block, included>>
      BY <1>1 DEF vars
    <2>2. TypeOK'
      BY <2>1 DEF PoolInv, TypeOK
    <2>3. Tracks(committed', pool', check')
      BY <2>1 DEF PoolInv
    <2> QED
      BY <2>2, <2>3 DEF PoolInv
  <1> QED
    BY <1>1, CheckTxPool, DeliverPool, CommitPool DEF Next

\* Every variable keeps its type: no balance is overdrawn, not by the recheck
\* either, and the mempool keeps its bound.
THEOREM AnteTypeCorrect == Spec => []TypeOK
  <1>1. PoolInv => TypeOK
    BY DEF PoolInv
  <1> QED
    BY <1>1, InitPool, NextPool, PTL DEF Spec

\* The sequence that CheckTx and Simulate ask for is the committed one plus
\* the account's transactions in the mempool, through any number of blocks,
\* rechecks and refusals: what the signing client's nonce protocol relies on.
THEOREM AnteCheckTracksPool == Spec => []CheckTracksPool
  <1>1. PoolInv => CheckTracksPool
    BY DEF PoolInv, Tracks, CheckTracksPool, PendingOf, Count
  <1> QED
    BY <1>1, InitPool, NextPool, PTL DEF Spec

LEMMA TracksExecutable == PoolInv => PoolExecutable
  <1> SUFFICES ASSUME PoolInv, \A i \in DOMAIN pool : pool[i].ext = "none",
                      NEW k \in DOMAIN pool
               PROVE  Passes(PoolStates[k - 1], pool[k], "deliver")
    BY DEF PoolExecutable
  <1> DEFINE n == Len(pool)
  <1>1. n \in Nat /\ DOMAIN pool = 1..n
    BY LenProperties DEF PoolInv, TypeOK
  <1>2. PICK p \in [0..n -> States] :
            /\ p[0] = committed
            /\ \A i \in 1..n : /\ p[i] = After(p[i - 1], pool[i])
                               /\ pool[i].ext = "none" => Passes(p[i - 1], pool[i], "deliver")
    BY DEF PoolInv, Tracks, Executes
  <1> HIDE DEF n
  <1> DEFINE Is(g) == g = [i \in 0..n |-> IF i = 0 THEN committed ELSE After(g[i - 1], pool[i])]
             h == CHOOSE g : Is(g)
  <1>3. Is(p)
    <2>1. ASSUME NEW i \in 0..n
          PROVE  p[i] = IF i = 0 THEN committed ELSE After(p[i - 1], pool[i])
      BY <1>1, <1>2
    <2>2. p = [i \in 0..n |-> p[i]]
      BY <1>2
    <2> QED
      BY <2>1, <2>2
  <1>4. PoolStates = h
    BY DEF PoolStates, n
  <1>5. Is(h)
    <2> HIDE DEF Is
    <2> QED
      BY <1>3
  <1>6. h[0] = committed /\ \A i \in 1..n : h[i] = After(h[i - 1], pool[i])
    <2> HIDE DEF h
    <2> QED
      BY <1>1, <1>5
  <1> HIDE DEF h, Is
  <1> DEFINE T == {i \in Nat : i <= n => h[i] = p[i]}
  <1>7. 0 \in T
    BY <1>2, <1>6
  <1>8. ASSUME NEW i \in Nat, i \in T PROVE i + 1 \in T
    <2> SUFFICES ASSUME i + 1 <= n PROVE h[i + 1] = p[i + 1]
      OBVIOUS
    <2>1. i + 1 \in 1..n /\ (i + 1) - 1 = i /\ i <= n
      BY <1>1
    <2>2. h[i] = p[i]
      BY <1>8, <2>1
    <2>3. h[i + 1] = After(h[i], pool[i + 1]) /\ p[i + 1] = After(p[i], pool[i + 1])
      BY <1>2, <1>6, <2>1
    <2> QED
      BY <2>2, <2>3
  <1>9. Nat \subseteq T
    <2> HIDE DEF T
    <2> QED
      BY <1>7, <1>8, SetInduction
  <1>10. k \in 1..n /\ k - 1 \in Nat /\ k - 1 <= n
    BY <1>1
  <1>11. h[k - 1] = p[k - 1]
    BY <1>9, <1>10
  <1> QED
    BY <1>1, <1>2, <1>4, <1>10, <1>11

\* A mempool of plain Cosmos transactions could be delivered as it stands,
\* whatever blocks came in between and although recheck skips the signatures.
THEOREM AntePoolExecutable == Spec => []PoolExecutable
  BY TracksExecutable, InitPool, NextPool, PTL DEF Spec

\* For a transaction that everybody has signed, simulating and checking agree
\* in every state.
LEMMA SimulateAgrees ==
    ASSUME NEW tx \in Txs, NEW st \in States, WellSigned(tx)
    PROVE  Passes(st, tx, "simulate") <=> Passes(st, tx, "check")
  <1> DEFINE s2 == SetPubKey(st, tx)
  <1>1. s2.seq = st.seq /\ s2.keys = st.keys \cup tx.pub
    BY DEF SetPubKey, States
  <1>2. /\ Len(tx.sigs) = Len(tx.body.signers)
        /\ \A i \in DOMAIN tx.sigs : tx.body.signers[i] \in s2.keys
    <2>1. Len(tx.sigs) = Len(tx.body.signers) /\ Signers(tx) \subseteq tx.pub
      BY DEF WellSigned
    <2>2. DOMAIN tx.sigs = DOMAIN tx.body.signers
      BY <2>1, TxAssumption
    <2> QED
      BY <1>1, <2>1, <2>2 DEF Signers, ToSet
  <1> HIDE DEF s2
  <1>3. ASSUME tx.ext = "web3"
        PROVE  Eip712SigVerification(s2, tx, "simulate") <=> Eip712SigVerification(s2, tx, "check")
    <2>1. \A i \in DOMAIN tx.sigs :
              VerifySignatureEIP712(tx, tx.body.signers[i], tx.sigs[i].seq, tx.sigs[i])
      BY <1>3 DEF WellSigned
    <2> QED
      BY <1>2, <2>1 DEF Eip712SigVerification
  <1>4. ASSUME tx.ext = "none"
        PROVE  SigVerification(s2, tx, "simulate") <=> SigVerification(s2, tx, "check")
    <2>1. \A i \in DOMAIN tx.sigs :
              /\ tx.sigs[i].by = tx.body.signers[i] /\ tx.sigs[i].form = "ok"
              /\ tx.sigs[i].over = SignDoc(tx, tx.body.signers[i], tx.sigs[i].seq)
      BY <1>4 DEF WellSigned
    <2> QED
      BY <1>2, <2>1 DEF SigVerification
  <1> QED
    BY <1>3, <1>4 DEF Passes, s2

\* Simulate is a reliable oracle for a client that signs properly: in every
\* reachable state it takes a transaction exactly when CheckTx would.
THEOREM AnteSimulateMatchesCheck == Spec => []SimulateMatchesCheck
  <1>1. TypeOK => SimulateMatchesCheck
    BY SimulateAgrees DEF TypeOK, SimulateMatchesCheck
  <1> QED
    BY <1>1, AnteTypeCorrect, PTL
=============================================================================
