---------------------------- MODULE AnteHandler -----------------------------
(***************************************************************************)
(* The ante handler of the chain (chain/app/ante, chain/modules/svm/ante)  *)
(* inside the node that runs it: which transactions pass NewAnteHandler's  *)
(* two decorator chains when they are checked, rechecked, delivered or     *)
(* simulated, and what passing does to sequences, balances and public keys.*)
(*                                                                         *)
(* Signatures are symbolic: a signature names its key and the document it  *)
(* is over, and verifies for no other. The node around the ante handler    *)
(* (three copies of the state, the mempool, recheck after a commit) and the*)
(* decorators that come from other repositories are external.              *)
(***************************************************************************)
EXTENDS Integers, SequencesExt

CONSTANTS Accounts,             \* accounts that exist
          SvmAddrs,             \* public keys on the SVM side
          Txs,                  \* the transactions that may be submitted
          Funds,                \* initial balance of each account
          NumericChainID,       \* the node's chain id is a decimal number
          SvmDecoratorEnabled,
          MaxPool,              \* bound: mempool size
          MaxBlock              \* bound: transactions in a block

NoOne == "no one"   \* no fee payer in ExtensionOptionsWeb3Tx
NoSig == [by |-> NoOne]

(***************************************************************************)
(* A transaction is a record:                                              *)
(*   body        what every signer signs: id, signers, fee, messages (msgs,*)
(*               a sequence of "plain", "link" and "svm") and svm, the SVM *)
(*               addresses that sign instructions or are to be linked      *)
(*   sigs        one signature per signer: the sequence in SignerInfo, form*)
(*               ("ok", or a wrong sign mode or length), by and over       *)
(*   pub         the signers whose public key the transaction carries      *)
(*   ext         its first extension option: "none", "web3" or "other"     *)
(*   typedChain  TypedDataChainID,  delegate  FeePayer,  delegateSig       *)
(*               FeePayerSig of ExtensionOptionsWeb3Tx                     *)
(***************************************************************************)
ASSUME TxAssumption ==
    \A tx \in Txs : /\ tx.body.signers \in Seq(Accounts) /\ tx.body.signers # <<>>
                    /\ tx.body.fee \in Nat /\ tx.body.svm \subseteq SvmAddrs
                    /\ tx.pub \subseteq Accounts
                    /\ DOMAIN tx.sigs = 1..Len(tx.sigs)
ASSUME ConfigAssumption ==
    /\ NumericChainID \in BOOLEAN /\ SvmDecoratorEnabled \in BOOLEAN
    /\ Funds \in Nat /\ MaxPool \in Nat /\ MaxBlock \in Nat

Signers(tx) == ToSet(tx.body.signers)

VARIABLES committed,  \* the state after the last block
          working,    \* the state of the block being executed
          check,      \* the state CheckTx works on
          pool,       \* the mempool, oldest first
          block,      \* the transactions of the block so far
          included    \* history: transactions that passed in a block, with the
                      \* links there were when they did

vars == <<committed, working, check, pool, block, included>>

Genesis == [seq |-> [a \in Accounts |-> 0], bal |-> [a \in Accounts |-> Funds],
            fees |-> 0, keys |-> {}, links |-> {}]

Init ==
    /\ committed = Genesis /\ working = Genesis /\ check = Genesis
    /\ pool = <<>> /\ block = <<>> /\ included = <<>>

-----------------------------------------------------------------------------
(* Fees *)

Delegated(tx) == tx.ext = "web3" /\ tx.delegate # NoOne

\* The payer named in the extension option, or else the first signer.
FeePayer(tx) == IF Delegated(tx) THEN tx.delegate ELSE tx.body.signers[1]

\* Mutant of CanDeductFee: the error of the transfer is not returned.
CanDeductIgnored(st, tx) == FeePayer(tx) \in Accounts

\* A payer without an account is refused, also when the fee is zero.
CanDeductFee(st, tx) ==
    /\ FeePayer(tx) \in Accounts
    /\ tx.body.fee = 0 \/ st.bal[FeePayer(tx)] >= tx.body.fee

-----------------------------------------------------------------------------
(* Signatures *)

ChainNumber == 2

\* Metamask may sign for chain 1 or 5; any other number counts as not given.
TypedChainID(tx) == IF tx.typedChain \in {1, 5} THEN tx.typedChain ELSE ChainNumber

\* The document whose EIP-712 hash the signer, and a delegated payer, sign.
TypedData(tx, a, n) ==
    [kind |-> "typed", body |-> tx.body, signer |-> a, seq |-> n,
     chain |-> TypedChainID(tx), payer |-> IF Delegated(tx) THEN tx.delegate ELSE NoOne]

\* What a plain Cosmos signature is over.
SignDoc(tx, a, n) ==
    [kind |-> "direct", body |-> tx.body, signer |-> a, seq |-> n,
     chain |-> ChainNumber, payer |-> NoOne]

\* Recovering from another document gives a key that is nobody's.
Recovered(sig, doc) == IF sig.over = doc THEN sig.by ELSE NoOne

\* Typed data with a list of strings or with bytes in it has no hash, and SVM and
\* link messages always have one or the other (module TypedData). The plain
\* messages of the model are alike and have no such fields.
Hashable(tx) == \A m \in ToSet(tx.body.msgs) : m = "plain"

\* Mutant of VerifySignatureEIP712: the delegated payer's signature is not checked.
VerifySignerOnly(tx, a, n, sig) ==
    /\ sig.form = "ok" /\ Hashable(tx)
    /\ tx.typedChain \in {1, 5} \/ NumericChainID
    /\ sig.by = a /\ sig.over = TypedData(tx, a, n)

VerifySignatureEIP712(tx, a, n, sig) ==
    /\ sig.form = "ok"
    /\ Delegated(tx) => tx.delegateSig # NoSig
    /\ tx.typedChain \in {1, 5} \/ NumericChainID
    /\ Hashable(tx)
    /\ LET doc == TypedData(tx, a, n)
       IN /\ Delegated(tx) => Recovered(tx.delegateSig, doc) = tx.delegate
          /\ sig.by = a /\ sig.over = doc

\* Mutant of Eip712SigVerification: the sequence is not compared.
Eip712AnySequence(st, tx, mode) ==
    \/ mode = "recheck"
    \/ /\ Len(tx.sigs) = Len(tx.body.signers)
       /\ \A i \in DOMAIN tx.sigs :
              LET a == tx.body.signers[i]
                  sig == tx.sigs[i]
              IN mode # "simulate" =>
                     a \in st.keys /\ VerifySignatureEIP712(tx, a, sig.seq, sig)

\* Mutant of Eip712SigVerification: a simulation is let through.
Eip712SkipsSimulation(st, tx, mode) ==
    \/ mode \in {"recheck", "simulate"}
    \/ /\ Len(tx.sigs) = Len(tx.body.signers)
       /\ \A i \in DOMAIN tx.sigs :
              LET a == tx.body.signers[i]
              IN /\ a \in st.keys /\ tx.sigs[i].seq = st.seq[a]
                 /\ VerifySignatureEIP712(tx, a, st.seq[a], tx.sigs[i])

\* Eip712SigVerificationDecorator; the public keys of the transaction are on
\* the accounts already. It does nothing on recheck.
Eip712SigVerification(st, tx, mode) ==
    \/ mode = "recheck"
    \/ /\ Len(tx.sigs) = Len(tx.body.signers)
       /\ \A i \in DOMAIN tx.sigs :
              LET a == tx.body.signers[i]
                  sig == tx.sigs[i]
              IN /\ mode # "simulate" => a \in st.keys
                 /\ sig.seq = st.seq[a]
                 /\ mode # "simulate" => VerifySignatureEIP712(tx, a, st.seq[a], sig)

\* The decorator of the Cosmos SDK compares sequences on recheck too and skips
\* only the cryptography.
SigVerification(st, tx, mode) ==
    /\ Len(tx.sigs) = Len(tx.body.signers)
    /\ \A i \in DOMAIN tx.sigs :
           LET a == tx.body.signers[i]
               sig == tx.sigs[i]
           IN /\ mode # "simulate" => a \in st.keys
              /\ sig.seq = st.seq[a]
              /\ mode \in {"check", "deliver"} =>
                     sig.form = "ok" /\ sig.by = a /\ sig.over = SignDoc(tx, a, st.seq[a])

-----------------------------------------------------------------------------
(* SVM transactions *)

HasSvm(tx) == Contains(tx.body.msgs, "svm")

\* Mutant of SvmDecorator: any link will do.
SvmAnyLink(st, tx) ==
    SvmDecoratorEnabled /\ HasSvm(tx) =>
        /\ Len(tx.body.msgs) = 1
        /\ \A x \in tx.body.svm : \E l \in st.links : l[2] = x

\* An SVM message is alone in its transaction, its signers are linked, and
\* every account that signs an instruction is linked to one of them.
SvmDecorator(st, tx) ==
    SvmDecoratorEnabled /\ HasSvm(tx) =>
        /\ Len(tx.body.msgs) = 1
        /\ \A a \in Signers(tx) : \E l \in st.links : l[1] = a
        /\ \A x \in tx.body.svm : \E l \in st.links : l[2] = x /\ l[1] \in Signers(tx)

-----------------------------------------------------------------------------
(* NewAnteHandler *)

\* SetPubKeyDecorator.
SetPubKey(st, tx) == [st EXCEPT !.keys = @ \cup tx.pub]

\* Mutant of Passes: nothing is looked at on recheck.
PassesRecheck(st, tx, mode) ==
    \/ mode = "recheck"
    \/ /\ \/ tx.ext = "web3" /\ Eip712SigVerification(SetPubKey(st, tx), tx, mode)
          \/ tx.ext = "none" /\ SigVerification(SetPubKey(st, tx), tx, mode)
       /\ CanDeductFee(st, tx)
       /\ SvmDecorator(st, tx)

\* Either chain of decorators; an extension option it does not know is refused.
Passes(st, tx, mode) ==
    /\ \/ tx.ext = "web3" /\ Eip712SigVerification(SetPubKey(st, tx), tx, mode)
       \/ tx.ext = "none" /\ SigVerification(SetPubKey(st, tx), tx, mode)
    /\ CanDeductFee(st, tx)
    /\ SvmDecorator(st, tx)

\* Mutant of After: the web3 chain lacks IncrementSequenceDecorator.
AfterNoIncrement(st, tx) ==
    [SetPubKey(st, tx) EXCEPT
        !.bal[FeePayer(tx)] = @ - tx.body.fee,
        !.fees = @ + tx.body.fee,
        !.seq = [a \in Accounts |->
                    IF a \in Signers(tx) /\ tx.ext = "none" THEN @[a] + 1 ELSE @[a]]]

\* What is left behind by a transaction that passes: keys, fee, sequences.
After(st, tx) ==
    [SetPubKey(st, tx) EXCEPT
        !.bal[FeePayer(tx)] = @ - tx.body.fee,
        !.fees = @ + tx.body.fee,
        !.seq = [a \in Accounts |-> IF a \in Signers(tx) THEN @[a] + 1 ELSE @[a]]]

-----------------------------------------------------------------------------
(* The node *)

\* The message handlers, as far as the ante handler sees their effect: the
\* first signer is linked to an address unless one of the two already is.
Execute(st, tx) ==
    LET new == Signers(tx) \X tx.body.svm
    IN IF Contains(tx.body.msgs, "link")
          /\ \A l \in st.links, k \in new : l[1] # k[1] /\ l[2] # k[2]
       THEN [st EXCEPT !.links = @ \cup new] ELSE st

CheckTx(tx) ==
    /\ Len(pool) < MaxPool /\ ~Contains(pool, tx)
    /\ Passes(check, tx, "check")
    /\ check' = After(check, tx)
    /\ pool' = Append(pool, tx)
    /\ UNCHANGED <<committed, working, block, included>>

DeliverOk(tx) ==
    /\ Len(block) < MaxBlock
    /\ Passes(working, tx, "deliver")
    /\ working' = Execute(After(working, tx), tx)
    /\ block' = Append(block, tx)
    /\ included' = Append(included, [tx |-> tx, links |-> working.links])
    /\ UNCHANGED <<committed, check, pool>>

DeliverFail(tx) ==
    /\ Len(block) < MaxBlock
    /\ ~Passes(working, tx, "deliver")
    /\ block' = Append(block, tx)
    /\ UNCHANGED <<committed, working, check, pool, included>>

\* The check state starts over from the new block, and what the block left in
\* the mempool has to pass again, one after the other.
Recheck(acc, tx) ==
    IF ~Contains(block, tx) /\ Passes(acc.st, tx, "recheck")
    THEN [st |-> After(acc.st, tx), kept |-> Append(acc.kept, tx)]
    ELSE acc

Rechecked ==
    LET r[i \in 0..Len(pool)] ==
            IF i = 0 THEN [st |-> working, kept |-> <<>>] ELSE Recheck(r[i - 1], pool[i])
    IN r[Len(pool)]

Commit ==
    /\ block # <<>>
    /\ committed' = working
    /\ check' = Rechecked.st /\ pool' = Rechecked.kept
    /\ block' = <<>>
    /\ UNCHANGED <<working, included>>

Next ==
    \/ \E tx \in Txs : CheckTx(tx) \/ DeliverOk(tx) \/ DeliverFail(tx)
    \/ Commit

Spec == Init /\ [][Next]_vars

-----------------------------------------------------------------------------
(* Properties *)

States == [seq : [Accounts -> Nat], bal : [Accounts -> 0..Funds], fees : Nat,
           keys : SUBSET Accounts, links : SUBSET (Accounts \X SvmAddrs)]

\* Every variable keeps its type; no balance is ever overdrawn.
TypeOK ==
    /\ committed \in States /\ working \in States /\ check \in States
    /\ pool \in Seq(Txs) /\ Len(pool) <= MaxPool
    /\ block \in Seq(Txs) /\ Len(block) <= MaxBlock
    /\ included \in Seq([tx : Txs, links : SUBSET (Accounts \X SvmAddrs)])

\* The sequence a transaction carries for one of its signers.
SeqOfSigner(tx, a) == tx.sigs[CHOOSE i \in DOMAIN tx.sigs : tx.body.signers[i] = a].seq

\* No replay: of all transactions that pass in blocks, no two use the same
\* sequence of the same signer, whichever chain of decorators they go through.
SequenceUsedOnce ==
    \A i, j \in DOMAIN included :
        \A a \in Signers(included[i].tx) \cap Signers(included[j].tx) :
            i # j => SeqOfSigner(included[i].tx, a) # SeqOfSigner(included[j].tx, a)

Signatures(tx) == ToSet(tx.sigs) \cup {tx.delegateSig}

\* Every signer has signed the body, and so has a delegated fee payer, for
\* exactly this payment.
SignedByAll(tx) ==
    /\ \A a \in Signers(tx) : \E g \in Signatures(tx) :
           g.by = a /\ g.over.body = tx.body /\ g.over.signer = a
    /\ \E g \in Signatures(tx) :
           /\ g.by = FeePayer(tx) /\ g.over.body = tx.body
           /\ Delegated(tx) => g.over.payer = FeePayer(tx)

\* Whoever's sequence or money a transaction takes in a block has signed it,
\* although fees are deducted before signatures are verified and signatures
\* are not verified on recheck.
Authorised == \A i \in DOMAIN included : SignedByAll(included[i].tx)

\* Every SVM address that signed an instruction of a transaction in a block
\* was linked, when the block executed it, to a signer of the transaction.
LinkedToSigner(e) ==
    HasSvm(e.tx) => \A x \in e.tx.body.svm : \E a \in Signers(e.tx) : <<a, x>> \in e.links

SvmAuthorised == \A i \in DOMAIN included : LinkedToSigner(included[i])

PendingOf(a) == Cardinality({i \in DOMAIN pool : a \in Signers(pool[i])})

\* The sequence CheckTx and Simulate ask for is the committed one plus the
\* account's transactions in the mempool: what NonceClient relies on.
CheckTracksPool == \A a \in Accounts : check.seq[a] = committed.seq[a] + PendingOf(a)

\* The states that the mempool leads through from the last block.
PoolStates ==
    LET p[i \in 0..Len(pool)] == IF i = 0 THEN committed ELSE After(p[i - 1], pool[i])
    IN p

\* A mempool of plain Cosmos transactions could be delivered as it stands:
\* skipping the signatures on recheck lets nothing stale stay.
PoolExecutable ==
    (\A i \in DOMAIN pool : pool[i].ext = "none") =>
        \A i \in DOMAIN pool : Passes(PoolStates[i - 1], pool[i], "deliver")

\* Everybody signed, for the sequence that the transaction states.
WellSigned(tx) ==
    /\ Signers(tx) \subseteq tx.pub /\ Len(tx.sigs) = Len(tx.body.signers)
    /\ \A i \in DOMAIN tx.sigs :
           LET a == tx.body.signers[i]
               sig == tx.sigs[i]
           IN \/ tx.ext = "web3" /\ VerifySignatureEIP712(tx, a, sig.seq, sig)
              \/ tx.ext = "none" /\ sig.by = a /\ sig.form = "ok"
                                 /\ sig.over = SignDoc(tx, a, sig.seq)

\* Simulate is a reliable oracle for a client that signs properly: at any
\* moment it takes a transaction exactly when CheckTx would.
SimulateMatchesCheck ==
    \A tx \in Txs :
        WellSigned(tx) => (Passes(check, tx, "simulate") <=> Passes(check, tx, "check"))
=============================================================================
