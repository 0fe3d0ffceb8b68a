----------------------------- MODULE SvmMessage -----------------------------
(***************************************************************************)
(* MsgTransaction of the svm module (chain/modules/svm/types): how         *)
(* ToCosmosMsg makes one out of a Solana transaction, and ValidateBasic,   *)
(* loop by loop, deciding about one message, made by ToCosmosMsg or by     *)
(* hand. Programs, instruction data and the signer and writable flags play *)
(* no part in the decision. Indexes count from 0, as on the wire.          *)
(***************************************************************************)
EXTENDS Integers, SequencesExt

CONSTANTS Addresses,    \* the strings that are valid bech32 addresses
          SolanaTxs,    \* keys: the account keys; ixs: the accounts of each instruction
          SignerLists,  \* the signers argument of ToCosmosMsg
          Budget,       \* its computeBudget argument
          RawMsgs       \* messages made without ToCosmosMsg

\* What a Solana transaction that was built and resolves has: distinct keys,
\* at least one instruction, and instruction accounts that are among the keys.
ASSUME SolanaAssumption ==
    \A tx \in SolanaTxs :
        /\ tx.keys \in Seq(ToSet(tx.keys)) /\ tx.keys # <<>> /\ IsInjective(tx.keys)
        /\ tx.ixs \in Seq(Seq(ToSet(tx.keys))) /\ tx.ixs # <<>>

ASSUME ArgumentAssumption ==
    /\ \A s \in SignerLists : s \in Seq(Addresses)
    /\ Budget \in Nat \ {0}

IxAccounts == [id : Nat, caller : Nat, callee : Nat]

ASSUME RawAssumption ==
    \A m \in RawMsgs :
        /\ DOMAIN m.signers = 1..Len(m.signers) /\ m.budget \in Nat
        /\ m.accounts \in Seq(ToSet(m.accounts)) /\ m.ixs \in Seq(Seq(IxAccounts))

-----------------------------------------------------------------------------
(* ToCosmosMsg *)

\* The first position; there is one, since the accounts come from the keys.
PositionOf(a, s) ==
    (CHOOSE k \in DOMAIN s : s[k] = a /\ \A l \in 1..(k - 1) : s[l] # a) - 1

\* Mutant of ToInstruction: the callee index is taken from the transaction.
ToInstructionTxWide(keys, accounts) ==
    [k \in DOMAIN accounts |->
        [id |-> PositionOf(accounts[k], keys), caller |-> PositionOf(accounts[k], keys),
         callee |-> PositionOf(accounts[k], keys)]]

ToInstruction(keys, accounts) ==
    [k \in DOMAIN accounts |->
        [id |-> PositionOf(accounts[k], keys), caller |-> PositionOf(accounts[k], keys),
         callee |-> PositionOf(accounts[k], accounts)]]

ToCosmosMsg(signers, budget, tx) ==
    [signers |-> signers, budget |-> budget, accounts |-> tx.keys,
     ixs |-> [i \in DOMAIN tx.ixs |-> ToInstruction(tx.keys, tx.ixs[i])]]

Compiled == {ToCosmosMsg(s, Budget, tx) : s \in SignerLists, tx \in SolanaTxs}

-----------------------------------------------------------------------------
(* ValidateBasic *)

VARIABLES msg,
          pc,               \* "header", "loop", or the verdict
          ix, acc,          \* positions in the two loops over instructions
          calleeIndexMap    \* index -> where this instruction has it first

vars == <<msg, pc, ix, acc, calleeIndexMap>>

EmptyMap == [d \in {} |-> 0]

Init ==
    /\ msg \in Compiled \cup RawMsgs
    /\ pc = "header" /\ ix = 1 /\ acc = 1 /\ calleeIndexMap = EmptyMap

HeaderOK(m) ==
    /\ ToSet(m.signers) \subseteq Addresses
    /\ m.budget # 0 /\ m.accounts # <<>> /\ m.ixs # <<>>
    /\ IsInjective(m.accounts)

Header ==
    /\ pc = "header"
    /\ pc' = IF HeaderOK(msg) THEN "loop" ELSE "rejected"
    /\ UNCHANGED <<msg, ix, acc, calleeIndexMap>>

\* An index equal to the length passes, as in the code.
InRange(m, a, n) == a.id <= Len(m.accounts) /\ a.caller <= Len(m.accounts) /\ a.callee <= n

WithFirst(map, d, k) ==
    [e \in DOMAIN map \cup {d} |-> IF e \in DOMAIN map THEN map[e] ELSE k]

CheckAccount ==
    /\ pc = "loop" /\ ix <= Len(msg.ixs) /\ acc <= Len(msg.ixs[ix])
    /\ LET a == msg.ixs[ix][acc]
           map == WithFirst(calleeIndexMap, a.id, acc - 1)
       IN \/ /\ InRange(msg, a, Len(msg.ixs[ix])) /\ a.callee = map[a.id]
             /\ acc' = acc + 1 /\ calleeIndexMap' = map
             /\ UNCHANGED pc
          \/ /\ ~InRange(msg, a, Len(msg.ixs[ix])) \/ a.callee # map[a.id]
             /\ pc' = "rejected"
             /\ UNCHANGED <<acc, calleeIndexMap>>
    /\ UNCHANGED <<msg, ix>>

\* Mutant of NextInstruction: one map for the whole message.
NextInstructionOneMap ==
    /\ pc = "loop" /\ ix <= Len(msg.ixs) /\ acc > Len(msg.ixs[ix])
    /\ ix' = ix + 1 /\ acc' = 1
    /\ UNCHANGED <<msg, pc, calleeIndexMap>>

NextInstruction ==
    /\ pc = "loop" /\ ix <= Len(msg.ixs) /\ acc > Len(msg.ixs[ix])
    /\ ix' = ix + 1 /\ acc' = 1 /\ calleeIndexMap' = EmptyMap
    /\ UNCHANGED <<msg, pc>>

Accept ==
    /\ pc = "loop" /\ ix > Len(msg.ixs)
    /\ pc' = "accepted"
    /\ UNCHANGED <<msg, ix, acc, calleeIndexMap>>

Next == Header \/ CheckAccount \/ NextInstruction \/ Accept

Spec == Init /\ [][Next]_vars

-----------------------------------------------------------------------------
(* Properties *)

\* p is where the account at position k occurs first among the accounts s.
IsFirst(s, k, p) ==
    /\ p + 1 \in DOMAIN s /\ s[p + 1].id = s[k].id
    /\ \A l \in 1..p : s[l].id # s[k].id

ValidIx(m, s) ==
    \A k \in DOMAIN s : /\ s[k].id <= Len(m.accounts) /\ s[k].caller <= Len(m.accounts)
                        /\ IsFirst(s, k, s[k].callee)

Valid(m) == HeaderOK(m) /\ \A i \in DOMAIN m.ixs : ValidIx(m, m.ixs[i])

\* The verdict of the loops, with their early returns and the map each
\* instruction builds up, is right: a message is accepted only if in every
\* instruction every callee index is the first position of its account, and
\* refused only if something is wrong with it.
VerdictRight == (pc = "accepted" => Valid(msg)) /\ (pc = "rejected" => ~Valid(msg))

\* The two halves of the package agree: whatever ToCosmosMsg makes of a Solana
\* transaction passes ValidateBasic, accounts that occur twice in an
\* instruction or at other places in several instructions included.
CompiledAccepted == pc = "rejected" => msg \notin Compiled

\* What the errors "index out of range" promise of an accepted message: every
\* index can be used to index Accounts, as SvmDecorator does.
IndexesInRange ==
    pc = "accepted" => \A i \in DOMAIN msg.ixs : \A k \in DOMAIN msg.ixs[i] :
        /\ msg.ixs[i][k].id < Len(msg.accounts)
        /\ msg.ixs[i][k].caller < Len(msg.accounts)
=============================================================================
