------------------------------ MODULE SvmHelper -----------------------------
(***************************************************************************)
(* The helpers of client/svm at work in a program that deploys an SVM      *)
(* program: GetOrLinkSvmAccount for each of its accounts, then             *)
(* CreateInitAccountsMsg, then the messages of CreateProgramUploadMsgs one *)
(* by one, each sent with BuildSignedTx and SyncBroadcastSignedTx. Other   *)
(* programs link the first of the accounts at the same time. A program     *)
(* that gets an error stops and may be started again; a transaction that   *)
(* failed with a code is no error to it.                                   *)
(*                                                                         *)
(* External: the chain, that is, sequences, mempool, links, the decorator  *)
(* SvmDecorator as AnteHandler has it, and the loader that writes into a   *)
(* buffer and deploys it.                                                  *)
(***************************************************************************)
EXTENDS ProgramUpload, FiniteSets

CONSTANTS Deployer, Rivals,   \* the programs
          Accounts,           \* the deployer's accounts, its owner account first
          OwnKey,             \* the SVM key that a program has for an account
          NoKey, NoProgram,
          MaxFaults           \* bound: things that go wrong

Programs == {Deployer} \cup Rivals
Accs == {Accounts[i] : i \in 1..Len(Accounts)}

ASSUME HelperAssumption ==
    /\ Deployer \notin Rivals /\ Len(Accounts) \in Nat \ {0} /\ MaxFaults \in Nat
    /\ \A i, j \in 1..Len(Accounts) : Accounts[i] = Accounts[j] => i = j
    /\ \A p \in Programs : \A a \in Accs : OwnKey[p][a] # NoKey

VARIABLES link, seq,         \* the chain: links and committed sequences
          ready, written,    \* the buffer exists; the bytes in it
          deployed,          \* what was deployed: its bytes, and whether the
                             \* deployer had been told of a failure
          pool,              \* the mempool, oldest first
          included,          \* [tx, ok]: transactions in blocks
          at,                \* where each program is
          stage,             \* which of its messages it is about
          nonces,            \* the sequences BuildSignedTx has read so far
          tx,                \* the transaction it has sent
          keyOf,             \* the key GetOrLinkSvmAccount returned
          sure,              \* ... with no error and no failure code
          failed,            \* it was told that a message other than a link failed
          faults

chainVars == <<link, seq, ready, written, deployed, pool, included>>
programVars == <<at, stage, nonces, tx, keyOf, sure, failed>>
helperVars == <<uploadVars, chainVars, programVars, faults>>

NoTx == [by |-> NoProgram]

HelperInit ==
    /\ UploadInit
    /\ link = [a \in Accs |-> NoKey] /\ seq = [a \in Accs |-> 0]
    /\ ready = FALSE /\ written = {} /\ deployed = NoProgram
    /\ pool = <<>> /\ included = {}
    /\ at = [p \in Programs |-> "query"] /\ stage = [p \in Programs |-> 1]
    /\ nonces = [p \in Programs |-> <<>>] /\ tx = [p \in Programs |-> NoTx]
    /\ keyOf = [p \in Programs |-> [a \in Accs |-> NoKey]]
    /\ sure = [p \in Programs |-> {}] /\ failed = [p \in Programs |-> FALSE]
    /\ faults = 0

-----------------------------------------------------------------------------
(* The messages of a program *)

Links(p) == IF p = Deployer THEN Len(Accounts) ELSE 1

LinkMsg(p) ==
    LET a == Accounts[stage[p]]
    IN [kind |-> "link", signers |-> <<a>>, keys |-> {OwnKey[p][a]}, ixs |-> <<>>]

\* Mutant of CreateInitAccountsMsg: the program's own keys, linked or not.
CreateInitAccountsMsgOwn(p) ==
    [kind |-> "init", signers |-> Accounts, keys |-> {OwnKey[p][a] : a \in Accs}, ixs |-> <<>>]

\* Creating the accounts takes the signature of every key.
CreateInitAccountsMsg(p) ==
    [kind |-> "init", signers |-> Accounts, keys |-> {keyOf[p][a] : a \in Accs}, ixs |-> <<>>]

UploadMsg(p, ixs) ==
    [kind |-> "upload", signers |-> Accounts, keys |-> {keyOf[p][Accounts[1]]}, ixs |-> ixs]

Msg(p) ==
    IF stage[p] <= Links(p) THEN LinkMsg(p)
    ELSE IF stage[p] = Links(p) + 1 THEN CreateInitAccountsMsg(p)
    ELSE UploadMsg(p, res[stage[p] - Links(p) - 1])

LastStage(p) == IF p = Deployer THEN Links(p) + 1 + Len(res) ELSE Links(p)

-----------------------------------------------------------------------------
(* The chain *)

Signs(t, a) == \E i \in 1..Len(t.msg.signers) : t.msg.signers[i] = a

PendingOf(a) == Cardinality({i \in 1..Len(pool) : Signs(pool[i], a)})

SvmDecorator(m) ==
    m.kind # "link" =>
        LET signers == {m.signers[i] : i \in 1..Len(m.signers)}
        IN /\ \A a \in signers : link[a] # NoKey
           /\ \A k \in m.keys : \E a \in signers : link[a] = k

\* The sequence of every signer is the one after its transactions in the mempool.
CheckOK(m, ns) ==
    /\ SvmDecorator(m)
    /\ \A i \in 1..Len(m.signers) : ns[i] = seq[m.signers[i]] + PendingOf(m.signers[i])

BytesOf(ixs) ==
    UNION {IF ixs[k].op = "write" THEN ixs[k].from..(ixs[k].to - 1) ELSE {} : k \in 1..Len(ixs)}
Deploys(ixs) == \E k \in 1..Len(ixs) : ixs[k].op = "deploy"

ExecutesOK(m) ==
    CASE m.kind = "link"   -> /\ link[m.signers[1]] = NoKey
                              /\ \A a \in Accs : link[a] \notin m.keys
      [] m.kind = "init"   -> ~ready
      [] m.kind = "upload" -> ready /\ (Deploys(m.ixs) => deployed = NoProgram)

Execute(m) ==
    CASE m.kind = "link" ->
            /\ link' = [link EXCEPT ![m.signers[1]] = CHOOSE k \in m.keys : TRUE]
            /\ UNCHANGED <<ready, written, deployed>>
      [] m.kind = "init" -> ready' = TRUE /\ UNCHANGED <<link, written, deployed>>
      [] m.kind = "upload" ->
            /\ written' = written \cup BytesOf(m.ixs)
            /\ deployed' = IF Deploys(m.ixs)
                           THEN [bytes |-> written', told |-> failed[Deployer]] ELSE deployed
            /\ UNCHANGED <<link, ready>>

\* A block takes the oldest transaction: its sequences are used up even if its
\* message fails.
Included(t, ok) ==
    /\ pool' = Tail(pool) /\ included' = included \cup {[tx |-> t, ok |-> ok]}
    /\ seq' = [a \in Accs |-> IF Signs(t, a) THEN seq[a] + 1 ELSE seq[a]]

DeliverOk ==
    /\ pool # <<>> /\ ExecutesOK(Head(pool).msg)
    /\ Included(Head(pool), TRUE) /\ Execute(Head(pool).msg)
    /\ UNCHANGED <<uploadVars, programVars, faults>>

\* The message fails, or the gas limit, twice what the simulation took, is short.
DeliverFails ==
    /\ pool # <<>> /\ (ExecutesOK(Head(pool).msg) => faults < MaxFaults)
    /\ faults' = IF ExecutesOK(Head(pool).msg) THEN faults + 1 ELSE faults
    /\ Included(Head(pool), FALSE)
    /\ UNCHANGED <<link, ready, written, deployed, uploadVars, programVars>>

-----------------------------------------------------------------------------
(* The programs *)

\* The example programs end on any error.
Panics(p) == at' = [at EXCEPT ![p] = "stopped"] /\ UNCHANGED <<stage, nonces, tx, keyOf, sure, failed>>

\* On to the next message, with the key that a link call has returned.
Continues(p, key, ok) ==
    /\ stage' = [stage EXCEPT ![p] = @ + 1]
    /\ at' = [at EXCEPT ![p] = IF stage[p] < Links(p) THEN "query"
                               ELSE IF p # Deployer THEN "end" ELSE "next"]
    /\ nonces' = [nonces EXCEPT ![p] = <<>>] /\ tx' = [tx EXCEPT ![p] = NoTx]
    /\ IF stage[p] <= Links(p)
       THEN /\ keyOf' = [keyOf EXCEPT ![p][Accounts[stage[p]]] = key]
            /\ sure' = [sure EXCEPT ![p] = IF ok THEN @ \cup {Accounts[stage[p]]} ELSE @]
            /\ UNCHANGED failed
       ELSE /\ failed' = [failed EXCEPT ![p] = @ \/ ~ok]
            /\ UNCHANGED <<keyOf, sure>>

\* GetOrLinkSvmAccount returns the caller's key whatever became of its message.
MyKey(p) == IF stage[p] <= Links(p) THEN OwnKey[p][Accounts[stage[p]]] ELSE NoKey

\* Mutant of LinkFound: the caller's key is returned instead of the linked one.
LinkFoundOwn(p) ==
    /\ at[p] = "query" /\ link[Accounts[stage[p]]] # NoKey
    /\ Continues(p, MyKey(p), TRUE)
    /\ UNCHANGED <<uploadVars, chainVars, faults>>

\* GetSVMAccountLink finds a link, and its key is returned.
LinkFound(p) ==
    /\ at[p] = "query" /\ link[Accounts[stage[p]]] # NoKey
    /\ Continues(p, link[Accounts[stage[p]]], TRUE)
    /\ UNCHANGED <<uploadVars, chainVars, faults>>

\* ... or none, and a link message is sent.
LinkNotFound(p) ==
    /\ at[p] = "query" /\ link[Accounts[stage[p]]] = NoKey
    /\ at' = [at EXCEPT ![p] = "account"]
    /\ UNCHANGED <<stage, nonces, tx, keyOf, sure, failed, uploadVars, chainVars, faults>>

\* CreateProgramUploadMsgs, when the links are there.
BuildMsgs ==
    /\ at[Deployer] = "next" /\ UploadNext
    /\ UNCHANGED <<chainVars, programVars, faults>>

\* The next message, or the end.
NextMsg ==
    /\ at[Deployer] = "next" /\ upc = "done"
    /\ at' = [at EXCEPT ![Deployer] = IF stage[Deployer] > LastStage(Deployer)
                                      THEN "end" ELSE "account"]
    /\ UNCHANGED <<stage, nonces, tx, keyOf, sure, failed, uploadVars, chainVars, faults>>

\* BuildSignedTx asks for the committed sequence of one signer after another.
ReadAccount(p) ==
    /\ at[p] = "account"
    /\ LET ns == Append(nonces[p], seq[Msg(p).signers[Len(nonces[p]) + 1]])
       IN /\ nonces' = [nonces EXCEPT ![p] = ns]
          /\ at' = [at EXCEPT ![p] = IF Len(ns) = Len(Msg(p).signers) THEN "simulate" ELSE @]
    /\ UNCHANGED <<stage, tx, keyOf, sure, failed, uploadVars, chainVars, faults>>

\* The simulation runs the message; if it fails there is no transaction.
Simulate(p) ==
    /\ at[p] = "simulate"
    /\ IF CheckOK(Msg(p), nonces[p]) /\ ExecutesOK(Msg(p))
       THEN at' = [at EXCEPT ![p] = "broadcast"] /\ UNCHANGED <<stage, nonces, tx, keyOf, sure, failed>>
       ELSE Panics(p)
    /\ UNCHANGED <<uploadVars, chainVars, faults>>

Sent(p) == [by |-> p, msg |-> Msg(p), nonces |-> nonces[p]]

\* Mutant of BroadcastOk: an upload message is not waited for.
BroadcastNoWait(p) ==
    /\ at[p] = "broadcast" /\ CheckOK(Msg(p), nonces[p])
    /\ pool' = Append(pool, Sent(p))
    /\ IF stage[p] > Links(p) THEN Continues(p, NoKey, TRUE)
       ELSE /\ tx' = [tx EXCEPT ![p] = Sent(p)] /\ at' = [at EXCEPT ![p] = "await"]
            /\ UNCHANGED <<stage, nonces, keyOf, sure, failed>>
    /\ UNCHANGED <<link, seq, ready, written, deployed, included, uploadVars, faults>>

\* BroadcastTx is answered with code 0, and SyncBroadcastSignedTx waits.
BroadcastOk(p) ==
    /\ at[p] = "broadcast" /\ CheckOK(Msg(p), nonces[p])
    /\ pool' = Append(pool, Sent(p)) /\ tx' = [tx EXCEPT ![p] = Sent(p)]
    /\ at' = [at EXCEPT ![p] = "await"]
    /\ UNCHANGED <<link, seq, ready, written, deployed, included>>
    /\ UNCHANGED <<stage, nonces, keyOf, sure, failed, uploadVars, faults>>

\* ... or with another code, which is returned at once, with a nil error.
BroadcastRefused(p) ==
    /\ at[p] = "broadcast" /\ ~CheckOK(Msg(p), nonces[p])
    /\ Continues(p, MyKey(p), FALSE)
    /\ UNCHANGED <<uploadVars, chainVars, faults>>

\* GetTx finds the transaction in a block; its code is part of the answer.
AwaitIncluded(p) ==
    /\ at[p] = "await"
    /\ \E e \in included : e.tx = tx[p] /\ Continues(p, MyKey(p), e.ok)
    /\ UNCHANGED <<uploadVars, chainVars, faults>>

\* ErrTimedOut although the transaction may still get into a block, an RPC that
\* fails, or BroadcastTx whose answer is lost after the node took the transaction.
CallFails(p) ==
    /\ at[p] \in {"query", "account", "simulate", "broadcast", "await"} /\ faults < MaxFaults
    /\ faults' = faults + 1
    /\ Panics(p)
    /\ \/ UNCHANGED pool
       \/ at[p] = "broadcast" /\ CheckOK(Msg(p), nonces[p]) /\ pool' = Append(pool, Sent(p))
    /\ UNCHANGED <<uploadVars, link, seq, ready, written, deployed, included>>

\* Somebody starts the program again.
Restart(p) ==
    /\ at[p] = "stopped"
    /\ at' = [at EXCEPT ![p] = "query"] /\ stage' = [stage EXCEPT ![p] = 1]
    /\ nonces' = [nonces EXCEPT ![p] = <<>>] /\ tx' = [tx EXCEPT ![p] = NoTx]
    /\ sure' = [sure EXCEPT ![p] = {}]
    /\ UNCHANGED <<keyOf, failed, uploadVars, chainVars, faults>>

Runs(p) ==
    \/ LinkFound(p) \/ LinkNotFound(p) \/ ReadAccount(p) \/ Simulate(p)
    \/ BroadcastOk(p) \/ BroadcastRefused(p) \/ AwaitIncluded(p) \/ Restart(p)
    \/ p = Deployer /\ (BuildMsgs \/ NextMsg)

HelperNext == (\E p \in Programs : Runs(p) \/ CallFails(p)) \/ DeliverOk \/ DeliverFails

\* Programs run, blocks are made, and stopped programs are started again.
HelperFairness ==
    /\ \A p \in Programs : WF_helperVars(Runs(p))
    /\ WF_helperVars(DeliverOk \/ DeliverFails)

HelperSpec == HelperInit /\ [][HelperNext]_helperVars /\ HelperFairness

-----------------------------------------------------------------------------
(* Properties *)

\* A key that GetOrLinkSvmAccount returned with no error and no failure code is
\* the one the chain has linked to the account, whoever else links it meanwhile,
\* and stays it.
ReturnedKeyLinked == \A p \in Programs : \A a \in sure[p] : link[a] = keyOf[p][a]

Program == 0..(programSize - 1)

\* What is deployed is the whole program, whichever transactions timed out, got
\* lost or were sent again, unless the deployer had been told before that one of
\* its messages failed, which it ignores.
DeployedComplete == deployed # NoProgram => deployed.bytes = Program \/ deployed.told

\* If nothing goes wrong but races between the programs, the program gets
\* deployed: a deployer that loses the race for a link, or signs with a sequence
\* that a rival has used, succeeds when it is started again.
DeploysWithoutFaults ==
    <>(faults > 0 \/ (deployed # NoProgram /\ deployed.bytes = Program /\ at[Deployer] = "end"))
=============================================================================
