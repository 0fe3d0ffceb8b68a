# Verification of flux-sdk-go

TLA+ models of the parts of flux-sdk-go that carry its own logic, the TLC
configurations that check them on small instances, and TLAPS proofs of the
properties that matter most, for every value of the constants. `PROJECT.json`
lists the components, the runs, the mutants that show each property can fail,
the source lines each definition models, the hazards and the theorems.

Paths below are relative to `src/`.

## 1. The system

flux-sdk-go is the client SDK of the Flux chain together with the pieces of the
chain application that clients and node share: message types, the ante handler,
EIP-712 signing. Most of its 384 files are generated (protobuf, gRPC gateways,
anchor clients) or example programs: about 320,000 of 327,676 lines of Go are
generated, and some 6,800 are hand-written and not examples. The hand-written core
is this:

| Component | State | Operations | Works with |
|---|---|---|---|
| message queue (`client/chain/chain.go` 374-385, 722-816, 855-857) | channels `msgC`, `doneC`, `Broadcasted`; flag `closed`; the slices `msgBatch` and `toSubmit` over one array; a timer | `QueueBroadcastMsg`, `Close`, `BroadcastDone`, goroutine `runBatchBroadcast` | hands batches to the nonce logic |
| account sequence and broadcasting (same file, 203-265, 426-720, 859-924) | `accSeq`, the sequence inside the shared `txFactory`, the mutex `syncMux` | `SyncBroadcastMsg`, `AsyncBroadcastMsg`, `SimulateMsg`, `BuildSignedTx`, `Sync/AsyncBroadcastSignedTx`, `SyncBroadcastSvmMsg`, `submitBatch`; `broadcastTx`, `prepareFactory`, `syncNonce` | calls a node over gRPC |
| node (not in this repository) | committed sequence, mempool, chain | Simulate, BroadcastTx, GetTx, Account | runs the ante handler on its check state |
| ante handler (`chain/app/ante`) | account sequences, balances, public keys | the decorator chain for plain transactions and the one for EIP-712 (web3) transactions; check, recheck, deliver, simulate | reads the SVM links |
| SVM ante decorator (`chain/modules/svm/ante`) | links from accounts to SVM addresses | `AnteHandle` | after the signatures, before the sequences are raised, in both chains |
| SVM messages (`chain/modules/svm/types`) | none | `ToCosmosMsg`, `MsgTransaction.ValidateBasic` | the SVM decorator indexes what ValidateBasic let through |
| EIP-712 typed data (`chain/app/ante/eip712_cosmos.go`, `.../typeddata`) | none | `WrapTxToEIP712` with `extractMsgTypes` and `traverseFields`; `ComputeTypedDataHash` | ante handler; wallets |
| SVM client helpers (`client/svm`) | none of their own; a deploying program keeps the keys it was given and its position | `CreateProgramUploadMsgs`, `CreateInitAccountsMsg`, `GetOrLinkSvmAccount`, `BuildSignedTx` with several keys | the signing client; SVM messages; links on the chain |
| event stream WAL (`chain/eventstream`) | one file, its offset, what the disk has of it | `NewSimpleFileWAL`, `Write`, `Read`, `Close` | nothing in the repository yet |
| messages of the other modules, configuration, types, generated code, examples | - | field checks, constants | - |

What is hard here:

- **Concurrency in the client.** Any number of goroutines use one client. Some
  methods take `syncMux`, others (`SimulateMsg`, `BuildSignedTx`,
  `SyncBroadcastSvmMsg`) read and write the same `accSeq` and `txFactory`
  without it. The queue has senders, closers, waiters, a timer and one consumer
  which reuses the array it is submitting from.
- **A cached sequence.** `accSeq` is a copy of the node's check sequence, kept
  up to date by counting. Each lost reply, timeout, rejection, eviction or
  transaction of another program makes it wrong; the only repair is one retry
  after a sequence mismatch, from the *committed* sequence.
- **Three copies of the state in the node.** Transactions are checked,
  rechecked, executed and simulated on different states; signatures are skipped
  on recheck, fees are taken before signatures are verified, links may change
  between check and execution. Two decorator chains share one sequence.
- **Indexes.** An SVM message refers to accounts by three kinds of index that
  ValidateBasic has to get right with early returns and a map per instruction.
- **Two walks over one document.** The types of an EIP-712 document come from a walk
  over Go types and values of the *first* message, the data from the JSON of *all*
  messages. What one of them sees and the other does not is either not signed or
  not signable.
- **Check, then act, over the network.** `GetOrLinkSvmAccount` asks and links later,
  `BuildSignedTx` reads committed sequences of several accounts one after another, an
  upload takes many transactions each of which may time out and still be included.
- **One copy on the disk.** The WAL's `Write` truncates the only record before it
  writes the next.

Each of these is a list of entries in `hazards`, with the line where it bites
and the properties that would notice.

## 2. Modules

| Module | Models | Notes |
|---|---|---|
| `FifoPipe` | what the queue promises | abstract specification: a sealable FIFO that delivers bounded chunks |
| `BatchQueue` | the message queue | implements `FifoPipe` (`ImplementsPipe`) |
| `ChainNode` | the node as the client sees it (external) | committed sequence, mempool, chain; a transaction is admitted if it has the check sequence |
| `NonceClient` | sequence and broadcasting | extends `ChainNode` |
| `ChainClient` | queue and nonce logic composed | extends both, whose definitions therefore carry their own prefixes (`QueueInit`, `NonceNext`, ...); the queue's goroutine is one more user of the account |
| `AnteHandler` | both decorator chains, fees, EIP-712 and SVM decorators, inside a node | the node and the Cosmos SDK's own decorators are external |
| `SvmMessage` | `ToCosmosMsg` and `ValidateBasic` | |
| `TypedData` | `WrapTxToEIP712` and the hashing of typed data | the walk over Go types is a machine with a stack, hashing is recursive functions |
| `SimpleFileWAL` | the WAL and the file system under it (external) | |
| `ProgramUpload` | the loop of `CreateProgramUploadMsgs` | |
| `SvmHelper` | the helpers at work in a deploying program, next to rivals, over a chain (external) | extends `ProgramUpload` |
| `QueueUsage` | `BatchQueue` used freely, or in the lockstep of the examples | extends `BatchQueue` |
| `*Proofs` | the theorems about the module of that name; `SvmProofs` those about `SvmMessage`, `ProgramUpload` and `SvmHelper` | `ChainClientProofs` extends the proofs of its two components, `QueueUsageProofs` those of the queue |
| `MCSvmDeploy` | `SvmMessage` and `SvmHelper` in one instance | a behaviour is about one message or about one deployment |
| other `MC*` | instances for TLC | sets of transactions, documents and messages, symmetry |

### BatchQueue

One action per step that other goroutines can see. A `QueueBroadcastMsg` call is
`QueueEnter` (the checks of `canSign` and `closed`), one `QueueSend` per message,
and `QueueReturn`, or ends by `QueueTimeout` or `QueuePanic`; `QueueRefused` is
a call that returns at once. `Close` is the swap of the flag, the close of the
channel, and the wait for `doneC`. `runBatchBroadcast` is a `select` with the
cases `BatchReceive`, `BatchClosed`, `BatchExpire`, then a submission that ends
with `SubmitOk` and the token (`SubmitSignal`, which blocks when `Broadcasted`
is full) or with `SubmitErr`. `buf` is the array that `msgBatch` and `toSubmit`
share: `batchLen` and `submitLen` are the lengths of the two slices, and `append`
writes into the array. The timer is two bits: it runs, its channel has a tick. A
tick that is in the channel survives `Reset`, as with the toolchain of `go.mod`.
`accepted` and `handed` are history.

### NonceClient

A goroutine's `pc` walks through lock, set the factory's sequence, read the factory,
`prepareFactory`, simulate, broadcast, wait, result; which of these a method has, and in
which order, is the method (`FirstStep`, `AfterPrepare`, `AfterNonce`). Steps that touch
shared state without the mutex are separate actions, so the races of the unlocked methods
are there. Sequence 0 means "not set" to `prepareFactory`, and the model keeps that.
Faults are actions with a budget: a call fails without effect, a reply is lost after
admission, CheckTx refuses for another reason, the wait times out, the node drops
transactions from the mempool, another program uses the account. `calm[t]` records that
nothing of this kind has happened since `t` took the mutex over an empty mempool.
`LinkSVMAccount` is a caller of a broadcasting method and `SimulateSignedTx` a single RPC;
neither has an action of its own. Gas, fees, keys and encodings do not influence this
control flow and are left out; the timeout height set by `syncTimeoutHeight` is left out
because the code discards the factory it makes (see section 6).

### ChainClient

The goroutine of the queue goes through `NonceClient`'s actions as the thread
`Batcher`; `BatchQueue`'s submission steps happen together with its answers. The
transaction's messages are read from the array when it is broadcast, so reuse of
the array would show. The token is sent before the deferred unlock. The only variable
of the composition itself is `payload`, which records the messages of each batch's
transaction. `ChainClient` extends both components, rather than instantiating
them, so that what is proved of them can be cited in it.

### AnteHandler

A transaction is a record of body, signatures, public keys, extension option and delegated
payer. Signatures are symbolic: a signature names its key and the document it is over.
`Passes(st, tx, mode)` is the decorator chain that `NewAnteHandler` selects, in its order,
and `After(st, tx)` what it leaves behind. Around it the node: `CheckTx`, `DeliverOk` and
`DeliverFail` (a block may contain transactions that never went through CheckTx here),
`Commit` with recheck of the mempool: `Rechecked` goes through the mempool once, leaves
out what the block had and what no longer passes, and builds the new check state.
Decorators that neither read nor write sequences, balances, keys or links (gas, memo,
circuit breaker, timeout) are left out.

### SvmMessage

`Init` chooses a message, made by `ToCosmosMsg` from a Solana transaction or by
hand, and the actions are ValidateBasic's checks and loop iterations. The bound
checks are those of the code, `>` against a length.

### TypedData

Go types, Go values and JSON values are small symbolic terms. `ToJSON` is Amino JSON as
far as the document depends on it (external): fields with the zero value are left out,
64-bit integers and bytes become text. The recursion of `traverseFields` is a stack of
its calls, and an action is one turn of a call's loop: a field without a type
(`FieldSkipped`: an empty collection), with a basic one (`FieldBasic`), with one of its own
into which the walk descends (`FieldStruct`), or one that panics (`FieldPanics`: a nil Any,
the length of a collection behind a nil pointer, an item that is an Any), which
`walkFields` turns into an error; `FieldsDone` is the return. Pointers and Anys are followed
(`Deref`, `Unpacked`). `Wrap` is the rest of `WrapTxToEIP712` and `Hash` the call of
`ComputeTypedDataHash`, both made by `VerifySignatureEIP712`.

The recursions of the hashing are functions over the levels of nested calls: the
calls of level n + 1 are defined from those of level n, and those of level 0
fail. `Dependencies` needs no more levels than there are types, since every call adds
one; `EncodeData` needs as many as the document is deep, at most `Depth` (a deeper one
would be refused in the model). A hash is the term that is hashed, so two hashes are equal exactly
if their contents are. `AnteHandler` treats the typed document of a transaction as a symbol;
`HashBindsDocument` is what justifies that. It is stated for tables without two fields of one
name in a type (`DistinctNames`, see section 6).

### SimpleFileWAL

Each system call of `Write` (Seek, Truncate, Write, Sync) is an action that succeeds,
fails, or, for Write, is short; `Read`, `Close` and `NewSimpleFileWAL` are one action
each. `file` is what the process sees and `disk` the set of contents that a crash may
leave: everything the file has been since the last Sync, with any part of the last
bytes. `Crash` picks one of them, anywhere. The height is not used by the code, `Prune`
does nothing, and one goroutine is assumed, as there is no lock.

### ProgramUpload and SvmHelper

`AddChunk` is a pass of the loop, `AddDeploy` what follows it; an instruction stands
for the range of bytes it writes. In `SvmHelper` a program walks through its messages:
for each account `LinkFound` or `LinkNotFound`, for each message `ReadAccount` per
signer, `Simulate`, `BroadcastOk` or `BroadcastRefused`, `AwaitIncluded`. An error
stops the program (`CallFails`, a failed simulation), as the examples panic, and
`Restart` is somebody starting it again; a transaction that fails with a code is not an
error and the program goes on, again as the examples do. Rivals link the
deployer's first account at the same time. The chain checks sequences against its
mempool, applies the rule of `SvmDecorator` and executes messages in the order of
the mempool; a message whose gas is short fails in a block. After a restart the
messages of the upload are not built again: the result depends on nothing that
has changed.

## 3. Runs

| Run | Instance | Shows |
|---|---|---|
| `queue_safety` | 2 senders of up to 3 messages, 2 closers, 1 waiter, batch limit 2, token channel of 1; symmetry over senders and over closers | nothing accepted is lost, doubled, reordered or overwritten; `doneC` means drained; what is accepted of a call is a prefix, all of it if the call returned nil; a waiting batch has a live timer |
| `queue_liveness` | free use: 2 senders of up to 2 messages, 1 closer; lockstep use: 1 goroutine, 3 rounds of "queue one message, wait for `BroadcastDone`", as the examples do | the queue implements `FifoPipe` with its fairness; calls end; in lockstep the token is the one of the caller's own batch. With several senders this is false by design |
| `queue_closing` | 1 sender, 1 closer | *violation*: a send after the closed check panics when Close closes the channel |
| `nonce_faults` | 2 goroutines, 2 calls each, locking methods, 2 faults of 6 kinds, first sequence 0 or 3; symmetry | outcomes tell the truth about the chain; one retry heals every drift; no drift before the first fault |
| `nonce_unlocked` | 2 goroutines, 2 calls each, `SyncBroadcastMsg` and all unlocked methods, 1 fault, fresh account | one retry heals every drift in spite of the races; every call returns |
| `nonce_included` | 1 goroutine, 1 foreign transaction | *violation*: `SyncBroadcastMsg` returns nil for a refused transaction |
| `client` | 1 sender of 2 messages, 1 closer, 1 waiter, 1 competing caller, 1 fault, without simulation | no message reaches the node twice, blocks keep the queue's order; Close and everybody else return; until something fails, Close means that everything is in blocks |
| `ante` | 2 accounts; behaviours about plain and web3 transactions of one and two signers with sequences 0 and 1, delegated payers and others with one thing wrong each, and behaviours about links and SVM transactions; mempool and block of 2 | no replay across the two chains, nobody pays or signs unasked, check sequence = committed + mempool, a mempool of plain transactions stays executable, Simulate predicts CheckTx, an SVM address signs in a block only for an account it is linked to at that moment |
| `svm_deploy` | messages: 3 keys, up to 2 instructions of up to 3 accounts, the transactions of a deployment, raw messages with indexes up to one beyond the end; deployments: programs of 0 to 5 bytes, chunks of 2, 2 instructions per transaction, 2 accounts, 1 rival, 2 faults | ValidateBasic's verdict is the declarative one, and it accepts everything `ToCosmosMsg` makes; every byte is written once; a key returned with success is the linked one; what is deployed is complete unless a failure was reported; without faults the deployment succeeds in spite of the rival |
| `svm_range` | the messages of `svm_deploy` without a deployment's | *violation*: an index equal to the number of accounts is accepted |
| `typed_data` | 8 message types with lists, pointers, bytes, Anys, lists of Anys and nested structures, one or two messages, chain ids on both sides of the sign bit | a hash determines the document; exactly the documents that have a typed form are accepted; a type hash covers all types it refers to |
| `wal` | records of 2, 1 and 0 bytes | what Write acknowledged survives; the log never shows a mix of two records |

The type invariants of `BatchQueue`, `NonceClient` and `SimpleFileWAL` are proved
and are not checked by a run; the outcome guarantees of `nonce_faults` are proved for the unlocked
methods too. Every property of a passing run has a mutant, a plausible bug in one mapped
definition under which TLC finds the property violated.

### Bounds and why they are enough

- `Limit` = 2 (code: 1024): a batch that is empty, partly filled and full, a
  channel that is full while a sender is blocked, a call of 3 messages that is cut
  in two batches. Nothing in the code compares the limit with anything but the
  length. `TokenCap` = 1 (code: 100,000,000) lets the token channel fill up in
  `queue_safety`; in the other queue runs it is larger than the number of batches,
  since a full channel with no reader does block the queue for good.
- Two goroutines give every pairwise race; three messages, or two calls each,
  give a first and a later use of everything that is reused. Two faults let one
  hit the repair of another.
- First sequences 0 and 3: 0 is special in `prepareFactory`, 3 stands for the rest.
- `MaxPool` and `MaxBlock` = 2, sequences 0 and 1, `Funds` = 3: a stale, a current
  and a future sequence, an account that runs out of money, two transactions whose
  order matters.
- Two instructions and two or three accounts: the per-instruction map matters from
  the second instruction on, and repetition from the second account on.

- Programs of 0 to 5 bytes with chunks of 2 (code: 1200) and 2 instructions per
  transaction (code: 750): no chunk, a partial, a full and a second one, a last chunk
  that fills a transaction and one that does not. One rival and two faults: a lost
  race, and a restart that is disturbed again.
- Typed data: every kind of field alone and below another one, lists of up to two
  items that look alike or do not, two messages of one type, of two types with the
  same fields and of different types; `WordSize` 4 (code: 64) puts 9 beyond the sign bit.
  `Depth` 9 is deeper than any document of the instance, `MaxPtrs` 2 more pointers than
  its types have in a row.
- A record of more than one byte can be torn, one of none leaves an empty file.

Deadlock is checked in `wal`. In the other runs it is not: bounded calls end, the
chain may be idle, and a program may stop using its client. What must not get stuck
is stated as liveness.

### Fairness

- Weak fairness of each goroutine's steps: the Go scheduler runs what can run.
- Weak fairness of each case of the `select` separately: `select` picks at random
  among the ready ones.
- Strong fairness of taking the mutex: Go's mutex hands itself to a waiter that has
  waited for over a millisecond.
- Submissions end: `broadcastTx` bounds its wait by `defaultBroadcastTimeout`.
  The other RPCs carry no deadline; that they return, with an answer or an error, is
  an assumption.
- A deploying program keeps running and, when it has stopped, somebody starts it again:
  an assumption about its user, needed because a lost race for a link ends the program.
- The chain makes blocks. Faults, calls of the API, Close: possible, never due.

## 4. Proofs

All theorems hold for any sets of goroutines, accounts, transactions and messages
and for any bounds, from the named `ASSUME`s of each module: limits and capacities
are positive, thread names differ from the two reserved ones, transactions and
messages have the fields their types say, Solana transactions have distinct
keys and resolve, records have lengths, sizes of chunks and transactions are
positive, a deployer's accounts are distinct, chain ids fit their word, JSON values are
pairs of a tag and finite contents.

**BatchQueue.** `IndInv` is `QueueTypeOK`, `Conservation`, `SubmissionIntact` and
`Phase`. `Conservation` alone is not inductive: whether an `append` overwrites the
batch under submission, or whether the loop leaves with messages behind, depends on
where the goroutine is, and `Phase` says what each position implies about the
slices and the channel. Theorems: `QueueTypeCorrect`, `QueueConserves`,
`QueueSubmissionIntact`, `QueueDrains`; `QueueTimerAlive` is inductive with
`QueueTypeOK`. `QueueCallPrefix` needs `Progress`: the loop of a call has sent exactly
the messages before its index, and nothing of a later call is in the queue.
`QueueImplementsPipe` proves the safety part of the refinement: under the
mapping `pending = Held \o msgC`, `delivered = handed`, each step is a `Put`, a
`Deliver` of at most `Limit`, a `Seal`, a `Finish` or a stutter.

**QueueUsage.** `QueueDoneAfterOwnBatch`: in lockstep use, `BroadcastDone` returns to a
caller only after the submission of its own message has ended. Messages on their way and
tokens together are at most one, and none while the caller is between two rounds
(`LockstepInv`, with `Phase` of the queue), so a token it gets is that of its last
message. The hypothesis is one calling goroutine (`OneCaller`), as in each example; with
two the token of the other's batch is taken for one's own.

**NonceClient.** `SentOnce` strengthens `AtMostOnce` and `ErrorMeansNotSent`: a
goroutine that is before BroadcastTx, or was told no, has nothing of its present
call on the node. `AnswerIncluded` carries `OkMeansIncluded` from the answer to the
return. `OneHolder` gives `SignsOwnNonce`, under the hypothesis that only
locking methods are used, which is needed: an unlocked method may replace the factory.

`NonceInSync` has the same hypothesis. Its invariant `NoDrift` follows the cached sequence
through a critical section: until a fault it is the node's check sequence, except that
between the answer of BroadcastTx and the return of the call it is exactly one behind. The
hypothesis is needed because the unlocked methods use sequences without counting them.

`NonceOneRetryHeals` is the opposite case: any methods, any faults, any drift. `Healing` says
that a call of a locking method holds the mutex, and that as long as nothing disturbs
it (`Undisturbed`) the mempool stays empty until its own transaction is there, so that
the committed sequence that `syncNonce` fetches for the second try is the one the node asks
for. The hypothesis is `Simulate`, which `NewTxFactory` sets (`tx_factory.go:17`): without
simulation the wrong sequence is noticed by CheckTx, `broadcastTx` returns its code with a
nil error, and there is no retry at all.

`NonceChainInCallOrder`: the transactions of one goroutine are in the blocks in the order of its
calls. Its invariant `Lined` is about the chain followed by the mempool, since blocks take
from the front and losses leave gaps but change no order. This is not checked by
a run of its own; `ChainClient` builds on it.

**ChainClient.** `ClientImplementsComponents`: every step of the composition is a step
or a stutter of `BatchQueue` and of `NonceClient`. What is proved of the
components therefore holds in it and is not proved again. On top, `Coupled` says that
where `runBatchBroadcast` is and where its transaction is agree, and `Payloads` that
the transactions carry what the queue handed over, in its order, no message in two
of them. With `Conservation`, `CallPrefix` (all accepted messages are different) and
`NonceAtMostOnce` this gives `ClientMessageAtMostOnce`; with `NonceChainInCallOrder` it gives
`ClientChainKeepsOrder`. `ClientCloseSettles` adds `Settled` (until a fault, every batch that
`submitBatch` is through with is in a block), `NoDrift` and `QueueDrains`, and has
the hypothesis of `NonceInSync`: next to an unlocked method a batch may be refused or
give up although nothing has failed.

**AnteHandler.** `BlocksInv`: every sequence used in a block is below the signer's
current one, and used once. A transaction that passes in deliver mode carries
the current sequence of each signer in either chain (`PassesCurrent`), and passing
raises it (`AfterState`). Theorems: `AnteTypeCorrect`, `AnteNoReplay`, `AnteAuthorised`,
`AnteSvmAuthorised` (the last with `SvmDecoratorEnabled`).

`AnteCheckTracksPool` and `AntePoolExecutable` are about a mempool of any length, whose
check state is the result of a recursion over it. Their invariant `PoolInv` says that the check
state belongs to the mempool (`Tracks`): its sequences are the committed ones plus the mempool's
transactions, the mempool leads to it from the committed state and each plain transaction
passes where its turn comes (`Executes`), and the plain ones are signed for the sequences
they state (`Verified`). The last part is what makes it inductive: recheck does not look
at signatures again, but what they are over does not change; only sequences, balances and
links do, and these recheck does compare. One step of recheck keeps `Tracks`
(`RecheckTracks`), and so the whole pass does.
The induction over the mempool is done with `SetInduction`: a set of numbers that contains 0 and
with n also n + 1 contains all, derived from the library's well-foundedness of the
naturals. It takes a set and no predicate, and so the provers can use it.

`AnteSimulateMatchesCheck` needs the types alone: simulate and check differ
in the signatures, which are right by assumption, and in nothing else.

**SvmMessage.** `LoopInv`: what the loops have passed is valid and
`calleeIndexMap` holds the first position of exactly the accounts passed in this
instruction. That `PositionOf` is the first position uses the well-ordering of the
naturals. Theorems: `SvmVerdictRight`, `SvmCompiledAccepted`.

**SimpleFileWAL.** `IndInv` adds `Phase` to the two properties: between Truncate and
Write the file is empty, before Sync it is the whole record, and the record is
one whose Write began. Theorems: `WalDurable`, `WalNeverMixed`.

**ProgramUpload.** `CutInv`: the finished transactions together with the one being
built (`SoFar`) cover exactly the bytes below `idx`, in order; `FitInv`: they fit,
and the one being built is never full at the head of the loop, so the deploy
instruction has room. Theorems: `UploadEachByteOnce`, `UploadTransactionsFit`.

**SvmHelper.** `HelperInv` follows a message through its life. What is due is a good
message (`StageInv`, `DueGood`); a message in the mempool is good (`PoolInv`): an
upload part got there only when the parts before it were written or a failure had been
reported (`ProgressInv`); a transaction that succeeded has left its effect
(`IncludedInv`), and the one a program waits for is its own (`AwaitInv`). Links are
never replaced, which makes `SureInv` stable, and the bytes in the buffer are bytes of
the program (`BufferInv`). With `UploadInv` the parts up to the deploying one are the whole
program. Theorems: `SvmReturnedKeyLinked`, `SvmDeployedComplete`.

**TypedData.** `WrapInv` says that the types are a table throughout (`WalkTable`: finitely many
types with finitely many fields, the types of the header and of the domain among them and
the one of the domain as it was), and that the typed data of a
wrapped transaction has the document the signer agrees to and its chain. Each turn
of the walk keeps that, whatever the Go types and values are.

`TypeHashesComplete` is about the search in `Dependencies`, which appends what it finds to
one list while it recurses. The loop over fields keeps `FoundAfter`, and a call ends in
`Result`: the list only grew, has no duplicates, each type that is new in it has all its
fields' types in it (`Settled`), and none of the new ones could be left out (`Needed`). A
call whose list lacks k types is right if k levels of calls are left (`GoodCalls`), by
`SetInduction` over the levels, so the outermost is.

`HashBinds` reads the encoding back. `AllBind` goes by `SetInduction` over the levels: if
the calls nested in it can be read back, so can an array (`ArrayBinds`), a primitive
(`PrimitiveBinds`) and a structure. For the last, the type hash has the definition of the
structure (`TypeHashDefines`, from `TypeHashesComplete`'s lemmas), and `ExtraData` is what
says that no field of the JSON is outside it (`NoOtherFields`: as many fields as names,
each with a value). Only the types come from the walk, so nothing about the Go types is
needed: a transaction whose later messages have data that the first one's types do not
cover is refused by that count. `ChainBound` is the domain: a chain id that is accepted is
the one of the signature, not one that became negative on the way.

Model-checked only:

- liveness (`ImplementsPipe`'s fairness part, `CallsEnd`, `CallsReturn`,
  `AllIncluded`, `EveryoneReturns`, `DeploymentSucceeds`): out of the prover's reach;
- `AcceptedExactly`: which transactions are refused. It compares the walk and the encoder
  with `Signable`, a `RECURSIVE` operator over Go types of any depth, which the provers
  do not take (section 8 says what a provable form would need).

## 5. Findings

1. `client/chain/chain.go:734`: `QueueBroadcastMsg` checks `closed` once and sends
   later. A Close in between closes the channel, and the send panics where the
   function has `ErrQueueClosed` (run `queue_closing`).
2. `client/chain/chain.go:689`: `broadcastTx` returns a nil error for a transaction
   that CheckTx refused; `SyncBroadcastMsg`, documented to wait "until Tx is included
   in block", returns nil for a transaction in no block, and counts its sequence (run
   `nonce_included`). `OneRetryHeals` shows that the next undisturbed call repairs
   the count.
3. `chain/modules/svm/types/msgs.go:67` and `:71`: account indexes are compared with
   `>` against the number of accounts, so the first index beyond the end passes, and
   `SvmDecorator` uses it (run `svm_range`).

## 6. Observations while modelling

Not stated as violations, because nothing in the repository promises otherwise or
because the effect is outside a model.

- `chain/app/ante/eip712.go:51`: on recheck the EIP-712 decorator returns at once,
  and with the signature it skips the sequence. A web3 transaction whose sequence a
  block has used stays in the mempool and keeps the check sequence one too high;
  `PoolExecutable` is therefore stated for mempools of plain transactions.
- `syncTimeoutHeight` discards the factory returned by `WithTimeoutHeight`.
- A delegated payer signs one document, which names one signer; a delegated
  transaction with two signers cannot pass.
- `chain/modules/svm/types/msgs.go:33` announces that signers are checked for
  uniqueness; the loop only parses them.
- `QueueBroadcastMsg` may time out after part of its messages was accepted, and does
  not say how many (`CallPrefix` says which).
- A batch that fails is dropped without a token: a `BroadcastDone` caller waits for
  the next batch that succeeds.
- `GetOrLinkSvmAccount` returns the caller's key with a nil error also if the link
  message was refused or failed in its block; the caller would have to look at the response
  code, and the examples do not. `ReturnedKeyLinked` is about calls without a failure code.
- The deploying examples print the code of an upload transaction and go on, and
  print that the program is deployed in any case: after a failed part they deploy an
  incomplete program. `DeployedComplete` excuses deployments after a reported failure.
- A deploying example that is started again after its accounts were created stops at
  the simulation of `CreateInitAccountsMsg`: it cannot resume an upload.
- `SimpleFileWAL.Write` loses the previous record if a crash comes after the
  Truncate, and ignores the height.
- A bytes field has the type `uint8[]` in the typed data and is base64 text in the JSON;
  it can be signed only if that text is a numeral below 256, and is bound by that number.
- The comment of `typToEth` says that arrays of basic types are supported; a message
  with a non-empty list of strings or numbers has no hash. `AcceptedExactly` says what has.
- Two fields whose paths have one name after `sanitizeTypedef` share a type, to which the
  fields of both are appended (`eip712_cosmos.go:267` and on). If both have a field of
  one name, the data of one is encoded twice and counted twice, which can make up for a
  field that is not in the type. `HashBindsDocument` is therefore stated for types
  whose fields have distinct names (`DistinctNames`).
- A chain id from 2^63 on becomes negative in `WrapTxToEIP712` and is then refused.

## 7. Not modelled

- Cookies: `sessionEnabled` is set nowhere, so none is ever fetched. Queries, gas and
  fee formulas, network configuration, chain types: no state, or none that influences
  what is sent.
- `InitializePythOracle` (one more query, link, send), `token22.go` (builds one
  instruction).
- What displays typed data (`Format`, `formatData`, `Pprint`), `UnmarshalValidatorData`,
  `SignTextValidator`, and the primitive types that the walk never produces.
- ValidateBasic of the other modules' messages and of injective's stream requests:
  one stateless check of a field after another.
- Generated code, which is 98% of the repository's lines and has no behaviour of its
  own; the example programs apart from the two patterns above.
- The keepers and message servers of the chain's modules: not in this repository.
- Overflow of sequences (64 bits) and real time: timeouts are nondeterministic.

## 8. Plan

The order was: queue and broadcasting, their composition, ante handler and SVM
messages, typed data, WAL, client helpers, each with its theorems; then the proofs of
the remaining invariants of the client and the ante handler, of the lockstep usage and
of typed data. All safety properties of the runs but `AcceptedExactly` are proved. What is left:

1. `AcceptedExactly` over the levels of a Go type, as `HashBinds` is over the levels of a
   document: `Shape` and `Signable` as functions, and the walk's stack related to them.
2. The structured messages of the other modules (strategy, fnft, bazaar, astromesh), as
   operators against declarative definitions, if their checks grow beyond single fields.
