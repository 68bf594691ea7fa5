# Monmouth L2 in TLA+

TLA+ models of Monmouth, an L2 rollup built on reth (Rust) with Solidity
contracts on L1 and a TypeScript wallet SDK, with TLC configurations that check
them and TLAPS proofs of their most important properties. Paths below are
relative to the root of the repository.

- `PROJECT.json` names every component, run, mapped definition, hazard, finding
  and theorem; this file explains them.
- Check a module with `tlc -config X.cfg M`, its proofs with `tlapm MProofs.tla`.

## 1. The system

### Parts and their state

| Part | Code | State | Operations |
| --- | --- | --- | --- |
| L1 rollup contracts | `contracts/src/SequencerInbox.sol`, `StateCommitmentChain.sol` | batch headers, hashes, state roots, two counters, the sequencer of each | `submitBatch`, `commitStateRoot`, `setSequencer`, views |
| L1 bridge contracts | `contracts/src/L1StandardBridge.sol`, `CrossDomainMessenger.sol` | ether, deposit nonce, finalized withdrawals; message nonce, sent and relayed messages | deposit, receive, finalize; send, relay |
| L2 bridge contract | `contracts/src/L2StandardBridge.sol` | nonce | withdraw |
| Sequencer | `engine/src/sequencer.rs` | pending transactions, batch index and parent hash, message queue; up to four tasks on timers | `start`, `produce_block`, `submit_batch`, `poll_l1_deposits`, `process_pending_deposits`, `add_transaction`, `shutdown` |
| L1 client | `engine/src/l1_client.rs` | last scanned block | submit batch, commit root, finalize, poll deposits, each one RPC call or two |
| Message queue | `primitives/src/message_queue.rs` | three queues and a list of processed hashes, each behind its own lock | `enqueue`, `dequeue_*` |
| L2 precompiles | `evm/src/precompiles.rs`, `factory.rs` | a static message queue of their own | five precompiles |
| Engine driver | `engine/src/engine_driver.rs` | head hash, block number | a block per tick by four Engine API calls |
| Batch builder | `engine/src/batch_builder.rs` | pending blocks | not called by anything |
| Transaction pool, ExEx client, ExEx host | `txpool/src`, `exex-host/src` | running flag, subscribers | classify, fetch context, plan; broadcast chain events |
| Node | `node/src` | none but who owns what | wires the parts; drops the sequencer or its handle |
| Escrow contract | `wallet-sdk/contracts/MonmouthEscrow.sol` | escrows, nonces, dispute flags, fee, admin, funds | create (3 ways), release (2 ways), refund, dispute, resolve, administration |
| Verifier contract | `wallet-sdk/contracts/MonmouthVerifier.sol` | used nonces | verify identity, verify payment |
| Guardrails and payments | `wallet-sdk/src/guardrails/PolicyEnforcer.ts`, `MonmouthWallet.ts`, `payments/X402Client.ts`, `PaymentRouter.ts` | policy, session, spending of the day, connection, `localStorage`, payments in flight | pay by x402, directly, simulated, for an escrow; change of policy, session, reload |
| Activity log, memory client | `wallet-sdk/src/memory/ActivityLog.ts`, `MemoryClient.ts` | entries and next id, in memory and in `localStorage`; sync timer | log, settle, delete, clear, export, import, save, reload; sync by timer, by hand, on coming online |
| Activity database, migration | `wallet-sdk/src/memory/ActivityDatabase.ts`, `migration.ts`, the asynchronous methods of `ActivityLog.ts` | a table in IndexedDB, a log, a backup and a flag in `localStorage`, all shared by the tabs | log, sync, delete, prune, import; migrate, roll back, reset, drop the backup |
| Token registries | `wallet-sdk/src/tokens/TokenRegistry.ts`, `SolanaTokenRegistry.ts` | tokens by address, by symbol and by mint, the user's tokens, cached lists with their age | load lists, look up, add, remove, clean; safety of an address |
| Escrow client | `wallet-sdk/src/commerce/EscrowClient.ts`, `types.ts` | each page's copy of the escrows, the copy in `localStorage` | create, release, refund, dispute, resolve, expire, clear, load |
| Wallet adapters | `wallet-sdk/src/adapters/{evm,solana}/adapter.ts` | a key, an external wallet whose user decides, a flag | connect, sign, send |
| Agent wallet | `wallet-sdk/src/wallet/AgentWallet.ts` | limits, session, spending of the day, what is saved of them | send, record, change limits, prolong, restore |
| Agent identities | `wallet-sdk/src/identity/AgentIdentity.ts`, `wallet/AgentIdentityManager.ts` | a document, the documents saved by account | initialize, update, sign, verify, clear, restore |
| Solana x402 client | `wallet-sdk/src/payments/SolanaX402Client.ts` | configuration, requests in flight | fetch, approve, sign, repeat; pay by transaction |
| Typed data signer | `wallet-sdk/src/signing/EIP712Signer.ts`, `verification.ts` | account, signer, next nonce and used nonces of each account, in memory | sign an identity, a payment, an escrow request; verify them here, anywhere, on L2 |
| Rest of the wallet SDK | `wallet-sdk/src/core`, `test-app` | see "Left out" | |

### How they interact

- The sequencer's **batch submitter** drains withdrawals from the message queue,
  sends a batch to `SequencerInbox`, waits for the receipt, commits the state root
  to `StateCommitmentChain`, then finalizes the withdrawals on the bridge. Each
  arrow is an `await` on an L1 node that may refuse, lose the answer, mine late or
  never. All the sequencer knows is in memory; `start` reads index and parent hash
  back from L1.
- **Withdrawals** are numbered by `L2StandardBridge` and paid by `L1StandardBridge`, which
  asks `StateCommitmentChain` whether some batch is committed and then calls the target; the
  target may call it again before that call returns.
- The **deposit poller** reads deposit events from L1 in windows of 10 blocks and
  enqueues them; the **deposit processor** empties that queue. `add_transaction`
  and the **block producer** share the list of pending transactions.
- The four tasks end by a message on their channel or when its last sender is
  dropped; the senders are spread over `L2Sequencer` and `SequencerHandle`, which
  have different owners (`node/src/main.rs`, `node/src/builder.rs`).
- The L2 message passer **precompile** enqueues into a static queue, the sequencer
  reads its own.
- The wallet validates a payment, awaits servers, users and signatures, and counts
  the payment when it has succeeded. Payments overlap; a page reload forgets those
  in flight and restores the rest from `localStorage`. Escrow payments end in
  `MonmouthEscrow`, which anybody may call in any order.
- The **memory client** reads what is pending in the activity log, awaits the memory
  service and marks entries in the log as it is by then. The application goes on
  using the log meanwhile, and any number of syncs overlap.
- The **migration** reads the log in `localStorage`, awaits the insertion into
  IndexedDB, sets a flag and removes the log. Tabs share all four and nothing keeps
  them apart.
- An **agent wallet**, an **identity manager** and a **Solana x402 client** each sit
  on an adapter, whose external wallet the user may connect, switch or disconnect
  between any two awaits. What they decide by is saved in `localStorage`, which may
  refuse, and read at the next start.
- The **typed data signer** takes a nonce, awaits the wallet and notes the nonce of the
  account that is set by then. What it signed is checked by itself, by functions of the
  SDK that remember no nonces, and by `MonmouthVerifier`.

### What is hard, and what makes each part correct

| Part | Hard behaviour | Correct means |
| --- | --- | --- |
| L1 contracts | any account, any arguments, changes of sequencer; the first index; zero as a value | one hash-linked list, history final |
| L1 and L2 bridge | the target is called halfway and may call back; a failed call undoes all that was done inside it; withdrawals that differ in their nonce only | a withdrawal is paid once, and marked exactly if it was |
| Batch submitter | lost receipts, reverts taken for success, old transactions mined late, crashes, partial failure between inbox and commitment | roots agree with batches, no withdrawal twice, an append-only chain; progress when nothing fails |
| Message queue | three separate locks, concurrent callers, two instances | at most one push per caller, refusals justified, everything handed out |
| Deposits | windows, head races, failed queries, restarts, nonces and hashes | a gapless list in order, every scanned deposit credited |
| Block producer | limits at their boundary, wrapped sums, a transaction that never fits | first come first served, blocks within limits, progress |
| Tasks | drop versus message, bounded channels, several handles | shutdown returns, no task outlives it |
| Escrow contract | five settlement paths, re-creation of ids, shared nonces, fees and splits, transfers that fail | never overpaid, every token accounted for, no replay |
| Guardrails | check, await, act; day changes; approval of any length; reloads; lost answers | the counter is exact, overspending bounded, nothing signed that is not allowed |
| Database and migration | two tabs at once, a tab closed halfway, failing writes, keys read before an await | nothing that was logged is lost, no more copies than there were causes, marked is sent |
| Token registries | lists that arrive late, lookups that overlap them, the user's tokens at the same address, two maps with different keys | "verified" means from a list or built in, and stays so until the user removes it |
| Escrow client | pages with copies of their own, last writer wins, expiry compared in three places | settled once unless a page was given a second open copy; what is offered is accepted |
| Agent wallet, identities, Solana payments | check, await, count; an account switched between awaits; starts from what was saved | overspending bounded, no start forgets, who is named signs |
| Typed data signer | several calls wait, are refused, or return under another account; reloads; three readings of an expiry | no nonce is taken twice between two reloads, all that check a payment agree |
| Activity log and sync | marking by ids read before an await, ids after clear and import, saves refused in silence, overlapping syncs | ids stand for one entry, what is marked was sent, nothing confirmed is sent again, everything is sent some day |

The hazards, each with its source line and the properties that watch it, are in
`PROJECT.json`.

## 2. Modules

```
 L1Rollup --EXTENDS--> BatchSubmitter --refines--> RollupChain
        |                   |--> BatchSubmitterProofs      MC: MCL1Rollup, MCBatchSubmitter
        |--EXTENDS--> L1Bridge --> L1BridgeProofs
 MessageQueue                                              MC: MCMessageQueue
 DepositBridge --refines--> DepositStream                  MC: MCDepositBridge
 BlockProducer + SequencerTasks --EXTENDS--> Sequencer     MC: MCSequencer
 MessageQueue, DepositBridge, Sequencer --> SequencerProofs
 MonmouthEscrow --refines--> EscrowVault                   (checked as it is)
        |--> MonmouthEscrowProofs
 SpendGuard --> SpendGuardProofs                           MC: MCSpendGuard
 ActivityLog --EXTENDS--> MemoryClient --> MemoryClientProofs    MC: MCMemoryClient
 ActivityDatabase, TokenRegistry, SolanaTokenRegistry      MC: MCStores
        |--> StoresProofs
 ChainAdapter --EXTENDS--> AgentWallet, SolanaX402, AgentIdentityManager
 AgentIdentity --EXTENDS--> AgentIdentityManager           MC: MCWallets
 EscrowClient, EIP712Signer
 (these seven) --> WalletProofs, which EXTENDS SpendGuardProofs for its lemmas
```

Names follow the code. A step is what happens between two awaits, two lock
acquisitions or two transactions. Operators marked "Mutant" are the same
definition with a plausible mistake in it; they show that a property notices the
mistake, and no specification uses them.

**L1Rollup** models both rollup contracts: `InboxAccepts` and `SccAccepts` are the
`require`s, `StoreBatch` and `StoreRoot` the assignments. A batch hash is a number
(keccak is assumed free of collisions), a root a model value with zero among the
roots. `L1Next` lets any account call anything.

**L1Bridge** puts both bridge contracts beside them. `finalizeWithdrawal` is split at its
call of the target: `FinalizeWithdrawal` is what comes before, `CallReturns` and `CallFails`
its two ends. `frames` is the stack of calls that are open, each with the state its failure
would restore; while one is open only the target acts on L1, and it may deposit, send ether
or finalize again. As in the contract, any well-formed proof is taken and the batch that the
caller names need only be committed. `MessageHash` is the tuple of the hashed fields;
`paid` is history. `InitiateWithdrawal` is the L2 side.

**BatchSubmitter** puts `submit_batch` and the L1 client in front of these
contracts. `pc` is the await at which the task is. `mempool` holds transactions
the node accepted, whoever still waits for them; `MineTx` executes them in any
order, `DropTx` loses one. A failed call, a lost receipt, a drop and a crash each
cost one of `MaxFaults`, except refusals that the node must give. Reverted
receipts are accepted as success, because `l1_client.rs:224-229` never reads
`receipt.status`. History variables record what each batch carried
(`carried`) and which indices were taken for done after a revert.
`SendBatch(root)` chooses any root: where the state root comes from is the state
provider's business.

**RollupChain** is the promise to a reader of L1: batches are appended, none
repeats, no withdrawal is carried twice, roots are committed one by one behind the
batches. The refinement mapping is in `BatchSubmitter` (`Chain`).

**MessageQueue** has the three lock acquisitions of `enqueue` as three steps of
each caller (`LookUp`, `PushBack`, `MarkProcessed`) and both instances of the
program. Equal messages have equal hashes and are one element.

**DepositBridge** has L1 as a growing `log` of deposit events with the length it has up to
each block (`upTo`), the poll as `StartPoll`, `QueryOk` or `QueryFails`, `EnqueueFound` per
deposit and `EndPoll`, and the processor per deposit. The `window` is there from the start of a
query to its end, as the local variables of `poll_deposits` are. The hash of a message is its payload, nonce and
wall-clock second (`sequencer.rs:522-536`). Crediting is a TODO in the code; a
deposit the processor took is what the code logs as processed.

**DepositStream** is what L2 gets to see of the log: the next deposit credited is the one that
comes next on L1, from some first one on, and a restart alone moves the place. The refinement
mapping is in `DepositBridge` (`Stream`): the place is the position of the first window in the
log and what was credited since.

**BlockProducer**, **SequencerTasks**, **Sequencer**: the first has the pending list and
`produce_block`, with gas sums modulo `Word` (2^64 in the code), and as history what it took
(`included`) and where its blocks end (`cuts`); the second the four
tasks, their channels of capacity one and the objects that own the senders; the
third composes them: the handler of the producer task is `ProduceBlock`. `TasksSpec` is
the tasks and owners by themselves, whatever their handlers do.

**MonmouthEscrow** has a transaction per step: all functions that move funds are
`nonReentrant` and a failed one reverts. An id is the tuple that the code hashes.
`Refusing` accounts revert when sent ether.

**EscrowVault** is the contract to whoever looks at its money only: it comes in under an escrow or
as a gift, and leaves when an open escrow is settled, which ends it and pays its amount less at most the
largest fee. `MonmouthEscrow` maps to it (`Vault`) by its open escrows and what it holds.

**SpendGuard** has the pieces of JavaScript between awaits as steps of up to
`MaxInFlight` payments, the policy, session, day counter, connection and
`localStorage`. `Allowed` is `validateTransaction`. `PersistWallet` is `persistState`, which
may save nothing and then says so only to the console. History: `recorded`, `settled`,
`unsaved` (`localStorage` has not the counter of today), `lapses` (pages that started
like that).

**ActivityLog**, **MemoryClient**: the first has the log's methods in `localStorage`
mode, each a step, as JavaScript runs them to the end; a save may be refused, which
`save` only writes to the console. `SetStatus` is `updateSyncStatus` for several ids with
a save for each, of which the later ones may fail (`SavedInPart`). The second splits `sync` at its
await: `Sync` up to it, `Answered` or `SyncFails` after it; `PageReload` cuts off all
syncs. History: `issued` (which activities an id has stood for), `confirmed` (what an
answer said the service has), `revived` (entries may have come back by an import, an
older copy, or the application setting one to pending).

**ActivityDatabase** has the table, `localStorage` with its three items, the tabs that
are in IndexedDB mode and one log that is still in `localStorage` mode. `Begin` reads
flag and log and writes the backup, `FinishMigration` is what follows the insertion,
`InsertFails` and `AfterFailure` its failures, `CloseTab` may come between. Operations
of several awaits (`GetPendingSyncAsync` and then `MarkSyncedAsync`,
`ReadSyncedOlderThan` and `DeleteSyncedOlderThan`) are a read and a write with the keys
kept between them. History: `sent`, `entrusted` (found by some migration), `deleted`,
`repeats` (events after which an entry may rightly be inserted again).

**TokenRegistry**, **SolanaTokenRegistry**: a token is a symbol, an address and whether
it is verified. A list is fetched (`LoadList`) and arrives (`ListArrives`,
`JupiterArrives`) or not; a lookup of an unknown address is answered later
(`LookupAnswered`, `MintAnswered`). The Solana registry keeps a map by symbol and one
by mint and saves both. `Safety` is `checkTokenSafety`.

**EscrowClient** has the calls of an application as steps, with one copy of the escrows
per page and the copy in `localStorage`. `PayerMay`, `PartyMay` and `ArbiterMay` are the
guards of the calls, `AvailableActions` what `getEscrowStatus` offers. `Becomes` sets a
state and saves. History: `settlements`, and `secondCopies`, the loads that gave a page
an open copy of an escrow which was settled or open elsewhere.

**ChainAdapter** is both adapters: of a key, of an external wallet, or of both.
`Address` is `getAddress`, `Signer` whom `sign` asks; these differ for an adapter of
both whose wallet is disconnected. A Solana transaction is `building` (blockhash
awaited), `signing` (wallet awaited), `sending`. `WalletChanges` is the user.

**AgentWallet** sends through it: `SendTransaction` validates and submits, `SendReturns`
counts. `CheckDayReset` also runs in the readers, as in the code, and saves. `NewWallet`
is the constructor, in a new page or in the same one. History: `counted`, `outside` (told to
`recordSpend`), `refusedSave`, `forgotten` (a start from less than was known).

**AgentIdentity**, **AgentIdentityManager**: the first has the operations for an address
it is given and composes them for a `MonmouthWallet`, whose connection is a variable;
the second composes the same operations for a chain adapter. A DID is the account it
encodes, a document its version. With a callback for signatures (`hasCallback`), or an
adapter, `SignIdentity` asks and `WalletSignsIdentity` is the user, who signs with the
account the wallet is at by then; without one, the default, the signature is a stub, which
no wallet has a part in. History: `unswitched` and `ours`, whether the account is still
the one the document was adopted for.

**SolanaX402** has a request from `FetchPaid` to `RequestEnds` with each await between:
the answer 402, the approval, the signature, the repeated request; and a payment by
transaction (`CreateTransaction`, `SendPayment`, `TransactionSigned`). The payer is chosen
before the wallet is asked (`SignPayment`), and who signs is known when it has
(`PaymentSigned`). `WalletMoves` is the user; history: `switched`, that the wallet changed
while it was asked.

**EIP712Signer** has a call from `AskWallet`, which takes the nonce (`TakeNonce`), to
`SignReturns`, which notes it, or `SignFails`. A signature is the account whose key made it over
its message. The ways to check one are operators: `VerifyOwnIdentity` and
`VerifyOwnPayment` of the signer, `VerifyIdentitySignature` and `VerifyPaymentSignature` of
`verification.ts`, `VerifyIdentityOnChain` and `VerifyPaymentOnChain` of the contract.

## 3. Runs

| Run | Question | Bounds | Properties |
| --- | --- | --- | --- |
| `l1_rollup` | Can any sequence of calls, also from inside a payment, break the contracts' history or pay a withdrawal twice? | 2 accounts, 2 batches and hashes, a root and zero, 2 block times; 2 messages of value 1, 1 deposit, 2 ether, calls 2 deep | `HashChain`, `HistoryIsFinal`, `PaidOnce` |
| `submitter` | What reaches L1 under faults? | 3 batches, 5 hashes, 1 withdrawal, 2 faults of any kind | `RootsAgreeUnlessReverted`, `PostedOnce`, `ImplementsRollupChain`, `EveryBatchCommitted`, `EveryWithdrawalPosted` |
| `submitter_wedged` | Does the sequencer recover from one failed commitment? (no) | as above, 1 fault | `CommitsRecover` violated |
| `queue` | Do three lock acquisitions make a sound queue? | 2 native threads, 1 in the precompile, 2 messages | `CopiesAreCalls`, `RefusedWasQueued`, `SequencerHandsOut` |
| `deposits` | Is the log of deposits credited as it is on L1? | 4 blocks of up to 2 deposits, windows of 2, 2 seconds, 1 restart | `ImplementsStream`, `EveryScannedDepositCredited` |
| `sequencer` | Are transactions taken in order, within limits, and does everything shut down? | 3 transactions (gas 1 or 3), blocks of 2 and gas 3, 2 handles | `FirstComeFirstServed`, `ClosedMeansStopped`, `FittingTransactionsIncluded`, `ShutdownsReturn` |
| `escrow` | Can any sequence of transactions overpay, lose or replay? | 2 accounts, of which one refuses ether, 1 token and ether, 2 creations of amount 3, 2 blocks, 1 signature, 1 gift | `Accounted`, `ReplaySafe`, `ImplementsVault` |
| `escrow_amount` | Does `amount` say what is in escrow? (no) | 2 creations | `AmountIsInEscrow` violated |
| `spend` | Do the guardrails hold while payments overlap and saves fail? | 3 payments, 2 at a time, 2 policies, 2 days, sessions of 2 | `DailySpentIsRecorded`, `OverspendBounded`, `SigningIsAllowed` |
| `memory_sync` | Are activities synced once, and only those that were sent? | 2 activities of one agent and millisecond, 2 ids, 2 syncs at a time, 1 refused save, 1 export | `IdsUnique`, `SyncedWasSent`, `ConfirmedNotResent`, `EveryActivitySynced` |
| `stores` | Does a migration keep what it moves, and does "verified" mean anything? | 2 activities of one moment, 2 tabs and a log, 2 keys, 1 repeated migration; 3 addresses, 2 symbols, 2 lists, 1 tick of the clock | `MigratedIsKept`, `CopiesBounded`, `MarkedWasSent`, `TrustIsListed`, `VerifiedIsGenuine`, `ListedStaysVerified` |
| `wallets` | Do the wallets of the SDK keep to account, limits and terms? | 1 escrow on 2 pages, 3 ticks; 3 accounts, 2 versions of a document; 3 transactions of 2, 2 at a time, 2 days; 1 request, 8 configurations; 2 signings, 2 accounts, 1 reload | `SettledOnce`, `OfferedIsAccepted`, `AcceptedIsAttested`, `AgentSpendBounded`, `NothingToForget`, `PayerSigns`, `NoncesDiffer` |

Why the bounds are enough to meet the interesting cases:

- *l1_rollup*: the second batch is the first whose parent is checked, and the second root the
  first that could come out of order; the theorems cover all others. The two messages are
  alike but for their nonce, so that a withdrawal made twice in one L2 block is among the
  cases. Calls 2 deep with 2 ether let a target finalize the other message, try the same
  one, or take the ether that its caller's payment needs.
- *submitter*: two faults allow a lost receipt followed by a crash, so that an old
  transaction and a new one compete for an index; the third index shows what
  happens after that. Five hashes allow two batches that never arrive.
- *queue*: two native threads with the same message race between lookup and note;
  the precompile thread shows that the other instance is separate.
- *deposits*: with windows of 2, four blocks need at least two polls, one of which
  may start in the middle of growth; two deposits per block exercise the nonce
  (block times stride plus log index); one restart resets the window.
- *sequencer*: a block fills by size (1, 1), by gas (3 alone) and is cut before a
  transaction that does not fit (1, 3). Two handles overfill the channels of
  capacity one. `L1Configured = FALSE` leaves the deposit poller out, whose
  loop is the submitter's and only multiplies states.
- *escrow*: an id can be used twice and stand beside another one, in ether or in a
  token; one amount is enough for that. A fee of 2 of 4 and splits of 2 and 3 of 4 do not
  divide the amount of 3, so that they are rounded; a fee of 3 of 4 is above the largest and must be
  refused. The recipient refuses ether, which may block a release or a split, and takes
  tokens. The depositor is also the arbiter, durations include the zero that only the
  signed path takes.
- *spend*: limits of 2 a transaction and 3 a day with amounts of 2 make the second
  payment of a day too much; two days and a clock of three ticks let a payment
  cross midnight. Any save may be refused, any number of times. Three payments reach the
  bound of a day on one page; that of a day on two pages is left to the theorem.
- *memory_sync*: two activities with the same stamp are one for `import`; two ids
  let an id be used twice (after a clear) and an imported entry meet one that is
  there; two syncs overlap, the third would repeat one of them. One refused save
  makes `localStorage` lag behind, so that a reload goes back.

- *stores*: a behaviour is of the database, of one registry or of the other. Two
  activities of one agent and moment are one to an import only if they are also of one
  kind; these are of two. Two keys are enough
  for a key to be handed out twice after a table was cleared, if the code did that; a
  repeat allows one more migration than the flag should. Both lists disagree about an
  address, and the user's tokens lie at listed and unlisted ones.
- *wallets*: a behaviour uses one of the seven ways (`app`). One escrow on two pages
  is enough for every order of writing back; the clock runs to one tick before, at and after
  expiry. Limits of 2 a transaction and 3 a day make a second transaction of a day too
  much unless it overlaps. An adapter of both kinds has an account that signs and another
  that pays. Two accounts of the wallet let it be switched between being asked and
  signing. Two signings are enough for one to wait, be refused or come back under another
account while the other takes its nonce; the reload lets a nonce come again.

`CHECK_DEADLOCK FALSE` is set where the bounds let the system come to rest:
everything posted and all faults used (*submitter*), all blocks scanned
(*deposits*), everything shut down (*sequencer*), no creation left (*escrow*), no
payment left (*spend*), all activities and tokens used up (*stores*), all clocks and
requests at their end (*wallets*).

Each module also has a type invariant (`TypeOK`, `L1TypeOK`, `DbTypeOK`, ...). It holds
in every run and is left out of the configurations, where it only costs time. The proof
modules prove it, as a theorem or as part of their inductive invariant.

### Fairness

- *submitter*: `WF(Task)`, because the timer of `start` fires for ever and an await
  ends; `WF` of refusals that the node is forced to give; `WF(MineTx)`, a node mines
  what it has accepted. Faults are never required, and a property excuses a
  behaviour with faults where the code makes no attempt to recover.
- *queue*: `WF` of a caller inside `enqueue` (no lock is held across a blocking
  call) and of the two dequeues, which run on timers.
- *deposits*: timers are `WF`; the query is `SF`, as it is repeated every 12 s and
  an RPC endpoint that always fails would make any statement void.
- *sequencer*: handlers end and timers go on (`WF`); a stop that stays ready is
  taken in the end (`SF`), because `tokio::select!` picks at random among the
  branches that are ready. `HandlesEnd` says that the owner of a handle shuts it
  down or drops it some day; a shutdown of the sequencer awaits tasks that
  would otherwise have no reason to stop.
- *memory_sync*: an interval fires again and again while it is set (`WF`); a service that is
  asked again and again answers some day without a conflict (`SF`). An entry that
  always conflicts stays pending and is sent for ever.

## 4. Proofs

All theorems hold for every value of the constants that satisfies the module's
`ASSUME`, without the bounds of the runs (bounds such as `MaxFaults` are constants
and arbitrary). What the assumptions say beyond types is little: activities and tabs are
finitely many, no address stands for "none", a stub signature is nobody's. Some theorems have
hypotheses besides, which are stated with them and explained below.

**L1BridgeProofs.** First the contracts by themselves. `ContractsTypeCorrect`, for any callers and arguments. `InboxIsLinked`
(`HashChain`) needs nothing else: `submitBatch` compares the header's parent with the
latest hash, and the place it takes was empty. `PostedStays` (`HistoryIsFinal`) is an
action property: a step writes at most at the next index, which holds nothing yet.

Then with the bridge. `BridgeLeavesRollup`: the composition implements `L1Spec`, so that
`BridgedInboxIsLinked` and `BridgedPostedStays` follow from the theorems above.
`WithdrawalsPaidOnce` (`PaidOnce`): that payments and marks agree now is not inductive,
because a failed call goes back to an earlier state; `BridgeInv` says that they agree in every
state on the stack as well (`Settled`), and that L2 numbers its withdrawals in order. A new
payment then counts and marks one message that was neither, as the hash is injective
(`HashIsInjective`).

**BatchSubmitterProofs.** `TypeCorrect` first. `CommitsBehindInbox`: the counter of
commitments never passes that of batches. This is not inductive: that the index
about to be committed is below the inbox's counter follows from the task being
past `HasReceipt`, and every commit in the mempool must carry that fact with it
(`Behind`): a batch in the mempool is the next one or its index is taken.
`RootsAgree` adds `RootsFollow`: a commit in flight carries the root of
the inbox's header at its index, unless that index is in `revertedAsOk`.
`WithdrawalsPostedOnce` needs `HashesUnique` (a hash at or above `nextHash` is
nowhere) and `DrainedOnce` (two hashes carry disjoint withdrawals, and none that is
pending), as `PostedOnce` speaks only of what has been mined. `SubmitterImplementsChain`
maps `Init` to `Chain!Init` and each action to a `Post`, a `Commit` or a stutter.
`ProvidedRootsAreSeen`: `isCommitted`, which takes a zero root for none, is truthful of every
committed batch if the sequencer never sends that root (`RootsProvided`), as one with a state
provider. Roots travel from the await to the mempool and are mined in any order, so that the
invariant speaks of those on their way as well (`RootsReal`). Without a provider it fails, see
`IsCommittedIsTruthful` in section 5.

**SequencerProofs** has four parts.

*Message queue.* The inductive invariant ties the pushed pairs to the noted
hashes: a pair is pushed only by a caller that is between its push and its note or
whose message is noted (`PushedIsNoted`), and a noted hash was pushed into the
same instance (`NotedWasPushed`). So no caller pushes a message twice (`PushedOnce`), and
`CopiesCounted` (`CopiesAreCalls`) adds that an instance has one copy for each push, in a lane or
handed out: three locks lose nothing and make nothing up. From the count follows
`LoneCallerHasNoDuplicates`: with one thread that enqueues no message is there twice, as the images
of the calls are then as many as the calls. This is so of the sequencer's instance today, which only
the poller fills (`sequencer.rs:445`); it takes two threads to break `NoDuplicates` (section 5).

*Tasks.* `SequencerImplementsTasks`: the composition with the block producer implements
`TasksSpec`. `ClosedStopped` (`ClosedMeansStopped`) is proved of that: a shutdown awaits the
tasks in their order (`EndedInTurn`: all before the one it waits for have stopped), and nothing
starts a stopped task again. `SignalsInTurn` keeps the index of a handle's signals in range.

*Block producer.* `ServedInOrder` (`FirstComeFirstServed`): the invariant says of each block what
the loop compared, its gas modulo `Word` (`BlocksPassed`), and that the cuts stay inside
`included` (`CutsInside`), so that a new block leaves the earlier ones as they were. That is
always true. The comparison was made at every transaction of a block, and if no gas limit
is so large that it and a full block exceed a word (`GasFitsWord`), then by the first place
at which a sum would wrap none does (`PassedIsWithin`). Without it the code breaks the
limit, see `BlocksWithinLimits` in section 5. It holds of the code if pool or RPC refuse
such transactions, which nothing under `engine/src` does. The sum is a fold, whose value for a longer
list is shown by counting units of gas (`TotalIsUnits`).

*Deposits.* `DeliversLog` (`DeliversContiguousLog`) rests on a position in the log: behind all
the process has enqueued, before all it has found (`DeliveryInv`). What was credited and
queued is the piece of the log up to it, what was found the piece from it to the last block
scanned. That an enqueue is never refused needs `NotedInv`: noted hashes belong to deposits
before the position, and nonces grow along the log (`NonceGrows`, from
`MaxLogs < NonceStride`), so that nothing behind it has the hash of something noted. `PollInv`
says that windows follow each other. `DepositsImplementStream` maps each step to one of
DepositStream: a credit takes what is at the position next in turn (`HeadIsNext`), and the place of
the first window stays when L1 grows (`LogGrows`). `ProcessCreditsOnce`: a process never credits a
deposit twice, and with no restart `CreditedOnce` of section 5 holds, so that it is a restart
alone that breaks it. `RestartsBoundCredits` says how far: a deposit is credited at most once
more often than there were restarts, since each process adds at most one place to those of the
processes before it (`OneCreditMore`, `OlderBoundedInv`).

**MonmouthEscrowProofs.** `TypeOK`, `NeverOverpaid` and `ReplaySafe` are inductive
together, once it is known that a settlement pays out at most the amount. Products
and quotients of fee and split are kept symbolic by two arithmetic lemmas.
`FundsAccounted` (`Accounted`) is about a sum over all escrows. That the fold of the model
gives what a sum should is proved by counting coins: a set of escrows has as many coins (pairs of
an escrow and a number up to its amount) as the fold gives (`TotalIsCoins`), as a smallest set for which it
were otherwise could lose an element. Sums then change by what is added or removed (`TotalAdd`,
`TotalRemove`), and each action is one of four moves of money (`NextMoves`): funds come in, an
escrow is settled, a gift, or nothing (`MoneyMoves`). `EscrowsAreFunded` follows:
the contract owns at least the amount of each open escrow. `EscrowImplementsVault` reads the same
moves as steps of EscrowVault, for which the fee must be at most the largest (`DivMonotonic`).

**SpendGuardProofs.** The strengthening of `DailySpentIsRecorded` also speaks of the
copy in `localStorage`, which may be old: what a page would start from (`SpentRestored`) is
never more than was recorded on its day, and all of it unless a save of today's counter
was refused or cleared (`unsaved`) or has been (`lapses`); and nothing is recorded on
later days. `Guarded` (`SigningIsAllowed`)
is an action property: the only two steps that start a signature validate in the
same piece of JavaScript.

`DayIsBounded` (`OverspendBounded`) first bounds what the counter says on its own day;
what was recorded is at most that and the bound once more for each page that started
without the counter (`OverspendInv`). The bound of the counter is about payments that were all allowed before any of them was
counted. That the count is within the bound is not inductive: the invariant (`HasRoom`) must say
that it stays so when all those which will be counted without another check have been,
of which one is counted in full and each other with at most a transaction's limit. Who is allowed joins
while fewer than `MaxInFlight` are under way (`RoomJoins`), who succeeds moves from the
committed to the counted (`RoomCounted`), and those who cross midnight were allowed on the day
before (`RoomNewDay`). The lemmas do this for any set of payments and are used for the agent wallet as
well. The hypotheses are those under which the bound is meant: `SameLimits`, as a policy that
was changed in between bounds nothing that an earlier one allowed, and `AllNative`, as token payments
are checked with an amount and counted with none (`X402Client.ts:378`, `WithinDailyLimit` in
section 5). The policies and requests of the run satisfy them.

**MemoryClientProofs.** `SyncedWasSent` is not inductive, because each copy of the log may
become the log again: `IInv` says of the log, of `localStorage` and of the export that
their entries are pairs that were issued and are synced by right (`Sound`), and of a
waiting sync that its entries were issued. What is marked by an answer then has an
id of something confirmed, and stands for that or for a second activity (`Mixed`).
`ConfirmedNotResent` needs `FreshInv`: until `revived`, an activity has one id, so that the
answer which confirms it also takes its entry out of `Pending`.
`IdsStayUnique` (`IdsUnique`) says of the log and of `localStorage` that their ids differ and are below
their own next id (`IdsInv`), and of an export that its ids differ below some number: an import
gives its entries new ids in a row, so that it has to count them (`ImportNumbers`), and a
reload takes back entries and next id together.

**StoresProofs** has three parts.

*Token registry.* `TrustedIsListed` (`TrustIsListed`): the index never says `verified` of an address
that is on no processed list, and what is listed is verified unless the user added something at the same
address (`IndexedInv`). The lists may arrive in any order.

*Solana registry.* The two maps and the saved copy are each bounded by what is listed, and a
lookup that is under way knows what it will answer; `UntouchedStaysVerified` needs that only the user's
own steps, or a lookup of the mint, take a listed one away.

*Database and migration.* `SyncedWasSent` (`MarkedWasSent`): whatever says `synced`, in the table, the log,
its copies or in a tab's hands, was sent; and what a tab is about to mark has keys that either
are of sent activities or of nothing, as a key is given once (`KeysInv`). `MigratedStays`
(`MigratedIsKept`) needs more than it says: what is owed must be in the database or in *each* of the
places that may become the log again (memory and backup), and a tab about to finish must find it in the database
(`KeptInv`). `CopiesAreCounted` (`CopiesBounded`) counts: the copies of an activity, and the tabs
about to insert it, and one more if a migration to come would find it, are together one and what was
repeated (`LoadInv`). A migration that begins takes over from who waited, the insertion turns an
inserter into a copy, a failure gives the activity back. Each of the four kinds of step is a
lemma (`LoadKept`, `LoadRepeated`, `LoadTaken`, `LoadSpent`).

**WalletProofs** has four parts.

*Escrows.* `EscrowsSettledOnce` counts: the settlements of an escrow, and one more if a
page still has it open, exceed the first by at most the second copies. Only a load can
open a copy, and it is counted when it does; a settlement closes one (`OpenPages` loses a
page). Two facts make it inductive: an escrow not yet created is open nowhere, saved or
not (`NotCreated`), and a change in one page leaves the others' copies alone.
`WhatIsOfferedIsAccepted` (`OfferedIsAccepted`) compares the guards that `getEscrowStatus` and the calls
have apart.

*Agent wallet.* `StartsFindEverything` (`NothingToForget`) follows because every
assignment of the four saved pieces is followed by a save in the same step, and the only
other assignment, the constructor's, takes them from what is saved. `CounterIsTheDay`
(`AgentSpendCounted`) needs that nothing is counted on days after the last
(`FutureEmpty`): a new day starts at zero because nothing is there, also when the start
was from nothing; and a saved day is never after today. `DayIsBoundedOnAdapters`
(`AgentSpendBounded`) adds the room of `SpendGuardProofs`; its hypothesis `EqualLimits` is that of
`SameLimits` there.

*Identities and payments.* `AcceptedIsAttested` needs that an unswitched account is the
controller of the document in memory, that a saved document is the account's it is saved
under (`SavedUnderController`), and that a signature under way whose account
stayed the same is over a document of its signer, or of the account the wallet is at as long
as nobody has signed (`SignatureInv`). With a chain adapter the one thing to add is that whom it asks to sign, if anyone, is
whose address it gives (`SignerIsAddress`), although `sign` and `getAddress` choose apart.
`PayersSign` (`PayerSigns`): the payer is who has signed, or, while the wallet is asked and
not switched, the account it is at (`Names`), although `publicKey` chooses the one
and `connected` the other. `sendPayment` is safe without the exception, as a transaction
that lacks the signature of its payer is not sent.

*Typed data.* `NoncesAreTakenOnce` (`NoncesDiffer`): the nonces of this load are at most the account's
counter (`NoncesCounted`), which is raised in the step that takes one, before the wallet is awaited. The property
speaks of what was signed; the invariant must cover what still waits.
`PaymentsCheckedAlike` compares the expiry as milliseconds of the call, of the message and of a block.

Only model-checked: everything that uses fairness or `~>`, whose proofs are out of
the prover's reach: `EveryBatchCommitted`, `EveryWithdrawalPosted`, `SequencerHandsOut`,
`EveryScannedDepositCredited`, `EveryActivitySynced`, `FittingTransactionsIncluded`,
`ShutdownsReturn`. Every safety property that a run checks is a theorem.

Induction over data needs care. The induction theorems of the library take an operator
as a parameter, which no installed prover can instantiate. What they are for is proved
from well-founded orders instead, whose minimal elements are a first-order fact: a
smallest set of escrows, or a smallest number (`Smallest`), for which a
claim fails is shown not to exist. That the recursive function inside a fold exists is
shown by giving one that satisfies its equation.

## 5. Disagreements between the code and what is said of it

Each is a definition in its module, with the quoted line in its comment; TLC finds
it violated in the instance given. The first two are runs; for the others put the
definition as the only `INVARIANT` or `PROPERTY` into the named configuration, with
the changed constants.

| Definition | Module, instance | What the code does | What is said |
| --- | --- | --- | --- |
| `CommitsRecover` | run `submitter_wedged` | after one failed commitment every later one is out of order (`sequencer.rs:364`, `StateCommitmentChain.sol:62`) | `README.md:321` "Commits L2 state roots to StateCommitmentChain" |
| `AmountIsInEscrow` | run `escrow_amount` | a second identical creation in a block overwrites the first (`MonmouthEscrow.sol:472`) | `MonmouthEscrow.sol:32`, "Amount in escrow" |
| `SyncedIsSynced` | `MCMemoryClient` | a sync marks by ids read before it waited; `clear` starts them again (`MemoryClient.ts:246`, `ActivityLog.ts:331`) | `docs/STATE_MACHINES.md:174` "Successfully synced with ExEx" |
| `ConflictsAreMarked` | `MCMemoryClient` | a conflict is only reported to listeners; the entry stays pending (`MemoryClient.ts:241`) | `docs/STATE_MACHINES.md:175` "Local and remote versions differ" |
| `SettledIsFinal` | `MonmouthEscrow` | the same overwriting revives a released escrow | `docs/STATE_MACHINES.md:62`, terminal |
| `BatchExistsIsTruthful` | `L1Rollup` | `batchExists(0)` is true of an empty inbox (`SequencerInbox.sol:107`) | line 105, "True if the batch exists" |
| `IsCommittedIsTruthful` | `L1Rollup` | a batch committed with root zero is denied (`StateCommitmentChain.sol:92`); the sequencer sends zero without a state provider (`sequencer.rs:327`), and only then (`ProvidedRootsAreSeen`) | line 90 "True if the batch has a state root commitment" |
| `ParentIsOnL1` | `BatchSubmitter`, 1 fault | a reverted receipt is taken for success (`l1_client.rs:224`) | comment at line 200 |
| `NoWithdrawalDropped` | `BatchSubmitter`, 1 fault | drained withdrawals are gone when the batch fails (`sequencer.rs:284`) | `docs/STATE_MACHINES.md:306` "FAILED (retry)" |
| `EveryPostedWithdrawalFinalized` | `BatchSubmitter`, no fault | all withdrawals are finalized under the zero hash (`sequencer.rs:293`), which is the hash of none, so the bridge refuses each (`L1StandardBridge.sol:144`) | `docs/STATE_MACHINES.md:445` |
| `NoDuplicates` | `MessageQueue`, 2 threads | both pass the lookup before either notes the hash (`message_queue.rs:31`, `:52`); with one it holds (`LoneCallerHasNoDuplicates`) | `docs/STATE_MACHINES.md:306` "DUPLICATE (rejected)" |
| `EveryMessageHandedOut` | `MessageQueue` | the precompile's queue is static and never emptied (`evm/src/precompiles.rs:28`) | `docs/STATE_MACHINES.md:296` |
| `EveryDepositCredited` | `DepositBridge`, no crash | the first poll starts near the head and never looks back (`sequencer.rs:423`) | `docs/STATE_MACHINES.md:515` |
| `CreditedOnce` | `DepositBridge`, 1 crash | after a restart the window is read again and the second is part of the hash (`sequencer.rs:531`); otherwise it holds (`ProcessCreditsOnce`) | comment at line 453 |
| `WithinDailyLimit` | `SpendGuard`, 2 in flight; also with token payments | validated before an await, counted after (`PaymentRouter.ts:178`, `:387`); tokens count nothing (`X402Client.ts:378`) | `wallet-sdk/README.md:66`, daily limit |
| `SettledWithinDailyLimit` | `SpendGuard`, 1 in flight | a lost answer leaves a settled payment uncounted (`X402Client.ts:277`) | the same |
| `NoAutoApprove` | `SpendGuard`, `MaxAutoApprove = 0` | zero means no limit (`X402Client.ts:255`) | line 44, "No auto-approve by default" |
| `ProducesWhileHeld` | `Sequencer`, `DropsSequencer` only | `main.rs:121` drops the sequencer and the producer ends while a handle is held | `docs/STATE_MACHINES.md:330` |
| `SubmitsWhileHeld` | `Sequencer`, `DropsHandles` only | `builder.rs:36` drops the handle and the submitter ends | `docs/STATE_MACHINES.md:405` "(every 60 seconds)" |
| `BlocksWithinLimits` | `Sequencer`, `Txs = {2, 7}` | the gas sum wraps (`sequencer.rs:243`) | `docs/STATE_MACHINES.md:362` "(respect gas limit)" |
| `OwnIdentityVerifies` | `MCWallets` | signing notes the nonce as used (`EIP712Signer.ts:139`), and verifying refuses used nonces (`:161`), so that the signer refuses what it signed itself | `EIP712Signer.ts:24` "Verify later" |
| `IdentityVerifiesOnChain` | `MCWallets` | the contract's domain names the contract (`MonmouthVerifier.sol:60`), the one that was signed does not (`EIP712Signer.ts:416`) | `verification.ts:119` "Verify identity signature on-chain", `MonmouthVerifier.sol:10` |
| `ExpiredIsRefundable` | `MCWallets` | `checkExpiredEscrows` moves an escrow to a state that no call accepts (`EscrowClient.ts:409`, `:225`) | `EscrowClient.ts:212` "Payer can refund if escrow expired or service failed", `docs/STATE_MACHINES.md:66` |
| `InitializeRestores` | `MCWallets` | only the constructor restores; `initialize` writes a new document over a saved one (`AgentIdentity.ts:180`) | line 168 "Initialize or restore identity" |
| `AcceptedIsSigned` | `MCWallets` | without `signTypedData`, the default, a hash of the document stands for the signature (`AgentIdentity.ts:472`, `:497`); `verifyIdentity` accepts it (a test wants it to, `AgentIdentity.test.ts:133`) | `AgentIdentity.ts:353` "Verify a signed identity" |
| `PayerAlwaysSigns` | `MCWallets` | the payer is read before `signMessage` is awaited, whose request names no account: a wallet switched meanwhile signs for another (`SolanaX402Client.ts:310`, `:323`) | line 97, "Payer public key", of what goes with the signature |
| `ZeroRequiresConfirmation` | `MCWallets` | without a callback, which is the default, `autoRetry` pays (`SolanaX402Client.ts:255`) | line 46, "0 = require confirmation" |

Besides, a transaction above the block gas limit stays at the head of the pending
list and stops block production for good (`sequencer.rs:248`): without its second
disjunct `FittingTransactionsIncluded` fails with a transaction of gas 4.

Met while modelling, each visible in the module's actions:

- *Database*: the constructor calls `autoMigrate` only when the migration is done, so
  that `cleanupOldBackups` is never reached from there. `importJSON` compares with the
  first record of the same agent and time only (`ActivityDatabase.ts:321` says the
  action, too). `queryAsync` ignores times when an agent or an action is given
  (`ActivityLog.ts:527`). The database's `getPendingSync` includes conflicts, the log's
  does not. An entry that another instance saves during the migration's wait is removed
  from `localStorage` with the rest.
- *Registries*: every save of the Solana registry stamps all cached tokens anew
  (`SolanaTokenRegistry.ts:541`), so that they never grow old while it is used. A lookup
  or a custom token may take a verified one's place under its symbol. A custom token with an
  empty symbol makes every unlisted address known (`TokenRegistry.ts:611`).
  `MAX_CUSTOM_TOKENS` is enforced nowhere; on-chain answers are cached and never read
  from the cache.
- *Escrow client*: a dispute and a release are accepted after expiry though they are
  not offered. Without an arbiter any connected account resolves a dispute.
- *Adapters*: sending and signing go on after `disconnect`, which only clears a flag. On
  the path through an external wallet `status` says `confirmed` of what was only sent.
- *Agent wallet*: a transaction that was broadcast and then rejected counts nothing.
- *Identities*: no signature is ever checked (`AgentIdentity.ts:503`,
  `AgentIdentityManager.ts:372`); `AcceptedIsAttested` is about those a wallet
  makes through this SDK, not about its stubs.
- *Typed data*: nonces live in memory and begin again after a reload. `useNonce` and
  `SignedData.signer` take the account that is set after the wallet has answered
  (`EIP712Signer.ts:139`, `:145`). An expiry of zero is none to the signer and in the
  past to `verifyPaymentSignature`. `usedPaymentNonces` is read and never written
  (`MonmouthVerifier.sol:33`, `:279`).
- *Solana payments*: an approval may outlast the request, whose expiry is not looked at
  again; with `autoRetry` off an approved payment above the limit is not made; the
  repeated request has no timer.

## 6. Left out

- *L1*: reorganisations, RPC endpoints that lag behind each other, and running
  without an L1 client (the submitter then only drains the queue).
- *Sequencer*: a second call of `start`; a wall clock that goes backwards. In
  sequencer mode `main.rs:72-93` disables the precompiles, so that today a node
  has either the sequencer's queue in use or the precompile's.
- *Escrow*: tokens that take a fee or call back; `view` functions, which read the
  state that is modelled.
- *Guardrails*: function selectors and deployments (no payment carries them),
  event listeners, two tabs that share `localStorage`.
- *Memory*: `MemoryClient` on a log in IndexedDB mode (`sync` reads only the
  synchronous log); the sync token, which no decision reads; two tabs on one
  synchronous log.
- *Database*: data and versions of entries, the order and pages of results; failures
  of reads.
- *Registries*: several chains, searches, RPC clients, decimals and logos.
- *Wallets*: two agent wallets under one key at a time (the last writer wins, as for the
  escrow client); the listeners; balances, fees and receipts; adapters without any
  account; Base58; the moment between the wallet's switch and the application's telling
  the SDK of it (a `MonmouthWallet` is told at once), and that between `getPayerAddress` and
  what follows it, which waits for nothing.
- Components not modelled yet, with the reason for each, are listed in
  `PROJECT.json`. Pure input and output (argument parsing, formatting, the
  demonstration application, deployment scripts) and cryptography stay out.

## 7. Plan

The order is by how much of the system depends on the behaviour. Done: the batch
path to L1, the message queue, deposits, block production and tasks, the escrow
contract, the bridge contracts, the guardrails, the activity log with its sync, its database and migration,
the token registries, the escrow client, the agent wallet with its identities and
adapters, the Solana payments, the typed data signer.

1. *EngineDriver*: the four Engine API calls, each of which may fail or lose its
   answer. It asks the node to build on the zero hash at its first tick and after a
   restart; what follows depends on how a node that is not in this repository answers,
   so that a model of it would be one of that node.
2. *ExEx host* and *agent pool*: lagging subscribers, the running flag, and the
   classification as a function against `docs/STATE_MACHINES.md`, section 4.

Proofs still worth writing: that `SpendGuard` and `AgentWallet` implement one abstract
specification of an allowance, whose bound the two now prove from shared lemmas.
