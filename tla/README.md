# TLA+ models and proofs of the DOGE wallet

These modules specify the parts of `openclaw-doge-wallet` whose correctness
depends on the order in which asynchronous steps happen: how a wallet is made
and kept, which coins a send may use and what it costs, what the spending policy
lets through, how a transaction reaches the network and what becomes of it, how
a deposit is noticed, how a payment channel is settled, when an invoice is paid,
and what is paid for a service call between two agents.
Each component has a module; TLC checks it on small instances, and TLAPS proves
its central properties for every value of the constants.

Paths below are relative to the repository (`index.ts`, `src/...`).

    tlc -config MCWalletSend.cfg MCWalletSend.tla      # one run
    tlapm WalletSendProofs.tla                         # one component's proofs

`PROJECT.json` lists the runs, a mutant per checked property (a plausible bug in
the code that the property finds), the source lines of every definition, the
hazards, the findings and the theorems.

## 1. The system

The plugin runs in one Node.js process. JavaScript runs one task at a time, so
between two `await`s a function is atomic, and at every `await` any other
handler, timer or callback may run. That is the only source of concurrency, and
every action of the models is the code between two awaits. The process may end
at any point; the state that survives is a handful of JSON files, most of them
written without temp file and rename (`src/secure-fs.ts`, `writeFile`), some
without anybody waiting for the write.

| Component | State | Operations | Interacts with | What is hard | What makes it correct |
|---|---|---|---|---|---|
| Keys, `src/keys/*` | encrypted keystore file, a copy of it, address, unlocked key | init, recover, unlock, lock, read the address | commands, onboarding, send path | the file, its copy, the address and the key change at different moments; `/wallet delete` removes the file behind the manager | memory is the file's wallet or nothing |
| Wallet commands and services, `index.ts` | timers, the addresses the monitor and the invoices use | init, recover, unlock, lock, delete, start of the service | keys, coins, monitor, invoices | every command waits after it changed the keystore; services must follow the address | coins, change, notices and invoices belong to one wallet |
| Onboarding, `src/onboarding/*` | session per chat, passphrases, sealed phrase, one file | nine buttons, texts, `/wallet`, clean-up | keys | buttons never look at the session's state; handlers overlap; saves share one temporary file; crash between wallet and phrase | the owner sees the phrase; ready means verified; guesses are bounded |
| Send path, `index.ts` `executeSend()` | none of its own; local snapshot, inputs | fee rate, snapshot, select, sign, lock, broadcast, unlock on failure, add change | coin cache, broadcaster, tracker, policy | awaits between reading and locking coins; a broadcast that fails after being accepted | no coin is signed for twice without a cause; locks end |
| Selection and builder, `src/utxo/selection.ts`, `src/tx/builder.ts` | none | exact match, largest first; fee and change computed a second time | send path | two computations that must agree; dust, zero rate, fee cap | value is conserved, fewest coins, refused only when nothing pays |
| Coin cache, `src/utxo/manager.ts` | coins, locks (`lockedFor`, time), `utxos/cache.json` | refresh, markSpent, unlock, stale-lock cleanup, addUtxo, load, save | APIs, sends, tracker | answers older than the locks, coins that come back, locks saved late | locks survive merges, belong to a send, and end |
| Broadcaster and P2P, `src/tx/broadcaster.ts`, `src/p2p/*`, `src/api/failover.ts` | sockets, provider health | relay to peers, two APIs with failover, retries, Blockchair | send path | lost answers, "already known", errors that hide the reason, peers that never finish a handshake | a failure means the network does not have it, unless an answer was lost; it ends |
| Policy, `src/policy/*` | limit counters, approval queue, freeze flag, three files | evaluate, queue, approve, deny, expire, recordSpend, freeze | commands, tools, timer, `executeSend()` | approvals executed long after evaluation, owner against timer, lost or torn files | paid once, never after a refusal, the owner's tiers only by the owner, the daily limit |
| Tracker, `src/tx/tracker.ts` | entries with status and counters, poll timer, backoff, file | track, pollAll, pollOne, save, load | APIs, coin cache, notifications | overlapping polls, answers out of order, fallback provider, restart | one outcome, no poll while idle and always one while active, every transaction ends |
| Receive monitor, `src/receive-monitor.ts` | announced txids, timer, file | start, stop, poll, notify, save, load | APIs, audit, commands | stop and start during a poll, overlapping loops, trimmed memory, restart | each deposit is announced, once, by one loop |
| Payment channels, `src/qp/channels/*` | consumer and provider records, signatures | create, fund, refund, pay, accept, close | each other through messages, the chain | lost, repeated and late messages, unilateral exit, timelocks, fee split | a channel is a ledger; the latest state unlocks first; closes settle it |
| A2A invoices, `src/a2a/*` | invoices, mutex, `invoices.json` | create, verify, mark, expire, evict, call back, load, save | APIs, audit, payee | verifications, sweeps and restarts that meet on one invoice | settled once, on a real payment, and durably |
| HTLCs, `src/qp/htlc/*` | HTLC records per manager | create, fund, claim, refund, destroy | orchestrator, chain | the ends know of the chain what the other tells them | no claim without funding |
| Orchestrator, `src/qp/orchestrator/*` | calls, sessions, the client's and provider's keys | discover, handshake, request, deliver, settle, rate | sideload, HTLC | answer and offer arrive back to back, timeouts, failing POSTs, repeated handshakes, teardown of one call during another | what is paid was delivered, once |
| Sideload, `src/qp/sideload/*` | session keys, message counters, queue, waiters | seal, open, enqueue, receive, close | orchestrator | strict counters, lost and late messages, restarts | messages are opened once and in order; no nonce is used twice |
| APIs, `src/api/*` | health of the providers | failover, cooldown | everything | answers of different ages | in the models of their callers |
| Chain registry, `src/qp/chain/*` | directory, a checkpoint per category, time of the last scan | scan, search, (without a caller: revocations, pruning) | orchestrator, APIs | checkpoints move while requests are under way; answers lag, are cut off and lack transactions | what a checkpoint has passed is listed; the cheapest known provider is picked |
| Rate limiter, sanitizer, codecs, crypto, reputation, alerts, price, audit, config | windows per operation, logs | consume, encode, format | tools | | not modelled, section 6 |

## 2. Modules

| Module | Models | Composed with |
|---|---|---|
| `WalletKeys` | `WalletManager` of `src/keys/manager.ts`: file, copy, address, key | extended by the next two, which say who calls it and when |
| `WalletLife` | the commands and the tool that make, recover, unlock, lock and delete a wallet × coin refresh, monitor, invoices and a send that follow its address × restarts | `WalletKeys` |
| `Onboarding` | the guided set-up: `OnboardingFlow` × `OnboardingStateManager` × the passphrase store × crashes | `WalletKeys` |
| `WalletSend` | `executeSend()` × `UtxoManager` × tracker callbacks × the network's view through several APIs × restart | one state machine: the pieces share the coin cache |
| `Funding` | fee rate, `selectCoins()` and `buildTransaction()` of one send | the step `SendSelect` of `WalletSend` in detail |
| `Dispatch` | `broadcastTransaction()`: peers, two APIs with failover, Blockchair, the network | the steps `SendBroadcast` to `SendFails` of `WalletSend` in detail |
| `SpendPolicy` | `PolicyEngine`, `LimitTracker`, `ApprovalQueue`, freeze switch, the commands and the timer of `index.ts`, restart | `executeSend()` is one step that pays, fails, or pays and fails |
| `TxTracker` | `TransactionTracker` with overlapping polls, primary and fallback API, restart | its callbacks are the `Tracker...` actions of `WalletSend` |
| `ReceiveMonitor` | `ReceiveMonitor` with the calls of `index.ts` that start and stop it, restart | its address is `watched` in `WalletLife` |
| `ChannelLedger` | the abstract channel: payments, acknowledgements, one settlement | refined by `PaymentChannel` |
| `PaymentChannel` | `ChannelConsumerManager` and `ChannelProviderManager` and the signatures between them | `INSTANCE ChannelLedger WITH ...` |
| `InvoicePayments` | `InvoiceManager` with its mutex and file, `wallet_verify_payment`, the two sweeps, the callback, restart | |
| `ServiceCall` | `QPClient.callService()` × `QPProvider` with their handshake, sideload session and HTLC settlement, restarts of the provider | one state machine: the ends share the messages and the chain |
| `Registry` | `QPClient.discoverProviders()` × `RegistryWatcher.scan()`, several at once × the chain's advertisements and lagging, partial answers | the step before the first of `ServiceCall`, which uses one listing of it |
| `...Proofs` | theorems: one module each for `WalletSend`, `SpendPolicy`, `TxTracker`, `PaymentChannel`, `InvoicePayments`, `ServiceCall` (with `Registry`); `TransferProofs` for `Funding`, `Dispatch` and `ReceiveMonitor`; `WalletProofs` for `WalletKeys`, `WalletLife` and `Onboarding` | EXTENDS what it proves about and TLAPS |
| `MC...` | instances, scenes, views, symmetry | |

**Scenes.** Several components answer questions of the same kind and are checked
in one run: `MCWalletSend` (how coins leave and arrive), `MCNetwork` (what waits
for the network), `MCWallet` (the wallet itself) and `MCQuackstro` (how a provider
is found, and the two ways to pay it). A variable `scene` is chosen in the initial state and never
changes; only that component moves, the variables of the others keep their
initial values, so the state spaces add up and do not multiply. A scene is
therefore *not* a composition. The components that do act on one another -
sends, coin cache and tracker callbacks; commands, services and keystore;
client and provider; the two ends of a channel - are composed inside one module.

A definition whose name is that of another one, an underscore and a defect, such
as `PollFails_EndsLoop`, is a mutant of `PROJECT.json`: no specification uses it.

### WalletKeys and WalletLife

A wallet stands for its phrase, its keys and its address. `disk`, `cached`,
`address` and `key` are the keystore file and what the manager holds of it; a
torn file exists but does not load.

| Code | Actions |
|---|---|
| `/wallet init`, `wallet_init`, recover, up to the audit log; after it | `InitCommand`, `RecoverCommand`; `CommandContinues`, `ServicesFollow` |
| `walletManager.init()` from the set-up (`flow.ts:454`) | `OnboardingCreates` |
| unlock, lock, delete | `UnlockCommand`, `UnlockRefused`, `LockCommand`, `DeleteRefused`, `DeleteCommand`, `DeleteContinues` |
| `doUtxoRefresh()` | `RefreshTick`, `AsksFor`, `RefreshAnswered` |
| `executeSend()`, for whose address, key and coins it uses | `SendStarts`, `SendSigns`, `SendThrows`, `SendEnds` |
| `service.start()`; a restart, a crash while a keystore is written | `ServiceLoads`, `ServiceStarts`; `LifeRestart`, `CrashTearsKeystore` |

Coins are known by their owner only, which is all `AllOfOneWallet` asks. The
history variable `overtaken` says that a command came in while another, a
refresh, a send or the start was waiting, or that a wallet was made over the
coins of an earlier one: then a service may use an address that is not the
keystore's, and the properties say that this is the only way. `onboarded` names
wallets the set-up made in this process, which no service follows (finding 5).

### Onboarding

`sessions`, `temp`, `file` and `tempFile` are the session store, the passphrases
in memory, and the file with its temporary one. `tasks[t]` is a handler under
way: its step, its chat, what it awaits (a key derivation or other I/O; or the
directory, the temporary file, the rename of a save) and what it read before. A
save takes its snapshot only after the directory is made, and two saves write
the same temporary file, so the second rename may fail and throw. `Updates` is
`updateSession()`, `Clears` `clearSession()`; one action per button
(`PressStart` to `PressRestart`), per text (`TextWeakPassphrase` and others) and
per continuation. `offered[c]` are the keyboards a chat
was shown, each of which can be pressed for ever; those that do not speak of a
phrase can always be there. What was compared, shown, verified and announced is
history.

Facts of the code the model shows: a set-up whose keystore exists cannot be
resumed through `/wallet`, which then shows the dashboard, but only by an old
keyboard; the limit on all attempts tells the owner to start over with
`/wallet`, which does the same; a session that expires drops the sealed phrase
and its count of attempts.

### WalletSend

A coin is a deposit or the change of a send, named by that send. `cached`,
`owner`, `stale`, `confirmed` are `UtxoManager`'s list, `lockedFor`, locks older
than 30 minutes and confirmations; `disk` is `utxos/cache.json`; `accepted`, `mined`
and `indexed[p]` are the network and what each API knows of it.

| Code | Actions |
|---|---|
| `executeSend()`: `getFeeRate`, `getSpendableUtxos`, `selectCoins`, the `markSpent` loop, `broadcastTransaction`, the catch block | `SendStart`, `SendSnapshot`, `SendSelect`, `SendRefused`, `SendLock`, `SendBroadcast`, `SendSucceeds`, `SendFails`, `SendUnlock`, `SendRethrow` |
| `refresh()`: request, merge, the guard against empty answers; `cleanupStaleLocks()` | `RefreshAsks`, `RefreshMerge`, `RefreshSkip`, `LockAges` |
| tracker callbacks `onConfirmed`, `onFailed`/`onUnverified` | `TrackerConfirms`, `TrackerGivesUp` |
| the network; a restart | `NetworkAccepts`, `NetworkMines`, `ProviderIndexes`, `Restart` |

`open`, `released` and `resurfaced` are history: which sends overlapped between
snapshot and lock, which locks were given up, which coins left the cache and
came back. They state *why* two sends may conflict: `ConflictsHaveCause` says
those are all the ways.

### Funding

`rate`, `usable`, `chosen`, `total`, `fee`, `change` are the locals of
`executeSend()` and `selectCoins()`; `built` is what `buildTransaction()`
computes from the same coins. `TakesExactMatch`, `PicksLargest`, `RunsOut` are
the passes of the selection, `BuilderRefuses` and `Builds` the builder with its
checks. Coins of equal worth are taken in any order, where the code follows the
order of the cache. The cap is `maxFee`, an absolute fee, although
`executeSend()` derives it from a rate (2 × `maxFeePerKb`). `ChoosesWell` is the
reference definition: it compares what was chosen with every set of coins.

### Dispatch

`peer[p]` is the socket of each peer, `queue` the APIs one attempt still asks,
`request` what became of the request under way, `holding` and `verdict` the
network. A request or its answer may be lost (`Ends`), and what was sent may be
taken later (`StrayAccepted`). `HealthChanges` is other callers' doing and the
cooldown. Facts of the code: an error of an API that is not the last one is
dropped, so that "already known" of the first and "conflict" of the second
count as a double spend; Blockchair's "already known" is a failure; a peer counts
as reached when the transaction was written to its socket, although
p2p/broadcaster.ts:36 calls it accepted; every message of a peer restarts its
time-out, so one that keeps talking holds up the broadcast.

### SpendPolicy

`stage[r]` is where request `r` stands between command and result, `entry[r]`
its approval, `batch[r]` the list of the timer tick (or the approve command)
that is sending it, `spent` the day's counter, `files` everything a restart may
read. `Verdicts(r)` is `PolicyEngine.evaluate()`: freeze, lists, tier, daily
limit. The hourly limit, the transaction count and the cooldown are one
nondeterministic refusal. `approvalFile`, `limitsFile`, `freezeFile` are *sets*:
the contents that a crash may leave, including a torn file, which every `load()`
takes for an empty one. `restored` names requests whose approval a restart
turned back, `overlapped` and `miscounted` whether admissions overlapped or a
payment escaped the count. Restart loads all files in one step (`index.ts`
loads them one after another before it serves requests) and midnight resets
the counter, which the code does lazily at the next use.

### TxTracker

`status`, `failures`, `old` are an entry's status, `pollFailures` and age;
`poll[p]` a running `pollAll()`: entries to do, the one being asked about, and
whether the primary answered with an error. `depth[t]` is the network: -1 not
known, 0 in the mempool, n blocks deep. `PrimaryFinds`, `PrimaryThrows`,
`FallbackFinds`, `FallbackFails` are the branches of `pollOne()`; the timer and
its backoff are `timer`, `backoff`. Confirmation counts matter up to the
threshold and saturate; the failure count saturates at its limit. `saved` is
the last two writes, of which a restart reads either. `outcomes[t]` is history:
the final states announced by callbacks.

### ReceiveMonitor

Transactions are numbered in the order the network took them; an API answers
with the newest `Window` of those it knows, and may be `Behind`. `pollTimer` is
the field, `others` counts timers that no field names any more, `polls[p]` a
running `poll()`. `poll()` catches every error, so the back-off of `pollOnce()`
never happens and is not modelled. `start()` and `stop()` look only at the
timer, which is missing while the first poll runs: `doubled` and `escaped` say
so, and `OneLoop` that nothing else makes two loops or a loop after `stop()`.
`MonitorAssumption` asks that the memory of txids holds twice an answer less
one, the least for which trimming forgets nothing an API may still list; the
code's numbers are 20 and 500.

### PaymentChannel and ChannelLedger

Messages are signatures, so what was signed is a growing set (`cSigned`,
`pSigned`, and the closes) and receiving is choosing from it: loss, repetition
and reordering need no further actions. One action per manager method:
`CreateChannel`, `SetFunding`, `AcceptChannel`, `SignRefundCommitment`,
`CompleteRefundAndOpen`, `CreatePayment`, `AcceptPayment`,
`AcceptPaymentSignature`, `InitiateCooperativeClose`, `SignCooperativeClose`,
`CompleteCooperativeClose`, and `unilateralClose` of either end. A commitment
is its sequence number and two balances; its timelock is a function of the
number. `CloseOutputs` is the code's fee split, with its rounding and dust.
`ChannelLedger` says what the two ends rely on: a payment is made once the one
before was credited, nothing comes back, nothing is paid after the provider
agreed to a close. The mapping reads `paid` and `credited` from the provider's
and the consumer's latest state.

Facts of the code the model shows: a lost answer leaves the provider one
commitment ahead and a cooperative close proposed then never verifies (the
consumer has the unilateral close, see section 5); `signCooperativeClose()`
and the other closes look at no state; `createPayment()` ignores the block
height; the second branch of the fee remainder is dead while the fee is below
the deposit. `ProportionalShare` uses exact integers: `fee * balance` leaves
the exact range of a JavaScript number only for a fee above 2^53 / balance.

### InvoicePayments

`stored` and `invoice` are the map's keys and the invoice objects; `mutex` is
the queue of `async-mutex`, whose head holds it; `write[w]` a `save()` under
way: it lists the objects, waits for `mkdir`, and serialises them *as they are
then*. `onDisk` is the set of contents a restart may read: while a write is
under way the old, the new or a torn (empty) file; writes that overlapped leave
any of them. A call is `asking` (the API), `queued` (for the mutex), `saving`
(inside it), `auditing`, and then `reported`, `refused` or `failed`; a restart
makes it `past`. The timer's sweep (`cleanupExpired`, over the live map) and
the start-up sweep (`expirePending`, over a list) are two more clients of the
mutex. `VerifyValid`/`VerifyInvalid` are `verifyPayment()`: amount within the
tolerance, an output to our address, confirmations; a missing or wrong
OP_RETURN is only logged, as in the code. A transaction that confirms late is
an invalid answer before and a valid one after, so no variable is needed for
it. `logAudit()` never throws and `save()` rethrows; the model follows both.

### ServiceCall

`stage[c]` and `serve[c]` are where the client and the provider stand with call
`c`. `init`, `tries`, `acks` are the handshake on the chain: the provider makes
an ephemeral key for every ACK it attempts, the `tries[c]`-th, and `key[c][e]`
is the ACK from which end `e` derived its session key. `net` holds the messages
posted that have not arrived (any may arrive at any time, or never), `queue` the
transport's buffers. Whether a POST was answered is whether its message has left
`net`; a POST that fails by its timeout may still arrive.

| Code | Actions |
|---|---|
| `initiateHandshake()`, `sendRequest()` | `SendInit`, `SendInitFails`, `TakeAck`, `RequestSent` |
| `awaitDelivery()`: its receive loop and the promise | `AwaitReceives`, `AwaitTimesOut`, `DrainTakes`, `DrainTimesOut` |
| `ConsumerSettlement.settle()`, the rating, the catch blocks | `SettleReceives`, `FundAccepted`, `FundFails`, `FundedSent`, `RateThrows`, `CallFails` |
| `scanForHandshakes()`, `handleHandshakeInit()` | `ScanFinds`, `AckAccepted`, `AckFails` |
| `handleRequest()` | `TakeRequest`, `HandlerReturns`, `SendError`, `ErrorSent` |
| `ProviderSettlement`, `HTLCProviderManager` | `SendOffer`, `OfferSent`, `WaitReceives`, `ClaimAccepted`, `SettlementEnds` |
| the transport; a restart of the provider | `Arrive`, `ProviderRestarts` |

Nothing in the repository takes wires from the provider's transport: the model
assumes the application the tests write, which receives a wire, awaits
`handleRequest()` and receives the next. What the node says of a transaction is
a free choice, since the code leaves it open: the funding transaction is not
signed although the comment above it says "Sign and broadcast"
(htlc-settlement.ts:151), the consumer's key in the provider's HTLC is
`Buffer.alloc(33)` (provider.ts:444), and both settlements call
`broadcastTransaction`, which `DogeApiProvider` does not have. The model thus
says what the protocol guarantees where these calls succeed.

Facts the model carries: `destroy()` of a settlement zeroes the private key that
the client or provider shares with it (`clientKey`, `providerKey`), so a rating
after a settlement throws, and a provider answers no handshake and claims no
HTLC after its first settlement has ended, although provider.ts:467 calls a
failed settlement non-fatal; a payment by channel always throws (`LoopEnds`);
the consumer's HTLC record goes with the settlement, so nothing can refund it.

### Registry

An advertisement stands for its price (two of one price can be taken in either
order, which decides nothing here). `minedAt` and `home` are its block and the
registry address it was sent to, `directory` and `checkpoint` are the watcher's,
`recent` says whether the interval of a minute has passed since the last scan
ended. `SearchBegins`, `ScanAnswered` (once per category), `SearchDecides` and
`SearchFails` are `discoverProviders()` between its awaits; `Answers(c, h)` is
what an API whose chain is `h` blocks high may answer, `Heights` what it may say
of its height. Two histories: `shown`, the greatest height a category's answers
were made at, and `skipped`, what an answer left out and was not listed since.

Facts the model carries: the checkpoint moves only with a new listing, although
the comment above it says "regardless of whether listing was new"
(registry-watcher.ts:221), because known ones are passed over at :213; that is
harmless. An advertisement that an answer leaves out (the limit of transactions,
a failed lookup of SoChain) while it lists a later one is below the checkpoint
for ever after, and never listed. SoChain says height 0 when its request fails
(sochain.ts:335), and then expired listings count as active. A search that begins
while another is under way scans too, since the time is noted at the end.

## 3. Runs

| Run | Instance | Shows |
|---|---|---|
| `send` | scene *sending*: 2 sends, 1 deposit, 1 API, 1 refresh, 1 restart; scene *funding*: 3 coins of 11 worths around every boundary, 3 amounts, 4 rates; scene *monitoring*: 5 transactions, answers of 1, one behind, 2 polls, 1 restart | `ConflictsHaveCause`, `InputsMinted`, `LocksAreOwned`, `LocksFreedForCause`, `FundedExactly`, `ChoosesWell`, `AnnouncedOnce`, `OneLoop` |
| `send_race` | 2 sends, 2 deposits, no restart | violates `SelectAndLockIsAtomic` (finding 1) |
| `network` | fair; *tracking*: 1 transaction, 2 polls, lag 1, 1 restart; *monitoring*: 3 transactions, answers of 2, 2 polls, 1 restart; *broadcasting*: 2 peers, 3 attempts; *sending*: 1 send, 2 deposits | `OneOutcome`, `OutcomeIsTold`, and five liveness properties: `TransactionsSettle`, `DepositsAreNoticed`, `EveryBroadcastEnds`, `LocksEnd`, `CacheConverges` |
| `policy` | 3 requests in three tiers, limit 7, fee up to 1, freezes and midnights | `OwnerGates`, `LimitHolds` |
| `policy_restart` | 2 delayed requests, 1 restart, fair | `PaidOnce`, `RequestsSettle` |
| `policy_freeze` | 2 requests, one delayed, one for the owner | violates `FreezeStopsSends` (finding 2) |
| `invoices` | 2 invoices, 2 calls, 2 sweeps, room for 1, 1 callback, 1 restart | `MutexIsServed`, `PaidIsBacked`, `NoLateReport`, `ReportedIsDurable`, `SettledOnce` |
| `invoices_callback` | the same | violates `CallbackMeansPaid` (finding 3) |
| `quackstro` | *channel*: deposit 12, payments 1, 3, 5, up to 3 of them, fee and dust 3; *calls*: 2 calls of one client, 1 failing ACK or restart; *search*: 2 searches, 2 registries, 3 advertisements, one the client's own, 2 blocks | `LatestUnlocksFirst`, `RefundFirst`, `ClosesSettle`, the refinement `KeepsLedger`; `NonceUsedOnce`, `PaidForWork`, `ClaimIsFunded`; `CheapestIsPicked` |
| `calls_offer` | 1 call | violates `OfferIsRead` (finding 4) |
| `wallet` | *in use*: 2 wallets, 1 waiting command, 1 refresh, 1 send, 1 restart; *set-up*: 2 wallets, 1 chat, 2 handlers at once, limits 2 and 3, 1 crash | `KeysAgree`, `AllOfOneWallet`, `ChangeComesBack`, `PhraseLossHasCause`, `GuessesAreBounded`, `SetupIsOfThisWallet`, `FileCatchesUp`, types |
| `wallet_onboarded` | *in use* only, 1 wallet, fair | violates `DepositIsNoticed` (finding 5) |

**Why the bounds are enough.** Every race of these components is between two
actors (two sends, owner and timer, two polls, two verifications or a
verification and a sweep, two handlers of a chat), and a third adds no new pair;
with two, every interleaving is explored. One restart is enough for each file to
be read back in every state it can have, and the theorems have no bound at all.
Amounts are small but chosen around the boundaries: requests at and above a tier
and the limit, a fee that exceeds it, payments that leave a balance below the
close fee, below dust and at zero, a transaction that pays one invoice to the
tolerance and falls short of the other; coins that match exactly, that leave just
dust, one less, or nothing, and that together stay below the amount or pay more
than the fee cap. Five transactions with a memory of three txids make the monitor
trim and meet its own trimming after a restart. Two service calls meet in the
keys that the settlement of one zeroes; messages, counters and queues have no
bound there, because every call sends finitely many. Two searches of two
registries overlap in every way one checkpoint can be read and moved; with two
blocks (`MaxTip`) and a limit of two transactions an advertisement can expire, be
left out, and lie below a checkpoint that a later one moved. The attempts of a set-up
saturate above their limits (`RoundLimit`, `TotalLimit`, which are 3 and 9 in
the code). `MaxFaults`, `MaxRestarts`, `MaxReloads`, `MaxCrashes`,
`MaxLag`, `MaxArrivals`, `Retries`, `MaxStored` and the sets of calls, polls,
jobs, slots and refreshes are the bounds; each is named in its module.

**Views, symmetry, constraint.** Views leave out what nothing reads any more:
what is on disk after the last restart (`MCSpendPolicy`, `MCNetwork`), the fee of
a finished send, what the last search was told (its property speaks only of the
step that tells it), histories no property of the run reads, and what a call that is
over was about (`MCInvoicePayments`, where `told` is left out as well). In the
`wallet` run the view leaves out which deposits were noticed, and, once saves of
the set-up overlapped, the contents of its files and snapshots: the constraint
`OneTrouble` keeps a crash, the only reader of a file, out of those behaviours.
That constraint is the one place where two hazards are not combined: overlapping
saves and a crash are explored each, and not together; the theorems about the
set-up have no such bound. States that agree on the
rest have the same successors up to the view, so liveness is judged on the same
graph. Symmetry is used only in runs without liveness (`send`, `quackstro`,
`wallet`). Deadlock is not checked: each model stops when its requests, blocks,
restarts, invoices or calls are used up, as the program idles; that something
must still happen is stated as liveness, and for the mutex as `MutexIsServed`.

**Fairness** is what the event loop and the timers give, stated per scene in
`MCNetwork`: an asynchronous function whose await is settled continues, requests
to APIs settle because they have timeouts, with any answer or an error;
`setInterval` and `setTimeout` fire; time passes, so locks, approvals and
entries age.

- `SendingGoesOn`: a send goes on, the refresh asks and is answered, and every
  API learns of an accepted transaction in the end.
- `TrackingGoesOn`: polls start and go on; a transaction that has a block gets
  more. Nothing is assumed of the mempool: that is why `TransactionsSettle`
  promises an end only to a transaction that does not stay there for ever.
- `MonitoringGoesOn`: besides timers and requests, one strong fairness: polls
  that are answered again and again are now and then answered with everything
  there is. Without it an API that is always behind hides a deposit for ever, and
  no code could notice it.
- `BroadcastingGoesOn`: a silent peer times out; nothing is promised of one that
  keeps talking without completing the handshake (`chatty`), as every message
  restarts its time-out.
- `LifeFairness` (`WalletLife`): the start and the commands go on, refreshes are
  answered, the monitor polls. `FairSpec` of `SpendPolicy`: the steps of a
  request and the approval timer.

Nothing obliges an owner to answer, a peer to send, or a process to restart. The
channel managers and the orchestrator are a library without a caller in the
repository: no fairness is justified and no liveness stated.

## 4. Proofs

For every value of the constants allowed by the named assumptions (finite sets,
natural numbers, sentinels that are not members); TLC evaluates the assumptions
on each run. The theorems are about the specification of each module (`Spec`,
`LifeSpec`, `SetupSpec`, `FundSpec`, ...), not about a scene.

| Module | Theorems | Inductive invariant |
|---|---|---|
| `WalletProofs`, keys and life | `KeysAgreeInUse`, `KeysAgreeInSetup`, `LifeTypeCorrect`, `ChangeComesBackHolds`, `AllOfOneWalletHolds` | `KeysInv`: type, `KeysAgree`, and the same of what is left in memory once the file is gone: copy, address and key name one wallet. `SendInv`: until a send signs, file and memory name the wallet it took its address from, unless the keystore was replaced. `OneOwnerInv`: unless something was overtaken, the coins in the cache, those the next start will load, the address of every request and of the send under way, and the wallet a waiting command will hand to the services are the keystore's. |
| `WalletProofs`, set-up | `SetupIsOfThisWalletHolds`, `PhraseLossHasCauseHolds`, `FileCatchesUpHolds`, `GuessesAreBoundedHolds`, `SetupTypeCorrect`; `WalletTypeCorrect` of the two scenes together (`Spec` of `MCWallet`) | `SetupInv`: as no keystore is removed during the set-up, every wallet that a session, a file, a snapshot, a keyboard's handler or a history names is the one of the keystore (`OneKeystore`, `OfThisWallet`); unless saves overlapped, at most one save is under way and the temporary file is its own (`SavesInTurn`), so a rename finds it and the handler that carries a phrase goes on until it is shown. `FilesInv`, without overlapping saves: a save under way writes the sessions of now, and the file has them when none is. `GuessInv`: one session has the phrase; while it has it, the answers compared so far, with those that handlers have counted and still hold, stay within its counter; once it is dropped, only the handlers that still hold an answer can add one; and the file brings back no count below what was compared, but for those answers, anew after each crash. |
| `WalletSendProofs` | `TypeCorrect`, `LockInvariantHolds`, `LocksHeldForTheirSends`, `SelfConflictsHaveCause`, `SendsBuildOnMinedChange`, `LocksNameTheirSend`, and the action property `LocksFreedForCauseHolds` | `LockInvariant`: the property speaks of signed sends, but a send can take a coin only through its snapshot; so the invariant says what a snapshot may still contain of another send's coins, and what a send that is locking may take. Change that is not mined is excluded through what the cache, the disk and the answers under way may call confirmed. |
| `TransferProofs` | `FundedExactlyHolds`, `ChoosesWellHolds`, `FundTypeCorrect`; `OutcomeIsToldHolds`, `DispatchTypeCorrect`; `OneLoopHolds`, `MonitorRemembers`, `AnnouncedOnceHolds`, `MonitorTypeCorrect` | `FundInv`: fee and change of the selection are what its sum and its number of coins give, whichever pass chose them, so the builder, which starts again from the coins, takes the same branch. `ChoiceInv`: while the loop runs, the chosen coins are the most valuable and no choice of as few pays; by an exchange of coins, if the next one does not make them pay, no choice of that number does. `DispatchInv`: a transaction the network has was sent by a request whose answer is still known, or by a peer or a request that counts as stray; answers agree with the network, unless one was lost. `LoopInv`: the timer of the field, the others and the polls under way count one loop, unless a start met a poll. `RememberInv`: the txids in memory stand in order of arrival but for the reach of one answer, so trimming forgets only what no answer shows again; what was announced and an answer may still show is in memory, and in every list on its way to the file or in the file, unless something was forgotten. |
| `SpendPolicyProofs` | `TypeCorrect`, `PaidAtMostOnce`, `OwnerGatesHold`, `DailyLimitHolds` | `PaymentInvariant` ties the stage of a request to its approval and to what was paid, in memory and in every file; `LimitInvariant` accounts for the day: what left the wallet is what was counted plus what is still on its way, and at most one request is on its way unless admissions overlapped. |
| `TxTrackerProofs` | `TypeCorrect`, `OneOutcomeHolds`, `PollingWhileActiveHolds` | `TrackerInv`: an entry no two polls held together is held by at most one, and only while active; so whoever ends it announces the first outcome. |
| `PaymentChannelProofs` | `TypeCorrect`, `NoEquivocationHolds`, `LatestUnlocksFirstHolds`, `AtMostOneAheadHolds`, `RefundFirstHolds`, `CloseSettlesLatestHolds`, `ClosePaysOutHolds`, `ClosesSettleHolds`, `ImplementsLedger` | `ChannelInv`: the provider's latest state is the consumer's or one payment of it; what both signed is the provider's history; a signed close freezes it. Each action is then a step of `ChannelLedger` or a stutter. |
| `InvoicePaymentsProofs` | `TypeCorrect`, `PaidIsBackedHolds`, `SettlesOnce`, `NoLateReportHolds`, `MutexIsServedHolds`, `ReportedIsDurableHolds` | `BackingInv`: who waits for the mutex was verified, and all contents on their way to the disk are backed. `BirthInv`: an invoice that was not created yet is in no file and no map, so creating never overwrites. `ReportInv`: a call past its mark leaves its invoice settled, and a call under way is about another invoice than those reported before it began. `MutexIsServed` is inductive with the types: who waits stands in the queue once, so one worker at a time saves inside. `DurableInv`, while writes neither overlap nor fail: what is settled in memory is not pending on the disk, unless its mark is the one being saved; the one write under way follows memory; and nobody saves a mark of an invoice that a call has found settled, so a report comes after the save. |
| `ServiceCallProofs` | `TypeCorrect`, `NonceUsedOnceHolds`, `ClaimIsFundedHolds`, `PaidForWorkHolds`; `RegistryTypeCorrect`, `ListingsCompleteHolds`, `CheapestIsPickedHolds` | `SealInv`: a message's counter has its sender's parity and lies below the sender's counter as long as that keeps its key; a key an end takes is one under which it has sealed nothing, which is why a restart may begin the counters anew. `FundedInv`: a message that says "funded" is sent only after the node took the transaction. `WorkInv`: what travels was sealed, the one request has the consumer's first counter and only key, and a provider that read it expects a later counter under that key or holds another key, so a handler runs once; a response, and every stage after it, tells of that run. `ScanInv`: a checkpoint never passes the greatest height of its category's answers, and the block a scan filters by never passes the checkpoint; so what an answer shows for the first time lies above the filter, and is listed or skipped. |

Every invariant and action property a passing run checks is stated by a theorem.
Two arguments go beyond one step of the model:

- *Sums over a set of coins* (`ChoosesWell`) are a recursive function that takes
  the coins out in an unknown order, and no induction principle is at hand. The
  lemmas from `SmallestSet` to `WorthExchange` of `TransferProofs` argue with a
  smallest counterexample instead: finite sets are well-founded under inclusion,
  so there is a smallest set for which the recursion is undefined, depends on the
  order, or gives more for no more and no better coins - and removing one coin
  shows there is none.
- *The limit of answers* (`GuessesAreBounded`) was at first stated without the
  crashes. The invariant would not close: a crash brings a dropped session back
  from the file, with its count, while the answers given after it was dropped
  stay given; TLC then found the behaviour. The property now counts one answer for
  each other handler per crash.

Only model-checked is liveness (`LocksEnd`, `CacheConverges`, `RequestsSettle`,
`TransactionsSettle`, `DepositsAreNoticed`, `EveryBroadcastEnds`), which needs
ENABLED and fairness. No module declares a RECURSIVE operator.

## 5. Findings

Each is shown by a run that TLC refutes; the quoted lines are in `PROJECT.json`.

1. `send_race`: two sends can sign for the same coin. SECURITY.md:70 promises an
   atomic select-and-lock under a mutex; `UtxoManager.selectAndLock()` is never
   called and `executeSend()` awaits between snapshot and lock.
2. `policy_freeze`: an approval given, or due, while the wallet is frozen is
   sent. README.md:332 and docs/SECURITY.md:141 say that freezing stops all
   outbound transactions immediately; only `evaluate()` asks.
3. `invoices_callback`: `wallet_verify_payment` ignores the refusal of
   `markInvoicePaid()`, so an invoice that expired meanwhile is reported, and
   called back, as paid (types.ts:59).
4. `calls_offer`: the receive loop of `awaitDelivery()` asks for one message
   more than the answer and drops it, which is the HTLC offer the settlement
   then waits for (client.ts:213, 595).
5. `wallet_onboarded`: nothing watches a wallet that the guided set-up made until
   the next restart, so a deposit is not notified, which README.md:102 promises.

Met while reading, without a run:

- *Wallet.* The auto-lock of README.md:56 and :295 never happens: `setAutoLockMs()`
  (keys/manager.ts:222) has no caller outside the tests and the default is 0.
  `/wallet delete` leaves coins, timers, addresses and the memory of the monitor
  as they are until a restart, although its text says the wallet, the UTXO cache
  and the onboarding state are destroyed (index.ts:1940).
- *Set-up.* `applySpendingLimit()` writes a `config.json` beside the data
  directory, which nothing reads. `trackMnemonicMessage()` has no caller, so the
  phrase's messages are not deleted. docs/onboarding-test-flow.md:245 lets an
  owner resume after an hour; sessions end after 15 minutes.
- *Sends.* SECURITY.md:58 lists atomic file writes, while `secureWriteFile()`
  writes in place; docs/CODE-AUDIT-2026-02-07.md:109 lists a mutex on the UTXO
  manager, which sends do not take. The fee cap and the broadcaster's errors are
  under Funding and Dispatch above. README.md:157 asks for a confirmation on top
  of the owner's approval in the sweep tier, which a plain `/wallet approve`
  satisfies.
- *Tracker.* Not-found polls separated by a sighting through the fallback of a
  degraded API add up to the limit of *consecutive* failures (tracker.ts:42, 74,
  314).
- *Channels and calls.* `unilateralClose()` returns the commitment as it was
  serialized before it was signed (commitment.ts:265), although its comment says
  it is broadcast (manager.ts:571); the settlement's keys and transactions as
  under ServiceCall above.

## 6. Not modelled, and why

- **Cryptography, byte layouts and message texts** (`src/qp/messages.ts`,
  `src/qp/crypto`, scripts, derivation, the framing of `src/p2p/protocol.ts`,
  onboarding texts): no state worth a model.
- **Reputation, rate limiter, sanitizer, alerts, audit, price**:
  they decide nothing the other components depend on; the limiter's windows are
  counters in one synchronous class, with no `await` between check and count; reputation
  is floating point over a list.
- **Abstracted to a nondeterministic result**: the hourly limit, the transaction
  count and the cooldown of the limit tracker; which words a set-up asks for and
  how strong a passphrase is; the tie-breaking of the cache's order in selection;
  request formats of the APIs.
- **Without a caller**: `verifyBroadcast()`, `opReturnData`, the tracker's
  `remove()`, `setAutoLockMs()`, `markInvoiceCancelled()`,
  `waitForConfirmations()`, `claimPayments()` (it reads a storage nobody writes),
  chunks of the sideload, refunds of an HTLC once the settlement drops its
  record.
- **Windows left out**: `load()` of the tracker clears the map, so a transaction
  tracked between the registration of commands and that load is lost
  (tracker.ts:498); the restart of `TxTracker` and `SpendPolicy` is one step.
- **In the channels**: several channels at once, `getExpiringChannels`,
  `getChannelInfo`, `destroy`. In the service calls: `advertise()`,
  the session's TTL of a day, the transport's queue limit of 1000. Consolidation
  computes a suggestion and sends nothing.
- **In the registry**: `scanRevocations()`, `pruneExpired()` and `restoreState()`,
  which have no caller (so a revoked provider stays in the directory until its
  advertisement expires); reorganisations of the chain.

One hazard of `PROJECT.json` has no property: `createPayment()` ignores the block
height (channels/manager.ts:398), which would need the chain and a caller that
broadcasts. A transaction the APIs find unconfirmed for ever stays pending
(tracker.ts:303), which `TransactionsSettle` excludes.

## 7. What is left

The components that keep state the others depend on are modelled. What could
follow: the order in which commitments confirm, once a caller broadcasts them;
the HTLC's refund against its claim, once a caller keeps the record; the start of
the plugin file by file instead of in one step; and revocations in the registry, once
something scans for them.
