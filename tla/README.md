# A TLA+ verification of the CPC payment channels

This directory is a formal model of the program in `src/`: an x402 payment
scheme ("CPC", Cheddr payment channels) in which a client opens a channel on an
Ethereum contract, pays a web service by signing off-chain updates of that
channel, and a *sequencer* numbers, checks, co-signs and stores the updates and
finally closes the channel on chain.

## Inventory: the system and its parts

| Component | Code | State | Operations |
|---|---|---|---|
| Sequencer | `src/apps/sequencer/src/{handlers,service,model,error,main}.rs` | one `HashMap` of channels (the replica) behind one `RwLock`; the running handlers | `seed_channel`, `get_channel`, `validate_pay_in_channel`, `settle`, `finalize_channel`, `list_channels_by_owner`; start with `load_state` |
| Sequencer database | `src/apps/sequencer/src/db.rs` | tables `channels` and `recipients` | `save_channel`: one `INSERT … ON CONFLICT` per row, no transaction; `load_state` |
| Signing and validation | `src/apps/sequencer/src/crypto.rs` | none | EIP-712 digest, recover, co-sign, `validate_timestamp` |
| Channel manager | `src/contracts/hardhat/contracts/X402CheddrPaymentChannel.sol` | `channels`, nested `balances`, `userChannels`, the deposits it holds | `openChannel`, `publishIntermediateChannelState`, `finalCloseBySequencer` and its batch, `closeAfterExpiryByAnyone` |
| Token | `src/contracts/hardhat/contracts/TestUSDC.sol` | balances, allowances | `approve`, `transfer`, `transferFrom`, `mint` |
| Demo client | `src/apps/demo-client/index.ts` | a cached channel and cached requirements on disk | find or open a channel, seed it, sign an update, send it, refresh or clear the cache |
| Benchmark client | `src/apps/demo-client/benchmark.ts` | its own copy of the channel; a run of updates signed in advance | sign and send updates, each after the answer to the one before |
| Paid service | `src/apps/service/index.js` | the requests in progress | `requirePayment`: resolve the channel, `/verify`, `/settle`; then the work |
| Facilitator | `src/docs/facilitator-plan.md` (the code is a git submodule, empty here) | none the docs mention | relays `/verify` to `/validate` and `/settle` to `/settle` |
| Configuration, OpenAPI, scripts | `config.rs`, `openapi.rs`, `src/infra`, `src/scripts` | none | |

How they interact. A client reads the contract and the sequencer
(`/channels/by-owner`, `/channel/{id}`), opens a channel on chain when it has
none, seeds the sequencer with it, and signs the update that adds the price to
the state it knows. The service hands the update to the facilitator, which hands
it to the sequencer twice: to validate, then to settle. `/finalize` makes the
sequencer send the last accepted update to the contract. After the expiry
anybody may close the channel on chain; a published intermediate state says what
is then paid.

What is hard here:

* **Handlers are concurrent.** Each runs until an `.await` and any number are
  suspended at once. `settle` takes the write lock first and keeps it to the
  end; `seed_channel` saves *before* it takes the lock; `finalize_channel` holds
  the shared lock across the call to the node.
* **Memory and tables are written separately.** `settle` changes the replica
  first and the tables after, one statement per row. A failed statement leaves
  the replica changed; a crash leaves some rows written. A retry is answered
  from the replica.
* **A handler can end at any await**: a statement or a call fails (`?`), or the
  client's connection closes and the server drops the handler.
* **A paid request is a chain of calls** (verify, settle, geocoder), any of which
  can fail or lose its answer after the payment was taken; the client knows the
  channel only from its own cache, and other processes of the owner pay from the
  same channel.
* **Setting a channel up is a dozen calls** to service, sequencer and chain, made
  by every process of an owner on its own: the list of channels is read length
  first, then element by element, while closings move its elements; allowance,
  approval and opening are separate; a process can end between the opening and
  the seeding, and another can open meanwhile.
* **The sequencer does not watch the chain.** It settles on a channel whose
  closing it has sent, that was closed, or that was opened again under its id,
  and sends a closing as often as it is asked to.
* **The order of recipients matters**: it is part of the digest both signatures
  are for, and is rebuilt from a `position` column after a restart.
* **On chain**, signed states of different ages arrive in any order, before or
  after a publication, an expiry, a batch or a re-opening under the same id;
  `delete` leaves the nested balances.

What makes each part correct: the *sequencer* gives one co-signed state per
number, never forgets an answer, stays within the balance, co-signs only what the
owner signed, closes only with a state that pays all receipts, and answers every
request; its *tables* agree with the replica, also after a restart; the
*contract* holds exactly the deposits of the open channels, lists each open
channel once, can release an expired channel unless `address(0)` was published as a
recipient, and never pays less than was published; the *service* serves different
updates only when each is paid for and charges an update once; the
*clients* never believe in a state the sequencer was not in, come back in step
with it, and lock no second deposit while the first can be used; *together* they
pay the payee what it was promised before a closing was sent and give every
deposit back.

## The modules

```
ChannelData          recipients, payments, digests          (shared)
  ChannelDataProofs  lemmas: finite sums, lists of recipients
  Sequencer          replica, tables, handlers, clients, faults
    MCSequencer      TLC instance
    SequencerProofs  theorems: types, backing of receipts
      SequencerSafetyProofs theorems: capacity, answers, closings, tables
        SequencerLedgerProofs theorem: the sequencer implements ChannelLedger
  PaymentChannel     contract and token
    MCPaymentChannel TLC instance
    PaymentChannelProofs theorems
    PaymentSystem    contract and sequencer composed (EXTENDS PaymentChannel)
      MCPaymentSystem TLC instance
      PaymentSystemProofs theorems, PaymentPromise implemented
ChannelSetup         clients find, open and seed channels
  MCChannelSetup     TLC instance
  ChannelSetupProofs theorems
PaidService          clients, cache, requests of the service
  MCPaidService      TLC instance
  PaidServiceProofs  theorems
PaymentPromise       abstract: what owner and payee are promised
                     (PaymentSystem implements it)
ChannelLedger        abstract: what a channel promises (Sequencer and
                     PaidService implement it)
```

**ChannelData.** `RecipientBalance`, `AddAmount` (`add_amount`), `ApplyPayment`
(the amount, then the fee), `Content` (the `recipients[]`/`amounts[]` arrays of
the signed message) and `Digest`. A digest is the record of the fields it hashes
and a signature is the digest it was made for: `recover_signature` yields the
owner exactly when the digests are equal. Amounts are naturals; the U256 sums of
the code are bounded by balances that exist as tokens.

**Sequencer.** One action per stretch of a handler between two awaits.

| Code | Actions |
|---|---|
| `seed_channel` | `SeedSave` (the INSERT), `SeedInsert` (write lock, `channels.insert`) |
| `settle` | `SettleStart`; with the write lock `SettleRefuse`, `SettleReplay` (same number, signature and timestamp: the stored view again) or `SettleApply` (`compute_next_state`, `sign_update`, `*channel = updated`); `SaveChannelRow`, `SaveRecipientRow` once per recipient, `SettleReply` |
| `finalize_channel` | `FinalizeStart` (the checks, shared lock), `FinalizeSend` (the transaction is out) |
| an error `?` or a dropped connection | `Abort` |
| stop and restart, `load_state` | `Crash` |
| clients | `Sign`; sending is `SettleStart` on any update ever signed, so updates are duplicated, delayed and reordered freely; `Lookup` (the answer 404) and `SeedStart` (the seed that follows it, in a request of its own and whatever happened in between) |

`channels` is the replica, `dbChannels`/`dbRecipients` the tables, `pc`/`job` the
handlers. `signed`, `receipts` (the answers with status 200) and `closings` are
history the properties speak of. The lock is not a variable: which handlers hold
it follows from `pc`. Handlers that change nothing (`get_channel`,
`validate_pay_in_channel`, a refused `finalize`) are not actions of their own; a
client that acts on what it read is (`Sign` on `ReadState`, `Lookup`). `Setups` are
the processes that set channels up, `missing` who was answered 404 and has not
seeded yet. Seeds are not serialised by anything but the one process's own order:
with two processes in `Setups` a channel that was paid from is seeded again.

**ChannelLedger** is the abstract specification: a channel opens once, and every
step adds one whole payment, fee included, numbers it, and stays within the
balance. `Sequencer!ImplementsLedger` instantiates it with the replica, seen as
what each address is owed.

**PaymentChannel.** A transaction is atomic, so the storage of contract and token
is one record `chain` and a closing is a function from one storage to the next;
`FinalCloseBatch` composes two of them and is all or nothing. `log` is the list
of `FundsBlocked` events. A channel id is the triple `getChannelId` hashes, hence
a closed channel can be opened again under its id, over the `balances` that
`delete` does not clear. The calls offered to the contract are a constant set of
updates: well signed, not co-signed, with a signature for other amounts, and with
any address among the recipients, `address(0)` and the contract itself included. The token
is OpenZeppelin's: a transfer to `Zero` reverts, and the transaction with it
(`Distributable`); a transfer from the contract to itself leaves it with the amount.

**PaymentSystem** extends `PaymentChannel` with the sequencer, whose handlers are
one step each here (`Seed`, `Settle`, `Finalize`), and with the transactions it
has sent.

| Code | Actions |
|---|---|
| `approve`, `openChannel`, `/channel/seed` by the opener, or by a later run that finds the channel unknown | `ClientApproves`, `ClientOpens`, `Seed`; `Killed` between the last two |
| `settle` | `Settle`, of an update signed now or of one the sequencer took in an earlier life of the id |
| `finalize_channel` | `Finalize`: checks against the chain as it is (gas estimation), then the transaction is in `sent` |
| `finalCloseBySequencer` mined, or reverted | `Mine`, in the order of nonces |
| `publishIntermediateChannelState`, `closeAfterExpiryByAnyone` | `Publish` of any receipt, `Expire` |

All payments are of one unit to one payee, so an update is its number and its
timestamp. `receipts` are the co-signed updates, which clients and payee keep;
`due[c]` is what was accepted when a closing of `c` was first sent.

**PaymentPromise** is the abstract specification of the two together, without
messages or signatures: a deposit is locked, promises to the payee grow within
it, part of them is secured, and a closing pays the payee something between the
two and the rest to the owner. `PaymentSystem!ImplementsPromise` maps promised to
the highest receipt and secured to the published state.

**ChannelSetup.** The processes of one owner, each at the call it awaits, and
the owner's channels on the chain and at the sequencer.

| Code | Actions |
|---|---|
| `loadRequirementsCache`, `requestRequirements` (the service's answer 402) | `Start`; `StartBenchmark`, and `Resolve` for `resolveChannelByOwner` |
| `main` up to `ensureChannel`: amount, expiry, `loadChannelCache` | `Prepare` |
| `list_channels_by_owner` | `ReadLength`, `ReadElement`, `ReadReverts` |
| `ensureChannel`, from the last id to the first | `Known`, `Unknown`, `ReadChain`, `Seed`, `Get` |
| opening | `NoneFound`, `ReadAllowance`, `Approve`, `OpenChannel`, `OpenReverts` |
| the benchmark's second round of requirements | `Refresh` |
| payments, in one step | `PayOk`, `PayRefused`, `PayFails` |
| a call throws, a process is killed | `Stop` |
| the world around | `Finalize`, `CloseAfterExpiry`, `Tick` |

A channel is its expiry and amount (its owner is fixed), `listed` is
`userChannels` with the swap of a closing, `file` the two cache files of the demo
client. `client[c].raced` notes that another process opened a channel while `c`
was looking; `cosigned` is what the payee can still publish.

**PaidService.** Everything above the sequencer: one owner's client processes,
their common cache file, and the requests running in the service. The sequencer
is one atomic step here (`Take`: refuse, replay, or extend), as its write lock
makes it; its insides are in `Sequencer`.

| Code | Actions |
|---|---|
| `requirePayment` and the route handlers of `service/index.js` | `Verify`, `Settle`, `Work`, one per await; `Refuse` (an error status of verify or settle) |
| a call that throws or answers an error, before or after it took effect | `CallFails` |
| `fetch` of the geocoder throws (not caught: the process ends) | `Outage` |
| `ensureChannel`, `loadChannelCache` | `OpenAndSeed`, `Begin`; `BeginBenchmark`, which has no cache |
| signing and sending | `Pay` |
| the answer | `ReceiveOk` (cache written; a batch may go on), `ReceiveError` (`ClearsCache` says whose cache is cleared); `Drop` when nobody waits |
| a killed client, a broken connection | `GiveUp`; its request runs on |

`Mode` says what a process is: a `single` payment, a `batch` (`runReverseBatch`)
or a `benchmark`. `settled`, `delivered` and `repeated` are history: the updates
taken, those served, and those served in more than one request. The facilitator, whose
code is not in the repository, is a relay of the two calls and of the status of
the sequencer's answer. All payments have one price and one payee, so a state is
a number and an amount; how the channel came to be is `ChannelSetup`'s. `CallFails` and `Outage` do not ask which route a request
is for, so a `/dummy` request may fail like a geocoding one.

Operators named as mistakes (`NoWriteLock`, `PopOnly`, …) sit before the
definition they could replace. They are the mutants of `PROJECT.json`: under each
the listed property must fail, so each property is known to see that mistake.

## The runs

| Run | Faults | What it shows |
|---|---|---|
| `seq_crash` | crash | `OneReceiptPerSequence`, `ReceiptsKept`, `ClosingsPayReceipts`, `ReplicaMatchesDb`, `WithinCapacity`, `CosignedBacked`: what `/settle` answered survives crashes between any two statements; replica and tables agree whenever no handler is writing, also right after a load; a mix of new and old rows never exceeds the balance and is never closed with; no co-signature exists without the owner's |
| `seq_abort` | abort | `TypeOK`, `OneReceiptPerSequence`, `ReceiptsKept`, `ClosingsPayReceipts`, and `ReceiptClosable`: a failed save never makes the sequencer answer a number with two states, nor with amounts other than those signed; `ImplementsLedger`: seen as amounts owed, the sequencer is the abstract ledger |
| `seq_live` | – | `EveryRequestAnswered`, two channels under the one lock, each set up by two processes, finalize included |
| `chan_safety` | – | `Solvent`, `IndexConsistent`, `ExpiredClosable`, `PublishedIsFloor`, `TypeOK`, with `address(0)` among the recipients of one id |
| `sys_safety` | killed openers | `ClosingPaysAccepted`, `SentClosingLands`, `DepositReleased`, `SystemTypeOK`, and `ImplementsPromise`: contract and sequencer keep the abstract promise |
| `setup_safety` | one | `ListFaithful`, `OpensOnlyWithout`, `TypeOK`, for a batch client and a benchmark |
| `setup_live` | one | `EventuallyCanPay`, for the same two |
| `paid_safety` | two | `DistinctWorkPaid`, `ChargedOnce`, `CacheSettled`, `TypeOK`, for a single-payment client and a benchmark on one channel; `ImplementsLedger`: clients and service keep the same promise as the sequencer's replica |
| `paid_live` | two | `CacheInStep`, `SteadyWorkPaid`, `StaleCacheRecovers`, `EveryPaymentAnswered`, for a batch client |
| `seq_unpersisted` | abort | **violated**: `ReceiptPersisted` |
| `seq_reseed` | – | **violated**: `ReceiptsKept`, with two processes that set the channel up |
| `paid_resync` | two | **violated**: `RefusalResyncs` |

Why properties are checked under different faults: several hold under one fault
and not under another, and that is what the code does. `ReceiptsKept` fails when
aborts and crashes combine (an update whose save failed is answered from the
replica on retry, then a crash loads the older rows). `ReplicaMatchesDb` fails
under aborts by design of `settle`. `CosignedBacked` and `TypeOK` hold under all of
them, and are proved.

Why one process sets a channel up in the passing runs of the sequencer: the design's
flow is for a "single client per address" (`protocol-scheme-design.md:44`), and
without that the properties fail. A channel that two processes set up is reset
while it is paid from (`seq_reseed`), which takes `OneReceiptPerSequence`,
`ClosingsPayReceipts`, `ReplicaMatchesDb` and the ledger with it, and, where payments
have different receivers, `WithinCapacity` (a seed leaves the rows of the recipients, and
a crash loads them beside newer ones). `CosignedBacked` and `ReceiptClosable` do not need it: they are proved for any
number of processes. `seq_live` has two.

`sys_safety` and `setup_safety` state their properties with the exceptions the
code needs. `ClosingPaysAccepted` is for a channel opened once: a second closing,
sent for one life of an id, may be mined in the next and closes it with the old
update. `OpensOnlyWithout` excepts a run during which another process opened a
channel: two processes that both find none both open one, and a list whose
elements move between two reads, by a closing and then an opening, can miss the
channel that was there all along. `EventuallyCanPay` excepts an owner who has neither
channel nor tokens, and the time in which the last channel of the list has expired or
is spent: `ensureChannel` takes it all the same, and every payment on it is refused.
It is about batches and benchmarks; a single payment may keep a stale cache
(`paid_resync`).

### What the violated runs say

* `seq_unpersisted`. `settle` assigns the replica (`service.rs:216`) before
  `save_channel` and does not undo it when the save fails. The client gets an
  error, retries, and the idempotent branch (`service.rs:182`) answers 200 without
  saving. `handlers.rs:152` documents the 200 as "state persisted".
* `paid_resync`. A single payment clears its cache only on status 402
  (`index.ts:851`), and nothing answers 402 to a payment. After a lost or failed
  answer the cache is one update behind, its next update is refused, and the cache
  stays: the client pays nothing more until the cache expires with the channel.
  `runReverseBatch` clears on any error, hence `StaleCacheRecovers` in `paid_live`.
* `seq_reseed`. The lookup that answers 404 and the seed are two requests
  (`index.ts:446`, `465`), and `seed_channel` writes number 0 over whatever it finds
  (`service.rs:38-62`). Two clients that both see 404 both seed; the later seed resets
  the replica, or the row, while the other client has paid. The sequencer's README
  says that every update is kept.

Other things the models show, which no run is for:

* After a crash between the rows of one update, `load_state` serves the new number and
  signatures with the old balances. A retry is answered 200 with that mix, a receipt the
  contract would refuse, although `protocol-scheme-design.md:42` has the server close with
  it: `ReceiptClosable` fails under crashes, so `seq_abort` checks it and its
  theorem excludes them. `finalize_channel` notices (it recovers the signer again), so
  nothing wrong is closed: `ClosingsPayReceipts` holds in `seq_crash`. It refuses that
  number only: the owner may sign the next update over the mixed state, and with that the
  channel can be finalized.
* `ensureChannel` returns a channel the sequencer knows without a look at its expiry
  (`index.ts:447`): a client that is run again and again uses the expired channel and is
  refused, until somebody closes it on chain. `protocol-scheme-design.md:58` has the
  client open another. It is why `EventuallyCanPay` excepts `Blocked`.
* `/settle` answers a repeat of the last update with 200, as its documentation says, and
  the service does not tell it from a payment (`index.js:243-260`): two processes of an
  owner that know the same state and sign in the same second send the same update, and
  both are served for one charge, although `hello-world-service.md:4` requires a payment
  for every request. `SteadyWorkPaid` fails with two clients for this reason. The model
  takes the facilitator for a relay; replay protection is on its list
  (`hackathon-checklist.md:23`), and its code is not in the repository.
* The service takes the last id of `userChannels` for the latest channel
  (`index.js:159`), but closing an older channel moves the newest from the end of
  the list (`X402CheddrPaymentChannel.sol:336`).
* An update that pays `address(0)` is co-signed (`service.rs:230` looks at no receiver).
  Once it is published, `closeAfterExpiryByAnyone` reverts for ever, and the deposit
  leaves only by a closing with that number or a higher one that lists it no more; the
  sequencer never drops a recipient and sends none. `ExpiredClosable` says that nothing
  else does this. An update that pays the contract itself leaves its amount there for good:
  the escrow has a surplus (`Solvent`).
* The sequencer goes on promising on a channel that is closed (`Settle` never
  looks at the chain). These promises are not lost when the id is opened
  again and seeded: they can be settled a second time, and published.

The service settles, then works: a request that fails in the geocoder is charged
although no work was done (`README.md` and `apps/service/plan.md` have this order,
`protocol-scheme-design.md:51` the other one). It is the order that makes
`DistinctWorkPaid` true. That property and `ChargedOnce` count updates, not requests; per
request the service is paid with one client and no failure (`SteadyWorkPaid`), and not
beyond.

### Bounds, and why they suffice

Sequencer: one channel (two in `seq_live`, where they share the lock), two
handlers, two recipients, a price of 1 with or without a fee of 1, a balance of 3
(so a third paid fee is refused), up to three signed updates and number 3, two
signature timestamps, one of which is at first in the future beyond the skew, and
two clock values. Two handlers are what an interleaving on one channel needs: the
write lock admits one writer, and the other is the racing one; the rows of an
update are two, so a crash finds 0, 1 or 2 of them written. Three updates give a
channel with two receipts in sequence and one update competing for a number.
`MaxSeq`, `MaxSigned` and `MaxTime` are the names of the bounds; they bound the
clients and the clock, never the sequencer. One process sets the channel up, two in
`seq_live` and `seq_reseed`. Request slots are interchangeable
(`RequestSymmetry`, safety runs only; the ledger does not see the slots, so the
refinement may use it too). `seq_live` uses a smaller instance and no clock: the
tableau of a liveness property grows with every state.

Contract: one owner who is also a recipient, one more recipient, deposits of 3,
three expiries (three ids), four openings, so an id is re-opened and three
channels are listed at once, five clock values, which passes every expiry, a lifetime of 2 that delays the longest channel. Per id
four calls, among them one above the deposit and two sequence numbers.
`MaxOpens` and `MaxTime` are the bounds. The second recipient of the longest channel is
`address(0)`, so it is published and the channel left open beside others. No call of the
run names the contract: a surplus in the escrow (the second half of `Solvent`) is left to
the theorem, which has every update among its calls.

System: one id, opened up to three times, a deposit of 2 and a lifetime of 2, so
that two updates, their publication and their closing race the expiry, and
closings of three lives can meet; at most two transactions wait (`MaxSent`),
which is what a second closing of a former life needs. More ids give no more
interplay: channels share only the owner's tokens.

Setup: two processes, tokens for two channels of one unit, a lifetime of 2 and a clock
to 3 (1 and 2 in `setup_live`), which passes the expiry of the first channels, and one
run that ends early or loses an answer (`MaxFaults`) at any step. A lifetime of 2 lets
two channels be open at once, which makes a list whose elements move; with 1 each is
opened after the one before it is closed, which keeps the liveness run small. One unit makes the second payment
on a channel a refused one.

TLC checks deadlock in all passing runs but `sys_safety`: a new request, a run or
`Approve` is always possible. The system of `sys_safety` really stops: when all
its ids have expired and their channels are closed nothing can be opened, settled
or sent.

Paid service: two clients and two request slots, so that a rival request, or one
whose client gave up, runs between any two awaits of another. The capacity (`Balance`)
is three prices in `paid_safety` and two in the others, with a remainder, so the
update above it is refused; it bounds the number of updates. `MaxFaults` is 2, and `MaxTime` is 2, which passes the expiry in `paid_safety` and reaches it in the
others. `paid_live` has one client: with a second process paying all the time a
cache need not ever be in step. Request slots are interchangeable here too
(`HandlerSymmetry`, safety runs only).

### Fairness

`LiveSpec` asks weak fairness of the steps of a running handler (the database and
the node answer, with success here because `seq_live` has no faults: an error
only ends the handler sooner) and strong fairness of taking the lock, since
tokio's `RwLock` queues waiters first come, first served: a waiter is not
overtaken for ever although the lock is free only now and then. No fairness is
asked of clients, of the clock or of faults.

`SystemSpec` asks weak fairness of time passing, of mining (transactions the node
accepted are mined) and of `closeAfterExpiryByAnyone`, which anyone may and the
owner has every reason to call. The sequencer owes no closing.

`ChannelSetup!LiveSpec` asks weak fairness of each process: its calls are answered,
and it is run again after it ended. None is asked of faults, closings or the
clock, so `EventuallyCanPay` does not rest on an expiry: a channel that has expired is
only waited for, never hoped for.

`PaidService!LiveSpec` asks weak fairness of the steps of a request (each call is
answered in the end, with an error at worst) and of the clients: an answer is read,
and the program is run again after it ended, which is how these command-line
clients recover at all. None is asked of the clock, so a cache never recovers
merely by expiring, nor of faults.

## The proofs

Every safety property of a passing run, and every refinement, is also a theorem.
The theorems hold for all values of the constants that satisfy the named
assumptions of the modules. Where one needs more, the hypothesis is in its
statement and in this table.

| Property | Theorem | Hypothesis |
|---|---|---|
| `Sequencer!TypeOK` | `SequencerProofs!TypeCorrect` | |
| `CosignedBacked` | `SequencerProofs!ReceiptsAreBacked` | |
| `WithinCapacity` | `CapacityKept` | `CrashesOrAborts` |
| `OneReceiptPerSequence` | `OneAnswerPerSequence` | `CrashesOrAborts` |
| `ReceiptsKept` | `AnswersKept` | `CrashesOrAborts` |
| `ClosingsPayReceipts` | `ClosingsCoverReceipts` | `CrashesOrAborts` |
| `ReplicaMatchesDb` | `TablesMatchReplica` | `OneSetup`, no aborts |
| `ReceiptClosable` | `ReceiptsClosable` | no crash |
| `Sequencer!ImplementsLedger` | `ReplicaIsLedger` | `OneSetup`, no crash; finitely many addresses |
| `PaymentChannel!TypeOK`, `Solvent`, `IndexConsistent` | `PaymentChannelProofs!TypeCorrect`, `EscrowSolvent`, `OwnersIndexed` | |
| `ExpiredClosable` | `ExpiredUnlessZero` | `CosignedWithinDeposit` |
| `PublishedIsFloor` | `PublicationIsFloor` | `CosignedWithinDeposit`, `OwnerOnlyAdds` |
| `SystemTypeOK`, `SentClosingLands` | `SystemTypeCorrect`, `ClosingsLand` | |
| `ClosingPaysAccepted`, `ImplementsPromise` | `AcceptedIsPaid`, `KeepsPromise` | |
| `PaidService!TypeOK`, `ChargedOnce`, `DistinctWorkPaid`, `CacheSettled` | `PaidTypeCorrect`, `PaidChargedOnce`, `DistinctWorkIsPaid`, `CacheNeverAhead` | |
| `CacheInStep`, `SteadyWorkPaid` | `CacheKeepsStep`, `SteadyWorkIsPaid` | `OneClient` |
| `PaidService!ImplementsLedger` | `PaymentsAreLedger` | |
| `ChannelSetup!TypeOK`, `ListFaithful`, `OpensOnlyWithout` | `SetupTypeCorrect`, `ListIsFaithful`, `NeverOpensASecond` | |

The hypotheses on faults are not conveniences of the proofs: without them the
properties fail, as "Why properties are checked under different faults" says.
`OneSetup`: one process sets channels up. `CrashesOrAborts`: in addition, crashes and
aborted handlers do not both happen. `CosignedWithinDeposit` (no
update is co-signed beyond the deposit, or lists an address twice) is what the
contract takes on trust from the sequencer, and what `CapacityKept` and
`ReceiptsAreBacked` prove of it. `OwnerOnlyAdds` is about the owner: the contract
accepts from the sequencer a closing that the owner alone signed, with any number
not below the published one, so an owner who signs less under a higher number,
and a sequencer who sends it, could undercut a publication. Both hold of the
updates of `chan_safety` (`MCCalls`), whose one overdrawn update has no
co-signature and whose later updates only add. Neither says anything of who the recipients are: any update may list the
contract or `address(0)`. `OneClient` is in the meaning of `CacheInStep` and `SteadyWorkPaid`: with a second process the cache of the file
need not be the sequencer's state, and both may sign the same update.

### Finite sums

The library defines `SumFunction` by a fold, a recursive function whose equations
are not given to the provers, and induction over finite sets needs a theorem with
an operator parameter. `ChannelDataProofs` gets by without: a set of subsets of a
finite set on which a claim fails has a minimal element (`MinimalSubset`, from
well-foundedness of the strict subset ordering), and the claim is then shown for
it. So there is a function that sums (`SumsToExists`), the fold is that function
(`SumIsSumsTo`), and from there on proofs use `SumType`, `SumRemove`, `SumChange`
and `SumMonotone` alone. The module also has the lists of recipients: a `Listing`
names each address once at its position, `Outgrows` compares two of them entry by
entry, and `ApplyPaymentGrows` and `OutgrowsTotal` say what payments do to them.

### The sequencer

`SequencerProofs`, under every set of faults:

* `TypeCorrect`. `TypeOK` alone is not inductive: the steps that write or close a
  channel read `channels[job[p].chan]` and need it to exist. `TypeInv` adds
  `BusyOnKnown`, that such a handler works on a channel in the replica. That
  survives `Crash` because a crash leaves no handler running.
* `ReceiptsAreBacked`. A receipt is a view of the replica, taken long after it was
  co-signed and possibly after a crash, so `BackedInv` follows the co-signature:
  in the replica (`ReplicaBacked`), in the table it is reloaded from (`DbBacked`),
  with handlers past `SettleApply` (`WritersSigned`), and from the request it came
  from (`JobsSigned`).

`SequencerSafetyProofs`:

* `CapacityKept` rests on `StoreInv`: the rows of a channel always are those of some
  listing that the replica outgrows, and the handler writing them has brought a
  prefix up to date (`RowsLag`). A crash loads that listing; being outgrown by one
  within the balance it is within the balance. The lock (`LockExclusive`) keeps
  the prefix to one writer. That a seed finds nothing to overwrite (`SeedsOnce`) is not
  a guard of anything: it follows from what the one process that sets the channel up
  was told (`MissingUnseeded`) and from what an unfinished seed leaves behind
  (`SavedIsKnown`).
* `OneAnswerPerSequence`, `AnswersKept`, `ClosingsCoverReceipts` and
  `TablesMatchReplica` rest on `AnswerInv`. Its heart is `ReplicaKeeps`: the replica
  keeps every answer given, by number and by what each recipient is owed, and
  shows it again at the same number. For this to survive a crash the tables must
  keep the answers too (`RowsKeep`), which is so because rows are complete before
  the answer is given (`WritesUnanswered`: what is being written has not been
  answered) and fails once a write can be aborted and answered from the replica.
* `ReceiptsClosable` needs, besides `ReceiptsAreBacked`, only that the replica shows the
  amounts its signature is for (`SignedIsShown`), true until rows of two updates are
  loaded together.

`SequencerLedgerProofs` maps the replica to `ChannelLedger`: `SeedInsert` is `Open`,
`SettleApply` is `Pay`, every other step a stutter. What is to be shown is that the
sum over the entries of a listing, which the code compares with the balance, is
the sum over all addresses of what they are owed, which the ledger does
(`OwedInTotal`), and that adding the amount and then the fee owes each address its
share, also when one address gets both.

### The contract, and contract and sequencer together

`PaymentChannelProofs`: `Sound` is the conjunction of storage type, solvency, the
index, and two facts they need of each other: a channel that is open holds its
whole deposit, and finitely many are open. Published lists name the contract only if
an offered update does (`Ordinary`), so that the escrow has a surplus only then. One lemma shows that forgetting a
channel and paying out its deposit keeps all of it (`DistributedSound`), once for all
closing transactions; the batch applies it twice. `SwapPopRemoves` is the index: the swap
and pop takes exactly the closed channel from its owner's list. For
`ExpiredUnlessZero` the invariant `PublishedInv` says that the balances an open
channel lists are those of one co-signed update, although balances of earlier
lives of the id and of recipients no longer listed stay in the mapping.

`PaymentSystemProofs`, for any number of ids, openings and waiting transactions:
`SystemInv` holds the contract's invariant, that receipts are what they look like
and fit the deposit, that the replica's state and everything published or sent is a
receipt. `ClosingsLand` follows. `AcceptedIsPaid` needs `DueInv`: in the first life
of an id what is owed by an accepted finalize is published already, or is paid by
the first of the waiting transactions that will close the channel; an id that was
never opened has no transaction waiting (`BeforeOpening`), and none waits before
the first finalize (`FirstClosing`). `KeepsPromise` is the refinement: what is
promised is the highest number among the receipts of the id, what is secured the
published number, and each step is a `Lock`, `Promise`, `Secure`, `Close` or a
stutter.

### The paid service

`PaidServiceProofs`, for any number of clients in any mode and of concurrent
requests:

* `PaidTypeCorrect`. `TypeInv` adds `RequestsMatch`: a client that waits is the only
  one to wait for its request, and the request holds the update the client sent.
  Without it `ReceiveOk` could cache another's state.
* `PaidChargedOnce`, `DistinctWorkIsPaid` and `CacheNeverAhead`. Their invariant is
  `Settlement`: the settled updates are finitely many, exactly as many as the
  channel's number, one price each, none numbered above it, and whatever is
  served, about to be served or cached is one of them. The heart is `TakeSettles`:
  a replay changes nothing and an accepted update is a new element, because its
  number is above all others.
* `CacheKeepsStep`. `InStep` says of every await where state, cache and channel are:
  they agree until the sequencer takes the update, then channel and update agree
  until the answer is read. One client and no failure mean that the only request
  in the service is the one the client waits for.
* `SteadyWorkIsPaid` adds to `InStep` that what a request is about to be served for was
  not served before (`Steady`): the update the one client sends is numbered above
  everything settled, and what is served is settled.
* `PaymentsAreLedger`. Taking an update that is no replay is a `Pay` of the ledger,
  `OpenAndSeed` its `Open`. The ledger's sum has one term (`OneSum`).

### Channel setup

`ChannelSetupProofs`, for any number of processes of an owner in any mode:

* `ListIsFaithful` and `NeverOpensASecond`. Both speak of the last step of something
  that takes many, so their invariant `SetupInv` says what a process that nobody
  raced knows on the way (`Knows`): while it reads, what it has is a prefix of the
  list, or a closing has made the list shorter than the length it works with, and
  the read will revert; when it goes back over the list, every open channel is
  among the ids it has left; when it has none left, no channel is open. A closing
  keeps this because the swap brings no new id into the list (`SwapPopShrinks`).
  `ShapeInv` adds the types and what a process holds at each call, for instance
  that it opens only an id with a positive amount.
* `SetupTypeCorrect`. That the wallet stays within the supply is not inductive,
  because a closing returns a deposit. `TokenInv` bounds the wallet together with
  the deposits of the open channels, and has each channel listed once, so that a
  closing returns a deposit that is really there.

### Only model-checked

The liveness properties (`EveryRequestAnswered`, `DepositReleased`,
`EventuallyCanPay`, `StaleCacheRecovers`, `EveryPaymentAnswered`): the provers have
no fairness reasoning through `ENABLED`. The violated properties have
counterexamples and no theorem. `LiveSpec` and `SystemSpec` add fairness to the
specification of the theorems, so these hold of the live specifications as well.

## Plan

1. *(done)* `ChannelData`, `Sequencer`, `ChannelLedger`, `MCSequencer`,
   `PaymentChannel`, `MCPaymentChannel`, `SequencerProofs`.
2. *(done)* `PaidService`, `MCPaidService`, `PaidServiceProofs`.
3. *(done)* `PaymentSystem`, `PaymentPromise`: sequencer and contract together.
   `ChannelSetup`, `ChannelSetupProofs`: requirements, the list of channels read one
   by one, opening and seeding.
4. *(done)* The proofs of every safety property and refinement the runs check.
5. Next: what a crash-and-abort sequencer still promises, as a weaker property of
   its own that can be proved (today only `CosignedBacked` and `TypeOK` are proved
   there); the same for a channel that two processes set up.

## Not modelled, and why

* HTTP, JSON, hex and decimal parsing, logging, OpenAPI: no state.
* A seed with another balance or expiry than the chain's: the clients send what
  they read from the chain. Two spellings of one id, for the same reason.
* `u64` stored as `BIGINT`, `MAX_RECIPIENTS` against `position` overflow: out of
  reach of any real channel.
* A statement that the database commits after the handler that sent it was
  dropped and the lock taken by another: a statement is done, or not, when its
  handler goes on or ends.
* `TestUSDC.mint` and transfers between users. A `transfer` of the escrow reverts on
  `address(0)` only, which is modelled: it always holds the deposit (`Solvent`).
* The facilitator's own behaviour (its code is not in the repository): what it
  puts in the body of an answer the service only reads the status of; scripts and
  deployment.
* `CACHE_ONLY` and `REQUIREMENTS_ONLY` as runs of their own: they skip or end what
  `ChannelSetup` has as a cached channel and as `Stop`.
* In `ChannelSetup`, the steps of a payment (`PaidService` has them) and reorderings
  of the chain; in `PaymentSystem`, several recipients (`PaymentChannel` has them)
  and a sequencer that forgets (`Sequencer` has crashes).
