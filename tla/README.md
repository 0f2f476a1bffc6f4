# A TLA+ model of the wagering service

The repository is a wallet and wagering service in Go: providers send bets,
wins, losses, refunds and rollbacks over HTTP or an SQS FIFO queue; PostgreSQL
keeps wallets, transactions, a ledger, an inbox and an outbox; workers resume
reversals that arrived before what they reverse and publish integration events.
This directory models the part of it that decides about money, checks it with
TLC and proves some of it with TLAPS.

    tlc -config reversals.cfg MCWagerEngine.tla      # any run of the table below
    tlapm WagerEngineProofs.tla                      # any module of proofs

## The system

| Part | State it keeps | Operations | Talks to |
| --- | --- | --- | --- |
| wagering domain (`internal/domain`) | a transaction row, a wallet, an entry | status transitions, amount and reference rules, credit and debit | called by the use cases |
| `ProcessWagerTransaction` | `wager_transactions`, `wallets`, `wallet_ledger_entries`, `outbox_events` | replay, direct operation, reversal, wait, reject | HTTP goroutines, the message handler, the reference worker |
| `OpenWallet` | the same tables | open with an initial balance | HTTP |
| `HandleWagerMessage` | `inbox_messages` | deduplicate, run the former in the same commit | SQS consumer |
| `ResolvePendingReferences` and its worker | pending rows: attempts, next retry, TTL | claim (SKIP LOCKED), resume, reschedule, expire | the former's settlement code |
| repositories, `UnitOfWork` | the PostgreSQL transaction | one commit per use case, READ COMMITTED, `FOR UPDATE` on the wallet | all of the above |
| SQS consumer | a batch, receipts, the DLQ | receive, handle, delete, bury | broker, `HandleWagerMessage` |
| outbox publisher | leases, attempts, next attempt | claim a batch, send, confirm, back off | broker, `outbox_events` |
| reconciliation, ledger listing | none (queries, each in a snapshot) | compare balance and ledger; page by cursor | HTTP |
| money | none | parse, format, checked arithmetic | domain |
| HTTP edge | none | authenticate, authorise, call a use case, map its end to a status | use cases, auth |
| authentication | a cache of signing keys | look up, refresh, reject | identity provider |
| process life cycle | the hooks, the listener, the pool | start, drain, cancel, close | server, loops, PostgreSQL |
| configuration, logs, metrics, health, migrations | values, counters | read once, observe | all |

Hard behaviours: calls, deliveries and workers interleave statement by
statement; two reversals of one bet meet; the same operation arrives twice, on
two channels or for two wallets; a reversal overtakes its reference; a process
dies between commit and delete, or between send and confirmation; a lease or a
visibility timeout runs out under a slow process; an entry becomes visible behind a cursor
that was handed out; keys rotate while calls wait for a download; the process is
told to stop in the middle of all that. `PROJECT.json` lists each hazard with its
line.

What makes each part correct: the ledger explains the balance and no update is
lost; one operation per key and per external id; one successful reversal per
operation; one outcome per request, however often it is asked for; a waiting
reversal settles, unless its credit overflows (`starved_pending`); inbox, effect and
outbox share a commit; every stored event is delivered and confirmed, with no
unexplained copy; no message leaves the queue before it is decided, and none is
refused without a reason; a listing shows what was there and nothing twice; a reconciliation raises no false alarm;
a withdrawn key is soon refused; the pool closes after all that uses it.

## The modules

| Module | Models |
| --- | --- |
| `Wagering` | the domain as pure operators: kinds, statuses, the row, `ReversalRejection`, `Moved`, `EventsOf`, balance and version arithmetic |
| `WagerEngine` | the use cases over PostgreSQL, one action per statement |
| `WagerService` | what the engine promises: atomic operations on accounts and a book of operations |
| `WagerRefinement` | the mapping: `wallets` are the accounts, `txs` without its retry counters is the book; the engine's inductive invariant |
| `WagerEngineProofs` | proofs: types, the ledger, identities and settled rows |
| `WagerOutcomeProofs` | proofs: reversals, the inbox, answers |
| `WagerRefinementProofs` | proofs: decisions, entries and versions, the outbox, the refinement |
| `OutboxPublisher`, `EventDelivery` | the publishers, and at-least-once delivery as they promise it |
| `OutboxProofs` | proofs: copies, published rows, the order of delivery |
| `SqsConsumer`, `SqsProofs` | the consumers on the FIFO queue; proofs: every deletion is decided, dead letters are deserved |
| `LedgerReads` | the paginated listing and the reconciliation of a wallet that moves |
| `Money` | amounts in machine words: parsing, formatting, arithmetic |
| `HttpEdge` | what a call of the API is answered, as functions of the call |
| `LedgerReadsProofs` | proofs: the listing, the reconciliation, the arithmetic, one text per amount, a provider's own transactions |
| `JwksCache`, `JwksProofs` | the cache of signing keys under its lock; proofs: accepted keys are recent, downloads are spaced, waits are bounded |
| `Lifecycle`, `LifecycleProofs` | start and stop of the process; proofs: the pool closes last, only time cuts calls |
| `MCWagerEngine`, `MCOutboxPublisher`, `MCSqsConsumer`, `MCLedgerReads`, `MCJwksCache`, `MCLifecycle` | instances for TLC |

### WagerEngine

A process (HTTP goroutine, consumer or reference worker) runs one unit of work
at a time; `pc[p]` is its next statement. Its uncommitted writes are in
`plan[p]` and appear in `wallets`, `txs`, `ledger`, `outbox` and `inbox` at its
commit, which is READ COMMITTED as PostgreSQL has it. What it holds before is
modelled as what makes others wait or skip: `holder[w]` is the `FOR UPDATE` lock
of a wallet; `Claimable` the `FOR UPDATE SKIP LOCKED` of a pending row;
`Persist` waits for an uncommitted row with the same key, external id or
reversal, and `RecordInbox` for an uncommitted inbox row. A committed clash, or
the `(wallet_id, amount_currency)` foreign key, aborts the transaction.

| Action | Code |
| --- | --- |
| `OpenWallet` | `OpenWallet.Execute`, `recordOpening` |
| `Submit`, `Deliver`, `Claim` | `Execute`; `Handle`; `Tick` with `ClaimPendingReferences`, oldest due row first |
| `BecomesDue` | now passes a row's `next_retry_at`: it takes its place in `due` |
| `FindInbox`, `RecordInbox` | `Inbox().Find`, `Record` and the lookup after a conflict |
| `LockWallet` | `parse`, then `Wallets().LockByID` |
| `FindByIdempotencyKey`, `FindByExternalID` | `findReplay`; the second goes on with `apply`, `NewExternal` and `applyDirect` |
| `FindReference`, `CheckReversed` | `applyReversal`, `resume`, `waitOrExpire` |
| `Persist` | `persistSettled`, `persistRejected`, `markPending`: the row's INSERT or UPDATE |
| `Commit`, `Rollback`, `Crash` | `UnitOfWork.Execute`, a cancelled context, a dead process |

The writes after the row (entry, balance, events) cannot clash with another
process, which holds no lock they need, so they take effect with the commit.

A command may be invalid. `parse` runs inside the unit of work, for a message after
the INSERT of its inbox row, and refuses what is not `Valid` (`INVALID_INPUT`; an
unknown kind or a malformed id or amount goes the way of a missing field); the
round and the game are asked for only by `NewExternal`, after both replay queries
(`Complete`, `MISSING_FIELD`). These, an unknown wallet, an overflow, and a key or
external id that is taken are the `Permanent` errors: over HTTP the unit of work is
rolled back, for a message `Handle` returns nil, and the inbox row is committed
alone.

A provider is folded into the keys: every query is scoped by it. Hashes are
equality of requests. Time is a choice: a waiting row may be found late at any
resumption. A crash may happen at every step and any number of times.
Amounts are `0..MaxMinor`, which stands for the range of int64: an amount beyond
it is the overflow error.

Some definitions are preceded by a faulty variant of themselves (a lock not
taken, an index left out, a test forgotten): replacing the definition by the
variant makes the property `PROJECT.json` pairs with it fail.

### OutboxPublisher and SqsConsumer

Both model time by letting a lease, a backoff or a visibility timeout end at any
moment. `excuses` and `guards` are history: how often a lease ran out or a send
that succeeded was reported as failed, and who is still working on an event
within its lease. `locked_by` is left out because no statement reads it:
`MarkPublished` and `ReleaseWithBackoff` (`repository/outbox.go:92-124`) find their
row by id alone, so a late publisher may release a row another one holds, and a
lease is not exclusive. `CopiesAreExplained` and `PublishedIsFinal` hold
nonetheless. In `SqsConsumer` the broker (groups, visibility, redrive) is modelled
from how `consumer.go` and `init-queues.sh` use it; a receipt is the number of the
receive it came with, and a stale receipt may or may not delete. The handler is
one step there; `WagerEngine` has its statements, and takes any message at any
time, so it covers every order and repetition the queue produces. That step decides
the message (`Decide`): it commits the effect with the inbox row (`applied`), or the
inbox row alone, because the command is refused for good (`refused`); which of the
two depends on tables this module does not have, so it is a free choice, and a
message that was decided stays so. `handleOne` deletes it in both cases:
`EveryDeletionIsDecided` says what a deletion guarantees, and `refusal_deleted` what it
does not. That a refusal has a reason is said where the tables are,
`RefusalsHaveAReason` in `WagerEngine`.

### LedgerReads, Money and HttpEdge

`LedgerReads` keeps of a unit of work only when it takes `created_at`: HTTP calls
and consumers read the clock under the wallet lock, the reference worker before
it waits for that lock (`resolve_pending.go:70`). Its entry may therefore appear
behind a cursor that was handed out already, and a listing that is in progress
misses it: `OnlyEarlyStampsAreMissed` says that these entries, and entries of one
instant, are all it can miss. The reconciliation fixes its snapshot with its first
statement. `Money` has the guards of `money.go` over words of any width and any
base; its texts are sequences of digits and three other characters. `HttpEdge`
is a function of one call: a token, a route, the ids named by token, body, path
and row, and how the use case ends. `MCLedgerReads` checks both beside
`LedgerReads`: every input of a pure operator is an initial state of its own
(`input`), from which nothing goes on.

### JwksCache

One action per critical section of `jwks.go`: the lookup under the read lock, the
refresh under the write lock with its download, and the second lookup. A cache
that is fresh is not refreshed for a key it lacks, so a new key is refused until
the refresh interval is over; `PublishedKeyGetsIn` says that this ends. The
download runs under a context no caller can cancel: with the provider away, calls
wait for those ahead of them, and lookups of cached keys wait with them.

### Lifecycle

The hooks run in the order in which Fx builds what `app.go` asks for, and in
reverse at the stop: the HTTP server drains first, then the loops are cancelled one
by one, the pool closes last. A call or a loop holds a connection while a unit of
work is in progress. `HTTP_SHUTDOWN_TIMEOUT` is 20 s by default and Fx allows all
the hooks together 15 s: under these values the process ends before the server's
own timeout, which is what `NoCallOutlivesThePool` uses. A loop's `Stop` cancels the
context its batch runs under: what is in progress is rolled back, and leases and
visibility timeouts are left to run out (`ARCHITECTURE.md:163-164` speaks of
releasing them, and of stopping the polls before HTTP is drained).

## The runs

| Run | Instance | Checks |
| --- | --- | --- |
| `reversals` | 2 HTTP goroutines, 2 workers; bet, refund, rollback, the bet without a currency and for another player | `LedgerBacksBalance`, `ReversedOnce`, `OneOutcomePerRequest`, `OutboxTellsTheLife`, `EngineInvariant`, `SettledForGood`, `ImplementsService` |
| `messages` | 2 consumers, 1 worker, 2 wallets opened empty or not; three ids with two contents each: one bet under two ids and without a round, one key and external id for two wallets, a bet that may lack funds, a win that may overflow, a loss, a rollback that may cross wallets | `TypeOK`, `EntryPerMovement`, `EffectsAreCoveredByInbox`, `OneOperationPerIdentity`, `EngineInvariant`, `NoDeadlock`, `RefusalsHaveAReason` |
| `pending` | 1 goroutine, 2 consumers, 1 worker, fairness; bet, refund, the bet in another currency | `PendingSettles`, `EveryUnitOfWorkEnds` |
| `outbox` | 2 events, 2 publishers, batches of 2, 3 mishaps, fairness | `CopiesAreExplained`, `OutboxInvariant`, `PublishedIsFinal`, `ImplementsDelivery` |
| `queue` | 3 messages in 2 groups, 2 consumers, batches of 2, 2 receives, 2 mishaps, fairness | `EveryDeletionIsDecided`, `DeadLettersAreDeserved`, `ConsumerInvariant`, `QueueDrains` |
| `ledger_reads` | 1 session, 1 worker, 3 entries, 3 instants, pages of 1 and 2; all words, short texts and calls | `TypeOK`, `ListingInKeyOrder`, `OldEntriesAreListed`, `OnlyEarlyStampsAreMissed`, `NoFalseDivergence`, `ArithmeticExact`, `CanonicalForm`, `OwnTransactionsOnly` |
| `jwks` | 2 calls, 2 keys, refresh every 2 ticks, downloads of up to 2, fairness | `WaitIsBounded`, `AcceptedKeysAreRecent`, `DownloadsAreSpaced`, `PublishedKeyGetsIn` |
| `lifecycle` | 2 calls, 3 loops, 2 connections, timeouts of 1 and 2 ticks, fairness | `PoolClosesLast`, `OnlyTimeCutsCalls`, `StopEndsByItself` |

`RefusalsHaveAReason` makes a message that vanishes visible: an inbox row is
committed with an operation of its identity in the tables, or for a command that is
invalid, overflows its wallet or found no wallet. In `pending` no sum overflows;
`starved_pending` is the same promise where one does.

Four runs end in a violation of something a document or comment of the
repository says:

| Run | What happens |
| --- | --- |
| `refusal_lost` | a request in another currency than the wallet's is decided `CURRENCY_MISMATCH`, but the foreign key refuses the row; nothing is stored, although `process_transaction.go:480` says a refusal is |
| `starved_pending` | a pending refund whose credit overflows is rolled back with its attempt count and stays the oldest due row; a refund behind it whose bet never comes is not even looked at, although `roadmap/09-referencias-pendentes.md:51` rules an eternal wait out |
| `wallet_order` | in a batch, a later message of a wallet is handled after an earlier one failed, although ADR-008 promises order per wallet |
| `refusal_deleted` | a message whose command is refused for good is deleted with only its inbox row left, no copy in the DLQ, although `docs/enunciado.md:353` and ADR-008 send permanent errors there |

Bounds. Two processes of a kind are what a race needs; three requests give every
order of a reference and two reversals of it. `MaxAttempts = 2` has one retry
and one expiry; the TTL adds expiry at any attempt. `MaxMinor` is small enough
for sums to overflow in `messages` and `starved_pending`, and large enough elsewhere
for them not to. The number of transactions is bounded by the unique keys, so
the engine needs no counter bound: crashes, retries and repeated sends are
unbounded. `MaxMishaps` bounds failures and early timeouts in the publishers and
consumers; `queue` has as many mishaps as receives, so that a good message can
just be worn out. In `ledger_reads`, three entries at three instants let one arrive
before, at and behind a cursor; words of -14..13 in base 2 have every relation to
`MinorPerUnit = 4` the guards tell apart, and seven characters reach past both
ends of the word. In `jwks` the ticks count whether an interval is over, not how
long it is; a slot serves one call per tick. In `lifecycle` the drain timeout is
the shorter one, so that a call can outlive the listener and meet the closing
pool; the other order is a theorem. `CHECK_DEADLOCK FALSE` is set where the system
stops: the finite sets of events, messages and entries are used up, and a process
exits. Symmetry (`Perms`: processes, publishers, consumers) is used in safety runs
only.

Fairness. `WagerEngine`: a statement that is possible again and again is
executed (PostgreSQL queues waiters, goroutines are scheduled), every
`next_retry_at` comes (`BecomesDue`), a worker that can claim again and again claims
the row its query returns, the oldest due one, whichever that is, and crashes stop
in the end. New requests, deliveries and wallets are not fair. `OutboxPublisher`,
`SqsConsumer`: the loops run for ever, timeouts nobody is working under end, the
broker redrives. Sends, failures and crashes are not fair. `JwksCache`: time passes
and goroutines run; the RWMutex starves neither side; the provider owes nothing.
`Lifecycle`: hooks, loops and units of work go on; nothing is assumed of the clock,
so the stop ends without its timeouts.

## The proofs

For every set of requests, wallets, balances and processes:

* `TypeCorrect`: `Spec => []TypeOK`. No balance, amount or frozen result leaves
  `0..MaxMinor`; `Move` never completes a movement that overflows or overdraws.
* `LedgerCorrect`: `Spec => []LedgerBacksBalance`, and `SnapshotCorrect`:
  `Spec => []SnapshotIsCurrent`.
* `IdentityCorrect`: `Spec => []OneOperationPerIdentity`, and `SettledCorrect`:
  `Spec => SettledForGood`.
* `ReversalCorrect`: `Spec => []ReversedOnce`; `AnswerCorrect`:
  `Spec => []OneOutcomePerRequest`; `CoverageCorrect`:
  `Spec => []EffectsAreCoveredByInbox`; `NoDeadlockCorrect`: `Spec => []NoDeadlock`.
* `EntryCorrect`: `Spec => []EntryPerMovement`, and `OutboxTellsTheLifeCorrect`:
  `Spec => []OutboxTellsTheLife`.
* `ServiceImplemented`: `Spec => ImplementsService`. `WagerService` has no
  fairness, so this is the whole of it.

For all finite sets of publishers and events and any number of failures and
expired leases:

* `CopiesCorrect`: `Spec => []CopiesAreExplained`, and `PublishedCorrect`:
  `Spec => PublishedIsFinal`.
* `DeliveryIsOrdered`: the initial states and steps of the publishers are those
  of `EventDelivery` (the safety part of `ImplementsDelivery`).

For every finite set of messages, and any groups, consumers, batch sizes and
bounds:

* `EveryDeletionIsDecidedHolds`: `Spec => []EveryDeletionIsDecided`, and
  `DeadLettersAreDeservedHolds`: `Spec => []DeadLettersAreDeserved`.

For any number of sessions, workers, entries and instants, any page sizes and any
movements:

* `ReadsTypeCorrect`: `Spec => []TypeOK`.
* `ListingInKeyOrderCorrect`, `OldEntriesAreListedCorrect` and
  `OnlyEarlyStampsAreMissedCorrect`: what the pages of a listing show and may miss.
* `ReconciliationCorrect`: the balance is always the sum of the ledger, and
  `NoFalseDivergenceCorrect`: `Spec => []NoFalseDivergence`.

For every word width and base, `ArithmeticExactCorrect` (from `ArithmeticIsExactHolds`);
for texts of every length, `CanonicalFormCorrect`; for every call,
`OwnTransactionsOnlyCorrect`. These are stated of the specification the run checks,
`MCSpec`, whose inputs are any words, texts up to any length and calls.

For any keys, intervals and finite set of calls, `AcceptedKeysAreRecentHolds`,
`DownloadsAreSpacedHolds` and `WaitIsBoundedCorrect`; for any calls, loops, pool size
and timeouts, `PoolClosesLastHolds` and `OnlyTimeCutsCallsHolds`, and, where the drain
timeout is the longer one, `NoCallOutlivesThePool`.

The ledger. `LedgerBacksBalance` alone is not inductive: a commit appends an
entry computed from a copy of the wallet read several steps earlier.
`LedgerInvariant` adds what keeps that copy current: whoever holds a wallet is
past `LockByID` on it, and who is deciding holds its wallet (`LockDiscipline`);
a holder's copy is the committed wallet (`SnapshotIsCurrent`); a planned
movement starts from that copy (`PlannedMovements`); a wallet not yet opened has
no history (`ClosedIsUntouched`). The lemma `ChainGrows` says that an entry that
starts at the last balance extends the chain.

The history. What a commit inserts or overwrites was decided earlier as well.
`HistoryInvariant` says that a worker has a waiting row nobody else has claimed
and plans to settle that very row (`RowsAreClaimed`), that everybody else plans
to insert the request it was handed, once `parse` and `NewExternal` have let it
through (`RequestsAreCarried`, `LetThrough`), that every stored row was let through
(`StoredRowsAreValid`), so that every one has a key, and that a row past
`Persist` shares no key and no external id with a committed row or with another
one past `Persist` (`InsertsAreNew`). `findReplay` is not needed for it: two calls
for different wallets both find nothing, and only the indexes tell them apart.
Every statement before `Persist` is one case of `Decides`; every end of a unit of
work is one case of `EndKeepsHistory`.

The outcomes. A reversal that goes ahead, planned or committed, has a settled
reference that accepts it, and while it is planned no other one is committed:
two reversals of one operation are planned under the lock of the same wallet, the
reference's (`ReversalInvariant`). A commit or an opening is one row that arrives
with at most one entry (`Arrives`, `Explained`). Who writes for a message has
recorded it, and nobody else has that message recorded or committed
(`InboxDiscipline`). A terminal result that is sent without a write is a stored one
(`AnswersAreStored`), and `SettledRowsStay` keeps it.

The waits. A unit of work waits for an inbox row, then for a wallet, then for index
entries, and keeps what it has. `NoDeadlock` says that whoever is waited for is at
work and that no set of processes waits only for its own members. It needs no
strengthening of its own: by `LockDiscipline` and `InboxDiscipline` whoever is waited
for stands further on (`WaitsLookAhead`), so in any set the one that has got furthest
waits for nobody in it (`FurthestGoesOn`). A claim waits for nothing (SKIP LOCKED), the
foreign keys lead to the wallet the unit of work has locked itself and to references
that are settled, which nobody locks, and one INSERT reaches its indexes in one order,
so what `Persist` abstracts from adds no cycle.

The refinement. Every commit must be a step the service could take now, although it
was decided earlier. `DecisionsAreCurrent` says that it still can: a process that is
about to write holds its wallet, and what it has decided is what the service would
decide on the committed tables of this moment. The decision rests on the account,
on the rows settled for this wallet and on whether the reference was reversed; a
process that does not hold the wallet changes none of them (`OtherStepsKeepWallets`,
`NotReversedStays`, `MissesStays`), and the one row a lookup may miss and then find
belongs to another wallet, which the service allows for (`MayMiss`). A commit that
only reschedules, replays or fails is a stutter.

The entries. `VersionsCountEntries` ties the version of a wallet to the length of
its ledger; the first entry decides whether version 1 was an entry (an opening
balance) or not. Under the lock, the version a movement freezes is the next one.

The outbox. `OutboxTellsTheLife` compares three tables and is not inductive by
itself: an event says nothing of the row it will be compared with later.
`OutboxInOrder` says that every event is of a stored row, that the events of a row
are those of its present status, after a wait if it waited, and that the balance
changes of a wallet are its entries one by one, each with the version its row has
frozen. A commit or an opening appends an announcement to both (`TypesGrow`,
`ChangesGrow`); a retry appends nothing (`StoryRests`). That the versions of a wallet
follow each other comes from the entries. The events of a row are a subsequence of
the outbox (`Chosen`, a recursive function), and what it does with one more event is
`ChosenAppend`.

`EngineInvariant` is the conjunction of all these, checked by TLC in `reversals` and
`messages` and proved as `EngineInvariantCorrect`.

The copies. A copy is bounded by counting early: `CopiesAreBudgeted` counts with
the copies of an event the publishers that still have it to send and the claim
an unpublished row without a running lease invites; a claim or a send moves one
unit from one term to the next, and only a lease that runs out or a send
reported as failed adds one, which `excuses` records.

The messages. A message that can be processed is dead after `MaxReceives`
receives, so receives must be paid for. `ReceivesArePaid` says that every receive
of a queued message but the one in progress has met a mishap: a delivery ends with
the deletion, or with a failure, a crash or an early timeout, each of them counted,
while a receipt that somebody works on is current as long as the message is
invisible. `HandlingInOrder` says that who deletes has the inbox row, of an effect
or of a refusal for good, or the copy behind it.

The keys. `AcceptedKeysAreRecent` needs that the keys in the cache were published
when the answer that brought them was sent, and that this is no longer ago than
the age of the cache and the time the download took. `WaitIsBounded` needs to know
how many downloads are still ahead of a call: `Line` says that the waiting calls are
those of the queue, that only the owner of the lock downloads, and that what a call has
waited, the rest of the download in progress and one download for everybody before it
in the queue stay within the bound. `PoolClosesLast` follows from where the hooks
stand: a loop is off before its hook and after its stop.

The listing. `ListingInvariant` has four parts: a session's `created_at` is not before
those of the entries committed when it took it (`StampsAreOrdered`); ids are unique, so
the order of the keys is strict (`IdsAreUnique`); the pages so far are entries in key
order up to the cursor (`PagesAreInOrder`); and what was committed and not shown is
behind the cursor for a reason, or still to come (`PagesAreComplete`). A page is the
beginning of the sorted rest (`RowsAfterCorrect`, `PageStep`), and that a finite set of
entries can be sorted in exactly one way is `InKeyOrderCorrect`. The reconciliation
needs `BalanceIsSum`, in the tables and in the snapshot, and `SumAppend`.

The texts. `Format` writes digits that `DigitsToMinorUnits` reads back (`WrittenIsRead`),
and a text that is read has no other form (`ReadIsWritten`): a number has one last
digit and one rest (`LastDigit`), and the guards against overflow refuse exactly what
the word does not hold (`DigitsToMinorUnitsIs`).

Induction. A set of naturals with 0 and the successor of each of its members has them
all: `Induction` derives this from the well-foundedness of `<` (`WFMin`), and lengths,
sums, digits and subsequences are reasoned about with it. Recursive functions are shown
to be what their equation says before they are used (`Computation`, `DigitsDefined`,
`ChosenDefined`).

The runs `reversals`, `messages`, `outbox` and `queue` check the inductive invariants
with TLC. The proofs assume what the modules name: `DomainAssumption` and
`EngineAssumption` (requests are commands with one of the external kinds and an amount
in range, valid or not, the kinds of process are disjoint,
opening balances are in range); `OutboxAssumption`, `ConsumerAssumption` and
`CacheAssumption` (publishers, events, messages and calls are finitely many, so that
they can be counted); `ReadsAssumption` and `MoneyAssumption` (writers are distinct,
pages are not empty, movements are words, a word holds one unit of money in minor
units); `LifecycleAssumption` (the pool has a connection). TLC evaluates each of them.

Only model-checked: liveness under fairness, which is out of the prover's reach
(`PendingSettles`, `EveryUnitOfWorkEnds`, `QueueDrains`, `PublishedKeyGetsIn`,
`StopEndsByItself`, and of `ImplementsDelivery` the fairness), the four runs that end in a violation, and `RefusalsHaveAReason`: the
messages of its instance are refused for a missing wallet, a missing field, a taken key,
a taken external id and an overflow. Every other invariant and action property a passing
run checks is a theorem.

## The plan

1. Done: every component that changes state, and the queries that race with it.
2. Done: the safety of every component and the refinement of `WagerService`, proved.
3. Left: what the next section names.

## Not modelled

Configuration is read once; what it guarantees enters as assumptions on the
CONSTANTS. Logging, metrics, health and migrations change no state the properties
speak of. JSON, base64 and JWT parsing are whether a call is well formed and a
token valid. Correlation ids, event payloads and identifiers are abstracted, and
so are the lengths of backoffs, leases and intervals: they end at any time. The
`FAILED` status exists in the domain, but no use case produces it. Clocks of
different instances do not drift apart, and a signal that arrives while the
process starts is handled once it has started.
