# A TLA+ verification of suco

suco lets a merchant be paid in a stablecoin straight to its own address: it
hands a payer a key to authorise one transfer with, reads the chain for that
transfer, asks independent endpoints whether it is final, calls the payment
succeeded or expired, and tells the merchant by webhook. Nothing in it moves
money; everything depends on what it says having been true. This directory
specifies that behaviour, model-checks it with TLC and proves what it
keeps true with TLAPS.

    tlc -workers 2 -config SettlementHonest.cfg MCSettlement
    tlc -workers 2 -config Finality.cfg MCFinality
    tlc -workers 2 -config Assets.cfg Assets
    tlapm SettlementProofs.tla

Every run of `PROJECT.json` is checked in this way, and every `*Proofs` module
by `tlapm`.

## 1. Inventory

Several processes of one deployment share a PostgreSQL database and nothing
else. HTTP handlers, one observer per network, one finality worker per network
and one webhook worker run in each process; a lease row in the database lets one
process at a time do the work of each.

| Part (src/internal/...) | State it keeps | Operations | Hard behaviour | What makes it correct |
|---|---|---|---|---|
| payment (status, payment, service, postgres) | `payments`: status, what arrived, version; `outbox` | OpenAs, Create, Await, Save, Record, Vanish, Opened, Unsettled, Overdue | moves race each other under a version; an arrival is credited and taken back | succeeded only if paid; closed for good; one event to a move |
| payment/http, money, api/auth, credential, accepted | `credentials`, what accounts accept, keys of requests | Asks, FindByToken, RecordUse, Destination, Insert, FindByKey | a request is many statements; the operator changes things between them; answers are lost | a key opens one payment, its own account's, and every row reads back |
| attempts, evidence | `attempts` and their revision; `observations`, one row a transfer | Issue, Supersede, Confirm, Judge | two pages race to one live attempt; a round confirms what it read earlier | an attempt follows the rows of its key |
| observe (observer, cursor) | `observation_cursors`; the round in hand; width, wait and word of a network | tick: lease, standing, holds, settled, write, ahead, record | reads, then writes; leases run out; providers lie, lag, refuse and reorganise | below the cursor the rows are the chain; the cursor stays on its chain; what is final is read in the end |
| observe (upgraded, stopped, Paused) | words and readings of assets | scan, look at code, look at flag | contracts change between calls; one never answers | what is said was so; one asset hides no other |
| finality | tasks in hand, misses and skips | Candidates, Ask, pay, giveUp, Sweep | endpoints lie, lag and are silent; memory is lost; answers are acted on late | settled only if final; given up only if gone; decided in the end |
| network cursor command | the cursor | set, unless something is open | checks, asks a node, sets | skips nothing that can be paid |
| refund, payment/refund | refunds under the payment's lock | open, hand out, settle, expire | ceilings against concurrent refunds; double sends | never more back than arrived |
| checkout | nothing of its own | page, issue, reissue, report | two tabs, a request of many statements | every answer shows the live attempt; a payer is served |
| webhook (worker, delivery, postgres) | `webhook_deliveries` | Expand, Due, Attempted, Delete, Sweep, Test, Resend | an HTTP call between a read and a write; a lease never renewed | each event to each endpoint, in order, until done |
| webhook (http, endpoint, destination, sender) | `webhook_endpoints`, secrets, allowances | Register, Point, Rotate, Enable, Delete, sign, check, dial | concurrent registrations; names that change their answer; keys swapped | the limit holds; a receiver can verify; a delivery goes where it was checked to |
| observe/lease | `leases` | Acquire, Renew, Release | expiry by the clock while work goes on | one holder |
| postgres (migrate, pool) | `schema_migrations`, the schema, an advisory lock | Migrate | several builds start at once; statements fail half way; sessions outlive clients | the record tells what the schema is |
| chain adapters, config, cmd, invisible, problem | none | RPC and ABI decoding, parsing, reports | | |

`PROJECT.json` lists every part with its sources and what is modelled of it, and
under "hazards" each place in the code where a test would hardly reach.

How they interact: the page's handlers insert attempts; the observer reads the
attempts' keys off the chain and writes rows, arrivals and confirmations with
the cursor in one transaction; the finality worker takes up final rows from the
same tables, asks endpoints, and saves moves with an outbox event each; the
webhook worker turns outbox rows into deliveries. All of them meet only in the
database, through versions, revisions, the cursor's compare-and-set and row locks.

## 2. Modules

| Module | What it is | Code |
|---|---|---|
| `Chain` | blocks, forks, finality and single-use keys as internal/chain presents them | external |
| `Payment` | pure rules: moves, who can receive, Judge | payment/status.go, payment.go, evidence.go, attempt.go |
| `Lifecycle` | what a merchant is promised of a payment: the abstract specification | payment/payment.go, payment/http.go |
| `Settlement`, `MCSettlement`, `SettlementProofs` | page, observer, store, finality worker and the cursor command around one network | payment/service.go, payment/postgres.go, observe/observer.go, observe/cursor.go, finality/worker.go, cmd/suco/network.go |
| `Webhooks`, `MCWebhooks`, `WebhooksProofs` | outbox, deliveries, rounds of workers, what merchants ask for | webhook/postgres.go, worker.go, delivery.go, sender.go |
| `Refunds`, `MCRefunds`, `RefundsProofs` | requests, the observer's rows of refunds, and what the finality worker does to them | payment/refund.go, refundhttp.go, evidence.go, the refund statements of payment/postgres.go, finality/worker.go |
| `Returns` | what a merchant is promised of the money it sends back: the abstract specification | payment/refund.go, payment/postgres.go |
| `Finality`, `MCFinality`, `FinalityProofs` | how endpoints that lie, lag and are silent come to an answer, and what rounds remember of it | finality/finality.go, finality/worker.go, observe/lease.go |
| `Checkout`, `MCCheckout`, `CheckoutProofs` | two tabs on one payment's page, statement by statement | checkout/http.go, state.go, postgres.go, payment/service.go |
| `Money` | amounts: reading, keeping and writing one | payment/money.go |
| `Opening`, `MCOpening`, `OpeningProofs` | a merchant's request that opens or reads a payment, statement by statement | api/auth.go, credential, accepted, payment/http.go, service.go, postgres.go |
| `Endpoints`, `MCEndpoints`, `EndpointsProofs` | endpoints, their secrets, and where a delivery connects | webhook/http.go, endpoint.go, postgres.go, destination.go, sender.go |
| `Rounds`, `MCRounds`, `InstanceProofs` | what an observer asks, how often, and what it says of a network | observe/observer.go, cursor.go, lease.go |
| `Assets`, `InstanceProofs` | what it says of assets | observe/observer.go |
| `Migrations`, `MCMigrations`, `InstanceProofs` | builds that bring one database up to their schema | postgres/migrate.go |

How they compose. `Settlement` EXTENDS `Chain` and `Payment` and is shown to implement
`Lifecycle` (`KeepsPromise`, with `Payments`, `status`, `received` and `told` mapped). It takes three things
as given that modules of their own take apart: that a settled answer is of a final
transfer (`Finality`), that attempts are issued and retired one at a time (`Checkout`), and
that a round reads on (`Rounds`). It leaves a payment at its outbox row, where `Webhooks` begins
(`Happen` starts from rows in the order of moves), and `Endpoints` says where a delivery
of `Webhooks` goes and under what it is signed. `Refunds` starts from payments that
succeeded, which never move again (`Lifecycle`), and shares `Chain`; it is shown to implement
`Returns` (`KeepsAccount`, with `left`, `of`, `key` and `told` mapped: `left` is what arrived less what is
`Held`). `Opening` ends with the
row `Settlement` begins from.

### Settlement and the code

A step of `Settlement` is one transaction of the store, or one reading of the
network. What a process learnt from a step and uses in a later one is kept in
`round[o]` (an observer) or `task[w]` (a payment a finality worker has in hand),
exactly the values the code carries, so that every other step may come between.

* `MintAttempt`/`StoreAttempt` are the reads of `Service.Issue` and the insert that
  the index `attempts_one_live_per_payment` decides; `Supersede` is the other route.
* `StartCursor`, `Begin`, `ScanBehind`, `WriteBehind`, `ScanAhead`, `WriteAhead` are
  the calls of `Observer.tick` in their order. `LoseRound` is every way a round ends
  early: an endpoint that fails, a write refused, a process that stops.
* `Record` is `Postgres.Record`: rows, then `vanish` with `unconfirm` and
  `unreceive`, then `arrived`, then attempts with their revisions and events.
* `TakeCandidate`, `Answered`, `Pay`, `GiveUp` follow one candidate of
  `Worker.round`; `TakeOverdue`/`CloseToPayment` and `TakeUnsettled`/`Expire` are the
  two sweeps. `PassOver` is a task that ends with nothing written.
* `CheckCursor`, `PutCursor` are the two halves of `network cursor`.

Data are abstracted to what the rules compare. A block is its height and the
number of the fork that made it, which stands for its hash; its timestamp is its
height. A transfer's amount is "full", "short", "unreadable" or "wrong" (another
asset or address). Keys are attempts. The endpoints' agreed answer is one step
that can only be given for a height that is final, which is what `Ask` requires of
every endpoint that counts; a provider of the observer, on the other hand, may
call any block final when `Overclaims`.

### Webhooks and the code

A step of `Webhooks` is one transaction of `webhook.Postgres`, or one request to a
receiver. `round[w]` is what `Worker.Round` has in hand: the row being expanded with
the endpoints read for it, the ids a sweep has read, the deliveries `Due` returned
with the attempts it read. Three operations take more than one step, because their
later statements act on what the earlier ones read without a lock that keeps it so:

* `expandOne`: `TakeRow` locks the oldest row nobody has locked (`skip locked`) and
  reads the endpoints; `InsertDeliveries` writes, removes the row and commits.
* `Sweep`: `SweepRead` selects ids, `SweepDelete` removes them by id.
* `Delete`: `DeleteStrike` fails what is pending and holds those rows' locks (`struck`),
  `DeleteCommit` commits them with the endpoint, `DeleteRollback` does not.

`Attempted` writes by id, over whatever the row has become, as the code does; the
index of one pending test refuses some writes (`Writable`, `RoomFor`). `LoseSend` is a
secret that could not be read or an outcome that could not be written; `Crash` is a
failed statement or a process that stops, and leaves the lease as it was. `Lapse` is
the lease's deadline; with `Overruns` FALSE it does not pass inside a round.

Numbers of `seq` are given when the inserts commit; one commit gives one number to
all the endpoints of an event, which only `Together` deliveries of different events
compare. `next_at` is the set `due`: the order in which `Due` takes deliveries is any
(`Batch`), within its limits. An event is its place in the outbox; an endpoint's
account and event list are `Wants`. Secrets, signatures, screening of URLs,
and changes of the event list leave these steps alone and are not modelled.

### Refunds and the code

A request of a merchant's server is `Ask` (everything `HTTP.Refund` reads outside
the payment's lock: what is left, the amount, the deadline), then `CreateRefund` (the
one transaction of the store and the answer to it), or `DropRequest`. `asked[q]` is
what the handler carries from one to the other, so requests, and repetitions of one
request, overtake each other between the two. `heard[q]` is what the sender was told,
which a lost answer leaves as it was. `Ask` takes an amount from `Asks`, 0 for an
empty body, and a key from `Under`.

The signing page reads the refund and moves nothing, so the model has no step of
it: the key of a refund can be spent as soon as it is opened. Whoever spends it signs what
they like: `Carries` gives each transfer its terms, and the transfer of a nonce is one of
the merchant's wallet or a stranger's (a nonce is its signer's own, so `Attempts`
of `Chain` is here refunds times wallets).

The observer is that of `Settlement` with each write fused with its reading: `ReadBehind`
and `ReadAhead`. That loses no behaviour a refund can see with one observer, because
`JudgeRefund` compares a transfer with columns that never change and the row of a
refund exists before its key does. Two observers of one network are met with in section 5 only.

`TakeCandidate`, `Answered`, `Settle`, `GiveUp` follow one candidate of `Worker.round`;
`TakeOverdue`/`AwaitFinality` and `TakeUnsettled`/`Expire` are the sweeps of
`sweptRefunds`, and `Save` is `returned` with `SaveRefund`. `GiveUp` names a row by its transfer
and not by the block it was asked about in. `Overclaims` is the provider of `Settlement`.

The clock jumps between deadlines, the only moments it is compared with. Left out: the
payment's own status under the lock (it succeeded, and stays so), the
destination read off the paying transfer, page tokens, typed data, and bodies.

### Finality and the code

A step of `Finality` is one call: `Receipt` and `Head` are the two an endpoint is asked
in `Ask`, `Silent` one that failed, `Note` the bookkeeping of a verdict, `Settle`, `GiveUp` and
`LeaveIt` what a round does with it. `Begin` reads a page of candidates for payments and
for refunds (`PerRound`), `Skip` passes over one that was disagreed about (`MaxSkip`), `End`, `Fail`,
`Restart` and `Lapse` are the ways a round stops. `memory` is what a process remembers, and
is lost with it; the lease is the row's.

What the chain will hold of a transfer is chosen once (`truth`). An endpoint whose
final block has passed the transfer shows it; one that has not may show anything; at the moment the
block passes, between the receipt and the head, `Lags` says what may still be shown.
How a network is set up (endpoints, how many lie, quorum, misses, who runs) is a record of
`Networks`, of which a behaviour starts from one.

### Checkout and the code

A request is a row of statements, each a step, in the order of `HTTP.attempt` and the
service's `Supersede`, `Await` and `Issue`: `Find`, `Matched`, `Watched`, `ReadLive`, `Count`,
`SupersedeSave`, `AwaitSave`, `Insert`, and what may come between them is the other tab, transfers that arrive
and vanish, the deadline, failing calls and a restart (which may change the key tokens are made with).
`Shown` is `State.of`, in its order. What a tab was told last is `told`.

### Opening and the code

`Asks` is a request; `FindByToken`, `RecordUse`, `Destination`, `Insert`, `FindByKey` and `Find` are its
statements. The operator makes (`Mint`), revokes, and changes what an account accepts
(`Accept`) between any two. Time is in ticks of which `Unit` are a microsecond, which is what
a column keeps: `Column` cuts below it, and `Restore` compares what was cut. Amounts are
texts in `Money`, read (`ParseUnits`) and written (`Units`) as money.go does; the run reads every text of up
to five characters (`Texts`), and writes every amount there are digits for.

### Endpoints and the code

A registration is `Register` (the URL checked with nothing allowed), `LockAccount`, `Count`, `Insert`; a new URL
is `Point`, `Get`, `Allowed`, `Check`, `Update`, which have no transaction around them. A delivery is `Due`, `Sign`, `CheckSend`,
`Dial`. Secrets are numbers, sealed under a key that the operator may swap (`SwapKey`, a
restart). `Leads` gives the sets of addresses a name may be answered with, another each
time it is asked; `Carries` the IPv4 addresses an IPv6 one stands for (NAT64, 6to4 and
the like). `shown` is what a merchant was told of a secret, `held` what its receiver has; `Lost` says
which answers may not arrive.

### Rounds and the code

A block is a height here and a round its calls: `Acquire`, `Standing`, `Head`, `Cursor`, `Check` (`holds`),
`Read`, `Write`, `Ahead`, each of which may fail, be refused for its span or for its rate, or find
the lease gone. `Narrowed`, `Widened`, `Wait` are `narrow`, `widen` and `wait`; `Refused`
and `Behind` are what `after` makes of an error; `Stalling` takes the word "observing" back. `Elsewhere` is
another instance that writes while it has the lease. An endpoint of another chain leads to chain "other", and may be
put right by a restart (`Repoints`).
The wait itself is not modelled: rounds come when they come, so every property holds of any pace.

### Assets and the code

`Round` is what a round of `Rounds` reads of announced upgrades, and whether it goes on to look. `ReadCode`/`ReadNoCode`
and `ReadFlag`/`ReadNoFlag` are `upgraded` and `stopped`, one asset a step, in the order the code
takes them: that of a map, which is any (`Turn`), as far as the first that cannot be read, and by name (`First`). `Lose` is `keep` when the lease is lost;
`Answered` is `Paused`. Ages of readings stand for times, up to `HoldFor + 1`.

### Migrations and the code

`Take` is `pg_try_advisory_lock`; `ReadLedger` reads the table and refuses or goes on; `Work` is one
transaction, or one of the four statements of an index made concurrently (`Drop`, `Make`,
`Look`, `Record`); `Fails`, `TimeOut`, `Crash`, `SessionLost` and `UnlockFails` are the faults, each counted in `MaxFaults`. A
session whose client is gone lands or fails its statement and goes, with the lock (`left`, `LeftEnds`). A body
stands for its checksum. `Carries` is what each build has of each version.

## 3. What is checked

Each property is stated in words above its definition. Several are one name for parts
that only mean something together:

| Property | Of | Says |
|---|---|---|
| `SucceededIsPaid` | Settlement | a succeeded payment has a full transfer, in time, in the final part of the chain |
| `BooksBalance` | Settlement | an open payment's arrival stands on a row that pays it (`ArrivalIsEvidenced`), and no matched row is left uncredited (`EvidenceArrived`) |
| `KeepsPromise` | Settlement | it implements `Lifecycle`: moves along the machine, closed for good, one event to a move, succeeded on the full amount only |
| `ExpiredIsUnpaid` | Settlement | nothing expires that a transfer paid in time, in any block the chain still has |
| `LedgerIsTheChain` | Settlement | below the cursor the rows are the chain's transfers (`BelowCursorIsTheChain`), an attempt confirms because of a row (`AttemptFollowsRow`), a succeeded payment keeps the row that paid it (`SucceededKeepsItsTransfer`), and the books balance |
| `FinalRowStays` | Settlement | what was recorded from final blocks is never written over |
| `PayableEnds`, `PaidIsSettled` | Settlement | liveness: a payable payment is closed, a paid one settled |
| `DeliveriesHold`, `OneDelivery`, `InOrder`, `SentByOne` | Webhooks | types, receipts (`DeliveredArrived`) and tries (`TriesAreCounted`); one delivery of an event to an endpoint; the order of a payment's events; one sender |
| `EverythingIsTold` | Webhooks | liveness: again and again nothing is left to expand or to send |
| `WithinCeiling`, `RefundsHold`, `ExpiredIsUnspent`, `AnsweredWithItsOwn` | Refunds | never more back than arrived; succeeded is sent; expired is unspent; a key opens one refund and answers its own request |
| `KeepsAccount` | Refunds | it implements `Returns`: an opening takes from what is left under a key that opened nothing, only an expiry gives back, one event to an end |
| `RefundsEnd` | Refunds | liveness: every refund ends, one that was sent settles |
| `RoundsHold`, `SettledIsFinal` | Finality | what is given up is gone (`GivenUpIsGone`); what is settled is final |
| `IsDecided` | Finality | liveness: what is final settles, what is gone is given up |
| `PageHolds`, `ConfirmingStays`, `RefusedMovesNothing` | Checkout | one reissue, and nothing shown succeeded without its transfer; an attempt being confirmed is not retired; a refusal moves nothing |
| `PayerIsServed` | Checkout | liveness: a page that keeps asking is given something to sign while the payment is payable |
| `RowsHold`, `OneKeyOnePayment`, `AnswersItsOwn`, `AmountsReadBack` | Opening | every row reads back and is paid to its own account; a key opens one payment; answers are of the account that asked; what is written of an amount is read as that amount, and one amount has one spelling |
| `CountHolds`, `SecretsHold`, `ConnectsWhereChecked` | Endpoints | the limit; a receiver can verify (`ReceiverVerifies`) and a sealed secret is told of (`SealedIsTold`); a delivery connects where its check looked |
| `BoundsAndCursorStay`, `ObservingIsFresh`, `CatchesUp` | Rounds | span and wait within their bounds (`TypeOK`) while the cursor is on its chain and never goes back (`CursorStays`); "observing" only of what was just written; liveness: what is final is read |
| `MigrationsHold`, `EachIsAnswered` | Migrations | the record is the schema, one holder, an instance serves over what it carries; liveness: each start is ready or refused |
| `AnswersHold`, `EachIsTold` | Assets | "changed" only of replaced code, answers no older than `HoldFor`; liveness: an upgrade and a stop are told of |

| Run | Instance |
|---|---|
| `settlement_honest` | 1 payment, 2 attempts, 3 transfers (full and short of one key, full of the other), height 3, deadline 3, 1 fork, width 2, 1 observer, 1 worker; `ExpiredIsUnpaid`, `LedgerIsTheChain`, `FinalRowStays`, `PayableEnds`, `PaidIsSettled` |
| `settlement_adrift` | 1 attempt, 2 transfers of one key, the same chain, a provider that overclaims, 1 move of the cursor, 1 observer, 2 workers (symmetric); `SucceededIsPaid`, `BooksBalance`, `KeepsPromise` |
| `webhooks` | 1 endpoint, 2 events of one payment, 1 test, 2 workers, 2 attempts a delivery, rounds of 2, 1 resend, 2 changes, 1 delivery past its retention, 2 askings in all |
| `refunds` | 2 refunds of a payment of 2: 1 under a key sent twice, and all that is left once; a transfer that spends the first under a later deadline; height 3, 1 fork, 1 worker. The provider overclaims: what depends on it is stated of behaviours in which nothing it called final was replaced (`Grounded`) |
| `finality` | one run of five networks: a node of the operator's own with a failure, two instances with one, two transfers on pages of one, three third parties, three of which one lies |
| `checkout` | 2 tabs, 2 attempts, a deadline, a page that is let go, a change of the key |
| `opening` | 2 clients, 2 accounts with a credential each, 1 asset of 2 decimals, 1 key with 2 bodies, 2 payments, a column that keeps every second tick |
| `endpoints` | 2 requests, 2 endpoints, 2 accounts, 3 URLs, at most 1 endpoint an account, a grace of 2, 2 sealing keys; answers to registrations may be lost |
| `rounds` | 1 instance beside another, spans of 2 down to 1 of which a provider takes 1, waits up to 2 and a provider that asks for 3, an endpoint of another chain, 3 final blocks, 1 restart |
| `rounds_behind` | the same with a provider that falls behind: a violation of `CatchesUp`, section 5 |
| `migrations` | 3 builds (one without a version, one that edited it), 3 versions of which one is an index made concurrently, 2 faults |
| `assets` | 2 assets, 2 codes, one asset whose code is read only at a start and whose flag never is, 2 changes, 1 restart |

The bounds. They give two of everything that can be confused, and one value past every
limit that is compared with. One payment suffices in `Settlement` because payments share
nothing but the cursor and the heights, which other payments do not move. Two transfers of
one key are a transfer replaced by another on a second fork, a third is the one of a second
attempt; a fork, two blocks to a range and a deadline inside the chain make ranges that are
read behind and ahead, replaced, and late. Two events of a payment are a pair that must keep
its order, two attempts a retry and a last one, two workers with one lease a holder that
stopped and one that takes over. In `Refunds` one opened at 0 may be carried in block 2,
is late in block 3 and expires when block 3 was read. In `Finality` an endpoint that lies
has one more against it than agreement needs. In `Opening` two ticks to what a column keeps
put a deadline on either side of it. What is asked of a system is bounded by what there is of
it and by the constants whose names begin with `Max`, and the clocks by `Horizon`; the theorems of section 4
show that no safety property depends on these numbers.

Fairness. In `Settlement` (`FairSpec`): the chain goes on, becomes final, and the clock runs; an
observer and a worker whose step is possible take it, which is what the loops of
`Observer.Run` and `Worker.Run` do as long as one process holds the lease.
`Calm` says that from some moment on endpoints answer, with the final block the
chain has, and nothing stops half way: without it a provider may for ever be one
block behind. Before that moment anything fails. Nothing is assumed of the payer,
the page or reorganisations. `PayableEnds` and `PaidIsSettled` except `Stuck`: a payment that
was credited a short transfer first holds that one arrival, and the full transfer
that follows is matched and final but `pay` refuses it, so the payment neither
succeeds nor expires.

In `Webhooks` fairness is of some worker beginning a round (`Worker.Run` asks for the
lease every interval, and one of those that ask has it), of each step of a
round, of the time of a retry coming, and of a deletion's commit. `Calm` says that from some
moment on no process stops half way and a send is lost only when the database
refuses its outcome; nothing is assumed of receivers or of merchants. What waits for an
endpoint that is off waits until it is on again, or is deleted.

In `Refunds` it is that of `Settlement`, and nothing is assumed of the merchant.
`RefundEnd` excepts a refund whose key the merchant spent on something else, which
docs/refunds.md keeps held for good (`HeldForGood`), and one whose deadline lies past the bounds
(`Reached`).

In `Finality`: endpoints calm down and their final blocks pass, some worker begins a round and each
step of a round is taken; none of failures. In `Checkout`: a request's next call is made, a page
that may ask does so again and again (its button is pressed; strong, because what it may ask for
comes and goes), and from some moment on no call fails. In `Rounds`: a lease that ran out
does so by the clock, an instance goes on with its round, and each call that is made again and
again is answered some time (strong fairness, call by call). In `Migrations`: a session that was left ends, a start does its next step, and
one that tries for the lock again and again has it some time (strong: others take it in
between); faults are bounded by `MaxFaults`. In `Assets`: rounds go on and ages pass, and strongly: a round
finishes, announced upgrades are read, and what can be read of an asset is read some time: codes of
the assets that are not `Sealed`, flags of those that are not `Mute`, while a `Mute` one fails.

Deadlock is checked except where a run says otherwise: bounded clocks, requests and chains stop
in `Checkout`, `Endpoints`, `Migrations`, `Refunds`, `Rounds`; and with a provider that
overclaims, the cursor's block may leave the chain, and then every round ends in
`ErrReplaced` until an operator moves the cursor, as docs/operating.md has it
(`settlement_adrift`).

## 4. What is proved

Every safety property and both refinements that a run checks are theorems, for any
values of the constants that the named assumptions of its module allow: any number of payments, actors,
messages and forks, amounts of any length. A theorem that needs more says so, and the table says what.

| Theorem | States | Needs |
|---|---|---|
| `TypeCorrect`, `SucceededIsAlwaysPaid`, `ClosedForGood`, `Implements`, `BooksAlwaysBalance` | Settlement: types, `SucceededIsPaid`, `ClosedStays`, `KeepsPromise`, `BooksBalance` | |
| `LedgerAlwaysTheChain`, `ExpiredAlwaysUnpaid`, `FinalRowsStay` | `LedgerIsTheChain`, `ExpiredIsUnpaid`, `FinalRowStays` | `Unmisled`: an honest provider, nobody moves the cursor; and behaviours with `[]LeaseHolds`: any number of observers, one in a round at a time |
| `DeliveriesAlwaysHold`, `EachEventOnce` | Webhooks: `DeliveriesHold`, `OneDelivery` | |
| `SentByOneWorker`, `EventsInOrder` | `SentByOne`, `InOrder` | `~Overruns` |
| `RefundsAlwaysHold`, `EndsForGood`, `RequestsGetTheirOwn`, `HeldWithinReceived` | Refunds: `RefundsHold`, `EndsOnce`, `AnsweredWithItsOwn`, what is held is within what was received | |
| `ImplementsReturns` | `KeepsAccount`: Refunds implements Returns, whoever overclaims | |
| `ExpiredUnspentAlways`, `WithinCeilingAlways` | `ExpiredIsUnspent`, `WithinCeiling` | `~Overclaims` |
| `TypeAlwaysCorrect` | Finality: types | |
| `SettledIsFinalAlways` | `SettledIsFinal` | `"recorded" \notin Lags` |
| `GivenUpAlwaysGone`, `RoundsAlwaysHold` | `GivenUpIsGone`, `RoundsHold` | `EnoughMisses` |
| `PageAlwaysHolds`, `ConfirmingAlwaysStays`, `RefusedAlwaysMovesNothing` | Checkout's three | |
| `RowsAlwaysHold`, `OneKeyAlwaysOnePayment`, `AnswersAlwaysItsOwn` | Opening's three | |
| `AmountsRead`, `AmountsAlwaysReadBack` | Money: `UnitsReadBack`, of all amounts, decimals and texts; Opening: `AmountsReadBack`, so that what a merchant is shown is what it asked for | |
| `CountAlwaysHolds`, `ConnectsAlwaysWhereChecked` | Endpoints: `CountHolds`, `ConnectsWhereChecked` | |
| `SecretsAlwaysHold` | `SecretsHold` | `"rotate" \notin Lost` |
| `BoundsAlwaysKept`, `CursorAlwaysStays`, `BoundsAndCursorAlwaysStay`, `ObservingAlwaysFresh` | Rounds: `TypeOK`, `CursorStays`, the two as the run checks them, `ObservingIsFresh` | |
| `AnswersAlwaysHold` | Assets: `AnswersHold` | |
| `MigrationsAlwaysHold`, `ChangesAreKnown` | Migrations: `MigrationsHold`; who changes the database carries all that is recorded in it | |

Each proof module EXTENDS the module it is about. `InstanceProofs` is about three: it EXTENDS `Rounds` and
takes `Assets` and `Migrations` with INSTANCE. An assumption of an instantiated module is not a fact there, so
that module's `ConstantsFit` stands as a hypothesis of its theorems; it is what the module's own ASSUME says,
which TLC evaluates in every run.

### Settlement

`SucceededIsPaid` is not inductive: a worker succeeds a payment from a task whose
status, arrival and answer were read at other times, and from a row that may have
been rewritten since. `Inv` carries the truth along that path. A sight, a row or a
task judged "matched" is of a full transfer, in time at its height (`SightsJudged`, `RowsJudged`,
`TasksJudged`); a task that heard "final" names a block at or below `final` that still carries the transfer, which
no reorganisation reaches (`FinalStays`); a task whose version is the payment's says
what the payment says, because every write of a payment advances its version (`TasksRead`); and a
"full" arrival is only ever saved to a payment that can receive it. One lemma an action (`...Step`).
Note what is not needed: the cursor's correctness, a single observer, and an
honest provider. The succeeded payment rests on the endpoints' answer and the version alone.

`Implements` is a step simulation: under `Inv` each action is a step of `Lifecycle` or changes none of
what it sees.

`Books` adds what keeps the two tables in step: what a row or a sight may be judged, for its kind (`Judgements`);
that a transfer anything is known of is of a key that was handed out, and a payment with an attempt is past created
(`Keyed`); that a transfer judged late though it was carried in time is of a closed payment (`LateClosed`); and that
a created payment has received nothing (`Unopened`). Its hard step is `Record`, which writes rows, takes back
and credits arrivals at once; the lemmas before it say what each row and each payment is afterwards.

`Honest` is what observers that take turns know of the chain: who is in no round holds nothing of one
(`Resting`), the cursor is final and nobody is moving it (`CursorFinal`, `Unstarted`), what its round has
read stands as long as the blocks do (`RoundsStand`), rows at or below the cursor and candidates taken from
them are the chain's (`BelowCursorIsTheChain`, `FinalRows`, `TasksStand`), what was seen was issued
(`SeenIssued`), attempts follow rows (`AttemptFollowsRow`), and what a deadline that is final left unpaid
stays so (`Unpaid`, `SucceededKept`). Each of the three hypotheses is needed: section 5 has what an overrun
lease and a cursor moved back do, and an overclaiming provider has a payment expire whose transfer is
carried again.

### Webhooks

The unconditional invariant `Always` has five parts beside the types: a row being
expanded is in the outbox and in one worker's hands (`Locks`, from the row lock); what was
made of an event has left the outbox (`Books`); what is in hand, struck or received
was made (`Known`); what a worker heard is so (`Heard`); what is in hand has a try left
(`Tries`). `Leased` adds, under the lease: only its holder is in a round (`Lone`), what it
sends is pending or of a deleted endpoint (`Sent`), the oldest row is the one
expanded, so that `seq` follows the events (`Numbers`), and nothing is in hand or received
behind an event still on its way for the first time (`Ordered`). `Keeps` and
`RoundStep` say once which steps change what, and every preservation
proof splits along them. `~Overruns` is needed: without it TLC finds both `SentByOne` and `InOrder`
violated, by two rounds that expand or send side by side.

### Refunds

The model adds up amounts with a fold of the community modules, and the prover cannot take an
induction theorem with an operator parameter. The module therefore starts with what
it needs of sums: a function that adds up every subset exists (by the least cardinality without
one), it is the fold (`SumIs`), it does not depend on the order (by a smallest subset for which it
would), so any member can be taken out (`SumAdds`).

Three invariants follow. `Inv`: keys on the chain or in a row are of opened refunds
(`KeysOpened`), a matched row is in time at its height (`RowsJudged`), a task is of an
opened refund and right about it while its version stands (`TasksRead`), its transfer was
judged (`TasksJudged`), what it heard final stays (`FinalStays`), and an end is told as it
happens (`Told`). `Opening` adds that a refund is of what its request asked for, that an
answer is of an opened refund, and `Ceiling`: the insert, under the payment's lock, sums what
is held again. `Honest` adds the provider's part: the cursor is final (`CursorFinal`), rows
below it say what is on the chain (`ReadBelow`), a row read as final, and a candidate taken
from one, are of a transfer where it stands (`FinalRows`, `TasksStand`: nothing is
ever heard gone), and a refund found unsettled or expired is
unspent before a deadline that is final (`TasksUnspent`, `ExpiredUnspent`), which no
reorganisation changes (`PastUnspentStays`). The run lets the provider overclaim and guards what depends on it by `Grounded`;
`GroundedAlways` shows that an honest provider never loses it, and the theorems are without the guard.

`ImplementsReturns` is a step simulation under `Inv` and `Opening`, which need no honest provider. What is left of a
payment is a sum over the refunds that hold something of it; `SumAdds` takes the one refund a step is about out of
that sum before and after, so an opening takes its amount out of what is left, an expiry puts the
same amount back, and nothing else changes it. That an opening finds the amount still there is the ceiling, summed again under the
lock; that its key opened no other is the index the insert meets; that an end happens once is the version `Save` compares.

### Finality

The rounds are shaped and each is right about the transfers it has in hand (`RoundSo`): what endpoints
said of one was said by endpoints that were asked, and an honest one that showed a transfer final has it for good. Agreement
takes more endpoints than lie, so one honest endpoint is among those that agree: `SettledIsFinalAlways`. It
assumes that an endpoint does not lose a transfer between its receipt and its head (section 5).

A wrong "gone" is another matter, because an honest endpoint that lags may say it. It does so once
for a transfer, before its final block is past; a count of misses that is reached is one of so many rounds in
each of which enough endpoints said it. `Counting` carries the count along: `misses * (agreements - |liars|)`
words of honest endpoints stand against as many endpoints as can still have said one. `EnoughMisses` asks that there be fewer of these than that:
it holds of a node of the operator's own with the least the document may ask for (2), and of two third parties that must agree with the default of 10 up
to 19 endpoints, or 10 of which one lies. That a document asks for enough is not enforced (section 5).

### Checkout, Opening, Endpoints

Checkout's `Inv` says of the rows (`RowsSo`) that one attempt is live at a time, that one is when there can be no
more, that revisions are bounded and that what succeeded has its transfer; and of each request what the calls it made
leave true for the next although the other tab made its own (`So`). `Untold` follows a request that is about to be
refused: a tab is told nothing while its request goes on.

Opening's `Inv` says of a request what it has passed (`PassedSo`): its credential is an account's,
what it is about to insert is of something and paid to that account, and a key it found used is a row's, which no step takes away. A row
keeps the amount its body's text was read as.

What reading and writing an amount do is induction over digits, and each induction is put as a least counterexample
over the numbers (`LeastIs`) or a shortest one over texts (`ShortestIs`), which need no operator for a parameter. A function that reads
digits and one that writes them exist (`ReadsExists`, `WritesExists`) and agree with themselves at every length,
so they satisfy their equations (`ValueAppend`, `DigitsIs`). From there: zeros before a number change nothing
(`ValueZerosBefore`), two texts of digits of one length and one value are the same (`SameDigits`), an amount below
the limit has digits within it (`DigitsFit`), and padding, cutting at the point and trimming are undone by reading (`PaddedBack`,
`PointCut`, `TrimZerosAfter`). `UnitsRead` is the one way round, `SpellingBack` the other.

Endpoints' `Inv` counts under the account's lock: a request about to insert holds it and found
fewer than the limit, and nobody else adds while it does. `Told` follows secrets (`SecretSo`): a
receiver holds nothing, the row's secret, or the one before, and that only within the grace that began as the newer was shown. If the answer to a rotation may be lost TLC finds a
second rotation that ends the grace of the only secret the receiver has: the assumption is needed.

### Rounds, Assets, Migrations

`RoundsInv` adds to `Rounds`' types what a step of a round may rely on (`ReadsOn`): a round goes on from a block its
provider has passed, reads on only on the chain that block is of, and writes no further back. The write is
conditioned on the cursor standing where the round read it, so a lease that ran out moves nothing back.

`AssetsInv` is `Contracts` (an announced upgrade was made, and an asset is in the state it is in now), `Bounds`, and that
the instance is `Sound`: what it says changed did (`SaidSo`), what it started from differs from what is there only
where code was replaced (`StartedSo`), and what it read of a flag was so no longer ago than the reading's age (`FlagSo`).

`MigrationsInv` adds to `LedgerIsTheSchema` what a start that holds the lock has read and done since (`Holding`, of
`HeldByOne` and of `HeldByLeft`, the session whose client is gone), that one that waits has done nothing (`Fresh`), and that what an
instance serves over is recorded as it carries it (`Ready`). A record only grows, which keeps `Ready` while others migrate.

### What stays with TLC

Liveness under fairness, and ENABLED, are out of the prover's reach: `PayableEnds`, `PaidIsSettled`,
`EverythingIsTold`, `RefundsEnd`, `IsDecided`, `PayerIsServed`, `CatchesUp`, `EachIsAnswered`, `EachIsTold`.
They are checked on the instances above, and nothing is claimed of them beyond.

## 5. Disagreements met

A run shows one of them:

* `rounds_behind` (`CatchesUp`): observe/observer.go:165 says that a refusal of the span narrows it. `after`
  asks the word of the network whether this round found its provider behind (observer.go:170), and that word may be an
  earlier round's. Once a round has said finalized-behind, and the provider that caught up refuses
  the span, `after` returns before it narrows: the next round asks for the same span, and so on.

Others came up while modelling, and no run is spent on them:

* Settlement, two observers: observe/cursor.go:150-151 says comparing the cursor keeps two instances from
  writing over each other, but what `record` writes ahead of the final block compares nothing. An instance
  whose lease ran out rewrites a final row with its older reading.
* Settlement, a cursor put back: a range read again after a payment succeeded is judged again, now late
  (evidence.go:136), so the transfer that paid is no longer matched. payment/postgres.go:342-344 calls the
  second reading the same fact. "Confirming" may be told after a payment closed, and attempts do not follow rows there.
* Webhooks: webhook/postgres.go:219 and docs/webhooks.md:119 say that a deleted endpoint's pending deliveries
  fail. An attempt in hand is written by id (postgres.go:571) and puts its delivery back to pending; an
  expansion that had read the endpoint (412) inserts one. postgres.go:584 says pending deliveries stay
  whatever their age; the ids of a sweep are read in one statement and removed in another (613) that does
  not ask again, so one resent in between is gone.
* Refunds: docs/refunds.md:115 and docs/api.md:195 promise that repeating a request under its key is answered
  with the first refund. The ceiling (payment/postgres.go:1508), and before it the refusal of a zero amount
  (refund.go:148), come before the insert that meets the key: a retry of more than half of what was left is refused.
* Finality: `Ask` reads a receipt before the head it compares it with, so an endpoint may show a transfer in a
  block that it has lost by the time its head is past (`Lags` without "recorded" leaves that out). config/resolve.go:589
  wants two misses at least and does not ask how many endpoints there are (`EnoughMisses`). A recheck comes after one minute and
  the lease runs out after 30 seconds; an agreement after a disagreement that a restart forgot calls nothing; pages that
  move while they are read leave a pass without an end (worker.go:425).
* Checkout: the loser of the insert goes on with the payment the failed call did not return (checkout/http.go:226);
  docs/checkout.md:120 says to ask again, and a second asking may be refused as a bad request; `Issue` does not look for a
  transfer that is matched already (payment/service.go:322).
* Opening: a request repeated under its key after its deadline is past is refused as invalid (service.go:77) where
  docs/api.md:195 promises the first answer.
* Endpoints: a merchant that lost the answer to a rotation and rotates again, as docs/webhooks.md:118 has it, ends the grace of
  the only secret it has. A registration whose answer was lost leaves an endpoint that counts, signed for under a secret nobody has.
  `Update` reads back in a second statement what it wrote.
* Rounds: the first round ever writes the cursor before an endpoint's chain was compared with anything, so one of
  another chain puts it there (observer.go:753-755, docs/operating.md:78). A refusal of what is read ahead is swallowed. A lease
  that could not be asked for leaves "observing" standing (observer.go:24-26).
* Assets: docs/operating.md:106-108 does not except an upgrade announced before the start; a probe that
  failed at the start leaves nothing to compare with. "Not read in the last two minutes" (docs/operating.md:111, observer.go:288-292)
  is said too when a fresh reading was deleted by a failed one. A flag is stamped when the whole probe ended.

## 6. Not modelled, and what is left

Not modelled: resolving a document (config), `suco doctor` and the wiring of `serve` with its /readyz, the EVM
adapter (RPC, ABI, logs) and the simulated chain, of which `Chain` keeps what the port promises; listing and formatting;
the checks of `suco asset accept`; the signing page of refunds, which moves nothing; tokens and typed data; the listing of what
endpoints disagree on (`Postgres.Disagreeing`). Each is in `PROJECT.json` with its reason.

Three abstractions to keep in mind. `Record` and `Vanish` are one step each, though they are several statements
under READ COMMITTED that rely on the locks they take first; `unconfirm` and `unreceive` count in one and write in the next
(payment/postgres.go:1231). `Settlement` has no refunds, so the count `network cursor` makes of what is open leaves them out.
And in `Migrations` a body stands for its checksum, and two files of one version are not told apart.

What is left to do:

* `Record` against `Vanish`, statement by statement, showing when one step each is a fair abstraction, with the theorem
  that the locks make it one. It is the one hazard of `PROJECT.json` without a property.
* The parts that are not modelled, of which the documents a deployment is configured by come first: what the
  theorems of `Finality` need of one (`EnoughMisses`) is stated and not derived from what a document is checked for.
