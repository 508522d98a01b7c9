# A verification project for the Origin 24/7 SDK

The SDK issues, transfers and claims renewable-energy certificates. Its packages
keep the truth in Postgres tables and bring it to a blockchain later, from
queues and background jobs. What is hard about it is in between: calls that
overlap without a lock, calls that end half-way, answers that are counted,
events that are missed, and retries of what may have been done already. This
directory holds TLA+ models of that code, TLC runs on small instances, and TLAPS
proofs for all instances.

Paths below are relative to `src/packages/`; `OC` stands for
`origin-247-certificate/src/offchain-certificate`.

## The system

### Off-chain certificates (`origin-247-certificate`, modelled)

**Certificate aggregate** (`OC/certificate.aggregate.ts`). No state: a reducer
from a list of events to `owners`, `claimers`, `isSynced`, or an exception.
*Correct when* balances are the balance sheet of the events, volume is neither
created nor lost, `isSynced` means that all movements are on the chain, and the
exceptions do not depend on anything but the log.

**Off-chain service** (`OC/offchain-certificate.service.ts`). State: the tables
of commands, events, synchronization attempts and read model rows. Operations:
`issue`, `transfer`, `claim`, their batch forms, and the reports of the
synchronization (`issuePersisted`, `transferPersisted`, `claimPersisted`,
`persistError`). *Hard:* every call is a chain of awaits over four tables with a
transaction only around the last pair of writes; nothing serialises calls.
*Correct when* no call makes a log that cannot be replayed, rows follow the
log, and a certificate is issued once and first.

**Synchronization** (`OC/synchronize`). A Bull job takes events that have an
unanswered attempt, groups them into blocks, calls the chain and reports an
answer for each event. *Hard:* a block partly fails; a report throws after its
siblings were stored; a second instance of the application runs the job too.
*Correct when* every event is answered with success at most once, tries are
bounded, the chain sees a certificate's events in their order, and every event is
eventually persisted or given up.

**Repositories.** Postgres for production, in-memory doubles for tests.
`findAllToProcess` decides what is retried; `updateAttempt` is a read followed by
a write. *Correct when* an attempt is never counted without an answer. Postgres is
modelled; the doubles are not (see "Not modelled").

### On-chain certificates (`origin-247-certificate/src/onchain-certificate`, modelled)

`OnChainCertificateService` puts an operation on a Bull queue and waits for the
job; `BlockchainActionsProcessor` and its handlers send the transaction;
`TransactionPollService` looks up to 100 times for the event that the listener put
into an in-memory map. Before any of this can happen somebody must have deployed
the contracts and recorded them: `BlockchainPropertiesService.deploy`, a
check-then-act across instances, for which the listener and the handlers wait.
*Hard:* restarts lose the map, a stalled job is run again, a timeout races with
the event, a deployment is cut off or rejected. *Correct when* a call that resolves was
executed, every caller gets an answer, a job's transactions are bounded, and an
application that deploys never waits for contracts that nobody has.

### Energy transfer requests (`origin-247-transfer`, modelled)

A request is a state machine (`EnergyTransferRequest.ts`) driven by three tasks,
issue, validate and transfer, each of which publishes its own trigger until there
is nothing left; validators answer at once or later through a facade; rows are
updated under `updateWithLock`. *Hard:* a crash in an `...InProgress` state, a
save that fails after the chain acted, a stale copy saved over a newer one, a
throttled stream that ends with its first error. *Correct when* no energy is
transferred without all validators' consent or twice, and every valid request
is eventually transferred.

### Energy API (`origin-247-energy-api`, proof requests modelled)

Readings are posted as proof requests; a debounced stream takes the rows of a
device, has the notary contract store the root of their tree, records the proof,
stores the readings and removes the rows. *Hard:* five awaited calls on four
stores without a transaction; a row that failed is taken with those pending; a
stream that ends with its first error outside of the `try`. *Correct when* no
reading is lost, every stored reading can be verified, proofs are repeated only
after a fault, and a pending row is taken up. The aggregation of time series is
not modelled.

### Claim (`origin-247-claim`, modelled)

`spreadMatcher` divides generation among consumers by priority: a pure algorithm,
in rounds, with remainders. `claim.service.ts` matches, claims the certificates and then
writes three kinds of logs. *Hard:* shares that do not divide, entities that share an
id, a rejection after the effect, and a retry of it. *Correct when* volume is conserved,
priorities are respected, equals are served equally, the loop ends, and logs follow
claims.

### How the components interact

The transfer and claim packages call the certificate service through a facade.
The off-chain service never calls the chain: the synchronization job reads its
attempt table, calls the on-chain service, and calls the off-chain service with
the answer. The on-chain service and its processor share a job queue, the poll
and the listener share a map in memory. Where two of them overlap is listed at
its line in `PROJECT.json` under `hazards`.

## Modules

| module | models |
|---|---|
| `CertificateAggregate` | the aggregate, as operators on a set of events |
| `AggregateLog` | every log of one certificate, accepted or not; states what the fold must compute |
| `OffChainCertificate` | the off-chain service over its four tables, with any number of users and jobs |
| `BlockchainSync` | the synchronization task, its batch strategy and handlers, composed with the off-chain service |
| `OnChainPromise` | abstract: what a caller of the on-chain service may rely on |
| `OnChainQueue` | deployment, start, queue, processor, handlers, poll, listener and chain; implements `OnChainPromise` |
| `TransferPipeline` | the energy transfer requests with their tasks, streams and validators, and the certificates they issue and move |
| `ProofRequests` | the proof requests, their rounds, the notary, the stores of proofs and readings |
| `SpreadMatcher` | the matching algorithm, one round per step |
| `ClaimService` | a call of the claim service over the matcher, its logs and its retries |
| `MC...` | symmetry sets, batch sizes, lists and functions as constants of the runs |
| `FiniteSums` | lemmas: sums over finite sets, as the folds of the models compute them |
| `AggregateLogProofs` | what the fold computes, for logs of any length |
| `OffChainCertificateProofs` | proofs about the off-chain service: for any concurrency, for one job, and for callers that do not overlap |
| `BlockchainSyncProofs` | the composed synchronization, for any number of jobs and users, and for one job |
| `OnChainQueueProofs` | the refinement, the waiting of deployers and the bound on transactions |
| `TransferPipelineProofs` | types and consent for any number of instances; issuance, rows and answers for one |
| `ProofRequestsProofs` | no reading is lost or paid for twice and no row left behind, for any number of instances and faults |
| `ClaimServiceProofs` | the matcher and the claim around it, for any input, faults and retries |

### The off-chain service

| variable | in the code |
|---|---|
| `commands` | number of rows of the command table; nothing reads them back |
| `lastId` | sequence `certificate_internal_certificate_id_seq` |
| `clock` | the latest `createdAt` of an event |
| `log` | the event table |
| `attempts` | the synchronization attempt table: `attempts_count`, and whether `error` is set |
| `rows` | the read model: for each certificate, the set of events its row is the aggregate of |
| `calls` | each process's call in progress: its local variables between two awaits |
| `failures` | how many calls have ended half-way, for the bound only |

A row of the read model is represented by the events it was computed from, so
that a row and a log can be compared; `FromEvents` of that set gives the columns.

A process is one call in progress. An action is the code from one await on a
table to the next.

| action | code |
|---|---|
| `Issue`, `Move`, `MoveBatch` | save the commands, take ids, create the events |
| `ReportAnswer`, `ReportError` | a handler's answer for one event, and the `catch` around it |
| `Load`, `Reject` | `createAggregate` of one certificate returns or throws |
| `Recreate` | `handleBatch` after validation: events are created anew and logs are read anew |
| `Project` | `propagate`: rows are overwritten |
| `Store` | `saveMany`: events and attempt rows in one transaction |
| `FindAttempt`, `SaveAttempt` | the two halves of `updateAttempt` |
| `Fail` | an awaited call rejects, or the process dies |

A batch reads its certificates one by one in any order (`Load` per certificate).
A rejection in a report takes the handler to its `catch` (phase `threw`), which
reports an error of the same event; a crash does not, hence the two disjuncts of
`Fail`.

### The synchronization

`BlockchainSync` extends `OffChainCertificate`: the job's reports are calls of the
service, each a process called a lane `<<job, certificate, kind>>`, where the kind is
`answer` or `error`. Its variables are `jobs`, the local state of each instance's run,
and `chain`, how often the chain executed each event.

| action | code |
|---|---|
| `Start` | `synchronize()` of the application puts a job in the queue |
| `Find`, `Finish` | the loop of `blockchain-synchronize.task.ts` |
| `Select` | `batch-synchronize.strategy.ts` turns to the next type of event, and drops those without a blockchain id |
| `ChainAccepts`, `ChainRejects` | the on-chain service returns for a block, or throws, whether or not the chain executed it |
| `BlockAnswered`, `Catch`, `BlockFailed` | `Promise.all` of the answers resolves, rejects; that of the errors resolves |
| `LaneProceeds`, `LaneThrows` | the calls of the service; an error that cannot be reported ends the run |
| `Crash` | the process dies with its calls |

`Continue` is the code between two awaits: next block, next type, next batch, next
round. As in the code, `Catch` does not wait for the answers that are still being
stored: both calls on one event then run at the same time. `hasCertificateFailed` has
no counterpart, because a batch holds one event of each certificate and the queue
forgets the certificates that failed. The calls of a block begin in one step; the
order of their commands decides nothing. A call that was left behind by `Catch` must
end before the same job begins another of the same kind for that certificate; the
code does not enforce that.

`ReportAnswer` and `ReportError` of `OffChainCertificate` stand for the same handlers, as
seen by the service: blocks of one event that never come from a stale list. The runs
and theorems of `OffChainCertificate` are under that assumption.

### The transfer pipeline

| variable | in the code |
|---|---|
| `table` | the table of requests: state, validation record, certificate id |
| `ledger` | who holds the certificates that were issued for a request (external) |
| `said` | history: all answers ever stored for a request |
| `tasks` | of each task in each instance, the round in progress and its copies of rows |
| `lanes` | calls of validators that a validation has begun |
| `due` | the tasks whose stream was triggered and has not worked the trigger off |
| `failures` | rejected awaits and crashes, for the bound only |

| action | code |
|---|---|
| `Reading` | `GenerationReadingStoredEvent.handler.ts` creates a request |
| `Find`, `FindNothing` | a stream's next round: `findByState`, and the rows are changed in memory |
| `SaveStarted`, `SaveFinished` | the first and the last `saveManyInTransaction` of a round, and the events published after it |
| `BatchIssue`, `BatchTransfer` and their `...Fails` | the call of the certificate service, and its `catch` |
| `Answer`, `AnswerFails` | a validator returns and `updateWithLock` stores its answer, or rejects |
| `Catch`, `CatchFails`, `EndValidation` | the `catch` of one request, and `Promise.all` over the batch |
| `Update` | `UpdateTransferValidationCommand`, an answer that was promised for later |
| `RepositoryFails` | an await on the table rejects, with or without its effect |
| `Spend` | the seller uses the certificate outside of the pipeline |
| `Crash` | an instance restarts; `onApplicationBootstrap` triggers every stream |

`phase` is where a round stands: `starting` before the first save, `acting` before the
call of the service, `finishing` before the last save, `failing` in a `catch`, and
`dead` once the stream has ended with a rejection, as in `queueThrottle.ts`.
Since a round's copies come from `findByState`, none of the guards of `nextState` can
throw in a task; `Errored` has no guard in the code either.

Left out or abstracted: the debounce and the event bus (a published trigger is in `due`
at once, and triggers of the same kind collapse); a round that finds nothing is one step;
a reading is `empty` (volume 0) and `same` (seller and buyer are the same) or not; the
id of a certificate is its place in `ledger[r]`. A validator that throws counts as one
that answers `error`, as in `executeCommand`, and its answer and the locked update are one
step: nobody sees what is in between. The service is taken to move a certificate once and
only if the seller still holds it, and it may lose its answer; what it does inside is the
subject of `OffChainCertificate`. The in-memory repository of the package is left out.

### The on-chain service

| variable | in the code |
|---|---|
| `contracts`, `registries` | rows of the table of contracts; registries ever deployed |
| `apps` | how far each instance is with its start, and the registry its listener watches |
| `callers`, `answer` | what each call asks for and where; what its caller knows |
| `queue`, `holder`, `stalled` | Bull: waiting jobs, the lock of each job, how often it stalled |
| `workers` | the job each processor is at, the tries of its current loop, its transaction |
| `txs` | all transactions (external) |
| `arriving`, `seen` | events on their way to each listener; the maps of the poll service |
| `faults` | crashes, lost locks, lost events, failed sends and failed starts, for the bound only |

| action | code |
|---|---|
| `Boot`, `CheckDeployed`, `DeployContracts`, `RecheckFails`, `RecheckPasses`, `InsertDeployed` | `deploy`: look, deploy, look again in `save`, insert |
| `DeployRejects`, `InsertRejects`, `QueryRejects` | an await of the start rejects and the start fails: nothing, a registry without a row, or the row may be left |
| `Migrate` | a script deploys and a migration inserts, also while an instance deploys |
| `Watch`, `WaitAgain`, `WaitEnds` | `onModuleInit` of the listener, `waitForState` |
| `Ask` | a call of the service: the job is queued, or there is nothing to do |
| `Take` | the processor gets a job and its lock |
| `WrapAgain`, `WrapEnds` | a handler waits for the contracts |
| `HandlerRefuses`, `Send`, `SendThrows` | a handler refuses, sends, or throws |
| `PollFinds`, `PollAgain`, `PollEnds`, `Complete` | the poll, and the end of the job |
| `CheckStalled`, `LoseLock` | Bull notices that a lock has expired: the job is rerun or failed |
| `Mine`, `Revert`, `ProcessEvent`, `LoseEvent` | chain, node and `processEvent` |
| `Crash` | the process dies, with its callers, its job and what its listener saw |

`OnChainPromise` is what is left for a caller: calls begin, are executed, resolve only if they
were executed, reject at any time, or leave with their process. `OnChainQueue` implements it
with `answer` as it is and `executed` as the calls with a mined transaction. The promise is
weak on purpose: a poll that gives up says nothing about the transaction, which may be mined
later, and a job that was rerun may be executed by its second transaction or by both.

### The proof requests

| variable | in the code |
|---|---|
| `table` | `notary_proof_request`: the state of each row |
| `deployed`, `apps` | whether a notary contract is recorded; how far each instance is with its start |
| `due`, `rounds` | the triggers of each stream; the round it is in: step, batch, proof |
| `chain` | the proofs sent (external) |
| `proofs`, `readings`, `announced` | the recorded proofs, InfluxDB, the published events |
| `faults` | crashes, refused calls, lost answers, for the bound only |

| action | code |
|---|---|
| `Boot`, `Deployed`, `Bootstrap` | `onModuleInit` of the notary, `onApplicationBootstrap` |
| `RequestReadingProof` | rows are saved and the stream is triggered |
| `Find`, `FindNothing`, `FindRejects` | `findPendingRequests` gives a batch, nothing, or rejects |
| `Mark`, `Send`, `Wait`, `Save`, `Store`, `StoreThrows`, `Remove`, `Publish` | `processRequests`, await by await |
| `SaveError`, `SaveErrorRejects` | the `catch` |
| `Refused`, `Crash` | a call is refused; the process dies |
| `Settle` | a transaction is mined or reverted |

Each awaited call of a round may also be carried out and its answer lost (`Answered`): the
round then goes to its `catch` with the effect in place.

### Matching and claiming

`SpreadMatcher` has one action for each round (`MatchRound`: routes by priority, shares of
the scarcest entity, remainders unit by unit) and one for the end of the loop (`Stop`). A
route joins a consumption and a generation because of an entry in the consumers' group and
one in the generators'; a group that names an id twice makes several routes of a pair, which
`Via` collects and which count as often as there are. Where the order of the routes matters,
for the remainders, `Before` is that order. Its variables are the caller's `input`, what is
left (`volume`), the sums of matches (`matched`),
the counter `rounds` and the `outcome`. `ClaimService` runs it inside of `claim`:
`Match`, then `BatchClaim` (or `BatchClaimRefuses`, `BatchClaimFails`), then
`CreateLogs`; after a rejection the caller may `Retry` with the same input. `balance` is
what is left on the certificates, `logs` how often each entry of the report was written.

### What is abstracted in the off-chain service

- `createdAt` and the event's id are one field `at`, different for every event.
  Two events with the same millisecond are therefore not modelled: their order
  is that of a query without `ORDER BY`.
- Rows of the read model keep owners, claimers and `isSynced`; the lists of
  transactions and claims, the device metadata and `blockchainCertificateId`
  decide nothing here.
- Validators are the sets of commands that users choose from. A claim always
  has a volume; the variants without validation accept other commands and are
  left out, as is publishing events on the event bus.
- Saving a command and creating its event are one step: no table that another
  process reads is touched between them. Ids and times of one batch are
  contiguous.
- The limit of 500 events, the 50 rounds and the block sizes are constants, the same
  block size for all three types.
- In `BlockchainSync` the chain executes a block as a whole or not at all, as a contract
  does. The queue and the poll in between are the subject of `OnChainQueue`; here their
  effect is that a block may be executed and its answer lost. That a block is executed only
  after it was reported as failed, which `OnChainPromise` allows, is not modelled here, nor
  are two jobs on one table in any run.

### What is abstracted elsewhere

- On-chain service: an issuance also emits a transfer event, which is left out, because
  nobody waits for an issuance among the processed transactions. The registry and its issuer
  are one deployment; where only the first gets onto the chain, no row will ever name it. A
  transaction stands for its hash. The ids of the certificates that an
  issuance returns are its transaction, since the listener files them under its hash.
- Proof requests: `due` stands for the debounce timer and the queue behind it; any number of
  triggers makes at least one more round. A `createNewRequest` that commits and then rejects would
  leave rows without a trigger; it is not modelled. A stream whose round rejects is `dead`;
  where Node ends the process for it, that is `Crash`. Trees, salts and rounding of
  timestamps are left out: a proof is its rank.
- Matcher: volumes come from small sets; that priorities are lists of lists is all that is
  assumed of them (`AreGroups`).
- Claims: the certificate service claims all matches or none (that is the validation of
  `OffChainCertificate`), and may reject before or after that.

## Runs

Names are those in `PROJECT.json`; each has a `.cfg` with its constants.

| run | instance | question |
|---|---|---|
| `AggregateLog` | three accounts with the zero address, volumes 0 to 2, logs of up to 4 events | does the fold compute the balance sheet, conserve volume, refuse for good? |
| `OffChainBatches` | two users, two certificates, batches of two, the zero address, 4 commands, one failure | is every row a successful replay and every certificate issued once and first, even when validation and storing read different logs? |
| `OffChainSerial` | one caller as user and job, batches, 5 commands, one failure | is the log replayable, is the read model never behind, are answers bounded? |
| `SyncOrder` | one job, one certificate, three events, 2 rounds, one failure | does the chain see the events in order, each boundedly often, and only with a blockchain id, and can each failure be recorded? |
| `SyncLiveness` | one job, two events in one block, one failure | is nothing answered or counted that did not happen, does every run end, does every event settle? |
| `OnChainQueue` | two instances, one of which deploys, a migration, one call of four kinds, one fault | does the queue keep its promise, is every call answered, are reruns bounded, does a deployer ever wait for contracts that nobody has? |
| `TransferSafety` | one instance, one request, two validators, three failures | is consent needed, do refusals last, is nothing issued twice, do rows agree with certificates, are answers kept? |
| `TransferLiveness` | one instance, two requests, one validator, one failure | is every request that waits taken up, and does every request end when nothing fails? |
| `ProofRequests` | two instances, two readings of a device, one of them unstorable, one fault | is no reading lost, are proofs bounded, is a pending row taken up? |
| `ClaimMatching` | three consumptions, two with one id, two generations, volumes 0, 2 and 5, priorities with and without repeated ids, two tries, one fault | is volume conserved, are priorities and equals respected, does the loop end, do logs follow claims? |
| `TwoUsersOverdraw` | two users, one certificate, 3 commands | (violated) does the log stay replayable without serial callers? |
| `DeployAtBootstrap` | one instance that deploys in `onApplicationBootstrap` | (violated) does it find its contracts, as the README says? |

### Bounds

The runs bound the number of commands (`MaxCommands`), of certificates, the size
of batches and the number of failures. Four or five commands are enough for the
cases the properties are about: an issuance, two movements that compete for its
volume, and an answer to one of them; or an issuance and
two answers, of which one is repeated. A single volume suffices for a double
spend; `AggregateLog` varies volumes, including 0, on the fold itself. One
failure suffices to part any two consecutive writes. `MaxAttempts = 2` tells a
first, a repeated and a forbidden try apart. Accounts, users and jobs are
interchangeable, so they are a symmetry set (not in the runs with liveness). Deadlock
checking is off because every run stops when its commands, calls, requests or faults are
used up, which is a bound of the model, or when a stream has ended.

In the runs of `BlockchainSync` users stop at `MaxSubmitted` commands, and `MaxCommands` is never
reached: all retries are within the bounds. `SyncOrder` has blocks of one, so that a
certificate's events come in successive batches, and two rounds; `SyncLiveness` has
`BlockSize = Limit = 2`, so that a block has siblings, and one round, so that runs end with
work left.

In `OnChainQueue` `MaxWaits = 0` leaves one look at the contracts before a start or a job
gives up, and `MaxPolls = 1` two looks for the event: enough for a race of the last look
with the event and for a rerun that meets the first run's transaction. `MaxRegistries = 2`
lets a deployment be cut off and repeated. The deployer and the migration compete
for the first row; a second deployer would do what the migration does and is left to the
theorem, and the other instance, which only waits, is the one that can time out. The calls are of
the kinds that are answered in different ways: found by certificates, found by any event,
refused by a handler, and answered without a job. One call is enough: calls share the queue
and the poll, but the properties are about each call alone, and the theorems below cover
many calls. One fault separates a crash of the worker from a lost lock; a crash followed by a
second fault is covered by the theorems, too.

In `ProofRequests` both rows fit in a round, so that `TakenUp` is checked without its
exception for crowded devices; the unstorable row makes failures that are not faults. In
`ClaimMatching` a volume of 5 over two or three routes leaves remainders, 2 against 5 makes
scarce and rich sides, and 0 makes entities that drop out; the priorities include an unlisted
consumer and generators in one rank, in two, and in none. `MaxRounds = 20` is more than five
entities can need, so that `RoundsBounded` measures the loop and not its limit; the branch
that throws is therefore not reached in a run, and what is said of it (that it is reached only
when twice the entities are as many as the limit) rests on the theorem `MatchingEnds`, which
is for every `MaxRounds`. Some groups name a generation twice, a consumer twice, or both, with shares,
remainders and negative volumes. In `TransferSafety` two validators
suffice for an answer that meets another one's, and three failures for a stale copy, an
error that is saved over it and a restart; the number of answers and rounds is not bounded.
`TransferLiveness` has batches of one and of two, so that a batch is full while others wait.

### What is not promised

Two runs state what a test or a document of the repository says, and TLC shows
how the code departs from it:

- `TwoUsersOverdraw`: two transfers of the same balance are validated on the same
  log and both stored. From then on the certificate cannot be replayed and every
  command on it throws (`RefusedForGood` says that later events do not repair it).
- `DeployAtBootstrap`: the README of the package has the application call `deploy` in its
  `onApplicationBootstrap`. Nest calls that after every `onModuleInit`, where the listener
  waits for the very contracts: the first start of the application times out. With
  the call before initialisation (`DeployHook = "beforeInit"`) a deployer never waits in
  vain, which is run and proved.

The passing properties are as strong as the code allows. What they leave out, and why:

*Off-chain certificates.* `LogsReplay` is for users whose calls do not overlap on a
certificate, and `RowsCurrent` for calls that do not overlap at all, reports included:
when a user's call and a report overlap, the row of the later writer lacks the other's
event. A crash between storing an answer and counting the attempt has the event
answered again, and since `isSynced` compares numbers (`certificate.aggregate.ts:272`), the
surplus can make it true for a certificate with another event that was not persisted. An
event that succeeds at its last permitted attempt blocks the synchronization of its
certificate as if it had failed (`CertificateEventPostgres.repository.ts:137`).
`VolumeConserved` states a transfer to oneself as it is: it adds the volume to the account
(`certificate.aggregate.ts:138`).

*On-chain service.* A call that rejects may have been executed, or may still be. The
comment on restarts in `transaction-poll.service.ts:12-20` is about one instance: when the
worker of a job dies and its caller waits in another instance, the job is rerun and sends a
second transaction, hence the bound of `RunsBounded` instead of "once". Two deployers
at once, or a deployer and a migration, may leave two rows, from which each reader takes the
first it gets, or one of them fails to start; its contracts stay unrecorded. That a deployer
starts is not promised either: `migrateRegistry`, `migrateIssuer`, `save` and the queries may
reject (`blockchain-properties.service.ts:64-80`), and with them the start, possibly with a
registry on the chain that no row names, and without contracts for those who wait. The next
start deploys anew. `DeployersDoNotTimeOut` says the rest: rejections, conflicts and crashes
apart, the start does not end for want of contracts.

*Transfer requests.* The copy that a `catch` of the validation saves is as of the start of the
round: after a failure it can erase answers that were stored and replace `Transferred`.
Hence `AnswersRegistered` is about executions without failures, and the last part of
`RowsMatchLedger` allows error states. `IssuedOnce` and `RefusalsStick` are for one instance:
nothing keeps two instances from finding the same request, and two issue it twice. A
request left in an `...InProgress` state by a restart is not looked for again.

*Proof requests.* Rows that failed are taken together with a device's pending ones, without
an order: with enough of them they may fill every batch (`Crowded`). For the same reason one
value that InfluxDB refuses fails all later batches of its device that contain it. Rows left in processing by a
crash are retried only when the device has a new pending row. A retry makes a new
proof with new salts, so that the reading has two verifiable proofs; a crash after the
removal loses the published event, never the reading. A stream that ended with a
rejection is not started again within its process (`TakenUp` excepts it).

*Claims.* Nothing checks that a priority group names an id once. When one names it twice, its
routes come twice. With shares of at least one that is counted rightly, and the id is
served twice. When the share is nothing, units are handed to the first routes of the scarce
entity (`spreadMatcher.ts:233-250`), and two of them may lead to one entity that has a single
unit: a consumer of 2 with the group `[x, x, y]` leaves an `x` of 1 at -1 (131-137), although
the comment at 204-206 calls the distribution safe. Nothing vanishes even then, and priorities
are kept, but `VolumesConserved` promises no more for such a group, and `SpreadEvenly` and
`RoundsBounded` promise nothing. If a generation gave too much, the certificate service
refuses the claim as a whole; a consumption that got too much is not noticed.
A first group of consumers with volume but without usable generators ends the
matching for all later groups, since `getFirstUsableGroup` looks at consumers only.
Remainders go to the first in the list, hence "at most one unit per generation" in
`SpreadEvenly`; a test agrees (`spreadMatcher.spec.ts:315`). A claim that rejects after it was
carried out is carried out again by a retry if the generation has enough left, and logs
may be partial when the call rejects: `LogsFollowClaims` bounds both by the faults.

### Fairness

`Progress(j)` is any step of a job's run or of the calls it began, and is weakly fair: a
process that lives does its next step, and the on-chain service resolves or rejects
(`job.finished()`, a poll with a limit). Nothing forces a particular step, so the
chain may refuse and calls may throw, as long as `MaxFailures` lasts. `Start` is
weakly fair in `TriggeredSync` only: the README of the package says that
synchronization must be asked for, from a cron job for example, and
`EveryEventSettles` is about an application that keeps asking. Users owe nothing.

In `FairPipeline` a task that has a step to make makes one, an awaited call of the
certificate service resolves or rejects, and a validation goes on. Rejections of the table
are not among the fair steps, since nothing has to fail; and where both outcomes
are possible fairness does not choose. Readings, late answers and the seller owe nothing.
`PickedUp` allows for a stream that has ended, which the code never restarts within a
process; `RequestsSettle` holds only without failures, because a request left in an
`...InProgress` state by a restart is not looked for again.

In `OnChainQueue` the steps of an instance's start (`Starts`) and of its processor (`Works`)
are weakly fair (the rejections of the start are not: nothing has to fail), and
so is Bull's look for stalled jobs while some instance runs. Nobody is
obliged to start an instance, to mine a transaction or to deliver an event: the loops of the
code are bounded, which is what `CallsAnswered` is about. In that run nobody is
sure to find contracts, since a deployment may reject; an instance that
gives up ends and its callers leave with it.

In `ProofRequests` a process that ended is started again, awaited calls are answered, and
a transaction is mined or reverted some day, although `tx.wait` has no timeout: without
that a round may wait for ever, and with it its stream. Rejections and crashes
owe nothing. The runs of the matcher and the remaining ones check safety only.

## Proofs

Checked by `tlapm`, for all values of the constants that satisfy
`CertificatesAssumption`, `AggregateLogAssumption`, `OffChainAssumption`,
`SyncAssumption`, `TransferAssumption`, `OnChainAssumption`, `ProofAssumption`,
`MatcherAssumption` and the like (bounds, volumes and batch sizes are natural numbers,
deployers are instances, lanes are the only synchronizers, only batches may be empty,
priorities are lists of lists), hence for any number of processes, accounts, calls, commands
and failures.

`OffChainCertificateProofs` proves of `Spec`:

- `TypeCorrectness`: `[]TypeOK`.
- `RowsAlwaysReplay`: `[]RowsReplay`.
- `IssuedOnceAndFirst`: `[]IssuanceFirst`.

None of the three is inductive alone. `TypeOK` needs `CallsOK`, which says what is known
of a call between its steps: its events are later than its start, a report is the call's
only event and names an event that has an attempt row, and only reports reach the last
phases; without it `Recreate`, `FindAttempt` and `SaveAttempt` could leave their types.
`RowsReplay` needs `ViewsOK`: a view that was loaded replays, consists of stored events
and of the call's own, and all views are there when the call stores; this is what makes
`Project` safe although the log may have changed since. `IssuanceFirst` needs
`IssuancesOK`: no issuance, stored or in a call, has an id beyond the sequence, one in a
call has an id that no other issuance has, so `Store` never adds a second one; and by
`ViewsOK` a call only stores for a certificate whose issuance its view holds, before its
own events. Each is proved for `Init` and for every action; the lemmas on the start of a
call (`BeginResult`, `BeginTyped`, `BeginKeepsIssuancesOK`) serve all the actions that
start one, and the `StepKeeps...` lemmas those that continue it.

It also proves `AttemptsAreAnswered`: `[]CountsNeverExceedReports`, for any concurrency.
`updateAttempt` reads a count and writes it back, so two reports of one event may lose a
count; that they never invent one needs `CountInv`: times of events identify them and no
two calls share one (`TimesOK`), and every count, in the table or in the memory of a
call between the two halves of `updateAttempt`, is at most the number of answers whose
calls have counted them (`Covered`), where a call's own answer is not among those yet.

`OneJobReportsOnce` is `[]ReportsBounded`, if one process is in the role of the job.
`ReportInv` says that as long as nothing failed the reports on an event whose calls are
over are at most its count, that a success among them is the last one and has left no
error, and that a report in progress is about an event that failed each time before and
has attempts left. With two jobs one of them could have chosen its event before the
other's answer.

`SerialCallsKeepTheLedger`, `SerialRowsCoverTheLog` and `SerialRowsAreCurrent`: if there
is one process, in both roles, then `[]LogsReplay`, `[]RowsCoverLog` and
`[]RowsCurrent`. The invariant `Serial(p)` says that whatever the call has read is still
the log with the call's new events, that the rows it touched hold just that once they
are written, and that as long as nothing failed every other row is its log. The run
`TwoUsersOverdraw` shows that the assumption of one process cannot be dropped.

`TransferPipelineProofs` proves of `PipelineSpec`, for any number of instances on one
table:

- `PipelineTypeCorrectness`: `[]PipelineTypeOK`. It is inductive: copies are rows of
  requests that exist, and rows are never deleted. (The runs leave it to the proof.)
- `ConsentAlways`: `[]ConsentBeforeTransfer`. The invariant `ConsentInv` adds that every
  row, and every copy that a round holds, is `Backed`: each `valid` in its record was
  stored at some time, and a row on its way to the buyer has all of them; and that the
  copies with which a transfer calls the service are `TransferInProgress`. Saving a
  stale copy can lose answers but never invents one, and `said` only grows: this is why
  consent survives what `AnswersRegistered` and `RefusalsStick` do not. The step that
  matters is `AnsweredBacked`: the last answer approves a request only if all the others
  were valid.

And for one instance, whatever fails:

- `IssuedOnceByOneInstance`: `[]IssuedOnce`. The invariant `IssuanceInv` says that a
  request has no certificate as long as its row waits for issuance (`Open`), that no
  copy a round will save is open, and that a round that is about to issue has no
  certificates for its copies yet and has closed their rows (`RoundIssues`), so that
  nobody finds them again. Rows are never opened again. A second instance could have
  found the rows before they were closed, which is why the hypothesis is there.
- `RowsTellTheLedger`: `[]RowsMatchLedger`, and `RefusalsAreFinal`: `RefusalsStick`. The
  invariant `Stages` says for each request how its row and the copies that the three
  tasks hold of it go together, phase by phase. `IssueStage`: nobody else touches a row
  that the issuance has taken up, unless it has failed. `ValidateStage`: a validation
  starts before there are answers and before the certificate moves, and later its copy
  is only good for an error. `TransferStage`: while a transfer is under way its row can
  only become an error. `RowTrue`: what the row says of the certificate is so, a row not
  yet validated has no answers, and one whose validation is in progress has all that
  were stored. The last part is why a refusal decides: no answer can complete a record
  that holds one. The lemmas `...Saved` say that saving a copy disturbs none of the
  other tasks' stages.
- `AnswersStayRegistered`: `[]AnswersRegistered`. On top of `Stages`, `AnswersKept` says
  that as long as nothing failed a transfer only has rows whose validators have all
  answered, with the same record in its copy, and that every validator that is asked has
  a place in the record of its row (`LanesKept`), so that no question fails and no copy
  of a validation is written back.

`OnChainQueueProofs` proves of `Spec` of `OnChainQueue`:

- `OnChainTypeCorrectness`: `[]TypeOK`, which is inductive together with two facts: an
  instance that is about to insert a registry has one (`Recorded`), and a busy worker
  has a call (`HasCall`).
- `ServiceKeepsItsPromise`: `Spec => Promise!Spec`, the refinement. Each of the initial
  states and steps is mapped to one of `OnChainPromise` or to a stutter. The step that
  matters is `Complete`: the call was executed, because the poll was about the worker's
  own transaction (`PollsItsOwn`), and what a listener saw, or is about to see, was
  mined (`SeenMined`, `ArrivingMined`, `FoundMined`). A call that was not made has no
  job and no transaction (`UnmadeUntouched`), so a call that asked for nothing is never
  executed.
- `DeployersNeverTimeOut`: if deployers deploy before initialisation,
  `[]DeployersDoNotTimeOut`, with any number of deployers at once and whatever rejects.
  `DeployedFirst` says that a deployer waits for contracts only when there are some: it gets
  to the listener past a row that it found or one that it inserted itself, a start that
  rejected on the way has ended, and rows are never deleted. So `WaitAgain` is not for
  it, it makes no second try, and `WaitEnds` never happens.
- `RunsAreBounded`: `[]RunsBounded`. `RunsInv` says that a job is in the queue at most
  once and then nobody holds its lock, and that what a call has sent, what its lock
  holder is about to send and what waits in the queue is together at most one more than
  it has stalled: each rerun is paid for by a stall. A worker that lost its lock goes
  on, and what it may still send is counted, too.

`ProofRequestsProofs` proves `ProofTypeCorrectness` and `NothingIsEverLost`:
`[]NothingLost`. `AllBacked` says what each step of a round may rely on: from `wait` on
the proof is the round's own and covers its batch, from `save` on it is mined, from
`store` on it is recorded, from `remove` on the readings are stored; mined and recorded
proofs stay so. Hence rows that are removed are stored, whoever else works on them.
`RowsAreAttended` proves `[]ProcessingIsAttended` from `AttendInv`: as long as nothing
failed, what a round has taken exists and is gone when it publishes, a stream at rest
has taken nothing, and every row that is being processed is in a round.

`NobodyPaysTwice` is `[]ProofsBounded`. `PaidInv` counts for each reading and instance
the proofs that are mined or may still be (`Paid`). All but the one of the present round
are owed to a fault (`Owed`), and one more when the row is removed and the instance has
let go of it, since then it never takes it again (`Settled`). A batch that InfluxDB
refuses is left out of the count, as in the property.

### The fold

`FiniteSums` and `AggregateLogProofs` prove of `AggregateLog`, for any accounts, volumes
and lengths of logs, `ReplayIsBalanceSheet`, `ReplayConservesVolume`,
`CountingIsMatching` and `PoisonedForGood` (the four properties of the run). The folds
of the models are functions on the subsets of a finite set. What such a function is at a
set is proved from the smallest subset for which it would be wrong: that a well-founded
order has minimal elements (`WFMin`) is stated of sets and can be cited, while an
induction theorem, with its operator as a parameter, cannot be. The invariant `LogInv`
says that the times of events are distinct and not beyond their number, that answers are
about events of the log, and that the replay is `Balanced` with it, even when it is
refused for too many answers, since one event more may change that. A section on answers
(`ReplaysWhen`, `AnswersKeepReplay`) says when a log is replayed whatever answers it
has; the synchronization needs it.

### The synchronization

`BlockchainSyncProofs` proves of `SyncSpec`, for any number of jobs and users, any
blocks, and whatever fails, crashes or is retried:

- `SyncTypeCorrectness`, `SyncRowsReplay` and `SyncCountsAreReports`: the types, and two
  invariants of the service that also hold with these callers, whose reports on one
  event may run at the same time.
- `AnswersAreExecutions`: `[]AnsweredMeansExecuted`. In `SyncInv` the answers that are
  stored and those that lanes are about to store are together no more than the
  executions of the event. A lane that was left behind by `Catch` keeps the answer it
  began with.
- `ChainFollowsLog` and `NoneIsDropped`: `[]ChainOrder` and `[]IdWhenSelected`, as long
  as `NoOverlap`: calls of users that are in progress touch different certificates.
  `OrderInv` says that of the events of a certificate all those before one that is about
  to be sent are persisted, and those before one in the queue are persisted or in the
  run, too; a second job changes nothing about that, since a persisted event stays so.
  The condition is needed: two calls on one certificate may be stored in the other order
  than their events were created in, and then the older event is found when the later
  one is on the chain already. For one user there is no condition (`OneUserInOrder`).

And for one job:

- `RetriesEnd`: `[]ExecutionsBounded`, as long as `FailuresAccepted`. `BoundInv` says of
  each event that its executions are its count, those not counted because of a failure,
  and the one that its run is waiting to count (`Owing`); and that a lane that has read
  a count and not written it would not lose more than that if it wrote now. Two jobs and
  a failure break the bound, and the theorem is therefore about one: the job that is
  slow writes its old count over what the other has counted meanwhile.
- `LedgerReplays` and `ErrorsAreRecorded`: `[]LogsReplay` and `[]FailuresAccepted`, as
  long as `NoOverlap`. Calls of users still overlap with reports, and reports with each
  other, on one certificate; so neither is a theorem about serial callers. `LedgerInv`
  says that what a user's call has read lacks no movement that is stored
  (`UsersCurrent`), and that the answer of a lane is not one too many for what it has
  read (`AnswersFit`). That answers neither move volume nor refuse a replay unless they
  are too many comes from `AggregateLogProofs`, which the module instantiates with `log`
  for `events`.
- `RetriesEndApart` and `OneUserOneJob` combine them: `[]ExecutionsBounded` under
  `NoOverlap`, and all three for one user without a condition.

### Matching and claiming

`ClaimServiceProofs` proves of `Spec` of `ClaimService`:

- `MatchingConservesVolume`: `[]VolumesConserved`, for any priorities. In `MatcherInv` volumes
  are integers, and what a pair was given is missing on both sides. If no group names an id
  twice (`NobodyNamedTwice`), a pair has one route at most (`OneRoute`, `LinkedCount`), so
  that counting routes is counting pairs, and `SoundInv` adds that nothing is negative: a
  round gives no entity's routes more than it has, the smallest share over all entities
  for each route, or single units, each to another entity, of one whose share is nothing.
- `MatchingKeepsPriorities`: `[]PrioritiesRespected`, for any priorities. Routes lead from the
  first usable group to the first usable group; what is used up stays so, because only
  entities that are not used up have routes.
- `MatchingEnds`: `[]RoundsBounded`. The matcher would go on for ever if rounds left all
  entities with something. `RoundsInv` bounds the rounds by twice the entities that are
  used up, and one more when some entity has less than its routes (`Unserved`): a round
  with shares leaves such an entity or uses one up, and a round with single units uses
  one up.
- `MatchingSpreadsEvenly`: `[]SpreadEvenly`, if no id is in two groups of a list of
  consumers (`IdsOnce`). Then two consumptions of one rank that are not used up have the same
  routes, and `SpreadInv` can say how one gets ahead: by the last units of a generation,
  of each generation once. An id in two groups may be of one rank with another in a
  group that is not the one it is served from. All inputs of the run satisfy the
  hypothesis.
- `ClaimsAreWhole`: `[]LogsFollowClaims`. `ClaimInv` names the number of times that the
  report was claimed; each step that can fail after its effect adds to the faults what
  it adds to that number.

### Assumptions

The proofs of `OffChainCertificate` use `FromEvents` as a black box: they show that a
row or a log is one the reducer accepted. What the reducer computes is the subject of
`AggregateLogProofs`, and the proofs of `BlockchainSync` use both. `SyncAssumption`
gives lanes and users different names. The theorems on one instance, one job, calls
that do not overlap or ids in one group state that in their hypotheses; runs or remarks above show what
happens without them.

### Only model-checked

Liveness (`EveryEventSettles`, `RunsEnd`, `CallsAnswered`, `PickedUp`, `RequestsSettle`,
`TakenUp`), because it rests on fairness and so on `ENABLED`, which the installed
provers do not reason about. How often several jobs execute an event is neither proved
nor checked: with failures `ExecutionsBounded` does not hold for them, and without
failures there is no theorem.

## What is left

In the order of their worth:

1. Two jobs on one table in a run of `BlockchainSync`, and blocks that the chain executes after they were
   reported as failed. The state space needs a smaller model of the reports.
2. An abstract `CertificateLedger`, a map from certificates to accepted movements, that
   `OffChainCertificate` implements for serial callers, resting on `SerialCallsKeepTheLedger`.
3. Events of the same millisecond, whose order is that of a query without one.

## Not modelled

- The in-memory repositories, doubles for tests. They differ from the Postgres ones:
  they set no limit to attempts, they would give a certificate up only for an event with an
  error and after one attempt more, they ignore the limit and the order of the query, and
  they update an attempt in one step. A model of them would say nothing about production;
  what passes with them need not pass with Postgres.
- The aggregation of time series in the energy API: its questions are those of dates and zones.
- Validators of commands, in part: they are the sets of commands that callers choose from.
- Read queries, the matching demo, migrations, module wiring and build tooling: they have no state to
  model. The contracts on the chain are code outside of the repository.
