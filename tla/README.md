# RecallLease: specification, model checking and proofs

RecallLease gives autonomous agents a memory of permissions and revocations that
expires. A client opens a *session* (a tenant with a token, a lifetime and a
budget of uses), records *memories* in it, some of which replace others, and asks
whether an *action* may be done. The service retrieves the memories in force,
decides `deny` or `needs_review`, records a *receipt* of the decision and archives
it. Several requests run at once, and the decision takes several calls.

The question this project asks first is the one the program exists for: **is a
recorded decision right at the instant it is recorded?** Everything else is there
because that question depends on it.

## Inventory

| Part | State it keeps | Operations | What is hard | What makes it correct |
| --- | --- | --- | --- | --- |
| Retrieval and decision (`store.py` `recall_active`, `service.py` `_decide`) | none | filter by status and validity, rank, cut, floor, next boundary, decide | boundaries (`<=`/`<`), the cut before the search for denials, ties | evidence is stable up to the boundary; a denial in force wins |
| `MemoryStore`: `InMemoryStore` | sessions, memories, receipts, hourly counts | `create_session`, `authorize_session`, `add_memory`, `recall_active`, `save_receipt`, `attach_receipt_archive`, two lists | concurrent replacement, the last use, stale versions | version counts memories; each memory replaced once; rows permanent |
| `CockroachStore` | the same, as rows | the same, as transactions | the transaction's clock, serialization retries, a pool of two, TTL deletion | it implements the same store |
| `RecallLeaseService` | none between calls; a request's locals | `create_demo_session`, `get_state`, `add_memory`, `evaluate_action` | state read in one call and used in the next; the bounded retry; failures between calls | committed decisions are current; at most one receipt; every request ends |
| Receipt archive (`receipts.py`) | objects in a bucket, named by content | conditional `put` | the object written and the answer lost | row, object and answer agree |
| HTTP API (`api.py`) | none | four handlers, a middleware gate, startup validation | mapping of failures; a process that starts before its database is ready | a failed request answers with an error; a process serves only from a complete database |
| Browser client (`app.js`) | session, running flag, what is displayed | create, reset, replay | a chain of requests of which any may be lost, refused or served late; a second click; its own clock | what it says and displays is what its backend recorded; it never stays busy |
| Static replay (`static-replay.js`) | one fixture | the four operations in the browser | a digest that rejects between two writes | the fixture is of the page's session; the same promises as with the service |
| Bootstrap (`bootstrap_database.py`, `schema.py`) | database, login, grants | 23 autocommitted statements | a run cut short between two, run again, or overlapping another | a database that serves is complete and locked down |
| Zero-cost verifier (`verify_zero_cost_cloud.py`) | none; the clouds' own | four commands, three validations | clouds that change between the commands; shapes of answers; a command that never answers | what is verified was free and lasts; nothing is rejected without cause; it ends |
| Settings (`settings.py`, `_validate_production_cloud_settings`) | none | validation | combinations of settings | modelled for production starts, with the bootstrap |
| Build scripts, page, submission texts | static | copying | nothing concurrent or stateful | not modelled |

How they interact: the API's handlers run in a pool of threads (or, hosted, in
separate Lambda processes) and call the service; the service calls the store,
sometimes the embedding provider, and the archive. Requests share nothing but the
store and the archive. The store's calls are atomic (a lock, or a transaction);
nothing is held between two of them. Time passes between any two, the host's clock
is not the database's, and the database deletes the rows of expired sessions. The
page talks to the service over a network, or to a fixture in the browser. The
bootstrap and a starting process share the cluster. The verifier only reads.

## Modules

| Module | Models | How |
| --- | --- | --- |
| `Retrieval` | `recall_active`'s computation, the relevance filter, `_decide` | operators on a sequence of memories; a memory is named by its position; a table `Score` stands for embeddings |
| `LeaseStore` | `InMemoryStore`, and the row TTL of `schema.py` (`Reap`, when `RowTTL`) | variables `now sessions memories receipts hourly`; one action per operation, with the call's arguments as parameters |
| `StoreClients` | any callers of the store | every call of the `MemoryStore` protocol, with any arguments; a new tenant identifier and a new receipt identifier are the only things assumed |
| `LeaseService` | `RecallLeaseService` over `LeaseStore`, the archive, the API's four handlers | each request is a thread: `pc` is its next call, `call` its arguments, `view` what `recall_active` returned, `tries` the loop counter, `response` the receipt it will answer with; `objects` is the bucket |
| `CockroachStore` | `CockroachStore`: its transactions, retries and pool, over the rows of `LeaseStore` | each caller makes one call at a time: `pc`, `job` (the call), `began` (its transaction's `now()`), `tries`; a commit is one step with `began` for its clock, its answer another; `effects` counts the commits of a call |
| `ReplayPage` | the page of `app.js` | `step` is the request the page awaits (or the pause), `label` its run state, `shown` the receipt on display; `net` holds requests under way, `answer` the one that came back |
| `StaticReplay` | the fixture of `static-replay.js` | `fixture` is its one session; a request is one step, or a step that fails half done |
| `ReplayClient` | the page with the service, over the rows of `LeaseStore`, or with the fixture | `static` says which build it is |
| `Deployment` | the bootstrap script, the schema's statements, the start of a production process | the script is a sequence of statements, `run` how far each operator is in it; `databases` and `login` are the cluster, `process` what a process started with |
| `CostGate` | the verifier and the clouds it asks | `step` is the command under way, `cloud` what the clouds are now, `answer` the document kept for validation |
| `AtomicLedger` | nothing in the code: what the service promises | leases, a ledger of memories per tenant, verdicts, each pronounced in one step |
| `MCStoreClients`, `MCLeaseService`, `MCCockroachStore`, `MCReplayClient`, `MCDeployment`, `MCCostGate` | | values for TLC, with one `.cfg` per run |
| `LeaseStoreProofs`, `StoreClientsProofs`, `LeaseServiceProofs`, `LedgerProofs`, `CockroachProofs`, `ReplayProofs`, `DeploymentProofs`, `GateProofs` | | lemmas and theorems |

How they build on one another: `Retrieval` <- `LeaseStore` <- `StoreClients`,
`LeaseService`, `CockroachStore` and `ReplayPage` <- `StaticReplay` <- `ReplayClient`;
`LeaseService` maps to `AtomicLedger`. `Deployment` and `CostGate` stand alone.

Correspondence worth knowing before reading the code beside the model:

* A call to the store is one step, because `InMemoryStore` holds its lock over it.
  `RecallActive` and `SaveReceipt` are separate steps, as in `evaluate_action`.
* The token of a tenant is named after the tenant: it is random, and only its
  equality is used. A client presents the token of any session it was answered
  with, for any such tenant, and names any memory of either as the one to replace.
* Text is abstracted to a topic, a query to one of `Query`, and `relevance` to
  `Score`. `created_at` stays, as it breaks ties; ties after that keep recorded
  order, as the stable sort does.
* Time is a number that `Tick` advances. The service's own clock is `now + Skew`;
  it sets the session's expiry and `valid_from`. The store's clock does the rest.
* `Fail` clears the locals of a request. `Abort` lets any request fail before any
  call: an exception in a library, or the death of its process.
* An answer may be lost after its call took effect, and the caller then sees an
  exception: `RecordAnswerLost` and `AttachAnswerLost` of a store call that committed,
  `PutAnswerLost` of an object that is written (the conditional put has `IfNoneMatch`,
  so a retry inside the SDK is refused). Of the other calls a lost answer leaves the
  state that the answer and then `Abort` leave.
* In `CockroachStore` a transaction begins when it gets a connection, and commits in
  one step on the rows as they then are. This is the database's promise that
  transactions are serializable, taken as given; a transaction that cannot be
  ordered so fails, which the model allows at any time. `_run_serializable` retries
  creations, additions and retrievals over a connection taken anew; the single
  statements of the other calls are not retried. A commit (`Commit`) and its answer
  (`Answered`) are two steps, and `Break` may come before either: the rows stand and the
  caller sees an error. That error is no `SerializationFailure`, the only one that is
  retried: CockroachDB reports a commit whose outcome is unknown as SQLSTATE 40003.
* In `ReplayClient` the calls that one of the service's handlers makes of the store are
  one step, for nobody but this page writes to its session: another request can only be
  one the page gave up. A handler that fails keeps what its calls have done so far.
  `FailCreate` leaves a session with none, one or both of its memories, `FailCall`
  a use spent and nothing else. A request is served, refused, failed or lost; the page
  may give one up and the service serve it later, which has no effect on the page and
  stands, too, for an answer lost after its effect. Tenants and receipts are named after
  the click that asked for them. `Pause` stands for the 420 ms; when the bounded clock
  has stopped the timer fires anyway. The use a refused call has spent stays spent.
  `created_at` texts and the evidence list's layout are left out.
* The page awaits every request it makes of the fixture, so one is a single step. What
  can fail in the middle is a digest (`crypto.subtle.digest`), after some of the
  request's assignments: each such point is an action, and keeps what was assigned.
  A digest rejects at any time. The fixture spends a use before it looks at the request.
* `get_state`'s two reads are one step: nothing in the repository relies on their
  being of the same state, and they change nothing.
* In `Deployment` each of the 23 statements is a step, for the script connects with
  autocommit, and the login that ends the script is its last. What CockroachDB grants
  by default on a new database is taken from its documentation and marked external.
  `Launch` takes any settings and any content of Parameter Store that
  `_validate_production_cloud_settings` accepts. Two operators may run the script for
  two databases, but there is one login for the cluster, whose password is the last one
  set. `finished` is a history variable: the databases whose last run ended well.
* In `CostGate` a JSON document is a function from the paths present in it to values,
  which is all that the recursive search of the script can tell apart; a command
  answers with one of several renderings of `cloud`. `Shapes` are the places where
  the fields may be. Renderings are of the clouds' tools and marked external; at most
  one field of one document is damaged (missing, not a number, a boolean, not finite).
  Two damages look sound to the script: a draft's total that is `false`, which `float`
  reads as 0, and the status lost of one of two drafts, which leaves one. `misread`
  remembers that the script accepted such an answer; it is a history variable, as are
  `seen` and `faulted`: what was the case when each command answered, and whether
  anything went wrong.

## Properties and runs

| Run | Module | Properties | Instance | States |
| --- | --- | --- | --- | --- |
| `StoreClients` | `MCStoreClients` | `StoreTypeOK`, `VersionCountsMemories`, `SupersededOnce`, `RecordsPermanent` | 2 tenants, 3 memories each, clock to 2, 2 rate windows | 194 k |
| `Decisions` | `MCLeaseService` | `AtMostOneReceipt`, `Inv`, `CommitIsCurrent`, `DenialYieldsOnlyToNearer`, `ImplementsLedger` | 1 tenant, 4 requests, 2 at a time; a recall cut at 2, a budget of 3, the host clock 1 ahead; denials that start late or end; clock to 1 | 493 k |
| `Progress` | `MCLeaseService` | `BudgetNeverOverspent`, `AnsweredIsWhole`, `TypeOK`, `Inv`, `ArchiveAgreement`, `TenantIsolation`, `EveryRequestEnds`, `ImplementsLedger` | 2 tenants, 3 requests, a budget of 1, one creation in a window of 1, archive, the host clock 1 ahead, row TTL; clock to 2 | 122 k |
| `Truncation` | `MCLeaseService` | `AnyRelevantDenialWins`, **violated** | the deployed limits: 8 recalled, 8 uses | to depth 30 |
| `Transactions` | `MCCockroachStore` | `CockroachTypeOK`, `TransactionInv`, `SavedAsOfStart`, `NoEffectRepeated` | 1 tenant, 2 callers, 2 connections, 2 memories, 2 attempts, clock to 1, expiry to 2 | 744 k |
| `RateWindows` | `MCCockroachStore` | `SessionsWithinLimit`, `EveryCallReturns` | 2 tenants, 2 callers, 2 connections, the deployed 4 attempts, a limit of 1, 2 windows; no retrievals, no symmetry | 131 k |
| `ExpiryDuringWrite` | `MCCockroachStore` | `NoWriteAfterExpiry`, **violated** | 2 callers, clock to 2 | to depth 8 |
| `Replay` | `MCReplayClient` | `ReplayTypeOK`, `ReplayInv`, `VerifiedIsRecorded`, `DisplayIsOfSession`, `FixtureIsOfSession`, `RevokedOnce`, `ReplayBlocks`, `Blocking`, `ButtonsComeBack` | both builds; 4 clicks, 2 creations an hour, row TTL, both clocks agree; clock to 2 | 543 k |
| `ReplayAhead` | `MCReplayClient` | `ReplayBlocks`, **violated** | the browser's clock 2 ahead, a pause of 1 | to depth 13 |
| `Deployment` | `MCDeployment` | `DeploymentTypeOK`, `ServesOnlyComplete`, `FinishedIsReady` | 2 databases, 2 passwords, 2 operators, 1 process, 3 runs of the script | 1.23 M |
| `CostGate` | `MCCostGate` | `VerifiedIsFree`, `RejectedForCause`, `GateInv`, `GateEnds` | 2 accounts, 2 shapes, 2 changes of the clouds, a lifetime of 2, a timeout of 1 | 392 k |
| `MalformedInvoices` | `MCCostGate` | `VerifiedOwesNothing`, **violated** | as `CostGate` | to depth 4 |

What they say, in the order of importance:

* `CommitIsCurrent`: whenever a receipt is inserted, its evidence and decision are
  those a retrieval at that very instant would give. Requests that add and replace
  memories, validity starting or ending, and the clock come between.
* `ImplementsLedger`: hence the service looks as if it decided in one step. The
  mapping hides versions, boundaries, tokens, budgets, requests and the archive.
* `DenialYieldsOnlyToNearer`: a denial in force that reaches the relevance floor
  blocks the action, or else as many memories as one recall returns are in force and
  rank above it, and the session has spent that many uses. It holds for every budget.
  `Decisions` has a recall of two memories and up to four to recall, so that the cut is
  met while denials are added, start and end between recall and insert. That *any*
  relevant denial wins (`AnyRelevantDenialWins`) is what the documentation says, and
  `Truncation` shows that with the deployed limits it is not so: see Findings.
* `AtMostOneReceipt`, `EveryRequestEnds`: the loop of three tries.
* `ArchiveAgreement`: an object is the content of a row (unless the row expired), a
  row with an archive key has its object, and an answered receipt is its row. Rows
  without an object, and rows whose request failed, are reachable and allowed.
* `BudgetNeverOverspent`, `TenantIsolation`: the budget under concurrency, and
  clients that use each other's tokens and memories.
* `AnsweredIsWhole`: a session is made by three calls. A client that was answered has
  one with its permission and its fact. A creation may fail before or after any of the
  three, at the last answer too, and then keeps none, one or both memories; its session
  has no receipt and its whole budget, because nobody holds its token.
* `VersionCountsMemories`, `SupersededOnce`, `RecordsPermanent`: what the store
  guarantees to any caller, which the service relies on.
* `SavedAsOfStart`: the same promise as `CommitIsCurrent` as the database can give
  it. A receipt's evidence and decision are those of the memories at its commit, at
  the time its transaction began; the commit itself may come later.
* `NoEffectRepeated`: an operation is retried after failures that leave nothing behind,
  and only those: a commit whose answer is lost ends its call with an error.
* `EveryCallReturns`, `SessionsWithinLimit`: retries, the pool and the hourly limit.
* `VerifiedIsRecorded`, `DisplayIsOfSession`: "Replay verified" and the receipt on
  display are of the session the page holds, though a creation may fail between its
  two requests and keep the session it has just opened.
* `FixtureIsOfSession`: at rest the browser-only page holds the session its fixture
  serves, wherever a digest failed. It is why `createFixture` assigns the fixture last.
* `RevokedOnce`: a revocation the page gave up on, and repeated, is recorded once.
* `ReplayBlocks`: while both clocks agree, a replay that runs to its end shows the
  action blocked. When they do not, see Findings.
* `ReplayInv`: among the rest, a session whose creation failed after any of its calls is
  never taken for a whole one.
* `ButtonsComeBack`: whatever is lost or refused, the buttons work again.
* `ServesOnlyComplete`: a process that has read the four tables with the app's login
  serves from a database that has everything, the vector index included, and grants
  nothing more. It holds because the script grants the tables last: reading them is
  evidence for all statements before. `FinishedIsReady`: a run that reports success
  leaves such a database, though others were cut short or overlapped it. Neither
  promises that the app can go on connecting: a later run takes the grant away
  before it gives it back, and may change the password, as the script does.
* `VerifiedIsFree`: what is verified was free when each command looked, and lasts. The
  plan's expiry is compared before the other cloud's commands run, so up to two
  timeouts of its promised days may have gone. However malformed, no answer about the
  plan or the cluster passes for a free one; of the invoices two may (`misread`), so
  that what the documentation promises without exception, `VerifiedOwesNothing`, is
  violated: see Findings. `RejectedForCause` is the converse of `VerifiedIsFree`, for
  every shape an answer may have; `GateEnds`: the timeouts end it.
* `Inv`, `TransactionInv`, `ReplayInv`, `Blocking`, `GateInv`: the invariants the proofs
  rest on, as far as they say something of the code and not only of the model: what is
  held between two calls of the store, two transactions, a request and its answer, or
  two commands, still fits what others did meanwhile.

### Bounds, and why they are enough

`MaxTime` stops the clock and `Request` bounds the requests; both are constants of the
model. A stale decision needs a retrieval, a change (or a boundary) and a save: two
requests at a time and one tick of the clock do it, and a third and fourth request set
the change up and use what it leaves. In `Decisions` the host's clock is one ahead, so
that at the one tick of the store's clock the initial permission and some denials
start, and others end; sessions expire in `Progress`. Retries end after three refused
saves; in `Progress` they are reached through expiry, after which every save is
refused. `WindowLen` is longer than the clock in the runs of the service that are not
about the rate; it is 1 in `Progress` and `RateWindows`, so that a refused creation is
followed by one that is admitted, and 2 in `StoreClients`. Requests are
interchangeable. They are a symmetry set wherever only safety is checked; `Progress`,
which checks liveness, keeps instead the behaviours in which requests arrive, and
tenants are first named, in the order of their names (`InTurn`): every other behaviour
is one of these with the names changed.

`Attempts` is 2 in `Transactions`: one retry is enough for an operation to be done
twice, if it ever could be. It is the deployed 4 in `RateWindows`, which has no query
and no receipt, as neither touches the counters.

Four clicks in `Replay` are the loading, a replay given up, a reset and a replay of the
new session; `SessionUseLimit` is 4 there, what a loading and one replay spend of a
fixture, so that a second replay runs out of it. `MaxRuns` is 3 in `Deployment`: a run
cut short, one that overlaps, and one that completes. `MaxChanges` is 2 in `CostGate`:
one cloud ceases to be free and another comes to be, or a field changes and changes
back.

The deadlock check is on in the runs of the service and of `CockroachStore`; `Rest` is
the state in which no request is under way and the clock has stopped. It is off where
the system really comes to rest with nothing left to do: when all bounds are reached in
`StoreClients`, when the clicks are used up and the requests gone in `Replay` and
`ReplayAhead`, when the runs are used up in `Deployment` (a process that never starts
is no error), and when the verifier has an outcome in `CostGate` and
`MalformedInvoices`.

`Truncation` constrains the search (`NoDetours`) to requests that succeed, in turn,
one after another; a constraint only leaves behaviours out, and the one found is a
behaviour of the unconstrained system.

### Fairness

`FairSpec` is weak fairness of each request's next call: a handler that has been
entered goes on until it returns or raises. In the code it is a thread that never waits
for another request: the store's lock is held over a computation only, the archive and
the database have time limits, and the loop has three rounds. In `CockroachStore` it is
weak fairness of each caller's call, in which waiting for a connection ends because the
pool times out after five seconds. In `ReplayClient` it is weak fairness of the page,
of the fixture and of the clock: a fetch is answered or rejects (`Failed` is enabled
for as long as no good answer is there), a call of the fixture settles because nothing
in it waits for anything but a digest, and the timer fires. In `CostGate` it is weak
fairness of time and of the timeout that `subprocess.run` enforces; no command is
assumed to answer. `Deployment` assumes none. Nothing else is assumed of clients, of
the clock or of the row expiry.

## Findings

*A relevant denial that ranks ninth is not seen.* `docs/architecture.md` step 5 says
"Any relevant active denial wins." `evaluate_action` calls `recall_active` with
`limit=8` and looks for denials among those eight only. With the deployed budget
of eight uses a session can hold nine memories (two initial ones and seven added)
when the eighth use evaluates an action; if the denial is above the relevance
floor but the eight others are closer to the query, the decision recorded is
`needs_review`. Run `Truncation` shows the steps.

*A memory write commits after the session has expired.* `docs/architecture.md` says "a
session that expires during a memory write commits no mutation", and
`tests/test_cockroach_store.py` "This write must not commit after the demo session
expires." The guard in `CockroachStore.add_memory` is `expires_at > now()`, and `now()`
is the time the transaction began. Run `ExpiryDuringWrite`: the transaction begins, the
clock reaches the expiry, the guard holds, the write commits. The test cannot show it,
because it scripts the answers of the database.

*The replay may end in "Review required".* The README says of it "The active denial
blocks publication". The page dates the denial with the browser's clock (`valid_from:
new Date().toISOString()`), and evaluates the action 420 ms later. In the run
`ReplayAhead` the browser is ahead of the service by more than the pause: the denial
replaces the permission at once but is not in force yet, no denial is found, and the
page comes to rest with "Review required". Nothing is authorized by it.

*A total that is false is accepted as USD 0.* `docs/security.md` says "The current
CockroachDB draft invoice must total exactly USD 0", and `verify_zero_cost_cloud.py`
calls itself a "Fail-closed cloud cost-boundary verifier". It reads a total with
`float(total.get("amount"))`, and `float(False)` is 0, while it refuses a boolean by
name for the limits and for the credits. In the run `MalformedInvoices` a draft that
owes something is rendered with the amount `false`, and the boundary is reported as
verified. The same follows from two drafts of which one has lost its status, since only
those that say `DRAFT` are counted.

## Proofs

`tlapm` checks every step below, for every value of the constants that satisfies the
named assumptions, each of which TLC checks on the instances above: `ScoreAssumption`,
`LimitAssumption`, `NoneAssumption`, `StoreAssumption`, `ClientAssumption`,
`ServiceAssumption`, `CockroachAssumption`, `PageAssumption`, `FixtureAssumption`,
`SessionAssumption`, `DeploymentAssumption`, `CostGateAssumption` and `ShapeAssumption`
say what kind of number or set a constant is; the `AbsentAssumption`s,
`CockroachAbsence` and `ReplayAbsence` that `None` is not a record.

| Module | Theorem | States |
| --- | --- | --- |
| `LeaseStoreProofs` | `StableUntilTransition` | the evidence for a query does not change before the boundary a retrieval returned |
| `StoreClientsProofs` | `StoreTypeCorrect`, `VersionsCorrect`, `SupersededCorrect`, `RecordsCorrect` | `StoreSpec` keeps `StoreTypeOK`, `VersionCountsMemories`, `SupersededOnce`, `RecordsPermanent` |
| `LeaseServiceProofs` | `TypeCorrect`, `InvCorrect`, `CommitsAreCurrent` | `Spec` keeps `TypeOK`, `Inv`, `CommitIsCurrent` |
| | `OneReceiptCorrect`, `BudgetCorrect`, `IsolationCorrect` | `Spec` keeps `AtMostOneReceipt`, `BudgetNeverOverspent`, `TenantIsolation` |
| `LedgerProofs` | `LedgerImplemented`, `AgreementCorrect` | `Spec => ImplementsLedger`, and `Spec` keeps `ArchiveAgreement` |
| | `DenialWins` | `Spec => DenialYieldsOnlyToNearer` |
| | `AnsweredCorrect` | `Spec` keeps `AnsweredIsWhole` |
| `CockroachProofs` | `TransactionsCorrect`, `CockroachTypeCorrect`, `SavesCorrect` | `Spec` keeps `TransactionInv`, `CockroachTypeOK`, `SavedAsOfStart` |
| | `EffectsCorrect`, `LimitCorrect` | `Spec` keeps `NoEffectRepeated`, `SessionsWithinLimit` |
| `ReplayProofs` | `ReplayCorrect`, `ReplayTypeCorrect`, `VerifiedCorrect`, `DisplayCorrect`, `FixtureCorrect`, `RevokedCorrect` | `Spec` keeps `ReplayInv`, `ReplayTypeOK`, `VerifiedIsRecorded`, `DisplayIsOfSession`, `FixtureIsOfSession`, `RevokedOnce` |
| | `BlockingCorrect` | `Spec` keeps `Blocking`, if the pause covers what the browser's clock is ahead (`PauseCovers`) and the denial is found by the action's query (`DenialFound`) |
| | `BlocksCorrect` | `Spec` keeps `ReplayBlocks`, if the browser's clock is not ahead, and `DenialFound` |
| `DeploymentProofs` | `DeploymentTypeCorrect`, `ServingIsComplete`, `FinishedIsComplete` | `Spec` keeps `DeploymentTypeOK`, `ServesOnlyComplete`, `FinishedIsReady` |
| `GateProofs` | `GateCorrect`, `FreeCorrect`, `CauseCorrect` | `Spec` keeps `GateInv`, `VerifiedIsFree`, `RejectedForCause` |

*Commits are current.* `TypeOK` is not inductive, since an action's arguments come from
`call` and `view`; `ArgumentsOK` says what they are at each program counter.
`CommitIsCurrent` needs to know what a view is worth when it is about to be saved.
`ViewSound` says: it is of a version no newer than the session's, and *if it is of the
session's version*, its evidence, decision and boundary are what the memories of now
give for the time it was taken. A step that changes the memories advances the version,
which makes the view's version older and the claim empty (`LedgerEffect`); a step that
does not leaves the claim true. The one way to break this is a session opened again
under the same tenant, with its version back at 0; `TenantsFresh` excludes it. A save
then passes three guards: the version is the session's, so the view describes the
memories of now; the clock is before the boundary; and by `StableUntilTransition` what
held at the retrieval holds at the commit. That theorem rests on `NextTransitionLeast`
(the boundary is the least later transition; a least element exists, `LeastExists`).
The proof of `SaveIsCurrent` fails if the boundary guard is taken out of
`SaveAccepted`.

*The ledger.* `LedgerInv` adds `Rooted` to `Inv`: a session is the work of a request
past its opening, and without one there are no rows. So opening a session grants a
lease where there was nothing; an addition records; a guarded insert pronounces,
by `SaveIsCurrent`, the verdict of its own instant; the clock advances; an expiry
forgets. Every other step leaves all four of the ledger's variables alone, attaching
an archive key included, as the mapping hides it.

*Ownership.* `Owned` says who may still act on what. A receipt's author is past its save
and never saves again, and no two receipts have one author (`ReceiptsOwned`); what a
request attaches a key to is its own (`ResponsesOwned`); a request past its
authorization holds the token of the tenant it names (`TokensOwned`); the requests
admitted are finitely many and, with the uses left, within the budget (`BudgetKept`).

*Denials.* If a relevant denial in force is not among the memories recalled, the recall
was full: at least `RecallLimit` memories in force rank above it. That these have cost
as many uses needs an account of the budget. `Paid` counts, against it, the memories
recorded, those that the session's creation still owes, the uses left, and the admitted
requests that evaluate or have yet to record. Every memory but the first two costs a
use and so does the evaluation, so at a save there is at most one memory more than uses
spent (`SavedLedgerFits`), of which all but the denial itself can be above it
(`OthersAbove`, `SavedOverFarther`). Nothing is assumed of budget and limit. The bound
is reached: in `Truncation` all eight uses are spent and all eight others are above.

*The archive.* `ArchiveAgreement` relates what three calls write, so the induction
(`Agreed`) says what a request holds between them. From its save to its end its
receipt is a row wherever the session remains, without a key until `Attach`, and from
`PutObject` on its object is there (`AnswersHeld`); an object is of a request that
will not save again, and of its tenant (`ObjectsOwned`). A row changes only by the
`Attach` of its own author (`RowsStay`, with `ResponsesOwned`), who has exactly one
row (`ReceiptsOwned`), so the key reaches the row whose object was put. A session
that expired does not come back under the same tenant (`KnownSessionsStay`).

*Whole sessions.* `Whole` says what each call of a session's creation finds
(`MadeSoFar`): nothing, then the permission that lapses with the session, then the
context fact, a call that failed before its effect or after it; and that whoever else
asks for the tenant found its creation answered (`ClientsServed`), so that no other
request acts on a session in the making (`NobodyElseActs`) and a creation that fails
leaves it for good as it is. Afterwards the first two memories keep what they say,
whatever replaces them (`LedgerStep`).

*The store.* `SupersededOnce` becomes inductive as `InOrder`: a memory replaces an
earlier one, which is no longer active, and no two replace the same one. An addition
is the only call that matters, and its guard (`Replaceable`) that the memory it
replaces is active is what the third part rests on.

*Transactions.* The argument of *Commits are current* has to hold again where every
call of the store is a transaction with a clock of its own, that may fail and be run
again, and where the clock of a later transaction may not be a later one. `Sound` says
of what a caller has recalled: it is of an older version, or it is still what the
memories of now give at the clock of the retrieval. An addition advances the version;
an expiry removes the session for good, since a tenant's creation is nobody else's
(`CreationFresh`). A save begins after the retrieval has returned, so its clock is not
before the retrieval's, and `StableUntilTransition` carries the evidence over.
`NoEffectRepeated` rests on what is retried: while a call may still be tried it has
done nothing (`UndoneStays`), and a commit takes it to `committed`, from where it is
answered or breaks, and is never tried again. A window counts no more than the limit
because the conditional insert looks and counts in one step (`LimitCorrect`).

*The page.* `ReplayInv` says what page, awaited answer, requests left behind and
backend hold of one another. A click has one request under way (`RequestsInOrder`); a
creation that is served late is of a click that is over, so it cannot make the session
the page holds. The memories of a session are the two initial ones, or as many of them
as a creation that failed has made, or both and the denial that took the permission's
place (`ReplayLedger`); the session the page holds, or has a request under way for, has
at least the two (`SessionsWhole`), since only a creation that was served whole is
answered. A late revocation finds the permission superseded and is refused, which is
`RevokedOnce`. What is displayed, or about to be, cites a denial the backend has
recorded, and rows that only grow keep it so (`Recorded`, `Founded`).

*The denial is in time.* `Blocking` follows one denial from the revocation to the
receipt. It is dated no later than the browser's clock (`Dated`), it is recorded before
the pause begins, and the pause covers what the browser is ahead; so it is in force
when the evaluation is served (`DenialInTime`). At most one other memory is active, and
a recall of two leaves neither out. `Cut` names the states in which the model's bounded
clock has stopped short of a pause; it is empty where the browser's clock is not ahead,
and `ReplayBlocks` follows. `DenialFound` asks that two memories are recalled, of the
deployed eight, and that the denial's text reaches the floor for the replay's query; it
does for the local embedding, whose similarity of the two texts is well above the floor
of 0.08. `ReplayAhead` violates the property without `PauseCovers`.

*The gate.* First, of one answer. Among the paths tried, the first that is present
holds the field, whichever that is (`WordFound`, `LimitsFound`); so a rendering of a
cloud is accepted exactly when the cloud is free (`ClusterComplete`,
`InvoiceComplete`). One with a damaged field is accepted only if the cloud is free all
the same (`ClusterDamaged`, `PlanDamaged`), or, of the invoices, if it is one of those
that look sound (`StatusDamaged`, `DocumentDamaged`, `InvoiceDamaged`: free or
`Misread`). Then, of the script: an answer that is kept until the next one is still of
what was seen, whatever changes (`GateInv`; `Sound` joins to it what the outcomes say).
Time can only take away from what the plan promised, at most one timeout for each
command after it was compared (`PlanStands`); that is where the two timeouts in
`VerifiedIsFree` come from.

*Deployment.* `DeploymentInv` says what holds of a database and the login from each
statement on, for every run under way (`Grows`): objects, revocations and the use of
the schema are never undone, so a later statement of any run finds what the earlier
ones of that run did, whatever the others do. The tables are granted last.

Every safety property that a passing run checks is the statement of one of these
theorems. Only model-checked are the liveness properties, `EveryRequestEnds`,
`EveryCallReturns`, `ButtonsComeBack` and `GateEnds`, and the fairness they need: TLAPS
has no rules for `ENABLED`. The four violations are TLC's. What is recursive over data
cannot be proved by the installed provers; no module declares a RECURSIVE operator.
`Recalled` says which memories a recall returns by counting those that rank above, and
not by a sort, so nothing needs the induction that a sort would.

## Not modelled, and why

* Embeddings, hashing, JSON and floating point: `Score` and identity of content
  stand for them. Digests are assumed not to collide.
* The middleware's tests of headers (request identifier, body size, capability,
  origin): functions of one request, without state. Local and test starts of the
  process: no shared state and no database.
* `build_static_demo.py`, `stage_lambda.py`, `build_sam.py` and
  `verify_runtime_requirements.py`: file copying from a fixed list, and checks of
  static text. Nothing in them is concurrent, ordered by time, or kept.
* The page's markup and styles; the submission texts.
* `Rest`, `MaxTime`, `MaxRuns`, `MaxChanges` and the finite set of requests exist only
  for model checking.

## Plan

What is left, in order:

1. That `CockroachStore`, with its transactions, implements the store that
   `LeaseService` is checked over, as far as it does: a save is right as of its start
   (`SavedAsOfStart`) and not as of its commit, so the refinement is of a ledger whose
   clock may lag.
2. Safety lemmas for the liveness properties: bounds on the steps that a request, a
   call or a command can still take, which with weak fairness are why each ends.
3. Shorter proofs in `ReplayProofs`, where the two backends share an argument.
