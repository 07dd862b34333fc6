# newpr_backend in TLA+

Models, model-checking instances and proofs for the Laravel backend of a
recruitment site. The repository serves candidates and recruiters (the `Rc`
API), company back offices (the `B` and attendance APIs), partner systems (the
signed `SApi`), a CMS and a Filament administration panel, over MySQL
(REPEATABLE READ), Redis (cache and queues) and a handful of external services.

## 1. The system

| Part | State it keeps | Operations | What is hard about it |
| --- | --- | --- | --- |
| Orders and payments (`RcOrderService`, `RcPaymentService`, `RcPaymentNotificationService`, `OrderController`) | `rc_orders`, `rc_payment_transactions` | create, detail, pay, minute sweep, platform notification | requests that read an order without a lock, a remote call between two writes, notifications repeated, late and out of order |
| Asset accounts (`RcAssetService`) | `rc_asset_accounts`, `rc_asset_ledgers` | grantOnce, consumeOnce | idempotency by `biz_no` under concurrency, balances, transactions over several accounts |
| Back-office gifts (`UserRcCommerceService`, `CompanyRcCommerceService`, `CompanyApprovalBenefitService`) | the same | addProduct, addAsset, approval benefit | several grants in one transaction |
| Job publishing (`RcJobService`, `RcJobPublishingEntitlementService`) | `rc_jobs` and the accounts | create, update, publish, pause, close | which publication consumes a benefit; fallback from one asset to another |
| Resume refresh (`RcResumeRefreshService`) | `rc_resume_refresh_logs`, a summary in Redis | refresh, from three places | one free refresh a day, then one unit of an asset; a date read twice, a summary written after the commit |
| Applications (`RcApplicationService`) | `rc_applications`, `rc_interviews`, `rc_offers`, flows | apply, withdraw, screen, invite, accept, reject, offer, hire | statuses are checked on a copy loaded before the transaction and never locked |
| Chat interaction requests (`ImInteractionRequestService`, `IMService`) | `im_interaction_requests`, conversations | create, respond | the answer commits an application change before its own row |
| School activities (`RcSchoolActivity*Service`, `RcSchoolBoothService`) | activities, company applications, booths | apply, review, assign a booth | a booth is checked free outside the transaction that assigns it |
| View statistics (`RcViewStatsService`, `RcViewStatsArchiveService`, `SyncViewStatsBatchJob`) | Redis counters, daily tables | record, archive | counters are moved from Redis to MySQL by queued, retried batches |
| Attendance (`AttendanceService`, `AttendanceScheduleGeneratorService`, `AttendanceSchedule`) | schedules, clock records | clock in and out, generate, recalculate | minimum clock interval, rest-day cycles, regeneration over a clocked day |
| Company plans (`SysPlanService`, `BatchRebindCompanyPlansJob`, `CompanyObserver`) | `company_plans`, the current plan | resolve, extend, rebind | batch job against concurrent changes |
| Codes and sign-in (`VerificationCodeService`, `AuthController`, `UserIdentitySyncService`) | cached codes, tokens, identities | send, verify, refresh, switch identity | a code read and then forgotten in two cache calls |
| Open API (`VerifySignatureMiddleware`, `SApiSignatureService`) | cached nonces | verify | replay of a nonce |
| Resume editing, AI parsing, search and recommendation, CMS, Filament, imports, favourites, uploads, SMS | their tables | CRUD, queries, calls to services | no protocol of their own: left out |

How they interact: `OrderController` calls the order, payment and notification
services; the notification handler and the gift and job services call
`RcAssetService` inside their own transactions; `ImInteractionRequestService`
calls `RcApplicationService`; the scheduler (`routes/console.php`) starts the
order sweep every minute and the statistics, attendance and import jobs every
night; observers react to saved models in the same process.

`PROJECT.json` lists for each part whether it is modelled, and the hazards at
the line where they bite.

What makes each part correct, in one sentence: an order is settled and granted
exactly once however its requests and notifications meet; the ledger explains
every balance and no balance is overdrawn; each publication that has to be paid
for consumes one benefit; an application advances only with the consents its
stage needs and along the documented diagram; an answer in the chat is applied
once; a free refresh is used once a day; a booth belongs to one company; an
archived counter is not doubled, nor lost before its keys expire; a clocked day is not overwritten;
a company has one current plan; a code is accepted once.

## 2. Modules

| Module | What it is |
| --- | --- |
| `OrderPayment` | orders, payment transactions, requests in progress, grants; the payment platform as external actions |
| `Sale` | what the order subsystem promises, without transactions and notifications |
| `AssetLedger` | `grantOnce` and `consumeOnce` statement by statement, inside the database transactions of their callers |
| `AssetBook` | what the ledger promises its callers, without rows, locks and transactions |
| `JobPublishing` | the jobs of a company; composes `AssetBook`, which `AssetLedger` implements |
| `ApplicationFlow` | one application with its interviews, its offer and its flow records |
| `InteractionRequests` | the requests of a conversation and their answers; extends `ApplicationFlow`, whose handlers an answer calls |
| `ResumeRefresh` | the refreshes of one candidate: transaction, log and Redis summary |
| `ViewStats` | view counters, their archive and the totals shown |
| `OrderPromise_proofs` | on top of `OrderPayment_proofs`: what needs the order of open, lapsed and paid, up to the refinement of `Sale` |
| other `*_proofs` | theorems about the module they are named after |
| `MC*` | small instances for TLC |

Operators whose comment starts with "Mutant" are not part of a specification:
each is a plausible slip of the operator that follows it, and the property it
is listed with in `PROJECT.json` is violated when it takes that operator's
place.

### OrderPayment

`orders` holds the rows of `rc_orders` reduced to the columns the control
depends on; `payments` those of `rc_payment_transactions`, numbered in the order
of insertion; `granted` counts the ledger rows of each order and asset; `lapsed`
is the set of orders whose `expired_at` has passed, which also stands for
the `expired_at` of a transaction, copied from its order; `req` is the state of
each web request between two statements; `trades` and `notices` belong to
the platform.

Grain of atomicity. `create`, the transaction of `initiate`, the notification
handler and `addProduct` take a row lock before they look at anything, so each
is one action. `findAccessibleOrder` is a read (`FindOrder`) and a separate save
of the loaded copy (`CancelFoundOrder`), which writes `order_status`,
`pending_key` and `canceled_at` only, because Eloquent saves the attributes that
changed. `initiate` calls the platform after its transaction has committed
(`InitiateNew`, `InitiateReused`) and saves the answer on the model it holds
(`SaveGatewayPayload`). `Fail` is a failed call or a worker that dies in
between.

Data. A product is a payer with a plan, so that the pending key of an order is
its product; an entitlement snapshot is a set of assets; an amount is reduced to
whether a notification carries the full amount of its transaction.

### Sale

An order is absent, open, lapsed or paid. A product is open through one order at
a time; settling an order delivers its whole snapshot once, in the same step,
even if it had lapsed. `ImplementsSale` maps `orders` to phases and `granted` to
deliveries.

### AssetLedger and AssetBook

`balance` and `ledger` are the committed rows of `rc_asset_accounts` and
`rc_asset_ledgers`; an account whose row is missing has balance 0 and an empty
ledger. Each caller is a database transaction with a `plan`, a list of calls: a
batch of grants (`RcPaymentNotificationService`, `addProduct`, the approval
benefit) or a consumption with alternatives
(`RcJobPublishingEntitlementService::consumeFor`). `at` is the call it has
reached.

Grain of atomicity: one action per statement that can meet another
transaction. `LockAccount` is the `SELECT ... FOR UPDATE`; on a missing row it
takes a gap lock, which several transactions may hold and which blocks the
insert of the others. `view` is the snapshot of the transaction's first plain
read, which `exists()` looks at; the unique index on `biz_no` looks at what is
committed. Each `consumeOnce` is a nested `DB::transaction`, a savepoint: when
it fails for lack of balance its writes are undone and its locks kept
(`TryNext`). `writes` are seen by others at `Commit` only. A deadlock's victim,
a failed insert and a crash are `Rollback`.

`AssetBook` says the same of balances and booked numbers alone: `GrantAll` books
a batch as a whole, leaving out what was booked before; `ConsumeFirst` books the
first alternative that can pay. `ImplementsBook` maps `booked` to the numbers in
`ledger`.

### JobPublishing

`job` holds the status, the employment type and the deletion of each row of
`rc_jobs`; `balance` and `booked` are those of `AssetBook`, a number being the
pair of a job and its publication (`job_publish:{id}:{n}`); `req` holds the
requests that act on a copy loaded by the controller.

`create`, `update` and `publish` read the job under `lockForUpdate` and consume
in the same transaction, so each is one action (`Create`, `Update`, and `Load`
then `Publish`, since the controller refuses a published copy before the
service locks the row); a consumption that fails disables the action, as the
exception rolls the publication back. `pause`, `close` and `delete` are a `Load`
and a save of that copy: Eloquent writes the status only if it differs from the
loaded one. Other consumers of the company's assets are left out; they only
lower balances, which `AssetLedger` covers.

### ApplicationFlow

`status`, `interviews`, `offer` and `consents` are the rows of one application;
applications share no row, so one is enough. `consents` holds the kinds of
`rc_application_flows` rows that record an agreement of one side. No handler
locks anything: a request loads the application and checks its status (`Load`),
reads the interview or offer it needs (`FindInvitation`, `FindNoInvitation`,
`FindOffer`) and saves what differs from its copies in one transaction (one
action per handler). `Abandon` is a request that is refused or dies. An
interview changes its status only here; the administration panel, where rows can
be edited by hand, is left out.

### InteractionRequests

`asks` holds the rows of `im_interaction_requests`: type, status, and whether
`expires_at` is absent, ahead or past. `turn` is what each HTTP request is doing
with which row; `results` the result messages the external message service has
accepted, by their `client_msg_id` (row and answer), so that the same message
sent twice is one. The application a request is about, the handlers an answer
calls and the other requests on it are those of `ApplicationFlow`: `INext` is
`Step(r)` of a free request, or a step of a conversation.

`create` checks for a pending request and inserts in two statements without a
lock (`CheckNoPending`, `Create`). An answer has four parts that nothing holds
together: `Respond` decides on the copy the controller loaded; `ReadApplication`
and `ApplyAnswer` are the handler of `RcApplicationService`, with its own
transaction; `PostResult` is the call of the message service; `SaveAnswer` (or
`SaveExpired`) writes the row, whatever it says by then. `BreakOff` may end the
request between any two of them: a refusal of the application service, a
time-out of the message service, a dead worker. A rejected exchange of numbers
goes from reading straight to the message, as an accepted one does; the status
`cancelled` is never written. Conversations, members and message texts belong to
the external service.

### ResumeRefresh

One user, whose row is the lock. `logs` are the rows of
`rc_resume_refresh_logs`: the day they are dated, whether they are free, and (as
history) the day the quota was looked up for; equal paid rows count once.
`summary` is the set of days whose Redis summary has a `free_count` above 0;
the summary of a past day has expired, and one that is missing, unreadable or out
of reach is the same as one that says nothing. `balance` is the committed balance
of the asset.

The transaction runs under the row lock of the user, which every caller takes
before it reads anything: `Lock`, the look at summary and log (`FindUnused`,
`FindUsed`), `Consume` or `Refuse`, `Persist`, `Commit`. They are steps of their
own because the clock runs on: `Lock` reads the date that is looked up, `Persist`
the date that is logged. `Clash` is the unique key on user, date and quota.
`CountLogs` and `SetSummary` come after the commit, outside the lock, in any
order with those of others, or not at all (`LoseSummary`). `Consume` is
`consumeOnce` under a number of its own, whose account stays locked to the end of
the transaction; `AssetLedger` has the details.

### ViewStats

`pv` are the counters in Redis, by job and date, and `uv` the visitor keys that
exist beside them; `stored` the rows of `rc_job_stats_daily` and `rows` their
totals (a row may hold 0); `batch` the queued and running `SyncViewStatsBatchJob`s
with their date, ids, attempts, the counters read so far and the jobs found to be
written; `failed` the jobs and dates of the batches in `failed_jobs`; `page` a
total that is being put together. `counted` (the views counted, also when their
key has expired), `outlived` (visitor keys that were still there when their
counter expired) and `early` (dates synchronised before they were over) are
history.

`RecordView` is the Redis pipeline; the date was taken when the request began,
and only a viewer who is signed in touches the visitor key. `Midnight` moves the
date. The two keys of a date expire one by one and in either order
(`ExpireViews`, `ExpireVisitors`): an anonymous view renews only the counter's
time, seconds are truncated, and a pipeline that breaks off can leave either key
without one, so that it never expires. Hence neither action has a deadline; the
only thing they wait for is the end of the keys' lifetime (`Lives`). A batch
leaves a job out only if it found neither views nor visitors (`ToWrite`,
`RcViewStatsArchiveService.php:76`). `NightlySync` and
`ManualSync` collect the ids that have a counter and queue a batch, one chunk per
command. A batch reads counter after counter (`Read`) and then writes row after
row without a transaction (`Update`, `UpdateNothing`, `Create`), so an attempt
that fails anywhere (`Abort`, `KeyClash`) leaves what it wrote, and the next
starts over from what the keys hold then. MySQL reports an update that changes
nothing as 0 rows; when it happens within the second of the first write, the code
inserts and meets the unique key (`UpdateNothing`, then `KeyClash`). `SumRows` and `Answer` are the
two reads of a total, with one `today` taken before both.

Two assumptions: no request lasts from midnight to half past (`Countable`), and
a night's sync runs before the next midnight (`Midnight`). The number of unique
visitors (only whether their key exists matters), the resumes (the same code on another table), deleted jobs and the read counts of
announcements are left out.

## 3. Runs

| Run | Instance | Shows |
| --- | --- | --- |
| `order_races` | 1 order, 2 transactions, 2 requests, 2 products of which one cannot be granted, 2 channels | settlement and grants agree in every interleaving of requests, sweep and notifications |
| `order_turnover` | 2 orders of one product, 2 transactions, 1 request, fair sweep and notifications | one pending order at a time; money is never taken back; `Sale` is implemented; overdue orders are closed and full payments delivered |
| `order_stale_cancel` | 1 order, 1 transaction, 1 request | finding: a paid order left cancelled |
| `ledger_book` | 3 accounts, 3 batches, 3 consumptions with fallback, 2 open transactions | no lost update, overdraft or split batch; `AssetBook` is implemented |
| `application_resurrected` | 2 requests, 2 interviews | finding: a settled application moves again |
| `interaction_races` | 2 requests, 2 interviews, 1 interaction request of any type | overlapping requests, on the application or in the chat: no stage without its consents, no acceptance told that was not applied, no answer without its message |
| `interaction_rounds` | 1 request, 3 interviews, 2 interaction requests | served one after the other: the documented diagram, over withdrawals, new applications and answers broken off half-way; an answer is final |
| `interaction_told_twice` | 2 requests, 1 interaction request | finding: an acceptance and a rejection of the same request are announced |
| `job_races` | 2 jobs, 2 requests, 2 types, 1 unit of each of 2 assets | exactly the publications that must be paid for are charged, once each |
| `job_free_of_charge` | 1 job, 1 request | finding: published without consuming anything |
| `refresh_days` | 3 requests, 3 days, up to 2 units | a promised free refresh is kept over midnight, nobody pays too early, the summary tells the truth |
| `views_nights` | 1 job, 2 views on one day, its keys live 2 days more and then expire one by one, 4 days, 2 batches, 2 attempts, 1 manual sync, fair scheduler and worker | rows and totals never exceed what was counted; an archived row is emptied only where the visitor key outlived the counter; what is counted is archived or reported |

Bounds. The hazards of orders need two requests on one order, or one request
and a notification, or two orders for one product, and at most two transactions
of an order, since a third replaces the second as the second replaced the first.
The ledger's need two transactions on two accounts in opposite orders, a
consumption that falls back, and an account both find missing; a third
transaction waits for the locks of the other two and adds no new meeting, and the
theorems hold for any number. An application and a conversation need two
overlapping requests. `MaxInterviews` bounds the interview rows: three fit two
rounds of invitation, refusal or withdrawal, and new application; `MaxAsks`
bounds the interaction requests: two are enough for one that was left pending and
its successor. Jobs need two requests on one job and two jobs for the same
asset; one unit of the preferred asset and one of the general one make a first
publication, a fallback and a refusal happen. Three refreshes on three days let
one wait for the lock, one be inside and one write its summary late, over up to
two midnights. A job's counters and rows meet no other job's except inside a
batch, whose order of jobs matters to nobody, and dates meet only in the sum of a
total, which is bounded date by date: one job, the views of one date, two batches
at once, either of them retried, and a day after the last on which the keys live
are the cases; the theorems about `ViewStats` cover any number of each. Rows are never
deleted, so the sets of ids bound the runs and no run needs a constraint.

Deadlock is checked except where the system may stop: an application that is
hired or rejected has nothing left to do (`application_*`, `interaction_*`), nor
has a company whose jobs are all deleted (`job_*`), and the calendar of
`views_nights` ends. `interaction_races`, `job_races` and `refresh_days` use
symmetry, which is sound for the invariants and step properties they check.

Fairness. The sweep is scheduled every minute (`routes/console.php:15`) and the
platforms repeat a notification until it is acknowledged
(`OrderController::notify` answers a failure otherwise), so both are weakly
fair; nothing is assumed of buyers, requests or trades. `rc:sync-view-stats` is
scheduled every night (`routes/console.php:12`) and a queue worker takes what is
queued, so `NightlySync` and `Work` are weakly fair; attempts may fail as they
like, since `$tries` ends them. `ArchivedOrReported` excepts what the code cannot
promise: a queue that stands still until the keys are gone, and a day that was
also synchronised by hand before it was over, whose batch may write its old
reading over the nightly one. The other modules promise nothing that must happen:
every operation starts with somebody's request.

What holds only for handlers that take turns. `OnePendingInvitation`,
`StageHasItsRows`, `HiredHasAcceptedOffer`, `FollowsDocumentedFlow` and
`AcceptedOfferStays` fail when requests overlap, because every status is checked
on a copy: two invitations both find none pending, and a refusal saved between
the check of `hire` and its save leaves an application hired on a rejected offer.
`interaction_rounds` therefore checks them with one request at a time, and
`application_resurrected` shows the overlap for the one the documentation states
most plainly. `AnswerIsFinal` is the same for the chat. The proofs (section 4)
say exactly which handlers have to take turns for which of them; the others may
overlap as they like.

A withdrawal leaves the invitations and the offer of the row behind, and a new
application reuses the row. An accepted offer is never sent again
(`AcceptedOfferStays`, `RcApplicationService.php:434`), so whoever accepted one,
withdrew and applied again can be interviewed but not offered or hired; an
invitation left pending is the one the candidate then answers, and blocks the
next until he does.

Findings.

1. `findAccessibleOrder` cancels the copy it loaded without a lock; a
   notification committed between its read and its save leaves an order paid and
   cancelled (`docs/Rc/订单与支付.md:402` says paid and completed).
2. A status checked on a stale copy is saved over the one another request has
   settled: withdrawn becomes rejected, hired becomes withdrawn; the state
   diagram (`docs/Rc/投递.md:1473`) has no such edges.
3. Two answers to one interaction request that both read it pending, or one that
   follows another broken off before its save, post an acceptance and a rejection
   (`docs/Rc/IM会话.md:1152` says that a repeated click sends no second result
   message).
4. Publishing a paused job is free, and a draft or a closed job can be paused,
   or created paused, so that a job goes public without a benefit
   (`docs/商业化流程说明.md:39`).

Each finding has a theorem that names its cause as the only one
(`PaidStaysCompleted`, `FlowInTurnIsDocumented`, `OneIsTold`,
`OnlyPausesAreFree`, section 4): where the cause is kept out by a hypothesis, the
property holds of everything else the code does.

## 4. Proofs

`OrderPayment_proofs` proves, for every choice of the constants that satisfies
the assumptions of `OrderPayment`:

- `TypeCorrect`: `TypeOK` always holds. The inductive invariant `IInv` adds
  `Linked`: an unused row is blank, a used transaction belongs to an existing
  order that was not given away, and a request holds rows that exist and belong
  together. Without it a notification or a save could reach a row that has no
  product or channel.
- `PaidOrdersAreGranted`: `PaidIffGranted` always holds. Only two actions move
  money (`NotifySucceeded`, `AddProduct`); every other one keeps payment
  statuses, products, grants and settled transactions (`MoneyKept`).
- `OrdersAreSettledOnce`: `OneSucceededPayment` always holds, along the same
  argument, and `PaymentsAreFinal`: no step takes a payment back.
- `SuccessesWerePaid`: `SucceededWasPaid` always holds, because a notification of
  success is about a trade that was paid (`NoticesAreTrue`) and a trade stays paid
  (`PaidTradesStay`).
- `OneTransactionIsOpen`: `OneInitializedPayment` always holds, because a
  new transaction closes every other one of its order in the same step.
- `FullPaymentsAreAccepted` and `FullPaymentsWait`: the safety half of
  `PaidIsDelivered`. While an order is unpaid, the notification of a full payment
  for it (`Deliverable`) passes every check of the handler, whatever was cancelled,
  closed or reported in between; it stays so through every step, and the step that
  handles it settles the order. What is left to TLC is that the platform repeats
  a notification until it is handled.

`OrderPromise_proofs` adds what needs to know in which order things happen:

- `OneOrderIsPending`: from `Keyed`, which says that an open order still holds its
  `pending_key`. A copy cancelled without a lock empties that key, but only of an
  order that had lapsed.
- `OnlyLapsedIsCanceled`: `CanceledHasLapsed` always holds.
- `PaidStaysCompleted`: `PaidIsCompleted`, which the run `order_stale_cancel`
  violates, holds of every behaviour in which no request cancels from its copy an
  order that was settled since it was read (`SavesFreshCopies`, a condition on that
  one step). Every other step that drops an order drops one that still awaits its
  payment (`DropsOpenOnly`).
- `OrdersImplementSale`: `Spec => ImplementsSale`. Three actions do something of
  their own in `Sale` (`Create` offers, a success notification settles, `AddProduct`
  gives); every other step is `Quiet`: it leaves an order as it is or drops it
  (`Dropped`), and grants nothing, which in `Sale` is a `LapseAll` or a stutter.

`AssetLedger_proofs` assumes `CallsAreWellFormed`: the calls of a batch have
accounts and numbers of their own, the alternatives of a consumption one number.

- `LedgerTypeCorrect`, `LedgerAlwaysExplainsBalance`,
  `AccountsAreNeverOverdrawn`: from `IInv`, which adds `Locking` (a row is
  locked by one transaction, and no other holds its gap; a gap is locked only
  where there is no row) and `Writing` (an uncommitted ledger row belongs to a
  call of its transaction, its account is locked, and it was computed from the
  balance that is still committed). A balance computed in PHP is right only
  because nobody else can have changed it since it was locked.
- `BatchesAreBookedWhole`: from `BInv`, which adds `Viewed` (what a transaction sees is
  booked, and each number a granting transaction has passed by is one it sees or
  one it is about to commit), under
  `BatchesAreDisjoint`: a `biz_no` carries the key of its order, product,
  approval or publication.
- `NumbersAreBookedOnce`: a `biz_no` has one row in the whole ledger, which is what
  the idempotency of `grantOnce` and `consumeOnce` amounts to. From `UInv`, which
  adds `OwnNumbers`: what is written and not yet committed is neither booked nor
  written by another transaction, nor written twice by its own.
- `LedgerImplementsBook`: `Spec => ImplementsBook`. Only `Commit` takes a step of
  `AssetBook`. Besides `UInv`, the invariant `RInv` says what a transaction that
  commits has written: a batch, a row for each of its calls that was not booked
  before (`GrantWritten`), and a consumption the row of one call, every earlier
  alternative having been found empty while its account stays locked
  (`ConsumptionWritten`, `Refused`).

`ApplicationFlow_proofs` (assuming only that `MaxInterviews` is a natural number):
`ApplicationsTypeCorrect` and `NoStageWithoutConsent`. `StagesAreConsented` is not
inductive, because a stale copy may be saved at any time; `CopyConsented` says
that the copies requests hold were consented to when they were loaded, and since
consents are never withdrawn they still are when the copies are saved.

What the code does not enforce is stated as a hypothesis: `TakeTurns(S)` says that
the handlers in `S` do not overlap among themselves, as if each locked the
application it loads. The theorems give, for any number of requests, interviews,
withdrawals and new applications, a set that is enough, and leave every other
handler free to overlap with everything and to save stale copies:

| Theorem | Property | In turn |
| --- | --- | --- |
| `OneInvitationWaits` | `OnePendingInvitation` | invitations among themselves |
| `AcceptedOffersStand` | `AcceptedOfferStays` | sending, accepting and rejecting an offer |
| `HiredHaveAccepted` | `HiredHasAcceptedOffer` | the same; hiring itself may overlap |
| `StagesHaveTheirRows` | `StageHasItsRows` | the same, and answers to invitations among themselves |
| `FlowInTurnIsDocumented` | `FollowsDocumentedFlow` | every handler that saves a status, which only the acceptance of an offer does not |

Each has an invariant that says which copies are exact: that no invitation waits
when an invitation is about to be inserted (`InvitesMeetNone`), that the offer a
handler goes on with is the stored one (`OffersExact`), and so for answers
(`AnswersExact`) and statuses (`StatusExact`). A handler in the set can only be
overtaken by another of the set, and that one has left when it saves
(`NobodyLeft`). `Requests = {r}`, the instance of `interaction_rounds`, satisfies
every `TakeTurns` (`OneAtATime`).

`JobPublishing_proofs` (assuming `AssetsAreWellFormed`: the assets are a finite
set that holds the general one and the preferred ones):

- `JobsTypeCorrect`, `ConsumptionsStayNumbered` and `PublicationsAreAlwaysCharged`,
  from `JInv`. The number of a consumption is only a count of ledger rows;
  `consumeOnce` lets a publication through for nothing when its number is taken.
  The invariant says that the numbers of a job are 1 to n, so that n + 1 is free
  (`NextNumberIsFree`), hence every call of `consumeFor` books something
  (`ConsumeForBooks`), hence the steps that take a draft, closed or expired job
  public are exactly those that book.
- `BalancesAreExplained`: `ConsumptionsExplainBalance` always holds. The sum over
  the assets is a fold, taken in an order of the library's choice. Two facts about
  it are enough (`SumOfZeros`; `SumGrows`, that raising one value by one raises the
  sum by one), and both follow from its definition without an induction theorem: a
  family of subsets of a finite set has a smallest member (`SmallestSubset`), so
  that a fact about sums that fails for some subset fails for a smallest one.
- `OnlyPausesAreFree`: if only public jobs are paused (`PausesPublicJobs`), every
  published job has consumed a benefit. The run `job_free_of_charge` shows that it
  has not otherwise.
- `JobsKeepTheBook`: every step is a step of `AssetBook` on `balance` and `booked`,
  with the two alternatives of `consumeFor` as the only calls, or changes neither.
  With `LedgerImplementsBook` this closes the composition: the steps the jobs rely on
  are the ones the rows and locks of the ledger provide (a company starts here with
  what it was granted before, `Supply`).

`InteractionRequests_proofs` builds on `ApplicationFlow_proofs`: a step of a
conversation is a step of the application, or leaves its rows alone.
`ConversationTypeCorrect`, `ChatKeepsConsents`, `NoEmptyAcceptance` and
`NoSilentAnswer` follow from `CInv`, which adds `TurnFine` (a request that is about
to post an acceptance has recorded the consent, one that is about to save an
answer has posted it) and `ResultsFine` (what was posted belongs to a row, and an
acceptance to a consent). Consents and messages are never taken back, so both
survive whatever other requests overwrite. `ChatImplementsFlow` is the composition:
`ISpec => Spec`, every step of a conversation being a step of the application or
none, since a request that serves nothing holds no copies (`NothingHeld`). What is
proved of the handlers in turn therefore holds of the conversation, which is what
`interaction_rounds` checks (`ChatKeepsTheRows`, `ChatFollowsTheFlow`). Two more
name what the answers lack: `AnswersAreFinal`, that a row leaves pending once if no
two requests answer it at once (`OneAnswerAtATime`), and `OneIsTold`, that
`ToldOnce`, which `interaction_told_twice` violates, holds if moreover nobody breaks
off between telling an answer and saving it (`FinishesOnceTold`).

`ResumeRefresh_proofs` proves `TypeCorrect`, `FreeNeverClashes`,
`SummaryIsCommitted` and `FreeComesFirst` for any number of requests, days and
units. `IInv` adds `OneInside` (the row lock), `NoLogOfTomorrow`, and `Relies`:
while a request is inside, what it found on the day it looked up still holds, and
no log is of a later day than that, so a free log that is dated after a midnight
is the first of its day. Two consequences are theorems of their own:
`OneFreeRefreshADay` (a free refresh commits the first free log of its day), and
`OnlyMidnightCostsTheFreeOne` (whoever pays on a day whose free refresh is unused
had looked up the quota of an earlier day).

`ViewStats_proofs` proves `TypeCorrect`, `RowsAreBounded`, `TotalsAreBounded` and
`ArchiveIsKept` for any number of jobs, batches, attempts and days. The invariant
is one chain of bounds (a counter, what a batch read of it, the row it writes and
the parts of a total never exceed the views counted, which only grow), with
`WritesSeen` (a batch only writes what it has seen views of, or visitors whose key
outlived the counter), `VisitorsBesideViews` and `OutlivedExpired` (a visitor key
has its counter beside it until the lifetime of both is over), `RowsAreStored`,
`QueuedMayRun` (attempts stay within `$tries`) and `SyncFollowsMidnight` (the date
of the nightly sync exists). `ArchiveIsKept` says what an archived row is safe
from: as long as the keys live nothing empties it, and afterwards only one thing
does, a batch queued in time that reads when the counter is gone and the visitor
key is not, and writes `views_total` 0 over the row. The model has that step; the
documents of the repository do not speak of it. `OnlyEarlySyncsLoseViews` is the safety half
of `ArchivedOrReported`: the row of a day that no sync was started for before the
day was over holds all of its views or none, whether it was never written or
emptied that way (`ArchivedExactly`). `EInv` follows a view from its counter,
exact until the key expires (`CountersExact`), through what a batch reads of a
closed day (`ReadsExactly`).

Model-checked only: liveness (`LapsedIsClosed`, `PaidIsDelivered`,
`ArchivedOrReported`), which like `ENABLED` is out of the prover's reach; the
safety halves of the last two are proved.

## 5. Not modelled

Amounts, currencies and the parsing of notifications beyond what decides
acceptance (among them WeChat's `payer_total`, which a platform coupon makes
smaller than the amount it is compared with); access rights; lock-order deadlocks
as such, whose victims roll back and leave no trace; refunds, which the code does
not implement; the expiry of asset accounts, which is read but never written; the
frozen part of a balance, which is always 0; a product without a grantable
entitlement beyond the fact that its payment cannot be settled; what makes a job
complete enough to be published; interview times, salaries and messages; the
conversations and messages kept by the external message service; the
administration panel, where statuses can be set by hand; soft-deleted
applications.

The JavaScript of the repository (`public/js/filament/**`, `vite.config.js`,
`resources/js`) holds no logic of this program: the first are the bundles Filament
publishes, generated and minified from its own sources, the others a build
configuration and an HTTP client set up with its defaults. No definition stands
for them. The program is PHP, and every definition is read from there.

The parts listed as `not_modelled` in `PROJECT.json` are either planned below or
have no protocol of their own: single reads and writes of rows, queries, or calls
of an external service whose answer is passed on.

## 6. Plan

The order of the modules was that of what goes wrong worst: money and benefits
first, then applications, then what is built on them (answers in the chat,
refreshes), then the nightly archive. What is left stands alone:

| Next | Module | Questions | Instance |
| --- | --- | --- | --- |
| 1 | `ActivityBooths` | does a booth belong to one company, and does a company that is withdrawn give its booth back | 2 companies, 2 booths, 2 reviewers |
| 2 | `Attendance` | is a clocked day kept by a forced regeneration, and its status a function of its clock records | 1 employee, 2 days, generator and clock |
| 3 | `CompanyPlans` | one current plan, also when a renewal meets the batch job or fails halfway | 1 company, 2 plans, 2 writers |
| 4 | `VerificationCodes` | a code is accepted once, and a new one is not forgotten for an old one | 1 account, 2 requests, resend |

Every safety property the runs check has a theorem, and every property a run
violates has one that names its cause. The theorems the plan leads to next are
those of the modules above: for `ActivityBooths` that reviewers in turn never give
a booth twice, for `CompanyPlans` that a company is never left without a plan
except by a failure between the writes.
