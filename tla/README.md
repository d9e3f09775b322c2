# HuTube in TLA+

HuTube is a video platform: an ASP.NET Core backend over PostgreSQL, RabbitMQ, object
storage and external providers (SMTP, FCM, SePay, ffmpeg), a Python recommendation
service, web front ends and a mobile application. This directory holds TLA+ models of
the parts of the backend, of the recommendation service and of the deployment controller
whose correctness depends on the order of steps, TLC configurations that check them on
small instances, and proofs that TLAPS checks for every size. `PROJECT.json` ties each definition to the lines it stands for, each
property to a mutant that breaks it, and each hazard to the properties that watch it.

All paths below are relative to `src/backend/src/` unless they start with `src/`; those
of the recommendation service are relative to `src/recommendation-service/` and start with
`app/` or `recommenders/`.

## 1. Inventory

| Part | State it keeps | Operations that change it | What is hard |
|---|---|---|---|
| Moderation event pipeline (`HuTube.Infrastructure/Notifications/ModerationMessagingWorkers.cs`, `NotificationFanout.cs`, `RabbitMqTransport.cs`) | `moderation_outbox_events`, the RabbitMQ queues main / `.retry` / `.dead`, `notification_inbox_events`, the notification and delivery rows | the decision, the publisher loop, the consumer loop, the paged fan-out | at-least-once at each hop, death between any two steps, two instances of each loop, pages over a table that changes |
| Notification delivery (`NotificationDeliveryProcessor.cs`, `PushDeviceService.cs`) | `notification_deliveries` with a done flag per channel, `push_devices` | one attempt over three channels, token registration, logout | a side effect outside the transaction that records it, partial failure |
| Payments (`Payments/PaymentService.cs`, `PaymentExpirationWorker.cs`) | `payments`, `plan_histories`, `users.plan_id` | checkout, cancel, SePay webhook, activation, expiration | repeated webhooks, two different lock keys, stale reads |
| Family plans (`Plans/PlanService.cs`, `PlanExpirationWorker.cs`) | `plan_members`, `plan_histories`, storage shares | buy, invite, accept, remove, leave, expire, allocate storage | several locks, a worker that continues after an error, memberships that outlive their plan |
| Administration of subscriptions (`Plans/AdminSubscriptionService.cs`) | the same tables | extend, switch, automatic renewal | takes none of the locks the others take |
| Moderation cases and appeals (`Videos/ModerationService.cs`, `AppealService.cs`, `ReportService.cs`, `ClaimLeasePolicy.cs`) | cases, claims with a lease, appeals, reports, audit | claim, release, resolve, escalate, appeal | leases that lapse during work, separation of duties, appeals of a decision that changes |
| Strikes and channel locks (`Videos/StrikeService.cs`, `ChannelSuspensionExpirationWorker.cs`) | strikes, `channels.status`, suspension until | strike, revoke, lock, expire | counts read without a lock, locks that overwrite one another |
| Video media retention (`Videos/VideoMediaRetentionCleanupService.cs`, `AdminContentService.cs`) | `media_retention_until`, purge marks, the objects | hide, remove, restore, purge | deletion that cannot be undone, races with appeal and resubmission |
| Video content (`Videos/ContentService.cs`, `HuTube.Api/Services/VideoChunkUploadStore.cs`) | videos, upload sessions and chunks, storage use | upload, edit, publish, delete, interact | reserved storage, upload completion after a crash |
| Renditions (`Videos/VideoRenditionProcessing.cs`) | an in-memory queue, rendition rows | enqueue, process, fail | a queue lost with the process, deduplication |
| Channels and subscriptions to channels (`HuTube.Application/Channels/ChannelService.cs`) | channels, `channel_subscriptions` | subscribe, leave, bell | read by the fan-out while it changes |
| Authentication (`HuTube.Application/Auth/AuthService.cs`, `Persistence/AuthStore.cs`) | sessions, refresh tokens, one-time codes | login, refresh, revoke, reset | a refresh token used twice, counted attempts |
| Operations (`Operations/DatabaseBackupWorker.cs`, `AdminDatabaseBackupService.cs`) | backup jobs | request, claim, run | a job whose worker died |
| Recommendation jobs of the backend (`Recommendations/*.cs`) | job rows, snapshots | request, run, promote | one running job |
| Model registry (`app/model_registry.py`, `app/api.py`, `app/r2_store.py`, `app/main.py`) | on R2: `jobs/<id>.json`, `training-lease.json`, `active.json`; per replica: the update lock, the loaded model | train, status, cancel, publish, refresh | replicas share nothing but objects, answers get lost, a builder stalls past its lease, a process dies between any two writes |
| Usage statistics (`app/model_statistics.py`) | on R2: `usage/<model>.json`; per replica: pending uses | use, flush, catalogue, shutdown | compare-and-swap between replicas, uses made during a flush, shutdown during a flush |
| Item-based models (`recommenders/incremental_item_cf.py`, `batch_incremental_item_cf.py`, `similarity.py`) | ratings, pair statistics, norms, means, neighbours | fit, update in three implementations | statistics adjusted over long sequences, revised and zero ratings, ties, a batch with one invalid row |
| Feeds, ranking and batch programs of the recommendation service | files, a 60-second answer cache | read a model and write a ranking, a file or a chart | numerical; no steps that interleave |
| Deployment controller (`src/scripts/deploy/ec2_autodeploy.py`) | `state.json`, docker images and tags, the checkout, the schema | poll, deploy, verify, commit, roll back, quarantine, clean up | a kill between any two steps, a tip or CI result that changes meanwhile, images needed to recover |
| Everything else | account, roles, playlists, taxonomy, policies, caches, seeding, HTTP layer, front ends, mobile | one row per request, adapters, views | little that depends on order |

How the parts meet. A moderator's decision commits the video, the case, an audit row and
an outbox row together; publisher, broker and consumers carry it to the fan-out, which
reads channel subscriptions, settings and the video and writes inbox and delivery rows;
the delivery loops turn those into sends. A checkout creates a payment; the bank's webhook
marks it paid and activates a plan by calling into the plan code inside the same
transaction; plans limit storage, members and upload; the expiration workers take plans
and payments away. They share no memory: everything meets in PostgreSQL, through row
locks (`FOR UPDATE`, `SKIP LOCKED`) and transaction-scoped advisory locks on a string, and
every background worker runs in each API instance.

The backend reaches the recommendation service by HTTP only. Replicas of that service share
the objects of one R2 bucket, with writes conditional on an ETag; inside a replica, requests,
the background task of a job and the refresh loop meet at `update_lock`. The deployment
controller meets the host through docker, git, HTTP probes and GitHub, and meets itself, in
its next run, through `state.json`.

What makes each modelled part correct:

* pipeline: a committed decision is never lost, nobody entitled is skipped, nobody is told
  twice or told of something older than his subscription, failures are retried a bounded
  number of times and then kept for an operator, as is at once a message nobody can read;
* delivery: a channel that is done is not sent again, a row is completed only when every
  channel was handed over or switched off, and it is completed eventually;
* payments: one activation per payment and per bank transfer, one payable code per offer,
  a bank is told to stop only when the payment is settled;
* family plans: capacity, at most one plan per person (own or shared), every ended plan
  expires; that whoever loses a plan gets the default one does not hold (`NoOneStranded`);
* video retention: media under appeal is not deleted, media that is deleted is not shown or
  brought back, a purge once begun is finished;
* model registry: a cancelled job is never published, a job reported completed was
  published, the newest build is the active model (unless its builder stalled past the lease
  it had renewed and was overtaken: then the older build may replace the newer), every job
  reaches its result, every replica comes to serve the active model;
* usage statistics: no use is lost in a flush, nor in a normal shutdown whose own flush is
  neither skipped, because another flush is under way, nor fails; saved times only grow, the
  catalogue is never behind;
* item-based models: after any updates statistics, similarities and means are what a new fit
  would give, whichever implementation received them; the neighbour lists are those of the
  items a batch refreshed, and others may be stale (section 7);
* deployment: what recovery needs is never deleted, images run with their own configuration,
  a failing revision is not activated again and again, what state.json records is what runs and
  the host settles on the tip of main (with one exception that takes two faults: section 7).

## 2. Plan

In this order, the most important behaviour first:

1. `ModerationMessaging` with the abstract `DecisionNotices`, and its proofs - done.
2. `NotificationDelivery`, which takes over the rows the fan-out writes - done, with proofs.
3. `Billing` - done, with proofs. 4. `PlanSharing` - done, with
   proofs, but for storage and administration.
5. `VideoRetention` - done, with proofs, but for the storage a purge gives back.
6. `ModelPublication` and `ModelUsage`, the concurrent half of the recommendation service -
   done, with proofs. 7. `AutoDeploy` - done, with proofs.
8. `IncrementalSimilarity`, the one algorithm with three implementations that must agree -
   done, with proofs, but for rounding and the other similarity measures.

What is left: `CaseReview` (claims with a 15-minute lease, release, escalation, separation
of duties, duplicate appeals); `ChannelDiscipline` (strikes, locks, suspension expiry);
`StorageAllocation` (the owner's and members' shares against upload reservations) and
`AdminSubscriptionService` as further actions of `PlanSharing`; the rendition queue, backup
and recommendation jobs, refresh-token rotation. Section 7 lists what reading these parts has
already brought up.

Abstract specifications: `DecisionNotices` for the pipeline, `PlanPurchases` for payments,
`MediaLifecycle` for retention, `TrainingRegistry` for the model registry; each refinement is checked and proved. Every safety
and action property of the runs is proved. No module that is proved about declares a RECURSIVE
operator; every constant has a named assumption.

## 3. Modules

### ModerationMessaging

State: per event the outbox row, its `NotifySubscribers` flag and time; per publisher the
row its open transaction holds; whether the consumer can read the event's payload (`garbled`);
the three queues as counters of message copies, where a
message is an event with its `x-notification-retries` count; per consumer its phase, the
unacknowledged delivery and the batch its open transaction has read; the inbox row (owner
told, cursor, completed), the rows written; the subscriptions, settings and videos.
Subscription ids are natural numbers because the keyset cursor compares them.

| Action | Code |
|---|---|
| `Decide` | the decision's transaction, `ModerationService` |
| `SelectRow`, `PublishConfirmed`, `PublishFails`, `CommitPublish`, `PublisherDies` | `ModerationOutboxPublisher.PublishNextAsync` |
| `Receive`, `AlreadyComplete`, `Ack`, `RejectInvalid`, `FanoutFails`, `CopyConfirmed`, `CopyUnconfirmed`, `ConsumerDies` | `ModerationNotificationWorker` |
| `ReadBatch`, `CommitBatch` | `NotificationFanout.ProcessBatchAsync`, from the lock on the inbox row to the commit |
| `RetryExpires` | the TTL and dead-letter exchange of the `.retry` queue |
| `Subscribe`, `Unsubscribe`, `ToggleBell`, `ToggleVideo`, `ToggleWanting` | what other requests do to the tables the fan-out reads |

A batch is two steps, because the rows it reads change before it commits. A message the
consumer cannot read as the event its MessageId names (`JsonException`) is dead-lettered at
once; the publisher writes what it has serialised itself, so that this takes an instance of
another version, and `Decide` leaves it open. `failures`,
`audience` and `steady` are history variables that only properties read.

### DecisionNotices

The pipeline's promise without outbox, broker, pages or consumers: a decision fixes its
audience; recipients are told in any groups and never untold; it is closed when everybody
still owed a notice has it. `ModerationMessaging` implements it under the mapping at its end.

### PlanPurchases

What buying a plan promises one user, every operation one step: a payment is open until it is
settled, buys its plan once with a transfer of its own, and the plan replaces the one before;
a member of somebody else's plan has none and owes nothing. `Billing` implements it. Buying
does not ask that the payment is still open: the expiration worker takes no lock, so that it
may have cancelled a payment whose transfer was accepted.

### MediaLifecycle

What becomes of a video's media, every operation one step: deleted only after a mark that is
never taken back, made when the retention period is over and no appeal is open; from the mark on
nobody watches, appeals or restores, before it an appeal and its approval succeed.
`VideoRetention` implements it.

### TrainingRegistry

What the model registry promises, without object store, lease, locks and tasks: a job is open
until it has a result, is published at once and only once, never when cancelled; completed is
reported of published jobs only; while every call of the store is answered, failed means not
published and results are final; replicas serve published models or none. `ModelPublication`
implements it.

### NotificationDelivery

One user with several delivery rows and devices. `Claim` (`FOR UPDATE SKIP LOCKED`) reads
account and settings; `Send` tries SignalR and email, `ReadDevices`, `PushDevice`,
`PushThrows`, `PushEnds` the devices; `Commit` saves flags and forgotten devices in one
transaction and `CommitRefused` is the same commit when a device row to delete is gone
(EF's concurrency exception, which rolls the flags back too). `Die` is process death at
any point. A device's row has an identity, so that a token removed and registered again is
another row. Providers are external: they take a message, or fail after or before taking it.

### Billing

One user's payments. The advisory lock `plan-membership:<user>` is the variable `lock`;
steps that hold it from a read to the commit are split in two (`BeginCreate` /
`InsertPending`, `Load` / `Activate` or `CancelLate`), and those that take it for a single
transaction are one action guarded by `lock = Nobody`. The webhook's own lock
`sepay:<transfer>` is the guard that no other handler handles that transfer. The expiration
worker's key is the bare user id, so it shares no guard with the others: `ReadExpired` and
`CancelExpired` interleave with everything. `CheckSubscribe` and `SubscribeFree`, to one of
the two plans without a price, check before they lock, as `SubscribeAsync` does. How a history
ends, one's own or the owner's, is the subject of `PlanSharing`. A lost answer leaves the transfer undelivered and it comes again.

### PlanSharing

Users, plan histories, invitations, requests and expiration workers. Membership locks are
per user and allocation locks per history; both follow from what the requests under way are
doing. `ReadPlan` / `CheckPlaces` / `InsertInvitation` is `InviteMemberAsync`,
`OpenInvitation` / `Accept` is `AcceptInvitationAsync`, `EndMembership` removal and leaving,
`Buy` the activation inside the webhook. The worker reads members (`ReadMembers`), takes
their locks, claims the history with a conditional update and moves its people to the
default plan (`Expire`); `SaveLost` is a transaction the database refuses, after which the
DbContext of the batch still holds the change (`carried`), and `EndBatch` the end of it.
`Billing` is the same story told per payment; here payments are left out.

### VideoRetention

One video: the columns that decide whether it is shown and whether its media goes
(`row`), the objects in the store (`media`), the open `upload_review` cases, whether an
appeal is open, and the requests and purge passes under way with the row as they read it
(`saw`). EF sends only the columns a request has changed, so a commit writes the
difference between what the request wants and what it read over whatever the row is by
then (`Saved`); that is how two requests mix. Deadlines are `"running"` or `"over"`
because only `media_retention_until <= now` is ever asked.

| Action | Code |
|---|---|
| `MakePublic`, `MakePrivate`, `Submit`, `Publish`, `DeleteVideo` | `ContentService`: no lock on the video |
| `ApproveCase`, `RejectCase` | `ModerationService.ResolveCaseAsync`, which locks the case; two reviews need two cases |
| `ReportHide`, `ReportRemove`, `Refuse` | `ReportService.ResolveReportCaseAsync`: serializable, refused when the row has changed |
| `CreateAppeal`, `ApproveAppeal`, `RejectAppeal` | `AppealService`, under the lock `purge:<video>` |
| `Hide`, `Remove`, `Restore` (unhide too) | `AdminContentService.ChangeVideoStatusAsync`, under the same lock |
| `List`, `Claim`, `CommitClaim`, `Reclaim`, `Erase`, `CommitPurge`, `PurgeFails` | `VideoMediaRetentionCleanupService.CleanupBatchAsync`: two transactions under the lock |
| `Lapse` | thirty days pass |

Each request is two steps, a read with the checks and a commit.

### ModelPublication

The objects the replicas of the recommendation service share (`job`, `lease`, `active`), and
per replica whether it runs (`up`), who holds `update_lock` (`lock`), the model it serves
(`loaded`) and the manifest a refresh has read (`fetched`). `task` is the background task of
each job with its program counter, `admitted` a train request past its check, `poll` a status
request that has read `active.json`. A call of the store returns, fails without effect, or
takes effect without answering. A read followed by a write conditional on its ETag is one
step, since the write only takes effect while the object is unchanged; a plain write, and a
read acted upon later, are steps of their own.

| Action | Code |
|---|---|
| `AdmitTrain`, `CreateJob` | `api.train_model`, `ModelRegistry.create_job` |
| `CancelJob` | `api.cancel_model_job`, `ModelRegistry.cancel_job` |
| `PollActive`, `PollRecord` | `get_job`: a running job whose model is active is completed by whoever asks |
| `Work`: `StartTraining`, `AcquireLease`, `BuildAndRenew`, `BeginPublication`, `WriteActive`, `Serve`, `Release` | `train_from_r2` under `update_lock` and the lease |
| `Work`: `RecordCompleted`, `Reconcile`, `RecordFailed` | the end of the background task and its exception handler |
| `RefreshRead`, `RefreshLoad` | `refresh`, called by the loop of `main.py` |
| `LeaseExpires` | time passes while the builder of the lease stalls |
| `Crash`, `Restart` | the process ends, and the container is started again |

`published`, `begun` and `overtaken` are history variables; `faults`, `crashes` and `stalls`
count what the bound `MaxTrouble` allows. A lease carries a `stamp` because a renewal changes
its ETag, which decides whether a stalled builder can still release it.

### ModelUsage

`saved` is the object `usage/<model>.json` of each model; per replica `pending`, the flush and
the catalogue request under way, its clock and its `life`. `RecordUse` is `record_use`;
`StartFlush` and `FlushStep` (`ReadUsage`, `WriteUsage`, `PopUsage`) are `flush`, model by
model with three tries of compare-and-swap; `AskCatalog`, `ReadCatalog` and `FailCatalog`
are the catalogue, which copies what is pending and then reads the objects one by one;
`Stop`, `Exit`, `Kill` and `Restart` are the life of the process, whose shutdown flush is
skipped when another flush holds `flush_lock`. `used` and `skipped` are history variables.

### AutoDeploy

GitHub (`tip`, `checks`, `ciRun`), the host (`running`, `checkout`, `schema`, `stored`,
`default`), the file `state.json` (`disk`) and the running process (`p`). A revision is a
number and names its image, its configuration and its schema.

| Action | Code |
|---|---|
| `Start` | a run of the timer or `--retry-failed`, `recover_interrupted` first |
| `Step`: `Check`, `Preflight`, `TakeSnapshot`, `UpdateCheckout`, `PullImages`, `Prepare`, `Recheck` | `deploy`, up to the point where the running release changes |
| `Step`: `Activate`, `Verify`, `TagDefault`, `Commit`, `CleanAfter` | activation, verification, the state that records it, cleanup of images |
| `Step`: `Rollback`, `VerifyBack`, `TagBack`, `Quarantine` | `rollback` and `failed_sha` with the failed CI run |
| `CleanupOnly` | `--cleanup-only` |
| `Kill` | the process ends between any two steps |
| `Push`, `StartChecks`, `FinishChecks` | GitHub: external |

A step that calls git, docker or HTTP may raise, with or without its effect. Fields assigned
together with their save are one step where a kill or a raise in between does what one before
or after the step does. The phase of the checkpoint is the exception: it is in memory before
`save()` writes it, so that `Recheck` may raise into a rollback while `state.json` still says
pull. `trail` is a history variable: `"lost"` once such a rollback was itself cut short
(`CutShort`), until the next successful release.

### IncrementalSimilarity

The same batches of ratings reach three implementations, each with its own copy in `model`:
`"itemwise"` (`IncrementalItemBasedCF`, rating by rating), `"batch"` (one Gram contribution
of the affected users) and `"partial"` (batch with a partial selection of neighbours). `Fit`,
`Gram`, `Similarity`, `Nearest` and `PartialNearest` are the code's functions as operators,
`Take` and `Taken` the itemwise loop over a batch, `Rate`, `Revises`, `Counts` and
`Contribution` what the batch form makes of its rows;
the arithmetic is exact and a cosine is kept as its square, a fraction. `torn` records that
the itemwise form raised in the middle of a batch: it applies the rows before the invalid one,
the other two check all rows first.

### The proof modules and the MC modules

`ModerationMessagingProofs`, `NotificationDeliveryProofs`, `BillingProofs`,
`PlanSharingProofs`, `VideoRetentionProofs`, `ModelPublicationProofs` and
`AutoDeployProofs` hold the theorems of the modules they extend; `RecommenderProofs` extends
`ModelUsage` and `IncrementalSimilarity`, whose names are therefore distinct. There is one MC module per
specification, which adds the model values and, where it is sound, the symmetry.

## 4. Runs

| Run | Instance | What it shows |
|---|---|---|
| `fanout` | 1 decision, 3 subscribers, pages of 2, 2 publishers, 2 consumers, 1 retry, 2 faults, 2 changes | `NoLostEvent`, `StagedRowsAreNew`, `NobodySkipped`, `DeadOnlyAfterRetries` (an unreadable message: at once), refinement of `DecisionNotices`, and `EveryDecisionSettled`: fanned out or dead-lettered |
| `delivery` | 2 rows, 2 tokens (one unregistered), 2 workers, 1 fault, 1 change | `ResendsExplained`, `CompletedWasSent`, and every row is completed |
| `billing_safety` | 2 payments of 1 offer, 1 key, 2 transfers, 2 handlers, 2 requests, 1 worker, 1 fault | `PlanActivatedOnce`, `OnePaymentPerPurchase`, `SharedMemberOwesNothing`, `AcknowledgedIsSettled`, refinement of `PlanPurchases` |
| `billing_overwrite` | 1 payment | violation of `ActivatedStaysPaid`: the worker cancels what the webhook has just paid |
| `sharing_safety` | 3 users, 2 plans, 2 invitations, 2 requests, 2 workers, 2 faults | `CapacityKept`, `OneShareAtATime`, `NoPlanBesideShared`, `OneOwnPlan` |
| `sharing_liveness` | 2 users, 2 plans, 1 invitation, 1 request, 2 workers, 1 fault, 1 refused transaction | `EndedPlansExpire` |
| `sharing_stranded` | 2 users, 2 plans, 2 invitations | violation of `NoOneStranded`: members of a plan whose owner moved on are never served |
| `retention` | 1 video, 3 requests, 2 at a time, 2 purge services, 1 failed or dead pass | `AppealedMediaKept`, refinement of `MediaLifecycle`, and every purge begun is finished |
| `publication` | 2 replicas, 2 jobs, one trouble: a failed call, a lost answer, a crash or an expired lease | `CancelledNeverPublished`, refinement of `TrainingRegistry`, `ActiveIsNewest`, `PublishedIsReported`; every job settles, the replicas converge |
| `usage` | 2 replicas, 1 model, clocks up to 2, 1 fault | `UsesKept`, `ShutdownSaves` (for shutdowns whose flush was not skipped), and every use of a process that runs on is saved in the end |
| `deploy` | 2 revisions pushed, 2 raises or kills, 1 re-run, 1 manual retry | `RecoveryImagesKept`, `ConfigFitsImages`, `RecordedReleaseRuns`, `NeverLeftBroken`, `ActivatedOnce`, and `SettlesOnTip` |
| `similarity` | 2 users, 3 items, ratings 0 and 1, batches of up to 2 rows, 1 neighbour | `StatsFitRatings`, `AgreesWithRefit` (similarities and means), `VariantsAgree` (the ratings of all three, the neighbours of the two batch forms) |

The largest run has 962 499 distinct states (`deploy`), the smallest passing one 19 212
(`similarity`).

Bounds. Three subscribers and pages of two give a full page, a partial one and a
subscription made in between; two publishers and two consumers are what the locks must
keep apart; with one retry allowed, two faults reach the dead-letter queue, or one of them is
a crash or a lost confirm on the way. Two delivery rows are needed for two workers to
meet at one device. Two payments and two transfers give a repeated webhook, two transfers
for one payment and a transfer for the older of two codes. Three users, two plans and two
invitations give two competitors for the last place (`MaxMembers` is 2) and one user with
two invitations. Three requests on one video, two of them at once, are a rejection, an appeal
and its decision, or a removal, a restoration and one more that gets in its way; two purge
services meet between the two transactions of a purge, and one may die half-way. Two replicas
and two jobs give an overtaken builder, a job reported by the other replica and a replica that
serves an old model; two revisions give a tip that moves during every step and a rollback to a
release whose images the cleanup must have kept. Two replicas and one model are enough for
the usage statistics since a flush treats the models one after another and independently.
Three items and one neighbour give ties at the cut, two users an item that one rates and the
other does not; ratings 0 and 1 reach removal, revision and repetition.
`MaxFaults`, `MaxChurn`, `MaxRequests`, `MaxLostSaves`, `MaxTrouble`, `MaxReruns`,
`MaxRetries`, `MaxRev` and `MaxTime` bound only what the environment does, never what the
system must do, so the liveness properties lose nothing that matters: after the last fault
the system is on its own. Symmetry is used in safety runs only.

All runs switch TLC's deadlock check off, because each system may come to rest: all events
told and nobody changes a setting, all payments settled, no training asked for.

Fairness. Worker loops are weakly fair: each catches every exception, waits and polls
again (`ExecuteAsync` of the workers), which justifies that a step that stays possible is
taken. In `PlanSharing` and `VideoRetention` a request under way ends, and the broker
expires retry copies by TTL. In the recommendation service the threads of jobs and flushes
run on, a request that was admitted is answered, the refresh loop catches its exceptions and
repeats, an ended process is started again by its container, and a lease that nobody renews
expires. In `AutoDeploy` the timer fires again (`Start(FALSE)`) and a run takes its next step;
all its calls have timeouts. No user, bank, administrator, developer or fault is obliged to do
anything. `FOR UPDATE SKIP LOCKED` with the oldest row first is what keeps a delivery row
from being passed over for ever; TLC finds it completed under fairness of the loops alone
because a row leaves the set for good when it is done. The purge service alone is strongly
fair: it waits for the advisory lock `purge:<video>`, which PostgreSQL grants to waiters in
turn, so requests that take the lock again and again cannot keep it out.

What the violations mean is recorded under "findings" in `PROJECT.json`, each with the
sentence of the documents it contradicts.

## 5. Proofs

Each proof module starts from the named assumptions of the module it extends (finite sets,
distinct names, naturals as bounds) and holds for any number of processes, rows, models,
revisions and faults. Its invariants were checked by TLC on the instances of the runs before
they were proved. `TypeOK` is seldom inductive by itself, and what is added is said below.

**`ModerationMessagingProofs`.** `TypeCorrect`: that a retry count never exceeds its bound
needs that a message in `"retrying"` had retries left, and that something held is a real
message needs the phase; `TypeInv` adds the two. `StagedRowsCorrect`: no two consumers are in
a batch of the same event, so only the committing consumer changes its `rows`. `NoEventLost`
follows a copy through its life: a publisher that is confirmed, or a row that is published,
has a live copy or a completed fan-out; a consumer that finished has a completed inbox row;
one that acknowledges after copying has its copy in the retry queue or further on.
`DeadLettersExplained`: every copy of a message that is queued or held belongs to a decided
event that has failed at least as often as the copy has been retried, and a message that cannot
be read never was (`CopiesExplained`).
`NobodyIsSkipped` and the refinement `PipelineImplementsNotices` rest on `NoticeInv`: whom
the cursor has passed has a row (`Covered`), who is entitled to a notice of an event under way
would be found by its next batch (`StillQualify`), nobody who subscribed after the decision
is found (`AudienceFound`, by the dates in `Dated`), and what an open batch has read is still
right when it commits (`BatchStands`), because the inbox row is locked and entitlements only
end. `FirstPage` says what a keyset page is: with a subscription it contains every smaller one,
and a page that is not full is the last. It needs the least, and the new cursor the greatest
element of a finite set of naturals (`FiniteMinimum`, `FiniteMaximum`).

**`NotificationDeliveryProofs`.** `DeliveryInv` adds to the types that a row has one worker
(`OneHolder`), that a worker is done with a channel before the next (`InTurn`), and how many
sends each row's failures explain (`SendsExplained`, `HandledForAReason`, `CompletedIsDone`).
It gives `TypeCorrect`, `ResendsHaveReasons` and `CompletedHonest`.

**`BillingProofs`.** `BillingInv` = `TypeOK` and `WrittenExist` and `Settled`, where `Settled`
relates payments, transfers, plans and handlers: a payment that does not exist is blank, a paid
one was quoted by its transfer, a handler past its check still finds what it checked because
it holds the membership lock (`CheckoutStands`, `SharingStands`), and the run's invariants.
Steps that leave what `Settled` reads alone are classified first (`Quiet`,
`AcksSettled`); each action that changes it has a lemma. The expiration worker may overwrite a
status at any time, so that none of this rests on a payment staying paid.
`BillingImplementsPurchases`: each transaction that matters to the user is one step of
`PlanPurchases`, and the rest are stutters (`Unnoticed`). A commit finds its payment existing,
not yet activated and its transfer unused because `Settled` holds and because what a transfer
paid for was activated (`PaidIsActivated`).

**`PlanSharingProofs`.** `SharingInv` has three parts. `TypeInv` adds to the types which
invitation and plan each request is about (`InvitationsFilled`, `ActiveHeld`, `Roles`).
`RowsInv` is capacity and what makes it inductive, `PlacesStand`: the place a request has found
under the plan's lock is still free when it inserts its row, and no other request inserts for
that plan. `ShareInv` is that one shares at most one running plan (`SharesOne`), because who
accepts under his own lock shares nothing until that request ends (`AcceptanceStands`). Most
steps only end memberships or change none (`OnlyEnds`, `NoNewShares`, `QuietStep`), and the
three that add a row have lemmas of their own. `PlansInv`, for MaxLostSaves = 0, adds that the
worker's DbContext carries nothing over and that one's own plans exclude each other and a
shared one: a refused transaction would leave a default plan that a later save writes beside
what was bought or shared meanwhile. It gives `TypeCorrect`, `CapacityHolds`,
`NeverTwoShares`, `NoneBesideShared` and `NeverTwoPlans`.

**`VideoRetentionProofs`.** `RetentionInv` adds to the types what each request may be in the
middle of (`Roles`, `RestoresSomething`), that there are at least as many cases as reviews
under way (`CasesSuffice`), that one request or pass holds the purge lock (`OneHolder`), that
objects are erased of marked videos only (`PurgesMarked`), `MarkOrAppeal`: no mark while an
appeal is open, `ChecksStand`: what is checked under the lock holds until the commit, and
`PeriodStands`: a period that is over when a purge checks it stays over, since whoever read that
there is none is done by then (thirty days outlast a request). Merging a request's changed
columns into a newer row (`Saved`) preserves it: `Writable` says what any request wants to
write, `Written` what becomes of the row. It gives `TypeCorrect`, `AppealKeepsMedia`,
`WatchableIsThere`, `PeriodHonoured` and the refinement `RetentionImplementsLifecycle`, in which
beginning a request is a stutter, and a commit, a mark, a deletion and its record are a step
each.

**`ModelPublicationProofs`.** `TypeInv` adds the order in which a job's steps are possible.
`PubInv`: a job is claimed (status publishing) before its manifest is written, what is
published was claimed, what is reported was published. It gives `CancelWins`,
`CompletedHonest` and `ServedHonest`; `StraightToRecord` gives `PublicationReported` and
`ResultsStay`. `LeaseInv`, for histories without an expired lease, says that a builder owns
the lease, which gives `OneBuilderAtATime`; `LeaseOrder`, with expired leases, orders the
builds by the lease and gives `NewestIsActive`. `RegistryImplemented`, the refinement of
`TrainingRegistry`, splits the steps into requests, the work of a job and what replicas do.
A publication is allowed there because the record was claimed and `active.json` not yet written
(`PubInv`), a report of failure while all calls were answered because the job then was not
published (`StraightToRecord`), and a result is final for the same reason (`FinalRecords`).

**`RecommenderProofs`, usage statistics.** `Safe`: what a flush is about to remove from memory is saved, a living
process has each use pending or saved, and a stopping one has its last flush before it. It
gives `NoUseLost`, `SavedTimesGrow`, `CatalogNeverBehind` and `CleanShutdownSaves`.

**`RecommenderProofs`, item models.** `SimilarityInv` says of each form what it is at any time:
the itemwise statistics fit the itemwise ratings and only observed cells are rated, also in the
middle of a batch that raised (`ItemwiseSound`); the batch form is what a fit of its ratings
would give, diagonal included (`BatchSound`); without an error the itemwise form is that too,
with the same ratings (`ItemwiseAgrees`); and the partial form equals the batch form. The
theorems hold for any finite sets of users and items, ratings of any size and batches of any
length. The argument:

* Sums. `Total` is a fold over the users. `FoldExists` constructs such a fold as a function on
  the subsets and `TotalFolds` says that `Total` is one; with it `TotalAdd` (term by term),
  `TotalSpike` and `TotalStep` (one term changed). `GramStep` is what changing one rating does
  to the pair statistics, `GramReplace` that subtracting the contributions of some users
  and adding the new ones gives the statistics of the new ratings.
* Batches. A fold over a batch passes through a state per row (`BatchFold`, `FoldTrace`), so
  the itemwise loop has a loop invariant (`Loop`: statistics fit, what is not marked as touched
  has a current row and a current mean), kept by `LoopStep`. `ItemwiseResult` and `BatchResult`
  say what each update promises.
* Selection. Comparing fractions by cross multiplication is a linear order (`FractionOrder`),
  with the item number against ties it is total (`BeforeOrder`). A partition has a cut
  (`CutExists`), and taking what is above the cut and the first of those equal to it is taking
  the first of the sorted candidates (`CutSelects`, `SelectionAgrees`).

Induction over data enters without an induction theorem: where a statement fails for
some finite set it fails for a smallest one (`SmallestSet`, from the well-foundedness of strict
inclusion), and a set of naturals that has 0 and is closed under successor is all of them
(`Climb`). It gives `StatisticsFit`, `SimilaritiesExact` (similarities and means, not
neighbours), `SelectionsAgree` (the two batch forms) and `RatedRefreshed` (the lists of the items
that the updated users rated, and of no others).

**`AutoDeployProofs`.** `DeployInv` adds to the types which fields each step of a run may find
(`PhasesFit`), that the schema is never behind what runs, that a running release is one that
`state.json` or its checkpoint names, that configurations fit, that images needed for recovery
are stored, and how many activations each retry has paid for. Where a rollback was cut short that
`state.json` knew nothing of (`trail`), `RecordRuns` and `CompleteReleaseRuns` claim nothing
until the next successful release. It gives `RecoveryPossible`,
`ConfigurationsFit`, `RecordRuns`, `NoSecondActivation`, `CompleteReleaseRuns` and
`SchemaFirst`.

Some facts are proved without a run: the type invariants, `WatchableHasMedia`,
`PurgedAfterPeriod`, `ServedWasPublished`, `CompletedWasPublished`, `OneBuilder`,
`ResultIsFinal`, `SavedNeverBack`, `CatalogComplete`, `RatedHaveNearest` and
`SchemaNotBehind`.

Only model-checked: the liveness properties (`EveryDecisionSettled`, `EveryRowCompleted`,
`EndedPlansExpire`, `PurgesEnd`, `JobSettles`, `ReplicasConverge`, `UsesSaved`,
`SettlesOnTip`), because ENABLED and fairness are beyond the prover.

## 6. Not modelled

* Storage shares, quotas and the plan catalogue; the administrator's subscription tools
  (hazards without a property are listed as such in `PROJECT.json`, with what would cover
  them).
* What `SubscribeAsync` decides about downgrades before it takes the lock, and invitations
  to the owner's own address: both are in the models as the code does them (`CheckSubscribe`,
  `ReadPlan`), no property is checked about them (`PlanPurchases` lets a free plan replace one
  that was activated after the check).
* In `NotificationDelivery`, the deletion of the notification row between fan-out and send: the
  processor then sets the realtime flag without a send (`NotificationDeliveryProcessor.cs:47-50`).
* In `PlanSharing`, an installation without a default plan: the worker logs an error and leaves
  the history unexpired (`PlanExpirationWorker.cs:127-132`).
* What the worker's DbContext still holds after a refused transaction is in `PlanSharing`
  (`carried`): the next save of the batch writes that user's default plan without his
  membership lock, beside a plan he may have bought meanwhile. `EndedPlansExpire` is checked
  with it, `OneOwnPlan` without.
* In `VideoRetention`, uploads that fail to process and are repeated, the visibility
  "unlisted" (it is `"private"` there), restrictions by age, and scheduled publication.
* In `ModelPublication`, the build itself (one step that succeeds or fails) job records
  older than the publication guard, and that a train request looks only at the task its replica
  has started last (`app/api.py:209`, `Busy` looks at all of them; the two differ from three jobs
  on); in `ModelUsage`, which models the catalogue lists.
* In `IncrementalSimilarity`, the rounding of 32-bit floats, the binary mode, the other
  similarity measures, the scores predicted from a model.
* Liveness of payments: a lapsed payment is cancelled by the next poll, and no run is spent
  on it.
* Wording of notifications and e-mails, templates, formatting of money and dates.
* The amount of money beyond "enough or not"; the choice of a plan among several of one kind.
* PostgreSQL, RabbitMQ, SePay, SMTP, FCM, SignalR, R2, GitHub, git and docker themselves: a
  call is taken, refused, or taken without an answer.
* The parts of section 1 that no module of section 3 names. Front ends and the mobile
  application are views with one user each. Feeds, ranking, training and evaluation are
  numerical functions from files to files; the answer cache of `app/public_feed.py` holds an
  answer for 60 seconds per model version and keeps nothing else.

Most of the repository's Python is of another kind: vendored agent skills
(`src/.agents/skills/`), benchmarks and their plots, chart, report and video renderers
(`src/docs/features/`), end-to-end, load and interface tests. Such a program runs from its
first line to its last, keeps nothing but the file it writes and meets no other process, so
there is nothing about it that a model checker would find and a run of it would not. Counted
in lines the models therefore cover a small share of the Python. What has state
and concurrency there - registry, usage statistics, refresh loop, deployment controller, and
the item models with their three implementations - is modelled; the rest of
what is modelled is in the C# backend.

## 7. What reading the code brought up

Two disagreements between code and documents are shown by violation runs and recorded as
findings: `billing_overwrite` and `sharing_stranded`. The following were met while reading or
modelling, and no run shows them. Those marked (m) are in a model as the code does them.

* Notifications: a delivery transaction that deletes a push device already deleted elsewhere
  is refused as a whole, so that SignalR and e-mail are sent again
  (`NotificationDeliveryProcessor.cs:105`; (m), counted as a reason by `ResendsExplained`).
* Plans: ending a membership whose plan is over expires a plan bought since
  (`PlanService.cs:705`; (m)). The owner's own address is accepted as an invitation
  (`PlanService.cs:440`; (m)). An administrator extends or switches a plan without the
  membership lock and without a look at shared membership (`AdminSubscriptionService.cs`).
* Videos: undoing a hide brings back the status before it, also when the video has been
  rejected or removed since (`AdminContentService.cs:567`; (m)). An approval in review does not clear
  `MediaRetentionUntil`, and a later removal keeps an old deadline (`??=`,
  `ModerationService.cs:272`, `ReportService.cs:754`): the thirty days for an appeal that the
  owner is promised (`ReportService.cs:672`) may be shorter, or over ((m): `PurgedAfterPeriod`
  and `MediaLifecycle` speak of the recorded deadline).
* Strikes: a channel that is locked while a timed suspension runs keeps `SuspendedUntil`, and
  `ChannelSuspensionExpirationWorker` opens it again (`StrikeService.cs:382-395`,
  `ReportService.cs:640-646`), although the worker's comment says that a later ban must win.
  Strikes are counted without a lock (`StrikeService.cs:188`), and two rejections at once
  issue two automatic strikes (`ModerationService.cs:299-305`).
* Cases: separation of duties looks only at the reviewer of the video's case submitted last,
  who need not be the one whose decision is appealed (`AppealService.cs:665-691`); an escalated report case cannot be claimed again
  (`ClaimLeasePolicy.cs:17-20`).
* Item models: only the lists of refreshed items are selected again, although a changed norm or
  similarity also moves the lists of others (`incremental_item_cf.py:175-176`,
  `batch_incremental_item_cf.py:105`; (m)). The benchmark's notes say that "Exact Top-K lists are
  refreshed for every item endpoint whose similarity changed"
  (`src/recommendation-service/training/benchmark_incremental_item_cf.py:744`). Within the
  bounds of the run `similarity`: fit with (u2,0)=1; the batch (u2,1)=1, (u2,2)=1; then (u1,2)=0;
  then (u1,0)=1. The norm of item 0 grows. The batch forms keep item 2's list {0} and the itemwise
  form makes it {1}, because u1 has observed item 2; item 1's list is stale in all three. The
  properties therefore speak of similarities and means. A batch with an invalid row is applied up
  to that row by the itemwise form ((m), `torn`).
* Usage statistics: uses noted during a flush that runs while the process stops are lost, since the
  shutdown flush is skipped ((m), left out by `ShutdownSaves`), although
  `src/docs/operations/MODEL_STATISTICS.md:11` says that a normal shutdown flushes.
* Deployment: the phase `activate` is in memory before `save()` writes it
  (`ec2_autodeploy.py:357-358`). When the save raises, the handler rolls back while `state.json`
  says pull; when that rollback raises or is killed too, the next run drops the checkpoint
  without a restoration (line 334), and what runs is not what `state.json` records, or is no
  complete release, at which every later preflight stops ((m), `trail` in `RecordedReleaseRuns`,
  `NeverLeftBroken` and `SettlesOnTip`). `src/docs/operations/EC2_AUTO_DEPLOY.md:64` says "An
  interrupted activation is rolled back on the next service invocation", :54 "Recover an
  interrupted activation from its saved checkpoint". One stopped container makes every later preflight fail, also for the revision
  that would mend it (`ec2_autodeploy.py:195`); a network failure after the activation
  quarantines a healthy tip, and only one quarantined revision is remembered; the marker file
  is written after the default tags, the documents say before; migrations of a revision run
  before the check that may defer it ((m), `SchemaNotBehind` is what holds all the same).
