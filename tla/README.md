# PlumbTrack / Crewline: TLA+ models

PlumbTrack is a dispatch system for plumbing companies: a Fastify + Prisma API
on Postgres (`apps/api`), a Next.js dispatcher console, "HQ" (`apps/hq`), and
the database schema they share (`packages/database`). This directory holds
models of the parts whose correctness depends on the order in which several
actors do things, TLC configurations that check them on small instances, and
TLAPS proofs of the most important results for every size of instance.

    tlc -workers 2 -config MCDeliveryQueue.cfg MCDeliveryQueue   # a run
    tlapm DeliveryQueueProofs.tla                                # a proof module

`PROJECT.json` lists, in machine-readable form, the components, the runs, for
every property a plausible bug that breaks it (the operators commented "Mutant
of ..." in the modules), the source lines of every definition, the findings,
the hazards and the theorems.

## 1. Inventory of the system

### The API (`apps/api/src`)

| Component | State | Operations | What is hard |
|---|---|---|---|
| Integration delivery queue: `lib/integrationWorker.ts`, `integrations/DeliveryRouter.ts`, `routes/integrations.ts` | `IntegrationDelivery`, `IntegrationDeliveryAttempt`, two columns of `Notification` | enqueue (with a fire-and-forget first attempt), interval loop, claim under a lease, post, finish, manual retry, stop | several instances and a background call on one row; leases that expire under a working holder; three separate writes per attempt |
| Domain event outbox: `lib/domainEventWorker.ts` | `DomainEventOutbox` | write in a request's transaction, recover, claim a batch, route, finish | one lease for a batch routed one by one |
| Event pipeline: `integrations/slack/SlackAdapter.ts`, `index.ts`, `routes/notifications.ts`, `POST /jobs` | both tables | commit with or without an event, adapter enqueues a row | two queues in a row; no transaction spans them |
| Assignment, appointments: `routes/jobs.ts` 172-251, `routes/residential.ts` | `Job`, `Appointment`; an advisory lock per technician | place a job, create, edit, delete | reads before the transaction, writes beside the lock |
| Job lifecycle, field records, payments: `routes/jobs.ts` 300-712, `routes/slackEvents.ts`, `routes/paymentWebhook.ts`, `lib/payments.ts` | status, marks, checklist items, time entries, payment columns | complete, reopen, tick, clock in, pay | read-then-write handlers, retried operations, verdicts out of order |
| Job intake, checklists: `POST /jobs`, `lib/checklists.ts` | jobs, templates, checklists | create, seed the templates, instantiate, announce | five statements after the transaction, forms posted side by side |
| Team, sessions, accounts: `routes/invites.ts`, `routes/accounts.ts`, `routes/auth.ts`, `lib/sessions.ts`, `lib/tenant.ts` | `Membership`, `Invite`, `Session` | change role, remove, invite, accept, sign in, renew | an owner must remain; decisions on earlier reads |
| Slack job threads: `lib/slackJobThreads.ts`, `routes/slack.ts`, `routes/slackEvents.ts` | `SlackWorkspace`, `SlackJobThread`, routes | open on first use, mirror both ways, connect, disconnect | check-then-create around a remote call |
| Connections: `routes/connections.ts`, `integrations/verify.ts` | `IntegrationConnection`, consent states | consent round trip, pasted key, disconnect | a callback that runs twice, an exchange that fails half way |
| Documents, RFIs, quotes, routes of the day: `routes/documents.ts`, `quotes.ts`, `routes.ts` | their tables | version, link, delete, number lines, version a route | read, compute, write |
| Media, SMS: `routes/media.ts`, `routes/sms.ts` | assets, photos, texts, keyed by `opId` | intent, upload, complete; send, record | retries beside the first request; effects outside the database |
| Mobile sync: `routes/sync.ts` | none; the client's cursor | pull | commit-time stamps as a cursor |
| Setup: `routes/setup.ts` | one `OrgSetup` row | save, skip, launch | read, merge, write back |
| Live feed: `routes/stream.ts`, `lib/liveBus.ts`, `routes/fleet.ts` | listeners in memory | subscribe, publish, heartbeat | closing while the session is read; lost frames |
| Routing proxy: `routes/routing.ts` | four LRU caches in memory, audit rows | ask for shapes, matrices, snaps, isochrones, addresses | the provider is awaited between miss and store; every answer is billed |
| Board payload, attention flags: `routes/board.ts`, `lib/needsAttention.ts` | none | read | dates over midnight, names that are not unique |
| Authentication primitives: password, token, PKCE and signature helpers | none | | cryptography, not modelled |

### The console (`apps/hq/src`)

| Component | State | Operations | What is hard |
|---|---|---|---|
| Board store, offline queue: `stores/boardStore.ts`, `features/board/*`, `lib/offline.ts` | zustand store, one snapshot, query cache, IndexedDB queue | move, roll back, save offline, drain, poll | optimistic state against late polls, drains side by side |
| Shell: `features/shell/AppShell.tsx`, `useBoardLifecycle.ts`, `lib/api.ts` | session copy, mode, module | gate, first run, poll, renew | answers that land after the operator went on |
| Desk: `features/crewline/DispatchSurface.tsx`, `failedOps.ts`, `NewJobForm.tsx`, `Inspector.tsx` | ledger of failed moves, form | drag, retry, discard, submit | retries beside newer failures, lost answers |
| Job pane: `features/right/JobMessageThread.tsx`, `NotifyEtaControl` | shown thread, text | poll, post, announce | not keyed by the job |
| Team screen: `features/team/TeamRoster.tsx` | cached team, devices | edit skills and roles, remove, revoke | a whole list written back from a cache |
| Invites: `setup/steps/InviteStep.tsx`, `TeamRoster.tsx`, `app/invite/[token]/page.tsx` | last answer, pending list, the state of a page | send, revoke, open, accept | a link that several people and pages use while it is revoked or expires |
| Slack screen: `features/slack/SlackSurface.tsx` | workspace, channels, history, routes | pick, route, disconnect | effects called off by later choices |
| Setup wizard: `features/setup/*` | answers of a tab | type, save, launch | two tabs, one row |
| Map: `features/map/MapLibreView.tsx`, `lib/roadShape.ts`, `lib/basemapLadder.ts`, `MapSurface.tsx` | lines, trails, style, camera, shells | chains, pings, themes, selections | a debounce, a retry and a backstop timer beside late answers |
| Crew board: `lib/adapter.ts`, `CrewTree.tsx`, `MapSurface.tsx` | rows, pins, flags | poll, frames | payload and frames tell the same story by different keys |
| Planning: `lib/optimize.ts`, `lib/crewline.ts` | none (pure) | fill vans, order stops | rounding, the end of the day, capped passes |

Components call each other through the API's endpoints and through tables: the
console's screens share the query cache and the board store; handlers and
workers share rows; the Slack thread bridge is fed by the two queues; the live
bus is fed by handlers after their commits and read by the streams of the same
process; Slack, Stripe, the routing provider, the SMS gateway and the file
store are called in between statements, never in a transaction, with one
exception (the address edit of `routes/jobs.ts:309-314`).

What makes them correct: a queue never loses, and repeats only after faults; a
technician is in one place; what was acknowledged to the field stays; an
organization keeps an owner, and what was revoked stays revoked; a retried
request is harmless; what a screen shows belongs to what is selected and to
what the API holds; a cache never answers another question.

## 2. Plan and where it stands

| Modules | Status |
|---|---|
| `DeliveryQueue`, `DeliveryPromise`, `DeliveryQueueProofs` | done, proved |
| `OutboxWorker`, `OutboxWorkerProofs` | done, proved |
| `EventPipeline`, `EventPipelineProofs` (composition, refinement) | done, proved |
| `Assignment`, `OfficeProofs` | done, proved |
| `BoardSync`, `ScreenProofs` | done, safety proved |
| `JobRecord`, `Paperwork`, `MobileSync`, `JobRecordProofs` | done, safety proved |
| `Team`, `Connections`, `Captures`, `ServiceProofs` (run `team_owner` and part of `services`) | done, safety proved |
| `JobThread`, `LiveFeed`, `OfficeProofs` (parts of `services` and `live_map`) | done, safety proved |
| `JobIntake`, `Setup`, `Shell`, `JobPane`, `SlackPane`, `ConsoleProofs` (parts of `console`) | done, safety proved |
| `RoutingProxy`, `RouteOrder`, `RouteOptimizer` (parts of `services`) | done, model-checked |
| `InviteScreens`, `Roster` (composition), `ScreenProofs` (part of `console`) | done, safety proved |
| `RoadLines`, `MapStage` (composition), `CrewBoard`, `ScreenProofs` (parts of `live_map`) | done, safety proved |
| `DispatchDesk` (part of `console`) | done, model-checked |

A proof module may cover several components, which share nothing: each has its own
`...Init`, `...Next`, `...Spec` and `...Inv`, so that they can stand side by side.
What is model-checked only rests on sequences that are filtered, truncated or summed up by
recursion, which is induction over data (section 6).

## 3. Modules

All modules follow the same rules. One database statement, or one stretch of
JavaScript between two `await`s, is one step. Time is seen only through what
the guards compare with it: a timestamp is "due or not" or "null, future or
past". A lease's UUID is the actor that drew it. History variables (`accepted`,
`taken`, `placedBy`, `answer`, `writer`, `faults`, ...) are read by properties
and bounds, never by the guards of the code's steps.

### DeliveryPromise
What a queue promises its producers: created, open, settled as delivered
(only if posted, and for good) or dead-lettered (may be reopened by hand).
It also permits what no queue here can exclude: a message posted again after
its row was settled, as the provider has no idempotency key.

### DeliveryQueue
`lib/integrationWorker.ts`. A *runner* is an invocation of
`processIntegrationDelivery`: a `Worker` (the interval loop of an API
instance) or a `Caller` (the background call of `enqueueIntegrationDelivery`).

| Code | Model |
|---|---|
| `enqueueIntegrationDelivery` | `Enqueue`, starts a `Caller` |
| `runOnce` | `Poll` (at most `BatchSize` oldest claimable rows), `NextRow` |
| `claimDelivery` | `Claim` or `ClaimLost` (conditional `updateMany`), `Reread` (the count, in a statement of its own) |
| the router and Slack | `RouteDelivered`, `RouteRefused`, `RouteAnswerLost` (a throw, after or before the provider has the message) |
| `finishDelivery` | `Finish` (row, by lease), `RecordAttempt`, `UpdateNotification`; `FinishStale` when the lease is gone |
| `POST /deliveries/:id/retry` | `Retry` (the count is kept) |
| crash, throw out of the loop | `Interrupt`; an overrun lease `LeaseOverrun`, an abandoned one `AbandonedLeaseExpires` |
| `stop` | `Stop` (the tick in hand completes) |

### OutboxWorker
`lib/domainEventWorker.ts`: `Emit` (in the producer's transaction), `Recover`,
`ClaimBatch` (one statement, so claims of two workers are apart), `NextEvent`,
`RouteTaken`, `RouteRefused`, `Finish` (by lease), `Interrupt`, `LeaseOverrun`, `Stop`.

### EventPipeline
Instances of the two modules on disjoint tables, joined by `AdapterEnqueues`:
the outbox worker's routing step of `SlackAdapter.deliver` is the delivery
queue's `Enqueue`, while the completion of the event is a later step of its
own. `CommitWithEvent` (notifications) writes record and event in one
transaction; `CommitJob` / `AnnounceJob` / `AnnounceLost` (`POST /jobs`) in
two statements, the second of them best effort.

### Assignment
`PATCH /jobs/:id/assignment` as `Read` (everything before the transaction,
the computed window included), `Lock` (`pg_advisory_xact_lock`), `CheckPasses`
or `CheckFails` (the conflict query), `Write` (update, commit and release) and
`Rollback`, beside `CreateJob`, `DeleteJob` (cascading), `AddAppointment` and
`EditAppointment` (no lock). Half-hour blocks from midnight; `DayStart` and
`BoardLength` stand for the constants of `schemas/assignment.ts`.

### BoardSync
One console and its server.

| Code | Model |
|---|---|
| `performAssignment` up to its first `await` | `PerformAssignment` (check, snapshot, optimistic change; sent or about to be saved) |
| answer, refusal, no answer | `MoveSucceeds`, `MoveRollsBack` |
| `enqueueSync` after its read | `EnqueueAdd`: deletions of the entries read before and the new entry |
| `drainSyncQueue` | `Start` (the one `getAll`), `DrainRead`, `DrainServed`, `DrainAnswered` (sent and permanently refused entries both leave), `DrainBreaks` |
| `registerSyncDrain` | `GoOnline` (online event), `SyncEvent` (service worker), `MountDrain` (page load) |
| `useBoardLifecycle` and the query cache | `PollRead` (server side), `PollArrives` (fills the store only if the payload changed: `Refreshed`), `PollLost`, `PollFails` (the effect runs again with the retained data) |
| reload or reopened tab | `Reload`: everything but IndexedDB is lost |
| the endpoint | `ServerAccepts`, `ServerRefuses`; `LateAccepted`, `LateDropped` for requests whose caller has given up |

A saved entry is named by its move; a queue of entries is the set of moves in
it, as entries are sent in the order of `queuedAt`, which is the order of the
moves. IndexedDB serves requests in the order they were made, so a request's
effect is placed where it is made.

### JobRecord
One job's record and those who write it.

| Code | Model |
|---|---|
| the field agent's offline queue | `Queue`, `Send` (the oldest request, again until acknowledged), `Timeout` (it gives up, the handler goes on) |
| `POST /:id/events` | `ReadMarks` (with the comparison, `Wins`), `WriteMark` |
| `PATCH /:id/checklist-items/:itemId` | `ReadItem` (with `NewTime`), `WriteItem` |
| `POST /:id/time-entries` | `LookUpEntry` (by `opId`), `CreateEntry` (its unique key) |
| `PATCH /:id` with a status | `ReadStatus` (`Emits`), `LockRow` (the update inside the transaction), `CommitStatus` (the event's row, or rollback on its key) |
| Slack's accept button and `/dispatch-status` | `Slack` |
| `POST /:id/payment-link`, `createCheckoutSession` | `AskForLink`, `CreateSession`, `WriteLink` |
| the Stripe webhook | `Webhook` (`StatusOf`, `Matches`) on the events Stripe has sent (`StripeDecides`), in any order, any number of times |
| a handler that dies or whose statement fails | `Crash` |

A request is its number in the order of requests, which stands for the time it
reports and for its `opId`: the agent stamps a request when it is made.
`quiet` and `reopened` are history. The field agent, Slack and Stripe are not in
the repository; they are modelled from what the comments at
`routes/jobs.ts:395`, `443`, `509` and `622` and the webhook expect of them.

### Team
A handler reads, waits for the owners' lock where the code does, checks again
and writes: role changes (`AskRole`, `Lock`, `CheckRole`, `WriteRole`),
removals (`AskRemoval`, ..., `WriteRemoval`; no lock for somebody read as a
non-owner), sign-in (`AskLogin`, `OpenSession`, with a password check in
between), renewal, sign-outs, invites (`CreateInvite`, `RevokeInvite`,
`ExpireInvite`) and their acceptance (`AskAccept`, `Accept`). `MayChange` and
`MayRemove` are the hook and the route's guards. `overtaken` are sign-ins that
a change of the team has passed by, `unguarded` is set by a removal that took
no lock and found an owner.

### JobThread
A message of the field or of dispatch is written with its event (`CommitPost`),
claimed, and brought to the job's thread: `LoadWorkspace`, `FindThread`,
`PostParent`, `RecordThread` (or `RereadThread` after a lost race), `PostReply`;
Slack may refuse or its answer may be lost (`SlackFails`). A failure that may be
retried puts the message back until its attempts (`ThreadAttempts`, the code's
`MAX_ATTEMPTS`) are used up, and then gives it up (`AfterRetryable`). A reply typed in
Slack comes back in three steps (`Receive`, `MatchThread`, `StoreReply`). The
office connects, disconnects, consents and routes. How a delivery is held
is reduced to what `DeliveryQueue` promises.

### Connections
`GET /oauth/callback` statement by statement (`FindAuthorization`, `Consume`,
`Exchange` or `ExchangeFails`, `MarkFailed`, `StoreCredential`) beside consent
(`StartConsent`, `AnswerConsent`, `ExpireConsent`), pasted keys (`VerifyKey`), keys
withdrawn at the provider, `DisconnectProvider` and `RegisterInterest`. A request may
stop between any two statements (`LinkCrash`).

### Setup
The wizard of two tabs (`OpenWizard`, `TypeAnswer`, `AskSave`, `AskLaunch`,
`ReceiveSave`, `ReceiveLaunch`, `LeaveWizard`) and the endpoint's
read-merge-write (`ReadForSave`, `WriteSave`, `ReadForLaunch`, `WriteLaunch`),
with lost saves. The endpoint also takes drafts, which no screen sends and another
client may; a row's `drafted` is history: the completed steps whose answers a draft
has replaced.

### Paperwork
Four kinds of office records, each by the statements of its handler: a document
created with its first version, or with a history that the client sends along
(`CreateDocument`), its versions (`ReadVersions`, `AppendVersion`), its deletion and the unlinking
of its RFIs, RFIs (`CheckAttachment`, `RaiseRfi`, `ReviseRfi`), quote lines
(`ReadLastLine`, `CreateLine`), and the route of the day, which
`GET /routes/today` versions as it reads it (`LoadStops`, `ReadLatest`,
`CreateVersion`, `AuditVersion`). A request may stop at any point
(`ClerkCrash`), and the open jobs of the day change beside it (`Replan`).

### Captures
A photo and a text, each retried under one `opId`: `FindIntent`,
`CreateIntent`, `PutFile`, `FindAsset`, `MarkUploaded`, `RecordPhoto`,
`AnswerReplay`; `FindPrior`, `SendSms`, `RecordSms`. `CaptureCrash` stops a request; the
phone's file and the intent's expiry go their own way (`PutFile`, `ExpireIntent`).

### MobileSync
The pull of a field device (`Pull`, `ReceivePull`, `LoseAnswer`) beside writers
whose transactions stamp a row when it is written and show it when they commit
(`WriteJob`, `CommitJob`), children that change without their job's stamp (`ChangeChild`) and
deletions (`DeleteJob`). `Pages` is the query with its order and cap, `Timestamp` the next
cursor.

### RoutingProxy
Nine endpoints, of which those with a cache look (`GetShape`, ...), pay
(`Answer`, `ProviderFails`) and store (`CacheSet`). `CacheGet` moves an entry
to the end, which makes the cache one of the keys used last. `EditAddress`,
`CommitAddress` and `TransactionExpires` are the address edit of a job. A point
is its rounded cell; the entries' number is the constant `CacheCap`.

### LiveFeed
The stream endpoint (`Connect`, `RefuseSocket`, `Subscribe`, `Heartbeat` with
its check of the session, `CutSocket`), a van's reports (`SendFix`, `LogOff`,
which may be lost or overtake each other until they are published), a
status with its frame, and the console's poll and hydration.

### RoadLines, MapStage
`RoadLines`: `ChangeBoard` arms the debounce if the chains, in the order of the crew,
are others than before (`Rearm`), `FireDebounce` asks a batch for
the chains without a label, `ShapeLands`, `ShapeMissing` and `RetryShape` are
its answers, and the whole batch replaces the map's labels when all of it is
there. Batches are numbered by the firing that asked for them (`batches`), and of those
that are complete the latest lands last (`Latest`).
`ChangeTrail`, `AskSnap`, `SnapLands` are the trail of the selected van.
`MapStage`: the ladder of styles (`StyleLoads`, `TimeOut`, `FatalError`,
`ChangeTheme`, `RetryMap`), the three framing effects of the camera, and
the reach shells. `MapSpec` is the stage with the lines on it.

### CrewBoard
`PollBoard` reads the payload with the attention flags (`NeedsAttention`), turns it
into rows of blocks (the adapter's rounding and its match by the technician's name) and leaves
what the live frames have put there. `ClockOn` and `ClockOff` count a job's open and ended time
entries, of which the flags read the first and the last; `SetStatus` and `Reopen` move it. A device reports
as whichever van it was set up with (`Ping`), which need not be its technician's
place on the roster, above all once somebody has left (`LeaveCompany`); its `LogOffVan` may be missed. A visit may start before
the board day, on which the first block stands for everything earlier, and may end before it starts: nothing
in `routes/residential.ts` forbids either, and `RowsFit` says what is left of the order and of the gaps then.

### DispatchDesk, JobPane, Shell, Roster, SlackPane
The console's screens, with one action for each press, each call's service at
the API and each landing of an answer, so that answers are late, lost or out
of order beside later presses. `DispatchDesk`: a drag, the inspector, the
ledger of failed moves, the new-job form. `JobPane`: the thread and the arrival
text of the selected job; the effects' cleanups are `Alive`, what survives a change of the
selection is not. `Shell`: gate, renewal, first run and modes of the poll.
`Roster`: skills, roles and devices through the query cache; `Remount` is a new
visit, which leaves a mutation of the former one under way (`Slot`); `TeamSpec` has the invites beside it. `SlackPane`: effects with
their cleanups (`StillHeard`), reads of the workspace that nothing calls off (`ServeLoad`,
`ReadLands`), three mutations under one flag, and a surface that is opened anew
(`Reopen`) or loaded anew by Slack's callback (`ReturnFromSlack`), which connects nothing.

### InviteScreens
Invites from both ends. The wizard's step: `Send`, then the handler's two
statements `CheckSend` and `WriteSend`, then `SendLands`, `SendLost` or, after
`Revisit`, an answer to a visit that is over. The pending list: its reads and
`AskInviteRevoke`, `FindInvite`, `KillInvite`, `InviteRevokeLands`. The page of the link:
`OpenLink`, `Peek`, `SubmitLink`, `FindAccept`, `Claim` (the transaction) and
`AcceptLands`. Other consoles send and revoke, invites expire, and people sign
up on their own.

### JobIntake
`POST /jobs` from the form to the answer: `Submit` (the transaction of job and
appointment), `Count` and `Seed` (the templates, one by one), `Instantiate`,
`RecordEvent` (best effort), `Answer` with its frame, `QueryFails` (one query of one
request) and `Crash` (every request under way). `cut` is history: the posts that a fault
stopped between the templates.

### RouteOptimizer, RouteOrder
The planning algorithms, one turn of a loop per step.
`RouteOptimizer` fills the vans that are not on leave (`OpenRoute`, `Resequence`, `Fill`,
`CloseRoute`), notes each job a route turns down with the reason (`WhyNot`), reports at the
end what is left, once and without what a later van took (`Leftovers`, `Settled`, `Finish`), and
applies the plan to the board (`ApplyRoutes`), which checks it by its own rules. `RouteOrder` takes any list of stops up to the bound, visits the nearest
(`Visit`, which sorts what is left anew each time), then flips pairs of legs (`TryFlip`, `EndPass`) as long as `TourLength` shrinks.

### MCServices, MCConsole, MCLiveMap
Components that do not call each other are checked together as a *sum*: a
behaviour chooses one of them at its start and works with it; the others keep
one initial state. The number of states is the sum of theirs and not the
product, and a behaviour of the run is a behaviour of one component.

## 4. Runs

`CHECK_DEADLOCK FALSE` stands in every configuration because every one of
these systems may come to rest: nothing to deliver, nothing to assign, nobody
at the screen. What must not stop is stated by the liveness properties.

| Run | Instance | What it shows |
|---|---|---|
| `delivery_queue` | 1 row with a notification, 2 loops and a background call, 2 attempts, 1 fault, 1 retry | `HistoryAgreesWithRow` and `NotificationIsHonest` between the three writes of `finishDelivery`; leases exclude: `AttemptNumberIsFresh`, `EndsOwnAttempt`; `FaultsBoundAttempts`; `KeepsPromise` (refinement); `EventuallySettled` |
| `outbox` | 2 events in one batch, 2 instances, 1 fault | `LeasesAreHonest`, `SettledForGood`, refinement, `EventuallySettled` |
| `pipeline` | 1 record, up to 2 delivery rows of 2 attempts, 1 instance, 1 fault in each queue | `RecordIsShownOnce`, refinement end to end, `EventuallyResolved` |
| `assignment_office` | 2 jobs, 2 appointments, 2 technicians, 2 requests at once, 1 office edit | `DispatchNeverDoubleBooks` |
| `assignment_booking` | as above | violation: `EditsNeverDoubleBook` |
| `board` | 2 jobs, 1 place, 2 moves, 1 change by another client, 1 drain at a time, 2 faults | `SavedMoveIsKept`, `BoardConverges` |
| `board_replay` | 2 moves, 1 fault | violation: `SavedMoveYields` |
| `field_record` | 2 requests of any of the 10 kinds, 2 handlers, 2 payment sessions, 2 faults | `AcknowledgedIsKept`, `ReportsAreHonest`, `EventuallyAcknowledged` |
| `services` | a sum of seven services of the API and the two planning algorithms of HQ; the bounds of each are in `MCServices.cfg` | `TeamIsSound`, `RevokedForGood`, `ThreadIsSound`, `ConnectionIsHonest`, `RecordsAgree`, `RetriesAreHarmless`, `SkippedOnlyForCause`, `RoadDataIsHonest`, `RoutesAreSound` |
| `console` | a sum of seven screens of HQ and the job intake; bounds in `MCConsole.cfg` | `IntakeIsHonest`, `DeskIsHonest`, `PaneIsHonest`, `ShellIsHonest`, `TeamScreensAreHonest`, `SlackPaneIsHonest`, `SetupIsKept` |
| `live_map` | a sum of the live feed, the map and the crew board; bounds in `MCLiveMap.cfg` | `FeedIsHonest`, `FeedEnds`, `MapIsHonest`, `CrewBoardIsHonest` |
| `team_owner` | 2 people, 2 handlers, 3 requests | violation: `OwnerRemains` |

### What the properties of the sums say

| Property | Parts |
|---|---|
| `TeamIsSound` | the lock keeps an owner, whatever role changes and removals of owners interleave (`OwnerRemainsIfGuarded`); live sessions carry the role of their membership, sign-ins that were overtaken aside (`SessionsFollowTeam`) |
| `RevokedForGood` | a renewal never revives a revoked session, an acceptance never a settled invite |
| `ThreadIsSound` | one thread per job; only replies come back; a message is given up only when the office changed its workspace, Slack refused it, or as many answers as it has attempts were lost |
| `ConnectionIsHonest` | a code is exchanged again only after a race; attention has a cause; a stored credential was granted in a round trip for its provider |
| `RecordsAgree` | acknowledged versions are in the history; attachments resolve; quote lines have distinct positions; a route gets a version only by a change; each with the overlap that the code does not exclude named as its exception |
| `RetriesAreHarmless` | one photo row per `opId`, after its file; a text is repeated only after an overlap or a failure |
| `SkippedOnlyForCause` | a pull passes over a change only for one of three causes |
| `RoadDataIsHonest` | caches hold the keys used last; an answer fits its question; spend is audited once; a job is never shown at an address it has left |
| `IntakeIsHonest` | an answered job has its checklist; concurrent first jobs leave a whole ladder of templates unless a fault cut one short; just the answered jobs have a frame, and all but as many as there were faults an event |
| `DeskIsHonest` | failed moves are in the ledger once; a job is created again only after a lost answer |
| `PaneIsHonest` | messages of another job are shown only after a post that was under way; one post per press |
| `ShellIsHonest` | a used session expires only for a cause; demo data never replace a board; the landing never overrides the operator |
| `TeamScreensAreHonest` | the screen catches up; a console that signed itself out leaves (`RosterIsHonest`); two invites are out for an email only after overlapping checks, one of a person's links is used and never a revoked one, what a page says of its link stays true (`JoiningIsSound`); the pending list catches up, and the step counts its sends exactly until it is left (`InvitesAreShown`) |
| `SlackPaneIsHonest` | the history is the selected channel's; the screen shows what the API has unless somebody else wrote or an answer was lost |
| `SetupIsKept` | a completed step is valid until a draft replaces its answers; only overtaken saves lose answers |
| `RoutesAreSound` | a proposed day can be driven, by nobody on leave, within the limits of a route (`RoutesKeepLimits`); each job of the queue is on one route or reported once (`PlanAccountsForJobs`), with a reason that is true of it (`ReasonHolds`); the board accepts the plan, unless the whole day is planned anew and a routed van has work that the plan left off its route or lacks the skill for (`PlanApplies`); the drawn order has each stop once, is no longer than the greedy one, and no flip would shorten it |
| `FeedIsHonest`, `FeedEnds` | no listener is left behind (but for a socket cut during the session's read); an off-shift van is shown only for a cause; a revoked session's feed ends and the board catches up |
| `MapIsHonest` | no chain is forgotten; a solid line has road geometry; the map is given up last; shells and camera follow the selection |
| `CrewBoardIsHonest` | a flagged job is shown as what its flag says (`FlagsFit`); a job is on the row of its assignee or his namesake, visits of a day are in order and overlap by a block at most (`RowsFit`); until somebody leaves or takes another's van, a marker and its trail are its technician's (`VansFit`) |

Exceptions in these statements are what the code does; where a comment of the
code promises more, section 5 has it.

**Bounds.** `MaxFaults` (and `Max...Faults` of the screens) count crashes,
throws, overrun leases, lost answers, outages, reloads and timeouts;
`MaxRetries` manual retries; `MaxEdits` the office's appointment writes;
`MaxMoves`, `MaxChanges`, `MaxRequests`, `Max...Acts`, `MaxPosts`, `MaxAsks`,
`MaxLinkActs`, `MaxPapers`, `MaxReplans`, `MaxCaptures`, `MaxAuthorizations`,
`MaxSockets`, `MaxFixes`, `MaxStatuses`, `MaxInvites`, `MaxSetupInputs` and `MaxLoads` what people, vans and
polls do; `MaxTime` and `Life` the ticks of a clock. All are guards of the
corresponding actions. Two rows or events suffice for every property that
relates them, since the code couples rows only by the order within a batch and
the lease of a batch; one row is coupled to itself by its runners, of which
three meet in `delivery_queue`. Two attempts are the smallest number with
both a retry and a dead letter. A double booking needs two appointments and two
requests. A lost owner needs two people and three requests. A lost race for a
thread needs two messages and two actors; an office that changes its workspace
in between, one change more. A cache of two entries and four questions evict,
hit and come back; with a fault, three questions are left. A template ladder of three rungs and two
forms, each posted twice, with two faults bring crashes and failed queries between the templates. A desk ledger of two entries overflows
with three failures. Connections see two acts of the office (keys pasted, disconnects,
interests), or one beside a fault; threads two changes of the offices, or two faults of one message, which use up its two
attempts; paperwork one change of the open
jobs or one crash, as four requests of two clerks meet in every order. The planner's days are five blocks with all mixes of
fixed and new work of three jobs, the third of them far away, and a technician may be on leave; the drawn route has up to four stops at any of four
places which do not lie on one road, the smallest tour on which two flips
compete.

Larger instances of single components were checked while the modules were
written, without an error: two delivery rows with one loop; one row, two loops
and two faults (985,440 states with symmetry); three requests with one fault for the job's record
(916,244, with symmetry); `JobThread` alone with two office changes and a fault
(1,656,058); `RoadLines` with three changes (1,238,025); `DispatchDesk` with two
jobs (4,989,486); `JobPane` with three loads (873,837).

**Fairness.** Weak fairness of each runner, loop and clock: `setInterval` fires
again, a promise that is not lost to a fault resolves, a lease in the past
stays there. `Interrupt`, `LeaseOverrun`, `Stop`, producers and retries are
unfair; as faults are bounded, "eventually" means once the faults stop. `Stop`
leaves at least one instance up: a deployment replaces instances, it does not
end the service. In `BoardSync` the server answers, continuations run, the
poll's timer fires, late requests end, the connection comes back and the
browser sends the sync event it was asked for; there is no fairness for the
dispatcher, other clients, outages and reloads. In `JobRecord` handlers run on
and the field agent sends what it has queued; nothing is assumed of Slack,
Stripe and new requests. In `LiveFeed` the heartbeat beats and is answered, the poll fires and its
payload is shown; nothing is assumed of vans, of revocations and of the network.

## 5. Findings

Violated statements of a comment of the repository that a run shows:

1. `assignment_booking`: `PATCH /appointments/:id` writes technician and times
   without the lock and without the overlap query, while the comment at
   `routes/residential.ts:193` wants such edits to "ride the advisory-lock path
   in PATCH /api/jobs/:id/assignment, not this endpoint". Two jobs are created; one of
   them is being assigned, and a PATCH of the other's appointment lands between the
   assignment's overlap query and its write, or after the write.
2. `board_replay`: a drain sends what it has read although a newer move of the
   job has reached the server meanwhile: not the last write wins
   (`lib/offline.ts:11`).
3. `team_owner`: a removal that has read its member as a non-owner takes no
   owners' lock and does not count again, so with a promotion in between the
   last owner goes, against `routes/invites.ts:215` ("serializes every
   owner-boundary write").

The modules also state, as definitions that no run checks, further wishes of
comments and messages which TLC finds violated. They are not in the list of
findings, but a maintainer should know them:

| Definition | What the repository says | What the code does |
|---|---|---|
| `Assignment!MoveKeepsDateAndDuration` | `routes/jobs.ts:202`: date and duration are preserved | the window is computed before the lock, an edit in between is lost |
| `BoardSync!SavedMoveIsSent` | `features/board/actions.ts:47`: it will sync on reconnection | an entry saved after the online event's drain has read the queue waits for the next trigger |
| `JobRecord!DepartureIsLatest` | `routes/jobs.ts:622` | the handler of an abandoned request puts an older departure over a newer one |
| `Paperwork!AnsweredRfiIsNotRaised` | `schemas/document.ts:62`: an answer moves the RFI on | a status sent beside the answer wins (`documents.ts:205-213`) |
| `LiveFeed!MissedFramesAreReconciled` | `lib/telemetry.ts:36-38`: never stale after a reconnection | nothing but a frame clears a pin; and a reversal that was missed stays on the board while the payload stays equal |
| `RouteOptimizer!EveryLegIsReserved` | `optimize.ts:61-62`: at least one block per leg | not from existing work to the first appended stop |
| `MobileSync!CapSkipsNothing` | `sync.ts:198-200` | a full page whose edge falls between equal stamps |
| `JobThread!AcknowledgedReplyIsStored` | `slackJobThreads.ts`: replies go straight to the job | replies under a parent that lost the race are dropped |
| `JobThread!ConsentConnects` | `slack.ts:135`, `144` | the hook lets the callback pass before it looks for a session (`tenant.ts:111`), so the route knows no organization and fails |
| `Connections!StateIsSingleUse` | `connections.ts:287` | read and mark are two statements |
| `Setup!AnswersAreKept` | `routes/setup.ts:9-11` | a save merged into an older row |
| `Captures!ReplayNamesPhoto`, `TextedOnce` | `media.ts:117-119`; `sms.ts:21-22` | a crash between asset and photo; overlapping or failed sends |
| `RoadLines!SolidMeansRoad` | the legend of the map | a failed ask that lands after a good one |
| `MapStage!BackstopCoversEveryStyle`, `RegionOnlyForEmptyDays`, `UnreachableShellsStayOff` | `MapLibreView.tsx:142`, `:411`; `MapSurface.tsx:154` | a fatal error after the style had loaded; a remount; shells of the former selection stay after a failed ask |
| `DispatchDesk!RejectedIsUnsaved` | "The server rejected this move." | said of lost answers as well |
| `JobPane!OnlyThisJob`, `NoticeIsOfJob`, `DraftIsKept` | | the pane is not keyed by the job |
| `Shell!LiveIsFresh`, `RenewedIfPolled` | `useBoardLifecycle.ts:61-64` | "Live" over data that were retained; no renewal after a failed probe, which lets the console in without an expiry |
| `Roster!SavedSkillStays` | `TeamRoster.tsx:106` | the next edit may start from an older list, and a new visit does not wait for the edits of the one before |
| `CrewBoard!PinIsOfItsTech`, `ShownApart`, `QueueIsFlagged` | | namesakes; vans found by the place of their technician on the roster, which shifts when somebody leaves; rounding to blocks; a cap beyond which jobs are not flagged |
| `SlackPane!ListIsOfTheTeam`, `ErrorIsTold`, `LoadingEnds` | `SlackSurface.tsx:51`, `190`, `246`, `251` | "Refresh channels" reads the workspace only; the outcome of a consent stays beside an error; "Loading" is shown when nothing loads |
| `JobIntake!SeededOnce`, `OneJobPerForm`, `FailedIsUnsaved`, `LadderSurvives` | `checklists.ts:64`: idempotent | the general template has no unique key; a post that failed may have stored the job; a crash leaves part of the ladder for good |
| `RouteOrder!FirstStopStays` | `crewline.ts:316` | the first flip may move it |

`EventuallyAcknowledged` carries an exception that a team should know: the
completion event's id is fixed per job, so after a completed job was reopened
every further completion rolls back on the outbox's key and is retried in vain.
Without any attention flag in the payload (`Flagged = FALSE`), TLC also finds
`BoardConverges` violated: a rollback to a snapshot older than a poll is never
repaired, because an unchanged payload keeps its identity in the query cache
and the effect that fills the store does not run. The run `board` therefore speaks of
boards with a flagged job, on which every payload is a new one.

Met while reading, outside the properties: the address edit of a job awaits a
geocoder (8 s) inside an interactive transaction (5 s by default); reverse
lookups that were refused are audited, timeouts that were billed are not;
`createJobSchema` drops the job's type, so the typed templates are never
chosen; a "processing" verdict of Stripe after the "paid" one takes the job
back until the next event; the new-job form says "nothing was saved" after a
lost answer and wipes what is typed while it posts; a draft over a completed step of the
setup leaves it completed, so a launch accepts answers its schema would refuse (no
screen sends drafts); the arrival text sends no
`opId`; `performClockOff` takes no snapshot before its optimistic change, and a
status override is undone by the next poll.

## 6. Proofs

Each proof module shows `Init => IInv`, `IInv /\ [Next]_vars => IInv'` and that
`IInv` gives the properties; the temporal theorems follow by `PTL`.

**DeliveryQueueProofs.** Assumptions: rows are numbers and linked rows are
rows, workers and callers are apart, `None` is neither, bounds are natural
numbers. The properties are not inductive: that a stale runner does no harm
depends on what it may hold. The invariant adds: a lease is in a row exactly
while it is processing (`LeaseMatchesStatus`); a runner at work has a row that
exists (`RunnerHasRow`, `PolledRowsExist`); a runner whose lease is in its row
has read its own claim's count (`LeaseCountIsOwn`, the reason why the separate
re-read is harmless); an answer in hand is true (`AnswerIsTrue`); two runners
about to write the history have different numbers (`RecordersAreApart`) and
agree with the row if theirs is the latest (`RecordersAgreeWithRow`). Proved:
types, delivered rows were accepted, attempt numbers are fresh, notifications
are honest, histories agree with rows, only the lease's holder ends an
attempt, and `QueueKeepsPromise`: every step of the queue is a step of
`DeliveryPromise` or a stutter.

**OutboxWorkerProofs.** Assumptions: events are numbers, `None` is neither an event nor
a worker, bounds are natural numbers, at least one attempt and a batch of at least one.
The invariant adds: an event is in progress exactly while it carries a lease
(`LeaseMatchesStatus`); a worker has events in hand only between its claim and the
end of its run, and one at a time (`HandsMatchPoint`), all of them committed
(`HandsExist`); what it knows of the adapters is true (`AnswerIsTrue`); who holds a
lease in force is the one who claimed last, and counted it (`LeaseIsCurrent`). That an
event is taken twice only after a fault is a matter of counting, and the counts alone
are not inductive: a worker whose lease ran out may still hand its event over, any time
later. So each such worker (`Strays`), and each event that is open again although an
adapter has it (`ToTake`), must be paid for by a fault of its own
(`TakesArePaidFor`), which the lemmas `FewerStrays`, `StrayTakes` and their kin
carry through each step. Proved: types, `LeasesAreHonest`, `SettledForGood` and
`OutboxKeepsPromise` (every step is a step of `DeliveryPromise` or a stutter), for
any number of events, workers, attempts and faults and every size of a batch.

**OfficeProofs: Assignment.** Assumptions: lengths of the day and the board are sensible, `None`
is nothing else. The invariant adds: appointments belong to jobs that existed
(a deleted job's appointments never come back), a request in progress is complete
(`RequestIsFull`), between lock and commit the technician's lock is held by
the request (`LockIsHeld`), and after the conflict query its window is free
of other placed appointments (`WindowIsFree`), which only the holder of the same lock could change.
Proved: types and `DispatchNeverDoubleBooks`, for any number of jobs,
appointments, technicians, requests and office edits.

**OfficeProofs: LiveFeed.** No assumption but natural bounds. The invariant adds: both ends of a socket begin
together (`EndsBeginTogether`); a heartbeat belongs to a subscription (`BeatsFollowChecks`);
a listener whose console has gone was cut while its session was read
(`FedWithoutSocket`, the one order in which the `close` event comes before its handler); and after a
log-off its beacon is under way, came last, was missed or was overtaken (`BeaconOfLogOff`). Proved:
`FeedIsHonest`, for any number of sockets, reports, statuses and faults.

**OfficeProofs: JobThread.** Assumptions: `Nothing` is no organization, thread, number or worker, a
reply typed in Slack is not a message of the field, and there is at least one attempt. That a job has one thread is not inductive: a worker may go on
with a workspace or a thread it has read long before. The invariant says what an actor at each step
holds (`ActFits`), and that as long as the office keeps its workspace (`KeepsLink`) its row is the
one every worker has loaded, and whoever is about to reply does so in the recorded thread (`ActLinked`); so a
lost race for the thread leaves a parent behind and never a second thread. A second invariant
(`DeliveryInv`) counts: a message's attempts are at most one more than its faults while a worker
holds it, and at most its faults while it waits (`TriesFit`), so one that was given up for want of
attempts has met as many faults. Proved: `ThreadIsSound`, for any
number of actors, messages, replies, teams, attempts, faults and acts of the office.

**ScreenProofs: BoardSync.** The invariant adds: moves begin in order (`InOrder`) and
have their target from then on (`TargetIsSet`); only saved moves are in the
queue (`QueueIsSaved`); what an `enqueueSync` is about to delete is older, saved
and of its own job (`StaleIsOlder`, the reason why deleting before inserting
loses nothing but superseded moves); a drain holds saved moves, and has an
answer for the one it is about to delete (`DrainHasMove`); late requests were
made (`LateWasSent`); who may roll back has left a snapshot
(`SnapshotIsTaken`). Proved: types and `SavedMoveIsKept`, for any number of
drains side by side, moves, jobs and faults.

**The costs of the queue** (second half of `DeliveryQueueProofs`). `FaultsBoundAttempts`
compares counts, and the counts alone are not inductive: what is still to come has to be
paid for as well. A runner that may still post a row's message although its lease is not
in force is a stray (`Strays`); a row that is not delivered, and whose message no runner
with a lease in force has had taken, will be posted once more (`IsPosted`). `Costs(d)` is the
set of the messages posted for a row, one element for each stray and one for the post to
come; a step either adds nothing to it, or exchanges one element for another, or adds one
and is a fault (`StepIsPaidFor`). So all the elements of any finite set of rows together
number no more than the rows and the faults (`PostsPaidFor`), which is stronger than a bound
for each row, as one fault does not pay twice. Claims are counted for each row: those made and
the one to come (`ToClaim`) are covered by faults and manual retries (`ClaimsPaidFor`). That
there are finitely many costs is part of the invariant, not an assumption about the runners.

**EventPipelineProofs.** Each step of the pipeline is a step of either component or leaves
it alone (`PipelineRunsOutbox`, `PipelineRunsQueue`), so the theorems of the two hold of its
tables (`ComponentsAreSound`): the module cites them through its own instances of their proof
modules. What remains are the links: an event is there exactly when its record says so
(`RecordsMatchEvents`); a row exists exactly when it belongs to an event that exists
(`LinksMatchRows`); and an event has as many rows as the adapter has taken it times
(`TakesLeaveRows`). `RecordIsShownOnce` then adds up: the outbox takes an event once more for each
of its faults, and those rows together cost one message more for each fault of the queue. The
refinement of `DeliveryPromise`, event by event, rests on two lemmas about single steps: a step
of the outbox settles one event or leaves all as open as they were (`OutboxMovesOneEvent`),
and a step of the queue posts or settles one row or leaves all as open as they were
(`QueueMovesOneRow`). A late row of an event that was dead-lettered meanwhile reopens it; no step
loses a delivered one. Proved: types, `RecordIsShownOnce` and `KeepsPromise`, for any number of
events, rows, instances, calls, attempts and faults.

**ServiceProofs: Team.** Assumptions: `None` is no person, handler or role; requests are
bounded by a natural number. The invariant adds: members and whoever was ever signed in
have accounts, and accounts stay (`AccountsStay`); written invites name a person and a role
(`InvitesAreFull`); a handler's request is complete (`RequestIsFull`); a role change writes,
and a removal checks, only behind the advisory lock, which nobody takes home (`LockIsHeld`);
what was counted behind the lock holds until the write: somebody else is an owner too
(`CheckHolds`), whatever the handlers that take no lock do meanwhile, as long as none of
them removes an owner; and sessions that may be renewed follow the team as those in force do
(`RenewableFollowTeam`, without which a renewal could bring an old role back). Proved: types,
`TeamIsSound` and `RevokedForGood`, for any number of people, handlers, invites and requests.

**ServiceProofs: Connections.** Assumptions: no provider connects in both ways, `NoLink` is no row. The
invariant adds: what a request has read fits the rows (`LinkFits`: at `exchange` the consent is given
and the row marked, at `upsert` the provider has granted the tokens); the code of a row that is
not marked was never sent (`UnmarkedIsUnsent`); and without a race one callback holds a row and
sends its code once (`HeldByOne`), which fails as soon as two of them have found the row unmarked (`raced`,
section 5). That a connection that was made stays justified rests on `GrantsGrow`: no step takes
back a grant, a mark or a cause. Proved: `ConnectionIsHonest`, for any number of handlers, round trips, providers, keys,
acts of the office and faults.

**ServiceProofs: Captures.** Assumption: `NoRow` is no row. The invariant adds: a completion is under way only for a
stored file, and a photo is recorded only for an asset that was marked (`FileComesFirst`); the
request that marked it is alone in recording it (`RecordedByOne`, the effect of the conditional `updateMany`);
what is recorded as sent was sent (`SentComesFirst`); and without a race or a fault one request
sends and none after it (`SentByOne`). Proved: `RetriesAreHarmless`, for any number of requests and faults.

**ConsoleProofs: JobIntake.** Assumptions: the templates of the ladder are distinct (they are, by
type, in `DEFAULT_TEMPLATES`). The invariant adds: a handler seeding the
templates has created those behind it, or another has (`SeedersClimb`); the first template is
the general one (`GeneralFirst`); unless a fault cut a post short between the templates, what exists is the whole ladder or
what is behind a handler that leads the others (`SomebodyLeads`, which is why two first jobs
failing on each other's templates leave nothing out); who has its checklist has it in full
(`ListedInFull`); and an answered job without its event is paid for by a fault
(`SilencePaidFor`). Proved: types and `IntakeIsHonest`, for any ladder, number of posts
and faults.

**ConsoleProofs: Setup.** Assumption: `Unset` is no row. The wizard's endpoint reads, merges and writes the
whole row, and what makes a merge harmless is what was read long before it. The invariant adds: every row that a save
has read is valid in itself, and its answer was accepted (`SaveFits`), so a merged row is valid
(`MergedIsValid`) whatever else was written; a launch that was let through finds the required steps still complete
unless a save was overtaken (`LaunchFits`); and as long as none was, the row holds the answers written last.
Proved: `SetupIsKept`, for any number of tabs, steps, inputs and faults.

**ConsoleProofs: Shell.** Assumptions: a session lives for at least one tick; `Absent` is no time and no
answer. The invariant adds: no answer under way, and no expiry the page remembers, is later than the row's end
(`EndTypes`: renewals only lengthen it, so what the page knows of its session errs on the safe side); a page that is
still checking its session has fetched nothing (`CheckingIsEmpty`); a poll that
landed while a renewal was due has asked for one (`BeatsRenew`); and the landing check asks only where the
operator has gone nowhere (`LandingWaits`). Proved: `ShellIsHonest`, for any life and lead of a session, any clock and
any number of faults, in production and in development.

**ConsoleProofs: JobPane.** Assumption: `Empty` is no job, message or answer. That a text is stored at most once and
once more for each lost answer is not inductive: a text that may yet be posted has to be paid for already. So a text that
is still in the field, or in a post that the API has not stored, counts as one to come (`Unspent`, `CountFits`), and
a text is in one post at a time (`OneSend`), which is what the button's flag is for (`BusyFits`). For the thread
shown: the load of the running effect is of the selected job (`LoadFits`, the reason why the cleanup of an
effect suffices), and what is shown is a list of stored messages, each once (`IsList`), of
another job only after a late answer (`ShownFits`). Proved: `PaneIsHonest`, for any number of jobs, polls, acts and faults.

**ConsoleProofs: SlackPane.** Assumptions: `Nil` and the words of an answer are no team and no channel. Reads of
the workspace are never called off, so each lands whatever came after it. The invariant says
what each is worth (`ReadFits`): one that is `new` holds what the API has; one that is `mended` does once
the mutation under way is shown; one that has `passed` promises nothing and puts the surface
behind. Likewise the view, apart from a route written and not yet shown (`ViewFits`, `WriteShows`), and calls of
the effects are those of the selected channel (`CallsFit`). `AgedReads` and `PassedReads` carry the
reads through a write. Proved: `SlackPaneIsHonest`, for any number of teams, channels, events, reads and faults.

**JobRecordProofs: JobRecord.** Assumptions: kinds, statuses and `None` are apart. The properties are
about a row that several handlers of one request read, compare and write in separate
statements. The invariant adds: a handler serves a request that was made (`RequestsFollow`,
`HandlersServe`), and the agent's outbox sends in order: whatever was sent before a request in
service is acknowledged (`SentInOrder`). Hence only the first arrival, and only the first tick
if nobody unticks, is ever written (`ArrivalIsFirst`, `TickIsFirst`): a handler of a later
one has read a row in which the first stands (this is what fails for departures, where the
latest wins; see section 5). Acknowledged clock-ins are in the table (`EntriesAreKept`); a handler
about to write a completion has seen a status that explains whether it emits the event
(`CompletersKnow`); an event of Stripe tells what Stripe decided of its link
(`EventsAreTrue`). Proved: types, `AcknowledgedIsKept` and `ReportsAreHonest`, for any number
of requests, handlers, retries and faults.

**JobRecordProofs: Paperwork.** Assumption: `NoPaper` is no document. The invariant adds, for each kind of record, what its
clerk holds between its statements: whoever holds the id of an attachment finds the document or its
deletion under way, unless a clash or a crash is on record (`LinksResolve`); the last position a request has read
is the last one until it inserts behind it (`LinesFit`); a version number that is not taken yet
belongs to stops that differ from the latest version (`RouteFits`); and a version that has no audit has a clerk
about to write it, or one that stopped (`AuditsFollow`). "The last position" and "the next
version" are greatest elements of finite sets of numbers, whose existence comes
from well-foundedness of the order. Proved: `RecordsAgree`, for any number of clerks, requests, changes of the
open jobs and crashes.

**JobRecordProofs: MobileSync.** Assumptions: finitely many jobs, a page of at least one. The property is about
what a device has received, while a change is passed over long before, when a page is cut or a
timestamp drawn. The invariant follows every job that no cause has passed over, twice: it
is ahead of the device's cursor or the device has it (`AheadOfCursor`), and so it will be when
the answer under way arrives (`AheadOfAnswer`); and every timestamp a device has was put in an answer before
(`IssuedLast`). Proved: `SkippedOnlyForCause`, for any set of jobs, writers and changes, and every size of a page.

**ScreenProofs: RoadLines, MapStage.** Assumptions: at least one pass, every colourway has a
style, and `Unselected` is no day and no rung; of the lines, none.
The invariant of the lines adds: what a batch has been told of a chain is cached or on record as missing
(`BatchesAreTold`), so whatever batch lands, and however late, a label says the truth of its time. That some
batch is left to land for every chain without a label rests on `Latest` being there: a
greatest number of a finite set, again from well-foundedness. The invariant of the stage
adds: the rungs that failed are just those before the one tried (`LadderInOrder`), so the map is given up
only after all of them; and a ready map with nothing selected has framed the day shown
(`DayIsFramed`), which the effects of the camera restore one after another (`FrameKeepsDay`,
`RemountKeepsDay`). Proved: `MapIsHonest`, for all crews, boards, trails, colourways, styles, passes and days.

**ScreenProofs: CrewBoard.** Assumption `CrewAssumption`: there are finitely many technicians, two of them at first;
a visit starts at a time; a day, a block, a board and a trail are not empty. Nothing is assumed
of the ends of visits, the clock or the drives. The rounding of the adapter is carried by lemmas
about division, which no prover has built in (`DivFloor`, `DivGrows`): rounding is monotonous (`BlocksGrow`), and two lengths that
are rounded apart exceed their sum by one block at most (`BlocksAdd`); hence `PlacesInOrder` and `PlacesTouch`.
The invariant adds: a flag is about jobs that are shown, and true of what is shown of them (`FlagsHold`; a frame
may end an overdue job but not move one); and until somebody leaves, the board's technicians are the first of the roster, a device with
a van has the one of its place, and so has its pin (`VansAgree`). That a roster repeats nobody, and is no
longer than there are members (`RosterFits`), is what makes a place a name. Proved: `CrewBoardIsHonest`, for
all teams, jobs, visits, clocks and lengths. The proof corrected the property: it used to claim that consecutive
visits overlap by a block at most wherever they lie. The step of the poll did not go through for a visit that starts before the board
day: its start is clamped to the first block while its span is counted in full
(`lib/adapter.ts:144-160`), so it may cover any number of its successors. `RowsFit` now says so, and
`live_map` has such a visit.

**ScreenProofs: InviteScreens.** Assumption: `Nothing` is no invite, no row and no answer. The invariant adds: who
has accepted an invite has an account and is on the team (`InvitesFit`), and so nobody accepts two
(`AcceptedOnce`: the transaction refuses an email with an account); a send under way
knows the count as long as the step was not left (`CallsFit`); an email whose checks did not
overlap has one invite out or one about to be written, never both (`OneAhead`); unless it has missed a
change, the list shown or about to be is what is outstanding (`ListIsPending`); and what a page
has heard of its link is true and stays so (`LinkFits`), as an invite that is no longer outstanding
never is again.

**ScreenProofs: Roster.** Assumptions: the console's own session is one of the devices; `Void` is no row and no answer. The invariant adds: unless a
change came later, the last read is the row (`ReadIsRow`); a change of the
screen's own that no read has seen is about to be asked for (`OwnIsAsked`); and a console whose own
session is gone is about to hear of it, or an answer was lost (`DeadIsTold`). With the invites' invariant beside it,
this gives `TeamScreensAreHonest`, for any number of members' skills, devices, emails, invites,
windows, acts and faults.

**Only model-checked:**
- every liveness property (`EventuallySettled`, `EventuallyResolved`, `EventuallyAcknowledged`,
  `BoardConverges`, `FeedEnds`): liveness under fairness is out of the prover's reach;
- `RoadDataIsHonest`: the caches are read and written by filtering a sequence, and what a filter keeps of every
  sequence is an induction over data;
- `RoutesAreSound`: the length of a tour and the start of a job are recursive functions of the order; that a
  flip shortens what they compute is again induction over data;
- `DeskIsHonest`: the ledger is a sequence that is filtered and truncated, which is induction over data again.

The type theorems are about `TypeOK` of their modules; they are lemmas of the other theorems and no run
repeats them, those of `DeliveryQueue` and `Assignment` aside.

## 7. Not modelled

- **Inside the modelled parts.** Clock skew between API instances and Postgres;
  deletion of organizations, which cascades; rendering and parsing of payloads
  and message text; failures of IndexedDB (`enqueueSync` swallows them, and the
  move is then lost by design); demo data as such; session expiry in the board
  store (it is in `Shell`).
- **Queue and pipeline.** The retries of the notification route under an `opId`.
- **Assignment.** Skills and membership checks (a technician of the model is
  one who passes them), customers and properties.
- **Job record.** Clock-out and corrections of time entries, sign-off, notes,
  the other columns of `PATCH /jobs/:id`.
- **Team.** Registration of an organization, profile edits without a role,
  revocation of one session by an administrator, token formats.
- **Board store.** Status operations, route batches, overrides and clock
  buttons: the same snapshot, rollback and queue functions, with the exception
  named in section 5.
- **Mobile sync.** The pull's other tables, which use the same cursor without a
  cap. The conversion of the timestamps to milliseconds is the mobile client's, which
  is not in the repository.
- **Paperwork.** Edits of one column in one statement.
- **Slack, Stripe, the routing provider, the SMS gateway, the mobile client and the
  service worker's host** are not in the repository. They are modelled from how the
  code uses them (marked `external` in `PROJECT.json`).
- **Left out altogether.** Password, token, PKCE and signature primitives
  (cryptography); pure helpers which no screen uses
  (`computeAttentionFlags`, `deriveCustomers`, `jobConflicts`, `rankCrews`,
  `fleetOptimize`, `performRouteApply` beyond its check); the shared fetch
  helper of `lib/api.ts` beyond its renewal (its timeouts and errors are faults of the models
  that call it); the catalog of integrations and the seed data (tables);
  layout, styling and the marketing site.
