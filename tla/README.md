# TLA+ specifications of Sales AITO (AutoSale)

Sales AITO takes orders out of customers' chats (Instagram, TikTok), lets
managers approve them, reserves stock or orders missing goods from the supplier,
ships parcels and answers customers. This directory models the parts of it in
which several processes touch the same rows, checks the models with TLC and
proves what matters most with TLAPS.

- [The system](#the-system): components, state, interactions, what is hard
- [How the code is modelled](#how-the-code-is-modelled)
- [Modules](#modules): what stands for what
- [Runs](#runs): questions, bounds, fairness, what they show
- [Proofs](#proofs), [known weaknesses of the code](#known-weaknesses-of-the-code)
- [Not modelled](#not-modelled) and [the plan](#plan)

To repeat a check: `tlc -config MCProcurementSafe_safe.cfg MCProcurementSafe.tla`; to
repeat a proof: `tlapm ProcurementProofs.tla`.

## The system

A NestJS API (`apps/api`) and a worker (`apps/worker`) share a PostgreSQL
database. Redis/BullMQ carries *wake-ups* only: a job names a row, the row says
what is to be done. An enqueue may fail silently (its error is swallowed), may
be repeated (a job id deduplicates it while the job exists) and the job may be
delivered to a second worker if the first one stalls. So every component has
the same skeleton: the API writes a row in a transaction and tries to wake the
worker; the worker claims the row with a conditional update (often a lease with
an expiry and a UUID that fences the completion), calls the outside world
outside any transaction, and writes the result in a second transaction; a
reconciler on a timer (5 s) wakes whatever is due. Transactions run at READ
COMMITTED, so that what one reads without a lock may be stale when it writes.

| Component | State it keeps | Operations | Hard behaviour | What makes it correct |
|---|---|---|---|---|
| **Procurement** (`packages/database/src/procurement-store.ts`, `OrdersService`) | stock, order status, hand-off mark, sort key, item status, reservations | approve, assess, cancel, correct, decide on an item, hand off, backfill | several requests on one order; two orders on one product; several transactions per request; crash between them | no overselling; stock falls once per unit; nothing stranded in SENDING; every approved order gets assessed; list, filter and summary agree on what they can agree on |
| **Supplier dispatch** (`TelegramService`, `TelegramDeliveryService`) | deliveries with version, attempts, lease; items of each | queue, claim, send, finish, retry, fail, reconcile | lease takeover, late answers, rate limits, lost or repeated wake-ups, tenant freeze | one dispatch at a time, settled once; no order sent again unless a claim was lost; every dispatch ends |
| **Replies over Instagram / TikTok** (`*-message-delivery.service.ts`) | outbound message status, lease, attempts | claim, send, retry, mark UNKNOWN, take over to bot | crash between send and finish: Instagram sends again, TikTok never; reconnect while sending | TikTok: at most one send per request; Instagram: re-sends only after a lost claim; nothing SENDING for ever |
| **Order recognition** (`triggered-order.processor.ts`) | trigger, intent job lease, order | evaluate intent, recognise, create items, auto-approve | no lease around recognition; lease without fencing around the intent | items created once; an automatically approved order has matched items; failure does not undo an approval |
| **Shipments** (`shipment-create.service.ts`, `shipment-status.service.ts`, Ukrposhta) | shipment status, attempts with leases, carrier document, checkpoints | create at the carrier, look up after a lost answer, cancel, track | crash between creation and the answer's commit; answers that come back out of order | Ukrposhta: one parcel; Nova Poshta: another waybill only after a lost claim; nothing CREATING without an attempt; CANCELLED is not on its way |
| **Reply drafts** (`reply-draft.processor.ts`) | draft status, lease, `modelRequestStartedAt`, snapshot of the dialogue | schedule, request, claim, recall, generate, check, use | single-shot model request; new message while generating | the model is asked once; only what was outrun is STALE; every draft ends |
| **Google Sheets export** (`google-sheets-sync.processor.ts`) | export job, attempt, row of the sheet | export, retry, rewrite | no lease: last writer wins | one row per order, and the latest approved correction in it |
| **Catalogue import and mapping** (`CatalogueImportService`, `CatalogueMappingProcessor`, `CatalogueAutoImporter`) | import runs with a mapping lease, mappings, products | upload, map, correct, confirm, import by itself | owner, importer and a late model on one run | products are written once, as mapped last; an owner's mapping stays |
| **Catalogue synchronization** (`google-catalogue-sync.processor.ts`) | source with a lease and a version, runs, snapshots | claim, read, plan, review, import, complete, release | leases lost while reading or writing; the sheet changes meanwhile | products never go back to an older sheet; COMPLETED was written |
| **Social ingestion** (`social-inbound-ingestion.service.ts`) | webhook events, messages, conversations | store event, create message once | duplicates, reordering | each external message stored once |
| **Tenant lifecycle** (`tenant-lifecycle.ts`, `tenant-lifecycle.processor.ts`, `tenant-lifecycle.reconciler.ts`) | lifecycle request with a lease, `ingestionFrozenAt`, archives in the object storage | request deletion or export, claim, upload, publish, cancel, retry, clean up | freeze racing every other component; crash between upload and publication | no mutation of a frozen tenant; one archive, there while it is ready, and deleted after that |
| **Payments and commercial terms** | payments, totals | register, refund | serializable transactions | paid amount consistent with payments |
| **Connections, sign-in, sessions, team** | credentials, generations, sessions | OAuth, refresh, revoke | a refresh lease that lapses during the call; disconnecting meanwhile | one refresh at a time; an old credential never replaces a new one |
| **Demo leads, notifications, AI usage** | claims, notifications, usage records | notify, retry, meter | claims and retries | notified at least once; each usage record ends |
| **Dashboard, search, web** | none of their own | queries | none | - |

How they meet: recognition creates orders that Procurement assesses; approval
wakes the Sheets export; the dispatch moves items to SENDING and its end moves
them to ORDERED or back to TO_ORDER; a catalogue import changes the stock the
reservations are checked against; a tenant's freeze makes almost every
transaction throw (`assertTenantAcceptingMutations`).

## How the code is modelled

- *One action per transaction*, and two where a transaction decides on rows that
  it read without locking them: the first takes the snapshot, the second is what
  runs under the lock (or in the final writes) and commits. Between the two
  every other process may run. A transaction that keeps the deciding rows locked
  is one action.
- *A throw or a crash* between two transactions is an `Abort`/`Crash` action; a
  transaction that throws changes nothing.
- *Time* is what the code compares: a lease is expired or not, an attempt is due
  or not.
- *External parties* (Bot API, Meta, TikTok, carriers, the model, Google) are
  nondeterministic answers; what really reached them is a ghost or external
  variable (`got`, `sent`, `waybills`, `parcel`, `table`, `asked`, `calls`).
- *Wake-ups* are a queue where a job that is lost, repeated or handed to a second
  worker matters by itself (the deliveries). Elsewhere the reconcilers repeat
  them, so that a worker may look for due work at any time.
- *A freeze* of the tenant (`assertTenantAcceptingMutations`) may begin and end
  between any two steps.
- Names of operators are the names in the code where there is one.

## Modules

### Procurement

| In the module | In the code |
|---|---|
| `stock`, `active` | `products.stock_quantity`, `products.active` with a known stock |
| `ostatus`, `handedOff`, `sorted` | `orders.status`, `.procurement_handed_off_at`, `.sort_procurement` |
| `item` | `order_items` joined with `inventory_reservations` (`hold`) |
| `delivery`, `dispatched` | items of the unfinished supplier delivery; whether there ever was a delivery or a shipment |
| `job` | what each concurrent request (and the backfill timer) is in the middle of |
| `ApproveRead`, `ApproveTransition`, `AssessRead`, `AssessCommit` | `OrdersService.approve` -> `transition` -> `ProcurementStore.assessApprovedOrder` |
| `CancelTransition`, `ReleaseOrderReservations` | `OrdersService.cancel` and the release after it |
| `CorrectRead`, `CorrectCommit` | `OrdersService.update`: guard, then the correction |
| `ShipmentRead`, `ShipmentCommit` | `DeliveryService.saveShipmentDraft`: readiness, then the draft |
| `SetItemRead`, `SetItemCommit` | `ProcurementStore.setItemStatus` |
| `HandOffRead`, `HandOffCommit` | `ProcurementStore.handOffOrder` |
| `QueueSupplierOrder`, `SettleDelivery` | `TelegramService.queueSupplierOrder`, `TelegramDeliveryService.finish`, seen from the order |
| `Backfill` | `ProcurementBackfillReconciler.reconcile` |
| `ImportProduct` | whatever overwrites a product's stock and availability |
| `procurementSummaryFor`, `procurementWhere` | the summary shown, and the SQL condition that filters by it |

Data: APPROVED stands for AUTO_APPROVED too; a product of unknown stock is not
`active`; product and quantity of a reservation exist only while it is ACTIVE.
The assessment's loop over the items, which carries what is left of each
product, is the set `Grants(seen)` with its one member: the items granted given
the items granted before them. `Duty` says which requests each process may take:
it bounds an instance, and the specification and the proofs hold for any.

The model writes the sort key exactly when the code does. No property is stated
of it, because none useful holds: a dispatch stores SENDING even if another
item is UNAVAILABLE, for which the page shows BLOCKED, and an assessment of an
order handed off before stores the summary of its items.
`SendingIsDispatched` of this module assumes that the tenant is not frozen
while a delivery is being processed; `SupplierDispatch` has the freeze. Two
transactions that write the sort key of one order from item statuses each read
before the other's commit (a write skew inside a transaction), and the deadlocks
PostgreSQL resolves by aborting one of two transactions, are not modelled.

### SupplierOrder and SupplierDispatch

`SupplierOrder` is what ordering from the supplier promises: the items TO_ORDER
are dispatched together, one dispatch at a time, and the end of a dispatch moves
exactly those that are still SENDING; only a freeze abandons a dispatch, and
leaves its items as they are (`Abandon`). `SupplierDispatch` is how the code does
it:

| In the module | In the code |
|---|---|
| `delivery[v]` | row of `telegram_deliveries` of `supplierDispatchVersion` v: status, attempts, whether `next_attempt_at` has come, lease, whether it expired |
| `taken` | `telegram_delivery_items` |
| `queue` | jobs in BullMQ: a set, because the job id deduplicates |
| `worker[w]` | local state of `TelegramDeliveryService.process`: between claim and call, between call and `finish` |
| `QueueSupplierOrder`, `QueueAgain` | a first and a second click on "order from the supplier" |
| `Reconcile`, `Due` | `TelegramDeliveryReconciler` and the SQL function `worker_due_telegram_deliveries` |
| `Claim`, `FailFrozen`, `Ignore` | the first transaction of `process` |
| `SendAccepted`, `SendRateLimited`, `SendFailed` | the answers of the Bot API and the branches on them |
| `Finish` | `finish`, fenced by status and lease id |
| `ExpireLease`, `Redeliver`, `Crash`, `Freeze` | time and failures |

A lease id is a fresh UUID in the code and the number of the claim here: both
are never used twice, which is all the fence needs. The link between the modules
is `Procurement!SettleDelivery`/`QueueSupplierOrder`, which are the `Settle` and
`Dispatch` of `SupplierOrder`: `SupplierDispatch` shows that the worker realises
them.

### TikTokDelivery

A manager's replies on TikTok. TikTok takes no idempotency key and does not
report what was sent, so the code claims only what is PENDING and calls UNKNOWN
whatever may have been sent.

| In the module | In the code |
|---|---|
| `message` | outbound rows of `messages`: delivery status, attempts, whether the next attempt is due, lease, credential generation |
| `connection`, `generations`, `callbacks`, `expiring` | `tiktok_connections`: generation and status; OAuth callbacks and settings pages between their read and their write |
| `enabled`, `frozen` | the platform's switch of the channel; the tenant's request to be deleted |
| `retrying` | `ConversationsService.retry` between its unlocked read and its write |
| `queue`, `worker[w]` | jobs; local state of `TikTokMessageDeliveryService.process` |
| `Send`, `RetryRead`, `RetryWrite` | `ConversationsService.send` and `retry` |
| `Reconcile`, `MarkStaleUnknown` | `TikTokMessageReconciler` and its two SQL functions |
| `TakeJob`, `Claim`, `Ignore`, `MeetFreeze`, `FailFrozen` | from the switch to the claim |
| `Prepare`, `TokenFresh`/`Deferred`/`Unusable`, `Recheck` | the first look, `getFreshAccessToken`, the second look |
| `SendAccepted`, `SendDeferred`, `SendFailed`, `SendUnauthorized`, `SendAmbiguous` | the answers of `sendText` and the branches on them |
| `Finish`, `MarkReconnectRequired` | both settle only what is SENDING under the worker's lease |
| `FindNothingConnected`, `Activate`, `Disconnect`, `ExpireToken`, `SeeExpiry`, `WriteExpiry` | `TikTokOAuthService` and `TikTokEventService` |
| `got`, `through`, `unusable`, `retries` | ghosts: what the customer got for which retry, through which account; generations that were refused or expired |

The status RATE_LIMITED is the code's FAILED with the error code
TIKTOK_RATE_LIMITED, which alone may be retried by hand. The lease's minute and
the reply window's 48 hours may be over whenever the code asks, so a worker may
be overtaken by the reconciler between any two of its steps. The queue gives a
job to a worker even while another one works on it, which BullMQ does only after
a stall. A transaction that throws (the database is away) is a `Crash`, since
jobs have one attempt. A 200 whose body the client cannot read counts as FAILED
although the customer has the text: `SendFailed` includes it, and that is why no
property says FAILED was not sent. A worker that waits too long for another's
token refresh shuts a connection that is fine: `TokenUnusable` may happen to any
generation, and counts it as unusable; `TikTokToken` says why. Left out of `send`: the reply draft the
text may come from, and the limit of 30 replies a minute.

### TikTokToken

The access token that `TokenFresh`, `TokenDeferred` and `TokenUnusable` of the
module above are about.

| In the module | In the code |
|---|---|
| `connection` | `tiktok_connections`: status, generation, pair of tokens, `refreshLeaseId` |
| `aged`, `lapsed`, and what a worker keeps of them | `tokenExpiresAt`, `refreshLeaseExpiresAt`, compared with the `now` the caller began with |
| `Begin`, `Unavailable`, `Fresh`, `Stale`, `Claim`, `Wait` | the loop of `getFreshAccessToken`: row, claim of the lease, 100 attempts |
| `Answered`, `Refused`, `Unanswered`, `WritePair`, `WriteNothing`, `Release` | `refreshClaimed`: the call, the write fenced by generation and lease, the `catch` |
| `MarkReauthorization`, `MarkReconnectRequired` | writes fenced by the generation only, of the service and of the reply |
| `Activate`, `Disconnect`, `ExpireToken` | `TikTokOAuthService`, the webhook |
| `issued`, `latest` | external: TikTok's pairs; a refresh may give one out without its answer arriving |
| `shaken` | ghost: generations whose refresh was slow, lost, refused or given up |

### InstagramDelivery

A manager's replies to one customer over Instagram, and their echoes. Unlike
TikTok's, an expired claim is taken over and the reply is sent again.

| In the module | In the code |
|---|---|
| `message`, `rows` | outbound rows of `messages` and the provider id they have; echoes stored as messages of their own |
| `connection` | `instagram_connections`: credential generation, status |
| `Send`, `RetryRead`, `RetryWrite` | `ConversationsService.send` and `retry` |
| `Claim`, `Ignore`, `Load`, `LookUp`, `FailEarly` | `InstagramMessageDeliveryService.process` up to the call |
| `SendAccepted`, `SendRateLimited`, `SendAmbiguous`, `SendFailed`, `SendUnauthorized` | the answers of the Send API |
| `Finish`, `MarkReconnectRequired` | `finish` (fenced by the lease), `markReconnectRequired` |
| `Open`, `Taken`, `Matches`, `EchoCandidate` | `findOutboundEchoCandidate`: at most `MAX_CANDIDATES` (3) of the open replies of the window, in no order; of these, the one with the echo's text |
| `EchoMatches`, `EchoIsStored` | the echo settles its candidate, or becomes a message of its own |
| `Connect`, `Activate`, `Disconnect`, `Revoke` | `InstagramOAuthService`, Meta |
| `sent`, `near`, `recent` | external: texts delivered; which replies lie within the 30 s of an echo's window |

Every reply has a text, its own or another's: any open reply takes room among the
three, and those of one text compete for an echo. Which three the database returns
is a choice (`Taken`), since the query has no order. Time is spells shorter than the window, with pauses longer than a lease.

### OrderRecognition

How a message becomes an order: a manager's message with a trigger phrase
(order first, items later) and a customer's message that the model judges
(claim of five minutes, order with items at once).

| In the module | In the code |
|---|---|
| `order`, `lines`, `assessed` | `orders.status` by `trigger_message_id`, how often items were written, procurement's assessment |
| `evaluation`, `expired` | `order_intent_evaluations` and its lease |
| `event` | `webhook_events.status`: the worker repeats an event until it is PROCESSED |
| `Start`, `FindOrder`, `CreateProcessingOrder`, `OnConflict` | `processIfTriggered`, `createProcessingOrder` and its unique key |
| `Claim`, `Reclaim`, `Ask`, `IgnoreIntent`, `CreateIntended` | `claimIntentEvaluation`, the model, `processConversationalIntent` |
| `Recognise`, `Assess`, `Fail`, `Throw` | `process` after the order is there, and its errors |
| `Return`, `IgnoreFrozen`, `Receive` | `SocialInboundIngestionService`: the event is settled; webhooks |
| `Decide`, `AssessLater`, `Freeze` | managers, the procurement backfill, tenant lifecycle |

`calls`, `failed` and `lost` count the model's requests and what excuses another.
A request is what the worker asks its client for: while the metering of usage is
off, OpenAI's client is made with its own retries
(`apps/worker/src/ai-usage/worker-responses.ts`, lines 17-18) and may repeat one
that fails on the way. The same is true of `ReplyDraft`.

### NovaPoshtaShipment and UkrposhtaShipment

A shipment's attempts (create, cancel, ask for the status), each with a lease.

| In the modules | In the code |
|---|---|
| `shipment`, `attempt` | `shipments`, `shipment_attempts` by operation and version |
| `CreateShipment`, `CancelRead`, `CancelWrite` | `DeliveryService` of the API; the cancellation decides on an unlocked read |
| `Read`, `ClaimAttempt`/`Claim`, `ClaimFrozen`, `CheckFreeze` | the head of each `process`, `freezeClaimedAttempt` |
| Nova Poshta: `Search`, `CreateAccepted`/`RateLimited`/`Failed`/`Unknown`, `Write` | a second attempt searches for the first one's waybill before it creates one; `succeed`, `finish` |
| Nova Poshta: `AskStatus`, `CallCancel` | `ShipmentStatusService`: what it writes is fenced by the lease of the attempt, not by the shipment's version |
| Ukrposhta: `Prepare`, `Checkpoint`, `Mark`, `PostAccepted`/`Refused`/`Unknown`, `Keep` | checkpoints in `provider_metadata`; the marker committed before the parcel is asked for |
| Ukrposhta: `AskLifecycle`, `CancelAllowed` and the tracking batch | `cancel`, `UkrposhtaTrackingService` |
| `Reconcile`, `ExpireLease`, `Crash`, `Freeze` | `ShipmentReconciler`, time, failures, tenant lifecycle |
| `parcel`, `waybills`, `seen` | external: what the carrier has |

### ReplyDraft

The AI's drafts of one conversation.

| In the module | In the code |
|---|---|
| `draft` | `ai_reply_drafts`: status, anchor message, cited products, lease, attempts, `model_request_started_at` |
| `Arrive`, `Schedule`, `QuietPasses` | inbound messages, `AutomaticReplyDraftScheduler`, its quiet period |
| `Request`, `Use` | `ReplyDraftsService.create`, `ConversationsService.send` with a draft |
| `Claim`, `Recall`, `Start`, `Generate`, `Check`, `Fail` | `ReplyDraftProcessor.process` |
| `FailExpired` | `worker_fail_expired_ai_reply_drafts` |
| `Switch`, `EditProducts` | reply style and freeze; changes of cited products |

### SheetsExport

The row of an approved order in a spreadsheet: `Approve`, `EnsurePendingExport`,
`RetryRead`/`RetryWrite`, `Correct`, `Cancel` (`OrdersService`); `Claim`, `Start`,
`ReadOrder`, `ReadItems`, `FindRow`, `WriteRow`, `Settle`, `CallFails`
(`pollExports`, `GoogleSheetsSyncProcessor`, `upsertRow`). What a row says is the
number of the order's correction, once as the order's own columns have it and once
as its items have it, because Prisma's `include` reads them in two statements
(READ COMMITTED: a correction may commit in between; the ghost `torn` has the rows
that were read that way). `table` is the external sheet.

### CatalogueImport

One upload: `Claim`, `Ask`, `Persist`, `MappingFails`, `CancelFrozen`
(`CatalogueMappingProcessor`), `AutoRead`, `AutoClaim`, `AutoImport`,
`AutoComplete`, `AutoFails` (`CatalogueAutoImporter`), `UpdateMapping`,
`ClaimConfirmation`, `ConfirmImport`, `CompleteConfirmation`, `ConfirmFails`
(`CatalogueImportService`). A mapping is its version; `applied` records with
which mappings products were written.

### CatalogueSync

A catalogue that follows a Google sheet.

| In the module | In the code |
|---|---|
| `source` | `catalogue_sources`: `syncVersion`, lease (whose id is the version its claim gave), when its sheet was chosen |
| `runs` | `catalogue_import_runs` by idempotency key: content and mapping, or content under review |
| `mapping` | the latest confirmed row of `catalogue_mappings` |
| `Claim`, `PauseFrozen`, `Release` | the first transaction and the `finally` of `GoogleCatalogueSyncProcessor.process` |
| `ReadTable`, `ReadDoubtful`, `ReadUnmapped` | the sheet is read; `prepareHybridTable`, which may make a mapping without asking for the lease |
| `Plan`, `PauseForReview`, `LeaveAlone`, `LookUp`, `Begin` | the run of the content under the latest mapping: none, open, done, being imported |
| `Import` (`Fenced`) | `importCatalogueTable`: `assertImportLeaseOwned` in the transaction that writes the products |
| `Complete`, `Fail` | the end of an import, fenced by lease and run; an automatic import that fails sets its run FAILED whoever imports it by then (`Fails`) |
| `TakeUp`, `Propose`, `UpdateMapping` | the run for review: mapping worker and owner |
| `Confirm`, `AutoImport` | owner and automatic importer import a preview that is still of the source's version; `automatic` says which of the two a worker is |
| `Configure`, `Edit` | another sheet is chosen; somebody edits the sheet |
| `Age`, `ExpireLease`, `Crash`, `Freeze` | time and failures |
| `written` | ghost: claims that wrote products, and the reading of the last |

### TenantExport

The archive of a tenant's data, whose key is in a row and whose bytes are in the
object storage.

| In the module | In the code |
|---|---|
| `request` | a row of `tenant_lifecycle_requests` |
| `Create`, `Cancel`, `Retry` | the SQL functions `api_platform_*_tenant_lifecycle_request` |
| `Claim`, `Write`, `Upload`, `Verify`, `Publish`, `PublishNothing`, `Discard`, `SafelyDelete`, `Fail` | `TenantLifecycleProcessor.process`, one action per call |
| `PublishThrows`, `Crash` | the transaction throws before or after its commit; the process dies |
| `FindExpired`, `DeleteExpired`, `Clear`, `CleanupFails` | `TenantLifecycleReconciler.cleanupExpired` |
| `objects` | external: the object storage; a key has the lease's id |
| `left`, `doubted` | ghosts: keys around which a process or call was lost; publications committed and reported as failed |

The modules are composed where they share rows: `SupplierOrder`'s `Settle` and
`Dispatch` are what `Procurement` sees of a dispatch; `OrderRecognition` has the
assessment of its orders as a step; the Instagram and TikTok modules hold the
connections their replies go through. The services of the worker share no other
rows but the tenant's, whose freeze each of them models; so `MCWorker` and
`MCLive` put one instance of one service in every behaviour (`focus` says which),
which checks each of them on its own instance in a single run.

`ProcurementProofs`, `SupplierDispatchProofs`, `TikTokDeliveryProofs`,
`CatalogueSyncProofs`, `OrderRecognitionProofs`, `UkrposhtaShipmentProofs`,
`TenantExportProofs` and `ReplyDraftProofs` hold the proofs. Where a service is
close to another, its proofs are a section of the other's module, about a named
instance: `TikTokToken` and `InstagramDelivery` in `TikTokDeliveryProofs` (`Token`,
`Instagram`), `SheetsExport` in `OrderRecognitionProofs` (`Sheets`),
`CatalogueImport` in `CatalogueSyncProofs` (`File`) and `NovaPoshtaShipment` in
`UkrposhtaShipmentProofs` (`Nova`). `MCProcurement`,
`MCProcurementSafe`, `MCSupplierDispatch`, `MCTikTokDelivery`, `MCWorker` and
`MCLive` have the instances for TLC; the run `archive_v_cancelled` checks
`TenantExport` itself.

## Runs

| Run | Question and answer | Instance |
|---|---|---|
| `procurement_safe` | Two managers at once, one with any request (imports apart), one who approves, cancels and hands off: can a step reserve more than there is, or strand an item in SENDING? No (`NoOversell`, `SendingIsDispatched`). Does the list find every order under the summary it shows, and under that only? Yes, with exactly two exceptions (`ListedOnce`). One manager at a time: is what is reserved there, and of an item decided IN_STOCK, and does the stock fall by what is consumed? Yes (`SerialStockCovers`, `SerialReservesInStock`, `SerialStockFalls`). | one order of two items, one product, stock up to 2; quantities up to 2 for one manager and 1 for two; crashes between any two transactions |
| `procurement_v_handoff_twice` | Two hand-offs at once lower the stock twice (finding). | one item |
| `procurement_v_cancelled_reserved` | An approval racing a cancellation leaves a cancelled order with an active reservation (finding). | one item |
| `procurement_v_unreserved_handoff` | An order cancelled and approved again is READY before it is assessed, and handed off with nothing reserved (finding). | one item |
| `procurement_v_late_correction` | A dispatch fits between the guard of a correction and the correction (finding). | one item |
| `supplier_safe` | Do leases, retries, takeovers, redelivered jobs and freezes keep the supplier order consistent, and implement `SupplierOrder`? Yes; an item is SENDING only for a dispatch that is open or was given up in a freeze. | two items, two dispatches, two workers, two attempts; one lost claim or one freeze (`FewFaults`); items and workers symmetric |
| `supplier_v_frozen` | A delivery failed because the tenant is frozen leaves its items SENDING with nothing to move them on (finding). | one item, one freeze |
| `tiktok_safe` | Is a reply sent at most once per request, only through its own connection, never reopened by a late answer, and can a refusal of an old connection shut a new one? Yes, yes, yes, and no. | one reply, two workers, two managers retrying, two attempts, two retries, two connections, one crash |
| `tiktok_v_retry_race` | Two managers who retry one rate-limited reply at once have it sent twice (finding). | one reply, one attempt, two retries |
| `worker_safe` | Shipments, Instagram replies, recognition, drafts, exports, imports, synchronization, TikTok's tokens and archives, each on instances of its own: see below. | twenty-one instances, in `MCWorker` |
| `archive_v_cancelled` | Is every archive found by the clean-up once its seven days are over? Not one whose request was cancelled when it was ready (finding). | one worker, one claim, nothing lost |
| `worker_live` | Do replies over both channels, supplier messages, recognition events, drafts and uploads end? Yes (`DeliveriesEnd`, `JobsEnd`). Is an approval whose assessment was lost made good? Yes (`ApprovedIsAssessed`), while two orders, a manager, imports, the backfill and crashes compete for one unit; no step reserves more than there is (`NoOversell`). | seven instances, in `MCLive` |

What `worker_safe` shows, and with which exceptions, each of which TLC reaches:

- `ParcelsAreAccountedFor`: Ukrposhta makes one parcel at most, whatever crashes;
  Nova Poshta makes another waybill only after a claim was lost, or after the
  search for the first one was rate limited.
- `CreatingHasAttempt`: what is CREATING has an attempt that goes on; at
  Ukrposhta, unless a freeze came between the claim and the parcel.
- `CancelledIsDeleted`: what reads CANCELLED is not on its way.
- `GoesForward`: tracking and late creations never take an Ukrposhta shipment
  back; a late model never replaces an owner's mapping of a catalogue; a late
  refresh never replaces a newer pair of tokens nor brings a disconnected
  account's back; a late worker never replaces a published archive nor revives a
  cancelled request.
- `SendsAreAccountedFor`, `EchoSettlesUnknown`: a customer gets an Instagram reply once more than claims were lost and retries written;
  an UNKNOWN reply waits for its echo; an echo becomes a second message only
  where it may have missed its reply (outside its window, matched already, or with
  more open replies than the code takes), or with another reply of the same text in
  the window; and it settles another reply than its own only where it may have
  missed its own.
- `RecognisedOnce`, `StuckOnlyIfLost`: one order and one set of items per
  message, and an evaluation that agrees with its order; only a run that died
  leaves AI_PROCESSING.
- `ModelIsAskedOnce`: of a trigger and of a draft once, of a customer's message
  once more for each failed run or outlived claim.
- `StaleIsOutrun`: a draft is STALE only if a message or a product outran it, or
  if its message has no words.
- `ExportFollowsOrder`: a second row is made only if an export was asked for
  while one was under way; what SUCCEEDED is the latest approved correction
  unless that, a fault or a freeze came in between; nothing unapproved is shown but
  a row whose status was read before a correction and whose items after it.
- `ImportFollowsMapping`: a file's products are written once, with the mapping
  its run names unless an owner remapped it between the automatic import's read
  and its claim; what reads COMPLETED, of a file or of a sheet, was written.
- `TokensAreKept`: one job at a time refreshes the tokens of a connection, with
  the refresh token its row has, and the pair it gets is written - unless the
  lease lapses during the call, an answer is lost or negative, a waiting job gives
  up or a token has expired.
- `ArchivesAreAccountedFor`: every archive in the storage is one that the clean-up
  will find, or somebody is about to publish or delete it, unless a process or a
  call was lost around it, or its request was cancelled when it was ready: then
  nothing looks for it any more (`archive_v_cancelled`); an archive that is ready and not expired is in the storage, unless
  its publication was reported as failed.
- `WritesGoForward`: each import of a sheet has a later claim and a reading no
  older than all before it, and of the chosen sheet.

Why the bounds are enough to be worth something: every hazard needs two actors
and one contested row. Two items make partial summaries, an order with one item
dispatched and one reserved, and two items of one product; two units make the
difference between too few and enough; two orders make competition across
orders. Two attempts give a retry and a last attempt; two dispatches a second
click after a failure; one stall a takeover; two retries of a reply two managers
who collide; two connections an old and a new generation. One reply is enough:
replies share only the connection, which its own workers and the environment
move as freely as another reply's would; echoes, which replies compete for, have
instances with two replies: of one text, all compared (`Echo`) or only one
(`Guess`), and of two texts with one compared (`Crowd`). Three are compared in the
code; one of two shows what three of four do. `MAX_ATTEMPTS` is 5 in the code
and 1 to 3 here: attempts beyond the second repeat the first. Three claims of a
shipment make a search after an unknown outcome, and one more. Three versions of
a source are a claim, its takeover, and one between them. What is proved (below)
does not depend on the bounds. The three properties whose names begin with
`Serial`, and `CorrectedBeforeFulfilment`, need one manager at a time: their guards
and their effects are not under one lock, and with two managers what commits in
between falsifies them (`procurement_v_handoff_twice` and
`procurement_v_late_correction` show the two with lasting effect).

Fairness. `Procurement!FairSpec` is strong fairness of the backfill's steps per
order: it runs every five seconds over the 25 orders that wait longest and tries
again what failed, so as long as fewer than 25 orders wait and an assessment
does not fail for ever, none is passed over. (With 25 unassessed orders of
frozen tenants the batch of the code never gets to anybody else's: that is
listed as a hazard and excluded by the assumption.) Managers, owners and the
administrator owe no fairness, anywhere. `MCLive!FairSpec` is weak fairness of
each worker, of the reconcilers and of time, service by service: the timers run
for ever, BullMQ hands jobs to a free worker, and each call of a provider ends by
its timeout. A lease that nobody holds any more expires. Strong fairness is
assumed only of a run's beginning on an event (`Begins`): every job of the worker
may be busy with another run about the message again and again, but the worker
takes the jobs in their order. Crashes, lost claims and freezes are bounded, as they must be for
anything to end. `DeliveriesEnd` assumes that TikTok's channel is on from some
time on: while it is off, the reconciler wakes nobody. `JobsEnd` asks of a draft
only while drafts are enabled and the tenant is not frozen.

Deadlock is checked in every run but the three of the worker's services, whose
bounded instances really finish: no message, retry, attempt or edit is left.

## Proofs

An invariant that somebody wants to read is seldom inductive. Each module below
has an `IInv` that is: it holds at first, every step keeps it, and it implies
what is stated. TLC checked every `IInv` on a small instance before it was
proved. The proof that a step keeps it has one lemma per action, or per kind of
action where many change the same thing.

`ProcurementProofs`, for all products, orders, items, requests and duties:

- `TypeCorrect`, `NothingStrandedInSending`: invariants, from `IInv` = types,
  `JobsOfOneOrder` (a request works on one order and its snapshot is of that
  order's items), and the property. Without `JobsOfOneOrder` a request could, for
  all the types say, commit for no order.
- `ReservesNoMoreThanThereIs`: `Spec => NoOversell`, an action property. The
  argument counts units: `HeldUnits` is a finite set of pairs, granting one line
  adds at most its quantity (`HeldAdds`); for an assessment the last granted item
  of a product (`LastItem`, by the well-foundedness of the naturals) was checked
  against all that was granted before it (`AssessStaysBelow`).
- `FiltersAgree`: `ListedOnce` follows from the types alone, by the cases of the
  summary, of every order and every mix of statuses: the order in which the code
  asks about the statuses is what makes its SQL conditions exclude each other, but
  for `HandedOffAndReopened` (`UnapprovedIsFound`) and `FoundTwice`
  (`UnassessedIsFound`), where the theorem says that they do disagree.
- `SerialReservesInStock`, `SerialStockCoversReservations`,
  `SerialStockFallsByConsumption`: the rules
  that each request checks once and then relies on. They are theorems under a
  hypothesis on the constant `Duty`: `OneAtATime`, one process at most is given
  requests (the Telegram worker still settles deliveries at any time, and any
  request may stop between its transactions), and for the two about the stock
  `NoImports`, since an import counts it anew. The behaviours of `MCProcurementSafe`
  whose `focus` is `Serial` are such an instance. With overlapping requests they do not hold in general: two hand-offs at
  once lower the stock twice (`procurement_v_handoff_twice`). `SerialInv` says that what a request has read is still so when
  it commits, which is what the code relies on without checking it again.

`SupplierDispatchProofs`, for all items, workers, dispatches, attempts, lost
claims and freezes:

- `TypeCorrect`, `OrderedItemsWereAskedFor`, `FailuresAreReported`: from `IInv` =
  types; workers work on deliveries; who is about to report a success has sent;
  who finishes has a result; and a failure that nobody was told of needs a
  freeze. The fence is what the proof of `Finish` turns on.
- `DeliveriesImplementSupplierOrder`: `Spec => Abstract!Spec` under `outcome`,
  which hides deliveries, leases and workers. A freeze is `Abandon`.
- `SendingItemsAreSettled`: `SendingIsSettled` speaks of items, dispatches and
  outcomes only, so that it is shown of `SupplierOrder`'s steps and comes back
  through the refinement.
- `OnlyLostClaimsResend`: `ResendsOnlyAfterStall` bounds what was sent, and the
  invariant counts what may still be (`SendsAreCounted`): times a delivery
  reached the supplier, workers that are sending it and the claim that is still
  to come are never more than one and the lost claims. A worker that is to put
  the delivery back leaves room for the next claim; an expired lease takes its
  room from the stall. `LeasesAreClaims` says that no two workers hold one lease.

`TikTokDeliveryProofs`, for all messages, workers, managers, attempts, retries,
connections and crashes:

- `EachRequestSendsOnce`: `OneTextPerRequest` is not inductive. `SendInv` adds
  who may still send: a worker that has claimed and has not called, or is about
  to put the message back, is alone with its message and retry (`LiveIsAlone`),
  which was not sent yet (`LiveIsUnsent`); a PENDING message is in nobody's
  hands (`PendingIsUnsent`); and who holds the lease claimed after the last
  retry (`HolderIsCurrent`), so that a late worker cannot put back what a
  retry reopened. Steps are of five kinds (`QuietStep`, `ReachesStep`,
  `ClaimStep`, `PutBackStep`, `OpenStep`), and each action is one of them.
- `RepliesKeepTheirConnection`, `RefusalsShutTheirConnection`: from `AccountInv`,
  which remembers what the second look found (`SendsToItsAccount`), whose
  refusal is being written (`RefusedIsUnusable`), that a connection is the last
  one made (`LatestIsConnected`) and whose expiry a page has seen.
- `SettledRepliesStay`: the action property, `TypeCorrect`: the types.

There, of `TikTokToken`, for all jobs, generations, pairs and claims
(`TokenBounds`: the three bounds are naturals):

- `RefreshesExclude` (`OneRefresh`) and `TheLastPairIsKept` (`LastPairIsKept`).
  Leases are unique and of one job each (`TokenLeasesDiffer`); what a job has read
  was there, and the pair it has is the row's, or newer than the row's while it
  writes under the lease (`TokenJobFits`); of a generation for which nothing was
  lost, who refreshes has a lease that has not lapsed and writes the newest pair
  (`TokenQuiet`), and nobody is about to shut the connection. The last is the
  reason why the newest pair is the row's or about to be.
- `NoPairIsTakenBack`: `[][PairsGoForward]_vars`, from the same invariant.
  `TokenTypeCorrect`: the types.

And of `InstagramDelivery`, for all replies, workers, managers, retries, stalls
and echoes (`InstagramBounds`: replies and workers are finitely many, a reply is
neither NoMessage nor a text):

- `RepliesAreAccountedFor` (`SendsAreAccountedFor`). `RepliesAccounted` counts for
  each reply the texts sent, the workers that may still send it and the claim that
  is free: never more than one, the stalls and the manager's retries. A claim is
  free while the reply waits, when its lease has expired, and when nobody who will
  settle it holds the lease (`MayBeClaimed`); an expired lease takes its room from
  the stall if its worker goes on and from the crash if it does not. A worker
  that is to put the reply back leaves room for the next claim, which needs that no
  two workers hold one claim (`OneClaimEach`), and that attempts, from which
  leases are drawn, never start again (`Unwritten`, `WorkersKnowReplies`).
- `UnknownRepliesAwaitEcho` (`[][AwaitsEcho]_vars`): every action that writes a
  reply but an echo's and a retry's asks for another status than UNKNOWN.
- `OnlyAmbiguousRowsAreAdded` (`[][AddsAmbiguousRow]_vars`): only what was written
  has a window (`WindowsAreOfWritten`), so that a reply without provider id that is
  alone of its text in the window, with no more open replies than the code takes,
  is the echo's one candidate.
- `EchoesSettleTheirOwn` (`[][SettlesItsOwn]_vars`): where all open replies are
  taken and the echo's own is among them, it matches, and so no other is the only
  match.
- `InstagramTypeCorrect`: the types.

`CatalogueSyncProofs`, for all processes, contents, claims, edits, mappings,
crashes and lost leases (`Bounds`: the three bounds that make a type are
naturals):

- `ProductsGoForward`, an action property, and `CompletedRunsWereWritten`. That
  only the latest claim writes is the fence; that its reading is no older than
  the last written one needs the invariant. Claims are of one process each and
  none is later than the source's version (`ClaimsAreOnes`); who has yet to
  import has not written, and who has imported has (`WritesAreClaims`); the runs
  of a claim have its reading (`RunsHaveReading`), since a preview is imported
  later under that reading; readings of the latest claim, in a worker or in a
  run, are current (`ReadingsAreCurrent`), and none is of the future
  (`ReadingsArePast`). Steps are of five kinds (`QuietStep`, `ClaimStep`,
  `ReadStep`, `WriteStep`, `ConfigureStep`); each preserves the invariant.
- `TypeCorrect`: the types, of which the review's key of a reading is the part
  that is not obvious (`ReadingsHaveKeys`).

There, of `CatalogueImport`, for all workers, owners, uploads and mappings
(`ImportBounds`: the bound of mappings is a natural):

- `ImportsFollowMapping` (`ImportFollowsMapping`): one worker or owner at most has
  begun the import and not ended it (`BegunByOne`), the run is PROCESSING as long
  (`BegunIsProcessing`), nobody else has written its products
  (`WrittenByBeginner`), and what the automatic import read is the run's mapping
  unless an owner corrected it since (`ReadIsMapping`).
- `NoAnswerReplacesOwners` (`[][OwnersMappingStays]_vars`): a late answer of the
  model finds another mapping or status. `ImportTypeCorrect`: the types.

`OrderRecognitionProofs`, for all messages, runs, faults, crashes, outlived
claims and freezes (`Parties`: no message is both a manager's and a customer's;
where calls are counted, `FiniteRuns`: the worker's jobs are finitely many):

- `MessagesAreRecognisedOnce`, `OnlyTheLostAreStuck`, `TypeCorrect`: from the
  facts that one run at most works on the order of a trigger, because its order
  is the unique row that this run created (`OneRun`), how far that run is
  (`RunRecognises`), and how an order goes with its lines and its evaluation
  (`MessageFits`, `ClaimFits`). Of a customer's message several runs may have
  an answer; the order and its items are one commit, and the unique key lets one
  through.
- `TheModelIsAskedOnce`, `EvaluationsFitOrders`: both count. Calls made, runs
  about to call and the claim still to come never exceed one and the failed runs
  (`CallsAreOwed`); answers about to be written, the order and an ignored
  evaluation never exceed the calls (`AnswersAreUsed`), so that an evaluation
  that reads IGNORED beside an order costs two calls.

There, of `SheetsExport`, for all workers, corrections, faults, freezes and
exports asked for while one is under way (`SheetsBounds`: the workers are finitely
many, the bound of corrections is a natural):

- `OneRowForAnOrder` (`OneRowUnlessRenewed`) counts: workers about the export and
  the export that is PENDING are one and those asked for meanwhile at most
  (`SheetsAskedForEach`), and each appends once, if it found no row
  (`SheetsAppendsOnce`).
- `ExportsAreCurrent` (`ExportIsCurrent`): as long as nothing was asked for
  meanwhile, nothing failed and nobody was frozen, there is one worker about it,
  what it read is what the approved order says, and what it wrote shows that
  (`SheetsCalmIsCurrent`); what is written was approved (`SheetsReadIsApproved`), or
  its items were read after a correction (`SheetsItemsFit`).
  `SheetsTypeCorrect`: the types.

`UkrposhtaShipmentProofs`, for all workers, claims, versions, crashes, outlived
leases and freezes (`Bounds`: the bound of claims is a natural, that of versions
an integer):

- `OneParcelIsMade`: the marker is committed before the parcel is asked for, by
  the claim's only holder (`ClaimsAreOnes`). Without the marker there is no parcel
  (`MarkFits`); a worker that prepares under a valid claim finds it unset, and one
  that posts is the only one and first (`ClaimFits`). What makes it inductive is
  `ReadFits`: the row that a worker read before its claim, which the claim does
  not read again, cannot miss a marker set since, unless the claim then fails on
  status or attempts.
- `CreationsAreTaken`, `CancelledShipmentsAreDeleted`, `TypeCorrect`: with what
  an answer may say of the parcel (`AnswerFits`, `ParcelFits`).
- `StatusesGoForward`: `Spec => GoesForward`, an action property, from a second
  invariant (`Progress`): a creation is open only while the shipment is CREATING
  and has no document, only a shipment with a document is followed or cancelled,
  and what tracking is to write lies ahead of the status it read, which its write
  compares.

There, of `NovaPoshtaShipment`, for all workers, claims, versions, crashes,
outlived leases, rate limits and freezes (`NovaBounds`: the workers are finitely
many, the bound of claims is a natural, that of versions an integer):

- `NoWaybillUnaccountedFor` (`WaybillsAreAccountedFor`) counts: waybills, workers
  about to ask for one, workers that look for an earlier one while there is none,
  and one more if the creation may be claimed again without finding any
  (`Ticket`), are one, the claims lost and the searches that were rate limited at
  most (`Accounted`). What a worker knows of the attempt it read, and of its
  claim, is still so unless it lost the claim (`ReadFits`, `CreateFits`,
  `SyncFits`).
- `NovaPoshtaCreationsAreTaken`, `NovaPoshtaCancelledAreDeleted`,
  `NovaPoshtaTypeCorrect`: with what the shipment says of document and parcel
  (`DraftIsFresh`, `DocumentIsMade`, `WaybillIsParcel`).

`TenantExportProofs`, for all workers, claims and lost processes (`Bounds`: the
two bounds are naturals):

- `ArchivesAreKnown`, `ReadyArchivesExist`, `TypeCorrect`: the key of an archive
  has the lease's id. Leases are unique (`LeasesAreOnes`), so the key of a worker
  that has not published is neither the request's nor the clean-up's, and whoever
  deletes an object deletes his own, unless the publication is doubted
  (`WorkerFits`); the clean-up has the request's key only when it is over and
  clears it only when the object is gone (`CleanerFits`).
- `PublicationsStay`, an action property, `[][PublishedStays]_vars`.

`ReplyDraftProofs`, for all drafts, workers, messages, edits, switches, crashes
and outlived leases (`Numbers`: the bounds that make a type are naturals, and
there is a first draft):

- `DraftsAreAskedOnce`: a draft that is not marked was not asked about, and the
  one worker that is calling found the mark unset and set it as the claim's
  holder (`DraftFits`, `WorkerFits`, `ClaimsAreOnes`).
- `OnlyTheOutrunAreStale`: not inductive alone, since the last check looks at
  the products the worker remembers and not at those of the row: the holder of a
  claim remembers what the row cites (`WorkerFits`). Nobody cites a later edition
  than there is, so who is outrun stays so; and a message that is not the latest
  with words has no words or a later message after it (`OlderIsOutrun`).
- `TypeCorrect`: the types. Most steps begin no work and follow from one lemma
  (`NoWorkBegins`).

Assumptions on constants are `ProcurementAssumption`,
`SupplierDispatchAssumption` and `TikTokDeliveryAssumption`: items are a finite
set of naturals (their ids, in the order the code sorts them), each of one order;
quantities are positive; NULL is no product. TLC evaluates them. The other
modules state what they need as hypotheses of their theorems, named above; every
instance that `MCWorker` checks satisfies them.

Two attempts at a proof that failed said something of the model.
`procurementSummaryFor` and the claim of a recognition were CASE expressions
whose arms overlap; TLA+ may choose any of them, TLC takes the first, the code
the first as well. They are chains of IF now, as in the code. And one
expression was beyond the prover though right: an `@` in a record's EXCEPT within
a function's, in `Settled` of the replies on Instagram; it names the field now.

Only model-checked:

- Liveness (`ApprovedIsAssessed`, `DeliveriesEnd`, `JobsEnd`), which the prover
  does not reach.
- That `MCWorker` and `MCLive` put the services side by side. Their properties are
  conjunctions over instances; for safety, each conjunct is a case of a theorem
  about its module.

Every invariant and action property that a passing run checks is thus proved for
all values of the constants that satisfy the hypotheses named above, the types
included (`SerialStockCovers`, `SerialReservesInStock` and `SerialStockFalls` are
what the theorems beginning with `Serial` say, of the behaviours with one manager): of these only `OneAtATime` and `NoImports` restrict what the system
does, and only in the theorems whose names begin with `Serial`. What the violation
runs refute is refuted by TLC's counterexamples.

## Known weaknesses of the code

Beside the findings of PROJECT.json, the models show these; the properties above
name them as exceptions, because no document of the repository denies them or
because the statement that holds is the more useful one to check.

- Nova Poshta: a search for an earlier waybill that is rate limited makes the
  attempt RETRYABLE, which forgets that its outcome was unknown: the next claim
  creates another waybill. So does a claim lost between answer and commit if the
  carrier does not list the waybill yet.
- Ukrposhta: a freeze between the claim and the parcel fails the attempt and
  leaves the shipment CREATING. Both carriers: a STATUS_SYNC or CANCEL attempt
  whose worker dies stays PROCESSING; no query takes it up again.
- Recognition: an order whose run dies after creating it stays AI_PROCESSING; the
  next run finds the order and returns.
- Drafts: the API takes a message without words for the latest, the worker does
  not: a draft asked for such a message always becomes STALE.
- Export: without a lease a crash leaves PROCESSING for ever; a correction or a
  re-approval during an export is overwritten by SUCCEEDED and never exported;
  two pollers may append two rows. The order's status is read in one statement and
  its items in another, so that items corrected in between, which nobody approved,
  are exported under the older APPROVED
  (`apps/worker/src/google-sheets/google-sheets-sync.processor.ts`, lines 36-40;
  line 53 says 'Only approved orders can be exported').
- Order list: an approved order with an UNASSESSED item beside an UNAVAILABLE or
  a SENDING one is shown as UNASSESSED and found under two filters; one reopened
  after its hand-off is found as HANDED_OFF and shown as UNASSESSED
  (`apps/api/src/orders/orders.service.ts`, lines 530-556; the design,
  `docs/superpowers/specs/2026-09-10-procurement-and-telegram-notifications-design.md`,
  has sorting and filtering use the summary's values).
- Corrections: guard and correction are two transactions (finding
  `procurement_v_late_correction`).
- Instagram's echoes: three open replies of the window are taken before their texts
  are compared, in no order. With more of them open, the echo of a reply may become
  a second message, or settle another reply of its text.
- Shipments at Nova Poshta: a status answer is written by the shipment's id, as the
  carrier's code says or, if that is unknown, as the shipment was when the attempt
  was read: one that comes back
  after a cancellation takes CANCELLED back to CREATED
  (`apps/worker/src/delivery/shipment-status.service.ts`, line 55).
  `CancelledIsDeleted` does not deny it: it says what CANCELLED means while it
  lasts.
- Import: an upload whose confirmation or automatic import crashes stays
  PROCESSING, and uploading the file again returns that run. The automatic
  importer asks about no freeze, and writes the mapping it read although an owner
  remapped the run before it claimed it. When it fails late, it sets the run FAILED
  by its status alone (`catalogue-auto-importer.ts`, lines 74-77), although another
  process of a newer claim may be importing it: the products are then written and
  the run reads FAILED.
- Synchronization: a run is found by a hash of what the sheet says, so that a
  sheet edited back to what it was finds its COMPLETED run; nothing is imported
  and the catalogue keeps the later content. A review that is COMPLETED or
  CANCELLED is not opened again, so that the same content after a later mapping
  of another structure pauses the source with nothing to review; the design
  (`docs/superpowers/specs/2026-08-31-product-catalog-import-design.md`) promises
  a review task.
- TikTok's tokens: a job that waits for 100 attempts, or whose late answer finds
  the lease taken, has an error that is not retryable: its reply shuts the
  connection and clears the lease under which another job is refreshing, whose
  pair is then lost. Disconnecting during a refresh loses its pair, too: what is
  revoked is the token of before.
- Archives: cancelling a request that is EXPORT_READY leaves its object, which no
  clean-up looks for (finding `archive_v_cancelled`); so does a process that dies between upload and publication. A
  publication that is committed and reported as failed deletes the archive of a
  request that stays EXPORT_READY.
- Supplier: a dispatch given up in a freeze leaves its items SENDING (finding
  `supplier_v_frozen`).

## Not modelled

- Dashboard, search and the web interface have no state of their own, and HTTP
  clients appear as the choice of their answers. Wording, audit records and
  localisation change nothing that a property is about.
- Authentication, sessions, team and Telegram linking work on single rows in one
  request or one transaction: there is no second step for anything to fall
  between.
- A payment is one serializable transaction that is tried three times: the
  database orders them, and what is left is arithmetic over one order's rows.
- Demo leads, avatars and personal Telegram alerts repeat the claims, leases and
  retries of the deliveries that are modelled; AI usage records are reserved and
  completed by one process each.
- Of the tenant lifecycle: what an archive contains, its download (which reads),
  the dry runs of the retention rules, which count rows and change none, and a
  deletion, which this version of the code does not carry out.
- Of the modelled parts: payments, commercial terms and delivery data of an
  order; labels, address directories and carrier settings; what a mapping says
  and does to each product (one transaction); the schedule of a source;
  TikTok's limit of 30 replies a minute.
- Most lines of the repository by count are generated database client code, user
  interface and fixtures, which have no behaviour to model.

## Plan

Done: procurement; supplier orders; replies over TikTok and Instagram;
recognition; shipments; drafts; exports; catalogue import and synchronization;
TikTok's tokens; archives of tenants.
What may follow, in this order:

1. Payments against hand-off.
2. Liveness of archives, for which the number of claims would have to be
   abstracted away.
3. An abstract delivery that `InstagramDelivery` and `TikTokDelivery` both
   implement, as `SupplierOrder` is of `SupplierDispatch`.
