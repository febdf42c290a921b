# TLA+ models of the Bippa/IPPA order backend

This directory verifies the parts of the backend (`src/backend/src`) whose
correctness depends on the order in which requests, background calls, webhooks
and external systems act: the order sessions in which a cart becomes an order,
the queue that pushes orders to the shop's ERP, the charging of orders through a
payment gateway, and the import of the catalogue from the ERP. TLC checks the
models on small instances; TLAPS proves their safety for every instance, and for
what the code loses, what alone it is lost by.

## 1. The system

Bippa/IPPA is a multi-tenant catalogue and ordering application: a Next.js
backend over PostgreSQL with row-level security, Redis for the stock cache and
the realtime adapter, socket.io for updates, and a Next.js frontend. The backend
runs as several processes. There is no worker process: background work is a
promise started by a request (`void dispatchOrderPushes(...)`) or an endpoint
called by an external scheduler.

Every transaction is opened by `withTenantTransaction` at READ COMMITTED.
Almost every multi-step operation is several transactions with network calls in
between, and few of them lock what they read. One action of a module is one
statement or one transaction that nothing else can observe half done; wherever
the code commits, awaits a network call, or reads without a lock and writes
later, the module has separate actions.

### Components

| Component | State | Operations | Interacts with | What is hard | What makes it correct |
|---|---|---|---|---|---|
| ERP order push (`services/erp/orderPushService.ts`) | `provider_orders`, `provider_order_attempts`; orders at the ERP | enqueue, resend, cancel, dispatch (claim, cancel, send, finish) | checkout, `markOrderPaid`, `cancelOrder`, the ERP | concurrent dispatches, unanswered ERP calls, stopped processes, edits during a send | one live ERP order per order, none lost track of, the queue drains |
| Charging (`services/payments/paymentChargeService.ts`) | `payment_charges`, `orders.payment_status`, `orders.status`; charges at the gateway | create charge (resolve, reuse or cancel earlier ones), apply an event | payment link, WhatsApp action, webhooks, gateway | concurrent requests, events before the answer, stale fetches, lost answers | paid means captured, a paid order stands, one open charge |
| Webhooks (`stripeWebhookService`, `mercadoPagoWebhookService`) | `payment_webhook_events` | verify, deduplicate, fetch, apply | gateway, charging | duplicates, reordering, rows not yet named | each captured payment reaches its order |
| Reconciliation (`paymentReconciliationService`) | `next_check_at` | poll due charges | scheduler, gateway, charging | must cover lost webhooks | same as above, without the webhook |
| Orders (`services/orders/orderService.ts`) | `orders`, items, freight | create, mark paid, cancel | ERP push, charging, checkout | unlocked check, unconditional write | an order moves only through its stages |
| Checkout (`orderSessionService`, `orderBookService`, `paymentService`, `paymentLinkService`) | `order_sessions`, `order_books`, `orders` | open or attach an order, edit, finalise, confirm by link | stock gate, ERP push | decisions on reads before the locks, sibling sessions of one order, links that outlive their session | an order holds what its sessions show, leaves the cart once and takes its sessions with it, reaches the ERP after every change |
| Catalogue and stock sync (`catalogSyncService`, `stockSyncService`) | leases, checkpoints, runs, items | discover, claim, process, finalise | ERP, scheduler | lease expiry, crash after claim, checkpoint before processing | no change is lost between two windows, a full run hides exactly what is gone |
| Stock gate and cache | Redis entries, `inventory_balances` | read through, invalidate, live check | sync, checkout | backfill racing invalidation | no closed order relies on an old balance |
| Notifications | `notifications` | enqueue, claim, deliver | orders | crash after claim | each is delivered or given up |
| Realtime, WhatsApp, AI tools, CRM, catalogue administration, clients, settings, platform, frontend | rows of their own | CRUD, broadcasts, calls to external services | all | little: single-row writes, best effort delivery | - |

`PROJECT.json` lists every component with its files and its status.

## 2. Modules

### ErpMirror: what the push promises
Per tracked order, `known` (version keys the ERP has seen) and `live` (those not
cancelled). `Create` needs nothing to be alive and a new key; `Cancel` removes
what is alive. It knows nothing of rows, calls or failures.

### OrderPush: the queue, its callers and the ERP
| Module | Code |
|---|---|
| `status, extId, attempts, due` | one `provider_orders` row per order: status, external_id, attempts, "next_attempt_at has passed" |
| `sentCount` | number of `provider_order_attempts` with outcome 'sent' |
| `content` | how many changes were committed to the order after checkout |
| `Edit`, `PaidByGateway` | a change that asks for a resend (`updateSession`, `markOrderPaid`), and the payment a gateway reports, which settles the order and asks for none (`paymentChargeService.ts:527`); `GatewayPaid` are the orders it can happen to |
| `request` | a running `enqueueOrderPush` / `requestProviderOrderResend` call: "asked" before its read, "enqueue" / "mark" before its write |
| `RequestFails` | such a call comes to nothing: an enqueue that throws or finds no integration, for the orders in `Unlucky` also a resend that throws into the catch of its caller (`orderService.ts:366`, `orderSessionService.ts:624`) or whose process stops after the commit it follows |
| `cPhase, cExt` | a running `cancelProviderOrderForOrder` call and the external_id it read |
| `phase, batch, resend, cur, active, saw, next` | a running `dispatchOrderPushes` call: claimed rows, those claimed out of 'cancelling', the row whose transaction is open, `activeExternalId`, the content read, the status it will finish with |
| `known, live, held` | the ERP: version keys it has an order for, those alive, content of the newest |
| `Claim` | `claimPendingProviderOrders`, one statement, committed alone. It takes what is due up to the limit, except rows whose lock another statement may hold at that instant (SKIP LOCKED) |
| `NextRow` ... `Finish` | one claimed row in its own transaction: cancel first, read, stock check, send, `finishAndLogAttempt` |
| `Crash` | a dispatch call ends with its commits undone; what it did at the ERP stays |

An ERP call ends "ok", "refused" (`nonRetryable`) or "unknown", and an unknown
call may have taken effect. Sending a version key again does not make a second
order: this is what the provider contract in `erp/types.ts` asks of a provider.
Content is a counter, an external_id is the version key it was created under.

### PaymentCharges: charging one order
One order, because charges of different orders share no row.
| Module | Code |
|---|---|
| `orderStatus, payStatus` | `orders.status`, `orders.payment_status` |
| `status, ext, method` | `payment_charges` rows: status, "external_id is recorded", method |
| `phase, todo, named, cur, seen, keep, reused, answer` | one `createOrderCharge` request: its snapshot of live charges and what it holds between awaits |
| `notices, handled, fetched` | notifications by charge and state reached, those answered for good, and Mercado Pago handlers between their fetch and their apply |
| `remote` | the charge at the gateway |
| `writing` | operators between their check of `orders.status` and their write |
| `ApplyEvent` | `applyPaymentChargeWebhookEvent`: row, order, siblings |
| `Prepare`, `CancelUnnamed`, `Fetch`, `ApplySeen`, `CancelAtGateway`, `CloseCancelled`, `Insert`, `Create`, `Record` | the transactions and calls of `createOrderCharge`, in its order |
| `StripeEvent`, `MercadoPagoNotice`, `MercadoPagoApply` | the webhook handlers |

The two gateways differ where the code depends on it: what the status mapping
says of a declined card, which states can be cancelled, which changes are
notified, whether Pix exists, and how a notification finds its row (Stripe by
the row id in the metadata, Mercado Pago by external_id). The order starts
"separado": `assertOrderChargeable` wants its items separated. Amount and expiry
of a Pix only decide whether it is reused, so that choice is left open.

### OrderPayment: what charging an order promises
`captured` (charges whose money was taken), `paid` and the order's status. Money
is taken charge by charge and for good; `Pay` happens once, after some charge took
money, and closes the order in the same step; besides it only an operator's
write (`Operate`) moves the status. It knows nothing of rows, requests,
notifications or fetches.

### PaymentReconciliation: PaymentCharges and the scheduler
Adds `scheduled` (rows whose next_check_at is set) and `checking` (fetched, not
yet applied) and runs `dispatchPaymentReconciliation` beside everything else.

### Checkout: from the first item to the confirmed order
| Module | Code |
|---|---|
| `sStatus, sClient, sOrder, sOnline, sItems, token` | `order_sessions` (status, client_id, order_id, channel online, payment_token_hash) and the keys of `order_session_items` |
| `oStatus, oClient, oItems` | `orders` and the keys of `order_items` |
| `call` | a running request: what it was asked and what it read before its locks |
| `BeginX`, `CommitX` | the two halves of each transaction: the reads without a lock and the checks on them; the locks, the re-reads, the checks on those, the writes |
| `BeginCreate`, `CommitCreate` | `createOrderSession`, and `ensureCustomerOrderSession` for a client without a live session; `ClientLocked` is their advisory lock |
| `Reconcile` | `reconcileFinalizedCustomerSessions`, in `customerActiveSession` and before a creation |
| `BeginEdit`, `CommitEdit` | `updateSession`, by the client and the seller. A client's body may change items; one that names the client or the status is not obeyed, but has the call write back what it read of them before its locks (`MayAsk`) |
| `Finalize`, `Checkout`, `Confirm` | `finalizeOrderSession`, `createCustomerOrder` from a session (`DirectCheckout`: without one), `confirmPayment`; all end in `Confirm` |
| `BeginLink`, `CommitLink` | `createPaymentLink` |
| `Separate`, `BeginPaid`, `CommitPaid`, `BeginCancel`, `CommitCancel` | `confirmOrderItemsSeparation`, `markOrderPaid`, `cancelOrder` |
| `Push` | the hand-over to the ERP queue after the commit; `Stop`: the call throws or its process stops |

Sellers are left out. An open order is looked up by client and seller
(`ordersModel.ts:443`), so the model lets a call find any open order of its
client or insert one beside them (`FoundOrNew`). A client's creation
(`byClient`) checks no status of the order it found: confirmed meanwhile, it
still gets the session's items (`orderSessionService.ts:304`). Payments that a
gateway reports also move an order; they are in `PaymentCharges` and, as a change
without a resend, in `OrderPush`. A creation does not lock the order it found: the foreign key only waits for a
`FOR UPDATE` holder, so its commit may follow any other. Quantities, prices,
freight, discounts and stock are left out: they decide whether a call throws,
which it may do anywhere before its commit. `order_id` is deliberately not
re-read by `updateSession` under the lock (its comment says why), and neither is
it in the model. Order books are left out: they hold no item and no order, and
the race of `orderBookLifecycle.ts:48` leaves nothing to check about them.

The history variables name what the properties except: `late` (a session tied to
an order that had left the cart), `revived` (made live again), `identified`
(given its client later), `mixed` (edited by a call that had decided on another
order), `lost` (a call that stopped before its hand-over). Each exception was
found by TLC and is a behaviour the code leaves open; without it the property is
violated.

### CatalogSync: importing the catalogue
| Module | Code |
|---|---|
| `clock, erpVer, listed, blocked` | the ERP: time of a reference's last change, whether it exists and passes `shouldPublishReference`, or exists and does not; a change is visible up to `Delay` ticks after its stamp |
| `checkpoint, fullDue, lease` | `catalog_sync_states` |
| `runMode, runStatus, windowEnd` | `catalog_sync_runs` |
| `item, attempts` | `catalog_sync_items` |
| `ver, variants, active, seenBy` | ERP version of the product row and of its variants, `is_active`, `metadata.lastFullRunId` |
| `pc, mode, from, run, upTo, left, queue, cur, snap, pub, ends` | a running `syncTenantCatalog` or `syncReferenceOnDemand` call |
| `StartSync` ... `MarkDiscoveryComplete` | mode and start of the window, lease, open run (`FindOpenRun`; `FailInterrupted` marks an interrupted discovery), end of the window and insert (`InsertRun`, any time read since the transaction before it), one page at a time, checkpoint |
| `Claim`, `Fetch`, `WriteProduct`, `WriteVariants`, `Complete`, `ItemFails` | `processDueItems` and `processReference`: at most `ClaimLimit` items claimed, an ERP read and two transactions per item. A reference that exists and is not for sale is written like any other, with `is_active` false (`Publish`); for one the ERP does not have only the product is hidden |
| `ListFinalizable`, `FinalizeRun`, `Release` | `finalizeRuns`, release of the lease |
| `LeaseExpires`, `SyncFails`, `MarkFailed`, `Crash` | the 900 s pass; something outside one item throws; the run is marked failed in a transaction of its own, which may fail too, before `Release`; the process stops |

The code compares times of the ERP with its own clock; the model has one clock
and puts the difference, with the ERP's own delay, into `Delay`. What the code
relies on is the assumption `Delay <= Overlap` (`overlap_seconds`, 120 by
default). The column takes 0 to 3600, so nothing enforces it: a shop that sets
it below the delay of its ERP loses changes, which the mutant
`WindowStartNoOverlap` shows. A retry that is waiting may be due or not at any claim. History:
`late` (a lease ran out under a working call), `stranded` (items claimed by a
call that stopped), `raced` (an import was overtaken by another or by the ERP),
`hidden`, `marked`.

### MCOrderPush, MCPaymentCharges, MCCheckout, MCCatalogSync and the Proofs modules
The MC modules only add the symmetry sets, and `MCCatalogSync` two restrictions:
an initial state without references that are there and not for sale (a change
makes one), and `LateBound`, that a behaviour with an outlived lease has no other
disturbance. The theorems, which are about `Spec`, have neither. They are in:
- `OrderPushProofs`, `PaymentChargesProofs`, `CatalogSyncProofs` and
  `CheckoutProofs`: what holds of the four components without any condition;
- `OrderPushLossProofs`: what the queue loses, and by what alone;
- `PaymentSequentialProofs`: what holds of requests that come one at a time;
- `PaymentReconciliationProofs`: the scheduler's polling, as it is and as it was
  meant.

Definitions whose comment starts with "Mutant:" are wrong variants of the
definition after them; they are used by no specification and exist to show that
each property notices the corresponding bug.

## 3. Runs

| Run | Shows |
|---|---|
| `OrderPushSafety` | two orders, one cancellable; two dispatch calls; an edit or a gateway's payment each; resend requests that fail; two attempts; one stopped process: an order not cancelled never has two live ERP orders, a live one is always named by the row or found by the next send, a 'sent' row names exactly it, no row is worked on twice or changed under its worker, and OrderPush implements ErpMirror |
| `OrderPushLiveness` | under `FairSpec`, without stopped processes: what is queued is sent, given up or cancelled |
| `OrderPushStuck` (violated) | a stopped dispatch leaves a row 'processing' that nothing claims again |
| `OrderPushStaleEdit` (violated) | an edit while the row is 'processing' is never sent |
| `OrderPushTwoAtErp` (violated) | a cancel overlapping a resend loses the external_id of a live order; the next resend makes a second one |
| `PaymentSafety` | two concurrent requests, two charges, both gateways, a lost answer, a stopped request, both operators: paid means captured, a paid order stays paid and closed, recorded terminal charges keep their status, and PaymentCharges implements OrderPayment |
| `PaymentSequential` | requests one at a time, all answered: at most one charge can take money, no charge the shop has closed can, and a Stripe payment reaches the order; until it does, its notification is still to be handled |
| `PaymentTwoLive` (violated) | two concurrent requests both open a charge |
| `PaymentPaidCharged` (violated) | a paid order is charged again |
| `PaymentNotReconciled` (violated) | a payment whose notification came too early never reaches the order, because reconciliation selects nothing |
| `CatalogSync` | two calls in either mode, a reference that changes once (to for sale, not for sale or gone), which the listing may show late, claims of one item at a time, and either an outlived lease or any two of: a failed item, a failed or stopped sync, a failing mark of the run, an import on demand. No change falls between two windows, no item has two workers, a succeeded run is complete, hides what is gone, hides what it saw only if another full run put its own mark on it since, and the checkpoint moves back only behind an outlived lease |
| `Checkout` | two sessions of one client, two orders, four calls of any kind, up to three at once. An order mirrors its session, a client has one live online session, no live session strays on a confirmed order, every change the shop makes to a confirmed order is handed to the queue, an order moves only through its stages, a client's late edits and revoked links do nothing to it |

Some properties are bounded on purpose. `OneLiveErpOrder` and its companions speak
of orders that are not cancelled locally: for a cancelled one the code only warns
the operator, and `OrderPushTwoAtErp` shows what can then happen.
`OneOpenAtGateway` and `ClosedTakesNoMoney` hold when requests come one at a time
and are answered; `PaymentTwoLive` shows why concurrency is excluded, and a lost
answer breaks both (the row becomes 'failed' while the charge lives on).
`CapturedIsKnown` speaks of Stripe: the handler of Mercado Pago gives up a
notification that comes before its row is named.
`TerminalStands` speaks of charges whose creation was recorded: until then
`markPaymentChargeCreatedRow` overwrites what an event wrote. The exceptions of
`Checkout` and `CatalogSync` are the history variables named in section 2.
`ClientEditsOnlyCart` has one more, which it spells out: the client's creation of
a session that found its order while it was a cart adds the session's items to
what the order has become. `EditReachesErp` speaks of the writes in the module,
not of a gateway's payment.
`QueueDrains` counts 'failed' as drained: that a resend does not renew a row's
attempts (`orderPushService.ts:381`) is what the code does.

### Bounds
- Two dispatch calls and two orders: every hazard of the queue is between two
  calls on one row, or between a call and one resend or cancel; the second order
  only shows that a batch of several rows keeps them apart. The proofs have no
  such bound.
- `MaxAttempts = 2`: a first attempt, a retry, and giving up all happen.
- `GatewayPaid` and `Unlucky` are all orders in `OrderPushSafety` and
  `OrderPushLiveness` and empty in the violated runs, so that each of those shows
  its own cause and no other.
- `MaxEdits = 1` / `MaxResends`: one resend of a sent row, while it is in flight,
  waiting, or given up. The two-at-ERP history needs two resends.
- `MaxCrashes`, `MaxLost = 1`: one stopped process and one unanswered gateway
  call, at any point.
- Two charges: a request meets at most one live predecessor when requests come
  one at a time, and two requests meet each other. `PaymentSequential`'s
  invariants were also checked once with three charges, with the same result.
- `MaxHandlers = 1` bounds Mercado Pago handlers at work at once; a handler still
  interleaves with requests, the gateway, operators and other notifications.
- `CatalogSync`: one reference, because items of different references share no
  row and closing a run looks at each product by itself; two calls, because every
  race is between the holder of the lease and one other; two runs, so that a full
  run meets another of either mode; `ClaimLimit = 1`, so that a claim may leave an
  item of the other run behind; four ticks, so that a window, its overlap and
  a late change fit; `MaxAttempts = 2` for a retry and for giving up; two
  disturbances, but an outlived lease alone (`LateBound`), because it already puts
  two calls on the same rows and with another one the states triple. The
  strengthened invariants of the proof were checked on the same instance.
- `Checkout`: two sessions for siblings of one order, two orders for the race of
  two attachments, four calls because the longest histories known to matter
  (create, cancel or confirm, a late edit, a late creation) take four; it was also
  checked once with five calls, two at a time. One item: quantities are left out
  and items of different keys never meet. The proofs have none of these bounds.
- `CatalogSync` and `Checkout` disable their deadlock check: with runs or calls
  used up, nothing is left to do. `PaymentCharges` does when every row id is used
  and every charge settled. `OrderPush` never stops
  (`OtherTrigger`), and its runs check for deadlock.

### Fairness
`OrderPush`: a running dispatch call, a running cancel, and the passing of a
backoff are weakly fair; a resend request is strongly fair because it may have to
wait for a dispatch slot, a bound of the model and not of the code. Triggers by
the shop's other orders keep coming (`WF(OtherTrigger)`): the code relies on
exactly this, since it has no worker or cron for the queue. Nothing is assumed of
operators or of what the ERP answers.
`PaymentCharges`: running requests and delivered notifications proceed; nothing
is assumed of customers, operators or of when a gateway settles. `ReconSpec`
adds that the scheduler keeps calling and its answers keep being applied.
`Checkout` and `CatalogSync` assume no fairness: calls are made by people and by
an external scheduler, and their properties are all safety.

## 4. Proofs

`OrderPushProofs` proves, for every finite or infinite set of orders and dispatch
slots and all values of the limits, from the assumptions named in `OrderPush`
(`Cancellable` is a subset of `Orders`, `None` is not an order, the limits are
naturals):

1. `TypeCorrect`: the type invariant.
2. `ExclusiveRows`: batches are disjoint (`WorkersDisjoint`) and every claimed
   row is 'processing' (`Claimed`). Each needs the other: a claim only takes rows
   that are not 'processing', hence in nobody's batch.
3. `ProcessingOwned`: only the finishing call ends 'processing' or changes the
   external_id of such a row.
4. `Inductive`: the invariant behind the rest. The three properties about the ERP
   are not inductive: they say nothing about a row that is being worked on. The
   fact they hang on is about the version key the next send would use: for an
   order not cancelled, either the ERP never saw that key, or the order under it
   is the only one alive. `Recorded` states it together with what the row's status
   says of its external_id, `SentAlive` what 'sent' says of it; `Attempt` states
   where each dispatch call stands with the row (what `activeExternalId` names, what may be alive before a send and
   before a finish); `Claimed` and `WorkersDisjoint` make that call the only one;
   `CancelsFollow` says that only a cancelled order is being cancelled.
5. `OneLive`, `Reachable`, `SentIsLive`: the three properties, from `IInv`.
6. `Implements`: `Spec => MirrorSpec`, by the refinement that reads `known` and
   `live` of the orders that are never cancelled; each action is one ErpMirror
   step or a stutter.

`OrderPushLossProofs` proves what each finding about the queue comes down to, with
the invariants above and the same generality. Its hypotheses are properties of
steps that the code mostly takes; the runs violate the conclusions exactly where
a step breaks them.

1. `StrandedForEver`, `OnlyStopsStrand`, `StopsStrandFew`: a row left in
   'processing' by a stopped dispatch is never reached again, nothing but a stop
   strands a row, and there are never more such rows than `ClaimLimit` for each
   stop (`StrandedStep`: a stop adds the call's batch, every other step leaves
   the set as it is; `Concludes`: no attempt finishes with 'processing').
2. `EditsAreSent`: a row at rest in 'sent' stands for an ERP order with the latest
   content if none of four things happens (`NothingIsMissed`): a resend finds its
   row in 'processing' (`ResendsFindRow`), a send takes effect and is not answered
   (`SendsAreAnswered`), the order changes without a request for a resend
   (`ChangesAreResent`, which a gateway's payment breaks), a requested resend comes
   to nothing (`ResendsRun`). The invariant `Latest` follows a change from its
   commit to the ERP: a resend is on its way, or the call has read it, or the ERP
   has it (`Told`, `Telling`); the next version key is unknown to the ERP outside
   an answered send (`Unsent`), since the ERP takes a key it knows for the order it
   has. None of the four can be dropped (section 5): for each, TLC finds a history
   that breaks the property while the other three hold, and none while all four do
   (one order, two changes; 11,257 states, `Latest` included).
3. `OnlyStaleCancelsDouble`: no order, cancelled or not, has two live ERP orders,
   if a cancel that clears the row clears the external_id it asked the ERP to
   cancel (`CancelsAreCurrent`). `OneLive` needs no such condition, but says
   nothing of cancelled orders. The invariant is `Mirrored` for all orders with
   `Withdrawn`: what a cancel read is older than the next version key, and no
   longer alive once it goes on to the row.
4. `CancelledRowsAreGone`: a row that says 'cancelled' has nothing alive at the ERP,
   if also every send that takes effect is answered. With `KeptAlways` it only needs
   `Unsent` for all orders: the one order a cancel could overlook is that of a send
   nobody recorded. Neither hypothesis can be dropped (section 5).

`PaymentChargesProofs` proves, for every number of charge rows, requests,
handlers, lost answers and stopped requests, either or both gateways, and any
operators that mark paid or cancel (the assumptions of `PaymentCharges`):

1. `ChargeTypes`: the type invariant.
2. `ChargeInvariant`: the invariant behind the rest. `PaidMeansCaptured` alone is
   not inductive: an event, a notification or a fetched status that says "paid"
   may be applied much later. So `Witnessed` follows "paid" to wherever it can be
   held (a request that fetched it, a notification under way, a Mercado Pago
   handler) and says that the charge is captured there too. It stays true because
   captured is final, except that a creation could overwrite it; `Owned` (a row
   being created belongs to one request and is named by no answer) and `Existing`
   (such a charge is not at the gateway yet, one without a row neither, a named
   one is) exclude that, and that a status fetched or announced can be "none".
3. `PaidWasCaptured`, `PaidIsClosed`, `PaidStands`, `TerminalIsFinal`: the four
   properties of `PaymentSafety`. `OrderStep` sorts every step by what it does to
   the order. `TerminalStands` needs `Owned`: `Record` writes without looking, and
   only ever to a row that no recorded answer names.
4. `Implements`: `Spec => PaymentSpec`. A step of the gateway captures one charge
   or none, `OrderStep` sorts the others, and the payment finds a captured charge
   because `PaidMeansCaptured` holds after it.

`PaymentSequentialProofs` proves what the code promises of its own requests, under
the hypothesis `[]OneAtATime`: at most one request runs, and none was stopped or
left unanswered. Webhooks, settlements, handlers and operators still come at every
step, and no number is bounded.

1. `SequentialInvariant`: the invariant `SInv`. Call a charge hot if its row is
   live and it has money in it or can still take some. There is one hot charge at
   most (`OneHot`), and money is in, or can go into, rows that are live or paid
   only (`Charged`). A request that may insert a row has the hot charge among those it
   still has to deal with (`Attempts`), which it can, because all rows but its own
   are named or over (`Unnamed`); and what says that a charge is gone, wherever it
   was fetched or announced, is about a charge that is gone (`Truthful`), so no
   late answer closes a hot one.
2. `OneOpen`, `ClosedIsSafe`: `OneOpenAtGateway` and `ClosedTakesNoMoney`.
3. `CapturedKnown`: a captured Stripe payment is in the order, or its notification
   is still to be handled. This is the safety half of `CapturedIsSettled`.
4. `SingleCallerIsSafe`: with one caller and nothing stopped or unanswered the
   hypothesis always holds, so the three are theorems of `Spec` itself, for any
   number of charges and handlers: the instance `PaymentSequential` checks.
5. `OneLiveRow`, `StripeOneLiveRow`: no two live rows, with Stripe; with Mercado
   Pago unless a row that expired is made live again (`ExpiredRest`). The
   invariant `OneLive` is like `OneHot`, but of rows; `Unexpired`: Stripe reports
   no expiry.

`SInv` was TLC-checked with two callers of which one runs at a time (188,907
states) and with one caller and three charges (6.9 million), `OneLive` with the
same two arrangements (1,164,882 and 329,238).

`PaymentReconciliationProofs` proves both sides of the finding about the polling:

1. `NeverScheduled`, `ReconcilesNothing`: a row gets its first `next_check_at` from a
   check and only rows with one are checked, so no dispatch ever has a charge at
   hand, and the composition is PaymentCharges: `ReconSpec => Spec`.
2. `PollingPaysCaptured`, `PollingImplements`, `PollingKeepsTerminal`: it is safe to mend.
   `AnySchedule` is the composition with `scheduled` left open; whichever rows are
   polled, and however late the answer is applied, what `PaymentCharges` promises
   still holds. `Checked` adds to its invariant that a fetched "paid" is captured.

`CatalogSyncProofs` proves, for every set of references and calls, every number
of runs, attempts, changes and disturbances, and any `Overlap` and `Delay` with
`Delay <= Overlap`:

1. `TypeCorrect`, and with it the base of the rest (`Base`): what a call holds in
   each phase (`PhaseOK`), that a run being staged is staged by one call, listed
   by nobody and has no item for what is left to ask (`StageOK`), that a run not
   inserted yet has no items (`Untouched`), that a run listed for closing has no
   open item, and no failed one if listed as complete (`EndsOK`), and
   `ItemHasOneWorker`. They need each other: `EndsOK` lasts because only a call
   that stages a run adds items to it, and only the worker of an item reopens it.
2. `OneWorkerPerItem` and `SucceededRunsAreComplete` from `Base`.
3. `CheckpointsAdvance`: `LeaseOK`, that unless a lease was outlived the one call
   past the lease is its holder and its window ends after the checkpoint; it rests
   on `Dates`, that no date is ahead of the clock.
4. `FullRunsKeepSeen`: `Marks`, that a product carries the mark of a full run from
   the first full run that imported it, and only of runs that staged it.
5. `GoneAreHidden`: `Gone`, that a product with the mark of a run whose window ends
   after the unlisting was visible is off the shop; closing the run hides those
   without it. A reference that is there and not for sale does get the mark, with
   `is_active` false; no import that would put the product back on sale goes
   through without being overtaken (`GoneImport`).
6. `ChangesAreCovered`: a change is settled when it is imported, or an item that
   covers it is open, and its worker, if it has one, read the ERP after the change
   (`WillImport`, `Settled`). `Discovered` says that every change is settled that
   lies before the checkpoint, before the start of a call's window, or in what a
   call's discovery has asked for. `Versions` and `Written` say what the versions
   in a call's hands and in the tables can be. `Delay <= Overlap` is used where a
   call cuts its window: a change that the previous discovery missed was stamped
   less than `Delay` before its end, hence lies in the next window.

`CheckoutProofs` proves, for every set of sessions, orders, clients, items, calls
and links and every number of calls:

1. `TypeCorrect`, with what a call's record says of the tables (`CallsOK`: the
   session it named exists and keeps an order if it had one, the order it decided on exists)
   and `Joins` (an order counts every session that points at it among those that
   ever did, one in its cart has such a session, a row not inserted has nothing).
2. `OrdersMove`, `ClientsEditOnlyCarts`, `NoStraySessions`, `EditsReachErp` and
   `SoleSessionsMirror`: with that base each is inductive, or follows from one step.
3. `RevokedLinksConfirmNothing`: `Links`, that a link in a session's row was issued,
   not revoked, and is in no other row.
4. `OneOnlineSessions`: `Locks`, that one creation at a time holds a client's
   advisory lock, and while it does every live online session of the client is one
   of the exceptions.

All inductive invariants were also checked with TLC on the instances of the
safety runs before they were proved. The proof of `EditsReachErp` found a case the
run does not reach with its bounds: an attachment repeated on an order that left
the cart meanwhile adds the session's items again without a resend; `late` covers it.

Only model-checked: the liveness properties (`QueueDrains`, `CapturedIsSettled`).
Liveness under fairness and ENABLED are out of the prover's reach, as are
induction over data and RECURSIVE operators; the modules use none of the latter.
No theorem narrows `PaidOrderNotCharged` or `CapturedIsReconciled`: the first fails
for any request that starts when the order is paid, and the second is liveness
(its cause is `NeverScheduled`).

## 5. What the counterexamples say of the code

- A claimed row whose dispatch ends early stays 'processing' for ever
  (`providerOrdersModel.ts:56`), against `orderPushService.ts:7-9`.
- A resend asked for while the row is 'processing' is dropped
  (`orderPushService.ts:89`), against `orderService.ts:361-363`. A change is lost
  in three more ways. A send takes effect but is not answered, an edit follows, and
  the retry reads the new content but sends it under the same version key
  (`orderPushService.ts:298-308`: the key counts recorded sends), which the ERP
  takes for the order it has. The resend is asked for after the commit, "melhor
  esforço": when it throws, the caller logs that and goes on, and when the process
  stops in between, nothing is left to ask again (`orderService.ts:366`,
  `orderSessionService.ts:624`). And a gateway's payment moves the order to 'pago'
  without asking (`paymentChargeService.ts:527`). `EditsAreSent` shows that these
  four are all.
- A cancel that overlaps a resend forgets a live ERP order
  (`orderPushService.ts:161`), against migration `029_provider_orders.sql:7-9`. It
  has to be this cancel: `OnlyStaleCancelsDouble`. A cancel has one more way to
  leave an order alive at the ERP: after a send that took effect unanswered the
  row waits without an external_id, the cancel finds nothing to call and reports
  the order as cancelled there (`orderPushService.ts:137-140`). There is no third
  way (`CancelledRowsAreGone`).
- Concurrent charge requests open two charges (`paymentChargeService.ts:101`),
  against its comment at 162-166. With Mercado Pago two rows can be live without
  concurrent requests: a handler fetches "pending", the charge expires, the next
  request fetches that, writes 'expired' and inserts its own row, and the handler
  applies what it holds. 'expired' is not among the statuses the UPDATE leaves
  alone (`paymentChargesModel.ts:180` and 199), so the old row is live again; its
  charge at the gateway is not (`OneOpen`).
- A paid order is charged again (`paymentChargeService.ts:170`), against
  `orderPaymentLinkService.ts:152`.
- Reconciliation never selects a charge (`paymentReconciliationService.ts:42`),
  against its comment at 11.

Behaviours that `Checkout` and `CatalogSync` except, and no document denies: two
open orders for one client (`orderItemSync.ts:21`), a cancelled session revived by
a link decided on before (`paymentLinkService.ts:34`), items added to a confirmed
order without a resend by a late creation, the client's own included, or a late
attachment (`orderSessionService.ts:304` and 623), "paid" and "cancelled" overwriting each other
(`orderService.ts:347` and 393), claimed sync items stranded by a stopped sync
(`catalogSyncModel.ts:271`), and an older import written over a newer one
(`catalogSyncService.ts:553`).

## 6. Not modelled

Order books, freight, prices and stock levels; the stock sync and the stock cache;
the notification queue (the same claim as `provider_orders`, whose stuck rows
`OrderPushStuck` shows); liveness of `CatalogSync`, which the code does not have:
items stranded by a stopped sync keep their run open for ever.
Refunds and charge-backs, boleto, gateway onboarding, the HTTP adapters, fees and
card data, signatures and authorisation, audit and logs, frontend, and the
components marked `not_modelled` in `PROJECT.json` with their reasons. A
notification handler that fails after its answer counts as a notification that
was never delivered. A tenant without a capable ERP integration is the
`RequestFails` / `NextRowImpossible` choice.

## 7. Plan

1. Done: ErpMirror, OrderPush, OrderPayment, PaymentCharges, PaymentReconciliation,
   Checkout and CatalogSync, each with its proofs, and what the findings about the
   queue and the charges come down to.
2. Left to prove: an abstract specification of Checkout (an order goes from cart to
   confirmed to closed, and its items follow its sessions until then) and the
   refinement that reads it from the tables; the same for CatalogSync (a product
   gets each change once, or is hidden).
3. Left to model, in this order: the stock sync beside CatalogSync (its own lease, a
   checkpoint over balances, the invalidation of the stock cache after the commit
   against a reader that fills it); order books in Checkout once their closing is
   serialised; the notification queue as a second instance of the claim of
   OrderPush.
