------------------------------ MODULE OrderPush ------------------------------
(***************************************************************************)
(* The outbound ERP engine, services/erp/orderPushService.ts: a persisted  *)
(* queue (table provider_orders, one row per local order), drained by      *)
(* dispatch calls that run concurrently in the API process, against an ERP *)
(* whose calls may fail, be refused, or take effect without the caller     *)
(* learning of it.                                                         *)
(*                                                                         *)
(* A dispatch call commits its claim first and then opens one transaction  *)
(* per claimed row with the ERP calls inside it, so a process that stops   *)
(* in between leaves what it claimed behind, and what it did at the ERP    *)
(* stays done.                                                             *)
(***************************************************************************)
EXTENDS Naturals, FiniteSets

CONSTANTS
    Orders,         \* local orders
    Cancellable,    \* the local orders an operator may cancel
    GatewayPaid,    \* those a payment gateway may report as paid
    Unlucky,        \* those whose resend requests may fail or be cut short
    Dispatchers,    \* slots for concurrent dispatchOrderPushes calls
    None,           \* "no current row" in a dispatch call
    ClaimLimit,     \* rows one call claims (5 for the immediate dispatch)
    MaxAttempts,    \* ERP_ORDER_PUSH_MAX_ATTEMPTS
    MaxEdits,       \* bound: edits per order after checkout
    MaxResends,     \* bound: resends asked for by an operator, per order
    MaxCrashes      \* bound: process stops

ASSUME CancellableAssumption == Cancellable \subseteq Orders
ASSUME HazardsAssumption == GatewayPaid \subseteq Orders /\ Unlucky \subseteq Orders
ASSUME NoneAssumption == None \notin Orders
ASSUME BoundsAssumption ==
    /\ ClaimLimit \in Nat \ {0}
    /\ MaxAttempts \in Nat \ {0}
    /\ MaxEdits \in Nat
    /\ MaxResends \in Nat
    /\ MaxCrashes \in Nat

VARIABLES
    \* local orders
    placed,         \* orders that left checkout (they reach the queue then)
    cancelled,      \* orders whose local status is 'cancelado'
    content,        \* content[o]: number of edits committed to order o
    \* table provider_orders, one row per order
    status,         \* status[o], "none" without a row
    extId,          \* external_id, 0 for NULL
    attempts,
    due,            \* rows whose next_attempt_at has passed
    sentCount,      \* attempts logged with outcome 'sent' in provider_order_attempts
    \* requestProviderOrderResend and enqueueOrderPush calls, one per order
    request,
    resends,        \* resends asked for by an operator (bound)
    \* cancelProviderOrderForOrder calls
    cPhase, cExt,
    \* dispatchOrderPushes calls
    phase,
    batch,          \* claimed rows not finished yet
    resend,         \* those of them claimed out of 'cancelling' (previous_status)
    cur,            \* the row whose transaction is open
    active,         \* activeExternalId, 0 for null
    saw,            \* the content read for the send
    next,           \* the status the attempt will finish with
    crashes,
    \* the ERP
    known,          \* version keys it has an order for
    live,           \* those whose order is not cancelled
    held            \* content of the newest order created for o

localVars  == <<placed, cancelled, content>>
rowVars    == <<status, extId, attempts, due, sentCount>>
callVars   == <<request, resends>>
cancelVars == <<cPhase, cExt>>
workerVars == <<phase, batch, resend, cur, active, saw, next>>
erpVars    == <<known, live, held>>
vars == <<localVars, rowVars, callVars, cancelVars, workerVars, erpVars, crashes>>

RowStatuses == {"none", "pending", "processing", "cancelling", "sent", "failed",
                "cancelled"}
Phases   == {"idle", "called", "next", "cancel", "read", "send", "finish"}
Busy     == {"cancel", "read", "send", "finish"}   \* a row's transaction is open
Outcomes == {"ok", "refused", "unknown"}
Versions == Nat \ {0}

\* Types of the queue, the calls and the ERP.
TypeOK ==
    /\ placed \subseteq Orders /\ cancelled \subseteq Cancellable
    /\ content \in [Orders -> Nat]
    /\ status \in [Orders -> RowStatuses]
    /\ extId \in [Orders -> Nat]
    /\ attempts \in [Orders -> Nat]
    /\ due \subseteq Orders
    /\ sentCount \in [Orders -> Nat]
    /\ request \in [Orders -> {"idle", "asked", "enqueue", "mark"}]
    /\ resends \in [Orders -> Nat]
    /\ cPhase \in [Orders -> {"idle", "read", "call", "mark"}]
    /\ cExt \in [Orders -> Nat]
    /\ phase \in [Dispatchers -> Phases]
    /\ batch \in [Dispatchers -> SUBSET Orders]
    /\ resend \in [Dispatchers -> SUBSET Orders]
    /\ cur \in [Dispatchers -> Orders \cup {None}]
    /\ \A d \in Dispatchers : phase[d] \in Busy => cur[d] \in Orders
    /\ active \in [Dispatchers -> Nat]
    /\ saw \in [Dispatchers -> Nat]
    /\ next \in [Dispatchers -> RowStatuses]
    /\ crashes \in Nat
    /\ known \in [Orders -> SUBSET Versions]
    /\ live \in [Orders -> SUBSET Versions]
    /\ held \in [Orders -> Nat]

Init ==
    /\ placed = {} /\ cancelled = {}
    /\ content = [o \in Orders |-> 0]
    /\ status = [o \in Orders |-> "none"]
    /\ extId = [o \in Orders |-> 0]
    /\ attempts = [o \in Orders |-> 0]
    /\ due = {}
    /\ sentCount = [o \in Orders |-> 0]
    /\ request = [o \in Orders |-> "idle"]
    /\ resends = [o \in Orders |-> 0]
    /\ cPhase = [o \in Orders |-> "idle"]
    /\ cExt = [o \in Orders |-> 0]
    /\ phase = [d \in Dispatchers |-> "idle"]
    /\ batch = [d \in Dispatchers |-> {}]
    /\ resend = [d \in Dispatchers |-> {}]
    /\ cur = [d \in Dispatchers |-> None]
    /\ active = [d \in Dispatchers |-> 0]
    /\ saw = [d \in Dispatchers |-> 0]
    /\ next = [d \in Dispatchers |-> "none"]
    /\ crashes = 0
    /\ known = [o \in Orders |-> {}]
    /\ live = [o \in Orders |-> {}]
    /\ held = [o \in Orders |-> 0]

-----------------------------------------------------------------------------
(* The ERP.  A call ends "ok", "refused" (a definitive business error) or  *)
(* "unknown" (timeout, 5xx, instability), and an "unknown" call may have   *)
(* taken effect.  Sending a version key again never makes a second order.  *)

ErpSend(o, key, c, outcome) ==
    \/ /\ key \notin known[o] /\ outcome # "refused"
       /\ known' = [known EXCEPT ![o] = @ \cup {key}]
       /\ live'  = [live EXCEPT ![o] = @ \cup {key}]
       /\ held'  = [held EXCEPT ![o] = c]
    \/ /\ key \in known[o] \/ outcome # "ok"
       /\ UNCHANGED erpVars

ErpCancel(o, ext, outcome) ==
    \/ /\ outcome # "refused"
       /\ live' = [live EXCEPT ![o] = @ \ {ext}]
       /\ UNCHANGED <<known, held>>
    \/ /\ ext \notin live[o] \/ outcome # "ok"
       /\ UNCHANGED erpVars

-----------------------------------------------------------------------------
(* Enqueueing and resending.                                               *)

\* A dispatch call moves to phase p with rows b still claimed, r of them
\* claimed out of 'cancelling', and none of them open.
Between(d, p, b, r) ==
    /\ phase' = [phase EXCEPT ![d] = p]
    /\ batch' = [batch EXCEPT ![d] = b]
    /\ resend' = [resend EXCEPT ![d] = r]
    /\ cur' = [cur EXCEPT ![d] = None]
    /\ active' = [active EXCEPT ![d] = 0]
    /\ saw' = [saw EXCEPT ![d] = 0]
    /\ next' = [next EXCEPT ![d] = "none"]

\* `void dispatchOrderPushes(...)`: a call starts in the background.
StartDispatch(d) ==
    /\ phase[d] = "idle"
    /\ Between(d, "called", {}, {})

\* A checkout commits (createCustomerOrder, confirmPayment or
\* finalizeOrderSession); enqueueOrderPush is its next statement.
Checkout(o) ==
    /\ o \notin placed \cup cancelled
    /\ placed' = placed \cup {o}
    /\ request' = [request EXCEPT ![o] = "enqueue"]
    /\ UNCHANGED <<cancelled, content, resends, rowVars, cancelVars, workerVars,
                   erpVars, crashes>>

\* The insert is ON CONFLICT DO UPDATE without a change: an existing row stays.
InsertRow(o) ==
    /\ status' = [status EXCEPT ![o] = IF @ = "none" THEN "pending" ELSE @]
    /\ due' = IF status[o] = "none" THEN due \cup {o} ELSE due
    /\ UNCHANGED <<extId, attempts, sentCount>>

\* enqueueOrderPush: insert, then a best-effort dispatch.
Enqueue(o, d) ==
    /\ request[o] = "enqueue"
    /\ request' = [request EXCEPT ![o] = "idle"]
    /\ InsertRow(o)
    /\ StartDispatch(d)
    /\ UNCHANGED <<localVars, resends, cancelVars, erpVars, crashes>>

\* A request comes to nothing.  An enqueue swallows its failures and the lack of
\* an integration; a resend throws and its callers only log that; and the process
\* may stop after the commit it follows.
RequestFails(o) ==
    /\ request[o] = "enqueue" \/ (request[o] # "idle" /\ o \in Unlucky)
    /\ request' = [request EXCEPT ![o] = "idle"]
    /\ UNCHANGED <<localVars, resends, rowVars, cancelVars, workerVars, erpVars,
                   crashes>>

\* A checkout or a resend of an order outside Orders drains the same queue.
OtherTrigger(d) ==
    /\ StartDispatch(d)
    /\ UNCHANGED <<localVars, rowVars, callVars, cancelVars, erpVars, crashes>>

\* An order that left checkout changes (upsell edit, marked as paid by an
\* operator); the change commits before the resend is asked for.
Edit(o) ==
    /\ o \in placed \ cancelled
    /\ content[o] < MaxEdits
    /\ request[o] = "idle"
    /\ content' = [content EXCEPT ![o] = @ + 1]
    /\ request' = [request EXCEPT ![o] = "asked"]
    /\ UNCHANGED <<placed, cancelled, resends, rowVars, cancelVars, workerVars,
                   erpVars, crashes>>

\* A gateway's payment settles the order: the same transition as marking it as
\* paid, without the resend.
PaidByGateway(o) ==
    /\ o \in (placed \cap GatewayPaid) \ cancelled
    /\ content[o] < MaxEdits
    /\ content' = [content EXCEPT ![o] = @ + 1]
    /\ UNCHANGED <<placed, cancelled, rowVars, callVars, cancelVars, workerVars,
                   erpVars, crashes>>

\* POST /erp-integration/order-push: looks at no order status.
AskResend(o) ==
    /\ o \in placed
    /\ resends[o] < MaxResends
    /\ request[o] = "idle"
    /\ resends' = [resends EXCEPT ![o] = @ + 1]
    /\ request' = [request EXCEPT ![o] = "asked"]
    /\ UNCHANGED <<localVars, rowVars, cancelVars, workerVars, erpVars, crashes>>

\* requestProviderOrderResend, first transaction: a row in 'processing' ends it.
ResendRead(o) ==
    /\ request[o] = "asked"
    /\ request' = [request EXCEPT ![o] =
                     IF status[o] = "none" THEN "enqueue"
                     ELSE IF status[o] = "processing" THEN "idle" ELSE "mark"]
    /\ UNCHANGED <<localVars, resends, rowVars, cancelVars, workerVars, erpVars,
                   crashes>>

\* Mutant: without the guard on 'processing'.
MarkForResendUnguarded(o) ==
    /\ status' = [status EXCEPT ![o] = IF extId[o] # 0 THEN "cancelling" ELSE "pending"]
    /\ due' = due \cup {o}
    /\ UNCHANGED <<extId, attempts, sentCount>>

\* markProviderOrderForResend, guarded by status <> 'processing'; attempts
\* keeps its count.
MarkForResend(o) ==
    /\ IF status[o] = "processing" THEN UNCHANGED <<status, due>>
       ELSE /\ status' = [status EXCEPT ![o] =
                            IF extId[o] # 0 THEN "cancelling" ELSE "pending"]
            /\ due' = due \cup {o}
    /\ UNCHANGED <<extId, attempts, sentCount>>

\* Its second transaction, then a best-effort dispatch.
ResendMark(o, d) ==
    /\ request[o] = "mark"
    /\ request' = [request EXCEPT ![o] = "idle"]
    /\ MarkForResend(o)
    /\ StartDispatch(d)
    /\ UNCHANGED <<localVars, resends, cancelVars, erpVars, crashes>>

-----------------------------------------------------------------------------
(* Cancelling a local order.  The ERP side follows the commit of 'cancelado'*)
(* synchronously and outside the queue; it locks nothing.                  *)

CancelOrder(o) ==
    /\ o \in Cancellable \ cancelled
    /\ cancelled' = cancelled \cup {o}
    /\ cPhase' = [cPhase EXCEPT ![o] = "read"]
    /\ UNCHANGED <<placed, content, rowVars, callVars, cExt, workerVars, erpVars,
                   crashes>>

\* A row in 'processing' becomes a warning; without external_id there is
\* nothing to call; otherwise the ERP is asked to cancel what was read.
CancelRead(o) ==
    /\ cPhase[o] = "read"
    /\ cPhase' = [cPhase EXCEPT ![o] =
                    IF status[o] \in {"none", "processing"} THEN "idle"
                    ELSE IF extId[o] = 0 THEN "mark" ELSE "call"]
    /\ cExt' = [cExt EXCEPT ![o] = extId[o]]
    /\ UNCHANGED <<localVars, rowVars, callVars, workerVars, erpVars, crashes>>

\* A refused or failed call rolls the transaction back: again a warning.
CancelCall(o) ==
    /\ cPhase[o] = "call"
    /\ \E outcome \in Outcomes :
          /\ ErpCancel(o, cExt[o], outcome)
          /\ cPhase' = [cPhase EXCEPT ![o] = IF outcome = "ok" THEN "mark" ELSE "idle"]
    /\ UNCHANGED <<localVars, rowVars, callVars, cExt, workerVars, crashes>>

\* markProviderOrderCancelled, guarded by status <> 'processing'.
CancelMark(o) ==
    /\ cPhase[o] = "mark"
    /\ cPhase' = [cPhase EXCEPT ![o] = "idle"]
    /\ IF status[o] = "processing" THEN UNCHANGED <<status, extId>>
       ELSE /\ status' = [status EXCEPT ![o] = "cancelled"]
            /\ extId' = [extId EXCEPT ![o] = 0]
    /\ UNCHANGED <<localVars, attempts, due, sentCount, callVars, cExt, workerVars,
                   erpVars, crashes>>

-----------------------------------------------------------------------------
(* A dispatch call.                                                        *)

\* Mutant: a claim that also takes over rows in 'processing'.
ClaimableAgain == {o \in due : status[o] \in {"pending", "cancelling", "processing"}}

Claimable == {o \in due : status[o] \in {"pending", "cancelling"}}

\* A resend, an enqueue or a cancel that is about to write its row may hold the
\* row's lock at that instant, and the claim skips locked rows.
Locked(o) == request[o] \in {"enqueue", "mark"} \/ cPhase[o] = "mark"

\* Mutant: the claim forgets to count the attempt.
ClaimUncounted(d) ==
    /\ phase[d] = "called"
    /\ \E rows \in SUBSET Claimable :
          /\ Cardinality(rows) <= ClaimLimit
          /\ \/ Cardinality(rows) = ClaimLimit
             \/ \A o \in Claimable \ rows : Locked(o)
          /\ status' = [o \in Orders |-> IF o \in rows THEN "processing" ELSE status[o]]
          /\ Between(d, IF rows = {} THEN "idle" ELSE "next", rows,
                     {o \in rows : status[o] = "cancelling"})
    /\ UNCHANGED <<localVars, extId, attempts, due, sentCount, callVars, cancelVars, erpVars,
                   crashes>>

\* claimPendingProviderOrders: everything due up to the limit, in one
\* statement that also counts the attempt.
Claim(d) ==
    /\ phase[d] = "called"
    /\ \E rows \in SUBSET Claimable :
          /\ Cardinality(rows) <= ClaimLimit
          /\ \/ Cardinality(rows) = ClaimLimit
             \/ \A o \in Claimable \ rows : Locked(o)
          /\ status' = [o \in Orders |-> IF o \in rows THEN "processing" ELSE status[o]]
          /\ attempts' = [o \in Orders |-> IF o \in rows THEN attempts[o] + 1
                                                         ELSE attempts[o]]
          /\ Between(d, IF rows = {} THEN "idle" ELSE "next", rows,
                     {o \in rows : status[o] = "cancelling"})
    /\ UNCHANGED <<localVars, extId, due, sentCount, callVars, cancelVars, erpVars,
                   crashes>>

\* Mutant: a resend that creates without cancelling first.
NextRowNoCancel(d) ==
    /\ phase[d] = "next"
    /\ \E o \in batch[d] :
          /\ cur' = [cur EXCEPT ![d] = o]
          /\ active' = [active EXCEPT ![d] = extId[o]]
          /\ phase' = [phase EXCEPT ![d] = "read"]
    /\ UNCHANGED <<localVars, rowVars, callVars, cancelVars, batch, resend, saw, next,
                   erpVars, crashes>>

\* The transaction of a claimed row starts, with the external_id the claim
\* returned (nobody else writes it while the row is 'processing'): it cancels
\* first only what was claimed out of 'cancelling' and has one.
NextRow(d) ==
    /\ phase[d] = "next"
    /\ \E o \in batch[d] :
          /\ cur' = [cur EXCEPT ![d] = o]
          /\ active' = [active EXCEPT ![d] = extId[o]]
          /\ phase' = [phase EXCEPT ![d] =
                IF o \in resend[d] /\ extId[o] # 0 THEN "cancel" ELSE "read"]
    /\ UNCHANGED <<localVars, rowVars, callVars, cancelVars, batch, resend, saw, next,
                   erpVars, crashes>>

\* The integration of the row's provider is gone, or its provider cannot send:
\* final, with external_id kept.  (ORDER_NOT_FOUND cannot happen: the row goes
\* with its order.)
NextRowImpossible(d) ==
    /\ phase[d] = "next"
    /\ \E o \in batch[d] :
          /\ cur' = [cur EXCEPT ![d] = o]
          /\ active' = [active EXCEPT ![d] = extId[o]]
    /\ phase' = [phase EXCEPT ![d] = "finish"]
    /\ next' = [next EXCEPT ![d] = "failed"]
    /\ UNCHANGED <<localVars, rowVars, callVars, cancelVars, batch, resend, saw,
                   erpVars, crashes>>

\* The catch block: refused, or the attempt budget is spent, is final; otherwise
\* retry, cancelling again only if something is still known to be there.
Failure(d, refused) ==
    IF refused \/ attempts[cur[d]] >= MaxAttempts THEN "failed"
    ELSE IF active[d] # 0 THEN "cancelling" ELSE "pending"

Fails(d, refused) ==
    /\ phase' = [phase EXCEPT ![d] = "finish"]
    /\ next' = [next EXCEPT ![d] = Failure(d, refused)]
    /\ UNCHANGED active

\* Mutant: an unanswered cancel is taken for a done one.
AttemptCancelTrusting(d) ==
    /\ phase[d] = "cancel"
    /\ \E outcome \in Outcomes :
          /\ ErpCancel(cur[d], active[d], outcome)
          /\ IF outcome # "refused"
             THEN /\ phase' = [phase EXCEPT ![d] = "read"]
                  /\ active' = [active EXCEPT ![d] = 0]
                  /\ UNCHANGED next
             ELSE Fails(d, TRUE)
    /\ UNCHANGED <<localVars, rowVars, callVars, cancelVars, batch, resend, cur, saw,
                   crashes>>

AttemptCancel(d) ==
    /\ phase[d] = "cancel"
    /\ \E outcome \in Outcomes :
          /\ ErpCancel(cur[d], active[d], outcome)
          /\ IF outcome = "ok"
             THEN /\ phase' = [phase EXCEPT ![d] = "read"]
                  /\ active' = [active EXCEPT ![d] = 0]
                  /\ UNCHANGED next
             ELSE Fails(d, outcome = "refused")
    /\ UNCHANGED <<localVars, rowVars, callVars, cancelVars, batch, resend, cur, saw,
                   crashes>>

\* The order, its items and the count of earlier sends are read; the order's
\* status is not looked at.
AttemptRead(d) ==
    /\ phase[d] = "read"
    /\ phase' = [phase EXCEPT ![d] = "send"]
    /\ saw' = [saw EXCEPT ![d] = content[cur[d]]]
    /\ UNCHANGED <<localVars, rowVars, callVars, cancelVars, batch, resend, cur,
                   active, next, erpVars, crashes>>

\* Mutant: a version key per attempt instead of per send.
NextKeyPerAttempt(o) == attempts[o]

\* buildProviderOrderIdempotencyKey: 1 + how many sends were recorded.
NextKey(o) == sentCount[o] + 1

\* The live stock check fails the attempt before anything is sent.
AttemptNoStock(d) ==
    /\ phase[d] = "send"
    /\ Fails(d, FALSE)
    /\ UNCHANGED <<localVars, rowVars, callVars, cancelVars, batch, resend, cur, saw,
                   erpVars, crashes>>

AttemptSend(d) ==
    /\ phase[d] = "send"
    /\ \E outcome \in Outcomes :
          /\ ErpSend(cur[d], NextKey(cur[d]), saw[d], outcome)
          /\ IF outcome = "ok"
             THEN /\ phase' = [phase EXCEPT ![d] = "finish"]
                  /\ next' = [next EXCEPT ![d] = "sent"]
                  /\ active' = [active EXCEPT ![d] = NextKey(cur[d])]
             ELSE Fails(d, outcome = "refused")
    /\ UNCHANGED <<localVars, rowVars, callVars, cancelVars, batch, resend, cur, saw,
                   crashes>>

\* Mutant: external_id is only kept for a row that was sent.
FinishForgetful(d) ==
    /\ phase[d] = "finish"
    /\ status' = [status EXCEPT ![cur[d]] = next[d]]
    /\ extId' = [extId EXCEPT ![cur[d]] = IF next[d] = "sent" THEN active[d] ELSE 0]
    /\ due' = IF next[d] \in {"pending", "cancelling"} THEN due \ {cur[d]} ELSE due
    /\ sentCount' = [sentCount EXCEPT ![cur[d]] = IF next[d] = "sent" THEN @ + 1 ELSE @]
    /\ LET rest == batch[d] \ {cur[d]} IN
       Between(d, IF rest = {} THEN "idle" ELSE "next", rest, resend[d] \ {cur[d]})
    /\ UNCHANGED <<localVars, attempts, callVars, cancelVars, erpVars, crashes>>

\* finishAndLogAttempt commits: unconditional, the attempt logged in the same
\* transaction; a retry waits for its backoff.
Finish(d) ==
    /\ phase[d] = "finish"
    /\ status' = [status EXCEPT ![cur[d]] = next[d]]
    /\ extId' = [extId EXCEPT ![cur[d]] = active[d]]
    /\ due' = IF next[d] \in {"pending", "cancelling"} THEN due \ {cur[d]} ELSE due
    /\ sentCount' = [sentCount EXCEPT ![cur[d]] = IF next[d] = "sent" THEN @ + 1 ELSE @]
    /\ LET rest == batch[d] \ {cur[d]} IN
       Between(d, IF rest = {} THEN "idle" ELSE "next", rest, resend[d] \ {cur[d]})
    /\ UNCHANGED <<localVars, attempts, callVars, cancelVars, erpVars, crashes>>

\* next_attempt_at of a row waiting for its retry passes.
BackoffElapses(o) ==
    /\ status[o] \in {"pending", "cancelling"} /\ o \notin due
    /\ due' = due \cup {o}
    /\ UNCHANGED <<localVars, status, extId, attempts, sentCount, callVars, cancelVars,
                   workerVars, erpVars, crashes>>

\* Mutant: an aborted transaction closes its row but not the attempt.
CrashMidAttempt(d) ==
    /\ phase[d] # "idle"
    /\ crashes < MaxCrashes
    /\ crashes' = crashes + 1
    /\ cur' = [cur EXCEPT ![d] = None]
    /\ UNCHANGED <<localVars, rowVars, callVars, cancelVars, phase, batch, resend, active,
                   saw, next, erpVars>>

\* A dispatch call ends without its remaining commits: the process stops, or
\* the transaction of a row aborts and the error leaves the loop.
Crash(d) ==
    /\ phase[d] # "idle"
    /\ crashes < MaxCrashes
    /\ crashes' = crashes + 1
    /\ Between(d, "idle", {}, {})
    /\ UNCHANGED <<localVars, rowVars, callVars, cancelVars, erpVars>>

-----------------------------------------------------------------------------
WorkerStep(d) ==
    \/ Claim(d) \/ NextRow(d) \/ NextRowImpossible(d) \/ AttemptCancel(d) \/ AttemptRead(d)
    \/ AttemptNoStock(d) \/ AttemptSend(d) \/ Finish(d)

RequestStep(o) ==
    \/ ResendRead(o) \/ RequestFails(o)
    \/ \E d \in Dispatchers : Enqueue(o, d) \/ ResendMark(o, d)

CancellerStep(o) == CancelRead(o) \/ CancelCall(o) \/ CancelMark(o)

Next ==
    \/ \E o \in Orders :
          \/ Checkout(o) \/ Edit(o) \/ PaidByGateway(o) \/ AskResend(o)
          \/ CancelOrder(o) \/ RequestStep(o) \/ CancellerStep(o) \/ BackoffElapses(o)
    \/ \E d \in Dispatchers : OtherTrigger(d) \/ WorkerStep(d) \/ Crash(d)

Spec == Init /\ [][Next]_vars

(***************************************************************************)
(* Fairness: a request runs to its end or fails, a dispatch call that is   *)
(* running keeps running, time passes, and the queue keeps being triggered *)
(* by the shop's other orders (nothing else drains it: there is no worker  *)
(* and no cron for it).  A request is strongly fair because only the bound on     *)
(* dispatch calls can make it wait.  Nothing is assumed of operators or of *)
(* the ERP's answers.                                                      *)
(***************************************************************************)
Fairness ==
    /\ \A o \in Orders : SF_vars(RequestStep(o)) /\ WF_vars(CancellerStep(o))
                         /\ WF_vars(BackoffElapses(o))
    /\ \A d \in Dispatchers : WF_vars(WorkerStep(d)) /\ WF_vars(OtherTrigger(d))

FairSpec == Spec /\ Fairness

-----------------------------------------------------------------------------
\* An order that was not cancelled locally never has two orders alive at the
\* ERP, whatever mix of enqueues, edits, resends, failed, refused and unanswered
\* calls and stopped processes it went through (provider_orders exists for this:
\* each ERP order reserves stock).
OneLiveErpOrder ==
    \A o \in Orders \ cancelled : \A u, v \in live[o] : u = v

\* No ERP order of such an order is ever lost track of: it is the row's
\* external_id, or the next send repeats its version key and finds it.
LiveOrderIsReachable ==
    \A o \in Orders \ cancelled : live[o] \subseteq {extId[o], NextKey(o)}

\* A row that says 'sent' names exactly what is alive at the ERP.
SentRowNamesLiveOrder ==
    \A o \in Orders \ cancelled :
        status[o] = "sent" => live[o] = {extId[o]}

\* The rows two concurrent dispatch calls work on are disjoint.
WorkersDisjoint ==
    \A d, e \in Dispatchers :
        d # e => batch[d] \cap batch[e] = {}

\* Enqueueing again, asking for a resend and cancelling leave a row alone while
\* a dispatch call works on it: only the call that claimed it ends 'processing'.
ProcessingIsOwned ==
    [][\A o \in Orders :
          status[o] = "processing" /\ <<status[o], extId[o]>>' # <<status[o], extId[o]>> =>
              \E d \in Dispatchers : phase[d] = "finish" /\ cur[d] = o]_vars

\* Seen from the ERP, every order that is never cancelled gets one live order at
\* a time, a new version key each time, the old one cancelled first.
Tracked == Orders \ Cancellable
Mirror == INSTANCE ErpMirror WITH
              known <- [o \in Tracked |-> known[o]],
              live  <- [o \in Tracked |-> live[o]]
MirrorSpec == Mirror!Spec

\* As long as triggers keep coming and no process stops, what is queued gets
\* sent, or given up on after the attempts it has, or cancelled.
QueueDrains ==
    \A o \in Orders :
        status[o] \in {"pending", "cancelling"}
            ~> status[o] \in {"sent", "failed", "cancelled"}

-----------------------------------------------------------------------------
(* What comments of the repository say and the code does not keep.         *)

\* orderPushService.ts:7-9: a failed immediate dispatch loses no attempt, the
\* row stays for the next trigger.  A claimed row has a running call, or it would
\* have to be claimable.
ProcessingHasWorker ==
    \A o \in Orders : status[o] = "processing" =>
        \E d \in Dispatchers : o \in batch[d]

\* orderService.ts: marking as paid resends the order "para o ERP refletir o
\* status atual".  Once nothing is in flight for an order whose row says 'sent',
\* the ERP holds its latest content.
SentReflectsLatestEdit ==
    \A o \in Orders \ cancelled :
        status[o] = "sent" /\ request[o] = "idle" => held[o] = content[o]

\* migration 029: a resend cancels at the ERP before it creates, "nunca os dois
\* coexistindo la".
NeverTwoAtErp == \A o \in Orders : \A u, v \in live[o] : u = v
=============================================================================
