---------------------------- MODULE PaymentCharges ----------------------------
(***************************************************************************)
(* Charging an order: services/payments/paymentChargeService.ts, the two   *)
(* webhook services and the rows of payment_charges, against the tenant's  *)
(* payment gateway (Stripe or Mercado Pago).                               *)
(*                                                                         *)
(* The module follows one order: charges of different orders share no row. *)
(* createOrderCharge is not one transaction: it reads the live charges,    *)
(* asks the gateway about each, cancels them, inserts its own row, calls   *)
(* the gateway and records the answer, with other requests, notifications  *)
(* and operators in between at every step.                                 *)
(***************************************************************************)
EXTENDS Naturals, FiniteSets

CONSTANTS
    Gateways,       \* the gateways the tenant may have active
    Charges,        \* bound: ids for rows of payment_charges
    Callers,        \* concurrent createOrderCharge requests
    None,           \* "no charge at hand" in a request
    OperatorSets,   \* the order statuses operators set meanwhile
    MaxHandlers,    \* bound: Mercado Pago handlers at work at once
    MaxCrashes,     \* bound: requests that end without their remaining steps
    MaxLost         \* bound: gateway calls that take effect but go unanswered

ASSUME GatewaysAssumption == Gateways \subseteq {"stripe", "mercadopago"}
ASSUME NoChargeAssumption == None \notin Charges
ASSUME OperatorAssumption == OperatorSets \subseteq {"pago", "cancelado"}
ASSUME PaymentBoundsAssumption ==
    MaxHandlers \in Nat /\ MaxCrashes \in Nat /\ MaxLost \in Nat

VARIABLES
    gateway,        \* the active integration
    \* table orders
    orderStatus, payStatus,
    writing,        \* statuses an operator's request is about to write
    \* table payment_charges
    status,         \* status[c], "none" without a row
    ext,            \* rows whose external_id is recorded
    method,         \* method[c]
    \* createOrderCharge requests
    phase,
    want,           \* input.method
    todo,           \* snapshot of the live charges still to be dealt with
    named,          \* those of them that had an external_id in the snapshot
    cur,            \* the charge at hand
    seen,           \* the status the gateway gave for it
    keep,           \* it is a candidate for reuse
    reused,         \* reusablePixResult is set
    answer,         \* what createCharge came back with
    \* notifications, identified by charge and state reached
    notices,        \* sent by the gateway (delivered late, more than once or never)
    handled,        \* those answered for good
    fetched,        \* Mercado Pago handlers between their fetch and their apply
    \* the gateway
    remote,         \* remote[c]: the state of the charge there
    crashes, lost

orderVars  == <<orderStatus, payStatus, writing>>
rowVars    == <<status, ext, method>>
callVars   == <<phase, want, todo, named, cur, seen, keep, reused, answer>>
hookVars   == <<notices, handled, fetched>>
boundVars  == <<crashes, lost>>
vars == <<gateway, orderVars, rowVars, callVars, hookVars, remote, boundVars>>

Live         == {"pending", "processing", "authorized"}
Terminal     == {"paid", "failed", "cancelled"}
RowStatuses  == Live \cup Terminal \cup {"none", "expired"}
RemoteStates == {"none", "open", "processing", "captured", "declined", "cancelled",
                 "expired"}
Methods      == {"pix", "cartao"}
Answers      == {"none", "authorized", "declined", "pix", "error"}
Resolving    == {"asked", "live", "apply", "cancel", "close"}
Notices      == Charges \X RemoteStates

\* Types of the order, its charges, the requests and the notifications.
TypeOK ==
    /\ gateway \in Gateways
    /\ orderStatus \in {"separado", "pago", "cancelado"}
    /\ payStatus \in {"unpaid", "awaiting_confirmation", "payment_failed", "paid"}
    /\ writing \subseteq OperatorSets
    /\ status \in [Charges -> RowStatuses]
    /\ ext \subseteq Charges
    /\ method \in [Charges -> Methods]
    /\ phase \in [Callers -> {"idle", "create", "record"} \cup Resolving]
    /\ want \in [Callers -> Methods]
    /\ todo \in [Callers -> SUBSET Charges]
    /\ named \in [Callers -> SUBSET Charges]
    /\ cur \in [Callers -> Charges \cup {None}]
    /\ \A k \in Callers :
          phase[k] \in {"apply", "cancel", "close", "create", "record"} => cur[k] \in Charges
    /\ seen \in [Callers -> RowStatuses]
    /\ keep \in [Callers -> BOOLEAN]
    /\ reused \in [Callers -> BOOLEAN]
    /\ answer \in [Callers -> Answers]
    /\ notices \subseteq Notices
    /\ handled \subseteq Notices
    /\ fetched \subseteq Notices \X RowStatuses
    /\ remote \in [Charges -> RemoteStates]
    /\ crashes \in Nat
    /\ lost \in Nat

\* An order whose items are separated (assertOrderChargeable), never charged.
Init ==
    /\ gateway \in Gateways
    /\ orderStatus = "separado" /\ payStatus = "unpaid" /\ writing = {}
    /\ status = [c \in Charges |-> "none"]
    /\ ext = {}
    /\ method = [c \in Charges |-> "pix"]
    /\ phase = [k \in Callers |-> "idle"]
    /\ want = [k \in Callers |-> "pix"]
    /\ todo = [k \in Callers |-> {}]
    /\ named = [k \in Callers |-> {}]
    /\ cur = [k \in Callers |-> None]
    /\ seen = [k \in Callers |-> "none"]
    /\ keep = [k \in Callers |-> FALSE]
    /\ reused = [k \in Callers |-> FALSE]
    /\ answer = [k \in Callers |-> "none"]
    /\ notices = {} /\ handled = {} /\ fetched = {}
    /\ remote = [c \in Charges |-> "none"]
    /\ crashes = 0 /\ lost = 0

-----------------------------------------------------------------------------
(* The gateway.                                                            *)

\* mapPaymentIntentStatus / mapMercadoPagoTransactionStatus.  A declined card
\* leaves a Stripe intent waiting for another payment method.
ProviderStatus(r) ==
    IF r = "captured" THEN "paid"
    ELSE IF r = "open" \/ (r = "declined" /\ gateway = "stripe") THEN "pending"
    ELSE IF r = "declined" THEN "failed"
    ELSE r                         \* processing, cancelled and expired

\* Stripe reports (to this program) successes and failures, Mercado Pago every
\* change.
Announced(r) == r # "none" /\ (gateway = "stripe" => r \in {"captured", "declined"})

Becomes(c, r) ==
    /\ remote' = [remote EXCEPT ![c] = r]
    /\ notices' = IF Announced(r) THEN notices \cup {<<c, r>>} ELSE notices

\* Stripe takes the cancel of an intent that has no money in it, Mercado Pago
\* that of an order still waiting for the payment.
Cancelable(r) == r = (IF gateway = "stripe" THEN "declined" ELSE "open")

\* What createCharge may leave at the gateway, and the answers it then gives.
\* Stripe throws for a Pix before it calls anything.
Creates(m) ==
    IF m = "pix" THEN IF gateway = "stripe" THEN {} ELSE {<<"open", "pix">>}
    ELSE {<<r, "authorized">> : r \in {"processing", "captured"} \cup
                                      (IF gateway = "stripe" THEN {} ELSE {"open"})}
         \cup {<<"declined", "declined">>, <<"declined", "error">>}

\* A payment settles, or its time runs out.
Settle(c) ==
    /\ \E r \in {"captured", "declined", "expired"} :
          /\ remote[c] = "open" \/ (remote[c] = "processing" /\ r # "expired")
          /\ Becomes(c, r)
    /\ UNCHANGED <<gateway, orderVars, rowVars, callVars, handled, fetched, boundVars>>

-----------------------------------------------------------------------------
(* Rows.                                                                   *)

\* Mutant: only 'paid' is guarded.
AppliesUnlessPaid(c) == status[c] # "paid"

\* applyPaymentChargeStatusById / ByExternalId: a terminal status stays.
Applies(c) == status[c] \notin Terminal

SetStatus(c, s) ==
    status' = IF Applies(c) THEN [status EXCEPT ![c] = s] ELSE status

\* Mutant: without the guard on an order already paid.
PayStatusOverwritten(s) ==
    IF s = "paid" THEN "paid"
    ELSE IF s \in {"failed", "cancelled", "expired"} THEN "payment_failed"
    ELSE IF s \in {"authorized", "processing"} THEN "awaiting_confirmation"
    ELSE payStatus

\* mapChargeStatusToOrderPaymentUpdate and updateOrderPaymentStatusRow: an order
\* that is paid stays so, a cancelled one stays cancelled.
PayStatusAfter(s) ==
    IF payStatus = "paid" \/ s = "paid" THEN "paid"
    ELSE IF s \in {"failed", "cancelled", "expired"} THEN "payment_failed"
    ELSE IF s \in {"authorized", "processing"} THEN "awaiting_confirmation"
    ELSE payStatus

\* Mutant: the payment moves payment_status only.
OrderStatusStays(s) == orderStatus

\* Mutant: a payment reopens an order an operator cancelled.
OrderStatusReopened(s) ==
    IF s = "paid" /\ payStatus # "paid" THEN "pago" ELSE orderStatus

OrderStatusAfter(s) ==
    IF s = "paid" /\ payStatus # "paid" /\ orderStatus # "cancelado" THEN "pago"
    ELSE orderStatus

\* applyPaymentChargeWebhookEvent: the row, the order, and on 'paid' the other
\* live charges of the order, which are cancelled in the database only.
ApplyEvent(c, s) ==
    IF Applies(c)
    THEN /\ status' = [d \in Charges |->
                          IF d = c THEN s
                          ELSE IF s = "paid" /\ status[d] \in Live THEN "cancelled"
                          ELSE status[d]]
         /\ payStatus' = PayStatusAfter(s)
         /\ orderStatus' = OrderStatusAfter(s)
    ELSE UNCHANGED <<status, payStatus, orderStatus>>

-----------------------------------------------------------------------------
(* A createOrderCharge request.                                            *)

Goto(k, p) == phase' = [phase EXCEPT ![k] = p]

\* The request ends, and with it everything it held in memory.
Ends(k) ==
    /\ Goto(k, "idle")
    /\ todo' = [todo EXCEPT ![k] = {}]
    /\ named' = [named EXCEPT ![k] = {}]
    /\ cur' = [cur EXCEPT ![k] = None]
    /\ seen' = [seen EXCEPT ![k] = "none"]
    /\ keep' = [keep EXCEPT ![k] = FALSE]
    /\ reused' = [reused EXCEPT ![k] = FALSE]
    /\ answer' = [answer EXCEPT ![k] = "none"]
    /\ want' = [want EXCEPT ![k] = "pix"]

\* Bound: a request starts only while there is an id left for its row.
Fresh == {c \in Charges : status[c] = "none"}
IdLeft == Cardinality(Fresh) > Cardinality({k \in Callers : phase[k] \in Resolving})

Asks(k, m) ==
    /\ phase[k] = "idle" /\ IdLeft
    /\ Goto(k, "asked")
    /\ want' = [want EXCEPT ![k] = m]
    /\ UNCHANGED <<gateway, orderVars, rowVars, todo, named, cur, seen, keep, reused,
                   answer, hookVars, remote, boundVars>>

\* chargeOrderPayment (payment link): checked in a transaction of its own.
PayByLink(k) ==
    /\ payStatus # "paid" /\ orderStatus = "separado"
    /\ \E m \in Methods : Asks(k, m)

\* sendOrderWhatsApp ("payment_order"): a Pix, whatever the payment status.
PayByWhatsApp(k) == orderStatus # "cancelado" /\ Asks(k, "pix")

\* The first transaction of createOrderCharge; it looks at no status.
Prepare(k) ==
    /\ phase[k] = "asked"
    /\ Goto(k, "live")
    /\ todo' = [todo EXCEPT ![k] = {c \in Charges : status[c] \in Live}]
    /\ named' = [named EXCEPT ![k] = {c \in ext : status[c] \in Live}]
    /\ UNCHANGED <<gateway, orderVars, rowVars, want, cur, seen, keep, reused, answer,
                   hookVars, remote, boundVars>>

\* resolveLiveChargeStatus, a charge without external_id in the snapshot.
CancelUnnamed(k) ==
    /\ phase[k] = "live"
    /\ \E c \in todo[k] \ named[k] :
          /\ SetStatus(c, "cancelled")
          /\ todo' = [todo EXCEPT ![k] = @ \ {c}]
    /\ UNCHANGED <<gateway, orderVars, ext, method, phase, want, named, cur, seen, keep,
                   reused, answer, hookVars, remote, boundVars>>

\* resolveLiveChargeStatus, fetchChargeStatus.  Whether a Pix is still worth
\* reusing (amount, expiry) is left open.
Fetch(k) ==
    /\ phase[k] = "live"
    /\ \E c \in todo[k] \cap named[k], r \in BOOLEAN :
          /\ r => want[k] = "pix" /\ method[c] = "pix" /\ ~reused[k]
          /\ cur' = [cur EXCEPT ![k] = c]
          /\ keep' = [keep EXCEPT ![k] = r]
          /\ seen' = [seen EXCEPT ![k] = ProviderStatus(remote[c])]
          /\ todo' = [todo EXCEPT ![k] = @ \ {c}]
    /\ Goto(k, "apply")
    /\ UNCHANGED <<gateway, orderVars, rowVars, want, named, reused, answer, hookVars,
                   remote, boundVars>>

\* The fetch fails: the request ends with its error.
FetchFails(k) ==
    /\ phase[k] = "live" /\ todo[k] \cap named[k] # {}
    /\ Ends(k)
    /\ UNCHANGED <<gateway, orderVars, rowVars, hookVars, remote, boundVars>>

\* Mutant: a charge in processing is taken for resolved.
ApplySeenOptimistic(k) ==
    /\ phase[k] = "apply"
    /\ ApplyEvent(cur[k], seen[k])
    /\ LET open == Applies(cur[k]) /\ seen[k] = "pending" IN
       /\ Goto(k, IF open /\ ~keep[k] THEN "cancel" ELSE "live")
       /\ reused' = [reused EXCEPT ![k] = @ \/ (open /\ keep[k])]
    /\ UNCHANGED <<gateway, writing, ext, method, want, todo, named, cur, seen, keep,
                   answer, hookVars, remote, boundVars>>

\* What was fetched is applied; racedTerminal is an apply that found the row
\* terminal.  A charge still open is reused, or goes on to be cancelled.
ApplySeen(k) ==
    /\ phase[k] = "apply"
    /\ ApplyEvent(cur[k], seen[k])
    /\ LET open == Applies(cur[k]) /\ seen[k] \in {"pending", "processing"} IN
       /\ Goto(k, IF open /\ ~keep[k] THEN "cancel" ELSE "live")
       /\ reused' = [reused EXCEPT ![k] = @ \/ (open /\ keep[k])]
    /\ UNCHANGED <<gateway, writing, ext, method, want, todo, named, cur, seen, keep,
                   answer, hookVars, remote, boundVars>>

\* cancelCharge took effect and says so; the row follows in its own transaction.
CancelAtGateway(k) ==
    /\ phase[k] = "cancel"
    /\ Cancelable(remote[cur[k]])
    /\ Becomes(cur[k], "cancelled")
    /\ Goto(k, "close")
    /\ UNCHANGED <<gateway, orderVars, rowVars, want, todo, named, cur, seen, keep,
                   reused, answer, handled, fetched, boundVars>>

\* Mutant: the error of cancelCharge is swallowed.
CancelFailsQuietly(k) ==
    /\ phase[k] = "cancel"
    /\ Goto(k, "close")
    /\ UNCHANGED <<gateway, orderVars, rowVars, want, todo, named, cur, seen, keep,
                   reused, answer, hookVars, remote, boundVars>>

\* cancelCharge is rejected, fails, or goes unanswered: ORDER_HAS_PENDING_CHARGE.
CancelFails(k) ==
    /\ phase[k] = "cancel"
    /\ \/ UNCHANGED <<remote, notices, lost>>
       \/ /\ Cancelable(remote[cur[k]]) /\ lost < MaxLost
          /\ Becomes(cur[k], "cancelled")
          /\ lost' = lost + 1
    /\ Ends(k)
    /\ UNCHANGED <<gateway, orderVars, rowVars, handled, fetched, crashes>>

CloseCancelled(k) ==
    /\ phase[k] = "close"
    /\ SetStatus(cur[k], "cancelled")
    /\ Goto(k, "live")
    /\ UNCHANGED <<gateway, orderVars, ext, method, want, todo, named, cur, seen, keep,
                   reused, answer, hookVars, remote, boundVars>>

ReturnReused(k) ==
    /\ phase[k] = "live" /\ todo[k] = {} /\ reused[k]
    /\ Ends(k)
    /\ UNCHANGED <<gateway, orderVars, rowVars, hookVars, remote, boundVars>>

\* Mutant: the id of the new row is not kept.
InsertForgetsRow(k) ==
    /\ phase[k] = "live" /\ todo[k] = {} /\ ~reused[k]
    /\ \E c \in Fresh :
          /\ status' = [status EXCEPT ![c] = "pending"]
          /\ method' = [method EXCEPT ![c] = want[k]]
    /\ Goto(k, "create")
    /\ UNCHANGED <<gateway, orderVars, ext, want, todo, named, cur, seen, keep, reused,
                   answer, hookVars, remote, boundVars>>

\* insertPendingPaymentChargeRow, once every live charge was dealt with.
Insert(k) ==
    /\ phase[k] = "live" /\ todo[k] = {} /\ ~reused[k]
    /\ \E c \in Fresh :
          /\ status' = [status EXCEPT ![c] = "pending"]
          /\ method' = [method EXCEPT ![c] = want[k]]
          /\ cur' = [cur EXCEPT ![k] = c]
    /\ Goto(k, "create")
    /\ UNCHANGED <<gateway, orderVars, ext, want, todo, named, seen, keep, reused, answer,
                   hookVars, remote, boundVars>>

\* createCharge: done and answered, not done, or done and unanswered.
Create(k) ==
    /\ phase[k] = "create"
    /\ \/ \E result \in Creates(want[k]) :
             /\ Becomes(cur[k], result[1])
             /\ answer' = [answer EXCEPT ![k] = result[2]]
             /\ UNCHANGED lost
       \/ /\ answer' = [answer EXCEPT ![k] = "error"]
          /\ UNCHANGED <<remote, notices, lost>>
       \/ /\ lost < MaxLost
          /\ \E result \in Creates(want[k]) : Becomes(cur[k], result[1])
          /\ answer' = [answer EXCEPT ![k] = "error"]
          /\ lost' = lost + 1
    /\ Goto(k, "record")
    /\ UNCHANGED <<gateway, orderVars, rowVars, want, todo, named, cur, seen, keep, reused,
                   handled, fetched, crashes>>

\* Mutant: an authorized card counts as paid.
RecordedAsPaid(a) ==
    IF a = "authorized" THEN "paid" ELSE IF a = "pix" THEN "pending" ELSE "failed"

\* markPaymentChargeCreatedRow, unconditional, and what the answer means for the
\* order; a Pix just created means nothing yet.
RecordedStatus(a) ==
    IF a = "authorized" THEN "authorized" ELSE IF a = "pix" THEN "pending" ELSE "failed"

Record(k) ==
    /\ phase[k] = "record"
    /\ status' = [status EXCEPT ![cur[k]] = RecordedStatus(answer[k])]
    /\ ext' = IF answer[k] = "error" THEN ext \ {cur[k]} ELSE ext \cup {cur[k]}
    /\ payStatus' = PayStatusAfter(RecordedStatus(answer[k]))
    /\ Ends(k)
    /\ UNCHANGED <<gateway, orderStatus, writing, method, hookVars, remote, boundVars>>

\* The process stops, or a transaction of the request fails.
Crash(k) ==
    /\ phase[k] # "idle"
    /\ crashes < MaxCrashes
    /\ crashes' = crashes + 1
    /\ Ends(k)
    /\ UNCHANGED <<gateway, orderVars, rowVars, hookVars, remote, lost>>

-----------------------------------------------------------------------------
(* Webhooks.  Every notification is answered 200, so none comes back because *)
(* it could not be applied.                                                *)

\* Mutant: the row is looked up by external_id only.
StripeEventByExternalId(n) ==
    /\ gateway = "stripe"
    /\ n \in notices \ handled
    /\ IF n[1] \in ext THEN ApplyEvent(n[1], ProviderStatus(n[2]))
                       ELSE UNCHANGED <<status, payStatus, orderStatus>>
    /\ handled' = handled \cup {n}
    /\ UNCHANGED <<gateway, writing, ext, method, callVars, notices, fetched, remote,
                   boundVars>>

\* Stripe: the event carries the status and, in its metadata, the row's id;
\* checked against the log, applied and logged in one transaction.
StripeEvent(n) ==
    /\ gateway = "stripe"
    /\ n \in notices \ handled
    /\ ApplyEvent(n[1], ProviderStatus(n[2]))
    /\ handled' = handled \cup {n}
    /\ UNCHANGED <<gateway, writing, ext, method, callVars, notices, fetched, remote,
                   boundVars>>

\* Mercado Pago: the notification only names its order; a row must already have
\* that external_id, or the notification is dropped ("unknown_order_id").
MercadoPagoNotice(n) ==
    /\ gateway = "mercadopago"
    /\ n \in notices \ handled
    /\ IF n[1] \in ext
       THEN /\ Cardinality(fetched) < MaxHandlers
            /\ fetched' = fetched \cup {<<n, ProviderStatus(remote[n[1]])>>}
            /\ UNCHANGED handled
       ELSE /\ handled' = handled \cup {n}
            /\ UNCHANGED fetched
    /\ UNCHANGED <<gateway, orderVars, rowVars, callVars, notices, remote, boundVars>>

\* What the handler fetched is applied, in a later transaction.
MercadoPagoApply(f) ==
    /\ f \in fetched
    /\ ApplyEvent(f[1][1], f[2])
    /\ fetched' = fetched \ {f}
    /\ handled' = handled \cup {f[1]}
    /\ UNCHANGED <<gateway, writing, ext, method, callVars, notices, remote, boundVars>>

-----------------------------------------------------------------------------
(* Operators: markOrderPaid and cancelOrder check the status they read and  *)
(* then write without looking again.                                       *)

OperatorReads(s) ==
    /\ orderStatus = "separado" /\ s \notin writing
    /\ writing' = writing \cup {s}
    /\ UNCHANGED <<gateway, orderStatus, payStatus, rowVars, callVars, hookVars, remote,
                   boundVars>>

OperatorWrites(s) ==
    /\ s \in writing
    /\ orderStatus' = s
    /\ writing' = writing \ {s}
    /\ UNCHANGED <<gateway, payStatus, rowVars, callVars, hookVars, remote, boundVars>>

-----------------------------------------------------------------------------
CallerStep(k) ==
    \/ Prepare(k) \/ CancelUnnamed(k) \/ Fetch(k) \/ FetchFails(k) \/ ApplySeen(k)
    \/ CancelAtGateway(k) \/ CancelFails(k) \/ CloseCancelled(k) \/ ReturnReused(k)
    \/ Insert(k) \/ Create(k) \/ Record(k)

Next ==
    \/ \E k \in Callers : PayByLink(k) \/ PayByWhatsApp(k) \/ CallerStep(k) \/ Crash(k)
    \/ \E c \in Charges : Settle(c)
    \/ \E n \in Notices : StripeEvent(n) \/ MercadoPagoNotice(n)
    \/ \E f \in Notices \X RowStatuses : MercadoPagoApply(f)
    \/ \E s \in OperatorSets : OperatorReads(s) \/ OperatorWrites(s)

Spec == Init /\ [][Next]_vars

(***************************************************************************)
(* Fairness: a request that runs reaches its end, and a notification that  *)
(* was sent is delivered and its handler finishes.  Nothing is assumed of  *)
(* customers, operators or of how the gateway settles.                     *)
(***************************************************************************)
Fairness ==
    /\ \A k \in Callers : WF_vars(CallerStep(k))
    /\ \A n \in Notices : WF_vars(StripeEvent(n)) /\ WF_vars(MercadoPagoNotice(n))
    /\ \A f \in Notices \X RowStatuses : WF_vars(MercadoPagoApply(f))

FairSpec == Spec /\ Fairness

-----------------------------------------------------------------------------
\* Whatever is retried, reused, superseded, unanswered or delivered late, twice or
\* out of order, an order counts as paid only if the gateway took the money, and
\* so does each of its charges.
PaidMeansCaptured ==
    /\ payStatus = "paid" => \E c \in Charges : remote[c] = "captured"
    /\ \A c \in Charges : status[c] = "paid" => remote[c] = "captured"

\* A paid order is closed: 'pago', unless an operator cancelled it.
PaidOrderIsClosed == payStatus = "paid" => orderStatus \in {"pago", "cancelado"}

\* Nothing that arrives after the payment (the failure of a second attempt, a late
\* or stale event, the cancelling of a sibling charge) touches a paid order; only
\* an operator still can, and only its order status.
PaidOrderStands ==
    [][payStatus = "paid" =>
          /\ payStatus' = "paid"
          /\ orderStatus' # orderStatus => writing' # writing]_vars

\* Once the answer to its creation is recorded, a charge in a terminal status keeps
\* it, whatever events, stale fetches and concurrent requests still bring.
TerminalStands ==
    [][\A c \in ext : status[c] \in Terminal => status'[c] = status[c]]_vars

\* Seen from outside, money is taken charge by charge and for good, and the order
\* is paid once, after that, and closed in the same transaction.
Payment == INSTANCE OrderPayment WITH
               captured <- {c \in Charges : remote[c] = "captured"},
               paid     <- payStatus = "paid",
               order    <- orderStatus
PaymentSpec == Payment!Spec

\* Requests that come one at a time and are answered never leave two charges at the
\* gateway that can both still take the customer's money.
OneOpenAtGateway ==
    \A c, d \in Charges :
        remote[c] \in {"open", "processing"} /\ remote[d] \in {"open", "processing"}
            => c = d

\* ... nor does the shop regard as closed a charge that took, or may take, money.
ClosedTakesNoMoney ==
    \A c \in Charges : status[c] \in {"failed", "cancelled", "expired"} =>
        remote[c] \notin {"open", "processing", "captured"}

\* With Stripe and such requests no payment is forgotten: until the order is paid,
\* the notification that will pay it is still to be handled, and whatever comes
\* before it (events out of order, a stale fetch, an answer recorded over it)
\* leaves the row in a status that it applies to.
CapturedIsKnown ==
    \A c \in Charges : gateway = "stripe" /\ remote[c] = "captured" =>
        payStatus = "paid" \/ <<c, "captured">> \in notices \ handled

\* With Stripe, such requests and delivered events, a captured payment reaches
\* the order.
CapturedIsSettled ==
    \A c \in Charges :
        (gateway = "stripe" /\ remote[c] = "captured") ~> (payStatus = "paid")

-----------------------------------------------------------------------------
(* What comments and checks of the repository say and the code does not keep. *)

\* paymentChargeService.ts:165: before a new attempt every earlier one is resolved
\* or cancelled, "nunca duas tentativas vivas ao mesmo tempo".
NeverTwoLive ==
    \A c, d \in Charges : status[c] \in Live /\ status[d] \in Live => c = d

\* orderPaymentLinkService.ts: an order whose payment_status is 'paid' is not
\* charged again (ORDER_ALREADY_PAID).
PaidOrderNotCharged ==
    [][payStatus = "paid" => Fresh' = Fresh]_vars
=============================================================================
