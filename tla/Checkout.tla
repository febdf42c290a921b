------------------------------ MODULE Checkout ------------------------------
(***************************************************************************)
(* Checkout: order sessions and the orders they fill, from the first item  *)
(* to the confirmed, separated, paid or cancelled order                    *)
(* (services/orders/orderSessionService.ts, paymentService.ts,             *)
(* paymentLinkService.ts, orderService.ts, orderItemSync.ts over           *)
(* models/ordersModel.ts).                                                 *)
(*                                                                         *)
(* Every handler is one READ COMMITTED transaction.  It first reads rows   *)
(* without a lock and decides on them which order it is about; then it     *)
(* locks, checks what it re-reads and commits.  The two parts are two      *)
(* actions here, so that whatever commits in between is seen or missed as  *)
(* in the code.  After the commit the call still has to hand the order to  *)
(* the ERP queue, a transaction of its own.                                *)
(*                                                                         *)
(* Freight, stock and prices only decide whether a call throws, which it   *)
(* may do anywhere before its commit.  Quantities are left out (an item is *)
(* in a cart or not), and so are sellers and what a gateway's payment does *)
(* to the order (that is PaymentCharges).                                  *)
(***************************************************************************)
EXTENDS Naturals, FiniteSets

CONSTANTS
    Sessions, Orders,   \* rows that may come to exist (bounds)
    Clients,
    Items,
    Calls,              \* slots for concurrent calls
    Tokens,             \* payment links that may come to exist (bound)
    None,               \* NULL, and an idle slot
    MaxCalls            \* bound: calls begun

ASSUME BoundAssumption == MaxCalls \in Nat

VARIABLES
    \* table order_sessions (status "none": no row) and order_session_items
    sStatus, sClient, sOrder, sOnline, sItems,
    token,              \* payment_token_hash
    \* table orders (status "none": no row) and order_items
    oStatus, oClient, oItems,
    \* the calls
    call,               \* what the call was asked and read, or None
    begun,              \* calls begun (bound)
    \* history
    issued, revoked,    \* payment links made; those a later write took back
    revived,            \* sessions that were made live again
    late,               \* sessions tied to an order that had left the cart
    identified,         \* sessions that were given a client after they were created
    mixed,              \* sessions edited by a call that held another order for them
    joined,             \* the sessions that ever pointed at the order
    unsent,             \* confirmed orders that changed and were not handed to the queue
    lost                \* orders whose call stopped before it handed them over

sessionVars == <<sStatus, sClient, sOrder, sOnline, sItems, token>>
orderVars   == <<oStatus, oClient, oItems>>
history     == <<issued, revoked, revived, late, identified, mixed, joined, unsent, lost>>
vars == <<sessionVars, orderVars, call, begun, history>>

Live == {"aberto", "aguardando_pagamento"}
SessionStatuses == Live \cup {"fechado", "cancelado"}
\* Orders are inserted as 'aberto'; nothing writes 'aguardando_pagamento' to one.
Cart == {"aberto"}
OrderStatuses == Cart \cup {"novo", "separado", "pago", "cancelado"}
Past(o) == oStatus[o] \notin Cart \cup {"none"}
\* Mutant: a session waiting for its payment link is taken for closed.
LiveOfOpen(o) == {s \in Sessions : sOrder[s] = o /\ sStatus[s] = "aberto"}
LiveOf(o) == {s \in Sessions : sOrder[s] = o /\ sStatus[s] \in Live}

Ops == {"create", "edit", "finalize", "link", "confirm", "checkout", "cancel", "paid", "push"}
\* A call: its session, the order it decided on, whether that order is to be
\* attached, the client, the link, who asks, and the body.
CallRecords ==
    [op : Ops, s : Sessions \cup {None}, o : Orders \cup {None}, attach : BOOLEAN,
     c : Clients \cup {None}, t : Tokens \cup {None}, byClient : BOOLEAN, online : BOOLEAN,
     to : SessionStatuses \cup {None}, set : SUBSET Items, del : SUBSET Items]
ASSUME NoneAssumption ==
    /\ None \notin Sessions \cup Orders \cup Clients \cup Tokens \cup SessionStatuses
    /\ None \notin CallRecords
Idle(p) == call[p] = None

\* Types; and a session has an order exactly when it has a client, so that the
\* self-healing branches for a missing order_id are never taken.
TypeOK ==
    /\ sStatus \in [Sessions -> SessionStatuses \cup {"none"}]
    /\ sClient \in [Sessions -> Clients \cup {None}]
    /\ sOrder \in [Sessions -> Orders \cup {None}]
    /\ \A s \in Sessions : sClient[s] = None <=> sOrder[s] = None
    /\ \A s \in Sessions : sOrder[s] # None => oStatus[sOrder[s]] # "none"
    /\ sOnline \in [Sessions -> BOOLEAN]
    /\ sItems \in [Sessions -> SUBSET Items]
    /\ token \in [Sessions -> Tokens \cup {None}]
    /\ oStatus \in [Orders -> OrderStatuses \cup {"none"}]
    /\ oClient \in [Orders -> Clients \cup {None}]
    /\ oItems \in [Orders -> SUBSET Items]
    /\ call \in [Calls -> CallRecords \cup {None}]
    /\ begun \in Nat
    /\ issued \subseteq Tokens /\ revoked \subseteq Tokens
    /\ revived \subseteq Sessions /\ late \subseteq Sessions
    /\ identified \subseteq Sessions /\ mixed \subseteq Sessions
    /\ joined \in [Orders -> SUBSET Sessions]
    /\ unsent \subseteq Orders /\ lost \subseteq Orders

Init ==
    /\ sStatus = [s \in Sessions |-> "none"]
    /\ sClient = [s \in Sessions |-> None]
    /\ sOrder = [s \in Sessions |-> None]
    /\ sOnline = [s \in Sessions |-> FALSE]
    /\ sItems = [s \in Sessions |-> {}]
    /\ token = [s \in Sessions |-> None]
    /\ oStatus = [o \in Orders |-> "none"]
    /\ oClient = [o \in Orders |-> None]
    /\ oItems = [o \in Orders |-> {}]
    /\ call = [p \in Calls |-> None]
    /\ begun = 0
    /\ issued = {} /\ revoked = {} /\ revived = {} /\ late = {} /\ identified = {} /\ mixed = {}
    /\ joined = [o \in Orders |-> {}]
    /\ unsent = {} /\ lost = {}

-----------------------------------------------------------------------------
(* Shared steps                                                             *)

Blank == [op |-> "push", s |-> None, o |-> None, attach |-> FALSE, c |-> None, t |-> None,
          byClient |-> FALSE, online |-> FALSE, to |-> None, set |-> {}, del |-> {}]

\* The transaction opens and has read, without a lock, what decides record r.
Open(p, r) ==
    /\ begun' = begun + 1
    /\ call' = [call EXCEPT ![p] = r]
    /\ UNCHANGED <<sessionVars, orderVars, history>>

\* The call ends, with or without the order still to be handed to the ERP queue.
Return(p) == call' = [call EXCEPT ![p] = None] /\ UNCHANGED begun
\* Mutant: an order already separated is not sent again.
ThenPushUnseparated(p, o) ==
    call' = [call EXCEPT ![p] = IF oStatus[o] = "separado" THEN None ELSE [Blank EXCEPT !.o = o]]
    /\ UNCHANGED begun
ThenPush(p, o) == call' = [call EXCEPT ![p] = [Blank EXCEPT !.o = o]] /\ UNCHANGED begun

\* findOpenOrderRowForAttachment reads the newest open order of the client and the
\* seller by created_at, the start of the transaction that inserted it: any of them.
OpenOrders(c) == {o \in Orders : oClient[o] = c /\ oStatus[o] \in Cart}
\* getOrCreateOpenOrder reads; None stands for the order this call will insert.  It
\* may insert one beside any other: those may be another seller's.
FoundOrNew(c) == {None} \cup (IF c = None THEN {} ELSE OpenOrders(c))
\* The order the call then works on: what it found, or a row of its own.
OrderOf(r) == IF r.o # None THEN {r.o} ELSE {o \in Orders : oStatus[o] = "none"}

\* Mutant: the items taken out of the session stay in the order.
SyncedUpsertOnly(o, before, after) == oItems[o] \cup after
\* syncOrderItems: the items that were and are no more are deleted, all that
\* are now are upserted.
Synced(o, before, after) == (oItems[o] \ (before \ after)) \cup after

\* The sessions in S are closed or cancelled; their links die with them.
CloseSessions(S, status) ==
    /\ sStatus' = [s \in Sessions |-> IF s \in S THEN status ELSE sStatus[s]]
    /\ token' = [s \in Sessions |-> IF s \in S THEN None ELSE token[s]]
    /\ revoked' = revoked \cup ({token[s] : s \in S} \ {None})

-----------------------------------------------------------------------------
(* Sessions                                                                 *)

\* Mutant: no lock.
ClientNeverLocked(c) == FALSE
\* pg_advisory_xact_lock of ensureCustomerOrderSession and createOrderSession.
ClientLocked(c) ==
    \E p \in Calls : ~ Idle(p) /\ call[p].op = "create" /\ call[p].online /\ call[p].c = c

LiveSessions(c) == {s \in Sessions : sClient[s] = c /\ sStatus[s] \in Live}
\* closeStaleOrderSessionRowsByClient
Stale(c) == {s \in LiveSessions(c) : oStatus[sOrder[s]] \in {"pago", "cancelado"}}

\* createOrderSession, and the client's own ensureCustomerOrderSession; both
\* return the live online session they find.
BeginCreate(p, c, byClient, online, items) ==
    /\ byClient => online /\ c # None
    /\ online /\ c # None => ~ ClientLocked(c) /\ LiveSessions(c) = {}
    /\ \E o \in FoundOrNew(c) :
        Open(p, [Blank EXCEPT !.op = "create", !.c = c, !.o = o, !.byClient = byClient,
                              !.online = online, !.set = items])

\* The session is inserted on the order found, and its items are synced into it,
\* whatever became of it and whoever asks.
CommitCreate(p) ==
    LET r == call[p] IN
    /\ ~ Idle(p) /\ r.op = "create"
    /\ \E s \in Sessions, o \in IF r.c = None THEN {None} ELSE OrderOf(r) :
        /\ sStatus[s] = "none"
        /\ sStatus' = [sStatus EXCEPT ![s] = "aberto"]
        /\ sClient' = [sClient EXCEPT ![s] = r.c]
        /\ sOrder' = [sOrder EXCEPT ![s] = o]
        /\ sOnline' = [sOnline EXCEPT ![s] = r.online]
        /\ sItems' = [sItems EXCEPT ![s] = r.set]
        /\ IF o = None THEN UNCHANGED <<orderVars, late, joined, unsent>>
           ELSE /\ oStatus' = [oStatus EXCEPT ![o] = IF @ = "none" THEN "aberto" ELSE @]
                /\ oClient' = [oClient EXCEPT ![o] = r.c]
                /\ oItems' = [oItems EXCEPT ![o] = Synced(o, {}, r.set)]
                /\ late' = IF Past(o) THEN late \cup {s} ELSE late
                /\ joined' = [joined EXCEPT ![o] = @ \cup {s}]
                /\ unsent' = IF Past(o) /\ ~ r.set \subseteq oItems[o] THEN unsent \cup {o} ELSE unsent
    /\ Return(p)
    /\ UNCHANGED <<token, issued, revoked, revived, identified, mixed, lost>>

\* customerActiveSession, and the start of ensureCustomerOrderSession: the
\* client's live sessions of a paid or cancelled order are closed.
Reconcile(c) ==
    /\ Stale(c) # {}
    /\ CloseSessions(Stale(c), "fechado")
    /\ UNCHANGED <<sClient, sOrder, sOnline, sItems, orderVars, call, begun, issued, revived,
                   late, identified, mixed, joined, unsent, lost>>

\* Mutant: the client is not told from the seller.
CanMutateAnyone(status, byClient) == status # "cancelado"

\* canMutateLinkedOrder
CanMutate(status, byClient) ==
    /\ status # "cancelado"
    /\ byClient => status \in Cart

\* A cancelled session takes nothing but its reopening by the seller.
Refused(status, r) == status = "cancelado" /\ (r.byClient \/ r.to # "aberto")

\* A client's body that names the client or the status is not obeyed, but has the
\* call write back what it read of them before its locks.
MayAsk(r) ==
    sClient[r.s] # None /\ r.c \in {None, sClient[r.s]} /\ r.to \in {None, sStatus[r.s]}

\* Mutant: naming the client attaches no order.
BeginEditUnattached(p, r) ==
    /\ r.op = "edit" /\ sStatus[r.s] # "none"
    /\ r.byClient => MayAsk(r)
    /\ ~ Refused(sStatus[r.s], r)
    /\ Open(p, [r EXCEPT !.o = sOrder[r.s]])

\* updateSession.  The client means to change items; the seller may also name
\* the client or move the status.  A session without an order gets one when
\* the client is named: found or to be inserted, decided on the unlocked read.
BeginEdit(p, r) ==
    /\ r.op = "edit" /\ sStatus[r.s] # "none"
    /\ r.byClient => MayAsk(r)
    /\ ~ Refused(sStatus[r.s], r)
    /\ LET attach == sOrder[r.s] = None /\ r.c # None IN
       \E o \in IF attach THEN FoundOrNew(r.c) ELSE {sOrder[r.s]} :
           Open(p, [r EXCEPT !.o = o, !.attach = attach])

\* Under the locks of the order and the session, what the call was not asked to
\* change is taken from the row as it is now; the order is not: it stays the
\* one decided on before.
CommitEdit(p) ==
    LET r == call[p]
        s == r.s
        status == IF r.to = None THEN sStatus[s] ELSE r.to
        items == (sItems[s] \cup r.set) \ r.del
        changed == r.set \cup r.del # {}
        clear == (status = "aberto" /\ sStatus[s] # "aberto") \/ status = "cancelado"
    IN
    /\ ~ Idle(p) /\ r.op = "edit"
    /\ ~ Refused(sStatus[s], r)
    /\ sStatus' = [sStatus EXCEPT ![s] = status]
    /\ sClient' = [sClient EXCEPT ![s] = IF r.c = None THEN @ ELSE r.c]
    /\ sItems' = [sItems EXCEPT ![s] = items]
    /\ token' = [token EXCEPT ![s] = IF clear THEN None ELSE @]
    /\ revoked' = IF clear /\ token[s] # None THEN revoked \cup {token[s]} ELSE revoked
    /\ identified' = IF r.c \in {None, sClient[s]} THEN identified ELSE identified \cup {s}
    /\ revived' = IF status \in Live /\ sStatus[s] \notin Live THEN revived \cup {s} ELSE revived
    /\ \/ /\ r.o = None /\ ~ r.attach
          /\ mixed' = IF sOrder[s] # None /\ changed THEN mixed \cup {s} ELSE mixed
          /\ Return(p)
          /\ UNCHANGED <<sOrder, orderVars, late, joined, unsent>>
       \/ \E o \in OrderOf(r) :
          /\ r.o # None \/ r.attach
          /\ r.o # None => CanMutate(oStatus[o], r.byClient)
          /\ sOrder' = [sOrder EXCEPT ![s] = o]
          /\ oStatus' = [oStatus EXCEPT ![o] = IF @ = "none" THEN "aberto" ELSE @]
          /\ oClient' = [oClient EXCEPT ![o] = IF @ = None THEN r.c ELSE @]
          /\ oItems' = [oItems EXCEPT ![o] =
                            IF r.attach THEN Synced(o, {}, items)
                            ELSE IF changed THEN Synced(o, sItems[s], items) ELSE @]
          /\ mixed' = IF sOrder[s] # (IF r.attach THEN None ELSE o) THEN mixed \cup {s} ELSE mixed
          /\ late' = IF Past(o) /\ (r.attach \/ sOrder[s] # o) THEN late \cup {s} ELSE late
          /\ joined' = [joined EXCEPT ![o] = @ \cup {s}]
          /\ unsent' = IF Past(o) /\ oItems'[o] # oItems[o] THEN unsent \cup {o} ELSE unsent
          /\ IF changed /\ Past(o) THEN ThenPush(p, o) ELSE Return(p)
    /\ UNCHANGED <<sOnline, issued, lost>>

-----------------------------------------------------------------------------
(* Confirming an order                                                      *)

\* Mutant: an upsell puts the order back to 'novo'.
ConfirmAlways(p, o) ==
    /\ oStatus' = [oStatus EXCEPT ![o] = "novo"]
    /\ CloseSessions(LiveOf(o), "fechado")
    /\ unsent' = unsent \cup {o}
    /\ ThenPush(p, o)
    /\ UNCHANGED <<sClient, sOrder, sOnline, sItems, oClient, oItems, issued, revived,
                   late, identified, mixed, joined, lost>>

\* The order leaves the cart and every live session of it is closed.
Confirm(p, o) ==
    /\ oStatus' = [oStatus EXCEPT ![o] = IF @ \in Cart THEN "novo" ELSE @]
    /\ CloseSessions(LiveOf(o), "fechado")
    /\ unsent' = unsent \cup {o}
    /\ ThenPush(p, o)
    /\ UNCHANGED <<sClient, sOrder, sOnline, sItems, oClient, oItems, issued, revived,
                   late, identified, mixed, joined, lost>>

BeginFinalize(p, s) ==
    /\ sStatus[s] \in Live /\ sClient[s] # None
    /\ Open(p, [Blank EXCEPT !.op = "finalize", !.s = s, !.o = sOrder[s]])

\* Again on an order past its cart, it only closes the sessions of the upsell.
CommitFinalize(p) ==
    LET o == call[p].o IN
    /\ ~ Idle(p) /\ call[p].op = "finalize"
    /\ oStatus[o] \notin {"pago", "cancelado"}
    /\ oItems[o] # {}
    /\ Confirm(p, o)

\* createCustomerOrder from a session, in whatever status it is.
BeginCheckout(p, s) ==
    /\ sStatus[s] # "none" /\ sClient[s] # None
    /\ Open(p, [Blank EXCEPT !.op = "checkout", !.s = s, !.o = sOrder[s]])

CommitCheckout(p) ==
    LET o == call[p].o IN
    /\ ~ Idle(p) /\ call[p].op = "checkout"
    /\ oStatus[o] \in Cart
    /\ oItems[o] # {}
    /\ Confirm(p, o)

\* createCustomerOrder without a session: no open order without a seller ever
\* commits, so that it always inserts its own.
DirectCheckout(p, c, o, items) ==
    /\ oStatus[o] = "none" /\ items # {}
    /\ begun' = begun + 1
    /\ oStatus' = [oStatus EXCEPT ![o] = "novo"]
    /\ oClient' = [oClient EXCEPT ![o] = c]
    /\ oItems' = [oItems EXCEPT ![o] = items]
    /\ unsent' = unsent \cup {o}
    /\ call' = [call EXCEPT ![p] = [Blank EXCEPT !.o = o]]
    /\ UNCHANGED <<sessionVars, issued, revoked, revived, late, identified, mixed, joined, lost>>

\* createPaymentLink checks the session it read and writes the row by its id.
BeginLink(p, s) ==
    /\ sStatus[s] \notin {"none", "cancelado"} /\ sClient[s] # None /\ sItems[s] # {}
    /\ Open(p, [Blank EXCEPT !.op = "link", !.s = s])

CommitLink(p) ==
    LET s == call[p].s IN
    /\ ~ Idle(p) /\ call[p].op = "link"
    /\ \E t \in Tokens \ issued :
        /\ issued' = issued \cup {t}
        /\ token' = [token EXCEPT ![s] = t]
    /\ revoked' = IF token[s] # None THEN revoked \cup {token[s]} ELSE revoked
    /\ sStatus' = [sStatus EXCEPT ![s] = "aguardando_pagamento"]
    /\ revived' = IF sStatus[s] \notin Live THEN revived \cup {s} ELSE revived
    /\ Return(p)
    /\ UNCHANGED <<sClient, sOrder, sOnline, sItems, orderVars, late, identified, mixed,
                   joined, unsent, lost>>

\* confirmPayment.  The link is looked up again once the order is locked.
BeginConfirm(p, s) ==
    /\ token[s] # None /\ sStatus[s] = "aguardando_pagamento"
    /\ Open(p, [Blank EXCEPT !.op = "confirm", !.s = s, !.o = sOrder[s], !.t = token[s]])

\* Mutant: the link is not looked up again.
LinkHeld(r) == sOrder[r.s] = r.o

LinkHolds(r) ==
    token[r.s] = r.t /\ sStatus[r.s] = "aguardando_pagamento" /\ sOrder[r.s] = r.o

CommitConfirm(p) ==
    LET r == call[p] IN
    /\ ~ Idle(p) /\ r.op = "confirm"
    /\ oStatus[r.o] \in Cart
    /\ LinkHolds(r)
    /\ Confirm(p, r.o)

-----------------------------------------------------------------------------
(* The store's decisions on an order                                        *)

\* confirmOrderItemsSeparation, all of it under the order's lock.
Separate(o) ==
    /\ oStatus[o] = "novo" /\ oItems[o] # {}
    /\ oStatus' = [oStatus EXCEPT ![o] = "separado"]
    /\ UNCHANGED <<sessionVars, oClient, oItems, call, begun, history>>

\* markOrderPaid and cancelOrder check an unlocked read and write regardless.
BeginPaid(p, o) ==
    /\ oStatus[o] \in {"novo", "separado"}
    /\ Open(p, [Blank EXCEPT !.op = "paid", !.o = o])

CommitPaid(p) ==
    LET o == call[p].o IN
    /\ ~ Idle(p) /\ call[p].op = "paid"
    /\ oStatus' = [oStatus EXCEPT ![o] = "pago"]
    /\ unsent' = unsent \cup {o}
    /\ ThenPush(p, o)
    /\ UNCHANGED <<sessionVars, oClient, oItems, issued, revoked, revived, late, identified,
                   mixed, joined, lost>>

BeginCancel(p, o) ==
    /\ oStatus[o] \notin {"none", "pago", "cancelado"}
    /\ Open(p, [Blank EXCEPT !.op = "cancel", !.o = o])

CommitCancel(p) ==
    LET o == call[p].o IN
    /\ ~ Idle(p) /\ call[p].op = "cancel"
    /\ oStatus' = [oStatus EXCEPT ![o] = "cancelado"]
    /\ CloseSessions(LiveOf(o), "cancelado")
    /\ Return(p)
    /\ UNCHANGED <<sClient, sOrder, sOnline, sItems, oClient, oItems, issued, revived,
                   late, identified, mixed, joined, unsent, lost>>

-----------------------------------------------------------------------------
(* After the commit, and failures                                           *)

\* enqueueOrderPush or requestProviderOrderResend.
Push(p) ==
    /\ ~ Idle(p) /\ call[p].op = "push"
    /\ unsent' = unsent \ {call[p].o}
    /\ Return(p)
    /\ UNCHANGED <<sessionVars, orderVars, issued, revoked, revived, late,
                   identified, mixed, joined, lost>>

\* The call throws or its process stops: before the commit nothing is kept,
\* after it the order is not handed over.
Stop(p) ==
    /\ ~ Idle(p)
    /\ lost' = IF call[p].op = "push" THEN lost \cup {call[p].o} ELSE lost
    /\ Return(p)
    /\ UNCHANGED <<sessionVars, orderVars, issued, revoked, revived, late,
                   identified, mixed, joined, unsent>>

-----------------------------------------------------------------------------
(* The specification                                                        *)

\* The bodies of updateSession: a delta of items, a client and a status, in any
\* combination.
Edit(s, byClient, c, to, d) ==
    [Blank EXCEPT !.op = "edit", !.s = s, !.byClient = byClient, !.c = c, !.to = to,
                  !.set = d[1], !.del = d[2]]
Deltas == {d \in (SUBSET Items) \X (SUBSET Items) : d[1] \cap d[2] = {}}

\* A call begins in an idle slot.
Begin(p) ==
    /\ Idle(p) /\ begun < MaxCalls
    /\ \/ \E c \in Clients \cup {None}, online \in BOOLEAN, items \in SUBSET Items :
            \E byClient \in BOOLEAN : BeginCreate(p, c, byClient, online, items)
       \/ \E s \in Sessions, d \in Deltas, byClient \in BOOLEAN,
             c \in Clients \cup {None}, to \in SessionStatuses \cup {None} :
            BeginEdit(p, Edit(s, byClient, c, to, d))
       \/ \E s \in Sessions :
            BeginFinalize(p, s) \/ BeginCheckout(p, s) \/ BeginLink(p, s) \/ BeginConfirm(p, s)
       \/ \E c \in Clients, o \in Orders, items \in SUBSET Items : DirectCheckout(p, c, o, items)
       \/ \E o \in Orders : BeginPaid(p, o) \/ BeginCancel(p, o)

Next ==
    \/ \E p \in Calls :
        \/ Begin(p)
        \/ CommitCreate(p) \/ CommitEdit(p) \/ CommitFinalize(p) \/ CommitCheckout(p)
        \/ CommitLink(p) \/ CommitConfirm(p) \/ CommitPaid(p) \/ CommitCancel(p)
        \/ Push(p) \/ Stop(p)
    \/ \E c \in Clients : Reconcile(c)
    \/ \E o \in Orders : Separate(o)

Spec == Init /\ [][Next]_vars

-----------------------------------------------------------------------------
(* Properties                                                               *)

\* An order that only one session ever filled holds exactly the items of that
\* session, whatever edits, attachments and reopenings interleaved: the
\* store separates what the talao shows (syncOrderItems fed with the delta
\* re-read under the lock).  Not so for a session edited by a call that had
\* decided on another order for it.
SoleSessionMirrors ==
    \A s \in Sessions, o \in Orders :
        joined[o] = {s} /\ sOrder[s] = o /\ s \notin mixed => oItems[o] = sItems[s]

\* A client never has two live online sessions, though two tabs and the seller
\* may open one at the same time (the advisory lock); unless one of them was
\* reopened or was given this client later, which take no lock.
OneOnlineSession ==
    \A s, z \in Sessions :
        /\ s # z /\ sOnline[s] /\ sOnline[z]
        /\ sStatus[s] \in Live /\ sStatus[z] \in Live
        /\ sClient[s] = sClient[z] /\ sClient[s] # None
        => {s, z} \cap (revived \cup identified) # {}

\* No session stays live on an order that has left the cart, sibling sessions
\* in other taloes included ("senao ela fica presa aberta"); unless it was
\* reopened, or tied to the order when it had already left.
NoStraySession ==
    \A s \in Sessions :
        sStatus[s] \in Live /\ sOrder[s] # None /\ Past(sOrder[s]) => s \in revived \cup late

\* An order that was confirmed, or that one of the calls here changed afterwards, is
\* handed to the ERP queue: a call is on its way to do so, unless one stopped on its
\* way or the items came from a session that was tied to the order too late.  (The
\* payments a gateway reports ask for no resend and are not part of this module.)
EditReachesErp ==
    \A o \in unsent :
        \/ \E p \in Calls : ~ Idle(p) /\ call[p].op = "push" /\ call[p].o = o
        \/ o \in lost
        \/ joined[o] \cap late # {}

\* The stages of an order: it leaves the cart once, is separated once, and is
\* paid or cancelled from a stage in which that is offered; a write decided
\* on an earlier read never takes it back, but for two of the store's own
\* decisions that race (paid and cancelled overwrite each other).
OrderMoves ==
    [][\A o \in Orders : oStatus'[o] # oStatus[o] =>
        <<oStatus[o], oStatus'[o]>> \in
            {<<"none", "aberto">>, <<"none", "novo">>, <<"aberto", "novo">>, <<"novo", "separado">>}
            \cup {"novo", "separado", "cancelado"} \X {"pago"}
            \cup {"aberto", "novo", "separado", "pago"} \X {"cancelado"}]_vars

\* Once the order has left the cart the client's calls change its items in one way,
\* however late they arrive (a cart cleared by a stale tab): its creation of a session
\* that found the order while it was open puts that session's items in and takes none
\* out.  No edit of the client does.
ClientEditsOnlyCart ==
    [][\A o \in Orders, p \in Calls :
        Past(o) /\ oItems'[o] # oItems[o] /\ call'[p] # call[p] /\ call[p].byClient =>
            /\ call[p].op = "create" /\ oItems[o] \subseteq oItems'[o]
            /\ \E s \in late' : sStatus[s] = "none" /\ sOrder'[s] = o]_vars

\* A payment link that was taken back (replaced, or its session cancelled,
\* closed or reopened) confirms nothing, also when it was read before.
RevokedLinkConfirmsNothing ==
    [][\A p \in Calls, o \in Orders :
        ~ Idle(p) /\ call[p].op = "confirm" /\ oStatus'[o] # oStatus[o] /\ call'[p] # call[p]
            => call[p].t \notin revoked]_vars
=============================================================================
