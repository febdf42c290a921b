------------------------- MODULE PaymentChargesProofs -------------------------
(***************************************************************************)
(* What holds of charging an order for every number of charge rows,        *)
(* concurrent requests, Mercado Pago handlers, lost answers and stopped    *)
(* requests.                                                               *)
(*                                                                         *)
(* That a paid order was captured hangs on who may say "paid": a status    *)
(* somebody fetched, a status a notification carries, and nothing the      *)
(* creation's answer says.  Captured is final at the gateway because a     *)
(* charge that is still to be created belongs to one request and does not  *)
(* exist there yet.                                                        *)
(***************************************************************************)
EXTENDS PaymentCharges, TLAPS

USE GatewaysAssumption, NoChargeAssumption, OperatorAssumption, PaymentBoundsAssumption
USE DEF orderVars, rowVars, callVars, hookVars, boundVars

-----------------------------------------------------------------------------
(* Effects.                                                                *)

\* The status mappings: only a captured charge is reported as paid, and only a
\* charge that does not exist has no status.
LEMMA ProviderStatusFacts ==
    ASSUME NEW r \in RemoteStates
    PROVE  /\ ProviderStatus(r) \in RowStatuses
           /\ ProviderStatus(r) = "paid" <=> r = "captured"
           /\ ProviderStatus(r) = "none" <=> r = "none"
  BY DEF ProviderStatus, RemoteStates, RowStatuses, Live, Terminal

\* What createCharge may leave at the gateway exists there.
LEMMA CreatesFacts ==
    ASSUME NEW m, NEW result \in Creates(m)
    PROVE  result[1] \in RemoteStates \ {"none"} /\ result[2] \in Answers
  BY DEF Creates, RemoteStates, Answers

\* A change at the gateway that does not touch a captured charge keeps every
\* captured one, and notifies of states that were reached.
LEMMA BecomesEffect ==
    ASSUME TypeOK, NEW c \in Charges, NEW r \in RemoteStates \ {"none"},
           remote[c] # "captured", Becomes(c, r)
    PROVE  /\ remote' \in [Charges -> RemoteStates]
           /\ notices' \subseteq Notices
           /\ remote'[c] = r
           /\ \A d \in Charges : d # c => remote'[d] = remote[d]
           /\ notices' \subseteq notices \cup {<<c, r>>}
  BY DEF TypeOK, Becomes, Notices

\* Applying an event keeps types,
LEMMA ApplyTypes ==
    ASSUME TypeOK, NEW c \in Charges, NEW s \in RowStatuses, ApplyEvent(c, s)
    PROVE  /\ status' \in [Charges -> RowStatuses]
           /\ payStatus' \in {"unpaid", "awaiting_confirmation", "payment_failed", "paid"}
           /\ orderStatus' \in {"separado", "pago", "cancelado"}
<1>1. CASE Applies(c)
  <2>1. status' \in [Charges -> RowStatuses]
    BY <1>1 DEF ApplyEvent, TypeOK, RowStatuses, Terminal
  <2>2. payStatus' = PayStatusAfter(s) /\ orderStatus' = OrderStatusAfter(s)
    BY <1>1 DEF ApplyEvent
  <2>3. QED
    BY <2>1, <2>2 DEF TypeOK, PayStatusAfter, OrderStatusAfter
<1>2. CASE ~Applies(c)
  BY <1>2 DEF ApplyEvent, TypeOK
<1>3. QED
  BY <1>1, <1>2

\* Applying an event whose status is known: terminal rows stay, nothing is paid but by "paid",
\* no row loses its status, and a paid order is left alone.
LEMMA ApplyEffect ==
    ASSUME TypeOK, NEW c \in Charges, NEW s \in RowStatuses \ {"none"}, ApplyEvent(c, s)
    PROVE  /\ status' \in [Charges -> RowStatuses]
           /\ payStatus' \in {"unpaid", "awaiting_confirmation", "payment_failed", "paid"}
           /\ orderStatus' \in {"separado", "pago", "cancelado"}
           /\ \A d \in Charges : status[d] \in Terminal => status'[d] = status[d]
           /\ \A d \in Charges : status'[d] = "none" => status[d] = "none"
           /\ \A d \in Charges :
                 status'[d] = "paid" => status[d] = "paid" \/ (d = c /\ s = "paid")
           /\ payStatus' = "paid" => payStatus = "paid" \/ s = "paid"
           /\ payStatus = "paid" => payStatus' = "paid" /\ orderStatus' = orderStatus
           /\ payStatus' = "paid" /\ payStatus # "paid" =>
                 orderStatus' \in {"pago", "cancelado"}
<1>1. CASE Applies(c)
  <2>1. status' = [d \in Charges |->
                      IF d = c THEN s
                      ELSE IF s = "paid" /\ status[d] \in Live THEN "cancelled"
                      ELSE status[d]]
    BY <1>1 DEF ApplyEvent
  <2>2. /\ status' \in [Charges -> RowStatuses]
        /\ \A d \in Charges : status[d] \in Terminal => status'[d] = status[d]
        /\ \A d \in Charges : status'[d] = "none" => status[d] = "none"
        /\ \A d \in Charges :
              status'[d] = "paid" => status[d] = "paid" \/ (d = c /\ s = "paid")
    BY <1>1, <2>1 DEF TypeOK, Applies, RowStatuses, Live, Terminal
  <2>3. payStatus' = PayStatusAfter(s) /\ orderStatus' = OrderStatusAfter(s)
    BY <1>1 DEF ApplyEvent
  <2>4. QED
    BY <2>2, <2>3 DEF TypeOK, PayStatusAfter, OrderStatusAfter
<1>2. CASE ~Applies(c)
  BY <1>2 DEF ApplyEvent, TypeOK
<1>3. QED
  BY <1>1, <1>2

\* Setting a row's status: the same, for one row.
LEMMA SetStatusEffect ==
    ASSUME TypeOK, NEW c \in Charges, NEW s \in RowStatuses \ {"none", "paid"}, SetStatus(c, s)
    PROVE  /\ status' \in [Charges -> RowStatuses]
           /\ \A d \in Charges : status[d] \in Terminal => status'[d] = status[d]
           /\ \A d \in Charges : status'[d] = "none" => status[d] = "none"
           /\ \A d \in Charges : status'[d] = "paid" => status[d] = "paid"
<1>1. CASE Applies(c)
  BY <1>1 DEF SetStatus, TypeOK, Applies
<1>2. CASE ~Applies(c)
  BY <1>2 DEF SetStatus, TypeOK
<1>3. QED
  BY <1>1, <1>2

\* The answer to a creation never says "paid".
LEMMA RecordedFacts ==
    ASSUME NEW a
    PROVE  /\ RecordedStatus(a) \in {"authorized", "pending", "failed"}
           /\ RecordedStatus(a) \in RowStatuses
  BY DEF RecordedStatus, RowStatuses, Live, Terminal

-----------------------------------------------------------------------------
(* Types.                                                                  *)

\* A request that ends resets what it holds.
LEMMA EndsTypes ==
    ASSUME TypeOK, NEW k \in Callers, Ends(k)
    PROVE  /\ phase' \in [Callers -> {"idle", "create", "record"} \cup Resolving]
           /\ want' \in [Callers -> Methods]
           /\ todo' \in [Callers -> SUBSET Charges]
           /\ named' \in [Callers -> SUBSET Charges]
           /\ cur' \in [Callers -> Charges \cup {None}]
           /\ \A j \in Callers :
                 phase'[j] \in {"apply", "cancel", "close", "create", "record"} =>
                     cur'[j] \in Charges
           /\ seen' \in [Callers -> RowStatuses]
           /\ keep' \in [Callers -> BOOLEAN]
           /\ reused' \in [Callers -> BOOLEAN]
           /\ answer' \in [Callers -> Answers]
<1> USE DEF Ends, Goto
<1>1. /\ phase' \in [Callers -> {"idle", "create", "record"} \cup Resolving]
      /\ want' \in [Callers -> Methods]
  BY DEF TypeOK, Methods
<1>2. /\ todo' \in [Callers -> SUBSET Charges]
      /\ named' \in [Callers -> SUBSET Charges]
  BY DEF TypeOK
<1>3. /\ cur' \in [Callers -> Charges \cup {None}]
      /\ \A j \in Callers :
            phase'[j] \in {"apply", "cancel", "close", "create", "record"} => cur'[j] \in Charges
  BY DEF TypeOK
<1>4. seen' \in [Callers -> RowStatuses] /\ answer' \in [Callers -> Answers]
  BY DEF TypeOK, RowStatuses, Answers
<1>5. keep' \in [Callers -> BOOLEAN] /\ reused' \in [Callers -> BOOLEAN]
  BY DEF TypeOK
<1>6. QED
  BY <1>1, <1>2, <1>3, <1>4, <1>5

\* Every action keeps types.
LEMMA TypeStep == TypeOK /\ [Next]_vars => TypeOK'
<1> USE DEF Goto
<1> SUFFICES ASSUME TypeOK, [Next]_vars
             PROVE  TypeOK'
  OBVIOUS
<1>1. ASSUME NEW k \in Callers, PayByLink(k) \/ PayByWhatsApp(k) PROVE TypeOK'
  <2>1. PICK m \in Methods : Asks(k, m)
    BY <1>1 DEF PayByLink, PayByWhatsApp, Methods
  <2>2. QED
    BY <2>1 DEF Asks, TypeOK, Resolving
<1>2. ASSUME NEW k \in Callers, Prepare(k) PROVE TypeOK'
  BY <1>2 DEF Prepare, TypeOK, Resolving
<1>3. ASSUME NEW k \in Callers, CancelUnnamed(k) PROVE TypeOK'
  <2>1. PICK c \in todo[k] \ named[k] :
           SetStatus(c, "cancelled") /\ todo' = [todo EXCEPT ![k] = @ \ {c}]
    BY <1>3 DEF CancelUnnamed
  <2>2. c \in Charges /\ "cancelled" \in RowStatuses \ {"none", "paid"}
    BY DEF TypeOK, RowStatuses, Terminal
  <2>3. status' \in [Charges -> RowStatuses]
    BY <2>1, <2>2, SetStatusEffect
  <2>4. QED
    BY <1>3, <2>1, <2>3 DEF CancelUnnamed, TypeOK
<1>4. ASSUME NEW k \in Callers, Fetch(k) PROVE TypeOK'
  <2>1. PICK c \in todo[k] \cap named[k], r \in BOOLEAN :
           /\ cur' = [cur EXCEPT ![k] = c]
           /\ keep' = [keep EXCEPT ![k] = r]
           /\ seen' = [seen EXCEPT ![k] = ProviderStatus(remote[c])]
           /\ todo' = [todo EXCEPT ![k] = @ \ {c}]
    BY <1>4 DEF Fetch
  <2>2. c \in Charges /\ ProviderStatus(remote[c]) \in RowStatuses
    BY ProviderStatusFacts DEF TypeOK
  <2>3. QED
    BY <1>4, <2>1, <2>2 DEF Fetch, TypeOK, Resolving
<1>5. ASSUME NEW k \in Callers, FetchFails(k) \/ ReturnReused(k) \/ Crash(k) PROVE TypeOK'
  <2>1. Ends(k)
    BY <1>5 DEF FetchFails, ReturnReused, Crash
  <2>2. UNCHANGED <<gateway, orderVars, rowVars, hookVars, remote, lost>> /\ crashes' \in Nat
    BY <1>5 DEF FetchFails, ReturnReused, Crash, TypeOK
  <2>3. QED
    BY <2>1, <2>2, EndsTypes DEF TypeOK
<1>6. ASSUME NEW k \in Callers, ApplySeen(k) PROVE TypeOK'
  <2>1. cur[k] \in Charges /\ seen[k] \in RowStatuses /\ ApplyEvent(cur[k], seen[k])
    BY <1>6 DEF ApplySeen, TypeOK
  <2>2. /\ status' \in [Charges -> RowStatuses]
        /\ payStatus' \in {"unpaid", "awaiting_confirmation", "payment_failed", "paid"}
        /\ orderStatus' \in {"separado", "pago", "cancelado"}
    BY <2>1, ApplyTypes
  <2>3. PICK p \in {"cancel", "live"}, r \in BOOLEAN :
           phase' = [phase EXCEPT ![k] = p] /\ reused' = [reused EXCEPT ![k] = r]
    BY <1>6 DEF ApplySeen, TypeOK
  <2>4. QED
    BY <1>6, <2>1, <2>2, <2>3 DEF ApplySeen, TypeOK, Resolving
<1>7. ASSUME NEW k \in Callers, CancelAtGateway(k) PROVE TypeOK'
  <2>1. cur[k] \in Charges /\ remote[cur[k]] # "captured" /\ Becomes(cur[k], "cancelled")
    BY <1>7 DEF CancelAtGateway, TypeOK, Cancelable
  <2>2. remote' \in [Charges -> RemoteStates] /\ notices' \subseteq Notices
    BY <2>1, BecomesEffect DEF RemoteStates
  <2>3. QED
    BY <1>7, <2>1, <2>2 DEF CancelAtGateway, TypeOK, Resolving
<1>8. ASSUME NEW k \in Callers, CancelFails(k) PROVE TypeOK'
  <2>1. Ends(k) /\ cur[k] \in Charges
    BY <1>8 DEF CancelFails, TypeOK
  <2>2. remote' \in [Charges -> RemoteStates] /\ notices' \subseteq Notices /\ lost' \in Nat
    <3>1. CASE UNCHANGED <<remote, notices, lost>>
      BY <3>1 DEF TypeOK
    <3>2. CASE /\ Cancelable(remote[cur[k]]) /\ lost < MaxLost
               /\ Becomes(cur[k], "cancelled")
               /\ lost' = lost + 1
      <4>1. remote[cur[k]] # "captured" /\ "cancelled" \in RemoteStates \ {"none"}
        BY <3>2 DEF Cancelable, RemoteStates
      <4>2. QED
        BY <2>1, <3>2, <4>1, BecomesEffect DEF TypeOK
    <3>3. QED
      BY <1>8, <3>1, <3>2 DEF CancelFails
  <2>3. QED
    BY <1>8, <2>1, <2>2, EndsTypes DEF CancelFails, TypeOK
<1>9. ASSUME NEW k \in Callers, CloseCancelled(k) PROVE TypeOK'
  <2>1. cur[k] \in Charges /\ SetStatus(cur[k], "cancelled")
    BY <1>9 DEF CloseCancelled, TypeOK
  <2>2. status' \in [Charges -> RowStatuses]
    BY <2>1, SetStatusEffect DEF RowStatuses, Terminal
  <2>3. QED
    BY <1>9, <2>2 DEF CloseCancelled, TypeOK, Resolving
<1>10. ASSUME NEW k \in Callers, Insert(k) PROVE TypeOK'
  <2>1. PICK c \in Charges :
           /\ status' = [status EXCEPT ![c] = "pending"]
           /\ method' = [method EXCEPT ![c] = want[k]]
           /\ cur' = [cur EXCEPT ![k] = c]
    BY <1>10 DEF Insert, Fresh
  <2>2. QED
    BY <1>10, <2>1 DEF Insert, TypeOK, RowStatuses, Live
<1>11. ASSUME NEW k \in Callers, Create(k) PROVE TypeOK'
  <2>1. cur[k] \in Charges
    BY <1>11 DEF Create, TypeOK
  <2>2. PICK a \in Answers : answer' = [answer EXCEPT ![k] = a]
    BY <1>11, CreatesFacts DEF Create, Answers
  <2>3. /\ remote' \in [Charges -> RemoteStates]
        /\ notices' \subseteq Notices
        /\ lost' \in Nat
    <3>1. CASE UNCHANGED <<remote, notices, lost>>
      BY <3>1 DEF TypeOK
    <3>2. CASE \E result \in Creates(want[k]) : Becomes(cur[k], result[1])
      <4>1. PICK result \in Creates(want[k]) : Becomes(cur[k], result[1])
        BY <3>2
      <4>2. result[1] \in RemoteStates
        BY CreatesFacts
      <4>3. remote' \in [Charges -> RemoteStates] /\ notices' \subseteq Notices
        BY <2>1, <4>1, <4>2 DEF Becomes, TypeOK, Notices
      <4>4. lost' \in Nat
        BY <1>11 DEF Create, TypeOK
      <4>5. QED
        BY <4>3, <4>4
    <3>3. QED
      BY <1>11, <3>1, <3>2 DEF Create
  <2>4. QED
    BY <1>11, <2>1, <2>2, <2>3 DEF Create, TypeOK
<1>12. ASSUME NEW k \in Callers, Record(k) PROVE TypeOK'
  <2>1. Ends(k) /\ cur[k] \in Charges
    BY <1>12 DEF Record, TypeOK
  <2>2. PICK s \in RowStatuses :
           /\ status' = [status EXCEPT ![cur[k]] = s]
           /\ payStatus' = PayStatusAfter(s)
    BY <1>12, RecordedFacts DEF Record
  <2>3. payStatus' \in {"unpaid", "awaiting_confirmation", "payment_failed", "paid"}
    BY <2>2 DEF PayStatusAfter, TypeOK
  <2>4. ext' \subseteq Charges
    BY <1>12, <2>1 DEF Record, TypeOK
  <2>5. status' \in [Charges -> RowStatuses]
    BY <2>1, <2>2 DEF TypeOK
  <2>6. QED
    BY <1>12, <2>1, <2>3, <2>4, <2>5, EndsTypes DEF Record, TypeOK
<1>13. ASSUME NEW c \in Charges, Settle(c) PROVE TypeOK'
  <2>1. PICK r \in {"captured", "declined", "expired"} : remote[c] # "captured" /\ Becomes(c, r)
    BY <1>13 DEF Settle
  <2>2. remote' \in [Charges -> RemoteStates] /\ notices' \subseteq Notices
    BY <2>1, BecomesEffect DEF RemoteStates
  <2>3. QED
    BY <1>13, <2>2 DEF Settle, TypeOK
<1>14. ASSUME NEW n \in Notices, StripeEvent(n) PROVE TypeOK'
  <2>1. n[1] \in Charges /\ ProviderStatus(n[2]) \in RowStatuses
    BY ProviderStatusFacts DEF Notices
  <2>2. /\ status' \in [Charges -> RowStatuses]
        /\ payStatus' \in {"unpaid", "awaiting_confirmation", "payment_failed", "paid"}
        /\ orderStatus' \in {"separado", "pago", "cancelado"}
    BY <1>14, <2>1, ApplyTypes DEF StripeEvent
  <2>3. QED
    BY <1>14, <2>2 DEF StripeEvent, TypeOK
<1>15. ASSUME NEW n \in Notices, MercadoPagoNotice(n) PROVE TypeOK'
  <2>1. n[1] \in Charges /\ ProviderStatus(remote[n[1]]) \in RowStatuses
    BY ProviderStatusFacts DEF Notices, TypeOK
  <2>2. <<n, ProviderStatus(remote[n[1]])>> \in Notices \X RowStatuses
    BY <2>1
  <2>3. fetched' \subseteq Notices \X RowStatuses /\ handled' \subseteq Notices
    BY <1>15, <2>2 DEF MercadoPagoNotice, TypeOK
  <2>4. QED
    BY <1>15, <2>3 DEF MercadoPagoNotice, TypeOK
<1>16. ASSUME NEW f \in Notices \X RowStatuses, MercadoPagoApply(f) PROVE TypeOK'
  <2>1. f[1] \in Notices /\ f[1][1] \in Charges /\ f[2] \in RowStatuses
    BY DEF Notices
  <2>2. /\ status' \in [Charges -> RowStatuses]
        /\ payStatus' \in {"unpaid", "awaiting_confirmation", "payment_failed", "paid"}
        /\ orderStatus' \in {"separado", "pago", "cancelado"}
    BY <1>16, <2>1, ApplyTypes DEF MercadoPagoApply
  <2>3. QED
    BY <1>16, <2>1, <2>2 DEF MercadoPagoApply, TypeOK
<1>17. ASSUME NEW s \in OperatorSets, OperatorReads(s) \/ OperatorWrites(s) PROVE TypeOK'
  BY <1>17 DEF OperatorReads, OperatorWrites, TypeOK
<1>18. CASE UNCHANGED vars
  BY <1>18 DEF vars, TypeOK
<1>19. QED
  BY <1>1, <1>2, <1>3, <1>4, <1>5, <1>6, <1>7, <1>8, <1>9, <1>10, <1>11, <1>12,
     <1>13, <1>14, <1>15, <1>16, <1>17, <1>18 DEF Next, CallerStep

\* The order, its charges, the requests, the notifications and the gateway keep
\* their types.
THEOREM ChargeTypes == Spec => []TypeOK
<1>1. Init => TypeOK
  BY DEF Init, TypeOK, RowStatuses, Methods, Answers, RemoteStates, Notices
<1>2. QED
  BY <1>1, TypeStep, PTL DEF Spec

-----------------------------------------------------------------------------
(* The inductive invariant.                                                *)

Owning(k) == phase[k] \in {"create", "record"}

\* The row a request inserted is named by no answer yet, and is its own.
Owned ==
    /\ \A k \in Callers : Owning(k) => cur[k] \notin ext /\ status[cur[k]] # "none"
    /\ \A j, k \in Callers : Owning(j) /\ Owning(k) /\ cur[j] = cur[k] => j = k

\* A charge exists at the gateway only once its row exists, and does if its row
\* is named; every status that is passed around is the status of such a charge.
Existing ==
    /\ \A c \in Charges : status[c] = "none" => remote[c] = "none" /\ c \notin ext
    /\ \A c \in ext : remote[c] # "none"
    /\ \A k \in Callers :
          /\ named[k] \subseteq ext
          /\ phase[k] = "create" => remote[cur[k]] = "none"
          /\ phase[k] = "record" /\ answer[k] # "error" => remote[cur[k]] # "none"
          /\ phase[k] = "apply" => seen[k] # "none"
    /\ \A n \in notices : n[2] # "none"
    /\ \A f \in fetched : f[2] # "none"

\* Whoever says "paid" speaks of a captured charge.
Witnessed ==
    /\ \A k \in Callers : phase[k] = "apply" /\ seen[k] = "paid" => remote[cur[k]] = "captured"
    /\ \A n \in notices : n[2] = "captured" => remote[n[1]] = "captured"
    /\ \A f \in fetched : f[2] = "paid" => remote[f[1][1]] = "captured"

IInv == TypeOK /\ Owned /\ Existing /\ Witnessed /\ PaidMeansCaptured

\* A captured charge stays captured and an existing one exists.
Forward ==
    \A c \in Charges : /\ remote[c] = "captured" => remote'[c] = "captured"
                       /\ remote[c] # "none" => remote'[c] # "none"

\* What a step that only moves the gateway or the rows forward leaves in place.
LEMMA PaidFrame ==
    ASSUME TypeOK, PaidMeansCaptured, Forward,
           payStatus' = "paid" => payStatus = "paid",
           \A d \in Charges : status'[d] = "paid" => status[d] = "paid"
    PROVE  PaidMeansCaptured'
  BY DEF PaidMeansCaptured, Forward

\* ... and what applying a status that belongs to the charge leaves in place.
LEMMA PaidApply ==
    ASSUME TypeOK, PaidMeansCaptured, UNCHANGED remote,
           NEW c \in Charges, NEW s \in RowStatuses \ {"none"}, ApplyEvent(c, s),
           s = "paid" => remote[c] = "captured"
    PROVE  PaidMeansCaptured'
<1>1. /\ payStatus' = "paid" => payStatus = "paid" \/ s = "paid"
      /\ \A d \in Charges : status'[d] = "paid" => status[d] = "paid" \/ (d = c /\ s = "paid")
  BY ApplyEffect
<1>2. QED
  BY <1>1 DEF PaidMeansCaptured

\* What a request holds between two steps of its own, or after a step that owns
\* no row: it rests, or it fetched the status of a charge that exists.
Untouched(k) ==
    /\ phase'[k] = phase[k] /\ cur'[k] = cur[k] /\ named'[k] = named[k]
    /\ seen'[k] = seen[k] /\ answer'[k] = answer[k]

Rests(k) == phase'[k] \notin {"create", "record", "apply"} /\ named'[k] \subseteq ext

Fetched(k) ==
    /\ phase'[k] = "apply" /\ named'[k] \subseteq ext
    /\ seen'[k] # "none" /\ (seen'[k] = "paid" => remote'[cur'[k]] = "captured")

\* So does every request.
CallersKeep == \A k \in Callers : Untouched(k) \/ Rests(k) \/ Fetched(k)

\* What is sent, and what is fetched, is the state of a charge that exists.
NoticesTrue ==
    \A n \in notices' : n \in notices \/ (n[2] # "none" /\ remote'[n[1]] = n[2])

FetchesTrue ==
    \A f \in fetched' :
       \/ f \in fetched
       \/ f[2] # "none" /\ (f[2] = "paid" => remote'[f[1][1]] = "captured")

\* No row and no charge appears or disappears.
NothingNew ==
    /\ \A d \in Charges : remote[d] = "none" => remote'[d] = "none"
    /\ \A d \in Charges : status'[d] = "none" => status[d] = "none"

\* Every step that names, inserts and creates no charge: what somebody owns, what
\* exists and what is said of it carry over.
LEMMA Frame ==
    ASSUME TypeOK, TypeOK', Owned, Existing, Witnessed, Forward, ext' = ext, NothingNew,
           NoticesTrue, FetchesTrue, CallersKeep
    PROVE  Owned' /\ Existing' /\ Witnessed'
<1>1. \A k \in Callers : Owning(k)' => Owning(k) /\ cur'[k] = cur[k] /\ cur[k] \in Charges
  BY DEF CallersKeep, Owning, Untouched, Rests, Fetched, TypeOK
<1>2. Owned'
  BY <1>1 DEF Owned, NothingNew
<1>3. Existing'
  <2>1. \A c \in Charges : status'[c] = "none" => remote'[c] = "none" /\ c \notin ext'
    BY DEF Existing, NothingNew
  <2>2. \A c \in ext' : remote'[c] # "none"
    BY DEF Existing, Forward, TypeOK
  <2>3. ASSUME NEW k \in Callers
        PROVE  /\ named'[k] \subseteq ext'
               /\ phase'[k] = "create" => remote'[cur'[k]] = "none"
               /\ phase'[k] = "record" /\ answer'[k] # "error" => remote'[cur'[k]] # "none"
               /\ phase'[k] = "apply" => seen'[k] # "none"
    <3>1. CASE Untouched(k)
      BY <3>1 DEF Untouched, Existing, NothingNew, Forward, TypeOK
    <3>2. CASE Rests(k) \/ Fetched(k)
      BY <3>2 DEF Rests, Fetched
    <3>3. QED
      BY <3>1, <3>2 DEF CallersKeep
  <2>4. /\ \A n \in notices' : n[2] # "none"
        /\ \A f \in fetched' : f[2] # "none"
    BY DEF Existing, NoticesTrue, FetchesTrue
  <2>5. QED
    BY <2>1, <2>2, <2>3, <2>4 DEF Existing
<1>4. Witnessed'
  <2>1. ASSUME NEW k \in Callers, phase'[k] = "apply", seen'[k] = "paid"
        PROVE  remote'[cur'[k]] = "captured"
    <3>1. CASE Untouched(k)
      BY <2>1, <3>1 DEF Untouched, Witnessed, Forward, TypeOK
    <3>2. CASE Rests(k) \/ Fetched(k)
      BY <2>1, <3>2 DEF Rests, Fetched
    <3>3. QED
      BY <3>1, <3>2 DEF CallersKeep
  <2>2. ASSUME NEW n \in notices', n[2] = "captured"
        PROVE  remote'[n[1]] = "captured"
    <3>1. n[1] \in Charges
      BY DEF TypeOK, Notices
    <3>2. QED
      BY <2>2, <3>1 DEF Witnessed, Forward, NoticesTrue
  <2>3. ASSUME NEW f \in fetched', f[2] = "paid"
        PROVE  remote'[f[1][1]] = "captured"
    <3>1. f[1] \in Notices /\ f[1][1] \in Charges
      BY DEF TypeOK, Notices
    <3>2. QED
      BY <2>3, <3>1 DEF Witnessed, Forward, FetchesTrue
  <2>4. QED
    BY <2>1, <2>2, <2>3 DEF Witnessed
<1>5. QED
  BY <1>2, <1>3, <1>4

\* A row is inserted: its charge is named and known to nobody.
LEMMA InsertInv ==
    ASSUME TypeOK, TypeOK', IInv, NEW k \in Callers, Insert(k)
    PROVE  IInv'
<1>1. PICK c \in Fresh :
         /\ status' = [status EXCEPT ![c] = "pending"]
         /\ cur' = [cur EXCEPT ![k] = c]
  BY DEF Insert
<1>2. /\ c \in Charges /\ status[c] = "none" /\ remote[c] = "none" /\ c \notin ext
      /\ status'[c] = "pending" /\ cur'[k] = c /\ phase'[k] = "create"
      /\ \A d \in Charges : d # c => status'[d] = status[d]
      /\ \A j \in Callers : j # k => phase'[j] = phase[j] /\ cur'[j] = cur[j]
      /\ UNCHANGED <<payStatus, ext, named, seen, answer, remote, notices, fetched>>
  BY <1>1 DEF Insert, Goto, Fresh, IInv, Existing, TypeOK
<1>3. \A j \in Callers : Owning(j) => cur[j] \in Charges /\ cur[j] # c
  BY <1>2 DEF Owning, IInv, Owned, TypeOK
<1>4. Owned'
  BY <1>2, <1>3 DEF IInv, Owned, Owning, TypeOK
<1>5. Existing'
  BY <1>2 DEF IInv, Existing, TypeOK
<1>6. Witnessed'
  BY <1>2 DEF IInv, Witnessed
<1>7. PaidMeansCaptured'
  BY <1>2 DEF IInv, PaidMeansCaptured
<1>8. QED
  BY <1>4, <1>5, <1>6, <1>7 DEF IInv

\* The gateway is asked to create the charge of a row: none existed, and what it
\* tells of the new one it tells of a charge that exists.
LEMMA CreateInv ==
    ASSUME TypeOK, TypeOK', IInv, NEW k \in Callers, Create(k)
    PROVE  IInv'
<1> DEFINE c == cur[k]
<1>1. /\ c \in Charges /\ remote[c] = "none" /\ phase[k] = "create"
      /\ c \notin ext /\ status[c] # "none"
      /\ \A j \in Callers : j # k /\ Owning(j) => cur[j] # c
  BY DEF Create, IInv, Existing, Owned, Owning, TypeOK
<1>2. /\ UNCHANGED <<payStatus, status, ext, named, cur, seen, fetched>>
      /\ phase'[k] = "record"
      /\ \A j \in Callers : j # k => phase'[j] = phase[j] /\ answer'[j] = answer[j]
  BY DEF Create, Goto, TypeOK
<1>3. /\ \A d \in Charges : d # c => remote'[d] = remote[d]
      /\ answer'[k] # "error" => remote'[c] # "none"
      /\ \A n \in notices' : n \in notices \/ (n = <<c, remote'[c]>> /\ n[2] # "none")
  <2>1. CASE UNCHANGED <<remote, notices>> /\ answer' = [answer EXCEPT ![k] = "error"]
    BY <2>1 DEF TypeOK
  <2>2. CASE \E result \in Creates(want[k]) : Becomes(cur[k], result[1])
    <3>1. PICK result \in Creates(want[k]) : Becomes(cur[k], result[1])
      BY <2>2
    <3>2. result[1] \in RemoteStates \ {"none"}
      BY CreatesFacts
    <3>3. remote'[c] = result[1] /\ \A d \in Charges : d # c => remote'[d] = remote[d]
      BY <1>1, <3>1 DEF Becomes, TypeOK
    <3>4. \A n \in notices' : n \in notices \/ n = <<c, result[1]>>
      BY <3>1 DEF Becomes
    <3>5. QED
      BY <3>2, <3>3, <3>4
  <2>3. QED
    BY <2>1, <2>2 DEF Create
<1>4. Forward
  BY <1>1, <1>3 DEF Forward
<1>5. Owned'
  BY <1>1, <1>2 DEF IInv, Owned, Owning
<1>6. Existing'
  <2>1. /\ \A d \in Charges : status'[d] = "none" => remote'[d] = "none" /\ d \notin ext'
        /\ \A d \in ext' : remote'[d] # "none"
    BY <1>1, <1>2, <1>3 DEF IInv, Existing, TypeOK
  <2>2. ASSUME NEW j \in Callers
        PROVE  /\ named'[j] \subseteq ext'
               /\ phase'[j] = "create" => remote'[cur'[j]] = "none"
               /\ phase'[j] = "record" /\ answer'[j] # "error" => remote'[cur'[j]] # "none"
               /\ phase'[j] = "apply" => seen'[j] # "none"
    <3>1. CASE j = k
      BY <1>2, <1>3, <3>1 DEF IInv, Existing
    <3>2. CASE j # k
      BY <1>1, <1>2, <1>3, <3>2 DEF IInv, Existing, Owning, TypeOK
    <3>3. QED
      BY <3>1, <3>2
  <2>3. /\ \A n \in notices' : n[2] # "none"
        /\ \A f \in fetched' : f[2] # "none"
    BY <1>2, <1>3 DEF IInv, Existing
  <2>4. QED
    BY <2>1, <2>2, <2>3 DEF Existing
<1>7. Witnessed'
  <2>1. ASSUME NEW j \in Callers, phase'[j] = "apply", seen'[j] = "paid"
        PROVE  remote'[cur'[j]] = "captured"
    BY <1>1, <1>2, <1>4, <2>1 DEF IInv, Witnessed, Forward, TypeOK
  <2>2. ASSUME NEW n \in notices', n[2] = "captured"
        PROVE  remote'[n[1]] = "captured"
    <3>1. CASE n \in notices
      <4>1. n[1] \in Charges
        BY <3>1 DEF TypeOK, Notices
      <4>2. QED
        BY <1>4, <2>2, <3>1, <4>1 DEF IInv, Witnessed, Forward
    <3>2. CASE n = <<c, remote'[c]>>
      BY <2>2, <3>2
    <3>3. QED
      BY <1>3, <3>1, <3>2
  <2>3. ASSUME NEW f \in fetched', f[2] = "paid"
        PROVE  remote'[f[1][1]] = "captured"
    <3>1. f \in fetched /\ f[1][1] \in Charges
      BY <1>2 DEF TypeOK, Notices
    <3>2. QED
      BY <1>4, <2>3, <3>1 DEF IInv, Witnessed, Forward
  <2>4. QED
    BY <2>1, <2>2, <2>3 DEF Witnessed
<1>8. PaidMeansCaptured'
  BY <1>2, <1>4, PaidFrame DEF IInv
<1>9. QED
  BY <1>5, <1>6, <1>7, <1>8 DEF IInv

\* The answer is recorded on the request's own row, which nobody names yet.
LEMMA RecordInv ==
    ASSUME TypeOK, TypeOK', IInv, NEW k \in Callers, Record(k)
    PROVE  IInv'
<1> DEFINE c == cur[k]
           s == RecordedStatus(answer[k])
<1>1. /\ c \in Charges /\ phase[k] = "record" /\ c \notin ext /\ status[c] # "none"
      /\ answer[k] # "error" => remote[c] # "none"
      /\ \A j \in Callers : j # k /\ Owning(j) => cur[j] # c
  BY DEF Record, IInv, Existing, Owned, Owning, TypeOK
<1>2. /\ s \in {"authorized", "pending", "failed"}
      /\ status'[c] = s /\ \A d \in Charges : d # c => status'[d] = status[d]
      /\ ext' = IF answer[k] = "error" THEN ext ELSE ext \cup {c}
      /\ payStatus' = PayStatusAfter(s)
  <2>1. s \in {"authorized", "pending", "failed"}
    BY RecordedFacts
  <2>2. status' = [status EXCEPT ![c] = s] /\ payStatus' = PayStatusAfter(s)
    BY DEF Record
  <2>3. ext' = IF answer[k] = "error" THEN ext ELSE ext \cup {c}
    BY <1>1 DEF Record
  <2>4. status'[c] = s /\ \A d \in Charges : d # c => status'[d] = status[d]
    BY <1>1, <2>2 DEF TypeOK
  <2>5. QED
    BY <2>1, <2>2, <2>3, <2>4
<1>3. /\ UNCHANGED <<remote, notices, fetched>>
      /\ phase'[k] = "idle" /\ named'[k] = {}
      /\ \A j \in Callers : j # k => Untouched(j)
  BY DEF Record, Ends, Goto, Untouched, TypeOK
<1>4. Owned'
  <2>1. ~Owning(k)'
    BY <1>3 DEF Owning
  <2>2. \A j \in Callers : Owning(j)' =>
           j # k /\ Owning(j) /\ cur'[j] = cur[j] /\ cur[j] \in Charges /\ cur[j] # c
    BY <1>1, <1>3, <2>1 DEF Owning, Untouched, TypeOK
  <2>3. ASSUME NEW j \in Callers, Owning(j)'
        PROVE  cur'[j] \notin ext' /\ status'[cur'[j]] # "none"
    BY <1>2, <2>2, <2>3 DEF IInv, Owned
  <2>4. ASSUME NEW i \in Callers, NEW j \in Callers,
               Owning(i)', Owning(j)', cur'[i] = cur'[j]
        PROVE  i = j
    BY <2>2, <2>4 DEF IInv, Owned
  <2>5. QED
    BY <2>3, <2>4 DEF Owned, Owning
<1>5. Existing'
  <2>1. /\ \A d \in Charges : status'[d] = "none" => remote'[d] = "none" /\ d \notin ext'
        /\ \A d \in ext' : remote'[d] # "none"
    BY <1>1, <1>2, <1>3 DEF IInv, Existing, TypeOK
  <2>2. ASSUME NEW j \in Callers
        PROVE  /\ named'[j] \subseteq ext'
               /\ phase'[j] = "create" => remote'[cur'[j]] = "none"
               /\ phase'[j] = "record" /\ answer'[j] # "error" => remote'[cur'[j]] # "none"
               /\ phase'[j] = "apply" => seen'[j] # "none"
    <3>1. CASE j = k
      BY <1>3, <3>1
    <3>2. CASE j # k
      BY <1>2, <1>3, <3>2 DEF IInv, Existing, Untouched
    <3>3. QED
      BY <3>1, <3>2
  <2>3. /\ \A n \in notices' : n[2] # "none"
        /\ \A f \in fetched' : f[2] # "none"
    BY <1>3 DEF IInv, Existing
  <2>4. QED
    BY <2>1, <2>2, <2>3 DEF Existing
<1>6. Witnessed'
  BY <1>3 DEF IInv, Witnessed, Untouched
<1>7. PaidMeansCaptured'
  <2>1. payStatus' = "paid" => payStatus = "paid"
    BY <1>2 DEF PayStatusAfter
  <2>2. \A d \in Charges : status'[d] = "paid" => status[d] = "paid"
    BY <1>2
  <2>3. QED
    BY <1>3, <2>1, <2>2 DEF IInv, PaidMeansCaptured
<1>8. QED
  BY <1>4, <1>5, <1>6, <1>7 DEF IInv

\* A step of a request, or of nobody, that changes neither rows nor charges.
LEMMA RestInv ==
    ASSUME TypeOK, TypeOK', IInv, CallersKeep,
           UNCHANGED <<payStatus, status, ext, remote, notices, fetched>>
    PROVE  IInv'
<1>1. Forward /\ NothingNew /\ NoticesTrue /\ FetchesTrue
  BY DEF Forward, NothingNew, NoticesTrue, FetchesTrue
<1>2. Owned' /\ Existing' /\ Witnessed'
  BY <1>1, Frame DEF IInv
<1>3. PaidMeansCaptured'
  BY <1>1, PaidFrame DEF IInv
<1>4. QED
  BY <1>2, <1>3 DEF IInv

\* A step that applies the status of a charge.
LEMMA ApplyInv ==
    ASSUME TypeOK, TypeOK', IInv, UNCHANGED <<ext, remote, notices>>, fetched' \subseteq fetched,
           NEW c \in Charges, NEW s \in RowStatuses \ {"none"}, ApplyEvent(c, s),
           s = "paid" => remote[c] = "captured", CallersKeep
    PROVE  IInv'
<1>1. \A d \in Charges : status'[d] = "none" => status[d] = "none"
  BY ApplyEffect
<1>2. Forward /\ NothingNew /\ NoticesTrue /\ FetchesTrue
  BY <1>1 DEF Forward, NothingNew, NoticesTrue, FetchesTrue
<1>3. Owned' /\ Existing' /\ Witnessed'
  BY <1>2, Frame DEF IInv
<1>4. PaidMeansCaptured'
  BY PaidApply DEF IInv
<1>5. QED
  BY <1>3, <1>4 DEF IInv

\* A step that cancels a row.
LEMMA SetInv ==
    ASSUME TypeOK, TypeOK', IInv, UNCHANGED <<payStatus, ext, remote, notices, fetched>>,
           NEW c \in Charges, SetStatus(c, "cancelled"), CallersKeep
    PROVE  IInv'
<1>1. "cancelled" \in RowStatuses \ {"none", "paid"}
  BY DEF RowStatuses, Terminal
<1>2. /\ \A d \in Charges : status'[d] = "none" => status[d] = "none"
      /\ \A d \in Charges : status'[d] = "paid" => status[d] = "paid"
  BY <1>1, SetStatusEffect
<1>3. Forward /\ NothingNew /\ NoticesTrue /\ FetchesTrue
  BY <1>2 DEF Forward, NothingNew, NoticesTrue, FetchesTrue
<1>4. Owned' /\ Existing' /\ Witnessed'
  BY <1>3, Frame DEF IInv
<1>5. PaidMeansCaptured'
  BY <1>2, <1>3, PaidFrame DEF IInv
<1>6. QED
  BY <1>4, <1>5 DEF IInv

\* A charge that exists, and was not captured, moves at the gateway.
LEMMA MoveInv ==
    ASSUME TypeOK, TypeOK', IInv, UNCHANGED <<payStatus, status, ext, fetched>>,
           NEW c \in Charges, NEW r \in RemoteStates \ {"none"},
           remote[c] \notin {"none", "captured"}, Becomes(c, r), CallersKeep
    PROVE  IInv'
<1>1. /\ remote'[c] = r
      /\ \A d \in Charges : d # c => remote'[d] = remote[d]
      /\ notices' \subseteq notices \cup {<<c, r>>}
  BY BecomesEffect
<1>2. Forward /\ NothingNew
  BY <1>1 DEF Forward, NothingNew
<1>3. NoticesTrue
  <2>1. ASSUME NEW n \in notices', n \notin notices
        PROVE  n[2] # "none" /\ remote'[n[1]] = n[2]
    <3>1. n = <<c, r>>
      BY <1>1, <2>1
    <3>2. QED
      BY <1>1, <3>1
  <2>2. QED
    BY <2>1 DEF NoticesTrue
<1>4. FetchesTrue
  BY DEF FetchesTrue
<1>5. Owned' /\ Existing' /\ Witnessed'
  BY <1>2, <1>3, <1>4, Frame DEF IInv
<1>6. PaidMeansCaptured'
  BY <1>2, PaidFrame DEF IInv
<1>7. QED
  BY <1>5, <1>6 DEF IInv

\* IInv is inductive: initially nobody owns, names or says anything,
LEMMA IInvInit == Init => IInv
<1> SUFFICES ASSUME Init
             PROVE  IInv
  OBVIOUS
<1>1. Owned /\ Existing /\ Witnessed
  BY DEF Init, Owned, Owning, Existing, Witnessed
<1>2. TypeOK /\ PaidMeansCaptured
  BY DEF Init, TypeOK, RowStatuses, Methods, Answers, RemoteStates, Notices, PaidMeansCaptured
<1>3. QED
  BY <1>1, <1>2 DEF IInv

\* and every step keeps it.
LEMMA IInvStep == TypeOK /\ TypeOK' /\ IInv /\ [Next]_vars => IInv'
<1> SUFFICES ASSUME TypeOK, TypeOK', IInv, [Next]_vars
             PROVE  IInv'
  OBVIOUS
<1> USE DEF Goto
<1>1. ASSUME NEW k \in Callers, PayByLink(k) \/ PayByWhatsApp(k) PROVE IInv'
  <2>1. PICK m \in Methods : Asks(k, m)
    BY <1>1 DEF PayByLink, PayByWhatsApp, Methods
  <2>2. CallersKeep
    BY <2>1 DEF Asks, CallersKeep, Untouched, Rests, IInv, Existing, TypeOK
  <2>3. QED
    BY <2>1, <2>2, RestInv DEF Asks
<1>2. ASSUME NEW k \in Callers, Prepare(k) PROVE IInv'
  <2>1. CallersKeep
    BY <1>2 DEF Prepare, CallersKeep, Untouched, Rests, TypeOK
  <2>2. QED
    BY <1>2, <2>1, RestInv DEF Prepare
<1>3. ASSUME NEW k \in Callers, CancelUnnamed(k) PROVE IInv'
  <2>1. PICK c \in todo[k] \ named[k] : SetStatus(c, "cancelled")
    BY <1>3 DEF CancelUnnamed
  <2>2. c \in Charges /\ CallersKeep
    BY <1>3 DEF CancelUnnamed, CallersKeep, Untouched, TypeOK
  <2>3. QED
    BY <1>3, <2>1, <2>2, SetInv DEF CancelUnnamed
<1>4. ASSUME NEW k \in Callers, Fetch(k) PROVE IInv'
  <2>1. PICK c \in todo[k] \cap named[k] :
           /\ cur' = [cur EXCEPT ![k] = c]
           /\ seen' = [seen EXCEPT ![k] = ProviderStatus(remote[c])]
    BY <1>4 DEF Fetch
  <2>2. /\ c \in Charges /\ c \in ext /\ named[k] \subseteq ext /\ remote[c] # "none"
        /\ remote[c] \in RemoteStates
    BY DEF IInv, Existing, TypeOK
  <2>3. ProviderStatus(remote[c]) # "none"
        /\ (ProviderStatus(remote[c]) = "paid" => remote[c] = "captured")
    BY <2>2, ProviderStatusFacts
  <2>4. UNCHANGED <<payStatus, status, ext, remote, notices, fetched, named, answer>>
    BY <1>4 DEF Fetch
  <2>5. phase'[k] = "apply" /\ cur'[k] = c /\ seen'[k] = ProviderStatus(remote[c])
    BY <1>4, <2>1 DEF Fetch, TypeOK
  <2>6. Fetched(k)
    BY <2>2, <2>3, <2>4, <2>5 DEF Fetched
  <2>7. \A j \in Callers \ {k} : Untouched(j)
    BY <1>4, <2>1, <2>4 DEF Fetch, Untouched, TypeOK
  <2>8. CallersKeep
    BY <2>6, <2>7 DEF CallersKeep
  <2>9. QED
    BY <2>4, <2>8, RestInv
<1>5. ASSUME NEW k \in Callers, FetchFails(k) \/ ReturnReused(k) \/ Crash(k) PROVE IInv'
  <2>1. Ends(k) /\ UNCHANGED <<orderVars, rowVars, hookVars, remote>>
    BY <1>5 DEF FetchFails, ReturnReused, Crash
  <2>2. CallersKeep
    BY <2>1 DEF Ends, CallersKeep, Untouched, Rests, TypeOK
  <2>3. QED
    BY <2>1, <2>2, RestInv
<1>6. ASSUME NEW k \in Callers, ApplySeen(k) PROVE IInv'
  <2>1. /\ cur[k] \in Charges /\ seen[k] \in RowStatuses \ {"none"}
        /\ ApplyEvent(cur[k], seen[k])
        /\ seen[k] = "paid" => remote[cur[k]] = "captured"
    BY <1>6 DEF ApplySeen, IInv, Existing, Witnessed, TypeOK
  <2>2. PICK p \in {"cancel", "live"} : phase' = [phase EXCEPT ![k] = p]
    BY <1>6 DEF ApplySeen
  <2>3. UNCHANGED <<ext, named, cur, seen, answer, notices, fetched, remote>>
    BY <1>6 DEF ApplySeen
  <2>4. CallersKeep
    BY <2>2, <2>3 DEF CallersKeep, Untouched, Rests, IInv, Existing, TypeOK
  <2>5. QED
    BY <2>1, <2>3, <2>4, ApplyInv
<1>7. ASSUME NEW k \in Callers, CancelAtGateway(k) PROVE IInv'
  <2>1. /\ cur[k] \in Charges /\ Becomes(cur[k], "cancelled")
        /\ remote[cur[k]] \notin {"none", "captured"}
        /\ "cancelled" \in RemoteStates \ {"none"}
    BY <1>7 DEF CancelAtGateway, Cancelable, TypeOK, RemoteStates
  <2>2. CallersKeep
    BY <1>7 DEF CancelAtGateway, CallersKeep, Untouched, Rests, IInv, Existing, TypeOK
  <2>3. QED
    BY <1>7, <2>1, <2>2, MoveInv DEF CancelAtGateway
<1>8. ASSUME NEW k \in Callers, CancelFails(k) PROVE IInv'
  <2>1. Ends(k) /\ cur[k] \in Charges /\ UNCHANGED <<payStatus, status, ext, fetched>>
    BY <1>8 DEF CancelFails, TypeOK
  <2>2. CallersKeep
    BY <2>1 DEF Ends, CallersKeep, Untouched, Rests, TypeOK
  <2>3. CASE UNCHANGED <<remote, notices>>
    BY <2>1, <2>2, <2>3, RestInv
  <2>4. CASE Cancelable(remote[cur[k]]) /\ Becomes(cur[k], "cancelled")
    <3>1. /\ remote[cur[k]] \notin {"none", "captured"}
          /\ "cancelled" \in RemoteStates \ {"none"}
      BY <2>4 DEF Cancelable, RemoteStates
    <3>2. QED
      BY <2>1, <2>2, <2>4, <3>1, MoveInv
  <2>5. QED
    BY <1>8, <2>3, <2>4 DEF CancelFails
<1>9. ASSUME NEW k \in Callers, CloseCancelled(k) PROVE IInv'
  <2>1. cur[k] \in Charges /\ SetStatus(cur[k], "cancelled")
    BY <1>9 DEF CloseCancelled, TypeOK
  <2>2. CallersKeep
    BY <1>9 DEF CloseCancelled, CallersKeep, Untouched, Rests, IInv, Existing, TypeOK
  <2>3. QED
    BY <1>9, <2>1, <2>2, SetInv DEF CloseCancelled
<1>10. ASSUME NEW k \in Callers, Insert(k) \/ Create(k) \/ Record(k) PROVE IInv'
  BY <1>10, InsertInv, CreateInv, RecordInv
<1>11. ASSUME NEW c \in Charges, Settle(c) PROVE IInv'
  <2>1. PICK r \in {"captured", "declined", "expired"} :
           remote[c] \notin {"none", "captured"} /\ Becomes(c, r)
    BY <1>11 DEF Settle
  <2>2. r \in RemoteStates \ {"none"} /\ CallersKeep
    BY <1>11 DEF Settle, RemoteStates, CallersKeep, Untouched
  <2>3. QED
    BY <1>11, <2>1, <2>2, MoveInv DEF Settle
<1>12. ASSUME NEW n \in Notices, StripeEvent(n) PROVE IInv'
  <2>1. /\ n[1] \in Charges /\ ApplyEvent(n[1], ProviderStatus(n[2]))
        /\ ProviderStatus(n[2]) \in RowStatuses \ {"none"}
        /\ ProviderStatus(n[2]) = "paid" => remote[n[1]] = "captured"
    <3>1. n[1] \in Charges /\ n[2] \in RemoteStates /\ n \in notices
      BY <1>12 DEF StripeEvent, Notices
    <3>2. n[2] # "none" /\ (n[2] = "captured" => remote[n[1]] = "captured")
      BY <3>1 DEF IInv, Existing, Witnessed
    <3>3. QED
      BY <1>12, <3>1, <3>2, ProviderStatusFacts DEF StripeEvent
  <2>2. CallersKeep
    BY <1>12 DEF StripeEvent, CallersKeep, Untouched
  <2>3. QED
    BY <1>12, <2>1, <2>2, ApplyInv DEF StripeEvent
<1>13. ASSUME NEW n \in Notices, MercadoPagoNotice(n) PROVE IInv'
  <2>1. CallersKeep
    BY <1>13 DEF MercadoPagoNotice, CallersKeep, Untouched
  <2>2. ASSUME NEW f \in fetched', f \notin fetched
        PROVE  f[2] # "none" /\ (f[2] = "paid" => remote'[f[1][1]] = "captured")
    <3>1. n[1] \in ext /\ f = <<n, ProviderStatus(remote[n[1]])>> /\ UNCHANGED remote
      BY <1>13, <2>2 DEF MercadoPagoNotice
    <3>2. remote[n[1]] \in RemoteStates \ {"none"}
      BY <3>1 DEF IInv, Existing, TypeOK
    <3>3. QED
      BY <3>1, <3>2, ProviderStatusFacts
  <2>3. UNCHANGED <<payStatus, status, ext, remote, notices>>
    BY <1>13 DEF MercadoPagoNotice
  <2>4. Forward /\ NothingNew /\ NoticesTrue /\ FetchesTrue
    BY <2>2, <2>3 DEF Forward, NothingNew, NoticesTrue, FetchesTrue
  <2>5. Owned' /\ Existing' /\ Witnessed'
    BY <2>1, <2>3, <2>4, Frame DEF IInv
  <2>6. PaidMeansCaptured'
    BY <2>3, <2>4, PaidFrame DEF IInv
  <2>7. QED
    BY <2>5, <2>6 DEF IInv
<1>14. ASSUME NEW f \in Notices \X RowStatuses, MercadoPagoApply(f) PROVE IInv'
  <2>1. /\ f[1][1] \in Charges /\ f[2] \in RowStatuses \ {"none"}
        /\ ApplyEvent(f[1][1], f[2])
        /\ f[2] = "paid" => remote[f[1][1]] = "captured"
    BY <1>14 DEF MercadoPagoApply, Notices, IInv, Existing, Witnessed
  <2>2. CallersKeep
    BY <1>14 DEF MercadoPagoApply, CallersKeep, Untouched
  <2>3. QED
    BY <1>14, <2>1, <2>2, ApplyInv DEF MercadoPagoApply
<1>15. ASSUME NEW s \in OperatorSets, OperatorReads(s) \/ OperatorWrites(s) PROVE IInv'
  <2>1. UNCHANGED <<payStatus, rowVars, callVars, hookVars, remote>>
    BY <1>15 DEF OperatorReads, OperatorWrites
  <2>2. CallersKeep
    BY <2>1 DEF CallersKeep, Untouched
  <2>3. QED
    BY <2>1, <2>2, RestInv
<1>16. CASE UNCHANGED vars
  <2>1. CallersKeep
    BY <1>16 DEF vars, CallersKeep, Untouched
  <2>2. QED
    BY <1>16, <2>1, RestInv DEF vars
<1>17. QED
  BY <1>1, <1>2, <1>3, <1>4, <1>5, <1>6, <1>7, <1>8, <1>9, <1>10, <1>11, <1>12, <1>13,
     <1>14, <1>15, <1>16 DEF Next, CallerStep

\* The inductive invariant, of every reachable state: an inserted row is its
\* request's own until the answer is recorded, a named charge exists, and every
\* "paid" that was fetched, announced or seen belongs to a captured charge.
THEOREM ChargeInvariant == Spec => []IInv
  BY IInvInit, IInvStep, ChargeTypes, PTL DEF Spec

\* Whatever is retried, reused, unanswered or delivered late, twice or out of
\* order, what the shop counts as paid was captured.
THEOREM PaidWasCaptured == Spec => []PaidMeansCaptured
<1>1. IInv => PaidMeansCaptured
  BY DEF IInv
<1>2. QED
  BY <1>1, ChargeInvariant, PTL

-----------------------------------------------------------------------------
(* What a step does to the order and to terminal rows.                     *)

\* Whatever changes payment_status applies an event or records an answer, and the
\* order status changes with it or because an operator writes.
LEMMA OrderStep ==
    ASSUME TypeOK, IInv, [Next]_vars
    PROVE  \/ UNCHANGED <<orderStatus, payStatus>>
           \/ \E c \in Charges, s \in RowStatuses \ {"none"} : ApplyEvent(c, s)
           \/ \E s \in {"authorized", "pending", "failed"} :
                 payStatus' = PayStatusAfter(s) /\ orderStatus' = orderStatus
           \/ /\ UNCHANGED payStatus
              /\ orderStatus' \in OperatorSets
              /\ writing' # writing
<1>1. ASSUME NEW k \in Callers, ApplySeen(k)
      PROVE  \E c \in Charges, s \in RowStatuses \ {"none"} : ApplyEvent(c, s)
  BY <1>1 DEF ApplySeen, TypeOK, IInv, Existing
<1>2. ASSUME NEW k \in Callers, Record(k)
      PROVE  \E s \in {"authorized", "pending", "failed"} :
                payStatus' = PayStatusAfter(s) /\ orderStatus' = orderStatus
  BY <1>2, RecordedFacts DEF Record
<1>3. ASSUME NEW n \in Notices, StripeEvent(n)
      PROVE  \E c \in Charges, s \in RowStatuses \ {"none"} : ApplyEvent(c, s)
  <2>1. n[1] \in Charges /\ n[2] \in RemoteStates /\ n[2] # "none"
    BY <1>3 DEF StripeEvent, Notices, IInv, Existing
  <2>2. QED
    BY <1>3, <2>1, ProviderStatusFacts DEF StripeEvent
<1>4. ASSUME NEW f \in Notices \X RowStatuses, MercadoPagoApply(f)
      PROVE  \E c \in Charges, s \in RowStatuses \ {"none"} : ApplyEvent(c, s)
  BY <1>4 DEF MercadoPagoApply, Notices, IInv, Existing
<1>5. ASSUME NEW s \in OperatorSets, OperatorWrites(s)
      PROVE  UNCHANGED payStatus /\ orderStatus' \in OperatorSets /\ writing' # writing
  BY <1>5 DEF OperatorWrites
<1>6. ASSUME NEW k \in Callers,
             \/ PayByLink(k) \/ PayByWhatsApp(k) \/ Prepare(k) \/ CancelUnnamed(k)
             \/ Fetch(k) \/ FetchFails(k) \/ CancelAtGateway(k) \/ CancelFails(k)
             \/ CloseCancelled(k) \/ ReturnReused(k) \/ Insert(k) \/ Create(k) \/ Crash(k)
      PROVE  UNCHANGED <<orderStatus, payStatus>>
  BY <1>6 DEF PayByLink, PayByWhatsApp, Asks, Prepare, CancelUnnamed, Fetch, FetchFails,
              CancelAtGateway, CancelFails, CloseCancelled, ReturnReused, Insert, Create, Crash
<1>7. ASSUME \/ \E c \in Charges : Settle(c)
             \/ \E n \in Notices : MercadoPagoNotice(n)
             \/ \E s \in OperatorSets : OperatorReads(s)
             \/ UNCHANGED vars
      PROVE  UNCHANGED <<orderStatus, payStatus>>
  BY <1>7 DEF Settle, MercadoPagoNotice, OperatorReads, vars
<1>8. QED
  BY <1>1, <1>2, <1>3, <1>4, <1>5, <1>6, <1>7 DEF Next, CallerStep

\* A paid order is 'pago', unless an operator cancelled it: the payment that
\* arrives closes it in the same transaction, and operators only close.
THEOREM PaidIsClosed == Spec => []PaidOrderIsClosed
<1>1. Init => PaidOrderIsClosed
  BY DEF Init, PaidOrderIsClosed
<1>2. TypeOK /\ IInv /\ PaidOrderIsClosed /\ [Next]_vars => PaidOrderIsClosed'
  <2> SUFFICES ASSUME TypeOK, IInv, PaidOrderIsClosed, [Next]_vars
               PROVE  PaidOrderIsClosed'
    OBVIOUS
  <2>1. CASE \E c \in Charges, s \in RowStatuses \ {"none"} : ApplyEvent(c, s)
    BY <2>1, ApplyEffect DEF PaidOrderIsClosed
  <2>2. CASE \E s \in {"authorized", "pending", "failed"} :
                payStatus' = PayStatusAfter(s) /\ orderStatus' = orderStatus
    BY <2>2 DEF PaidOrderIsClosed, PayStatusAfter
  <2>3. CASE UNCHANGED payStatus /\ orderStatus' \in OperatorSets
    BY <2>3 DEF PaidOrderIsClosed
  <2>4. CASE UNCHANGED <<orderStatus, payStatus>>
    BY <2>4 DEF PaidOrderIsClosed
  <2>5. QED
    BY <2>1, <2>2, <2>3, <2>4, OrderStep
<1>3. QED
  BY <1>1, <1>2, ChargeTypes, ChargeInvariant, PTL DEF Spec

\* Nothing that arrives after the payment touches a paid order but an operator.
THEOREM PaidStands == Spec => PaidOrderStands
<1>1. TypeOK /\ IInv /\ [Next]_vars =>
         [payStatus = "paid" => /\ payStatus' = "paid"
                                /\ orderStatus' # orderStatus => writing' # writing]_vars
  <2> SUFFICES ASSUME TypeOK, IInv, [Next]_vars, payStatus = "paid"
               PROVE  payStatus' = "paid" /\ (orderStatus' # orderStatus => writing' # writing)
    OBVIOUS
  <2>1. CASE \E c \in Charges, s \in RowStatuses \ {"none"} : ApplyEvent(c, s)
    BY <2>1, ApplyEffect
  <2>2. CASE \E s \in {"authorized", "pending", "failed"} :
                payStatus' = PayStatusAfter(s) /\ orderStatus' = orderStatus
    BY <2>2 DEF PayStatusAfter
  <2>3. CASE UNCHANGED payStatus /\ writing' # writing
    BY <2>3
  <2>4. CASE UNCHANGED <<orderStatus, payStatus>>
    BY <2>4
  <2>5. QED
    BY <2>1, <2>2, <2>3, <2>4, OrderStep
<1>2. QED
  BY <1>1, ChargeTypes, ChargeInvariant, PTL DEF Spec, PaidOrderStands

\* A recorded terminal status survives every step: what applies and sets statuses
\* looks first, and what does not writes to unrecorded rows.
LEMMA TerminalStep ==
    ASSUME TypeOK, IInv, [Next]_vars, NEW c \in ext, status[c] \in Terminal
    PROVE  status'[c] = status[c]
<1>1. c \in Charges
  BY DEF TypeOK
<1>2. ASSUME NEW d \in Charges, NEW s \in RowStatuses \ {"none"}, ApplyEvent(d, s)
      PROVE  status'[c] = status[c]
  BY <1>1, <1>2, ApplyEffect
<1>3. ASSUME NEW d \in Charges, SetStatus(d, "cancelled")
      PROVE  status'[c] = status[c]
  BY <1>1, <1>3, SetStatusEffect DEF RowStatuses, Terminal
<1>4. ASSUME NEW k \in Callers, ApplySeen(k)
      PROVE  status'[c] = status[c]
  BY <1>2, <1>4 DEF ApplySeen, TypeOK, IInv, Existing
<1>5. ASSUME NEW k \in Callers, CancelUnnamed(k) \/ CloseCancelled(k)
      PROVE  status'[c] = status[c]
  BY <1>3, <1>5 DEF CancelUnnamed, CloseCancelled, TypeOK
<1>6. ASSUME NEW k \in Callers, Insert(k)
      PROVE  status'[c] = status[c]
  <2>1. PICK d \in Fresh : status' = [status EXCEPT ![d] = "pending"]
    BY <1>6 DEF Insert
  <2>2. d # c
    BY DEF Fresh, Terminal
  <2>3. QED
    BY <1>1, <2>1, <2>2 DEF TypeOK
<1>7. ASSUME NEW k \in Callers, Record(k)
      PROVE  status'[c] = status[c]
  <2>1. cur[k] # c
    BY <1>7 DEF Record, IInv, Owned, Owning
  <2>2. QED
    BY <1>1, <1>7, <2>1 DEF Record, TypeOK
<1>8. ASSUME NEW n \in Notices, StripeEvent(n)
      PROVE  status'[c] = status[c]
  <2>1. n[1] \in Charges /\ n[2] \in RemoteStates /\ n[2] # "none"
    BY <1>8 DEF StripeEvent, Notices, IInv, Existing
  <2>2. QED
    BY <1>2, <1>8, <2>1, ProviderStatusFacts DEF StripeEvent
<1>9. ASSUME NEW f \in Notices \X RowStatuses, MercadoPagoApply(f)
      PROVE  status'[c] = status[c]
  BY <1>2, <1>9 DEF MercadoPagoApply, Notices, IInv, Existing
<1>10. ASSUME NEW k \in Callers,
              \/ PayByLink(k) \/ PayByWhatsApp(k) \/ Prepare(k) \/ Fetch(k)
              \/ FetchFails(k) \/ CancelAtGateway(k) \/ CancelFails(k)
              \/ ReturnReused(k) \/ Create(k) \/ Crash(k)
       PROVE  status'[c] = status[c]
  BY <1>10 DEF PayByLink, PayByWhatsApp, Asks, Prepare, Fetch, FetchFails,
               CancelAtGateway, CancelFails, ReturnReused, Create, Crash
<1>11. ASSUME \/ \E d \in Charges : Settle(d)
              \/ \E n \in Notices : MercadoPagoNotice(n)
              \/ \E s \in OperatorSets : OperatorReads(s) \/ OperatorWrites(s)
              \/ UNCHANGED vars
       PROVE  status'[c] = status[c]
  BY <1>11 DEF Settle, MercadoPagoNotice, OperatorReads, OperatorWrites, vars
<1>12. QED
  BY <1>4, <1>5, <1>6, <1>7, <1>8, <1>9, <1>10, <1>11 DEF Next, CallerStep

\* A charge whose creation was recorded keeps its terminal status.
THEOREM TerminalIsFinal == Spec => TerminalStands
<1>1. TypeOK /\ IInv /\ [Next]_vars =>
         [\A c \in ext : status[c] \in Terminal => status'[c] = status[c]]_vars
  BY TerminalStep
<1>2. QED
  BY <1>1, ChargeTypes, ChargeInvariant, PTL DEF Spec, TerminalStands

-----------------------------------------------------------------------------
(* PaymentCharges implements OrderPayment.                                 *)

\* At most one charge changes at the gateway in a step, never one that was
\* captured, and the order does not change with it.
LEMMA GatewayStep ==
    ASSUME TypeOK, IInv, [Next]_vars
    PROVE  \/ UNCHANGED remote
           \/ \E c \in Charges :
                 /\ remote[c] # "captured"
                 /\ \A d \in Charges : d # c => remote'[d] = remote[d]
                 /\ UNCHANGED <<orderStatus, payStatus>>
<1> DEFINE Moves == \E c \in Charges :
                       /\ remote[c] # "captured"
                       /\ \A d \in Charges : d # c => remote'[d] = remote[d]
                       /\ UNCHANGED <<orderStatus, payStatus>>
<1>0. ASSUME NEW c \in Charges, NEW r, Becomes(c, r)
      PROVE  \A d \in Charges : d # c => remote'[d] = remote[d]
  BY <1>0 DEF Becomes, TypeOK
<1>1. ASSUME NEW c \in Charges, Settle(c) PROVE Moves
  BY <1>0, <1>1 DEF Settle
<1>2. ASSUME NEW k \in Callers, CancelAtGateway(k) PROVE Moves
  <2>1. cur[k] \in Charges /\ remote[cur[k]] # "captured" /\ Becomes(cur[k], "cancelled")
    BY <1>2 DEF CancelAtGateway, Cancelable, TypeOK
  <2>2. QED
    BY <1>0, <1>2, <2>1 DEF CancelAtGateway
<1>3. ASSUME NEW k \in Callers, CancelFails(k) PROVE UNCHANGED remote \/ Moves
  <2>1. CASE Cancelable(remote[cur[k]]) /\ Becomes(cur[k], "cancelled")
    <3>1. cur[k] \in Charges /\ remote[cur[k]] # "captured"
      BY <1>3, <2>1 DEF CancelFails, Cancelable, TypeOK
    <3>2. QED
      BY <1>0, <1>3, <2>1, <3>1 DEF CancelFails
  <2>2. QED
    BY <1>3, <2>1 DEF CancelFails
<1>4. ASSUME NEW k \in Callers, Create(k) PROVE UNCHANGED remote \/ Moves
  <2>1. cur[k] \in Charges /\ remote[cur[k]] = "none"
    BY <1>4 DEF Create, IInv, Existing, TypeOK
  <2>2. UNCHANGED remote \/ \E result \in Creates(want[k]) : Becomes(cur[k], result[1])
    BY <1>4 DEF Create
  <2>3. UNCHANGED <<orderStatus, payStatus>>
    BY <1>4 DEF Create
  <2>4. QED
    BY <1>0, <2>1, <2>2, <2>3
<1>5. ASSUME NEW k \in Callers,
             \/ PayByLink(k) \/ PayByWhatsApp(k) \/ Prepare(k) \/ CancelUnnamed(k)
             \/ Fetch(k) \/ FetchFails(k) \/ ApplySeen(k) \/ CloseCancelled(k)
             \/ ReturnReused(k) \/ Insert(k) \/ Record(k) \/ Crash(k)
      PROVE  UNCHANGED remote
  BY <1>5 DEF PayByLink, PayByWhatsApp, Asks, Prepare, CancelUnnamed, Fetch, FetchFails,
              ApplySeen, CloseCancelled, ReturnReused, Insert, Record, Crash
<1>6. ASSUME \/ \E n \in Notices : StripeEvent(n) \/ MercadoPagoNotice(n)
             \/ \E f \in Notices \X RowStatuses : MercadoPagoApply(f)
             \/ \E s \in OperatorSets : OperatorReads(s) \/ OperatorWrites(s)
             \/ UNCHANGED vars
      PROVE  UNCHANGED remote
  BY <1>6 DEF StripeEvent, MercadoPagoNotice, MercadoPagoApply, OperatorReads,
              OperatorWrites, vars
<1>7. QED
  BY <1>1, <1>2, <1>3, <1>4, <1>5, <1>6 DEF Next, CallerStep

\* An event that is applied pays an order of which money was taken, and closes it,
\* or is seen by nobody outside.
LEMMA ApplyPays ==
    ASSUME TypeOK, PaidMeansCaptured', UNCHANGED remote,
           NEW c \in Charges, NEW s \in RowStatuses \ {"none"}, ApplyEvent(c, s)
    PROVE  [Payment!Next]_(Payment!vars)
<1> USE DEF Payment!vars
<1>1. CASE UNCHANGED <<orderStatus, payStatus>>
  BY <1>1
<1>2. CASE ~UNCHANGED <<orderStatus, payStatus>>
  <2>1. payStatus' = PayStatusAfter(s) /\ orderStatus' = OrderStatusAfter(s)
    BY <1>2 DEF ApplyEvent
  <2>2. CASE s = "paid"
    <3>1. payStatus # "paid" /\ payStatus' = "paid"
      BY <1>2, <2>1, <2>2 DEF PayStatusAfter, OrderStatusAfter
    <3>2. orderStatus' = IF orderStatus = "cancelado" THEN "cancelado" ELSE "pago"
      BY <2>1, <2>2, <3>1 DEF OrderStatusAfter
    <3>3. {d \in Charges : remote[d] = "captured"} # {}
      BY <3>1 DEF PaidMeansCaptured
    <3>4. Payment!Pay
      BY <3>1, <3>2, <3>3 DEF Payment!Pay
    <3>5. QED
      BY <3>4 DEF Payment!Next
  <2>3. CASE s # "paid"
    <3>1. orderStatus' = orderStatus /\ (payStatus' = "paid" <=> payStatus = "paid")
      BY <2>1, <2>3 DEF PayStatusAfter, OrderStatusAfter
    <3>2. QED
      BY <3>1
  <2>4. QED
    BY <2>2, <2>3
<1>3. QED
  BY <1>1, <1>2

\* Every step takes the money of one charge, pays an order of which money was
\* taken and closes it, is an operator's, or is seen by nobody outside.
LEMMA PaymentStep ==
    ASSUME TypeOK, IInv, PaidMeansCaptured', [Next]_vars
    PROVE  [Payment!Next]_(Payment!vars)
<1> USE DEF Payment!vars
<1> DEFINE Captured == {c \in Charges : remote[c] = "captured"}
<1>1. ASSUME UNCHANGED <<orderStatus, payStatus>> PROVE [Payment!Next]_(Payment!vars)
  <2>1. CASE Captured' = Captured
    BY <1>1, <2>1
  <2>2. CASE Captured' # Captured
    <3>1. PICK c \in Charges :
             /\ remote[c] # "captured"
             /\ \A d \in Charges : d # c => remote'[d] = remote[d]
      BY <2>2, GatewayStep
    <3>2. c \notin Captured /\ Captured' = Captured \cup {c}
      BY <2>2, <3>1
    <3>3. Payment!Capture(c)
      BY <1>1, <3>2 DEF Payment!Capture
    <3>4. QED
      BY <3>3 DEF Payment!Next
  <2>3. QED
    BY <2>1, <2>2
<1>2. ASSUME ~UNCHANGED <<orderStatus, payStatus>> PROVE UNCHANGED remote
  BY <1>2, GatewayStep
<1>3. ASSUME NEW c \in Charges, NEW s \in RowStatuses \ {"none"}, ApplyEvent(c, s)
      PROVE  [Payment!Next]_(Payment!vars)
  BY <1>1, <1>2, <1>3, ApplyPays
<1>4. ASSUME NEW s \in {"authorized", "pending", "failed"},
             payStatus' = PayStatusAfter(s), orderStatus' = orderStatus
      PROVE  [Payment!Next]_(Payment!vars)
  <2>1. payStatus' = "paid" <=> payStatus = "paid"
    BY <1>4 DEF PayStatusAfter
  <2>2. QED
    BY <1>1, <1>2, <1>4, <2>1
<1>5. ASSUME UNCHANGED payStatus, orderStatus' \in OperatorSets
      PROVE  [Payment!Next]_(Payment!vars)
  <2>1. CASE UNCHANGED orderStatus
    BY <1>1, <1>5, <2>1
  <2>2. CASE ~UNCHANGED orderStatus
    <3>1. Payment!Operate(orderStatus')
      BY <1>2, <1>5, <2>2 DEF Payment!Operate
    <3>2. QED
      BY <1>5, <3>1 DEF Payment!Next
  <2>3. QED
    BY <2>1, <2>2
<1>6. QED
  BY <1>1, <1>3, <1>4, <1>5, OrderStep

\* Charging an order, with all its retries, events and races, is OrderPayment.
THEOREM Implements == Spec => PaymentSpec
<1>1. Init => Payment!Init
  BY DEF Init, Payment!Init
<1>2. TypeOK /\ IInv /\ IInv' /\ [Next]_vars => [Payment!Next]_(Payment!vars)
  BY PaymentStep DEF IInv
<1>3. QED
  BY <1>1, <1>2, ChargeTypes, ChargeInvariant, PTL DEF Spec, PaymentSpec, Payment!Spec
=============================================================================
