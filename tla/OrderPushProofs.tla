--------------------------- MODULE OrderPushProofs ---------------------------
(***************************************************************************)
(* What holds of the outbound ERP engine for every number of orders,       *)
(* dispatch calls, attempts, edits, resends and process stops.             *)
(*                                                                         *)
(* The safety of the ERP side hangs on one fact about the version key that *)
(* the next send would use: as long as an order is not cancelled locally,  *)
(* either the ERP has never seen that key, or the order under that key is  *)
(* the only one alive.  It is inductive only together with where each      *)
(* dispatch call stands (Claimed, Attempt) and with what a row's status    *)
(* says of its external_id (Recorded, SentAlive).                          *)
(***************************************************************************)
EXTENDS OrderPush, TLAPS

\* A call owns what it claimed until it finishes it or stops.
Claimed ==
    \A d \in Dispatchers :
        /\ \A o \in batch[d] : status[o] = "processing"
        /\ phase[d] \in Busy => cur[d] \in batch[d]
        /\ phase[d] \in {"idle", "called"} => batch[d] = {}
        /\ resend[d] \subseteq batch[d]

\* Only a locally cancelled order is being cancelled at the ERP.
CancelsFollow == \A o \in Orders : cPhase[o] # "idle" => o \in cancelled

\* The ERP against what the row and the attempt log record.
Recorded(o) ==
    /\ live[o] \subseteq known[o]
    /\ known[o] \subseteq 1 .. NextKey(o)
    /\ extId[o] < NextKey(o)
    /\ live[o] \subseteq {extId[o], NextKey(o)}
    /\ NextKey(o) \in known[o] => live[o] = {NextKey(o)}
    /\ status[o] \in {"none", "pending"} => extId[o] = 0

\* 'sent' with an external_id is an order alive under it, and no other.
SentAlive(o) == status[o] = "sent" => live[o] = {extId[o]}

\* Where a dispatch call stands with its current row o, and a claimed row that
\* did not come out of 'cancelling' has nothing to cancel.
Attempt(d, o) ==
    /\ o \in batch[d] \ resend[d] => extId[o] = 0
    /\ cur[d] = o =>
        /\ phase[d] = "cancel" => active[d] = extId[o]
        /\ phase[d] \in {"read", "send"} =>
              active[d] = 0 /\ live[o] \subseteq {NextKey(o)}
        /\ phase[d] = "finish" =>
              \/ /\ next[d] = "sent"
                 /\ active[d] = NextKey(o) /\ live[o] = {NextKey(o)}
              \/ /\ next[d] \in {"pending", "cancelling", "failed"}
                 /\ active[d] \in {0, extId[o]}
                 /\ next[d] = "pending" => active[d] = 0
                 /\ live[o] \subseteq {active[d], NextKey(o)}

Mirrored(o) == Recorded(o) /\ \A d \in Dispatchers : Attempt(d, o)

Ownership == WorkersDisjoint /\ Claimed

IInv ==
    /\ TypeOK
    /\ Ownership
    /\ CancelsFollow
    /\ \A o \in Orders \ cancelled : Mirrored(o) /\ SentAlive(o)

-----------------------------------------------------------------------------
USE CancellableAssumption, NoneAssumption, BoundsAssumption
USE DEF localVars, rowVars, callVars, cancelVars, workerVars, erpVars

-----------------------------------------------------------------------------
(* What a call to the ERP may change.                                      *)

LEMMA ErpCancelEffect ==
    ASSUME live \in [Orders -> SUBSET Versions], NEW o \in Orders, NEW ext,
           NEW outcome, ErpCancel(o, ext, outcome)
    PROVE  /\ UNCHANGED <<known, held>>
           /\ live' \in [Orders -> SUBSET Versions]
           /\ \A p \in Orders \ {o} : live'[p] = live[p]
           /\ live'[o] = live[o] \/ live'[o] = live[o] \ {ext}
           /\ outcome = "ok" => live'[o] = live[o] \ {ext}
<1>1. CASE live' = [live EXCEPT ![o] = @ \ {ext}] /\ UNCHANGED <<known, held>>
  BY <1>1
<1>2. CASE (ext \notin live[o] \/ outcome # "ok") /\ UNCHANGED erpVars
  BY <1>2 DEF erpVars
<1>3. QED
  BY <1>1, <1>2 DEF ErpCancel

LEMMA ErpSendEffect ==
    ASSUME known \in [Orders -> SUBSET Versions], live \in [Orders -> SUBSET Versions],
           held \in [Orders -> Nat],
           NEW o \in Orders, NEW key \in Versions, NEW c \in Nat, NEW outcome,
           ErpSend(o, key, c, outcome)
    PROVE  /\ known' \in [Orders -> SUBSET Versions]
           /\ live' \in [Orders -> SUBSET Versions]
           /\ held' \in [Orders -> Nat]
           /\ \A p \in Orders \ {o} : known'[p] = known[p] /\ live'[p] = live[p]
           /\ \/ /\ key \notin known[o]
                 /\ known'[o] = known[o] \cup {key} /\ live'[o] = live[o] \cup {key}
              \/ /\ key \in known[o] \/ outcome # "ok"
                 /\ known'[o] = known[o] /\ live'[o] = live[o]
<1>1. CASE /\ key \notin known[o]
           /\ known' = [known EXCEPT ![o] = @ \cup {key}]
           /\ live'  = [live EXCEPT ![o] = @ \cup {key}]
           /\ held'  = [held EXCEPT ![o] = c]
  BY <1>1
<1>2. CASE (key \in known[o] \/ outcome # "ok") /\ UNCHANGED erpVars
  BY <1>2 DEF erpVars
<1>3. QED
  BY <1>1, <1>2 DEF ErpSend

\* Every variable keeps its type.
THEOREM TypeCorrect == Spec => []TypeOK
<1> USE DEF TypeOK, RowStatuses, Phases, Busy, Versions, Outcomes
<1>1. Init => TypeOK
  BY DEF Init
<1>2. TypeOK /\ [Next]_vars => TypeOK'
  <2> SUFFICES ASSUME TypeOK, [Next]_vars PROVE TypeOK'
    OBVIOUS
  <2>1. ASSUME NEW o \in Orders, Checkout(o) PROVE TypeOK'
    BY <2>1 DEF Checkout
  <2>2. ASSUME NEW o \in Orders, Edit(o) PROVE TypeOK'
    BY <2>2 DEF Edit
  <2>24. ASSUME NEW o \in Orders, PaidByGateway(o) PROVE TypeOK'
    BY <2>24 DEF PaidByGateway
  <2>3. ASSUME NEW o \in Orders, AskResend(o) PROVE TypeOK'
    BY <2>3 DEF AskResend
  <2>4. ASSUME NEW o \in Orders, CancelOrder(o) PROVE TypeOK'
    BY <2>4 DEF CancelOrder
  <2>5. ASSUME NEW o \in Orders, ResendRead(o) PROVE TypeOK'
    BY <2>5 DEF ResendRead
  <2>6. ASSUME NEW o \in Orders, RequestFails(o) PROVE TypeOK'
    BY <2>6 DEF RequestFails
  <2>7. ASSUME NEW o \in Orders, CancelRead(o) PROVE TypeOK'
    BY <2>7 DEF CancelRead
  <2>8. ASSUME NEW o \in Orders, CancelCall(o) PROVE TypeOK'
    <3>1. PICK outcome \in Outcomes :
             /\ ErpCancel(o, cExt[o], outcome)
             /\ cPhase' = [cPhase EXCEPT ![o] = IF outcome = "ok" THEN "mark" ELSE "idle"]
      BY <2>8 DEF CancelCall
    <3>2. live' \in [Orders -> SUBSET Versions] /\ UNCHANGED <<known, held>>
      BY <3>1, ErpCancelEffect
    <3>3. QED
      BY <2>8, <3>1, <3>2 DEF CancelCall
  <2>9. ASSUME NEW o \in Orders, CancelMark(o) PROVE TypeOK'
    <3>1. CASE status[o] = "processing"
      BY <2>9, <3>1 DEF CancelMark
    <3>2. CASE status[o] # "processing"
      <4>1. status' = [status EXCEPT ![o] = "cancelled"]
            /\ extId' = [extId EXCEPT ![o] = 0]
        BY <2>9, <3>2 DEF CancelMark
      <4>2. cPhase' \in [Orders -> {"idle", "read", "call", "mark"}]
        BY <2>9 DEF CancelMark
      <4>3. status' \in [Orders -> RowStatuses]
        BY <4>1
      <4>4. extId' \in [Orders -> Nat]
        BY <4>1
      <4>5. UNCHANGED <<localVars, attempts, due, sentCount, callVars, cExt, workerVars,
                        erpVars, crashes>>
        BY <2>9 DEF CancelMark
      <4>6. QED
        BY <4>2, <4>3, <4>4, <4>5
    <3>3. QED
      BY <3>1, <3>2
  <2>10. ASSUME NEW o \in Orders, BackoffElapses(o) PROVE TypeOK'
    BY <2>10 DEF BackoffElapses
  <2>11. ASSUME NEW o \in Orders, NEW d \in Dispatchers, Enqueue(o, d) PROVE TypeOK'
    BY <2>11 DEF Enqueue, InsertRow, StartDispatch, Between
  <2>12. ASSUME NEW o \in Orders, NEW d \in Dispatchers, ResendMark(o, d) PROVE TypeOK'
    <3>1. status' \in [Orders -> RowStatuses] /\ due' \subseteq Orders
      <4>1. CASE status[o] = "processing"
        BY <2>12, <4>1 DEF ResendMark, MarkForResend
      <4>2. CASE status[o] # "processing" /\ extId[o] = 0
        <5>1. status' = [status EXCEPT ![o] = "pending"] /\ due' = due \cup {o}
          BY <2>12, <4>2 DEF ResendMark, MarkForResend
        <5>2. QED
          BY <5>1
      <4>3. CASE status[o] # "processing" /\ extId[o] # 0
        <5>1. status' = [status EXCEPT ![o] = "cancelling"] /\ due' = due \cup {o}
          BY <2>12, <4>3 DEF ResendMark, MarkForResend
        <5>2. QED
          BY <5>1
      <4>4. QED
        BY <4>1, <4>2, <4>3
    <3>2. request' \in [Orders -> {"idle", "asked", "enqueue", "mark"}]
          /\ UNCHANGED <<extId, attempts, sentCount, localVars, resends, cancelVars,
                         erpVars, crashes>>
      BY <2>12 DEF ResendMark, MarkForResend
    <3>3. QED
      BY <2>12, <3>1, <3>2 DEF ResendMark, StartDispatch, Between
  <2>13. ASSUME NEW d \in Dispatchers, OtherTrigger(d) PROVE TypeOK'
    BY <2>13 DEF OtherTrigger, StartDispatch, Between
  <2>14. ASSUME NEW d \in Dispatchers, Claim(d) PROVE TypeOK'
    BY <2>14 DEF Claim, Claimable, Between
  <2>15. ASSUME NEW d \in Dispatchers, NextRow(d) PROVE TypeOK'
    BY <2>15 DEF NextRow
  <2>16. ASSUME NEW d \in Dispatchers, NextRowImpossible(d) PROVE TypeOK'
    BY <2>16 DEF NextRowImpossible
  <2>17. ASSUME NEW d \in Dispatchers, AttemptCancel(d) PROVE TypeOK'
    <3>1. PICK outcome \in Outcomes :
             /\ ErpCancel(cur[d], active[d], outcome)
             /\ IF outcome = "ok"
                THEN /\ phase' = [phase EXCEPT ![d] = "read"]
                     /\ active' = [active EXCEPT ![d] = 0]
                     /\ UNCHANGED next
                ELSE Fails(d, outcome = "refused")
      BY <2>17 DEF AttemptCancel
    <3>2. live' \in [Orders -> SUBSET Versions] /\ UNCHANGED <<known, held>>
      BY <2>17, <3>1, ErpCancelEffect DEF AttemptCancel
    <3>3. CASE outcome = "ok"
      <4>0. /\ phase' = [phase EXCEPT ![d] = "read"]
            /\ active' = [active EXCEPT ![d] = 0]
            /\ next' = next
        BY <3>1, <3>3, Zenon
      <4>1. /\ phase' \in [Dispatchers -> Phases]
            /\ active' \in [Dispatchers -> Nat]
        BY <4>0
      <4>2. \A e \in Dispatchers : phase'[e] \in Busy => cur'[e] \in Orders
        BY <2>17, <3>1, <3>3 DEF AttemptCancel
      <4>3. QED
        BY <2>17, <3>2, <4>0, <4>1, <4>2 DEF AttemptCancel
    <3>4. CASE outcome # "ok"
      BY <2>17, <3>1, <3>2, <3>4 DEF AttemptCancel, Fails, Failure
    <3>5. QED
      BY <3>3, <3>4
  <2>18. ASSUME NEW d \in Dispatchers, AttemptRead(d) PROVE TypeOK'
    BY <2>18 DEF AttemptRead
  <2>19. ASSUME NEW d \in Dispatchers, AttemptNoStock(d) PROVE TypeOK'
    BY <2>19 DEF AttemptNoStock, Fails, Failure
  <2>20. ASSUME NEW d \in Dispatchers, AttemptSend(d) PROVE TypeOK'
    <3>1. PICK outcome \in Outcomes :
             /\ ErpSend(cur[d], NextKey(cur[d]), saw[d], outcome)
             /\ IF outcome = "ok"
                THEN /\ phase' = [phase EXCEPT ![d] = "finish"]
                     /\ next' = [next EXCEPT ![d] = "sent"]
                     /\ active' = [active EXCEPT ![d] = NextKey(cur[d])]
                ELSE Fails(d, outcome = "refused")
      BY <2>20 DEF AttemptSend
    <3>2. cur[d] \in Orders /\ NextKey(cur[d]) \in Versions
      BY <2>20 DEF AttemptSend, NextKey
    <3>3. /\ known' \in [Orders -> SUBSET Versions]
          /\ live' \in [Orders -> SUBSET Versions]
          /\ held' \in [Orders -> Nat]
      BY <3>1, <3>2, ErpSendEffect
    <3>4. CASE outcome = "ok"
      <4>1. /\ phase' \in [Dispatchers -> Phases]
            /\ next' \in [Dispatchers -> RowStatuses]
            /\ active' \in [Dispatchers -> Nat]
        <5>1. /\ phase' = [phase EXCEPT ![d] = "finish"]
              /\ next' = [next EXCEPT ![d] = "sent"]
              /\ active' = [active EXCEPT ![d] = NextKey(cur[d])]
          BY <3>1, <3>4, Zenon
        <5>2. QED
          BY <5>1, <3>2
      <4>2. \A e \in Dispatchers : phase'[e] \in Busy => cur'[e] \in Orders
        BY <2>20, <3>1, <3>4 DEF AttemptSend
      <4>3. QED
        BY <2>20, <3>3, <4>1, <4>2 DEF AttemptSend
    <3>5. CASE outcome # "ok"
      BY <2>20, <3>1, <3>2, <3>3, <3>5 DEF AttemptSend, Fails, Failure
    <3>6. QED
      BY <3>4, <3>5
  <2>21. ASSUME NEW d \in Dispatchers, Finish(d) PROVE TypeOK'
    BY <2>21 DEF Finish, Between
  <2>22. ASSUME NEW d \in Dispatchers, Crash(d) PROVE TypeOK'
    BY <2>22 DEF Crash, Between
  <2>23. CASE UNCHANGED vars
    BY <2>23 DEF vars
  <2>25. QED
    BY <2>1, <2>2, <2>3, <2>4, <2>5, <2>6, <2>7, <2>8, <2>9, <2>10, <2>11, <2>12,
       <2>13, <2>14, <2>15, <2>16, <2>17, <2>18, <2>19, <2>20, <2>21, <2>22, <2>23, <2>24
    DEF Next, RequestStep, CancellerStep, WorkerStep
<1>3. QED
  BY <1>1, <1>2, PTL DEF Spec

-----------------------------------------------------------------------------
(* Who works on a row.                                                     *)

LEMMA OwnershipStep ==
    ASSUME TypeOK, Ownership, [Next]_vars
    PROVE  Ownership'
<1> USE DEF Ownership, WorkersDisjoint, Claimed, Busy
<1> DEFINE RowTypes == /\ status \in [Orders -> RowStatuses]
                       /\ due \subseteq Orders
           CallTypes == /\ phase \in [Dispatchers -> Phases]
                        /\ batch \in [Dispatchers -> SUBSET Orders]
                        /\ resend \in [Dispatchers -> SUBSET Orders]
                        /\ cur \in [Dispatchers -> Orders \cup {None}]
<1>0. RowTypes /\ CallTypes
  BY DEF TypeOK
\* Steps that touch neither a row's status nor a dispatch call.
<1>1. CASE UNCHANGED <<status, phase, batch, resend, cur>>
  BY <1>1
\* A dispatch call starts or stops, and no row in 'processing' changes.
<1>2. ASSUME NEW d \in Dispatchers, NEW p,
             p \in {"idle", "called"}, Between(d, p, {}, {}),
             \A o \in Orders : status[o] = "processing" => status'[o] = "processing"
      PROVE  Ownership'
  BY <1>0, <1>2 DEF Between
<1>3. ASSUME NEW o \in Orders, Checkout(o) \/ Edit(o) \/ PaidByGateway(o)
                               \/ AskResend(o) \/ CancelOrder(o)
                               \/ ResendRead(o) \/ RequestFails(o) \/ CancelRead(o)
                               \/ CancelCall(o) \/ BackoffElapses(o)
      PROVE  Ownership'
  BY <1>1, <1>3 DEF Checkout, Edit, PaidByGateway, AskResend, CancelOrder, ResendRead,
                    RequestFails, CancelRead, CancelCall, BackoffElapses
<1>4. ASSUME NEW o \in Orders, CancelMark(o) PROVE Ownership'
  <2>1. UNCHANGED <<phase, batch, resend, cur>>
    BY <1>4 DEF CancelMark
  <2>2. \A x \in Orders : status[x] = "processing" => status'[x] = "processing"
    BY <1>0, <1>4 DEF CancelMark
  <2>3. QED
    BY <1>0, <2>1, <2>2
<1>5. ASSUME NEW o \in Orders, NEW d \in Dispatchers, Enqueue(o, d) PROVE Ownership'
  <2>1. \A x \in Orders : status[x] = "processing" => status'[x] = "processing"
    BY <1>0, <1>5 DEF Enqueue, InsertRow
  <2>2. QED
    BY <1>2, <1>5, <2>1 DEF Enqueue, StartDispatch
<1>6. ASSUME NEW o \in Orders, NEW d \in Dispatchers, ResendMark(o, d) PROVE Ownership'
  <2>1. \A x \in Orders : status[x] = "processing" => status'[x] = "processing"
    BY <1>0, <1>6 DEF ResendMark, MarkForResend
  <2>2. QED
    BY <1>2, <1>6, <2>1 DEF ResendMark, StartDispatch
<1>7. ASSUME NEW d \in Dispatchers, OtherTrigger(d) \/ Crash(d) PROVE Ownership'
  BY <1>2, <1>7 DEF OtherTrigger, StartDispatch, Crash
<1>8. ASSUME NEW d \in Dispatchers, Claim(d) PROVE Ownership'
  <2>1. PICK rows \in SUBSET Claimable :
           /\ status' = [o \in Orders |-> IF o \in rows THEN "processing" ELSE status[o]]
           /\ Between(d, IF rows = {} THEN "idle" ELSE "next", rows,
                      {o \in rows : status[o] = "cancelling"})
    BY <1>8 DEF Claim
  <2>2. rows \subseteq Orders /\ \A o \in rows : status[o] # "processing"
    BY <1>0, <2>1 DEF Claimable
  <2>3. \A e \in Dispatchers : rows \cap batch[e] = {}
    BY <1>0, <2>2
  <2>4. \A e \in Dispatchers \ {d} :
           /\ phase'[e] = phase[e] /\ batch'[e] = batch[e]
           /\ resend'[e] = resend[e] /\ cur'[e] = cur[e]
    BY <1>0, <2>1 DEF Between
  <2>5. /\ batch'[d] = rows /\ resend'[d] \subseteq rows
        /\ phase'[d] = IF rows = {} THEN "idle" ELSE "next"
    BY <1>0, <2>1 DEF Between
  <2>6. WorkersDisjoint'
    BY <2>3, <2>4, <2>5
  <2>7. \A e \in Dispatchers : \A o \in batch'[e] : status'[o] = "processing"
    BY <1>0, <2>1, <2>2, <2>4, <2>5
  <2>8. Claimed'
    BY <2>4, <2>5, <2>7
  <2>9. QED
    BY <2>6, <2>8
<1>9. ASSUME NEW d \in Dispatchers, NextRow(d) \/ NextRowImpossible(d) PROVE Ownership'
  BY <1>0, <1>9 DEF NextRow, NextRowImpossible
<1>10. ASSUME NEW d \in Dispatchers,
              UNCHANGED <<status, batch, resend, cur>>,
              \A e \in Dispatchers \ {d} : phase'[e] = phase[e],
              phase[d] \in Busy, phase'[d] \in Busy
       PROVE  Ownership'
  BY <1>10
<1>11. ASSUME NEW d \in Dispatchers, AttemptCancel(d) PROVE Ownership'
  <2>1. /\ phase[d] = "cancel" /\ UNCHANGED <<status, batch, resend, cur>>
        /\ \/ phase' = [phase EXCEPT ![d] = "read"]
           \/ phase' = [phase EXCEPT ![d] = "finish"]
    BY <1>11 DEF AttemptCancel, Fails
  <2>2. QED
    BY <1>0, <1>10, <2>1
<1>12. ASSUME NEW d \in Dispatchers, AttemptRead(d) PROVE Ownership'
  BY <1>0, <1>10, <1>12 DEF AttemptRead
<1>13. ASSUME NEW d \in Dispatchers, AttemptNoStock(d) PROVE Ownership'
  BY <1>0, <1>10, <1>13 DEF AttemptNoStock, Fails
<1>14. ASSUME NEW d \in Dispatchers, AttemptSend(d) PROVE Ownership'
  <2>1. /\ phase[d] = "send" /\ UNCHANGED <<status, batch, resend, cur>>
        /\ phase' = [phase EXCEPT ![d] = "finish"]
    BY <1>14 DEF AttemptSend, Fails
  <2>2. QED
    BY <1>0, <1>10, <2>1
<1>15. ASSUME NEW d \in Dispatchers, Finish(d) PROVE Ownership'
  <2>1. cur[d] \in batch[d] /\ cur[d] \in Orders
    BY <1>0, <1>15 DEF Finish
  <2>2. \A e \in Dispatchers \ {d} :
           /\ phase'[e] = phase[e] /\ batch'[e] = batch[e]
           /\ resend'[e] = resend[e] /\ cur'[e] = cur[e] /\ cur[d] \notin batch[e]
    BY <1>0, <1>15, <2>1 DEF Finish, Between
  <2>3. /\ batch'[d] = batch[d] \ {cur[d]} /\ resend'[d] = resend[d] \ {cur[d]}
        /\ phase'[d] = IF batch'[d] = {} THEN "idle" ELSE "next"
    BY <1>0, <1>15 DEF Finish, Between
  <2>4. \A x \in Orders \ {cur[d]} : status'[x] = status[x]
    BY <1>0, <1>15 DEF Finish
  <2>5. WorkersDisjoint'
    BY <2>2, <2>3
  <2>6. \A e \in Dispatchers : \A o \in batch'[e] : status'[o] = "processing"
    BY <1>0, <2>2, <2>3, <2>4
  <2>7. Claimed'
    BY <2>2, <2>3, <2>6
  <2>8. QED
    BY <2>5, <2>7
<1>16. CASE UNCHANGED vars
  BY <1>1, <1>16 DEF vars
<1>17. QED
  BY <1>3, <1>4, <1>5, <1>6, <1>7, <1>8, <1>9, <1>11, <1>12, <1>13, <1>14, <1>15, <1>16
     DEF Next, RequestStep, CancellerStep, WorkerStep

\* Two dispatch calls never work on the same row (claim with SKIP LOCKED in one
\* statement), and what a call claimed stays 'processing' until that call
\* finishes it.
THEOREM ExclusiveRows == Spec => [](WorkersDisjoint /\ Claimed)
<1>1. Init => Ownership
  BY DEF Init, Ownership, WorkersDisjoint, Claimed, Busy
<1>2. TypeOK /\ Ownership /\ [Next]_vars => Ownership'
  BY OwnershipStep
<1>3. QED
  BY <1>1, <1>2, TypeCorrect, PTL DEF Spec, Ownership

\* Only a finishing dispatch call takes a row out of 'processing'.
LEMMA ProcessingStep ==
    ASSUME TypeOK, [Next]_vars, NEW o \in Orders, status[o] = "processing",
           <<status[o], extId[o]>>' # <<status[o], extId[o]>>
    PROVE  \E d \in Dispatchers : phase[d] = "finish" /\ cur[d] = o
<1> DEFINE Changed == <<status[o], extId[o]>>' # <<status[o], extId[o]>>
<1>0. status \in [Orders -> RowStatuses] /\ extId \in [Orders -> Nat] /\ due \subseteq Orders
  BY DEF TypeOK
<1>1. ~ UNCHANGED <<status, extId>>
  OBVIOUS
<1>2. ASSUME NEW p \in Orders, CancelMark(p) PROVE FALSE
  BY <1>0, <1>2 DEF CancelMark
<1>3. ASSUME NEW p \in Orders, NEW d \in Dispatchers, Enqueue(p, d) PROVE FALSE
  BY <1>0, <1>3 DEF Enqueue, InsertRow
<1>4. ASSUME NEW p \in Orders, NEW d \in Dispatchers, ResendMark(p, d) PROVE FALSE
  BY <1>0, <1>4 DEF ResendMark, MarkForResend
<1>5. ASSUME NEW d \in Dispatchers, Claim(d) PROVE FALSE
  BY <1>0, <1>5 DEF Claim, Claimable
<1>6. ASSUME NEW d \in Dispatchers, Finish(d) PROVE phase[d] = "finish" /\ cur[d] = o
  BY <1>0, <1>6 DEF Finish
<1>7. QED
  BY <1>1, <1>2, <1>3, <1>4, <1>5, <1>6
     DEF Next, RequestStep, CancellerStep, WorkerStep, Checkout, Edit, PaidByGateway,
         AskResend, CancelOrder, ResendRead, RequestFails, CancelRead, CancelCall,
         BackoffElapses, OtherTrigger, NextRow, NextRowImpossible, AttemptCancel,
         AttemptRead, AttemptNoStock, AttemptSend, Crash, vars

\* The guards of markProviderOrderForResend and markProviderOrderCancelled keep
\* everybody else away from a row that is being processed.
THEOREM ProcessingOwned == Spec => ProcessingIsOwned
<1>1. TypeOK /\ [Next]_vars =>
        [\A o \in Orders :
          status[o] = "processing" /\ <<status[o], extId[o]>>' # <<status[o], extId[o]>> =>
              \E d \in Dispatchers : phase[d] = "finish" /\ cur[d] = o]_vars
  BY ProcessingStep
<1>2. QED
  BY <1>1, TypeCorrect, PTL DEF Spec, ProcessingIsOwned

LEMMA CancelsFollowStep ==
    ASSUME TypeOK, CancelsFollow, [Next]_vars
    PROVE  CancelsFollow'
<1>0. cPhase \in [Orders -> {"idle", "read", "call", "mark"}]
  BY DEF TypeOK
<1>1. CASE UNCHANGED <<cPhase, cancelled>>
  BY <1>1 DEF CancelsFollow
<1>2. ASSUME NEW o \in Orders, CancelOrder(o) PROVE CancelsFollow'
  BY <1>0, <1>2 DEF CancelsFollow, CancelOrder
<1>3. ASSUME NEW o \in Orders, CancelRead(o) \/ CancelMark(o) PROVE CancelsFollow'
  <2>1. cPhase[o] # "idle" /\ cancelled' = cancelled
    BY <1>3 DEF CancelRead, CancelMark
  <2>2. \A p \in Orders \ {o} : cPhase'[p] = cPhase[p]
    BY <1>0, <1>3 DEF CancelRead, CancelMark
  <2>3. QED
    BY <2>1, <2>2 DEF CancelsFollow
<1>4. ASSUME NEW o \in Orders, CancelCall(o) PROVE CancelsFollow'
  <2>1. cPhase[o] # "idle" /\ cancelled' = cancelled
    BY <1>4 DEF CancelCall
  <2>2. \A p \in Orders \ {o} : cPhase'[p] = cPhase[p]
    BY <1>0, <1>4 DEF CancelCall
  <2>3. QED
    BY <2>1, <2>2 DEF CancelsFollow
<1>5. QED
  BY <1>1, <1>2, <1>3, <1>4
     DEF Next, RequestStep, CancellerStep, WorkerStep, Checkout, Edit, PaidByGateway,
         AskResend, ResendRead, RequestFails, BackoffElapses, Enqueue, ResendMark,
         OtherTrigger, Claim, NextRow, NextRowImpossible, AttemptCancel, AttemptRead,
         AttemptNoStock, AttemptSend, Finish, Crash, vars

-----------------------------------------------------------------------------
(* The row of an order that is not cancelled mirrors the ERP.              *)

\* The types the argument about one order needs.
LEMMA MirrorTypes ==
    ASSUME TypeOK
    PROVE  /\ status \in [Orders -> RowStatuses] /\ extId \in [Orders -> Nat]
           /\ sentCount \in [Orders -> Nat]
           /\ known \in [Orders -> SUBSET Versions] /\ live \in [Orders -> SUBSET Versions]
           /\ phase \in [Dispatchers -> Phases]
           /\ batch \in [Dispatchers -> SUBSET Orders]
           /\ resend \in [Dispatchers -> SUBSET Orders]
           /\ cur \in [Dispatchers -> Orders \cup {None}]
           /\ active \in [Dispatchers -> Nat]
           /\ next \in [Dispatchers -> RowStatuses]
BY DEF TypeOK

\* What holds of an order stays while its row, its ERP orders and the attempts
\* of the calls that work on it do not change.
LEMMA MirrorFrame ==
    ASSUME NEW o \in Orders, Mirrored(o),
           status'[o] = status[o], extId'[o] = extId[o], sentCount'[o] = sentCount[o],
           known'[o] = known[o], live'[o] = live[o],
           \A d \in Dispatchers :
              \/ batch'[d] = {} /\ cur'[d] # o
              \/ /\ (o \in batch'[d] \ resend'[d]) => (o \in batch[d] \ resend[d])
                 /\ cur'[d] # o
              \/ /\ batch'[d] = batch[d] /\ resend'[d] = resend[d] /\ cur'[d] = cur[d]
                 /\ phase'[d] = phase[d] /\ active'[d] = active[d] /\ next'[d] = next[d]
    PROVE  Mirrored(o)'
<1>1. Recorded(o)'
  BY DEF Mirrored, Recorded, NextKey
<1>2. ASSUME NEW d \in Dispatchers PROVE Attempt(d, o)'
  BY DEF Mirrored, Attempt, NextKey
<1>3. QED
  BY <1>1, <1>2 DEF Mirrored

\* Only a running cancel of the order itself could break this.
LEMMA MirrorStep ==
    ASSUME TypeOK, Ownership, [Next]_vars,
           NEW o \in Orders, ~CancelCall(o), ~CancelMark(o), Mirrored(o)
    PROVE  Mirrored(o)'
<1>0. /\ status \in [Orders -> RowStatuses] /\ extId \in [Orders -> Nat]
      /\ sentCount \in [Orders -> Nat]
      /\ known \in [Orders -> SUBSET Versions] /\ live \in [Orders -> SUBSET Versions]
      /\ phase \in [Dispatchers -> Phases]
      /\ batch \in [Dispatchers -> SUBSET Orders]
      /\ resend \in [Dispatchers -> SUBSET Orders]
      /\ cur \in [Dispatchers -> Orders \cup {None}]
      /\ active \in [Dispatchers -> Nat]
      /\ next \in [Dispatchers -> RowStatuses]
  BY MirrorTypes
<1>1. CASE UNCHANGED <<status, extId, sentCount, known, live, workerVars>>
  BY <1>1, MirrorFrame
<1>2. ASSUME NEW p \in Orders, Checkout(p) \/ Edit(p) \/ PaidByGateway(p)
                               \/ AskResend(p) \/ CancelOrder(p)
                               \/ ResendRead(p) \/ RequestFails(p) \/ CancelRead(p)
                               \/ BackoffElapses(p)
      PROVE  Mirrored(o)'
  BY <1>1, <1>2 DEF Checkout, Edit, PaidByGateway, AskResend, CancelOrder, ResendRead,
                    RequestFails, CancelRead, BackoffElapses
<1>3. ASSUME NEW p \in Orders, CancelCall(p) PROVE Mirrored(o)'
  <2>1. p # o
    BY <1>3
  <2>2. PICK outcome \in Outcomes : ErpCancel(p, cExt[p], outcome)
    BY <1>3 DEF CancelCall
  <2>3. live'[o] = live[o] /\ known' = known
    BY <1>0, <2>1, <2>2, ErpCancelEffect
  <2>4. UNCHANGED <<status, extId, sentCount, workerVars>>
    BY <1>3 DEF CancelCall
  <2>5. QED
    BY <2>3, <2>4, MirrorFrame
<1>4. ASSUME NEW p \in Orders, CancelMark(p) PROVE Mirrored(o)'
  <2>1. p # o
    BY <1>4
  <2>2. status'[o] = status[o] /\ extId'[o] = extId[o]
    BY <1>0, <1>4, <2>1 DEF CancelMark
  <2>3. UNCHANGED <<sentCount, known, live, workerVars>>
    BY <1>4 DEF CancelMark
  <2>4. QED
    BY <2>2, <2>3, MirrorFrame
\* A dispatch call starts, or stops: its attempt is gone.
<1>5. ASSUME NEW d \in Dispatchers, NEW ph, Between(d, ph, {}, {})
      PROVE  \A e \in Dispatchers :
                \/ batch'[e] = {} /\ cur'[e] # o
                \/ /\ batch'[e] = batch[e] /\ resend'[e] = resend[e] /\ cur'[e] = cur[e]
                   /\ phase'[e] = phase[e] /\ active'[e] = active[e] /\ next'[e] = next[e]
  BY <1>0, <1>5 DEF Between
<1>6. ASSUME NEW d \in Dispatchers, OtherTrigger(d) \/ Crash(d) PROVE Mirrored(o)'
  <2>1. UNCHANGED <<status, extId, sentCount, known, live>>
    BY <1>6 DEF OtherTrigger, Crash
  <2>2. QED
    BY <1>5, <1>6, <2>1, MirrorFrame DEF OtherTrigger, StartDispatch, Crash
<1>7. ASSUME NEW p \in Orders, NEW d \in Dispatchers, Enqueue(p, d) PROVE Mirrored(o)'
  <2>1. UNCHANGED <<extId, sentCount, known, live>> /\ Between(d, "called", {}, {})
    BY <1>7 DEF Enqueue, InsertRow, StartDispatch
  <2>2. \/ status'[o] = status[o]
        \/ status[o] = "none" /\ status'[o] = "pending"
    BY <1>0, <1>7 DEF Enqueue, InsertRow
  <2>3. CASE status'[o] = status[o]
    BY <1>5, <2>1, <2>3, MirrorFrame
  <2>4. CASE status[o] = "none" /\ status'[o] = "pending"
    <3>1. Recorded(o)'
      BY <2>1, <2>4 DEF Mirrored, Recorded, NextKey
    <3>2. ASSUME NEW e \in Dispatchers PROVE Attempt(e, o)'
      BY <1>5, <2>1 DEF Mirrored, Attempt, NextKey
    <3>3. QED
      BY <3>1, <3>2 DEF Mirrored
  <2>5. QED
    BY <2>2, <2>3, <2>4
<1>8. ASSUME NEW p \in Orders, NEW d \in Dispatchers, ResendMark(p, d) PROVE Mirrored(o)'
  <2>1. UNCHANGED <<extId, sentCount, known, live>> /\ Between(d, "called", {}, {})
    BY <1>8 DEF ResendMark, MarkForResend, StartDispatch
  <2>2. \/ status'[o] = status[o]
        \/ status'[o] = "cancelling"
        \/ extId[o] = 0 /\ status'[o] = "pending"
    BY <1>0, <1>8 DEF ResendMark, MarkForResend
  <2>3. Recorded(o)'
    BY <2>1, <2>2 DEF Mirrored, Recorded, NextKey
  <2>4. ASSUME NEW e \in Dispatchers PROVE Attempt(e, o)'
    BY <1>5, <2>1 DEF Mirrored, Attempt, NextKey
  <2>5. QED
    BY <2>3, <2>4 DEF Mirrored
<1>9. ASSUME NEW d \in Dispatchers, Claim(d) PROVE Mirrored(o)'
  <2>1. PICK rows \in SUBSET Claimable :
           /\ status' = [x \in Orders |-> IF x \in rows THEN "processing" ELSE status[x]]
           /\ Between(d, IF rows = {} THEN "idle" ELSE "next", rows,
                      {x \in rows : status[x] = "cancelling"})
    BY <1>9 DEF Claim
  <2>2. UNCHANGED <<extId, sentCount, known, live>>
    BY <1>9 DEF Claim
  <2>3. status'[o] = status[o] \/ status'[o] = "processing"
    BY <1>0, <2>1
  <2>4. Recorded(o)'
    BY <2>2, <2>3 DEF Mirrored, Recorded, NextKey
  <2>5. Attempt(d, o)'
    <3>1. /\ batch'[d] = rows /\ resend'[d] = {x \in rows : status[x] = "cancelling"}
          /\ cur'[d] # o
      BY <1>0, <2>1 DEF Between
    <3>2. o \in batch'[d] \ resend'[d] => status[o] = "pending"
      BY <3>1 DEF Claimable
    <3>3. status[o] = "pending" => extId[o] = 0
      BY DEF Mirrored, Recorded
    <3>4. QED
      BY <2>2, <3>1, <3>2, <3>3 DEF Attempt
  <2>6. ASSUME NEW e \in Dispatchers \ {d} PROVE Attempt(e, o)'
    <3>1. /\ batch'[e] = batch[e] /\ resend'[e] = resend[e] /\ cur'[e] = cur[e]
          /\ phase'[e] = phase[e] /\ active'[e] = active[e] /\ next'[e] = next[e]
      BY <1>0, <2>1 DEF Between
    <3>2. QED
      BY <2>2, <3>1 DEF Mirrored, Attempt, NextKey
  <2>7. QED
    BY <2>4, <2>5, <2>6 DEF Mirrored
\* From here on a dispatch call d works on its row.  Another order, and the
\* attempts of the other calls, see nothing of it.
<1>10. ASSUME NEW d \in Dispatchers, UNCHANGED <<batch, resend>>,
              \A e \in Dispatchers \ {d} :
                 /\ cur'[e] = cur[e] /\ phase'[e] = phase[e]
                 /\ active'[e] = active[e] /\ next'[e] = next[e],
              UNCHANGED extId, cur'[d] \in batch[d],
              \A e \in Dispatchers \ {d} : phase[e] \in Busy => cur[e] # cur'[d],
              sentCount'[o] = sentCount[o],
              o = cur'[d] => status[o] = "processing" /\ Recorded(o)' /\ Attempt(d, o)',
              o # cur'[d] => live'[o] = live[o] /\ known'[o] = known[o],
              status'[o] = status[o]
       PROVE  Mirrored(o)'
  <2>1. CASE o # cur'[d]
    BY <1>10, <2>1, MirrorFrame
  <2>2. CASE o = cur'[d]
    <3>1. ASSUME NEW e \in Dispatchers \ {d} PROVE Attempt(e, o)'
      BY <1>10, <2>2 DEF Mirrored, Attempt, Busy
    <3>2. QED
      BY <1>10, <2>2, <3>1 DEF Mirrored
  <2>3. QED
    BY <2>1, <2>2
<1>11. ASSUME NEW d \in Dispatchers, NEW p \in batch[d]
       PROVE  /\ status[p] = "processing"
              /\ \A e \in Dispatchers \ {d} :
                    p \notin batch[e] /\ (phase[e] \in Busy => cur[e] # p)
  BY <1>11 DEF Ownership, WorkersDisjoint, Claimed
<1>12. ASSUME NEW d \in Dispatchers, NextRow(d) PROVE Mirrored(o)'
  <2>1. PICK p \in batch[d] :
           /\ cur' = [cur EXCEPT ![d] = p]
           /\ active' = [active EXCEPT ![d] = extId[p]]
           /\ phase' = [phase EXCEPT ![d] =
                 IF p \in resend[d] /\ extId[p] # 0 THEN "cancel" ELSE "read"]
    BY <1>12 DEF NextRow
  <2>2. UNCHANGED <<status, extId, sentCount, known, live, batch, resend, next>>
    BY <1>12 DEF NextRow
  <2>3. ASSUME o = p PROVE Recorded(o)' /\ Attempt(d, o)'
    <3>1. Recorded(o)'
      BY <2>2 DEF Mirrored, Recorded, NextKey
    <3>2. Recorded(o) /\ Attempt(d, o)
      BY DEF Mirrored
    <3>3. o \notin resend[d] => extId[o] = 0
      BY <2>3, <3>2 DEF Attempt
    <3>4. extId[o] = 0 => live[o] \subseteq {NextKey(o)}
      BY <1>0, <3>2 DEF Recorded, Versions
    <3>5. active'[d] = extId[o] /\ cur'[d] = o
          /\ phase'[d] = IF o \in resend[d] /\ extId[o] # 0 THEN "cancel" ELSE "read"
      BY <1>0, <2>1, <2>3
    <3>6. Attempt(d, o)'
      BY <2>2, <3>2, <3>3, <3>4, <3>5 DEF Attempt, NextKey
    <3>7. QED
      BY <3>1, <3>6
  <2>4. cur'[d] = p
    BY <1>0, <2>1
  <2>5. \A e \in Dispatchers \ {d} :
                 /\ cur'[e] = cur[e] /\ phase'[e] = phase[e]
                 /\ active'[e] = active[e] /\ next'[e] = next[e]
    BY <1>0, <2>1, <2>2
  <2>6. QED
    BY <1>10, <1>11, <2>2, <2>3, <2>4, <2>5
<1>13. ASSUME NEW d \in Dispatchers, NextRowImpossible(d) PROVE Mirrored(o)'
  <2>1. PICK p \in batch[d] :
           /\ cur' = [cur EXCEPT ![d] = p]
           /\ active' = [active EXCEPT ![d] = extId[p]]
    BY <1>13 DEF NextRowImpossible
  <2>2. /\ UNCHANGED <<status, extId, sentCount, known, live, batch, resend>>
        /\ phase' = [phase EXCEPT ![d] = "finish"]
        /\ next' = [next EXCEPT ![d] = "failed"]
    BY <1>13 DEF NextRowImpossible
  <2>3. ASSUME o = p PROVE Recorded(o)' /\ Attempt(d, o)'
    <3>1. Recorded(o)'
      BY <2>2 DEF Mirrored, Recorded, NextKey
    <3>2. Recorded(o) /\ Attempt(d, o)
      BY DEF Mirrored
    <3>3. /\ active'[d] = extId[o] /\ cur'[d] = o
          /\ phase'[d] = "finish" /\ next'[d] = "failed"
      BY <1>0, <2>1, <2>2, <2>3
    <3>4. Attempt(d, o)'
      BY <2>2, <3>2, <3>3 DEF Attempt, Recorded, NextKey
    <3>5. QED
      BY <3>1, <3>4
  <2>4. cur'[d] = p
    BY <1>0, <2>1
  <2>5. \A e \in Dispatchers \ {d} :
                 /\ cur'[e] = cur[e] /\ phase'[e] = phase[e]
                 /\ active'[e] = active[e] /\ next'[e] = next[e]
    BY <1>0, <2>1, <2>2
  <2>6. QED
    BY <1>10, <1>11, <2>2, <2>3, <2>4, <2>5
\* What a call d that is in an attempt knows.
<1>14. ASSUME NEW d \in Dispatchers, phase[d] \in Busy
       PROVE  /\ cur[d] \in batch[d] /\ cur[d] \in Orders /\ status[cur[d]] = "processing"
              /\ \A e \in Dispatchers \ {d} :
                    cur[d] \notin batch[e] /\ (phase[e] \in Busy => cur[e] # cur[d])
  BY <1>0, <1>11, <1>14 DEF Ownership, Claimed
\* A failed attempt in which active and live relate as Attempt wants them.
<1>15. ASSUME NEW d \in Dispatchers, NEW refused \in BOOLEAN, Fails(d, refused),
              cur' = cur, cur[d] = o
       PROVE  /\ phase'[d] = "finish" /\ active'[d] = active[d]
              /\ next'[d] \in {"pending", "cancelling", "failed"}
              /\ next'[d] = "pending" => active[d] = 0
  BY <1>0, <1>15 DEF Fails, Failure
<1>16. ASSUME NEW d \in Dispatchers, AttemptCancel(d) PROVE Mirrored(o)'
  <2>1. PICK outcome \in Outcomes :
           /\ ErpCancel(cur[d], active[d], outcome)
           /\ IF outcome = "ok"
              THEN /\ phase' = [phase EXCEPT ![d] = "read"]
                   /\ active' = [active EXCEPT ![d] = 0]
                   /\ UNCHANGED next
              ELSE Fails(d, outcome = "refused")
    BY <1>16 DEF AttemptCancel
  <2>2. /\ phase[d] = "cancel"
        /\ UNCHANGED <<status, extId, sentCount, batch, resend, cur>>
    BY <1>16 DEF AttemptCancel
  <2>3. /\ cur[d] \in batch[d] /\ cur[d] \in Orders /\ status[cur[d]] = "processing"
        /\ \A e \in Dispatchers \ {d} :
              cur[d] \notin batch[e] /\ (phase[e] \in Busy => cur[e] # cur[d])
    BY <1>14, <2>2 DEF Busy
  <2>4. /\ known' = known
        /\ \A p \in Orders \ {cur[d]} : live'[p] = live[p]
        /\ live'[cur[d]] = live[cur[d]] \/ live'[cur[d]] = live[cur[d]] \ {active[d]}
        /\ outcome = "ok" => live'[cur[d]] = live[cur[d]] \ {active[d]}
    BY <1>0, <2>1, <2>3, ErpCancelEffect
  <2>5. \A e \in Dispatchers \ {d} :
           /\ phase'[e] = phase[e] /\ active'[e] = active[e] /\ next'[e] = next[e]
    BY <1>0, <2>1 DEF Fails
  <2>6. ASSUME o = cur[d] PROVE Recorded(o)' /\ Attempt(d, o)'
    <3>1. Recorded(o) /\ Attempt(d, o)
      BY DEF Mirrored
    <3>2. active[d] = extId[o] /\ extId[o] < NextKey(o)
      BY <2>2, <2>6, <3>1 DEF Attempt, Recorded
    <3>3. Recorded(o)'
      <4>1. live'[o] = live[o] \/ live'[o] = live[o] \ {extId[o]}
        BY <2>4, <2>6, <3>2
      <4>2. NextKey(o) \in Nat /\ extId[o] \in Nat /\ NextKey(o)' = NextKey(o)
        BY <1>0, <2>2 DEF NextKey
      <4>3. NextKey(o) \in known[o] => live'[o] = {NextKey(o)}
        BY <3>1, <3>2, <4>1, <4>2 DEF Recorded
      <4>4. status[o] = "processing"
        BY <2>3, <2>6
      <4>5. live'[o] \subseteq known[o] /\ live'[o] \subseteq {extId[o], NextKey(o)}
        BY <3>1, <4>1 DEF Recorded
      <4>6. QED
        BY <2>2, <2>4, <3>1, <4>2, <4>3, <4>4, <4>5 DEF Recorded
    <3>4. CASE outcome = "ok"
      <4>1. phase'[d] = "read" /\ active'[d] = 0
        BY <1>0, <2>1, <3>4
      <4>2. live'[o] \subseteq {NextKey(o)}
        BY <2>4, <2>6, <3>1, <3>2, <3>4 DEF Recorded
      <4>3. Attempt(d, o)'
        BY <2>2, <3>1, <4>1, <4>2 DEF Attempt, NextKey
      <4>4. QED
        BY <3>3, <4>3
    <3>5. CASE outcome # "ok"
      <4>1. Fails(d, outcome = "refused")
        BY <2>1, <3>5
      <4>2. /\ phase'[d] = "finish" /\ active'[d] = active[d]
            /\ next'[d] \in {"pending", "cancelling", "failed"}
            /\ next'[d] = "pending" => active[d] = 0
        BY <1>15, <2>2, <2>6, <4>1
      <4>3. live'[o] \subseteq {active'[d], NextKey(o)}
        BY <2>4, <2>6, <3>1, <3>2, <4>2 DEF Recorded
      <4>4. Attempt(d, o)'
        BY <2>2, <3>1, <3>2, <4>2, <4>3 DEF Attempt, NextKey
      <4>5. QED
        BY <3>3, <4>4
    <3>6. QED
      BY <3>4, <3>5
  <2>7. QED
    BY <1>10, <2>2, <2>3, <2>4, <2>5, <2>6
<1>17. ASSUME NEW d \in Dispatchers, AttemptRead(d) PROVE Mirrored(o)'
  <2>1. /\ UNCHANGED <<status, extId, sentCount, known, live, batch, resend, cur, active,
                       next>>
        /\ phase[d] = "read" /\ phase' = [phase EXCEPT ![d] = "send"]
    BY <1>17 DEF AttemptRead
  <2>2. /\ cur[d] \in batch[d] /\ cur[d] \in Orders /\ status[cur[d]] = "processing"
        /\ \A e \in Dispatchers \ {d} :
              cur[d] \notin batch[e] /\ (phase[e] \in Busy => cur[e] # cur[d])
    BY <1>14, <2>1 DEF Busy
  <2>3. /\ phase'[d] = "send"
        /\ \A e \in Dispatchers \ {d} : phase'[e] = phase[e]
    BY <1>0, <2>1
  <2>4. Recorded(o)' /\ Attempt(d, o)'
    BY <2>1, <2>3 DEF Mirrored, Recorded, Attempt, NextKey
  <2>5. QED
    BY <1>10, <2>1, <2>2, <2>3, <2>4
<1>18. ASSUME NEW d \in Dispatchers, AttemptNoStock(d) PROVE Mirrored(o)'
  <2>1. /\ UNCHANGED <<status, extId, sentCount, known, live, batch, resend, cur>>
        /\ phase[d] = "send" /\ Fails(d, FALSE)
    BY <1>18 DEF AttemptNoStock
  <2>2. /\ cur[d] \in batch[d] /\ cur[d] \in Orders /\ status[cur[d]] = "processing"
        /\ \A e \in Dispatchers \ {d} :
              cur[d] \notin batch[e] /\ (phase[e] \in Busy => cur[e] # cur[d])
    BY <1>14, <2>1 DEF Busy
  <2>3. \A e \in Dispatchers \ {d} :
           /\ phase'[e] = phase[e] /\ active'[e] = active[e] /\ next'[e] = next[e]
    BY <1>0, <2>1 DEF Fails
  <2>4. Recorded(o)'
    BY <2>1 DEF Mirrored, Recorded, NextKey
  <2>5. ASSUME o = cur[d] PROVE Attempt(d, o)'
    <3>1. Attempt(d, o)
      BY DEF Mirrored
    <3>2. active[d] = 0 /\ live[o] \subseteq {NextKey(o)}
      BY <2>1, <2>5, <3>1 DEF Attempt
    <3>3. /\ phase'[d] = "finish" /\ active'[d] = active[d]
          /\ next'[d] \in {"pending", "cancelling", "failed"}
      BY <1>15, <2>1, <2>5
    <3>4. QED
      BY <2>1, <3>1, <3>2, <3>3 DEF Attempt, NextKey
  <2>6. QED
    BY <1>10, <2>1, <2>2, <2>3, <2>4, <2>5
<1>19. ASSUME NEW d \in Dispatchers, AttemptSend(d) PROVE Mirrored(o)'
  <2>1. PICK outcome \in Outcomes :
           /\ ErpSend(cur[d], NextKey(cur[d]), saw[d], outcome)
           /\ IF outcome = "ok"
              THEN /\ phase' = [phase EXCEPT ![d] = "finish"]
                   /\ next' = [next EXCEPT ![d] = "sent"]
                   /\ active' = [active EXCEPT ![d] = NextKey(cur[d])]
              ELSE Fails(d, outcome = "refused")
    BY <1>19 DEF AttemptSend
  <2>2. /\ phase[d] = "send"
        /\ UNCHANGED <<status, extId, sentCount, batch, resend, cur>>
    BY <1>19 DEF AttemptSend
  <2>3. /\ cur[d] \in batch[d] /\ cur[d] \in Orders /\ status[cur[d]] = "processing"
        /\ \A e \in Dispatchers \ {d} :
              cur[d] \notin batch[e] /\ (phase[e] \in Busy => cur[e] # cur[d])
    BY <1>14, <2>2 DEF Busy
  <2>4. /\ \A p \in Orders \ {cur[d]} : known'[p] = known[p] /\ live'[p] = live[p]
        /\ LET c == cur[d]
               k == NextKey(c)
           IN  \/ /\ k \notin known[c]
                  /\ known'[c] = known[c] \cup {k} /\ live'[c] = live[c] \cup {k}
               \/ /\ k \in known[c] \/ outcome # "ok"
                  /\ known'[c] = known[c] /\ live'[c] = live[c]
    <3>1. NextKey(cur[d]) \in Versions
      BY <1>0, <2>3 DEF NextKey, Versions
    <3>2. saw[d] \in Nat /\ held \in [Orders -> Nat]
      BY DEF TypeOK
    <3>3. QED
      BY <1>0, <2>1, <2>3, <3>1, <3>2, ErpSendEffect
  <2>5. \A e \in Dispatchers \ {d} :
           /\ phase'[e] = phase[e] /\ active'[e] = active[e] /\ next'[e] = next[e]
    BY <1>0, <2>1 DEF Fails
  <2>6. ASSUME o = cur[d] PROVE Recorded(o)' /\ Attempt(d, o)'
    <3>1. Recorded(o) /\ Attempt(d, o)
      BY DEF Mirrored
    <3>2. active[d] = 0 /\ live[o] \subseteq {NextKey(o)}
      BY <2>2, <2>6, <3>1 DEF Attempt
    <3>3. /\ NextKey(o) \in Nat \ {0} /\ NextKey(o)' = NextKey(o)
          /\ extId'[o] = extId[o] /\ status'[o] = "processing"
      BY <1>0, <2>2, <2>3, <2>6 DEF NextKey
    <3>4. /\ live'[o] \subseteq {NextKey(o)} /\ live'[o] \subseteq known'[o]
          /\ known'[o] \subseteq 1 .. NextKey(o)
          /\ NextKey(o) \in known'[o] => live'[o] = {NextKey(o)}
          /\ outcome = "ok" => live'[o] = {NextKey(o)}
      <4>1. CASE /\ NextKey(o) \notin known[o]
                 /\ known'[o] = known[o] \cup {NextKey(o)}
                 /\ live'[o] = live[o] \cup {NextKey(o)}
        BY <3>1, <3>2, <3>3, <4>1 DEF Recorded
      <4>2. CASE /\ NextKey(o) \in known[o] \/ outcome # "ok"
                 /\ known'[o] = known[o] /\ live'[o] = live[o]
        BY <3>1, <3>2, <3>3, <4>2 DEF Recorded
      <4>3. QED
        BY <2>4, <2>6, <4>1, <4>2
    <3>5. Recorded(o)'
      BY <3>1, <3>3, <3>4 DEF Recorded
    <3>6. CASE outcome = "ok"
      <4>1. phase'[d] = "finish" /\ next'[d] = "sent" /\ active'[d] = NextKey(o)
        BY <1>0, <2>1, <2>6, <3>6
      <4>2. Attempt(d, o)'
        BY <2>2, <3>1, <3>3, <3>4, <3>6, <4>1 DEF Attempt
      <4>3. QED
        BY <3>5, <4>2
    <3>7. CASE outcome # "ok"
      <4>1. Fails(d, outcome = "refused")
        BY <2>1, <3>7
      <4>2. /\ phase'[d] = "finish" /\ active'[d] = active[d]
            /\ next'[d] \in {"pending", "cancelling", "failed"}
        BY <1>15, <2>2, <2>6, <4>1
      <4>3. Attempt(d, o)'
        BY <2>2, <3>1, <3>2, <3>3, <3>4, <4>2 DEF Attempt
      <4>4. QED
        BY <3>5, <4>3
    <3>8. QED
      BY <3>6, <3>7
  <2>7. QED
    BY <1>10, <2>2, <2>3, <2>4, <2>5, <2>6
<1>20. ASSUME NEW d \in Dispatchers, Finish(d) PROVE Mirrored(o)'
  <2>1. /\ phase[d] = "finish" /\ UNCHANGED <<known, live>>
        /\ status' = [status EXCEPT ![cur[d]] = next[d]]
        /\ extId' = [extId EXCEPT ![cur[d]] = active[d]]
        /\ sentCount' = [sentCount EXCEPT ![cur[d]] = IF next[d] = "sent" THEN @ + 1 ELSE @]
    BY <1>20 DEF Finish
  <2>2. /\ cur[d] \in batch[d] /\ cur[d] \in Orders /\ status[cur[d]] = "processing"
        /\ \A e \in Dispatchers \ {d} :
              cur[d] \notin batch[e] /\ (phase[e] \in Busy => cur[e] # cur[d])
    BY <1>14, <2>1 DEF Busy
  <2>3. /\ batch'[d] = batch[d] \ {cur[d]} /\ resend'[d] = resend[d] \ {cur[d]}
        /\ cur'[d] # o
    BY <1>0, <1>20 DEF Finish, Between
  <2>4. \A e \in Dispatchers \ {d} :
           /\ batch'[e] = batch[e] /\ resend'[e] = resend[e] /\ cur'[e] = cur[e]
           /\ phase'[e] = phase[e] /\ active'[e] = active[e] /\ next'[e] = next[e]
    BY <1>0, <1>20 DEF Finish, Between
  <2>5. CASE o # cur[d]
    <3>1. status'[o] = status[o] /\ extId'[o] = extId[o] /\ sentCount'[o] = sentCount[o]
      BY <1>0, <2>1, <2>5
    <3>2. (o \in batch'[d] \ resend'[d]) => (o \in batch[d] \ resend[d])
      BY <2>3
    <3>3. QED
      BY <2>1, <2>3, <2>4, <3>1, <3>2, MirrorFrame
  <2>6. CASE o = cur[d]
    <3>1. Recorded(o) /\ Attempt(d, o)
      BY DEF Mirrored
    <3>2. /\ status'[o] = next[d] /\ extId'[o] = active[d]
          /\ sentCount'[o] = IF next[d] = "sent" THEN sentCount[o] + 1 ELSE sentCount[o]
      BY <1>0, <2>1, <2>6
    <3>3. Recorded(o)'
      <4>1. CASE next[d] = "sent"
        <5>1. active[d] = NextKey(o) /\ live[o] = {NextKey(o)}
          BY <2>1, <2>6, <3>1, <4>1 DEF Attempt
        <5>2. NextKey(o)' = NextKey(o) + 1 /\ NextKey(o) \in Nat
          BY <1>0, <3>2, <4>1 DEF NextKey
        <5>3. QED
          BY <2>1, <3>1, <3>2, <4>1, <5>1, <5>2 DEF Recorded
      <4>2. CASE next[d] # "sent"
        <5>1. /\ next[d] \in {"pending", "cancelling", "failed"}
              /\ active[d] \in {0, extId[o]}
              /\ next[d] = "pending" => active[d] = 0
              /\ live[o] \subseteq {active[d], NextKey(o)}
          BY <2>1, <2>6, <3>1, <4>2 DEF Attempt
        <5>2. NextKey(o)' = NextKey(o) /\ NextKey(o) \in Nat \ {0} /\ extId[o] \in Nat
          BY <1>0, <3>2, <4>2 DEF NextKey
        <5>3. QED
          BY <2>1, <3>1, <3>2, <4>2, <5>1, <5>2 DEF Recorded
      <4>3. QED
        BY <4>1, <4>2
    <3>4. Attempt(d, o)'
      BY <2>3, <2>6 DEF Attempt
    <3>5. ASSUME NEW e \in Dispatchers \ {d} PROVE Attempt(e, o)'
      BY <2>2, <2>4, <2>6 DEF Attempt, Busy
    <3>6. QED
      BY <3>3, <3>4, <3>5 DEF Mirrored
  <2>7. QED
    BY <2>5, <2>6
<1>21. CASE UNCHANGED vars
  BY <1>1, <1>21 DEF vars
<1>22. QED
  BY <1>2, <1>3, <1>4, <1>6, <1>7, <1>8, <1>9, <1>12, <1>13, <1>16, <1>17, <1>18, <1>19,
     <1>20, <1>21 DEF Next, RequestStep, CancellerStep, WorkerStep

LEMMA SentStep ==
    ASSUME TypeOK, Ownership, [Next]_vars,
           NEW o \in Orders, ~CancelCall(o), ~CancelMark(o), Mirrored(o), SentAlive(o)
    PROVE  SentAlive(o)'
<1>0. /\ status \in [Orders -> RowStatuses] /\ extId \in [Orders -> Nat]
      /\ sentCount \in [Orders -> Nat] /\ saw \in [Dispatchers -> Nat]
      /\ held \in [Orders -> Nat]
      /\ known \in [Orders -> SUBSET Versions] /\ live \in [Orders -> SUBSET Versions]
  BY DEF TypeOK
<1>1. CASE status'[o] = status[o] /\ extId'[o] = extId[o] /\ live'[o] = live[o]
  BY <1>1 DEF SentAlive
<1>2. CASE status'[o] # "sent"
  BY <1>2 DEF SentAlive
<1>3. ASSUME NEW p \in Orders, CancelCall(p) PROVE SentAlive(o)'
  <2>1. PICK outcome \in Outcomes : ErpCancel(p, cExt[p], outcome)
    BY <1>3 DEF CancelCall
  <2>2. p # o /\ UNCHANGED <<status, extId>>
    BY <1>3 DEF CancelCall
  <2>3. live'[o] = live[o]
    BY <1>0, <2>1, <2>2, ErpCancelEffect
  <2>4. QED
    BY <1>1, <2>2, <2>3
<1>4. ASSUME NEW p \in Orders, CancelMark(p) PROVE SentAlive(o)'
  BY <1>0, <1>1, <1>4 DEF CancelMark
<1>5. ASSUME NEW p \in Orders, NEW d \in Dispatchers, Enqueue(p, d) \/ ResendMark(p, d)
      PROVE  SentAlive(o)'
  <2>1. UNCHANGED <<extId, live>>
    BY <1>5 DEF Enqueue, ResendMark, InsertRow, MarkForResend
  <2>2. status'[o] = status[o] \/ status'[o] \in {"pending", "cancelling"}
    BY <1>0, <1>5 DEF Enqueue, ResendMark, InsertRow, MarkForResend
  <2>3. QED
    BY <1>1, <1>2, <2>1, <2>2
<1>6. ASSUME NEW d \in Dispatchers, Claim(d) PROVE SentAlive(o)'
  <2>1. UNCHANGED <<extId, live>>
    BY <1>6 DEF Claim
  <2>2. status'[o] = status[o] \/ status'[o] = "processing"
    BY <1>0, <1>6 DEF Claim
  <2>3. QED
    BY <1>1, <1>2, <2>1, <2>2
\* A row in an attempt is 'processing', so the attempt's calls say nothing here.
<1>7. ASSUME NEW d \in Dispatchers, phase[d] \in Busy
      PROVE  cur[d] \in Orders /\ status[cur[d]] = "processing"
  BY <1>7 DEF TypeOK, Ownership, Claimed
<1>8. ASSUME NEW d \in Dispatchers, AttemptCancel(d) PROVE SentAlive(o)'
  <2>1. PICK outcome \in Outcomes : ErpCancel(cur[d], active[d], outcome)
    BY <1>8 DEF AttemptCancel
  <2>2. cur[d] \in Orders /\ status[cur[d]] = "processing" /\ UNCHANGED <<status, extId>>
    BY <1>7, <1>8 DEF AttemptCancel, Busy
  <2>3. CASE o = cur[d]
    BY <1>2, <2>2, <2>3
  <2>4. CASE o # cur[d]
    <3>1. live'[o] = live[o]
      BY <1>0, <2>1, <2>2, <2>4, ErpCancelEffect
    <3>2. QED
      BY <1>1, <2>2, <3>1
  <2>5. QED
    BY <2>3, <2>4
<1>9. ASSUME NEW d \in Dispatchers, AttemptSend(d) PROVE SentAlive(o)'
  <2>1. PICK outcome \in Outcomes :
           ErpSend(cur[d], NextKey(cur[d]), saw[d], outcome)
    BY <1>9 DEF AttemptSend
  <2>2. cur[d] \in Orders /\ status[cur[d]] = "processing" /\ UNCHANGED <<status, extId>>
    BY <1>7, <1>9 DEF AttemptSend, Busy
  <2>3. CASE o = cur[d]
    BY <1>2, <2>2, <2>3
  <2>4. CASE o # cur[d]
    <3>1. NextKey(cur[d]) \in Versions
      BY <1>0, <2>2 DEF NextKey, Versions
    <3>2. live'[o] = live[o]
      BY <1>0, <2>1, <2>2, <2>4, <3>1, ErpSendEffect
    <3>3. QED
      BY <1>1, <2>2, <3>2
  <2>5. QED
    BY <2>3, <2>4
<1>10. ASSUME NEW d \in Dispatchers, Finish(d) PROVE SentAlive(o)'
  <2>1. /\ phase[d] = "finish" /\ UNCHANGED live
        /\ status' = [status EXCEPT ![cur[d]] = next[d]]
        /\ extId' = [extId EXCEPT ![cur[d]] = active[d]]
    BY <1>10 DEF Finish
  <2>2. CASE o = cur[d]
    <3>1. Attempt(d, o)
      BY DEF Mirrored
    <3>2. next[d] = "sent" => live[o] = {active[d]}
      BY <2>1, <2>2, <3>1 DEF Attempt
    <3>3. status'[o] = next[d] /\ extId'[o] = active[d]
      BY <1>0, <2>1, <2>2
    <3>4. QED
      BY <2>1, <3>2, <3>3 DEF SentAlive
  <2>3. CASE o # cur[d]
    <3>1. status'[o] = status[o] /\ extId'[o] = extId[o]
      BY <1>0, <2>1, <2>3
    <3>2. QED
      BY <1>1, <2>1, <3>1
  <2>4. QED
    BY <2>2, <2>3
<1>11. CASE UNCHANGED <<status, extId, live>>
  BY <1>1, <1>11
<1>12. QED
  BY <1>3, <1>4, <1>5, <1>6, <1>8, <1>9, <1>10, <1>11
     DEF Next, RequestStep, CancellerStep, WorkerStep, Checkout, Edit, PaidByGateway,
         AskResend, CancelOrder, ResendRead, RequestFails, CancelRead, BackoffElapses,
         OtherTrigger, NextRow, NextRowImpossible, AttemptRead, AttemptNoStock, Crash,
         vars

\* The inductive invariant.
THEOREM Inductive == Spec => []IInv
<1> DEFINE Mirroring == \A o \in Orders \ cancelled : Mirrored(o) /\ SentAlive(o)
<1>1. Init => Ownership /\ CancelsFollow /\ Mirroring
  <2> SUFFICES ASSUME Init PROVE Ownership /\ CancelsFollow /\ Mirroring
    OBVIOUS
  <2>1. Ownership
    BY DEF Init, Ownership, WorkersDisjoint, Claimed, Busy
  <2>2. CancelsFollow
    BY DEF Init, CancelsFollow
  <2>3. ASSUME NEW o \in Orders PROVE Recorded(o)
    BY DEF Init, Recorded, NextKey
  <2>4. ASSUME NEW o \in Orders, NEW d \in Dispatchers PROVE Attempt(d, o)
    BY DEF Init, Attempt
  <2>5. ASSUME NEW o \in Orders PROVE SentAlive(o)
    BY DEF Init, SentAlive
  <2>6. QED
    BY <2>1, <2>2, <2>3, <2>4, <2>5 DEF Mirrored
<1>2. TypeOK /\ Ownership /\ CancelsFollow /\ Mirroring /\ [Next]_vars => Mirroring'
  <2> SUFFICES ASSUME TypeOK, Ownership, CancelsFollow, Mirroring, [Next]_vars,
                      NEW o \in Orders \ cancelled'
               PROVE  Mirrored(o)' /\ SentAlive(o)'
    OBVIOUS
  <2>1. o \notin cancelled
    BY DEF Next, RequestStep, CancellerStep, WorkerStep, Checkout, Edit, PaidByGateway,
           AskResend, CancelOrder, ResendRead, RequestFails, CancelRead, CancelCall,
           CancelMark, BackoffElapses, Enqueue, ResendMark, OtherTrigger, Claim,
           NextRow, NextRowImpossible, AttemptCancel, AttemptRead, AttemptNoStock,
           AttemptSend, Finish, Crash, vars
  <2>2. ~CancelCall(o) /\ ~CancelMark(o)
    BY <2>1 DEF CancelsFollow, CancelCall, CancelMark
  <2>3. QED
    BY <2>1, <2>2, MirrorStep, SentStep
<1>3. TypeOK /\ Ownership /\ CancelsFollow /\ [Next]_vars => Ownership' /\ CancelsFollow'
  BY OwnershipStep, CancelsFollowStep
<1> HIDE DEF Mirroring
<1>4. QED
  <2>1. IInv <=> TypeOK /\ Ownership /\ CancelsFollow /\ Mirroring
    BY DEF IInv, Mirroring
  <2>2. QED
    BY <1>1, <1>2, <1>3, <2>1, TypeCorrect, PTL DEF Spec

LEMMA MirrorFacts ==
    ASSUME IInv, NEW o \in Orders \ cancelled
    PROVE  /\ \A u, v \in live[o] : u = v
           /\ live[o] \subseteq {extId[o], NextKey(o)}
           /\ status[o] = "sent" => live[o] = {extId[o]}
           /\ NextKey(o) \notin known[o] => NextKey(o) \notin live[o]
<1>1. Recorded(o) /\ SentAlive(o)
  BY DEF IInv, Mirrored
<1>2. extId[o] \in Nat /\ NextKey(o) \in Nat
  BY DEF IInv, TypeOK, NextKey
<1>3. QED
  BY <1>1, <1>2 DEF Recorded, SentAlive

\* Whatever mix of enqueues, edits, resends, failed, refused and unanswered calls
\* and stopped processes an order goes through, the ERP has one live order for it.
THEOREM OneLive == Spec => []OneLiveErpOrder
<1>1. IInv => OneLiveErpOrder
  BY MirrorFacts DEF OneLiveErpOrder
<1>2. QED
  BY <1>1, Inductive, PTL

\* The live ERP order is the one the row names, or the one the next send repeats.
THEOREM Reachable == Spec => []LiveOrderIsReachable
<1>1. IInv => LiveOrderIsReachable
  BY MirrorFacts DEF LiveOrderIsReachable
<1>2. QED
  BY <1>1, Inductive, PTL

\* 'sent' with an external_id means exactly that order is alive at the ERP.
THEOREM SentIsLive == Spec => []SentRowNamesLiveOrder
<1>1. IInv => SentRowNamesLiveOrder
  BY MirrorFacts DEF SentRowNamesLiveOrder
<1>2. QED
  BY <1>1, Inductive, PTL

\* Every step of the queue is, seen from the ERP, the creation of an order under a
\* new version key while none is alive, the cancellation of the one alive, or
\* nothing: OrderPush implements ErpMirror.
THEOREM Implements == Spec => MirrorSpec
<1> USE DEF Tracked
<1>1. Init => Mirror!Init
  BY DEF Init, Mirror!Init
<1>2. IInv /\ [Next]_vars => [Mirror!Next]_(Mirror!vars)
  <2> SUFFICES ASSUME IInv, [Next]_vars PROVE [Mirror!Next]_(Mirror!vars)
    OBVIOUS
  <2> USE DEF Mirror!vars
  <2>0. /\ known \in [Orders -> SUBSET Versions] /\ live \in [Orders -> SUBSET Versions]
        /\ extId \in [Orders -> Nat] /\ sentCount \in [Orders -> Nat]
        /\ Tracked \cap cancelled = {}
    BY DEF IInv, TypeOK
  <2>1. CASE UNCHANGED <<known, live>>
    BY <2>1
  \* One live order of a tracked local order goes.
  <2>2. ASSUME NEW o \in Orders, NEW v, known' = known,
               \A p \in Orders \ {o} : live'[p] = live[p],
               live'[o] = live[o] \/ live'[o] = live[o] \ {v}
        PROVE  [Mirror!Next]_(Mirror!vars)
    <3>1. CASE o \notin Tracked \/ live'[o] = live[o]
      BY <2>2, <3>1
    <3>2. CASE o \in Tracked /\ live'[o] # live[o]
      <4>1. live[o] # {} /\ live'[o] = {}
        <5>1. \A u, w \in live[o] : u = w
          BY <2>0, <3>2, MirrorFacts
        <5>2. v \in live[o] /\ live'[o] = live[o] \ {v}
          BY <2>2, <3>2
        <5>3. QED
          BY <5>1, <5>2
      <4>2. Mirror!Cancel(o)
        BY <2>0, <2>2, <3>2, <4>1 DEF Mirror!Cancel
      <4>3. QED
        BY <3>2, <4>2 DEF Mirror!Next
    <3>3. QED
      BY <3>1, <3>2
  <2>3. ASSUME NEW p \in Orders, CancelCall(p) PROVE [Mirror!Next]_(Mirror!vars)
    <3>1. PICK outcome \in Outcomes : ErpCancel(p, cExt[p], outcome)
      BY <2>3 DEF CancelCall
    <3>2. QED
      BY <2>0, <2>2, <3>1, ErpCancelEffect
  <2>4. ASSUME NEW d \in Dispatchers, phase[d] \in {"cancel", "send"}
        PROVE  cur[d] \in Orders
    BY <2>4 DEF IInv, TypeOK, Busy
  <2>5. ASSUME NEW d \in Dispatchers, AttemptCancel(d)
        PROVE  [Mirror!Next]_(Mirror!vars)
    <3>1. PICK outcome \in Outcomes : ErpCancel(cur[d], active[d], outcome)
      BY <2>5 DEF AttemptCancel
    <3>2. cur[d] \in Orders
      BY <2>4, <2>5 DEF AttemptCancel
    <3>3. QED
      BY <2>0, <2>2, <3>1, <3>2, ErpCancelEffect
  <2>6. ASSUME NEW d \in Dispatchers, AttemptSend(d)
        PROVE  [Mirror!Next]_(Mirror!vars)
    <3>1. PICK c \in Orders : c = cur[d]
      BY <2>4, <2>6 DEF AttemptSend
    <3>2. PICK k \in Versions : k = NextKey(c)
      BY <2>0 DEF NextKey, Versions
    <3>3. /\ known' \in [Orders -> SUBSET Versions]
          /\ live' \in [Orders -> SUBSET Versions]
          /\ \A p \in Orders \ {c} : known'[p] = known[p] /\ live'[p] = live[p]
          /\ \/ /\ k \notin known[c]
                /\ known'[c] = known[c] \cup {k} /\ live'[c] = live[c] \cup {k}
             \/ /\ known'[c] = known[c] /\ live'[c] = live[c]
      <4>1. PICK outcome \in Outcomes : ErpSend(c, k, saw[d], outcome)
        BY <2>6, <3>1, <3>2 DEF AttemptSend
      <4>2. saw[d] \in Nat /\ held \in [Orders -> Nat]
        BY DEF IInv, TypeOK
      <4>3. QED
        BY <2>0, <4>1, <4>2, ErpSendEffect
    <3>4. CASE c \notin Tracked \/ (known'[c] = known[c] /\ live'[c] = live[c])
      BY <3>3, <3>4
    <3>5. ASSUME /\ c \in Tracked /\ k \notin known[c]
                 /\ known'[c] = known[c] \cup {k} /\ live'[c] = live[c] \cup {k}
          PROVE  [Mirror!Next]_(Mirror!vars)
      <4>1. live[c] = {}
        <5>1. phase[d] = "send" /\ cur[d] = c
          BY <2>6, <3>1 DEF AttemptSend
        <5>2. Attempt(d, c) /\ Recorded(c)
          BY <2>0, <3>5 DEF IInv, Mirrored
        <5>3. live[c] \subseteq {k} /\ live[c] \subseteq known[c]
          BY <3>2, <5>1, <5>2 DEF Attempt, Recorded
        <5>4. QED
          BY <3>5, <5>3
      <4>2. live'[c] = {k} /\ known'[c] = known[c] \cup {k}
        BY <3>5, <4>1
      <4>3. /\ [o \in Tracked |-> known'[o]]
                  = [[o \in Tracked |-> known[o]] EXCEPT ![c] = @ \cup {k}]
            /\ [o \in Tracked |-> live'[o]] = [[o \in Tracked |-> live[o]] EXCEPT ![c] = {k}]
        BY <3>3, <3>5, <4>2
      <4>4. Mirror!Create(c)
        BY <3>5, <4>1, <4>2, <4>3 DEF Mirror!Create
      <4>5. QED
        BY <3>5, <4>4 DEF Mirror!Next
    <3>6. QED
      BY <3>3, <3>4, <3>5
  <2>7. QED
    BY <2>1, <2>3, <2>5, <2>6
       DEF Next, RequestStep, CancellerStep, WorkerStep, Checkout, Edit, PaidByGateway,
           AskResend, CancelOrder, ResendRead, RequestFails, CancelRead, CancelMark,
           BackoffElapses, Enqueue, ResendMark, OtherTrigger, Claim, NextRow,
           NextRowImpossible, AttemptRead, AttemptNoStock, Finish, Crash, vars
<1>3. QED
  BY <1>1, <1>2, Inductive, PTL DEF Spec, MirrorSpec, Mirror!Spec
=============================================================================
