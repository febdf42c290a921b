---------------------------- MODULE CheckoutProofs ----------------------------
(***************************************************************************)
(* What holds of the checkout for every number of sessions, orders,        *)
(* clients, items, links and concurrent calls.                             *)
(*                                                                         *)
(* A call acts on what it read before it took its locks.  The proofs rest  *)
(* on the parts of that reading which nothing can make untrue: a row, once *)
(* there, stays; a session with an order never loses it; an order past its *)
(* cart never returns to it (CallOK, Lasting).                             *)
(***************************************************************************)
EXTENDS Checkout, TLAPS

\* What a call read and can still rely on when it commits.
CallOK(r) ==
    /\ r.op = "create" => (r.c = None => r.o = None)
    /\ r.op = "edit" =>
          /\ r.s \in Sessions /\ sStatus[r.s] # "none"
          /\ r.attach => r.c # None
          /\ ~ r.attach /\ r.c # None => r.o # None
          /\ ~ r.attach /\ r.o # None => sOrder[r.s] # None
    /\ r.op \in {"finalize", "checkout", "confirm", "cancel", "paid", "push"} => r.o \in Orders
    /\ r.op \in {"link", "confirm"} => r.s \in Sessions /\ sOrder[r.s] # None
    /\ r.op = "confirm" => r.t # None
    /\ r.op = "paid" => Past(r.o)
    /\ r.o # None => oStatus[r.o] # "none"
    /\ r.o # None /\ r.op \in {"create", "edit"} => joined[r.o] # {}

CallsOK == \A p \in Calls : ~ Idle(p) => CallOK(call[p])

\* The orders of a cart have sessions, those a session points at among them,
\* and a row that is not there has nothing.
Joins ==
    /\ \A o \in Orders :
        /\ oStatus[o] = "none" => joined[o] = {} /\ oItems[o] = {} /\ oClient[o] = None
        /\ oStatus[o] \in Cart => joined[o] # {}
        /\ \A s \in joined[o] : sStatus[s] # "none" /\ sOrder[s] # None
    /\ \A s \in Sessions :
        /\ sOrder[s] # None => s \in joined[sOrder[s]]
        /\ sStatus[s] = "none" => sOrder[s] = None
        /\ token[s] # None => sOrder[s] # None

Base == TypeOK /\ CallsOK /\ Joins

\* What no step undoes.
Lasting ==
    /\ \A s \in Sessions :
        /\ sOrder[s] # None => sOrder'[s] # None
        /\ sStatus[s] # "none" => sStatus'[s] # "none"
    /\ \A o \in Orders :
        /\ oStatus[o] # "none" => oStatus'[o] # "none"
        /\ Past(o) => Past(o)'
        /\ joined[o] \subseteq joined'[o]

-----------------------------------------------------------------------------
USE NoneAssumption, BoundAssumption
USE DEF sessionVars, orderVars, history, Live, SessionStatuses, Cart, OrderStatuses

(* The shape of a step: what a call that begins may have read.              *)

Opened(p) ==
    \E r \in CallRecords :
        /\ Idle(p) /\ call' = [call EXCEPT ![p] = r] /\ begun' = begun + 1
        /\ UNCHANGED <<sessionVars, orderVars, history>>
        /\ CallOK(r) /\ r.op # "push"
        /\ r.op = "create" /\ r.online /\ r.c # None =>
              ~ ClientLocked(r.c) /\ LiveSessions(r.c) = {}

LEMMA BlankIsCall == Blank \in CallRecords
BY DEF Blank, CallRecords, Ops

LEMMA FoundIsOpen ==
    ASSUME Base, NEW c \in Clients \cup {None}, NEW o \in FoundOrNew(c)
    PROVE  /\ o \in Orders \cup {None}
           /\ c = None => o = None
           /\ o # None => oStatus[o] # "none" /\ joined[o] # {}
BY DEF Base, TypeOK, Joins, FoundOrNew, OpenOrders

LEMMA DecidedIsCall ==
    ASSUME NEW e \in CallRecords, NEW o \in Orders \cup {None}, NEW a \in BOOLEAN
    PROVE  [e EXCEPT !.o = o, !.attach = a] \in CallRecords
BY DEF CallRecords

LEMMA EditForm ==
    ASSUME NEW s \in Sessions, NEW byClient \in BOOLEAN, NEW c \in Clients \cup {None},
           NEW to \in SessionStatuses \cup {None}, NEW d \in Deltas, NEW e,
           e = Edit(s, byClient, c, to, d)
    PROVE  /\ e \in CallRecords /\ e.op = "edit" /\ e.s \in Sessions
           /\ e.c \in Clients \cup {None}
<1>1. d[1] \in SUBSET Items /\ d[2] \in SUBSET Items
  BY DEF Deltas
<1> QED
  BY <1>1 DEF Edit, CallRecords, Ops, Blank

LEMMA BeginOpens ==
    ASSUME Base, NEW p \in Calls, Begin(p)
    PROVE  \/ Opened(p)
           \/ \E c \in Clients, o \in Orders, items \in SUBSET Items :
                 Idle(p) /\ DirectCheckout(p, c, o, items)
<1> USE BlankIsCall
<1>1. CASE \E c \in Clients \cup {None}, online \in BOOLEAN, items \in SUBSET Items :
              \E byClient \in BOOLEAN : BeginCreate(p, c, byClient, online, items)
  <2>1. PICK c \in Clients \cup {None}, byClient \in BOOLEAN, online \in BOOLEAN,
             items \in SUBSET Items :
           BeginCreate(p, c, byClient, online, items)
    BY <1>1
  <2>2. PICK o \in FoundOrNew(c) :
           Open(p, [Blank EXCEPT !.op = "create", !.c = c, !.o = o, !.byClient = byClient,
                                 !.online = online, !.set = items])
    BY <2>1 DEF BeginCreate
  <2> DEFINE r == [Blank EXCEPT !.op = "create", !.c = c, !.o = o, !.byClient = byClient,
                                !.online = online, !.set = items]
  <2>3. /\ o \in Orders \cup {None}
        /\ c = None => o = None
        /\ o # None => oStatus[o] # "none" /\ joined[o] # {}
    BY FoundIsOpen
  <2>4. r \in CallRecords
    BY <2>3 DEF CallRecords, Ops, Blank
  <2>5. CallOK(r) /\ r.op = "create" /\ r.c = c /\ r.online = online
    BY <2>3 DEF CallOK, Blank
  <2>6. online /\ c # None => ~ ClientLocked(c) /\ LiveSessions(c) = {}
    BY <2>1 DEF BeginCreate
  <2> QED
    BY <2>2, <2>4, <2>5, <2>6 DEF Open, Opened, Begin
<1>2. ASSUME NEW s \in Sessions, NEW byClient \in BOOLEAN, NEW c \in Clients \cup {None},
             NEW to \in SessionStatuses \cup {None}, NEW d \in Deltas,
             BeginEdit(p, Edit(s, byClient, c, to, d))
      PROVE  Opened(p)
  <2> DEFINE e == Edit(s, byClient, c, to, d)
  <2>1. BeginEdit(p, e)
    BY <1>2
  <2>2. /\ e \in CallRecords /\ e.op = "edit" /\ e.s \in Sessions
        /\ e.c \in Clients \cup {None}
    BY <1>2, EditForm
  <2> HIDE DEF e
  <2> DEFINE attach == sOrder[e.s] = None /\ e.c # None
  <2>3. PICK o \in IF attach THEN FoundOrNew(e.c) ELSE {sOrder[e.s]} :
           Open(p, [e EXCEPT !.o = o, !.attach = attach])
    BY <2>1 DEF BeginEdit
  <2> DEFINE r == [e EXCEPT !.o = o, !.attach = attach]
  <2>4. e.op = "edit" /\ e.s \in Sessions /\ sStatus[e.s] # "none" /\ e.c \in Clients \cup {None}
    BY <2>1, <2>2 DEF BeginEdit
  <2>5. /\ o \in Orders \cup {None}
        /\ o # None => oStatus[o] # "none" /\ joined[o] # {}
    <3>1. CASE attach
      BY <3>1, <2>3, <2>4, FoundIsOpen
    <3>2. CASE ~ attach
      BY <3>2, <2>3, <2>4 DEF Base, TypeOK, Joins
    <3> QED
      BY <3>1, <3>2
  <2>6. r \in CallRecords
    <3>1. attach \in BOOLEAN
      OBVIOUS
    <3> QED
      BY <2>2, <2>5, <3>1, DecidedIsCall
  <2>7. ~ attach => o = sOrder[e.s]
    BY <2>3
  <2>8. CallOK(r) /\ r.op = "edit"
    BY <2>2, <2>4, <2>5, <2>7 DEF CallOK, CallRecords
  <2> QED
    BY <2>3, <2>6, <2>8 DEF Open, Opened, Begin
<1>3. CASE \E s \in Sessions :
              BeginFinalize(p, s) \/ BeginCheckout(p, s) \/ BeginLink(p, s) \/ BeginConfirm(p, s)
  <2>1. PICK s \in Sessions :
           BeginFinalize(p, s) \/ BeginCheckout(p, s) \/ BeginLink(p, s) \/ BeginConfirm(p, s)
    BY <1>3
  <2>2. /\ sOrder[s] \in Orders \cup {None} /\ token[s] \in Tokens \cup {None}
        /\ sClient[s] = None <=> sOrder[s] = None
        /\ sOrder[s] # None => oStatus[sOrder[s]] # "none"
    BY DEF Base, TypeOK
  <2>3. CASE BeginFinalize(p, s)
    <3> DEFINE r == [Blank EXCEPT !.op = "finalize", !.s = s, !.o = sOrder[s]]
    <3>1. r \in CallRecords /\ CallOK(r) /\ r.op = "finalize"
      BY <2>2, <2>3 DEF CallRecords, Ops, Blank, CallOK, BeginFinalize
    <3> QED
      BY <3>1, <2>3 DEF BeginFinalize, Open, Opened, Begin
  <2>4. CASE BeginCheckout(p, s)
    <3> DEFINE r == [Blank EXCEPT !.op = "checkout", !.s = s, !.o = sOrder[s]]
    <3>1. r \in CallRecords /\ CallOK(r) /\ r.op = "checkout"
      BY <2>2, <2>4 DEF CallRecords, Ops, Blank, CallOK, BeginCheckout
    <3> QED
      BY <3>1, <2>4 DEF BeginCheckout, Open, Opened, Begin
  <2>5. CASE BeginLink(p, s)
    <3> DEFINE r == [Blank EXCEPT !.op = "link", !.s = s]
    <3>1. r \in CallRecords /\ CallOK(r) /\ r.op = "link"
      BY <2>2, <2>5 DEF CallRecords, Ops, Blank, CallOK, BeginLink
    <3> QED
      BY <3>1, <2>5 DEF BeginLink, Open, Opened, Begin
  <2>6. CASE BeginConfirm(p, s)
    <3> DEFINE r == [Blank EXCEPT !.op = "confirm", !.s = s, !.o = sOrder[s], !.t = token[s]]
    <3>1. sOrder[s] # None
      BY <2>6 DEF BeginConfirm, Base, Joins
    <3>2. r \in CallRecords /\ CallOK(r) /\ r.op = "confirm"
      BY <2>2, <2>6, <3>1 DEF CallRecords, Ops, Blank, CallOK, BeginConfirm
    <3> QED
      BY <3>2, <2>6 DEF BeginConfirm, Open, Opened, Begin
  <2> QED
    BY <2>1, <2>3, <2>4, <2>5, <2>6
<1>4. CASE \E o \in Orders : BeginPaid(p, o) \/ BeginCancel(p, o)
  <2>1. PICK o \in Orders : BeginPaid(p, o) \/ BeginCancel(p, o)
    BY <1>4
  <2>2. CASE BeginPaid(p, o)
    <3> DEFINE r == [Blank EXCEPT !.op = "paid", !.o = o]
    <3>1. r \in CallRecords /\ CallOK(r) /\ r.op = "paid"
      BY <2>2 DEF CallRecords, Ops, Blank, CallOK, BeginPaid, Past
    <3> QED
      BY <3>1, <2>2 DEF BeginPaid, Open, Opened, Begin
  <2>3. CASE BeginCancel(p, o)
    <3> DEFINE r == [Blank EXCEPT !.op = "cancel", !.o = o]
    <3>1. r \in CallRecords /\ CallOK(r) /\ r.op = "cancel"
      BY <2>3 DEF CallRecords, Ops, Blank, CallOK, BeginCancel
    <3> QED
      BY <3>1, <2>3 DEF BeginCancel, Open, Opened, Begin
  <2> QED
    BY <2>1, <2>2, <2>3
<1>5. CASE \E s \in Sessions, d \in Deltas, byClient \in BOOLEAN,
              c \in Clients \cup {None}, to \in SessionStatuses \cup {None} :
              BeginEdit(p, Edit(s, byClient, c, to, d))
  BY <1>5, <1>2
<1> QED
  BY <1>1, <1>3, <1>4, <1>5 DEF Begin

\* A call confirms the order it read.
Confirmed(p, o) ==
    /\ ~ Idle(p) /\ call[p].op \in {"finalize", "checkout", "confirm"} /\ o = call[p].o
    /\ oStatus[o] \notin {"none", "pago", "cancelado"}
    /\ call[p].op = "confirm" => LinkHolds(call[p])
    /\ Confirm(p, o)

\* What a call p can do.
Does(p) ==
    \/ Opened(p)
    \/ \E c \in Clients, o \in Orders, items \in SUBSET Items :
          Idle(p) /\ DirectCheckout(p, c, o, items)
    \/ CommitCreate(p) \/ CommitEdit(p) \/ (\E o \in Orders : Confirmed(p, o))
    \/ CommitLink(p) \/ CommitPaid(p) \/ CommitCancel(p)
    \/ Push(p) \/ Stop(p)

LEMMA StepCases ==
    ASSUME Base, Next
    PROVE  \/ \E p \in Calls : Does(p)
           \/ \E c \in Clients : Reconcile(c)
           \/ \E o \in Orders : Separate(o)
<1>1. ASSUME NEW p \in Calls, Begin(p)
      PROVE  Does(p)
  BY <1>1, BeginOpens DEF Does
<1>2. ASSUME NEW p \in Calls, CommitFinalize(p) \/ CommitCheckout(p) \/ CommitConfirm(p)
      PROVE  Does(p)
  <2>1. ~ Idle(p) /\ call[p].op \in {"finalize", "checkout", "confirm"}
    BY <1>2 DEF CommitFinalize, CommitCheckout, CommitConfirm
  <2>2. CallOK(call[p]) /\ call[p].o \in Orders
    BY <2>1 DEF Base, CallsOK, CallOK
  <2>3. call[p].o # None /\ oStatus[call[p].o] # "none"
    BY <2>2 DEF CallOK
  <2>4. Confirmed(p, call[p].o)
    BY <1>2, <2>1, <2>2, <2>3 DEF Confirmed, CommitFinalize, CommitCheckout, CommitConfirm
  <2> QED
    BY <2>2, <2>4 DEF Does
<1> QED
  BY <1>1, <1>2 DEF Next, Does

-----------------------------------------------------------------------------
(* Type correctness, and what a call may rely on.                          *)

LEMMA CallTypes ==
    ASSUME TypeOK, NEW p \in Calls, ~ Idle(p)
    PROVE  /\ call[p] \in CallRecords
           /\ call[p].s \in Sessions \cup {None} /\ call[p].o \in Orders \cup {None}
           /\ call[p].c \in Clients \cup {None} /\ call[p].t \in Tokens \cup {None}
           /\ call[p].to \in SessionStatuses \cup {None}
           /\ call[p].set \in SUBSET Items /\ call[p].del \in SUBSET Items
           /\ call[p].attach \in BOOLEAN /\ call[p].online \in BOOLEAN
BY DEF TypeOK, Idle, CallRecords

LEMMA PushIsCall ==
    ASSUME NEW o \in Orders
    PROVE  /\ [Blank EXCEPT !.o = o] \in CallRecords
           /\ [Blank EXCEPT !.o = o] # None
           /\ [Blank EXCEPT !.o = o].op = "push" /\ [Blank EXCEPT !.o = o].o = o
           /\ ~ [Blank EXCEPT !.o = o].byClient
BY DEF Blank, CallRecords, Ops

LEMMA OpenedEffect ==
    ASSUME TypeOK, NEW p \in Calls, Opened(p)
    PROVE  /\ UNCHANGED <<sessionVars, orderVars, history>>
           /\ begun' \in Nat /\ call' \in [Calls -> CallRecords \cup {None}]
BY DEF TypeOK, Opened

LEMMA CreateTypes ==
    ASSUME Base, NEW p \in Calls, CommitCreate(p)
    PROVE  TypeOK'
<1> DEFINE r == call[p]
<1>1. /\ r.c \in Clients \cup {None} /\ r.o \in Orders \cup {None}
      /\ r.set \in SUBSET Items /\ r.online \in BOOLEAN
  BY CallTypes DEF CommitCreate, Base
<1>2. r.c = None => r.o = None
  BY DEF CommitCreate, Base, CallsOK, CallOK
<1>3. PICK s \in Sessions, o \in IF r.c = None THEN {None} ELSE OrderOf(r) :
        /\ sStatus' = [sStatus EXCEPT ![s] = "aberto"]
        /\ sClient' = [sClient EXCEPT ![s] = r.c]
        /\ sOrder' = [sOrder EXCEPT ![s] = o]
        /\ sOnline' = [sOnline EXCEPT ![s] = r.online]
        /\ sItems' = [sItems EXCEPT ![s] = r.set]
        /\ IF o = None THEN UNCHANGED <<orderVars, late, joined, unsent>>
           ELSE /\ oStatus' = [oStatus EXCEPT ![o] = IF @ = "none" THEN "aberto" ELSE @]
                /\ oClient' = [oClient EXCEPT ![o] = r.c]
                /\ oItems' = [oItems EXCEPT ![o] = Synced(o, {}, r.set)]
                /\ late' = IF Past(o) THEN late \cup {s} ELSE late
                /\ joined' = [joined EXCEPT ![o] = @ \cup {s}]
                /\ unsent' = IF Past(o) /\ ~ r.set \subseteq oItems[o] THEN unsent \cup {o} ELSE unsent
  BY DEF CommitCreate
<1>4. o \in Orders \cup {None} /\ (r.c = None <=> o = None)
  BY <1>1, <1>2, <1>3 DEF OrderOf
<1>5. Synced(o, {}, r.set) \in SUBSET Items \/ o = None
  BY <1>1, <1>4 DEF Base, TypeOK, Synced
<1>6. call' \in [Calls -> CallRecords \cup {None}] /\ begun' = begun
  BY DEF CommitCreate, Return, Base, TypeOK
<1>7. /\ UNCHANGED <<token, issued, revoked, revived, identified, mixed, lost>>
  BY DEF CommitCreate
<1>8. CASE o = None
  BY <1>1, <1>3, <1>4, <1>6, <1>7, <1>8 DEF Base, TypeOK
<1>9. CASE o # None
  BY <1>1, <1>3, <1>4, <1>5, <1>6, <1>7, <1>9 DEF Base, TypeOK
<1> QED
  BY <1>8, <1>9

\* The two outcomes of an edit: without an order, or on order o.
EditAlone(p) ==
    LET r == call[p] IN
    /\ r.o = None /\ ~ r.attach
    /\ mixed' = IF sOrder[r.s] # None /\ r.set \cup r.del # {} THEN mixed \cup {r.s} ELSE mixed
    /\ Return(p)
    /\ UNCHANGED <<sOrder, orderVars, late, joined, unsent>>

EditOrder(p, o, items) ==
    LET r == call[p]
        s == r.s
        changed == r.set \cup r.del # {}
    IN
    /\ r.o # None \/ r.attach
    /\ r.o # None => CanMutate(oStatus[o], r.byClient)
    /\ sOrder' = [sOrder EXCEPT ![s] = o]
    /\ oStatus' = [oStatus EXCEPT ![o] = IF @ = "none" THEN "aberto" ELSE @]
    /\ oClient' = [oClient EXCEPT ![o] = IF @ = None THEN r.c ELSE @]
    /\ oItems' = [oItems EXCEPT ![o] =
                      IF r.attach THEN Synced(o, {}, items)
                      ELSE IF changed THEN Synced(o, sItems[s], items) ELSE @]
    /\ mixed' = IF sOrder[s] # (IF r.attach THEN None ELSE o) THEN mixed \cup {s} ELSE mixed
    /\ late' = IF Past(o) /\ (r.attach \/ sOrder[s] # o) THEN late \cup {s} ELSE late
    /\ joined' = [joined EXCEPT ![o] = @ \cup {s}]
    /\ unsent' = IF Past(o) /\ oItems'[o] # oItems[o] THEN unsent \cup {o} ELSE unsent
    /\ IF changed /\ Past(o) THEN ThenPush(p, o) ELSE Return(p)

LEMMA EditEffect ==
    ASSUME Base, NEW p \in Calls, CommitEdit(p)
    PROVE  \E status \in SessionStatuses, items \in SUBSET Items, s \in Sessions :
              /\ ~ Idle(p) /\ call[p].op = "edit" /\ s = call[p].s
              /\ ~ Refused(sStatus[s], call[p])
              /\ items = (sItems[s] \cup call[p].set) \ call[p].del
              /\ status = IF call[p].to = None THEN sStatus[s] ELSE call[p].to
              /\ sStatus[s] # "none"
              /\ sStatus' = [sStatus EXCEPT ![s] = status]
              /\ sClient' = [sClient EXCEPT ![s] = IF call[p].c = None THEN @ ELSE call[p].c]
              /\ sItems' = [sItems EXCEPT ![s] = items]
              /\ \/ token' = [token EXCEPT ![s] = None]
                    /\ revoked' = IF token[s] # None THEN revoked \cup {token[s]} ELSE revoked
                 \/ token' = token /\ revoked' = revoked
              /\ identified' = IF call[p].c \in {None, sClient[s]} THEN identified ELSE identified \cup {s}
              /\ revived' = IF status \in Live /\ sStatus[s] \notin Live
                            THEN revived \cup {s} ELSE revived
              /\ EditAlone(p) \/ \E o \in OrderOf(call[p]) : EditOrder(p, o, items)
              /\ UNCHANGED <<sOnline, issued, lost>>
<1> DEFINE s == call[p].s
           status == IF call[p].to = None THEN sStatus[s] ELSE call[p].to
           items == (sItems[s] \cup call[p].set) \ call[p].del
<1>1. ~ Idle(p) /\ call[p].op = "edit" /\ s \in Sessions /\ sStatus[s] # "none"
  BY DEF CommitEdit, Base, CallsOK, CallOK
<1>2. status \in SessionStatuses /\ items \in SUBSET Items
  BY <1>1, CallTypes DEF Base, TypeOK
<1>3. EditAlone(p) \/ \E o \in OrderOf(call[p]) : EditOrder(p, o, items)
  BY DEF CommitEdit, EditAlone, EditOrder
<1>4. /\ sStatus' = [sStatus EXCEPT ![s] = status]
      /\ ~ Refused(sStatus[s], call[p])
      /\ sClient' = [sClient EXCEPT ![s] = IF call[p].c = None THEN @ ELSE call[p].c]
      /\ sItems' = [sItems EXCEPT ![s] = items]
      /\ identified' = IF call[p].c \in {None, sClient[s]} THEN identified ELSE identified \cup {s}
      /\ revived' = IF status \in Live /\ sStatus[s] \notin Live
                    THEN revived \cup {s} ELSE revived
      /\ UNCHANGED <<sOnline, issued, lost>>
  BY DEF CommitEdit
<1>5. \/ token' = [token EXCEPT ![s] = None]
         /\ revoked' = IF token[s] # None THEN revoked \cup {token[s]} ELSE revoked
      \/ token' = token /\ revoked' = revoked
  <2>1. token \in [Sessions -> Tokens \cup {None}]
    BY DEF Base, TypeOK
  <2>2. CASE (status = "aberto" /\ sStatus[s] # "aberto") \/ status = "cancelado"
    BY <2>2 DEF CommitEdit
  <2>3. CASE ~ ((status = "aberto" /\ sStatus[s] # "aberto") \/ status = "cancelado")
    BY <2>1, <2>3 DEF CommitEdit
  <2> QED
    BY <2>2, <2>3
<1> QED
  BY <1>1, <1>2, <1>3, <1>4, <1>5

LEMMA EditTypes ==
    ASSUME Base, NEW p \in Calls, CommitEdit(p)
    PROVE  TypeOK'
<1> DEFINE r == call[p]
<1>1. PICK status \in SessionStatuses, items \in SUBSET Items, s \in Sessions :
              /\ ~ Idle(p) /\ call[p].op = "edit" /\ s = call[p].s
              /\ sStatus' = [sStatus EXCEPT ![s] = status]
              /\ sClient' = [sClient EXCEPT ![s] = IF call[p].c = None THEN @ ELSE call[p].c]
              /\ sItems' = [sItems EXCEPT ![s] = items]
              /\ \/ token' = [token EXCEPT ![s] = None]
                    /\ revoked' = IF token[s] # None THEN revoked \cup {token[s]} ELSE revoked
                 \/ token' = token /\ revoked' = revoked
              /\ identified' = IF call[p].c \in {None, sClient[s]} THEN identified ELSE identified \cup {s}
              /\ revived' = IF status \in Live /\ sStatus[s] \notin Live
                            THEN revived \cup {s} ELSE revived
              /\ EditAlone(p) \/ \E o \in OrderOf(call[p]) : EditOrder(p, o, items)
              /\ UNCHANGED <<sOnline, issued, lost>>
  BY EditEffect
<1>2. /\ r \in CallRecords /\ r.o \in Orders \cup {None} /\ r.c \in Clients \cup {None}
      /\ r.set \in SUBSET Items /\ r.attach \in BOOLEAN
  BY <1>1, CallTypes DEF Base
<1>3. /\ r.attach => r.c # None
      /\ ~ r.attach /\ r.c # None => r.o # None
      /\ ~ r.attach /\ r.o # None => sOrder[s] # None
      /\ r.o # None => oStatus[r.o] # "none"
  BY <1>1 DEF Base, CallsOK, CallOK
<1>4. /\ sStatus' \in [Sessions -> SessionStatuses \cup {"none"}]
      /\ sClient' \in [Sessions -> Clients \cup {None}]
      /\ sOnline' \in [Sessions -> BOOLEAN]
      /\ sItems' \in [Sessions -> SUBSET Items]
      /\ token' \in [Sessions -> Tokens \cup {None}]
      /\ issued' \subseteq Tokens /\ revoked' \subseteq Tokens
      /\ revived' \subseteq Sessions /\ identified' \subseteq Sessions
      /\ lost' \subseteq Orders
  BY <1>1, <1>2 DEF Base, TypeOK
<1>5. CASE EditAlone(p)
  <2>1. r.c = None
    BY <1>3, <1>5 DEF EditAlone
  <2>2. sClient' = sClient /\ sOrder' = sOrder
    BY <1>1, <1>5, <2>1 DEF EditAlone, Base, TypeOK
  <2>3. call' \in [Calls -> CallRecords \cup {None}] /\ begun' = begun
    BY <1>5 DEF EditAlone, Return, Base, TypeOK
  <2> QED
    BY <1>1, <1>4, <1>5, <2>2, <2>3 DEF EditAlone, Base, TypeOK
<1>6. ASSUME NEW o \in OrderOf(r), EditOrder(p, o, items)
      PROVE  TypeOK'
  <2>1. o \in Orders
    BY <1>2 DEF OrderOf
  <2>2. call' \in [Calls -> CallRecords \cup {None}] /\ begun' = begun
    BY <1>6, <2>1, PushIsCall DEF EditOrder, Return, ThenPush, Base, TypeOK
  <2>3. /\ oStatus' \in [Orders -> OrderStatuses \cup {"none"}]
        /\ oClient' \in [Orders -> Clients \cup {None}]
        /\ joined' \in [Orders -> SUBSET Sessions]
        /\ unsent' \subseteq Orders
        /\ late' \subseteq Sessions /\ mixed' \subseteq Sessions
    BY <1>2, <1>6, <2>1, <1>1 DEF EditOrder, Base, TypeOK
  <2>4. oItems' \in [Orders -> SUBSET Items]
    <3>1. Synced(o, {}, items) \in SUBSET Items /\ Synced(o, sItems[s], items) \in SUBSET Items
      BY <2>1 DEF Synced, Base, TypeOK
    <3> QED
      BY <1>1, <1>6, <2>1, <3>1 DEF EditOrder, Base, TypeOK
  <2>5. /\ sOrder' = [sOrder EXCEPT ![s] = o] /\ oStatus'[o] # "none"
        /\ \A x \in Orders : oStatus[x] # "none" => oStatus'[x] # "none"
    BY <1>1, <1>6, <2>1 DEF EditOrder, Base, TypeOK
  <2>6. sOrder' \in [Sessions -> Orders \cup {None}]
    BY <2>1, <2>5 DEF Base, TypeOK
  <2>7. \A z \in Sessions : sClient'[z] = None <=> sOrder'[z] = None
    <3>1. r.c = None => sOrder[s] # None
      BY <1>2, <1>3, <1>6 DEF EditOrder
    <3> QED
      BY <1>1, <1>2, <2>1, <2>5, <3>1 DEF Base, TypeOK
  <2>8. \A z \in Sessions : sOrder'[z] # None => oStatus'[sOrder'[z]] # "none"
    BY <2>1, <2>5 DEF Base, TypeOK
  <2> QED
    BY <1>4, <2>2, <2>3, <2>4, <2>6, <2>7, <2>8 DEF Base, TypeOK
<1> QED
  BY <1>1, <1>5, <1>6

LEMMA CloseTypes ==
    ASSUME Base, NEW S \in SUBSET Sessions, NEW status \in SessionStatuses,
           CloseSessions(S, status)
    PROVE  /\ sStatus' \in [Sessions -> SessionStatuses \cup {"none"}]
           /\ token' \in [Sessions -> Tokens \cup {None}]
           /\ revoked' \subseteq Tokens
           /\ \A s \in Sessions : s \notin S => sStatus'[s] = sStatus[s] /\ token'[s] = token[s]
           /\ \A s \in S : sStatus'[s] = status /\ token'[s] = None
           /\ revoked \subseteq revoked'
           /\ \A t \in revoked' : t \in revoked \/ \E s \in S : token[s] = t
BY DEF CloseSessions, Base, TypeOK

LEMMA ConfirmTypes ==
    ASSUME Base, NEW p \in Calls, NEW o \in Orders, Confirmed(p, o)
    PROVE  TypeOK'
<1>1. LiveOf(o) \in SUBSET Sessions /\ CloseSessions(LiveOf(o), "fechado")
  BY DEF LiveOf, Confirmed, Confirm
<1>2. call' \in [Calls -> CallRecords \cup {None}] /\ begun' = begun
  BY PushIsCall DEF Confirmed, Confirm, ThenPush, Base, TypeOK
<1>3. oStatus' \in [Orders -> OrderStatuses \cup {"none"}] /\ unsent' \subseteq Orders
      /\ \A x \in Orders : oStatus[x] # "none" => oStatus'[x] # "none"
  BY DEF Confirmed, Confirm, Base, TypeOK
<1> QED
  BY <1>1, <1>2, <1>3, CloseTypes DEF Confirmed, Confirm, Base, TypeOK

LEMMA TypeStep ==
    ASSUME Base, [Next]_vars
    PROVE  TypeOK'
<1>1. CASE UNCHANGED vars
  BY <1>1 DEF vars, Base, TypeOK
<1>2. ASSUME NEW p \in Calls, Does(p)
      PROVE  TypeOK'
  <2>1. CASE Opened(p)
    BY <2>1, OpenedEffect DEF Base, TypeOK
  <2>2. ASSUME NEW c \in Clients, NEW o \in Orders, NEW items \in SUBSET Items,
               DirectCheckout(p, c, o, items)
        PROVE  TypeOK'
    BY <2>2, PushIsCall DEF DirectCheckout, Base, TypeOK
  <2>3. CASE CommitCreate(p)
    BY <2>3, CreateTypes
  <2>4. CASE CommitEdit(p)
    BY <2>4, EditTypes
  <2>5. CASE \E o \in Orders : Confirmed(p, o)
    BY <2>5, ConfirmTypes
  <2>6. CASE CommitLink(p)
    <3>1. call[p].s \in Sessions
      BY <2>6 DEF CommitLink, Base, CallsOK, CallOK
    <3>2. call' \in [Calls -> CallRecords \cup {None}] /\ begun' = begun
      BY <2>6 DEF CommitLink, Return, Base, TypeOK
    <3> QED
      BY <2>6, <3>1, <3>2 DEF CommitLink, Base, TypeOK
  <2>7. CASE CommitPaid(p)
    <3>1. call[p].o \in Orders
      BY <2>7 DEF CommitPaid, Base, CallsOK, CallOK
    <3>2. call' \in [Calls -> CallRecords \cup {None}] /\ begun' = begun
      BY <2>7, <3>1, PushIsCall DEF CommitPaid, ThenPush, Base, TypeOK
    <3> QED
      BY <2>7, <3>1, <3>2 DEF CommitPaid, Base, TypeOK
  <2>8. CASE CommitCancel(p)
    <3>1. call[p].o \in Orders
      BY <2>8 DEF CommitCancel, Base, CallsOK, CallOK
    <3>2. call' \in [Calls -> CallRecords \cup {None}] /\ begun' = begun
      BY <2>8 DEF CommitCancel, Return, Base, TypeOK
    <3>3. LiveOf(call[p].o) \in SUBSET Sessions /\ CloseSessions(LiveOf(call[p].o), "cancelado")
      BY <2>8 DEF LiveOf, CommitCancel
    <3> QED
      BY <2>8, <3>1, <3>2, <3>3, CloseTypes DEF CommitCancel, Base, TypeOK
  <2>9. CASE Push(p)
    BY <2>9 DEF Push, Return, Base, TypeOK
  <2>10. CASE Stop(p)
    <3>1. call[p].op = "push" => call[p].o \in Orders
      BY <2>10 DEF Stop, Base, CallsOK, CallOK
    <3> QED
      BY <2>10, <3>1 DEF Stop, Return, Base, TypeOK
  <2> QED
    BY <1>2, <2>1, <2>2, <2>3, <2>4, <2>5, <2>6, <2>7, <2>8, <2>9, <2>10 DEF Does
<1>3. ASSUME NEW c \in Clients, Reconcile(c)
      PROVE  TypeOK'
  <2>1. Stale(c) \in SUBSET Sessions /\ CloseSessions(Stale(c), "fechado")
    BY <1>3 DEF Stale, LiveSessions, Reconcile
  <2> QED
    BY <1>3, <2>1, CloseTypes DEF Reconcile, Base, TypeOK
<1>4. ASSUME NEW o \in Orders, Separate(o)
      PROVE  TypeOK'
  BY <1>4 DEF Separate, Base, TypeOK
<1> QED
  BY <1>1, <1>2, <1>3, <1>4, StepCases

LEMMA LastingStep ==
    ASSUME Base, [Next]_vars
    PROVE  Lasting
<1> USE DEF Past
<1>1. CASE UNCHANGED vars
  BY <1>1 DEF vars, Lasting
<1>2. ASSUME NEW p \in Calls, Does(p)
      PROVE  Lasting
  <2>1. CASE Opened(p)
    BY <2>1 DEF Opened, Lasting
  <2>2. ASSUME NEW c \in Clients, NEW o \in Orders, NEW items \in SUBSET Items,
               DirectCheckout(p, c, o, items)
        PROVE  Lasting
    BY <2>2 DEF DirectCheckout, Lasting, Base, TypeOK
  <2>3. CASE CommitCreate(p)
    <3>1. PICK s \in Sessions, o \in IF call[p].c = None THEN {None} ELSE OrderOf(call[p]) :
            /\ sStatus[s] = "none"
            /\ sStatus' = [sStatus EXCEPT ![s] = "aberto"]
            /\ sOrder' = [sOrder EXCEPT ![s] = o]
            /\ IF o = None THEN UNCHANGED <<orderVars, joined>>
               ELSE /\ oStatus' = [oStatus EXCEPT ![o] = IF @ = "none" THEN "aberto" ELSE @]
                    /\ joined' = [joined EXCEPT ![o] = @ \cup {s}]
      BY <2>3 DEF CommitCreate
    <3>2. o = None \/ o \in Orders
      BY <2>3, CallTypes DEF CommitCreate, Base, OrderOf
    <3>3. sOrder[s] = None
      BY <3>1 DEF Base, Joins
    <3> QED
      BY <3>1, <3>2, <3>3 DEF Lasting, Base, TypeOK
  <2>4. CASE CommitEdit(p)
    <3>1. PICK status \in SessionStatuses, items \in SUBSET Items, s \in Sessions :
            /\ ~ Idle(p) /\ call[p].op = "edit" /\ s = call[p].s
            /\ sStatus' = [sStatus EXCEPT ![s] = status]
            /\ EditAlone(p) \/ \E o \in OrderOf(call[p]) : EditOrder(p, o, items)
      BY <2>4, EditEffect
    <3>2. CASE EditAlone(p)
      BY <3>1, <3>2 DEF EditAlone, Lasting, Base, TypeOK
    <3>3. ASSUME NEW o \in OrderOf(call[p]), EditOrder(p, o, items)
          PROVE  Lasting
      <4>1. o \in Orders
        BY <3>1, CallTypes DEF Base, OrderOf
      <4> QED
        BY <3>1, <3>3, <4>1 DEF EditOrder, Lasting, Base, TypeOK
    <3> QED
      BY <3>1, <3>2, <3>3
  <2>5. ASSUME NEW o \in Orders, Confirmed(p, o)
        PROVE  Lasting
    <3>1. LiveOf(o) \in SUBSET Sessions /\ CloseSessions(LiveOf(o), "fechado")
      BY <2>5 DEF LiveOf, Confirmed, Confirm
    <3> QED
      BY <2>5, <3>1, CloseTypes DEF Confirmed, Confirm, Lasting, Base, TypeOK
  <2>6. CASE CommitLink(p)
    BY <2>6 DEF CommitLink, Lasting, Base, TypeOK
  <2>7. CASE CommitPaid(p)
    BY <2>7 DEF CommitPaid, Lasting, Base, TypeOK
  <2>8. CASE CommitCancel(p)
    <3>1. LiveOf(call[p].o) \in SUBSET Sessions /\ CloseSessions(LiveOf(call[p].o), "cancelado")
      BY <2>8 DEF LiveOf, CommitCancel
    <3> QED
      BY <2>8, <3>1, CloseTypes DEF CommitCancel, Lasting, Base, TypeOK
  <2>9. CASE Push(p) \/ Stop(p)
    BY <2>9 DEF Push, Stop, Lasting, Base, TypeOK
  <2> QED
    BY <1>2, <2>1, <2>2, <2>3, <2>4, <2>5, <2>6, <2>7, <2>8, <2>9 DEF Does
<1>3. ASSUME NEW c \in Clients, Reconcile(c)
      PROVE  Lasting
  <2>1. Stale(c) \in SUBSET Sessions /\ CloseSessions(Stale(c), "fechado")
    BY <1>3 DEF Stale, LiveSessions, Reconcile
  <2> QED
    BY <1>3, <2>1, CloseTypes DEF Reconcile, Lasting, Base, TypeOK
<1>4. ASSUME NEW o \in Orders, Separate(o)
      PROVE  Lasting
  BY <1>4 DEF Separate, Lasting, Base, TypeOK
<1> QED
  BY <1>1, <1>2, <1>3, <1>4, StepCases

\* A step of call p leaves the other calls alone, and p ends, or goes on to
\* hand its order over, or has just begun.
LEMMA CallChange ==
    ASSUME Base, NEW p \in Calls, Does(p)
    PROVE  /\ \A q \in Calls \ {p} : call'[q] = call[q]
           /\ \/ call'[p] = None
              \/ \E o \in Orders : call'[p] = [Blank EXCEPT !.o = o] /\ oStatus'[o] # "none"
              \/ Opened(p)
<1>0. call \in [Calls -> CallRecords \cup {None}] /\ oStatus \in [Orders -> OrderStatuses \cup {"none"}]
  BY DEF Base, TypeOK
<1>1. CASE Opened(p)
  BY <1>0, <1>1 DEF Opened
<1>2. ASSUME NEW c \in Clients, NEW o \in Orders, NEW items \in SUBSET Items,
             DirectCheckout(p, c, o, items)
      PROVE  /\ \A q \in Calls \ {p} : call'[q] = call[q]
             /\ call'[p] = [Blank EXCEPT !.o = o] /\ oStatus'[o] # "none"
  BY <1>0, <1>2 DEF DirectCheckout
<1>3. CASE CommitCreate(p) \/ CommitLink(p) \/ CommitCancel(p) \/ Push(p) \/ Stop(p)
  BY <1>0, <1>3 DEF CommitCreate, CommitLink, CommitCancel, Push, Stop, Return
<1>4. CASE CommitEdit(p)
  <2>1. PICK items \in SUBSET Items :
          /\ ~ Idle(p)
          /\ EditAlone(p) \/ \E o \in OrderOf(call[p]) : EditOrder(p, o, items)
    BY <1>4, EditEffect
  <2>2. ASSUME NEW o \in OrderOf(call[p]), EditOrder(p, o, items)
        PROVE  /\ \A q \in Calls \ {p} : call'[q] = call[q]
               /\ \/ call'[p] = None
                  \/ o \in Orders /\ call'[p] = [Blank EXCEPT !.o = o] /\ oStatus'[o] # "none"
    <3>1. o \in Orders
      BY <2>1, CallTypes DEF Base, OrderOf
    <3> QED
      BY <1>0, <2>2, <3>1 DEF EditOrder, Return, ThenPush
  <2> QED
    BY <1>0, <2>1, <2>2 DEF EditAlone, Return
<1>5. ASSUME NEW o \in Orders, Confirmed(p, o)
      PROVE  /\ \A q \in Calls \ {p} : call'[q] = call[q]
             /\ call'[p] = [Blank EXCEPT !.o = o] /\ oStatus'[o] # "none"
  BY <1>0, <1>5 DEF Confirmed, Confirm, ThenPush
<1>6. CASE CommitPaid(p)
  <2>1. call[p].o \in Orders
    BY <1>6 DEF CommitPaid, Base, CallsOK, CallOK
  <2> QED
    BY <1>0, <1>6, <2>1 DEF CommitPaid, ThenPush
<1> QED
  BY <1>1, <1>2, <1>3, <1>4, <1>5, <1>6 DEF Does

LEMMA CallOKLasts ==
    ASSUME Base, Lasting
    PROVE  \A r \in CallRecords : CallOK(r) => CallOK(r)'
<1> SUFFICES ASSUME NEW r \in CallRecords, CallOK(r)
             PROVE  CallOK(r)'
  OBVIOUS
<1>1. r.s \in Sessions \cup {None} /\ r.o \in Orders \cup {None}
  BY DEF CallRecords
<1>2. r.o # None /\ joined[r.o] # {} => joined'[r.o] # {}
  BY <1>1 DEF Lasting
<1>3. r.op = "paid" => Past(r.o)'
  BY <1>1 DEF Lasting, CallOK
<1> QED
  BY <1>1, <1>2, <1>3 DEF Lasting, CallOK

LEMMA CallsStep ==
    ASSUME Base, [Next]_vars
    PROVE  CallsOK'
<1>1. Lasting /\ \A r \in CallRecords : CallOK(r) => CallOK(r)'
  BY LastingStep, CallOKLasts
<1>2. ASSUME NEW q \in Calls, ~ Idle(q), call'[q] = call[q]
      PROVE  CallOK(call[q])'
  <2>1. call[q] \in CallRecords /\ CallOK(call[q])
    BY <1>2, CallTypes DEF Base, CallsOK
  <2>2. PICK r \in CallRecords : r = call[q]
    BY <2>1
  <2>3. CallOK(r)'
    BY <1>1, <2>1, <2>2
  <2> QED
    BY <1>2, <2>2, <2>3 DEF CallOK
<1>3. CASE UNCHANGED call
  BY <1>2, <1>3 DEF CallsOK, Idle
<1>4. ASSUME NEW p \in Calls, Does(p)
      PROVE  CallsOK'
  <2>1. \A q \in Calls \ {p} : call'[q] = call[q]
    BY <1>4, CallChange
  <2>2. ~ Idle(p)' => CallOK(call[p])'
    <3>1. CASE call'[p] = None
      BY <3>1 DEF Idle
    <3>2. ASSUME NEW o \in Orders, call'[p] = [Blank EXCEPT !.o = o], oStatus'[o] # "none"
          PROVE  CallOK(call[p])'
      BY <3>2 DEF CallOK, Blank
    <3>3. CASE Opened(p)
      <4>1. PICK r \in CallRecords : call'[p] = r /\ CallOK(r)
        BY <3>3 DEF Opened, Base, TypeOK
      <4>2. CallOK(r)'
        BY <1>1, <4>1
      <4> QED
        BY <4>1, <4>2 DEF CallOK
    <3> QED
      BY <1>4, <3>1, <3>2, <3>3, CallChange
  <2> QED
    BY <1>2, <2>1, <2>2 DEF CallsOK, Idle
<1>5. ASSUME \/ \E c \in Clients : Reconcile(c)
             \/ \E o \in Orders : Separate(o)
      PROVE  UNCHANGED call
  BY <1>5 DEF Reconcile, Separate
<1> QED
  BY <1>3, <1>4, <1>5, StepCases DEF vars

-----------------------------------------------------------------------------
(* Sessions and the orders they fill.                                      *)

\* Closing sessions moves no order and no tie.
LEMMA ClosingJoins ==
    ASSUME Base, NEW S \in SUBSET Sessions, NEW status \in SessionStatuses,
           CloseSessions(S, status), \A s \in S : sStatus[s] # "none",
           UNCHANGED <<sOrder, oClient, oItems, joined>>,
           oStatus' \in [Orders -> OrderStatuses \cup {"none"}],
           \A o \in Orders : /\ oStatus'[o] = "none" => oStatus[o] = "none"
                             /\ oStatus'[o] \in Cart => oStatus[o] \in Cart
    PROVE  Joins'
<1>1. \A s \in Sessions : /\ sStatus'[s] = "none" <=> sStatus[s] = "none"
                          /\ token'[s] # None => token[s] # None
  BY CloseTypes
<1> QED
  BY <1>1 DEF Base, TypeOK, Joins

LEMMA JoinsStep ==
    ASSUME Base, [Next]_vars
    PROVE  Joins'
<1> USE DEF Past
<1>0. /\ sStatus \in [Sessions -> SessionStatuses \cup {"none"}]
      /\ sOrder \in [Sessions -> Orders \cup {None}]
      /\ sItems \in [Sessions -> SUBSET Items]
      /\ token \in [Sessions -> Tokens \cup {None}]
      /\ oStatus \in [Orders -> OrderStatuses \cup {"none"}]
      /\ oClient \in [Orders -> Clients \cup {None}]
      /\ oItems \in [Orders -> SUBSET Items]
      /\ joined \in [Orders -> SUBSET Sessions]
      /\ \A s \in Sessions : sOrder[s] # None => oStatus[sOrder[s]] # "none"
      /\ Joins
  BY DEF Base, TypeOK
<1>1. CASE UNCHANGED vars
  BY <1>0, <1>1 DEF vars, Joins
<1>2. ASSUME NEW p \in Calls, Does(p)
      PROVE  Joins'
  <2>1. CASE Opened(p) \/ Push(p) \/ Stop(p)
    BY <1>0, <2>1 DEF Opened, Push, Stop, Joins
  <2>2. ASSUME NEW c \in Clients, NEW o \in Orders, NEW items \in SUBSET Items,
               DirectCheckout(p, c, o, items)
        PROVE  Joins'
    BY <1>0, <2>2 DEF DirectCheckout, Joins
  <2>3. CASE CommitCreate(p)
    <3>1. PICK s \in Sessions, o \in IF call[p].c = None THEN {None} ELSE OrderOf(call[p]) :
            /\ sStatus[s] = "none"
            /\ sStatus' = [sStatus EXCEPT ![s] = "aberto"]
            /\ sOrder' = [sOrder EXCEPT ![s] = o]
            /\ IF o = None THEN UNCHANGED <<orderVars, joined>>
               ELSE /\ oStatus' = [oStatus EXCEPT ![o] = IF @ = "none" THEN "aberto" ELSE @]
                    /\ oClient' = [oClient EXCEPT ![o] = call[p].c]
                    /\ oItems' = [oItems EXCEPT ![o] = Synced(o, {}, call[p].set)]
                    /\ joined' = [joined EXCEPT ![o] = @ \cup {s}]
      BY <2>3 DEF CommitCreate
    <3>2. o = None \/ o \in Orders
      BY <2>3, CallTypes DEF CommitCreate, Base, OrderOf
    <3>3. sOrder[s] = None /\ token' = token /\ token[s] = None
      BY <1>0, <2>3, <3>1 DEF CommitCreate, Joins
    <3> QED
      BY <1>0, <3>1, <3>2, <3>3 DEF Joins
  <2>4. CASE CommitEdit(p)
    <3>1. PICK status \in SessionStatuses, items \in SUBSET Items, s \in Sessions :
            /\ ~ Idle(p) /\ call[p].op = "edit" /\ s = call[p].s
            /\ sStatus[s] # "none"
            /\ sStatus' = [sStatus EXCEPT ![s] = status]
            /\ token' = [token EXCEPT ![s] = None] \/ token' = token
            /\ EditAlone(p) \/ \E o \in OrderOf(call[p]) : EditOrder(p, o, items)
      BY <2>4, EditEffect
    <3>2. CASE EditAlone(p)
      BY <1>0, <3>1, <3>2 DEF EditAlone, Joins
    <3>3. ASSUME NEW o \in OrderOf(call[p]), EditOrder(p, o, items)
          PROVE  Joins'
      <4>1. o \in Orders
        BY <3>1, CallTypes DEF Base, OrderOf
      <4> QED
        BY <1>0, <3>1, <3>3, <4>1 DEF EditOrder, Joins
    <3> QED
      BY <3>1, <3>2, <3>3
  <2>5. ASSUME NEW o \in Orders, Confirmed(p, o)
        PROVE  Joins'
    <3>1. LiveOf(o) \in SUBSET Sessions /\ CloseSessions(LiveOf(o), "fechado")
          /\ \A s \in LiveOf(o) : sStatus[s] # "none"
      BY <2>5 DEF LiveOf, Confirmed, Confirm
    <3>2. /\ oStatus' \in [Orders -> OrderStatuses \cup {"none"}]
          /\ \A x \in Orders : /\ oStatus'[x] = "none" => oStatus[x] = "none"
                               /\ oStatus'[x] \in Cart => oStatus[x] \in Cart
      BY <1>0, <2>5 DEF Confirmed, Confirm
    <3> QED
      BY <2>5, <3>1, <3>2, ClosingJoins DEF Confirmed, Confirm
  <2>6. CASE CommitLink(p)
    <3>1. call[p].s \in Sessions /\ sOrder[call[p].s] # None
      BY <2>6 DEF CommitLink, Base, CallsOK, CallOK
    <3> QED
      BY <1>0, <2>6, <3>1 DEF CommitLink, Joins
  <2>7. CASE CommitPaid(p)
    BY <1>0, <2>7 DEF CommitPaid, Joins
  <2>8. CASE CommitCancel(p)
    <3>1. LiveOf(call[p].o) \in SUBSET Sessions /\ CloseSessions(LiveOf(call[p].o), "cancelado")
          /\ \A s \in LiveOf(call[p].o) : sStatus[s] # "none"
      BY <2>8 DEF LiveOf, CommitCancel
    <3>2. /\ oStatus' \in [Orders -> OrderStatuses \cup {"none"}]
          /\ \A x \in Orders : /\ oStatus'[x] = "none" => oStatus[x] = "none"
                               /\ oStatus'[x] \in Cart => oStatus[x] \in Cart
      BY <1>0, <2>8 DEF CommitCancel
    <3> QED
      BY <2>8, <3>1, <3>2, ClosingJoins DEF CommitCancel
  <2> QED
    BY <1>2, <2>1, <2>2, <2>3, <2>4, <2>5, <2>6, <2>7, <2>8 DEF Does
<1>3. ASSUME NEW c \in Clients, Reconcile(c)
      PROVE  Joins'
  <2>1. Stale(c) \in SUBSET Sessions /\ CloseSessions(Stale(c), "fechado")
        /\ \A s \in Stale(c) : sStatus[s] # "none"
    BY <1>3 DEF Stale, LiveSessions, Reconcile
  <2> QED
    BY <1>0, <1>3, <2>1, ClosingJoins DEF Reconcile
<1>4. ASSUME NEW o \in Orders, Separate(o)
      PROVE  Joins'
  BY <1>0, <1>4 DEF Separate, Joins
<1> QED
  BY <1>1, <1>2, <1>3, <1>4, StepCases

LEMMA BaseInit == Init => Base
BY DEF Init, Base, TypeOK, CallsOK, Idle, Joins

LEMMA BaseStep == Base /\ [Next]_vars => Base'
BY TypeStep, CallsStep, JoinsStep DEF Base

LEMMA BaseInvariant == Spec => []Base
BY BaseInit, BaseStep, PTL DEF Spec

\* Types, over every reachable state; and a session has an order exactly when
\* it has a client, so that the code's self-healing for an order_id that is
\* missing never runs.
THEOREM TypeCorrect == Spec => []TypeOK
<1>1. Base => TypeOK
  BY DEF Base
<1> QED
  BY <1>1, BaseInvariant, PTL

-----------------------------------------------------------------------------
(* The stages of an order.                                                 *)

LEMMA OrderMovesStep ==
    ASSUME Base, [Next]_vars, NEW o \in Orders, oStatus'[o] # oStatus[o]
    PROVE  <<oStatus[o], oStatus'[o]>> \in
            {<<"none", "aberto">>, <<"none", "novo">>, <<"aberto", "novo">>, <<"novo", "separado">>}
            \cup {"novo", "separado", "cancelado"} \X {"pago"}
            \cup {"aberto", "novo", "separado", "pago"} \X {"cancelado"}
<1> DEFINE Goal == <<oStatus[o], oStatus'[o]>> \in
            {<<"none", "aberto">>, <<"none", "novo">>, <<"aberto", "novo">>, <<"novo", "separado">>}
            \cup {"novo", "separado", "cancelado"} \X {"pago"}
            \cup {"aberto", "novo", "separado", "pago"} \X {"cancelado"}
<1>0. oStatus \in [Orders -> OrderStatuses \cup {"none"}]
  BY DEF Base, TypeOK
<1>1. CASE UNCHANGED vars
  BY <1>1 DEF vars
<1>2. ASSUME NEW p \in Calls, Does(p)
      PROVE  Goal
  <2>1. CASE Opened(p) \/ Push(p) \/ Stop(p) \/ CommitLink(p)
    BY <2>1 DEF Opened, Push, Stop, CommitLink
  <2>2. ASSUME NEW c \in Clients, NEW x \in Orders, NEW items \in SUBSET Items,
               DirectCheckout(p, c, x, items)
        PROVE  Goal
    BY <1>0, <2>2 DEF DirectCheckout
  <2>3. CASE CommitCreate(p)
    <3>1. PICK x : \/ UNCHANGED oStatus
                   \/ oStatus' = [oStatus EXCEPT ![x] = IF @ = "none" THEN "aberto" ELSE @]
      BY <2>3 DEF CommitCreate
    <3> QED
      BY <1>0, <3>1
  <2>4. CASE CommitEdit(p)
    <3>1. PICK items \in SUBSET Items :
            EditAlone(p) \/ \E x \in OrderOf(call[p]) : EditOrder(p, x, items)
      BY <2>4, EditEffect
    <3> QED
      BY <1>0, <3>1 DEF EditAlone, EditOrder
  <2>5. ASSUME NEW x \in Orders, Confirmed(p, x)
        PROVE  Goal
    BY <1>0, <2>5 DEF Confirmed, Confirm
  <2>6. CASE CommitPaid(p)
    <3>1. Past(call[p].o)
      BY <2>6 DEF CommitPaid, Base, CallsOK, CallOK
    <3> QED
      BY <1>0, <2>6, <3>1 DEF CommitPaid, Past
  <2>7. CASE CommitCancel(p)
    <3>1. oStatus[call[p].o] # "none"
      BY <2>7 DEF CommitCancel, Base, CallsOK, CallOK
    <3> QED
      BY <1>0, <2>7, <3>1 DEF CommitCancel
  <2> QED
    BY <1>2, <2>1, <2>2, <2>3, <2>4, <2>5, <2>6, <2>7 DEF Does
<1>3. ASSUME NEW c \in Clients, Reconcile(c)
      PROVE  Goal
  BY <1>3 DEF Reconcile
<1>4. ASSUME NEW x \in Orders, Separate(x)
      PROVE  Goal
  BY <1>0, <1>4 DEF Separate
<1> QED
  BY <1>1, <1>2, <1>3, <1>4, StepCases

\* An order moves through its stages only forward, whatever a call read before
\* it committed.
THEOREM OrdersMove == Spec => OrderMoves
<1>1. Base /\ [Next]_vars =>
        \A o \in Orders : oStatus'[o] # oStatus[o] =>
        <<oStatus[o], oStatus'[o]>> \in
            {<<"none", "aberto">>, <<"none", "novo">>, <<"aberto", "novo">>, <<"novo", "separado">>}
            \cup {"novo", "separado", "cancelado"} \X {"pago"}
            \cup {"aberto", "novo", "separado", "pago"} \X {"cancelado"}
  BY OrderMovesStep
<1> QED
  BY <1>1, BaseInvariant, PTL DEF Spec, OrderMoves

\* Call p creates a session of order o, too late, and adds its items.
LateCreation(p, o) ==
    /\ call[p].op = "create" /\ oItems[o] \subseteq oItems'[o]
    /\ \E s \in late' : sStatus[s] = "none" /\ sOrder'[s] = o

LEMMA ClientEditsStep ==
    ASSUME Base, [Next]_vars, NEW o \in Orders, NEW p \in Calls,
           Past(o), oItems'[o] # oItems[o], call'[p] # call[p], call[p].byClient
    PROVE  LateCreation(p, o)
<1>0. oItems \in [Orders -> SUBSET Items] /\ oStatus \in [Orders -> OrderStatuses \cup {"none"}]
  BY DEF Base, TypeOK
<1>1. ASSUME NEW q \in Calls, Does(q)
      PROVE  LateCreation(p, o)
  <2>1. p = q
    BY <1>1, CallChange
  <2>2. CASE \/ Opened(q) \/ Push(q) \/ Stop(q) \/ CommitLink(q) \/ CommitPaid(q)
             \/ CommitCancel(q) \/ \E x \in Orders : Confirmed(q, x)
    BY <2>2 DEF Opened, Push, Stop, CommitLink, CommitPaid, CommitCancel, Confirmed, Confirm
  <2>3. ASSUME NEW c \in Clients, NEW x \in Orders, NEW items \in SUBSET Items,
               DirectCheckout(q, c, x, items)
        PROVE  FALSE
    BY <1>0, <2>3 DEF DirectCheckout, Past
  <2>4. CASE CommitCreate(q)
    <3>1. PICK s \in Sessions, x \in IF call[q].c = None THEN {None} ELSE OrderOf(call[q]) :
            /\ call[q].op = "create" /\ sStatus[s] = "none" /\ sOrder' = [sOrder EXCEPT ![s] = x]
            /\ IF x = None THEN UNCHANGED <<orderVars, late>>
               ELSE /\ oItems' = [oItems EXCEPT ![x] = Synced(x, {}, call[q].set)]
                    /\ late' = IF Past(x) THEN late \cup {s} ELSE late
      BY <2>4 DEF CommitCreate
    <3>2. x = o
      BY <1>0, <3>1
    <3>3. o # None /\ oItems'[o] = Synced(o, {}, call[q].set)
      BY <1>0, <3>1, <3>2
    <3>4. oItems[o] \subseteq oItems'[o]
      BY <3>3 DEF Synced
    <3>5. s \in late' /\ sOrder'[s] = o
      BY <3>1, <3>2, <3>3 DEF Base, TypeOK
    <3> QED
      BY <2>1, <3>1, <3>4, <3>5 DEF LateCreation
  <2>5. CASE CommitEdit(q)
    <3>1. PICK items \in SUBSET Items :
            /\ ~ Idle(q) /\ call[q].op = "edit"
            /\ EditAlone(q) \/ \E x \in OrderOf(call[q]) : EditOrder(q, x, items)
      BY <2>5, EditEffect
    <3>2. PICK x \in OrderOf(call[q]) : EditOrder(q, x, items)
      BY <3>1 DEF EditAlone
    <3>3. x = o
      BY <1>0, <3>2 DEF EditOrder
    <3>4. call[q].o # None => x = call[q].o
      BY DEF OrderOf
    <3>5. call[q].o = None => call[q].attach /\ oStatus[x] = "none"
      BY <3>2 DEF EditOrder, OrderOf
    <3>6. call[q].o # None /\ CanMutate(oStatus[o], call[q].byClient)
      BY <3>2, <3>3, <3>5 DEF EditOrder, Past
    <3> QED
      BY <2>1, <3>6 DEF CanMutate, Past
  <2> QED
    BY <1>1, <2>2, <2>3, <2>4, <2>5 DEF Does
<1>2. CASE UNCHANGED vars \/ (\E c \in Clients : Reconcile(c)) \/ (\E x \in Orders : Separate(x))
  BY <1>2 DEF vars, Reconcile, Separate
<1> QED
  BY <1>1, <1>2, StepCases

\* No edit of the client, however late, changes an order that was confirmed: only a
\* creation that had found it open does, and it adds.
THEOREM ClientsEditOnlyCarts == Spec => ClientEditsOnlyCart
<1>1. Base /\ [Next]_vars =>
        \A o \in Orders, p \in Calls :
            Past(o) /\ oItems'[o] # oItems[o] /\ call'[p] # call[p] /\ call[p].byClient =>
                LateCreation(p, o)
  BY ClientEditsStep
<1> QED
  BY <1>1, BaseInvariant, PTL DEF Spec, ClientEditsOnlyCart, LateCreation

-----------------------------------------------------------------------------
(* Payment links.                                                          *)

\* A link in use was issued, was not taken back, and belongs to one session.
Links ==
    /\ revoked \subseteq issued
    /\ \A s \in Sessions : token[s] # None => token[s] \in issued \ revoked
    /\ \A s, z \in Sessions : token[s] # None /\ token[s] = token[z] => s = z

LEMMA ClosingLinks ==
    ASSUME Base, Links, NEW S \in SUBSET Sessions, NEW status \in SessionStatuses,
           CloseSessions(S, status), issued' = issued
    PROVE  Links'
<1>1. /\ token' = [s \in Sessions |-> IF s \in S THEN None ELSE token[s]]
      /\ revoked' = revoked \cup ({token[s] : s \in S} \ {None})
  BY DEF CloseSessions
<1> QED
  BY <1>1 DEF Links

LEMMA LinksStep ==
    ASSUME Base, Links, [Next]_vars
    PROVE  Links'
<1>0. token \in [Sessions -> Tokens \cup {None}]
  BY DEF Base, TypeOK
<1>1. CASE UNCHANGED <<token, issued, revoked>>
  BY <1>1 DEF Links
<1>2. ASSUME NEW p \in Calls, Does(p)
      PROVE  Links'
  <2>1. CASE Opened(p) \/ Push(p) \/ Stop(p) \/ CommitPaid(p)
             \/ (\E c \in Clients, o \in Orders, items \in SUBSET Items : DirectCheckout(p, c, o, items))
             \/ CommitCreate(p)
    BY <1>1, <2>1 DEF Opened, Push, Stop, CommitPaid, DirectCheckout, CommitCreate
  <2>2. CASE CommitEdit(p)
    <3>1. PICK s \in Sessions :
            /\ issued' = issued
            /\ \/ token' = [token EXCEPT ![s] = None]
                  /\ revoked' = IF token[s] # None THEN revoked \cup {token[s]} ELSE revoked
               \/ token' = token /\ revoked' = revoked
      BY <2>2, EditEffect
    <3> QED
      BY <1>0, <3>1 DEF Links
  <2>3. ASSUME NEW o \in Orders, Confirmed(p, o)
        PROVE  Links'
    BY <2>3, ClosingLinks DEF Confirmed, Confirm, LiveOf
  <2>4. CASE CommitCancel(p)
    BY <2>4, ClosingLinks DEF CommitCancel, LiveOf
  <2>5. CASE CommitLink(p)
    <3>1. PICK t \in Tokens \ issued :
            issued' = issued \cup {t} /\ token' = [token EXCEPT ![call[p].s] = t]
      BY <2>5 DEF CommitLink
    <3>2. call[p].s \in Sessions
      BY <2>5 DEF CommitLink, Base, CallsOK, CallOK
    <3>3. revoked' = IF token[call[p].s] # None THEN revoked \cup {token[call[p].s]} ELSE revoked
      BY <2>5 DEF CommitLink
    <3> QED
      BY <1>0, <3>1, <3>2, <3>3 DEF Links
  <2> QED
    BY <1>2, <2>1, <2>2, <2>3, <2>4, <2>5 DEF Does
<1>3. ASSUME NEW c \in Clients, Reconcile(c)
      PROVE  Links'
  BY <1>3, ClosingLinks DEF Reconcile, Stale, LiveSessions
<1>4. ASSUME NEW o \in Orders, Separate(o)
      PROVE  Links'
  BY <1>1, <1>4 DEF Separate
<1> QED
  BY <1>1, <1>2, <1>3, <1>4, StepCases DEF vars

LEMMA LinksInvariant == Spec => []Links
<1>1. Init => Links
  BY DEF Init, Links
<1>2. Base /\ Links /\ [Next]_vars => Links'
  BY LinksStep
<1> QED
  BY <1>1, <1>2, BaseInvariant, PTL DEF Spec

LEMMA RevokedStep ==
    ASSUME Base, Links, [Next]_vars, NEW p \in Calls, NEW o \in Orders,
           ~ Idle(p), call[p].op = "confirm", oStatus'[o] # oStatus[o], call'[p] # call[p]
    PROVE  call[p].t \notin revoked
<1>1. ASSUME NEW q \in Calls, Does(q)
      PROVE  call[p].t \notin revoked
  <2>1. p = q
    BY <1>1, CallChange
  <2>2. \E x \in Orders : Confirmed(p, x)
    <3>1. ~ CommitCreate(p) /\ ~ CommitLink(p) /\ ~ CommitPaid(p) /\ ~ CommitCancel(p) /\ ~ CommitEdit(p)
      BY DEF CommitCreate, CommitLink, CommitPaid, CommitCancel, CommitEdit
    <3>2. ~ Opened(p) /\ ~ Push(p) /\ ~ Stop(p)
      BY DEF Opened, Push, Stop
    <3> QED
      BY <1>1, <2>1, <3>1, <3>2 DEF Does
  <2>3. LinkHolds(call[p])
    BY <2>2 DEF Confirmed
  <2>4. call[p].s \in Sessions /\ call[p].t # None
    BY DEF Base, CallsOK, CallOK
  <2> QED
    BY <2>3, <2>4 DEF LinkHolds, Links
<1>2. CASE UNCHANGED vars \/ (\E c \in Clients : Reconcile(c)) \/ (\E x \in Orders : Separate(x))
  BY <1>2 DEF vars, Reconcile, Separate
<1> QED
  BY <1>1, <1>2, StepCases

\* A payment link that was taken back confirms nothing, even for a call that
\* read it before it was.
THEOREM RevokedLinksConfirmNothing == Spec => RevokedLinkConfirmsNothing
<1>1. Base /\ Links /\ [Next]_vars =>
        \A p \in Calls, o \in Orders :
            ~ Idle(p) /\ call[p].op = "confirm" /\ oStatus'[o] # oStatus[o] /\ call'[p] # call[p]
                => call[p].t \notin revoked
  BY RevokedStep
<1> QED
  BY <1>1, BaseInvariant, LinksInvariant, PTL DEF Spec, RevokedLinkConfirmsNothing

-----------------------------------------------------------------------------
(* No session is left live on an order that has left the cart.             *)

LEMMA ClosingStrays ==
    ASSUME Base, NoStraySession, NEW S \in SUBSET Sessions,
           NEW status \in {"fechado", "cancelado"}, CloseSessions(S, status),
           UNCHANGED <<sOrder, revived, late>>,
           oStatus' \in [Orders -> OrderStatuses \cup {"none"}],
           \A s \in Sessions : /\ sStatus[s] \in Live /\ sOrder[s] # None
                               /\ Past(sOrder[s])' /\ ~ Past(sOrder[s])
                               => s \in S
    PROVE  NoStraySession'
<1> SUFFICES ASSUME NEW s \in Sessions,
                    sStatus'[s] \in Live, sOrder[s] # None, Past(sOrder[s])'
             PROVE  s \in revived \cup late
  BY DEF NoStraySession, Past
<1>1. s \notin S /\ sStatus'[s] = sStatus[s]
  BY CloseTypes
<1> QED
  BY <1>1 DEF NoStraySession

LEMMA StrayStep ==
    ASSUME Base, NoStraySession, [Next]_vars
    PROVE  NoStraySession'
<1>0. /\ sStatus \in [Sessions -> SessionStatuses \cup {"none"}]
      /\ sOrder \in [Sessions -> Orders \cup {None}]
      /\ oStatus \in [Orders -> OrderStatuses \cup {"none"}]
      /\ \A s \in Sessions : sOrder[s] # None => oStatus[sOrder[s]] # "none"
      /\ \A s \in Sessions : sStatus[s] = "none" => sOrder[s] = None
  BY DEF Base, TypeOK, Joins
<1>1. CASE UNCHANGED <<sStatus, sOrder, oStatus, revived, late>>
  BY <1>1 DEF NoStraySession, Past
<1>2. ASSUME NEW p \in Calls, Does(p)
      PROVE  NoStraySession'
  <2>1. CASE Opened(p) \/ Push(p) \/ Stop(p)
    BY <1>1, <2>1 DEF Opened, Push, Stop
  <2>2. ASSUME NEW c \in Clients, NEW o \in Orders, NEW items \in SUBSET Items,
               DirectCheckout(p, c, o, items)
        PROVE  NoStraySession'
    BY <1>0, <2>2 DEF DirectCheckout, NoStraySession, Past
  <2>3. CASE CommitCreate(p)
    <3>1. PICK s \in Sessions, o \in IF call[p].c = None THEN {None} ELSE OrderOf(call[p]) :
            /\ sStatus[s] = "none"
            /\ sStatus' = [sStatus EXCEPT ![s] = "aberto"]
            /\ sOrder' = [sOrder EXCEPT ![s] = o]
            /\ IF o = None THEN UNCHANGED <<orderVars, late>>
               ELSE /\ oStatus' = [oStatus EXCEPT ![o] = IF @ = "none" THEN "aberto" ELSE @]
                    /\ late' = IF Past(o) THEN late \cup {s} ELSE late
      BY <2>3 DEF CommitCreate
    <3>2. o = None \/ o \in Orders
      BY <2>3, CallTypes DEF CommitCreate, Base, OrderOf
    <3>3. revived' = revived
      BY <2>3 DEF CommitCreate
    <3> QED
      BY <1>0, <3>1, <3>2, <3>3 DEF NoStraySession, Past
  <2>4. CASE CommitEdit(p)
    <3>1. PICK status \in SessionStatuses, items \in SUBSET Items, s \in Sessions :
            /\ ~ Idle(p) /\ call[p].op = "edit" /\ s = call[p].s
            /\ sStatus' = [sStatus EXCEPT ![s] = status]
            /\ revived' = IF status \in Live /\ sStatus[s] \notin Live
                          THEN revived \cup {s} ELSE revived
            /\ EditAlone(p) \/ \E o \in OrderOf(call[p]) : EditOrder(p, o, items)
      BY <2>4, EditEffect
    <3>2. CASE EditAlone(p)
      BY <1>0, <3>1, <3>2 DEF EditAlone, NoStraySession, Past
    <3>3. ASSUME NEW o \in OrderOf(call[p]), EditOrder(p, o, items)
          PROVE  NoStraySession'
      <4>1. o \in Orders
        BY <3>1, CallTypes DEF Base, OrderOf
      <4>2. /\ sOrder' = [sOrder EXCEPT ![s] = o]
            /\ oStatus' = [oStatus EXCEPT ![o] = IF @ = "none" THEN "aberto" ELSE @]
            /\ late \subseteq late' /\ (Past(o) /\ sOrder[s] # o => s \in late')
        BY <3>1, <3>3 DEF EditOrder
      <4> QED
        BY <1>0, <3>1, <4>1, <4>2 DEF NoStraySession, Past
    <3> QED
      BY <3>1, <3>2, <3>3
  <2>5. ASSUME NEW o \in Orders, Confirmed(p, o)
        PROVE  NoStraySession'
    <3>1. /\ LiveOf(o) \in SUBSET Sessions /\ CloseSessions(LiveOf(o), "fechado")
          /\ oStatus' = [oStatus EXCEPT ![o] = IF @ \in Cart THEN "novo" ELSE @]
          /\ UNCHANGED <<sOrder, revived, late>>
      BY <2>5 DEF LiveOf, Confirmed, Confirm
    <3>2. \A s \in Sessions : /\ sStatus[s] \in Live /\ sOrder[s] # None
                              /\ Past(sOrder[s])' /\ ~ Past(sOrder[s])
                              => s \in LiveOf(o)
      BY <1>0, <3>1 DEF Past, LiveOf
    <3>3. oStatus' \in [Orders -> OrderStatuses \cup {"none"}]
      BY <1>0, <3>1
    <3> QED
      BY <3>1, <3>2, <3>3, ClosingStrays
  <2>6. CASE CommitLink(p)
    <3>1. call[p].s \in Sessions
      BY <2>6 DEF CommitLink, Base, CallsOK, CallOK
    <3> QED
      BY <1>0, <2>6, <3>1 DEF CommitLink, NoStraySession, Past
  <2>7. CASE CommitPaid(p)
    <3>1. Past(call[p].o)
      BY <2>7 DEF CommitPaid, Base, CallsOK, CallOK
    <3> QED
      BY <1>0, <2>7, <3>1 DEF CommitPaid, NoStraySession, Past
  <2>8. CASE CommitCancel(p)
    <3> DEFINE o == call[p].o
    <3>1. /\ LiveOf(o) \in SUBSET Sessions /\ CloseSessions(LiveOf(o), "cancelado")
          /\ oStatus' = [oStatus EXCEPT ![o] = "cancelado"]
          /\ UNCHANGED <<sOrder, revived, late>>
      BY <2>8 DEF LiveOf, CommitCancel
    <3>2. \A s \in Sessions : /\ sStatus[s] \in Live /\ sOrder[s] # None
                              /\ Past(sOrder[s])' /\ ~ Past(sOrder[s])
                              => s \in LiveOf(o)
      BY <1>0, <3>1 DEF Past, LiveOf
    <3>3. oStatus' \in [Orders -> OrderStatuses \cup {"none"}]
      BY <1>0, <3>1
    <3> QED
      BY <3>1, <3>2, <3>3, ClosingStrays
  <2> QED
    BY <1>2, <2>1, <2>2, <2>3, <2>4, <2>5, <2>6, <2>7, <2>8 DEF Does
<1>3. ASSUME NEW c \in Clients, Reconcile(c)
      PROVE  NoStraySession'
  <2>1. /\ Stale(c) \in SUBSET Sessions /\ CloseSessions(Stale(c), "fechado")
        /\ UNCHANGED <<oStatus, sOrder, revived, late>>
    BY <1>3 DEF Stale, LiveSessions, Reconcile
  <2> QED
    BY <1>0, <2>1, ClosingStrays DEF Past
<1>4. ASSUME NEW o \in Orders, Separate(o)
      PROVE  NoStraySession'
  BY <1>0, <1>4 DEF Separate, NoStraySession, Past
<1> QED
  BY <1>1, <1>2, <1>3, <1>4, StepCases DEF vars

\* Every confirmation and cancellation closes the sibling sessions of every
\* talao, however many there are; only a reopened session, or one tied to the
\* order after it left the cart, is live on it.
THEOREM NoStraySessions == Spec => []NoStraySession
<1>1. Init => NoStraySession
  BY DEF Init, NoStraySession, Live
<1>2. Base /\ NoStraySession /\ [Next]_vars => NoStraySession'
  BY StrayStep
<1> QED
  BY <1>1, <1>2, BaseInvariant, PTL DEF Spec

-----------------------------------------------------------------------------
(* What changed after the confirmation reaches the ERP queue.              *)

Pushing(o) == \E p \in Calls : ~ Idle(p) /\ call[p].op = "push" /\ call[p].o = o

\* A step of p that leaves unsent, lost, joined and late no worse keeps the
\* order covered: p itself was not about to push it, or has just recorded it.
LEMMA CoverKept ==
    ASSUME Base, EditReachesErp, NEW p \in Calls, Does(p),
           lost \subseteq lost', late \subseteq late',
           \A o \in Orders : joined[o] \subseteq joined'[o],
           ~ Idle(p) => call[p].op # "push",
           \A o \in unsent' \ unsent :
               \/ call'[p] # None /\ call'[p].op = "push" /\ call'[p].o = o
               \/ joined'[o] \cap late' # {},
           unsent' \subseteq Orders
    PROVE  EditReachesErp'
<1> SUFFICES ASSUME NEW o \in unsent'
             PROVE  Pushing(o)' \/ o \in lost' \/ joined'[o] \cap late' # {}
  BY DEF EditReachesErp, Pushing
<1>1. \A q \in Calls \ {p} : call'[q] = call[q]
  BY CallChange
<1>2. CASE o \in unsent
  <2>1. Pushing(o) => Pushing(o)'
    BY <1>1 DEF Pushing, Idle
  <2> QED
    BY <1>2, <2>1 DEF EditReachesErp, Pushing
<1>3. CASE o \notin unsent
  BY <1>3 DEF Pushing, Idle
<1> QED
  BY <1>2, <1>3

LEMMA ReachesStep ==
    ASSUME Base, EditReachesErp, [Next]_vars
    PROVE  EditReachesErp'
<1>0. /\ oStatus \in [Orders -> OrderStatuses \cup {"none"}]
      /\ oItems \in [Orders -> SUBSET Items]
      /\ joined \in [Orders -> SUBSET Sessions]
      /\ unsent \subseteq Orders
      /\ call \in [Calls -> CallRecords \cup {None}]
  BY DEF Base, TypeOK
<1>1. CASE UNCHANGED <<call, joined, late, lost, unsent>>
  BY <1>1 DEF EditReachesErp, Idle
<1>2. ASSUME NEW p \in Calls, Does(p)
      PROVE  EditReachesErp'
  <2>0. unsent' \subseteq Orders /\ \A o \in Orders : joined[o] \subseteq joined'[o]
    BY TypeStep, LastingStep DEF TypeOK, Lasting
  <2>1. CASE Opened(p)
    <3>1. unsent' = unsent /\ lost' = lost /\ late' = late /\ Idle(p)
      BY <2>1 DEF Opened
    <3> QED
      BY <1>2, <2>0, <3>1, CoverKept
  <2>2. ASSUME NEW c \in Clients, NEW o \in Orders, NEW items \in SUBSET Items,
               Idle(p), DirectCheckout(p, c, o, items)
        PROVE  EditReachesErp'
    <3>1. /\ unsent' = unsent \cup {o} /\ lost' = lost /\ late' = late
          /\ call'[p] = [Blank EXCEPT !.o = o]
      BY <1>0, <2>2 DEF DirectCheckout
    <3> QED
      BY <1>2, <2>0, <2>2, <3>1, CoverKept, PushIsCall
  <2>3. CASE CommitCreate(p)
    <3>1. PICK s \in Sessions, o \in IF call[p].c = None THEN {None} ELSE OrderOf(call[p]) :
            IF o = None THEN UNCHANGED <<late, joined, unsent>>
            ELSE /\ late' = IF Past(o) THEN late \cup {s} ELSE late
                 /\ joined' = [joined EXCEPT ![o] = @ \cup {s}]
                 /\ unsent' = IF Past(o) /\ ~ call[p].set \subseteq oItems[o]
                              THEN unsent \cup {o} ELSE unsent
      BY <2>3 DEF CommitCreate
    <3>2. o = None \/ o \in Orders
      BY <2>3, CallTypes DEF CommitCreate, Base, OrderOf
    <3>3. lost' = lost /\ call[p].op # "push" /\ late \subseteq late'
      BY <2>3, <3>1 DEF CommitCreate
    <3>4. \A x \in unsent' \ unsent : joined'[x] \cap late' # {}
      BY <1>0, <3>1, <3>2
    <3> QED
      BY <1>2, <2>0, <3>3, <3>4, CoverKept
  <2>4. CASE CommitEdit(p)
    <3>1. PICK items \in SUBSET Items, s \in Sessions :
            /\ ~ Idle(p) /\ call[p].op = "edit" /\ s = call[p].s
            /\ items = (sItems[s] \cup call[p].set) \ call[p].del
            /\ EditAlone(p) \/ \E o \in OrderOf(call[p]) : EditOrder(p, o, items)
            /\ lost' = lost
      BY <2>4, EditEffect
    <3>2. CASE EditAlone(p)
      BY <1>2, <2>0, <3>1, <3>2, CoverKept DEF EditAlone
    <3>3. ASSUME NEW o \in OrderOf(call[p]), EditOrder(p, o, items)
          PROVE  EditReachesErp'
      <4>1. o \in Orders
        BY <3>1, CallTypes DEF Base, OrderOf
      <4>2. late \subseteq late' /\ unsent' \ unsent \subseteq {o}
        BY <3>1, <3>3 DEF EditOrder
      <4>3. ASSUME o \in unsent' \ unsent
            PROVE  \/ call'[p] # None /\ call'[p].op = "push" /\ call'[p].o = o
                   \/ joined'[o] \cap late' # {}
        <5>1. Past(o) /\ oItems'[o] # oItems[o]
          BY <4>3, <3>3 DEF EditOrder
        <5>2. CASE call[p].set \cup call[p].del # {}
          BY <1>0, <3>3, <4>1, <5>1, <5>2, PushIsCall DEF EditOrder, ThenPush
        <5>3. CASE call[p].set \cup call[p].del = {}
          <6>1. call[p].attach
            BY <1>0, <3>3, <4>1, <5>1, <5>3 DEF EditOrder
          <6> QED
            BY <1>0, <3>1, <3>3, <4>1, <5>1, <6>1 DEF EditOrder
        <5> QED
          BY <5>2, <5>3
      <4> QED
        BY <1>2, <2>0, <3>1, <4>2, <4>3, CoverKept
    <3> QED
      BY <3>1, <3>2, <3>3
  <2>5. ASSUME NEW o \in Orders, Confirmed(p, o)
        PROVE  EditReachesErp'
    <3>1. /\ unsent' = unsent \cup {o} /\ lost' = lost /\ late' = late
          /\ call'[p] = [Blank EXCEPT !.o = o] /\ call[p].op # "push"
      BY <1>0, <2>5 DEF Confirmed, Confirm, ThenPush
    <3> QED
      BY <1>2, <2>0, <3>1, CoverKept, PushIsCall
  <2>6. CASE CommitLink(p) \/ CommitCancel(p)
    <3>1. unsent' = unsent /\ lost' = lost /\ late' = late /\ call[p].op # "push"
      BY <2>6 DEF CommitLink, CommitCancel
    <3> QED
      BY <1>2, <2>0, <3>1, CoverKept
  <2>7. CASE CommitPaid(p)
    <3>1. call[p].o \in Orders
      BY <2>7 DEF CommitPaid, Base, CallsOK, CallOK
    <3>2. /\ unsent' = unsent \cup {call[p].o} /\ lost' = lost /\ late' = late
          /\ call'[p] = [Blank EXCEPT !.o = call[p].o] /\ call[p].op # "push"
      BY <1>0, <2>7 DEF CommitPaid, ThenPush
    <3> QED
      BY <1>2, <2>0, <3>1, <3>2, CoverKept, PushIsCall
  <2>8. CASE Push(p) \/ Stop(p)
    <3>1. /\ unsent' \subseteq unsent /\ lost \subseteq lost' /\ UNCHANGED <<late, joined>>
          /\ call[p].op = "push" => call[p].o \notin unsent' \/ call[p].o \in lost'
      BY <2>8 DEF Push, Stop
    <3>2. \A q \in Calls \ {p} : call'[q] = call[q]
      BY <1>2, CallChange
    <3> QED
      BY <3>1, <3>2 DEF EditReachesErp, Idle
  <2> QED
    BY <1>2, <2>1, <2>2, <2>3, <2>4, <2>5, <2>6, <2>7, <2>8 DEF Does
<1>3. ASSUME \/ \E c \in Clients : Reconcile(c)
             \/ \E o \in Orders : Separate(o)
      PROVE  UNCHANGED <<call, joined, late, lost, unsent>>
  BY <1>3 DEF Reconcile, Separate
<1> QED
  BY <1>1, <1>2, <1>3, StepCases DEF vars

\* An order that was confirmed, or changed after that, is handed to the ERP
\* queue by a call that is on its way, unless that call stopped or the change
\* came from a session that was tied to the order too late.
THEOREM EditsReachErp == Spec => []EditReachesErp
<1>1. Init => EditReachesErp
  BY DEF Init, EditReachesErp
<1>2. Base /\ EditReachesErp /\ [Next]_vars => EditReachesErp'
  BY ReachesStep
<1> QED
  BY <1>1, <1>2, BaseInvariant, PTL DEF Spec

-----------------------------------------------------------------------------
(* One live online session a client.                                       *)

OnlineFor(s, c) == sOnline[s] /\ sStatus[s] \in Live /\ sClient[s] = c
Excused == revived \cup identified

\* Who holds the advisory lock of its client.
Holds(p) == ~ Idle(p) /\ call[p].op = "create" /\ call[p].online /\ call[p].c # None

Locks ==
    \A p \in Calls : Holds(p) =>
        /\ \A q \in Calls \ {p} : Holds(q) => call[q].c # call[p].c
        /\ \A s \in Sessions : OnlineFor(s, call[p].c) => s \in Excused

\* Short of a creation, a session becomes live, or its client's, only as excused.
LEMMA OnlineKept ==
    ASSUME Base, [Next]_vars, \A p \in Calls : ~ CommitCreate(p)
    PROVE  /\ \A s \in Sessions, c \in Clients :
                OnlineFor(s, c)' => OnlineFor(s, c) \/ s \in Excused'
           /\ Excused \subseteq Excused'
<1> DEFINE Goal == /\ \A s \in Sessions, c \in Clients :
                        OnlineFor(s, c)' => OnlineFor(s, c) \/ s \in Excused'
                   /\ Excused \subseteq Excused'
<1> USE DEF OnlineFor, Excused
<1>0. /\ sStatus \in [Sessions -> SessionStatuses \cup {"none"}]
      /\ sClient \in [Sessions -> Clients \cup {None}]
  BY DEF Base, TypeOK
<1>1. CASE UNCHANGED <<sStatus, sClient, sOnline, revived, identified>>
  BY <1>1
<1>2. ASSUME NEW S \in SUBSET Sessions, NEW status \in {"fechado", "cancelado"},
             CloseSessions(S, status), UNCHANGED <<sClient, sOnline, revived, identified>>
      PROVE  Goal
  BY <1>0, <1>2 DEF CloseSessions
<1>3. ASSUME NEW p \in Calls, Does(p)
      PROVE  Goal
  <2>1. CASE \/ Opened(p) \/ Push(p) \/ Stop(p) \/ CommitPaid(p)
             \/ \E c \in Clients, o \in Orders, items \in SUBSET Items : DirectCheckout(p, c, o, items)
    BY <1>1, <2>1 DEF Opened, Push, Stop, CommitPaid, DirectCheckout
  <2>2. CASE CommitEdit(p)
    <3>1. PICK status \in SessionStatuses, s \in Sessions :
            /\ sStatus' = [sStatus EXCEPT ![s] = status]
            /\ sClient' = [sClient EXCEPT ![s] = IF call[p].c = None THEN @ ELSE call[p].c]
            /\ identified' = IF call[p].c \in {None, sClient[s]} THEN identified ELSE identified \cup {s}
            /\ revived' = IF status \in Live /\ sStatus[s] \notin Live
                          THEN revived \cup {s} ELSE revived
            /\ sOnline' = sOnline
      BY <2>2, EditEffect
    <3> QED
      BY <1>0, <3>1
  <2>3. ASSUME NEW o \in Orders, Confirmed(p, o)
        PROVE  Goal
    BY <1>2, <2>3 DEF Confirmed, Confirm, LiveOf
  <2>4. CASE CommitCancel(p)
    BY <1>2, <2>4 DEF CommitCancel, LiveOf
  <2>5. CASE CommitLink(p)
    <3>1. call[p].s \in Sessions
      BY <2>5 DEF CommitLink, Base, CallsOK, CallOK
    <3> QED
      BY <1>0, <2>5, <3>1 DEF CommitLink
  <2> QED
    BY <1>3, <2>1, <2>2, <2>3, <2>4, <2>5 DEF Does
<1>4. ASSUME NEW c \in Clients, Reconcile(c)
      PROVE  Goal
  BY <1>2, <1>4 DEF Reconcile, Stale, LiveSessions
<1>5. ASSUME NEW o \in Orders, Separate(o)
      PROVE  Goal
  BY <1>1, <1>5 DEF Separate
<1> QED
  BY <1>1, <1>3, <1>4, <1>5, StepCases DEF vars

\* What a creation does to the live online sessions.
LEMMA CreatedOnline ==
    ASSUME Base, NEW p \in Calls, CommitCreate(p)
    PROVE  /\ call'[p] = None /\ ~ Idle(p)
           /\ UNCHANGED <<revived, identified>>
           /\ \E s \in Sessions : \A z \in Sessions, c \in Clients :
                 OnlineFor(z, c)' => OnlineFor(z, c) \/ (z = s /\ Holds(p) /\ call[p].c = c)
<1>1. PICK s \in Sessions :
        /\ sStatus' = [sStatus EXCEPT ![s] = "aberto"]
        /\ sClient' = [sClient EXCEPT ![s] = call[p].c]
        /\ sOnline' = [sOnline EXCEPT ![s] = call[p].online]
  BY DEF CommitCreate
<1>2. ~ Idle(p) /\ call[p].op = "create" /\ UNCHANGED <<revived, identified>>
  BY DEF CommitCreate
<1>3. call'[p] = None
  BY DEF CommitCreate, Return, Base, TypeOK
<1>4. \A z \in Sessions, c \in Clients :
         OnlineFor(z, c)' => OnlineFor(z, c) \/ (z = s /\ Holds(p) /\ call[p].c = c)
  BY <1>1, <1>2 DEF Base, TypeOK, OnlineFor, Holds
<1> QED
  BY <1>2, <1>3, <1>4

LEMMA LocksStep ==
    ASSUME Base, Locks, [Next]_vars
    PROVE  Locks'
<1>0. \A q \in Calls : Holds(q) => call[q].c \in Clients
  BY CallTypes DEF Holds, Base
<1>1. CASE UNCHANGED call
  <2>1. \A p \in Calls : ~ CommitCreate(p)
    BY <1>1, CreatedOnline DEF Idle
  <2> QED
    BY <1>0, <1>1, <2>1, OnlineKept DEF Locks, Holds, Idle
<1>2. ASSUME NEW p \in Calls, CommitCreate(p)
      PROVE  Locks'
  <2>1. \A q \in Calls \ {p} : call'[q] = call[q]
    BY <1>2, CallChange DEF Does
  <2>2. \A q \in Calls : Holds(q)' => q # p /\ Holds(q) /\ call'[q] = call[q]
    BY <1>2, <2>1, CreatedOnline DEF Holds, Idle
  <2> QED
    BY <1>0, <1>2, <2>2, CreatedOnline DEF Locks, Excused
<1>3. ASSUME NEW p \in Calls, Does(p), \A q \in Calls : ~ CommitCreate(q)
      PROVE  Locks'
  <2>1. \A q \in Calls \ {p} : call'[q] = call[q]
    BY <1>3, CallChange
  <2>2. CASE ~ Holds(p)'
    <3>1. \A q \in Calls : Holds(q)' => q # p /\ Holds(q) /\ call'[q] = call[q]
      BY <2>1, <2>2 DEF Holds, Idle
    <3> QED
      BY <1>0, <1>3, <3>1, OnlineKept DEF Locks
  <2>3. CASE Holds(p)'
    <3>1. Opened(p)
      BY <1>3, <2>3, CallChange, PushIsCall DEF Holds, Idle
    <3>2. PICK r \in CallRecords :
            /\ call' = [call EXCEPT ![p] = r]
            /\ UNCHANGED <<sessionVars, orderVars, history>>
            /\ r.op = "create" /\ r.online /\ r.c # None =>
                  ~ ClientLocked(r.c) /\ LiveSessions(r.c) = {}
      BY <3>1 DEF Opened
    <3>3. call'[p] = r
      BY <3>2 DEF Base, TypeOK
    <3>4. ~ ClientLocked(r.c) /\ LiveSessions(r.c) = {}
      BY <2>3, <3>2, <3>3 DEF Holds
    <3>5. \A q \in Calls \ {p} : Holds(q)' => Holds(q) /\ call[q].c # r.c /\ call'[q] = call[q]
      BY <2>1, <3>4 DEF Holds, Idle, ClientLocked
    <3>6. \A s \in Sessions : ~ OnlineFor(s, r.c)
      BY <3>4 DEF OnlineFor, LiveSessions
    <3> QED
      BY <3>2, <3>3, <3>5, <3>6 DEF Locks, OnlineFor, Excused
  <2> QED
    BY <2>2, <2>3
<1>4. ASSUME \/ \E c \in Clients : Reconcile(c)
             \/ \E o \in Orders : Separate(o)
      PROVE  UNCHANGED call
  BY <1>4 DEF Reconcile, Separate
<1> QED
  BY <1>1, <1>2, <1>3, <1>4, StepCases DEF vars

LEMMA OneOnlineStep ==
    ASSUME Base, Locks, OneOnlineSession, [Next]_vars
    PROVE  OneOnlineSession'
<1> SUFFICES ASSUME NEW s \in Sessions, NEW z \in Sessions, NEW c \in Clients,
                    s # z, OnlineFor(s, c)', OnlineFor(z, c)'
             PROVE  s \in Excused' \/ z \in Excused'
  <2>1. TypeOK'
    BY TypeStep
  <2> QED
    BY <2>1 DEF OneOnlineSession, OnlineFor, Excused, TypeOK
<1>1. OnlineFor(s, c) /\ OnlineFor(z, c) => s \in Excused \/ z \in Excused
  BY DEF OneOnlineSession, OnlineFor, Excused
<1>2. CASE \A p \in Calls : ~ CommitCreate(p)
  BY <1>1, <1>2, OnlineKept
<1>3. ASSUME NEW p \in Calls, CommitCreate(p)
      PROVE  s \in Excused' \/ z \in Excused'
  BY <1>1, <1>3, CreatedOnline DEF Locks, Excused
<1> QED
  BY <1>2, <1>3

\* However many tabs and sellers open one at the same time, a client has one
\* live online session, but for those reopened or given to the client later.
THEOREM OneOnlineSessions == Spec => []OneOnlineSession
<1>1. Init => Locks /\ OneOnlineSession
  BY DEF Init, Locks, Holds, Idle, OneOnlineSession
<1>2. Base /\ Locks /\ OneOnlineSession /\ [Next]_vars => Locks' /\ OneOnlineSession'
  BY LocksStep, OneOnlineStep
<1> QED
  BY <1>1, <1>2, BaseInvariant, PTL DEF Spec

-----------------------------------------------------------------------------
(* The order of a lone session holds what the session shows.               *)

LEMMA MirrorStep ==
    ASSUME Base, SoleSessionMirrors, [Next]_vars
    PROVE  SoleSessionMirrors'
<1>0. /\ sStatus \in [Sessions -> SessionStatuses \cup {"none"}]
      /\ sOrder \in [Sessions -> Orders \cup {None}]
      /\ sItems \in [Sessions -> SUBSET Items]
      /\ oStatus \in [Orders -> OrderStatuses \cup {"none"}]
      /\ oItems \in [Orders -> SUBSET Items]
      /\ joined \in [Orders -> SUBSET Sessions]
      /\ \A s \in Sessions : sOrder[s] # None => oStatus[sOrder[s]] # "none"
      /\ Joins
  BY DEF Base, TypeOK
<1>1. CASE UNCHANGED <<sItems, sOrder, oItems, joined, mixed>>
  BY <1>1 DEF SoleSessionMirrors
<1>2. ASSUME NEW p \in Calls, Does(p)
      PROVE  SoleSessionMirrors'
  <2>1. CASE \/ Opened(p) \/ Push(p) \/ Stop(p) \/ CommitPaid(p) \/ CommitLink(p) \/ CommitCancel(p)
             \/ \E o \in Orders : Confirmed(p, o)
    BY <1>1, <2>1 DEF Opened, Push, Stop, CommitPaid, CommitLink, CommitCancel, Confirmed, Confirm
  <2>2. ASSUME NEW c \in Clients, NEW o \in Orders, NEW items \in SUBSET Items,
               DirectCheckout(p, c, o, items)
        PROVE  SoleSessionMirrors'
    BY <1>0, <2>2 DEF DirectCheckout, SoleSessionMirrors
  <2>3. CASE CommitCreate(p)
    <3>1. PICK s \in Sessions, o \in IF call[p].c = None THEN {None} ELSE OrderOf(call[p]) :
            /\ sStatus[s] = "none"
            /\ sOrder' = [sOrder EXCEPT ![s] = o]
            /\ sItems' = [sItems EXCEPT ![s] = call[p].set]
            /\ IF o = None THEN UNCHANGED <<orderVars, joined>>
               ELSE /\ oItems' = [oItems EXCEPT ![o] = Synced(o, {}, call[p].set)]
                    /\ joined' = [joined EXCEPT ![o] = @ \cup {s}]
      BY <2>3 DEF CommitCreate
    <3>2. o = None \/ o \in Orders
      BY <2>3, CallTypes DEF CommitCreate, Base, OrderOf
    <3>3. mixed' = mixed /\ sOrder[s] = None /\ \A x \in Orders : s \notin joined[x]
      BY <1>0, <2>3, <3>1 DEF CommitCreate, Joins
    <3>4. o # None => (joined[o] = {} => oItems[o] = {})
      <4>1. call[p].o # None => joined[call[p].o] # {}
        BY <2>3 DEF CommitCreate, Base, CallsOK, CallOK
      <4> QED
        BY <1>0, <3>2, <4>1 DEF OrderOf, Joins
    <3>5. o # None /\ joined[o] = {} => oItems'[o] = call[p].set
      <4> SUFFICES ASSUME o # None, joined[o] = {}
                   PROVE  oItems'[o] = call[p].set
        OBVIOUS
      <4>1. oItems' = [oItems EXCEPT ![o] = Synced(o, {}, call[p].set)] /\ o \in Orders
        BY <3>1, <3>2
      <4>2. Synced(o, {}, call[p].set) = call[p].set
        BY <3>4 DEF Synced
      <4> QED
        BY <1>0, <4>1, <4>2
    <3> QED
      BY <1>0, <3>1, <3>2, <3>3, <3>5 DEF SoleSessionMirrors
  <2>4. CASE CommitEdit(p)
    <3>1. PICK items \in SUBSET Items, s \in Sessions :
            /\ ~ Idle(p) /\ call[p].op = "edit" /\ s = call[p].s
            /\ items = (sItems[s] \cup call[p].set) \ call[p].del
            /\ sItems' = [sItems EXCEPT ![s] = items]
            /\ EditAlone(p) \/ \E o \in OrderOf(call[p]) : EditOrder(p, o, items)
      BY <2>4, EditEffect
    <3>2. CASE EditAlone(p)
      BY <1>0, <3>1, <3>2 DEF EditAlone, SoleSessionMirrors
    <3>3. ASSUME NEW o \in OrderOf(call[p]), EditOrder(p, o, items)
          PROVE  SoleSessionMirrors'
      <4>1. o \in Orders
        BY <3>1, CallTypes DEF Base, OrderOf
      <4>2. joined[o] = {} => oStatus[o] = "none" /\ call[p].attach
        <5>1. call[p].o # None => joined[call[p].o] # {}
          BY <3>1 DEF Base, CallsOK, CallOK
        <5> QED
          BY <3>3, <5>1 DEF OrderOf, EditOrder
      <4>3. ASSUME joined[o] \subseteq {s}, s \notin mixed'
            PROVE  oItems'[o] = items
        <5>1. s \notin mixed /\ sOrder[s] = (IF call[p].attach THEN None ELSE o)
          BY <3>1, <3>3, <4>3 DEF EditOrder
        <5>2. CASE call[p].attach
          <6>1. s \notin joined[o]
            BY <1>0, <4>1, <5>1, <5>2 DEF Joins
          <6>2. oItems[o] = {}
            BY <1>0, <4>1, <4>2, <4>3, <6>1 DEF Joins
          <6> QED
            BY <1>0, <3>3, <4>1, <5>2, <6>2 DEF EditOrder, Synced
        <5>3. CASE ~ call[p].attach
          <6>1. joined[o] = {s} /\ sOrder[s] = o
            BY <1>0, <4>2, <4>3, <5>1, <5>3
          <6>2. oItems[o] = sItems[s]
            BY <4>1, <5>1, <6>1 DEF SoleSessionMirrors
          <6>3. CASE call[p].set \cup call[p].del # {}
            BY <1>0, <3>1, <3>3, <4>1, <5>3, <6>2, <6>3 DEF EditOrder, Synced
          <6>4. CASE call[p].set \cup call[p].del = {}
            BY <1>0, <3>1, <3>3, <4>1, <5>3, <6>2, <6>4 DEF EditOrder
          <6> QED
            BY <6>3, <6>4
        <5> QED
          BY <5>2, <5>3
      <4>4. /\ sOrder' = [sOrder EXCEPT ![s] = o]
            /\ joined' = [joined EXCEPT ![o] = @ \cup {s}]
            /\ \A x \in Orders \ {o} : oItems'[x] = oItems[x]
            /\ mixed \subseteq mixed'
        BY <1>0, <3>1, <3>3, <4>1 DEF EditOrder
      <4> SUFFICES ASSUME NEW z \in Sessions, NEW x \in Orders,
                          joined'[x] = {z}, sOrder'[z] = x, z \notin mixed'
                   PROVE  oItems'[x] = sItems'[z]
        BY DEF SoleSessionMirrors
      <4>5. CASE x = o
        <5>1. z = s /\ joined[o] \subseteq {s}
          BY <1>0, <4>1, <4>4, <4>5
        <5> QED
          BY <1>0, <3>1, <4>3, <4>5, <5>1
      <4>6. CASE x # o
        <5>1. z # s /\ sOrder[z] = x /\ joined[x] = {z}
          BY <1>0, <4>1, <4>4, <4>6
        <5> QED
          BY <1>0, <3>1, <4>4, <4>6, <5>1 DEF SoleSessionMirrors
      <4> QED
        BY <4>5, <4>6
    <3> QED
      BY <3>1, <3>2, <3>3
  <2> QED
    BY <1>2, <2>1, <2>2, <2>3, <2>4 DEF Does
<1>3. ASSUME \/ \E c \in Clients : Reconcile(c)
             \/ \E o \in Orders : Separate(o)
      PROVE  UNCHANGED <<sItems, sOrder, oItems, joined, mixed>>
  BY <1>3 DEF Reconcile, Separate
<1> QED
  BY <1>1, <1>2, <1>3, StepCases DEF vars

\* The delta that an edit applies under its lock keeps a lone session and its
\* order equal, item by item, whatever ran between the reading and the lock.
THEOREM SoleSessionsMirror == Spec => []SoleSessionMirrors
<1>1. Init => SoleSessionMirrors
  BY DEF Init, SoleSessionMirrors
<1>2. Base /\ SoleSessionMirrors /\ [Next]_vars => SoleSessionMirrors'
  BY MirrorStep
<1> QED
  BY <1>1, <1>2, BaseInvariant, PTL DEF Spec
=============================================================================
