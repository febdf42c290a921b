-------------------------- MODULE OrderPushLossProofs --------------------------
(***************************************************************************)
(* What the outbound ERP engine loses, and by what alone, for every number *)
(* of orders, dispatch calls, edits, resends and failures.                 *)
(*                                                                         *)
(* The runs show three losses: a dispatch that stops leaves what it        *)
(* claimed in 'processing', an edit may end 'sent' without having been     *)
(* sent, and a cancelled order may have two live ERP orders.  Here: the    *)
(* first is for ever, at most ClaimLimit rows a stop, and nothing else     *)
(* does it; the second happens only to an order whose resend met its row   *)
(* in 'processing', failed or was never asked for, or one of whose sends   *)
(* took effect unanswered; the third only after a cancel cleared an external_id it had not withdrawn.  *)
(* Besides, a row may say 'cancelled' while an order is alive, after such  *)
(* a cancel or an unanswered send, and after nothing else.                 *)
(***************************************************************************)
EXTENDS OrderPushProofs, FiniteSetTheorems

USE CancellableAssumption, NoneAssumption, BoundsAssumption

-----------------------------------------------------------------------------
(* Rows nobody works on.                                                   *)

\* Rows in 'processing' that are in no call's batch.
Stranded ==
    {o \in Orders : status[o] = "processing" /\ \A d \in Dispatchers : o \notin batch[d]}

\* The types the argument about claims needs.
LEMMA ClaimTypes ==
    ASSUME TypeOK
    PROVE  /\ status \in [Orders -> RowStatuses]
           /\ batch \in [Dispatchers -> SUBSET Orders]
           /\ crashes \in Nat
  BY DEF TypeOK

\* A step that leaves 'processing' and the batches alone strands and saves nothing.
LEMMA StrandedFrame ==
    ASSUME \A o \in Orders : status'[o] = "processing" <=> status[o] = "processing",
           \A d \in Dispatchers : batch'[d] = batch[d]
    PROVE  Stranded' = Stranded
  BY DEF Stranded

\* A call whose batch is empty before and after strands nothing either.
LEMMA StrandedStart ==
    ASSUME TypeOK, Ownership, NEW d \in Dispatchers, StartDispatch(d),
           \A o \in Orders : status'[o] = "processing" <=> status[o] = "processing"
    PROVE  Stranded' = Stranded
<1>1. batch[d] = {} /\ batch'[d] = {}
  BY ClaimTypes DEF StartDispatch, Between, Ownership, Claimed
<1>2. \A e \in Dispatchers : batch'[e] = batch[e]
  BY <1>1, ClaimTypes DEF StartDispatch, Between
<1>3. QED
  BY <1>2, StrandedFrame

\* An attempt never finishes with the status it is there to end.
Concludes == \A d \in Dispatchers : next[d] # "processing"

LEMMA ConcludesStep ==
    ASSUME TypeOK, Concludes, [Next]_vars
    PROVE  Concludes'
<1>0. next \in [Dispatchers -> RowStatuses]
  BY DEF TypeOK
<1>1. CASE UNCHANGED next
  BY <1>1 DEF Concludes
<1>2. ASSUME NEW d \in Dispatchers, NEW s \in {"none", "failed", "cancelling", "pending", "sent"},
             next' = [next EXCEPT ![d] = s]
      PROVE  Concludes'
  BY <1>0, <1>2 DEF Concludes
<1>3. ASSUME NEW d \in Dispatchers, NEW p, NEW b, NEW r, Between(d, p, b, r)
      PROVE  Concludes'
  BY <1>2, <1>3 DEF Between
<1>4. ASSUME NEW d \in Dispatchers, NEW refused \in BOOLEAN, Fails(d, refused)
      PROVE  Concludes'
  <2>1. Failure(d, refused) \in {"failed", "cancelling", "pending"}
    BY DEF Failure
  <2>2. QED
    BY <1>2, <1>4, <2>1 DEF Fails
<1>5. ASSUME NEW d \in Dispatchers, AttemptCancel(d) PROVE Concludes'
  <2>1. UNCHANGED next \/ Fails(d, TRUE) \/ Fails(d, FALSE)
    <3>1. PICK outcome \in Outcomes :
             IF outcome = "ok" THEN UNCHANGED next ELSE Fails(d, outcome = "refused")
      BY <1>5 DEF AttemptCancel
    <3>2. (outcome = "refused") = TRUE \/ (outcome = "refused") = FALSE
      OBVIOUS
    <3>3. QED
      BY <3>1, <3>2
  <2>2. QED
    BY <1>1, <1>4, <2>1
<1>6. ASSUME NEW d \in Dispatchers, AttemptSend(d) PROVE Concludes'
  <2>1. next' = [next EXCEPT ![d] = "sent"] \/ Fails(d, TRUE) \/ Fails(d, FALSE)
    <3>1. PICK outcome \in Outcomes :
             IF outcome = "ok" THEN next' = [next EXCEPT ![d] = "sent"]
             ELSE Fails(d, outcome = "refused")
      BY <1>6 DEF AttemptSend
    <3>2. (outcome = "refused") = TRUE \/ (outcome = "refused") = FALSE
      OBVIOUS
    <3>3. QED
      BY <3>1, <3>2
  <2>2. QED
    BY <1>2, <1>4, <2>1
<1>7. ASSUME NEW d \in Dispatchers, NextRowImpossible(d) \/ AttemptNoStock(d)
      PROVE  Concludes'
  BY <1>2, <1>4, <1>7 DEF NextRowImpossible, AttemptNoStock
<1>8. ASSUME NEW d \in Dispatchers,
             Claim(d) \/ Finish(d) \/ Crash(d) \/ OtherTrigger(d)
      PROVE  Concludes'
  BY <1>3, <1>8 DEF Claim, Finish, Crash, OtherTrigger, StartDispatch
<1>9. ASSUME NEW o \in Orders, NEW d \in Dispatchers, Enqueue(o, d) \/ ResendMark(o, d)
      PROVE  Concludes'
  BY <1>3, <1>9 DEF Enqueue, ResendMark, StartDispatch
<1>10. QED
  BY <1>1, <1>5, <1>6, <1>7, <1>8, <1>9
     DEF Next, RequestStep, CancellerStep, WorkerStep, Checkout, Edit, PaidByGateway,
         AskResend, CancelOrder, ResendRead, RequestFails, CancelRead, CancelCall,
         CancelMark, BackoffElapses, NextRow, AttemptRead, vars, workerVars

\* Only a stop strands rows: those of its batch, all of them.
LEMMA StrandedStep ==
    ASSUME TypeOK, Ownership, Concludes, [Next]_vars
    PROVE  \/ Stranded' = Stranded /\ UNCHANGED crashes
           \/ /\ crashes < MaxCrashes /\ crashes' = crashes + 1
              /\ \E d \in Dispatchers : Stranded' = Stranded \cup batch[d]
<1> DEFINE Same == Stranded' = Stranded /\ UNCHANGED crashes
<1>0. /\ status \in [Orders -> RowStatuses]
      /\ batch \in [Dispatchers -> SUBSET Orders]
  BY ClaimTypes
<1>1. CASE UNCHANGED <<status, batch, crashes>>
  BY <1>1, StrandedFrame
<1>2. ASSUME NEW o \in Orders, NEW d \in Dispatchers, Enqueue(o, d) PROVE Same
  <2>1. \A p \in Orders : status'[p] = "processing" <=> status[p] = "processing"
    BY <1>0, <1>2 DEF Enqueue, InsertRow
  <2>2. QED
    BY <1>2, <2>1, StrandedStart DEF Enqueue
<1>3. ASSUME NEW o \in Orders, NEW d \in Dispatchers, ResendMark(o, d) PROVE Same
  <2>1. \A p \in Orders : status'[p] = "processing" <=> status[p] = "processing"
    BY <1>0, <1>3 DEF ResendMark, MarkForResend
  <2>2. QED
    BY <1>3, <2>1, StrandedStart DEF ResendMark
<1>4. ASSUME NEW d \in Dispatchers, OtherTrigger(d) PROVE Same
  <2>1. \A p \in Orders : status'[p] = "processing" <=> status[p] = "processing"
    BY <1>4 DEF OtherTrigger, rowVars
  <2>2. QED
    BY <1>4, <2>1, StrandedStart DEF OtherTrigger
<1>5. ASSUME NEW o \in Orders, CancelMark(o) PROVE Same
  <2>1. \A p \in Orders : status'[p] = "processing" <=> status[p] = "processing"
    BY <1>0, <1>5 DEF CancelMark
  <2>2. QED
    BY <1>5, <2>1, StrandedFrame DEF CancelMark, workerVars
<1>6. ASSUME NEW d \in Dispatchers, Claim(d) PROVE Same
  <2>1. PICK rows \in SUBSET Claimable :
           /\ status' = [o \in Orders |-> IF o \in rows THEN "processing" ELSE status[o]]
           /\ Between(d, IF rows = {} THEN "idle" ELSE "next", rows,
                      {o \in rows : status[o] = "cancelling"})
    BY <1>6 DEF Claim
  <2>2. /\ batch[d] = {} /\ batch'[d] = rows
        /\ \A e \in Dispatchers \ {d} : batch'[e] = batch[e]
    BY <1>0, <1>6, <2>1 DEF Claim, Between, Ownership, Claimed
  <2>3. \A o \in Orders : o \in rows => status[o] # "processing"
    BY <2>1 DEF Claimable
  <2>4. Stranded' = Stranded
    BY <2>1, <2>2, <2>3 DEF Stranded
  <2>5. QED
    BY <1>6, <2>4 DEF Claim
<1>7. ASSUME NEW d \in Dispatchers, Finish(d) PROVE Same
  <2>1. /\ cur[d] \in batch[d]
        /\ \A e \in Dispatchers \ {d} : cur[d] \notin batch[e]
    BY <1>7 DEF Finish, Busy, Ownership, Claimed, WorkersDisjoint
  <2>2. /\ \A p \in Orders \ {cur[d]} : status'[p] = status[p]
        /\ batch'[d] = batch[d] \ {cur[d]}
        /\ \A e \in Dispatchers \ {d} : batch'[e] = batch[e]
    BY <1>0, <1>7 DEF Finish, Between
  <2>3. cur[d] \in Stranded' => FALSE
    <3>1. status'[cur[d]] = next[d] /\ next[d] # "processing"
      BY <1>0, <1>7, <2>1 DEF Finish, Concludes
    <3>2. QED
      BY <3>1 DEF Stranded
  <2>4. Stranded' = Stranded
    BY <2>1, <2>2, <2>3 DEF Stranded
  <2>5. QED
    BY <1>7, <2>4 DEF Finish
<1>8. ASSUME NEW d \in Dispatchers, Crash(d)
      PROVE  /\ crashes < MaxCrashes /\ crashes' = crashes + 1
             /\ Stranded' = Stranded \cup batch[d]
  <2>1. /\ batch'[d] = {} /\ status' = status
        /\ \A e \in Dispatchers \ {d} : batch'[e] = batch[e]
    BY <1>0, <1>8 DEF Crash, Between, rowVars
  <2>2. \A o \in batch[d] : /\ o \in Orders /\ status[o] = "processing"
                            /\ \A e \in Dispatchers \ {d} : o \notin batch[e]
    BY <1>0 DEF Ownership, Claimed, WorkersDisjoint
  <2>3. Stranded' = Stranded \cup batch[d]
    BY <2>1, <2>2 DEF Stranded
  <2>4. QED
    BY <1>8, <2>3 DEF Crash
<1>9. QED
  BY <1>1, <1>2, <1>3, <1>4, <1>5, <1>6, <1>7, <1>8
     DEF Next, RequestStep, CancellerStep, WorkerStep, Checkout, Edit, PaidByGateway,
         AskResend, CancelOrder, ResendRead, RequestFails, CancelRead, CancelCall,
         BackoffElapses, NextRow, NextRowImpossible, AttemptCancel, AttemptRead,
         AttemptNoStock, AttemptSend, vars, rowVars, workerVars

LEMMA Occupied == Spec => [](TypeOK /\ Ownership /\ Concludes)
<1>1. Init => Concludes
  BY DEF Init, Concludes
<1>2. TypeOK /\ Concludes /\ [Next]_vars => Concludes'
  BY ConcludesStep
<1>3. WorkersDisjoint /\ Claimed => Ownership
  BY DEF Ownership
<1>4. QED
  BY <1>1, <1>2, <1>3, TypeCorrect, ExclusiveRows, PTL DEF Spec

\* A stranded row stays so: no trigger, resend, cancel or restart reaches it.
THEOREM StrandedForEver == Spec => [][Stranded \subseteq Stranded']_vars
<1>1. TypeOK /\ Ownership /\ Concludes /\ [Next]_vars => [Stranded \subseteq Stranded']_vars
  BY StrandedStep
<1>2. QED
  BY <1>1, Occupied, PTL DEF Spec

\* As long as no dispatch stops, every row in 'processing' has its worker.
THEOREM OnlyStopsStrand ==
    ASSUME MaxCrashes = 0
    PROVE  Spec => []ProcessingHasWorker
<1> DEFINE Safe == Stranded = {}
<1>1. Init => Safe
  BY DEF Init, Stranded
<1>2. TypeOK /\ Ownership /\ Concludes /\ Safe /\ [Next]_vars => Safe'
  <2>1. TypeOK => ~(crashes < MaxCrashes)
    BY ClaimTypes
  <2>2. QED
    BY <2>1, StrandedStep
<1>3. Safe => ProcessingHasWorker
  BY DEF Stranded, ProcessingHasWorker
<1>4. QED
  BY <1>1, <1>2, <1>3, Occupied, PTL DEF Spec

\* A call never holds more rows than it may claim.
BatchLimit ==
    \A d \in Dispatchers : IsFiniteSet(batch[d]) /\ Cardinality(batch[d]) <= ClaimLimit

LEMMA BatchLimitStep ==
    ASSUME IsFiniteSet(Orders), TypeOK, BatchLimit, [Next]_vars
    PROVE  BatchLimit'
<1>0. batch \in [Dispatchers -> SUBSET Orders] /\ ClaimLimit \in Nat
  BY ClaimTypes
<1>1. CASE UNCHANGED batch
  BY <1>1 DEF BatchLimit
<1>2. ASSUME NEW d \in Dispatchers, NEW b,
             batch' = [batch EXCEPT ![d] = b],
             IsFiniteSet(b), Cardinality(b) <= ClaimLimit
      PROVE  BatchLimit'
  BY <1>0, <1>2 DEF BatchLimit
<1>3. IsFiniteSet({}) /\ Cardinality({}) <= ClaimLimit
  BY <1>0, FS_EmptySet
<1>4. ASSUME NEW d \in Dispatchers, OtherTrigger(d) \/ Crash(d) PROVE BatchLimit'
  BY <1>2, <1>3, <1>4 DEF OtherTrigger, Crash, StartDispatch, Between
<1>5. ASSUME NEW o \in Orders, NEW d \in Dispatchers, Enqueue(o, d) \/ ResendMark(o, d)
      PROVE  BatchLimit'
  BY <1>2, <1>3, <1>5 DEF Enqueue, ResendMark, StartDispatch, Between
<1>6. ASSUME NEW d \in Dispatchers, Claim(d) PROVE BatchLimit'
  <2>1. PICK rows \in SUBSET Claimable :
           Cardinality(rows) <= ClaimLimit /\ batch' = [batch EXCEPT ![d] = rows]
    BY <1>6 DEF Claim, Between
  <2>2. IsFiniteSet(rows)
    BY <2>1, FS_Subset DEF TypeOK, Claimable
  <2>3. QED
    BY <1>2, <2>1, <2>2
<1>7. ASSUME NEW d \in Dispatchers, Finish(d) PROVE BatchLimit'
  <2>1. batch' = [batch EXCEPT ![d] = batch[d] \ {cur[d]}]
    BY <1>7 DEF Finish, Between
  <2>2. IsFiniteSet(batch[d]) /\ Cardinality(batch[d]) <= ClaimLimit
    BY DEF BatchLimit
  <2>3. /\ IsFiniteSet(batch[d] \ {cur[d]})
        /\ Cardinality(batch[d] \ {cur[d]}) <= Cardinality(batch[d])
        /\ Cardinality(batch[d] \ {cur[d]}) \in Nat /\ Cardinality(batch[d]) \in Nat
    BY <2>2, FS_Subset, FS_CardinalityType
  <2>4. Cardinality(batch[d] \ {cur[d]}) <= ClaimLimit
    BY <1>0, <2>2, <2>3
  <2>5. QED
    BY <1>2, <2>1, <2>3, <2>4
<1>8. QED
  BY <1>1, <1>4, <1>5, <1>6, <1>7
     DEF Next, RequestStep, CancellerStep, WorkerStep, Checkout, Edit, PaidByGateway,
         AskResend, CancelOrder, ResendRead, RequestFails, CancelRead, CancelCall,
         CancelMark, BackoffElapses, NextRow, NextRowImpossible, AttemptCancel,
         AttemptRead, AttemptNoStock, AttemptSend, vars, workerVars

\* What stops cost: at most the rows one call claims, each.
FewStranded == IsFiniteSet(Stranded) /\ Cardinality(Stranded) <= ClaimLimit * crashes

\* The table holds finitely many orders.
THEOREM StopsStrandFew ==
    ASSUME IsFiniteSet(Orders)
    PROVE  Spec => []FewStranded
<1>1. Init => BatchLimit /\ FewStranded
  <2> SUFFICES ASSUME Init PROVE BatchLimit /\ FewStranded
    OBVIOUS
  <2>1. Stranded = {} /\ crashes = 0 /\ \A d \in Dispatchers : batch[d] = {}
    BY DEF Init, Stranded
  <2>2. IsFiniteSet({}) /\ Cardinality({}) = 0
    BY FS_EmptySet
  <2>3. QED
    BY <2>1, <2>2 DEF BatchLimit, FewStranded
<1>2. /\ TypeOK /\ Ownership /\ Concludes /\ BatchLimit /\ FewStranded /\ [Next]_vars
      => BatchLimit' /\ FewStranded'
  <2> SUFFICES ASSUME TypeOK, Ownership, Concludes, BatchLimit, FewStranded, [Next]_vars
               PROVE  FewStranded'
    BY BatchLimitStep
  <2>0. crashes \in Nat /\ ClaimLimit \in Nat
    BY ClaimTypes
  <2>1. CASE Stranded' = Stranded /\ UNCHANGED crashes
    BY <2>1 DEF FewStranded
  <2>2. CASE /\ crashes' = crashes + 1
             /\ \E d \in Dispatchers : Stranded' = Stranded \cup batch[d]
    <3>1. PICK d \in Dispatchers : Stranded' = Stranded \cup batch[d]
      BY <2>2
    <3>2. /\ IsFiniteSet(Stranded) /\ Cardinality(Stranded) <= ClaimLimit * crashes
          /\ IsFiniteSet(batch[d]) /\ Cardinality(batch[d]) <= ClaimLimit
      BY DEF FewStranded, BatchLimit
    <3>3. /\ IsFiniteSet(Stranded \cup batch[d])
          /\ Cardinality(Stranded \cup batch[d]) <= Cardinality(Stranded) + Cardinality(batch[d])
      <4>1. /\ IsFiniteSet(Stranded \cap batch[d])
            /\ Cardinality(Stranded \cup batch[d]) =
                  Cardinality(Stranded) + Cardinality(batch[d])
                    - Cardinality(Stranded \cap batch[d])
        BY <3>2, FS_Union, FS_Intersection
      <4>2. /\ Cardinality(Stranded) \in Nat /\ Cardinality(batch[d]) \in Nat
            /\ Cardinality(Stranded \cap batch[d]) \in Nat
        BY <3>2, <4>1, FS_CardinalityType
      <4>3. QED
        BY <3>2, <4>1, <4>2, FS_Union
    <3>4. ClaimLimit * (crashes + 1) = ClaimLimit * crashes + ClaimLimit
      BY <2>0
    <3>5. /\ Cardinality(Stranded) \in Nat /\ Cardinality(batch[d]) \in Nat
          /\ Cardinality(Stranded \cup batch[d]) \in Nat
          /\ ClaimLimit * crashes \in Nat
      BY <2>0, <3>2, <3>3, FS_CardinalityType
    <3>6. Cardinality(Stranded \cup batch[d]) <= ClaimLimit * (crashes + 1)
      BY <2>0, <3>2, <3>3, <3>4, <3>5
    <3>7. QED
      BY <2>2, <3>1, <3>3, <3>6 DEF FewStranded
  <2>3. QED
    BY <2>1, <2>2, StrandedStep
<1>3. QED
  BY <1>1, <1>2, Occupied, PTL DEF Spec

-----------------------------------------------------------------------------
(* Edits nobody sent.                                                      *)

\* No requestProviderOrderResend finds its row in 'processing', where it would do
\* nothing.
ResendsFindRow ==
    \A o \in Orders :
        request[o] \in {"asked", "mark"} /\ request'[o] # request[o] =>
            status[o] # "processing"

\* No send takes effect without its answer reaching the call: an unanswered one is
\* repeated under the same version key, which the ERP takes for the order it has.
SendsAreAnswered ==
    \A o \in Orders :
        known'[o] # known[o] =>
            \E d \in Dispatchers : cur[d] = o /\ phase[d] = "send" /\ next'[d] = "sent"

\* A change of an order that may have been sent already is followed by a request:
\* no gateway reports it as paid while none is running.
ChangesAreResent ==
    \A o \in Orders :
        content'[o] # content[o] =>
            \/ request'[o] # "idle"
            \/ status[o] \in {"none", "pending", "cancelling"}

\* A resend that meets no working call puts its row back in the queue: it neither
\* throws nor is cut short.
ResendsRun ==
    \A o \in Orders :
        /\ request[o] \in {"asked", "mark"} /\ request'[o] = "idle"
        /\ status[o] # "processing"
        => status'[o] \in {"pending", "cancelling"}

\* The four ways in which a change may never reach the ERP, excluded.
NothingIsMissed ==
    ResendsFindRow /\ SendsAreAnswered /\ ChangesAreResent /\ ResendsRun

\* An order has no row and no resend before its checkout enqueues it.
Early(o) ==
    /\ o \notin placed => status[o] = "none" /\ request[o] = "idle"
    /\ request[o] = "enqueue" => status[o] = "none"

\* Whether the latest edit is taken care of, once it is sent and while it is: by
\* what the ERP holds, by what the call read, or by a resend on its way.
Told(o) == status[o] = "sent" /\ request[o] = "idle" => held[o] = content[o]

Telling(d, o) ==
    cur[d] = o =>
        /\ phase[d] = "send" => request[o] # "idle" \/ saw[d] = content[o]
        /\ phase[d] = "finish" /\ next[d] = "sent" =>
              request[o] # "idle" \/ held[o] = content[o]

\* The ERP knows the next version key only between a send and its finish.
Unsent(o) ==
    NextKey(o) \in known[o] =>
        /\ status[o] = "processing"
        /\ \A d \in Dispatchers :
              o \in batch[d] => cur[d] = o /\ phase[d] = "finish" /\ next[d] = "sent"

Latest(o) == Early(o) /\ Told(o) /\ (\A d \in Dispatchers : Telling(d, o)) /\ Unsent(o)

\* What the argument needs of the calls: the one that has the row open owns it, and
\* it alone.
LEMMA Alone ==
    ASSUME TypeOK, Ownership, NEW o \in Orders
    PROVE  /\ \A d \in Dispatchers :
                 /\ o \in batch[d] => status[o] = "processing"
                 /\ cur[d] = o /\ phase[d] \in Busy => o \in batch[d]
           /\ \A d, e \in Dispatchers : o \in batch[d] /\ o \in batch[e] => d = e
  BY DEF Ownership, Claimed, WorkersDisjoint

\* The types of what the argument follows.
LEMMA EditTypes ==
    ASSUME TypeOK
    PROVE  /\ status \in [Orders -> RowStatuses] /\ request \in
                 [Orders -> {"idle", "asked", "enqueue", "mark"}]
           /\ content \in [Orders -> Nat] /\ held \in [Orders -> Nat]
           /\ sentCount \in [Orders -> Nat] /\ known \in [Orders -> SUBSET Versions]
           /\ phase \in [Dispatchers -> Phases]
           /\ batch \in [Dispatchers -> SUBSET Orders]
           /\ cur \in [Dispatchers -> Orders \cup {None}]
           /\ saw \in [Dispatchers -> Nat] /\ next \in [Dispatchers -> RowStatuses]
           /\ \A d \in Dispatchers : phase[d] \in Busy => cur[d] \in Orders
  BY DEF TypeOK

\* A call keeps what it holds of the order, lets go of it, or is about another row.
Apart(d, o) ==
    \/ /\ cur'[d] = cur[d] /\ phase'[d] = phase[d] /\ saw'[d] = saw[d]
       /\ next'[d] = next[d] /\ batch'[d] = batch[d]
    \/ cur'[d] # o /\ o \notin batch'[d]
    \/ /\ cur'[d] # o
       /\ o \in batch'[d] => o \in batch[d] /\ (cur[d] # o \/ phase[d] # "finish")

\* Steps that are about another order.
LEMMA LatestFrame ==
    ASSUME NEW o \in Orders, Latest(o),
           (o \in placed') = (o \in placed), status'[o] = status[o],
           request'[o] = request[o], content'[o] = content[o], held'[o] = held[o],
           known'[o] = known[o], sentCount'[o] = sentCount[o],
           \A d \in Dispatchers : Apart(d, o)
    PROVE  Latest(o)'
<1>1. Early(o)' /\ Told(o)'
  BY DEF Latest, Early, Told
<1>2. ASSUME NEW d \in Dispatchers PROVE Telling(d, o)'
  BY DEF Latest, Telling, Apart
<1>3. Unsent(o)'
  BY DEF Latest, Unsent, NextKey, Apart
<1>4. QED
  BY <1>1, <1>2, <1>3 DEF Latest

\* Steps of requests about the order itself, while no call works on it.
LEMMA RequestLatest ==
    ASSUME TypeOK, Ownership, NEW o \in Orders, Latest(o), ResendsFindRow,
           ChangesAreResent, ResendsRun,
           \/ Checkout(o) \/ Edit(o) \/ PaidByGateway(o) \/ AskResend(o)
           \/ ResendRead(o) \/ RequestFails(o)
    PROVE  Latest(o)'
<1>0. /\ UNCHANGED <<status, held, known, sentCount, cur, phase, saw, next, batch>>
      /\ \A d \in Dispatchers : Apart(d, o)
  BY DEF Checkout, Edit, PaidByGateway, AskResend, ResendRead, RequestFails, rowVars,
         erpVars, workerVars, Apart
<1>1. Unsent(o)'
  BY <1>0 DEF Latest, Unsent, NextKey
<1>2. CASE request'[o] # "idle" /\ request'[o] # "enqueue" /\ o \in placed'
  <2>1. Early(o)' /\ Told(o)'
    BY <1>2 DEF Early, Told
  <2>2. \A d \in Dispatchers : Telling(d, o)'
    BY <1>2 DEF Telling
  <2>3. QED
    BY <1>1, <2>1, <2>2 DEF Latest
<1>3. CASE status[o] = "none" /\ o \in placed'
  <2>1. \A d \in Dispatchers : cur[d] = o => phase[d] \notin Busy
    BY <1>3, Alone
  <2>2. Early(o)' /\ Told(o)'
    BY <1>0, <1>3 DEF Early, Told
  <2>3. \A d \in Dispatchers : Telling(d, o)'
    BY <1>0, <2>1 DEF Telling, Busy
  <2>4. QED
    BY <1>1, <2>2, <2>3 DEF Latest
<1>4. CASE Checkout(o)
  BY <1>3, <1>4 DEF Checkout, Latest, Early
<1>5. CASE Edit(o) \/ AskResend(o)
  BY <1>2, <1>5, EditTypes DEF Edit, AskResend, localVars
<1>9. CASE status[o] \in {"pending", "cancelling"} /\ o \in placed' /\ request'[o] # "enqueue"
  <2>1. \A d \in Dispatchers : cur[d] = o => phase[d] \notin Busy
    BY <1>9, Alone
  <2>2. Early(o)' /\ Told(o)'
    BY <1>0, <1>9 DEF Early, Told
  <2>3. \A d \in Dispatchers : Telling(d, o)'
    BY <1>0, <2>1 DEF Telling, Busy
  <2>4. QED
    BY <1>1, <2>2, <2>3 DEF Latest
<1>10. CASE PaidByGateway(o)
  <2>1. o \in placed /\ placed' = placed /\ request' = request /\ content'[o] # content[o]
    BY <1>10, EditTypes DEF PaidByGateway, callVars
  <2>2. request[o] # "idle" \/ status[o] \in {"none", "pending", "cancelling"}
    BY <2>1 DEF ChangesAreResent
  <2>3. request[o] = "enqueue" => status[o] = "none"
    BY DEF Latest, Early
  <2>4. QED
    BY <1>2, <1>3, <1>9, <2>1, <2>2, <2>3
<1>6. CASE ResendRead(o)
  <2>1. request[o] = "asked" /\ o \in placed /\ placed' = placed
    BY <1>6 DEF ResendRead, Latest, Early, localVars
  <2>2. status[o] # "processing" /\ request'[o] = IF status[o] = "none" THEN "enqueue" ELSE "mark"
    BY <1>6, <2>1, EditTypes DEF ResendRead, ResendsFindRow
  <2>3. QED
    BY <1>2, <1>3, <2>1, <2>2
<1>7. CASE RequestFails(o)
  <2>1. /\ request[o] \in {"enqueue", "asked", "mark"} /\ request'[o] = "idle"
        /\ placed' = placed /\ o \in placed
    BY <1>7, EditTypes DEF RequestFails, Latest, Early, localVars
  <2>2. CASE request[o] = "enqueue"
    BY <1>3, <2>1, <2>2 DEF Latest, Early
  <2>3. CASE request[o] # "enqueue"
    BY <1>0, <1>9, <2>1, <2>3 DEF ResendsFindRow, ResendsRun
  <2>4. QED
    BY <2>2, <2>3
<1>8. QED
  BY <1>4, <1>5, <1>6, <1>7, <1>10

\* The writes of those requests put the order back in the queue, or it is there.
LEMMA QueueLatest ==
    ASSUME TypeOK, Ownership, NEW o \in Orders, Latest(o), ResendsFindRow,
           NEW d \in Dispatchers, Enqueue(o, d) \/ ResendMark(o, d)
    PROVE  Latest(o)'
<1>1. /\ request[o] \in {"enqueue", "mark"} /\ request'[o] = "idle" /\ o \in placed
      /\ placed' = placed /\ StartDispatch(d)
      /\ UNCHANGED <<held, known, sentCount>>
  BY EditTypes DEF Enqueue, ResendMark, InsertRow, MarkForResend, Latest, Early, localVars,
                   erpVars
<1>2. status[o] # "processing" /\ status'[o] \in {"pending", "cancelling"}
  <2>1. CASE Enqueue(o, d)
    BY <2>1, EditTypes DEF Enqueue, InsertRow, Latest, Early
  <2>2. CASE ResendMark(o, d)
    <3>1. status[o] # "processing"
      BY <1>1, <2>2 DEF ResendMark, ResendsFindRow
    <3>2. QED
      BY <2>2, <3>1, EditTypes DEF ResendMark, MarkForResend
  <2>3. QED
    BY <2>1, <2>2
<1>3. ASSUME NEW e \in Dispatchers
      PROVE  cur'[e] = o => phase'[e] \notin {"send", "finish"}
  BY <1>1, <1>2, Alone, EditTypes DEF StartDispatch, Between, Busy
<1>4. Early(o)' /\ Told(o)' /\ \A e \in Dispatchers : Telling(e, o)'
  BY <1>1, <1>2, <1>3 DEF Early, Told, Telling
<1>5. Unsent(o)'
  BY <1>1, <1>2 DEF Latest, Unsent, NextKey
<1>6. QED
  BY <1>4, <1>5 DEF Latest

\* A call starts, claims, opens a row or reads it.
LEMMA CallLatest ==
    ASSUME TypeOK, Ownership, NEW o \in Orders, Latest(o), NEW d \in Dispatchers,
           \/ OtherTrigger(d) \/ Claim(d) \/ NextRow(d) \/ NextRowImpossible(d)
           \/ AttemptCancel(d) \/ AttemptRead(d) \/ AttemptNoStock(d) \/ Crash(d)
    PROVE  Latest(o)'
<1>0. /\ status \in [Orders -> RowStatuses] /\ phase \in [Dispatchers -> Phases]
      /\ batch \in [Dispatchers -> SUBSET Orders]
      /\ cur \in [Dispatchers -> Orders \cup {None}]
      /\ saw \in [Dispatchers -> Nat] /\ next \in [Dispatchers -> RowStatuses]
      /\ live \in [Orders -> SUBSET Versions]
      /\ \A e \in Dispatchers : phase[e] \in Busy => cur[e] \in Orders
  BY DEF TypeOK
\* A call that holds nothing afterwards.
<1>1. ASSUME NEW p, Between(d, p, {}, {}) PROVE \A e \in Dispatchers : Apart(e, o)
  BY <1>0, <1>1 DEF Between, Apart
<1>2. CASE OtherTrigger(d) \/ Crash(d)
  <2>1. UNCHANGED <<placed, status, request, content, held, known, sentCount>>
    BY <1>2 DEF OtherTrigger, Crash, localVars, rowVars, callVars, erpVars
  <2>2. QED
    BY <1>1, <1>2, <2>1, LatestFrame DEF OtherTrigger, StartDispatch, Crash
<1>3. CASE Claim(d)
  <2>1. PICK rows \in SUBSET Claimable :
           /\ status' = [x \in Orders |-> IF x \in rows THEN "processing" ELSE status[x]]
           /\ Between(d, IF rows = {} THEN "idle" ELSE "next", rows,
                      {x \in rows : status[x] = "cancelling"})
    BY <1>3 DEF Claim
  <2>2. UNCHANGED <<placed, request, content, held, known, sentCount>>
    BY <1>3 DEF Claim, localVars, callVars, erpVars
  <2>3. /\ batch'[d] = rows /\ cur'[d] # o
        /\ \A e \in Dispatchers \ {d} :
              /\ cur'[e] = cur[e] /\ phase'[e] = phase[e] /\ saw'[e] = saw[e]
              /\ next'[e] = next[e] /\ batch'[e] = batch[e]
    BY <1>0, <2>1 DEF Between
  <2>4. CASE o \notin rows
    <3>1. status'[o] = status[o]
      BY <1>0, <2>1, <2>4
    <3>2. \A e \in Dispatchers : Apart(e, o)
      BY <2>3, <2>4 DEF Apart
    <3>3. QED
      BY <2>2, <3>1, <3>2, LatestFrame
  <2>5. CASE o \in rows
    <3>1. status[o] \in {"pending", "cancelling"} /\ status'[o] = "processing"
      BY <1>0, <2>1, <2>5 DEF Claimable
    <3>2. Early(o)' /\ Told(o)'
      BY <2>2, <3>1 DEF Latest, Early, Told
    <3>3. \A e \in Dispatchers : Telling(e, o)'
      BY <2>2, <2>3 DEF Latest, Telling
    <3>4. Unsent(o)'
      BY <2>2, <3>1 DEF Latest, Unsent, NextKey
    <3>5. QED
      BY <3>2, <3>3, <3>4 DEF Latest
  <2>6. QED
    BY <2>4, <2>5
\* Steps of an open row that change neither row nor batch, nor what was created.
<1>4. ASSUME UNCHANGED <<placed, status, request, content, held, known, sentCount, batch>>,
             \A e \in Dispatchers \ {d} :
                /\ cur'[e] = cur[e] /\ phase'[e] = phase[e] /\ saw'[e] = saw[e]
                /\ next'[e] = next[e],
             cur'[d] \in batch[d],
             phase[d] # "finish",
             phase'[d] = "send" => saw'[d] = content[cur'[d]],
             ~ (phase'[d] = "finish" /\ next'[d] = "sent")
      PROVE  Latest(o)'
  <2>1. Early(o)' /\ Told(o)'
    BY <1>4 DEF Latest, Early, Told
  <2>2. \A e \in Dispatchers : Telling(e, o)'
    BY <1>4 DEF Latest, Telling
  <2>3. Unsent(o)'
    BY <1>4 DEF Latest, Unsent, NextKey
  <2>4. QED
    BY <2>1, <2>2, <2>3 DEF Latest
<1>5. CASE NextRow(d)
  <2>1. PICK p \in batch[d] :
           /\ cur' = [cur EXCEPT ![d] = p]
           /\ phase' = [phase EXCEPT ![d] =
                 IF p \in resend[d] /\ extId[p] # 0 THEN "cancel" ELSE "read"]
    BY <1>5 DEF NextRow
  <2>2. /\ phase[d] = "next"
        /\ UNCHANGED <<placed, status, request, content, held, known, sentCount, batch,
                       saw, next>>
    BY <1>5 DEF NextRow, localVars, rowVars, callVars, erpVars
  <2>3. cur'[d] \in batch[d] /\ phase'[d] \in {"cancel", "read"}
    BY <1>0, <2>1
  <2>4. \A e \in Dispatchers \ {d} : cur'[e] = cur[e] /\ phase'[e] = phase[e]
    BY <1>0, <2>1
  <2>5. QED
    BY <1>4, <2>2, <2>3, <2>4
<1>6. CASE NextRowImpossible(d)
  <2>1. PICK p \in batch[d] : cur' = [cur EXCEPT ![d] = p]
    BY <1>6 DEF NextRowImpossible
  <2>2. /\ phase[d] = "next"
        /\ UNCHANGED <<placed, status, request, content, held, known, sentCount, batch, saw>>
        /\ phase' = [phase EXCEPT ![d] = "finish"] /\ next' = [next EXCEPT ![d] = "failed"]
    BY <1>6 DEF NextRowImpossible, localVars, rowVars, callVars, erpVars
  <2>3. cur'[d] \in batch[d] /\ phase'[d] = "finish" /\ next'[d] = "failed"
    BY <1>0, <2>1, <2>2
  <2>4. \A e \in Dispatchers \ {d} :
           cur'[e] = cur[e] /\ phase'[e] = phase[e] /\ next'[e] = next[e]
    BY <1>0, <2>1, <2>2
  <2>5. QED
    BY <1>4, <2>2, <2>3, <2>4
<1>7. ASSUME phase[d] \in Busy PROVE cur[d] \in batch[d] /\ cur[d] \in Orders
  BY <1>0, <1>7 DEF Ownership, Claimed
\* A failed attempt sent nothing.
<1>8. ASSUME NEW refused \in BOOLEAN, Fails(d, refused)
      PROVE  /\ phase'[d] = "finish" /\ next'[d] # "sent"
             /\ \A e \in Dispatchers \ {d} : phase'[e] = phase[e] /\ next'[e] = next[e]
  BY <1>0, <1>8 DEF Fails, Failure
<1>9. CASE AttemptCancel(d)
  <2>1. PICK outcome \in Outcomes :
           /\ ErpCancel(cur[d], active[d], outcome)
           /\ IF outcome = "ok"
              THEN phase' = [phase EXCEPT ![d] = "read"] /\ UNCHANGED next
              ELSE Fails(d, outcome = "refused")
    BY <1>9 DEF AttemptCancel
  <2>2. /\ phase[d] = "cancel"
        /\ UNCHANGED <<placed, status, request, content, sentCount, batch, cur, saw>>
    BY <1>9 DEF AttemptCancel, localVars, rowVars, callVars
  <2>3. cur[d] \in batch[d] /\ cur[d] \in Orders
    BY <1>7, <2>2 DEF Busy
  <2>4. UNCHANGED <<known, held>>
    BY <1>0, <2>1, <2>3, ErpCancelEffect
  <2>5. CASE outcome = "ok"
    <3>1. phase' = [phase EXCEPT ![d] = "read"] /\ next' = next
      BY <2>1, <2>5
    <3>2. phase'[d] = "read" /\ \A e \in Dispatchers \ {d} : phase'[e] = phase[e]
      BY <1>0, <3>1
    <3>3. QED
      BY <1>4, <2>2, <2>3, <2>4, <3>1, <3>2
  <2>6. CASE outcome # "ok"
    <3>1. Fails(d, outcome = "refused")
      BY <2>1, <2>6
    <3>2. QED
      BY <1>4, <1>8, <2>2, <2>3, <2>4, <3>1
  <2>7. QED
    BY <2>5, <2>6
<1>10. CASE AttemptRead(d)
  <2>1. /\ phase[d] = "read"
        /\ UNCHANGED <<placed, status, request, content, held, known, sentCount, batch,
                       cur, next>>
        /\ phase' = [phase EXCEPT ![d] = "send"]
        /\ saw' = [saw EXCEPT ![d] = content[cur[d]]]
    BY <1>10 DEF AttemptRead, localVars, rowVars, callVars, erpVars
  <2>2. phase'[d] = "send" /\ saw'[d] = content[cur[d]]
        /\ \A e \in Dispatchers \ {d} : phase'[e] = phase[e] /\ saw'[e] = saw[e]
    BY <1>0, <2>1
  <2>3. QED
    BY <1>4, <1>7, <2>1, <2>2 DEF Busy
<1>11. CASE AttemptNoStock(d)
  <2>1. /\ phase[d] = "send" /\ Fails(d, FALSE)
        /\ UNCHANGED <<placed, status, request, content, held, known, sentCount, batch,
                       cur, saw>>
    BY <1>11 DEF AttemptNoStock, localVars, rowVars, callVars, erpVars
  <2>2. QED
    BY <1>4, <1>7, <1>8, <2>1 DEF Busy
<1>12. QED
  BY <1>2, <1>3, <1>5, <1>6, <1>9, <1>10, <1>11

\* A send that is answered leaves the ERP with the content it read.
LEMMA SendLatest ==
    ASSUME TypeOK, Ownership, NEW o \in Orders, Latest(o), SendsAreAnswered,
           NEW d \in Dispatchers, AttemptSend(d)
    PROVE  Latest(o)'
<1>0. /\ phase \in [Dispatchers -> Phases] /\ next \in [Dispatchers -> RowStatuses]
      /\ known \in [Orders -> SUBSET Versions] /\ held \in [Orders -> Nat]
      /\ cur[d] \in Orders /\ cur[d] \in batch[d] /\ phase[d] = "send"
  BY DEF TypeOK, Ownership, Claimed, AttemptSend, Busy
<1>1. UNCHANGED <<placed, status, request, content, sentCount, batch, cur, saw>>
  BY DEF AttemptSend, localVars, rowVars, callVars
<1>2. PICK outcome \in Outcomes :
         /\ ErpSend(cur[d], NextKey(cur[d]), saw[d], outcome)
         /\ IF outcome = "ok"
            THEN /\ phase' = [phase EXCEPT ![d] = "finish"]
                 /\ next' = [next EXCEPT ![d] = "sent"]
            ELSE Fails(d, outcome = "refused")
  BY DEF AttemptSend
<1>3. /\ phase'[d] = "finish"
      /\ outcome # "ok" => next'[d] # "sent"
      /\ \A e \in Dispatchers \ {d} : phase'[e] = phase[e] /\ next'[e] = next[e]
  BY <1>0, <1>2 DEF Fails, Failure
<1>4. \/ /\ NextKey(cur[d]) \notin known[cur[d]]
         /\ known' = [known EXCEPT ![cur[d]] = @ \cup {NextKey(cur[d])}]
         /\ held' = [held EXCEPT ![cur[d]] = saw[d]]
      \/ /\ NextKey(cur[d]) \in known[cur[d]] \/ outcome # "ok"
         /\ UNCHANGED <<known, held>>
  BY <1>2 DEF ErpSend, erpVars
<1>5. CASE o # cur[d]
  <2>1. known'[o] = known[o] /\ held'[o] = held[o]
    BY <1>0, <1>4, <1>5
  <2>2. \A e \in Dispatchers : Apart(e, o)
    BY <1>1, <1>3, <1>5 DEF Apart
  <2>3. QED
    BY <1>1, <2>1, <2>2, LatestFrame
<1>6. CASE o = cur[d]
  <2>1. status[o] = "processing" /\ NextKey(o) \notin known[o]
    BY <1>0, <1>6, Alone DEF Latest, Unsent
  <2>2. \A e \in Dispatchers \ {d} : o \notin batch[e] /\ (cur[e] = o => phase[e] \notin Busy)
    BY <1>0, <1>6, Alone
  <2>3. Early(o)' /\ Told(o)'
    BY <1>1, <2>1 DEF Latest, Early, Told
  <2>4. \A e \in Dispatchers \ {d} : Telling(e, o)'
    BY <1>1, <1>3, <2>2 DEF Telling, Busy
  <2>5. CASE outcome = "ok"
    <3>1. /\ held'[o] = saw[d] /\ next'[d] = "sent"
          /\ known'[o] = known[o] \cup {NextKey(o)}
      BY <1>0, <1>2, <1>4, <1>6, <2>1, <2>5
    <3>2. request[o] # "idle" \/ saw[d] = content[o]
      BY <1>0, <1>6 DEF Latest, Telling
    <3>3. Telling(d, o)'
      BY <1>1, <1>3, <3>1, <3>2 DEF Telling
    <3>4. Unsent(o)'
      BY <1>1, <1>3, <1>6, <2>1, <2>2, <3>1 DEF Unsent
    <3>5. QED
      BY <2>3, <2>4, <3>3, <3>4 DEF Latest
  <2>6. CASE outcome # "ok"
    <3>1. known'[o] = known[o]
      <4>1. SUFFICES ASSUME known'[o] # known[o] PROVE FALSE
        OBVIOUS
      <4>2. PICK e \in Dispatchers : cur[e] = o /\ phase[e] = "send" /\ next'[e] = "sent"
        BY <4>1 DEF SendsAreAnswered
      <4>3. e = d
        BY <2>2, <4>2 DEF Busy
      <4>4. QED
        BY <1>3, <2>6, <4>2, <4>3
    <3>2. Telling(d, o)'
      BY <1>3, <2>6 DEF Telling
    <3>3. Unsent(o)'
      BY <1>1, <2>1, <3>1 DEF Unsent, NextKey
    <3>4. QED
      BY <2>3, <2>4, <3>2, <3>3 DEF Latest
  <2>7. QED
    BY <2>5, <2>6
<1>7. QED
  BY <1>5, <1>6

\* Its finish records the version it used, so that the next one is new.
LEMMA FinishLatest ==
    ASSUME TypeOK, Ownership, NEW o \in Orders, Latest(o), Recorded(o),
           NEW d \in Dispatchers, Finish(d)
    PROVE  Latest(o)'
<1>0. /\ status \in [Orders -> RowStatuses] /\ sentCount \in [Orders -> Nat]
      /\ phase \in [Dispatchers -> Phases] /\ batch \in [Dispatchers -> SUBSET Orders]
      /\ cur \in [Dispatchers -> Orders \cup {None}]
      /\ saw \in [Dispatchers -> Nat] /\ next \in [Dispatchers -> RowStatuses]
      /\ phase[d] = "finish" /\ cur[d] \in Orders /\ cur[d] \in batch[d]
  BY DEF TypeOK, Ownership, Claimed, Finish, Busy
<1>1. /\ UNCHANGED <<placed, request, content, known, held>>
      /\ status' = [status EXCEPT ![cur[d]] = next[d]]
      /\ sentCount' = [sentCount EXCEPT ![cur[d]] = IF next[d] = "sent" THEN @ + 1 ELSE @]
  BY DEF Finish, localVars, callVars, erpVars
<1>2. /\ batch'[d] = batch[d] \ {cur[d]} /\ cur'[d] # o
      /\ \A e \in Dispatchers \ {d} :
            /\ cur'[e] = cur[e] /\ phase'[e] = phase[e] /\ saw'[e] = saw[e]
            /\ next'[e] = next[e] /\ batch'[e] = batch[e]
  BY <1>0 DEF Finish, Between
<1>3. CASE o # cur[d]
  <2>1. status'[o] = status[o] /\ sentCount'[o] = sentCount[o]
    BY <1>0, <1>1, <1>3
  <2>2. \A e \in Dispatchers : Apart(e, o)
    BY <1>2, <1>3 DEF Apart
  <2>3. QED
    BY <1>1, <2>1, <2>2, LatestFrame
<1>4. CASE o = cur[d]
  <2>1. status[o] = "processing" /\ status'[o] = next[d]
    BY <1>0, <1>1, <1>4, Alone
  <2>2. \A e \in Dispatchers \ {d} : o \notin batch[e] /\ (cur[e] = o => phase[e] \notin Busy)
    BY <1>0, <1>4, Alone
  <2>3. next[d] = "sent" => request[o] # "idle" \/ held[o] = content[o]
    BY <1>0, <1>4 DEF Latest, Telling
  <2>4. Early(o)' /\ Told(o)'
    BY <1>1, <2>1, <2>3 DEF Latest, Early, Told
  <2>5. \A e \in Dispatchers : Telling(e, o)'
    BY <1>2, <2>2 DEF Telling, Busy
  <2>6. NextKey(o)' \notin known'[o]
    <3>1. CASE next[d] = "sent"
      <4>1. NextKey(o)' = NextKey(o) + 1 /\ NextKey(o) \in Nat
        BY <1>0, <1>1, <1>4, <3>1 DEF NextKey
      <4>2. QED
        BY <1>1, <4>1 DEF Recorded
    <3>2. CASE next[d] # "sent"
      <4>1. NextKey(o)' = NextKey(o)
        BY <1>0, <1>1, <1>4, <3>2 DEF NextKey
      <4>2. QED
        BY <1>0, <1>1, <1>4, <3>2, <4>1 DEF Latest, Unsent
    <3>3. QED
      BY <3>1, <3>2
  <2>7. QED
    BY <2>4, <2>5, <2>6 DEF Latest, Unsent
<1>5. QED
  BY <1>3, <1>4

\* Every step keeps it, for an order that is not cancelled.
LEMMA LatestStep ==
    ASSUME IInv, [Next]_vars, [NothingIsMissed]_vars,
           NEW o \in Orders, o \notin cancelled, o \notin cancelled', Latest(o)
    PROVE  Latest(o)'
<1>0. TypeOK /\ Ownership /\ CancelsFollow /\ Recorded(o)
  BY DEF IInv, Mirrored
<1>1. CASE UNCHANGED vars
  <2>1. /\ UNCHANGED <<placed, status, request, content, held, known, sentCount>>
        /\ UNCHANGED <<cur, phase, saw, next, batch>>
    BY <1>1 DEF vars, localVars, rowVars, callVars, erpVars, workerVars
  <2>2. QED
    BY <2>1, LatestFrame DEF Apart
<1>2. CASE Next /\ NothingIsMissed
  <2>1. ASSUME NEW p \in Orders,
               \/ Checkout(p) \/ Edit(p) \/ PaidByGateway(p) \/ AskResend(p)
               \/ ResendRead(p) \/ RequestFails(p)
        PROVE  Latest(o)'
    <3>1. CASE p = o
      BY <1>0, <1>2, <2>1, <3>1, RequestLatest DEF NothingIsMissed
    <3>2. CASE p # o
      <4>1. (o \in placed') = (o \in placed)
        BY <2>1, <3>2 DEF Checkout, Edit, PaidByGateway, AskResend, ResendRead,
                          RequestFails, localVars
      <4>2. request'[o] = request[o] /\ content'[o] = content[o]
        BY <1>0, <2>1, <3>2, EditTypes
           DEF Checkout, Edit, PaidByGateway, AskResend, ResendRead, RequestFails,
               localVars, callVars
      <4>3. /\ UNCHANGED <<status, held, known, sentCount>>
            /\ UNCHANGED <<cur, phase, saw, next, batch>>
        BY <2>1 DEF Checkout, Edit, PaidByGateway, AskResend, ResendRead, RequestFails,
                    rowVars, erpVars, workerVars
      <4>4. QED
        BY <4>1, <4>2, <4>3, LatestFrame DEF Apart
    <3>3. QED
      BY <3>1, <3>2
  <2>2. ASSUME NEW p \in Orders, NEW d \in Dispatchers, Enqueue(p, d) \/ ResendMark(p, d)
        PROVE  Latest(o)'
    <3>1. CASE p = o
      BY <1>0, <1>2, <2>2, <3>1, QueueLatest DEF NothingIsMissed
    <3>2. CASE p # o
      <4>1. UNCHANGED <<placed, content, held, known, sentCount>> /\ StartDispatch(d)
        BY <2>2 DEF Enqueue, ResendMark, InsertRow, MarkForResend, localVars, erpVars
      <4>2. request'[o] = request[o]
        BY <1>0, <2>2, <3>2, EditTypes DEF Enqueue, ResendMark
      <4>3. status'[o] = status[o]
        BY <1>0, <2>2, <3>2, EditTypes DEF Enqueue, ResendMark, InsertRow, MarkForResend
      <4>4. \A e \in Dispatchers : Apart(e, o)
        BY <1>0, <4>1, EditTypes DEF StartDispatch, Between, Apart
      <4>5. QED
        BY <4>1, <4>2, <4>3, <4>4, LatestFrame
    <3>3. QED
      BY <3>1, <3>2
  <2>3. ASSUME NEW p \in Orders, CancelOrder(p) \/ CancelRead(p) \/ BackoffElapses(p)
        PROVE  Latest(o)'
    <3>1. /\ UNCHANGED <<placed, status, request, content, held, known, sentCount>>
          /\ UNCHANGED <<cur, phase, saw, next, batch>>
      BY <2>3 DEF CancelOrder, CancelRead, BackoffElapses, localVars, rowVars, callVars,
                  erpVars, workerVars
    <3>2. QED
      BY <3>1, LatestFrame DEF Apart
  <2>4. ASSUME NEW p \in Orders, CancelCall(p) PROVE Latest(o)'
    <3>1. PICK outcome \in Outcomes : ErpCancel(p, cExt[p], outcome)
      BY <2>4 DEF CancelCall
    <3>2. UNCHANGED <<known, held>>
      BY <1>0, <3>1, MirrorTypes, ErpCancelEffect
    <3>3. /\ UNCHANGED <<placed, status, request, content, sentCount>>
          /\ UNCHANGED <<cur, phase, saw, next, batch>>
      BY <2>4 DEF CancelCall, localVars, rowVars, callVars, workerVars
    <3>4. QED
      BY <3>2, <3>3, LatestFrame DEF Apart
  <2>5. ASSUME NEW p \in Orders, CancelMark(p) PROVE Latest(o)'
    <3>1. p # o
      BY <1>0, <2>5 DEF CancelMark, CancelsFollow
    <3>2. status'[o] = status[o]
      BY <1>0, <2>5, <3>1, EditTypes DEF CancelMark
    <3>3. /\ UNCHANGED <<placed, request, content, held, known, sentCount>>
          /\ UNCHANGED <<cur, phase, saw, next, batch>>
      BY <2>5 DEF CancelMark, localVars, callVars, erpVars, workerVars
    <3>4. QED
      BY <3>2, <3>3, LatestFrame DEF Apart
  <2>6. ASSUME NEW d \in Dispatchers, OtherTrigger(d) \/ WorkerStep(d) \/ Crash(d)
        PROVE  Latest(o)'
    BY <1>0, <1>2, <2>6, CallLatest, SendLatest, FinishLatest
       DEF WorkerStep, NothingIsMissed
  <2>7. QED
    BY <1>2, <2>1, <2>2, <2>3, <2>4, <2>5, <2>6 DEF Next, RequestStep, CancellerStep
<1>3. QED
  BY <1>1, <1>2

\* What a change of an order that is not cancelled takes to be lost: a resend that
\* meets its row in 'processing', a send that took effect unanswered, a resend that
\* throws or is cut short, or a payment that asks for none.  Without those a row at
\* rest in 'sent' stands for an ERP order with the latest content (what marking as
\* paid resends an order for).
THEOREM EditsAreSent ==
    Spec /\ [][NothingIsMissed]_vars => []SentReflectsLatestEdit
<1> DEFINE Live == \A o \in Orders \ cancelled : Latest(o)
<1>1. Init => Live
  BY DEF Init, Latest, Early, Told, Telling, Unsent, NextKey
<1>2. IInv /\ Live /\ [Next]_vars /\ [NothingIsMissed]_vars => Live'
  <2> SUFFICES ASSUME IInv, Live, [Next]_vars, [NothingIsMissed]_vars,
                      NEW o \in Orders \ cancelled'
               PROVE  Latest(o)'
    OBVIOUS
  <2>1. o \notin cancelled
    BY DEF Next, RequestStep, CancellerStep, WorkerStep, Checkout, Edit, PaidByGateway,
           AskResend, CancelOrder, ResendRead, RequestFails, CancelRead, CancelCall,
           CancelMark, BackoffElapses, Enqueue, ResendMark, OtherTrigger, Claim,
           NextRow, NextRowImpossible, AttemptCancel, AttemptRead, AttemptNoStock,
           AttemptSend, Finish, Crash, vars, localVars
  <2>2. QED
    BY <2>1, LatestStep
<1>3. Live => SentReflectsLatestEdit
  BY DEF Latest, Told, SentReflectsLatestEdit
<1> HIDE DEF Live
<1>4. QED
  BY <1>1, <1>2, <1>3, Inductive, PTL DEF Spec

-----------------------------------------------------------------------------
(* Orders alive at the ERP that the row has forgotten.                     *)

USE DEF localVars, rowVars, callVars, cancelVars, workerVars, erpVars

\* orderPushService.ts:128-161: when a cancel clears the row, the row still names
\* what the cancel read before its call to the ERP.
CancelsAreCurrent ==
    \A o \in Orders :
        CancelMark(o) /\ status[o] # "processing" => extId[o] = cExt[o]

\* What a cancel read is no later than the last recorded send, and is not alive
\* once the cancel goes on to the row.
Withdrawn(o) ==
    /\ cExt[o] < NextKey(o)
    /\ cPhase[o] = "mark" => cExt[o] \notin live[o]

\* As Mirrored, for cancelled orders as well.
Kept == \A o \in Orders : Mirrored(o) /\ Withdrawn(o)

\* The types the argument about a cancel needs.
LEMMA CancelTypes ==
    ASSUME TypeOK
    PROVE  /\ cPhase \in [Orders -> {"idle", "read", "call", "mark"}]
           /\ cExt \in [Orders -> Nat] /\ extId \in [Orders -> Nat]
           /\ status \in [Orders -> RowStatuses] /\ sentCount \in [Orders -> Nat]
           /\ saw \in [Dispatchers -> Nat] /\ held \in [Orders -> Nat]
           /\ known \in [Orders -> SUBSET Versions] /\ live \in [Orders -> SUBSET Versions]
  BY DEF TypeOK

\* What a cancel withdraws at the ERP is never what the next send would use.
LEMMA CallKeeps ==
    ASSUME TypeOK, NEW o \in Orders, Mirrored(o), Withdrawn(o), CancelCall(o)
    PROVE  Mirrored(o)'
<1>0. /\ extId[o] \in Nat /\ cExt[o] \in Nat /\ NextKey(o) \in Nat \ {0}
      /\ live \in [Orders -> SUBSET Versions]
  BY CancelTypes DEF NextKey
<1>1. PICK outcome \in Outcomes : ErpCancel(o, cExt[o], outcome)
  BY DEF CancelCall
<1>2. /\ UNCHANGED <<status, extId, sentCount, known>> /\ UNCHANGED workerVars
      /\ live'[o] = live[o] \/ live'[o] = live[o] \ {cExt[o]}
  BY <1>0, <1>1, ErpCancelEffect DEF CancelCall
<1>3. cExt[o] # NextKey(o) /\ NextKey(o)' = NextKey(o)
  BY <1>0, <1>2 DEF Withdrawn, NextKey
<1>4. live'[o] \subseteq live[o] /\ (live[o] = {NextKey(o)} => live'[o] = {NextKey(o)})
  BY <1>2, <1>3
<1>5. Recorded(o)'
  <2>1. Recorded(o)
    BY DEF Mirrored
  <2>2. QED
    BY <1>2, <1>3, <1>4, <2>1 DEF Recorded
<1>6. ASSUME NEW d \in Dispatchers PROVE Attempt(d, o)'
  <2>1. Attempt(d, o)
    BY DEF Mirrored
  <2>2. QED
    BY <1>2, <1>3, <1>4, <2>1 DEF Attempt
<1>7. QED
  BY <1>5, <1>6 DEF Mirrored

\* A cancel that clears what it withdrew leaves nothing alive but, maybe, what the
\* next send repeats; the row is in nobody's batch.
LEMMA MarkKeeps ==
    ASSUME TypeOK, Ownership, NEW o \in Orders, Mirrored(o), Withdrawn(o),
           CancelMark(o), status[o] # "processing" => extId[o] = cExt[o]
    PROVE  Mirrored(o)'
<1>0. /\ extId \in [Orders -> Nat] /\ status \in [Orders -> RowStatuses]
      /\ NextKey(o) \in Nat \ {0}
  BY CancelTypes DEF NextKey
<1>1. /\ cPhase[o] = "mark" /\ UNCHANGED <<sentCount, known, live>> /\ UNCHANGED workerVars
  BY DEF CancelMark
<1>2. CASE status[o] = "processing"
  <2>1. status' = status /\ extId' = extId
    BY <1>2 DEF CancelMark
  <2>2. QED
    BY <1>1, <2>1, MirrorFrame
<1>3. CASE status[o] # "processing"
  <2>1. status'[o] = "cancelled" /\ extId'[o] = 0 /\ NextKey(o)' = NextKey(o)
    BY <1>0, <1>1, <1>3 DEF CancelMark, NextKey
  <2>2. live[o] \subseteq {NextKey(o)}
    BY <1>1, <1>3 DEF Mirrored, Recorded, Withdrawn
  <2>3. Recorded(o)'
    <3>1. Recorded(o)
      BY DEF Mirrored
    <3>2. QED
      BY <1>0, <1>1, <2>1, <2>2, <3>1 DEF Recorded
  <2>4. ASSUME NEW d \in Dispatchers PROVE Attempt(d, o)'
    <3>1. o \notin batch[d] /\ (phase[d] \in Busy => cur[d] # o)
      BY <1>3 DEF Ownership, Claimed
    <3>2. QED
      BY <1>1, <3>1 DEF Attempt, Busy
  <2>5. QED
    BY <2>3, <2>4 DEF Mirrored
<1>4. QED
  BY <1>2, <1>3

\* Withdrawn lasts while its cancel does nothing: only the next key comes alive.
LEMMA WithdrawnFrame ==
    ASSUME TypeOK, NEW o \in Orders, Withdrawn(o),
           cExt'[o] = cExt[o], cPhase'[o] = cPhase[o] \/ cPhase'[o] # "mark",
           sentCount'[o] = sentCount[o] \/ sentCount'[o] = sentCount[o] + 1,
           live'[o] \subseteq live[o] \cup {NextKey(o)}
    PROVE  Withdrawn(o)'
<1>1. cExt[o] \in Nat /\ sentCount[o] \in Nat
  BY CancelTypes
<1>2. cExt[o] # NextKey(o) /\ (cExt[o] < NextKey(o))'
  BY <1>1 DEF Withdrawn, NextKey
<1>3. QED
  BY <1>2 DEF Withdrawn

LEMMA WithdrawnStep ==
    ASSUME TypeOK, [Next]_vars, NEW o \in Orders, Recorded(o), Withdrawn(o)
    PROVE  Withdrawn(o)'
<1>0. /\ cPhase \in [Orders -> {"idle", "read", "call", "mark"}]
      /\ cExt \in [Orders -> Nat] /\ extId \in [Orders -> Nat]
      /\ sentCount \in [Orders -> Nat]
      /\ saw \in [Dispatchers -> Nat] /\ held \in [Orders -> Nat]
      /\ known \in [Orders -> SUBSET Versions] /\ live \in [Orders -> SUBSET Versions]
  BY CancelTypes
<1>1. CASE UNCHANGED <<cPhase, cExt, sentCount, live>>
  BY <1>1, WithdrawnFrame
<1>2. ASSUME NEW p \in Orders, CancelOrder(p) \/ CancelMark(p) PROVE Withdrawn(o)'
  <2>1. UNCHANGED <<cExt, sentCount, live>>
    BY <1>2 DEF CancelOrder, CancelMark
  <2>2. cPhase'[o] = cPhase[o] \/ cPhase'[o] # "mark"
    BY <1>0, <1>2 DEF CancelOrder, CancelMark
  <2>3. QED
    BY <2>1, <2>2, WithdrawnFrame
<1>3. ASSUME NEW p \in Orders, CancelRead(p) PROVE Withdrawn(o)'
  <2>1. UNCHANGED <<sentCount, live>>
    BY <1>3 DEF CancelRead
  <2>2. CASE o # p
    <3>1. cExt'[o] = cExt[o] /\ cPhase'[o] = cPhase[o]
      BY <1>0, <1>3, <2>2 DEF CancelRead
    <3>2. QED
      BY <2>1, <3>1, WithdrawnFrame
  <2>3. CASE o = p
    <3>1. cExt'[o] = extId[o] /\ (cPhase'[o] = "mark" => extId[o] = 0)
      BY <1>0, <1>3, <2>3 DEF CancelRead
    <3>2. 0 \notin live[o] /\ extId[o] < NextKey(o)
      BY <1>0 DEF Versions, Recorded
    <3>3. QED
      BY <2>1, <3>1, <3>2 DEF Withdrawn, NextKey
  <2>4. QED
    BY <2>2, <2>3
<1>4. ASSUME NEW p \in Orders, CancelCall(p) PROVE Withdrawn(o)'
  <2>1. PICK outcome \in Outcomes :
           /\ ErpCancel(p, cExt[p], outcome)
           /\ cPhase' = [cPhase EXCEPT ![p] = IF outcome = "ok" THEN "mark" ELSE "idle"]
    BY <1>4 DEF CancelCall
  <2>2. UNCHANGED <<cExt, sentCount>>
    BY <1>4 DEF CancelCall
  <2>3. /\ \A q \in Orders \ {p} : live'[q] = live[q]
        /\ live'[p] = live[p] \/ live'[p] = live[p] \ {cExt[p]}
        /\ outcome = "ok" => live'[p] = live[p] \ {cExt[p]}
    BY <1>0, <2>1, ErpCancelEffect
  <2>4. CASE o # p
    BY <1>0, <2>1, <2>2, <2>3, <2>4, WithdrawnFrame
  <2>5. CASE o = p
    <3>1. cPhase'[o] = "mark" => outcome = "ok"
      BY <1>0, <2>1, <2>5
    <3>2. QED
      BY <2>2, <2>3, <2>5, <3>1 DEF Withdrawn, NextKey
  <2>6. QED
    BY <2>4, <2>5
<1>5. ASSUME NEW d \in Dispatchers, phase[d] \in Busy PROVE cur[d] \in Orders
  BY <1>5 DEF TypeOK
<1>6. ASSUME NEW d \in Dispatchers, AttemptCancel(d) PROVE Withdrawn(o)'
  <2>1. PICK outcome \in Outcomes : ErpCancel(cur[d], active[d], outcome)
    BY <1>6 DEF AttemptCancel
  <2>2. cur[d] \in Orders /\ UNCHANGED <<cPhase, cExt, sentCount>>
    BY <1>5, <1>6 DEF AttemptCancel, Busy
  <2>3. live'[o] \subseteq live[o]
    BY <1>0, <2>1, <2>2, ErpCancelEffect
  <2>4. QED
    BY <2>2, <2>3, WithdrawnFrame
<1>7. ASSUME NEW d \in Dispatchers, AttemptSend(d) PROVE Withdrawn(o)'
  <2>1. PICK outcome \in Outcomes : ErpSend(cur[d], NextKey(cur[d]), saw[d], outcome)
    BY <1>7 DEF AttemptSend
  <2>2. cur[d] \in Orders /\ UNCHANGED <<cPhase, cExt, sentCount>>
    BY <1>5, <1>7 DEF AttemptSend, Busy
  <2>3. live'[o] \subseteq live[o] \cup {NextKey(o)}
    <3>1. NextKey(cur[d]) \in Versions
      BY <1>0, <2>2 DEF NextKey, Versions
    <3>2. QED
      BY <1>0, <2>1, <2>2, <3>1, ErpSendEffect
  <2>4. QED
    BY <2>2, <2>3, WithdrawnFrame
<1>8. ASSUME NEW d \in Dispatchers, Finish(d) PROVE Withdrawn(o)'
  <2>1. UNCHANGED <<cPhase, cExt, live>>
    BY <1>8 DEF Finish
  <2>2. sentCount'[o] = sentCount[o] \/ sentCount'[o] = sentCount[o] + 1
    BY <1>0, <1>8 DEF Finish
  <2>3. QED
    BY <2>1, <2>2, WithdrawnFrame
<1>9. QED
  BY <1>1, <1>2, <1>3, <1>4, <1>6, <1>7, <1>8
     DEF Next, RequestStep, CancellerStep, WorkerStep, Checkout, Edit, PaidByGateway,
         AskResend, ResendRead, RequestFails, BackoffElapses, Enqueue, ResendMark,
         InsertRow, MarkForResend, OtherTrigger, Claim, NextRow, NextRowImpossible,
         AttemptRead, AttemptNoStock, Crash, vars

\* What CancelsAreCurrent says of a step that clears a row.
LEMMA MarkIsCurrent ==
    ASSUME TypeOK, [CancelsAreCurrent]_vars, NEW o \in Orders
    PROVE  CancelMark(o) /\ status[o] # "processing" => extId[o] = cExt[o]
<1>1. CancelMark(o) => cPhase' # cPhase
  BY CancelTypes DEF CancelMark
<1>2. QED
  BY <1>1 DEF CancelsAreCurrent, vars

\* Under it what is kept of orders that are not cancelled is kept of all.
THEOREM KeptAlways == Spec /\ [][CancelsAreCurrent]_vars => []Kept
<1>1. Init => Kept
  <2> SUFFICES ASSUME Init, NEW o \in Orders PROVE Mirrored(o) /\ Withdrawn(o)
    BY DEF Kept
  <2>1. Recorded(o) /\ Withdrawn(o)
    BY DEF Init, Recorded, Withdrawn, NextKey
  <2>2. \A d \in Dispatchers : Attempt(d, o)
    BY DEF Init, Attempt
  <2>3. QED
    BY <2>1, <2>2 DEF Mirrored
<1>2. TypeOK /\ Ownership /\ Kept /\ [Next]_vars /\ [CancelsAreCurrent]_vars => Kept'
  <2> SUFFICES ASSUME TypeOK, Ownership, Kept, [Next]_vars, [CancelsAreCurrent]_vars,
                      NEW o \in Orders
               PROVE  Mirrored(o)' /\ Withdrawn(o)'
    BY DEF Kept
  <2>1. Mirrored(o) /\ Recorded(o) /\ Withdrawn(o)
    BY DEF Kept, Mirrored
  <2>2. CASE CancelCall(o)
    BY <2>1, <2>2, CallKeeps, WithdrawnStep
  <2>3. CASE CancelMark(o)
    BY <2>1, <2>3, MarkIsCurrent, MarkKeeps, WithdrawnStep
  <2>4. CASE ~CancelCall(o) /\ ~CancelMark(o)
    BY <2>1, <2>4, MirrorStep, WithdrawnStep
  <2>5. QED
    BY <2>2, <2>3, <2>4
<1>3. QED
  BY <1>1, <1>2, Occupied, PTL DEF Spec

\* Two orders of one local order are alive at the ERP only after a cancel cleared
\* an external_id that it had not asked the ERP to cancel: that of a resend which
\* completed between the cancel's read and its write.
THEOREM OnlyStaleCancelsDouble ==
    Spec /\ [][CancelsAreCurrent]_vars => []NeverTwoAtErp
<1>1. TypeOK /\ Kept => NeverTwoAtErp
  <2> SUFFICES ASSUME TypeOK, Kept, NEW o \in Orders, NEW u \in live[o], NEW v \in live[o]
               PROVE  u = v
    BY DEF NeverTwoAtErp
  <2>1. Recorded(o)
    BY DEF Kept, Mirrored
  <2>2. extId[o] \in Nat /\ NextKey(o) \in Nat
    BY CancelTypes DEF NextKey
  <2>3. QED
    BY <2>1, <2>2 DEF Recorded
<1>2. QED
  BY <1>1, KeptAlways, Occupied, PTL

-----------------------------------------------------------------------------
(* Cancelled rows.                                                         *)

\* A step that leaves the row and its ERP orders alone, and moves no attempt on the
\* row but by dropping it, leaves Unsent.
LEMMA UnsentFrame ==
    ASSUME NEW o \in Orders, Unsent(o),
           status'[o] = status[o], sentCount'[o] = sentCount[o], known'[o] = known[o],
           \A d \in Dispatchers :
              \/ o \notin batch'[d]
              \/ /\ batch'[d] = batch[d] /\ cur'[d] = cur[d]
                 /\ phase'[d] = phase[d] /\ next'[d] = next[d]
    PROVE  Unsent(o)'
  BY DEF Unsent, NextKey

\* While the ERP knows the next version key, only the call that sent it has the row,
\* and it is at its finish.
LEMMA UnsentElsewhere ==
    ASSUME NEW o \in Orders, Unsent(o), NEW d \in Dispatchers,
           phase[d] # "finish" \/ cur[d] # o, NextKey(o) \in known[o]
    PROVE  o \notin batch[d]
  BY DEF Unsent

\* An attempt that is not at its finish moves, and tells the ERP nothing.
LEMMA UnsentWork ==
    ASSUME NEW o \in Orders, Unsent(o), NEW d \in Dispatchers,
           phase[d] # "finish" \/ cur[d] # o,
           status'[o] = status[o], sentCount'[o] = sentCount[o], known'[o] = known[o],
           batch' = batch,
           \A e \in Dispatchers \ {d} :
              cur'[e] = cur[e] /\ phase'[e] = phase[e] /\ next'[e] = next[e]
    PROVE  Unsent(o)'
<1>1. CASE NextKey(o) \in known[o]
  BY <1>1, UnsentElsewhere, UnsentFrame
<1>2. CASE NextKey(o) \notin known[o]
  BY <1>2 DEF Unsent, NextKey
<1>3. QED
  BY <1>1, <1>2

LEMMA UnsentStep ==
    ASSUME TypeOK, Ownership, [Next]_vars, [SendsAreAnswered]_vars,
           NEW o \in Orders, Recorded(o), Unsent(o)
    PROVE  Unsent(o)'
<1>0. /\ status \in [Orders -> RowStatuses] /\ sentCount \in [Orders -> Nat]
      /\ saw \in [Dispatchers -> Nat] /\ held \in [Orders -> Nat]
      /\ known \in [Orders -> SUBSET Versions] /\ live \in [Orders -> SUBSET Versions]
      /\ phase \in [Dispatchers -> Phases]
      /\ batch \in [Dispatchers -> SUBSET Orders]
      /\ resend \in [Dispatchers -> SUBSET Orders]
      /\ cur \in [Dispatchers -> Orders \cup {None}]
      /\ active \in [Dispatchers -> Nat]
      /\ next \in [Dispatchers -> RowStatuses]
  BY CancelTypes, MirrorTypes
<1>1. ASSUME NEW d \in Dispatchers, NEW p, NEW b \in SUBSET Orders, NEW r, Between(d, p, b, r)
      PROVE  /\ batch'[d] = b
             /\ \A e \in Dispatchers \ {d} :
                   /\ batch'[e] = batch[e] /\ cur'[e] = cur[e]
                   /\ phase'[e] = phase[e] /\ next'[e] = next[e]
  BY <1>0, <1>1 DEF Between
<1>2. CASE UNCHANGED <<status, sentCount, known, workerVars>>
  BY <1>2, UnsentFrame
\* A row outside 'processing' is written: the ERP does not know the next key then.
<1>3. ASSUME NEW p \in Orders, CancelMark(p) PROVE Unsent(o)'
  <2>1. UNCHANGED <<sentCount, known>> /\ UNCHANGED workerVars
    BY <1>3 DEF CancelMark
  <2>2. status'[o] = status[o] \/ status[o] # "processing"
    BY <1>0, <1>3 DEF CancelMark
  <2>3. QED
    BY <2>1, <2>2, UnsentFrame DEF Unsent, NextKey
<1>4. ASSUME NEW p \in Orders, NEW d \in Dispatchers, Enqueue(p, d) \/ ResendMark(p, d)
      PROVE  Unsent(o)'
  <2>1. UNCHANGED <<sentCount, known>> /\ Between(d, "called", {}, {})
    BY <1>4 DEF Enqueue, ResendMark, InsertRow, MarkForResend, StartDispatch
  <2>2. status'[o] = status[o] \/ status[o] # "processing"
    BY <1>0, <1>4 DEF Enqueue, ResendMark, InsertRow, MarkForResend
  <2>3. CASE status'[o] = status[o]
    BY <1>1, <2>1, <2>3, UnsentFrame
  <2>4. CASE status[o] # "processing"
    BY <2>1, <2>4 DEF Unsent, NextKey
  <2>5. QED
    BY <2>2, <2>3, <2>4
<1>5. ASSUME NEW d \in Dispatchers, Claim(d) PROVE Unsent(o)'
  <2>1. PICK rows \in SUBSET Claimable :
           /\ status' = [x \in Orders |-> IF x \in rows THEN "processing" ELSE status[x]]
           /\ Between(d, IF rows = {} THEN "idle" ELSE "next", rows,
                      {x \in rows : status[x] = "cancelling"})
    BY <1>5 DEF Claim
  <2>2. UNCHANGED <<sentCount, known>>
    BY <1>5 DEF Claim
  <2>3. CASE o \in rows
    BY <2>2, <2>3 DEF Claimable, Unsent, NextKey
  <2>4. CASE o \notin rows
    <3>1. status'[o] = status[o]
      BY <2>1, <2>4
    <3>2. rows \in SUBSET Orders
      BY <1>0 DEF Claimable, TypeOK
    <3>3. QED
      BY <1>1, <2>1, <2>2, <2>4, <3>1, <3>2, UnsentFrame
  <2>5. QED
    BY <2>3, <2>4
<1>6. ASSUME NEW d \in Dispatchers, OtherTrigger(d) \/ Crash(d) PROVE Unsent(o)'
  <2>1. UNCHANGED <<status, sentCount, known>> /\ \E p : Between(d, p, {}, {})
    BY <1>6 DEF OtherTrigger, StartDispatch, Crash
  <2>2. QED
    BY <1>1, <2>1, UnsentFrame
<1>7. ASSUME NEW d \in Dispatchers, NextRow(d) \/ NextRowImpossible(d) \/ AttemptRead(d)
                                    \/ AttemptNoStock(d) \/ AttemptCancel(d)
      PROVE  Unsent(o)'
  <2>1. UNCHANGED <<status, sentCount, batch>> /\ phase[d] # "finish"
    BY <1>7 DEF NextRow, NextRowImpossible, AttemptRead, AttemptNoStock, AttemptCancel
  <2>2. UNCHANGED known
    BY <1>7 DEF NextRow, NextRowImpossible, AttemptRead, AttemptNoStock, AttemptCancel,
                ErpCancel
  <2>3. \A e \in Dispatchers \ {d} :
           cur'[e] = cur[e] /\ phase'[e] = phase[e] /\ next'[e] = next[e]
    <3>1. CASE NextRow(d) \/ NextRowImpossible(d) \/ AttemptRead(d)
      BY <1>0, <3>1 DEF NextRow, NextRowImpossible, AttemptRead
    <3>2. CASE AttemptNoStock(d)
      BY <1>0, <3>2 DEF AttemptNoStock, Fails
    <3>3. CASE AttemptCancel(d)
      BY <1>0, <3>3 DEF AttemptCancel, Fails
    <3>4. QED
      BY <1>7, <3>1, <3>2, <3>3
  <2>4. QED
    BY <2>1, <2>2, <2>3, UnsentWork
<1>8. ASSUME NEW d \in Dispatchers, phase[d] \in Busy
      PROVE  /\ cur[d] \in Orders /\ cur[d] \in batch[d] /\ status[cur[d]] = "processing"
             /\ \A e \in Dispatchers \ {d} : cur[d] \notin batch[e]
  BY <1>8 DEF TypeOK, Ownership, Claimed, WorkersDisjoint
<1>9. ASSUME NEW d \in Dispatchers, AttemptSend(d) PROVE Unsent(o)'
  <2>1. PICK outcome \in Outcomes :
           /\ ErpSend(cur[d], NextKey(cur[d]), saw[d], outcome)
           /\ IF outcome = "ok"
              THEN /\ phase' = [phase EXCEPT ![d] = "finish"]
                   /\ next' = [next EXCEPT ![d] = "sent"]
              ELSE Fails(d, outcome = "refused")
    BY <1>9 DEF AttemptSend
  <2>2. phase[d] = "send" /\ UNCHANGED <<status, sentCount, batch, cur>>
    BY <1>9 DEF AttemptSend
  <2>3. /\ cur[d] \in Orders /\ cur[d] \in batch[d] /\ status[cur[d]] = "processing"
        /\ \A e \in Dispatchers \ {d} : cur[d] \notin batch[e]
    BY <1>8, <2>2 DEF Busy
  <2>4. \A e \in Dispatchers \ {d} : phase'[e] = phase[e] /\ next'[e] = next[e]
    BY <1>0, <2>1 DEF Fails
  <2>5. CASE known'[o] = known[o]
    BY <2>2, <2>4, <2>5, UnsentWork
  <2>6. CASE known'[o] # known[o]
    <3>1. cur[d] = o
      <4>1. NextKey(cur[d]) \in Versions
        BY <1>0, <2>3 DEF NextKey, Versions
      <4>2. \A p \in Orders \ {cur[d]} : known'[p] = known[p]
        BY <1>0, <2>1, <2>3, <4>1, ErpSendEffect
      <4>3. QED
        BY <2>6, <4>2
    <3>2. PICK e \in Dispatchers : cur[e] = o /\ phase[e] = "send" /\ next'[e] = "sent"
      BY <2>6 DEF SendsAreAnswered, vars
    <3>3. e = d
      BY <1>8, <2>3, <3>1, <3>2 DEF Busy
    <3>4. phase'[d] = "finish" /\ next'[d] = "sent"
      <4>1. CASE outcome = "ok"
        BY <1>0, <2>1, <3>2, <3>3, <4>1
      <4>2. CASE outcome # "ok"
        <5>1. next'[d] = Failure(d, outcome = "refused")
          BY <1>0, <2>1, <4>2 DEF Fails
        <5>2. QED
          BY <3>2, <3>3, <5>1 DEF Failure
      <4>3. QED
        BY <4>1, <4>2
    <3>5. QED
      BY <2>2, <2>3, <3>1, <3>4 DEF Unsent
  <2>7. QED
    BY <2>5, <2>6
<1>10. ASSUME NEW d \in Dispatchers, Finish(d) PROVE Unsent(o)'
  <2>1. /\ phase[d] = "finish" /\ UNCHANGED known
        /\ status' = [status EXCEPT ![cur[d]] = next[d]]
        /\ sentCount' = [sentCount EXCEPT ![cur[d]] = IF next[d] = "sent" THEN @ + 1 ELSE @]
    BY <1>10 DEF Finish
  <2>2. /\ \A e \in Dispatchers \ {d} :
              /\ batch'[e] = batch[e] /\ cur'[e] = cur[e]
              /\ phase'[e] = phase[e] /\ next'[e] = next[e]
        /\ batch'[d] = batch[d] \ {cur[d]}
    BY <1>0, <1>10 DEF Finish, Between
  <2>3. cur[d] \in Orders /\ cur[d] \in batch[d]
    BY <1>8, <2>1 DEF Busy
  <2>4. CASE cur[d] = o
    <3>1. CASE next[d] = "sent"
      <4>1. NextKey(o)' = NextKey(o) + 1 /\ NextKey(o) \in Nat
        BY <1>0, <2>1, <2>4, <3>1 DEF NextKey
      <4>2. NextKey(o)' \notin known[o]
        BY <4>1 DEF Recorded
      <4>3. QED
        BY <2>1, <4>2 DEF Unsent
    <3>2. CASE next[d] # "sent"
      <4>1. NextKey(o)' = NextKey(o)
        BY <1>0, <2>1, <2>4, <3>2 DEF NextKey
      <4>2. NextKey(o) \notin known[o]
        BY <2>3, <2>4, <3>2 DEF Unsent
      <4>3. QED
        BY <2>1, <4>1, <4>2 DEF Unsent
    <3>3. QED
      BY <3>1, <3>2
  <2>5. CASE cur[d] # o
    <3>1. status'[o] = status[o] /\ sentCount'[o] = sentCount[o]
      BY <1>0, <2>1, <2>5
    <3>2. CASE NextKey(o) \in known[o]
      <4>1. o \notin batch'[d]
        BY <2>2, <2>5, <3>2, UnsentElsewhere
      <4>2. QED
        BY <2>1, <2>2, <3>1, <4>1, UnsentFrame
    <3>3. CASE NextKey(o) \notin known[o]
      BY <2>1, <3>1, <3>3 DEF Unsent, NextKey
    <3>4. QED
      BY <3>2, <3>3
  <2>6. QED
    BY <2>4, <2>5
<1>11. ASSUME NEW p \in Orders, CancelCall(p) PROVE Unsent(o)'
  BY <1>2, <1>11 DEF CancelCall, ErpCancel
<1>12. QED
  BY <1>2, <1>3, <1>4, <1>5, <1>6, <1>7, <1>9, <1>10, <1>11
     DEF Next, RequestStep, CancellerStep, WorkerStep, Checkout, Edit, PaidByGateway,
         AskResend, CancelOrder, ResendRead, RequestFails, CancelRead, BackoffElapses,
         vars

\* A row that says 'cancelled' has nothing alive at the ERP.
Gone(o) == status[o] = "cancelled" => live[o] = {}
CancelledIsGone == \A o \in Orders : Gone(o)

\* Only a cancel writes 'cancelled', once nothing but a send that nobody recorded
\* could be alive; and nothing is sent for a row in that status.
LEMMA GoneStep ==
    ASSUME TypeOK, Ownership, [Next]_vars, NEW o \in Orders,
           Mirrored(o), Withdrawn(o), Unsent(o), Gone(o),
           CancelMark(o) /\ status[o] # "processing" => extId[o] = cExt[o]
    PROVE  Gone(o)'
<1>0. /\ status \in [Orders -> RowStatuses] /\ sentCount \in [Orders -> Nat]
      /\ saw \in [Dispatchers -> Nat] /\ held \in [Orders -> Nat]
      /\ known \in [Orders -> SUBSET Versions] /\ live \in [Orders -> SUBSET Versions]
  BY CancelTypes
<1>1. CASE status'[o] = status[o] /\ live'[o] \subseteq live[o]
  BY <1>1 DEF Gone
<1>2. CASE status'[o] # "cancelled"
  BY <1>2 DEF Gone
<1>3. ASSUME NEW p \in Orders, CancelCall(p) PROVE Gone(o)'
  <2>1. PICK outcome \in Outcomes : ErpCancel(p, cExt[p], outcome)
    BY <1>3 DEF CancelCall
  <2>2. live'[o] \subseteq live[o]
    BY <1>0, <2>1, ErpCancelEffect
  <2>3. QED
    BY <1>1, <1>3, <2>2 DEF CancelCall
<1>4. ASSUME NEW p \in Orders, CancelMark(p) PROVE Gone(o)'
  <2>1. UNCHANGED live
    BY <1>4 DEF CancelMark
  <2>2. CASE status'[o] = status[o]
    BY <1>1, <2>1, <2>2
  <2>3. CASE status'[o] # status[o]
    <3>1. p = o /\ cPhase[o] = "mark" /\ status[o] # "processing"
      BY <1>0, <1>4, <2>3 DEF CancelMark
    <3>2. live[o] \subseteq known[o] /\ live[o] \subseteq {extId[o], NextKey(o)}
      BY DEF Mirrored, Recorded
    <3>3. NextKey(o) \notin live[o] /\ extId[o] \notin live[o]
      BY <1>4, <3>1, <3>2 DEF Unsent, Withdrawn
    <3>4. QED
      BY <2>1, <3>2, <3>3 DEF Gone
  <2>4. QED
    BY <2>2, <2>3
<1>5. ASSUME NEW p \in Orders, NEW d \in Dispatchers, Enqueue(p, d) \/ ResendMark(p, d)
      PROVE  Gone(o)'
  <2>1. UNCHANGED live
    BY <1>5 DEF Enqueue, ResendMark
  <2>2. status'[o] = status[o] \/ status'[o] \in {"pending", "cancelling"}
    BY <1>0, <1>5 DEF Enqueue, ResendMark, InsertRow, MarkForResend
  <2>3. QED
    BY <1>1, <1>2, <2>1, <2>2
<1>6. ASSUME NEW d \in Dispatchers, Claim(d) PROVE Gone(o)'
  <2>1. UNCHANGED live
    BY <1>6 DEF Claim
  <2>2. status'[o] = status[o] \/ status'[o] = "processing"
    BY <1>0, <1>6 DEF Claim
  <2>3. QED
    BY <1>1, <1>2, <2>1, <2>2
<1>7. ASSUME NEW d \in Dispatchers, phase[d] \in Busy
      PROVE  cur[d] \in Orders /\ status[cur[d]] = "processing"
  BY <1>7 DEF TypeOK, Ownership, Claimed
<1>8. ASSUME NEW d \in Dispatchers, AttemptCancel(d) PROVE Gone(o)'
  <2>1. PICK outcome \in Outcomes : ErpCancel(cur[d], active[d], outcome)
    BY <1>8 DEF AttemptCancel
  <2>2. cur[d] \in Orders /\ UNCHANGED status
    BY <1>7, <1>8 DEF AttemptCancel, Busy
  <2>3. live'[o] \subseteq live[o]
    BY <1>0, <2>1, <2>2, ErpCancelEffect
  <2>4. QED
    BY <1>1, <2>2, <2>3
<1>9. ASSUME NEW d \in Dispatchers, AttemptSend(d) PROVE Gone(o)'
  <2>1. PICK outcome \in Outcomes : ErpSend(cur[d], NextKey(cur[d]), saw[d], outcome)
    BY <1>9 DEF AttemptSend
  <2>2. cur[d] \in Orders /\ status[cur[d]] = "processing" /\ UNCHANGED status
    BY <1>7, <1>9 DEF AttemptSend, Busy
  <2>3. CASE o = cur[d]
    BY <1>2, <2>2, <2>3
  <2>4. CASE o # cur[d]
    <3>1. NextKey(cur[d]) \in Versions
      BY <1>0, <2>2 DEF NextKey, Versions
    <3>2. live'[o] = live[o]
      BY <1>0, <2>1, <2>2, <2>4, <3>1, ErpSendEffect
    <3>3. QED
      BY <1>1, <2>2, <3>2
  <2>5. QED
    BY <2>3, <2>4
<1>10. ASSUME NEW d \in Dispatchers, Finish(d) PROVE Gone(o)'
  <2>1. phase[d] = "finish" /\ UNCHANGED live /\ status' = [status EXCEPT ![cur[d]] = next[d]]
    BY <1>10 DEF Finish
  <2>2. CASE o = cur[d]
    <3>1. next[d] \in {"sent", "pending", "cancelling", "failed"}
      BY <2>1, <2>2 DEF Mirrored, Attempt
    <3>2. QED
      BY <1>0, <1>2, <2>1, <2>2, <3>1
  <2>3. CASE o # cur[d]
    BY <1>0, <1>1, <2>1, <2>3
  <2>4. QED
    BY <2>2, <2>3
<1>11. CASE UNCHANGED <<status, live>>
  BY <1>1, <1>11
<1>12. QED
  BY <1>3, <1>4, <1>5, <1>6, <1>8, <1>9, <1>10, <1>11
     DEF Next, RequestStep, CancellerStep, WorkerStep, Checkout, Edit, PaidByGateway,
         AskResend, CancelOrder, ResendRead, RequestFails, CancelRead, BackoffElapses,
         OtherTrigger, NextRow, NextRowImpossible, AttemptRead, AttemptNoStock, Crash,
         vars

\* orderPushService.ts:137-140: a cancel that finds no external_id reports the order as
\* cancelled at the ERP.  It is, and so is every other order whose row says so, as long
\* as cancels clear what they withdrew and sends are answered.
THEOREM CancelledRowsAreGone ==
    Spec /\ [][CancelsAreCurrent]_vars /\ [][SendsAreAnswered]_vars => []CancelledIsGone
<1> DEFINE Settled == \A o \in Orders : Unsent(o) /\ Gone(o)
<1>1. Init => Settled
  BY DEF Init, Unsent, Gone, NextKey
<1>2. /\ TypeOK /\ Ownership /\ Kept /\ Settled
      /\ [Next]_vars /\ [CancelsAreCurrent]_vars /\ [SendsAreAnswered]_vars
      => Settled'
  <2> SUFFICES ASSUME TypeOK, Ownership, Kept, Settled, [Next]_vars,
                      [CancelsAreCurrent]_vars, [SendsAreAnswered]_vars, NEW o \in Orders
               PROVE  Unsent(o)' /\ Gone(o)'
    OBVIOUS
  <2>1. Mirrored(o) /\ Recorded(o) /\ Withdrawn(o) /\ Unsent(o) /\ Gone(o)
    BY DEF Kept, Mirrored
  <2>2. CancelMark(o) /\ status[o] # "processing" => extId[o] = cExt[o]
    BY MarkIsCurrent
  <2>3. QED
    BY <2>1, <2>2, UnsentStep, GoneStep
<1>3. Settled => CancelledIsGone
  BY DEF CancelledIsGone
<1> HIDE DEF Settled
<1>4. QED
  BY <1>1, <1>2, <1>3, Occupied, KeptAlways, PTL DEF Spec
=============================================================================
