---------------------- MODULE PaymentReconciliationProofs ----------------------
(***************************************************************************)
(* What dispatchPaymentReconciliation does, for every number of charges,   *)
(* requests and handlers.                                                  *)
(*                                                                         *)
(* Two sides of it.  As the code stands it does nothing: a row gets its    *)
(* first next_check_at from a check, and only rows with one are checked.   *)
(* And it is safe to mend: whichever rows come to be scheduled, polling    *)
(* them beside everything else pays no order that was not captured and     *)
(* touches no order that is paid.                                          *)
(***************************************************************************)
EXTENDS PaymentReconciliation, PaymentChargesProofs

USE GatewaysAssumption, NoChargeAssumption, OperatorAssumption, PaymentBoundsAssumption
USE DEF orderVars, rowVars, callVars, hookVars, boundVars

-----------------------------------------------------------------------------
(* As it stands.                                                           *)

\* No row is ever scheduled and no dispatch ever has one at hand.
Unscheduled == scheduled = {} /\ checking = {}

\* A step of the composition from a state where nothing is scheduled is a step of
\* PaymentCharges that schedules nothing.
LEMMA NothingDue ==
    ASSUME Unscheduled, [ReconNext]_reconVars
    PROVE  Unscheduled' /\ [Next]_vars
<1>1. CASE Next /\ UNCHANGED <<scheduled, checking>>
  BY <1>1 DEF Unscheduled
<1>2. CASE ReconcileStep
  BY <1>2 DEF ReconcileStep, ReconcileFetch, ReconcileApply, ReconcileFails, DueCharges,
              Unscheduled
<1>3. CASE UNCHANGED reconVars
  BY <1>3 DEF reconVars, Unscheduled
<1>4. QED
  BY <1>1, <1>2, <1>3 DEF ReconNext

\* The reconciliation never looks at a charge: next_check_at stays NULL in every
\* row, however many dispatches the scheduler calls.
THEOREM NeverScheduled == ReconSpec => []Unscheduled
<1>1. ReconInit => Unscheduled
  BY DEF ReconInit, Unscheduled
<1>2. Unscheduled /\ [ReconNext]_reconVars => Unscheduled'
  BY NothingDue
<1>3. QED
  BY <1>1, <1>2, PTL DEF ReconSpec

\* So the program with the scheduler is the program without it, and what is proved
\* of the one holds of the other.
THEOREM ReconcilesNothing == ReconSpec => Spec
<1>1. ReconInit => Init
  BY DEF ReconInit
<1>2. Unscheduled /\ [ReconNext]_reconVars => [Next]_vars
  BY NothingDue
<1>3. QED
  BY <1>1, <1>2, NeverScheduled, PTL DEF ReconSpec, Spec

-----------------------------------------------------------------------------
(* Whatever is scheduled.                                                  *)

\* The same dispatches with `scheduled` left open: rows come to be scheduled, and
\* cease to be, by whoever and whenever.
AnySchedule ==
    /\ Init /\ checking = {}
    /\ [][(Next /\ UNCHANGED checking) \/ ReconcileStep]_<<vars, checking>>

\* A status a dispatch fetched is the status of a charge that exists and, if it is
\* "paid", was captured.
Checked ==
    \A f \in checking :
        /\ f[1] \in Charges
        /\ f[2] \in RowStatuses \ {"none"}
        /\ f[2] = "paid" => remote[f[1]] = "captured"

\* The polled status is applied as an event is.
LEMMA PollStep ==
    ASSUME TypeOK, IInv, Checked, ReconcileStep
    PROVE  /\ TypeOK' /\ IInv' /\ Checked'
           /\ \/ UNCHANGED vars
              \/ /\ \E c \in Charges, s \in RowStatuses \ {"none"} : ApplyEvent(c, s)
                 /\ UNCHANGED remote
<1>1. ASSUME NEW c \in Charges, ReconcileFetch(c)
      PROVE  UNCHANGED vars /\ Checked'
  <2>1. c \in ext /\ UNCHANGED vars
    BY <1>1 DEF ReconcileFetch, DueCharges
  <2>2. remote[c] \in RemoteStates \ {"none"}
    BY <2>1 DEF IInv, Existing, TypeOK
  <2>3. /\ ProviderStatus(remote[c]) \in RowStatuses \ {"none"}
        /\ ProviderStatus(remote[c]) = "paid" => remote[c] = "captured"
    BY <2>2, ProviderStatusFacts
  <2>4. checking' = checking \cup {<<c, ProviderStatus(remote[c])>>} /\ UNCHANGED remote
    BY <1>1, <2>1 DEF ReconcileFetch, vars
  <2>5. QED
    BY <2>1, <2>3, <2>4 DEF Checked
<1>2. ASSUME NEW c \in Charges, ReconcileFails(c)
      PROVE  UNCHANGED vars /\ Checked'
  <2>1. checking' \subseteq checking /\ UNCHANGED vars
    BY <1>2 DEF ReconcileFails
  <2>2. QED
    BY <2>1 DEF Checked, vars
<1>3. ASSUME NEW f \in Charges \X RowStatuses, ReconcileApply(f)
      PROVE  /\ TypeOK' /\ IInv' /\ Checked'
             /\ \E c \in Charges, s \in RowStatuses \ {"none"} : ApplyEvent(c, s)
             /\ UNCHANGED remote
  <2>1. /\ f[1] \in Charges /\ f[2] \in RowStatuses \ {"none"}
        /\ f[2] = "paid" => remote[f[1]] = "captured"
        /\ ApplyEvent(f[1], f[2])
        /\ checking' \subseteq checking
        /\ UNCHANGED <<gateway, writing, ext, method, callVars, hookVars, remote, boundVars>>
    BY <1>3 DEF ReconcileApply, Checked
  <2>2. TypeOK'
    <3>1. /\ status' \in [Charges -> RowStatuses]
          /\ payStatus' \in {"unpaid", "awaiting_confirmation", "payment_failed", "paid"}
          /\ orderStatus' \in {"separado", "pago", "cancelado"}
      BY <2>1, ApplyTypes
    <3>2. QED
      BY <2>1, <3>1 DEF TypeOK
  <2>3. CallersKeep
    BY <2>1 DEF CallersKeep, Untouched
  <2>4. IInv'
    BY <2>1, <2>2, <2>3, ApplyInv
  <2>5. Checked'
    BY <2>1 DEF Checked
  <2>6. QED
    BY <2>1, <2>2, <2>4, <2>5
<1>4. UNCHANGED vars => TypeOK' /\ IInv'
  <2> SUFFICES ASSUME UNCHANGED vars PROVE TypeOK' /\ IInv'
    OBVIOUS
  <2>1. TypeOK'
    BY DEF vars, TypeOK
  <2>2. QED
    BY <2>1, IInvStep
<1>5. QED
  BY <1>1, <1>2, <1>3, <1>4 DEF ReconcileStep

\* A step of the rest of the program leaves what a dispatch fetched true: captured
\* is final.
LEMMA OtherStep ==
    ASSUME TypeOK, IInv, Checked, [Next]_vars, UNCHANGED checking
    PROVE  Checked'
<1>1. \A c \in Charges : remote[c] = "captured" => remote'[c] = "captured"
  BY GatewayStep
<1>2. QED
  BY <1>1 DEF Checked

\* The invariant of charging an order, and what dispatches hold, survive every step.
LEMMA ScheduleStep ==
    ASSUME TypeOK, IInv, Checked,
           [(Next /\ UNCHANGED checking) \/ ReconcileStep]_<<vars, checking>>
    PROVE  TypeOK' /\ IInv' /\ Checked'
<1>1. CASE Next /\ UNCHANGED checking
  BY <1>1, TypeStep, IInvStep, OtherStep
<1>2. CASE ReconcileStep
  BY <1>2, PollStep
<1>3. CASE UNCHANGED <<vars, checking>>
  BY <1>3, TypeStep, IInvStep, OtherStep
<1>4. QED
  BY <1>1, <1>2, <1>3

THEOREM ScheduleInvariant == AnySchedule => [](TypeOK /\ IInv /\ Checked)
<1>1. Init /\ checking = {} => TypeOK /\ IInv /\ Checked
  BY IInvInit DEF IInv, Checked
<1>2. /\ TypeOK /\ IInv /\ Checked
      /\ [(Next /\ UNCHANGED checking) \/ ReconcileStep]_<<vars, checking>>
      => (TypeOK /\ IInv /\ Checked)'
  BY ScheduleStep
<1>3. QED
  BY <1>1, <1>2, PTL DEF AnySchedule

\* Polling pays no order that was not captured: whichever rows are scheduled, and
\* however late what was fetched is applied.
THEOREM PollingPaysCaptured == AnySchedule => []PaidMeansCaptured
<1>1. IInv => PaidMeansCaptured
  BY DEF IInv
<1>2. QED
  BY <1>1, ScheduleInvariant, PTL

\* With the polling too, the order is paid once, after the money was taken, closed
\* in the same transaction, and touched by nothing later but operators.
THEOREM PollingImplements == AnySchedule => PaymentSpec
<1>1. Init => Payment!Init
  BY DEF Init, Payment!Init
<1>2. /\ TypeOK /\ IInv /\ Checked /\ (TypeOK /\ IInv /\ Checked)'
      /\ [(Next /\ UNCHANGED checking) \/ ReconcileStep]_<<vars, checking>>
      => [Payment!Next]_(Payment!vars)
  <2> SUFFICES ASSUME TypeOK, IInv, Checked, IInv',
                      [(Next /\ UNCHANGED checking) \/ ReconcileStep]_<<vars, checking>>
               PROVE  [Payment!Next]_(Payment!vars)
    OBVIOUS
  <2>0. PaidMeansCaptured'
    BY DEF IInv
  <2>1. CASE [Next]_vars
    BY <2>0, <2>1, PaymentStep
  <2>2. CASE ReconcileStep /\ ~UNCHANGED vars
    <3>1. PICK c \in Charges, s \in RowStatuses \ {"none"} : ApplyEvent(c, s)
      BY <2>2, PollStep
    <3>2. UNCHANGED remote
      BY <2>2, PollStep
    <3>3. QED
      BY <2>0, <3>1, <3>2, ApplyPays
  <2>3. QED
    BY <2>1, <2>2
<1>3. QED
  BY <1>1, <1>2, ScheduleInvariant, PTL DEF AnySchedule, PaymentSpec, Payment!Spec

\* Nor does polling change a terminal status once the creation's answer is recorded.
THEOREM PollingKeepsTerminal == AnySchedule => TerminalStands
<1>1. /\ TypeOK /\ IInv /\ Checked
      /\ [(Next /\ UNCHANGED checking) \/ ReconcileStep]_<<vars, checking>>
      => [\A c \in ext : status[c] \in Terminal => status'[c] = status[c]]_vars
  <2> SUFFICES ASSUME TypeOK, IInv, Checked,
                      [(Next /\ UNCHANGED checking) \/ ReconcileStep]_<<vars, checking>>,
                      ~UNCHANGED vars, NEW c \in ext, status[c] \in Terminal
               PROVE  status'[c] = status[c]
    OBVIOUS
  <2>1. CASE Next
    BY <2>1, TerminalStep
  <2>2. CASE ReconcileStep
    <3>1. PICK d \in Charges, s \in RowStatuses \ {"none"} : ApplyEvent(d, s)
      BY <2>2, PollStep
    <3>2. c \in Charges
      BY DEF TypeOK
    <3>3. QED
      BY <3>1, <3>2, ApplyEffect
  <2>3. QED
    BY <2>1, <2>2
<1>2. QED
  BY <1>1, ScheduleInvariant, PTL DEF AnySchedule, TerminalStands
=============================================================================
