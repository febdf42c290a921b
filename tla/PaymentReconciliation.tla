------------------------ MODULE PaymentReconciliation ------------------------
(***************************************************************************)
(* PaymentCharges together with dispatchPaymentReconciliation, which an    *)
(* external scheduler calls every few minutes: it asks the gateway about   *)
(* the open charges whose next_check_at has passed.                        *)
(***************************************************************************)
EXTENDS PaymentCharges

VARIABLES
    scheduled,      \* rows whose next_check_at is not NULL
    checking        \* <<c, s>>: fetched by a dispatch, not applied yet

reconVars == <<vars, scheduled, checking>>

\* A row starts without a next_check_at.
ReconInit == Init /\ scheduled = {} /\ checking = {}

DueCharges == {c \in scheduled \cap ext : status[c] \in {"pending", "processing"}}

ReconcileFetch(c) ==
    /\ c \in DueCharges
    /\ checking' = checking \cup {<<c, ProviderStatus(remote[c])>>}
    /\ UNCHANGED <<vars, scheduled>>

\* Applying reschedules the row.
ReconcileApply(f) ==
    /\ f \in checking
    /\ ApplyEvent(f[1], f[2])
    /\ checking' = checking \ {f}
    /\ scheduled' = scheduled \cup {f[1]}
    /\ UNCHANGED <<gateway, writing, ext, method, callVars, hookVars, remote, boundVars>>

\* So does the handler of a failed fetch or apply.  These are the only writes of
\* next_check_at there are.
ReconcileFails(c) ==
    /\ \/ c \in DueCharges /\ UNCHANGED checking
       \/ \E f \in checking : f[1] = c /\ checking' = checking \ {f}
    /\ scheduled' = scheduled \cup {c}
    /\ UNCHANGED vars

ReconcileStep == \/ \E c \in Charges : ReconcileFetch(c) \/ ReconcileFails(c)
                 \/ \E f \in Charges \X RowStatuses : ReconcileApply(f)

ReconNext == (Next /\ UNCHANGED <<scheduled, checking>>) \/ ReconcileStep

\* The scheduler keeps calling, and the gateway's answers keep being applied,
\* whatever else happens.
ReconSpec ==
    /\ ReconInit /\ [][ReconNext]_reconVars
    /\ \A k \in Callers : WF_reconVars(CallerStep(k) /\ UNCHANGED <<scheduled, checking>>)
    /\ \A n \in Notices :
          WF_reconVars((StripeEvent(n) \/ MercadoPagoNotice(n))
                           /\ UNCHANGED <<scheduled, checking>>)
    /\ \A f \in Notices \X RowStatuses :
          WF_reconVars(MercadoPagoApply(f) /\ UNCHANGED <<scheduled, checking>>)
    /\ \A c \in Charges : SF_reconVars(ReconcileFetch(c))
    /\ \A f \in Charges \X RowStatuses : SF_reconVars(ReconcileApply(f))

\* paymentReconciliationService.ts:11, "rede de seguranca pra quando o webhook
\* falha/atrasa": a payment whose creation was answered and recorded reaches the
\* order, even if its notification did not.
CapturedIsReconciled ==
    \A c \in Charges : (c \in ext /\ remote[c] = "captured") ~> (payStatus = "paid")
=============================================================================
