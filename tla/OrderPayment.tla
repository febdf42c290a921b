----------------------------- MODULE OrderPayment -----------------------------
(***************************************************************************)
(* What charging an order promises, seen by the customer and the seller:   *)
(* the gateway takes money in charges, one at a time and for good; the     *)
(* order is paid once, after some charge took money, and is closed in the  *)
(* same step; nothing else pays it, nothing unpays it, and besides the     *)
(* payment only operators move its status.  It knows nothing of rows,      *)
(* requests, notifications or fetches.  PaymentCharges implements it.      *)
(***************************************************************************)
CONSTANTS Charges,          \* the charges there may be for the order
          OperatorSets      \* the statuses operators set

VARIABLES captured,         \* charges whose money was taken
          paid,             \* the order counts as paid
          order             \* its status

vars == <<captured, paid, order>>

Init == captured = {} /\ ~paid /\ order = "separado"

Capture(c) ==
    /\ c \notin captured
    /\ captured' = captured \cup {c}
    /\ UNCHANGED <<paid, order>>

\* An order an operator cancelled stays cancelled.
Pay ==
    /\ ~paid /\ captured # {}
    /\ paid' = TRUE
    /\ order' = IF order = "cancelado" THEN "cancelado" ELSE "pago"
    /\ UNCHANGED captured

Operate(s) ==
    /\ order' = s
    /\ UNCHANGED <<captured, paid>>

Next == \/ \E c \in Charges : Capture(c)
        \/ Pay
        \/ \E s \in OperatorSets : Operate(s)

Spec == Init /\ [][Next]_vars
=============================================================================
