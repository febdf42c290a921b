--------------------------- MODULE MCPaymentCharges ---------------------------
(* Model-checking instances of PaymentCharges. *)
EXTENDS PaymentCharges, TLC

\* Row ids and requests are interchangeable.
Symmetry == Permutations(Charges) \cup Permutations(Callers)
=============================================================================
