----------------------------- MODULE MCOrderPush -----------------------------
(* Model-checking instances of OrderPush. *)
EXTENDS OrderPush, TLC

\* Dispatch slots are interchangeable; local orders are where they share a role.
Symmetry ==
    Permutations(Dispatchers) \cup Permutations(Cancellable) \cup Permutations(Tracked)
=============================================================================
