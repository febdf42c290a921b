---------------------------- MODULE MCCheckout ----------------------------
(* Checkout for TLC. *)
EXTENDS Checkout, TLC

Symmetry == Permutations(Sessions) \cup Permutations(Orders) \cup Permutations(Calls)
            \cup Permutations(Tokens)
=============================================================================
