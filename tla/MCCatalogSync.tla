---------------------------- MODULE MCCatalogSync ----------------------------
(* Model-checking instances of CatalogSync. *)
EXTENDS CatalogSync, TLC

\* The instance starts with every reference for sale or gone; a change may
\* leave it there and not for sale.
MCInit == Init /\ blocked = {}

\* A behaviour with an outlived lease has no other disturbance.
LateBound == late' => disturbances' <= 1

MCSpec == MCInit /\ [][Next /\ LateBound]_vars

\* Calls are interchangeable.
Symmetry == Permutations(Calls)
=============================================================================
