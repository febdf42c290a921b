------------------------------ MODULE ErpMirror ------------------------------
(***************************************************************************)
(* What the outbound order push promises about the orders it keeps at the  *)
(* ERP, seen from the ERP's side: for each local order there is at most    *)
(* one live ERP order at a time, it carries an integration code (a version *)
(* key) that no earlier ERP order of the same local order carried, and the *)
(* previous one is cancelled before its successor exists.  OrderPush       *)
(* implements this for every local order that is not itself cancelled.     *)
(***************************************************************************)
CONSTANT Tracked            \* the local orders the promise is about

VARIABLES known,            \* known[o]: version keys the ERP has ever seen for o
          live              \* live[o]: those of them that are not cancelled

vars == <<known, live>>

Init ==
    /\ known = [o \in Tracked |-> {}]
    /\ live  = [o \in Tracked |-> {}]

\* Some version key, whatever its type, appears at the ERP.
Create(o) ==
    /\ live[o] = {}
    /\ \E v \in live'[o] :
          /\ v \notin known[o]
          /\ known' = [known EXCEPT ![o] = @ \cup {v}]
          /\ live'  = [live EXCEPT ![o] = {v}]

Cancel(o) ==
    /\ live[o] # {}
    /\ live' = [live EXCEPT ![o] = {}]
    /\ UNCHANGED known

Next == \E o \in Tracked : Cancel(o) \/ Create(o)

Spec == Init /\ [][Next]_vars
=============================================================================
